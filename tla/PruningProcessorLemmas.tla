----------------------- MODULE PruningProcessorLemmas -----------------------
(***************************************************************************)
(* The invariant of the pruning processor, and why it is preserved by the  *)
(* steps of the worker that leave the UTXO set where it is, by crashes and *)
(* by arriving blocks.  PruningProcessorProofs has the other steps and the *)
(* conclusions.  The facts on side blocks and samples of the chain serve   *)
(* PruningDataProofs, which is about the data behind the pointers.         *)
(*                                                                         *)
(* The worker and an IBD write the same pointers and neither looks at what *)
(* the other has in hand.  PruningInv says why this goes well: what a      *)
(* lowered flag implies for the sink, which of the worker's local copies   *)
(* stay below which pointer, and what each step of an IBD may rely on.     *)
(***************************************************************************)
EXTENDS PruningProcessor, WellFoundedInduction, TLAPS

Points == Samples(Chain)

PruneSteps == {"prune", "trim", "lock", "sweep", "visit", "yield", "delete"}
WorkerSteps == {"recv", "recover", "advance", "utxoBegin", "utxo", "resume", "checkpoint"} \cup PruneSteps

\* The plans of an IBD by what is still to come: the new pruning point is not
\* written yet, its UTXO set is not flagged stable yet, or only headers are left.
CatchUpPlans ==
  {<<"headers", "verify", "write", "validate", "bodies", "embodied", "clear", "download", "stable">>,
   <<"verify", "write", "validate", "bodies", "embodied", "clear", "download", "stable">>,
   <<"write", "validate", "bodies", "embodied", "clear", "download", "stable">>}

RenewalPlans ==
  {<<"validate", "bodies", "embodied", "clear", "download", "stable">>,
   <<"bodies", "embodied", "clear", "download", "stable">>,
   <<"embodied", "clear", "download", "stable">>,
   <<"clear", "download", "stable">>,
   <<"download", "stable">>,
   <<"stable">>,
   <<"bodies", "embodied", "clear", "download", "stable", "headers">>,
   <<"embodied", "clear", "download", "stable", "headers">>,
   <<"clear", "download", "stable", "headers">>,
   <<"download", "stable", "headers">>,
   <<"stable", "headers">>}

HeaderPlans == {<<"headers">>}

WorkerType ==
  [pc : WorkerSteps, sink : Chained \cup {None}, pp : Chained \cup {None},
   root : Chained \cup {None}, next : 0..N + 1 \cup {None},
   keep : SUBSET Blocks, relations : SUBSET Blocks, headers : SUBSET Blocks,
   queue : SUBSET Blocks, current : Blocks \cup {None}]

IbdType ==
  [pc : {"idle", "running"}, plan : {<<>>} \cup CatchUpPlans \cup RenewalPlans \cup HeaderPlans,
   sink : Chained \cup {None}, target : Points \cup {None}, add : Seq(Points)]

DataType == [Blocks -> {"none", "full", "header", "proof", "pastPoint", "gone"}]

TypeOK ==
  /\ pps \in Seq(Points) /\ pps # <<>>
  /\ root \in Chained /\ position \in Chained /\ sink \in Chained
  /\ stable \in BOOLEAN /\ exiting \in BOOLEAN /\ recovered \in BOOLEAN /\ overtaken \in BOOLEAN
  /\ missing \subseteq Blocks /\ data \in DataType
  /\ inbox \in Chained \cup {None}
  /\ w \in WorkerType /\ ibd \in IbdType

\* The pointers of the database: the pruning point is between the retention root
\* and the sink, and is the sink itself while its UTXO set is not there.
PointersOK ==
  /\ root <= PruningPoint /\ PruningPoint <= sink
  /\ inbox # None => inbox <= sink
  /\ missing # {} => ~stable
  /\ ~stable => sink = PruningPoint

\* A stable UTXO set: the blocks above the pruning point are there; and, unless the
\* worker was overtaken, the set is where its position says and has its diffs.
UtxoOK ==
  stable =>
    /\ \A b \in PruningPoint + 1..sink : data[b] = "full"
    /\ ~overtaken =>
         /\ utxo = position /\ position <= PruningPoint
         /\ \A b \in position + 1..sink : data[b] = "full"

\* What the worker may rely on in what it has read.
WorkerOK ==
  /\ w.pc # "recv" => w.sink \in Chained /\ w.sink <= sink
  /\ w.pc \notin {"recv", "recover", "advance"} =>
       /\ w.pp \in Chained /\ w.root \in Chained
       /\ w.root <= w.pp /\ w.pp <= PruningPoint
  /\ w.pc \in {"recover", "resume"} => ~recovered
  /\ w.pc = "advance" => recovered
  /\ w.pc \in {"utxoBegin", "utxo"} => w.next \in 0..N + 1
  /\ w.pc = "utxoBegin" /\ recovered => w.pp + PruningDepth <= sink
  /\ w.pc \in {"visit", "yield", "delete"} => w.current \in Blocks /\ ~InFuture(w.root, w.current)

\* Where the worker is with the UTXO set while that is stable.
PositionOK ==
  stable /\ ~overtaken =>
    /\ w.pc \in {"utxoBegin", "utxo"} =>
         w.pp = PruningPoint /\ (w.next = position + 1 \/ (exiting /\ w.next <= w.pp))
    /\ w.pc = "advance" \/ (w.pc = "recv" /\ recovered) => exiting \/ position = PruningPoint
    /\ w.pc \in {"resume", "checkpoint"} \cup PruneSteps => position = PruningPoint

\* What each step of an IBD may rely on.
IbdOK ==
  ibd.pc = "running" =>
    /\ ibd.plan # <<>> /\ ibd.sink \in Chained /\ ibd.target \in Points
    /\ ibd.plan \in CatchUpPlans => sink < ibd.target
    /\ Head(ibd.plan) = "write" => ibd.add # <<>> /\ Last(ibd.add) = ibd.target
    /\ ibd.plan \in RenewalPlans => ~stable /\ ibd.target = PruningPoint
    /\ Head(ibd.plan) \in {"clear", "download", "stable"} => missing = {}
    /\ Head(ibd.plan) = "download" => utxo = Partial
    /\ Head(ibd.plan) = "stable" => utxo = position /\ position = ibd.target

PruningInv == TypeOK /\ PointersOK /\ UtxoOK /\ WorkerOK /\ PositionOK /\ IbdOK

-----------------------------------------------------------------------------
(* The chain *)

\* The naturals have no infinite descent.
LEMMA Descent == IsWellFoundedOn(OpToRel(<, Nat), Nat)
BY NatLessThanWellFounded

\* Blocks of the chain are numbers, and its samples are among them.
LEMMA Numbers ==
  /\ N \in Nat /\ PruningDepth \in Nat \ {0} /\ Chained \subseteq Nat
  /\ Points \subseteq Chained /\ Genesis \in Points /\ Genesis = 0
  /\ Chained \subseteq Blocks /\ None \notin Blocks /\ Partial \notin Blocks /\ Wrong \notin Blocks
<1>1. N \in Nat /\ PruningDepth \in Nat \ {0} /\ Chained \subseteq Nat
  BY PruningAssumption, DepthAssumption DEF Chained
<1>2. DOMAIN Chain.score = Chained
  BY DEF Chain
<1>3. Points \subseteq Chained /\ Genesis \in Points /\ Genesis = 0
  BY <1>1, <1>2 DEF Points, Samples, Genesis, Chained
<1> QED
  BY <1>1, <1>3, PruningAssumption DEF Blocks

\* The sample of a block is below it.
LEMMA SampleIsLower ==
  /\ Chain.sample \in [Chained -> Chained] /\ Chain.sample[Genesis] = Genesis
  /\ \A b \in Chained \ {Genesis} : Chain.sample[b] < b
BY ChainAssumption

\* A set of chain blocks has a highest one.
LEMMA Highest ==
  ASSUME NEW T \in SUBSET Chained, T # {}
  PROVE  \E m \in T : \A d \in T : d <= m
<1> DEFINE U == {N - t : t \in T}
<1>1. U \subseteq Nat /\ U # {}
  <2>1. ASSUME NEW t \in T PROVE N - t \in Nat
    <3>1. t \in 0..N /\ N \in Nat
      BY Numbers DEF Chained
    <3> QED
      BY <3>1
  <2> QED
    BY <2>1
<1>2. PICK u \in U : \A v \in U : ~(v < u)
  <2> HIDE DEF U
  <2>1. PICK u \in U : \A v \in U : ~(<<v, u>> \in OpToRel(<, Nat))
    BY <1>1, Descent, WFMin
  <2> QED
    BY <1>1, <2>1, Zenon DEF OpToRel
<1>3. PICK m \in T : u = N - m
  BY <1>2
<1>4. ASSUME NEW d \in T PROVE d <= m
  <2>1. N - d \in U
    OBVIOUS
  <2>2. ~(N - d < N - m)
    BY <1>2, <1>3, <2>1
  <2> QED
    BY <2>2, Numbers
<1> QED
  BY <1>4

\* The samples below a block: genesis is one, and none is above it.
LEMMA SamplesBelow ==
  ASSUME NEW b \in Chained
  PROVE  /\ SamplePath[b] \subseteq Chained /\ Genesis \in SamplePath[b]
         /\ \A x \in SamplePath[b] : x <= b
<1> DEFINE closed == {S \in SUBSET Chained : b \in S /\ \A x \in S : Chain.sample[x] \in S}
<1>1. SamplePath[b] = {x \in Chained : \A S \in closed : x \in S}
  BY DEF SamplePath
<1>2. 0..b \in closed
  <2>1. \A x \in 0..b : Chain.sample[x] \in 0..b
    <3> SUFFICES ASSUME NEW x \in 0..b PROVE Chain.sample[x] \in 0..b
      OBVIOUS
    <3>1. x \in Chained
      BY Numbers DEF Chained
    <3>2. x \in Nat /\ x <= b /\ Chain.sample[x] \in 0..N /\ N \in Nat /\ b \in 0..N
      BY <3>1, SampleIsLower, Numbers DEF Chained
    <3>3. CASE x # Genesis
      <4>1. Chain.sample[x] < x
        BY <3>1, <3>3, SampleIsLower
      <4> QED
        BY <3>2, <4>1
    <3>4. CASE x = Genesis
      <4>1. Chain.sample[Genesis] = Genesis
        BY SampleIsLower
      <4> QED
        BY <3>2, <3>4, <4>1
    <3> QED
      BY <3>3, <3>4
  <2> QED
    BY <2>1, Numbers DEF Chained
<1>3. \A S \in closed : Genesis \in S
  <2> SUFFICES ASSUME NEW S \in closed PROVE Genesis \in S
    OBVIOUS
  <2>1. S \subseteq Nat /\ S # {} /\ S \subseteq Chained
    BY Numbers
  <2>2. PICK m \in S : \A v \in S : ~(<<v, m>> \in OpToRel(<, Nat))
    BY <2>1, Descent, WFMin
  <2>3. \A v \in S : ~(v < m)
    BY <2>1, <2>2, Zenon DEF OpToRel
  <2>4. Chain.sample[m] \in S
    OBVIOUS
  <2> QED
    BY <2>1, <2>3, <2>4, SampleIsLower, Zenon
<1> HIDE DEF closed
<1> QED
  BY <1>1, <1>2, <1>3, Numbers DEF Chained

\* advance_retention_period_root never goes above the new pruning point.
LEMMA RetentionRootBelow ==
  ASSUME NEW point \in Chained
  PROVE  AdvanceRetentionRoot(point) \in Chained /\ AdvanceRetentionRoot(point) <= point
<1> DEFINE enough == {b \in SamplePath[point] : b \in {root, Genesis} \/ b + Retention <= sink}
<1>1. CASE Retention = None
  BY <1>1, Numbers DEF AdvanceRetentionRoot
<1>2. CASE Retention # None
  <2>1. enough \subseteq SamplePath[point] /\ enough # {} /\ enough \in SUBSET Chained
    BY SamplesBelow
  <2>2. AdvanceRetentionRoot(point) = CHOOSE b \in enough : \A d \in enough : d <= b
    BY <1>2 DEF AdvanceRetentionRoot
  <2> HIDE DEF enough
  <2>3. \E m \in enough : \A d \in enough : d <= m
    BY <2>1, Highest
  <2>4. AdvanceRetentionRoot(point) \in enough
    BY <2>2, <2>3
  <2> QED
    BY <2>1, <2>4, SamplesBelow
<1> QED
  BY <1>1, <1>2

\* The pruning point after some were appended.
LEMMA LastAdded ==
  ASSUME NEW S, NEW s \in Seq(S), NEW t \in Seq(S), t # <<>>
  PROVE  s \o t \in Seq(S) /\ s \o t # <<>> /\ Last(s \o t) = Last(t) /\ Last(t) \in S
<1>1. Len(t) \in Nat \ {0}
  OBVIOUS
<1>2. s \o t \in Seq(S) /\ Len(s \o t) = Len(s) + Len(t) /\ (s \o t)[Len(s) + Len(t)] = t[Len(t)]
  BY <1>1
<1> QED
  BY <1>1, <1>2 DEF Last

\* The pruning point in the store is a sample.
LEMMA PointIsSample ==
  ASSUME TypeOK
  PROVE  PruningPoint \in Points
<1>1. pps \in Seq(Points) /\ Len(pps) \in Nat \ {0}
  BY DEF TypeOK
<1> QED
  BY <1>1 DEF PruningPoint, Last

-----------------------------------------------------------------------------
(* Side blocks and samples *)

\* Where side blocks hang are numbers.
LEMMA SideNumbers ==
  /\ Window \in Nat
  /\ \A b \in Side : /\ b \notin Chained /\ b \in Blocks
                     /\ SideParent[b] \in Chained /\ SideParent[b] \in Nat /\ MergedBy[b] \in Nat
                     /\ MergedBy[b] <= N => MergedBy[b] <= SideParent[b] + PruningDepth
  /\ \A b \in Blocks : Height(b) \in Nat /\ (b \notin Chained => b \in Side)
<1>1. Window \in Nat /\ \A b \in Side : b \notin Chained /\ b \in Blocks
  BY PruningAssumption DEF Blocks
<1>2. ASSUME NEW b \in Side
      PROVE  /\ SideParent[b] \in Chained /\ SideParent[b] \in Nat /\ MergedBy[b] \in Nat
             /\ MergedBy[b] <= N => MergedBy[b] <= SideParent[b] + PruningDepth
  <2>1. SideParent[b] \in Chained /\ MergedBy[b] \in 1..N + 1
    BY PruningAssumption
  <2>2. SideParent[b] \in Nat
    BY <2>1, Numbers, Zenon
  <2>3. N \in Nat
    BY Numbers
  <2>4. MergedBy[b] \in Nat
    BY <2>1, <2>3
  <2>5. \A c \in Side : MergedBy[c] <= N => MergedBy[c] <= SideParent[c] + PruningDepth
    BY PruningAssumption, DepthAssumption DEF Chained
  <2> QED
    BY <2>1, <2>2, <2>4, <2>5
<1>3. ASSUME NEW b \in Blocks PROVE Height(b) \in Nat /\ (b \notin Chained => b \in Side)
  BY <1>2, Numbers DEF Height, Blocks
<1> QED
  BY <1>1, <1>2, <1>3

\* The samples below a sample are all on its path, and nothing else is.
LEMMA PathIsComplete ==
  ASSUME NEW p \in Points
  PROVE  SamplePath[p] \subseteq Points /\ \A q \in Points : q <= p => q \in SamplePath[p]
<1> DEFINE closed == {S \in SUBSET Chained : p \in S /\ \A x \in S : Chain.sample[x] \in S}
<1>1. p \in Chained /\ SamplePath[p] = {x \in Chained : \A S \in closed : x \in S}
  BY Numbers DEF SamplePath
<1>2. Points \in closed
  <2>1. \A x \in Points : Chain.sample[x] \in Points
    BY SampleIsLower, SamplesAssumption, Numbers DEF Points
  <2> QED
    BY <2>1, Numbers
<1>3. ASSUME NEW q \in Points, q <= p, NEW S \in closed PROVE q \in S
  <2> DEFINE U == {x \in S : x \in Points /\ q <= x}
  <2>1. U \subseteq Nat /\ p \in U
    BY <1>3, Numbers, Zenon
  <2>2. PICK m \in U : \A v \in U : ~(<<v, m>> \in OpToRel(<, Nat))
    <3> HIDE DEF U
    <3> QED
      BY <2>1, Descent, WFMin
  <2>3. \A v \in U : ~(v < m)
    BY <2>1, <2>2, Zenon DEF OpToRel
  <2>4. m \in S /\ m \in Points /\ q <= m /\ m \in Nat /\ q \in Nat /\ m \in Chained
    BY <2>1, Numbers
  <2>5. CASE q < m
    <3>1. m # Genesis
      BY <2>4, <2>5, Numbers
    <3>2. Chain.sample[m] \in Points /\ q <= Chain.sample[m] /\ Chain.sample[m] < m
      BY <2>4, <2>5, <3>1, SamplesAssumption, SampleIsLower DEF Points
    <3>3. Chain.sample[m] \in U
      BY <2>4, <3>2
    <3> QED
      BY <2>3, <3>2, <3>3
  <2>6. CASE q = m
    BY <2>4, <2>6
  <2> QED
    BY <2>4, <2>5, <2>6
<1> HIDE DEF closed
<1> QED
  BY <1>1, <1>2, <1>3, Numbers

\* advance_retention_period_root stays on samples and never goes back.
LEMMA RootRises ==
  ASSUME NEW point \in Points, root \in Points, root <= point
  PROVE  AdvanceRetentionRoot(point) \in Points /\ root <= AdvanceRetentionRoot(point)
<1> DEFINE enough == {b \in SamplePath[point] : b \in {root, Genesis} \/ b + Retention <= sink}
<1>1. CASE Retention = None
  BY <1>1 DEF AdvanceRetentionRoot
<1>2. CASE Retention # None
  <2>1. root \in enough /\ enough \subseteq Points /\ enough \in SUBSET Chained
    BY PathIsComplete, Numbers, Zenon
  <2>2. AdvanceRetentionRoot(point) = CHOOSE b \in enough : \A d \in enough : d <= b
    BY <1>2 DEF AdvanceRetentionRoot
  <2> HIDE DEF enough
  <2>3. \E m \in enough : \A d \in enough : d <= m
    BY <2>1, Highest
  <2>4. AdvanceRetentionRoot(point) \in enough /\ \A d \in enough : d <= AdvanceRetentionRoot(point)
    BY <2>2, <2>3
  <2> QED
    BY <2>1, <2>4
<1> QED
  BY <1>1, <1>2

\* The past pruning points after some were appended: the old and the new ones.
LEMMA RangeOfAdded ==
  ASSUME NEW S, NEW s \in Seq(S), NEW t \in Seq(S)
  PROVE  \A q : q \in Range(s) \/ q \in Range(t) => q \in Range(s \o t)
<1>1. Len(s) \in Nat /\ Len(t) \in Nat /\ DOMAIN s = 1..Len(s) /\ DOMAIN t = 1..Len(t)
      /\ DOMAIN (s \o t) = 1..Len(s) + Len(t)
  OBVIOUS
<1>2. ASSUME NEW i \in 1..Len(s) PROVE s[i] \in Range(s \o t)
  <2>1. i \in DOMAIN (s \o t) /\ (s \o t)[i] = s[i]
    BY <1>1
  <2> QED
    BY <2>1 DEF Range
<1>3. ASSUME NEW i \in 1..Len(t) PROVE t[i] \in Range(s \o t)
  <2>1. Len(s) + i \in DOMAIN (s \o t) /\ (s \o t)[Len(s) + i] = t[i]
    BY <1>1
  <2> QED
    BY <2>1 DEF Range
<1> QED
  BY <1>1, <1>2, <1>3 DEF Range

-----------------------------------------------------------------------------
(* The steps of an IBD *)

\* Before the new pruning point is written: headers, the path, the write.
LEMMA CatchUpSteps ==
  ASSUME NEW p \in CatchUpPlans
  PROVE  /\ p # <<>> /\ Tail(p) # <<>>
         /\ Head(p) \in {"headers", "verify", "write"}
         /\ Head(p) = "headers" => Tail(p) \in CatchUpPlans /\ Head(Tail(p)) = "verify"
         /\ Head(p) = "verify" => Tail(p) \in CatchUpPlans /\ Head(Tail(p)) = "write"
         /\ Head(p) = "write" => Tail(p) \in RenewalPlans /\ Head(Tail(p)) = "validate"
<1>1. CASE p = <<"headers", "verify", "write", "validate", "bodies", "embodied", "clear", "download", "stable">>
  <2>1. p # <<>> /\ Head(p) = "headers" /\ Tail(p) = <<"verify", "write", "validate", "bodies", "embodied", "clear", "download", "stable">>
    BY <1>1
  <2>2. <<"verify", "write", "validate", "bodies", "embodied", "clear", "download", "stable">> # <<>> /\ Head(<<"verify", "write", "validate", "bodies", "embodied", "clear", "download", "stable">>) = "verify"
    OBVIOUS
  <2>3. Tail(p) \in CatchUpPlans
    BY <2>1 DEF CatchUpPlans
  <2> QED
    BY <2>1, <2>2, <2>3, Zenon
<1>2. CASE p = <<"verify", "write", "validate", "bodies", "embodied", "clear", "download", "stable">>
  <2>1. p # <<>> /\ Head(p) = "verify" /\ Tail(p) = <<"write", "validate", "bodies", "embodied", "clear", "download", "stable">>
    BY <1>2
  <2>2. <<"write", "validate", "bodies", "embodied", "clear", "download", "stable">> # <<>> /\ Head(<<"write", "validate", "bodies", "embodied", "clear", "download", "stable">>) = "write"
    OBVIOUS
  <2>3. Tail(p) \in CatchUpPlans
    BY <2>1 DEF CatchUpPlans
  <2> QED
    BY <2>1, <2>2, <2>3, Zenon
<1>3. CASE p = <<"write", "validate", "bodies", "embodied", "clear", "download", "stable">>
  <2>1. p # <<>> /\ Head(p) = "write" /\ Tail(p) = <<"validate", "bodies", "embodied", "clear", "download", "stable">>
    BY <1>3
  <2>2. <<"validate", "bodies", "embodied", "clear", "download", "stable">> # <<>> /\ Head(<<"validate", "bodies", "embodied", "clear", "download", "stable">>) = "validate"
    OBVIOUS
  <2>3. Tail(p) \in RenewalPlans
    BY <2>1 DEF RenewalPlans
  <2> QED
    BY <2>1, <2>2, <2>3, Zenon
<1> QED
  BY <1>1, <1>2, <1>3, Zenon DEF CatchUpPlans

\* From there on: validation, bodies, and the UTXO set from its removal to the flag.
LEMMA RenewalSteps ==
  ASSUME NEW p \in RenewalPlans
  PROVE  /\ p # <<>>
         /\ Head(p) \in {"validate", "bodies", "embodied", "clear", "download", "stable"}
         /\ Head(p) = "validate" => Tail(p) \in RenewalPlans /\ Head(Tail(p)) = "bodies"
         /\ Head(p) = "bodies" => Tail(p) \in RenewalPlans /\ Head(Tail(p)) = "embodied"
         /\ Head(p) = "embodied" => Tail(p) \in RenewalPlans /\ Head(Tail(p)) = "clear"
         /\ Head(p) = "clear" => Tail(p) \in RenewalPlans /\ Head(Tail(p)) = "download"
         /\ Head(p) = "download" => Tail(p) \in RenewalPlans /\ Head(Tail(p)) = "stable"
         /\ Head(p) = "stable" => Tail(p) = <<>> \/ Tail(p) \in HeaderPlans
<1>1. CASE p = <<"validate", "bodies", "embodied", "clear", "download", "stable">>
  <2>1. p # <<>> /\ Head(p) = "validate" /\ Tail(p) = <<"bodies", "embodied", "clear", "download", "stable">>
    BY <1>1
  <2>2. <<"bodies", "embodied", "clear", "download", "stable">> # <<>> /\ Head(<<"bodies", "embodied", "clear", "download", "stable">>) = "bodies"
    OBVIOUS
  <2>3. Tail(p) \in RenewalPlans
    BY <2>1 DEF RenewalPlans
  <2> QED
    BY <2>1, <2>2, <2>3, Zenon
<1>2. CASE p = <<"bodies", "embodied", "clear", "download", "stable">>
  <2>1. p # <<>> /\ Head(p) = "bodies" /\ Tail(p) = <<"embodied", "clear", "download", "stable">>
    BY <1>2
  <2>2. <<"embodied", "clear", "download", "stable">> # <<>> /\ Head(<<"embodied", "clear", "download", "stable">>) = "embodied"
    OBVIOUS
  <2>3. Tail(p) \in RenewalPlans
    BY <2>1 DEF RenewalPlans
  <2> QED
    BY <2>1, <2>2, <2>3, Zenon
<1>3. CASE p = <<"embodied", "clear", "download", "stable">>
  <2>1. p # <<>> /\ Head(p) = "embodied" /\ Tail(p) = <<"clear", "download", "stable">>
    BY <1>3
  <2>2. <<"clear", "download", "stable">> # <<>> /\ Head(<<"clear", "download", "stable">>) = "clear"
    OBVIOUS
  <2>3. Tail(p) \in RenewalPlans
    BY <2>1 DEF RenewalPlans
  <2> QED
    BY <2>1, <2>2, <2>3, Zenon
<1>4. CASE p = <<"clear", "download", "stable">>
  <2>1. p # <<>> /\ Head(p) = "clear" /\ Tail(p) = <<"download", "stable">>
    BY <1>4
  <2>2. <<"download", "stable">> # <<>> /\ Head(<<"download", "stable">>) = "download"
    OBVIOUS
  <2>3. Tail(p) \in RenewalPlans
    BY <2>1 DEF RenewalPlans
  <2> QED
    BY <2>1, <2>2, <2>3, Zenon
<1>5. CASE p = <<"download", "stable">>
  <2>1. p # <<>> /\ Head(p) = "download" /\ Tail(p) = <<"stable">>
    BY <1>5
  <2>2. <<"stable">> # <<>> /\ Head(<<"stable">>) = "stable"
    OBVIOUS
  <2>3. Tail(p) \in RenewalPlans
    BY <2>1 DEF RenewalPlans
  <2> QED
    BY <2>1, <2>2, <2>3, Zenon
<1>6. CASE p = <<"stable">>
  <2>1. p # <<>> /\ Head(p) = "stable" /\ Tail(p) = <<>>
    BY <1>6
  <2> QED
    BY <2>1
<1>7. CASE p = <<"bodies", "embodied", "clear", "download", "stable", "headers">>
  <2>1. p # <<>> /\ Head(p) = "bodies" /\ Tail(p) = <<"embodied", "clear", "download", "stable", "headers">>
    BY <1>7
  <2>2. <<"embodied", "clear", "download", "stable", "headers">> # <<>> /\ Head(<<"embodied", "clear", "download", "stable", "headers">>) = "embodied"
    OBVIOUS
  <2>3. Tail(p) \in RenewalPlans
    BY <2>1 DEF RenewalPlans
  <2> QED
    BY <2>1, <2>2, <2>3, Zenon
<1>8. CASE p = <<"embodied", "clear", "download", "stable", "headers">>
  <2>1. p # <<>> /\ Head(p) = "embodied" /\ Tail(p) = <<"clear", "download", "stable", "headers">>
    BY <1>8
  <2>2. <<"clear", "download", "stable", "headers">> # <<>> /\ Head(<<"clear", "download", "stable", "headers">>) = "clear"
    OBVIOUS
  <2>3. Tail(p) \in RenewalPlans
    BY <2>1 DEF RenewalPlans
  <2> QED
    BY <2>1, <2>2, <2>3, Zenon
<1>9. CASE p = <<"clear", "download", "stable", "headers">>
  <2>1. p # <<>> /\ Head(p) = "clear" /\ Tail(p) = <<"download", "stable", "headers">>
    BY <1>9
  <2>2. <<"download", "stable", "headers">> # <<>> /\ Head(<<"download", "stable", "headers">>) = "download"
    OBVIOUS
  <2>3. Tail(p) \in RenewalPlans
    BY <2>1 DEF RenewalPlans
  <2> QED
    BY <2>1, <2>2, <2>3, Zenon
<1>10. CASE p = <<"download", "stable", "headers">>
  <2>1. p # <<>> /\ Head(p) = "download" /\ Tail(p) = <<"stable", "headers">>
    BY <1>10
  <2>2. <<"stable", "headers">> # <<>> /\ Head(<<"stable", "headers">>) = "stable"
    OBVIOUS
  <2>3. Tail(p) \in RenewalPlans
    BY <2>1 DEF RenewalPlans
  <2> QED
    BY <2>1, <2>2, <2>3, Zenon
<1>11. CASE p = <<"stable", "headers">>
  <2>1. p # <<>> /\ Head(p) = "stable" /\ Tail(p) = <<"headers">>
    BY <1>11
  <2>2. <<"headers">> # <<>> /\ Head(<<"headers">>) = "headers"
    OBVIOUS
  <2>3. Tail(p) \in HeaderPlans
    BY <2>1 DEF HeaderPlans
  <2> QED
    BY <2>1, <2>2, <2>3
<1> QED
  BY <1>1, <1>2, <1>3, <1>4, <1>5, <1>6, <1>7, <1>8, <1>9, <1>10, <1>11, Zenon DEF RenewalPlans

\* Headers alone are one step.
LEMMA HeaderSteps ==
  ASSUME NEW p \in HeaderPlans
  PROVE  p # <<>> /\ Head(p) = "headers" /\ Tail(p) = <<>>
<1>1. p = <<"headers">>
  BY DEF HeaderPlans
<1> QED
  BY <1>1

\* The next step of a plan tells what is to come.
LEMMA PlanOfStep ==
  ASSUME NEW p \in CatchUpPlans \cup RenewalPlans \cup HeaderPlans
  PROVE  /\ Head(p) \in {"verify", "write"} => p \in CatchUpPlans
         /\ Head(p) \in {"validate", "bodies", "embodied", "clear", "download", "stable"} => p \in RenewalPlans
         /\ Head(p) = "headers" => p \notin RenewalPlans
         /\ p \in CatchUpPlans => p \notin RenewalPlans
BY CatchUpSteps, RenewalSteps, HeaderSteps

-----------------------------------------------------------------------------
(* The invariant holds initially, and the steps that touch little of it *)

\* An idle worker and no IBD are of their types.
LEMMA IdleTypes ==
  IdleWorker \in WorkerType /\ NoIbd \in IbdType
BY DEF IdleWorker, NoIbd, WorkerType, IbdType, WorkerSteps

\* Init has it: everything is at genesis, which is a sample.
LEMMA InvInit ==
  ASSUME Init
  PROVE  PruningInv
<1>1. Start
  BY DEF Init
<1>2. pps \in Seq(Points) /\ pps # <<>> /\ PruningPoint = Genesis
  BY <1>1, Numbers DEF Start, PruningPoint, Last
<1>3. TypeOK
  BY <1>1, <1>2, Numbers, IdleTypes, Zenon DEF Start, TypeOK, DataType
<1>4. PointersOK /\ UtxoOK
  BY <1>1, <1>2, Numbers DEF Start, PointersOK, UtxoOK
<1>5. WorkerOK /\ PositionOK /\ IbdOK
  BY <1>1 DEF Start, WorkerOK, PositionOK, IbdOK, IdleWorker, NoIbd, PruneSteps
<1> QED
  BY <1>3, <1>4, <1>5 DEF PruningInv

\* The parts of the invariant, with the pointers as numbers.
LEMMA Parts ==
  ASSUME PruningInv
  PROVE  /\ TypeOK /\ PointersOK /\ UtxoOK /\ WorkerOK /\ PositionOK /\ IbdOK
         /\ PruningPoint \in Points /\ PruningPoint \in Nat
         /\ sink \in Nat /\ position \in Nat /\ root \in Nat
<1>1. TypeOK /\ PruningPoint \in Points
  BY PointIsSample DEF PruningInv
<1> QED
  BY <1>1, Numbers DEF PruningInv, TypeOK

\* An IBD that runs has a plan.
LEMMA RunningPlan ==
  ASSUME PruningInv, ibd.pc = "running"
  PROVE  ibd.plan \in CatchUpPlans \cup RenewalPlans \cup HeaderPlans
BY DEF PruningInv, TypeOK, IbdType, IbdOK

\* Its UTXO set is ready to be flagged: it is at the pruning point.
LEMMA ReadySet ==
  ASSUME PruningInv, ibd.pc = "running", Head(ibd.plan) = "stable"
  PROVE  /\ ibd.plan \in RenewalPlans /\ ~stable /\ missing = {}
         /\ utxo = position /\ position = PruningPoint
<1>1. ibd.plan \in RenewalPlans
  BY RunningPlan, PlanOfStep
<1> QED
  BY <1>1 DEF PruningInv, IbdOK

\* It is about the stores, the worker and the IBD only.
LEMMA InvFrame ==
  ASSUME PruningInv,
         UNCHANGED <<pps, root, position, utxo, stable, overtaken, missing, sink, data,
                     exiting, inbox, recovered, w, ibd>>
  PROVE  PruningInv'
<1>1. PruningPoint' = PruningPoint
  BY DEF PruningPoint
<1>2. TypeOK' /\ PointersOK' /\ UtxoOK'
  BY <1>1 DEF PruningInv, TypeOK, PointersOK, UtxoOK
<1>3. WorkerOK' /\ PositionOK'
  BY <1>1 DEF PruningInv, WorkerOK, PositionOK, InFuture
<1>4. IbdOK'
  BY <1>1 DEF PruningInv, IbdOK
<1> QED
  BY <1>2, <1>3, <1>4 DEF PruningInv

\* A process that ends, in any way, leaves the stores alone and forgets the rest.
LEMMA StopStep ==
  ASSUME PruningInv, NEW reason, StopAs(reason), UNCHANGED <<storeVars, overtaken>>
  PROVE  PruningInv'
<1>1. TypeOK /\ PointersOK /\ UtxoOK
  BY DEF PruningInv
<1>2. /\ UNCHANGED <<pps, root, position, utxo, stable, overtaken, missing, sink, data>>
      /\ exiting' = FALSE /\ inbox' = None /\ recovered' = FALSE /\ w' = IdleWorker /\ ibd' = NoIbd
  BY DEF StopAs, storeVars, modelVars
<1>3. PruningPoint' = PruningPoint
  BY <1>2 DEF PruningPoint
<1>4. TypeOK'
  BY <1>1, <1>2, IdleTypes, Zenon DEF TypeOK
<1>5. PointersOK' /\ UtxoOK'
  BY <1>1, <1>2, <1>3 DEF PointersOK, UtxoOK
<1>6. WorkerOK' /\ PositionOK' /\ IbdOK'
  BY <1>2 DEF WorkerOK, PositionOK, IbdOK, IdleWorker, NoIbd, PruneSteps
<1> QED
  BY <1>4, <1>5, <1>6 DEF PruningInv

\* signal_exit only raises the flag.
LEMMA SignalExitStep ==
  ASSUME PruningInv, SignalExit
  PROVE  PruningInv'
<1>1. /\ TypeOK /\ PointersOK /\ UtxoOK /\ WorkerOK /\ PositionOK /\ IbdOK
      /\ PruningPoint \in Points /\ PruningPoint \in Nat /\ sink \in Nat /\ position \in Nat /\ root \in Nat
  BY Parts
<1>2. UNCHANGED <<pps, root, position, utxo, stable, overtaken, missing, sink, data, inbox, recovered, w, ibd>> /\ exiting' = TRUE
  BY DEF SignalExit, storeVars, modelVars
<1>3. PruningPoint' = PruningPoint
  BY <1>2 DEF PruningPoint
<1>4. TypeOK'
  BY <1>1, <1>2, <1>3, Numbers DEF TypeOK, WorkerType, WorkerSteps, PruneSteps
<1>5. PointersOK'
  BY <1>1, <1>2, <1>3 DEF PointersOK
<1>6. UtxoOK'
  BY <1>1, <1>2, <1>3 DEF UtxoOK
<1>7. WorkerOK'
  BY <1>1, <1>2, <1>3 DEF WorkerOK
<1>8. PositionOK'
  BY <1>1, <1>2, <1>3, Numbers DEF PositionOK, PruneSteps
<1>9. IbdOK'
  BY <1>1, <1>2, <1>3 DEF IbdOK
<1> QED
  BY <1>4, <1>5, <1>6, <1>7, <1>8, <1>9 DEF PruningInv

\* The channel gets the sink of the moment.
LEMMA ResolveVirtualStep ==
  ASSUME PruningInv, ResolveVirtual
  PROVE  PruningInv'
<1>1. /\ TypeOK /\ PointersOK /\ UtxoOK /\ WorkerOK /\ PositionOK /\ IbdOK
      /\ PruningPoint \in Points /\ PruningPoint \in Nat /\ sink \in Nat /\ position \in Nat /\ root \in Nat
  BY Parts
<1>2. UNCHANGED <<pps, root, position, utxo, stable, overtaken, missing, sink, data, exiting, recovered, w, ibd>> /\ inbox' = sink
  BY DEF ResolveVirtual, storeVars, modelVars
<1>3. PruningPoint' = PruningPoint
  BY <1>2 DEF PruningPoint
<1>4. TypeOK'
  BY <1>1, <1>2, <1>3, Numbers DEF TypeOK, WorkerType, WorkerSteps, PruneSteps
<1>5. PointersOK'
  BY <1>1, <1>2, <1>3, Numbers DEF PointersOK
<1>6. UtxoOK'
  BY <1>1, <1>2, <1>3 DEF UtxoOK
<1>7. WorkerOK'
  BY <1>1, <1>2, <1>3 DEF WorkerOK
<1>8. PositionOK'
  BY <1>1, <1>2, <1>3 DEF PositionOK, PruneSteps
<1>9. IbdOK'
  BY <1>1, <1>2, <1>3 DEF IbdOK
<1> QED
  BY <1>4, <1>5, <1>6, <1>7, <1>8, <1>9 DEF PruningInv

\* The worker takes a sink from its channel.
LEMMA ReceiveStep ==
  ASSUME PruningInv, Receive
  PROVE  PruningInv'
<1>1. /\ TypeOK /\ PointersOK /\ UtxoOK /\ WorkerOK /\ PositionOK /\ IbdOK
      /\ PruningPoint \in Points /\ PruningPoint \in Nat /\ sink \in Nat /\ position \in Nat /\ root \in Nat
  BY Parts
<1>2. UNCHANGED <<pps, root, position, utxo, stable, overtaken, missing, sink, data, exiting, recovered, ibd>> /\ w' = [IdleWorker EXCEPT !.pc = IF recovered THEN "advance" ELSE "recover", !.sink = inbox] /\ inbox' = None
  BY DEF Receive, WorkerUnchanged, storeVars, Goto, modelVars
<1>3. PruningPoint' = PruningPoint
  BY <1>2 DEF PruningPoint
<1>4. w.pc = "recv" /\ inbox # None
  BY DEF Receive, WorkerUnchanged, storeVars, Goto, modelVars
<1>5. (IF recovered THEN "advance" ELSE "recover") \in WorkerSteps /\ (inbox) \in Chained \cup {None}
  BY <1>1, Numbers DEF TypeOK, WorkerSteps, PruneSteps, Chained, PointersOK, WorkerOK
<1>6. w' \in WorkerType
  <2> DEFINE pc == IF recovered THEN "advance" ELSE "recover"
  <2>1. pc \in WorkerSteps /\ inbox \in Chained \cup {None}
    BY <1>5
  <2>2. w' = [IdleWorker EXCEPT !.pc = pc, !.sink = inbox]
    BY <1>2
  <2> HIDE DEF pc
  <2> QED
    BY <2>1, <2>2, IdleTypes, Zenon DEF WorkerType
<1>7. w'.pc = (IF recovered THEN "advance" ELSE "recover") /\ w'.sink = inbox /\ w'.pp = None /\ w'.root = None /\ w'.next = None /\ w'.current = None
  BY <1>2 DEF IdleWorker
<1>8. TypeOK'
  BY <1>1, <1>2, <1>6, Numbers DEF TypeOK
<1>9. PointersOK'
  BY <1>1, <1>2, <1>3, Numbers DEF PointersOK
<1>10. UtxoOK'
  BY <1>1, <1>2, <1>3 DEF UtxoOK
<1>11. WorkerOK'
  BY <1>1, <1>2, <1>4 DEF WorkerOK, PointersOK, TypeOK
<1>12. PositionOK'
  BY <1>1, <1>2, <1>3, <1>4, Numbers DEF PositionOK, PruneSteps, TypeOK
<1>13. IbdOK'
  BY <1>1, <1>2, <1>3, Numbers DEF IbdOK
<1> QED
  BY <1>8, <1>9, <1>10, <1>11, <1>12, <1>13 DEF PruningInv

\* A recovery reads the pointers that an earlier run left.
LEMMA RecoverStep ==
  ASSUME PruningInv, Recover
  PROVE  PruningInv'
<1>1. /\ TypeOK /\ PointersOK /\ UtxoOK /\ WorkerOK /\ PositionOK /\ IbdOK
      /\ PruningPoint \in Points /\ PruningPoint \in Nat /\ sink \in Nat /\ position \in Nat /\ root \in Nat
  BY Parts
<1>2. UNCHANGED <<pps, root, position, utxo, stable, overtaken, missing, sink, data, exiting, inbox, recovered, ibd>> /\ w' = [w EXCEPT !.pc = IF position # PruningPoint THEN "utxoBegin" ELSE "resume", !.pp = PruningPoint, !.root = root, !.next = position + 1]
  BY DEF Recover, WorkerUnchanged, storeVars, Goto, modelVars
<1>3. PruningPoint' = PruningPoint
  BY <1>2 DEF PruningPoint
<1>4. w.pc = "recover"
  BY DEF Recover, WorkerUnchanged, storeVars, Goto, modelVars
<1>5. (IF position # PruningPoint THEN "utxoBegin" ELSE "resume") \in WorkerSteps /\ (PruningPoint) \in Chained /\ (root) \in Chained /\ (position + 1) \in 0..N + 1
  BY <1>1, Numbers DEF TypeOK, WorkerSteps, PruneSteps, Chained, PointersOK, WorkerOK
<1>6. w' \in WorkerType
  BY <1>1, <1>2, <1>5, Zenon DEF TypeOK, WorkerType
<1>7. w'.pc = (IF position # PruningPoint THEN "utxoBegin" ELSE "resume") /\ w'.pp = PruningPoint /\ w'.root = root /\ w'.next = position + 1 /\ w'.sink = w.sink /\ w'.current = w.current
  BY <1>1, <1>2 DEF TypeOK, WorkerType
<1>8. TypeOK'
  BY <1>1, <1>2, <1>6, Numbers DEF TypeOK
<1>9. PointersOK'
  BY <1>1, <1>2, <1>3 DEF PointersOK
<1>10. UtxoOK'
  BY <1>1, <1>2, <1>3 DEF UtxoOK
<1>11. WorkerOK'
  BY <1>1, <1>2, <1>3, <1>4, <1>5, Numbers DEF WorkerOK, TypeOK, PointersOK
<1>12. PositionOK'
  BY <1>2, <1>3, Numbers DEF PositionOK, PruneSteps, TypeOK
<1>13. IbdOK'
  BY <1>1, <1>2, <1>3, ReadySet DEF IbdOK
<1> QED
  BY <1>8, <1>9, <1>10, <1>11, <1>12, <1>13 DEF PruningInv

\* advance_pruning_utxoset: a recovered worker has a pruning point that is deep enough.
LEMMA BeginAdvanceUtxosetStep ==
  ASSUME PruningInv, BeginAdvanceUtxoset
  PROVE  PruningInv'
<1>1. /\ TypeOK /\ PointersOK /\ UtxoOK /\ WorkerOK /\ PositionOK /\ IbdOK
      /\ PruningPoint \in Points /\ PruningPoint \in Nat /\ sink \in Nat /\ position \in Nat /\ root \in Nat
  BY Parts
<1>2. UNCHANGED <<pps, root, position, utxo, stable, overtaken, missing, sink, data, exiting, inbox, recovered, ibd>> /\ w' = [w EXCEPT !.pc = IF DeepBelowVirtual(w.pp) THEN "utxo" ELSE "recv"]
  BY DEF BeginAdvanceUtxoset, WorkerUnchanged, storeVars, Goto, modelVars
<1>3. PruningPoint' = PruningPoint
  BY <1>2 DEF PruningPoint
<1>4. w.pc = "utxoBegin"
  BY DEF BeginAdvanceUtxoset, WorkerUnchanged, storeVars, Goto, modelVars
<1>5. (IF DeepBelowVirtual(w.pp) THEN "utxo" ELSE "recv") \in WorkerSteps
  BY Numbers DEF TypeOK, WorkerSteps, PruneSteps, Chained, PointersOK, WorkerOK
<1>6. w' \in WorkerType
  BY <1>1, <1>2, <1>5 DEF TypeOK, WorkerType
<1>7. w'.pc = (IF DeepBelowVirtual(w.pp) THEN "utxo" ELSE "recv") /\ w'.sink = w.sink /\ w'.pp = w.pp /\ w'.root = w.root /\ w'.next = w.next /\ w'.current = w.current
  BY <1>1, <1>2 DEF TypeOK, WorkerType
<1>8. TypeOK'
  BY <1>1, <1>2, <1>6, Numbers DEF TypeOK
<1>9. PointersOK'
  BY <1>1, <1>2, <1>3 DEF PointersOK
<1>10. UtxoOK'
  BY <1>1, <1>2, <1>3 DEF UtxoOK
<1>11. WorkerOK'
  BY <1>1, <1>2, <1>3, <1>4, Numbers DEF WorkerOK, TypeOK
<1>12. PositionOK'
  BY <1>1, <1>2, <1>3, <1>4, Numbers DEF PositionOK, PruneSteps, TypeOK, WorkerOK, DeepBelowVirtual
<1>13. IbdOK'
  BY <1>1, <1>2, <1>3, <1>4, ReadySet DEF IbdOK
<1> QED
  BY <1>8, <1>9, <1>10, <1>11, <1>12, <1>13 DEF PruningInv

\* The UTXO set got to the pruning point.
LEMMA EndAdvanceUtxosetStep ==
  ASSUME PruningInv, EndAdvanceUtxoset
  PROVE  PruningInv'
<1>1. /\ TypeOK /\ PointersOK /\ UtxoOK /\ WorkerOK /\ PositionOK /\ IbdOK
      /\ PruningPoint \in Points /\ PruningPoint \in Nat /\ sink \in Nat /\ position \in Nat /\ root \in Nat
  BY Parts
<1>2. UNCHANGED <<pps, root, position, utxo, stable, overtaken, missing, sink, data, exiting, inbox, recovered, ibd>> /\ w' = [w EXCEPT !.pc = IF recovered THEN "prune" ELSE "resume"]
  BY DEF EndAdvanceUtxoset, WorkerUnchanged, storeVars, Goto, modelVars
<1>3. PruningPoint' = PruningPoint
  BY <1>2 DEF PruningPoint
<1>4. w.pc = "utxo" /\ w.next > w.pp
  BY DEF EndAdvanceUtxoset, WorkerUnchanged, storeVars, Goto, modelVars
<1>5. (IF recovered THEN "prune" ELSE "resume") \in WorkerSteps
  BY Numbers DEF TypeOK, WorkerSteps, PruneSteps, Chained, PointersOK, WorkerOK
<1>6. w' \in WorkerType
  BY <1>1, <1>2, <1>5 DEF TypeOK, WorkerType
<1>7. w'.pc = (IF recovered THEN "prune" ELSE "resume") /\ w'.sink = w.sink /\ w'.pp = w.pp /\ w'.root = w.root /\ w'.next = w.next /\ w'.current = w.current
  BY <1>1, <1>2 DEF TypeOK, WorkerType
<1>8. TypeOK'
  BY <1>1, <1>2, <1>6, Numbers DEF TypeOK
<1>9. PointersOK'
  BY <1>1, <1>2, <1>3 DEF PointersOK
<1>10. UtxoOK'
  BY <1>1, <1>2, <1>3 DEF UtxoOK
<1>11. WorkerOK'
  BY <1>1, <1>2, <1>3, <1>4, Numbers DEF WorkerOK, TypeOK
<1>12. PositionOK'
  BY <1>1, <1>2, <1>3, <1>4, <1>5, <1>6, <1>7, Numbers DEF PositionOK, PruneSteps, TypeOK, WorkerOK, UtxoOK, Chained
<1>13. IbdOK'
  BY <1>1, <1>2, <1>3, ReadySet DEF IbdOK
<1> QED
  BY <1>8, <1>9, <1>10, <1>11, <1>12, <1>13 DEF PruningInv

\* The recovery goes on to an interrupted prune, or is over.
LEMMA ResumePruneStep ==
  ASSUME PruningInv, ResumePrune
  PROVE  PruningInv'
<1>1. /\ TypeOK /\ PointersOK /\ UtxoOK /\ WorkerOK /\ PositionOK /\ IbdOK
      /\ PruningPoint \in Points /\ PruningPoint \in Nat /\ sink \in Nat /\ position \in Nat /\ root \in Nat
  BY Parts
<1>2. UNCHANGED <<pps, root, position, utxo, stable, overtaken, missing, sink, data, exiting, inbox, ibd>> /\ w' = [w EXCEPT !.pc = IF ~DeepBelowVirtual(w.pp) \/ InTransitionalIbdState THEN "recv" ELSE IF checkpoint # w.root THEN "prune" ELSE "advance"] /\ recovered' = (IF ~DeepBelowVirtual(w.pp) \/ InTransitionalIbdState \/ checkpoint # w.root THEN recovered ELSE TRUE)
  BY Zenon DEF ResumePrune, WorkerUnchanged, storeVars, Goto, modelVars
<1>3. PruningPoint' = PruningPoint
  BY <1>2 DEF PruningPoint
<1>4. w.pc = "resume"
  BY DEF ResumePrune, WorkerUnchanged, storeVars, Goto, modelVars
<1>5. (IF ~DeepBelowVirtual(w.pp) \/ InTransitionalIbdState THEN "recv" ELSE IF checkpoint # w.root THEN "prune" ELSE "advance") \in WorkerSteps
  BY Numbers DEF TypeOK, WorkerSteps, PruneSteps, Chained, PointersOK, WorkerOK
<1>6. w' \in WorkerType
  BY <1>1, <1>2, <1>5 DEF TypeOK, WorkerType
<1>7. w'.pc = (IF ~DeepBelowVirtual(w.pp) \/ InTransitionalIbdState THEN "recv" ELSE IF checkpoint # w.root THEN "prune" ELSE "advance") /\ w'.sink = w.sink /\ w'.pp = w.pp /\ w'.root = w.root /\ w'.next = w.next /\ w'.current = w.current
  BY <1>1, <1>2 DEF TypeOK, WorkerType
<1>8. TypeOK'
  BY <1>1, <1>2, <1>6, Numbers, Zenon DEF TypeOK
<1>9. PointersOK'
  BY <1>1, <1>2, <1>3 DEF PointersOK
<1>10. UtxoOK'
  BY <1>1, <1>2, <1>3 DEF UtxoOK
<1>11. WorkerOK'
  BY <1>1, <1>2, <1>3, <1>4, Numbers DEF WorkerOK, TypeOK, PointersOK
<1>12. PositionOK'
  BY <1>1, <1>2, <1>3, <1>4, Numbers DEF PositionOK, PruneSteps, TypeOK
<1>13. IbdOK'
  BY <1>1, <1>2, <1>3, ReadySet DEF IbdOK
<1> QED
  BY <1>8, <1>9, <1>10, <1>11, <1>12, <1>13 DEF PruningInv

\* Wherever prune ends, the UTXO set is at the pruning point.
LEMMA AfterPruneStep ==
  ASSUME PruningInv, AfterPrune, w.pc \in {"prune", "visit", "checkpoint"},
         UNCHANGED <<pps, root, position, utxo, stable, overtaken, missing, sink, data, exiting, inbox, ibd>>
  PROVE  PruningInv'
<1>1. /\ TypeOK /\ PointersOK /\ UtxoOK /\ WorkerOK /\ PositionOK /\ IbdOK
      /\ PruningPoint \in Points /\ PruningPoint \in Nat /\ sink \in Nat /\ position \in Nat /\ root \in Nat
  BY Parts
<1>2. UNCHANGED <<pps, root, position, utxo, stable, overtaken, missing, sink, data, exiting, inbox, ibd>> /\ w' = [w EXCEPT !.pc = IF recovered THEN "recv" ELSE "advance"] /\ recovered' = TRUE
  BY DEF AfterPrune, Goto
<1>3. PruningPoint' = PruningPoint
  BY <1>2 DEF PruningPoint
<1>4. w.pc \in {"prune", "visit", "checkpoint"}
  BY DEF AfterPrune, Goto
<1>5. (IF recovered THEN "recv" ELSE "advance") \in WorkerSteps
  BY Numbers DEF TypeOK, WorkerSteps, PruneSteps, Chained, PointersOK, WorkerOK
<1>6. w' \in WorkerType
  BY <1>1, <1>2, <1>5 DEF TypeOK, WorkerType
<1>7. w'.pc = (IF recovered THEN "recv" ELSE "advance") /\ w'.sink = w.sink /\ w'.pp = w.pp /\ w'.root = w.root /\ w'.next = w.next /\ w'.current = w.current
  BY <1>1, <1>2 DEF TypeOK, WorkerType
<1>8. TypeOK'
  BY <1>1, <1>2, <1>6, Numbers DEF TypeOK
<1>9. PointersOK'
  BY <1>1, <1>3 DEF PointersOK
<1>10. UtxoOK'
  BY <1>1, <1>3 DEF UtxoOK
<1>11. WorkerOK'
  BY <1>1, <1>2, Numbers DEF WorkerOK, TypeOK
<1>12. PositionOK'
  BY <1>1, <1>3, <1>7, Numbers DEF PositionOK, PruneSteps
<1>13. IbdOK'
  BY <1>1, <1>3, <1>7, ReadySet DEF IbdOK
<1> QED
  BY <1>8, <1>9, <1>10, <1>11, <1>12, <1>13 DEF PruningInv

\* What an IBD relies on is lost only when a pointer moves.
LEMMA IbdFrame ==
  ASSUME IbdOK, PruningPoint' = PruningPoint,
         ibd' = ibd, sink' = sink, stable' = stable, missing' = missing, utxo' = utxo, position' = position
  PROVE  IbdOK'
BY DEF IbdOK

\* prune moves on, with its pruning point and root, to a block that is not spared.
LEMMA PruneMove ==
  ASSUME PruningInv, w.pc \in PruneSteps,
         w' \in WorkerType, w'.pc \in PruneSteps \cup {"checkpoint"},
         w'.sink = w.sink, w'.pp = w.pp, w'.root = w.root,
         w'.pc \in {"visit", "yield", "delete"} => w'.current \in Blocks /\ ~InFuture(w.root, w'.current),
         UNCHANGED <<pps, root, position, utxo, stable, overtaken, missing, sink, data, exiting, inbox, recovered, ibd>>
  PROVE  PruningInv'
<1>1. /\ TypeOK /\ PointersOK /\ UtxoOK /\ WorkerOK /\ PositionOK /\ IbdOK
      /\ PruningPoint \in Points /\ PruningPoint \in Nat /\ sink \in Nat /\ position \in Nat /\ root \in Nat
  BY Parts
<1>2. UNCHANGED <<pps, root, position, utxo, stable, overtaken, missing, sink, data, exiting, inbox, recovered, ibd>>
  BY DEF TypeOK
<1>3. PruningPoint' = PruningPoint
  BY <1>2 DEF PruningPoint
<1>4. TypeOK'
  BY <1>1, <1>2 DEF TypeOK
<1>5. PointersOK'
  BY <1>1, <1>2, <1>3 DEF PointersOK
<1>6. UtxoOK'
  BY <1>1, <1>2, <1>3 DEF UtxoOK
<1>7. WorkerOK'
  BY <1>1, <1>2, <1>3 DEF WorkerOK, PruneSteps, InFuture
<1>8. PositionOK'
  <2>1. w'.pc \notin {"utxoBegin", "utxo", "advance", "recv"}
    BY DEF PruneSteps
  <2>2. stable /\ ~overtaken => position = PruningPoint
    BY <1>1 DEF PositionOK
  <2>3. stable' /\ ~overtaken' => position' = PruningPoint'
    BY <1>2, <1>3, <2>2
  <2> QED
    BY <2>1, <2>3, Zenon DEF PositionOK
<1>9. IbdOK'
  <2>1. ibd' = ibd /\ sink' = sink /\ stable' = stable /\ missing' = missing /\ utxo' = utxo /\ position' = position
    BY <1>2
  <2> QED
    BY <1>1, <1>3, <2>1, IbdFrame
<1> QED
  BY <1>4, <1>5, <1>6, <1>7, <1>8, <1>9 DEF PruningInv

\* The first write lock.
LEMMA TrimGhostdagStep ==
  ASSUME PruningInv, TrimGhostdag
  PROVE  PruningInv'
<1>1. w.pc = "trim" /\ w' = [w EXCEPT !.pc = "lock"]
  BY DEF TrimGhostdag, WorkerUnchanged, storeVars, Goto, modelVars
<1>2. UNCHANGED <<pps, root, position, utxo, stable, overtaken, missing, sink, data, exiting, inbox, recovered, ibd>>
  BY DEF TrimGhostdag, WorkerUnchanged, storeVars, Goto, modelVars
<1>3. w \in WorkerType /\ WorkerOK
  BY Parts DEF TypeOK
<1>4. w' \in WorkerType
  BY <1>1, <1>3 DEF WorkerType, WorkerSteps, PruneSteps
<1>5. w'.pc = "lock" /\ w'.sink = w.sink /\ w'.pp = w.pp /\ w'.root = w.root /\ w'.current = w.current
  BY <1>1, <1>3 DEF WorkerType
<1> QED
  BY <1>1, <1>2, <1>3, <1>4, <1>5, PruneMove DEF PruneSteps, WorkerOK

\* The write lock again, after the readers.
LEMMA ReacquireStep ==
  ASSUME PruningInv, Reacquire
  PROVE  PruningInv'
<1>1. w.pc = "yield" /\ w' = [w EXCEPT !.pc = "delete"]
  BY DEF Reacquire, WorkerUnchanged, storeVars, Goto, modelVars
<1>2. UNCHANGED <<pps, root, position, utxo, stable, overtaken, missing, sink, data, exiting, inbox, recovered, ibd>>
  BY DEF Reacquire, WorkerUnchanged, storeVars, Goto, modelVars
<1>3. w \in WorkerType /\ WorkerOK
  BY Parts DEF TypeOK
<1>4. w' \in WorkerType
  BY <1>1, <1>3 DEF WorkerType, WorkerSteps, PruneSteps
<1>5. w'.pc = "delete" /\ w'.sink = w.sink /\ w'.pp = w.pp /\ w'.root = w.root /\ w'.current = w.current
  BY <1>1, <1>3 DEF WorkerType
<1> QED
  BY <1>1, <1>2, <1>3, <1>4, <1>5, PruneMove DEF PruneSteps, WorkerOK

\* The traversal is over.
LEMMA EndSweepStep ==
  ASSUME PruningInv, EndSweep
  PROVE  PruningInv'
<1>1. w.pc = "sweep" /\ w' = [w EXCEPT !.pc = "checkpoint"]
  BY DEF EndSweep, WorkerUnchanged, storeVars, Goto, modelVars
<1>2. UNCHANGED <<pps, root, position, utxo, stable, overtaken, missing, sink, data, exiting, inbox, recovered, ibd>>
  BY DEF EndSweep, WorkerUnchanged, storeVars, Goto, modelVars
<1>3. w \in WorkerType /\ WorkerOK
  BY Parts DEF TypeOK
<1>4. w' \in WorkerType
  BY <1>1, <1>3 DEF WorkerType, WorkerSteps, PruneSteps
<1>5. w'.pc = "checkpoint" /\ w'.sink = w.sink /\ w'.pp = w.pp /\ w'.root = w.root /\ w'.current = w.current
  BY <1>1, <1>3 DEF WorkerType
<1> QED
  BY <1>1, <1>2, <1>3, <1>4, <1>5, PruneMove DEF PruneSteps, WorkerOK

\* prune begins with what the pruning point in the store asks to keep.
LEMMA BeginPruneStep ==
  ASSUME PruningInv, BeginPrune
  PROVE  PruningInv'
<1>1. w.pc = "prune" /\ w \in WorkerType /\ WorkerOK /\ pps \in Seq(Points)
  BY Parts DEF BeginPrune, TypeOK
<1>2. CASE Archival
  <2>1. AfterPrune /\ UNCHANGED <<pps, root, position, utxo, stable, overtaken, missing, sink, data, exiting, inbox, ibd>>
    BY <1>2 DEF BeginPrune, WorkerUnchanged, storeVars, modelVars
  <2> QED
    BY <1>1, <2>1, AfterPruneStep
<1>3. CASE ~Archival /\ (PruningPoint # w.pp \/ ~DeepBelowVirtual(PruningPoint))
  BY <1>3, StopStep DEF BeginPrune, Panic, modelVars
<1>4. CASE ~Archival /\ ~(PruningPoint # w.pp \/ ~DeepBelowVirtual(PruningPoint))
  <2> DEFINE keep == KeepBlocks(w.pp)
             relations == KeepRelations(w.pp)
             headers == {pps[i] : i \in 1..Len(pps) - 1}
  <2>1. /\ w' = [w EXCEPT !.pc = "trim", !.keep = keep, !.relations = relations, !.headers = headers]
        /\ UNCHANGED <<pps, root, position, utxo, stable, overtaken, missing, sink, data, exiting, inbox, recovered, ibd>>
    BY <1>4 DEF BeginPrune, WorkerUnchanged, storeVars, modelVars
  <2>2. w.pp \in Blocks
    BY <1>1, Numbers, Zenon DEF WorkerOK
  <2>3. keep \subseteq Blocks /\ relations \subseteq Blocks
    BY <2>2 DEF KeepBlocks, KeepRelations, Blocks
  <2>4. headers \subseteq Blocks
    <3>1. \A i \in 1..Len(pps) - 1 : pps[i] \in Points
      BY <1>1
    <3> QED
      BY <3>1, Numbers, Zenon
  <2> HIDE DEF keep, relations, headers
  <2>5. w' \in WorkerType
    BY <1>1, <2>1, <2>3, <2>4, Zenon DEF WorkerType, WorkerSteps, PruneSteps
  <2>6. w'.pc = "trim" /\ w'.sink = w.sink /\ w'.pp = w.pp /\ w'.root = w.root
    BY <1>1, <2>1 DEF WorkerType
  <2> QED
    BY <1>1, <2>1, <2>5, <2>6, PruneMove DEF PruneSteps
<1> QED
  BY <1>2, <1>3, <1>4

\* The selected chain below the root goes, and the traversal starts.
LEMMA BeginSweepStep ==
  ASSUME PruningInv, BeginSweep
  PROVE  PruningInv'
<1>1. w.pc = "lock" /\ w \in WorkerType
  BY Parts DEF BeginSweep, TypeOK
<1>2. CASE w.root = w.pp /\ w.root < chainLow
  BY <1>2, StopStep DEF BeginSweep, Panic, modelVars
<1>3. CASE ~(w.root = w.pp /\ w.root < chainLow)
  <2>1. /\ w' = [w EXCEPT !.pc = "sweep", !.queue = TreeRoots]
        /\ UNCHANGED <<pps, root, position, utxo, stable, overtaken, missing, sink, data, exiting, inbox, recovered, ibd>>
    BY <1>3 DEF BeginSweep, WorkerUnchanged, modelVars
  <2>2. TreeRoots \subseteq Blocks
    BY DEF TreeRoots
  <2>3. w' \in WorkerType
    BY <1>1, <2>1, <2>2, Zenon DEF WorkerType, WorkerSteps, PruneSteps
  <2>4. w'.pc = "sweep" /\ w'.sink = w.sink /\ w'.pp = w.pp /\ w'.root = w.root
    BY <1>1, <2>1 DEF WorkerType
  <2> QED
    BY <1>1, <2>1, <2>3, <2>4, PruneMove DEF PruneSteps
<1> QED
  BY <1>2, <1>3

\* A block in the future of the retention root is spared.
LEMMA VisitStep ==
  ASSUME PruningInv, NEW b \in Blocks, Visit(b)
  PROVE  PruningInv'
<1>1. /\ w.pc = "sweep" /\ w \in WorkerType
      /\ UNCHANGED <<pps, root, position, utxo, stable, overtaken, missing, sink, data, exiting, inbox, recovered, ibd>>
  BY Parts DEF Visit, TypeOK, WorkerUnchanged, storeVars, modelVars
<1>2. CASE Spared(b)
  <2>1. w' = [w EXCEPT !.queue = @ \ {b}]
    BY <1>2 DEF Visit
  <2>2. w' \in WorkerType
    BY <1>1, <2>1 DEF WorkerType
  <2>3. w'.pc = "sweep" /\ w'.sink = w.sink /\ w'.pp = w.pp /\ w'.root = w.root
    BY <1>1, <2>1 DEF WorkerType
  <2> QED
    BY <1>1, <2>2, <2>3, PruneMove DEF PruneSteps
<1>3. CASE ~Spared(b)
  <2> DEFINE more == IF b \in Chained THEN TreeChildren(b) ELSE {}
  <2>1. w' = [w EXCEPT !.queue = (@ \ {b}) \cup more, !.current = b, !.pc = "visit"]
    BY <1>3 DEF Visit
  <2>2. more \subseteq Blocks
    BY DEF TreeChildren
  <2> HIDE DEF more
  <2>3. w' \in WorkerType
    BY <1>1, <2>1, <2>2, Zenon DEF WorkerType, WorkerSteps, PruneSteps
  <2>4. w'.pc = "visit" /\ w'.sink = w.sink /\ w'.pp = w.pp /\ w'.root = w.root /\ w'.current = b
    BY <1>1, <2>1 DEF WorkerType
  <2>5. ~InFuture(w.root, b)
    BY <1>3 DEF Spared
  <2> QED
    BY <1>1, <2>3, <2>4, <2>5, PruneMove DEF PruneSteps
<1> QED
  BY <1>2, <1>3

\* Between two blocks prune stops when exiting, or lets the readers in.
LEMMA YieldStep ==
  ASSUME PruningInv, Yield
  PROVE  PruningInv'
<1>1. /\ w.pc = "visit" /\ w \in WorkerType /\ WorkerOK
      /\ UNCHANGED <<pps, root, position, utxo, stable, overtaken, missing, sink, data, exiting, inbox, ibd>>
  BY Parts DEF Yield, TypeOK, WorkerUnchanged, storeVars, modelVars
<1>2. CASE exiting
  BY <1>1, <1>2, AfterPruneStep DEF Yield
<1>3. CASE ~exiting
  <2>1. w' = [w EXCEPT !.pc = "yield"] /\ recovered' = recovered
    BY <1>3 DEF Yield, Goto
  <2>2. w' \in WorkerType
    BY <1>1, <2>1 DEF WorkerType, WorkerSteps, PruneSteps
  <2>3. w'.pc = "yield" /\ w'.sink = w.sink /\ w'.pp = w.pp /\ w'.root = w.root /\ w'.current = w.current
    BY <1>1, <2>1 DEF WorkerType
  <2> QED
    BY <1>1, <2>1, <2>2, <2>3, PruneMove DEF PruneSteps, WorkerOK
<1> QED
  BY <1>2, <1>3

\* set_retention_checkpoint ends prune.
LEMMA SetCheckpointStep ==
  ASSUME PruningInv, SetCheckpoint
  PROVE  PruningInv'
<1>1. /\ w.pc = "checkpoint" /\ AfterPrune
      /\ UNCHANGED <<pps, root, position, utxo, stable, overtaken, missing, sink, data, exiting, inbox, ibd>>
  BY DEF SetCheckpoint, WorkerUnchanged, modelVars
<1> QED
  BY <1>1, AfterPruneStep

\* A deleted block is below the retention root, and so below the UTXO set: no diff that is still needed goes.
LEMMA DeleteStep ==
  ASSUME PruningInv, Delete
  PROVE  PruningInv'
<1>1. /\ TypeOK /\ PointersOK /\ UtxoOK /\ WorkerOK /\ PositionOK /\ IbdOK
      /\ PruningPoint \in Points /\ PruningPoint \in Nat /\ sink \in Nat /\ position \in Nat /\ root \in Nat
  BY Parts
<1>2. UNCHANGED <<pps, root, position, utxo, stable, overtaken, missing, sink, exiting, inbox, recovered, ibd>> /\ w' = [w EXCEPT !.pc = "sweep", !.current = None] /\ data' = (IF w.current \in w.keep THEN data ELSE [data EXCEPT ![w.current] = Remains(w.current)])
  BY DEF Delete, WorkerUnchanged, modelVars
<1>3. PruningPoint' = PruningPoint
  BY <1>2 DEF PruningPoint
<1>4. w.pc \in {"visit", "delete"}
  BY DEF Delete, WorkerUnchanged, modelVars
<1>5. Remains(w.current) \in {"header", "proof", "pastPoint", "gone"}
  BY DEF Remains
<1>6. data' \in DataType
  BY <1>1, <1>2, <1>5, Zenon DEF TypeOK, DataType
<1>7. w.current \in Blocks /\ ~InFuture(w.root, w.current) /\ w.root \in Chained /\ w.root <= PruningPoint
  <2>1. w.current \in Blocks /\ ~InFuture(w.root, w.current) /\ w.root \in Chained /\ w.pp \in Chained
        /\ w.root <= w.pp /\ w.pp <= PruningPoint
    BY <1>1, <1>4 DEF WorkerOK
  <2>2. w.root \in Nat /\ w.pp \in Nat
    BY <2>1, Numbers, Zenon
  <2> QED
    BY <1>1, <2>1, <2>2
<1>8. \A b \in Chained : w.root <= b => data'[b] = data[b]
  <2> SUFFICES ASSUME NEW b \in Chained, w.root <= b PROVE data'[b] = data[b]
    OBVIOUS
  <2>1. b # w.current
    BY <1>7 DEF InFuture
  <2> QED
    BY <1>1, <1>2, <2>1 DEF TypeOK, DataType
<1>9. ("sweep") \in WorkerSteps /\ (None) \in Blocks \cup {None}
  BY Numbers DEF TypeOK, WorkerSteps, PruneSteps, Chained, PointersOK, WorkerOK
<1>10. w' \in WorkerType
  BY <1>1, <1>2, <1>9, Zenon DEF TypeOK, WorkerType
<1>11. w'.pc = "sweep" /\ w'.current = None /\ w'.sink = w.sink /\ w'.pp = w.pp /\ w'.root = w.root /\ w'.next = w.next
  BY <1>1, <1>2 DEF TypeOK, WorkerType
<1>12. TypeOK'
  BY <1>1, <1>2, <1>6, <1>10, Numbers DEF TypeOK
<1>13. PointersOK'
  BY <1>1, <1>2, <1>3 DEF PointersOK
<1>14. UtxoOK'
  <2> SUFFICES ASSUME stable PROVE UtxoOK'
    BY <1>2 DEF UtxoOK
  <2>1. ~overtaken => position = PruningPoint /\ utxo = position
    BY <1>1, <1>4 DEF PositionOK, PruneSteps, UtxoOK
  <2>2. ASSUME NEW b \in PruningPoint + 1..sink PROVE data'[b] = "full"
    <3>1. data[b] = "full" /\ b \in Chained /\ w.root <= b
      BY <1>1, <1>7, Numbers DEF UtxoOK, TypeOK, Chained
    <3> QED
      BY <1>8, <3>1
  <2> QED
    BY <1>1, <1>2, <1>3, <2>1, <2>2 DEF UtxoOK
<1>15. WorkerOK'
  BY <1>1, <1>2, <1>3, <1>4 DEF WorkerOK
<1>16. PositionOK'
  BY <1>1, <1>2, <1>3, <1>4 DEF PositionOK, PruneSteps
<1>17. IbdOK'
  BY <1>1, <1>2, <1>3 DEF IbdOK
<1> QED
  BY <1>12, <1>13, <1>14, <1>15, <1>16, <1>17 DEF PruningInv

\* A header of a block nobody merges.
LEMMA ProcessHeaderStep ==
  ASSUME NEW b \in Side, PruningInv, ProcessHeader(b)
  PROVE  PruningInv'
<1>1. /\ TypeOK /\ PointersOK /\ UtxoOK /\ WorkerOK /\ PositionOK /\ IbdOK
      /\ PruningPoint \in Points /\ PruningPoint \in Nat /\ sink \in Nat /\ position \in Nat /\ root \in Nat
  BY Parts
<1>2. UNCHANGED <<pps, root, position, utxo, stable, overtaken, missing, sink, exiting, inbox, recovered, w, ibd>> /\ data' = [data EXCEPT ![b] = "header"]
  BY DEF ProcessHeader, modelVars
<1>3. PruningPoint' = PruningPoint
  BY <1>2 DEF PruningPoint
<1>4. data' \in DataType
  BY <1>1, <1>2, Zenon DEF TypeOK, DataType
<1>5. \A c \in Chained : data'[c] = data[c]
  BY <1>1, <1>2, Numbers, PruningAssumption DEF TypeOK, DataType
<1>6. TypeOK'
  BY <1>1, <1>2, <1>4 DEF TypeOK
<1>7. PointersOK'
  BY <1>1, <1>2, <1>3 DEF PointersOK
<1>8. UtxoOK'
  BY <1>1, <1>2, <1>3, <1>5, Numbers DEF UtxoOK, TypeOK, Chained
<1>9. WorkerOK'
  BY <1>1, <1>2, <1>3 DEF WorkerOK
<1>10. PositionOK'
  BY <1>1, <1>2, <1>3 DEF PositionOK, PruneSteps
<1>11. IbdOK'
  BY <1>1, <1>2, <1>3 DEF IbdOK
<1> QED
  BY <1>6, <1>7, <1>8, <1>9, <1>10, <1>11 DEF PruningInv

\* Its body.
LEMMA BodyStep ==
  ASSUME NEW b \in Side, PruningInv, data' = [data EXCEPT ![b] = "full"],
         UNCHANGED <<pps, root, position, utxo, stable, overtaken, missing, sink, exiting, inbox, recovered, w, ibd>>
  PROVE  PruningInv'
<1>1. /\ TypeOK /\ PointersOK /\ UtxoOK /\ WorkerOK /\ PositionOK /\ IbdOK
      /\ PruningPoint \in Points /\ PruningPoint \in Nat /\ sink \in Nat /\ position \in Nat /\ root \in Nat
  BY Parts
<1>2. UNCHANGED <<pps, root, position, utxo, stable, overtaken, missing, sink, exiting, inbox, recovered, w, ibd>> /\ data' = [data EXCEPT ![b] = "full"]
  BY DEF TypeOK
<1>3. PruningPoint' = PruningPoint
  BY <1>2 DEF PruningPoint
<1>4. data' \in DataType
  BY <1>1, <1>2, Zenon DEF TypeOK, DataType
<1>5. \A c \in Chained : data'[c] = data[c]
  BY <1>1, <1>2, Numbers, PruningAssumption DEF TypeOK, DataType
<1>6. TypeOK'
  BY <1>1, <1>2, <1>4 DEF TypeOK
<1>7. PointersOK'
  BY <1>1, <1>3 DEF PointersOK
<1>8. UtxoOK'
  BY <1>1, <1>3, Numbers DEF UtxoOK, TypeOK, Chained
<1>9. WorkerOK'
  BY <1>1, <1>3 DEF WorkerOK
<1>10. PositionOK'
  BY <1>1, <1>3 DEF PositionOK, PruneSteps
<1>11. IbdOK'
  BY <1>1, <1>3 DEF IbdOK
<1> QED
  BY <1>6, <1>7, <1>8, <1>9, <1>10, <1>11 DEF PruningInv

\* process_body: the body, or the unwrap of a status that is gone.
LEMMA ProcessBodyStep ==
  ASSUME PruningInv, NEW b \in Side, ProcessBody(b)
  PROVE  PruningInv'
<1>1. CASE ~HasStatus(b) /\ Panic("status of a pruned block")
  BY <1>1, StopStep DEF Panic, modelVars
<1>2. CASE /\ data' = [data EXCEPT ![b] = "full"]
           /\ UNCHANGED <<pps, root, position, utxo, stable, overtaken, missing, sink, exiting, inbox, recovered, w, ibd>>
  BY <1>2, BodyStep, Zenon
<1> QED
  BY <1>1, <1>2 DEF ProcessBody, modelVars

\* A new sink comes with its block in full, so the diffs above the UTXO set stay complete.
LEMMA AddBlockStep ==
  ASSUME PruningInv, AddBlock
  PROVE  PruningInv'
<1>1. /\ TypeOK /\ PointersOK /\ UtxoOK /\ WorkerOK /\ PositionOK /\ IbdOK
      /\ PruningPoint \in Points /\ PruningPoint \in Nat /\ sink \in Nat /\ position \in Nat /\ root \in Nat
  BY Parts
<1>2. UNCHANGED <<pps, root, position, utxo, stable, overtaken, missing, exiting, recovered, w, ibd>> /\ sink' = sink + 1 /\ inbox' = sink + 1 /\ data' = [b \in Blocks |->
         IF b = sink + 1 \/ (b \in Side /\ MergedBy[b] = sink + 1) THEN "full" ELSE data[b]]
  BY DEF AddBlock, modelVars
<1>3. PruningPoint' = PruningPoint
  BY <1>2 DEF PruningPoint
<1>4. sink < N /\ ibd.pc = "idle" /\ stable /\ sink + 1 \in Chained
  BY <1>1, Numbers DEF AddBlock, InTransitionalIbdState, Chained
<1>5. data' \in DataType
  BY <1>1, <1>2 DEF TypeOK, DataType
<1>6. \A c \in Chained : data'[c] = IF c = sink + 1 THEN "full" ELSE data[c]
  BY <1>2, Numbers, PruningAssumption
<1>7. TypeOK'
  BY <1>1, <1>2, <1>4, <1>5 DEF TypeOK
<1>8. PointersOK'
  BY <1>1, <1>2, <1>3, <1>4 DEF PointersOK
<1>9. UtxoOK'
  <2>1. ASSUME NEW low \in Nat, \A b \in low + 1..sink : data[b] = "full",
               NEW b \in low + 1..sink + 1
        PROVE  data'[b] = "full"
    <3>1. CASE b = sink + 1
      BY <1>4, <1>6, <3>1
    <3>2. CASE b # sink + 1
      <4>1. b \in low + 1..sink /\ b \in Chained
        BY <1>1, <1>4, <3>2, Numbers DEF Chained
      <4> QED
        BY <1>6, <2>1, <3>2, <4>1
    <3> QED
      BY <3>1, <3>2
  <2>2. \A b \in PruningPoint + 1..sink + 1 : data'[b] = "full"
    BY <1>1, <1>4, <2>1 DEF UtxoOK
  <2>3. ~overtaken => /\ utxo = position /\ position <= PruningPoint
                      /\ \A b \in position + 1..sink + 1 : data'[b] = "full"
    BY <1>1, <1>4, <2>1 DEF UtxoOK
  <2> QED
    BY <1>2, <1>3, <2>2, <2>3 DEF UtxoOK
<1>10. WorkerOK'
  <2>1. /\ w.pc # "recv" => w.sink \in Nat /\ w.sink <= sink
        /\ w.pc = "utxoBegin" => w.pp \in Nat
    BY <1>1, Numbers, Zenon DEF WorkerOK
  <2>2. /\ w.pc # "recv" => w.sink <= sink + 1
        /\ w.pc = "utxoBegin" /\ recovered => w.pp + PruningDepth <= sink + 1
    BY <1>1, <2>1, Numbers DEF WorkerOK
  <2> QED
    BY <1>1, <1>2, <1>3, <2>2 DEF WorkerOK, InFuture
<1>11. PositionOK'
  BY <1>1, <1>2, <1>3 DEF PositionOK, PruneSteps
<1>12. IbdOK'
  BY <1>2, <1>4 DEF IbdOK
<1> QED
  BY <1>7, <1>8, <1>9, <1>10, <1>11, <1>12 DEF PruningInv

=============================================================================
