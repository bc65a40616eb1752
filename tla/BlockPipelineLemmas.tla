------------------------ MODULE BlockPipelineLemmas ------------------------
(***************************************************************************)
(* The invariant of the block pipeline and why submissions and the steps   *)
(* of the header stage preserve it, for any DAG, any submissions and any   *)
(* faults, given the invariants of the two dependency managers.            *)
(* BlockPipelineProofs has the other steps and the conclusions.            *)
(*                                                                         *)
(* The parts of PipeInv build on each other: where each task is (Placed),  *)
(* what the managers promise of tasks that run makes their verdicts stable *)
(* (Verdicts), so that bodies are only ever added on top of bodies         *)
(* (Bodies); the sink search relies on that (Search), and refusals on the  *)
(* order in which tasks pass the two stages (Order, Refusals).             *)
(***************************************************************************)
EXTENDS BlockPipeline, TLAPS

-----------------------------------------------------------------------------
(* The invariant *)

HeaderSteps == Results \cup {"start", "commit", "markInvalid"}
BodySteps == HeaderSteps \cup {"notify", "panic"}
Messages == Task \cup {Exit}

TypeOK ==
  /\ headerChan \in Seq(Messages) /\ bodyChan \in Seq(Messages) /\ virtualChan \in Seq(Messages)
  /\ submitted \in Seq(Task)
  /\ hStep \in [Task -> HeaderSteps] /\ bStep \in [Task -> BodySteps]
  /\ statuses \in [Hash -> Statuses]
  /\ bodyTips \subseteq Hash /\ vTips \subseteq Hash /\ vHeap \subseteq Hash /\ sink \in Hash
  /\ vWorker \in {"receiving", "resolving", "searching", "answering", "exiting", "exited"}
  /\ blockResult \in [Task -> Results \cup {"pending"}]

In(chan, t) == \E i \in DOMAIN chan : chan[i] = t
Ahead(chan, u, t) == \E i, j \in DOMAIN chan : i < j /\ chan[i] = u /\ chan[j] = t
Once(chan) == \A i, j \in DOMAIN chan : chan[i] = chan[j] /\ chan[i] \in Task => i = j

HeaderHas(t) == H!Queued(t) \/ t \in hEnded
BodyHas(t) == B!Queued(t) \/ t \in bEnded

\* Where a task is: a caller submits it once, and it moves on from there.
Placed ==
  /\ Once(headerChan) /\ Once(bodyChan) /\ Once(submitted)
  /\ \A t \in Task :
       /\ WasSubmitted(t) <=> In(headerChan, t) \/ HeaderHas(t)
       /\ In(headerChan, t) => ~HeaderHas(t)
       /\ In(bodyChan, t) => t \in hEnded /\ ~BodyHas(t)
       /\ BodyHas(t) => t \in hEnded
       /\ t \notin hRunning => hStep[t] = "start"
       /\ t \notin bRunning => bStep[t] = "start"

\* What a running task found out is so until it ends.
Verdicts ==
  /\ \A t \in hRunning :
       /\ hStep[t] \in {"commit", "markInvalid"} =>
            /\ statuses[HashOf[t]] = "None"
            /\ t \notin TrustedTask => \A p \in ParentSet(HashOf[t]) : statuses[p] # "None"
       /\ hStep[t] \in Statuses => statuses[HashOf[t]] # "None"
  /\ \A t \in bRunning :
       /\ bStep[t] \in {"commit", "markInvalid"} => statuses[HashOf[t]] = "HeaderOnly"
       /\ bStep[t] = "commit" /\ t \notin TrustedTask => \A p \in ParentSet(HashOf[t]) : HasBody(p)
       /\ bStep[t] \in Statuses \cup {"notify"} => HasBody(HashOf[t])

\* The future of the finality point: a body has the bodies of its parents below
\* it, and the tips are above all of them.
Above(h) == FinalityPoint \in Past[h]
LiveTips == {h \in bodyTips : Above(h)}

Bodies ==
  /\ HasBody(FinalityPoint)
  /\ \A h \in Hash : HasBody(h) /\ Above(h) =>
       /\ h \in PastOf(LiveTips)
       /\ h # FinalityPoint => \A p \in ParentSet(h) : HasBody(p)
  /\ \A h \in bodyTips : HasBody(h)

\* The sink search, and what virtual has not seen yet.
Seen == vTips \cup {FinalityPoint}

Announced(h) ==
  \E t \in Task : HashOf[t] = h /\ \/ t \in bRunning /\ bStep[t] \in {"notify", "UTXOPending"}
                                   \/ In(virtualChan, t)

Search ==
  /\ \A h \in vTips \cup vHeap \cup {sink} : HasBody(h) /\ Above(h)
  /\ vWorker = "searching" =>
       /\ vHeap \subseteq PastOf(vTips) /\ FinalityPoint \in PastOf(vTips)
       /\ \A h \in PastOf(vTips) : Qualified(h) => h \in PastOf(vHeap)
  /\ vWorker = "answering" =>
       /\ IsBestSink(sink, vTips) /\ FinalityPoint \in PastOf(vTips)
       /\ \A h \in Chain[sink] : statuses[h] = "UTXOValid"
  /\ vWorker # "searching" => IsBestSink(sink, Seen)
  /\ vWorker # "resolving" =>
       \A h \in Hash : HasBody(h) /\ Above(h) => h \in PastOf(Seen) \/ Announced(h)

\* A task follows the earlier submissions of its parents through both stages.
Answered(t) == blockResult[t] \in Errors \/ t \in HeaderOnlyTask
Follows(t, u) == SubmittedBefore(u, t) /\ HashOf[u] \in ParentSet(HashOf[t])

Order ==
  \A t, u \in Task :
    /\ SubmittedBefore(u, t) => HeaderHas(u) \/ Ahead(headerChan, u, t)
    /\ Follows(t, u) /\ t \in hRunning => u \in hEnded
    /\ Follows(t, u) /\ (In(bodyChan, t) \/ BodyHas(t)) =>
         Answered(u) \/ BodyHas(u) \/ Ahead(bodyChan, u, t)
    /\ Follows(t, u) /\ t \in bRunning => Answered(u) \/ u \in bEnded

\* Who is answered and how.
Refused(t) ==
  \E p \in ParentSet(HashOf[t]) :
    \A u \in Task : HashOf[u] = p /\ SubmittedBefore(u, t) =>
      blockResult[u] \in Errors \/ (u \in HeaderOnlyTask /\ t \notin HeaderOnlyTask)

Refusals ==
  \A t \in Task :
    /\ In(headerChan, t) \/ H!Queued(t) \/ In(bodyChan, t) \/ B!Queued(t) \/ ~WasSubmitted(t) =>
         blockResult[t] = "pending"
    /\ t \in hEnded => blockResult[t] \in Errors \/ statuses[HashOf[t]] # "None"
    /\ t \in hEnded => Answered(t) \/ In(bodyChan, t) \/ BodyHas(t)
    /\ t \in bEnded => blockResult[t] \in Errors \/ HasBody(HashOf[t])
    /\ In(bodyChan, t) \/ BodyHas(t) => t \notin HeaderOnlyTask
    /\ \/ t \in hRunning /\ hStep[t] = "MissingParents"
       \/ t \in bRunning /\ bStep[t] = "MissingParents"
       \/ blockResult[t] = "MissingParents"
       => Refused(t)

PipeInv ==
  /\ TypeOK /\ Placed /\ Verdicts /\ Bodies /\ Search /\ Order /\ Refusals

-----------------------------------------------------------------------------
(* The DAG: past and selected chain are least closed sets. *)

\* Parents are blocks.
LEMMA ParentsAreBlocks == \A h \in Hash : ParentSet(h) \subseteq Hash
PROOF
<1> SUFFICES ASSUME NEW h \in Hash, NEW i \in DOMAIN DirectParents[h]
             PROVE  DirectParents[h][i] \in Hash
  BY DEF ParentSet
<1>1. DirectParents[h] \in Seq(Hash)
  BY PipelineAssumption
<1> QED
  BY <1>1

\* The selected parent is a parent.
LEMMA SelectedIsParent ==
  ASSUME NEW h \in Hash, ParentSet(h) # {}
  PROVE  SelectedParent(h) \in ParentSet(h)
PROOF
<1>1. \E p \in ParentSet(h) : \A q \in ParentSet(h) : Work[q] <= Work[p]
  BY OrderAssumption
<1> QED
  BY <1>1 DEF SelectedParent

\* The past of a block holds it, its parents, theirs and so on ...
LEMMA PastClosed ==
  ASSUME NEW h \in Hash
  PROVE  /\ Past[h] \subseteq Hash /\ h \in Past[h]
         /\ \A x \in Past[h] : ParentSet(x) \subseteq Past[h]
PROOF
<1> DEFINE C == {S \in SUBSET Hash : h \in S /\ \A x \in S : ParentSet(x) \subseteq S}
<1>1. Past[h] = {x \in Hash : \A S \in C : x \in S}
  BY DEF Past
<1>2. Past[h] \subseteq Hash /\ h \in Past[h]
  BY <1>1
<1>3. ASSUME NEW x \in Past[h], NEW p \in ParentSet(x)
      PROVE  p \in Past[h]
  <2>1. p \in Hash
    BY <1>2, ParentsAreBlocks
  <2>2. \A S \in C : p \in S
    BY <1>1
  <2> QED
    BY <1>1, <2>1, <2>2
<1> QED
  BY <1>2, <1>3

\* ... and nothing else.
LEMMA PastLeast ==
  ASSUME NEW h \in Hash, NEW S \in SUBSET Hash, h \in S, \A x \in S : ParentSet(x) \subseteq S
  PROVE  Past[h] \subseteq S
PROOF
  BY DEF Past

\* The past of a block in the past.
LEMMA PastTransitive ==
  ASSUME NEW h \in Hash, NEW x \in Past[h]
  PROVE  x \in Hash /\ Past[x] \subseteq Past[h]
PROOF
  BY PastClosed, PastLeast

\* The past of a block is the block and the past of its parents.
LEMMA PastOfParents ==
  ASSUME NEW h \in Hash, NEW x \in Past[h], x # h
  PROVE  \E p \in ParentSet(h) : x \in Past[p]
PROOF
<1> DEFINE S == {h} \cup UNION {Past[p] : p \in ParentSet(h)}
<1>1. ParentSet(h) \subseteq Hash
  BY ParentsAreBlocks
<1>2. \A p \in ParentSet(h) : /\ Past[p] \subseteq Hash /\ p \in Past[p]
                              /\ \A y \in Past[p] : ParentSet(y) \subseteq Past[p]
  BY <1>1, PastClosed
<1>3. S \in SUBSET Hash /\ h \in S
  BY <1>2
<1>4. \A y \in S : ParentSet(y) \subseteq S
  BY <1>2
<1>5. Past[h] \subseteq S
  BY <1>3, <1>4, PastLeast, Zenon
<1> QED
  BY <1>5

\* Blue work grows along the DAG.
LEMMA PastHasLessWork ==
  ASSUME NEW h \in Hash, NEW x \in Past[h]
  PROVE  Work[x] <= Work[h]
PROOF
<1> DEFINE S == {y \in Hash : Work[y] <= Work[h]}
<1>1. \A y \in Hash : Work[y] \in Nat
  BY PipelineAssumption
<1>2. \A y \in S : ParentSet(y) \subseteq S
  <2> SUFFICES ASSUME NEW y \in S, NEW p \in ParentSet(y) PROVE p \in S
    OBVIOUS
  <2>1. p \in Hash /\ Work[p] < Work[y]
    BY ParentsAreBlocks, OrderAssumption
  <2> QED
    BY <1>1, <2>1
<1>3. Past[h] \subseteq S
  <2>1. h \in S /\ S \in SUBSET Hash
    BY <1>1
  <2> QED
    BY <1>2, <2>1, PastLeast, Zenon
<1> QED
  BY <1>3

\* The selected chain of a block holds it and goes on to the finality point or to
\* a block with no parents ...
LEMMA ChainClosed ==
  ASSUME NEW h \in Hash
  PROVE  /\ Chain[h] \subseteq Hash /\ h \in Chain[h]
         /\ \A x \in Chain[h] : x # FinalityPoint /\ ParentSet(x) # {} => SelectedParent(x) \in Chain[h]
PROOF
<1> DEFINE C == {S \in SUBSET Hash :
                   h \in S /\ \A x \in S : x # FinalityPoint /\ ParentSet(x) # {} => SelectedParent(x) \in S}
<1>1. Chain[h] = {x \in Hash : \A S \in C : x \in S}
  BY DEF Chain
<1>2. Chain[h] \subseteq Hash /\ h \in Chain[h]
  BY <1>1
<1>3. ASSUME NEW x \in Chain[h], x # FinalityPoint, ParentSet(x) # {}
      PROVE  SelectedParent(x) \in Chain[h]
  <2>1. SelectedParent(x) \in Hash
    BY <1>2, <1>3, SelectedIsParent, ParentsAreBlocks
  <2>2. \A S \in C : SelectedParent(x) \in S
    BY <1>1, <1>3
  <2> QED
    BY <1>1, <2>1, <2>2
<1> QED
  BY <1>2, <1>3

\* ... and has nothing else.
LEMMA ChainLeast ==
  ASSUME NEW h \in Hash, NEW S \in SUBSET Hash, h \in S,
         \A x \in S : x # FinalityPoint /\ ParentSet(x) # {} => SelectedParent(x) \in S
  PROVE  Chain[h] \subseteq S
PROOF
  BY DEF Chain

\* The chain is in the past, and the chain of a block of the chain is a part of it.
LEMMA ChainFacts ==
  ASSUME NEW h \in Hash
  PROVE  /\ Chain[h] \subseteq Past[h]
         /\ \A x \in Chain[h] : Chain[x] \subseteq Chain[h]
PROOF
<1>1. Chain[h] \subseteq Past[h]
  <2>1. \A x \in Past[h] : x # FinalityPoint /\ ParentSet(x) # {} => SelectedParent(x) \in Past[h]
    BY PastClosed, SelectedIsParent
  <2> QED
    BY <2>1, PastClosed, ChainLeast
<1>2. ASSUME NEW x \in Chain[h]
      PROVE  Chain[x] \subseteq Chain[h]
  <2>1. x \in Hash /\ Chain[h] \in SUBSET Hash
    BY ChainClosed
  <2> QED
    BY <2>1, ChainClosed, ChainLeast
<1> QED
  BY <1>1, <1>2

\* The chain of a block goes on with that of its selected parent.
LEMMA ChainUnfolds ==
  ASSUME NEW h \in Hash
  PROVE  IF h # FinalityPoint /\ ParentSet(h) # {}
         THEN SelectedParent(h) \in Hash /\ Chain[h] \subseteq {h} \cup Chain[SelectedParent(h)]
         ELSE Chain[h] = {h}
PROOF
<1>1. CASE h # FinalityPoint /\ ParentSet(h) # {}
  <2>1. SelectedParent(h) \in Hash
    BY <1>1, SelectedIsParent, ParentsAreBlocks
  <2> DEFINE S == {h} \cup Chain[SelectedParent(h)]
  <2>2. S \in SUBSET Hash /\ h \in S
    BY <2>1, ChainClosed
  <2>3. \A x \in S : x # FinalityPoint /\ ParentSet(x) # {} => SelectedParent(x) \in S
    BY <2>1, ChainClosed
  <2>4. Chain[h] \subseteq S
    BY <2>2, <2>3, ChainLeast, Zenon
  <2> QED
    BY <1>1, <2>1, <2>4
<1>2. CASE ~(h # FinalityPoint /\ ParentSet(h) # {})
  <2>1. Chain[h] \subseteq {h}
    <3>1. {h} \in SUBSET Hash /\ h \in {h}
      OBVIOUS
    <3>2. \A x \in {h} : x # FinalityPoint /\ ParentSet(x) # {} => SelectedParent(x) \in {h}
      BY <1>2
    <3> HIDE <1>2
    <3> QED
      BY <3>1, <3>2, ChainLeast, Zenon
  <2> QED
    BY <1>2, <2>1, ChainClosed
<1> QED
  BY <1>1, <1>2

\* A chain that reaches the finality point does so from each of its blocks.
LEMMA ChainReaches ==
  ASSUME NEW h \in Hash, FinalityPoint \in Chain[h], NEW x \in Chain[h]
  PROVE  x \in Hash /\ FinalityPoint \in Chain[x]
PROOF
<1> DEFINE S == {y \in Hash : FinalityPoint \in Chain[y]}
<1>1. ASSUME NEW y \in S, y # FinalityPoint, ParentSet(y) # {}
      PROVE  SelectedParent(y) \in S
  BY <1>1, ChainUnfolds
<1>2. Chain[h] \subseteq S
  BY <1>1, ChainLeast, Zenon
<1> QED
  BY <1>2

\* All blocks of a qualified chain are qualified.
LEMMA ChainQualifies ==
  ASSUME NEW h \in Hash, Qualified(h), NEW x \in Chain[h]
  PROVE  Qualified(x)
PROOF
  BY ChainReaches, ChainFacts DEF Qualified

\* The search always ends at the finality point, if not above it.
LEMMA FinalityPointQualifies == Qualified(FinalityPoint) /\ Above(FinalityPoint)
PROOF
<1>1. FinalityPoint \in Hash /\ FinalityPoint \notin UtxoInvalid
  BY PipelineAssumption
<1>2. Chain[FinalityPoint] = {FinalityPoint}
  BY <1>1, ChainUnfolds
<1> QED
  BY <1>1, <1>2, PastClosed DEF Qualified, UtxoStateFits, Above

\* What is above the finality point: qualified blocks, and what has one of those below it.
LEMMA AboveFacts ==
  ASSUME NEW h \in Hash
  PROVE  /\ Qualified(h) => Above(h)
         /\ \A x \in Past[h] : Above(x) => Above(h)
PROOF
  BY ChainFacts, PastTransitive DEF Qualified, Above

-----------------------------------------------------------------------------
(* Channels *)

\* An empty channel holds no message.
LEMMA NothingIn == \A x : ~In(<<>>, x)
PROOF
  BY DEF In

\* A message that is sent is behind all others.
LEMMA Sending ==
  ASSUME NEW S, NEW c \in Seq(S), NEW e \in S
  PROVE  /\ Append(c, e) \in Seq(S)
         /\ \A x : In(Append(c, e), x) <=> In(c, x) \/ x = e
         /\ \A x, y : Ahead(c, x, y) => Ahead(Append(c, e), x, y)
         /\ \A x : In(c, x) => Ahead(Append(c, e), x, e)
         /\ \A x, y : Ahead(Append(c, e), x, y) => Ahead(c, x, y) \/ (y = e /\ In(c, x))
         /\ Once(c) /\ (e \in Task => ~In(c, e)) => Once(Append(c, e))
PROOF
<1> DEFINE d == Append(c, e)
<1>1. /\ d \in Seq(S) /\ Len(c) \in Nat
      /\ DOMAIN c = 1..Len(c) /\ DOMAIN d = 1..Len(c) + 1
      /\ \A i \in 1..Len(c) : d[i] = c[i]
      /\ d[Len(c) + 1] = e
  OBVIOUS
<1> HIDE DEF d
<1>2. \A i \in DOMAIN d : (i \in DOMAIN c /\ d[i] = c[i]) \/ (i = Len(c) + 1 /\ d[i] = e)
  BY <1>1
<1>3. \A i \in DOMAIN c : i \in DOMAIN d /\ d[i] = c[i] /\ i < Len(c) + 1
  BY <1>1
<1>4. Len(c) + 1 \in DOMAIN d /\ Len(c) + 1 \notin DOMAIN c
  BY <1>1
<1>5. \A x : In(d, x) <=> In(c, x) \/ x = e
  BY <1>1, <1>2, <1>3, <1>4 DEF In
<1>6. \A x, y : Ahead(c, x, y) => Ahead(d, x, y)
  BY <1>3 DEF Ahead
<1>7. \A x : In(c, x) => Ahead(d, x, e)
  BY <1>1, <1>3, <1>4 DEF In, Ahead
<1>8. ASSUME NEW x, NEW y, Ahead(d, x, y)
      PROVE  Ahead(c, x, y) \/ (y = e /\ In(c, x))
  <2>1. PICK i, j \in DOMAIN d : i < j /\ d[i] = x /\ d[j] = y
    BY <1>8 DEF Ahead
  <2>2. i \in DOMAIN c /\ c[i] = x
    BY <1>1, <2>1
  <2> QED
    BY <1>2, <2>1, <2>2 DEF Ahead, In
<1>9. Once(c) /\ (e \in Task => ~In(c, e)) => Once(d)
  BY <1>1, <1>2 DEF Once, In
<1> QED
  BY <1>1, <1>5, <1>6, <1>7, <1>8, <1>9 DEF d

\* The message that is received was ahead of the others.
LEMMA Receiving ==
  ASSUME NEW S, NEW c \in Seq(S), c # <<>>
  PROVE  /\ Tail(c) \in Seq(S) /\ Head(c) \in S /\ In(c, Head(c))
         /\ \A x : In(Tail(c), x) => In(c, x)
         /\ \A x : In(c, x) => x = Head(c) \/ In(Tail(c), x)
         /\ \A x, y : Ahead(c, x, y) => x = Head(c) \/ Ahead(Tail(c), x, y)
         /\ Once(c) => Once(Tail(c)) /\ (Head(c) \in Task => ~In(Tail(c), Head(c)))
PROOF
<1> DEFINE d == Tail(c)
<1>1. /\ d \in Seq(S) /\ Head(c) \in S /\ Len(c) \in Nat \ {0}
      /\ DOMAIN c = 1..Len(c) /\ DOMAIN d = 1..Len(c) - 1
      /\ \A i \in DOMAIN d : d[i] = c[i + 1]
      /\ c[1] = Head(c) /\ 1 \in DOMAIN c
  OBVIOUS
<1> HIDE DEF d
<1>2. \A i \in DOMAIN d : i + 1 \in DOMAIN c /\ d[i] = c[i + 1] /\ i + 1 # 1
  BY <1>1
<1>3. \A i \in DOMAIN c : i = 1 \/ (i - 1 \in DOMAIN d /\ d[i - 1] = c[i])
  BY <1>1
<1>4. In(c, Head(c)) /\ \A x : In(d, x) => In(c, x)
  BY <1>1, <1>2 DEF In
<1>5. \A x : In(c, x) => x = Head(c) \/ In(d, x)
  BY <1>1, <1>3 DEF In
<1>6. ASSUME NEW x, NEW y, Ahead(c, x, y), x # Head(c)
      PROVE  Ahead(d, x, y)
  <2>1. PICK i, j \in DOMAIN c : i < j /\ c[i] = x /\ c[j] = y
    BY <1>6 DEF Ahead
  <2>2. i # 1 /\ j # 1
    BY <1>1, <1>6, <2>1
  <2>3. i - 1 \in DOMAIN d /\ j - 1 \in DOMAIN d /\ i - 1 < j - 1
    BY <1>1, <1>3, <2>1, <2>2
  <2> QED
    BY <1>3, <2>1, <2>2, <2>3 DEF Ahead
<1>7. ASSUME Once(c)
      PROVE  Once(d) /\ (Head(c) \in Task => ~In(d, Head(c)))
  <2>1. ASSUME NEW i \in DOMAIN d, NEW j \in DOMAIN d, d[i] = d[j], d[i] \in Task
        PROVE  i = j
    <3>1. i + 1 = j + 1
      BY <1>2, <1>7, <2>1 DEF Once
    <3> QED
      BY <1>1, <3>1
  <2>2. Head(c) \in Task => ~In(d, Head(c))
    BY <1>1, <1>2, <1>7 DEF Once, In
  <2> QED
    BY <2>1, <2>2 DEF Once
<1> QED
  BY <1>1, <1>4, <1>5, <1>6, <1>7 DEF d

-----------------------------------------------------------------------------
(* The dependency managers, as their stages see them *)

\* What the manager of the header stage promises of tasks that wait, run and ended.
LEMMA HeaderFacts ==
  ASSUME H!ManagerInv
  PROVE  /\ hTasks \in [Hash -> Seq(Task)] /\ hRunning \subseteq Task /\ hEnded \subseteq Task
         /\ \A t \in Task : H!Queued(t) <=> In(hTasks[HashOf[t]], t)
         /\ \A t \in Task : H!Queued(t) => t \notin hEnded
         /\ \A t \in hRunning : /\ hTasks[HashOf[t]] # <<>> /\ Head(hTasks[HashOf[t]]) = t
                               /\ H!Queued(t)
         /\ \A t, u \in hRunning : HashOf[t] = HashOf[u] => t = u
         /\ \A h \in Hash : Once(hTasks[h])
PROOF
<1>1. HashOf \in [Task -> Hash]
  BY PipelineAssumption
<1>2. hTasks \in [Hash -> Seq(Task)] /\ hRunning \subseteq Task /\ hEnded \subseteq Task
  BY DEF H!ManagerInv, H!ManagerTypeOK
<1>3. \A t \in Task : H!Queued(t) <=> In(hTasks[HashOf[t]], t)
  BY DEF H!Queued, In
<1>4. \A t \in Task : H!Queued(t) => t \notin hEnded
  BY <1>1 DEF H!Queued, H!ManagerInv, H!QueuesConsistent
<1>5. \A t \in hRunning : hTasks[HashOf[t]] # <<>> /\ Head(hTasks[HashOf[t]]) = t
  BY DEF H!ManagerInv, H!ExpectationsHold, H!Pending
<1>6. \A t \in hRunning : H!Queued(t)
  BY <1>1, <1>2, <1>3, <1>5, Receiving
<1>7. \A t, u \in hRunning : HashOf[t] = HashOf[u] => t = u
  BY <1>5
<1>8. \A h \in Hash : Once(hTasks[h])
  BY DEF H!ManagerInv, H!QueuesConsistent, Once
<1> QED
  BY <1>2, <1>3, <1>4, <1>5, <1>6, <1>7, <1>8

\* register, of a task that comes for the first time.
LEMMA HeaderRegisters ==
  ASSUME H!ManagerInv, NEW t \in Task, H!Register(t), ~HeaderHas(t)
  PROVE  /\ H!ManagerNext /\ UNCHANGED <<hRunning, hEnded>>
         /\ \A u \in Task : H!Queued(u)' <=> H!Queued(u) \/ u = t
PROOF
<1>1. H!ManagerNext
  BY DEF H!ManagerNext, H!Arrive, HeaderHas
<1>2. /\ UNCHANGED <<hRunning, hEnded>>
      /\ hTasks' = [hTasks EXCEPT ![HashOf[t]] = Append(hTasks[HashOf[t]], t)]
  BY DEF H!Register
<1>3. hTasks \in [Hash -> Seq(Task)] /\ HashOf \in [Task -> Hash]
  BY HeaderFacts, PipelineAssumption
<1>4. ASSUME NEW u \in Task
      PROVE  In(hTasks'[HashOf[u]], u) <=> In(hTasks[HashOf[u]], u) \/ u = t
  <2>1. CASE HashOf[u] # HashOf[t]
    BY <1>2, <1>3, <2>1
  <2>2. CASE HashOf[u] = HashOf[t]
    <3>1. hTasks'[HashOf[u]] = Append(hTasks[HashOf[t]], t) /\ hTasks[HashOf[t]] \in Seq(Task)
      BY <1>2, <1>3, <2>2
    <3> QED
      BY <2>2, <3>1, Sending
  <2> QED
    BY <2>1, <2>2
<1> QED
  BY <1>1, <1>2, <1>4 DEF H!Queued, In

\* try_begin: a task that begins has waited for all of its parents that came before.
LEMMA HeaderBegins ==
  ASSUME H!ManagerInv, NEW h \in Hash, H!Defer(h) \/ H!Begin(h)
  PROVE  /\ H!ManagerNext /\ UNCHANGED hEnded
         /\ \A u \in Task : H!Queued(u)' <=> H!Queued(u)
         /\ hRunning \subseteq hRunning'
         /\ \A t \in hRunning' \ hRunning :
              /\ t \in Task /\ H!Queued(t)
              /\ \A u \in Task : HashOf[u] \in ParentSet(HashOf[t]) => ~H!Queued(u)
PROOF
<1>1. H!ManagerNext
  BY DEF H!ManagerNext
<1>2. UNCHANGED <<hTasks, hEnded>>
  BY DEF H!Defer, H!Begin
<1>3. \A u \in Task : H!Queued(u)' <=> H!Queued(u)
  BY <1>2 DEF H!Queued
<1>4. CASE H!Defer(h)
  BY <1>1, <1>2, <1>3, <1>4 DEF H!Defer
<1>5. CASE H!Begin(h)
  <2> DEFINE t == Head(hTasks[h])
  <2>1. /\ hRunning' = hRunning \cup {t} /\ H!PendingParents(h) = {}
        /\ hTasks[h] # <<>> /\ hTasks[h] \in Seq(Task)
    BY <1>5, HeaderFacts DEF H!Begin, H!ManagerInv, H!ExpectationsHold, H!Pending
  <2>2. t \in Task /\ In(hTasks[h], t)
    BY <2>1, Receiving
  <2>3. HashOf[t] = h
    BY <2>2 DEF In, H!ManagerInv, H!QueuesConsistent
  <2>4. H!Queued(t)
    BY <2>2, <2>3, HeaderFacts
  <2>5. ASSUME NEW u \in Task, HashOf[u] \in ParentSet(h)
        PROVE  ~H!Queued(u)
    <3>1. PICK i \in DOMAIN DirectParents[h] : HashOf[u] = DirectParents[h][i]
      BY <2>5 DEF ParentSet
    <3>2. hTasks[HashOf[u]] = <<>>
      BY <2>1, <3>1, PipelineAssumption, Zenon DEF H!PendingParents, H!Pending
    <3> QED
      BY <3>2 DEF H!Queued
  <2> QED
    BY <1>1, <1>2, <1>3, <2>1, <2>2, <2>3, <2>4, <2>5
<1> QED
  BY <1>4, <1>5

\* end, of the task at the front of its group.
LEMMA HeaderEnds ==
  ASSUME H!ManagerInv, NEW t \in Task, H!End(t)
  PROVE  /\ H!ManagerNext /\ t \in hRunning /\ Head(hTasks[HashOf[t]]) = t
         /\ H!Queued(t) /\ t \notin hEnded
         /\ hEnded' = hEnded \cup {t} /\ hRunning' = hRunning \ {t}
         /\ \A u \in Task : H!Queued(u)' <=> H!Queued(u) /\ u # t
PROOF
<1>1. H!ManagerNext
  BY DEF H!ManagerNext
<1>2. t \in hRunning
  BY DEF H!End
<1>3. /\ Head(hTasks[HashOf[t]]) = t /\ hTasks[HashOf[t]] # <<>> /\ H!Queued(t) /\ t \notin hEnded
      /\ hTasks \in [Hash -> Seq(Task)] /\ HashOf \in [Task -> Hash]
      /\ Once(hTasks[HashOf[t]]) /\ hTasks[HashOf[t]] \in Seq(Task)
  BY <1>2, HeaderFacts, PipelineAssumption
<1>4. /\ hEnded' = hEnded \cup {t} /\ hRunning' = hRunning \ {t}
      /\ hTasks' = [hTasks EXCEPT ![HashOf[t]] = Tail(hTasks[HashOf[t]])]
  BY <1>3 DEF H!End
<1>5. ASSUME NEW u \in Task
      PROVE  In(hTasks'[HashOf[u]], u) <=> In(hTasks[HashOf[u]], u) /\ u # t
  <2>1. CASE HashOf[u] # HashOf[t]
    BY <1>3, <1>4, <2>1
  <2>2. CASE HashOf[u] = HashOf[t]
    <3>1. hTasks'[HashOf[u]] = Tail(hTasks[HashOf[t]])
      BY <1>3, <1>4, <2>2
    <3> QED
      BY <1>3, <2>2, <3>1, Receiving
  <2> QED
    BY <2>1, <2>2
<1> QED
  BY <1>1, <1>2, <1>3, <1>4, <1>5 DEF H!Queued, In

\* What the manager of the body stage promises of tasks that wait, run and ended.
LEMMA BodyFacts ==
  ASSUME B!ManagerInv
  PROVE  /\ bTasks \in [Hash -> Seq(Task)] /\ bRunning \subseteq Task /\ bEnded \subseteq Task
         /\ \A t \in Task : B!Queued(t) <=> In(bTasks[HashOf[t]], t)
         /\ \A t \in Task : B!Queued(t) => t \notin bEnded
         /\ \A t \in bRunning : /\ bTasks[HashOf[t]] # <<>> /\ Head(bTasks[HashOf[t]]) = t
                               /\ B!Queued(t)
         /\ \A t, u \in bRunning : HashOf[t] = HashOf[u] => t = u
         /\ \A h \in Hash : Once(bTasks[h])
PROOF
<1>1. HashOf \in [Task -> Hash]
  BY PipelineAssumption
<1>2. bTasks \in [Hash -> Seq(Task)] /\ bRunning \subseteq Task /\ bEnded \subseteq Task
  BY DEF B!ManagerInv, B!ManagerTypeOK
<1>3. \A t \in Task : B!Queued(t) <=> In(bTasks[HashOf[t]], t)
  BY DEF B!Queued, In
<1>4. \A t \in Task : B!Queued(t) => t \notin bEnded
  BY <1>1 DEF B!Queued, B!ManagerInv, B!QueuesConsistent
<1>5. \A t \in bRunning : bTasks[HashOf[t]] # <<>> /\ Head(bTasks[HashOf[t]]) = t
  BY DEF B!ManagerInv, B!ExpectationsHold, B!Pending
<1>6. \A t \in bRunning : B!Queued(t)
  BY <1>1, <1>2, <1>3, <1>5, Receiving
<1>7. \A t, u \in bRunning : HashOf[t] = HashOf[u] => t = u
  BY <1>5
<1>8. \A h \in Hash : Once(bTasks[h])
  BY DEF B!ManagerInv, B!QueuesConsistent, Once
<1> QED
  BY <1>2, <1>3, <1>4, <1>5, <1>6, <1>7, <1>8

\* register, of a task that comes for the first time.
LEMMA BodyRegisters ==
  ASSUME B!ManagerInv, NEW t \in Task, B!Register(t), ~BodyHas(t)
  PROVE  /\ B!ManagerNext /\ UNCHANGED <<bRunning, bEnded>>
         /\ \A u \in Task : B!Queued(u)' <=> B!Queued(u) \/ u = t
PROOF
<1>1. B!ManagerNext
  BY DEF B!ManagerNext, B!Arrive, BodyHas
<1>2. /\ UNCHANGED <<bRunning, bEnded>>
      /\ bTasks' = [bTasks EXCEPT ![HashOf[t]] = Append(bTasks[HashOf[t]], t)]
  BY DEF B!Register
<1>3. bTasks \in [Hash -> Seq(Task)] /\ HashOf \in [Task -> Hash]
  BY BodyFacts, PipelineAssumption
<1>4. ASSUME NEW u \in Task
      PROVE  In(bTasks'[HashOf[u]], u) <=> In(bTasks[HashOf[u]], u) \/ u = t
  <2>1. CASE HashOf[u] # HashOf[t]
    BY <1>2, <1>3, <2>1
  <2>2. CASE HashOf[u] = HashOf[t]
    <3>1. bTasks'[HashOf[u]] = Append(bTasks[HashOf[t]], t) /\ bTasks[HashOf[t]] \in Seq(Task)
      BY <1>2, <1>3, <2>2
    <3> QED
      BY <2>2, <3>1, Sending
  <2> QED
    BY <2>1, <2>2
<1> QED
  BY <1>1, <1>2, <1>4 DEF B!Queued, In

\* try_begin: a task that begins has waited for all of its parents that came before.
LEMMA BodyBegins ==
  ASSUME B!ManagerInv, NEW h \in Hash, B!Defer(h) \/ B!Begin(h)
  PROVE  /\ B!ManagerNext /\ UNCHANGED bEnded
         /\ \A u \in Task : B!Queued(u)' <=> B!Queued(u)
         /\ bRunning \subseteq bRunning'
         /\ \A t \in bRunning' \ bRunning :
              /\ t \in Task /\ B!Queued(t)
              /\ \A u \in Task : HashOf[u] \in ParentSet(HashOf[t]) => ~B!Queued(u)
PROOF
<1>1. B!ManagerNext
  BY DEF B!ManagerNext
<1>2. UNCHANGED <<bTasks, bEnded>>
  BY DEF B!Defer, B!Begin
<1>3. \A u \in Task : B!Queued(u)' <=> B!Queued(u)
  BY <1>2 DEF B!Queued
<1>4. CASE B!Defer(h)
  BY <1>1, <1>2, <1>3, <1>4 DEF B!Defer
<1>5. CASE B!Begin(h)
  <2> DEFINE t == Head(bTasks[h])
  <2>1. /\ bRunning' = bRunning \cup {t} /\ B!PendingParents(h) = {}
        /\ bTasks[h] # <<>> /\ bTasks[h] \in Seq(Task)
    BY <1>5, BodyFacts DEF B!Begin, B!ManagerInv, B!ExpectationsHold, B!Pending
  <2>2. t \in Task /\ In(bTasks[h], t)
    BY <2>1, Receiving
  <2>3. HashOf[t] = h
    BY <2>2 DEF In, B!ManagerInv, B!QueuesConsistent
  <2>4. B!Queued(t)
    BY <2>2, <2>3, BodyFacts
  <2>5. ASSUME NEW u \in Task, HashOf[u] \in ParentSet(h)
        PROVE  ~B!Queued(u)
    <3>1. PICK i \in DOMAIN DirectParents[h] : HashOf[u] = DirectParents[h][i]
      BY <2>5 DEF ParentSet
    <3>2. bTasks[HashOf[u]] = <<>>
      BY <2>1, <3>1, PipelineAssumption, Zenon DEF B!PendingParents, B!Pending
    <3> QED
      BY <3>2 DEF B!Queued
  <2> QED
    BY <1>1, <1>2, <1>3, <2>1, <2>2, <2>3, <2>4, <2>5
<1> QED
  BY <1>4, <1>5

\* end, of the task at the front of its group.
LEMMA BodyEnds ==
  ASSUME B!ManagerInv, NEW t \in Task, B!End(t)
  PROVE  /\ B!ManagerNext /\ t \in bRunning /\ Head(bTasks[HashOf[t]]) = t
         /\ B!Queued(t) /\ t \notin bEnded
         /\ bEnded' = bEnded \cup {t} /\ bRunning' = bRunning \ {t}
         /\ \A u \in Task : B!Queued(u)' <=> B!Queued(u) /\ u # t
PROOF
<1>1. B!ManagerNext
  BY DEF B!ManagerNext
<1>2. t \in bRunning
  BY DEF B!End
<1>3. /\ Head(bTasks[HashOf[t]]) = t /\ bTasks[HashOf[t]] # <<>> /\ B!Queued(t) /\ t \notin bEnded
      /\ bTasks \in [Hash -> Seq(Task)] /\ HashOf \in [Task -> Hash]
      /\ Once(bTasks[HashOf[t]]) /\ bTasks[HashOf[t]] \in Seq(Task)
  BY <1>2, BodyFacts, PipelineAssumption
<1>4. /\ bEnded' = bEnded \cup {t} /\ bRunning' = bRunning \ {t}
      /\ bTasks' = [bTasks EXCEPT ![HashOf[t]] = Tail(bTasks[HashOf[t]])]
  BY <1>3 DEF B!End
<1>5. ASSUME NEW u \in Task
      PROVE  In(bTasks'[HashOf[u]], u) <=> In(bTasks[HashOf[u]], u) /\ u # t
  <2>1. CASE HashOf[u] # HashOf[t]
    BY <1>3, <1>4, <2>1
  <2>2. CASE HashOf[u] = HashOf[t]
    <3>1. bTasks'[HashOf[u]] = Tail(bTasks[HashOf[t]])
      BY <1>3, <1>4, <2>2
    <3> QED
      BY <1>3, <2>2, <3>1, Receiving
  <2> QED
    BY <2>1, <2>2
<1> QED
  BY <1>1, <1>2, <1>3, <1>4, <1>5 DEF B!Queued, In

-----------------------------------------------------------------------------
(* Steps *)

Stages == H!ManagerInv /\ B!ManagerInv
StageSteps == [H!ManagerNext]_(H!managerVars) /\ [B!ManagerNext]_(B!managerVars)

\* A refusal is explained for good: answers are final.
LEMMA RefusedStays ==
  ASSUME UNCHANGED submitted, NEW t \in Task, Refused(t),
         \A u \in Task : blockResult[u] \in Errors => blockResult'[u] \in Errors
  PROVE  Refused(t)'
PROOF
  BY SMTT(30) DEF Refused, SubmittedBefore

\* A step that submits and answers nothing.
LEMMA FollowsKept ==
  ASSUME UNCHANGED submitted
  PROVE  \A t, u \in Task : (SubmittedBefore(u, t)' <=> SubmittedBefore(u, t)) /\ (Follows(t, u)' <=> Follows(t, u))
PROOF
  BY DEF Follows, SubmittedBefore

\* Tasks stay where they are, and those that do not run have not started.
LEMMA PlacedKept ==
  ASSUME Placed,
         UNCHANGED <<headerChan, bodyChan, submitted, hTasks, hEnded, hRunning, bTasks, bEnded, bRunning>>,
         \A u \in Task : (u \notin hRunning => hStep'[u] = "start") /\ (u \notin bRunning => bStep'[u] = "start")
  PROVE  Placed'
PROOF
<1>1. Once(headerChan)' /\ Once(bodyChan)' /\ Once(submitted)'
  BY DEF Placed, Once
<1>2. \A u \in Task : /\ In(headerChan, u)' <=> In(headerChan, u)
                      /\ In(bodyChan, u)' <=> In(bodyChan, u)
                      /\ WasSubmitted(u)' <=> WasSubmitted(u)
  BY DEF In, WasSubmitted
<1>3. \A u \in Task : (HeaderHas(u)' <=> HeaderHas(u)) /\ (BodyHas(u)' <=> BodyHas(u))
  BY DEF HeaderHas, BodyHas, H!Queued, B!Queued
<1> QED
  BY <1>1, <1>2, <1>3 DEF Placed

\* Running tasks go on with what they know, or have just started.
LEMMA VerdictsKept ==
  ASSUME Verdicts, UNCHANGED statuses,
         \A u \in hRunning' : (u \in hRunning /\ hStep'[u] = hStep[u]) \/ hStep'[u] = "start",
         \A u \in bRunning' : (u \in bRunning /\ bStep'[u] = bStep[u]) \/ bStep'[u] = "start"
  PROVE  Verdicts'
PROOF
<1>1. "start" \notin Statuses \cup {"commit", "markInvalid", "notify"}
  BY DEF Statuses, BodyStatuses
<1>2. \A x : HasBody(x)' <=> HasBody(x)
  BY DEF HasBody
<1>3. \A u \in hRunning' :
        /\ hStep'[u] \in {"commit", "markInvalid"} =>
             /\ statuses[HashOf[u]] = "None"
             /\ u \notin TrustedTask => \A p \in ParentSet(HashOf[u]) : statuses[p] # "None"
        /\ hStep'[u] \in Statuses => statuses[HashOf[u]] # "None"
  BY <1>1 DEF Verdicts
<1>4. \A u \in bRunning' :
        /\ bStep'[u] \in {"commit", "markInvalid"} => statuses[HashOf[u]] = "HeaderOnly"
        /\ bStep'[u] = "commit" /\ u \notin TrustedTask => \A p \in ParentSet(HashOf[u]) : HasBody(p)
        /\ bStep'[u] \in Statuses \cup {"notify"} => HasBody(HashOf[u])
  BY <1>1 DEF Verdicts
<1> QED
  BY <1>2, <1>3, <1>4 DEF Verdicts

\* Tasks move on from a channel to its stage and begin, and nobody is answered.
LEMMA RefusalsKept ==
  ASSUME Refusals, UNCHANGED <<submitted, blockResult, statuses, hEnded, bEnded>>,
         \A u \in Task :
           /\ In(headerChan', u) \/ H!Queued(u)' => In(headerChan, u) \/ H!Queued(u)
           /\ In(bodyChan', u) \/ B!Queued(u)' <=> In(bodyChan, u) \/ B!Queued(u)
           /\ u \in hRunning' => (u \in hRunning /\ hStep'[u] = hStep[u]) \/ hStep'[u] = "start"
           /\ u \in bRunning' => (u \in bRunning /\ bStep'[u] = bStep[u]) \/ bStep'[u] = "start"
  PROVE  Refusals'
PROOF
<1> SUFFICES ASSUME NEW t \in Task
             PROVE  /\ In(headerChan', t) \/ H!Queued(t)' \/ In(bodyChan', t) \/ B!Queued(t)' \/ ~WasSubmitted(t) =>
                         blockResult[t] = "pending"
                    /\ t \in hEnded => blockResult[t] \in Errors \/ statuses[HashOf[t]] # "None"
                    /\ t \in hEnded => Answered(t) \/ In(bodyChan', t) \/ BodyHas(t)'
                    /\ t \in bEnded => blockResult[t] \in Errors \/ HasBody(HashOf[t])
                    /\ In(bodyChan', t) \/ BodyHas(t)' => t \notin HeaderOnlyTask
                    /\ \/ t \in hRunning' /\ hStep'[t] = "MissingParents"
                       \/ t \in bRunning' /\ bStep'[t] = "MissingParents"
                       \/ blockResult[t] = "MissingParents"
                       => Refused(t)
  <2>1. \A x : HasBody(x)' <=> HasBody(x)
    BY DEF HasBody
  <2>2. \A u \in Task : /\ WasSubmitted(u)' <=> WasSubmitted(u)
                        /\ Answered(u)' <=> Answered(u)
                        /\ In(headerChan, u)' <=> In(headerChan', u)
                        /\ In(bodyChan, u)' <=> In(bodyChan', u)
    BY DEF WasSubmitted, Answered, In
  <2>3. \A u \in Task : Refused(u) => Refused(u)'
    BY RefusedStays
  <2> QED
    BY <2>1, <2>2, <2>3, Zenon DEF Refusals
<1>1. In(bodyChan', t) \/ BodyHas(t)' <=> In(bodyChan, t) \/ BodyHas(t)
  BY DEF BodyHas
<1> QED
  BY <1>1 DEF Refusals

\* What the parts of the invariant depend on.
LEMMA Frames ==
  /\ Placed /\ UNCHANGED <<headerChan, bodyChan, submitted, hTasks, hEnded, hRunning, hStep,
                           bTasks, bEnded, bRunning, bStep>> => Placed'
  /\ Verdicts /\ UNCHANGED <<hRunning, hStep, statuses, bRunning, bStep>> => Verdicts'
  /\ Bodies /\ UNCHANGED <<statuses, bodyTips>> => Bodies'
  /\ Search /\ UNCHANGED <<vTips, vHeap, sink, statuses, vWorker, bRunning, bStep, virtualChan>> => Search'
  /\ Order /\ UNCHANGED <<submitted, headerChan, bodyChan, hTasks, hEnded, hRunning,
                          bTasks, bEnded, bRunning, blockResult>> => Order'
  /\ Refusals /\ UNCHANGED <<headerChan, bodyChan, submitted, hTasks, hEnded, hRunning, hStep,
                             bTasks, bEnded, bRunning, bStep, statuses, blockResult>> => Refusals'
  /\ UNCHANGED hManager => UNCHANGED H!managerVars
  /\ UNCHANGED bManager => UNCHANGED B!managerVars
PROOF
<1>1. Placed /\ UNCHANGED <<headerChan, bodyChan, submitted, hTasks, hEnded, hRunning, hStep,
                            bTasks, bEnded, bRunning, bStep>> => Placed'
  <2>1. Placed => \A u \in Task : (u \notin hRunning => hStep[u] = "start") /\ (u \notin bRunning => bStep[u] = "start")
    BY DEF Placed
  <2> QED
    BY <2>1, PlacedKept
<1>2. Verdicts /\ UNCHANGED <<hRunning, hStep, statuses, bRunning, bStep>> => Verdicts'
  BY DEF Verdicts, HasBody
<1>3. Bodies /\ UNCHANGED <<statuses, bodyTips>> => Bodies'
  BY DEF Bodies, HasBody, LiveTips, PastOf, Above
<1>4. Search /\ UNCHANGED <<vTips, vHeap, sink, statuses, vWorker, bRunning, bStep, virtualChan>> => Search'
  BY DEF Search, HasBody, Announced, In, Seen, IsBestSink, PastOf, Above, Qualified
<1>5. Order /\ UNCHANGED <<submitted, headerChan, bodyChan, hTasks, hEnded, hRunning,
                           bTasks, bEnded, bRunning, blockResult>> => Order'
  <2> SUFFICES ASSUME Order, UNCHANGED <<submitted, headerChan, bodyChan, hTasks, hEnded, hRunning,
                                         bTasks, bEnded, bRunning, blockResult>>
               PROVE  Order'
    OBVIOUS
  <2>1. \A u \in Task : /\ HeaderHas(u)' <=> HeaderHas(u)
                        /\ BodyHas(u)' <=> BodyHas(u)
                        /\ Answered(u)' <=> Answered(u)
                        /\ In(bodyChan, u)' <=> In(bodyChan, u)
    BY DEF HeaderHas, BodyHas, H!Queued, B!Queued, Answered, In
  <2>2. \A u, v \in Task : /\ Ahead(headerChan, u, v)' <=> Ahead(headerChan, u, v)
                           /\ Ahead(bodyChan, u, v)' <=> Ahead(bodyChan, u, v)
    BY DEF Ahead
  <2> QED
    BY <2>1, <2>2, FollowsKept DEF Order
<1>6. Refusals /\ UNCHANGED <<headerChan, bodyChan, submitted, hTasks, hEnded, hRunning, hStep,
                              bTasks, bEnded, bRunning, bStep, statuses, blockResult>> => Refusals'
  <2> SUFFICES ASSUME Refusals, UNCHANGED <<headerChan, bodyChan, submitted, hTasks, hEnded, hRunning, hStep,
                                            bTasks, bEnded, bRunning, bStep, statuses, blockResult>>
               PROVE  Refusals'
    OBVIOUS
  <2>1. \A u \in Task : (H!Queued(u)' <=> H!Queued(u)) /\ (B!Queued(u)' <=> B!Queued(u))
    BY DEF H!Queued, B!Queued
  <2> QED
    BY <2>1, RefusalsKept
<1>7. UNCHANGED hManager => UNCHANGED H!managerVars
  BY DEF hManager, H!managerVars
<1>8. UNCHANGED bManager => UNCHANGED B!managerVars
  BY DEF bManager, B!managerVars
<1> QED
  BY <1>1, <1>2, <1>3, <1>4, <1>5, <1>6, <1>7, <1>8

\* Before the processors start.
LEMMA PipeInvInit == Init => PipeInv
PROOF
<1> SUFFICES ASSUME Init PROVE PipeInv
  OBVIOUS
<1>1. TypeOK
  BY PipelineAssumption DEF Init, TypeOK, Statuses, BodyStatuses, HeaderSteps, BodySteps
<1>2. \A t \in Task : ~H!Queued(t) /\ ~B!Queued(t) /\ t \notin hEnded /\ t \notin bEnded
  BY PipelineAssumption DEF Init, H!ManagerInit, B!ManagerInit, H!Queued, B!Queued
<1>3. hRunning = {} /\ bRunning = {}
  BY DEF Init, H!ManagerInit, B!ManagerInit
<1>4. \A h \in Hash : HasBody(h) <=> h = FinalityPoint
  BY PipelineAssumption, Zenon DEF Init, HasBody, BodyStatuses
<1>5. Placed
  BY <1>2, <1>3 DEF Init, Placed, Once, In, WasSubmitted, HeaderHas, BodyHas
<1>6. Verdicts
  BY <1>3 DEF Verdicts
<1>7. FinalityPoint \in Hash /\ Above(FinalityPoint) /\ Qualified(FinalityPoint)
  BY PipelineAssumption, FinalityPointQualifies
<1>8. Bodies
  <2>1. LiveTips = {FinalityPoint}
    BY <1>7 DEF Init, LiveTips
  <2> QED
    BY <1>4, <1>7, <2>1, PastClosed DEF Init, Bodies, PastOf
<1>9. Search
  <2>1. PastOf(Seen) = Past[FinalityPoint]
    BY Zenon DEF Init, PastOf, Seen
  <2>2. FinalityPoint \in PastOf(Seen) /\ \A h \in PastOf(Seen) : Work[h] <= Work[FinalityPoint]
    BY <1>7, <2>1, PastClosed, PastHasLessWork
  <2> QED
    BY <1>4, <1>7, <2>2, Zenon DEF Init, Search, IsBestSink
<1>10. Order
  BY <1>2, <1>3 DEF Init, Order, SubmittedBefore, Follows
<1>11. Refusals
  BY <1>2, <1>3, SMTT(30) DEF Init, Refusals, In, BodyHas
<1> QED
  BY <1>1, <1>5, <1>6, <1>8, <1>9, <1>10, <1>11 DEF PipeInv

\* validate_and_insert_block: the task is new and goes to the end of the queue.
LEMMA SubmitStep ==
  ASSUME Stages, PipeInv, NEW t \in Task, Submit(t)
  PROVE  PipeInv' /\ StageSteps
PROOF
<1>1. /\ submitted' = Append(submitted, t) /\ headerChan' = Append(headerChan, t)
      /\ ~WasSubmitted(t)
      /\ UNCHANGED <<bodyChan, virtualChan, hManager, bManager, hStep, bStep, statuses, bodyTips,
                     vTips, vHeap, sink, vWorker, blockResult>>
  BY DEF Submit, headerVars, bodyVars, storeVars, virtualVars, resultVars
<1>2. UNCHANGED <<hTasks, hEnded, hRunning, bTasks, bEnded, bRunning>>
  BY <1>1 DEF hManager, bManager
<1>3. /\ submitted \in Seq(Task) /\ headerChan \in Seq(Messages) /\ t \in Messages
      /\ ~In(headerChan, t) /\ ~In(submitted, t) /\ ~HeaderHas(t)
  BY <1>1 DEF PipeInv, TypeOK, Messages, Placed, In, WasSubmitted
<1>4. /\ submitted' \in Seq(Task) /\ Once(submitted')
      /\ \A u : In(submitted', u) <=> In(submitted, u) \/ u = t
      /\ \A u, v : Ahead(submitted', u, v) => Ahead(submitted, u, v) \/ (v = t /\ In(submitted, u))
  BY <1>1, <1>3, Sending, ZenonT(40) DEF PipeInv, Placed
<1>5. /\ headerChan' \in Seq(Messages) /\ Once(headerChan')
      /\ \A u : In(headerChan', u) <=> In(headerChan, u) \/ u = t
      /\ \A u, v : Ahead(headerChan, u, v) => Ahead(headerChan', u, v)
      /\ \A u : In(headerChan, u) => Ahead(headerChan', u, t)
  BY <1>1, <1>3, Sending, Zenon DEF PipeInv, Placed
<1>6. /\ \A u \in Task : (HeaderHas(u)' <=> HeaderHas(u)) /\ (BodyHas(u)' <=> BodyHas(u))
      /\ \A u \in Task : (H!Queued(u)' <=> H!Queued(u)) /\ (B!Queued(u)' <=> B!Queued(u))
  BY <1>2 DEF HeaderHas, BodyHas, H!Queued, B!Queued
<1>7. TypeOK'
  BY <1>1, <1>4, <1>5 DEF PipeInv, TypeOK
<1>8. Placed'
  BY <1>1, <1>2, <1>3, <1>4, <1>5, <1>6, ZenonT(40) DEF PipeInv, Placed, WasSubmitted, In
<1>9. \A u \in Task : u \in hRunning \/ In(bodyChan, u) \/ BodyHas(u) \/ u \in bRunning => u # t
  BY <1>3, HeaderFacts, BodyFacts, ZenonT(40) DEF Stages, PipeInv, Placed, HeaderHas, BodyHas
<1>10. \A u, v \in Task : SubmittedBefore(u, v)' => SubmittedBefore(u, v) \/ (v = t /\ WasSubmitted(u))
  BY <1>4 DEF SubmittedBefore, WasSubmitted, In, Ahead
<1>11. Order'
  <2> SUFFICES ASSUME NEW v \in Task, NEW u \in Task
               PROVE  /\ SubmittedBefore(u, v)' => HeaderHas(u)' \/ Ahead(headerChan', u, v)
                      /\ Follows(v, u)' /\ v \in hRunning => u \in hEnded
                      /\ Follows(v, u)' /\ (In(bodyChan, v) \/ BodyHas(v)) =>
                           Answered(u) \/ BodyHas(u) \/ Ahead(bodyChan, u, v)
                      /\ Follows(v, u)' /\ v \in bRunning => Answered(u) \/ u \in bEnded
    BY <1>1, <1>2, <1>6 DEF Order, Answered
  <2>1. v # t /\ Follows(v, u)' => Follows(v, u)
    BY <1>10 DEF Follows
  <2>2. SubmittedBefore(u, v)' => HeaderHas(u)' \/ Ahead(headerChan', u, v)
    BY <1>5, <1>6, <1>10, Zenon DEF PipeInv, Order, Placed
  <2> QED
    BY <1>9, <2>1, <2>2 DEF PipeInv, Order
<1>12. Refusals'
  <2>1. \A u \in Task : u # t /\ Refused(u) => Refused(u)'
    BY <1>1, <1>10, Zenon DEF Refused
  <2>2. blockResult[t] = "pending" /\ t \notin hEnded
    BY <1>1, <1>3, Zenon DEF PipeInv, Refusals, HeaderHas
  <2>3. \A u \in Task : WasSubmitted(u) => WasSubmitted(u)'
    BY <1>4 DEF WasSubmitted, In
  <2> QED
    BY <1>1, <1>2, <1>5, <1>6, <1>9, <2>1, <2>2, <2>3, Zenon DEF PipeInv, Refusals, Answered, HasBody, In
<1> QED
  BY <1>1, <1>2, <1>7, <1>8, <1>11, <1>12, Frames DEF PipeInv, StageSteps

\* signal_exit: an Exit goes to the end of the queue.
LEMMA SignalExitStep ==
  ASSUME Stages, PipeInv, SignalExit
  PROVE  PipeInv' /\ StageSteps
PROOF
<1>1. /\ headerChan' = Append(headerChan, Exit)
      /\ UNCHANGED <<submitted, bodyChan, virtualChan, hManager, bManager, hStep, bStep, statuses, bodyTips,
                     vTips, vHeap, sink, vWorker, blockResult>>
  BY DEF SignalExit, headerVars, bodyVars, storeVars, virtualVars, resultVars
<1>2. UNCHANGED <<hTasks, hEnded, hRunning, bTasks, bEnded, bRunning>>
  BY <1>1 DEF hManager, bManager
<1>3. headerChan \in Seq(Messages) /\ Exit \in Messages /\ Exit \notin Task
  BY PipelineAssumption DEF PipeInv, TypeOK, Messages
<1>4. /\ headerChan' \in Seq(Messages) /\ Once(headerChan')
      /\ \A u \in Task : In(headerChan', u) <=> In(headerChan, u)
      /\ \A u, v : Ahead(headerChan, u, v) => Ahead(headerChan', u, v)
  BY <1>1, <1>3, Sending, Zenon DEF PipeInv, Placed
<1>5. /\ \A u \in Task : (HeaderHas(u)' <=> HeaderHas(u)) /\ (BodyHas(u)' <=> BodyHas(u))
      /\ \A u \in Task : (H!Queued(u)' <=> H!Queued(u)) /\ (B!Queued(u)' <=> B!Queued(u))
  BY <1>2 DEF HeaderHas, BodyHas, H!Queued, B!Queued
<1>6. TypeOK'
  BY <1>1, <1>4 DEF PipeInv, TypeOK
<1>7. Placed'
  BY <1>1, <1>2, <1>4, <1>5, Zenon DEF PipeInv, Placed, WasSubmitted
<1>8. Order'
  BY <1>1, <1>2, <1>4, <1>5, Zenon DEF PipeInv, Order, Follows, SubmittedBefore, Answered
<1>9. Refusals'
  <2>1. Refusals
    BY DEF PipeInv
  <2> QED
    BY <1>1, <1>2, <1>4, <1>5, <2>1, RefusalsKept, Zenon
<1> QED
  BY <1>1, <1>2, <1>6, <1>7, <1>8, <1>9, Frames DEF PipeInv, StageSteps

\* The header worker receives: a task is registered for the first time.
LEMMA HeaderReceiveStep ==
  ASSUME Stages, PipeInv, HeaderReceive
  PROVE  PipeInv' /\ StageSteps
PROOF
<1> DEFINE m == Head(headerChan)
<1>1. /\ headerChan # <<>> /\ headerChan' = Tail(headerChan)
      /\ IF m = Exit THEN H!WaitForIdle ELSE H!Register(m)
      /\ UNCHANGED <<submitted, bodyChan, virtualChan, bManager, hStep, bStep, statuses, bodyTips,
                     vTips, vHeap, sink, vWorker, blockResult>>
  BY DEF HeaderReceive, bodyVars, storeVars, virtualVars, callerVars, resultVars
<1>2. UNCHANGED <<bTasks, bEnded, bRunning>>
  BY <1>1 DEF bManager
<1>3. headerChan \in Seq(Messages) /\ Exit \notin Task /\ Once(headerChan)
  BY PipelineAssumption DEF PipeInv, TypeOK, Placed
<1>4. /\ headerChan' \in Seq(Messages) /\ Once(headerChan') /\ m \in Messages
      /\ m \in Task => In(headerChan, m) /\ ~In(headerChan', m)
      /\ \A u : In(headerChan', u) => In(headerChan, u)
      /\ \A u : In(headerChan, u) => u = m \/ In(headerChan', u)
      /\ \A u, v : Ahead(headerChan, u, v) => u = m \/ Ahead(headerChan', u, v)
  BY <1>1, <1>3, Receiving
<1>5. /\ [H!ManagerNext]_(H!managerVars) /\ UNCHANGED <<hRunning, hEnded>>
      /\ \A u \in Task : H!Queued(u)' <=> H!Queued(u) \/ u = m
  <2>1. CASE m = Exit
    BY <1>1, <1>3, <2>1, Zenon DEF H!WaitForIdle, H!ManagerNext, H!Queued
  <2>2. CASE m \in Task
    <3>1. H!Register(m) /\ ~HeaderHas(m)
      BY <1>1, <1>3, <1>4, <2>2, Zenon DEF PipeInv, Placed
    <3> QED
      BY <2>2, <3>1, HeaderRegisters DEF Stages
  <2> QED
    BY <1>4, <2>1, <2>2 DEF Messages
<1> HIDE DEF m
<1>6. /\ \A u \in Task : HeaderHas(u)' <=> HeaderHas(u) \/ u = m
      /\ \A u \in Task : (BodyHas(u)' <=> BodyHas(u)) /\ (B!Queued(u)' <=> B!Queued(u))
  BY <1>2, <1>5 DEF HeaderHas, BodyHas, B!Queued
<1>7. TypeOK'
  BY <1>1, <1>4 DEF PipeInv, TypeOK
<1>8. Placed'
  BY <1>1, <1>2, <1>4, <1>5, <1>6 DEF PipeInv, Placed, WasSubmitted
<1>9. Order'
  BY <1>1, <1>2, <1>4, <1>5, <1>6, Zenon DEF PipeInv, Order, Follows, SubmittedBefore, Answered
<1>10. Refusals'
  <2>1. \A u \in Task : In(headerChan', u) \/ H!Queued(u)' => In(headerChan, u) \/ H!Queued(u)
    BY <1>4, <1>5
  <2>2. Refusals
    BY DEF PipeInv
  <2> QED
    BY <1>1, <1>2, <1>5, <1>6, <2>1, <2>2, RefusalsKept, Zenon
<1> QED
  BY <1>1, <1>2, <1>5, <1>7, <1>8, <1>9, <1>10, Frames DEF PipeInv, StageSteps

\* The header worker returns: an Exit follows all blocks into the body channel.
LEMMA HeaderExitStep ==
  ASSUME Stages, PipeInv, HeaderExit
  PROVE  PipeInv' /\ StageSteps
PROOF
<1>1. /\ bodyChan' = Append(bodyChan, Exit)
      /\ UNCHANGED <<submitted, headerChan, virtualChan, hManager, bManager, hStep, bStep, statuses, bodyTips,
                     vTips, vHeap, sink, vWorker, blockResult>>
  BY DEF HeaderExit, bodyVars, storeVars, virtualVars, callerVars, resultVars
<1>2. UNCHANGED <<hTasks, hEnded, hRunning, bTasks, bEnded, bRunning>>
  BY <1>1 DEF hManager, bManager
<1>3. bodyChan \in Seq(Messages) /\ Exit \in Messages /\ Exit \notin Task
  BY PipelineAssumption DEF PipeInv, TypeOK, Messages
<1>4. /\ bodyChan' \in Seq(Messages) /\ Once(bodyChan')
      /\ \A u \in Task : In(bodyChan', u) <=> In(bodyChan, u)
      /\ \A u, v : Ahead(bodyChan, u, v) => Ahead(bodyChan', u, v)
  BY <1>1, <1>3, Sending, ZenonT(40) DEF PipeInv, Placed
<1>5. /\ \A u \in Task : (HeaderHas(u)' <=> HeaderHas(u)) /\ (BodyHas(u)' <=> BodyHas(u))
      /\ \A u \in Task : (H!Queued(u)' <=> H!Queued(u)) /\ (B!Queued(u)' <=> B!Queued(u))
  BY <1>2 DEF HeaderHas, BodyHas, H!Queued, B!Queued
<1>6. TypeOK'
  BY <1>1, <1>4 DEF PipeInv, TypeOK
<1>7. Placed'
  BY <1>1, <1>2, <1>4, <1>5, Zenon DEF PipeInv, Placed, WasSubmitted
<1>8. Order'
  BY <1>1, <1>2, <1>4, <1>5, Zenon DEF PipeInv, Order, Follows, SubmittedBefore, Answered
<1>9. Refusals'
  <2>1. Refusals
    BY DEF PipeInv
  <2> QED
    BY <1>1, <1>2, <1>4, <1>5, <2>1, RefusalsKept, Zenon
<1> QED
  BY <1>1, <1>2, <1>6, <1>7, <1>8, <1>9, Frames DEF PipeInv, StageSteps

\* A header task begins: all earlier submissions of its parents have ended.
LEMMA HeaderTryBeginStep ==
  ASSUME Stages, PipeInv, NEW h \in Hash, HeaderTryBegin(h)
  PROVE  PipeInv' /\ StageSteps
PROOF
<1>1. /\ H!Defer(h) \/ H!Begin(h)
      /\ UNCHANGED <<submitted, headerChan, bodyChan, virtualChan, bManager, hStep, bStep, statuses, bodyTips,
                     vTips, vHeap, sink, vWorker, blockResult>>
  BY DEF HeaderTryBegin, channelVars, bodyVars, storeVars, virtualVars, callerVars, resultVars
<1>2. UNCHANGED <<bTasks, bEnded, bRunning>>
  BY <1>1 DEF bManager
<1>3. /\ H!ManagerNext /\ UNCHANGED hEnded /\ hRunning \subseteq hRunning'
      /\ \A u \in Task : H!Queued(u)' <=> H!Queued(u)
      /\ \A t \in hRunning' \ hRunning :
           /\ t \in Task /\ H!Queued(t)
           /\ \A u \in Task : HashOf[u] \in ParentSet(HashOf[t]) => ~H!Queued(u)
  BY <1>1, HeaderBegins, Zenon DEF Stages
<1>4. /\ \A u \in Task : (HeaderHas(u)' <=> HeaderHas(u)) /\ (BodyHas(u)' <=> BodyHas(u))
      /\ \A u \in Task : B!Queued(u)' <=> B!Queued(u)
  BY <1>2, <1>3, Zenon DEF HeaderHas, BodyHas, B!Queued
<1>5. \A t \in hRunning' \ hRunning : hStep[t] = "start"
  BY <1>3, Zenon DEF PipeInv, Placed
<1>6. TypeOK'
  BY <1>1 DEF PipeInv, TypeOK
<1>7. Placed'
  BY <1>1, <1>2, <1>3, <1>4, Zenon DEF PipeInv, Placed, WasSubmitted, In, Once
<1>8. Verdicts'
  <2>1. Verdicts
    BY DEF PipeInv
  <2> QED
    BY <1>1, <1>2, <1>5, <2>1, VerdictsKept
<1>9. Order'
  <2> SUFFICES ASSUME NEW t \in Task, NEW u \in Task, Follows(t, u), t \in hRunning'
               PROVE  u \in hEnded
    <3>1. Order
      BY DEF PipeInv
    <3>2. \A t \in Task : (Answered(t)' <=> Answered(t)) /\ (In(bodyChan, t)' <=> In(bodyChan, t))
      BY <1>1, Zenon DEF Answered, In
    <3>3. \A t, u \in Task : /\ Ahead(headerChan, u, t)' <=> Ahead(headerChan, u, t)
                             /\ Ahead(bodyChan, u, t)' <=> Ahead(bodyChan, u, t)
      BY <1>1 DEF Ahead
    <3>4. UNCHANGED <<submitted, hEnded, bRunning, bEnded>>
      BY <1>1, <1>2, <1>3
    <3> QED
      BY <1>4, <3>1, <3>2, <3>3, <3>4, FollowsKept DEF Order
  <2>1. CASE t \in hRunning
    BY <2>1 DEF PipeInv, Order
  <2>2. CASE t \notin hRunning
    <3>1. H!Queued(t) /\ ~H!Queued(u)
      BY <1>3, <2>2 DEF Follows
    <3>2. HeaderHas(u) \/ Ahead(headerChan, u, t)
      BY DEF PipeInv, Order, Follows
    <3>3. ~Ahead(headerChan, u, t)
      BY <3>1 DEF PipeInv, Placed, Ahead, In, HeaderHas
    <3> QED
      BY <3>1, <3>2, <3>3 DEF HeaderHas
  <2> QED
    BY <2>1, <2>2
<1>10. Refusals'
  <2>1. Refusals
    BY DEF PipeInv
  <2> QED
    BY <1>1, <1>2, <1>3, <1>4, <1>5, <2>1, RefusalsKept, Zenon
<1> QED
  BY <1>1, <1>2, <1>3, <1>6, <1>7, <1>8, <1>9, <1>10, Frames, Zenon DEF PipeInv, StageSteps

\* process_header finds out: a parent is missing only when it was refused before.
LEMMA HeaderValidateStep ==
  ASSUME Stages, PipeInv, NEW t \in Task, HeaderValidate(t)
  PROVE  PipeInv' /\ StageSteps
PROOF
<1> DEFINE h == HashOf[t]
<1>1. /\ t \in hRunning /\ hStep' = [hStep EXCEPT ![t] = HeaderVerdict(t)]
      /\ UNCHANGED <<submitted, headerChan, bodyChan, virtualChan, hManager, bManager, bStep, statuses, bodyTips,
                     vTips, vHeap, sink, vWorker, blockResult>>
  BY DEF HeaderValidate, channelVars, bodyVars, storeVars, virtualVars, callerVars, resultVars
<1>2. UNCHANGED <<hTasks, hEnded, hRunning, bTasks, bEnded, bRunning>>
  BY <1>1 DEF hManager, bManager
<1>3. h \in Hash /\ statuses[h] \in Statuses /\ hStep \in [Task -> HeaderSteps]
  BY PipelineAssumption DEF PipeInv, TypeOK
<1>4. ParentsVerdict(h) \in {"InvalidParent", "ok", "MissingParents"}
  BY DEF ParentsVerdict
<1>5. ParentsVerdict(h) = "MissingParents" => \E p \in ParentSet(h) : statuses[p] = "None"
  BY DEF ParentsVerdict
<1>6. ParentsVerdict(h) = "ok" => \A p \in ParentSet(h) : statuses[p] # "None"
  BY DEF ParentsVerdict
<1>7. /\ ValidateHeader(t) \in {"RuleError", "InvalidParent", "MissingParents", "commit", "markInvalid"}
      /\ ValidateHeader(t) = "MissingParents" => ParentsVerdict(h) = "MissingParents"
      /\ ValidateHeader(t) \in {"commit", "markInvalid"} /\ t \notin TrustedTask => ParentsVerdict(h) = "ok"
  BY <1>4 DEF ValidateHeader
<1>8. \/ statuses[h] = "None" /\ HeaderVerdict(t) = ValidateHeader(t)
      \/ statuses[h] # "None" /\ HeaderVerdict(t) = "KnownInvalid"
      \/ statuses[h] # "None" /\ HeaderVerdict(t) = statuses[h]
  BY DEF HeaderVerdict
<1>9. HeaderVerdict(t) \in HeaderSteps
  BY <1>3, <1>7, <1>8 DEF HeaderSteps, Results, Errors
<1>10. /\ \A u \in Task : u # t => hStep'[u] = hStep[u]
       /\ hStep'[t] = HeaderVerdict(t)
  BY <1>1, <1>3
<1>11. HeaderVerdict(t) \in {"commit", "markInvalid"} =>
         /\ statuses[h] = "None"
         /\ t \notin TrustedTask => \A p \in ParentSet(h) : statuses[p] # "None"
  BY <1>3, <1>6, <1>7, <1>8 DEF Statuses, BodyStatuses
<1>12. HeaderVerdict(t) \in Statuses => statuses[h] # "None"
  BY <1>7, <1>8 DEF Statuses, BodyStatuses
<1>13. HeaderVerdict(t) = "MissingParents" => \E p \in ParentSet(h) : statuses[p] = "None"
  BY <1>3, <1>5, <1>7, <1>8 DEF Statuses, BodyStatuses
<1>14. TypeOK'
  <2>1. hStep' \in [Task -> HeaderSteps]
    BY <1>1, <1>3, <1>9
  <2> QED
    BY <1>1, <2>1 DEF PipeInv, TypeOK
<1>15. Placed'
  <2>1. \A u \in Task : u \notin hRunning => hStep'[u] = "start"
    BY <1>1, <1>10, Zenon DEF PipeInv, Placed
  <2> QED
    BY <1>1, <1>2, <2>1, Zenon DEF PipeInv, Placed, Once, In, WasSubmitted, HeaderHas, BodyHas, H!Queued, B!Queued
<1>16. Verdicts'
  <2>1. hRunning \subseteq Task
    BY HeaderFacts, Zenon DEF Stages
  <2> QED
    BY <1>1, <1>2, <1>10, <1>11, <1>12, <2>1, ZenonT(40) DEF PipeInv, Verdicts, HasBody
<1>17. Refusals'
  <2>1. HeaderVerdict(t) = "MissingParents" => Refused(t)
    <3> SUFFICES ASSUME NEW p \in ParentSet(h), statuses[p] = "None",
                        NEW u \in Task, HashOf[u] = p, SubmittedBefore(u, t)
                 PROVE  blockResult[u] \in Errors
      BY <1>13 DEF Refused
    <3>1. u \in hEnded
      BY <1>1, Zenon DEF PipeInv, Order, Follows
    <3> QED
      BY <3>1, Zenon DEF PipeInv, Refusals
  <2>2. \A u \in Task : (u \in hRunning /\ hStep'[u] = "MissingParents") => Refused(u)
    BY <1>10, <2>1, Zenon DEF PipeInv, Refusals
  <2>3. \A u \in Task : Refused(u) => Refused(u)'
    BY <1>1, RefusedStays
  <2> QED
    BY <1>1, <1>2, <2>2, <2>3, Zenon
       DEF PipeInv, Refusals, WasSubmitted, Answered, HasBody, In, BodyHas, H!Queued, B!Queued
<1> QED
  BY <1>1, <1>2, <1>14, <1>15, <1>16, <1>17, Frames DEF PipeInv, StageSteps

\* The bodies are those they were.
LEMMA SameBodies ==
  ASSUME Bodies, TypeOK, UNCHANGED bodyTips, \A h \in Hash : HasBody(h)' <=> HasBody(h)
  PROVE  Bodies'
PROOF
<1>1. LiveTips' = LiveTips /\ bodyTips \subseteq Hash /\ FinalityPoint \in Hash
  BY PipelineAssumption, Zenon DEF LiveTips, TypeOK, Above
<1> QED
  BY <1>1, ParentsAreBlocks DEF Bodies, PastOf, Above

\* Away from the virtual worker: bodies may come, if they are announced to it.
LEMMA SearchKeeps ==
  ASSUME Search, TypeOK, UNCHANGED <<vTips, vHeap, sink, vWorker>>,
         \A h \in Hash : HasBody(h) => HasBody(h)',
         \A h \in Hash : statuses[h] = "UTXOValid" => statuses'[h] = "UTXOValid",
         \A h \in Hash : HasBody(h)' /\ Above(h) =>
           Announced(h)' \/ (HasBody(h) /\ ~Announced(h))
  PROVE  Search'
PROOF
<1>1. Seen' = Seen /\ (\A S : PastOf(S)' = PastOf(S)) /\ \A h : (Above(h)' <=> Above(h))
  BY Zenon DEF Seen, PastOf, Above
<1>2. \A h, S : IsBestSink(h, S)' <=> IsBestSink(h, S)
  BY DEF IsBestSink, PastOf, Qualified
<1>3. \A h \in vTips \cup vHeap \cup {sink} : HasBody(h)' /\ Above(h)'
  BY <1>1, Zenon DEF Search, TypeOK
<1>4. vWorker = "searching" =>
        /\ vHeap \subseteq PastOf(vTips) /\ FinalityPoint \in PastOf(vTips)
        /\ \A h \in PastOf(vTips) : Qualified(h) => h \in PastOf(vHeap)
  BY Zenon DEF Search
<1>5. vWorker = "answering" =>
        /\ IsBestSink(sink, vTips) /\ FinalityPoint \in PastOf(vTips)
        /\ \A h \in Chain[sink] : statuses'[h] = "UTXOValid"
  BY ChainClosed, Zenon DEF Search, TypeOK
<1>6. vWorker # "searching" => IsBestSink(sink, Seen)
  BY Zenon DEF Search
<1>7. vWorker # "resolving" =>
        \A h \in Hash : HasBody(h)' /\ Above(h) => h \in PastOf(Seen) \/ Announced(h)'
  BY Zenon DEF Search
<1> QED
  BY <1>1, <1>2, <1>3, <1>4, <1>5, <1>6, <1>7, Zenon DEF Search, PastOf, Qualified

\* commit_header: nobody else works on this block.
LEMMA HeaderCommitStep ==
  ASSUME Stages, PipeInv, NEW t \in Task, HeaderCommit(t)
  PROVE  PipeInv' /\ StageSteps
PROOF
<1> DEFINE h == HashOf[t]
<1>1. /\ t \in hRunning /\ hStep[t] \in {"commit", "markInvalid"}
      /\ \E s \in {"HeaderOnly", "Invalid"} : statuses' = [statuses EXCEPT ![h] = s]
      /\ \E s \in {"HeaderOnly", "RuleError"} : hStep' = [hStep EXCEPT ![t] = s]
      /\ UNCHANGED <<submitted, headerChan, bodyChan, virtualChan, hManager, bManager, bStep, bodyTips,
                     vTips, vHeap, sink, vWorker, blockResult>>
  BY Zenon DEF HeaderCommit, channelVars, bodyVars, virtualVars, callerVars, resultVars
<1>2. UNCHANGED <<hTasks, hEnded, hRunning, bTasks, bEnded, bRunning>>
  BY <1>1 DEF hManager, bManager
<1>3. /\ h \in Hash /\ HashOf \in [Task -> Hash]
      /\ statuses \in [Hash -> Statuses] /\ hStep \in [Task -> HeaderSteps]
  BY PipelineAssumption DEF PipeInv, TypeOK
<1>4. statuses[h] = "None"
  BY <1>1 DEF PipeInv, Verdicts
<1>5. /\ statuses' \in [Hash -> Statuses] /\ statuses'[h] \in {"HeaderOnly", "Invalid"}
      /\ \A x \in Hash : x # h => statuses'[x] = statuses[x]
  BY <1>1, <1>3 DEF Statuses
<1>6. /\ hStep' \in [Task -> HeaderSteps] /\ hStep'[t] \in {"HeaderOnly", "RuleError"}
      /\ \A u \in Task : u # t => hStep'[u] = hStep[u]
  BY <1>1, <1>3 DEF HeaderSteps, Results, Statuses, Errors
<1>7. \A x \in Hash : HasBody(x)' <=> HasBody(x)
  BY <1>4, <1>5 DEF HasBody, BodyStatuses
<1>8. TypeOK'
  BY <1>1, <1>5, <1>6, Zenon DEF PipeInv, TypeOK
<1>9. Placed'
  <2>1. \A u \in Task : u \notin hRunning => hStep'[u] = "start"
    BY <1>1, <1>6, Zenon DEF PipeInv, Placed
  <2>2. Placed /\ \A u \in Task : u \notin bRunning => bStep[u] = "start"
    BY Zenon DEF PipeInv, Placed
  <2> QED
    BY <1>1, <1>2, <2>1, <2>2, PlacedKept, Zenon
<1>10. Verdicts'
  <2>1. ASSUME NEW u \in hRunning
        PROVE  /\ hStep'[u] \in {"commit", "markInvalid"} =>
                    /\ statuses'[HashOf[u]] = "None"
                    /\ u \notin TrustedTask => \A p \in ParentSet(HashOf[u]) : statuses'[p] # "None"
               /\ hStep'[u] \in Statuses => statuses'[HashOf[u]] # "None"
    <3>1. u \in Task /\ (u # t => HashOf[u] # h)
      BY <1>1, HeaderFacts DEF Stages
    <3>2. \A x \in Hash : statuses[x] # "None" => statuses'[x] # "None"
      BY <1>5
    <3>3. HashOf[u] \in Hash /\ ParentSet(HashOf[u]) \subseteq Hash
      BY <1>3, <3>1, ParentsAreBlocks
    <3>4. CASE u = t
      BY <1>5, <1>6, <3>4
    <3>5. CASE u # t
      BY <1>5, <1>6, <3>1, <3>2, <3>3, <3>5, Zenon DEF PipeInv, Verdicts
    <3> QED
      BY <3>4, <3>5, Zenon
  <2>2. ASSUME NEW u \in bRunning
        PROVE  /\ bStep[u] \in {"commit", "markInvalid"} => statuses'[HashOf[u]] = "HeaderOnly"
               /\ bStep[u] = "commit" /\ u \notin TrustedTask => \A p \in ParentSet(HashOf[u]) : HasBody(p)'
               /\ bStep[u] \in Statuses \cup {"notify"} => HasBody(HashOf[u])'
    <3>1. HashOf[u] \in Hash /\ ParentSet(HashOf[u]) \subseteq Hash
      BY <1>3, ParentsAreBlocks, BodyFacts DEF Stages
    <3> QED
      BY <1>4, <1>5, <1>7, <3>1, Zenon DEF PipeInv, Verdicts
  <2> QED
    BY <1>1, <1>2, <2>1, <2>2, Zenon DEF Verdicts
<1>11. Bodies'
  BY <1>1, <1>7, SameBodies DEF PipeInv
<1>12. Search'
  <2>1. \A x : Announced(x)' <=> Announced(x)
    BY <1>1, <1>2 DEF Announced, In
  <2>2. \A x \in Hash : statuses[x] = "UTXOValid" => statuses'[x] = "UTXOValid"
    BY <1>4, <1>5
  <2> QED
    BY <1>1, <1>7, <2>1, <2>2, SearchKeeps DEF PipeInv
<1>13. Refusals'
  <2>1. \A x \in Hash : statuses[x] # "None" => statuses'[x] # "None"
    BY <1>5
  <2>2. \A u \in Task : Refused(u) => Refused(u)'
    BY <1>1, RefusedStays
  <2>3. \A u \in Task : hStep'[u] = "MissingParents" => hStep[u] = "MissingParents"
    BY <1>6
  <2> QED
    BY <1>1, <1>2, <1>3, <1>7, <2>1, <2>2, <2>3, ZenonT(40)
       DEF PipeInv, Refusals, WasSubmitted, Answered, In, BodyHas, H!Queued, B!Queued
<1> QED
  BY <1>1, <1>2, <1>8, <1>9, <1>10, <1>11, <1>12, <1>13, Frames DEF PipeInv, StageSteps

\* A header task ends: it is answered, or follows its parents into the body channel.
LEMMA HeaderEndStep ==
  ASSUME Stages, PipeInv, NEW t \in Task, HeaderEnd(t)
  PROVE  PipeInv' /\ StageSteps
PROOF
<1> DEFINE res == hStep[t]
           answered == AnsweredByHeader(t, res)
<1>1. H!End(t)
  BY DEF HeaderEnd
<1>2. /\ H!ManagerNext /\ t \in hRunning /\ Head(hTasks[HashOf[t]]) = t
      /\ H!Queued(t) /\ t \notin hEnded
      /\ hEnded' = hEnded \cup {t} /\ hRunning' = hRunning \ {t}
      /\ \A u \in Task : H!Queued(u)' <=> H!Queued(u) /\ u # t
  BY <1>1, HeaderEnds DEF Stages
<1>3. /\ res \in Results /\ hStep' = [hStep EXCEPT ![t] = "start"]
      /\ IF answered THEN blockResult' = [blockResult EXCEPT ![t] = res] /\ UNCHANGED bodyChan
                     ELSE bodyChan' = Append(bodyChan, t) /\ UNCHANGED blockResult
      /\ UNCHANGED <<submitted, headerChan, virtualChan, bManager, bStep, statuses, bodyTips,
                     vTips, vHeap, sink, vWorker>>
  BY <1>2 DEF HeaderEnd, bodyVars, storeVars, virtualVars, callerVars, resultVars
<1>4. UNCHANGED <<bTasks, bEnded, bRunning>>
  BY <1>3 DEF bManager
<1>5. /\ hStep \in [Task -> HeaderSteps] /\ blockResult \in [Task -> Results \cup {"pending"}]
      /\ bodyChan \in Seq(Messages) /\ t \in Messages /\ HashOf \in [Task -> Hash]
      /\ Once(bodyChan)
  BY PipelineAssumption DEF PipeInv, TypeOK, Messages, Placed
<1>6. /\ hStep' \in [Task -> HeaderSteps] /\ hStep'[t] = "start"
      /\ \A u \in Task : u # t => hStep'[u] = hStep[u]
  BY <1>3, <1>5 DEF HeaderSteps
<1>7. /\ WasSubmitted(t) /\ ~In(headerChan, t) /\ ~In(bodyChan, t) /\ ~BodyHas(t)
      /\ blockResult[t] = "pending"
  BY <1>2, Zenon DEF PipeInv, Placed, Refusals, HeaderHas
<1>8. /\ blockResult' \in [Task -> Results \cup {"pending"}]
      /\ \A u \in Task : u # t => blockResult'[u] = blockResult[u]
      /\ answered => blockResult'[t] = res
      /\ ~answered => blockResult'[t] = "pending"
  BY <1>3, <1>5, <1>7
<1>9. /\ bodyChan' \in Seq(Messages) /\ Once(bodyChan')
      /\ \A u : In(bodyChan', u) <=> In(bodyChan, u) \/ (u = t /\ ~answered)
      /\ \A u, v : Ahead(bodyChan, u, v) => Ahead(bodyChan', u, v)
      /\ \A u : ~answered /\ In(bodyChan, u) => Ahead(bodyChan', u, t)
  <2>1. CASE answered
    BY <1>3, <1>5, <2>1
  <2>2. CASE ~answered
    <3>1. bodyChan' = Append(bodyChan, t)
      BY <1>3, <2>2
    <3> HIDE DEF answered
    <3> QED
      BY <1>5, <1>7, <2>2, <3>1, Sending
  <2> QED
    BY <2>1, <2>2
<1>10. res \in Statuses => statuses[HashOf[t]] # "None"
  BY <1>2, Zenon DEF PipeInv, Verdicts
<1>11. /\ answered => res \in Errors \/ t \in HeaderOnlyTask
       /\ ~answered => res \notin Errors /\ t \notin HeaderOnlyTask
       /\ res \in Errors \/ res \in Statuses
       /\ "pending" \notin Errors
  BY <1>3 DEF AnsweredByHeader, Results, Errors
<1>12. res = "MissingParents" => Refused(t)
  BY <1>2, Zenon DEF PipeInv, Refusals
<1> HIDE DEF res, answered
<1>13. /\ \A u \in Task : (HeaderHas(u)' <=> HeaderHas(u)) /\ (BodyHas(u)' <=> BodyHas(u))
       /\ \A u \in Task : B!Queued(u)' <=> B!Queued(u)
  BY <1>2, <1>4, Zenon DEF HeaderHas, BodyHas, B!Queued
<1>14. \A u \in Task : blockResult[u] \in Errors => u # t /\ blockResult'[u] = blockResult[u]
  BY <1>7, <1>8, <1>11
<1>15. \A u \in Task : Answered(u) => Answered(u)'
  BY <1>14 DEF Answered
<1>16. TypeOK'
  BY <1>3, <1>6, <1>8, <1>9, Zenon DEF PipeInv, TypeOK
<1>17. Placed'
  <2>1. Placed
    BY DEF PipeInv
  <2>2. Once(headerChan)' /\ Once(bodyChan)' /\ Once(submitted)'
    BY <1>3, <1>9, <2>1, Zenon DEF Placed, Once
  <2>3. \A u \in Task : (In(headerChan, u)' <=> In(headerChan, u)) /\ (WasSubmitted(u)' <=> WasSubmitted(u))
    BY <1>3, Zenon DEF In, WasSubmitted
  <2>4. \A u \in Task : In(bodyChan, u)' => In(bodyChan, u) \/ u = t
    BY <1>9, Zenon DEF In
  <2>5. \A u \in Task : (u \notin hRunning' => hStep'[u] = "start") /\ (u \notin bRunning' => bStep'[u] = "start")
    BY <1>2, <1>3, <1>4, <1>6, <2>1 DEF Placed
  <2> QED
    BY <1>2, <1>7, <1>13, <2>1, <2>2, <2>3, <2>4, <2>5, Zenon DEF Placed
<1>18. Verdicts'
  <2>1. hRunning \subseteq Task
    BY HeaderFacts, Zenon DEF Stages
  <2>2. Verdicts
    BY DEF PipeInv
  <2> QED
    BY <1>2, <1>3, <1>4, <1>6, <2>1, <2>2, VerdictsKept
<1>19. Order'
  <2> SUFFICES ASSUME NEW v \in Task, NEW u \in Task
               PROVE  /\ SubmittedBefore(u, v) => HeaderHas(u) \/ Ahead(headerChan, u, v)
                      /\ Follows(v, u) /\ v \in hRunning' => u \in hEnded'
                      /\ Follows(v, u) /\ (In(bodyChan', v) \/ BodyHas(v)) =>
                           Answered(u)' \/ BodyHas(u) \/ Ahead(bodyChan', u, v)
                      /\ Follows(v, u) /\ v \in bRunning => Answered(u)' \/ u \in bEnded
    <3>1. \A v, u \in Task : /\ Ahead(headerChan, u, v)' <=> Ahead(headerChan, u, v)
                             /\ Ahead(bodyChan, u, v)' <=> Ahead(bodyChan', u, v)
                             /\ In(bodyChan, v)' <=> In(bodyChan', v)
      BY <1>3, Zenon DEF Ahead, In
    <3> QED
      BY <1>3, <1>4, <1>13, <3>1, FollowsKept DEF Order
  <2>1. ASSUME Follows(t, u), v = t, ~answered
        PROVE  Answered(u)' \/ BodyHas(u) \/ Ahead(bodyChan', u, t)
    <3>1. u \in hEnded
      BY <1>2, <2>1 DEF PipeInv, Order
    <3>2. Answered(u) \/ In(bodyChan, u) \/ BodyHas(u)
      BY <3>1, Zenon DEF PipeInv, Refusals
    <3> QED
      BY <1>9, <1>15, <2>1, <3>2
  <2>2. Follows(v, u) /\ (In(bodyChan, v) \/ BodyHas(v)) =>
          Answered(u)' \/ BodyHas(u) \/ Ahead(bodyChan', u, v)
    BY <1>9, <1>15 DEF PipeInv, Order
  <2> QED
    BY <1>2, <1>9, <1>15, <2>1, <2>2 DEF PipeInv, Order
<1>20. Refusals'
  <2> SUFFICES ASSUME NEW u \in Task
               PROVE  /\ In(headerChan, u) \/ H!Queued(u)' \/ In(bodyChan', u) \/ B!Queued(u) \/ ~WasSubmitted(u) =>
                           blockResult'[u] = "pending"
                      /\ u \in hEnded' => blockResult'[u] \in Errors \/ statuses[HashOf[u]] # "None"
                      /\ u \in hEnded' => Answered(u)' \/ In(bodyChan', u) \/ BodyHas(u)
                      /\ u \in bEnded => blockResult'[u] \in Errors \/ HasBody(HashOf[u])
                      /\ In(bodyChan', u) \/ BodyHas(u) => u \notin HeaderOnlyTask
                      /\ \/ u \in hRunning' /\ hStep'[u] = "MissingParents"
                         \/ u \in bRunning /\ bStep[u] = "MissingParents"
                         \/ blockResult'[u] = "MissingParents"
                         => Refused(u)'
    BY <1>3, <1>4, <1>13, Zenon DEF Refusals, In, WasSubmitted, HasBody
  <2>1. Refused(u) => Refused(u)'
    BY <1>3, <1>14, RefusedStays
  <2>2. CASE u = t
    <3>1. ~H!Queued(t)' /\ ~B!Queued(t) /\ t \notin bEnded /\ t \notin bRunning /\ t \notin hRunning'
      BY <1>2, <1>7, BodyFacts, Zenon DEF Stages, BodyHas
    <3>2. In(bodyChan', t) <=> ~answered
      BY <1>7, <1>9
    <3>3. blockResult'[t] \in Errors \/ statuses[HashOf[t]] # "None"
      <4>1. CASE answered
        BY <1>8, <1>10, <1>11, <4>1
      <4>2. CASE ~answered
        BY <1>10, <1>11, <4>2
      <4> QED
        BY <4>1, <4>2
    <3>4. answered => Answered(t)'
      BY <1>8, <1>11 DEF Answered
    <3> QED
      BY <1>7, <1>8, <1>11, <1>12, <2>1, <2>2, <3>1, <3>2, <3>3, <3>4, Zenon
  <2>3. CASE u # t
    <3>1. (In(bodyChan', u) <=> In(bodyChan, u)) /\ (H!Queued(u)' <=> H!Queued(u)) /\ (u \in hEnded' <=> u \in hEnded)
      BY <1>2, <1>9, <2>3
    <3> QED
      BY <1>2, <1>6, <1>8, <1>15, <2>1, <2>3, <3>1, Zenon DEF PipeInv, Refusals
  <2> QED
    BY <2>2, <2>3, Zenon
<1> QED
  BY <1>2, <1>3, <1>4, <1>16, <1>17, <1>18, <1>19, <1>20, Frames, Zenon DEF PipeInv, StageSteps

=============================================================================
