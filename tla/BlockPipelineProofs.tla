------------------------ MODULE BlockPipelineProofs ------------------------
(***************************************************************************)
(* The steps of the body stage and of the virtual worker preserve the      *)
(* invariant of BlockPipelineLemmas as well.  With DepsManagerProofs: both *)
(* stages of the pipeline use their dependency manager as it expects, so   *)
(* the invariant of each manager and that of the pipeline hold in every    *)
(* state, for any DAG, any submissions and any faults.                     *)
(***************************************************************************)
EXTENDS BlockPipelineLemmas

-----------------------------------------------------------------------------
(* The steps of the body stage and of virtual *)

\* The body worker receives: a block is registered for the first time.
LEMMA BodyReceiveStep ==
  ASSUME Stages, PipeInv, BodyReceive
  PROVE  PipeInv' /\ StageSteps
PROOF
<1> DEFINE m == Head(bodyChan)
<1>1. /\ bodyChan # <<>> /\ bodyChan' = Tail(bodyChan)
      /\ IF m = Exit THEN B!WaitForIdle ELSE B!Register(m)
      /\ UNCHANGED <<submitted, headerChan, virtualChan, hManager, hStep, bStep, statuses, bodyTips,
                     vTips, vHeap, sink, vWorker, blockResult>>
  BY DEF BodyReceive, headerVars, storeVars, virtualVars, callerVars, resultVars
<1>2. UNCHANGED <<hTasks, hEnded, hRunning>>
  BY <1>1 DEF hManager
<1>3. bodyChan \in Seq(Messages) /\ Exit \notin Task /\ Once(bodyChan)
  BY PipelineAssumption DEF PipeInv, TypeOK, Placed
<1>4. /\ bodyChan' \in Seq(Messages) /\ Once(bodyChan') /\ m \in Messages
      /\ m \in Task => In(bodyChan, m) /\ ~In(bodyChan', m)
      /\ \A u : In(bodyChan', u) => In(bodyChan, u)
      /\ \A u : In(bodyChan, u) => u = m \/ In(bodyChan', u)
      /\ \A u, v : Ahead(bodyChan, u, v) => u = m \/ Ahead(bodyChan', u, v)
  BY <1>1, <1>3, Receiving
<1>5. /\ [B!ManagerNext]_(B!managerVars) /\ UNCHANGED <<bRunning, bEnded>>
      /\ \A u \in Task : B!Queued(u)' <=> B!Queued(u) \/ u = m
  <2>1. CASE m = Exit
    BY <1>1, <1>3, <2>1 DEF B!WaitForIdle, B!ManagerNext, B!Queued
  <2>2. CASE m \in Task
    <3>1. B!Register(m) /\ ~BodyHas(m)
      BY <1>1, <1>3, <1>4, <2>2 DEF PipeInv, Placed
    <3> QED
      BY <2>2, <3>1, BodyRegisters DEF Stages
  <2> QED
    BY <1>4, <2>1, <2>2 DEF Messages
<1> HIDE DEF m
<1>6. /\ \A u \in Task : BodyHas(u)' <=> BodyHas(u) \/ u = m
      /\ \A u \in Task : (HeaderHas(u)' <=> HeaderHas(u)) /\ (H!Queued(u)' <=> H!Queued(u))
  BY <1>2, <1>5 DEF HeaderHas, BodyHas, H!Queued
<1>7. \A u \in Task : In(bodyChan', u) \/ BodyHas(u)' => In(bodyChan, u) \/ BodyHas(u)
  BY <1>4, <1>6
<1>8. TypeOK'
  BY <1>1, <1>4 DEF PipeInv, TypeOK
<1>9. Placed'
  <2>1. Placed
    BY DEF PipeInv
  <2>2. Once(headerChan)' /\ Once(bodyChan)' /\ Once(submitted)'
    BY <1>1, <1>4, <2>1 DEF Placed, Once
  <2>3. \A u \in Task : /\ In(headerChan, u)' <=> In(headerChan, u)
                        /\ In(bodyChan, u)' => In(bodyChan, u)
                        /\ WasSubmitted(u)' <=> WasSubmitted(u)
    BY <1>1, <1>4 DEF In, WasSubmitted
  <2>4. \A u \in Task : u = m => In(bodyChan, u) /\ ~In(bodyChan, u)'
    BY <1>4 DEF In
  <2>5. UNCHANGED <<hEnded, hRunning, hStep, bRunning, bStep>>
    BY <1>1, <1>2, <1>5
  <2> QED
    BY <1>6, <2>1, <2>2, <2>3, <2>4, <2>5 DEF Placed
<1>10. Search'
  BY <1>1, <1>5, Frames DEF PipeInv
<1>11. Order'
  <2> SUFFICES ASSUME NEW v \in Task, NEW u \in Task, Follows(v, u), In(bodyChan', v) \/ BodyHas(v)'
               PROVE  Answered(u) \/ BodyHas(u)' \/ Ahead(bodyChan', u, v)
    <3>1. Order
      BY DEF PipeInv
    <3>2. \A t \in Task : (Answered(t)' <=> Answered(t)) /\ (In(bodyChan, t)' <=> In(bodyChan', t))
      BY <1>1 DEF Answered, In
    <3>3. \A t, x \in Task : /\ Ahead(headerChan, x, t)' <=> Ahead(headerChan, x, t)
                             /\ Ahead(bodyChan, x, t)' <=> Ahead(bodyChan', x, t)
      BY <1>1 DEF Ahead
    <3>4. UNCHANGED <<submitted, hEnded, hRunning, bRunning, bEnded>>
      BY <1>1, <1>2, <1>5
    <3> QED
      BY <1>6, <3>1, <3>2, <3>3, <3>4, FollowsKept DEF Order
  <2>1. Answered(u) \/ BodyHas(u) \/ Ahead(bodyChan, u, v)
    BY <1>7 DEF PipeInv, Order
  <2> QED
    BY <1>4, <1>6, <2>1
<1>12. Refusals'
  <2>1. \A u \in Task : In(bodyChan', u) \/ B!Queued(u)' <=> In(bodyChan, u) \/ B!Queued(u)
    BY <1>4, <1>5
  <2>2. Refusals
    BY DEF PipeInv
  <2> QED
    BY <1>1, <1>2, <1>5, <1>6, <2>1, <2>2, RefusalsKept
<1> QED
  BY <1>1, <1>2, <1>5, <1>8, <1>9, <1>10, <1>11, <1>12, Frames DEF PipeInv, StageSteps

\* The body worker returns: an Exit follows all blocks into the virtual channel.
LEMMA BodyExitStep ==
  ASSUME Stages, PipeInv, BodyExit
  PROVE  PipeInv' /\ StageSteps
PROOF
<1>1. /\ virtualChan' = Append(virtualChan, Exit)
      /\ UNCHANGED <<submitted, headerChan, bodyChan, hManager, bManager, hStep, bStep, statuses, bodyTips,
                     vTips, vHeap, sink, vWorker, blockResult>>
  BY DEF BodyExit, headerVars, storeVars, virtualVars, callerVars, resultVars
<1>2. UNCHANGED <<hTasks, hEnded, hRunning, bTasks, bEnded, bRunning>>
  BY <1>1 DEF hManager, bManager
<1>3. virtualChan \in Seq(Messages) /\ Exit \in Messages /\ Exit \notin Task
  BY PipelineAssumption DEF PipeInv, TypeOK, Messages
<1>4. virtualChan' \in Seq(Messages) /\ \A u \in Task : In(virtualChan', u) <=> In(virtualChan, u)
  BY <1>1, <1>3, Sending
<1>5. TypeOK'
  BY <1>1, <1>4 DEF PipeInv, TypeOK
<1>6. Search'
  <2>1. \A x : Announced(x)' <=> Announced(x)
    BY <1>1, <1>2, <1>4 DEF Announced
  <2> QED
    BY <1>1, <2>1, SearchKeeps DEF PipeInv, HasBody
<1> QED
  BY <1>1, <1>2, <1>5, <1>6, Frames DEF PipeInv, StageSteps

\* A body task begins: all earlier submissions of its parents have ended here or
\* were answered by the header stage.
LEMMA BodyTryBeginStep ==
  ASSUME Stages, PipeInv, NEW h \in Hash, BodyTryBegin(h)
  PROVE  PipeInv' /\ StageSteps
PROOF
<1>1. /\ B!Defer(h) \/ B!Begin(h)
      /\ UNCHANGED <<submitted, headerChan, bodyChan, virtualChan, hManager, hStep, bStep, statuses, bodyTips,
                     vTips, vHeap, sink, vWorker, blockResult>>
  BY DEF BodyTryBegin, channelVars, headerVars, storeVars, virtualVars, callerVars, resultVars
<1>2. UNCHANGED <<hTasks, hEnded, hRunning>>
  BY <1>1 DEF hManager
<1>3. /\ B!ManagerNext /\ UNCHANGED bEnded /\ bRunning \subseteq bRunning'
      /\ \A u \in Task : B!Queued(u)' <=> B!Queued(u)
      /\ \A t \in bRunning' \ bRunning :
           /\ t \in Task /\ B!Queued(t)
           /\ \A u \in Task : HashOf[u] \in ParentSet(HashOf[t]) => ~B!Queued(u)
  BY <1>1, BodyBegins DEF Stages
<1>4. /\ \A u \in Task : (HeaderHas(u)' <=> HeaderHas(u)) /\ (BodyHas(u)' <=> BodyHas(u))
      /\ \A u \in Task : H!Queued(u)' <=> H!Queued(u)
  BY <1>2, <1>3 DEF HeaderHas, BodyHas, H!Queued
<1>5. \A t \in bRunning' \ bRunning : bStep[t] = "start"
  BY <1>3 DEF PipeInv, Placed
<1>6. TypeOK'
  BY <1>1 DEF PipeInv, TypeOK
<1>7. Placed'
  BY <1>1, <1>2, <1>3, <1>4 DEF PipeInv, Placed, WasSubmitted, In, Once
<1>8. Verdicts'
  <2>1. Verdicts
    BY DEF PipeInv
  <2> QED
    BY <1>1, <1>2, <1>5, <2>1, VerdictsKept
<1>9. Search'
  <2>1. \A x : Announced(x)' <=> Announced(x)
    BY <1>1, <1>3, <1>5 DEF Announced, In
  <2> QED
    BY <1>1, <2>1, SearchKeeps DEF PipeInv, HasBody
<1>10. Order'
  <2> SUFFICES ASSUME NEW t \in Task, NEW u \in Task, Follows(t, u), t \in bRunning'
               PROVE  Answered(u) \/ u \in bEnded
    <3>1. Order
      BY DEF PipeInv
    <3>2. \A t \in Task : (Answered(t)' <=> Answered(t)) /\ (In(bodyChan, t)' <=> In(bodyChan, t))
      BY <1>1 DEF Answered, In
    <3>3. \A t, u \in Task : /\ Ahead(headerChan, u, t)' <=> Ahead(headerChan, u, t)
                             /\ Ahead(bodyChan, u, t)' <=> Ahead(bodyChan, u, t)
      BY <1>1 DEF Ahead
    <3>4. UNCHANGED <<submitted, hEnded, hRunning, bEnded>>
      BY <1>1, <1>2, <1>3
    <3> QED
      BY <1>4, <3>1, <3>2, <3>3, <3>4, FollowsKept DEF Order
  <2>1. CASE t \in bRunning
    BY <2>1 DEF PipeInv, Order
  <2>2. CASE t \notin bRunning
    <3>1. B!Queued(t) /\ ~B!Queued(u)
      BY <1>3, <2>2 DEF Follows
    <3>2. Answered(u) \/ BodyHas(u) \/ Ahead(bodyChan, u, t)
      BY <3>1 DEF PipeInv, Order, BodyHas
    <3>3. ~Ahead(bodyChan, u, t)
      BY <3>1 DEF PipeInv, Placed, Ahead, In, BodyHas
    <3> QED
      BY <3>1, <3>2, <3>3 DEF BodyHas
  <2> QED
    BY <2>1, <2>2
<1>11. Refusals'
  <2>1. Refusals
    BY DEF PipeInv
  <2> QED
    BY <1>1, <1>2, <1>3, <1>4, <1>5, <2>1, RefusalsKept
<1> QED
  BY <1>1, <1>2, <1>3, <1>6, <1>7, <1>8, <1>9, <1>10, <1>11, Frames DEF PipeInv, StageSteps

\* process_body finds out: the body of a parent is missing only when it was refused.
LEMMA BodyValidateStep ==
  ASSUME Stages, PipeInv, NEW t \in Task, BodyValidate(t)
  PROVE  PipeInv' /\ StageSteps
PROOF
<1> DEFINE h == HashOf[t]
<1>1. /\ t \in bRunning /\ bStep[t] = "start" /\ bStep' = [bStep EXCEPT ![t] = BodyVerdict(t)]
      /\ UNCHANGED <<submitted, headerChan, bodyChan, virtualChan, hManager, bManager, hStep, statuses, bodyTips,
                     vTips, vHeap, sink, vWorker, blockResult>>
  BY DEF BodyValidate, channelVars, headerVars, storeVars, virtualVars, callerVars, resultVars
<1>2. UNCHANGED <<hTasks, hEnded, hRunning, bTasks, bEnded, bRunning>>
  BY <1>1 DEF hManager, bManager
<1>3. h \in Hash /\ statuses[h] \in Statuses /\ bStep \in [Task -> BodySteps]
  BY PipelineAssumption DEF PipeInv, TypeOK
<1>4. /\ ValidateBody(t) \in {"BadMerkleRoot", "MissingParents", "commit", "markInvalid"}
      /\ ValidateBody(t) = "MissingParents" => \E p \in ParentSet(h) : ~HasBody(p)
      /\ ValidateBody(t) = "commit" /\ t \notin TrustedTask => \A p \in ParentSet(h) : HasBody(p)
  BY Zenon DEF ValidateBody, ParentBodiesMissing
<1>5. \/ statuses[h] = "None" /\ BodyVerdict(t) = "panic"
      \/ statuses[h] = "Invalid" /\ BodyVerdict(t) = "KnownInvalid"
      \/ statuses[h] = "HeaderOnly" /\ BodyVerdict(t) = ValidateBody(t)
      \/ HasBody(h) /\ BodyVerdict(t) = statuses[h]
  BY <1>3 DEF BodyVerdict, HasBody, Statuses, BodyStatuses
<1>6. BodyVerdict(t) \in BodySteps
  BY <1>3, <1>4, <1>5 DEF BodySteps, HeaderSteps, Results, Errors
<1>7. /\ \A u \in Task : u # t => bStep'[u] = bStep[u]
      /\ bStep'[t] = BodyVerdict(t)
  BY <1>1, <1>3
<1>8. /\ BodyVerdict(t) \in {"commit", "markInvalid"} => statuses[h] = "HeaderOnly"
      /\ BodyVerdict(t) = "commit" /\ t \notin TrustedTask => \A p \in ParentSet(h) : HasBody(p)
  BY <1>3, <1>4, <1>5 DEF Statuses, BodyStatuses
<1>9. BodyVerdict(t) \in Statuses \cup {"notify"} => HasBody(h)
  BY <1>4, <1>5 DEF Statuses, BodyStatuses
<1>10. BodyVerdict(t) = "MissingParents" => \E p \in ParentSet(h) : ~HasBody(p)
  BY <1>3, <1>4, <1>5 DEF Statuses, BodyStatuses
<1>11. TypeOK'
  <2>1. bStep' \in [Task -> BodySteps]
    BY <1>1, <1>3, <1>6
  <2> QED
    BY <1>1, <2>1 DEF PipeInv, TypeOK
<1>12. Placed'
  <2>1. \A u \in Task : u \notin bRunning => bStep'[u] = "start"
    BY <1>1, <1>7 DEF PipeInv, Placed
  <2>2. Placed /\ \A u \in Task : u \notin hRunning => hStep[u] = "start"
    BY DEF PipeInv, Placed
  <2> QED
    BY <1>1, <1>2, <2>1, <2>2, PlacedKept
<1>13. Verdicts'
  <2>1. bRunning \subseteq Task
    BY BodyFacts DEF Stages
  <2>2. Verdicts /\ UNCHANGED <<hRunning, hStep, statuses, bRunning>> /\ \A x : HasBody(x)' <=> HasBody(x)
    BY <1>1, <1>2 DEF PipeInv, HasBody
  <2> QED
    BY <1>7, <1>8, <1>9, <2>1, <2>2 DEF Verdicts
<1>14. Search'
  <2>1. \A x : Announced(x) => Announced(x)'
    BY <1>1, <1>2, <1>7 DEF Announced, In
  <2> QED
    BY <1>1, <2>1, SearchKeeps DEF PipeInv, HasBody
<1>15. Refusals'
  <2>1. BodyVerdict(t) = "MissingParents" => Refused(t)
    <3> SUFFICES ASSUME NEW p \in ParentSet(h), ~HasBody(p),
                        NEW u \in Task, HashOf[u] = p, SubmittedBefore(u, t)
                 PROVE  blockResult[u] \in Errors \/ (u \in HeaderOnlyTask /\ t \notin HeaderOnlyTask)
      BY <1>10 DEF Refused
    <3>1. Answered(u) \/ u \in bEnded
      BY <1>1 DEF PipeInv, Order, Follows
    <3>2. BodyHas(t)
      BY <1>1, BodyFacts DEF Stages, BodyHas
    <3> QED
      BY <3>1, <3>2, Zenon DEF PipeInv, Refusals, Answered
  <2>2. \A u \in Task : (u \in bRunning /\ bStep'[u] = "MissingParents") => Refused(u)
    BY <1>7, <2>1 DEF PipeInv, Refusals
  <2>3. \A u \in Task : Refused(u) => Refused(u)'
    BY <1>1, RefusedStays
  <2> QED
    BY <1>1, <1>2, <2>2, <2>3, Zenon
       DEF PipeInv, Refusals, WasSubmitted, Answered, HasBody, In, BodyHas, H!Queued, B!Queued
<1> QED
  BY <1>1, <1>2, <1>11, <1>12, <1>13, <1>14, <1>15, Frames DEF PipeInv, StageSteps

\* commit_body: the parents of a block that is not trusted have their bodies, and
\* the block stays announced until the virtual worker hears of it.
LEMMA BodyCommitStep ==
  ASSUME Stages, PipeInv, NEW t \in Task, BodyCommit(t)
  PROVE  PipeInv' /\ StageSteps
PROOF
<1> DEFINE h == HashOf[t]
<1>1. /\ t \in bRunning /\ bStep[t] \in {"commit", "markInvalid"}
      /\ bStep[t] = "commit" =>
           /\ statuses' = [statuses EXCEPT ![h] = "UTXOPending"] /\ bodyTips' = AddTip(h)
           /\ bStep' = [bStep EXCEPT ![t] = "notify"]
      /\ bStep[t] = "markInvalid" =>
           /\ statuses' = [statuses EXCEPT ![h] = "Invalid"] /\ UNCHANGED bodyTips
           /\ bStep' = [bStep EXCEPT ![t] = "RuleError"]
      /\ UNCHANGED <<submitted, headerChan, bodyChan, virtualChan, hManager, bManager, hStep,
                     vTips, vHeap, sink, vWorker, blockResult>>
  BY Zenon DEF BodyCommit, channelVars, headerVars, virtualVars, callerVars, resultVars
<1>2. UNCHANGED <<hTasks, hEnded, hRunning, bTasks, bEnded, bRunning>>
  BY <1>1 DEF hManager, bManager
<1>3. /\ h \in Hash /\ HashOf \in [Task -> Hash] /\ bodyTips \subseteq Hash
      /\ statuses \in [Hash -> Statuses] /\ bStep \in [Task -> BodySteps]
  BY PipelineAssumption DEF PipeInv, TypeOK
<1>4. statuses[h] = "HeaderOnly" /\ ~HasBody(h)
  BY <1>1, Zenon DEF PipeInv, Verdicts, HasBody, BodyStatuses
<1>5. /\ statuses' \in [Hash -> Statuses] /\ statuses'[h] # "None"
      /\ \A x \in Hash : x # h => statuses'[x] = statuses[x]
      /\ statuses'[h] = (IF bStep[t] = "commit" THEN "UTXOPending" ELSE "Invalid")
  BY <1>1, <1>3 DEF Statuses, BodyStatuses
<1>6. /\ bStep' \in [Task -> BodySteps]
      /\ bStep'[t] = (IF bStep[t] = "commit" THEN "notify" ELSE "RuleError")
      /\ \A u \in Task : u # t => bStep'[u] = bStep[u]
  BY <1>1, <1>3 DEF BodySteps, HeaderSteps, Results, Errors
<1>7. \A x \in Hash : HasBody(x)' <=> HasBody(x) \/ (x = h /\ bStep[t] = "commit")
  BY <1>4, <1>5 DEF HasBody, BodyStatuses
<1>8. TypeOK'
  BY <1>1, <1>3, <1>5, <1>6 DEF PipeInv, TypeOK, AddTip
<1>9. Placed'
  <2>1. \A u \in Task : u \notin bRunning => bStep'[u] = "start"
    BY <1>1, <1>6 DEF PipeInv, Placed
  <2>2. Placed /\ \A u \in Task : u \notin hRunning => hStep[u] = "start"
    BY DEF PipeInv, Placed
  <2> QED
    BY <1>1, <1>2, <2>1, <2>2, PlacedKept
<1>10. Verdicts'
  <2>1. ASSUME NEW u \in hRunning
        PROVE  /\ hStep[u] \in {"commit", "markInvalid"} =>
                    /\ statuses'[HashOf[u]] = "None"
                    /\ u \notin TrustedTask => \A p \in ParentSet(HashOf[u]) : statuses'[p] # "None"
               /\ hStep[u] \in Statuses => statuses'[HashOf[u]] # "None"
    <3>1. HashOf[u] \in Hash /\ ParentSet(HashOf[u]) \subseteq Hash
      BY <1>3, ParentsAreBlocks, HeaderFacts DEF Stages
    <3> QED
      BY <1>4, <1>5, <3>1 DEF PipeInv, Verdicts
  <2>2. ASSUME NEW u \in bRunning
        PROVE  /\ bStep'[u] \in {"commit", "markInvalid"} => statuses'[HashOf[u]] = "HeaderOnly"
               /\ bStep'[u] = "commit" /\ u \notin TrustedTask => \A p \in ParentSet(HashOf[u]) : HasBody(p)'
               /\ bStep'[u] \in Statuses \cup {"notify"} => HasBody(HashOf[u])'
    <3>1. u \in Task /\ (u # t => HashOf[u] # h)
      BY <1>1, BodyFacts DEF Stages
    <3>2. HashOf[u] \in Hash /\ ParentSet(HashOf[u]) \subseteq Hash
      BY <1>3, <3>1, ParentsAreBlocks
    <3>3. CASE u = t
      BY <1>3, <1>6, <1>7, <3>3 DEF Statuses, BodyStatuses
    <3>4. CASE u # t
      BY <1>5, <1>6, <1>7, <3>1, <3>2, <3>4 DEF PipeInv, Verdicts
    <3> QED
      BY <3>3, <3>4
  <2> QED
    BY <1>1, <1>2, <2>1, <2>2, Zenon DEF Verdicts
<1>11. Bodies'
  <2>1. CASE bStep[t] = "markInvalid"
    BY <1>1, <1>7, <2>1, SameBodies DEF PipeInv
  <2>2. CASE bStep[t] = "commit"
    <3>1. bodyTips' = (bodyTips \ ParentSet(h)) \cup {h}
      BY <1>1, <2>2 DEF AddTip
    <3>2. /\ FinalityPoint \in Hash /\ HasBody(FinalityPoint)'
          /\ \A x \in bodyTips' : HasBody(x)'
      BY <1>3, <1>7, <2>2, <3>1, PipelineAssumption DEF PipeInv, Bodies
    <3>3. Above(h) => \A p \in ParentSet(h) : HasBody(p)
      BY <1>1, <2>2, OrderAssumption DEF PipeInv, Verdicts, Above
    <3>4. \A x \in Hash : HasBody(x)' /\ Above(x) /\ x # FinalityPoint => \A p \in ParentSet(x) : HasBody(p)'
      BY <1>7, <2>2, <3>3, ParentsAreBlocks DEF PipeInv, Bodies
    <3>5. \A x \in LiveTips : \E y \in LiveTips' : Past[x] \subseteq Past[y]
      <4> SUFFICES ASSUME NEW x \in bodyTips, Above(x), x \in ParentSet(h)
                   PROVE  h \in LiveTips' /\ Past[x] \subseteq Past[h]
        BY <3>1 DEF LiveTips, Above
      <4>1. x \in Past[h]
        BY <1>3, PastClosed
      <4>2. Past[x] \subseteq Past[h]
        BY <1>3, <4>1, PastTransitive
      <4> QED
        BY <3>1, <4>2 DEF LiveTips, Above
    <3>6. ASSUME NEW x \in Hash, HasBody(x)', Above(x)
          PROVE  x \in PastOf(LiveTips')
      <4>1. CASE x = h
        BY <1>3, <3>1, <3>6, <4>1, PastClosed DEF LiveTips, PastOf, Above
      <4>2. CASE HasBody(x)
        <5>1. x \in PastOf(LiveTips)
          BY <3>6, <4>2 DEF PipeInv, Bodies
        <5> QED
          BY <3>5, <5>1 DEF PastOf
      <4> QED
        BY <1>7, <3>6, <4>1, <4>2
    <3> QED
      BY <3>2, <3>4, <3>6 DEF Bodies, PastOf, Above
  <2> QED
    BY <1>1, <2>1, <2>2
<1>12. Search'
  <2>1. \A x : Announced(x) => Announced(x)'
    BY <1>1, <1>2, <1>6 DEF Announced, In
  <2>2. bStep[t] = "commit" => Announced(h)'
    BY <1>1, <1>2, <1>6 DEF Announced
  <2>3. \A x \in Hash : statuses[x] = "UTXOValid" => statuses'[x] = "UTXOValid"
    BY <1>4, <1>5
  <2>4. \A x \in Hash : HasBody(x)' /\ Above(x) => Announced(x)' \/ (HasBody(x) /\ ~Announced(x))
    BY <1>7, <2>1, <2>2
  <2> QED
    BY <1>1, <1>7, <2>3, <2>4, SearchKeeps DEF PipeInv
<1>13. Refusals'
  <2>1. \A x \in Hash : (statuses[x] # "None" => statuses'[x] # "None") /\ (HasBody(x) => HasBody(x)')
    BY <1>5, <1>7, Zenon
  <2>2. \A u \in Task : Refused(u) => Refused(u)'
    BY <1>1, RefusedStays, Zenon
  <2>3. \A u \in Task : bStep'[u] = "MissingParents" => bStep[u] = "MissingParents"
    BY <1>6
  <2> QED
    BY <1>1, <1>2, <1>3, <2>1, <2>2, <2>3, Zenon
       DEF PipeInv, Refusals, WasSubmitted, Answered, In, BodyHas, H!Queued, B!Queued
<1> QED
  BY <1>1, <1>2, <1>8, <1>9, <1>10, <1>11, <1>12, <1>13, Frames DEF PipeInv, StageSteps

\* The BlockAdded notification.
LEMMA BodyNotifyStep ==
  ASSUME Stages, PipeInv, NEW t \in Task, BodyNotify(t)
  PROVE  PipeInv' /\ StageSteps
PROOF
<1>1. /\ t \in bRunning /\ bStep[t] = "notify" /\ bStep' = [bStep EXCEPT ![t] = "UTXOPending"]
      /\ UNCHANGED <<submitted, headerChan, bodyChan, virtualChan, hManager, bManager, hStep, statuses, bodyTips,
                     vTips, vHeap, sink, vWorker, blockResult>>
  BY DEF BodyNotify, channelVars, headerVars, virtualVars, callerVars, resultVars
<1>2. UNCHANGED <<hTasks, hEnded, hRunning, bTasks, bEnded, bRunning>>
  BY <1>1 DEF hManager, bManager
<1>3. /\ bStep' \in [Task -> BodySteps] /\ bStep'[t] = "UTXOPending"
      /\ \A u \in Task : u # t => bStep'[u] = bStep[u]
  BY <1>1 DEF PipeInv, TypeOK, BodySteps, HeaderSteps, Results, Statuses, BodyStatuses
<1>4. TypeOK'
  BY <1>1, <1>3 DEF PipeInv, TypeOK
<1>5. Placed'
  <2>1. \A u \in Task : u \notin bRunning => bStep'[u] = "start"
    BY <1>1, <1>3 DEF PipeInv, Placed
  <2>2. Placed /\ \A u \in Task : u \notin hRunning => hStep[u] = "start"
    BY DEF PipeInv, Placed
  <2> QED
    BY <1>1, <1>2, <2>1, <2>2, PlacedKept
<1>6. Verdicts'
  <2>1. bRunning \subseteq Task
    BY BodyFacts DEF Stages
  <2> QED
    BY <1>1, <1>2, <1>3, <2>1, Zenon DEF PipeInv, Verdicts, HasBody
<1>7. Search'
  <2>1. \A x : Announced(x) => Announced(x)'
    BY <1>1, <1>2, <1>3 DEF Announced, In
  <2> QED
    BY <1>1, <2>1, SearchKeeps DEF PipeInv, HasBody
<1>8. Refusals'
  <2>1. \A u \in Task : Refused(u) => Refused(u)'
    BY <1>1, RefusedStays
  <2>2. \A u \in Task : bStep'[u] = "MissingParents" => bStep[u] = "MissingParents"
    BY <1>3
  <2> QED
    BY <1>1, <1>2, <2>1, <2>2, Zenon
       DEF PipeInv, Refusals, WasSubmitted, Answered, HasBody, In, BodyHas, H!Queued, B!Queued
<1> QED
  BY <1>1, <1>2, <1>4, <1>5, <1>6, <1>7, <1>8, Frames DEF PipeInv, StageSteps

\* A body task ends: it is answered, and announced to virtual unless it is trusted
\* and hence below the finality point.
LEMMA BodyEndStep ==
  ASSUME Stages, PipeInv, NEW t \in Task, BodyEnd(t)
  PROVE  PipeInv' /\ StageSteps
PROOF
<1> DEFINE res == bStep[t]
           quiet == AnsweredByBody(t, res)
<1>1. B!End(t)
  BY DEF BodyEnd
<1>2. /\ B!ManagerNext /\ t \in bRunning /\ Head(bTasks[HashOf[t]]) = t
      /\ B!Queued(t) /\ t \notin bEnded
      /\ bEnded' = bEnded \cup {t} /\ bRunning' = bRunning \ {t}
      /\ \A u \in Task : B!Queued(u)' <=> B!Queued(u) /\ u # t
  BY <1>1, BodyEnds DEF Stages
<1>3. /\ res \in Results /\ bStep' = [bStep EXCEPT ![t] = "start"]
      /\ blockResult' = [blockResult EXCEPT ![t] = res]
      /\ IF quiet THEN UNCHANGED virtualChan ELSE virtualChan' = Append(virtualChan, t)
      /\ UNCHANGED <<submitted, headerChan, bodyChan, hManager, hStep, statuses, bodyTips,
                     vTips, vHeap, sink, vWorker>>
  BY <1>2, Zenon DEF BodyEnd, headerVars, storeVars, virtualVars, callerVars, resultVars
<1>4. UNCHANGED <<hTasks, hEnded, hRunning>>
  BY <1>3 DEF hManager
<1>5. /\ bStep \in [Task -> BodySteps] /\ blockResult \in [Task -> Results \cup {"pending"}]
      /\ virtualChan \in Seq(Messages) /\ t \in Messages /\ HashOf \in [Task -> Hash]
  BY PipelineAssumption DEF PipeInv, TypeOK, Messages
<1>6. /\ bStep' \in [Task -> BodySteps] /\ bStep'[t] = "start"
      /\ \A u \in Task : u # t => bStep'[u] = bStep[u]
  BY <1>3, <1>5 DEF BodySteps, HeaderSteps
<1>7. /\ t \in hEnded /\ BodyHas(t) /\ WasSubmitted(t) /\ ~In(headerChan, t) /\ ~In(bodyChan, t)
      /\ ~H!Queued(t) /\ blockResult[t] = "pending"
  BY <1>2, HeaderFacts, Zenon DEF Stages, PipeInv, Placed, Refusals, HeaderHas, BodyHas
<1>8. /\ blockResult' \in [Task -> Results \cup {"pending"}] /\ blockResult'[t] = res
      /\ \A u \in Task : u # t => blockResult'[u] = blockResult[u]
  BY <1>3, <1>5
<1>9. /\ virtualChan' \in Seq(Messages)
      /\ \A u : In(virtualChan', u) <=> In(virtualChan, u) \/ (u = t /\ ~quiet)
  <2>1. CASE quiet
    BY <1>3, <1>5, <2>1
  <2>2. CASE ~quiet
    <3>1. virtualChan' = Append(virtualChan, t)
      BY <1>3, <2>2
    <3> HIDE DEF quiet
    <3> QED
      BY <1>5, <2>2, <3>1, Sending
  <2> QED
    BY <2>1, <2>2
<1>10. res \in Statuses => HasBody(HashOf[t])
  BY <1>2, Zenon DEF PipeInv, Verdicts
<1>11. /\ quiet /\ res = "UTXOPending" => t \in TrustedTask
       /\ res \in Errors \/ res \in Statuses
       /\ res # "notify" /\ "pending" \notin Errors
  BY <1>3 DEF AnsweredByBody, Results, Errors, Statuses, BodyStatuses
<1>12. res = "MissingParents" => Refused(t)
  BY <1>2, Zenon DEF PipeInv, Refusals
<1>13. t \in bRunning /\ bStep[t] \in {"notify", "UTXOPending"} => res = "UTXOPending"
  BY <1>11
<1> HIDE DEF res, quiet
<1>14. /\ \A u \in Task : (HeaderHas(u)' <=> HeaderHas(u)) /\ (BodyHas(u)' <=> BodyHas(u))
       /\ \A u \in Task : H!Queued(u)' <=> H!Queued(u)
  BY <1>2, <1>4, Zenon DEF HeaderHas, BodyHas, H!Queued
<1>15. \A u \in Task : blockResult[u] \in Errors => u # t /\ blockResult'[u] = blockResult[u]
  BY <1>7, <1>8, <1>11
<1>16. \A u \in Task : Answered(u) => Answered(u)'
  BY <1>15 DEF Answered
<1>17. TypeOK'
  BY <1>3, <1>6, <1>8, <1>9, Zenon DEF PipeInv, TypeOK
<1>18. Placed'
  BY <1>2, <1>3, <1>4, <1>6, <1>14, Zenon DEF PipeInv, Placed, WasSubmitted, In, Once
<1>19. Verdicts'
  <2>1. bRunning \subseteq Task
    BY BodyFacts DEF Stages
  <2>2. Verdicts
    BY DEF PipeInv
  <2> QED
    BY <1>2, <1>3, <1>4, <1>6, <2>1, <2>2, VerdictsKept
<1>20. Search'
  <2>1. ASSUME NEW x \in Hash, Above(x), Announced(x)
        PROVE  Announced(x)'
    <3>1. PICK u \in Task : HashOf[u] = x /\ \/ u \in bRunning /\ bStep[u] \in {"notify", "UTXOPending"}
                                             \/ In(virtualChan, u)
      BY <2>1 DEF Announced
    <3>2. t \in TrustedTask => ~Above(HashOf[t])
      BY OrderAssumption DEF Above
    <3>3. CASE u = t /\ u \in bRunning /\ bStep[u] \in {"notify", "UTXOPending"}
      <4>1. ~quiet
        BY <1>11, <1>13, <2>1, <3>1, <3>2, <3>3
      <4>2. In(virtualChan', t)
        BY <1>9, <4>1
      <4> QED
        BY <3>1, <3>3, <4>2 DEF Announced
    <3>4. CASE u # t /\ u \in bRunning /\ bStep[u] \in {"notify", "UTXOPending"}
      BY <1>2, <1>6, <3>1, <3>4 DEF Announced
    <3>5. CASE In(virtualChan, u)
      <4>1. In(virtualChan', u)
        BY <1>9, <3>5
      <4> QED
        BY <3>1, <4>1 DEF Announced
    <3> QED
      BY <3>1, <3>3, <3>4, <3>5
  <2> QED
    BY <1>3, <2>1, SearchKeeps DEF PipeInv, HasBody
<1>21. Order'
  <2> SUFFICES ASSUME NEW v \in Task, NEW u \in Task
               PROVE  /\ SubmittedBefore(u, v) => HeaderHas(u) \/ Ahead(headerChan, u, v)
                      /\ Follows(v, u) /\ v \in hRunning => u \in hEnded
                      /\ Follows(v, u) /\ (In(bodyChan, v) \/ BodyHas(v)) =>
                           Answered(u)' \/ BodyHas(u) \/ Ahead(bodyChan, u, v)
                      /\ Follows(v, u) /\ v \in bRunning' => Answered(u)' \/ u \in bEnded'
    <3>1. \A v, u \in Task : /\ Ahead(headerChan, u, v)' <=> Ahead(headerChan, u, v)
                             /\ Ahead(bodyChan, u, v)' <=> Ahead(bodyChan, u, v)
                             /\ In(bodyChan, v)' <=> In(bodyChan, v)
      BY <1>3, Zenon DEF Ahead, In
    <3> QED
      BY <1>3, <1>4, <1>14, <3>1, FollowsKept DEF Order
  <2> QED
    BY <1>2, <1>16 DEF PipeInv, Order
<1>22. Refusals'
  <2> SUFFICES ASSUME NEW u \in Task
               PROVE  /\ In(headerChan, u) \/ H!Queued(u) \/ In(bodyChan, u) \/ B!Queued(u)' \/ ~WasSubmitted(u) =>
                           blockResult'[u] = "pending"
                      /\ u \in hEnded => blockResult'[u] \in Errors \/ statuses[HashOf[u]] # "None"
                      /\ u \in hEnded => Answered(u)' \/ In(bodyChan, u) \/ BodyHas(u)
                      /\ u \in bEnded' => blockResult'[u] \in Errors \/ HasBody(HashOf[u])
                      /\ In(bodyChan, u) \/ BodyHas(u) => u \notin HeaderOnlyTask
                      /\ \/ u \in hRunning /\ hStep[u] = "MissingParents"
                         \/ u \in bRunning' /\ bStep'[u] = "MissingParents"
                         \/ blockResult'[u] = "MissingParents"
                         => Refused(u)'
    BY <1>3, <1>4, <1>14, Zenon DEF Refusals, In, WasSubmitted, HasBody
  <2>1. Refused(u) => Refused(u)'
    BY <1>3, <1>15, RefusedStays
  <2>2. CASE u = t
    <3>1. ~B!Queued(t)' /\ t \notin hRunning /\ t \notin bRunning'
      BY <1>2, <1>7, HeaderFacts, Zenon DEF Stages
    <3>2. statuses[HashOf[t]] # "None"
      BY <1>7, <1>11, Zenon DEF PipeInv, Refusals
    <3>3. blockResult'[t] \in Errors \/ HasBody(HashOf[t])
      BY <1>8, <1>10, <1>11
    <3>4. BodyHas(t) => t \notin HeaderOnlyTask
      BY Zenon DEF PipeInv, Refusals
    <3> QED
      BY <1>7, <1>8, <1>12, <2>1, <2>2, <3>1, <3>2, <3>3, <3>4, Zenon
  <2>3. CASE u # t
    <3>1. (B!Queued(u)' <=> B!Queued(u)) /\ (u \in bEnded' <=> u \in bEnded)
      BY <1>2, <2>3
    <3> QED
      BY <1>2, <1>6, <1>8, <1>16, <2>1, <2>3, <3>1, Zenon DEF PipeInv, Refusals
  <2> QED
    BY <2>2, <2>3, Zenon
<1> QED
  BY <1>2, <1>3, <1>4, <1>17, <1>18, <1>19, <1>20, <1>21, <1>22, Frames DEF PipeInv, StageSteps

\* The virtual worker receives: all that is in the channel, or an Exit.
LEMMA VirtualReceiveStep ==
  ASSUME Stages, PipeInv, VirtualReceive
  PROVE  PipeInv' /\ StageSteps
PROOF
<1>1. /\ vWorker = "receiving" /\ virtualChan # <<>>
      /\ IF Head(virtualChan) = Exit THEN vWorker' = "exiting" /\ virtualChan' = Tail(virtualChan)
                                     ELSE vWorker' = "resolving" /\ virtualChan' = <<>>
      /\ UNCHANGED <<submitted, headerChan, bodyChan, hManager, bManager, hStep, bStep, statuses, bodyTips,
                     vTips, vHeap, sink, blockResult>>
  BY DEF VirtualReceive, headerVars, bodyVars, storeVars, callerVars, resultVars
<1>2. UNCHANGED <<hTasks, hEnded, hRunning, bTasks, bEnded, bRunning>>
  BY <1>1 DEF hManager, bManager
<1>3. virtualChan \in Seq(Messages) /\ Exit \notin Task
  BY PipelineAssumption DEF PipeInv, TypeOK
<1>4. /\ virtualChan' \in Seq(Messages)
      /\ vWorker' # "resolving" => \A u \in Task : In(virtualChan, u) => In(virtualChan', u)
  <2>1. CASE Head(virtualChan) = Exit
    <3>1. virtualChan' = Tail(virtualChan)
      BY <1>1, <2>1
    <3> QED
      BY <1>1, <1>3, <2>1, <3>1, Receiving
  <2>2. CASE Head(virtualChan) # Exit
    BY <1>1, <2>2
  <2> QED
    BY <2>1, <2>2
<1>5. TypeOK'
  BY <1>1, <1>4 DEF PipeInv, TypeOK
<1>6. Search'
  <2>1. vWorker' # "resolving" => \A x : Announced(x) => Announced(x)'
    BY <1>1, <1>2, <1>4 DEF Announced
  <2>2. vWorker' # "searching" /\ vWorker' # "answering"
    BY <1>1
  <2> QED
    BY <1>1, <2>1, <2>2, Zenon DEF PipeInv, Search, HasBody, Above, IsBestSink, PastOf, Qualified, Seen
<1> QED
  BY <1>1, <1>2, <1>5, <1>6, Frames DEF PipeInv, StageSteps

\* The tips are above all bodies, and hence above all that is announced.
LEMMA VirtualReadTipsStep ==
  ASSUME Stages, PipeInv, VirtualReadTips
  PROVE  PipeInv' /\ StageSteps
PROOF
<1>1. /\ vWorker' = "searching" /\ vTips' = LiveTips /\ vHeap' = LiveTips
      /\ UNCHANGED <<submitted, headerChan, bodyChan, virtualChan, hManager, bManager, hStep, bStep, statuses,
                     bodyTips, sink, blockResult>>
  BY Zenon DEF VirtualReadTips, LiveTips, Above, channelVars, headerVars, bodyVars, storeVars, callerVars, resultVars
<1>2. UNCHANGED <<hTasks, hEnded, hRunning, bTasks, bEnded, bRunning>>
  BY <1>1 DEF hManager, bManager
<1>3. LiveTips \subseteq Hash /\ \A h \in LiveTips : HasBody(h) /\ Above(h)
  BY DEF PipeInv, Bodies, LiveTips, TypeOK
<1>4. TypeOK'
  BY <1>1, <1>3 DEF PipeInv, TypeOK
<1>5. Search'
  <2>1. \A h \in LiveTips \cup {sink} : HasBody(h)' /\ Above(h)'
    BY <1>1, <1>3 DEF PipeInv, Search, HasBody, Above
  <2>2. LiveTips \subseteq PastOf(LiveTips)
    BY <1>3, PastClosed DEF PastOf
  <2>3. FinalityPoint \in PastOf(LiveTips)
    BY PipelineAssumption, FinalityPointQualifies DEF PipeInv, Bodies
  <2>4. \A h \in Hash : HasBody(h)' /\ Above(h)' => h \in PastOf(LiveTips \cup {FinalityPoint})
    BY <1>1 DEF PipeInv, Bodies, HasBody, PastOf, Above
  <2> QED
    BY <1>1, <2>1, <2>2, <2>3, <2>4, Zenon DEF Search, Seen, PastOf, Qualified
<1> QED
  BY <1>1, <1>2, <1>4, <1>5, Frames DEF PipeInv, StageSteps

\* The chain of a candidate down to the finality point has all of its bodies.
LEMMA ChainHasBodies ==
  ASSUME PipeInv, NEW c \in Hash, HasBody(c), FinalityPoint \in Chain[c], NEW x \in Chain[c]
  PROVE  x \in Hash /\ HasBody(x)
PROOF
<1> DEFINE S == {y \in Hash : HasBody(y) /\ FinalityPoint \in Chain[y]}
<1>1. ASSUME NEW y \in S, y # FinalityPoint, ParentSet(y) # {}
      PROVE  SelectedParent(y) \in S
  <2>1. SelectedParent(y) \in ParentSet(y) /\ SelectedParent(y) \in Hash
    BY <1>1, SelectedIsParent, ParentsAreBlocks
  <2>2. Above(y)
    BY ChainFacts DEF Above
  <2>3. HasBody(SelectedParent(y))
    BY <1>1, <2>1, <2>2 DEF PipeInv, Bodies
  <2>4. FinalityPoint \in Chain[SelectedParent(y)]
    BY <1>1, ChainUnfolds
  <2> QED
    BY <2>1, <2>3, <2>4
<1>2. S \in SUBSET Hash /\ c \in S
  OBVIOUS
<1>3. \A y \in S : y # FinalityPoint /\ ParentSet(y) # {} => SelectedParent(y) \in S
  BY <1>1
<1> HIDE DEF S
<1>4. Chain[c] \subseteq S
  BY <1>2, <1>3, ChainLeast
<1> QED
  BY <1>4, Zenon DEF S

\* One round of the sink search: the best candidate is the sink, or gives way to
\* its parents, which are above all that can still be the sink.
LEMMA VirtualSearchStep ==
  ASSUME Stages, PipeInv, VirtualSearch
  PROVE  PipeInv' /\ StageSteps
PROOF
<1>1. PICK c \in vHeap :
        /\ vWorker = "searching"
        /\ \A d \in vHeap : Work[d] <= Work[c]
        /\ statuses' = IF FinalityPoint \in Chain[c] THEN UtxoStatuses(c) ELSE statuses
        /\ IF Qualified(c)
             THEN sink' = c /\ vHeap' = {} /\ vWorker' = "answering"
             ELSE vHeap' = (vHeap \ {c}) \cup NewCandidates(c, vHeap \ {c}) /\ UNCHANGED <<sink, vWorker>>
        /\ UNCHANGED <<submitted, headerChan, bodyChan, virtualChan, hManager, bManager, hStep, bStep,
                       bodyTips, vTips, blockResult>>
  BY Zenon DEF VirtualSearch, headerVars, bodyVars, callerVars, resultVars
<1>2. UNCHANGED <<hTasks, hEnded, hRunning, bTasks, bEnded, bRunning>>
  BY <1>1, Zenon DEF hManager, bManager
<1>3. /\ c \in Hash /\ HasBody(c) /\ Above(c) /\ vHeap \subseteq Hash /\ vTips \subseteq Hash
      /\ statuses \in [Hash -> Statuses] /\ HashOf \in [Task -> Hash] /\ Work \in [Hash -> Nat]
  BY PipelineAssumption, Zenon DEF PipeInv, TypeOK, Search
<1>4. /\ statuses' \in [Hash -> Statuses]
      /\ \A x \in Hash : statuses'[x] # statuses[x] => HasBody(x) /\ HasBody(x)'
  <2>1. CASE FinalityPoint \in Chain[c]
    <3>1. statuses' = UtxoStatuses(c)
      BY <1>1, <2>1
    <3>2. \A x \in Chain[c] : HasBody(x)
      BY <1>3, <2>1, ChainHasBodies
    <3>3. statuses' \in [Hash -> Statuses]
      BY <1>3, <3>1 DEF UtxoStatuses, Statuses, BodyStatuses
    <3>4. \A x \in Hash : x \notin Chain[c] => statuses'[x] = statuses[x]
      BY <3>1 DEF UtxoStatuses
    <3>5. \A x \in Hash : x \in Chain[c] => statuses'[x] \in BodyStatuses
      BY <3>1 DEF UtxoStatuses, BodyStatuses
    <3> QED
      BY <3>2, <3>3, <3>4, <3>5, Zenon DEF HasBody
  <2>2. CASE FinalityPoint \notin Chain[c]
    BY <1>1, <1>3, <2>2
  <2> QED
    BY <2>1, <2>2, Zenon
<1>5. \A x \in Hash : /\ HasBody(x)' <=> HasBody(x)
                      /\ statuses'[x] = "None" <=> statuses[x] = "None"
                      /\ statuses'[x] = "HeaderOnly" <=> statuses[x] = "HeaderOnly"
  BY <1>4 DEF HasBody, BodyStatuses
<1>6. \A d \in vHeap : d \in PastOf(vTips)
  BY <1>1, Zenon DEF PipeInv, Search
<1>7. /\ FinalityPoint \in PastOf(vTips) /\ FinalityPoint \in Hash
      /\ \A h \in PastOf(vTips) : h \in Hash /\ Past[h] \subseteq PastOf(vTips)
  <2>1. FinalityPoint \in PastOf(vTips) /\ FinalityPoint \in Hash
    BY <1>1, PipelineAssumption, Zenon DEF PipeInv, Search
  <2>2. \A x \in vTips : \A h \in Past[x] : h \in Hash /\ Past[h] \subseteq Past[x]
    BY <1>3, PastTransitive, Zenon
  <2> QED
    BY <2>1, <2>2 DEF PastOf
<1>8. \A h \in PastOf(vTips) : Qualified(h) => h \in PastOf(vHeap)
  BY <1>1, Zenon DEF PipeInv, Search
<1>9. TypeOK'
  BY <1>1, <1>3, <1>4, ParentsAreBlocks, Zenon DEF PipeInv, TypeOK, NewCandidates
<1>10. Verdicts'
  <2>1. \A u \in hRunning \cup bRunning : HashOf[u] \in Hash /\ ParentSet(HashOf[u]) \subseteq Hash
    BY <1>3, ParentsAreBlocks, HeaderFacts, BodyFacts DEF Stages
  <2>2. Verdicts /\ UNCHANGED <<hRunning, hStep, bRunning, bStep>>
    BY <1>1, <1>2, Zenon DEF PipeInv
  <2> QED
    BY <1>5, <2>1, <2>2, Zenon DEF Verdicts
<1>11. Bodies'
  BY <1>1, <1>5, SameBodies, Zenon DEF PipeInv
<1>12. Search'
  <2>1. \A x : (Announced(x)' <=> Announced(x)) /\ (Above(x)' <=> Above(x)) /\ (Qualified(x)' <=> Qualified(x))
    BY <1>1, <1>2 DEF Announced, In, Above, Qualified
  <2>2. Seen' = Seen /\ \A S : PastOf(S)' = PastOf(S)
    BY <1>1, Zenon DEF Seen, PastOf
  <2>3. \A h \in Hash : HasBody(h)' /\ Above(h)' => h \in PastOf(Seen) \/ Announced(h)'
    BY <1>1, <1>5, <2>1, Zenon DEF PipeInv, Search
  <2>4. CASE Qualified(c)
    <3>1. \A h \in PastOf(vTips) : Qualified(h) => Work[h] <= Work[c]
      <4> SUFFICES ASSUME NEW h \in PastOf(vTips), Qualified(h) PROVE Work[h] <= Work[c]
        OBVIOUS
      <4>1. PICK d \in vHeap : h \in Past[d]
        BY <1>8 DEF PastOf
      <4>2. Work[h] <= Work[d] /\ Work[d] <= Work[c] /\ h \in Hash /\ d \in Hash
        BY <1>1, <1>3, <1>7, <4>1, PastHasLessWork, Zenon
      <4> QED
        BY <1>3, <4>2
    <3>2. PastOf(Seen) = PastOf(vTips)
      BY <1>7 DEF Seen, PastOf
    <3>3. \A h \in Chain[c] : statuses'[h] = "UTXOValid"
      <4>1. statuses' = UtxoStatuses(c)
        BY <1>1, <2>4 DEF Qualified
      <4>2. \A h \in Chain[c] : h \in Hash /\ Qualified(h)
        BY <1>3, <2>4, ChainQualifies, ChainClosed, Zenon
      <4> QED
        BY <4>1, <4>2 DEF UtxoStatuses
    <3>4. sink' = c /\ vHeap' = {} /\ vWorker' = "answering" /\ vTips' = vTips
      BY <1>1, <2>4
    <3>5. c \in PastOf(vTips)
      BY <1>6
    <3>6. \A h \in vTips \cup {c} : HasBody(h)' /\ Above(h)'
      BY <1>3, <1>5, <2>1, Zenon DEF PipeInv, Search
    <3> QED
      BY <1>7, <2>1, <2>2, <2>3, <2>4, <3>1, <3>2, <3>3, <3>4, <3>5, <3>6, Zenon DEF Search, IsBestSink
  <2>5. CASE ~Qualified(c)
    <3>1. /\ vHeap' = (vHeap \ {c}) \cup NewCandidates(c, vHeap \ {c})
          /\ sink' = sink /\ vWorker' = "searching" /\ vTips' = vTips
      BY <1>1, <2>5
    <3>2. c # FinalityPoint
      BY <2>5, FinalityPointQualifies
    <3>3. \A p \in ParentSet(c) : HasBody(p)
      BY <1>3, <3>2 DEF PipeInv, Bodies
    <3>4. \A p \in ParentSet(c) : p \in Hash /\ p \in Past[c] /\ p \in PastOf(vTips)
      BY <1>3, <1>6, <1>7, ParentsAreBlocks, PastClosed, Zenon
    <3>5. \A h \in vTips \cup vHeap' \cup {sink} : HasBody(h)' /\ Above(h)'
      <4>1. \A h \in vTips \cup vHeap \cup {sink} : h \in Hash /\ HasBody(h) /\ Above(h)
        BY Zenon DEF PipeInv, Search, TypeOK
      <4>2. \A p \in NewCandidates(c, vHeap \ {c}) : p \in Hash /\ HasBody(p) /\ Above(p)
        BY <3>3, <3>4 DEF NewCandidates, Above
      <4> QED
        BY <1>5, <2>1, <3>1, <4>1, <4>2, Zenon
    <3>6. vHeap' \subseteq PastOf(vTips)
      BY <1>6, <3>1, <3>4, Zenon DEF NewCandidates
    <3>7. ASSUME NEW h \in PastOf(vTips), Qualified(h)
          PROVE  h \in PastOf(vHeap')
      <4>1. PICK d \in vHeap : h \in Past[d]
        BY <1>8, <3>7, Zenon DEF PastOf
      <4>2. CASE d # c
        BY <3>1, <4>1, <4>2 DEF PastOf
      <4>3. CASE d = c
        <5>1. PICK p \in ParentSet(c) : h \in Past[p]
          BY <1>3, <2>5, <3>7, <4>1, <4>3, PastOfParents, Zenon
        <5>2. FinalityPoint \in Past[h] /\ h \in Hash /\ p \in Hash
          BY <1>7, <3>4, <3>7, ChainFacts DEF Qualified
        <5>3. FinalityPoint \in Past[p]
          BY <5>1, <5>2, PastTransitive
        <5>4. CASE \E e \in vHeap \ {c} : p \in Past[e]
          <6>1. PICK e \in vHeap \ {c} : p \in Past[e]
            BY <5>4
          <6>2. h \in Past[e]
            BY <1>3, <5>1, <6>1, PastTransitive
          <6> QED
            BY <3>1, <6>2 DEF PastOf
        <5>5. CASE \A e \in vHeap \ {c} : p \notin Past[e]
          BY <3>1, <5>1, <5>3, <5>5 DEF NewCandidates, PastOf
        <5> QED
          BY <5>4, <5>5
      <4> QED
        BY <4>2, <4>3
    <3> QED
      BY <1>7, <2>1, <2>2, <2>3, <3>1, <3>5, <3>6, <3>7, Zenon DEF Search
  <2> QED
    BY <2>4, <2>5
<1>13. Refusals'
  <2>1. \A u \in Task : Refused(u) => Refused(u)'
    BY <1>1, RefusedStays, Zenon
  <2> QED
    BY <1>1, <1>2, <1>3, <1>5, <2>1, Zenon
       DEF PipeInv, Refusals, WasSubmitted, Answered, In, BodyHas, H!Queued, B!Queued
<1> QED
  BY <1>1, <1>2, <1>9, <1>10, <1>11, <1>12, <1>13, Frames, Zenon DEF PipeInv, StageSteps

\* The virtual worker answers and exits; the pruning worker does not write here.
LEMMA RemainingSteps ==
  ASSUME Stages, PipeInv, VirtualAnswer \/ VirtualExit \/ PruningNext
  PROVE  PipeInv' /\ StageSteps
PROOF
<1>1. /\ UNCHANGED <<submitted, headerChan, bodyChan, virtualChan, hManager, bManager, hStep, bStep, statuses,
                     bodyTips, vTips, vHeap, sink, blockResult>>
      /\ \/ UNCHANGED vWorker
         \/ vWorker \in {"answering", "exiting"} /\ vWorker' \in {"receiving", "exiting", "exited"}
  BY Zenon DEF VirtualAnswer, VirtualExit, PruningNext, PruningReceive, PruningDone, channelVars, headerVars,
         bodyVars, storeVars, virtualVars, callerVars, resultVars
<1>2. UNCHANGED <<hTasks, hEnded, hRunning, bTasks, bEnded, bRunning>>
  BY <1>1 DEF hManager, bManager
<1>3. TypeOK'
  BY <1>1 DEF PipeInv, TypeOK
<1>4. Search'
  <2>1. CASE UNCHANGED vWorker
    BY <1>1, <1>2, <2>1, Frames DEF PipeInv
  <2>2. CASE vWorker \in {"answering", "exiting"} /\ vWorker' \in {"receiving", "exiting", "exited"}
    <3>1. \A x : Announced(x)' <=> Announced(x)
      BY <1>1, <1>2, Zenon DEF Announced, In
    <3> QED
      BY <1>1, <2>2, <3>1, Zenon DEF PipeInv, Search, HasBody, Above, IsBestSink, PastOf, Qualified, Seen
  <2> QED
    BY <1>1, <2>1, <2>2
<1> QED
  BY <1>1, <1>2, <1>3, <1>4, Frames DEF PipeInv, StageSteps

\* Every step preserves the invariant of the pipeline and is a step, or none, of
\* each dependency manager.
LEMMA PipeInvStep == Stages /\ PipeInv /\ [Next]_vars => PipeInv' /\ StageSteps
PROOF
<1> SUFFICES ASSUME Stages, PipeInv, [Next]_vars PROVE PipeInv' /\ StageSteps
  OBVIOUS
<1>1. CASE UNCHANGED vars
  <2>1. UNCHANGED <<submitted, headerChan, bodyChan, virtualChan, hManager, bManager, hStep, bStep, statuses,
                    bodyTips, vTips, vHeap, sink, vWorker, blockResult>>
    BY <1>1 DEF vars, channelVars, headerVars, bodyVars, storeVars, virtualVars, callerVars, resultVars
  <2>2. UNCHANGED <<hTasks, hEnded, hRunning, bTasks, bEnded, bRunning>>
    BY <2>1 DEF hManager, bManager
  <2>3. TypeOK'
    BY <2>1 DEF PipeInv, TypeOK
  <2> QED
    BY <2>1, <2>2, <2>3, Frames DEF PipeInv, StageSteps
<1>2. CASE SignalExit \/ \E t \in Task : Submit(t)
  BY <1>2, SignalExitStep, SubmitStep
<1>3. CASE HeaderNext
  BY <1>3, HeaderReceiveStep, HeaderExitStep, HeaderTryBeginStep, HeaderValidateStep, HeaderCommitStep,
     HeaderEndStep DEF HeaderNext
<1>4. CASE BodyNext
  BY <1>4, BodyReceiveStep, BodyExitStep, BodyTryBeginStep, BodyValidateStep, BodyCommitStep, BodyNotifyStep,
     BodyEndStep DEF BodyNext
<1>5. CASE VirtualNext
  BY <1>5, VirtualReceiveStep, VirtualReadTipsStep, VirtualSearchStep, RemainingSteps DEF VirtualNext
<1>6. CASE PruningNext
  BY <1>6, RemainingSteps
<1> QED
  BY <1>1, <1>2, <1>3, <1>4, <1>5, <1>6 DEF Next

-----------------------------------------------------------------------------
(* What the invariant says of a state *)

\* The pipeline and both of its managers.
FullInv == Stages /\ PipeInv

\* Verdicts are what VerdictsStayTrue asks for.
LEMMA VerdictsTrue == FullInv => VerdictsStayTrue
PROOF
  BY DEF FullInv, PipeInv, Verdicts, VerdictsStayTrue

\* Search, with the tips that the body stage keeps, places virtual.
LEMMA VirtualBest == FullInv => VirtualIsBest
PROOF
<1> SUFFICES ASSUME FullInv PROVE VirtualIsBest
  OBVIOUS
<1>1. vWorker = "answering" => IsBestSink(sink, vTips) /\ \A h \in Chain[sink] : statuses[h] = "UTXOValid"
  BY Zenon DEF FullInv, PipeInv, Search
<1>2. ASSUME bRunning = {}, virtualChan = <<>>, vWorker \in {"receiving", "exiting", "exited"}
      PROVE  IsBestSink(sink, LiveTips)
  <2>1. IsBestSink(sink, Seen) /\ HasBody(sink) /\ Above(sink) /\ sink \in Hash
    BY <1>2, Zenon DEF FullInv, PipeInv, Search, TypeOK
  <2>2. sink \in PastOf(LiveTips)
    BY <2>1 DEF FullInv, PipeInv, Bodies
  <2>3. ASSUME NEW h \in PastOf(LiveTips)
        PROVE  h \in PastOf(Seen)
    <3>1. PICK d \in LiveTips : h \in Past[d]
      BY Zenon DEF PastOf
    <3>2. d \in Hash /\ HasBody(d) /\ Above(d)
      BY DEF FullInv, PipeInv, Bodies, TypeOK, LiveTips
    <3>3. ~Announced(d)
      BY <1>2, NothingIn, Zenon DEF Announced
    <3>4. PICK e \in Seen : d \in Past[e]
      BY <1>2, <3>2, <3>3, Zenon DEF FullInv, PipeInv, Search, PastOf
    <3>5. e \in Hash
      BY PipelineAssumption DEF Seen, FullInv, PipeInv, TypeOK
    <3> QED
      BY <3>1, <3>4, <3>5, PastTransitive, Zenon DEF PastOf
  <2> QED
    BY <2>1, <2>2, <2>3 DEF IsBestSink
<1> QED
  BY <1>1, <1>2, Zenon DEF VirtualIsBest, LiveTips, Above

\* Refusals are for missing parents only when these were refused themselves.
LEMMA MissingIsTrue == FullInv => NoSpuriousMissingParents
PROOF
  BY Zenon DEF FullInv, PipeInv, Refusals, Refused, NoSpuriousMissingParents

-----------------------------------------------------------------------------
(* The managers and the conclusions *)

HP == INSTANCE DepsManagerProofs WITH
  tasks <- hTasks, taken <- hTaken, dependents <- hDependents, pool <- hPool,
  running <- hRunning, ended <- hEnded, idle <- hIdle

BP == INSTANCE DepsManagerProofs WITH
  tasks <- bTasks, taken <- bTaken, dependents <- bDependents, pool <- bPool,
  running <- bRunning, ended <- bEnded, idle <- bIdle

\* The manager of the header stage is correct when it starts, and each of its steps
\* keeps it so.
LEMMA HeaderManagerCorrect ==
  /\ H!ManagerInit => H!ManagerInv
  /\ H!ManagerInv /\ [H!ManagerNext]_(H!managerVars) => H!ManagerInv'
PROOF
<1>1. HP!ManagerInit => HP!ManagerInv
  BY PipelineAssumption, OrderAssumption, HP!InitManagerInv, Zenon
<1>2. HP!ManagerInv /\ [HP!ManagerNext]_(HP!managerVars) => HP!ManagerInv'
  BY PipelineAssumption, OrderAssumption, HP!NextManagerInv, Zenon
<1>3. H!ManagerInit <=> HP!ManagerInit
  BY DEF H!ManagerInit, HP!ManagerInit, H!NoDependents, HP!NoDependents
<1>4. H!ManagerInv <=> HP!ManagerInv
  BY Zenon DEF H!ManagerInv, HP!ManagerInv, H!ManagerTypeOK, HP!ManagerTypeOK, H!QueuesConsistent,
         HP!QueuesConsistent, H!ExpectationsHold, HP!ExpectationsHold, H!ExactlyOnePlace,
         HP!ExactlyOnePlace, H!OnlyInPool, HP!OnlyInPool, H!OnlyTaken, HP!OnlyTaken,
         H!OnlyDependentOf, HP!OnlyDependentOf, H!IdleMeansDone, HP!IdleMeansDone, H!Pending,
         HP!Pending, H!PendingParents, HP!PendingParents
<1>5. H!ManagerInv' <=> HP!ManagerInv'
  BY Zenon DEF H!ManagerInv, HP!ManagerInv, H!ManagerTypeOK, HP!ManagerTypeOK, H!QueuesConsistent,
         HP!QueuesConsistent, H!ExpectationsHold, HP!ExpectationsHold, H!ExactlyOnePlace,
         HP!ExactlyOnePlace, H!OnlyInPool, HP!OnlyInPool, H!OnlyTaken, HP!OnlyTaken,
         H!OnlyDependentOf, HP!OnlyDependentOf, H!IdleMeansDone, HP!IdleMeansDone, H!Pending,
         HP!Pending, H!PendingParents, HP!PendingParents
<1>6. [H!ManagerNext]_(H!managerVars) <=> [HP!ManagerNext]_(HP!managerVars)
  BY Zenon DEF H!ManagerNext, HP!ManagerNext, H!managerVars, HP!managerVars, H!Arrive, HP!Arrive,
         H!Register, HP!Register, H!Queued, HP!Queued, H!WaitForIdle, HP!WaitForIdle, H!Defer,
         HP!Defer, H!Begin, HP!Begin, H!End, HP!End, H!NoDependents, HP!NoDependents, H!Pending,
         HP!Pending, H!PendingParents, HP!PendingParents
<1> QED
  BY <1>1, <1>2, <1>3, <1>4, <1>5, <1>6

\* The manager of the body stage is correct when it starts, and each of its steps
\* keeps it so.
LEMMA BodyManagerCorrect ==
  /\ B!ManagerInit => B!ManagerInv
  /\ B!ManagerInv /\ [B!ManagerNext]_(B!managerVars) => B!ManagerInv'
PROOF
<1>1. BP!ManagerInit => BP!ManagerInv
  BY PipelineAssumption, OrderAssumption, BP!InitManagerInv, Zenon
<1>2. BP!ManagerInv /\ [BP!ManagerNext]_(BP!managerVars) => BP!ManagerInv'
  BY PipelineAssumption, OrderAssumption, BP!NextManagerInv, Zenon
<1>3. B!ManagerInit <=> BP!ManagerInit
  BY DEF B!ManagerInit, BP!ManagerInit, B!NoDependents, BP!NoDependents
<1>4. B!ManagerInv <=> BP!ManagerInv
  BY Zenon DEF B!ManagerInv, BP!ManagerInv, B!ManagerTypeOK, BP!ManagerTypeOK, B!QueuesConsistent,
         BP!QueuesConsistent, B!ExpectationsHold, BP!ExpectationsHold, B!ExactlyOnePlace,
         BP!ExactlyOnePlace, B!OnlyInPool, BP!OnlyInPool, B!OnlyTaken, BP!OnlyTaken,
         B!OnlyDependentOf, BP!OnlyDependentOf, B!IdleMeansDone, BP!IdleMeansDone, B!Pending,
         BP!Pending, B!PendingParents, BP!PendingParents
<1>5. B!ManagerInv' <=> BP!ManagerInv'
  BY Zenon DEF B!ManagerInv, BP!ManagerInv, B!ManagerTypeOK, BP!ManagerTypeOK, B!QueuesConsistent,
         BP!QueuesConsistent, B!ExpectationsHold, BP!ExpectationsHold, B!ExactlyOnePlace,
         BP!ExactlyOnePlace, B!OnlyInPool, BP!OnlyInPool, B!OnlyTaken, BP!OnlyTaken,
         B!OnlyDependentOf, BP!OnlyDependentOf, B!IdleMeansDone, BP!IdleMeansDone, B!Pending,
         BP!Pending, B!PendingParents, BP!PendingParents
<1>6. [B!ManagerNext]_(B!managerVars) <=> [BP!ManagerNext]_(BP!managerVars)
  BY Zenon DEF B!ManagerNext, BP!ManagerNext, B!managerVars, BP!managerVars, B!Arrive, BP!Arrive,
         B!Register, BP!Register, B!Queued, BP!Queued, B!WaitForIdle, BP!WaitForIdle, B!Defer,
         BP!Defer, B!Begin, BP!Begin, B!End, BP!End, B!NoDependents, BP!NoDependents, B!Pending,
         BP!Pending, B!PendingParents, BP!PendingParents
<1> QED
  BY <1>1, <1>2, <1>3, <1>4, <1>5, <1>6

\* FullInv is inductive: each part needs the others only in the state before the
\* step, and each step is one, or none, of each manager.
LEMMA FullInvInductive ==
  /\ Init => FullInv
  /\ FullInv /\ [Next]_vars => FullInv' /\ StageSteps
PROOF
  BY HeaderManagerCorrect, BodyManagerCorrect, PipeInvInit, PipeInvStep DEF Init, FullInv, Stages, StageSteps

\* FullInv holds in every state.
LEMMA FullInvariant == Spec => []FullInv
PROOF
  BY FullInvInductive, PTL DEF Spec

\* Both stages use their dependency manager as DepsManager expects: no task is
\* registered twice, none ends that did not begin, and nothing is registered once
\* the worker waits for the manager to become idle.
THEOREM StagesRefineManager == Spec => StagesRefine
PROOF
<1>1. Init => H!ManagerInit /\ B!ManagerInit
  BY DEF Init
<1>2. FullInv /\ [Next]_vars => [H!ManagerNext]_(H!managerVars) /\ [B!ManagerNext]_(B!managerVars)
  BY FullInvInductive DEF StageSteps
<1> QED
  BY <1>1, <1>2, FullInvariant, PTL DEF Spec, StagesRefine, H!ManagerSpec, B!ManagerSpec

\* What validation read is still so when the result is committed, without a lock on
\* the statuses: the managers keep the other tasks of the block and the tasks of its
\* parents away.
THEOREM VerdictsAlwaysStayTrue == Spec => []VerdictsStayTrue
PROOF
  BY FullInvariant, VerdictsTrue, PTL

\* The sink search ends at the best sink of the tips it read, and when the body
\* stage and the virtual worker are at rest, virtual is where a resolve of the
\* present tips would put it.
THEOREM VirtualAlwaysBest == Spec => []VirtualIsBest
PROOF
  BY FullInvariant, VirtualBest, PTL

\* A block is refused for a missing parent only when each earlier submission of that
\* parent was refused, or brought the header alone where the child needs the body.
THEOREM NeverSpuriouslyMissing == Spec => []NoSpuriousMissingParents
PROOF
  BY FullInvariant, MissingIsTrue, PTL
=============================================================================
