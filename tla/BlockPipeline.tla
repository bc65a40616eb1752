--------------------------- MODULE BlockPipeline ---------------------------
(***************************************************************************)
(* The block processing pipeline of a consensus instance                   *)
(* (consensus/src/pipeline, consensus/src/consensus/mod.rs): the header,   *)
(* body, virtual and pruning processors, each a worker thread behind a     *)
(* channel.  The header and the body processor run their tasks on a thread *)
(* pool under a dependency manager each (DepsManager).                     *)
(*                                                                         *)
(*   submit --> header --> body --> virtual --> pruning                    *)
(*                                                                         *)
(* Between try_begin and end a task is in the hands of one pool thread;    *)
(* what it reads (validate) and what it writes (commit) are separate       *)
(* steps, so that another thread may act in between.  The stores are       *)
(* written in one database batch per step.                                 *)
(***************************************************************************)
EXTENDS Naturals, Sequences, FiniteSets

CONSTANTS
  Hash, Task, HashOf, DirectParents,
  Exit,            \* the Exit message of every channel
  HeaderOnlyTask,  \* tasks with task.block().is_header_only()
  TrustedTask,     \* BlockTask::Trusted
  HeaderFault,     \* what header validation finds wrong (a timestamp that is too far
                   \* ahead for one submission may be fine for the next)
  BodyFault,       \* what body validation finds wrong
  UtxoInvalid,     \* blocks that fail verify_expected_utxo_state
  Work,            \* the order of SortableBlock: blue work, then hash
  FinalityPoint,   \* virtual_finality_point
  KnownStatus      \* statuses before the processors start (genesis, IBD)

ASSUME PipelineAssumption ==
  /\ HashOf \in [Task -> Hash]
  /\ DirectParents \in [Hash -> Seq(Hash)]
  /\ Exit \notin Task
  /\ HeaderOnlyTask \subseteq Task
  /\ TrustedTask \subseteq Task
  /\ HeaderFault \in [Task -> {"none", "isolation", "context", "postPow"}]
  /\ BodyFault \in [Task -> {"none", "merkle", "isolation", "context"}]
  /\ UtxoInvalid \subseteq Hash
  /\ Work \in [Hash -> Nat]
  /\ FinalityPoint \in Hash \ UtxoInvalid
  /\ KnownStatus \in [Hash -> {"None", "HeaderOnly", "UTXOValid"}]
  /\ \A h \in Hash : KnownStatus[h] = "UTXOValid" <=> h = FinalityPoint

VARIABLES
  headerChan, bodyChan, virtualChan, pruningChan,   \* channels, oldest first
  hTasks, hTaken, hDependents, hPool, hRunning, hEnded, hIdle,
  bTasks, bTaken, bDependents, bPool, bRunning, bEnded, bIdle,
  hStep, bStep,     \* what each running header / body task found out so far
  hExited, bExited, \* the worker passed Exit on and returned
  statuses,         \* statuses_store; "None" when the key is missing
  headersTip,       \* headers_selected_tip_store
  bodyTips,         \* body_tips_store
  added,            \* BlockAdded notifications, in the order they were sent
  vWorker,          \* where the virtual worker is in its loop
  vBatch,           \* the messages it collected
  vTips,            \* the tips it read
  vHeap,            \* the candidates of its sink search
  sink,             \* virtual_state.ghostdag_data.selected_parent
  pWorker,          \* where the pruning worker is in its loop
  pSink,            \* the sink of the last message it received
  submitted,        \* tasks given to validate_and_insert_block, in order
  exitSignalled,    \* signal_exit was called
  late,             \* tasks submitted after signal_exit
  blockResult, virtualResult   \* what was sent to the two oneshot channels

channelVars == <<headerChan, bodyChan, virtualChan, pruningChan>>
hManager == <<hTasks, hTaken, hDependents, hPool, hRunning, hEnded, hIdle>>
headerVars == <<hManager, hStep, hExited>>
bManager == <<bTasks, bTaken, bDependents, bPool, bRunning, bEnded, bIdle>>
bodyVars == <<bManager, bStep, bExited>>
storeVars == <<statuses, headersTip, bodyTips, added>>
virtualVars == <<vWorker, vBatch, vTips, vHeap, sink>>
pruningVars == <<pWorker, pSink>>
callerVars == <<submitted, exitSignalled, late>>
resultVars == <<blockResult, virtualResult>>
vars == <<channelVars, headerVars, bodyVars, storeVars, virtualVars, pruningVars, callerVars, resultVars>>

H == INSTANCE DepsManager WITH
  tasks <- hTasks, taken <- hTaken, dependents <- hDependents, pool <- hPool,
  running <- hRunning, ended <- hEnded, idle <- hIdle

B == INSTANCE DepsManager WITH
  tasks <- bTasks, taken <- bTaken, dependents <- bDependents, pool <- bPool,
  running <- bRunning, ended <- bEnded, idle <- bIdle

-----------------------------------------------------------------------------
(* Blocks, statuses and results *)

ParentSet(h) == {DirectParents[h][i] : i \in DOMAIN DirectParents[h]}

BodyStatuses == {"UTXOPending", "UTXOValid", "Disqualified"}
Statuses == BodyStatuses \cup {"None", "HeaderOnly", "Invalid"}
HasBody(h) == statuses[h] \in BodyStatuses

Errors == {"KnownInvalid", "MissingParents", "InvalidParent", "BadMerkleRoot", "RuleError"}
Results == Statuses \cup Errors

\* find_selected_parent: the parent of highest blue work.
SelectedParent(h) == CHOOSE p \in ParentSet(h) : \A q \in ParentSet(h) : Work[q] <= Work[p]

\* The past of a block, itself included: the least set with it and all parents.
Past ==
  [h \in Hash |->
    LET closed == {S \in SUBSET Hash : h \in S /\ \A x \in S : ParentSet(x) \subseteq S}
    IN  {x \in Hash : \A S \in closed : x \in S}]

\* The selected chain of a block down to the finality point.
Chain ==
  [h \in Hash |->
    LET closed == {S \in SUBSET Hash :
                     h \in S /\ \A x \in S : x # FinalityPoint /\ ParentSet(x) # {} => SelectedParent(x) \in S}
    IN  {x \in Hash : \A S \in closed : x \in S}]

PastOf(S) == UNION {Past[h] : h \in S}

\* Nothing but the finality point has a body when the processors start; headers
\* of its future may be known from a headers-first sync.
KnownHeaders == {h \in Hash : KnownStatus[h] # "None" /\ FinalityPoint \in Chain[h]}

\* A hash commits to those of the parents, blue work grows along the DAG, ties are
\* broken by the hash, one of the parents has the highest work, and trusted blocks
\* are outside of the future of the finality point.
ASSUME OrderAssumption ==
  /\ \A S \in SUBSET Hash : S # {} => \E h \in S : \A i \in DOMAIN DirectParents[h] : DirectParents[h][i] \notin S
  /\ \A h \in Hash : \A p \in ParentSet(h) : Work[p] < Work[h]
  /\ \A g, h \in Hash : Work[g] = Work[h] => g = h
  /\ \A h \in Hash : ParentSet(h) # {} => \E p \in ParentSet(h) : \A q \in ParentSet(h) : Work[q] <= Work[p]
  /\ \A t \in TrustedTask : FinalityPoint \notin Past[HashOf[t]]

-----------------------------------------------------------------------------
Init ==
  /\ headerChan = <<>> /\ bodyChan = <<>> /\ virtualChan = <<>> /\ pruningChan = <<>>
  /\ H!ManagerInit /\ B!ManagerInit
  /\ hStep = [t \in Task |-> "start"] /\ bStep = [t \in Task |-> "start"]
  /\ hExited = FALSE /\ bExited = FALSE
  /\ statuses = KnownStatus
  /\ headersTip \in KnownHeaders /\ \A h \in KnownHeaders : Work[h] <= Work[headersTip]
  /\ bodyTips = {FinalityPoint}
  /\ added = <<>>
  /\ vWorker = "receiving" /\ vBatch = <<>> /\ vTips = {} /\ vHeap = {}
  /\ sink = FinalityPoint
  /\ pWorker = "receiving" /\ pSink = FinalityPoint
  /\ submitted = <<>> /\ exitSignalled = FALSE /\ late = {}
  /\ blockResult = [t \in Task |-> "pending"]
  /\ virtualResult = [t \in Task |-> "pending"]

-----------------------------------------------------------------------------
(* Callers *)

WasSubmitted(t) == \E i \in DOMAIN submitted : submitted[i] = t

\* validate_and_insert_block and validate_and_insert_trusted_block.  Nothing
\* stops a caller from submitting after signal_exit.
Submit(t) ==
  /\ ~WasSubmitted(t)
  /\ submitted' = Append(submitted, t)
  /\ late' = IF exitSignalled THEN late \cup {t} ELSE late
  /\ headerChan' = Append(headerChan, t)
  /\ UNCHANGED <<exitSignalled, bodyChan, virtualChan, pruningChan, headerVars, bodyVars,
                 storeVars, virtualVars, pruningVars, resultVars>>

SignalExit ==
  /\ ~exitSignalled
  /\ exitSignalled' = TRUE
  /\ headerChan' = Append(headerChan, Exit)
  /\ UNCHANGED <<submitted, late, bodyChan, virtualChan, pruningChan, headerVars, bodyVars,
                 storeVars, virtualVars, pruningVars, resultVars>>

-----------------------------------------------------------------------------
(* Header processor *)

\* One turn of the receive loop of the worker.
HeaderReceive ==
  /\ headerChan # <<>>
  /\ hIdle = "receiving"
  /\ headerChan' = Tail(headerChan)
  /\ IF Head(headerChan) = Exit THEN H!WaitForIdle ELSE H!Register(Head(headerChan))
  /\ UNCHANGED <<hStep, hExited, bodyChan, virtualChan, pruningChan, bodyVars, storeVars,
                 virtualVars, pruningVars, callerVars, resultVars>>

\* After wait_for_idle the exit signal is passed on.
HeaderExit ==
  /\ hIdle = "idle" /\ ~hExited
  /\ hExited' = TRUE
  /\ bodyChan' = Append(bodyChan, Exit)
  /\ UNCHANGED <<hManager, hStep, headerChan,
                 virtualChan, pruningChan, bodyVars, storeVars, virtualVars, pruningVars,
                 callerVars, resultVars>>

HeaderTryBegin(h) ==
  /\ H!Defer(h) \/ H!Begin(h)
  /\ UNCHANGED <<hStep, hExited, channelVars, bodyVars, storeVars, virtualVars, pruningVars,
                 callerVars, resultVars>>

\* check_parents_exist
ParentsVerdict(h) ==
  CASE \E p \in ParentSet(h) : statuses[p] = "Invalid" -> "InvalidParent"
    [] \A p \in ParentSet(h) : statuses[p] \notin {"Invalid", "None"} -> "ok"
    [] OTHER -> "MissingParents"

\* validate_header_in_isolation
HeaderSound(t) == HeaderFault[t] # "isolation"

\* check_parents_incest and pre_pow_validation
FitsItsParents(t) == HeaderFault[t] # "context"

\* post_pow_validation
PostPowSound(t) == HeaderFault[t] # "postPow"

\* validate_header and validate_trusted_header
ValidateHeader(t) ==
  IF ~HeaderSound(t) THEN "RuleError"
  ELSE IF t \in TrustedTask THEN "commit"
  ELSE IF ParentsVerdict(HashOf[t]) # "ok" THEN ParentsVerdict(HashOf[t])
  ELSE IF ~FitsItsParents(t) THEN "RuleError"
  ELSE IF ~PostPowSound(t) THEN "markInvalid" ELSE "commit"

\* Mutant: the status of the block is not looked up.
VerdictForgetsStatus(t) == ValidateHeader(t)

\* What process_header finds out before it writes.
HeaderVerdict(t) ==
  CASE statuses[HashOf[t]] = "None" -> ValidateHeader(t)
    [] statuses[HashOf[t]] = "Invalid" -> "KnownInvalid"
    [] OTHER -> statuses[HashOf[t]]

HeaderValidate(t) ==
  /\ t \in hRunning /\ hStep[t] = "start"
  /\ hStep' = [hStep EXCEPT ![t] = HeaderVerdict(t)]
  /\ UNCHANGED <<hManager, hExited, channelVars,
                 bodyVars, storeVars, virtualVars, pruningVars, callerVars, resultVars>>

\* The headers selected tip after commit_header; commit_trusted_header leaves it.
NewHeadersTip(t) ==
  LET h == HashOf[t] IN
  IF t \notin TrustedTask /\ Work[h] > Work[headersTip] /\ FinalityPoint \in Chain[h]
    THEN h ELSE headersTip

\* commit_header and commit_trusted_header, or the StatusInvalid written when
\* post_pow_validation fails.
HeaderCommit(t) ==
  LET h == HashOf[t] IN
  /\ t \in hRunning
  /\ \/ /\ hStep[t] = "commit"
        /\ statuses' = [statuses EXCEPT ![h] = "HeaderOnly"]
        /\ headersTip' = NewHeadersTip(t)
        /\ hStep' = [hStep EXCEPT ![t] = "HeaderOnly"]
     \/ /\ hStep[t] = "markInvalid"
        /\ statuses' = [statuses EXCEPT ![h] = "Invalid"]
        /\ hStep' = [hStep EXCEPT ![t] = "RuleError"]
        /\ UNCHANGED headersTip
  /\ UNCHANGED <<hManager, hExited, channelVars, bodyVars, bodyTips, added, virtualVars,
                 pruningVars, callerVars, resultVars>>

AnsweredByHeader(t, res) == res \in Errors \/ t \in HeaderOnlyTask

\* end with the callback of queue_block, which runs under the manager's lock:
\* errors and header-only blocks are answered, full blocks go to the body
\* channel.
HeaderEnd(t) ==
  LET res == hStep[t]
      front == Head(hTasks[HashOf[t]])
  IN
  /\ t \in hRunning /\ res \in Results
  /\ H!End(t)
  /\ hStep' = [hStep EXCEPT ![t] = "start"]
  /\ IF AnsweredByHeader(t, res)
       THEN /\ blockResult' = [blockResult EXCEPT ![front] = res]
            /\ virtualResult' = [virtualResult EXCEPT ![front] = res]
            /\ UNCHANGED bodyChan
       ELSE bodyChan' = Append(bodyChan, t) /\ UNCHANGED resultVars
  /\ UNCHANGED <<hExited, headerChan, virtualChan, pruningChan, bodyVars, storeVars, virtualVars,
                 pruningVars, callerVars>>

-----------------------------------------------------------------------------
(* Body processor *)

\* Mutant: the message stays in the channel.
BodyPeek ==
  /\ bodyChan # <<>> /\ Head(bodyChan) # Exit
  /\ B!Register(Head(bodyChan))
  /\ UNCHANGED <<bStep, bExited, channelVars, headerVars, storeVars, virtualVars, pruningVars,
                 callerVars, resultVars>>

BodyReceive ==
  /\ bodyChan # <<>>
  /\ bIdle = "receiving"
  /\ bodyChan' = Tail(bodyChan)
  /\ IF Head(bodyChan) = Exit THEN B!WaitForIdle ELSE B!Register(Head(bodyChan))
  /\ UNCHANGED <<bStep, bExited, headerChan, virtualChan, pruningChan, headerVars, storeVars,
                 virtualVars, pruningVars, callerVars, resultVars>>

BodyExit ==
  /\ bIdle = "idle" /\ ~bExited
  /\ bExited' = TRUE
  /\ virtualChan' = Append(virtualChan, Exit)
  /\ UNCHANGED <<bManager, bStep, headerChan,
                 bodyChan, pruningChan, headerVars, storeVars, virtualVars, pruningVars,
                 callerVars, resultVars>>

BodyTryBegin(h) ==
  /\ B!Defer(h) \/ B!Begin(h)
  /\ UNCHANGED <<bStep, bExited, channelVars, headerVars, storeVars, virtualVars, pruningVars,
                 callerVars, resultVars>>

\* check_parent_bodies_exist
ParentBodiesMissing(h) == \E p \in ParentSet(h) : ~HasBody(p)

\* validate_body_in_isolation; BadMerkleRoot does not condemn the block, as its
\* header may still get the body it commits to.
BodySound(t) == BodyFault[t] # "isolation"

\* validate_body.  A trusted body is not looked at in context.
ValidateBody(t) ==
  IF BodyFault[t] = "merkle" THEN "BadMerkleRoot"
  ELSE IF ~BodySound(t) THEN "markInvalid"
  ELSE IF t \in TrustedTask THEN "commit"
  ELSE IF ParentBodiesMissing(HashOf[t]) THEN "MissingParents"
  ELSE IF BodyFault[t] = "context" THEN "markInvalid" ELSE "commit"

\* What process_body finds out before it writes.  A missing status is a failed
\* unwrap.
BodyVerdict(t) ==
  CASE statuses[HashOf[t]] = "None" -> "panic"
    [] statuses[HashOf[t]] = "Invalid" -> "KnownInvalid"
    [] statuses[HashOf[t]] = "HeaderOnly" -> ValidateBody(t)
    [] HasBody(HashOf[t]) -> statuses[HashOf[t]]

BodyValidate(t) ==
  /\ t \in bRunning /\ bStep[t] = "start"
  /\ bStep' = [bStep EXCEPT ![t] = BodyVerdict(t)]
  /\ UNCHANGED <<bManager, bExited, channelVars,
                 headerVars, storeVars, virtualVars, pruningVars, callerVars, resultVars>>

\* add_tip of the body tips store.
AddTip(h) == (bodyTips \ ParentSet(h)) \cup {h}

\* commit_body, or the StatusInvalid of a body that breaks a rule.
BodyCommit(t) ==
  LET h == HashOf[t] IN
  /\ t \in bRunning
  /\ \/ /\ bStep[t] = "commit"
        /\ statuses' = [statuses EXCEPT ![h] = "UTXOPending"]
        /\ bodyTips' = AddTip(h)
        /\ bStep' = [bStep EXCEPT ![t] = "notify"]
     \/ /\ bStep[t] = "markInvalid"
        /\ statuses' = [statuses EXCEPT ![h] = "Invalid"]
        /\ bStep' = [bStep EXCEPT ![t] = "RuleError"]
        /\ UNCHANGED bodyTips
  /\ UNCHANGED <<bManager, bExited, channelVars,
                 headerVars, headersTip, added, virtualVars, pruningVars, callerVars, resultVars>>

\* The BlockAdded notification that follows commit_body.
BodyNotify(t) ==
  /\ t \in bRunning /\ bStep[t] = "notify"
  /\ added' = Append(added, HashOf[t])
  /\ bStep' = [bStep EXCEPT ![t] = "UTXOPending"]
  /\ UNCHANGED <<bManager, bExited, channelVars,
                 headerVars, statuses, headersTip, bodyTips, virtualVars, pruningVars, callerVars, resultVars>>

\* Mutant: the condition is the wrong way round.
OrdinaryAnswered(t, res) == res \in Errors \/ t \notin TrustedTask

\* An error, or a task that does not require virtual processing.
AnsweredByBody(t, res) == res \in Errors \/ t \in TrustedTask

\* end with the callback of queue_block: block_task is always answered.
BodyEnd(t) ==
  LET res == bStep[t]
      front == Head(bTasks[HashOf[t]])
  IN
  /\ t \in bRunning /\ res \in Results
  /\ B!End(t)
  /\ bStep' = [bStep EXCEPT ![t] = "start"]
  /\ blockResult' = [blockResult EXCEPT ![front] = res]
  /\ IF AnsweredByBody(t, res)
       THEN virtualResult' = [virtualResult EXCEPT ![front] = res] /\ UNCHANGED virtualChan
       ELSE virtualChan' = Append(virtualChan, t) /\ UNCHANGED virtualResult
  /\ UNCHANGED <<bExited, headerChan, bodyChan, pruningChan, headerVars, storeVars, virtualVars,
                 pruningVars, callerVars>>

-----------------------------------------------------------------------------
(* Virtual processor *)

\* recv, then everything try_iter finds in the channel.
VirtualReceive ==
  /\ vWorker = "receiving" /\ virtualChan # <<>>
  /\ IF Head(virtualChan) = Exit
       THEN vWorker' = "exiting" /\ virtualChan' = Tail(virtualChan) /\ UNCHANGED vBatch
       ELSE vWorker' = "resolving" /\ vBatch' = virtualChan /\ virtualChan' = <<>>
  /\ UNCHANGED <<vTips, vHeap, sink, headerChan, bodyChan, pruningChan, headerVars, bodyVars,
                 storeVars, pruningVars, callerVars, resultVars>>

\* resolve_virtual reads the tips that are in the future of the finality point.
VirtualReadTips ==
  /\ vWorker = "resolving"
  /\ vWorker' = "searching"
  /\ vTips' = {h \in bodyTips : FinalityPoint \in Past[h]}
  /\ vHeap' = vTips'
  /\ UNCHANGED <<vBatch, sink, channelVars, headerVars, bodyVars, storeVars, pruningVars,
                 callerVars, resultVars>>

\* verify_expected_utxo_state, for a block on a valid selected parent
UtxoStateFits(h) == h \notin UtxoInvalid

\* A block qualifies for the virtual chain when all of its own chain is
\* UTXO-valid.
Qualified(h) == FinalityPoint \in Chain[h] /\ \A g \in Chain[h] : UtxoStateFits(g)

\* calculate_utxo_state_relatively: the statuses along the chain of a candidate.
UtxoStatuses(c) ==
  [h \in Hash |-> IF h \notin Chain[c] THEN statuses[h]
                  ELSE IF Qualified(h) THEN "UTXOValid" ELSE "Disqualified"]

\* The parents of a rejected candidate that enter the heap.
NewCandidates(c, heap) ==
  {p \in ParentSet(c) : FinalityPoint \in Past[p] /\ \A d \in heap : p \notin Past[d]}

\* The pruning channel is emptied before the new message is sent.
PruningMessage(c) == <<c>>

\* One round of sink_search_algorithm.  The candidate of highest blue work
\* becomes the sink, with the rest of resolve_virtual (the virtual state and the
\* message which replaces what the pruning worker has not received yet), or
\* makes room for its parents.
VirtualSearch ==
  \E c \in vHeap :
    /\ vWorker = "searching"
    /\ \A d \in vHeap : Work[d] <= Work[c]
    /\ statuses' = IF FinalityPoint \in Chain[c] THEN UtxoStatuses(c) ELSE statuses
    /\ IF Qualified(c)
         THEN /\ sink' = c /\ vHeap' = {}
              /\ vWorker' = "answering"
              /\ pruningChan' = PruningMessage(c)
         ELSE /\ vHeap' = (vHeap \ {c}) \cup NewCandidates(c, vHeap \ {c})
              /\ UNCHANGED <<sink, vWorker, pruningChan>>
    /\ UNCHANGED <<vBatch, vTips, headerChan, bodyChan, virtualChan, headerVars, bodyVars,
                   headersTip, bodyTips, added, pruningVars, callerVars, resultVars>>

\* The tasks of a batch before an Exit.
Answers(batch) == {batch[i] : i \in {j \in DOMAIN batch : \A k \in 1..j : batch[k] # Exit}}

\* The tasks of the batch are answered with their current status; an Exit among
\* them ends the loop.
VirtualAnswer ==
  /\ vWorker = "answering"
  /\ virtualResult' = [t \in Task |-> IF t \in Answers(vBatch) THEN statuses[HashOf[t]] ELSE virtualResult[t]]
  /\ vWorker' = IF \E i \in DOMAIN vBatch : vBatch[i] = Exit THEN "exiting" ELSE "receiving"
  /\ vBatch' = <<>>
  /\ UNCHANGED <<vTips, vHeap, sink, channelVars, headerVars, bodyVars, storeVars, pruningVars,
                 callerVars, blockResult>>

\* The pruning channel is bounded by two messages.
VirtualExit ==
  /\ vWorker = "exiting"
  /\ Len(pruningChan) < 2
  /\ vWorker' = "exited"
  /\ pruningChan' = Append(pruningChan, Exit)
  /\ UNCHANGED <<vBatch, vTips, vHeap, sink, headerChan, bodyChan, virtualChan, headerVars, bodyVars,
                 storeVars, pruningVars, callerVars, resultVars>>

-----------------------------------------------------------------------------
(* Pruning processor: here only its loop; it is busy for as long as it likes. *)

PruningReceive ==
  /\ pWorker = "receiving" /\ pruningChan # <<>>
  /\ pruningChan' = Tail(pruningChan)
  /\ IF Head(pruningChan) = Exit
       THEN pWorker' = "exited" /\ UNCHANGED pSink
       ELSE pWorker' = "busy" /\ pSink' = Head(pruningChan)
  /\ UNCHANGED <<headerChan, bodyChan, virtualChan, headerVars, bodyVars, storeVars, virtualVars,
                 callerVars, resultVars>>

PruningDone ==
  /\ pWorker = "busy"
  /\ pWorker' = "receiving"
  /\ UNCHANGED <<pSink, channelVars, headerVars, bodyVars, storeVars, virtualVars, callerVars, resultVars>>

-----------------------------------------------------------------------------
HeaderNext ==
  \/ HeaderReceive \/ HeaderExit
  \/ \E h \in Hash : HeaderTryBegin(h)
  \/ \E t \in Task : HeaderValidate(t) \/ HeaderCommit(t) \/ HeaderEnd(t)

BodyNext ==
  \/ BodyReceive \/ BodyExit
  \/ \E h \in Hash : BodyTryBegin(h)
  \/ \E t \in Task : BodyValidate(t) \/ BodyCommit(t) \/ BodyNotify(t) \/ BodyEnd(t)

VirtualNext == VirtualReceive \/ VirtualReadTips \/ VirtualSearch \/ VirtualAnswer \/ VirtualExit

PruningNext == PruningReceive \/ PruningDone

Next == SignalExit \/ (\E t \in Task : Submit(t)) \/ HeaderNext \/ BodyNext \/ VirtualNext \/ PruningNext

Spec == Init /\ [][Next]_vars

\* Every worker thread and every closure in the pool keeps running.
Fairness ==
  /\ WF_vars(HeaderReceive \/ HeaderExit)
  /\ WF_vars(BodyReceive \/ BodyExit)
  /\ \A h \in Hash : WF_vars(HeaderTryBegin(h)) /\ WF_vars(BodyTryBegin(h))
  /\ \A t \in Task : /\ WF_vars(HeaderValidate(t) \/ HeaderCommit(t) \/ HeaderEnd(t))
                     /\ WF_vars(BodyValidate(t) \/ BodyCommit(t) \/ BodyNotify(t) \/ BodyEnd(t))
  /\ WF_vars(VirtualNext)
  /\ WF_vars(PruningNext)

-----------------------------------------------------------------------------
(* Properties *)

\* What validation read is still so when the result is committed, although
\* neither statuses_store nor the manager is locked in between: the block is
\* where it was and, unless it is trusted, its parents are there.
VerdictsStayTrue ==
  /\ \A t \in hRunning : hStep[t] \in {"commit", "markInvalid"} =>
       /\ statuses[HashOf[t]] = "None"
       /\ t \notin TrustedTask => \A p \in ParentSet(HashOf[t]) : statuses[p] # "None"
  /\ \A t \in bRunning : bStep[t] = "commit" =>
       /\ statuses[HashOf[t]] = "HeaderOnly"
       /\ t \notin TrustedTask => \A p \in ParentSet(HashOf[t]) : HasBody(p)

SubmittedBefore(t, u) == \E i, j \in DOMAIN submitted : i < j /\ submitted[i] = t /\ submitted[j] = u

\* A caller that submits parents before children never gets MissingParents for
\* a parent that is merely still in the pipeline: a child is refused only when
\* each earlier submission of one of its parents was itself refused (or was
\* header-only, where the child needs the body).
NoSpuriousMissingParents ==
  \A t \in Task : blockResult[t] = "MissingParents" =>
    \E p \in ParentSet(HashOf[t]) :
      \A u \in Task : HashOf[u] = p /\ SubmittedBefore(u, t) =>
        blockResult[u] \in Errors \/ (u \in HeaderOnlyTask /\ t \notin HeaderOnlyTask)

\* The block of highest blue work in the past of some tips whose chain is
\* UTXO-valid down to the finality point.
IsBestSink(s, tips) ==
  /\ s \in PastOf(tips) /\ Qualified(s)
  /\ \A h \in PastOf(tips) : Qualified(h) => Work[h] <= Work[s]

\* The heap search ends at the best sink below the tips it started from, over a
\* chain that was found valid; and when no body is being processed and the virtual
\* worker has nothing left to do, virtual is where a resolve of the present tips
\* would put it: no commit goes unnoticed.
VirtualIsBest ==
  /\ vWorker = "answering" => IsBestSink(sink, vTips) /\ \A h \in Chain[sink] : statuses[h] = "UTXOValid"
  /\ bRunning = {} /\ virtualChan = <<>> /\ vWorker \in {"receiving", "exiting", "exited"} =>
       IsBestSink(sink, {h \in bodyTips : FinalityPoint \in Past[h]})

\* Both stages use their dependency manager as it expects to be used, so that
\* what is proved of the manager holds for each of them.
StagesRefine == H!ManagerSpec /\ B!ManagerSpec

\* Every block submitted before signal_exit is answered on both channels.
EveryBlockAnswered ==
  \A t \in Task : (WasSubmitted(t) /\ t \notin late) ~>
    (blockResult[t] # "pending" /\ virtualResult[t] # "pending")

\* signal_exit reaches the last worker, through all of the queues.
ShutdownCompletes == exitSignalled ~> pWorker = "exited"
=============================================================================
