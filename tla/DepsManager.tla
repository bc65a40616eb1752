---------------------------- MODULE DepsManager ----------------------------
(***************************************************************************)
(* The `BlockTaskDependencyManager` of consensus/src/pipeline/             *)
(* deps_manager.rs, together with the two callers that drive it: the       *)
(* receiving worker (register, wait_for_idle) and the `queue_block`        *)
(* closures which run on the rayon pool (try_begin ... end).               *)
(*                                                                         *)
(* The header processor and the body processor each own one manager.  All  *)
(* three operations take the `pending` mutex for their whole body, so each *)
(* is one atomic step; everything between try_begin and end (the actual    *)
(* processing) interleaves freely.                                         *)
(***************************************************************************)
EXTENDS Naturals, Sequences, FiniteSets

CONSTANTS
  Hash,           \* block hashes
  Task,           \* submissions; several may be of one block
  HashOf,         \* task.block().hash()
  DirectParents   \* header.direct_parents(); the hash commits to the header

ASSUME TaskAssumption ==
  /\ HashOf \in [Task -> Hash]
  /\ DirectParents \in [Hash -> Seq(Hash)]

\* A hash commits to the hashes of its parents, so no set of blocks is closed
\* under "some parent of it is in the set".
ASSUME AcyclicAssumption ==
  \A S \in SUBSET Hash : S # {} =>
    \E h \in S : \A i \in DOMAIN DirectParents[h] : DirectParents[h][i] \notin S

VARIABLES
  tasks,       \* pending[h].tasks; <<>> when `pending` has no entry for h
  taken,       \* whether the inner task at the front of pending[h] was taken
  dependents,  \* pending[p].dependent_tasks as a bag: how often h is in it
  pool,        \* how many queue_block(h) closures the thread pool holds
  running,     \* tasks a closure holds between try_begin and end
  ended,       \* tasks whose `end` callback was called
  idle         \* the worker: "receiving", "waiting" on idle_signal, "idle"

managerVars == <<tasks, taken, dependents, pool, running, ended, idle>>

\* The keys of the `pending` map: an entry is created with one task and is
\* removed by the `end` that empties its queue.
Pending == {h \in Hash : tasks[h] # <<>>}

PendingParents(h) == {i \in DOMAIN DirectParents[h] : DirectParents[h][i] \in Pending}

NoDependents == [h \in Hash |-> 0]

ManagerInit ==
  /\ tasks = [h \in Hash |-> <<>>]
  /\ taken = [h \in Hash |-> FALSE]
  /\ dependents = [h \in Hash |-> NoDependents]
  /\ pool = [h \in Hash |-> 0]
  /\ running = {}
  /\ ended = {}
  /\ idle = "receiving"

-----------------------------------------------------------------------------
(* The receiving worker *)

\* Mutant: every task is queued to the pool.
RegisterQueuesAlways(t) ==
  /\ idle = "receiving"
  /\ tasks' = [tasks EXCEPT ![HashOf[t]] = Append(@, t)]
  /\ pool' = [pool EXCEPT ![HashOf[t]] = @ + 1]
  /\ UNCHANGED <<taken, dependents, running, ended, idle>>

\* register: a new group is queued to the pool, a further task of a pending
\* hash only joins the queue of its group.
Register(t) ==
  LET h == HashOf[t] IN
  /\ idle = "receiving"
  /\ tasks' = [tasks EXCEPT ![h] = Append(@, t)]
  /\ pool' = [pool EXCEPT ![h] = IF h \in Pending THEN @ ELSE @ + 1]
  /\ UNCHANGED <<taken, dependents, running, ended, idle>>

\* wait_for_idle: called once, after the worker left its receive loop.
WaitForIdle ==
  /\ idle = "receiving"
  /\ idle' = IF Pending = {} THEN "idle" ELSE "waiting"
  /\ UNCHANGED <<tasks, taken, dependents, pool, running, ended>>

-----------------------------------------------------------------------------
(* The queue_block closures *)

DeferForgets(h) ==
  /\ pool[h] > 0
  /\ PendingParents(h) # {}
  /\ pool' = [pool EXCEPT ![h] = @ - 1]
  /\ UNCHANGED <<tasks, taken, dependents, running, ended, idle>>

\* try_begin returning None: h becomes a dependent of its first pending parent
\* and the closure finishes.
Defer(h) ==
  /\ pool[h] > 0
  /\ \E i \in PendingParents(h) :
       /\ \A j \in PendingParents(h) : i <= j
       /\ dependents' = [dependents EXCEPT ![DirectParents[h][i]][h] = @ + 1]
  /\ pool' = [pool EXCEPT ![h] = @ - 1]
  /\ UNCHANGED <<tasks, taken, running, ended, idle>>

\* Mutant: a block does not wait for its parents.
BeginUnordered(h) ==
  /\ pool[h] > 0
  /\ taken' = [taken EXCEPT ![h] = TRUE]
  /\ running' = running \cup {Head(tasks[h])}
  /\ pool' = [pool EXCEPT ![h] = @ - 1]
  /\ UNCHANGED <<tasks, dependents, ended, idle>>

\* try_begin returning the inner task at the front of the group.
Begin(h) ==
  /\ pool[h] > 0
  /\ PendingParents(h) = {}
  /\ taken' = [taken EXCEPT ![h] = TRUE]
  /\ running' = running \cup {Head(tasks[h])}
  /\ pool' = [pool EXCEPT ![h] = @ - 1]
  /\ UNCHANGED <<tasks, dependents, ended, idle>>

\* end, but for what the mutants leave out: the next task counts as taken already
\* (keep), nothing is queued for it (forget), nobody is notified (silent).
EndBut(t, keep, forget, silent) ==
  LET h == HashOf[t]
      last == Tail(tasks[h]) = <<>>
  IN
  /\ t \in running
  /\ tasks' = [tasks EXCEPT ![h] = Tail(@)]
  /\ taken' = [taken EXCEPT ![h] = keep /\ ~last]
  /\ running' = running \ {t}
  /\ ended' = ended \cup {Head(tasks[h])}
  /\ dependents' = IF last THEN [dependents EXCEPT ![h] = NoDependents] ELSE dependents
  /\ pool' = IF last THEN [x \in Hash |-> pool[x] + dependents[h][x]]
                     ELSE [pool EXCEPT ![h] = IF forget THEN @ ELSE @ + 1]
  /\ idle' = IF idle = "waiting" /\ Pending' = {} /\ ~silent THEN "idle" ELSE idle

EndIsSilent(t) == EndBut(t, FALSE, FALSE, TRUE)

\* end, and the loop of queue_block over the hashes it returns.  The group's
\* own hash is queued again while it has tasks; otherwise the group goes away
\* and its dependents are queued.  (A hash the closure still has to spawn is
\* counted in `pool` already: nobody can tell it from a spawned one that the
\* pool has not run yet.)  The callback gets the transmitters of the task that
\* is popped, whichever task the closure processed.
End(t) ==
  LET h == HashOf[t]
      last == Tail(tasks[h]) = <<>>
  IN
  /\ t \in running
  /\ tasks' = [tasks EXCEPT ![h] = Tail(@)]
  /\ taken' = [taken EXCEPT ![h] = FALSE]
  /\ running' = running \ {t}
  /\ ended' = ended \cup {Head(tasks[h])}
  /\ dependents' = IF last THEN [dependents EXCEPT ![h] = NoDependents] ELSE dependents
  /\ pool' = IF last THEN [x \in Hash |-> pool[x] + dependents[h][x]]
                     ELSE [pool EXCEPT ![h] = @ + 1]
  /\ idle' = IF idle = "waiting" /\ Pending' = {} THEN "idle" ELSE idle

-----------------------------------------------------------------------------
(* A manager on its own: tasks arrive in any order, each of them once. *)

Queued(t) == \E i \in DOMAIN tasks[HashOf[t]] : tasks[HashOf[t]][i] = t

Arrive(t) == t \notin ended /\ ~Queued(t) /\ Register(t)

ManagerNext ==
  \/ \E t \in Task : Arrive(t) \/ End(t)
  \/ \E h \in Hash : Defer(h) \/ Begin(h)
  \/ WaitForIdle

ManagerSpec == ManagerInit /\ [][ManagerNext]_managerVars

-----------------------------------------------------------------------------
(* Properties *)

ManagerTypeOK ==
  /\ tasks \in [Hash -> Seq(Task)]
  /\ taken \in [Hash -> BOOLEAN]
  /\ dependents \in [Hash -> [Hash -> Nat]]
  /\ pool \in [Hash -> Nat]
  /\ running \subseteq Task
  /\ ended \subseteq Task
  /\ idle \in {"receiving", "waiting", "idle"}

\* No expect, unwrap, assert or panic of try_begin and end can fire: a closure
\* for h always finds a group with an untaken front task, and the task given to
\* `end` is the one at the front of its group, so that the result is sent to
\* the caller that submitted it.
ExpectationsHold ==
  /\ \A h \in Hash : pool[h] > 0 => h \in Pending /\ ~taken[h]
  /\ \A t \in running : /\ HashOf[t] \in Pending
                        /\ taken[HashOf[t]]
                        /\ Head(tasks[HashOf[t]]) = t

\* h is nowhere else than in the pool / being processed / a dependent of p.
OnlyInPool(h) == pool[h] = 1 /\ ~taken[h] /\ \A p \in Hash : dependents[p][h] = 0
OnlyTaken(h) == pool[h] = 0 /\ taken[h] /\ \A p \in Hash : dependents[p][h] = 0
OnlyDependentOf(h, p) ==
  /\ pool[h] = 0 /\ ~taken[h]
  /\ \A q \in Hash : dependents[q][h] = IF q = p THEN 1 ELSE 0

\* A pending hash is in exactly one place: one closure in the pool, or taken by
\* one closure, or once in the dependents of one pending parent.  No group is
\* processed twice at a time (a task queued twice by register and end, or left
\* in two dependents lists), and none is forgotten.
ExactlyOnePlace ==
  \A h \in Hash :
    IF h \in Pending
      THEN \/ OnlyInPool(h)
           \/ OnlyTaken(h)
           \/ \E i \in PendingParents(h) : OnlyDependentOf(h, DirectParents[h][i])
      ELSE pool[h] = 0 /\ ~taken[h] /\ \A p \in Hash : dependents[p][h] = 0

\* The queues hold tasks of their own block only, each of them once, and none
\* that was already answered; what is marked taken is being processed.
QueuesConsistent ==
  \A h \in Hash :
    /\ \A i \in DOMAIN tasks[h] : HashOf[tasks[h][i]] = h /\ tasks[h][i] \notin ended
    /\ \A i, j \in DOMAIN tasks[h] : tasks[h][i] = tasks[h][j] => i = j
    /\ taken[h] => Head(tasks[h]) \in running

\* Never is everyone waiting on everyone: as long as something is pending, some
\* closure is in the pool or is processing a block.
SomethingMoves ==
  Pending # {} => \E h \in Hash : pool[h] > 0 \/ taken[h]

\* wait_for_idle, with its single `if` around the condition variable, returns
\* only when no task is pending, queued or being processed.
IdleMeansDone ==
  idle = "idle" => Pending = {} /\ running = {} /\ \A h \in Hash : pool[h] = 0

\* What every step of the manager preserves: ExactlyOnePlace needs the
\* expectations (a closure only begins an untaken group), those need the queues to
\* hold tasks of their own block, and IdleMeansDone needs all of them.
ManagerInv ==
  /\ ManagerTypeOK
  /\ QueuesConsistent
  /\ ExpectationsHold
  /\ ExactlyOnePlace
  /\ IdleMeansDone

\* Every task that was registered reaches the `end` callback.
EveryTaskEnds == \A t \in Task : Queued(t) ~> t \in ended

-----------------------------------------------------------------------------
(* The manager implements the service that TaskService describes. *)

PhaseOf(t) ==
  IF t \in ended THEN "done"
  ELSE IF t \in running THEN "processing"
  ELSE IF Queued(t) THEN "accepted" ELSE "new"

Service == INSTANCE TaskService WITH
  phase <- [t \in Task |-> PhaseOf(t)],
  door <- IF idle = "receiving" THEN "open"
          ELSE IF idle = "waiting" THEN "closing" ELSE "drained"

\* Registration, deferral to a pending parent, requeueing and the condition
\* variable together amount to the abstract service: one processing per task,
\* never next to a task of the same block, never ahead of an earlier parent.
ImplementsService == Service!ServiceSpec
=============================================================================
