---------------------------- MODULE Concurrency ----------------------------
(***************************************************************************)
(* The two synchronisation primitives the pipeline rests on, for TLC: the  *)
(* session lock and the manager of dependencies between block tasks.  They *)
(* share no state, and a behaviour is one of either of them, which         *)
(* `component' names; the other rests in its initial state.                *)
(***************************************************************************)
EXTENDS RfRwLock, DepsManager

VARIABLE component

vars == <<component, lockVars, managerVars>>

\* A diamond of four blocks, two of which are submitted twice.
DiamondHash == {"a", "b", "c", "d"}
DiamondParents ==
  [h \in DiamondHash |->
     CASE h = "a" -> <<>> [] h \in {"b", "c"} -> <<"a">> [] h = "d" -> <<"b", "c">>]
DiamondHashOf == [a1 |-> "a", a2 |-> "a", b1 |-> "b", b2 |-> "b", c1 |-> "c", d1 |-> "d"]
DiamondTask == DOMAIN DiamondHashOf

Init ==
  /\ component \in {"lock", "manager"}
  /\ LockInit /\ ManagerInit
  /\ component = "manager" => \A c \in Client : mode[c] = "read"

AtLock == component = "lock" /\ UNCHANGED <<component, managerVars>>
AtManager == component = "manager" /\ UNCHANGED <<component, lockVars>>

Next ==
  \/ AtLock /\ LockNext
  \/ AtManager /\ ManagerNext

\* Threads run, tasks are polled once woken, and nobody keeps a guard for ever; the
\* pool runs every closure it was given, and processing a block returns.
Fairness ==
  /\ \A c \in Client : WF_vars(AtLock /\ Advance(c)) /\ WF_vars(AtLock /\ DropGuard(c))
  /\ \A h \in Hash : WF_vars(AtManager /\ (Defer(h) \/ Begin(h)))
  /\ \A t \in Task : WF_vars(AtManager /\ End(t))

Spec == Init /\ [][Next]_vars /\ Fairness

=============================================================================
