---------------------------- MODULE TaskService ----------------------------
(***************************************************************************)
(* What a dependency manager (DepsManager) promises to a block processor,  *)
(* without groups, queues, dependents or a thread pool: every accepted     *)
(* task is processed once, alone among the tasks of its block, and not     *)
(* before the tasks on its parents that were accepted when it starts; and  *)
(* the service reports that it is drained only when it is.                 *)
(***************************************************************************)
EXTENDS Naturals, Sequences

CONSTANTS Hash, Task, HashOf, DirectParents

VARIABLES
  phase,   \* of each task: "new", "accepted", "processing" or "done"
  door     \* "open" while tasks are accepted, then "closing", then "drained"

serviceVars == <<phase, door>>

InService(t) == phase[t] \in {"accepted", "processing"}

IsParentOf(p, h) == \E i \in DOMAIN DirectParents[h] : DirectParents[h][i] = p

ServiceInit ==
  /\ phase = [t \in Task |-> "new"]
  /\ door = "open"

Accept(t) ==
  /\ door = "open"
  /\ phase[t] = "new"
  /\ phase' = [phase EXCEPT ![t] = "accepted"]
  /\ UNCHANGED door

Start(t) ==
  /\ phase[t] = "accepted"
  /\ \A u \in Task : InService(u) => ~IsParentOf(HashOf[u], HashOf[t])
  /\ \A u \in Task : phase[u] = "processing" => HashOf[u] # HashOf[t]
  /\ phase' = [phase EXCEPT ![t] = "processing"]
  /\ UNCHANGED door

\* The service may notice that it is drained when its last task finishes, or
\* at once when it is closed without a task.
Finish(t) ==
  /\ phase[t] = "processing"
  /\ phase' = [phase EXCEPT ![t] = "done"]
  /\ \/ UNCHANGED door
     \/ door = "closing" /\ (\A u \in Task : ~InService(u)') /\ door' = "drained"

Close ==
  /\ door = "open"
  /\ \/ door' = "closing"
     \/ (\A t \in Task : ~InService(t)) /\ door' = "drained"
  /\ UNCHANGED phase

ServiceNext == Close \/ \E t \in Task : Accept(t) \/ Start(t) \/ Finish(t)

ServiceSpec == ServiceInit /\ [][ServiceNext]_serviceVars
=============================================================================
