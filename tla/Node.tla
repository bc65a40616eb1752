-------------------------------- MODULE Node --------------------------------
(***************************************************************************)
(* The life of a node, for TLC: its start and shutdown, and its consensus  *)
(* instances over several starts.  They share no state here, and a         *)
(* behaviour is one of either of them, which `component' names; the other  *)
(* rests in its initial state.                                             *)
(***************************************************************************)
EXTENDS ConsensusManager

VARIABLES
  component,
  main, at, running, stopper, handler, iterations, consensus, services, rt, svc, told, first

runtimeVars ==
  <<main, at, running, stopper, handler, iterations, consensus, services, rt, svc, told, first>>
vars == <<component, runtimeVars, instanceVars>>

\* The services of the daemon that differ in how they end: the tick service returns
\* at once, notify joins the consensus channel, rpc joins notify, p2p waits for its
\* own signal, the rule engine for that of the ticks.
AsyncServices == <<"tick", "notify", "rpc", "p2p", "rules">>

Runtime == INSTANCE NodeRuntime WITH
  stopped <- services, signalled <- told,
  Services <- AsyncServices,
  WokenBy <- [tick |-> "tick", notify |-> "notify", rpc |-> "rpc", p2p |-> "p2p", rules |-> "tick"],
  After <- [tick |-> {}, notify |-> {"consensus"}, rpc |-> {"notify"}, p2p |-> {}, rules |-> {}],
  AtOnce <- {"tick"}, MayPanic <- {"p2p", "rules"}, MaxSignals <- 3

Init ==
  /\ component \in {"runtime", "manager"}
  /\ Runtime!Init /\ InstanceInit

AtRuntime == component = "runtime" /\ UNCHANGED <<component, instanceVars>>
AtManager == component = "manager" /\ UNCHANGED <<component, runtimeVars>>

Next ==
  \/ AtRuntime /\ Runtime!Next
  \/ AtManager /\ InstanceNext

\* Threads and tasks run on; nobody owes the node a signal or a panic.
Fairness ==
  /\ WF_vars(AtRuntime /\ Runtime!Start) /\ WF_vars(AtRuntime /\ Runtime!Join)
  /\ WF_vars(AtRuntime /\ Runtime!StopService) /\ WF_vars(AtRuntime /\ Runtime!ConsensusEnds)
  /\ WF_vars(AtRuntime /\ Runtime!Spawn) /\ WF_vars(AtRuntime /\ Runtime!JoinAll)
  /\ WF_vars(AtRuntime /\ Runtime!StopAll)
  /\ \A s \in Runtime!Async :
       WF_vars(AtRuntime /\ Runtime!Return(s)) /\ WF_vars(AtRuntime /\ Runtime!Select(s))

Spec == Init /\ [][Next]_vars /\ Fairness

-----------------------------------------------------------------------------
(* Properties *)

\* A shutdown that was asked for gets to its end, unless a staging consensus is
\* committed behind its back (NodeRuntime).
ShutdownGetsThrough == Runtime!ShutdownGetsThrough

=============================================================================
