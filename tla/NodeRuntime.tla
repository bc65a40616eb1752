---------------------------- MODULE NodeRuntime ----------------------------
(***************************************************************************)
(* Start and shutdown of the node (core/src/core.rs, signals.rs and        *)
(* task/runtime.rs): Core owns two services, the consensus manager, whose  *)
(* worker is a thread, and the async runtime, whose worker spawns the      *)
(* async services as tasks.  A shutdown comes from the signal handler or   *)
(* from the runtime's worker.                                              *)
(***************************************************************************)
EXTENDS Naturals, Sequences, SequencesExt

CONSTANTS
  Services,    \* async services, in the order of their registration
  WokenBy,     \* WokenBy[s]: the service whose exit signal s listens to
  After,       \* After[s]: what s joins before it returns
  AtOnce,      \* services whose start returns without waiting
  MayPanic,    \* services whose task may panic before it is told to exit
  MaxSignals   \* bound: signals of the operating system

\* Core::bind: "consensus" first, then "runtime".
CoreServices == <<"consensus", "runtime">>
Async == Range(Services)

VARIABLES
  main,       \* "start", "join", "cleared" or "halted"
  at,         \* position of main in CoreServices
  running,    \* keep_running
  stopper,    \* the caller inside shutdown: [by, at]; by = "none" without one
  handler,    \* the signal handler: "idle" or "shutdown"
  iterations, \* signals seen by the handler
  consensus,  \* the consensus manager: "idle", "run", "replaced" or "done"
  stopped,    \* core services whose stop was called, in order
  rt,         \* the runtime's worker
  svc,        \* the task of each async service
  signalled,  \* async services that got signal_exit
  first       \* the service select_all returned

vars == <<main, at, running, stopper, handler, iterations, consensus, stopped, rt, svc, signalled, first>>

Nobody == [by |-> "none", at |-> 0]
Ended == {s \in Async : svc[s] \in {"ok", "panic"}}
EndedServices == Ended \cup (IF consensus = "done" THEN {"consensus"} ELSE {})

Init ==
  /\ main = "start" /\ at = 1 /\ running = TRUE /\ stopper = Nobody
  /\ handler = "idle" /\ iterations = 0 /\ consensus = "idle" /\ stopped = <<>>
  /\ rt = "idle" /\ svc = [s \in Async |-> "idle"] /\ signalled = {} /\ first = "none"

-----------------------------------------------------------------------------
(* Core *)

\* start holds the lock of the services while it starts each of them.
Start ==
  /\ main = "start"
  /\ IF CoreServices[at] = "consensus"
     THEN consensus' = "run" /\ UNCHANGED rt
     ELSE rt' = "spawn" /\ UNCHANGED consensus
  /\ IF at = Len(CoreServices) THEN main' = "join" /\ at' = 1 ELSE at' = at + 1 /\ UNCHANGED main
  /\ UNCHANGED <<running, stopper, handler, iterations, stopped, svc, signalled, first>>

Finished(service) ==
  IF service = "consensus" THEN consensus = "done" ELSE rt \in {"done", "panicked"}

\* join: a panicked thread counts as joined; clear waits for the services' lock.
Join ==
  /\ main = "join"
  /\ IF at <= Len(CoreServices)
     THEN Finished(CoreServices[at]) /\ at' = at + 1 /\ UNCHANGED main
     ELSE stopper.at = 0 /\ main' = "cleared" /\ UNCHANGED at
  /\ UNCHANGED <<running, stopper, handler, iterations, consensus, stopped, rt, svc, signalled, first>>

\* shutdown up to the lock: only the first caller goes on.
Shutdown(by) ==
  IF running THEN running' = FALSE /\ stopper' = [by |-> by, at |-> 0]
  ELSE UNCHANGED <<running, stopper>>

\* Mutant: the services are stopped without their lock.
AnyTime ==
  TRUE

ServicesLockFree ==
  main # "start"

\* Mutant: the exit signal reaches the first service only.
SignalFirst ==
  {Services[1]}

\* AsyncRuntime::signal_exit; the worker cleared its services when it is done.
SignalExit ==
  IF rt = "done" THEN {} ELSE Async

\* The loop of shutdown.  join may have cleared the services before it.
StopService ==
  /\ stopper.by # "none" /\ ServicesLockFree
  /\ IF main = "cleared" \/ stopper.at = Len(CoreServices)
     THEN /\ stopper' = Nobody
          /\ handler' = IF stopper.by = "handler" THEN "idle" ELSE handler
          /\ rt' = IF stopper.by = "runtime" THEN "joining" ELSE rt
          /\ UNCHANGED <<stopped, signalled>>
     ELSE LET service == CoreServices[stopper.at + 1] IN
          /\ stopper' = [stopper EXCEPT !.at = @ + 1]
          /\ stopped' = Append(stopped, service)
          /\ signalled' = IF service = "runtime" THEN signalled \cup SignalExit ELSE signalled
          /\ UNCHANGED <<handler, rt>>
  /\ UNCHANGED <<main, at, running, iterations, consensus, svc, first>>

\* The handler of the third signal ends the process; before that the handler runs
\* shutdown, and a second signal waits until it is back.
Signal ==
  /\ handler = "idle" /\ main \notin {"cleared", "halted"} /\ iterations < MaxSignals
  /\ iterations' = iterations + 1
  /\ IF iterations > 1
     THEN main' = "halted" /\ UNCHANGED <<running, stopper, handler>>
     ELSE /\ Shutdown("handler")
          /\ handler' = IF running THEN "shutdown" ELSE "idle"
          /\ UNCHANGED main
  /\ UNCHANGED <<at, consensus, stopped, rt, svc, signalled, first>>

\* An IBD that is still running commits its staging consensus after the manager was
\* stopped: the worker goes on to join the threads of an instance nobody stops.
CommitAfterStop ==
  /\ consensus = "run" /\ Contains(stopped, "consensus")
  /\ consensus' = "replaced"
  /\ UNCHANGED <<main, at, running, stopper, handler, iterations, stopped, rt, svc, signalled, first>>

\* The consensus threads got their exit signal and the worker closed the root.
ConsensusEnds ==
  /\ consensus = "run" /\ Contains(stopped, "consensus")
  /\ consensus' = "done"
  /\ UNCHANGED <<main, at, running, stopper, handler, iterations, stopped, rt, svc, signalled, first>>

-----------------------------------------------------------------------------
(* AsyncRuntime::worker_impl *)

Spawn ==
  /\ rt = "spawn"
  /\ svc' = [s \in Async |-> "run"] /\ rt' = "select"
  /\ UNCHANGED <<main, at, running, stopper, handler, iterations, consensus, stopped, signalled, first>>

\* A service returns: at once, or woken and after those it joins.
Return(s) ==
  /\ svc[s] = "run"
  /\ s \in AtOnce \/ (WokenBy[s] \in signalled /\ After[s] \subseteq EndedServices)
  /\ svc' = [svc EXCEPT ![s] = "ok"]
  /\ UNCHANGED <<main, at, running, stopper, handler, iterations, consensus, stopped, rt, signalled, first>>

Panic(s) ==
  /\ svc[s] = "run" /\ s \in MayPanic /\ running
  /\ svc' = [svc EXCEPT ![s] = "panic"]
  /\ UNCHANGED <<main, at, running, stopper, handler, iterations, consensus, stopped, rt, signalled, first>>

\* select_all: the first service to return decides on a shutdown.
Select(s) ==
  /\ rt = "select" /\ s \in Ended
  /\ first' = s
  /\ IF svc[s] = "panic"
     THEN Shutdown("runtime") /\ rt' = IF running THEN "shutdown" ELSE "joining"
     ELSE rt' = "joining" /\ UNCHANGED <<running, stopper>>
  /\ UNCHANGED <<main, at, handler, iterations, consensus, stopped, svc, signalled>>

AllJoined ==
  Ended = Async

\* try_join_all: a panic in one of the others ends the wait and, with the unwrap,
\* the worker; the tasks still running go with their runtime.
JoinAll ==
  /\ rt = "joining"
  /\ \/ /\ \E s \in Async \ {first} : svc[s] = "panic"
        /\ rt' = "panicked"
        /\ svc' = [s \in Async |-> IF svc[s] = "run" THEN "dropped" ELSE svc[s]]
     \/ /\ \A s \in Async \ {first} : svc[s] # "panic"
        /\ AllJoined
        /\ rt' = "stop" /\ UNCHANGED svc
  /\ UNCHANGED <<main, at, running, stopper, handler, iterations, consensus, stopped, signalled, first>>

\* The stop futures of all services, then the services are cleared.
StopAll ==
  /\ rt = "stop" /\ rt' = "done"
  /\ UNCHANGED <<main, at, running, stopper, handler, iterations, consensus, stopped, svc, signalled, first>>

-----------------------------------------------------------------------------
Step ==
  \/ Start \/ Join \/ StopService \/ Signal \/ ConsensusEnds \/ CommitAfterStop
  \/ Spawn \/ JoinAll \/ StopAll
  \/ \E s \in Async : Return(s) \/ Panic(s) \/ Select(s)

Next == main # "halted" /\ Step

Spec == Init /\ [][Next]_vars

-----------------------------------------------------------------------------
(* Properties *)

\* A shutdown that was asked for gets through both services to the end of join,
\* unless an IBD replaces the consensus after it was stopped; then join waits for
\* threads that never got an exit signal.
ShutdownGetsThrough == ~running ~> main \in {"cleared", "halted"} \/ consensus = "replaced"

=============================================================================
