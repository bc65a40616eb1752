------------------------- MODULE BlockTemplateCache -------------------------
(***************************************************************************)
(* get_block_template (mining/src/manager.rs) and its cache                *)
(* (mining/src/cache.rs).  A virtual state is a number; the approximate id *)
(* a caller reads is the last known good state, which the virtual          *)
(* processor stores before the batch is written and its lock on the        *)
(* virtual stores is given up.  The lock of the cache is held              *)
(* while a template is built, in attempts of which the last cannot fail.   *)
(***************************************************************************)
EXTENDS Naturals

CONSTANTS
  Callers,
  None,
  MaxAttempts,  \* maximum_build_block_template_attempts
  MaxVirtual    \* bound: virtual states

VARIABLES
  virtual,  \* virtual state in the stores
  lkg,      \* lkg_virtual_state
  cache,    \* [template: a virtual state or None, expired]
  lock,     \* the caller that holds the lock of the cache
  call,     \* [pc, id, attempts, got]
  asked     \* history: lkg when the call began

vars == <<virtual, lkg, cache, lock, call, asked>>

Idle == [pc |-> "idle", id |-> 0, attempts |-> 0, got |-> None]

Init ==
  /\ virtual = 0 /\ lkg = 0 /\ cache = [template |-> None, expired |-> FALSE]
  /\ lock = None /\ call = [c \in Callers |-> Idle] /\ asked = [c \in Callers |-> 0]

\* set_batch, with the write lock on the virtual stores ...
StoreLkg ==
  /\ lkg = virtual /\ virtual < MaxVirtual
  /\ lkg' = virtual + 1
  /\ UNCHANGED <<virtual, cache, lock, call, asked>>

\* ... which ends with the batch written.
CommitVirtual ==
  /\ lkg # virtual
  /\ virtual' = lkg
  /\ UNCHANGED <<lkg, cache, lock, call, asked>>

\* get_virtual_state_approx_id
Begin(c) ==
  /\ call[c].pc \in {"idle", "done"}
  /\ call' = [call EXCEPT ![c] = [Idle EXCEPT !.pc = "lock", !.id = lkg]]
  /\ asked' = [asked EXCEPT ![c] = lkg]
  /\ UNCHANGED <<virtual, lkg, cache, lock>>

\* Mutant: whatever is cached is used.
AnyTemplate(id) ==
  cache.template

\* lock(): a template of another virtual state is cleared.
Cached(id) ==
  IF cache.template = id THEN cache.template ELSE None

\* lock() and get_immutable_cached_template(); a hit gives up the lock, with or
\* without modify_block_template.
Lookup(c) ==
  /\ call[c].pc = "lock" /\ lock = None
  /\ LET template == Cached(call[c].id) IN
     /\ cache' = [cache EXCEPT !.template = template]
     /\ IF template # None /\ ~cache.expired
        THEN /\ call' = [call EXCEPT ![c].pc = "done", ![c].got = template]
             /\ UNCHANGED lock
        ELSE /\ call' = [call EXCEPT ![c].pc = "build"]
             /\ lock' = c
  /\ UNCHANGED <<virtual, lkg, asked>>

StandardMode(attempts) ==
  attempts < MaxAttempts

NextAttempt(attempts) ==
  attempts + 1

\* An attempt on the virtual state of the stores, with their read lock.  Too many of the selected
\* transactions may be invalid in a standard build: those are removed from the
\* mempool and the next attempt begins.
Build(c, successful) ==
  /\ call[c].pc = "build" /\ lkg = virtual
  /\ LET attempts == NextAttempt(call[c].attempts) IN
     IF StandardMode(attempts) /\ ~successful
     THEN /\ call' = [call EXCEPT ![c].attempts = attempts]
          /\ UNCHANGED <<cache, lock>>
     ELSE /\ call' = [call EXCEPT ![c].pc = "done", ![c].got = virtual, ![c].attempts = attempts]
          /\ cache' = [template |-> virtual, expired |-> FALSE]
          /\ lock' = None
  /\ UNCHANGED <<virtual, lkg, asked>>

\* The lifetime passes.
Expire ==
  /\ cache.template # None /\ ~cache.expired
  /\ cache' = [cache EXCEPT !.expired = TRUE]
  /\ UNCHANGED <<virtual, lkg, lock, call, asked>>

Next ==
  \/ CommitVirtual \/ StoreLkg \/ Expire
  \/ \E c \in Callers : Begin(c) \/ Lookup(c) \/ \E ok \in BOOLEAN : Build(c, ok)

Spec == Init /\ [][Next]_vars

-----------------------------------------------------------------------------

\* A miner never gets a template that is older than the state the node already
\* had when the miner asked, cached or not, whoever else builds or reads a stale id.
TemplateIsFresh ==
  \A c \in Callers : call[c].pc = "done" => call[c].got >= asked[c]

=============================================================================
