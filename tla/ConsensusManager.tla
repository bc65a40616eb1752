-------------------------- MODULE ConsensusManager --------------------------
(***************************************************************************)
(* Which consensus instance is the active one: the consensus manager       *)
(* (components/consensusmanager/src/lib.rs) with the factory and the       *)
(* management store below it (consensus/src/consensus/factory.rs, ctl.rs). *)
(* An IBD from a headers proof builds a staging consensus in a database of *)
(* its own and commits or cancels it, while sessions use the instance they *)
(* got, the worker joins the threads of replaced instances, the node shuts *)
(* down or crashes and starts again with other options.  Instances go by   *)
(* the key of their entry.                                                 *)
(***************************************************************************)
EXTENDS Naturals, Sequences, FiniteSets

CONSTANTS
  MaxKey,        \* bound: keys that are used
  MaxStarts,     \* bound: starts of the node
  Sessions,      \* holders of a consensus session
  None

ASSUME ManagerAssumption == MaxKey \in Nat /\ None \notin Nat

Keys == 1..MaxKey

VARIABLES
  \* On disk
  disk,      \* the metadata item in the database
  entries,   \* consensus entries
  dirs,      \* directories of consensus databases
  \* The process
  node,      \* "down", "boot", "create", "save", "up" or "exited"
  meta,      \* the cached metadata item
  archival,  \* config.is_archival
  current,   \* the instance in ManagerInner
  threads,   \* the processor threads of each instance
  signalled, \* instances that got their exit signal
  handles,   \* join handles, by instance
  worker,    \* the manager's worker: [pc, key]
  staging,   \* the StagingConsensus an IBD holds: [pc, key]
  del,       \* a deletion under the write lock of the management store
  held,      \* the instance of each session
  stopped,   \* stop was called
  closed,    \* the notification root is closed
  starts

diskVars == <<disk, entries, dirs>>
instanceVars == <<diskVars, node, meta, archival, current, threads, signalled, handles, worker, staging, del, held,
          stopped, closed, starts>>

NoDeletion == [pc |-> "idle", todo |-> {}, gone |-> {}]
Idle == [pc |-> "idle", key |-> None]
Process(status) ==
  /\ node' = status
  /\ current' = None /\ threads' = [k \in Keys |-> "none"] /\ signalled' = {} /\ handles' = <<>>
  /\ worker' = Idle /\ staging' = Idle /\ held' = [s \in Sessions |-> None]
  /\ stopped' = FALSE /\ closed' = FALSE

InstanceInit ==
  /\ disk = [current |-> None, staging |-> None, maxKey |-> 0, archival |-> FALSE]
  /\ entries = {} /\ dirs = {}
  /\ node = "down" /\ meta = disk /\ archival = FALSE
  /\ current = None /\ threads = [k \in Keys |-> "none"] /\ signalled = {} /\ handles = <<>>
  /\ worker = Idle /\ staging = Idle /\ held = [s \in Sessions |-> None]
  /\ del = NoDeletion /\ stopped = FALSE /\ closed = FALSE /\ starts = 0

\* CachedDbItem::write with a direct writer: the item and its cache.
WriteMeta(item) == meta' = item /\ disk' = item

StoreFree == del.pc = "idle"

-----------------------------------------------------------------------------
(* Start: Factory::new, then new_active_consensus *)

\* Mutant: the newest entry is taken for the active one.
NotTheNewest(item) ==
  entries \ {item.maxKey}

\* iterate_inactive_entries
Inactive(item) ==
  entries \ {item.current}

\* delete_inactive_consensus_entries begins with the staging entry; an archival
\* node stops after that.
BeginDeletion(item) ==
  IF item.staging # None THEN [NoDeletion EXCEPT !.pc = "stagingDir"]
  ELSE IF archival' THEN NoDeletion
  ELSE [NoDeletion EXCEPT !.pc = "dirs", !.todo = Inactive(item)]

\* The staging key outlives its entry: the process ended between the two writes of
\* delete_staging_entry.
StagingEntryGone == disk.staging # None /\ disk.staging \notin entries

\* set_is_archival_node puts the new item in a batch that is never written.
Start ==
  /\ node \in {"down", "exited"} /\ starts < MaxStarts /\ ~StagingEntryGone
  /\ starts' = starts + 1
  /\ archival' \in BOOLEAN
  /\ meta' = [disk EXCEPT !.archival = archival']
  /\ del' = BeginDeletion(meta')
  /\ Process("boot")
  /\ UNCHANGED diskVars

\* staging_consensus_entry unwraps the entry of the staging key: the start panics,
\* and so does every later one.
StartPanics ==
  /\ node \in {"down", "exited"} /\ starts < MaxStarts /\ StagingEntryGone
  /\ starts' = starts + 1
  /\ del' = NoDeletion /\ Process("down")
  /\ UNCHANGED <<diskVars, meta, archival>>

\* active_consensus_entry: a new entry only captures its key.
OpenActive ==
  /\ node = "boot" /\ StoreFree
  /\ IF meta.current # None
     THEN /\ node' = "up" /\ current' = meta.current
          /\ UNCHANGED <<diskVars, meta>>
     ELSE /\ meta.maxKey < MaxKey
          /\ WriteMeta([meta EXCEPT !.maxKey = @ + 1])
          /\ node' = "create" /\ UNCHANGED <<current, entries, dirs>>
  /\ UNCHANGED <<archival, threads, signalled, handles, worker, staging, del, held, stopped, closed, starts>>

CreateActive ==
  /\ node = "create"
  /\ dirs' = dirs \cup {meta.maxKey}
  /\ node' = "save"
  /\ UNCHANGED <<disk, entries, meta, archival, current, threads, signalled, handles, worker, staging, del, held,
                 stopped, closed, starts>>

\* save_new_active_consensus, once the instance with its genesis is there.
SaveActive ==
  /\ node = "save"
  /\ entries' = entries \cup {meta.maxKey}
  /\ WriteMeta([meta EXCEPT !.current = meta.maxKey])
  /\ node' = "up" /\ current' = meta.maxKey
  /\ UNCHANGED <<dirs, archival, threads, signalled, handles, worker, staging, del, held, stopped, closed, starts>>

-----------------------------------------------------------------------------
(* Deletions.  A directory may refuse to go. *)

DeletionUnchanged ==
  UNCHANGED <<node, archival, current, threads, signalled, handles, worker, staging, held, stopped, closed, starts>>

RemoveStagingDir ==
  /\ del.pc = "stagingDir"
  /\ \/ /\ meta.staging \in dirs
        /\ dirs' = dirs \ {meta.staging} /\ del' = [del EXCEPT !.pc = "stagingEntry"]
     \/ UNCHANGED dirs /\ del' = [del EXCEPT !.pc = "cancel"]
  /\ UNCHANGED <<disk, entries, meta>> /\ DeletionUnchanged

RemoveStagingEntry ==
  /\ del.pc = "stagingEntry"
  /\ entries' = entries \ {meta.staging} /\ del' = [del EXCEPT !.pc = "cancel"]
  /\ UNCHANGED <<disk, dirs, meta>> /\ DeletionUnchanged

AfterStaging ==
  IF staging.pc = "cancelled" \/ archival THEN NoDeletion
  ELSE [NoDeletion EXCEPT !.pc = "dirs", !.todo = Inactive(meta)]

\* cancel_staging_consensus; in StagingConsensus::cancel this is the end.
CancelStaging ==
  /\ del.pc = "cancel"
  /\ WriteMeta([meta EXCEPT !.staging = None])
  /\ del' = AfterStaging
  /\ staging' = IF staging.pc = "cancelled" THEN Idle ELSE staging
  /\ UNCHANGED <<entries, dirs, node, archival, current, threads, signalled, handles, worker, held, stopped, closed, starts>>

RemoveDir ==
  /\ del.pc = "dirs"
  /\ IF del.todo = {}
     THEN del' = [del EXCEPT !.pc = "entries"] /\ UNCHANGED dirs
     ELSE \E k \in del.todo :
            \/ /\ dirs' = dirs \ {k}
               /\ del' = [del EXCEPT !.todo = @ \ {k}, !.gone = @ \cup {k}]
            \/ /\ k \in dirs
               /\ del' = [del EXCEPT !.todo = @ \ {k}] /\ UNCHANGED dirs
  /\ UNCHANGED <<disk, entries, meta>> /\ DeletionUnchanged

RemoveEntry ==
  /\ del.pc = "entries"
  /\ IF del.gone = {}
     THEN del' = NoDeletion /\ UNCHANGED entries
     ELSE \E k \in del.gone :
            /\ entries' = entries \ {k}
            /\ del' = [del EXCEPT !.gone = @ \ {k}]
  /\ UNCHANGED <<disk, dirs, meta>> /\ DeletionUnchanged

-----------------------------------------------------------------------------
(* The manager and its worker *)

ManagerUnchanged == UNCHANGED <<diskVars, node, meta, archival, del, held, starts>>

\* The worker takes the control of the current instance and starts it ...
WorkerStart ==
  /\ node = "up" /\ worker.pc = "idle"
  /\ threads' = [threads EXCEPT ![current] = "run"]
  /\ worker' = [pc |-> "extend", key |-> current]
  /\ UNCHANGED <<current, signalled, handles, staging, stopped, closed>> /\ ManagerUnchanged

Extend(k) ==
  handles' = Append(handles, k)

\* ... and queues its handles, maybe behind those of a staging consensus.
WorkerExtend ==
  /\ worker.pc = "extend"
  /\ Extend(worker.key)
  /\ worker' = [pc |-> "wait", key |-> None]
  /\ UNCHANGED <<current, threads, signalled, staging, stopped, closed>> /\ ManagerUnchanged

\* With no handle left the factory, and with it the notification root, is closed.
WorkerPop ==
  /\ worker.pc = "wait"
  /\ IF handles = <<>>
     THEN /\ worker' = [pc |-> "done", key |-> None] /\ closed' = TRUE
          /\ UNCHANGED handles
     ELSE /\ worker' = [pc |-> "join", key |-> Head(handles)] /\ handles' = Tail(handles)
          /\ UNCHANGED closed
  /\ UNCHANGED <<current, threads, signalled, staging, stopped>> /\ ManagerUnchanged

WorkerJoin ==
  /\ worker.pc = "join" /\ threads[worker.key] = "done"
  /\ worker' = [pc |-> "wait", key |-> None]
  /\ UNCHANGED <<current, threads, signalled, handles, staging, stopped, closed>> /\ ManagerUnchanged

\* The processors of an instance get through their queues and exit.
ThreadsEnd(k) ==
  /\ threads[k] = "run" /\ k \in signalled
  /\ threads' = [threads EXCEPT ![k] = "done"]
  /\ UNCHANGED <<current, signalled, handles, worker, staging, stopped, closed>> /\ ManagerUnchanged

Stop ==
  /\ node = "up" /\ ~stopped
  /\ stopped' = TRUE /\ signalled' = signalled \cup {current}
  /\ UNCHANGED <<current, threads, handles, worker, staging, closed>> /\ ManagerUnchanged

Session(s) ==
  /\ node = "up"
  /\ held' = [held EXCEPT ![s] = IF @ = None THEN current ELSE None]
  /\ UNCHANGED <<diskVars, node, meta, archival, current, threads, signalled, handles, worker, staging, del,
                 stopped, closed, starts>>

-----------------------------------------------------------------------------
(* StagingConsensus *)

StagingUnchanged == UNCHANGED <<node, archival, held, stopped, closed, starts>>

\* new_staging_consensus_entry: the key, the pointer and the entry in one batch.
NewStaging ==
  /\ node = "up" /\ staging.pc = "idle" /\ StoreFree /\ ~closed
  /\ meta.maxKey < MaxKey
  /\ WriteMeta([meta EXCEPT !.maxKey = @ + 1, !.staging = meta.maxKey + 1])
  /\ entries' = entries \cup {meta.maxKey + 1}
  /\ staging' = [pc |-> "create", key |-> meta.maxKey + 1]
  /\ UNCHANGED <<dirs, current, threads, signalled, handles, worker, del>> /\ StagingUnchanged

CreateStaging ==
  /\ staging.pc = "create"
  /\ dirs' = dirs \cup {staging.key}
  /\ threads' = [threads EXCEPT ![staging.key] = "run"]
  /\ staging' = [staging EXCEPT !.pc = "open"]
  /\ UNCHANGED <<disk, entries, meta, current, signalled, handles, worker, del>> /\ StagingUnchanged

\* Mutant: the staging key is cleared only.
ClearStaging(item) ==
  [item EXCEPT !.staging = None]

\* commit_staging_consensus
MadeActive(item) ==
  [item EXCEPT !.current = item.staging, !.staging = None]

StopPrevious ==
  signalled' = signalled \cup {current}

\* commit up to the drop of the manager's lock; make_active turns the staging key
\* of the metadata into the current one, whichever it is.  The manager may have been
\* stopped before: the new instance then never gets an exit signal.
Commit ==
  /\ staging.pc = "open" /\ StoreFree
  /\ current' = staging.key
  /\ Extend(staging.key)
  /\ StopPrevious
  /\ WriteMeta(MadeActive(meta))
  /\ staging' = [staging EXCEPT !.pc = "committed"]
  /\ UNCHANGED <<entries, dirs, threads, worker, del>> /\ StagingUnchanged

\* The reset handlers run, the previous instance is dropped and deleted.
AfterCommit ==
  /\ staging.pc = "committed" /\ StoreFree
  /\ archival' = archival
  /\ del' = BeginDeletion(meta)
  /\ staging' = Idle
  /\ UNCHANGED <<diskVars, node, meta, current, threads, signalled, handles, worker, held, stopped, closed, starts>>

StagingCancel ==
  /\ staging.pc = "open"
  /\ signalled' = signalled \cup {staging.key}
  /\ staging' = [staging EXCEPT !.pc = "joining"]
  /\ UNCHANGED <<diskVars, meta, current, threads, handles, worker, del>> /\ StagingUnchanged

CancelJoined ==
  /\ staging.pc = "joining" /\ threads[staging.key] = "done" /\ StoreFree
  /\ del' = [NoDeletion EXCEPT !.pc = "stagingDir"]
  /\ staging' = [staging EXCEPT !.pc = "cancelled"]
  /\ UNCHANGED <<diskVars, meta, current, threads, signalled, handles, worker>> /\ StagingUnchanged

-----------------------------------------------------------------------------
\* Core::join got past the worker and the runtime.
Exit ==
  /\ worker.pc = "done" /\ \A s \in Sessions : held[s] = None
  /\ del' = NoDeletion /\ Process("exited")
  /\ UNCHANGED <<diskVars, meta, archival, starts>>

Crash ==
  /\ node \notin {"down", "exited"}
  /\ del' = NoDeletion /\ Process("down")
  /\ UNCHANGED <<diskVars, meta, archival, starts>>

Deletion == RemoveStagingDir \/ RemoveStagingEntry \/ CancelStaging \/ RemoveDir \/ RemoveEntry
Boot == OpenActive \/ CreateActive \/ SaveActive
Worker == WorkerStart \/ WorkerExtend \/ WorkerPop \/ WorkerJoin
IbdEnds == CreateStaging \/ AfterCommit \/ CancelJoined

InstanceNext ==
  \/ Start \/ StartPanics \/ Boot \/ Deletion \/ Worker \/ (\E k \in Keys : ThreadsEnd(k))
  \/ Stop \/ (\E s \in Sessions : Session(s))
  \/ NewStaging \/ Commit \/ StagingCancel \/ IbdEnds
  \/ Exit \/ Crash

InstanceSpec == InstanceInit /\ [][InstanceNext]_instanceVars

-----------------------------------------------------------------------------
(* Properties *)

\* At every moment the node may crash at, the active consensus of the metadata has
\* its entry and its database: new_active_consensus saves last, commit switches
\* before the previous one is deleted, and no deletion hits the active one.  A start
\* may still fail for another reason (StartPanics); the data of the active consensus
\* is there all the same.
ActiveIsIntact == disk.current # None => disk.current \in entries \cap dirs

\* The instance the manager hands out is the one that will be loaded after a
\* restart; make_active trusts that the staging key is that of its own instance.
CommittedIsActive == node = "up" => meta.current = current

=============================================================================
