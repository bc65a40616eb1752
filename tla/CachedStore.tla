---------------------------- MODULE CachedStore -----------------------------
(***************************************************************************)
(* The cached access to the database every store is built on               *)
(* (database/src/{access,set_access,item,cache}.rs), with the locks the    *)
(* stores are used under (consensus/src/consensus/storage.rs):             *)
(*   "item"  a value per key, overwritten under the store's RwLock;        *)
(*   "set"   a set per key, changed element by element under the RwLock;   *)
(*   "once"  a value per key, inserted once without a lock and deleted only *)
(*           by pruning, which holds the session lock readers share.       *)
(*                                                                         *)
(* A read looks into the cache, then into the database, and then fills the *)
(* cache.  A write changes the cache at once and the database when its     *)
(* batch is flushed: after is the database with the batch applied.  The    *)
(* writer of a batch does not read the keys it has written ("writes will   *)
(* not accumulate if the entry gets out of the cache", relations.rs).      *)
(***************************************************************************)
EXTENDS Naturals, FiniteSets, FiniteSetsExt, TLC

CONSTANTS
  Keys,
  Elems,        \* a value is a set of elements
  Readers,
  MaxSize,      \* CachePolicy::Tracked { max_size, min_items }
  MinItems,
  MaxWrites,    \* bound: batches flushed
  MaxCrashes,   \* bound: crashes
  None

VARIABLES kind, db, after, cache, tracked, writer, reader, writes, crashes

vars == <<kind, db, after, cache, tracked, writer, reader, writes, crashes>>

Absent == IF kind = "set" THEN {} ELSE None

EstimateSize(value) == 1 + Cardinality(value)

SizeOfAll(c) == FoldSet(LAMBDA k, n : n + EstimateSize(c[k]), 0, DOMAIN c)

Drop(f, k) == [x \in DOMAIN f \ {k} |-> f[x]]

-----------------------------------------------------------------------------
(* The cache (cache.rs): its map m and the size t it keeps track of. *)

\* tracked_evict: random items go until the size fits, as long as there are more
\* than MinItems.
RECURSIVE TrackedEvict(_, _)
TrackedEvict(m, t) ==
  IF t > MaxSize /\ Cardinality(DOMAIN m) > MinItems
  THEN UNION {TrackedEvict(Drop(m, k), t - EstimateSize(m[k])) : k \in DOMAIN m}
  ELSE {[map |-> m, size |-> t]}

CacheInsert(k, value) ==
  TrackedEvict((k :> value) @@ cache,
               tracked + EstimateSize(value)
                 - (IF k \in DOMAIN cache THEN EstimateSize(cache[k]) ELSE 0))

CacheUpdateIfEntryExists(k, value) ==
  IF k \in DOMAIN cache THEN CacheInsert(k, value) ELSE {[map |-> cache, size |-> tracked]}

CacheRemove(k) ==
  IF k \in DOMAIN cache
  THEN [map |-> Drop(cache, k), size |-> tracked - EstimateSize(cache[k])]
  ELSE [map |-> cache, size |-> tracked]

Becomes(c) == cache' = c.map /\ tracked' = c.size

-----------------------------------------------------------------------------
(* Reading *)

Idle == "idle"

\* Under the RwLock a reader waits for the writer; without one only for pruning.
MayRead == IF kind = "once" THEN writer # "delete" ELSE writer = Idle

\* CachedDbAccess::read and CachedDbSetAccess::read_locked_entry, when the cache
\* does not have the key.  A missing value is not cached, an empty set is.
ReadFromDb(r, k) ==
  /\ MayRead
  /\ reader[r] = None
  /\ k \notin DOMAIN cache
  /\ db[k] # None
  /\ reader' = [reader EXCEPT ![r] = [key |-> k, value |-> db[k]]]
  /\ UNCHANGED <<kind, db, after, cache, tracked, writer, writes, crashes>>

FillCache(r) ==
  /\ reader[r] # None
  /\ \E c \in CacheInsert(reader[r].key, reader[r].value) : Becomes(c)
  /\ reader' = [reader EXCEPT ![r] = None]
  /\ UNCHANGED <<kind, db, after, writer, writes, crashes>>

-----------------------------------------------------------------------------
(* Writing *)

Has(k) == k \in DOMAIN cache \/ db[k] # None

NoReaders == \A r \in Readers : reader[r] = None

\* Mutant: the pruning does not wait for the sessions.
BeginAtOnce(mode) ==
  TRUE

\* An insertion without a lock waits for nobody, every other writer for readers.
MayBegin(mode) == (kind = "once" /\ mode = "write") \/ NoReaders

BeginWrite(mode) ==
  /\ writer = Idle
  /\ writes < MaxWrites
  /\ MayBegin(mode)
  /\ writer' = mode
  /\ UNCHANGED <<kind, db, after, cache, tracked, reader, writes, crashes>>

\* CachedDbAccess::write with a batch; a store of the kind "once" refuses a key it
\* has, or (the UTXO multisets) is written the value that is there.
Write(k, value) ==
  /\ writer = "write"
  /\ kind # "set"
  /\ kind = "once" => ~Has(k) \/ (db[k] = value /\ after[k] = value)
  /\ \E c \in CacheInsert(k, value) : Becomes(c)
  /\ after' = [after EXCEPT ![k] = value]
  /\ UNCHANGED <<kind, db, writer, reader, writes, crashes>>

\* CachedDbSetAccess::write and ::delete: the cached set changes if there is one.
WriteElement(k, e, present) ==
  /\ writer = "write"
  /\ kind = "set"
  /\ (e \in after[k]) # present
  /\ LET change(s) == IF present THEN s \cup {e} ELSE s \ {e}
     IN /\ after' = [after EXCEPT ![k] = change(@)]
        /\ \E c \in CacheUpdateIfEntryExists(k, IF k \in DOMAIN cache THEN change(cache[k]) ELSE {}) :
             Becomes(c)
  /\ UNCHANGED <<kind, db, writer, reader, writes, crashes>>

\* CachedDbAccess::delete and CachedDbSetAccess::delete_bucket
Delete(k) ==
  /\ writer = "delete"
  /\ Becomes(CacheRemove(k))
  /\ after' = [after EXCEPT ![k] = Absent]
  /\ UNCHANGED <<kind, db, writer, reader, writes, crashes>>

\* db.write(batch), and only then the lock is released.
Flush ==
  /\ writer # Idle
  /\ db' = after
  /\ writer' = Idle
  /\ writes' = writes + 1
  /\ UNCHANGED <<kind, after, cache, tracked, reader, crashes>>

Crash ==
  /\ crashes < MaxCrashes
  /\ cache' = << >>
  /\ tracked' = 0
  /\ after' = db
  /\ writer' = Idle
  /\ reader' = [r \in Readers |-> None]
  /\ crashes' = crashes + 1
  /\ UNCHANGED <<kind, db, writes>>

Init ==
  /\ kind \in {"item", "set", "once"}
  /\ db = [k \in Keys |-> Absent]
  /\ after = db
  /\ cache = << >>
  /\ tracked = 0
  /\ writer = Idle
  /\ reader = [r \in Readers |-> None]
  /\ writes = 0
  /\ crashes = 0

Next ==
  \/ \E r \in Readers, k \in Keys : ReadFromDb(r, k)
  \/ \E r \in Readers : FillCache(r)
  \/ \E mode \in {"write", "delete"} : BeginWrite(mode)
  \/ \E k \in Keys, value \in SUBSET Elems : Write(k, value)
  \/ \E k \in Keys, e \in Elems, present \in BOOLEAN : WriteElement(k, e, present)
  \/ \E k \in Keys : Delete(k)
  \/ Flush
  \/ Crash

Spec == Init /\ [][Next]_vars

-----------------------------------------------------------------------------
(* Properties *)

\* The size the cache keeps track of is the size of what it holds, and it stays
\* within its policy after any insertions, replacements, updates in place,
\* removals and evictions.
CacheIsAccounted ==
  /\ tracked = SizeOfAll(cache)
  /\ tracked <= MaxSize \/ Cardinality(DOMAIN cache) <= MinItems

\* Whenever no batch is open, what the cache holds is what the database holds:
\* neither a read that started before a write nor a read between a deletion and
\* its batch leaves an old value behind.
CacheIsCoherent ==
  writer = Idle => \A k \in DOMAIN cache : cache[k] = db[k]

=============================================================================
