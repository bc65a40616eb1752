--------------------------- MODULE AddressTracker ---------------------------
(***************************************************************************)
(* The address tracker (notify/src/address/tracker.rs).                    *)
(*                                                                         *)
(* Addresses are kept once, in an indexed map with reference counts;       *)
(* subscriptions hold indexes into it.  An entry whose count drops to zero *)
(* stays and is recycled for another address, under the same index.  The   *)
(* holders of indexes are the sets of the listeners' subscriptions and the *)
(* counters of a compounded subscription, which takes over what a listener *)
(* has registered or unregistered.  Long lists are handled in chunks,      *)
(* between which the lock on the map is given away.                        *)
(***************************************************************************)
EXTENDS Naturals, Sequences, FiniteSets, SequencesExt

CONSTANTS
  Addresses,
  Holders,        \* listeners with a set of indexes
  MaxAddresses,   \* Inner.max_addresses, at least six in the code
  ChunkSize,      \* ADDRESS_CHUNK_SIZE, 1024
  MaxList,        \* bound: addresses of one call
  MaxCalls        \* bound: calls

VARIABLES
  entries,     \* script_pub_keys: sequence of [spk, count]
  empty,       \* empty_entries
  set,         \* Indexes of each holder
  counter,     \* Counters: index -> count, zero also for a missing entry
  call,        \* what each holder is executing
  has,         \* history: addresses each holder has registered
  failed,      \* a registration in the counters failed: "compounded always registers"
  calls

vars == <<entries, empty, set, counter, call, has, failed, calls>>

Indexes == 1..(MaxAddresses + 1)
Idle == [op |-> "idle", stage |-> "set", todo |-> <<>>, done |-> <<>>, error |-> FALSE, first |-> TRUE]

Init ==
  /\ entries = <<>>
  /\ empty = {}
  /\ set = [h \in Holders |-> {}]
  /\ counter = [i \in Indexes |-> 0]
  /\ call = [h \in Holders |-> Idle]
  /\ has = [h \in Holders |-> {}]
  /\ failed = FALSE
  /\ calls = 0

-----------------------------------------------------------------------------
(* The map.  t stands for the map and the holder being worked on: entries, empty, *)
(* indexes (the set) and counter, of which stage selects one.                      *)

IndexOf(t, a) == {i \in DOMAIN t.entries : t.entries[i].spk = a}

IsFull(t) ==
  Len(t.entries) >= MaxAddresses /\ t.empty = {}

\* Entries that may be recycled.
Recyclable(t) ==
  t.empty

\* get_or_insert: the possible results, one per entry that may be recycled; index 0
\* stands for MaxCapacityReached.  The new entry replaces the recycled one
\* (swap_remove_index) and stays registered as empty.
GetOrInsert(t, a) ==
  LET at == IndexOf(t, a)
      new == [spk |-> a, count |-> 0]
  IN IF at # {} THEN {[t |-> t, index |-> CHOOSE i \in at : TRUE]}
     ELSE IF IsFull(t) THEN {[t |-> t, index |-> 0]}
     ELSE IF Recyclable(t) # {} THEN {[t |-> [t EXCEPT !.entries[i] = new], index |-> i] : i \in Recyclable(t)}
     ELSE {[t |-> [t EXCEPT !.entries = Append(@, new), !.empty = @ \cup {Len(t.entries) + 1}],
            index |-> Len(t.entries) + 1]}

IncCount(t, i) == [t EXCEPT !.entries[i].count = @ + 1, !.empty = @ \ {i}]

\* Mutant: an entry becomes empty one reference early.
DecCountEarly(t, i) ==
  [t EXCEPT !.entries[i].count = IF @ = 0 THEN 0 ELSE @ - 1,
            !.empty = IF t.entries[i].count <= 2 THEN @ \cup {i} ELSE @]

DecCount(t, i) ==
  [t EXCEPT !.entries[i].count = IF @ = 0 THEN 0 ELSE @ - 1,
            !.empty = IF t.entries[i].count <= 1 THEN @ \cup {i} ELSE @]

\* Indexer::insert and remove, for a set and for counters: was it the first, the last?
InsertIndex(t, i) ==
  IF t.stage = "set" THEN [t |-> [t EXCEPT !.indexes = @ \cup {i}], first |-> i \notin t.indexes]
  ELSE [t |-> [t EXCEPT !.counter[i] = @ + 1], first |-> t.counter[i] = 0]

RemoveIndex(t, i) ==
  IF t.stage = "set" THEN [t |-> [t EXCEPT !.indexes = @ \ {i}], last |-> i \in t.indexes]
  ELSE [t |-> [t EXCEPT !.counter[i] = IF @ > 0 THEN @ - 1 ELSE 0], last |-> t.counter[i] = 1]

\* One address of register: the address is kept in the list when it is new to the
\* holder.  Results are [t, kept, error].
RegisterOne(t, a) ==
  {LET inserted == InsertIndex(r.t, r.index)
   IN IF r.index = 0 THEN [t |-> r.t, kept |-> <<>>, error |-> TRUE]
      ELSE IF inserted.first THEN [t |-> IncCount(inserted.t, r.index), kept |-> <<a>>, error |-> FALSE]
      ELSE [t |-> inserted.t, kept |-> <<>>, error |-> FALSE]
   : r \in GetOrInsert(t, a)}

\* One address of unregister, kept when it was removed from the holder.
UnregisterOne(t, a) ==
  {IF IndexOf(t, a) = {} THEN [t |-> t, kept |-> <<>>, error |-> FALSE]
   ELSE LET i == CHOOSE i \in IndexOf(t, a) : TRUE
            removed == RemoveIndex(t, i)
        IN IF removed.last THEN [t |-> DecCount(removed.t, i), kept |-> <<a>>, error |-> FALSE]
           ELSE [t |-> removed.t, kept |-> <<>>, error |-> FALSE]}

HandleOne(op, t, a) ==
  IF op = "register" THEN RegisterOne(t, a) ELSE UnregisterOne(t, a)

\* A chunk of addresses under the lock: the possible results.
HandleChunk(op, t, chunk) ==
  FoldLeft(LAMBDA results, a :
             UNION {{[t |-> s.t, kept |-> r.kept \o s.kept, error |-> r.error \/ s.error]
                       : s \in HandleOne(op, r.t, a)} : r \in results},
           {[t |-> t, kept |-> <<>>, error |-> FALSE]}, chunk)

-----------------------------------------------------------------------------
(* Calls *)

\* The lock is given away before every address whose number is a multiple of
\* ChunkSize.
ChunkLength(c) == IF c.first THEN ChunkSize - 1 ELSE ChunkSize
Chunk(c) == SubSeq(c.todo, 1, IF ChunkLength(c) < Len(c.todo) THEN ChunkLength(c) ELSE Len(c.todo))
Rest(c) == SubSeq(c.todo, Len(Chunk(c)) + 1, Len(c.todo))

\* The compounded subscription is worked on by one call at a time.
CountersFree(h) == \A k \in Holders \ {h} : call[k].stage = "set"

\* The next chunk of a call.
Work(h) ==
  LET c == call[h]
      op == IF c.op = "rollback" THEN "unregister" ELSE c.op
  IN /\ c.op # "idle"
     /\ c.todo # <<>>
     /\ \E r \in HandleChunk(op, [entries |-> entries, empty |-> empty, indexes |-> set[h],
                                  counter |-> counter, stage |-> c.stage], Chunk(c)) :
          /\ entries' = r.t.entries
          /\ empty' = r.t.empty
          /\ set' = [set EXCEPT ![h] = r.t.indexes]
          /\ counter' = r.t.counter
          /\ failed' = (failed \/ (c.stage = "counter" /\ r.error))
          /\ call' = [call EXCEPT ![h] = [@ EXCEPT !.todo = Rest(c), !.done = c.done \o r.kept,
                                                   !.error = c.error \/ r.error, !.first = FALSE]]
     /\ UNCHANGED <<has, calls>>

\* A registration that failed is undone.
AfterFailure(c) ==
  [Idle EXCEPT !.op = "rollback", !.todo = c.done]

\* The end of a call on the set: a failed registration is rolled back, what was
\* changed is compounded; the end of the rest leaves the holder idle.
Finish(h) ==
  LET c == call[h]
      changed == ToSet(c.done)
  IN /\ c.op # "idle"
     /\ c.todo = <<>>
     /\ \/ /\ c.stage = "set"
           /\ c.op = "register"
           /\ c.error
           /\ call' = [call EXCEPT ![h] = AfterFailure(c)]
           /\ UNCHANGED has
        \/ /\ c.stage = "set"
           /\ c.op \in {"register", "unregister"}
           /\ ~c.error
           /\ CountersFree(h)
           /\ call' = [call EXCEPT ![h] = [Idle EXCEPT !.op = c.op, !.stage = "counter", !.todo = c.done]]
           /\ has' = [has EXCEPT ![h] = IF c.op = "register" THEN @ \cup changed ELSE @ \ changed]
        \/ /\ c.stage = "counter" \/ c.op = "rollback"
           /\ call' = [call EXCEPT ![h] = Idle]
           /\ UNCHANGED has
     /\ UNCHANGED <<entries, empty, set, counter, failed, calls>>

Lists == UNION {[1..n -> Addresses] : n \in 1..MaxList}

Begin(h, op, list) ==
  /\ call[h].op = "idle"
  /\ calls < MaxCalls
  /\ calls' = calls + 1
  /\ call' = [call EXCEPT ![h] = [Idle EXCEPT !.op = op, !.todo = list]]
  /\ UNCHANGED <<entries, empty, set, counter, has, failed>>

Register(h, list) == Begin(h, "register", list)
Unregister(h, list) == set[h] # {} /\ Begin(h, "unregister", list)

\* unregister_indexes: all that the holder has.  The code drains the indexes; a
\* holder that has no other call on its way finds the same entries by their addresses.
UnregisterIndexes(h) ==
  set[h] # {} /\ \E list \in {s \in Lists : ToSet(s) = has[h] /\ Len(s) = Cardinality(has[h])} :
    Begin(h, "unregister", list)

Next ==
  \E h \in Holders :
    \/ \E list \in Lists : Register(h, list) \/ Unregister(h, list)
    \/ UnregisterIndexes(h)
    \/ Work(h)
    \/ Finish(h)

Spec == Init /\ [][Next]_vars

-----------------------------------------------------------------------------
(* Properties *)

\* Every entry is referenced as often as it is counted, and is empty when it is not.
CountsAreExact ==
  /\ \A i \in DOMAIN entries :
       entries[i].count = Cardinality({h \in Holders : i \in set[h]}) + (IF counter[i] > 0 THEN 1 ELSE 0)
  /\ empty = {i \in DOMAIN entries : entries[i].count = 0}

=============================================================================
