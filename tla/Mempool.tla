------------------------------ MODULE Mempool ------------------------------
(***************************************************************************)
(* The mempool (mining/src/mempool and manager.rs): a pool of transactions *)
(* for block templates, an orphan pool and the set of accepted             *)
(* transactions, under one lock that is given up while the consensus       *)
(* validates.  mp is everything under that lock; the operators below are   *)
(* the methods called with the write lock held.  All transactions have     *)
(* one size; time is left out, so that what may expire may expire at once. *)
(***************************************************************************)
EXTENDS Naturals, Sequences, SequencesExt, FiniteSets, FiniteSetsExt

CONSTANTS
  Txs,         \* transactions
  Ins,         \* Ins[t]: the outpoints <<transaction, index>> t spends
  Outs,        \* Outs[t]: how many outputs it has
  Fee,         \* Fee[t]: its feerate
  Roots,       \* outpoints that no transaction of Txs creates
  None,
  MaxPool,     \* maximum_transaction_count
  MaxOrphans   \* maximum_orphan_transaction_count

Outputs(t) == {<<t, i>> : i \in 1..Outs[t]}
Outpoints == Roots \cup UNION {Outputs(t) : t \in Txs}
Spends(t) == Range(Ins[t])
Inputs(t) == DOMAIN Ins[t]
ParentsIn(pool, t) == {o[1] : o \in Spends(t)} \cap pool

Empty ==
  [pool |-> {}, prio |-> [t \in Txs |-> "Low"],
   parents |-> [t \in Txs |-> {}], chained |-> [t \in Txs |-> {}],
   ready |-> {}, owner |-> [o \in Outpoints |-> None],
   orphans |-> {}, orphanPrio |-> [t \in Txs |-> "Low"], entries |-> [t \in Txs |-> {}],
   orphanChained |-> [t \in Txs |-> {}], orphanOwner |-> [o \in Outpoints |-> None],
   accepted |-> {}]

-----------------------------------------------------------------------------
(* TransactionsPool and OrphanPool *)

\* get_redeemer_ids_in_pool: empty for a transaction that is not in the pool.
Redeemers(pool, chained, t) ==
  LET grow[n \in Nat] ==
        IF n = 0 THEN chained[t] \cap pool
        ELSE grow[n - 1] \cup (UNION {chained[u] : u \in grow[n - 1]} \cap pool)
  IN IF t \in pool THEN grow[Cardinality(pool)] ELSE {}

IsReady(parents) ==
  parents = {}

AddTransaction(m, t, priority) ==
  LET parents == ParentsIn(m.pool, t)
  IN [m EXCEPT !.pool = @ \cup {t}, !.prio[t] = priority,
               !.parents[t] = parents,
               !.chained = [u \in Txs |-> IF u \in parents THEN @[u] \cup {t} ELSE @[u]],
               !.ready = IF IsReady(parents) THEN @ \cup {t} ELSE @,
               !.owner = [o \in Outpoints |-> IF o \in Spends(t) THEN t ELSE @[o]]]

\* Mutant: the redeemers keep the removed parent.
KeepParents(m, t) ==
  m.parents

WithoutParent(m, t) ==
  [u \in Txs |-> IF u = t THEN {} ELSE IF u \in m.chained[t] THEN m.parents[u] \ {t} ELSE m.parents[u]]

RemoveFromPool(m, t) ==
  LET parents == WithoutParent(m, t)
  IN [m EXCEPT !.pool = @ \ {t}, !.prio[t] = "Low",
               !.parents = parents,
               !.chained = [u \in Txs |-> IF u = t THEN {} ELSE IF u \in m.parents[t] THEN @[u] \ {t} ELSE @[u]],
               !.ready = (@ \cup {u \in m.chained[t] : IsReady(parents[u])}) \ {t},
               !.owner = [o \in Outpoints |-> IF o \in Spends(t) THEN None ELSE @[o]]]

\* remove_single_orphan for a set of orphans.
RemoveOrphans(m, gone) ==
  [m EXCEPT !.orphans = @ \ gone,
            !.orphanPrio = [t \in Txs |-> IF t \in gone THEN "Low" ELSE @[t]],
            !.entries = [t \in Txs |-> IF t \in gone THEN {} ELSE @[t]],
            !.orphanChained = [t \in Txs |-> IF t \in gone THEN {} ELSE @[t] \ gone],
            !.orphanOwner = [o \in Outpoints |-> IF @[o] \in gone THEN None ELSE @[o]]]

RemoveOrphan(m, t, redeemers) ==
  IF t \notin m.orphans THEN m
  ELSE RemoveOrphans(m, {t} \cup IF redeemers THEN Redeemers(m.orphans, m.orphanChained, t) ELSE {})

\* update_orphans_after_transaction_removed.  With redeemers it asks the orphan
\* pool for the redeemers of t, which that pool does not hold.
UpdateOrphans(m, t, redeemers) ==
  IF redeemers THEN RemoveOrphans(m, Redeemers(m.orphans, m.orphanChained, t))
  ELSE LET touched == {m.orphanOwner[o] : o \in Outputs(t)} \ {None}
       IN [m EXCEPT !.entries =
             [u \in Txs |-> IF u \in touched THEN {i \in @[u] : Ins[u][i][1] # t} ELSE @[u]]]

\* Mempool::remove_transaction
RemoveTransaction(m, t, redeemers) ==
  IF t \in m.orphans THEN RemoveOrphan(m, t, TRUE)
  ELSE IF t \notin m.pool THEN m
  ELSE LET gone == {t} \cup IF redeemers THEN Redeemers(m.pool, m.chained, t) ELSE {}
           remove(u, acc) == UpdateOrphans(RemoveFromPool(acc, u), u, redeemers)
       IN FoldSet(remove, m, gone)

RemoveAll(m, gone, redeemers) ==
  LET remove(t, acc) == RemoveTransaction(acc, t, redeemers) IN FoldSet(remove, m, gone)

\* populate_mempool_entries
Populated(m, t) == {i \in Inputs(t) : Ins[t][i][1] \in m.pool}

-----------------------------------------------------------------------------
(* Replace by fee *)

DoubleSpends(m, t) == {m.owner[o] : o \in Spends(t)} \ {None, t}

\* get_replace_by_fee_constraint, without the threshold
RbfAdmits(m, t, policy) ==
  CASE policy = "Forbidden" -> DoubleSpends(m, t) = {}
    [] policy = "Allowed" -> TRUE
    [] policy = "Mandatory" -> Cardinality(DoubleSpends(m, t)) = 1

\* The feerate a replacement has to exceed; 0 without a double spend.
Threshold(m, t) == Max({Fee[d] : d \in DoubleSpends(m, t)} \cup {0})

\* validate_double_spending_transaction for all of them
PaysMore(m, t) ==
  \A d \in DoubleSpends(m, t) : Fee[t] > Fee[d]

\* execute_replace_by_fee, once its checks have passed
Replace(m, t) ==
  RemoveAll(m, DoubleSpends(m, t), TRUE)

-----------------------------------------------------------------------------
(* Orphans *)

LowOrphans(m) == {t \in m.orphans : m.orphanPrio[t] = "Low"}

\* limit_orphan_pool_size: one slot, and any low priority orphan for it.
MakeRoomForOrphan(m, victim) ==
  IF Cardinality(m.orphans) < MaxOrphans THEN m
  ELSE RemoveOrphan(m, IF victim \in LowOrphans(m) THEN victim ELSE CHOOSE t \in LowOrphans(m) : TRUE, FALSE)

\* check_orphan_double_spend
SpendsAlone(m, t) ==
  \A o \in Spends(t) : m.orphanOwner[o] \in {None, t}

AddOrphan(m, item) ==
  LET t == item.tx
      parents == ParentsIn(m.orphans, t)
      children == {m.orphanOwner[o] : o \in Outputs(t)} \ {None}
  IN [m EXCEPT !.orphans = @ \cup {t}, !.orphanPrio[t] = item.prio,
               !.entries[t] = item.entries,
               !.orphanOwner = [o \in Outpoints |-> IF o \in Spends(t) THEN t ELSE @[o]],
               !.orphanChained = [u \in Txs |-> IF u \in parents THEN @[u] \cup {t}
                                                 ELSE IF u = t THEN children ELSE @[u]]]

TryAddOrphan(m, item, victim) ==
  IF \/ item.tx \in m.orphans \/ ~SpendsAlone(m, item.tx)
     \/ (Cardinality(m.orphans) >= MaxOrphans /\ LowOrphans(m) = {})
  THEN m
  ELSE AddOrphan(MakeRoomForOrphan(m, victim), item)

\* get_orphan_transaction_rbf_policy
OrphanPolicy(priority) == IF priority = "High" THEN "Forbidden" ELSE "Allowed"

\* Mutant: entries are never complete.
NeverVerifiable(m, t) ==
  FALSE

IsVerifiable(m, t) ==
  m.entries[t] = Inputs(t)

\* validate_transaction_unacceptance
IsAccepted(m, t) ==
  t \in m.accepted

\* One orphan that waits for outpoint o, whose transaction was accepted:
\* acc = [m, items].  Complete, it leaves the orphan pool to be validated again.
UnorphanOne(acc, o) ==
  LET m == acc.m
      u == m.orphanOwner[o]
      filled == [m EXCEPT !.entries[u] = @ \cup {i \in Inputs(u) : Ins[u][i] = o}]
      policy == OrphanPolicy(m.orphanPrio[u])
  IN IF u = None \/ u \notin m.orphans THEN acc
     ELSE IF filled.entries[u] = m.entries[u] \/ ~IsVerifiable(filled, u) THEN [acc EXCEPT !.m = filled]
     ELSE [m |-> RemoveOrphan(filled, u, FALSE),
           items |-> IF IsAccepted(m, u) \/ ~RbfAdmits(m, u, policy) THEN acc.items
                     ELSE Append(acc.items, [tx |-> u, prio |-> m.orphanPrio[u], entries |-> Inputs(u), orphan |-> FALSE,
                                             policy |-> policy, threshold |-> 0, result |-> "none"])]

\* get_unorphaned_transactions_after_accepted_transaction
Unorphan(m, t) ==
  FoldLeft(UnorphanOne, [m |-> m, items |-> <<>>], [i \in 1..Outs[t] |-> <<t, i>>])

-----------------------------------------------------------------------------
(* post_validate_and_insert_transaction *)

\* limit_transaction_count picks ready low priority transactions by feerate; with
\* one size there is one of them to go.
Evictable(m, t) ==
  {x \in m.ready : /\ m.prio[x] = "Low"
                   /\ ParentsIn({x} \cup Redeemers(m.pool, m.chained, x), t) = {}}

Cheapest(set) == CHOOSE x \in set : \A y \in set : Fee[x] <= Fee[y]

HasRoom(m) == Cardinality(m.pool) < MaxPool

RejectsAsFull(m, t) ==
  ~HasRoom(m) /\ (Evictable(m, t) = {} \/ Fee[Cheapest(Evictable(m, t))] > Fee[t])

MakeRoom(m, t) ==
  IF HasRoom(m) THEN m ELSE RemoveTransaction(m, Cheapest(Evictable(m, t)), TRUE)

\* [m, items, failed]: the mempool after the item, what it unorphaned, and whether
\* the assertion on the size of the pool failed.
Post(m, item, victim) ==
  LET t == item.tx
      same == [m |-> m, items |-> <<>>, failed |-> FALSE]
      replaced == Replace(m, t)
      trimmed == MakeRoom(replaced, t)
      inserted == Unorphan(AddTransaction(trimmed, t, item.prio), t)
  IN CASE t \in m.pool \/ IsAccepted(m, t) \/ item.result = "low" -> same
       [] item.result = "missing" ->
            IF ~item.orphan \/ ~RbfAdmits(m, t, item.policy) THEN same
            ELSE [same EXCEPT !.m = TryAddOrphan(m, item, victim)]
       [] OTHER ->
            IF ~RbfAdmits(m, t, item.policy) \/ ~PaysMore(m, t) THEN same
            ELSE IF RejectsAsFull(replaced, t) THEN [same EXCEPT !.m = replaced]
            ELSE IF ~HasRoom(trimmed) THEN [same EXCEPT !.m = trimmed, !.failed = TRUE]
            ELSE [m |-> inserted.m, items |-> inserted.items, failed |-> FALSE]

\* The items of a batch, one after the other, and those that became orphans
\* although a transaction they miss was in the pool.
PostAll(m, items, victim) ==
  LET post(acc, item) ==
        LET r == Post(acc.m, item, victim)
            overlooked == {t \in (r.m.orphans \ acc.m.orphans) \cap {item.tx} :
                             \E i \in Inputs(t) \ item.entries : Ins[t][i][1] \in acc.m.pool}
        IN [m |-> r.m, items |-> acc.items \o r.items, failed |-> acc.failed \/ r.failed,
            late |-> acc.late \cup overlooked]
  IN FoldLeft(post, [m |-> m, items |-> <<>>, failed |-> FALSE, late |-> {}], items)

-----------------------------------------------------------------------------
RemoveAccepted(m, t) ==
  IF t \in m.orphans THEN m ELSE RemoveTransaction(m, t, FALSE)

\* handle_new_block_transactions for the transaction of a block
HandleBlock(m, t) ==
  LET removed == RemoveAccepted(m, t)
      alone == RemoveAll(removed, {removed.owner[o] : o \in Spends(t)} \ {None}, TRUE)
      noOrphan == RemoveOrphan(alone, t, FALSE)
  IN Unorphan([noOrphan EXCEPT !.accepted = @ \cup {t}], t)

=============================================================================
