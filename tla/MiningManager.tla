--------------------------- MODULE MiningManager ---------------------------
(***************************************************************************)
(* The callers of the mempool (mining/src/manager.rs): transactions from   *)
(* RPC and in batches from peers, blocks of the consensus, block templates *)
(* and the scans for expired and no longer valid transactions.  Each gives *)
(* the lock up between reading the mempool, asking the consensus and       *)
(* writing the outcome, so that all of them interleave there.              *)
(***************************************************************************)
EXTENDS Mempool

CONSTANTS
  Workers,      \* threads that insert transactions
  Submissions,  \* what may be submitted: [txs, prio, orphan, policy]
  MaxSubmits,   \* bound: submissions
  MaxReorgs     \* bound: accepted transactions that a reorganisation undoes

VARIABLES
  mp,        \* what the lock of the mempool guards
  dag,       \* transactions the virtual has accepted
  blocks,    \* accepted transactions the manager has not been told of
  th,        \* inserting threads: [pc, items]
  scan,      \* a template builder or a scan: [kind, pc, txs]
  submits, reorgs,
  failed,    \* an assertion failed
  late       \* history: orphans that missed a parent which was in the pool by then

miningVars == <<mp, dag, blocks, th, scan, submits, reorgs, failed, late>>

Idle == [pc |-> "idle", items |-> <<>>]
NoScan == [kind |-> "none", pc |-> "idle", txs |-> {}]

\* The virtual UTXO set.
Utxo == (Roots \cup UNION {Outputs(t) : t \in dag}) \ UNION {Spends(t) : t \in dag}

MiningInit ==
  /\ mp = Empty /\ dag = {} /\ blocks = <<>>
  /\ th = [w \in Workers |-> Idle] /\ scan = NoScan
  /\ submits = 0 /\ reorgs = 0 /\ failed = FALSE /\ late = {}

-----------------------------------------------------------------------------
(* Insertion *)

\* pre_validate_and_populate_transaction, with the read lock
PreValidated(s) ==
  LET ok(t) == ~IsAccepted(mp, t) /\ t \notin mp.pool /\ RbfAdmits(mp, t, s.policy)
      item(t) == [tx |-> t, prio |-> s.prio, entries |-> Populated(mp, t), orphan |-> s.orphan,
                  policy |-> s.policy, threshold |-> Threshold(mp, t), result |-> "none"]
      kept == SelectSeq(s.txs, ok)
  IN [i \in DOMAIN kept |-> item(kept[i])]

Submit(w, s) ==
  /\ th[w].pc = "idle" /\ submits < MaxSubmits
  /\ PreValidated(s) # <<>>
  /\ submits' = submits + 1
  /\ th' = [th EXCEPT ![w] = [pc |-> "validate", items |-> PreValidated(s)]]
  /\ UNCHANGED <<mp, dag, blocks, scan, reorgs, failed, late>>

\* The consensus adds the entries it has and checks the threshold.
Validated(item) ==
  LET entries == item.entries \cup {i \in Inputs(item.tx) : Ins[item.tx][i] \in Utxo}
  IN [item EXCEPT !.entries = entries,
                  !.result = IF entries # Inputs(item.tx) THEN "missing"
                             ELSE IF item.threshold > 0 /\ Fee[item.tx] <= item.threshold THEN "low" ELSE "ok"]

Validate(w) ==
  /\ th[w].pc = "validate"
  /\ th' = [th EXCEPT ![w] = [pc |-> "post", items |-> [i \in DOMAIN @.items |-> Validated(@.items[i])]]]
  /\ UNCHANGED <<mp, dag, blocks, scan, submits, reorgs, failed, late>>

\* The write lock; the unorphaned are validated next.
PostValidate(w) ==
  /\ th[w].pc = "post"
  /\ \E victim \in LowOrphans(mp) \cup {None} :
       \E r \in {PostAll(mp, th[w].items, victim)} :
       /\ mp' = r.m /\ failed' = r.failed
       /\ late' = ((late \cap mp.orphans) \cup r.late) \cap r.m.orphans
       /\ th' = [th EXCEPT ![w] = IF r.items = <<>> THEN Idle ELSE [pc |-> "validate", items |-> r.items]]
  /\ UNCHANGED <<dag, blocks, scan, submits, reorgs>>

-----------------------------------------------------------------------------
(* The consensus and its blocks *)

Accept(t) ==
  /\ t \notin dag /\ Spends(t) \subseteq Utxo
  /\ dag' = dag \cup {t} /\ blocks' = Append(blocks, t)
  /\ UNCHANGED <<mp, th, scan, submits, reorgs, failed, late>>

\* A reorganisation of the virtual; nobody tells the mempool.
Reorg(t) ==
  /\ t \in dag /\ Outputs(t) \subseteq Utxo /\ reorgs < MaxReorgs
  /\ dag' = dag \ {t} /\ reorgs' = reorgs + 1
  /\ UNCHANGED <<mp, blocks, th, scan, submits, failed, late>>

HandleNewBlock(w) ==
  /\ th[w].pc = "idle" /\ blocks # <<>>
  /\ \E r \in {HandleBlock(mp, Head(blocks))} :
     /\ mp' = r.m
     /\ th' = [th EXCEPT ![w] = IF r.items = <<>> THEN Idle ELSE [pc |-> "validate", items |-> r.items]]
  /\ blocks' = Tail(blocks)
  /\ UNCHANGED <<dag, scan, submits, reorgs, failed, late>>

-----------------------------------------------------------------------------
(* Block templates and scans: collect, ask the consensus, remove *)

Collect(kind) ==
  /\ scan.pc = "idle"
  /\ LET txs == CASE kind = "template" -> mp.ready
                  [] kind = "revalidate" ->
                       {t \in mp.pool \ mp.accepted : mp.prio[t] = "High" /\ Populated(mp, t) # Inputs(t)}
                  [] kind = "expire" -> {t \in mp.pool : mp.prio[t] = "Low"}
     IN /\ txs # {}
        /\ scan' = [kind |-> kind, pc |-> IF kind = "expire" THEN "remove" ELSE "build",
                    txs |-> {[tx |-> t, entries |-> IF kind = "revalidate" THEN Populated(mp, t) ELSE {}] : t \in txs}]
  /\ UNCHANGED <<mp, dag, blocks, th, submits, reorgs, failed, late>>

\* The consensus adds the entries it has; what still misses one is to be removed.
Build ==
  /\ scan.pc = "build"
  /\ scan' = [scan EXCEPT !.pc = "remove",
                !.txs = {x \in @ : \E i \in Inputs(x.tx) \ x.entries : Ins[x.tx][i] \notin Utxo}]
  /\ UNCHANGED <<mp, dag, blocks, th, submits, reorgs, failed, late>>

\* The write lock; expired transactions go with their redeemers.
RemoveFound ==
  /\ scan.pc = "remove"
  /\ mp' = RemoveAll(mp, {x.tx : x \in scan.txs}, scan.kind = "expire")
  /\ scan' = NoScan
  /\ UNCHANGED <<dag, blocks, th, submits, reorgs, failed, late>>

\* expire_orphan_low_priority_transactions
ExpireOrphan(t) ==
  /\ t \in LowOrphans(mp)
  /\ mp' = RemoveOrphan(mp, t, FALSE)
  /\ UNCHANGED <<dag, blocks, th, scan, submits, reorgs, failed, late>>

\* expire_accepted_transactions
ExpireAccepted(t) ==
  /\ t \in mp.accepted
  /\ mp' = [mp EXCEPT !.accepted = @ \ {t}]
  /\ UNCHANGED <<dag, blocks, th, scan, submits, reorgs, failed, late>>

Insertion ==
  \E w \in Workers :
    \/ \E s \in Submissions : Submit(w, s)
    \/ Validate(w) \/ PostValidate(w) \/ HandleNewBlock(w)

Consensus == \E t \in Txs : Accept(t) \/ Reorg(t)
Scan(kinds) == (\E kind \in kinds : Collect(kind)) \/ Build \/ RemoveFound
Expiry == \E t \in Txs : ExpireOrphan(t) \/ ExpireAccepted(t)

MiningNext == Insertion \/ Consensus \/ Scan({"template", "revalidate", "expire"}) \/ Expiry

MiningSpec == MiningInit /\ [][MiningNext]_miningVars

-----------------------------------------------------------------------------
(* Properties *)

\* Parent and chained relations mirror each other, within the pool, and the ready
\* transactions are those without a registered parent.
RelationsMirror ==
  /\ \A t \in Txs : mp.parents[t] = {u \in Txs : t \in mp.chained[u]}
  /\ \A t \in mp.pool : mp.parents[t] \subseteq ParentsIn(mp.pool, t)
  /\ mp.ready = {t \in mp.pool : mp.parents[t] = {}}

\* An orphan waits for a transaction that is not in the pool: whichever insertion
\* or block brings in the last one it misses takes it out.  Not so the orphans of
\* `late': validated before a parent was in the pool and inserted after it, in the
\* parent's batch or by another thread, they are overlooked.
OrphansWait ==
  \A t \in mp.orphans \ late : \E i \in Inputs(t) \ mp.entries[t] : Ins[t][i][1] \notin mp.pool

\* "On success, `transaction` is guaranteed to embed no double spend with the
\* mempool", whatever pools the replaced ones are in.
NoDoubleSpendInPool ==
  \A t, u \in mp.pool : t # u => Spends(t) \cap Spends(u) = {}

=============================================================================
