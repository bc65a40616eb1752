-------------------------- MODULE TransactionRelay --------------------------
(***************************************************************************)
(* Relay of transactions: one RelayTransactionsFlow per peer               *)
(* (protocol/flows/src/v7/txrelay/flow.rs), the queue of ids to announce   *)
(* and the mempool scanning task (flowcontext/transactions.rs), and the    *)
(* other callers of that queue: RPC submissions and new blocks             *)
(* (flow_context.rs).  The mempool is the set of transactions it has       *)
(* accepted; a rate is a count of transactions per checked interval.       *)
(***************************************************************************)
EXTENDS Naturals, Sequences, FiniteSets, SequencesExt

CONSTANTS
  Txs, Invalid,
  Peers,
  Announcements,  \* [peer, ids]: inv messages to come
  RpcTxs,         \* transactions that are submitted by RPC
  MaxTps,         \* MAX_TPS_THRESHOLD, per interval
  MaxScans,       \* bound: mempool scans
  MaxChecks,      \* bound: throttling checks
  MayFail         \* BOOLEAN: can peers fail?

RebroadcastFrequency == 3

VARIABLES
  pool,      \* the mempool
  count,     \* low_priority_tx_counts
  requests,  \* shared_transaction_requests
  flow,      \* per peer: pc, ids, got, throttle, snapshot
  queue,     \* TransactionsSpread::transaction_ids
  due,       \* BROADCAST_INTERVAL has passed since the last broadcast
  toAll,     \* history: announced to all peers
  toSome,    \* history: announced to some peers
  scan,      \* [running, count, tasks]: the flag, scanning_job_count, tasks at work
  rpc,       \* RPC submissions to come
  invs, checks

vars == <<pool, count, requests, flow, queue, due, toAll, toSome, scan, rpc, invs, checks>>
spread == <<queue, due, toAll, toSome>>

IdleFlow == [pc |-> "idle", ids |-> <<>>, got |-> {}, throttle |-> FALSE, snapshot |-> 0]

Init ==
  /\ pool = {} /\ count = 0 /\ requests = {}
  /\ flow = [p \in Peers |-> IdleFlow]
  /\ queue = {} /\ due = FALSE /\ toAll = {} /\ toSome = {}
  /\ scan = [running |-> FALSE, count |-> 0, tasks |-> 0]
  /\ rpc = RpcTxs /\ invs = Announcements /\ checks = MaxChecks

-----------------------------------------------------------------------------
(* TransactionsSpread *)

ToAnnounce(ids) ==
  queue \cup ids

\* broadcast_transactions: ids wait for a call after the interval, and all go out
\* the way that call asks for.
BroadcastTransactions(ids, throttle) ==
  IF due
  THEN /\ queue' = {} /\ due' = FALSE
       /\ toAll' = IF throttle THEN toAll ELSE toAll \cup ToAnnounce(ids)
       /\ toSome' = IF throttle THEN toSome \cup ToAnnounce(ids) ELSE toSome
  ELSE queue' = queue \cup ids /\ UNCHANGED <<due, toAll, toSome>>

IntervalPasses ==
  /\ ~due /\ due' = TRUE
  /\ UNCHANGED <<pool, count, requests, flow, queue, toAll, toSome, scan, rpc, invs, checks>>

\* Mutant: a scan that is running is no obstacle.
AnyTime ==
  TRUE

NotRunning ==
  ~scan.running

\* should_run_mempool_scanning_task
MayScan == NotRunning /\ scan.count < MaxScans

\* on_new_block: what it has unorphaned is announced, and a scan is started when
\* it is time.
NewBlock(time) ==
  /\ BroadcastTransactions({}, FALSE)
  /\ scan' = IF time /\ MayScan
             THEN [running |-> TRUE, count |-> scan.count + 1, tasks |-> scan.tasks + 1]
             ELSE scan
  /\ UNCHANGED <<pool, count, requests, flow, rpc, invs, checks>>

ShouldRebroadcast == scan.count % RebroadcastFrequency = 0

\* The scanning task: high priority transactions are announced again at every third
\* scan; then mempool_scanning_is_done.
FinishScan ==
  /\ scan.tasks > 0
  /\ scan' = [scan EXCEPT !.running = FALSE, !.tasks = @ - 1]
  /\ IF ShouldRebroadcast
     THEN BroadcastTransactions(RpcTxs \cap pool, TRUE)
     ELSE UNCHANGED spread
  /\ UNCHANGED <<pool, count, requests, flow, rpc, invs, checks>>

\* submit_rpc_transaction
SubmitRpcTransaction(t) ==
  /\ t \in rpc /\ rpc' = rpc \ {t}
  /\ IF t \in pool \cup Invalid THEN UNCHANGED <<pool, spread>>
     ELSE pool' = pool \cup {t} /\ BroadcastTransactions({t}, FALSE)
  /\ UNCHANGED <<count, requests, flow, scan, invs, checks>>

-----------------------------------------------------------------------------
(* The flow of peer p *)

\* check_tx_throttling
CheckThrottling(p) ==
  LET tps == count - flow[p].snapshot IN
  /\ flow[p].pc = "idle" /\ checks > 0 /\ checks' = checks - 1
  /\ flow' = [flow EXCEPT ![p].snapshot = count,
                          ![p].throttle = IF tps = 0 THEN @ ELSE IF @ THEN ~(tps < MaxTps \div 2) ELSE tps > MaxTps]
  /\ UNCHANGED <<pool, count, requests, spread, scan, rpc, invs>>

\* An inv, and the ids of it that are unknown_transactions.
TakeInv(p) ==
  \E a \in invs :
    /\ a.peer = p /\ flow[p].pc = "idle"
    /\ invs' = invs \ {a}
    /\ flow' = [flow EXCEPT ![p].pc = "request", ![p].ids = SelectSeq(a.ids, LAMBDA t : t \notin pool)]
    /\ UNCHANGED <<pool, count, requests, spread, scan, rpc, checks>>

Excess(x, y) == IF x > y THEN x - y ELSE 0

\* The overage is taken from the older sample minus the newer one, which saturates.
CurrentTps(p) == Excess(flow[p].snapshot, count)
Limit(p) == Excess(MaxTps, Excess(CurrentTps(p), MaxTps))

Cut(ids, n) == SubSeq(ids, 1, IF Len(ids) < n THEN Len(ids) ELSE n)

\* request_transactions: what nobody else has asked for, or asked for too long ago.
RequestTransactions(p) ==
  \E late \in SUBSET requests :
    LET free == SelectSeq(flow[p].ids, LAMBDA t : t \notin requests \/ t \in late)
        ids == IF flow[p].throttle THEN Cut(free, IF Limit(p) = 0 THEN 1 ELSE Limit(p)) ELSE free
    IN
    /\ flow[p].pc = "request"
    /\ requests' = requests \cup ToSet(ids)
    /\ flow' = [flow EXCEPT ![p].pc = "receive", ![p].ids = ids, ![p].got = {}]
    /\ UNCHANGED <<pool, count, spread, scan, rpc, invs, checks>>

\* One answer, the transaction or that it was not found; the scope of the request is
\* dropped with it.
ReadResponse(p, found) ==
  LET t == Head(flow[p].ids) IN
  /\ flow[p].pc = "receive" /\ flow[p].ids # <<>>
  /\ flow' = [flow EXCEPT ![p].ids = Tail(@), ![p].got = IF found THEN @ \cup {t} ELSE @]
  /\ requests' = requests \ {t}
  /\ UNCHANGED <<pool, count, spread, scan, rpc, invs, checks>>

\* Mutant: only the request that was waited for is dropped.
TheFirst(ids) ==
  {Head(ids)}

ScopesOf(ids) ==
  ToSet(ids)

\* A timeout, a wrong answer or a lost connection: all scopes are dropped.
Fail(p) ==
  /\ MayFail /\ flow[p].pc = "receive" /\ flow[p].ids # <<>>
  /\ requests' = requests \ ScopesOf(flow[p].ids)
  /\ flow' = [flow EXCEPT ![p].pc = "dead", ![p].ids = <<>>, ![p].got = {}]
  /\ UNCHANGED <<pool, count, spread, scan, rpc, invs, checks>>

\* Mutant: known and invalid transactions are accepted.
Everything(got) ==
  got

\* validate_and_insert_transaction_batch
Accepted(got) ==
  got \ (pool \cup Invalid)

\* All answers are in: the batch is inserted.  An invalid transaction ends the flow;
\* else what was accepted is announced.
Insert(p) ==
  LET new == Accepted(flow[p].got) IN
  /\ flow[p].pc = "receive" /\ flow[p].ids = <<>>
  /\ pool' = pool \cup new
  /\ count' = count + Cardinality(new)
  /\ IF flow[p].got \cap Invalid # {}
     THEN flow' = [flow EXCEPT ![p].pc = "dead", ![p].got = {}] /\ UNCHANGED spread
     ELSE /\ flow' = [flow EXCEPT ![p].pc = "idle", ![p].got = {}]
          /\ BroadcastTransactions(new, flow[p].throttle)
  /\ UNCHANGED <<requests, scan, rpc, invs, checks>>

FlowStep(p) ==
  \/ TakeInv(p) \/ RequestTransactions(p) \/ Insert(p)
  \/ \E found \in BOOLEAN : ReadResponse(p, found)

Next ==
  \/ \E p \in Peers : FlowStep(p) \/ CheckThrottling(p) \/ Fail(p)
  \/ \E t \in Txs : SubmitRpcTransaction(t)
  \/ \E time \in BOOLEAN : NewBlock(time)
  \/ FinishScan \/ IntervalPasses

Spec == Init /\ [][Next]_vars

-----------------------------------------------------------------------------
(* Properties *)

\* No request outlives the flow that waits for it, though a flow may drop the
\* request another one has taken over: else nobody would ask for that transaction
\* again within the wait time, or ever.
RequestsAreHeld ==
  requests \subseteq UNION {ToSet(flow[p].ids) : p \in {q \in Peers : flow[q].pc = "receive"}}

=============================================================================
