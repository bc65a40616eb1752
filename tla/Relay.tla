------------------------------- MODULE Relay -------------------------------
(***************************************************************************)
(* What peers send each other, for TLC: blocks, transactions and, before   *)
(* an IBD, the blocks of the selected chain.  They share no state here,    *)
(* and a behaviour is one of either of them, which `component' names; the  *)
(* others rest in their initial state.                                     *)
(***************************************************************************)
EXTENDS Naturals, Sequences

CONSTANT None

VARIABLES
  component,
  bodies, processing, orphans, requests, flow, tasks, invs, freed,
  pool, count, txRequests, txFlow, queue, due, toAll, toSome, scan, rpc, txInvs, checks,
  tip, point, root, known, invalid, pc, locator, at, low, high, zooms, restarts,
  initialLen, result, sink, learned, moves, knownAt

blockVars == <<bodies, processing, orphans, requests, flow, tasks, invs, freed>>
txVars ==
  <<pool, count, txRequests, txFlow, queue, due, toAll, toSome, scan, rpc, txInvs, checks>>
negotiationVars ==
  <<tip, point, root, known, invalid, pc, locator, at, low, high, zooms, restarts,
    initialLen, result, sink, learned, moves, knownAt>>
vars == <<component, blockVars, txVars, negotiationVars>>

\* The diamond a, {b, c}, d over g; both peers announce d, each of them one of its
\* parents too; the pool of orphans holds two of the blocks.
BR == INSTANCE BlockRelay WITH
  Blocks <- {"a", "b", "c", "d"}, Genesis <- "g",
  Parents <- [a |-> {"g"}, b |-> {"a"}, c |-> {"a"}, d |-> {"b", "c"}],
  Peers <- {"p", "q"},
  Announcements <- {[peer |-> "p", block |-> "d"], [peer |-> "q", block |-> "c"],
                    [peer |-> "p", block |-> "b"], [peer |-> "q", block |-> "d"]},
  MaxOrphans <- 2, MayFail <- TRUE, MayBeFar <- TRUE

\* The tips c and d over the chain g, a, b, each announced by one of two peers.
Fork == INSTANCE BlockRelay WITH
  Blocks <- {"a", "b", "c", "d"}, Genesis <- "g",
  Parents <- [a |-> {"g"}, b |-> {"a"}, c |-> {"b"}, d |-> {"b"}],
  Peers <- {"p", "q"},
  Announcements <- {[peer |-> "p", block |-> "c"], [peer |-> "q", block |-> "d"]},
  MaxOrphans <- 4, MayFail <- FALSE, MayBeFar <- FALSE

\* Two peers announce the same transactions, of which t2 is invalid; t3 also comes
\* by RPC.
TR == INSTANCE TransactionRelay WITH
  requests <- txRequests, flow <- txFlow, invs <- txInvs,
  Txs <- {"t1", "t2", "t3"}, Invalid <- {"t2"}, RpcTxs <- {"t3"}, Peers <- {"p", "q"},
  Announcements <- {[peer |-> "p", ids |-> <<"t1", "t2">>], [peer |-> "q", ids |-> <<"t1", "t2">>],
                    [peer |-> "q", ids |-> <<"t3">>]},
  MaxTps <- 1, MaxScans <- 3, MaxChecks <- 2, MayFail <- TRUE

\* The syncer's DAG: the chain 0..7, a side chain of blocks 100 + height that leaves
\* it above block 2, and one of blocks 200 + height that leaves that above height 5.
Tree == (0..7) \cup (103..108) \cup (206..208)

Paths ==
  LET Parent(b) == CASE b = 103 -> 2 [] b = 206 -> 105 [] OTHER -> b - 1
      chain[b \in Tree] == IF b = 0 THEN <<b>> ELSE Append(chain[Parent(b)], b)
  IN [b \in Tree |-> chain[b]]

CN == INSTANCE ChainNegotiation WITH
  Blocks <- Tree, Genesis <- 0, Path <- Paths,
  Samples <- {0, 2, 105}, InitialTips <- {7, 106}, MaxRestarts <- 1, MaxLearned <- 1, MaxMoves <- 2

OthersInit ==
  /\ TR!Init /\ CN!Init
  /\ component # "negotiation" => tip = 7 /\ point = 0 /\ root = 0 /\ known = {}

Init == component \in {"blocks", "transactions", "negotiation"} /\ BR!Init /\ OthersInit

AtBlocks == component = "blocks" /\ UNCHANGED <<component, txVars, negotiationVars>>
AtTransactions == component = "transactions" /\ UNCHANGED <<component, blockVars, negotiationVars>>
AtNegotiation == component = "negotiation" /\ UNCHANGED <<component, blockVars, txVars>>

Next ==
  \/ AtBlocks /\ BR!Next
  \/ AtTransactions /\ TR!Next
  \/ AtNegotiation /\ CN!Next

Spec == Init /\ [][Next]_vars

\* Blocks only, over the fork, with peers that answer and without an IBD; flows,
\* tasks and consensus go on.
ForkSpec ==
  /\ component = "blocks" /\ Fork!Init /\ OthersInit
  /\ [][AtBlocks /\ Fork!NextButRevalidation]_vars
  /\ \A p \in {"p", "q"} : WF_vars(AtBlocks /\ Fork!FlowStep(p))
  /\ \A b \in {"a", "b", "c", "d"} :
       WF_vars(AtBlocks /\ Fork!ProcessBlock(b)) /\ WF_vars(AtBlocks /\ Fork!OnNewBlock(b))

-----------------------------------------------------------------------------
(* Properties *)

\* What comes out of the pool of orphans has its parents (BlockRelay).
FreedHaveParents == BR!FreedHaveParents

\* An orphan whose parents are all in does not stay in the pool (BlockRelay).
Resolved == Fork!Resolved

\* Every request for a transaction is waited for (TransactionRelay).
RequestsAreHeld == TR!RequestsAreHeld

\* The search finds the highest block that is known (ChainNegotiation).
FindsTheHighest == CN!FindsTheHighest

=============================================================================
