----------------------------- MODULE MCMempool -----------------------------
(* Small families of transactions.  p has two outputs, c and d spend one each, *)
(* e spends both of them; r and q conflict with p and c.                       *)
EXTENDS MiningManager, TLC

FamilyIns ==
  [t \in {"p", "c", "e", "r", "q"} |->
     CASE t = "p" -> << <<"dag", 1>> >>
       [] t = "c" -> << <<"p", 1>> >>
       [] t = "e" -> << <<"c", 1>>, <<"p", 2>> >>
       [] t = "r" -> << <<"dag", 1>>, <<"dag", 2>> >>
       [] t = "q" -> << <<"p", 1>>, <<"dag", 2>> >>]
FamilyOuts == [t \in {"p", "c", "e", "r", "q"} |-> IF t = "p" THEN 2 ELSE 1]
FamilyFee == [t \in {"p", "c", "e", "r", "q"} |->
     CASE t = "p" -> 2 [] t = "c" -> 3 [] t = "e" -> 1 [] t = "r" -> 4 [] t = "q" -> 5]
FamilyRoots == {<<"dag", 1>>, <<"dag", 2>>}

Rpc(t) == [txs |-> <<t>>, prio |-> "High", orphan |-> TRUE, policy |-> "Forbidden"]
Replacement(t) == [txs |-> <<t>>, prio |-> "High", orphan |-> FALSE, policy |-> "Mandatory"]
Peer(txs) == [txs |-> txs, prio |-> "Low", orphan |-> TRUE, policy |-> "Allowed"]

SubmissionsAll ==
  {Peer(<<t>>) : t \in Txs} \cup {Peer(<<"p", "c">>), Rpc("c"), Replacement("r")}
SubmissionsBatch == {Peer(<<"p", "c">>), Peer(<<"q">>), Rpc("c")}

WorkerSymmetry == Permutations(Workers)

=============================================================================
