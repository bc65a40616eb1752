----------------------------- MODULE MCPipeline -----------------------------
(***************************************************************************)
(* Small instances of the block pipeline: a DAG around the finality point  *)
(* g, and scenarios, each a set of submissions that callers may make in    *)
(* any order (with Exit, the node may also be shut down at any time).  A   *)
(* block's number is its place in the blue work order.                     *)
(***************************************************************************)
EXTENDS BlockPipeline

CONSTANT Scenarios

VARIABLE scenario

Genesis == "g"
Nothing == {}
OnlyGenesis == [h \in Hash |-> IF h = "g" THEN "UTXOValid" ELSE "None"]
SoundHeaders == [t \in Task |-> "none"]

(***************************************************************************)
(* a over g, the heavier b which is UTXO-invalid, and c which merges them: *)
(* the search has to come down from c to a, past b.                        *)
(* k is a child of a.                                                      *)
(* h is found invalid after its proof of work was checked, j is its child; *)
(* the body of l breaks a rule in context.                                 *)
(* x is a block of g's anticone whose parent y was pruned; m merges it and *)
(* n is the child of m.                                                    *)
(***************************************************************************)
DagParents ==
  [y |-> <<>>, x |-> <<"y">>, g |-> <<>>, a |-> <<"g">>, b |-> <<"g">>, c |-> <<"b", "a">>,
   k |-> <<"a">>, h |-> <<"g">>, j |-> <<"h">>, l |-> <<"g">>, m |-> <<"g", "x">>, n |-> <<"m">>]
DagHash == DOMAIN DagParents
DagWork ==
  [y |-> 0, x |-> 1, g |-> 2, a |-> 3, b |-> 4, c |-> 5, k |-> 6, h |-> 7, j |-> 8, l |-> 9,
   m |-> 10, n |-> 11]
DagInvalid == {"b"}

\* One submission of a, a1, has a body which does not fit the merkle root, another
\* one, a3, a timestamp that is still too far ahead; m0 is the header of m alone.
DagHashOf ==
  [a1 |-> "a", a2 |-> "a", a3 |-> "a", b1 |-> "b", c1 |-> "c", k1 |-> "k", h1 |-> "h", j1 |-> "j",
   l1 |-> "l", l2 |-> "l", x1 |-> "x", m0 |-> "m", m1 |-> "m", n1 |-> "n"]
DagTask == DOMAIN DagHashOf
DagHeaderOnly == {"m0"}
DagTrusted == {"x1"}
DagHeaders == [t \in Task |-> CASE t = "a3" -> "isolation" [] t = "h1" -> "postPow" [] OTHER -> "none"]
DagBodies == [t \in Task |-> CASE t = "a1" -> "merkle" [] t \in {"l1", "l2"} -> "context" [] OTHER -> "none"]

DagScenarios ==
  {{"a2", "b1", "c1", Exit},        \* a diamond with a UTXO-invalid side
   {"h1", "j1", "l1", "l2", Exit},  \* invalid blocks
   {"a1", "a2", "k1", Exit},        \* a sound block, with the wrong body first or second
   {"a2", "a3", "k1"},              \* a sound block, too early first or second
   {"x1", "m0", "m1", "n1"}}        \* after a headers-first sync

\* A chain g, a, k with a faulty submission of a.
ChainParents == [g |-> <<>>, a |-> <<"g">>, k |-> <<"a">>]
ChainHash == DOMAIN ChainParents
ChainWork == [g |-> 0, a |-> 1, k |-> 2]
ChainHashOf == [a1 |-> "a", a2 |-> "a", k1 |-> "k"]
ChainTask == DOMAIN ChainHashOf
ChainBodies == [a1 |-> "merkle", a2 |-> "none", k1 |-> "none"]
ChainScenarios == {ChainTask \cup {Exit}}

ScenarioInit == Init /\ scenario \in Scenarios

ScenarioNext ==
  /\ UNCHANGED scenario
  /\ \/ Exit \in scenario /\ SignalExit
     \/ \E t \in scenario \cap Task : Submit(t)
     \/ HeaderNext \/ BodyNext \/ VirtualNext \/ PruningNext

ScenarioSpec == ScenarioInit /\ [][ScenarioNext]_<<vars, scenario>>
FairScenarioSpec == ScenarioSpec /\ Fairness

=============================================================================
