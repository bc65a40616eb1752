------------------------------- MODULE Mining -------------------------------
(***************************************************************************)
(* The mempool and the block templates, for TLC.  A behaviour is one of    *)
(* the mempool with a family of five transactions and no scan but for      *)
(* templates ("family"), one of the mempool with a parent and a child, the *)
(* scans and a reorganisation ("pair"), or one of the template cache       *)
(* ("templates"); `component' names it, and what is not its own rests in   *)
(* its initial state.                                                      *)
(***************************************************************************)
EXTENDS MCMempool

VARIABLES component, virtual, lkg, cache, lock, call, asked

templateVars == <<virtual, lkg, cache, lock, call, asked>>
vars == <<component, miningVars, templateVars>>

\* Two callers; the second attempt is the last; the virtual changes twice.
Templates == INSTANCE BlockTemplateCache WITH
  Callers <- {"a", "b"}, MaxAttempts <- 2, MaxVirtual <- 2

Init ==
  /\ component \in {"family", "pair", "templates"}
  /\ MiningInit /\ Templates!Init

AtMempool == UNCHANGED <<component, templateVars>>
AtTemplates == component = "templates" /\ UNCHANGED <<component, miningVars>>

\* Bounds on the two parts of the mempool's behaviours.
Family == Insertion \/ (\E t \in Txs : Accept(t)) \/ Scan({"template"})
OfThePair ==
  /\ dag' \subseteq {"p", "c"}
  /\ \A w \in Workers : \A i \in DOMAIN th'[w].items : th'[w].items[i].tx \in {"p", "c"}
Pair == (Insertion \/ Consensus \/ Scan({"revalidate", "expire"}) \/ Expiry) /\ OfThePair

Next ==
  \/ component = "family" /\ Family /\ AtMempool
  \/ component = "pair" /\ Pair /\ AtMempool
  \/ AtTemplates /\ Templates!Next

Spec == Init /\ [][Next]_vars

-----------------------------------------------------------------------------
(* Properties *)

\* A miner never gets a template that was stale when asked for (BlockTemplateCache).
TemplateIsFresh == Templates!TemplateIsFresh

=============================================================================
