---------------------------- MODULE Subscriptions ----------------------------
(***************************************************************************)
(* What a subscription is and how it changes (notify/src/subscription).    *)
(*                                                                         *)
(* A subscription to one event type is inactive, active for some items or  *)
(* active for all.  The items are addresses for UtxosChanged; for          *)
(* VirtualChainChanged and BlockAdded there is one, the notification       *)
(* without its accepted ids or stealth outputs, and all is the             *)
(* notification with them.  A mutation starts or stops a scope, a set of   *)
(* items where the empty set means everything.                             *)
(*                                                                         *)
(* A listener has a single subscription.  A notifier adds those of its     *)
(* listeners up in a compounded one, and tells its parent when the sum     *)
(* changes.                                                                *)
(***************************************************************************)
EXTENDS Naturals, Sequences, SequencesExt

CONSTANTS
  Items,      \* what a subscription can select
  Utxos,      \* TRUE: UtxosChanged; FALSE: VirtualChainChanged, BlockAdded
  Wildcard    \* MutationPolicies: UtxosChangedMutationPolicy::Wildcard

Everything == {}
Start(scope) == [start |-> TRUE, scope |-> scope]
Stop(scope) == [start |-> FALSE, scope |-> scope]

Inactive == [state |-> "None", items |-> {}]
ToAll == [state |-> "All", items |-> {}]
Selected(items) == [state |-> "Selected", items |-> items]
Active(sub) == sub.state # "None"

\* The part of a notification about the given items that a subscription lets pass
\* (apply_virtual_chain_changed_subscription, apply_utxos_changed_subscription).
View(sub, items) ==
  CASE sub.state = "None" -> {}
    [] sub.state = "Selected" -> items \cap sub.items
    [] sub.state = "All" -> items

\* MutationOutcome: the subscription afterwards, whether a new one replaces it in
\* the broadcasters, and the mutations to compound.
Outcome(sub, mutated, mutations) == [sub |-> sub, mutated |-> mutated, mutations |-> mutations]
NoChange(sub) == Outcome(sub, FALSE, <<>>)

\* VirtualChainChangedSubscription::apply_mutation and BlockAddedSubscription's: a
\* stop withdraws whatever was active, a start moves to the level it names.
ApplyLevel(sub, mutation) ==
  LET target == IF ~mutation.start THEN Inactive
                ELSE IF mutation.scope = Everything THEN ToAll ELSE Selected(mutation.scope)
      stop == Stop(sub.items)
  IN IF target = sub THEN NoChange(sub)
     ELSE Outcome(target, TRUE,
            CASE sub.state = "None" -> <<mutation>>
              [] sub.state # "None" /\ ~mutation.start -> <<stop>>
              [] sub.state = "Selected" /\ mutation.start -> <<stop, mutation>>
              [] sub.state = "All" /\ mutation.start -> <<mutation, stop>>)

\* policies.utxo_changed: the mutations by address, or the change of activity.
Granular(mutations, activity) ==
  IF Wildcard THEN activity ELSE mutations

\* (All, Add): the subscription now selects the addresses.
Narrow(sub, scope) ==
  Outcome(Selected(scope), TRUE, Granular(<<Start(scope), Stop(Everything)>>, <<>>))

\* UtxosChangedSubscription::apply_mutation, by state and mutation.  Where it
\* registers addresses, a tracker that is full makes it return the error before it
\* changes anything: nothing happened, as far as this module goes (AddressTracker
\* has the failed registration).
ApplyUtxos(sub, mutation) ==
  LET scope == mutation.scope
      all == scope = Everything
      left == sub.items \ scope
      removed == sub.items \cap scope
      added == scope \ sub.items
  IN CASE sub.state = "None" /\ ~mutation.start -> NoChange(sub)
       [] sub.state = "None" /\ mutation.start /\ ~all ->
            Outcome(Selected(scope), TRUE, Granular(<<Start(scope)>>, <<Start(Everything)>>))
       [] sub.state = "None" /\ mutation.start /\ all ->
            Outcome(ToAll, TRUE, <<Start(Everything)>>)
       [] sub.state = "Selected" /\ ~mutation.start /\ all ->
            Outcome(Inactive, TRUE, Granular(<<Stop(sub.items)>>, <<Stop(Everything)>>))
       [] sub.state = "Selected" /\ ~mutation.start /\ ~all ->
            IF removed = {} THEN NoChange(sub)
            ELSE IF left # {} THEN Outcome(Selected(left), FALSE, Granular(<<Stop(removed)>>, <<>>))
            ELSE Outcome(Inactive, TRUE, Granular(<<Stop(removed)>>, <<Stop(Everything)>>))
       [] sub.state = "Selected" /\ mutation.start /\ ~all ->
            IF added = {} THEN NoChange(sub)
            ELSE Outcome(Selected(sub.items \cup scope), FALSE, Granular(<<Start(added)>>, <<>>))
       [] sub.state = "Selected" /\ mutation.start /\ all ->
            Outcome(ToAll, TRUE, Granular(<<Stop(sub.items), Start(Everything)>>, <<>>))
       [] sub.state = "All" /\ ~mutation.start /\ all ->
            Outcome(Inactive, TRUE, <<Stop(Everything)>>)
       [] sub.state = "All" /\ ~mutation.start /\ ~all -> NoChange(sub)
       [] sub.state = "All" /\ mutation.start /\ ~all -> Narrow(sub, scope)
       [] sub.state = "All" /\ mutation.start /\ all -> NoChange(sub)

ApplyMutation(sub, mutation) ==
  IF Utxos THEN ApplyUtxos(sub, mutation) ELSE ApplyLevel(sub, mutation)

-----------------------------------------------------------------------------
(* Compounded subscriptions *)

\* all counts the subscriptions to everything and counts those to each item; known
\* are the items with an entry in the map of counters, which stays at zero.
NoSubscription == [all |-> 0, counts |-> [i \in Items |-> 0], known |-> {}]
Counted(c) == {i \in Items : c.counts[i] > 0}

Result(c, report) == [c |-> c, report |-> report]

\* Mutant: the items selected are not asked for again.
StopAllOnly(c) ==
  <<Stop(Everything)>>

\* What the parent is told when the last subscription to everything ends.
FallBack(c) ==
  IF Counted(c) # {} THEN <<Start(Counted(c))>> ELSE <<Stop(Everything)>>

\* compound: the mutation of one listener, and the mutation to report, if any.  A
\* decrement below zero fails an assertion and is never reached (see
\* CompoundIsExact).
Compound(c, mutation) ==
  LET scope == mutation.scope
      more == [c EXCEPT !.counts = [i \in Items |-> @[i] + (IF i \in scope THEN 1 ELSE 0)],
                        !.known = @ \cup scope]
      less == [c EXCEPT !.counts = [i \in Items |-> IF i \in scope /\ @[i] > 0 THEN @[i] - 1 ELSE @[i]]]
      oneMore == [c EXCEPT !.all = @ + 1]
      oneLess == [c EXCEPT !.all = @ - 1]
      added == Counted(more) \ Counted(c)
      removed == Counted(c) \ Counted(less)
  IN CASE mutation.start /\ scope = Everything ->
            Result(oneMore, IF c.all = 0 THEN <<Start(Everything)>> ELSE <<>>)
       [] mutation.start /\ scope # Everything ->
            Result(more, IF added # {} /\ c.all = 0 THEN <<Start(added)>> ELSE <<>>)
       [] ~mutation.start /\ scope # Everything ->
            Result(less, IF removed # {} /\ c.all = 0 THEN <<Stop(removed)>> ELSE <<>>)
       [] ~mutation.start /\ scope = Everything ->
            Result(oneLess, IF c.all = 1 THEN FallBack(c) ELSE <<>>)

\* apply_mutations: all are compounded, the report of the last one is sent.
CompoundAll(c, mutations) ==
  FoldLeft(LAMBDA result, mutation : Compound(result.c, mutation), Result(c, <<>>), mutations)

\* active and scope of a compounded subscription; for UtxosChanged an entry of the
\* map is enough.
CompoundActive(c) ==
  c.all > 0 \/ (IF Utxos THEN c.known # {} ELSE Counted(c) # {})
CompoundScope(c) == IF c.all > 0 THEN Everything ELSE Counted(c)

=============================================================================
