------------------------------ MODULE Notifier ------------------------------
(***************************************************************************)
(* A notifier (notify/src/notifier.rs, broadcaster.rs, subscriber.rs,      *)
(* collector.rs), for one event type.                                      *)
(*                                                                         *)
(* Downwards, a collector moves the notifications of the parent to a       *)
(* channel from which the broadcasters take them, each to serve the        *)
(* listeners of its own plan.  Upwards, a change of a listener's           *)
(* subscription is sent to every broadcaster and compounded; the           *)
(* subscriber task passes the result on to the parent, one mutation at a   *)
(* time.  The parent may be a server, the link to which can break; the     *)
(* subscription there is then gone and is renewed after reconnecting.      *)
(***************************************************************************)
EXTENDS Subscriptions, FiniteSets

CONSTANTS
  Listeners,
  Leavers,            \* listeners that may unregister or lose their connection
  Broadcasters,
  MaxMutations,       \* bound: subscription commands
  MaxNotifications,   \* bound: notifications of the parent
  MaxBreaks           \* bound: times that the link to the parent breaks

VARIABLES
  registered,   \* listeners in the map
  leaving,      \* removed from the map, subscriptions not yet cancelled
  sub,          \* subscription of each listener
  compound,     \* subscriptions: the compounded subscription
  up,           \* subscriber.incoming: mutations on their way to the parent
  parent,       \* the subscription held by the parent
  link,         \* to the parent: "renewed", "down", "fresh" (not yet renewed)
  inbox,        \* channel of the collector
  chan,         \* notification_channel
  ctl,          \* control channel of each broadcaster
  plan,         \* broadcasting plan of each broadcaster
  look,         \* a broadcaster between its polls of ctl and of the channel:
                \* [polled, late], late the listeners it has got messages for since
  busy,         \* notification that a broadcaster is sending
  closed,       \* listeners whose connection is closed
  phase,        \* of the shutdown
  ended,        \* broadcasters that have ended
  owed,         \* history: items of notifications a listener must still get
  emitted, mutations, breaks

vars == <<registered, leaving, sub, compound, up, parent, link, inbox, chan, ctl, look, plan,
          busy, closed, phase, ended, owed, emitted, mutations, breaks>>

upward == <<compound, up, parent, link, breaks>>
downward == <<inbox, chan, plan, busy, phase, ended, emitted>>

Idle == [id |-> 0, items |-> {}, left |-> {}, purge |-> {}]
NotLooking == [polled |-> FALSE, late |-> {}]
NotPlanned == [self |-> FALSE, sub |-> Inactive]

\* register_new_listener is not a step: every listener is registered from the
\* start, inactive until its first command.
Init ==
  /\ registered = Listeners
  /\ leaving = {}
  /\ sub = [l \in Listeners |-> Inactive]
  /\ compound = NoSubscription
  /\ up = <<>>
  /\ parent = Inactive
  /\ link = "renewed"
  /\ inbox = <<>>
  /\ chan = <<>>
  /\ ctl = [b \in Broadcasters |-> <<>>]
  /\ look = [b \in Broadcasters |-> NotLooking]
  /\ plan = [b \in Broadcasters |-> [l \in Listeners |-> NotPlanned]]
  /\ busy = [b \in Broadcasters |-> Idle]
  /\ closed = {}
  /\ phase = "running"
  /\ ended = {}
  /\ owed = {}
  /\ emitted = 0
  /\ mutations = 0
  /\ breaks = 0

-----------------------------------------------------------------------------
(* Subscriptions *)

\* What a listener is owed after its subscription has become s.
StillOwed(l, s) ==
  {o \in owed : o.listener = l => o.item \in View(s, {o.item})}

\* What execute_subscribe_command_impl sends to each broadcaster.
Control(l, outcome) ==
  IF ~outcome.mutated /\ outcome.mutations = <<>> THEN <<>>
  ELSE IF ~Active(outcome.sub) THEN <<[register |-> FALSE, listener |-> l, sub |-> outcome.sub]>>
  ELSE IF outcome.mutated THEN <<[register |-> TRUE, listener |-> l, sub |-> outcome.sub]>>
  ELSE <<>>

\* execute_subscribe_command_impl and apply_mutations.
Execute(l, mutation) ==
  LET outcome == ApplyMutation(sub[l], mutation)
      result == CompoundAll(compound, outcome.mutations)
  IN /\ sub' = [sub EXCEPT ![l] = outcome.sub]
     /\ ctl' = [b \in Broadcasters |-> ctl[b] \o Control(l, outcome)]
     /\ look' = [b \in Broadcasters |->
                   IF look[b].polled /\ Control(l, outcome) # <<>> THEN [look[b] EXCEPT !.late = @ \cup {l}]
                   ELSE look[b]]
     /\ compound' = result.c
     /\ up' = up \o result.report
     /\ owed' = StillOwed(l, outcome.sub)

\* execute_subscribe_command, with the listeners locked.
Subscribe(l, mutation) ==
  /\ l \in registered
  /\ mutations < MaxMutations
  /\ phase = "running"
  /\ Execute(l, mutation)
  /\ mutations' = mutations + 1
  /\ UNCHANGED <<registered, leaving, parent, link, breaks, downward, closed>>

\* unregister_listener: the listener is gone from the map at once.
Unregister(l) ==
  /\ l \in registered \cap Leavers
  /\ phase = "running"
  /\ registered' = registered \ {l}
  /\ leaving' = leaving \cup {l}
  /\ UNCHANGED <<sub, upward, downward, ctl, look, closed, owed, mutations>>

\* Its subscription is then cancelled, when active, and the connection closed.
FinishUnregister(l) ==
  /\ l \in leaving
  /\ leaving' = leaving \ {l}
  /\ closed' = closed \cup {l}
  /\ \/ /\ Active(sub[l])
        /\ Execute(l, Stop(Everything))
     \/ /\ ~Active(sub[l])
        /\ UNCHANGED <<sub, ctl, look, compound, up, owed>>
  /\ UNCHANGED <<registered, parent, link, breaks, downward, mutations>>

\* The client of a listener goes away; nobody has unregistered it yet.
CloseConnection(l) ==
  /\ l \in (registered \cap Leavers) \ closed
  /\ closed' = closed \cup {l}
  /\ owed' = {o \in owed : o.listener # l}
  /\ UNCHANGED <<registered, leaving, sub, upward, downward, ctl, look, mutations>>

\* The subscriber task hands the next mutation to the parent.  Without a link the
\* call fails, which is only traced.
ReportToParent ==
  /\ up # <<>>
  /\ up' = Tail(up)
  /\ parent' = IF link = "down" THEN parent ELSE ApplyMutation(parent, Head(up)).sub
  /\ UNCHANGED <<registered, leaving, sub, compound, link, breaks, downward, ctl, look, closed, owed, mutations>>

\* The link breaks: the parent drops the subscriptions of the connection.
BreakLink ==
  /\ breaks < MaxBreaks
  /\ link # "down"
  /\ link' = "down"
  /\ parent' = Inactive
  /\ breaks' = breaks + 1
  /\ UNCHANGED <<registered, leaving, sub, compound, up, downward, ctl, look, closed, owed, mutations>>

\* reconnect: the response receiver runs, so that calls succeed again.
Reconnect ==
  /\ link = "down"
  /\ link' = "fresh"
  /\ UNCHANGED <<registered, leaving, sub, compound, up, parent, breaks, downward, ctl, look, closed, owed, mutations>>

\* renew_subscriptions.
Renew ==
  /\ link = "fresh"
  /\ link' = "renewed"
  /\ up' = IF CompoundActive(compound) THEN Append(up, Start(CompoundScope(compound))) ELSE up
  /\ UNCHANGED <<registered, leaving, sub, compound, parent, breaks, downward, ctl, look, closed, owed, mutations>>

-----------------------------------------------------------------------------
(* Notifications *)

\* The parent sends a notification about some items, as far as its subscription
\* goes.  Owed is what it lets pass and a listener has subscribed to by now.
Emit(items) ==
  LET sent == View(parent, items)
      id == emitted + 1
  IN /\ emitted < MaxNotifications
     /\ phase = "running"
     /\ sent # {}
     /\ emitted' = id
     /\ inbox' = Append(inbox, [id |-> id, items |-> sent])
     /\ owed' = owed \cup {o \in [id : {id}, listener : registered \ closed, item : sent] :
                              o.item \in View(sub[o.listener], sent)}
     /\ UNCHANGED <<registered, leaving, sub, upward, chan, ctl, look, plan, busy, closed, phase, ended, mutations>>

\* The collecting task: notify.
Collect ==
  /\ inbox # <<>>
  /\ chan' = Append(chan, Head(inbox))
  /\ inbox' = Tail(inbox)
  /\ UNCHANGED <<registered, leaving, sub, upward, ctl, look, plan, busy, closed, phase, ended, owed, emitted, mutations>>

\* broadcasting: a subscription to all addresses is planned as the shared one; other
\* UtxosChanged subscriptions are shared with their listener and change with it.
Planned(message) ==
  CASE ~message.register -> NotPlanned
    [] message.register /\ ~Utxos -> [self |-> FALSE, sub |-> message.sub]
    [] message.register /\ Utxos ->
         IF sub[message.listener].state = "All" THEN [self |-> FALSE, sub |-> ToAll]
         ELSE [self |-> TRUE, sub |-> Inactive]

InPlan(b, l) == plan[b][l] # NotPlanned
PlanView(b, l, items) ==
  View(IF plan[b][l].self THEN sub[l] ELSE plan[b][l].sub, items)

\* select_biased: the control channel is polled first.
HandleControl(b) ==
  /\ b \notin ended
  /\ busy[b] = Idle /\ ~look[b].polled
  /\ ctl[b] # <<>>
  /\ plan' = [plan EXCEPT ![b][Head(ctl[b]).listener] = Planned(Head(ctl[b]))]
  /\ ctl' = [ctl EXCEPT ![b] = Tail(@)]
  /\ UNCHANGED <<registered, leaving, sub, upward, inbox, chan, look, busy, closed, phase, ended, owed, emitted, mutations>>

\* Mutant: the select is not biased.
AnyTime(b) ==
  b \notin ended

\* No control message waits: the notifications are polled next.
MayLook(b) ==
  b \notin ended /\ ctl[b] = <<>>

LookForNotification(b) ==
  /\ MayLook(b)
  /\ busy[b] = Idle /\ ~look[b].polled
  /\ look' = [look EXCEPT ![b].polled = TRUE]
  /\ UNCHANGED <<registered, leaving, sub, upward, downward, ctl, closed, owed, mutations>>

\* There is none: the task sleeps, and begins with the control channel when woken.
FindNothing(b) ==
  /\ look[b].polled /\ chan = <<>> /\ phase # "closed"
  /\ look' = [look EXCEPT ![b] = NotLooking]
  /\ UNCHANGED <<registered, leaving, sub, upward, downward, ctl, closed, owed, mutations>>

\* There is one, and it is broadcast with the plan as it is.  A listener whose
\* message has come since the control channel was polled is not owed it any more.
TakeNotification(b) ==
  /\ look[b].polled
  /\ chan # <<>>
  /\ busy' = [busy EXCEPT ![b] = [id |-> Head(chan).id, items |-> Head(chan).items,
                                  left |-> {l \in Listeners : InPlan(b, l)}, purge |-> {}]]
  /\ chan' = Tail(chan)
  /\ look' = [look EXCEPT ![b] = NotLooking]
  /\ owed' = {o \in owed : ~(o.id = Head(chan).id /\ o.listener \in look[b].late)}
  /\ UNCHANGED <<registered, leaving, sub, upward, inbox, ctl, plan, closed, phase, ended, emitted, mutations>>

\* The notification as seen by one listener of the plan is sent to it.
SendTo(b, l) ==
  LET view == PlanView(b, l, busy[b].items)
      fails == view # {} /\ l \in closed
  IN /\ l \in busy[b].left
     /\ busy' = [busy EXCEPT ![b].left = @ \ {l},
                             ![b].purge = IF fails THEN @ \cup {l} ELSE @]
     /\ owed' = owed \ {[id |-> busy[b].id, listener |-> l, item |-> i] : i \in view}
     /\ UNCHANGED <<registered, leaving, sub, upward, inbox, chan, ctl, look, plan, closed, phase, ended, emitted, mutations>>

\* Closed connections are removed from the plan.
FinishNotification(b) ==
  /\ busy[b] # Idle
  /\ busy[b].left = {}
  /\ plan' = [plan EXCEPT ![b] = [l \in Listeners |-> IF l \in busy[b].purge THEN NotPlanned ELSE @[l]]]
  /\ busy' = [busy EXCEPT ![b] = Idle]
  /\ UNCHANGED <<registered, leaving, sub, upward, inbox, chan, ctl, look, closed, phase, ended, owed, emitted, mutations>>

-----------------------------------------------------------------------------
(* Shutdown: join, while the parent closes its channel *)

CloseSource ==
  /\ phase = "running"
  /\ phase' = "closing"
  /\ UNCHANGED <<registered, leaving, sub, upward, inbox, chan, ctl, look, plan, busy, closed, ended, owed, emitted, mutations>>

\* The collecting task ends once its channel is closed and empty.
CollectorsEnded ==
  inbox = <<>>

\* Then the notification channel is closed.
CloseChannel ==
  /\ phase = "closing"
  /\ CollectorsEnded
  /\ phase' = "closed"
  /\ UNCHANGED <<registered, leaving, sub, upward, inbox, chan, ctl, look, plan, busy, closed, ended, owed, emitted, mutations>>

\* The poll finds the channel empty.
Drained(b) ==
  look[b].polled /\ chan = <<>>

\* A broadcaster ends when the channel is closed and empty.
EndBroadcaster(b) ==
  /\ phase = "closed"
  /\ b \notin ended
  /\ Drained(b)
  /\ ended' = ended \cup {b}
  /\ UNCHANGED <<registered, leaving, sub, upward, inbox, chan, ctl, look, plan, busy, closed, phase, owed, emitted, mutations>>

\* The subscriber ends when its channel, closed by now, is empty; at last the
\* remaining listeners are removed and closed.
FinishJoin ==
  /\ phase = "closed"
  /\ ended = Broadcasters
  /\ up = <<>>
  /\ phase' = "done"
  /\ registered' = {}
  /\ closed' = closed \cup registered
  /\ UNCHANGED <<leaving, sub, upward, inbox, chan, ctl, look, plan, busy, ended, owed, emitted, mutations>>

-----------------------------------------------------------------------------
Scopes == IF Utxos THEN SUBSET Items ELSE {Everything, Items}
Commands == {Start(s) : s \in Scopes} \cup {Stop(s) : s \in Scopes}

\* A notification about some items; one of VirtualChainChanged or BlockAdded is the
\* item and a detail that only a subscription to all sees.
Notifications ==
  IF Utxos THEN (SUBSET Items) \ {{}} ELSE {Items \cup {"detail"}}

BroadcasterStep(b) ==
  \/ HandleControl(b) \/ LookForNotification(b) \/ FindNothing(b)
  \/ TakeNotification(b)
  \/ \E l \in Listeners : SendTo(b, l)
  \/ FinishNotification(b)
  \/ EndBroadcaster(b)

Next ==
  \/ \E l \in Listeners, mutation \in Commands : Subscribe(l, mutation)
  \/ \E l \in Listeners : Unregister(l) \/ FinishUnregister(l) \/ CloseConnection(l)
  \/ ReportToParent
  \/ BreakLink
  \/ Reconnect
  \/ Renew
  \/ \E items \in Notifications : Emit(items)
  \/ Collect
  \/ \E b \in Broadcasters : BroadcasterStep(b)
  \/ CloseSource
  \/ CloseChannel
  \/ FinishJoin

Spec == Init /\ [][Next]_vars

\* The tasks are scheduled, an unregistration is carried through, and the client
\* reconnects.
Fairness ==
  /\ WF_vars(ReportToParent)
  /\ WF_vars(Collect)
  /\ WF_vars(Reconnect)
  /\ WF_vars(Renew)
  /\ WF_vars(CloseChannel)
  /\ WF_vars(FinishJoin)
  /\ \A l \in Listeners : WF_vars(FinishUnregister(l))
  /\ \A b \in Broadcasters : WF_vars(BroadcasterStep(b))

-----------------------------------------------------------------------------
(* Properties *)

Holding == registered \cup leaving
SubscribedItems == UNION {sub[l].items : l \in Holding}

\* What the listeners need of the parent together.
Needed ==
  IF \A l \in Holding : ~Active(sub[l]) THEN Inactive
  ELSE IF (Wildcard /\ Utxos) \/ \E l \in Holding : sub[l].state = "All" THEN ToAll
  ELSE Selected(SubscribedItems)

\* With the mutations on their way to it, the parent has exactly the subscription
\* that the listeners need, once renewed after a broken link.  One exception: a
\* renewal after the last address was withdrawn names no address, which means all.
ParentCatchesUp ==
  LET told == FoldLeft(LAMBDA s, mutation : ApplyMutation(s, mutation).sub, parent, up)
  IN (phase # "done" /\ link = "renewed") =>
       \/ told = Needed
       \/ Utxos /\ breaks > 0 /\ told = ToAll /\ Needed = Inactive

\* A notification that a listener was subscribed to when it was sent, and is still,
\* is on its way to it: no broadcaster has passed over the listener, and the
\* shutdown leaves none behind.  Only a subscription and a notification that both
\* arrive between the two polls of a broadcaster are handled in the wrong order.
OwedIsOnItsWay ==
  \A o \in owed :
    \/ \E k \in DOMAIN inbox : inbox[k].id = o.id
    \/ \E k \in DOMAIN chan : chan[k].id = o.id
    \/ \E b \in Broadcasters : busy[b].id = o.id /\ o.listener \in busy[b].left

\* Every notification owed arrives, and a shutdown completes.
ShutdownCompletes ==
  phase = "closing" ~> phase = "done"

=============================================================================
