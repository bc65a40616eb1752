--------------------------- MODULE Notifications ---------------------------
(***************************************************************************)
(* The notification system, for TLC.  A behaviour is one of a notifier for *)
(* a kind of event, or one of the address tracker; `component' names it.   *)
(* The variables of the notifier belong to the kind that is named, the     *)
(* others rest in an initial state.                                        *)
(***************************************************************************)
EXTENDS Naturals, TLC

CONSTANTS
  Addrs,          \* addresses of UtxosChanged
  Broadcasters

VARIABLES
  component,
  registered, leaving, sub, compound, up, parent, link, inbox, chan, ctl, look, plan, busy, gone, phase,
  ended, owed, emitted, mutations, breaks,
  entries, empty, set, counter, call, has, failed, calls

notifierVars ==
  <<registered, leaving, sub, compound, up, parent, link, inbox, chan, ctl, look, plan, busy, gone, phase,
    ended, owed, emitted, mutations, breaks>>
trackerVars == <<entries, empty, set, counter, call, has, failed, calls>>
vars == <<component, notifierVars, trackerVars>>

Both == {"l1", "l2"}

\* VirtualChainChanged or BlockAdded of a gRPC client, with two broadcasters and a
\* link that breaks.
Levels == INSTANCE Notifier WITH
  closed <- gone, Items <- {"block"}, Utxos <- FALSE, Wildcard <- FALSE,
  Listeners <- Both, Leavers <- {"l1"}, MaxMutations <- 2, MaxNotifications <- 1, MaxBreaks <- 1

\* UtxosChanged of a gRPC client, address by address; the link breaks.  Of two
\* bounds, one leaves out notifications and departures in favour of another command.
ByAddress == INSTANCE Notifier WITH
  closed <- gone, Items <- Addrs, Utxos <- TRUE, Wildcard <- FALSE, Broadcasters <- {"b"},
  Listeners <- Both, Leavers <- {"l1"}, MaxMutations <- 2, MaxNotifications <- 1, MaxBreaks <- 1
ByAddressUpwards == INSTANCE Notifier WITH
  closed <- gone, Items <- Addrs, Utxos <- TRUE, Wildcard <- FALSE, Broadcasters <- {"b"},
  Listeners <- Both, Leavers <- {}, MaxMutations <- 3, MaxNotifications <- 0, MaxBreaks <- 1

\* UtxosChanged for all addresses at once, as the notifiers inside a node subscribe
\* to each other; the parent is in the same process.
ByWildcard == INSTANCE Notifier WITH
  closed <- gone, Items <- Addrs, Utxos <- TRUE, Wildcard <- TRUE, Broadcasters <- {"b"},
  Listeners <- Both, Leavers <- {"l1"}, MaxMutations <- 2, MaxNotifications <- 1, MaxBreaks <- 0

\* Three addresses, of which two fit, and two holders that make three calls.
Tracker == INSTANCE AddressTracker WITH
  Addresses <- {"a1", "a2", "a3"}, Holders <- {"h1", "h2"},
  MaxAddresses <- 2, ChunkSize <- 2, MaxList <- 2, MaxCalls <- 3

Init ==
  /\ component \in {"levels", "address", "upwards", "wildcard", "tracker"}
  /\ CASE component = "levels" -> Levels!Init
       [] component \in {"address", "upwards"} -> ByAddress!Init
       [] OTHER -> ByWildcard!Init
  /\ Tracker!Init

AtTracker == component = "tracker" /\ UNCHANGED <<component, notifierVars>>

Next ==
  \/ component = "levels" /\ Levels!Next /\ UNCHANGED <<component, trackerVars>>
  \/ component = "address" /\ ByAddress!Next /\ UNCHANGED <<component, trackerVars>>
  \/ component = "upwards" /\ ByAddressUpwards!Next /\ UNCHANGED <<component, trackerVars>>
  \/ component = "wildcard" /\ ByWildcard!Next /\ UNCHANGED <<component, trackerVars>>
  \/ AtTracker /\ Tracker!Next

Spec == Init /\ [][Next]_vars

Symmetry == Permutations(Addrs) \cup Permutations(Broadcasters)

-----------------------------------------------------------------------------
(* Properties *)

\* The parent has, or is being told, what the listeners need (Notifier).
ParentCatchesUp ==
  CASE component = "levels" -> Levels!ParentCatchesUp
    [] component \in {"address", "upwards"} -> ByAddress!ParentCatchesUp
    [] OTHER -> ByWildcard!ParentCatchesUp

\* A notification owed to a listener is on its way to it (Notifier).
OwedIsOnItsWay ==
  CASE component = "levels" -> Levels!OwedIsOnItsWay
    [] component \in {"address", "upwards"} -> ByAddress!OwedIsOnItsWay
    [] OTHER -> ByWildcard!OwedIsOnItsWay

\* The reference counts are those of the holders (AddressTracker).
CountsAreExact == Tracker!CountsAreExact

=============================================================================
