------------------------------ MODULE RfRwLock ------------------------------
(***************************************************************************)
(* The readers-first lock (utils/src/sync/rwlock.rs) over the non-fair     *)
(* semaphore (utils/src/sync/semaphore.rs).  It is the session lock        *)
(* between consensus users and the block processors, who read, and the     *)
(* pruning processor, who writes and yields.                               *)
(*                                                                         *)
(* A client is one use of the lock.  The semaphore parks a client on an    *)
(* Event of the event-listener crate: a FIFO of listeners of which a       *)
(* prefix is notified.  The compare-exchange loop of try_acquire has one   *)
(* linearization point and is one step; the gaps between trying,           *)
(* listening, trying again and parking, and between giving permits back    *)
(* and notifying, are steps of their own.                                  *)
(***************************************************************************)
EXTENDS Naturals, Sequences, FiniteSets

CONSTANTS
  Client,
  MaxPermits   \* Semaphore::MAX_PERMITS, the largest value of the counter

\* MAX_PERMITS is usize::MAX: no program has more clients than that.
ASSUME PermitsAssumption ==
  /\ MaxPermits \in Nat \ {0}
  /\ IsFiniteSet(Client)
  /\ Cardinality(Client) <= MaxPermits

VARIABLES
  counter,    \* permits available
  queue,      \* the clients whose listener is linked into the event, in order
  notified,   \* how many listeners at the front of the queue are notified
  pc,         \* where each client is
  mode        \* what it asks for or holds: "read" or "write"

lockVars == <<counter, queue, notified, pc, mode>>

PcValues == {"out", "try", "listen", "retry", "parked", "in", "signal", "signalYield", "napListen", "nap"}

\* Mutant: a writer takes all permits but one.
WriterLeavesOne(c) == IF mode[c] = "read" THEN 1 ELSE MaxPermits - 1

Permits(c) == IF mode[c] = "read" THEN 1 ELSE MaxPermits

-----------------------------------------------------------------------------
(***************************************************************************)
(* The event                                                               *)
(***************************************************************************)

AtLeast(a, b) == IF a < b THEN b ELSE a
AtMost(a, b) == IF a < b THEN a ELSE b

\* notify(n) makes sure that n listeners are notified, or all of them.
NotifiedBy(n, q, k) == AtLeast(k, AtMost(n, Len(q)))

PositionOf(c) == CHOOSE i \in DOMAIN queue : queue[i] = c

IsNotified(c) == \E i \in DOMAIN queue : queue[i] = c /\ i <= notified

Without(i) == [j \in 1 .. Len(queue) - 1 |-> IF j < i THEN queue[j] ELSE queue[j + 1]]

Listen(c) ==
  /\ queue' = Append(queue, c)
  /\ UNCHANGED notified

\* A wait that ends uses its notification up.
Consume(c) ==
  /\ queue' = Without(PositionOf(c))
  /\ notified' = IF PositionOf(c) <= notified THEN notified - 1 ELSE notified

\* A listener that is dropped passes its notification on.
DropListener(c) ==
  /\ queue' = Without(PositionOf(c))
  /\ notified' = IF PositionOf(c) <= notified
                 THEN NotifiedBy(1, queue', notified - 1)
                 ELSE notified

-----------------------------------------------------------------------------
(***************************************************************************)
(* The semaphore and the guards                                            *)
(***************************************************************************)

LockInit ==
  /\ counter = MaxPermits
  /\ queue = <<>>
  /\ notified = 0
  /\ pc = [c \in Client |-> "out"]
  /\ mode \in [Client -> {"read", "write"}]

Goto(c, place) == pc' = [pc EXCEPT ![c] = place]

Request(c, m) ==
  /\ pc[c] = "out"
  /\ mode' = [mode EXCEPT ![c] = m]
  /\ Goto(c, "try")
  /\ UNCHANGED <<counter, queue, notified>>

\* try_acquire without a listener.
TryAcquire(c) ==
  /\ pc[c] = "try"
  /\ IF counter < Permits(c)
     THEN Goto(c, "listen") /\ UNCHANGED counter
     ELSE Goto(c, "in") /\ counter' = counter - Permits(c)
  /\ UNCHANGED <<queue, notified, mode>>

\* Mutant: the client parks without trying once more.
ListenAndPark(c) ==
  /\ pc[c] = "listen"
  /\ Listen(c)
  /\ Goto(c, "parked")
  /\ UNCHANGED <<counter, mode>>

StartListening(c) ==
  /\ pc[c] = "listen"
  /\ Listen(c)
  /\ Goto(c, "retry")
  /\ UNCHANGED <<counter, mode>>

\* try_acquire with a listener: it is dropped on success and waited for on
\* failure.
RetryAcquire(c) ==
  /\ pc[c] = "retry"
  /\ IF counter < Permits(c)
     THEN Goto(c, "parked") /\ UNCHANGED <<counter, queue, notified>>
     ELSE Goto(c, "in") /\ counter' = counter - Permits(c) /\ DropListener(c)
  /\ UNCHANGED mode

Wake(c) ==
  /\ pc[c] = "parked"
  /\ IsNotified(c)
  /\ Consume(c)
  /\ Goto(c, "try")
  /\ UNCHANGED <<counter, mode>>

\* The future of an asynchronous acquire is dropped at its await point.
Cancel(c) ==
  /\ pc[c] = "parked"
  /\ DropListener(c)
  /\ Goto(c, "out")
  /\ UNCHANGED <<counter, mode>>

\* release, up to the notification: a guard is dropped, or a write guard
\* yields.  The counter is a usize.
Release(c, next) ==
  /\ pc[c] = "in"
  /\ counter' = (counter + Permits(c)) % (MaxPermits + 1)
  /\ Goto(c, next)
  /\ UNCHANGED <<queue, notified, mode>>

DropGuard(c) == Release(c, "signal")

Yield(c) == mode[c] = "write" /\ Release(c, "signalYield")

\* Mutant: one listener is notified whatever was released.
SignalOne(c) ==
  /\ pc[c] \in {"signal", "signalYield"}
  /\ notified' = NotifiedBy(1, queue, notified)
  /\ Goto(c, IF pc[c] = "signal" THEN "out" ELSE "napListen")
  /\ UNCHANGED <<counter, queue, mode>>

\* The notification that ends release.
Signal(c) ==
  /\ pc[c] \in {"signal", "signalYield"}
  /\ notified' = NotifiedBy(Permits(c), queue, notified)
  /\ Goto(c, IF pc[c] = "signal" THEN "out" ELSE "napListen")
  /\ UNCHANGED <<counter, queue, mode>>

\* The yielding writer listens, and waits for a notification or 30 us.
NapListen(c) ==
  /\ pc[c] = "napListen"
  /\ Listen(c)
  /\ Goto(c, "nap")
  /\ UNCHANGED <<counter, mode>>

NapEnd(c) ==
  /\ pc[c] = "nap"
  /\ Consume(c)
  /\ Goto(c, "try")
  /\ UNCHANGED <<counter, mode>>

\* What a client does once it asked, short of leaving.
Advance(c) ==
  \/ TryAcquire(c) \/ StartListening(c) \/ RetryAcquire(c) \/ Wake(c)
  \/ Signal(c) \/ NapListen(c) \/ NapEnd(c)

LockNext ==
  \E c \in Client :
    \/ \E m \in {"read", "write"} : Request(c, m)
    \/ Advance(c)
    \/ Cancel(c) \/ DropGuard(c) \/ Yield(c)

LockSpec == LockInit /\ [][LockNext]_lockVars

-----------------------------------------------------------------------------
(***************************************************************************)
(* Properties                                                              *)
(***************************************************************************)

\* Every variable has its type, the counter stays in its width and the notified
\* listeners are among those linked.
LockTypeOK ==
  /\ counter \in 0 .. MaxPermits
  /\ queue \in Seq(Client)
  /\ notified \in 0 .. Len(queue)
  /\ pc \in [Client -> PcValues]
  /\ mode \in [Client -> {"read", "write"}]

Inside(m) == {c \in Client : pc[c] = "in" /\ mode[c] = m}

\* The lock's promise: whoever holds a write guard is alone.
Exclusive == \A w \in Inside("write") : Inside("write") = {w} /\ Inside("read") = {}

\* The counter is what the guards have left: no release wraps it around or gives
\* back what was not taken.
PermitsConserved ==
  counter = IF Inside("write") = {} THEN MaxPermits - Cardinality(Inside("read")) ELSE 0

\* A client has one listener exactly while it retries, is parked or naps, so no
\* listener leaks from a cancelled or successful acquire.
OneListenerEach ==
  /\ \A i, j \in DOMAIN queue : queue[i] = queue[j] => i = j
  /\ \A c \in Client :
       pc[c] \in {"retry", "parked", "nap"} <=> \E i \in DOMAIN queue : queue[i] = c

\* The clients that only a notification can wake.
Asleep == {c \in Client : pc[c] = "parked" /\ ~IsNotified(c)}

\* The clients that take their next step without being woken, and hold nothing.
Awake ==
  {c \in Client : \/ pc[c] \in PcValues \ {"out", "in", "parked"}
                  \/ pc[c] = "parked" /\ IsNotified(c)}

\* No wake-up is lost: while the lock is free, a sleeping client has somebody
\* awake who will take the lock, or wake another.
NoLostWakeup == counter = MaxPermits /\ Asleep # {} => Awake # {}

\* Readers first: the readers that sleep while there is a permit for them are
\* those that a released writer is about to notify.  So a reader is never held
\* up by a writer that waits, which is what makes recursive reads safe.
ReadersFirst ==
  counter > 0 /\ (\E c \in Asleep : mode[c] = "read")
    => \E w \in Client : pc[w] \in {"signal", "signalYield"} /\ mode[w] = "write"

Waiting == {c \in Client : pc[c] \in {"try", "listen", "retry", "parked", "nap", "napListen"}}

\* Once no writer asks any more, every reader gets in or gives up.
ReadersGetIn ==
  \A c \in Client :
    (<>[](\A w \in Client : mode[w] = "read")) => (c \in Waiting ~> c \notin Waiting)
=============================================================================
