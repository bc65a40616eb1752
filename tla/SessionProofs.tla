--------------------------- MODULE SessionProofs ---------------------------
(***************************************************************************)
(* What a consensus session rests on: the readers-first lock, and the      *)
(* manager of the consensus instances.                                     *)
(*                                                                         *)
(* For any set of clients no larger than the number of permits: the lock   *)
(* excludes, conserves its permits and loses no wake-up.                   *)
(*                                                                         *)
(* For any number of keys, starts and sessions: the active consensus       *)
(* instance survives a crash at any moment, and is the one the manager     *)
(* hands out.  make_active trusts the staging key of the metadata, the     *)
(* deletions trust the list they made when they began, and                 *)
(* new_active_consensus trusts the key it captured.  InstanceInv says why  *)
(* they may: who holds the lock of the management store, and which key     *)
(* each of them can mean.                                                  *)
(***************************************************************************)
EXTENDS RfRwLock, ConsensusManager, FiniteSetTheorems, SequenceTheorems, TLAPS

-----------------------------------------------------------------------------
(* The session lock *)

\* What the guards that are held say about the counter.
Accounting ==
  /\ counter \in 0 .. MaxPermits
  /\ pc \in [Client -> PcValues]
  /\ mode \in [Client -> {"read", "write"}]
  /\ Exclusive
  /\ PermitsConserved

\* What the event knows about the clients.
Listeners ==
  /\ queue \in Seq(Client)
  /\ notified \in 0 .. Len(queue)
  /\ OneListenerEach

\* The inductive invariant.
LockInv ==
  /\ Accounting
  /\ Listeners
  /\ NoLostWakeup
  /\ ReadersFirst

Linked(c) == \E i \in DOMAIN queue : queue[i] = c

-----------------------------------------------------------------------------
(***************************************************************************)
(* Permits                                                                 *)
(***************************************************************************)

\* The holders of read guards are finitely many, and no more than there are
\* clients.
LEMMA ReadersFinite ==
  /\ IsFiniteSet(Inside("read"))
  /\ Cardinality(Inside("read")) \in Nat
  /\ Cardinality(Inside("read")) <= Cardinality(Client)
  /\ Cardinality(Inside("read")) = 0 <=> Inside("read") = {}
<1>1. Inside("read") \in SUBSET Client
  BY DEF Inside
<1>2. IsFiniteSet(Inside("read")) /\ Cardinality(Inside("read")) <= Cardinality(Client)
  BY <1>1, FS_Subset, PermitsAssumption
<1> QED
  BY <1>2, FS_CardinalityType, FS_EmptySet

\* A step in which nobody gets a guard or gives one back.
LEMMA UnmovedAccounting ==
  ASSUME Accounting, UNCHANGED counter,
         pc' \in [Client -> PcValues], mode' \in [Client -> {"read", "write"}],
         \A d \in Client : (pc'[d] = "in" <=> pc[d] = "in") /\ (pc[d] = "in" => mode'[d] = mode[d])
  PROVE  Accounting'
<1>1. Inside("read")' = Inside("read") /\ Inside("write")' = Inside("write")
  BY DEF Inside
<1>2. Exclusive'
  BY <1>1 DEF Accounting, Exclusive
<1>3. PermitsConserved'
  BY <1>1 DEF Accounting, PermitsConserved
<1> QED
  BY <1>2, <1>3 DEF Accounting

\* A successful try_acquire.
LEMMA AcquireAccounting ==
  ASSUME Accounting, NEW c \in Client, pc[c] # "in", Permits(c) <= counter,
         counter' = counter - Permits(c), pc' = [pc EXCEPT ![c] = "in"], UNCHANGED mode
  PROVE  Accounting'
<1> USE PermitsAssumption
<1>1. /\ MaxPermits \in Nat /\ MaxPermits > 0
      /\ counter \in Nat /\ counter <= MaxPermits
      /\ counter > 0
      /\ Permits(c) = 1 \/ Permits(c) = MaxPermits
  BY DEF Accounting, Permits
<1>2. Inside("write") = {} /\ counter = MaxPermits - Cardinality(Inside("read"))
  BY <1>1 DEF Accounting, PermitsConserved
<1>3. pc' \in [Client -> PcValues] /\ mode' \in [Client -> {"read", "write"}] /\ counter' \in 0 .. MaxPermits
  BY <1>1 DEF Accounting, PcValues
<1>4. CASE mode[c] = "read"
  <2>1. Inside("write")' = {} /\ Inside("read")' = Inside("read") \cup {c} /\ c \notin Inside("read")
    BY <1>2, <1>4 DEF Inside, Accounting
  <2>2. Cardinality(Inside("read") \cup {c}) = Cardinality(Inside("read")) + 1
    BY <2>1, ReadersFinite, FS_AddElement, Zenon
  <2>3. counter' = counter - 1
    BY <1>4 DEF Permits
  <2>4. counter' = MaxPermits - Cardinality(Inside("read") \cup {c})
    BY <1>1, <1>2, <2>2, <2>3, ReadersFinite
  <2>5. Exclusive' /\ PermitsConserved'
    BY <2>1, <2>4 DEF Exclusive, PermitsConserved
  <2> QED
    BY <1>3, <2>5 DEF Accounting
<1>5. CASE mode[c] = "write"
  <2>1. counter = MaxPermits /\ counter' = 0
    BY <1>1, <1>5 DEF Permits
  <2>2. Inside("read") = {}
    BY <1>1, <1>2, <2>1, ReadersFinite
  <2>3. Inside("write")' = {c} /\ Inside("read")' = {}
    BY <1>2, <1>5, <2>2 DEF Inside, Accounting
  <2>4. Exclusive' /\ PermitsConserved'
    BY <2>1, <2>3 DEF Exclusive, PermitsConserved
  <2> QED
    BY <1>3, <2>4 DEF Accounting
<1> QED
  BY <1>4, <1>5 DEF Accounting

\* release gives back what was taken, without wrapping around.
LEMMA ReleaseAccounting ==
  ASSUME Accounting, NEW c \in Client, NEW next \in PcValues \ {"in"}, Release(c, next)
  PROVE  Accounting' /\ (mode[c] = "read" => counter' = counter + 1)
<1> USE PermitsAssumption
<1>1. /\ pc[c] = "in" /\ pc' = [pc EXCEPT ![c] = next] /\ mode' = mode
      /\ counter' = (counter + Permits(c)) % (MaxPermits + 1)
  BY DEF Release, Goto
<1>2. pc' \in [Client -> PcValues] /\ mode' \in [Client -> {"read", "write"}]
  BY <1>1 DEF Accounting
<1>3. MaxPermits \in Nat /\ MaxPermits > 0 /\ counter \in Nat /\ counter <= MaxPermits
  BY DEF Accounting
<1>m. ASSUME NEW x \in Nat, x <= MaxPermits
      PROVE  x % (MaxPermits + 1) = x
  BY <1>3, <1>m
<1>4. CASE mode[c] = "read"
  <2>1. c \in Inside("read") /\ Inside("write") = {}
    BY <1>1, <1>4 DEF Inside, Accounting, Exclusive
  <2>2. Inside("write")' = {} /\ Inside("read")' = Inside("read") \ {c}
    BY <1>1, <1>4, <2>1 DEF Inside, Accounting
  <2>3. Cardinality(Inside("read") \ {c}) = Cardinality(Inside("read")) - 1
    BY <2>1, ReadersFinite, FS_RemoveElement, Zenon
  <2>4. counter = MaxPermits - Cardinality(Inside("read")) /\ Cardinality(Inside("read")) # 0
    BY <2>1, ReadersFinite DEF Accounting, PermitsConserved
  <2>5. counter + 1 <= MaxPermits /\ Permits(c) = 1
    BY <1>3, <1>4, <2>4, ReadersFinite DEF Permits
  <2>6. counter' = counter + 1
    BY <1>1, <1>3, <1>m, <2>5
  <2>7. counter' = MaxPermits - Cardinality(Inside("read") \ {c}) /\ counter' \in 0 .. MaxPermits
    BY <1>3, <2>3, <2>4, <2>5, <2>6, ReadersFinite
  <2>8. Exclusive' /\ PermitsConserved'
    BY <2>2, <2>7 DEF Exclusive, PermitsConserved
  <2> QED
    BY <1>2, <2>6, <2>7, <2>8 DEF Accounting
<1>5. CASE mode[c] = "write"
  <2>1. Inside("write") = {c} /\ Inside("read") = {}
    BY <1>1, <1>5 DEF Inside, Accounting, Exclusive
  <2>2. Inside("write")' = {} /\ Inside("read")' = {}
    BY <1>1, <1>5, <2>1 DEF Inside, Accounting
  <2>3. counter = 0 /\ Permits(c) = MaxPermits
    BY <1>5, <2>1 DEF Accounting, PermitsConserved, Permits
  <2>4. counter' = MaxPermits
    BY <1>1, <1>3, <1>m, <2>3
  <2>5. Exclusive' /\ PermitsConserved'
    BY <1>3, <2>2, <2>4, FS_EmptySet DEF Exclusive, PermitsConserved
  <2> QED
    BY <1>2, <1>3, <1>5, <2>4, <2>5 DEF Accounting
<1> QED
  BY <1>4, <1>5 DEF Accounting

-----------------------------------------------------------------------------
(***************************************************************************)
(* Listeners                                                               *)
(***************************************************************************)

\* No queue of listeners is longer than MaxPermits, so that a writer's release
\* reaches all of them.
LEMMA QueueFits ==
  ASSUME Listeners
  PROVE  Len(queue) <= MaxPermits
<1>1. queue \in Injection(1 .. Len(queue), Client)
  BY DEF Listeners, OneListenerEach, Injection, IsInjective
<1>2. Cardinality(1 .. Len(queue)) <= Cardinality(Client)
  BY <1>1, FS_Injection, PermitsAssumption
<1>3. Len(queue) \in Nat
  BY DEF Listeners
<1>4. Cardinality(1 .. Len(queue)) = Len(queue)
  <2>1. 1 \in Int /\ Len(queue) \in Int
    BY <1>3
  <2>2. Cardinality(1 .. Len(queue)) = IF 1 > Len(queue) THEN 0 ELSE Len(queue) - 1 + 1
    BY <2>1, FS_Interval
  <2> QED
    BY <1>3, <2>2
<1>5. Cardinality(Client) \in Nat
  BY FS_CardinalityType, PermitsAssumption
<1> QED
  BY <1>2, <1>3, <1>4, <1>5, PermitsAssumption

\* Linking a listener changes nothing for the others.
LEMMA ListenStep ==
  ASSUME Listeners, NEW c \in Client, ~Linked(c), Listen(c)
  PROVE  /\ queue' \in Seq(Client) /\ notified' \in 0 .. Len(queue')
         /\ \A i, j \in DOMAIN queue' : queue'[i] = queue'[j] => i = j
         /\ Linked(c)'
         /\ \A d \in Client : d # c => (Linked(d)' <=> Linked(d)) /\ (IsNotified(d)' <=> IsNotified(d))
<1>1. queue \in Seq(Client) /\ queue' = Append(queue, c) /\ notified' = notified
  BY DEF Listeners, Listen
<1>2. /\ queue' \in Seq(Client) /\ Len(queue) \in Nat /\ Len(queue') = Len(queue) + 1
      /\ DOMAIN queue = 1 .. Len(queue) /\ DOMAIN queue' = 1 .. Len(queue) + 1
      /\ \A i \in DOMAIN queue : queue'[i] = queue[i]
      /\ queue'[Len(queue) + 1] = c
  BY <1>1, AppendProperties, LenProperties
<1>3. notified' \in 0 .. Len(queue') /\ notified <= Len(queue)
  BY <1>1, <1>2 DEF Listeners
<1>4. \A i, j \in DOMAIN queue' : queue'[i] = queue'[j] => i = j
  BY <1>2 DEF Listeners, OneListenerEach, Linked
<1>5. Linked(c)'
  BY <1>2 DEF Linked
<1>6. ASSUME NEW d \in Client, d # c
      PROVE  (Linked(d)' <=> Linked(d)) /\ (IsNotified(d)' <=> IsNotified(d))
  BY <1>1, <1>2, <1>6 DEF Linked, IsNotified
<1> QED
  BY <1>2, <1>3, <1>4, <1>5, <1>6

\* Unlinking a listener takes no notification from another one, and a
\* notification that is passed on reaches somebody if anybody is left.
LEMMA UnlinkStep ==
  ASSUME Listeners, NEW c \in Client, Linked(c), Consume(c) \/ DropListener(c)
  PROVE  /\ queue' \in Seq(Client) /\ notified' \in 0 .. Len(queue')
         /\ \A i, j \in DOMAIN queue' : queue'[i] = queue'[j] => i = j
         /\ ~Linked(c)'
         /\ \A d \in Client : d # c => (Linked(d)' <=> Linked(d)) /\ (IsNotified(d) => IsNotified(d)')
         /\ DropListener(c) /\ IsNotified(c) /\ (\E d \in Client : Linked(d)') => notified' > 0
<1> DEFINE k == PositionOf(c)
<1>1. k \in DOMAIN queue /\ queue[k] = c
  BY DEF Linked, PositionOf
<1> HIDE DEF k
<1>2. /\ queue \in Seq(Client) /\ Len(queue) \in Nat /\ DOMAIN queue = 1 .. Len(queue)
      /\ notified \in 0 .. Len(queue) /\ k \in 1 .. Len(queue)
  BY <1>1, LenProperties DEF Listeners
<1>3. queue' = [j \in 1 .. Len(queue) - 1 |-> IF j < k THEN queue[j] ELSE queue[j + 1]]
  BY DEF Consume, DropListener, Without, k
<1>4. \A j \in 1 .. Len(queue) - 1 : (IF j < k THEN queue[j] ELSE queue[j + 1]) \in Client
  BY <1>2
<1>5. Len(queue) - 1 \in Nat
  BY <1>2
<1>6. queue' \in Seq(Client) /\ Len(queue') = Len(queue) - 1 /\ DOMAIN queue' = 1 .. Len(queue) - 1
  BY <1>3, <1>4, <1>5
<1>7. \A i, j \in DOMAIN queue : queue[i] = queue[j] => i = j
  BY DEF Listeners, OneListenerEach
<1>8. \A j \in DOMAIN queue' : queue'[j] = IF j < k THEN queue[j] ELSE queue[j + 1]
  BY <1>3, <1>6
<1>9. \A i, j \in DOMAIN queue' : queue'[i] = queue'[j] => i = j
  BY SMTT(30), <1>2, <1>6, <1>7, <1>8
<1>10. ~Linked(c)'
  BY <1>1, <1>2, <1>6, <1>7, <1>8 DEF Linked
<1>11. /\ notified' \in 0 .. Len(queue')
       /\ notified' >= IF k <= notified THEN notified - 1 ELSE notified
       /\ DropListener(c) /\ k <= notified /\ Len(queue') > 0 => notified' > 0
  BY <1>2, <1>6 DEF Consume, DropListener, NotifiedBy, AtLeast, AtMost, k
<1>12. ASSUME NEW d \in Client, d # c
       PROVE  (Linked(d)' <=> Linked(d)) /\ (IsNotified(d) => IsNotified(d)')
  <2>1. ASSUME Linked(d)' PROVE Linked(d)
    BY <1>2, <1>6, <1>8, <2>1 DEF Linked
  <2>2. ASSUME NEW i \in DOMAIN queue, queue[i] = d
        PROVE  \E j \in DOMAIN queue' : queue'[j] = d /\ (i <= notified => j <= notified')
    <3>1. i # k
      BY <1>1, <1>12, <2>2
    <3>2. CASE i < k
      <4>1. i \in DOMAIN queue' /\ queue'[i] = d
        BY <1>2, <1>6, <1>8, <2>2, <3>2
      <4>2. i <= notified => i <= notified'
        BY <1>2, <1>6, <1>11, <3>2
      <4> QED
        BY <4>1, <4>2
    <3>3. CASE i > k
      <4>1. i - 1 \in DOMAIN queue' /\ queue'[i - 1] = d
        BY <1>2, <1>6, <1>8, <2>2, <3>3
      <4>2. i <= notified => i - 1 <= notified'
        BY <1>2, <1>6, <1>11, <3>3
      <4> QED
        BY <4>1, <4>2
    <3> QED
      BY <1>2, <3>1, <3>2, <3>3
  <2> QED
    BY <2>1, <2>2 DEF Linked, IsNotified
<1>13. ASSUME DropListener(c), IsNotified(c), NEW d \in Client, Linked(d)'
       PROVE  notified' > 0
  <2>1. k <= notified
    BY <1>1, <1>7, <1>13 DEF IsNotified
  <2>2. Len(queue') > 0
    BY <1>2, <1>6, <1>13 DEF Linked
  <2> QED
    BY <1>11, <1>13, <2>1, <2>2
<1> QED
  BY <1>6, <1>9, <1>10, <1>11, <1>12, <1>13

-----------------------------------------------------------------------------
(***************************************************************************)
(* The inductive step                                                      *)
(***************************************************************************)

LEMMA InitLockInv == LockInit => LockInv
<1> SUFFICES ASSUME LockInit PROVE LockInv
  OBVIOUS
<1> USE PermitsAssumption
<1>1. Inside("read") = {} /\ Inside("write") = {}
  BY DEF LockInit, Inside
<1>2. Accounting
  <2>1. Cardinality({}) = 0
    BY FS_EmptySet
  <2>2. Exclusive /\ PermitsConserved
    BY SMTT(30), <1>1, <2>1 DEF LockInit, Exclusive, PermitsConserved
  <2>3. pc \in [Client -> PcValues]
    BY DEF LockInit, PcValues
  <2> QED
    BY <2>2, <2>3 DEF LockInit, Accounting
<1>3. Listeners /\ Asleep = {}
  BY DEF LockInit, Listeners, OneListenerEach, Asleep
<1> QED
  BY <1>2, <1>3 DEF LockInv, NoLostWakeup, ReadersFirst

\* No step breaks the accounting of the permits.
LEMMA NextAccounting ==
  ASSUME LockInv, LockNext
  PROVE  Accounting'
<1>1. Accounting /\ pc \in [Client -> PcValues] /\ mode \in [Client -> {"read", "write"}]
  BY DEF LockInv, Accounting
<1>2. ASSUME NEW c \in Client, NEW next \in PcValues \ {"in"}, pc[c] # "in", Goto(c, next),
             UNCHANGED <<counter, mode>>
      PROVE  Accounting'
  <2>1. pc' \in [Client -> PcValues] /\ \A d \in Client : pc'[d] = "in" <=> pc[d] = "in"
    BY <1>1, <1>2 DEF Goto
  <2> QED
    BY <1>1, <1>2, <2>1, UnmovedAccounting
<1>3. ASSUME NEW c \in Client, NEW m \in {"read", "write"}, Request(c, m)
      PROVE  Accounting'
  <2>1. /\ pc' \in [Client -> PcValues] /\ mode' \in [Client -> {"read", "write"}] /\ counter' = counter
        /\ \A d \in Client : (pc'[d] = "in" <=> pc[d] = "in") /\ (pc[d] = "in" => mode'[d] = mode[d])
    BY <1>1, <1>3 DEF Request, Goto, PcValues
  <2> QED
    BY <1>1, <2>1, UnmovedAccounting
<1>4. ASSUME NEW c \in Client, TryAcquire(c) \/ RetryAcquire(c)
      PROVE  Accounting'
  <2>1. pc[c] # "in" /\ counter \in Nat /\ Permits(c) \in Nat
    BY <1>1, <1>4, PermitsAssumption DEF TryAcquire, RetryAcquire, Accounting, Permits
  <2>2. CASE counter < Permits(c)
    <3>1. /\ \E next \in PcValues \ {"in"} : Goto(c, next)
          /\ UNCHANGED <<counter, mode>>
      BY <1>4, <2>2 DEF TryAcquire, RetryAcquire, PcValues
    <3> QED
      BY <1>2, <2>1, <3>1
  <2>3. CASE Permits(c) <= counter
    <3>1. counter' = counter - Permits(c) /\ pc' = [pc EXCEPT ![c] = "in"] /\ UNCHANGED mode
      BY <1>4, <2>1, <2>3 DEF TryAcquire, RetryAcquire, Goto
    <3> QED
      BY <1>1, <2>1, <2>3, <3>1, AcquireAccounting, Zenon
  <2> QED
    BY <2>1, <2>2, <2>3
<1>5. ASSUME NEW c \in Client,
             StartListening(c) \/ Wake(c) \/ Cancel(c) \/ Signal(c) \/ NapListen(c) \/ NapEnd(c)
      PROVE  Accounting'
  <2>1. /\ pc[c] # "in" /\ UNCHANGED <<counter, mode>>
        /\ \E next \in PcValues \ {"in"} : Goto(c, next)
    BY <1>5 DEF StartListening, Wake, Cancel, Signal, NapListen, NapEnd, PcValues
  <2> QED
    BY <1>2, <2>1
<1>6. ASSUME NEW c \in Client, DropGuard(c) \/ Yield(c)
      PROVE  Accounting'
  <2>1. \E next \in PcValues \ {"in"} : Release(c, next)
    BY <1>6 DEF DropGuard, Yield, PcValues
  <2> QED
    BY <1>1, <2>1, ReleaseAccounting
<1> QED
  BY <1>3, <1>4, <1>5, <1>6 DEF LockNext, Advance

\* Every step keeps one listener for each client that waits.
LEMMA NextListeners ==
  ASSUME LockInv, LockNext
  PROVE  Listeners'
<1>1. /\ Listeners /\ pc \in [Client -> PcValues]
      /\ \A c \in Client : pc[c] \in {"retry", "parked", "nap"} <=> Linked(c)
  BY DEF LockInv, Accounting, Listeners, OneListenerEach, Linked
<1>2. ASSUME NEW c \in Client, NEW next \in PcValues,
             next \in {"retry", "parked", "nap"} <=> Linked(c), Goto(c, next),
             UNCHANGED queue, notified' \in 0 .. Len(queue)
      PROVE  Listeners'
  <2>1. \A d \in Client : pc'[d] \in {"retry", "parked", "nap"} <=> Linked(d)'
    BY <1>1, <1>2 DEF Goto, Linked
  <2> QED
    BY <1>1, <1>2, <2>1 DEF Listeners, OneListenerEach, Linked
<1>3. ASSUME NEW c \in Client, NEW next \in {"retry", "nap"}, pc[c] \notin {"retry", "parked", "nap"},
             Goto(c, next), Listen(c)
      PROVE  Listeners'
  <2>1. ~Linked(c)
    BY <1>1, <1>3
  <2>2. \A d \in Client : pc'[d] \in {"retry", "parked", "nap"} <=> Linked(d)'
    BY <1>1, <1>3, <2>1, ListenStep DEF Goto
  <2> QED
    BY <1>1, <1>3, <2>1, <2>2, ListenStep DEF Listeners, OneListenerEach, Linked
<1>4. ASSUME NEW c \in Client, NEW next \in PcValues \ {"retry", "parked", "nap"},
             pc[c] \in {"retry", "parked", "nap"}, Goto(c, next), Consume(c) \/ DropListener(c)
      PROVE  Listeners'
  <2>1. Linked(c)
    BY <1>1, <1>4
  <2>2. \A d \in Client : pc'[d] \in {"retry", "parked", "nap"} <=> Linked(d)'
    BY <1>1, <1>4, <2>1, UnlinkStep DEF Goto
  <2> QED
    BY <1>1, <1>4, <2>1, <2>2, UnlinkStep DEF Listeners, OneListenerEach, Linked
<1>5. ASSUME NEW c \in Client, NEW m \in {"read", "write"}, Request(c, m)
      PROVE  Listeners'
  BY <1>1, <1>2, <1>5 DEF Request, PcValues, Listeners
<1>6. ASSUME NEW c \in Client, TryAcquire(c) PROVE Listeners'
  BY <1>1, <1>2, <1>6 DEF TryAcquire, PcValues, Listeners
<1>7. ASSUME NEW c \in Client, RetryAcquire(c) PROVE Listeners'
  <2>1. CASE counter < Permits(c)
    BY <1>1, <1>2, <1>7, <2>1 DEF RetryAcquire, PcValues, Listeners
  <2>2. CASE ~(counter < Permits(c))
    BY <1>4, <1>7, <2>2 DEF RetryAcquire, PcValues
  <2> QED
    BY <2>1, <2>2
<1>8. ASSUME NEW c \in Client, StartListening(c) \/ NapListen(c) PROVE Listeners'
  BY <1>3, <1>8 DEF StartListening, NapListen
<1>9. ASSUME NEW c \in Client, Wake(c) \/ Cancel(c) \/ NapEnd(c) PROVE Listeners'
  BY <1>4, <1>9 DEF Wake, Cancel, NapEnd, PcValues
<1>10. ASSUME NEW c \in Client, DropGuard(c) \/ Yield(c) PROVE Listeners'
  BY <1>1, <1>2, <1>10 DEF DropGuard, Yield, Release, PcValues, Listeners
<1>11. ASSUME NEW c \in Client, Signal(c) PROVE Listeners'
  <2>1. ~Linked(c) /\ UNCHANGED queue
    BY <1>1, <1>11 DEF Signal
  <2>2. notified' \in 0 .. Len(queue)
    <3>1. Permits(c) \in Nat /\ Len(queue) \in Nat /\ notified \in 0 .. Len(queue)
      BY <1>1, PermitsAssumption DEF Permits, Listeners
    <3> QED
      BY <1>11, <3>1 DEF Signal, NotifiedBy, AtLeast, AtMost
  <2>3. \E next \in {"out", "napListen"} : Goto(c, next)
    BY <1>11 DEF Signal
  <2> QED
    BY <1>2, <2>1, <2>2, <2>3 DEF PcValues
<1> QED
  BY <1>5, <1>6, <1>7, <1>8, <1>9, <1>10, <1>11 DEF LockNext, Advance

\* Whoever sleeps after a step of another client slept before it.
LEMMA SleepersStay ==
  ASSUME LockInv, LockNext
  PROVE  \E c \in Client :
           /\ Goto(c, pc'[c])
           /\ \A d \in Client \ {c} : pc'[d] = pc[d] /\ mode'[d] = mode[d] /\ (IsNotified(d) => IsNotified(d)')
           /\ \/ \E m \in {"read", "write"} : Request(c, m)
              \/ Advance(c) \/ Cancel(c) \/ DropGuard(c) \/ Yield(c)
<1>1. /\ Listeners /\ pc \in [Client -> PcValues] /\ mode \in [Client -> {"read", "write"}]
      /\ \A c \in Client : pc[c] \in {"retry", "parked", "nap"} <=> Linked(c)
  BY DEF LockInv, Accounting, Listeners, OneListenerEach, Linked
<1>2. PICK c \in Client : \/ \E m \in {"read", "write"} : Request(c, m)
                          \/ Advance(c) \/ Cancel(c) \/ DropGuard(c) \/ Yield(c)
  BY DEF LockNext
<1>3. \E place \in PcValues : Goto(c, place)
  BY <1>2 DEF Request, Advance, TryAcquire, StartListening, RetryAcquire, Wake, Signal, NapListen, NapEnd,
     Cancel, DropGuard, Yield, Release, PcValues
<1>4. Goto(c, pc'[c]) /\ \A d \in Client \ {c} : pc'[d] = pc[d]
  BY <1>1, <1>3 DEF Goto
<1>5. \A d \in Client \ {c} : mode'[d] = mode[d]
  BY <1>1, <1>2 DEF Request, Advance, TryAcquire, StartListening, RetryAcquire, Wake, Signal, NapListen, NapEnd,
     Cancel, DropGuard, Yield, Release
<1>6. ASSUME NEW d \in Client \ {c}, IsNotified(d)
      PROVE  IsNotified(d)'
  <2>1. CASE UNCHANGED <<queue, notified>>
    BY <1>6, <2>1 DEF IsNotified
  <2>2. CASE Signal(c)
    <3>1. Permits(c) \in Nat /\ Len(queue) \in Nat /\ notified \in 0 .. Len(queue)
      BY <1>1, PermitsAssumption DEF Permits, Listeners
    <3>2. queue' = queue /\ notified' >= notified /\ notified' \in Nat
      BY <2>2, <3>1 DEF Signal, NotifiedBy, AtLeast, AtMost
    <3>3. DOMAIN queue = 1 .. Len(queue)
      BY <1>1 DEF Listeners
    <3> QED
      BY <1>6, <3>1, <3>2, <3>3 DEF IsNotified
  <2>3. CASE pc[c] \in {"listen", "napListen"} /\ Listen(c)
    BY <1>1, <1>6, <2>3, ListenStep
  <2>4. CASE pc[c] \in {"retry", "parked", "nap"} /\ (Consume(c) \/ DropListener(c))
    BY <1>1, <1>6, <2>4, UnlinkStep
  <2>5. \/ UNCHANGED <<queue, notified>> \/ Signal(c)
        \/ pc[c] \in {"listen", "napListen"} /\ Listen(c)
        \/ pc[c] \in {"retry", "parked", "nap"} /\ (Consume(c) \/ DropListener(c))
    BY <1>2 DEF Request, Advance, TryAcquire, StartListening, RetryAcquire, Wake, NapListen, NapEnd,
       Cancel, DropGuard, Yield, Release
  <2> QED
    BY <2>1, <2>2, <2>3, <2>4, <2>5
<1> QED
  BY <1>2, <1>4, <1>5, <1>6

\* No step loses a wake-up.
LEMMA NextWakeup ==
  ASSUME LockInv, LockNext
  PROVE  NoLostWakeup'
<1> SUFFICES ASSUME counter' = MaxPermits, NEW s \in Client, s \in Asleep'
             PROVE  \E q \in Client : q \in Awake'
  BY DEF NoLostWakeup, Asleep
<1>1. /\ Listeners /\ pc \in [Client -> PcValues] /\ mode \in [Client -> {"read", "write"}]
      /\ counter \in 0 .. MaxPermits
      /\ \A c \in Client : pc[c] \in {"retry", "parked", "nap"} <=> Linked(c)
      /\ MaxPermits \in Nat /\ MaxPermits > 0
  BY PermitsAssumption DEF LockInv, Accounting, Listeners, OneListenerEach, Linked
<1>2. pc'[s] = "parked" /\ ~IsNotified(s)'
  BY DEF Asleep
<1>3. PICK c \in Client :
           /\ Goto(c, pc'[c])
           /\ \A d \in Client \ {c} : pc'[d] = pc[d] /\ mode'[d] = mode[d] /\ (IsNotified(d) => IsNotified(d)')
           /\ \/ \E m \in {"read", "write"} : Request(c, m)
              \/ Advance(c) \/ Cancel(c) \/ DropGuard(c) \/ Yield(c)
  BY SleepersStay
<1>4. CASE pc'[c] \in PcValues \ {"out", "in", "parked"}
  BY <1>4 DEF Awake
<1>5. Listeners' /\ Linked(s)'
  BY <1>2, NextListeners DEF Listeners, OneListenerEach, Linked
<1>6. ASSUME notified' > 0 PROVE \E q \in Client : q \in Awake'
  <2>1. 1 \in DOMAIN queue' /\ queue'[1] \in Client
    BY <1>5 DEF Listeners, Linked
  <2>2. PICK q \in Client : q = queue'[1]
    BY <2>1
  <2>3. IsNotified(q)' /\ pc'[q] \in {"retry", "parked", "nap"}
    BY <1>5, <1>6, <2>1, <2>2 DEF Listeners, OneListenerEach, IsNotified
  <2> QED
    BY <2>3 DEF Awake, PcValues
<1>7. ASSUME TryAcquire(c) \/ RetryAcquire(c) PROVE FALSE
  <2>1. Permits(c) \in 1 .. MaxPermits
    BY <1>1 DEF Permits
  <2>2. counter < Permits(c) => counter' = counter
    BY <1>7 DEF TryAcquire, RetryAcquire
  <2>3. ~(counter < Permits(c)) => counter' = counter - Permits(c)
    BY <1>7 DEF TryAcquire, RetryAcquire
  <2> QED
    BY <1>1, <2>1, <2>2, <2>3
<1>8. CASE Signal(c)
  <2>0. Permits(c) \in Nat /\ Permits(c) >= 1
    BY <1>1 DEF Permits
  <2>1. queue' = queue /\ queue \in Seq(Client) /\ Len(queue) \in Nat /\ notified \in 0 .. Len(queue)
    BY <1>1, <1>8 DEF Signal, Listeners
  <2>2. Len(queue) > 0
    <3>1. \E i \in DOMAIN queue : TRUE
      BY <1>5, <2>1 DEF Linked
    <3> QED
      BY <2>1, <3>1
  <2>3. notified' > 0
    BY <1>8, <2>0, <2>1, <2>2 DEF Signal, NotifiedBy, AtLeast, AtMost
  <2> QED
    BY <1>6, <2>3
<1>9. CASE Cancel(c)
  <2>1. pc[c] = "parked" /\ DropListener(c) /\ pc'[c] = "out" /\ counter' = counter
    BY <1>1, <1>9 DEF Cancel, Goto
  <2>2. s # c /\ s \in Asleep
    BY <1>2, <1>3, <2>1 DEF Asleep
  <2>3. PICK q \in Client : q \in Awake
    BY <2>1, <2>2 DEF LockInv, NoLostWakeup, Awake
  <2>4. CASE q # c
    BY <1>3, <2>3, <2>4 DEF Awake
  <2>5. CASE q = c
    <3>1. IsNotified(c) /\ Linked(c)
      BY <1>1, <2>1, <2>3, <2>5 DEF Awake
    <3>2. notified' > 0
      BY <1>1, <1>5, <2>1, <3>1, UnlinkStep
    <3> QED
      BY <1>6, <3>2
  <2> QED
    BY <2>4, <2>5
<1>10. CASE \/ \E m \in {"read", "write"} : Request(c, m)
            \/ StartListening(c) \/ Wake(c) \/ NapListen(c) \/ NapEnd(c) \/ DropGuard(c) \/ Yield(c)
  <2>1. pc'[c] \in {"try", "retry", "nap", "signal", "signalYield"}
    BY <1>1, <1>10 DEF Request, StartListening, Wake, NapListen, NapEnd, DropGuard, Yield, Release, Goto
  <2> QED
    BY <1>4, <2>1 DEF PcValues
<1> QED
  BY <1>3, <1>7, <1>8, <1>9, <1>10 DEF Advance

\* No step leaves a reader asleep beside a free permit.
LEMMA NextReaders ==
  ASSUME LockInv, LockNext
  PROVE  ReadersFirst'
<1> SUFFICES ASSUME counter' > 0, NEW s \in Client, s \in Asleep', mode'[s] = "read"
             PROVE  \E w \in Client : pc'[w] \in {"signal", "signalYield"} /\ mode'[w] = "write"
  BY DEF ReadersFirst, Asleep
<1>1. /\ Listeners /\ pc \in [Client -> PcValues] /\ mode \in [Client -> {"read", "write"}]
      /\ counter \in 0 .. MaxPermits
      /\ MaxPermits \in Nat /\ MaxPermits > 0
  BY PermitsAssumption DEF LockInv, Accounting
<1>2. pc'[s] = "parked" /\ ~IsNotified(s)'
  BY DEF Asleep
<1>3. PICK c \in Client :
           /\ Goto(c, pc'[c])
           /\ \A d \in Client \ {c} : pc'[d] = pc[d] /\ mode'[d] = mode[d] /\ (IsNotified(d) => IsNotified(d)')
           /\ \/ \E m \in {"read", "write"} : Request(c, m)
              \/ Advance(c) \/ Cancel(c) \/ DropGuard(c) \/ Yield(c)
  BY SleepersStay
\* The writer about to notify is still there, unless it was its step.
<1>4. ASSUME s # c, counter > 0, ~(pc[c] \in {"signal", "signalYield"} /\ mode[c] = "write")
      PROVE  \E w \in Client : pc'[w] \in {"signal", "signalYield"} /\ mode'[w] = "write"
  <2>1. s \in Asleep /\ mode[s] = "read"
    BY <1>2, <1>3, <1>4 DEF Asleep
  <2>2. PICK w \in Client : pc[w] \in {"signal", "signalYield"} /\ mode[w] = "write"
    BY <1>4, <2>1 DEF LockInv, ReadersFirst
  <2> QED
    BY <1>3, <1>4, <2>2
<1>5. CASE \/ \E m \in {"read", "write"} : Request(c, m)
           \/ StartListening(c) \/ Wake(c) \/ Cancel(c) \/ NapListen(c) \/ NapEnd(c)
  <2>1. /\ pc'[c] # "parked" /\ counter' = counter
        /\ pc[c] \notin {"signal", "signalYield"}
    BY <1>1, <1>5 DEF Request, StartListening, Wake, Cancel, NapListen, NapEnd, Goto
  <2> QED
    BY <1>2, <1>4, <2>1
<1>6. CASE TryAcquire(c) \/ RetryAcquire(c)
  <2>1. Permits(c) \in 1 .. MaxPermits /\ (mode[c] = "read" => Permits(c) = 1)
    BY <1>1 DEF Permits
  <2>2. mode' = mode /\ pc[c] \notin {"signal", "signalYield"}
    BY <1>6 DEF TryAcquire, RetryAcquire
  <2>3. CASE counter < Permits(c)
    <3>1. counter' = counter
      BY <1>6, <2>3 DEF TryAcquire, RetryAcquire
    <3>2. s # c
      BY <1>1, <2>1, <2>2, <2>3, <3>1
    <3> QED
      BY <1>4, <2>2, <3>1, <3>2
  <2>4. CASE ~(counter < Permits(c))
    <3>1. counter' = counter - Permits(c) /\ pc'[c] = "in"
      BY <1>1, <1>6, <2>4 DEF TryAcquire, RetryAcquire, Goto
    <3>2. counter > 0
      BY <1>1, <2>1, <3>1
    <3> QED
      BY <1>2, <1>4, <2>2, <3>1, <3>2
  <2> QED
    BY <2>3, <2>4
<1>7. CASE DropGuard(c) \/ Yield(c)
  <2>1. PICK next \in {"signal", "signalYield"} : Release(c, next)
    BY <1>7 DEF DropGuard, Yield
  <2>2. pc[c] = "in" /\ pc'[c] = next /\ mode' = mode /\ s # c
    BY <1>1, <1>2, <2>1 DEF Release, Goto
  <2>3. CASE mode[c] = "write"
    BY <2>2, <2>3
  <2>4. CASE mode[c] = "read" /\ counter > 0
    BY <1>4, <2>2, <2>4
  <2>5. CASE mode[c] = "read" /\ counter = 0
    <3>1. c \in Inside("read") /\ Inside("write") = {}
      BY <2>2, <2>5 DEF Inside, LockInv, Accounting, Exclusive
    <3>2. s \notin Inside("read")
      BY <1>2, <1>3, <2>2 DEF Inside
    <3>3. Cardinality(Inside("read")) = MaxPermits
      BY <1>1, <2>5, <3>1, ReadersFinite DEF LockInv, Accounting, PermitsConserved
    <3>4. Inside("read") \in SUBSET Client /\ Inside("read") # Client
      BY <3>2 DEF Inside
    <3>5. Cardinality(Inside("read")) < Cardinality(Client)
      <4>1. Cardinality(Inside("read")) # Cardinality(Client)
        BY <3>4, FS_Subset, PermitsAssumption
      <4>2. Cardinality(Client) \in Nat
        BY FS_CardinalityType, PermitsAssumption
      <4> QED
        BY <4>1, <4>2, ReadersFinite
    <3>6. Cardinality(Client) \in Nat
      BY FS_CardinalityType, PermitsAssumption
    <3> QED
      BY <1>1, <3>3, <3>5, <3>6, PermitsAssumption
  <2> QED
    BY <1>1, <2>3, <2>4, <2>5
<1>8. CASE Signal(c)
  <2>1. /\ pc'[c] # "parked" /\ counter' = counter /\ queue' = queue
    BY <1>1, <1>8 DEF Signal, Goto
  <2>2. CASE mode[c] = "read"
    BY <1>2, <1>4, <2>1, <2>2
  <2>3. CASE mode[c] = "write"
    <3>1. Permits(c) = MaxPermits
      BY <2>3 DEF Permits
    <3>2. Len(queue) \in Nat /\ notified \in 0 .. Len(queue) /\ Len(queue) <= MaxPermits
      BY <1>1, QueueFits DEF Listeners
    <3>3. notified' = Len(queue)
      BY <1>1, <1>8, <3>1, <3>2 DEF Signal, NotifiedBy, AtLeast, AtMost
    <3>4. PICK i \in DOMAIN queue : queue[i] = s
      <4>1. Listeners'
        BY NextListeners
      <4> QED
        BY <1>2, <2>1, <4>1 DEF Listeners, OneListenerEach
    <3>5. i <= notified'
      BY <1>1, <3>2, <3>3 DEF Listeners
    <3> QED
      BY <1>2, <2>1, <3>4, <3>5 DEF IsNotified
  <2> QED
    BY <1>1, <2>2, <2>3
<1> QED
  BY <1>3, <1>5, <1>6, <1>7, <1>8 DEF Advance

\* The invariant holds in every state of the lock.
THEOREM LockInvariant == LockSpec => []LockInv
<1>1. LockInit => LockInv
  BY InitLockInv
<1>2. LockInv /\ [LockNext]_lockVars => LockInv'
  <2> SUFFICES ASSUME LockInv, [LockNext]_lockVars PROVE LockInv'
    OBVIOUS
  <2>1. CASE LockNext
    BY <2>1, NextAccounting, NextListeners, NextWakeup, NextReaders DEF LockInv
  <2>2. CASE UNCHANGED lockVars
    <3>1. Accounting' /\ Listeners'
      BY <2>2 DEF lockVars, LockInv, Accounting, Listeners, Exclusive, PermitsConserved, Inside, OneListenerEach
    <3>2. NoLostWakeup' /\ ReadersFirst'
      BY <2>2 DEF lockVars, LockInv, NoLostWakeup, ReadersFirst, Asleep, Awake, IsNotified
    <3> QED
      BY <3>1, <3>2 DEF LockInv
  <2> QED
    BY <2>1, <2>2
<1> QED
  BY <1>1, <1>2, PTL DEF LockSpec

\* The counter of the semaphore, the event's queue and count stay well formed.
THEOREM LockTypeCorrect == LockSpec => []LockTypeOK
<1>1. LockInv => LockTypeOK
  BY DEF LockInv, Accounting, Listeners, LockTypeOK
<1> QED
  BY <1>1, LockInvariant, PTL

\* A write guard excludes every other guard, for any number of readers and
\* writers and whatever they yield or cancel.
THEOREM WritersAreAlone == LockSpec => []Exclusive
<1>1. LockInv => Exclusive
  BY DEF LockInv, Accounting
<1> QED
  BY <1>1, LockInvariant, PTL

\* fetch_add never wraps the counter around, and no permit is lost.
THEOREM CounterIsExact == LockSpec => []PermitsConserved
<1>1. LockInv => PermitsConserved
  BY DEF LockInv, Accounting
<1> QED
  BY <1>1, LockInvariant, PTL

\* No acquire, cancellation or yield leaks a listener.
THEOREM NoListenerLeaks == LockSpec => []OneListenerEach
<1>1. LockInv => OneListenerEach
  BY DEF LockInv, Listeners
<1> QED
  BY <1>1, LockInvariant, PTL

\* A free lock never has only sleepers: listening before the second try, and
\* passing on the notification of a dropped listener, are enough.
THEOREM WakeupsReachSomeone == LockSpec => []NoLostWakeup
<1>1. LockInv => NoLostWakeup
  BY DEF LockInv
<1> QED
  BY <1>1, LockInvariant, PTL

\* No reader sleeps behind a waiting writer.
THEOREM ReadersAreFirst == LockSpec => []ReadersFirst
<1>1. LockInv => ReadersFirst
  BY DEF LockInv
<1> QED
  BY <1>1, LockInvariant, PTL

-----------------------------------------------------------------------------
(* The consensus manager *)

Items == [current : Keys \cup {None}, staging : Keys \cup {None}, maxKey : 0..MaxKey, archival : BOOLEAN]

TypeOK ==
  /\ disk \in Items /\ meta \in Items
  /\ entries \subseteq Keys /\ dirs \subseteq Keys
  /\ node \in {"down", "boot", "create", "save", "up", "exited"}
  /\ archival \in BOOLEAN
  /\ staging \in [pc : {"idle", "create", "open", "committed", "joining", "cancelled"}, key : Keys \cup {None}]
  /\ del \in [pc : {"idle", "stagingDir", "stagingEntry", "cancel", "dirs", "entries"},
              todo : SUBSET Keys, gone : SUBSET Keys]

\* What is on disk, whether the node runs or not.
DiskOK ==
  /\ ActiveIsIntact
  /\ disk.current # None => disk.current <= disk.maxKey
  /\ disk.staging # None => disk.staging <= disk.maxKey /\ disk.staging # disk.current
  /\ \A k \in entries : k <= disk.maxKey

\* The cache of a running node differs at most in the mark of archival nodes.
CacheOK ==
  node \notin {"down", "exited"} =>
    meta.current = disk.current /\ meta.staging = disk.staging /\ meta.maxKey = disk.maxKey

\* A new active consensus is under the key that was captured, which is nobody else's.
BootOK ==
  /\ node \in {"create", "save"} =>
       /\ meta.current = None /\ meta.maxKey # 0 /\ meta.staging # meta.maxKey
       /\ StoreFree
  /\ node = "save" => meta.maxKey \in dirs
  /\ node = "up" => current # None /\ current = meta.current

\* The staging consensus of an IBD is the one of the metadata until it is
\* committed, and nothing is deleted before it is.
StagingOK ==
  /\ staging.pc # "idle" => node = "up"
  /\ staging.pc \in {"create", "open", "joining", "cancelled"} =>
       staging.key # None /\ staging.key = meta.staging
  /\ staging.pc \in {"create", "open", "joining"} => staging.key \in entries
  /\ staging.pc \in {"open", "joining"} => staging.key \in dirs
  /\ staging.pc \in {"create", "open", "joining", "committed"} => StoreFree

\* No deletion has the active consensus on its list.
DeletionOK ==
  /\ ~StoreFree => node \in {"boot", "up"}
  /\ del.pc \in {"stagingDir", "stagingEntry", "cancel"} =>
       meta.staging # None /\ del.todo = {} /\ del.gone = {}
  /\ meta.current \notin del.todo \cup del.gone
  /\ StoreFree => del.todo = {} /\ del.gone = {}

InstanceInv ==
  TypeOK /\ DiskOK /\ CacheOK /\ BootOK /\ StagingOK /\ DeletionOK

-----------------------------------------------------------------------------
(* The invariant *)

\* InstanceInv holds of a node that was never started.
LEMMA InstanceInvInit == InstanceInit => InstanceInv
PROOF
<1> SUFFICES ASSUME InstanceInit PROVE InstanceInv
  OBVIOUS
<1>1. disk \in Items /\ disk.current = None /\ disk.staging = None /\ meta = disk
  BY ManagerAssumption DEF InstanceInit, Items, Keys
<1>2. TypeOK
  BY <1>1, Zenon DEF InstanceInit, TypeOK, NoDeletion, Idle
<1>3. DiskOK /\ CacheOK /\ BootOK /\ StagingOK
  BY <1>1 DEF InstanceInit, DiskOK, ActiveIsIntact, CacheOK, BootOK, StagingOK, NoDeletion, Idle
<1>4. DeletionOK
  BY <1>1 DEF InstanceInit, DeletionOK, NoDeletion, StoreFree
<1> QED
  BY <1>2, <1>3, <1>4 DEF InstanceInv

\* The worker, the threads of the instances and the sessions leave alone what
\* InstanceInv is about.
LEMMA Frame ==
  ASSUME InstanceInv,
         UNCHANGED <<disk, entries, dirs, node, meta, archival, current, staging, del>>
  PROVE  InstanceInv'
PROOF
  BY DEF InstanceInv, TypeOK, Items, Keys, DiskOK, ActiveIsIntact, CacheOK, BootOK, StoreFree,
     StagingOK, DeletionOK

\* Every step of the manager, its IBD and its deletions preserves InstanceInv.
LEMMA InstanceInvStep == InstanceInv /\ [InstanceNext]_instanceVars => InstanceInv'
PROOF
<1> SUFFICES ASSUME InstanceInv, [InstanceNext]_instanceVars PROVE InstanceInv'
  OBVIOUS
<1>0. /\ TypeOK /\ DiskOK /\ CacheOK /\ BootOK /\ StagingOK /\ DeletionOK
      /\ MaxKey \in Nat /\ None \notin Nat /\ None \notin Keys
  BY ManagerAssumption DEF InstanceInv, Keys
<1> USE DEF Items, Keys, StoreFree, NoDeletion, Idle, diskVars
<1>1. CASE Start
  <2>1. TypeOK'
    BY <1>0, <1>1, Zenon DEF Start, Process, BeginDeletion, Inactive, TypeOK, CacheOK, BootOK, StagingOK
  <2>2. DiskOK'
    BY <1>0, <1>1 DEF Start, Process, BeginDeletion, Inactive, TypeOK, DiskOK, CacheOK, BootOK, StagingOK, DeletionOK, ActiveIsIntact
  <2>3. CacheOK'
    BY <1>0, <1>1 DEF Start, Process, BeginDeletion, Inactive, TypeOK, CacheOK
  <2>4. BootOK'
    BY <1>0, <1>1 DEF Start, Process, BeginDeletion, Inactive, TypeOK, DiskOK, CacheOK, BootOK, StagingOK, DeletionOK
  <2>5. StagingOK'
    BY <1>0, <1>1 DEF Start, Process, BeginDeletion, Inactive, TypeOK, CacheOK, BootOK, StagingOK, DeletionOK
  <2>6. DeletionOK'
    BY <1>0, <1>1 DEF Start, Process, BeginDeletion, Inactive, TypeOK, DiskOK, BootOK, StagingOK, DeletionOK
  <2> QED
    BY <2>1, <2>2, <2>3, <2>4, <2>5, <2>6 DEF InstanceInv
<1>2. CASE OpenActive
  <2>1. TypeOK'
    BY <1>0, <1>2 DEF OpenActive, WriteMeta, TypeOK, CacheOK, BootOK, StagingOK
  <2>2. DiskOK'
    BY <1>0, <1>2 DEF OpenActive, WriteMeta, TypeOK, DiskOK, CacheOK, BootOK, StagingOK, DeletionOK, ActiveIsIntact
  <2>3. CacheOK'
    BY <1>0, <1>2 DEF OpenActive, WriteMeta, TypeOK, CacheOK
  <2>4. BootOK'
    BY <1>0, <1>2 DEF OpenActive, WriteMeta, TypeOK, DiskOK, CacheOK, BootOK, StagingOK, DeletionOK
  <2>5. StagingOK'
    BY <1>0, <1>2 DEF OpenActive, WriteMeta, TypeOK, CacheOK, BootOK, StagingOK, DeletionOK
  <2>6. DeletionOK'
    BY <1>0, <1>2 DEF OpenActive, WriteMeta, TypeOK, DiskOK, BootOK, StagingOK, DeletionOK
  <2> QED
    BY <2>1, <2>2, <2>3, <2>4, <2>5, <2>6 DEF InstanceInv
<1>3. CASE CreateActive
  <2>k. meta.maxKey \in Keys
    BY <1>0, <1>3 DEF CreateActive, TypeOK, BootOK
  <2>1. TypeOK'
    BY <1>0, <1>3, <2>k, Zenon DEF CreateActive, TypeOK, CacheOK, BootOK, StagingOK
  <2>2. DiskOK'
    BY <1>0, <1>3 DEF CreateActive, TypeOK, DiskOK, CacheOK, BootOK, StagingOK, DeletionOK, ActiveIsIntact
  <2>3. CacheOK'
    BY <1>0, <1>3 DEF CreateActive, TypeOK, CacheOK
  <2>4. BootOK'
    BY <1>0, <1>3 DEF CreateActive, TypeOK, DiskOK, CacheOK, BootOK, StagingOK, DeletionOK
  <2>5. StagingOK'
    BY <1>0, <1>3 DEF CreateActive, TypeOK, CacheOK, BootOK, StagingOK, DeletionOK
  <2>6. DeletionOK'
    BY <1>0, <1>3 DEF CreateActive, TypeOK, DiskOK, BootOK, StagingOK, DeletionOK
  <2> QED
    BY <2>1, <2>2, <2>3, <2>4, <2>5, <2>6 DEF InstanceInv
<1>4. CASE SaveActive
  <2>1. TypeOK'
    BY <1>0, <1>4 DEF SaveActive, WriteMeta, TypeOK, CacheOK, BootOK, StagingOK
  <2>2. DiskOK'
    BY <1>0, <1>4 DEF SaveActive, WriteMeta, TypeOK, DiskOK, CacheOK, BootOK, StagingOK, DeletionOK, ActiveIsIntact
  <2>3. CacheOK'
    BY <1>0, <1>4 DEF SaveActive, WriteMeta, TypeOK, CacheOK
  <2>4. BootOK'
    BY <1>0, <1>4 DEF SaveActive, WriteMeta, TypeOK, DiskOK, CacheOK, BootOK, StagingOK, DeletionOK
  <2>5. StagingOK'
    BY <1>0, <1>4 DEF SaveActive, WriteMeta, TypeOK, CacheOK, BootOK, StagingOK, DeletionOK
  <2>6. DeletionOK'
    BY <1>0, <1>4 DEF SaveActive, WriteMeta, TypeOK, DiskOK, BootOK, StagingOK, DeletionOK
  <2> QED
    BY <2>1, <2>2, <2>3, <2>4, <2>5, <2>6 DEF InstanceInv
<1>5. CASE RemoveStagingDir
  <2>1. TypeOK'
    BY <1>0, <1>5 DEF RemoveStagingDir, DeletionUnchanged, TypeOK, CacheOK, BootOK, StagingOK
  <2>2. DiskOK'
    BY <1>0, <1>5 DEF RemoveStagingDir, DeletionUnchanged, TypeOK, DiskOK, CacheOK, BootOK, StagingOK, DeletionOK, ActiveIsIntact
  <2>3. CacheOK'
    BY <1>0, <1>5 DEF RemoveStagingDir, DeletionUnchanged, TypeOK, CacheOK
  <2>4. BootOK'
    BY <1>0, <1>5 DEF RemoveStagingDir, DeletionUnchanged, TypeOK, DiskOK, CacheOK, BootOK, StagingOK, DeletionOK
  <2>5. StagingOK'
    BY <1>0, <1>5 DEF RemoveStagingDir, DeletionUnchanged, TypeOK, CacheOK, BootOK, StagingOK, DeletionOK
  <2>6. DeletionOK'
    BY <1>0, <1>5 DEF RemoveStagingDir, DeletionUnchanged, TypeOK, DiskOK, BootOK, StagingOK, DeletionOK
  <2> QED
    BY <2>1, <2>2, <2>3, <2>4, <2>5, <2>6 DEF InstanceInv
<1>6. CASE RemoveStagingEntry
  <2>1. TypeOK'
    BY <1>0, <1>6 DEF RemoveStagingEntry, DeletionUnchanged, TypeOK, CacheOK, BootOK, StagingOK
  <2>2. DiskOK'
    BY <1>0, <1>6 DEF RemoveStagingEntry, DeletionUnchanged, TypeOK, DiskOK, CacheOK, BootOK, StagingOK, DeletionOK, ActiveIsIntact
  <2>3. CacheOK'
    BY <1>0, <1>6 DEF RemoveStagingEntry, DeletionUnchanged, TypeOK, CacheOK
  <2>4. BootOK'
    BY <1>0, <1>6 DEF RemoveStagingEntry, DeletionUnchanged, TypeOK, DiskOK, CacheOK, BootOK, StagingOK, DeletionOK
  <2>5. StagingOK'
    BY <1>0, <1>6 DEF RemoveStagingEntry, DeletionUnchanged, TypeOK, CacheOK, BootOK, StagingOK, DeletionOK
  <2>6. DeletionOK'
    BY <1>0, <1>6 DEF RemoveStagingEntry, DeletionUnchanged, TypeOK, DiskOK, BootOK, StagingOK, DeletionOK
  <2> QED
    BY <2>1, <2>2, <2>3, <2>4, <2>5, <2>6 DEF InstanceInv
<1>7. CASE CancelStaging
  <2>1. TypeOK'
    BY <1>0, <1>7, Zenon DEF CancelStaging, WriteMeta, AfterStaging, Inactive, TypeOK, CacheOK, BootOK, StagingOK
  <2>2. DiskOK'
    BY <1>0, <1>7 DEF CancelStaging, WriteMeta, AfterStaging, Inactive, TypeOK, DiskOK, CacheOK, BootOK, StagingOK, DeletionOK, ActiveIsIntact
  <2>3. CacheOK'
    BY <1>0, <1>7 DEF CancelStaging, WriteMeta, AfterStaging, Inactive, TypeOK, CacheOK
  <2>4. BootOK'
    BY <1>0, <1>7 DEF CancelStaging, WriteMeta, AfterStaging, Inactive, TypeOK, DiskOK, CacheOK, BootOK, StagingOK, DeletionOK
  <2>5. StagingOK'
    BY <1>0, <1>7 DEF CancelStaging, WriteMeta, AfterStaging, Inactive, TypeOK, CacheOK, BootOK, StagingOK, DeletionOK
  <2>6. DeletionOK'
    BY <1>0, <1>7 DEF CancelStaging, WriteMeta, AfterStaging, Inactive, TypeOK, DiskOK, BootOK, StagingOK, DeletionOK
  <2> QED
    BY <2>1, <2>2, <2>3, <2>4, <2>5, <2>6 DEF InstanceInv
<1>8. CASE RemoveDir
  <2>0. UNCHANGED <<disk, entries, meta, node, archival, current, staging>> /\ del.pc = "dirs"
    BY <1>8, Zenon DEF RemoveDir, DeletionUnchanged
  <2>1. CASE del.todo = {}
    <3>1. del' = [del EXCEPT !.pc = "entries"] /\ UNCHANGED dirs
      BY <1>8, <2>1 DEF RemoveDir
    <3> QED
      BY <1>0, <2>0, <2>1, <3>1 DEF InstanceInv, TypeOK, DiskOK, CacheOK, BootOK, StagingOK, DeletionOK, ActiveIsIntact
  <2>2. CASE del.todo # {}
    <3>1. PICK k \in del.todo :
            \/ dirs' = dirs \ {k} /\ del' = [del EXCEPT !.todo = @ \ {k}, !.gone = @ \cup {k}]
            \/ UNCHANGED dirs /\ del' = [del EXCEPT !.todo = @ \ {k}]
      BY <1>8, <2>2, Zenon DEF RemoveDir
    <3>a. k \in Keys /\ k # meta.current /\ del \in [pc : {"dirs"}, todo : SUBSET Keys, gone : SUBSET Keys]
      BY <1>0, <2>0, <3>1 DEF TypeOK, DeletionOK
    <3>b. del' \in [pc : {"dirs"}, todo : SUBSET Keys, gone : SUBSET Keys]
      <4>1. CASE del' = [del EXCEPT !.todo = @ \ {k}]
        BY <3>a, <4>1
      <4>2. CASE del' = [del EXCEPT !.todo = @ \ {k}, !.gone = @ \cup {k}]
        BY <3>a, <4>2, Zenon
      <4> QED
        BY <3>1, <4>1, <4>2
    <3>c. dirs' \subseteq Keys /\ (\A d \in dirs : d # k => d \in dirs')
      BY <1>0, <3>1 DEF TypeOK
    <3>d. del'.todo \subseteq del.todo /\ del'.gone \subseteq del.gone \cup {k}
      <4>1. CASE del' = [del EXCEPT !.todo = @ \ {k}]
        BY <3>a, <4>1
      <4>2. CASE del' = [del EXCEPT !.todo = @ \ {k}, !.gone = @ \cup {k}]
        BY <3>a, <4>2
      <4> QED
        BY <3>1, <4>1, <4>2
    <3>2. /\ k \in Keys /\ k # meta.current /\ dirs' \subseteq Keys /\ (\A d \in dirs : d # k => d \in dirs')
          /\ del'.pc = "dirs" /\ del'.todo \subseteq del.todo /\ del'.gone \subseteq del.gone \cup {k}
          /\ del' \in [pc : {"dirs"}, todo : SUBSET Keys, gone : SUBSET Keys]
      BY <3>a, <3>b, <3>c, <3>d
    <3>3. TypeOK'
      BY <1>0, <2>0, <3>2 DEF TypeOK
    <3>4. DiskOK' /\ CacheOK' /\ BootOK' /\ StagingOK'
      BY <1>0, <2>0, <3>2 DEF TypeOK, DiskOK, CacheOK, BootOK, StagingOK, DeletionOK, ActiveIsIntact
    <3>5. DeletionOK'
      BY <1>0, <2>0, <3>2 DEF DeletionOK
    <3> QED
      BY <3>3, <3>4, <3>5 DEF InstanceInv
  <2> QED
    BY <2>1, <2>2
<1>9. CASE RemoveEntry
  <2>1. TypeOK'
    BY <1>0, <1>9 DEF RemoveEntry, DeletionUnchanged, TypeOK, CacheOK, BootOK, StagingOK
  <2>2. DiskOK'
    BY <1>0, <1>9 DEF RemoveEntry, DeletionUnchanged, TypeOK, DiskOK, CacheOK, BootOK, StagingOK, DeletionOK, ActiveIsIntact
  <2>3. CacheOK'
    BY <1>0, <1>9 DEF RemoveEntry, DeletionUnchanged, TypeOK, CacheOK
  <2>4. BootOK'
    BY <1>0, <1>9 DEF RemoveEntry, DeletionUnchanged, TypeOK, DiskOK, CacheOK, BootOK, StagingOK, DeletionOK
  <2>5. StagingOK'
    BY <1>0, <1>9 DEF RemoveEntry, DeletionUnchanged, TypeOK, CacheOK, BootOK, StagingOK, DeletionOK
  <2>6. DeletionOK'
    BY <1>0, <1>9 DEF RemoveEntry, DeletionUnchanged, TypeOK, DiskOK, BootOK, StagingOK, DeletionOK
  <2> QED
    BY <2>1, <2>2, <2>3, <2>4, <2>5, <2>6 DEF InstanceInv
<1>10. CASE NewStaging
  <2>1. TypeOK'
    <3>1. meta.maxKey + 1 \in Keys /\ meta.maxKey + 1 \in 0..MaxKey
      BY <1>0, <1>10 DEF NewStaging, TypeOK
    <3>2. disk' = meta' /\ meta' = [meta EXCEPT !.maxKey = meta.maxKey + 1, !.staging = meta.maxKey + 1]
      BY <1>10 DEF NewStaging, WriteMeta
    <3>3. meta' \in Items
      <4> HIDE DEF Keys
      <4> QED
        BY <1>0, <3>1, <3>2, Zenon DEF TypeOK
    <3> QED
      BY <1>0, <3>1, <3>2, <3>3, <1>10 DEF NewStaging, StagingUnchanged, TypeOK
  <2>2. DiskOK'
    BY <1>0, <1>10 DEF NewStaging, WriteMeta, StagingUnchanged, TypeOK, DiskOK, CacheOK, BootOK, StagingOK, DeletionOK, ActiveIsIntact
  <2>3. CacheOK'
    BY <1>0, <1>10 DEF NewStaging, WriteMeta, StagingUnchanged, TypeOK, CacheOK
  <2>4. BootOK'
    BY <1>0, <1>10 DEF NewStaging, WriteMeta, StagingUnchanged, TypeOK, DiskOK, CacheOK, BootOK, StagingOK, DeletionOK
  <2>5. StagingOK'
    BY <1>0, <1>10 DEF NewStaging, WriteMeta, StagingUnchanged, TypeOK, CacheOK, BootOK, StagingOK, DeletionOK
  <2>6. DeletionOK'
    BY <1>0, <1>10 DEF NewStaging, WriteMeta, StagingUnchanged, TypeOK, DiskOK, BootOK, StagingOK, DeletionOK
  <2> QED
    BY <2>1, <2>2, <2>3, <2>4, <2>5, <2>6 DEF InstanceInv
<1>11. CASE CreateStaging
  <2>1. TypeOK'
    BY <1>0, <1>11 DEF CreateStaging, StagingUnchanged, TypeOK, CacheOK, BootOK, StagingOK
  <2>2. DiskOK'
    BY <1>0, <1>11 DEF CreateStaging, StagingUnchanged, TypeOK, DiskOK, CacheOK, BootOK, StagingOK, DeletionOK, ActiveIsIntact
  <2>3. CacheOK'
    BY <1>0, <1>11 DEF CreateStaging, StagingUnchanged, TypeOK, CacheOK
  <2>4. BootOK'
    BY <1>0, <1>11 DEF CreateStaging, StagingUnchanged, TypeOK, DiskOK, CacheOK, BootOK, StagingOK, DeletionOK
  <2>5. StagingOK'
    BY <1>0, <1>11 DEF CreateStaging, StagingUnchanged, TypeOK, CacheOK, BootOK, StagingOK, DeletionOK
  <2>6. DeletionOK'
    BY <1>0, <1>11 DEF CreateStaging, StagingUnchanged, TypeOK, DiskOK, BootOK, StagingOK, DeletionOK
  <2> QED
    BY <2>1, <2>2, <2>3, <2>4, <2>5, <2>6 DEF InstanceInv
<1>12. CASE Commit
  <2>1. TypeOK'
    BY <1>0, <1>12, Zenon DEF Commit, WriteMeta, MadeActive, Extend, StopPrevious, StagingUnchanged, TypeOK, CacheOK, BootOK, StagingOK
  <2>2. DiskOK'
    BY <1>0, <1>12 DEF Commit, WriteMeta, MadeActive, Extend, StopPrevious, StagingUnchanged, TypeOK, DiskOK, CacheOK, BootOK, StagingOK, DeletionOK, ActiveIsIntact
  <2>3. CacheOK'
    BY <1>0, <1>12 DEF Commit, WriteMeta, MadeActive, Extend, StopPrevious, StagingUnchanged, TypeOK, CacheOK
  <2>4. BootOK'
    BY <1>0, <1>12 DEF Commit, WriteMeta, MadeActive, Extend, StopPrevious, StagingUnchanged, TypeOK, DiskOK, CacheOK, BootOK, StagingOK, DeletionOK
  <2>5. StagingOK'
    BY <1>0, <1>12 DEF Commit, WriteMeta, MadeActive, Extend, StopPrevious, StagingUnchanged, TypeOK, CacheOK, BootOK, StagingOK, DeletionOK
  <2>6. DeletionOK'
    BY <1>0, <1>12 DEF Commit, WriteMeta, MadeActive, Extend, StopPrevious, StagingUnchanged, TypeOK, DiskOK, BootOK, StagingOK, DeletionOK
  <2> QED
    BY <2>1, <2>2, <2>3, <2>4, <2>5, <2>6 DEF InstanceInv
<1>13. CASE AfterCommit
  <2>1. TypeOK'
    BY <1>0, <1>13, Zenon DEF AfterCommit, BeginDeletion, Inactive, TypeOK, CacheOK, BootOK, StagingOK
  <2>2. DiskOK'
    BY <1>0, <1>13 DEF AfterCommit, BeginDeletion, Inactive, TypeOK, DiskOK, CacheOK, BootOK, StagingOK, DeletionOK, ActiveIsIntact
  <2>3. CacheOK'
    BY <1>0, <1>13 DEF AfterCommit, BeginDeletion, Inactive, TypeOK, CacheOK
  <2>4. BootOK'
    BY <1>0, <1>13 DEF AfterCommit, BeginDeletion, Inactive, TypeOK, DiskOK, CacheOK, BootOK, StagingOK, DeletionOK
  <2>5. StagingOK'
    BY <1>0, <1>13 DEF AfterCommit, BeginDeletion, Inactive, TypeOK, CacheOK, BootOK, StagingOK, DeletionOK
  <2>6. DeletionOK'
    BY <1>0, <1>13 DEF AfterCommit, BeginDeletion, Inactive, TypeOK, DiskOK, BootOK, StagingOK, DeletionOK
  <2> QED
    BY <2>1, <2>2, <2>3, <2>4, <2>5, <2>6 DEF InstanceInv
<1>14. CASE StagingCancel
  <2>1. TypeOK'
    BY <1>0, <1>14 DEF StagingCancel, StagingUnchanged, TypeOK, CacheOK, BootOK, StagingOK
  <2>2. DiskOK'
    BY <1>0, <1>14 DEF StagingCancel, StagingUnchanged, TypeOK, DiskOK, CacheOK, BootOK, StagingOK, DeletionOK, ActiveIsIntact
  <2>3. CacheOK'
    BY <1>0, <1>14 DEF StagingCancel, StagingUnchanged, TypeOK, CacheOK
  <2>4. BootOK'
    BY <1>0, <1>14 DEF StagingCancel, StagingUnchanged, TypeOK, DiskOK, CacheOK, BootOK, StagingOK, DeletionOK
  <2>5. StagingOK'
    BY <1>0, <1>14 DEF StagingCancel, StagingUnchanged, TypeOK, CacheOK, BootOK, StagingOK, DeletionOK
  <2>6. DeletionOK'
    BY <1>0, <1>14 DEF StagingCancel, StagingUnchanged, TypeOK, DiskOK, BootOK, StagingOK, DeletionOK
  <2> QED
    BY <2>1, <2>2, <2>3, <2>4, <2>5, <2>6 DEF InstanceInv
<1>15. CASE CancelJoined
  <2>1. TypeOK'
    BY <1>0, <1>15 DEF CancelJoined, StagingUnchanged, TypeOK, CacheOK, BootOK, StagingOK
  <2>2. DiskOK'
    BY <1>0, <1>15 DEF CancelJoined, StagingUnchanged, TypeOK, DiskOK, CacheOK, BootOK, StagingOK, DeletionOK, ActiveIsIntact
  <2>3. CacheOK'
    BY <1>0, <1>15 DEF CancelJoined, StagingUnchanged, TypeOK, CacheOK
  <2>4. BootOK'
    BY <1>0, <1>15 DEF CancelJoined, StagingUnchanged, TypeOK, DiskOK, CacheOK, BootOK, StagingOK, DeletionOK
  <2>5. StagingOK'
    BY <1>0, <1>15 DEF CancelJoined, StagingUnchanged, TypeOK, CacheOK, BootOK, StagingOK, DeletionOK
  <2>6. DeletionOK'
    BY <1>0, <1>15 DEF CancelJoined, StagingUnchanged, TypeOK, DiskOK, BootOK, StagingOK, DeletionOK
  <2> QED
    BY <2>1, <2>2, <2>3, <2>4, <2>5, <2>6 DEF InstanceInv
<1>16. CASE Exit
  <2>1. TypeOK'
    BY <1>0, <1>16 DEF Exit, Process, TypeOK, CacheOK, BootOK, StagingOK
  <2>2. DiskOK'
    BY <1>0, <1>16 DEF Exit, Process, TypeOK, DiskOK, CacheOK, BootOK, StagingOK, DeletionOK, ActiveIsIntact
  <2>3. CacheOK'
    BY <1>0, <1>16 DEF Exit, Process, TypeOK, CacheOK
  <2>4. BootOK'
    BY <1>0, <1>16 DEF Exit, Process, TypeOK, DiskOK, CacheOK, BootOK, StagingOK, DeletionOK
  <2>5. StagingOK'
    BY <1>0, <1>16 DEF Exit, Process, TypeOK, CacheOK, BootOK, StagingOK, DeletionOK
  <2>6. DeletionOK'
    BY <1>0, <1>16 DEF Exit, Process, TypeOK, DiskOK, BootOK, StagingOK, DeletionOK
  <2> QED
    BY <2>1, <2>2, <2>3, <2>4, <2>5, <2>6 DEF InstanceInv
<1>17. CASE Crash
  <2>1. TypeOK'
    BY <1>0, <1>17 DEF Crash, Process, TypeOK, CacheOK, BootOK, StagingOK
  <2>2. DiskOK'
    BY <1>0, <1>17 DEF Crash, Process, TypeOK, DiskOK, CacheOK, BootOK, StagingOK, DeletionOK, ActiveIsIntact
  <2>3. CacheOK'
    BY <1>0, <1>17 DEF Crash, Process, TypeOK, CacheOK
  <2>4. BootOK'
    BY <1>0, <1>17 DEF Crash, Process, TypeOK, DiskOK, CacheOK, BootOK, StagingOK, DeletionOK
  <2>5. StagingOK'
    BY <1>0, <1>17 DEF Crash, Process, TypeOK, CacheOK, BootOK, StagingOK, DeletionOK
  <2>6. DeletionOK'
    BY <1>0, <1>17 DEF Crash, Process, TypeOK, DiskOK, BootOK, StagingOK, DeletionOK
  <2> QED
    BY <2>1, <2>2, <2>3, <2>4, <2>5, <2>6 DEF InstanceInv
<1>18. CASE WorkerStart
  BY <1>18, Frame DEF WorkerStart, ManagerUnchanged, diskVars
<1>19. CASE WorkerExtend
  BY <1>19, Frame DEF WorkerExtend, ManagerUnchanged, diskVars
<1>20. CASE WorkerPop
  BY <1>20, Frame DEF WorkerPop, ManagerUnchanged, diskVars
<1>21. CASE WorkerJoin
  BY <1>21, Frame DEF WorkerJoin, ManagerUnchanged, diskVars
<1>22. CASE Stop
  BY <1>22, Frame DEF Stop, ManagerUnchanged, diskVars
<1>23. ASSUME NEW k \in Keys, ThreadsEnd(k) PROVE InstanceInv'
  BY <1>23, Frame DEF ThreadsEnd, ManagerUnchanged, diskVars
<1>24. ASSUME NEW s \in Sessions, Session(s) PROVE InstanceInv'
  BY <1>24, Frame DEF Session, diskVars
<1>25. CASE UNCHANGED instanceVars
  BY <1>25, Frame DEF instanceVars, diskVars
<1>26. CASE StartPanics
  <2>1. TypeOK'
    BY <1>0, <1>26 DEF StartPanics, Process, TypeOK, CacheOK, BootOK, StagingOK
  <2>2. DiskOK'
    BY <1>0, <1>26 DEF StartPanics, Process, TypeOK, DiskOK, CacheOK, BootOK, StagingOK, DeletionOK, ActiveIsIntact
  <2>3. CacheOK'
    BY <1>0, <1>26 DEF StartPanics, Process, TypeOK, CacheOK
  <2>4. BootOK'
    BY <1>0, <1>26 DEF StartPanics, Process, TypeOK, DiskOK, CacheOK, BootOK, StagingOK, DeletionOK
  <2>5. StagingOK'
    BY <1>0, <1>26 DEF StartPanics, Process, TypeOK, CacheOK, BootOK, StagingOK, DeletionOK
  <2>6. DeletionOK'
    BY <1>0, <1>26 DEF StartPanics, Process, TypeOK, DiskOK, BootOK, StagingOK, DeletionOK
  <2> QED
    BY <2>1, <2>2, <2>3, <2>4, <2>5, <2>6 DEF InstanceInv
<1> QED
  BY <1>1, <1>2, <1>3, <1>4, <1>5, <1>6, <1>7, <1>8, <1>9, <1>10, <1>11, <1>12, <1>13, <1>14, <1>15, <1>16, <1>17, <1>18, <1>19, <1>20, <1>21, <1>22, <1>23, <1>24, <1>25, <1>26
     DEF InstanceNext, Boot, Deletion, Worker, IbdEnds

\* InstanceInv is an invariant of the manager.
LEMMA InstanceInvariant == InstanceSpec => []InstanceInv
PROOF
<1>1. InstanceInit => InstanceInv
  BY InstanceInvInit
<1>2. InstanceInv /\ [InstanceNext]_instanceVars => InstanceInv'
  BY InstanceInvStep
<1> QED
  BY <1>1, <1>2, PTL DEF InstanceSpec

\* At every moment the node may crash at, the active consensus of the metadata has
\* its entry and its database: new_active_consensus saves last, commit switches
\* before the previous one is deleted, and no deletion hits the active one.  It is
\* about the data: a crash inside delete_staging_entry may leave a staging key that
\* every later start panics on, with the active consensus untouched.
THEOREM ActiveStaysIntact == InstanceSpec => []ActiveIsIntact
PROOF
<1>1. InstanceInv => ActiveIsIntact
  BY DEF InstanceInv, DiskOK
<1> QED
  BY <1>1, InstanceInvariant, PTL

\* The instance the manager hands out is the one a restart loads: the staging key
\* that make_active turns into the current one is that of the instance it commits.
THEOREM CommittedStaysActive == InstanceSpec => []CommittedIsActive
PROOF
<1>1. InstanceInv => CommittedIsActive
  BY DEF InstanceInv, BootOK, CommittedIsActive
<1> QED
  BY <1>1, InstanceInvariant, PTL

=============================================================================
