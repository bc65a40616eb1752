------------------------- MODULE DepsManagerProofs -------------------------
(***************************************************************************)
(* For any set of blocks, any acyclic parent relation and any submissions: *)
(* the invariants of the dependency manager, and that it implements the    *)
(* task service.                                                           *)
(***************************************************************************)
EXTENDS DepsManager, SequenceTheorems, TLAPS

\* A new manager satisfies the invariant.
LEMMA InitManagerInv == ManagerInit => ManagerInv
BY TaskAssumption DEF ManagerInit, ManagerInv, ManagerTypeOK, QueuesConsistent, ExpectationsHold,
   ExactlyOnePlace, IdleMeansDone, Pending, NoDependents

\* What a queue looks like after a task joins it.
LEMMA AppendQueue ==
  ASSUME NEW q \in Seq(Task), NEW t \in Task
  PROVE  /\ Append(q, t) \in Seq(Task)
         /\ Append(q, t) # <<>>
         /\ DOMAIN Append(q, t) = 1 .. Len(q) + 1
         /\ DOMAIN q = 1 .. Len(q)
         /\ \A i \in DOMAIN q : Append(q, t)[i] = q[i]
         /\ Append(q, t)[Len(q) + 1] = t
         /\ q # <<>> => Head(Append(q, t)) = Head(q)
         /\ q = <<>> => Head(Append(q, t)) = t
BY AppendProperties, LenProperties, HeadTailAppend

\* What a queue looks like after its front task is popped.
LEMMA TailQueue ==
  ASSUME NEW q \in Seq(Task), q # <<>>
  PROVE  /\ Head(q) \in Task
         /\ Tail(q) \in Seq(Task)
         /\ 1 \in DOMAIN q /\ q[1] = Head(q)
         /\ DOMAIN q = 1 .. Len(q) /\ Len(q) \in Nat \ {0}
         /\ DOMAIN Tail(q) = 1 .. Len(q) - 1
         /\ \A i \in DOMAIN Tail(q) : i + 1 \in DOMAIN q /\ Tail(q)[i] = q[i + 1]
BY HeadTailProperties, LenProperties, EmptySeq

\* A counter of a bag of hashes can be raised.
LEMMA RaiseCounter ==
  ASSUME NEW f \in [Hash -> Nat], NEW h \in Hash
  PROVE  /\ [f EXCEPT ![h] = f[h] + 1] \in [Hash -> Nat]
         /\ [f EXCEPT ![h] = f[h] + 1][h] = f[h] + 1
         /\ \A x \in Hash \ {h} : [f EXCEPT ![h] = f[h] + 1][x] = f[x]
OBVIOUS

\* register preserves the invariant.
LEMMA ArriveInv ==
  ASSUME ManagerInv, NEW t \in Task, Arrive(t)
  PROVE  ManagerInv'
<1> DEFINE h == HashOf[t]
<1> USE TaskAssumption
<1>1. h \in Hash /\ tasks[h] \in Seq(Task)
  BY DEF ManagerInv, ManagerTypeOK
<1>2. /\ tasks' = [tasks EXCEPT ![h] = Append(tasks[h], t)]
      /\ pool' = [pool EXCEPT ![h] = IF h \in Pending THEN pool[h] ELSE pool[h] + 1]
      /\ UNCHANGED <<taken, dependents, running, ended, idle>>
      /\ idle = "receiving" /\ t \notin ended
      /\ \A i \in DOMAIN tasks[h] : tasks[h][i] # t
  BY DEF Arrive, Register, Queued
<1>3. ManagerTypeOK'
  BY <1>1, <1>2, AppendQueue DEF ManagerInv, ManagerTypeOK
<1>4. /\ tasks'[h] = Append(tasks[h], t)
      /\ \A x \in Hash \ {h} : tasks'[x] = tasks[x] /\ pool'[x] = pool[x]
      /\ pool'[h] = IF h \in Pending THEN pool[h] ELSE pool[h] + 1
  BY <1>1, <1>2 DEF ManagerInv, ManagerTypeOK
<1>5. Pending' = Pending \cup {h}
  BY <1>1, <1>4, AppendQueue DEF Pending
<1>6. QueuesConsistent'
  <2> SUFFICES ASSUME NEW x \in Hash
               PROVE  /\ \A i \in DOMAIN tasks'[x] : HashOf[tasks'[x][i]] = x /\ tasks'[x][i] \notin ended'
                      /\ \A i, j \in DOMAIN tasks'[x] : tasks'[x][i] = tasks'[x][j] => i = j
                      /\ taken'[x] => Head(tasks'[x]) \in running'
    BY DEF QueuesConsistent
  <2>1. CASE x # h
    BY <1>2, <1>4, <2>1 DEF ManagerInv, QueuesConsistent
  <2>2. CASE x = h
    <3>1. taken[h] => tasks[h] # <<>>
      BY <1>1 DEF ManagerInv, ExactlyOnePlace, Pending
    <3>2. QED
      BY <1>1, <1>2, <1>4, <2>2, <3>1, AppendQueue DEF ManagerInv, QueuesConsistent
  <2>3. QED
    BY <2>1, <2>2
<1>7. ExpectationsHold'
  <2>1. ASSUME NEW x \in Hash, pool'[x] > 0
        PROVE  x \in Pending' /\ ~taken'[x]
    BY <1>1, <1>2, <1>4, <1>5, <2>1 DEF ManagerInv, ManagerTypeOK, ExpectationsHold, ExactlyOnePlace
  <2>2. ASSUME NEW u \in running
        PROVE  HashOf[u] \in Pending' /\ taken'[HashOf[u]] /\ Head(tasks'[HashOf[u]]) = u
    <3>1. HashOf[u] \in Hash
      BY DEF ManagerInv, ManagerTypeOK
    <3>2. CASE HashOf[u] = h
      <4>1. tasks[h] # <<>> /\ taken[h] /\ Head(tasks[h]) = u
        BY <3>2 DEF ManagerInv, ExpectationsHold, Pending
      <4>2. Head(tasks'[h]) = u
        BY <1>1, <1>4, <4>1, AppendQueue
      <4>3. QED
        BY <1>1, <1>2, <1>5, <3>2, <4>1, <4>2
    <3>3. CASE HashOf[u] # h
      BY <1>1, <1>2, <1>4, <1>5, <3>1, <3>3 DEF ManagerInv, ExpectationsHold
    <3>4. QED
      BY <3>2, <3>3
  <2>3. QED
    BY <1>2, <2>1, <2>2 DEF ExpectationsHold
<1>8. ExactlyOnePlace'
  <2>1. \A x \in Hash : PendingParents(x) \subseteq PendingParents(x)'
    BY <1>5 DEF PendingParents
  <2>2. ASSUME NEW x \in Hash
        PROVE  IF x \in Pending'
                 THEN \/ OnlyInPool(x)'
                      \/ OnlyTaken(x)'
                      \/ \E i \in PendingParents(x)' : OnlyDependentOf(x, DirectParents[x][i])'
                 ELSE pool'[x] = 0 /\ ~taken'[x] /\ \A p \in Hash : dependents'[p][x] = 0
    <3>1. CASE x \in Pending
      <4>1. pool'[x] = pool[x]
        BY <1>4, <3>1
      <4>2. QED
        BY <1>2, <1>5, <2>1, <3>1, <4>1
        DEF ManagerInv, ExactlyOnePlace, OnlyInPool, OnlyTaken, OnlyDependentOf
    <3>2. CASE x \notin Pending /\ x = h
      BY <1>2, <1>4, <1>5, <3>2 DEF ManagerInv, ExactlyOnePlace, OnlyInPool
    <3>3. CASE x \notin Pending /\ x # h
      BY <1>2, <1>4, <1>5, <3>3 DEF ManagerInv, ExactlyOnePlace
    <3>4. QED
      BY <3>1, <3>2, <3>3
  <2>3. QED
    BY <2>2 DEF ExactlyOnePlace
<1>9. IdleMeansDone'
  BY <1>2 DEF IdleMeansDone
<1>10. QED
  BY <1>3, <1>6, <1>7, <1>8, <1>9 DEF ManagerInv

\* wait_for_idle preserves the invariant.
LEMMA WaitForIdleInv ==
  ASSUME ManagerInv, WaitForIdle
  PROVE  ManagerInv'
<1>1. UNCHANGED <<tasks, taken, dependents, pool, running, ended>>
  BY DEF WaitForIdle
<1>2. Pending' = Pending /\ \A x \in Hash : PendingParents(x)' = PendingParents(x)
  BY <1>1 DEF Pending, PendingParents
<1>3. ManagerTypeOK'
  BY <1>1 DEF WaitForIdle, ManagerInv, ManagerTypeOK
<1>4. QueuesConsistent'
  BY <1>1 DEF ManagerInv, QueuesConsistent
<1>5. ExpectationsHold'
  BY <1>1, <1>2 DEF ManagerInv, ExpectationsHold
<1>6. ExactlyOnePlace'
  BY <1>1, <1>2 DEF ManagerInv, ExactlyOnePlace, OnlyInPool, OnlyTaken, OnlyDependentOf
<1>7. IdleMeansDone'
  BY <1>1, <1>2, Zenon DEF WaitForIdle, ManagerInv, ManagerTypeOK, IdleMeansDone, ExpectationsHold, ExactlyOnePlace
<1>8. QED
  BY <1>3, <1>4, <1>5, <1>6, <1>7 DEF ManagerInv

\* try_begin that finds a pending parent preserves the invariant.
LEMMA DeferInv ==
  ASSUME ManagerInv, NEW h \in Hash, Defer(h)
  PROVE  ManagerInv'
<1>1. PICK p \in Hash :
        /\ p \in Pending
        /\ \E i \in PendingParents(h) : DirectParents[h][i] = p
        /\ dependents' = [dependents EXCEPT ![p] = [dependents[p] EXCEPT ![h] = dependents[p][h] + 1]]
  BY TaskAssumption, Zenon DEF Defer, PendingParents, Pending
<1>2. /\ UNCHANGED <<tasks, taken, running, ended, idle>>
      /\ pool[h] > 0
      /\ pool' = [pool EXCEPT ![h] = pool[h] - 1]
  BY DEF Defer
<1>3. Pending' = Pending /\ \A x \in Hash : PendingParents(x)' = PendingParents(x)
  BY <1>2 DEF Pending, PendingParents
<1>4. OnlyInPool(h) /\ h \in Pending /\ ~taken[h]
  BY <1>2 DEF ManagerInv, ExactlyOnePlace, ExpectationsHold, OnlyInPool, OnlyTaken, OnlyDependentOf
<1>5. /\ pool'[h] = 0
      /\ \A x \in Hash \ {h} : pool'[x] = pool[x]
      /\ \A q \in Hash : dependents'[q][h] = IF q = p THEN 1 ELSE 0
      /\ \A q \in Hash : \A x \in Hash \ {h} : dependents'[q][x] = dependents[q][x]
      /\ dependents' \in [Hash -> [Hash -> Nat]]
      /\ pool' \in [Hash -> Nat]
  <2>1. dependents \in [Hash -> [Hash -> Nat]] /\ dependents[p] \in [Hash -> Nat]
    BY DEF ManagerInv, ManagerTypeOK
  <2> DEFINE raised == [dependents[p] EXCEPT ![h] = dependents[p][h] + 1]
  <2>2. /\ raised \in [Hash -> Nat]
        /\ raised[h] = 1
        /\ \A x \in Hash \ {h} : raised[x] = dependents[p][x]
    <3>1. dependents[p][h] = 0
      BY <1>4 DEF OnlyInPool
    <3>2. QED
      BY <2>1, <3>1, RaiseCounter
  <2>3. dependents' = [dependents EXCEPT ![p] = raised]
    BY <1>1
  <2> HIDE DEF raised
  <2>4. pool' = [pool EXCEPT ![h] = 0]
    BY <1>2, <1>4 DEF OnlyInPool
  <2>5. QED
    BY <1>4, <2>1, <2>2, <2>3, <2>4 DEF ManagerInv, ManagerTypeOK, OnlyInPool
<1>6. ManagerTypeOK'
  BY <1>2, <1>5 DEF ManagerInv, ManagerTypeOK
<1>7. QueuesConsistent'
  BY <1>2 DEF ManagerInv, QueuesConsistent
<1>8. ExpectationsHold'
  BY <1>2, <1>3, <1>5 DEF ManagerInv, ExpectationsHold
<1>9. ExactlyOnePlace'
  <2>1. OnlyDependentOf(h, p)'
    BY <1>2, <1>4, <1>5 DEF OnlyDependentOf
  <2>2. ASSUME NEW x \in Hash, x # h
        PROVE  /\ OnlyInPool(x) => OnlyInPool(x)'
               /\ OnlyTaken(x) => OnlyTaken(x)'
               /\ \A q \in Hash : OnlyDependentOf(x, q) => OnlyDependentOf(x, q)'
               /\ pool'[x] = pool[x] /\ \A q \in Hash : dependents'[q][x] = dependents[q][x]
    BY <1>2, <1>5, <2>2 DEF OnlyInPool, OnlyTaken, OnlyDependentOf
  <2>3. \A x \in Hash : \A j \in PendingParents(x) : DirectParents[x][j] \in Hash
    BY TaskAssumption DEF PendingParents
  <2>4. ASSUME NEW x \in Hash
        PROVE  IF x \in Pending'
                 THEN \/ OnlyInPool(x)'
                      \/ OnlyTaken(x)'
                      \/ \E j \in PendingParents(x)' : OnlyDependentOf(x, DirectParents[x][j])'
                 ELSE pool'[x] = 0 /\ ~taken'[x] /\ \A q \in Hash : dependents'[q][x] = 0
    <3>1. CASE x = h
      BY <1>1, <1>3, <1>4, <2>1, <3>1
    <3>2. CASE x # h
      BY <1>2, <1>3, <2>2, <2>3, <3>2 DEF ManagerInv, ExactlyOnePlace
    <3>3. QED
      BY <3>1, <3>2
  <2>5. QED
    BY <2>4 DEF ExactlyOnePlace
<1>10. IdleMeansDone'
  BY <1>2, <1>4 DEF ManagerInv, IdleMeansDone
<1>11. QED
  BY <1>6, <1>7, <1>8, <1>9, <1>10 DEF ManagerInv

\* try_begin that takes the front task preserves the invariant.
LEMMA BeginInv ==
  ASSUME ManagerInv, NEW h \in Hash, Begin(h)
  PROVE  ManagerInv'
<1> USE TaskAssumption
<1> DEFINE t == Head(tasks[h])
<1>1. /\ UNCHANGED <<tasks, dependents, ended, idle>>
      /\ pool[h] > 0
      /\ pool' = [pool EXCEPT ![h] = pool[h] - 1]
      /\ taken' = [taken EXCEPT ![h] = TRUE]
      /\ running' = running \cup {t}
  BY DEF Begin
<1>2. Pending' = Pending /\ \A x \in Hash : PendingParents(x)' = PendingParents(x)
  BY <1>1 DEF Pending, PendingParents
<1>3. OnlyInPool(h) /\ h \in Pending /\ ~taken[h]
  BY <1>1 DEF ManagerInv, ExactlyOnePlace, ExpectationsHold, OnlyInPool, OnlyTaken, OnlyDependentOf
<1>4. t \in Task /\ HashOf[t] = h
  <2>1. tasks[h] \in Seq(Task) /\ tasks[h] # <<>>
    BY <1>3 DEF ManagerInv, ManagerTypeOK, Pending
  <2>2. QED
    BY <2>1, TailQueue DEF ManagerInv, QueuesConsistent
<1>5. /\ pool'[h] = 0 /\ taken'[h]
      /\ \A x \in Hash \ {h} : pool'[x] = pool[x] /\ taken'[x] = taken[x]
  BY <1>1, <1>3 DEF ManagerInv, ManagerTypeOK, OnlyInPool
<1>6. ManagerTypeOK'
  BY <1>1, <1>3, <1>4 DEF ManagerInv, ManagerTypeOK, OnlyInPool
<1>7. QueuesConsistent'
  BY <1>1, <1>5 DEF ManagerInv, QueuesConsistent
<1>8. ExpectationsHold'
  <2>1. ASSUME NEW x \in Hash, pool'[x] > 0
        PROVE  x \in Pending' /\ ~taken'[x]
    <3>1. x # h /\ pool[x] > 0
      BY <1>5, <2>1
    <3>2. QED
      BY <1>2, <1>5, <3>1, Zenon DEF ManagerInv, ExpectationsHold
  <2>2. ASSUME NEW u \in running'
        PROVE  HashOf[u] \in Pending' /\ taken'[HashOf[u]] /\ Head(tasks'[HashOf[u]]) = u
    <3>1. CASE u = t
      BY <1>1, <1>2, <1>3, <1>4, <1>5, <3>1
    <3>2. CASE u \in running
      <4>1. HashOf[u] \in Hash /\ HashOf[u] # h
        BY <1>3, <3>2 DEF ManagerInv, ManagerTypeOK, ExpectationsHold
      <4>2. QED
        BY <1>1, <1>2, <1>5, <3>2, <4>1 DEF ManagerInv, ExpectationsHold
    <3>3. QED
      BY <1>1, <3>1, <3>2
  <2>3. QED
    BY <2>1, <2>2 DEF ExpectationsHold
<1>9. ExactlyOnePlace'
  <2>1. OnlyTaken(h)'
    BY <1>1, <1>3, <1>5 DEF OnlyInPool, OnlyTaken
  <2>2. ASSUME NEW x \in Hash, x # h
        PROVE  /\ OnlyInPool(x) => OnlyInPool(x)'
               /\ OnlyTaken(x) => OnlyTaken(x)'
               /\ \A q \in Hash : OnlyDependentOf(x, q) => OnlyDependentOf(x, q)'
               /\ pool'[x] = pool[x] /\ taken'[x] = taken[x]
    BY <1>1, <1>5, <2>2 DEF OnlyInPool, OnlyTaken, OnlyDependentOf
  <2>3. \A x \in Hash : \A j \in PendingParents(x) : DirectParents[x][j] \in Hash
    BY DEF PendingParents
  <2>4. ASSUME NEW x \in Hash
        PROVE  IF x \in Pending'
                 THEN \/ OnlyInPool(x)'
                      \/ OnlyTaken(x)'
                      \/ \E j \in PendingParents(x)' : OnlyDependentOf(x, DirectParents[x][j])'
                 ELSE pool'[x] = 0 /\ ~taken'[x] /\ \A q \in Hash : dependents'[q][x] = 0
    <3>1. CASE x = h
      BY <1>2, <1>3, <2>1, <3>1
    <3>2. CASE x # h
      BY <1>1, <1>2, <2>2, <2>3, <3>2, Zenon DEF ManagerInv, ExactlyOnePlace
    <3>3. QED
      BY <3>1, <3>2
  <2>5. QED
    BY <2>4 DEF ExactlyOnePlace
<1>10. IdleMeansDone'
  BY <1>1, <1>3 DEF ManagerInv, IdleMeansDone
<1>11. QED
  BY <1>6, <1>7, <1>8, <1>9, <1>10 DEF ManagerInv

\* end preserves the invariant.
LEMMA EndInv ==
  ASSUME ManagerInv, NEW t \in Task, End(t)
  PROVE  ManagerInv'
<1> DEFINE h == HashOf[t]
           last == Tail(tasks[h]) = <<>>
<1>1. h \in Hash
  BY TaskAssumption
<1>2. /\ t \in running
      /\ tasks[h] \in Seq(Task) /\ tasks[h] # <<>>
      /\ h \in Pending /\ taken[h] /\ Head(tasks[h]) = t
  BY <1>1, Zenon DEF End, ManagerInv, ManagerTypeOK, ExpectationsHold, Pending
<1>3. /\ tasks' = [tasks EXCEPT ![h] = Tail(tasks[h])]
      /\ taken' = [taken EXCEPT ![h] = FALSE]
      /\ running' = running \ {t}
      /\ ended' = ended \cup {t}
      /\ dependents' = IF last THEN [dependents EXCEPT ![h] = NoDependents] ELSE dependents
      /\ pool' = IF last THEN [x \in Hash |-> pool[x] + dependents[h][x]]
                         ELSE [pool EXCEPT ![h] = pool[h] + 1]
      /\ idle' = IF idle = "waiting" /\ Pending' = {} THEN "idle" ELSE idle
  BY <1>2 DEF End
<1>4. /\ OnlyTaken(h)
      /\ \A x \in Hash : dependents[x][h] = 0 /\ dependents[h][x] \in Nat /\ pool[x] \in Nat
      /\ pool[h] = 0
  BY <1>1, <1>2 DEF ManagerInv, ManagerTypeOK, ExactlyOnePlace, OnlyInPool, OnlyTaken, OnlyDependentOf
<1>5. /\ tasks'[h] = Tail(tasks[h]) /\ ~taken'[h]
      /\ \A x \in Hash \ {h} : tasks'[x] = tasks[x] /\ taken'[x] = taken[x]
      /\ Tail(tasks[h]) \in Seq(Task)
  BY <1>1, <1>2, <1>3, TailQueue, Zenon DEF ManagerInv, ManagerTypeOK
<1>6. Pending' = IF last THEN Pending \ {h} ELSE Pending
  BY <1>1, <1>2, <1>5, Zenon DEF Pending
<1>7. \A u \in running : u # t => HashOf[u] \in Hash \ {h}
  BY <1>2, TaskAssumption, Zenon DEF ManagerInv, ManagerTypeOK, ExpectationsHold
<1>8. \A x \in Hash : \A i \in PendingParents(x) : DirectParents[x][i] \in Hash
  BY TaskAssumption DEF PendingParents
<1> HIDE DEF h
<1>9. ManagerTypeOK'
  <2>1. NoDependents \in [Hash -> Nat]
    BY DEF NoDependents
  <2>2. pool' \in [Hash -> Nat] /\ dependents' \in [Hash -> [Hash -> Nat]]
    <3>1. CASE last
      <4>1. /\ pool' = [x \in Hash |-> pool[x] + dependents[h][x]]
            /\ dependents' = [dependents EXCEPT ![h] = NoDependents]
        BY <1>3, <3>1
      <4>2. \A x \in Hash : pool[x] + dependents[h][x] \in Nat
        BY <1>4
      <4>3. pool' \in [Hash -> Nat]
        BY <4>1, <4>2
      <4>4. QED
        BY <2>1, <4>1, <4>3, Zenon DEF ManagerInv, ManagerTypeOK
    <3>2. CASE ~last
      <4>1. pool' = [pool EXCEPT ![h] = pool[h] + 1] /\ dependents' = dependents
        BY <1>3, <3>2
      <4>2. QED
        BY <1>1, <4>1, RaiseCounter DEF ManagerInv, ManagerTypeOK
    <3>3. QED
      BY <3>1, <3>2
  <2>3. QED
    BY <1>1, <1>2, <1>3, <1>5, <2>2, Zenon DEF ManagerInv, ManagerTypeOK
<1>10. QueuesConsistent'
  <2> SUFFICES ASSUME NEW x \in Hash
               PROVE  /\ \A i \in DOMAIN tasks'[x] : HashOf[tasks'[x][i]] = x /\ tasks'[x][i] \notin ended'
                      /\ \A i, j \in DOMAIN tasks'[x] : tasks'[x][i] = tasks'[x][j] => i = j
                      /\ taken'[x] => Head(tasks'[x]) \in running'
    BY DEF QueuesConsistent
  <2>1. CASE x = h
    <3>1. ASSUME NEW i \in DOMAIN Tail(tasks[h])
          PROVE  /\ i + 1 \in DOMAIN tasks[h] /\ Tail(tasks[h])[i] = tasks[h][i + 1]
                 /\ 1 \in DOMAIN tasks[h] /\ tasks[h][1] = t /\ i \in Nat \ {0}
      BY <1>2, TailQueue
    <3>2. ASSUME NEW i \in DOMAIN Tail(tasks[h])
          PROVE  Tail(tasks[h])[i] # t
      <4>1. i + 1 # 1
        BY <3>1
      <4>2. QED
        BY <1>1, <3>1, <4>1 DEF ManagerInv, QueuesConsistent
    <3>3. ASSUME NEW i \in DOMAIN Tail(tasks[h]), NEW j \in DOMAIN Tail(tasks[h]),
                 Tail(tasks[h])[i] = Tail(tasks[h])[j]
          PROVE  i = j
      <4>1. i + 1 = j + 1
        BY <1>1, <3>1, <3>3 DEF ManagerInv, QueuesConsistent
      <4>2. QED
        BY <3>1, <4>1
    <3>4. \A i \in DOMAIN Tail(tasks[h]) :
            HashOf[Tail(tasks[h])[i]] = h /\ Tail(tasks[h])[i] \notin ended
      BY <1>1, <3>1 DEF ManagerInv, QueuesConsistent
    <3>5. tasks'[x] = Tail(tasks[h]) /\ ~taken'[x] /\ ended' = ended \cup {t}
      BY <1>3, <1>5, <2>1
    <3>6. QED
      BY <2>1, <3>2, <3>3, <3>4, <3>5
  <2>2. CASE x # h
    <3>1. \A i \in DOMAIN tasks[x] : HashOf[tasks[x][i]] = x /\ tasks[x][i] \notin ended /\ tasks[x][i] # t
      BY <2>2 DEF ManagerInv, QueuesConsistent, h
    <3>2. taken[x] => x \in Pending
      BY DEF ManagerInv, ExactlyOnePlace
    <3>3. taken[x] => Head(tasks[x]) \in running /\ Head(tasks[x]) # t
      <4>1. x \in Pending => tasks[x] \in Seq(Task) /\ tasks[x] # <<>>
        BY DEF Pending, ManagerInv, ManagerTypeOK
      <4>2. QED
        BY <3>1, <3>2, <4>1, TailQueue DEF ManagerInv, QueuesConsistent
    <3>4. QED
      BY <1>3, <1>5, <2>2, <3>1, <3>3 DEF ManagerInv, QueuesConsistent
  <2>3. QED
    BY <2>1, <2>2
<1>11. ExactlyOnePlace'
  <2>1. CASE ~last
    <3>1. pool'[h] = 1 /\ \A x \in Hash \ {h} : pool'[x] = pool[x]
      BY <1>1, <1>3, <1>4, <2>1 DEF ManagerInv, ManagerTypeOK
    <3>2. Pending' = Pending /\ dependents' = dependents
      BY <1>3, <1>6, <2>1
    <3>3. \A x \in Hash : PendingParents(x)' = PendingParents(x)
      BY <3>2 DEF PendingParents
    <3>4. OnlyInPool(h)'
      BY <1>4, <1>5, <3>1, <3>2 DEF OnlyInPool
    <3>5. ASSUME NEW x \in Hash, x # h
          PROVE  /\ OnlyInPool(x) => OnlyInPool(x)'
                 /\ OnlyTaken(x) => OnlyTaken(x)'
                 /\ \A q \in Hash : OnlyDependentOf(x, q) => OnlyDependentOf(x, q)'
                 /\ pool'[x] = pool[x] /\ taken'[x] = taken[x]
      BY <1>5, <3>1, <3>2, <3>5 DEF OnlyInPool, OnlyTaken, OnlyDependentOf
    <3>6. ASSUME NEW x \in Hash
          PROVE  IF x \in Pending'
                   THEN \/ OnlyInPool(x)'
                        \/ OnlyTaken(x)'
                        \/ \E j \in PendingParents(x)' : OnlyDependentOf(x, DirectParents[x][j])'
                   ELSE pool'[x] = 0 /\ ~taken'[x] /\ \A q \in Hash : dependents'[q][x] = 0
      <4>1. CASE x = h
        BY <1>2, <3>2, <3>4, <4>1
      <4>2. CASE x # h
        BY <1>8, <3>2, <3>3, <3>5, <4>2 DEF ManagerInv, ExactlyOnePlace
      <4>3. QED
        BY <4>1, <4>2
    <3>7. QED
      BY <3>6 DEF ExactlyOnePlace
  <2>2. CASE last
    <3>1. Pending' = Pending \ {h}
      BY <1>6, <2>2
    <3>2. \A x \in Hash : pool'[x] = pool[x] + dependents[h][x]
      BY <1>3, <2>2
    <3>3. \A x, q \in Hash : dependents'[q][x] = IF q = h THEN 0 ELSE dependents[q][x]
      BY <1>1, <1>3, <2>2 DEF ManagerInv, ManagerTypeOK, NoDependents
    <3>4. ASSUME NEW x \in Hash
          PROVE  IF x \in Pending'
                   THEN \/ OnlyInPool(x)'
                        \/ OnlyTaken(x)'
                        \/ \E j \in PendingParents(x)' : OnlyDependentOf(x, DirectParents[x][j])'
                   ELSE pool'[x] = 0 /\ ~taken'[x] /\ \A q \in Hash : dependents'[q][x] = 0
      <4>1. CASE x = h
        <5>1. pool'[h] = 0 /\ \A q \in Hash : dependents'[q][h] = 0
          BY <1>1, <1>4, <3>2, <3>3
        <5>2. QED
          BY <1>5, <3>1, <4>1, <5>1
      <4>2. CASE x # h /\ x \notin Pending
        <5>1. pool[x] = 0 /\ ~taken[x] /\ \A q \in Hash : dependents[q][x] = 0
          BY <4>2 DEF ManagerInv, ExactlyOnePlace
        <5>2. pool'[x] = 0 /\ \A q \in Hash : dependents'[q][x] = 0
          BY <1>1, <3>2, <3>3, <5>1
        <5>3. QED
          BY <1>5, <3>1, <4>2, <5>1, <5>2
      <4>3. CASE x # h /\ OnlyInPool(x) /\ x \in Pending
        <5>1. pool'[x] = 1 /\ \A q \in Hash : dependents'[q][x] = 0
          BY <1>1, <3>2, <3>3, <4>3 DEF OnlyInPool
        <5>2. OnlyInPool(x)'
          BY <1>5, <4>3, <5>1 DEF OnlyInPool
        <5>3. QED
          BY <3>1, <4>3, <5>2
      <4>4. CASE x # h /\ OnlyTaken(x) /\ x \in Pending
        <5>1. pool'[x] = 0 /\ \A q \in Hash : dependents'[q][x] = 0
          BY <1>1, <3>2, <3>3, <4>4 DEF OnlyTaken
        <5>2. OnlyTaken(x)'
          BY <1>5, <4>4, <5>1 DEF OnlyTaken
        <5>3. QED
          BY <3>1, <4>4, <5>2
      <4>5. ASSUME x # h, x \in Pending, NEW j \in PendingParents(x), OnlyDependentOf(x, DirectParents[x][j])
            PROVE  OnlyInPool(x)' \/ \E k \in PendingParents(x)' : OnlyDependentOf(x, DirectParents[x][k])'
        <5> DEFINE p == DirectParents[x][j]
        <5>1. p \in Hash /\ p \in Pending /\ j \in DOMAIN DirectParents[x]
          BY <1>8 DEF PendingParents
        <5> HIDE DEF p
        <5>2. pool[x] = 0 /\ ~taken[x] /\ \A q \in Hash : dependents[q][x] = IF q = p THEN 1 ELSE 0
          BY <4>5 DEF OnlyDependentOf, p
        <5>3. CASE p = h
          <6>1. pool'[x] = 1 /\ \A q \in Hash : dependents'[q][x] = 0
            BY <1>1, <3>2, <3>3, <5>2, <5>3
          <6>2. QED
            BY <1>5, <4>5, <5>2, <6>1 DEF OnlyInPool
        <5>4. CASE p # h
          <6>1. pool'[x] = 0 /\ \A q \in Hash : dependents'[q][x] = IF q = p THEN 1 ELSE 0
            BY <1>1, <3>2, <3>3, <5>2, <5>4
          <6>2. OnlyDependentOf(x, p)'
            BY <1>5, <4>5, <5>2, <6>1 DEF OnlyDependentOf, p
          <6>3. j \in PendingParents(x)'
            BY <3>1, <5>1, <5>4 DEF PendingParents, p
          <6>4. QED
            BY <6>2, <6>3 DEF p
        <5>5. QED
          BY <5>3, <5>4
      <4>6. QED
        BY <3>1, <4>1, <4>2, <4>3, <4>4, <4>5 DEF ManagerInv, ExactlyOnePlace
    <3>5. QED
      BY <3>4 DEF ExactlyOnePlace
  <2>3. QED
    BY <2>1, <2>2
<1>12. ExpectationsHold'
  <2>1. ASSUME NEW x \in Hash, pool'[x] > 0
        PROVE  x \in Pending' /\ ~taken'[x]
    BY <1>11, <2>1 DEF ExactlyOnePlace, OnlyInPool, OnlyTaken, OnlyDependentOf
  <2>2. ASSUME NEW u \in running'
        PROVE  HashOf[u] \in Pending' /\ taken'[HashOf[u]] /\ Head(tasks'[HashOf[u]]) = u
    <3>1. u \in running /\ HashOf[u] \in Hash \ {h}
      BY <1>3, <1>7
    <3>2. QED
      BY <1>5, <1>6, <3>1 DEF ManagerInv, ExpectationsHold
  <2>3. QED
    BY <2>1, <2>2 DEF ExpectationsHold
<1>13. IdleMeansDone'
  <2>1. idle # "idle"
    BY <1>2 DEF ManagerInv, IdleMeansDone
  <2>2. ASSUME Pending' = {}
        PROVE  running' = {} /\ \A x \in Hash : pool'[x] = 0
    BY <1>11, <1>12, <2>2 DEF ExpectationsHold, ExactlyOnePlace
  <2>3. QED
    BY <1>3, <2>1, <2>2 DEF IdleMeansDone
<1>14. QED
  BY <1>9, <1>10, <1>11, <1>12, <1>13 DEF ManagerInv

\* A step that changes nothing preserves the invariant.
LEMMA StutterInv ==
  ASSUME ManagerInv, UNCHANGED managerVars
  PROVE  ManagerInv'
<1>1. Pending' = Pending /\ \A x \in Hash : PendingParents(x)' = PendingParents(x)
  BY DEF managerVars, Pending, PendingParents
<1>2. ManagerTypeOK' /\ QueuesConsistent' /\ IdleMeansDone'
  BY <1>1 DEF managerVars, ManagerInv, ManagerTypeOK, QueuesConsistent, IdleMeansDone
<1>3. ExpectationsHold'
  BY <1>1 DEF managerVars, ManagerInv, ExpectationsHold
<1>4. ExactlyOnePlace'
  BY <1>1 DEF managerVars, ManagerInv, ExactlyOnePlace, OnlyInPool, OnlyTaken, OnlyDependentOf
<1>5. QED
  BY <1>2, <1>3, <1>4 DEF ManagerInv

\* Every step of the manager preserves the invariant.
LEMMA NextManagerInv == ManagerInv /\ [ManagerNext]_managerVars => ManagerInv'
BY ArriveInv, WaitForIdleInv, DeferInv, BeginInv, EndInv, StutterInv DEF ManagerNext

\* The inductive invariant holds of the dependency manager for every set of
\* blocks and submissions.
THEOREM ManagerInvariant == ManagerSpec => []ManagerInv
BY InitManagerInv, NextManagerInv, PTL DEF ManagerSpec

\* Type correctness of the manager's state.
THEOREM ManagerTypeCorrect == ManagerSpec => []ManagerTypeOK
BY ManagerInvariant, PTL DEF ManagerInv

\* Every pending block of the manager is in the pool, being processed, or a
\* dependent of one pending parent, and in one of these places only.
THEOREM PlacesAreExclusive == ManagerSpec => []ExactlyOnePlace
BY ManagerInvariant, PTL DEF ManagerInv

\* No expect, assert or panic of try_begin and end fires.
THEOREM ExpectationsAlwaysHold == ManagerSpec => []ExpectationsHold
BY ManagerInvariant, PTL DEF ManagerInv

\* wait_for_idle returns only when all work of the processor is done.
THEOREM IdleIsSound == ManagerSpec => []IdleMeansDone
BY ManagerInvariant, PTL DEF ManagerInv

\* A pending block with no closure of its own waits for a pending parent; as
\* the parent relation is well-founded, the pending blocks cannot all wait.
LEMMA InvImpliesMoves == ManagerInv => SomethingMoves
<1> SUFFICES ASSUME ManagerInv, Pending # {}
             PROVE  \E h \in Hash : pool[h] > 0 \/ taken[h]
  BY DEF SomethingMoves
<1>1. PICK h \in Pending : \A i \in DOMAIN DirectParents[h] : DirectParents[h][i] \notin Pending
  BY AcyclicAssumption, Zenon DEF Pending
<1>2. h \in Hash /\ PendingParents(h) = {}
  BY <1>1 DEF Pending, PendingParents
<1>3. OnlyInPool(h) \/ OnlyTaken(h)
  BY <1>1, <1>2 DEF ManagerInv, ExactlyOnePlace
<1>4. QED
  BY <1>2, <1>3 DEF OnlyInPool, OnlyTaken

\* The manager never stalls: while a block is pending some closure is in the
\* pool or is processing.
THEOREM NeverStalls == ManagerSpec => []SomethingMoves
BY ManagerInvariant, InvImpliesMoves, PTL

-----------------------------------------------------------------------------
(* The manager implements TaskService. *)

\* A running task is queued (it is the front of its group), a queued task is
\* not ended, and its block is pending.
LEMMA QueuedFacts ==
  ASSUME ManagerInv, NEW t \in Task
  PROVE  /\ t \in running => Queued(t)
         /\ Queued(t) => t \notin ended /\ HashOf[t] \in Pending
<1>1. HashOf[t] \in Hash /\ tasks[HashOf[t]] \in Seq(Task)
  BY TaskAssumption DEF ManagerInv, ManagerTypeOK
<1>2. t \in running => Queued(t)
  <2> SUFFICES ASSUME t \in running PROVE Queued(t)
    OBVIOUS
  <2>1. tasks[HashOf[t]] # <<>> /\ Head(tasks[HashOf[t]]) = t
    BY DEF ManagerInv, ExpectationsHold, Pending
  <2>2. QED
    BY <1>1, <2>1, TailQueue DEF Queued
<1>3. Queued(t) => t \notin ended /\ HashOf[t] \in Pending
  BY <1>1 DEF Queued, ManagerInv, QueuesConsistent, Pending
<1>4. QED
  BY <1>2, <1>3

\* One step of the manager is a step of the service or changes none of it.
LEMMA ServiceStep ==
  ASSUME ManagerInv, ManagerInv', [ManagerNext]_managerVars
  PROVE  [Service!ServiceNext]_(Service!serviceVars)
<1> USE TaskAssumption
<1>1. ASSUME NEW t \in Task, Arrive(t)
      PROVE  Service!Accept(t)
  <2>1. /\ t \notin ended /\ ~Queued(t) /\ t \notin running
        /\ UNCHANGED <<running, ended, idle>> /\ idle = "receiving"
        /\ tasks' = [tasks EXCEPT ![HashOf[t]] = Append(tasks[HashOf[t]], t)]
    BY <1>1, QueuedFacts DEF Arrive, Register
  <2>2. HashOf[t] \in Hash /\ tasks[HashOf[t]] \in Seq(Task) /\ tasks \in [Hash -> Seq(Task)]
    BY DEF ManagerInv, ManagerTypeOK
  <2>3. tasks'[HashOf[t]] = Append(tasks[HashOf[t]], t)
    BY <2>1, <2>2
  <2>4. Queued(t)'
    <3>1. Len(tasks[HashOf[t]]) + 1 \in DOMAIN tasks'[HashOf[t]]
      BY <2>2, <2>3, AppendQueue, LenProperties
    <3>2. tasks'[HashOf[t]][Len(tasks[HashOf[t]]) + 1] = t
      BY <2>2, <2>3, AppendQueue
    <3>3. QED
      BY <3>1, <3>2 DEF Queued
  <2>5. ASSUME NEW u \in Task, u # t
        PROVE  Queued(u)' <=> Queued(u)
    <3>1. CASE HashOf[u] # HashOf[t]
      <4>1. tasks'[HashOf[u]] = tasks[HashOf[u]]
        BY <2>1, <2>2, <3>1
      <4>2. QED
        BY <4>1 DEF Queued
    <3>2. CASE HashOf[u] = HashOf[t]
      <4>1. \A i \in DOMAIN tasks'[HashOf[t]] :
              i \in DOMAIN tasks[HashOf[t]] \/ tasks'[HashOf[t]][i] = t
        BY <2>2, <2>3, AppendQueue, LenProperties
      <4>2. \A i \in DOMAIN tasks[HashOf[t]] :
              i \in DOMAIN tasks'[HashOf[t]] /\ tasks'[HashOf[t]][i] = tasks[HashOf[t]][i]
        BY <2>2, <2>3, AppendQueue, LenProperties
      <4>3. QED
        BY <2>5, <3>2, <4>1, <4>2 DEF Queued
    <3>3. QED
      BY <3>1, <3>2
  <2>6. PhaseOf(t) = "new" /\ PhaseOf(t)' = "accepted"
    BY <2>1, <2>4 DEF PhaseOf
  <2>7. \A u \in Task \ {t} : PhaseOf(u)' = PhaseOf(u)
    BY <2>1, <2>5 DEF PhaseOf
  <2>8. QED
    BY <2>1, <2>6, <2>7, Zenon DEF Service!Accept
<1>2. ASSUME NEW t \in Task, End(t)
      PROVE  Service!Finish(t)
  <2> DEFINE h == HashOf[t]
  <2>1. /\ h \in Hash /\ t \in running /\ Head(tasks[h]) = t
        /\ tasks[h] \in Seq(Task) /\ tasks[h] # <<>> /\ tasks \in [Hash -> Seq(Task)]
        /\ tasks' = [tasks EXCEPT ![h] = Tail(tasks[h])]
        /\ running' = running \ {t} /\ ended' = ended \cup {t}
        /\ idle' = IF idle = "waiting" /\ Pending' = {} THEN "idle" ELSE idle
    BY <1>2, Zenon DEF End, ManagerInv, ManagerTypeOK, ExpectationsHold, Pending
  <2>2. tasks'[h] = Tail(tasks[h])
    BY <2>1
  <2>3. ASSUME NEW u \in Task, u # t
        PROVE  Queued(u)' <=> Queued(u)
    <3>1. CASE HashOf[u] # h
      <4>1. tasks'[HashOf[u]] = tasks[HashOf[u]]
        BY <2>1, <3>1
      <4>2. QED
        BY <4>1 DEF Queued
    <3>2. CASE HashOf[u] = h
      <4> HIDE DEF h
      <4>1. ASSUME NEW i \in DOMAIN Tail(tasks[h])
            PROVE  i + 1 \in DOMAIN tasks[h] /\ Tail(tasks[h])[i] = tasks[h][i + 1]
        BY <2>1, TailQueue
      <4>2. ASSUME NEW i \in DOMAIN tasks[h], tasks[h][i] = u
            PROVE  \E j \in DOMAIN Tail(tasks[h]) : Tail(tasks[h])[j] = u
        <5>1. i \in 1 .. Len(tasks[h]) /\ Len(tasks[h]) \in Nat /\ i # 1
          BY <2>1, <2>3, <4>2, TailQueue
        <5>2. i - 1 \in DOMAIN Tail(tasks[h])
          BY SMTT(30), <2>1, <5>1, TailQueue
        <5>3. Tail(tasks[h])[i - 1] = u
          BY <4>1, <4>2, <5>1, <5>2
        <5>4. QED
          BY <5>2, <5>3
      <4>3. Queued(u)' => Queued(u)
        BY <2>2, <3>2, <4>1, Zenon DEF Queued
      <4>4. Queued(u) => Queued(u)'
        BY <2>2, <3>2, <4>2, Zenon DEF Queued
      <4>5. QED
        BY <4>3, <4>4
    <3>3. QED
      BY <3>1, <3>2
  <2>4. PhaseOf(t) = "processing" /\ PhaseOf(t)' = "done"
    BY <2>1, QueuedFacts DEF PhaseOf
  <2>5. \A u \in Task \ {t} : PhaseOf(u)' = PhaseOf(u)
    BY <2>1, <2>3 DEF PhaseOf
  <2>6. ASSUME Pending' = {}
        PROVE  \A u \in Task : PhaseOf(u)' \notin {"accepted", "processing"}
    <3>1. \A u \in Task : ~Queued(u)'
      BY <2>6 DEF Pending, Queued
    <3>2. running' = {}
      BY <2>6 DEF ManagerInv, ExpectationsHold
    <3>3. QED
      BY <3>1, <3>2 DEF PhaseOf
  <2>7. QED
    BY <2>1, <2>4, <2>5, <2>6, Zenon DEF Service!Finish, Service!InService
<1>3. ASSUME NEW h \in Hash, Begin(h)
      PROVE  \E t \in Task : Service!Start(t)
  <2>1. /\ h \in Pending /\ ~taken[h]
        /\ PendingParents(h) = {}
        /\ running' = running \cup {Head(tasks[h])} /\ UNCHANGED <<tasks, ended, idle>>
    BY <1>3 DEF Begin, ManagerInv, ExpectationsHold
  <2>2. tasks[h] \in Seq(Task) /\ tasks[h] # <<>>
    BY <2>1 DEF Pending, ManagerInv, ManagerTypeOK
  <2>3. PICK t \in Task : t = Head(tasks[h]) /\ 1 \in DOMAIN tasks[h] /\ tasks[h][1] = t
    BY <2>2, TailQueue
  <2>4. HashOf[t] = h /\ Queued(t) /\ t \notin running
    <3>1. HashOf[t] = h
      BY <2>3 DEF ManagerInv, QueuesConsistent
    <3>2. QED
      BY <2>1, <2>3, <3>1 DEF ManagerInv, ExpectationsHold, Queued
  <2>5. \A u \in Task : Queued(u)' <=> Queued(u)
    BY <2>1 DEF Queued
  <2>6. PhaseOf(t) = "accepted" /\ PhaseOf(t)' = "processing"
    BY <2>1, <2>3, <2>4, QueuedFacts DEF PhaseOf
  <2>7. \A u \in Task \ {t} : PhaseOf(u)' = PhaseOf(u)
    BY <2>1, <2>3, <2>5 DEF PhaseOf
  <2>8. ASSUME NEW u \in Task, PhaseOf(u) \in {"accepted", "processing"}
        PROVE  \A i \in DOMAIN DirectParents[h] : DirectParents[h][i] # HashOf[u]
    <3>1. Queued(u)
      BY <2>8, QueuedFacts, Zenon DEF PhaseOf
    <3>2. QED
      BY <2>1, <3>1, QueuedFacts DEF PendingParents
  <2>9. ASSUME NEW u \in Task, PhaseOf(u) = "processing"
        PROVE  HashOf[u] # h
    <3>1. u \in running
      BY <2>9 DEF PhaseOf
    <3>2. QED
      BY <2>1, <3>1 DEF ManagerInv, ExpectationsHold
  <2>10. QED
    BY <2>1, <2>4, <2>6, <2>7, <2>8, <2>9, Zenon
    DEF Service!Start, Service!InService, Service!IsParentOf
<1>4. ASSUME NEW h \in Hash, Defer(h)
      PROVE  UNCHANGED Service!serviceVars
  BY <1>4 DEF Defer, Service!serviceVars, PhaseOf, Queued
<1>5. ASSUME WaitForIdle
      PROVE  Service!Close
  <2>1. \A u \in Task : PhaseOf(u)' = PhaseOf(u)
    BY <1>5 DEF WaitForIdle, PhaseOf, Queued
  <2>2. ASSUME Pending = {}
        PROVE  \A u \in Task : PhaseOf(u) \notin {"accepted", "processing"}
    BY <2>2, QueuedFacts DEF PhaseOf
  <2>3. QED
    BY <1>5, <2>1, <2>2 DEF WaitForIdle, Service!Close, Service!InService
<1>6. ASSUME UNCHANGED managerVars
      PROVE  UNCHANGED Service!serviceVars
  BY <1>6 DEF managerVars, Service!serviceVars, PhaseOf, Queued
<1>7. QED
  BY <1>1, <1>2, <1>3, <1>4, <1>5, <1>6 DEF ManagerNext, Service!ServiceNext

\* The dependency manager implements the abstract task service.
THEOREM ManagerImplementsService == ManagerSpec => ImplementsService
<1>1. ManagerInit => Service!ServiceInit
  BY TaskAssumption DEF ManagerInit, Service!ServiceInit, PhaseOf, Queued
<1>2. ManagerInv /\ ManagerInv' /\ [ManagerNext]_managerVars => [Service!ServiceNext]_(Service!serviceVars)
  BY ServiceStep
<1>3. QED
  BY <1>1, <1>2, ManagerInvariant, PTL DEF ManagerSpec, ImplementsService, Service!ServiceSpec

=============================================================================
