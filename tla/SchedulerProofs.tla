-------------------------- MODULE SchedulerProofs --------------------------
(***************************************************************************)
(* The unified scheduler runs conflicting transactions in their order, for *)
(* any number of addresses and tasks: it implements ConflictOrder.         *)
(***************************************************************************)
EXTENDS SchedulerInvariant

-----------------------------------------------------------------------------
(* A task ends *)

(* The addresses that the end of t passes on to u.                         *)
PassedOn(t, u) == {a \in DOMAIN locks(t) : u \in ReleasedTasks(a)}

LEMMA WaiterContexts ==
  ASSUME SchedulerInv, NEW a \in Addresses
  PROVE  /\ blocked_usages_from_tasks[a] \in Seq(Nat)
         /\ \A i \in DOMAIN blocked_usages_from_tasks[a] :
              /\ blocked_usages_from_tasks[a][i] \in Waiting(a)
              /\ locks(blocked_usages_from_tasks[a][i])[a] \in {Readonly, Writable}
         /\ \A u \in Waiting(a) : u \in Tasks /\ u \in Nat /\ u \in Unfinished
  <1>1. /\ blocked_usages_from_tasks[a] \in Seq(Nat)
        /\ Waiting(a) \subseteq Tasks
        /\ \A u \in Waiting(a) : Uses(u, a)
    BY DEF SchedulerInv, TypeInv, QueueInv
  <1>2. \A u \in Waiting(a) : locks(u)[a] \in {Readonly, Writable}
    <2> SUFFICES ASSUME NEW u \in Waiting(a) PROVE locks(u)[a] \in {Readonly, Writable}
      OBVIOUS
    <2>1. locks(u) \in LockContexts /\ a \in DOMAIN locks(u)
      BY <1>1, TaskTypes DEF SchedulerInv, Uses, locks
    <2> QED
      BY <2>1, ContextTypes
  <1>3. \A u \in Waiting(a) : u \in Unfinished
    <2> SUFFICES ASSUME NEW u \in Waiting(a) PROVE u \in Unfinished
      OBVIOUS
    <2>1. Lacking(u) # {}
      BY DEF Lacking
    <2> QED
      BY <1>1, <2>1, UnfinishedTasks DEF SchedulerInv
  <1> QED
    BY <1>1, <1>2, <1>3, TaskTypes DEF Waiting, SchedulerInv

LEMMA RunnerHolds ==
  ASSUME SchedulerInv, NEW t \in running, NEW a \in Addresses
  PROVE  t \in Tasks /\ Lacking(t) = {} /\ t \notin Waiting(a)
         /\ (Uses(t, a) => t \in Holders(a))
  <1>1. t \in Tasks /\ Lacking(t) = {} /\ t \notin Waiting(a)
    BY SMTT(60) DEF SchedulerInv, TypeInv, ReadyInv, Lacking
  <1> QED
    BY <1>1, UnfinishedTasks DEF SchedulerInv, Holders

LEMMA UnlockedUsage ==
  ASSUME SchedulerInv, NEW t \in running, NEW a \in Addresses, Uses(t, a)
  PROVE  /\ Unlocked(a) \in Nat
         /\ Unlocked(a) = Cardinality(Holders(a) \ {t})
         /\ Unlocked(a) = Unused <=> Holders(a) = {t}
         /\ Unlocked(a) # Unused =>
              /\ \A h \in Holders(a) : locks(h)[a] = Readonly
              /\ blocked_usages_from_tasks[a] # <<>> =>
                   locks(blocked_usages_from_tasks[a][1])[a] = Writable
  <1>1. /\ t \in Holders(a) /\ UsageInv(a)
        /\ IsFiniteSet(Holders(a)) /\ Cardinality(Holders(a)) \in Nat
    BY RunnerHolds, HoldersFinite DEF SchedulerInv
  <1>2. /\ IsFiniteSet(Holders(a) \ {t})
        /\ Cardinality(Holders(a) \ {t}) = Cardinality(Holders(a)) - 1
        /\ Cardinality(Holders(a) \ {t}) \in Nat
        /\ Cardinality(Holders(a) \ {t}) = 0 <=> Holders(a) \ {t} = {}
    BY <1>1, FS_RemoveElement, FS_EmptySet, FS_CardinalityType, ZenonT(60)
  <1>3. current_usage[a] # Unused
    BY <1>1 DEF UsageInv
  <1>4. CASE current_usage[a] = Written
    <2>1. Holders(a) = {t}
      BY <1>1, <1>4 DEF UsageInv
    <2> QED
      BY <1>2, <1>4, <2>1 DEF Unlocked, Unused
  <1>5. CASE current_usage[a] # Written
    <2>1. Unlocked(a) = Cardinality(Holders(a)) - 1
      BY <1>1, <1>3, <1>5, SMTT(60) DEF UsageInv, Unlocked
    <2> QED
      BY <1>1, <1>2, <1>3, <1>5, <2>1, SMTT(60) DEF UsageInv, Unused
  <1> QED
    BY <1>4, <1>5

(* Either a writer is let in alone or all readers before the next writer.  *)
LEMMA ReleasedUsages ==
  ASSUME SchedulerInv, NEW t \in running, NEW a \in Addresses, Uses(t, a),
         NEW q, q = blocked_usages_from_tasks[a]
  PROVE  /\ Released(a) \in 0 .. Len(q)
         /\ Released(a) > 0 => Unlocked(a) = Unused
         /\ Released(a) = 0 => Unlocked(a) # Unused \/ q = <<>>
         /\ Released(a) > 0 /\ locks(q[1])[a] = Writable => Released(a) = 1
         /\ Released(a) > 0 /\ locks(q[1])[a] # Writable =>
              /\ \A i \in 1 .. Released(a) : locks(q[i])[a] = Readonly
              /\ Released(a) < Len(q) => locks(q[Released(a) + 1])[a] = Writable
  <1>1. /\ q \in Seq(Nat) /\ Len(q) \in Nat
        /\ \A i \in 1 .. Len(q) : locks(q[i])[a] \in {Readonly, Writable}
        /\ q # <<>> => Len(q) > 0
    BY WaiterContexts, EmptySeq, SMTT(60)
  <1>2. CASE Unlocked(a) # Unused \/ q = <<>>
    <2>1. Released(a) = 0
      BY <1>2, SMTT(60) DEF Released
    <2> QED
      BY <1>1, <1>2, <2>1
  <1>3. CASE Unlocked(a) = Unused /\ q # <<>> /\ locks(q[1])[a] = Writable
    <2>1. Released(a) = 1
      BY <1>3, SMTT(60) DEF Released
    <2> QED
      BY <1>1, <1>3, <2>1, SMTT(60)
  <1>4. CASE Unlocked(a) = Unused /\ q # <<>> /\ locks(q[1])[a] # Writable
    <2> DEFINE Last(k) == ReadersUpTo(a, k) /\ (k = Len(q) \/ ~ReadersUpTo(a, k + 1))
    <2>1. \E k \in 1 .. Len(q) : Last(k)
      <3> DEFINE W == {i \in 1 .. Len(q) : locks(q[i])[a] = Writable}
      <3>1. CASE W = {}
        <4>1. ReadersUpTo(a, Len(q))
          BY <1>1, <3>1 DEF ReadersUpTo
        <4> QED
          BY <1>1, <1>4, <4>1, SMTT(60)
      <3>2. CASE W # {}
        <4>1. PICK m \in W : \A n \in W : m <= n
          <5>1. W \subseteq Nat
            OBVIOUS
          <5> QED
            BY <3>2, <5>1, LeastNatural, Zenon
        <4>2. m # 1 /\ m \in 1 .. Len(q)
          BY <1>4, <4>1
        <4>3. m - 1 \in 1 .. Len(q) /\ (m - 1) + 1 = m
          BY <1>1, <4>2
        <4>4. ReadersUpTo(a, m - 1)
          BY <1>1, <4>1, <4>3, SMTT(60) DEF ReadersUpTo
        <4>5. ~ReadersUpTo(a, m)
          BY <1>1, <4>1, <4>2 DEF ReadersUpTo, Readonly, Writable
        <4> QED
          BY <4>3, <4>4, <4>5
      <3> QED
        BY <3>1, <3>2, SMTT(60)
    <2>2. Released(a) = CHOOSE k \in 1 .. Len(q) : Last(k)
      BY <1>4, Zenon DEF Released
    <2>3. Released(a) \in 1 .. Len(q) /\ Last(Released(a))
      <3> HIDE DEF Last
      <3> QED
        BY <2>1, <2>2
    <2>4. \A i \in 1 .. Released(a) : locks(q[i])[a] = Readonly
      BY <2>3 DEF ReadersUpTo
    <2>5. ASSUME Released(a) < Len(q)
          PROVE  locks(q[Released(a) + 1])[a] = Writable
      BY <1>1, <2>3, <2>4, <2>5 DEF ReadersUpTo
    <2> QED
      BY <1>1, <1>4, <2>3, <2>4, <2>5, SMTT(60)
  <1> QED
    BY <1>2, <1>3, <1>4, SMTT(60)

(* The queue of a loses its front, which is the tasks a is granted to.     *)
LEMMA DescheduleWaiting ==
  ASSUME SchedulerInv, NEW t \in running, deschedule_task(t), NEW a \in Addresses
  PROVE  /\ Uses(t, a) =>
              /\ ReleasedTasks(a) \subseteq Waiting(a)
              /\ Waiting(a)' = Waiting(a) \ ReleasedTasks(a)
              /\ \A h \in ReleasedTasks(a), w \in Waiting(a)' : h < w
              /\ blocked_usages_from_tasks'[a] \in Seq(Nat)
              /\ Len(blocked_usages_from_tasks'[a]) = Len(blocked_usages_from_tasks[a]) - Released(a)
              /\ \A i \in DOMAIN blocked_usages_from_tasks'[a] :
                   /\ i + Released(a) \in DOMAIN blocked_usages_from_tasks[a]
                   /\ blocked_usages_from_tasks'[a][i] = blocked_usages_from_tasks[a][i + Released(a)]
         /\ ~Uses(t, a) =>
              /\ Waiting(a)' = Waiting(a)
              /\ blocked_usages_from_tasks'[a] = blocked_usages_from_tasks[a]
  <1>1. blocked_usages_from_tasks'[a] =
          IF Uses(t, a)
          THEN SubSeq(blocked_usages_from_tasks[a], Released(a) + 1, Len(blocked_usages_from_tasks[a]))
          ELSE blocked_usages_from_tasks[a]
    BY DEF deschedule_task
  <1>2. CASE ~Uses(t, a)
    BY <1>1, <1>2, SMTT(60) DEF Waiting
  <1>3. CASE Uses(t, a)
    <2>1. PICK q, r, k :
            /\ q = blocked_usages_from_tasks[a]
            /\ r = blocked_usages_from_tasks'[a]
            /\ k = Released(a)
      BY SMTT(60)
    <2>2. q \in Seq(Nat) /\ Len(q) \in Nat /\ k \in 0 .. Len(q)
      BY <1>3, <2>1, WaiterContexts, ReleasedUsages, SMTT(60)
    <2>3. \A i, j \in 1 .. Len(q) : i < j => q[i] < q[j]
      BY <2>1, <2>2, SMTT(60) DEF SchedulerInv, QueueInv
    <2>4. r = SubSeq(q, k + 1, Len(q))
      BY <1>1, <1>3, <2>1, Zenon
    <2>5. /\ r \in Seq(Nat) /\ Len(r) = Len(q) - k
          /\ \A i \in 1 .. Len(q) - k : r[i] = q[i + k] /\ i + k \in 1 .. Len(q)
      <3>1. \A i \in k + 1 .. Len(q) : q[i] \in Nat
        BY <2>2
      <3>2. k + 1 \in Int /\ Len(q) \in Int
        BY <2>2
      <3>3. /\ r \in Seq(Nat)
            /\ Len(r) = IF k + 1 <= Len(q) THEN Len(q) - (k + 1) + 1 ELSE 0
            /\ \A i \in 1 .. Len(q) - (k + 1) + 1 : r[i] = q[(k + 1) + i - 1]
        BY <2>4, <3>1, <3>2, SubSeqProperties
      <3>4. Len(q) - (k + 1) + 1 = Len(q) - k /\ (k + 1 <= Len(q) \/ Len(q) - k = 0)
        BY <2>2
      <3>5. \A i \in 1 .. Len(q) - k : (k + 1) + i - 1 = i + k /\ i + k \in 1 .. Len(q)
        BY <2>2
      <3> QED
        BY <3>3, <3>4, <3>5
    <2>6. ReleasedTasks(a) = {q[i] : i \in 1 .. k} /\ Waiting(a) = {q[i] : i \in 1 .. Len(q)}
      BY <2>1, <2>2 DEF ReleasedTasks, Waiting
    <2>7. Waiting(a)' = {q[i] : i \in k + 1 .. Len(q)}
      <3>1. Waiting(a)' = {r[i] : i \in 1 .. Len(q) - k}
        BY <2>1, <2>2, <2>5 DEF Waiting
      <3>2. \A i \in k + 1 .. Len(q) : i - k \in 1 .. Len(q) - k /\ q[i] = r[i - k]
        <4>1. \A i \in k + 1 .. Len(q) : i - k \in 1 .. Len(q) - k /\ (i - k) + k = i
          BY <2>2
        <4> QED
          BY <2>5, <4>1
      <3>3. \A i \in 1 .. Len(q) - k : i + k \in k + 1 .. Len(q) /\ r[i] = q[i + k]
        BY <2>2, <2>5
      <3> QED
        BY <3>1, <3>2, <3>3
    <2>8. \A i \in 1 .. k, j \in k + 1 .. Len(q) : q[i] < q[j] /\ q[i] # q[j]
      <3>1. \A i \in 1 .. k, j \in k + 1 .. Len(q) :
              i < j /\ i \in 1 .. Len(q) /\ j \in 1 .. Len(q)
        BY <2>2
      <3>2. \A i \in 1 .. Len(q) : q[i] \in Nat
        BY <2>2
      <3> QED
        BY <2>3, <3>1, <3>2
    <2>9. \A i \in 1 .. Len(q) : i \in 1 .. k \/ i \in k + 1 .. Len(q)
      BY <2>2
    <2>10. \A i : i \in 1 .. k \/ i \in k + 1 .. Len(q) => i \in 1 .. Len(q)
      BY <2>2
    <2>11. Waiting(a)' = Waiting(a) \ ReleasedTasks(a)
      BY <2>6, <2>7, <2>8, <2>9, <2>10, SMTT(60)
    <2>12. ReleasedTasks(a) \subseteq Waiting(a)
      BY <2>6, <2>10
    <2>13. \A h \in ReleasedTasks(a), w \in Waiting(a)' : h < w
      BY <2>6, <2>7, <2>8
    <2>14. DOMAIN q = 1 .. Len(q) /\ DOMAIN r = 1 .. Len(q) - k
      BY <2>2, <2>5
    <2> QED
      BY <1>3, <2>1, <2>5, <2>11, <2>12, <2>13, <2>14, SMTT(60)
  <1> QED
    BY <1>2, <1>3, SMTT(60)

(* What a task lacks is what its counter counts, also after the grants.    *)
LEMMA DescheduleLacking ==
  ASSUME SchedulerInv, NEW t \in running, deschedule_task(t), NEW u
  PROVE  /\ PassedOn(t, u) \subseteq Lacking(u)
         /\ Lacking(u)' = Lacking(u) \ PassedOn(t, u)
         /\ Cardinality(Lacking(u)') = Cardinality(Lacking(u)) - Cardinality(PassedOn(t, u))
         /\ Cardinality(PassedOn(t, u)) \in Nat
         /\ Cardinality(PassedOn(t, u)) = Cardinality(Lacking(u)) <=> Lacking(u)' = {}
  <1>1. DOMAIN locks(t) \subseteq Addresses /\ \A a : a \in DOMAIN locks(t) <=> Uses(t, a)
    <2>1. t \in Tasks
      BY DEF SchedulerInv, TypeInv
    <2> QED
      BY <2>1, TaskTypes, ContextTypes DEF SchedulerInv, Uses, locks
  <1>2. PassedOn(t, u) \subseteq Lacking(u)
    BY <1>1, DescheduleWaiting DEF PassedOn, Lacking
  <1>3. Lacking(u)' = Lacking(u) \ PassedOn(t, u)
    <2>1. Lacking(u)' = {a \in Addresses : u \in Waiting(a)'}
      BY DEF Lacking
    <2>2. \A a \in Addresses : u \in Waiting(a)' <=> u \in Waiting(a) /\ ~(Uses(t, a) /\ u \in ReleasedTasks(a))
      BY DescheduleWaiting
    <2> QED
      BY <1>1, <2>1, <2>2 DEF PassedOn, Lacking
  <1>4. IsFiniteSet(Lacking(u)) /\ IsFiniteSet(PassedOn(t, u))
    BY <1>2, LackingFinite, FS_Subset
  <1>5. Lacking(u) \cap PassedOn(t, u) = PassedOn(t, u)
    BY <1>2
  <1>6. /\ IsFiniteSet(Lacking(u)')
        /\ Cardinality(Lacking(u)') = Cardinality(Lacking(u)) - Cardinality(PassedOn(t, u))
    BY <1>3, <1>4, <1>5, FS_Difference
  <1>7. /\ Cardinality(Lacking(u)) \in Nat /\ Cardinality(PassedOn(t, u)) \in Nat
        /\ Cardinality(Lacking(u)') = 0 <=> Lacking(u)' = {}
    BY <1>4, <1>6, FS_CardinalityType, FS_EmptySet
  <1> QED
    BY <1>2, <1>3, <1>6, <1>7, SMTT(60)

LEMMA WokenTasks ==
  ASSUME SchedulerInv, NEW t \in running, deschedule_task(t)
  PROVE  /\ Woken(t) = {u \in Tasks : Lacking(u) # {} /\ Lacking(u)' = {}}
         /\ IsFiniteSet(Woken(t))
  <1>1. DOMAIN locks(t) \subseteq Addresses /\ \A a : a \in DOMAIN locks(t) <=> Uses(t, a)
    <2>1. t \in Tasks
      BY DEF SchedulerInv, TypeInv
    <2> QED
      BY <2>1, TaskTypes, ContextTypes DEF SchedulerInv, Uses, locks
  <1>2. \A a \in DOMAIN locks(t) : ReleasedTasks(a) \subseteq Tasks
    BY <1>1, DescheduleWaiting DEF SchedulerInv, TypeInv
  <1>3. Woken(t) = {u \in Tasks : PassedOn(t, u) # {} /\ blocked_usage_count[u] = Cardinality(PassedOn(t, u))}
    BY <1>2 DEF Woken, PassedOn
  <1>4. \A u \in Tasks : blocked_usage_count[u] = Cardinality(Lacking(u))
    BY DEF SchedulerInv, CountInv
  <1>5. \A u \in Tasks : blocked_usage_count[u] = Cardinality(PassedOn(t, u)) <=> Lacking(u)' = {}
    BY <1>4, DescheduleLacking
  <1>6. \A u \in Tasks : Lacking(u)' = {} => (PassedOn(t, u) # {} <=> Lacking(u) # {})
    BY DescheduleLacking
  <1>7. Woken(t) \subseteq Tasks
    BY <1>3
  <1> QED
    BY <1>3, <1>5, <1>6, <1>7, TaskTypes, FS_Subset, SMTT(60) DEF SchedulerInv

(* An order of a finite set leaves nobody out.                             *)
LEMMA OrdersAreComplete ==
  ASSUME NEW S, S \subseteq Nat, IsFiniteSet(S), NEW w \in Orders(S)
  PROVE  /\ w \in Seq(Nat) /\ DOMAIN w = 1 .. Cardinality(S) /\ Len(w) = Cardinality(S)
         /\ Cardinality(S) \in Nat
         /\ \A i \in DOMAIN w : w[i] \in S
         /\ \A i, j \in DOMAIN w : w[i] = w[j] => i = j
         /\ \A x \in S : \E i \in DOMAIN w : w[i] = x
  <1>1. Cardinality(S) \in Nat
    BY FS_CardinalityType
  <1>2. /\ w \in [1 .. Cardinality(S) -> S]
        /\ \A i, j \in DOMAIN w : w[i] = w[j] => i = j
    BY DEF Orders
  <1>3. w \in Seq(Nat) /\ Len(w) = Cardinality(S)
    <2>1. w \in [1 .. Cardinality(S) -> Nat]
      BY <1>2, ZenonT(60)
    <2> QED
      BY <1>1, <2>1
  <1>4. w \in Injection(1 .. Cardinality(S), S)
    BY <1>2 DEF Injection, IsInjective
  <1>5. Cardinality(1 .. Cardinality(S)) = Cardinality(S)
    BY <1>1, FS_Interval
  <1>6. w \in Surjection(1 .. Cardinality(S), S)
    BY <1>4, <1>5, FS_Injection
  <1> QED
    BY <1>1, <1>2, <1>3, <1>6 DEF Surjection

LEMMA DescheduleQueue ==
  ASSUME SchedulerInv, NEW t \in running, deschedule_task(t)
  PROVE  /\ unblocked_task_queue' \in Seq(Nat)
         /\ \A i \in DOMAIN unblocked_task_queue' : unblocked_task_queue'[i] \in Tasks
         /\ \A i, j \in DOMAIN unblocked_task_queue' :
              unblocked_task_queue'[i] = unblocked_task_queue'[j] => i = j
         /\ \A u : InQueue(u)' <=> InQueue(u) \/ u \in Woken(t)
  <1>1. PICK w \in Orders(Woken(t)) : unblocked_task_queue' = unblocked_task_queue \o w
    BY DEF deschedule_task
  <1>2. PICK q, r, S : q = unblocked_task_queue /\ r = unblocked_task_queue' /\ S = Woken(t)
    OBVIOUS
  <1>3. /\ q \in Seq(Nat) /\ Len(q) \in Nat /\ DOMAIN q = 1 .. Len(q)
        /\ \A i \in DOMAIN q : q[i] \in Tasks
        /\ \A i, j \in DOMAIN q : q[i] = q[j] => i = j
    BY <1>2 DEF SchedulerInv, TypeInv, ReadyInv
  <1>4. S \subseteq Tasks /\ S \subseteq Nat /\ IsFiniteSet(S)
    BY <1>2, WokenTasks, TaskTypes DEF SchedulerInv
  <1>5. /\ w \in Seq(Nat) /\ Len(w) \in Nat /\ DOMAIN w = 1 .. Len(w)
        /\ \A i \in DOMAIN w : w[i] \in S
        /\ \A i, j \in DOMAIN w : w[i] = w[j] => i = j
        /\ \A x \in S : \E i \in DOMAIN w : w[i] = x
    BY <1>1, <1>2, <1>4, OrdersAreComplete, SMTT(60)
  <1>6. \A x \in S : \A i \in DOMAIN q : q[i] # x
    <2> SUFFICES ASSUME NEW x \in S, NEW i \in DOMAIN q, q[i] = x PROVE FALSE
      OBVIOUS
    <2>1. Lacking(x) # {} /\ x \in Tasks
      BY <1>2, WokenTasks
    <2>2. InQueue(x)
      BY <1>2 DEF InQueue
    <2> QED
      BY <2>1, <2>2 DEF SchedulerInv, ReadyInv
  <1>7. /\ r \in Seq(Nat) /\ DOMAIN r = 1 .. Len(q) + Len(w)
        /\ \A i \in 1 .. Len(q) : i \in DOMAIN r /\ r[i] = q[i]
        /\ \A i \in 1 .. Len(w) : Len(q) + i \in DOMAIN r /\ r[Len(q) + i] = w[i]
        /\ \A i \in DOMAIN r : i \in 1 .. Len(q) \/ (i - Len(q) \in 1 .. Len(w) /\ Len(q) + (i - Len(q)) = i)
    <2>1. /\ r \in Seq(Nat) /\ Len(r) = Len(q) + Len(w)
          /\ \A i \in 1 .. Len(q) + Len(w) : r[i] = IF i <= Len(q) THEN q[i] ELSE w[i - Len(q)]
      BY <1>1, <1>2, <1>3, <1>5, ConcatProperties
    <2>2. DOMAIN r = 1 .. Len(q) + Len(w)
      BY <2>1
    <2>3. \A i \in 1 .. Len(q) : i \in 1 .. Len(q) + Len(w) /\ i <= Len(q)
      BY <1>3, <1>5
    <2>4. \A i \in 1 .. Len(w) : Len(q) + i \in 1 .. Len(q) + Len(w) /\ ~(Len(q) + i <= Len(q))
                                 /\ (Len(q) + i) - Len(q) = i
      BY <1>3, <1>5
    <2>5. \A i \in 1 .. Len(q) + Len(w) :
            i \in 1 .. Len(q) \/ (i - Len(q) \in 1 .. Len(w) /\ Len(q) + (i - Len(q)) = i)
      BY <1>3, <1>5
    <2> QED
      BY <2>1, <2>2, <2>3, <2>4, <2>5, ZenonT(60)
  <1>8. /\ \A i \in DOMAIN r :
             (i \in DOMAIN q /\ r[i] = q[i]) \/ (i - Len(q) \in DOMAIN w /\ r[i] = w[i - Len(q)])
        /\ \A i \in DOMAIN r : r[i] \in Tasks
    <2>1. \A i \in DOMAIN r :
            (i \in DOMAIN q /\ r[i] = q[i]) \/ (i - Len(q) \in DOMAIN w /\ r[i] = w[i - Len(q)])
      <3> SUFFICES ASSUME NEW i \in DOMAIN r, i \notin DOMAIN q
          PROVE i - Len(q) \in DOMAIN w /\ r[i] = w[i - Len(q)]
        BY <1>3, <1>7
      <3>1. PICK k : k = i - Len(q)
        OBVIOUS
      <3>2. k \in 1 .. Len(w) /\ Len(q) + k = i
        BY <1>3, <1>7, <3>1
      <3>3. r[Len(q) + k] = w[k]
        BY <1>7, <3>2
      <3> QED
        BY <1>5, <3>1, <3>2, <3>3, SMTT(60)
    <2> QED
      BY <1>3, <1>4, <1>5, <2>1, SMTT(60)
  <1>9. \A i, j \in DOMAIN r : r[i] = r[j] => i = j
    <2> SUFFICES ASSUME NEW i \in DOMAIN r, NEW j \in DOMAIN r, r[i] = r[j] PROVE i = j
      OBVIOUS
    <2>1. CASE i \in 1 .. Len(q) /\ j \in 1 .. Len(q)
      BY <1>3, <1>7, <2>1, SMTT(60)
    <2>2. CASE i \notin 1 .. Len(q) /\ j \notin 1 .. Len(q)
      <3>1. /\ i - Len(q) \in 1 .. Len(w) /\ r[i] = w[i - Len(q)]
            /\ j - Len(q) \in 1 .. Len(w) /\ r[j] = w[j - Len(q)]
            /\ Len(q) + (i - Len(q)) = i /\ Len(q) + (j - Len(q)) = j
        BY <1>7, <2>2, SMTT(60)
      <3>2. i - Len(q) = j - Len(q)
        BY <1>5, <3>1, Zenon
      <3> QED
        BY <3>1, <3>2
    <2>3. CASE i \in 1 .. Len(q) /\ j \notin 1 .. Len(q)
      BY <1>3, <1>5, <1>6, <1>7, <2>3
    <2>4. CASE i \notin 1 .. Len(q) /\ j \in 1 .. Len(q)
      BY <1>3, <1>5, <1>6, <1>7, <2>4, SMTT(60)
    <2> QED
      BY <2>1, <2>2, <2>3, <2>4
  <1>10. \A u : (\E i \in DOMAIN r : r[i] = u) <=> (\E i \in DOMAIN q : q[i] = u) \/ u \in S
    <2> SUFFICES ASSUME NEW u
        PROVE (\E i \in DOMAIN r : r[i] = u) <=> (\E i \in DOMAIN q : q[i] = u) \/ u \in S
      OBVIOUS
    <2>1. ASSUME NEW i \in DOMAIN r, r[i] = u PROVE (\E k \in DOMAIN q : q[k] = u) \/ u \in S
      BY <1>5, <1>8, <2>1, SMTT(60)
    <2>2. ASSUME NEW i \in DOMAIN q, q[i] = u PROVE \E k \in DOMAIN r : r[k] = u
      BY <1>3, <1>7, <2>2, SMTT(60)
    <2>3. ASSUME u \in S PROVE \E k \in DOMAIN r : r[k] = u
      <3>1. PICK i \in 1 .. Len(w) : w[i] = u
        BY <1>5, <2>3
      <3> QED
        BY <1>7, <3>1, ZenonT(60)
    <2> QED
      BY <2>1, <2>2, <2>3
  <1> QED
    BY <1>2, <1>7, <1>8, <1>9, <1>10 DEF InQueue

LEMMA DescheduleCounts ==
  ASSUME SchedulerInv, NEW t \in running, deschedule_task(t)
  PROVE  /\ TypeInv' /\ CountInv' /\ ReadyInv'
         /\ Unfinished' = Unfinished \ {t} /\ t \in Unfinished
         /\ \A u : locks(u)' = locks(u)
         /\ Tasks' = Tasks
  <1>1. /\ Tasks' = Tasks
        /\ \A u : locks(u)' = locks(u)
        /\ running' = running \ {t}
    BY DEF deschedule_task, Tasks, locks
  <1>2. t \in Tasks /\ Lacking(t) = {} /\ ~InQueue(t)
    BY DEF SchedulerInv, TypeInv, ReadyInv
  <1>3. /\ blocked_usage_count' \in [Tasks -> Nat]
        /\ \A u \in Tasks : blocked_usage_count'[u] = Cardinality(Lacking(u)')
    <2>1. blocked_usage_count' = [u \in Tasks |-> blocked_usage_count[u] - Cardinality(PassedOn(t, u))]
      BY DEF deschedule_task, PassedOn
    <2>2. \A u \in Tasks : blocked_usage_count'[u] = Cardinality(Lacking(u)')
      BY <2>1, DescheduleLacking DEF SchedulerInv, CountInv
    <2>3. \A u \in Tasks : Cardinality(Lacking(u)') \in Nat
      <3>1. \A u \in Tasks : Lacking(u)' \subseteq Addresses
        BY DEF Lacking
      <3> QED
        BY <3>1, AddressesAssumption, FS_Subset, FS_CardinalityType, SMTT(60)
    <2> QED
      BY <2>1, <2>2, <2>3, SMTT(60)
  <1>4. blocked_usage_count' \in Seq(Nat) /\ Len(blocked_usage_count') = Len(lock_contexts')
    <2>1. Tasks = 1 .. Len(lock_contexts) /\ Len(lock_contexts) \in Nat
      BY TaskTypes, SMTT(60) DEF SchedulerInv
    <2>2. lock_contexts' = lock_contexts
      BY DEF deschedule_task
    <2> QED
      BY <1>3, <2>1, <2>2
  <1>5. TypeInv'
    <2>1. current_usage' \in [Addresses -> Int]
      <3>1. current_usage' = [a \in Addresses |-> IF Uses(t, a) THEN GrantedUsage(a) ELSE current_usage[a]]
        BY DEF deschedule_task
      <3>2. \A a \in Addresses : Uses(t, a) => GrantedUsage(a) \in Int
        <4> SUFFICES ASSUME NEW a \in Addresses, Uses(t, a) PROVE GrantedUsage(a) \in Int
          OBVIOUS
        <4>1. Unlocked(a) \in Int
          <5>1. Unlocked(a) \in Nat
            BY UnlockedUsage, Zenon
          <5> QED
            BY <5>1, SMTT(60)
        <4>2. Released(a) \in Int
          <5>1. PICK q : q = blocked_usages_from_tasks[a]
            OBVIOUS
          <5>2. Released(a) \in 0 .. Len(q)
            BY <5>1, ReleasedUsages
          <5> QED
            BY <5>2
        <4> QED
          BY <4>1, <4>2 DEF GrantedUsage, Written
      <3> QED
        BY <3>1, <3>2, SMTT(60) DEF SchedulerInv, TypeInv
    <2>2. blocked_usages_from_tasks' \in [Addresses -> Seq(Nat)]
      <3>1. \A a \in Addresses : blocked_usages_from_tasks'[a] \in Seq(Nat)
        BY DescheduleWaiting, WaiterContexts, SMTT(60)
      <3>2. /\ DOMAIN blocked_usages_from_tasks' = Addresses
            /\ blocked_usages_from_tasks' = [a \in Addresses |-> blocked_usages_from_tasks'[a]]
        BY SMTT(60) DEF deschedule_task
      <3> QED
        BY <3>1, <3>2, SMTT(60)
    <2>3. \A a \in Addresses : Waiting(a)' \subseteq Tasks
      BY DescheduleWaiting, WaiterContexts, SMTT(60)
    <2>4. lock_contexts' \in Seq(LockContexts) /\ running' \subseteq Tasks
      BY DEF deschedule_task, SchedulerInv, TypeInv
    <2> QED
      BY <1>1, <1>4, <2>1, <2>2, <2>3, <2>4, DescheduleQueue, SMTT(60) DEF TypeInv
  <1>6. \A u \in Tasks : blocked_usage_count'[u] = 0 <=> Lacking(u)' = {}
    <2>1. \A u \in Tasks : IsFiniteSet(Lacking(u)')
      <3>1. \A u \in Tasks : Lacking(u)' \subseteq Addresses
        BY DEF Lacking
      <3> QED
        BY <3>1, AddressesAssumption, FS_Subset
    <2> QED
      BY <1>3, <2>1, FS_EmptySet, SMTT(60)
  <1>7. \A u \in Tasks : u \in Unfinished' <=> u \in running' \/ InQueue(u)' \/ Lacking(u)' # {}
    BY <1>1, <1>6, Zenon DEF Unfinished, Finished
  <1>8. \A u \in Tasks : u \in Unfinished <=> u \in running \/ InQueue(u) \/ Lacking(u) # {}
    BY UnfinishedTasks, SMTT(60) DEF SchedulerInv
  <1>9. /\ \A u : InQueue(u)' <=> InQueue(u) \/ u \in Woken(t)
        /\ Woken(t) = {u \in Tasks : Lacking(u) # {} /\ Lacking(u)' = {}}
        /\ \A u : Lacking(u)' \subseteq Lacking(u)
    BY DescheduleQueue, WokenTasks, DescheduleLacking
  <1>10. Unfinished' = Unfinished \ {t} /\ t \in Unfinished
    <2>1. \A u \in Tasks : u \in Unfinished' <=> u \in Unfinished /\ u # t
      BY <1>1, <1>2, <1>7, <1>8, <1>9, SMTT(60)
    <2>2. Unfinished \subseteq Tasks /\ Unfinished' \subseteq Tasks
      BY <1>1, SMTT(60) DEF Unfinished
    <2> QED
      BY <1>2, <1>8, <2>1, <2>2, SMTT(60)
  <1>11. active_task_count' = Cardinality(Unfinished')
    BY <1>10, TaskTypes, FS_RemoveElement, ZenonT(60) DEF deschedule_task, SchedulerInv, CountInv
  <1>12. ReadyInv'
    <2>1. \A u \in Tasks : u \in running' \/ InQueue(u)' => Lacking(u)' = {}
      BY <1>1, <1>9 DEF SchedulerInv, ReadyInv
    <2>2. \A u \in running' : ~InQueue(u)'
      BY <1>1, <1>9, SMTT(60) DEF SchedulerInv, ReadyInv, TypeInv
    <2> QED
      BY <1>1, <2>1, <2>2, DescheduleQueue DEF ReadyInv
  <1> QED
    BY <1>1, <1>3, <1>5, <1>10, <1>11, <1>12 DEF CountInv

LEMMA DescheduleHolders ==
  ASSUME SchedulerInv, NEW t \in running, deschedule_task(t), NEW a \in Addresses
  PROVE  /\ Uses(t, a) => Holders(a)' = (Holders(a) \ {t}) \cup ReleasedTasks(a)
         /\ ~Uses(t, a) => Holders(a)' = Holders(a)
  <1>1. /\ Unfinished' = Unfinished \ {t} /\ \A u : Uses(u, a)' <=> Uses(u, a)
    BY DescheduleCounts, ZenonT(60) DEF deschedule_task, Uses
  <1>2. /\ t \notin Waiting(a)
        /\ \A u \in Waiting(a) : u \in Unfinished /\ Uses(u, a)
    BY RunnerHolds, WaiterContexts DEF SchedulerInv, QueueInv
  <1>3. Holders(a)' = {u \in Unfinished \ {t} : Uses(u, a) /\ u \notin Waiting(a)'}
    BY <1>1 DEF Holders
  <1>4. CASE ~Uses(t, a)
    <2>1. Waiting(a)' = Waiting(a)
      BY <1>4, DescheduleWaiting, SMTT(60)
    <2> QED
      BY <1>3, <1>4, <2>1, SMTT(60) DEF Holders
  <1>5. CASE Uses(t, a)
    <2>1. ReleasedTasks(a) \subseteq Waiting(a) /\ Waiting(a)' = Waiting(a) \ ReleasedTasks(a)
      BY <1>5, DescheduleWaiting, SMTT(60)
    <2> QED
      BY <1>2, <1>3, <1>5, <2>1, SMTT(60) DEF Holders
  <1> QED
    BY <1>4, <1>5, SMTT(60)

(* A queue names every task once, so that its front of length k is k tasks. *)
LEMMA ReleasedCount ==
  ASSUME SchedulerInv, NEW a \in Addresses,
         NEW k \in 0 .. Len(blocked_usages_from_tasks[a])
  PROVE  Cardinality({blocked_usages_from_tasks[a][i] : i \in 1 .. k}) = k
  <1>1. PICK q : q = blocked_usages_from_tasks[a]
    OBVIOUS
  <1>2. /\ q \in Seq(Nat) /\ Len(q) \in Nat
        /\ \A i, j \in 1 .. Len(q) : i < j => q[i] < q[j]
    BY <1>1 DEF SchedulerInv, TypeInv, QueueInv
  <1>3. PICK T, f : T = {q[i] : i \in 1 .. k} /\ f = [i \in 1 .. k |-> q[i]]
    BY ZenonT(60)
  <1>4. k \in Nat /\ \A i \in 1 .. k : i \in 1 .. Len(q) /\ q[i] \in Nat /\ i \in Nat
    BY <1>1, <1>2
  <1>5. \A i, j \in 1 .. k : q[i] = q[j] => i = j
    <2> SUFFICES ASSUME NEW i \in 1 .. k, NEW j \in 1 .. k, q[i] = q[j], i # j PROVE FALSE
      OBVIOUS
    <2>1. i < j \/ j < i
      BY <1>4
    <2> QED
      BY <1>2, <1>4, <2>1
  <1>6. f \in Surjection(1 .. k, T)
    BY <1>3 DEF Surjection
  <1>7. f \in Injection(1 .. k, T)
    BY <1>3, <1>5 DEF Injection, IsInjective
  <1>8. IsFiniteSet(1 .. k) /\ Cardinality(1 .. k) = k
    BY <1>4, FS_Interval
  <1> QED
    BY <1>1, <1>3, <1>6, <1>7, <1>8, FS_Surjection, SMTT(60)

LEMMA DescheduleUsage ==
  ASSUME SchedulerInv, NEW t \in running, deschedule_task(t), NEW a \in Addresses
  PROVE  UsageInv(a)'
  <1>1. UsageInv(a) /\ \A u : locks(u)' = locks(u)
    BY DescheduleCounts, SMTT(60) DEF SchedulerInv
  <1>2. current_usage'[a] = IF Uses(t, a) THEN GrantedUsage(a) ELSE current_usage[a]
    BY SMTT(60) DEF deschedule_task
  <1>3. CASE ~Uses(t, a)
    <2>1. /\ current_usage'[a] = current_usage[a] /\ Holders(a)' = Holders(a)
          /\ blocked_usages_from_tasks'[a] = blocked_usages_from_tasks[a]
      BY <1>2, <1>3, DescheduleHolders, DescheduleWaiting
    <2> QED
      BY <1>1, <2>1, SMTT(60) DEF UsageInv, locks
  <1>4. CASE Uses(t, a)
    <2>1. PICK q, r, k : /\ q = blocked_usages_from_tasks[a]
                         /\ r = blocked_usages_from_tasks'[a]
                         /\ k = Released(a)
      OBVIOUS
    <2>2. /\ q \in Seq(Nat) /\ Len(q) \in Nat /\ r \in Seq(Nat)
          /\ k \in 0 .. Len(q) /\ Len(r) = Len(q) - k
          /\ \A i \in DOMAIN r : r[i] = q[i + k]
          /\ ReleasedTasks(a) = {q[i] : i \in 1 .. k}
          /\ Holders(a)' = (Holders(a) \ {t}) \cup ReleasedTasks(a)
          /\ current_usage'[a] = GrantedUsage(a)
      <3>1. q \in Seq(Nat) /\ Len(q) \in Nat
        BY <2>1, WaiterContexts
      <3>2. k \in 0 .. Len(q)
        BY <1>4, <2>1, ReleasedUsages
      <3>3. r \in Seq(Nat) /\ Len(r) = Len(q) - k /\ \A i \in DOMAIN r : r[i] = q[i + k]
        BY <1>4, <2>1, DescheduleWaiting
      <3>4. Holders(a)' = (Holders(a) \ {t}) \cup ReleasedTasks(a)
        BY <1>4, DescheduleHolders
      <3>5. ReleasedTasks(a) = {q[i] : i \in 1 .. k}
        BY <2>1 DEF ReleasedTasks
      <3> QED
        BY <1>2, <1>4, <3>1, <3>2, <3>3, <3>4, <3>5
    <2>3. r # <<>> => 1 \in DOMAIN r /\ r[1] = q[k + 1] /\ k < Len(q)
      <3>1. r # <<>> => Len(r) \in Nat \ {0} /\ 1 \in DOMAIN r
        BY <2>2, EmptySeq
      <3>2. 1 + k = k + 1 /\ (Len(r) \in Nat \ {0} => k < Len(q))
        BY <2>2
      <3> QED
        BY <2>2, <3>1, <3>2, ZenonT(60)
    <2>4. CASE k = 0
      <3>1. /\ current_usage'[a] = Unlocked(a)
            /\ ReleasedTasks(a) = {}
        BY <2>1, <2>2, <2>4, SMTT(60) DEF GrantedUsage
      <3>2. Holders(a)' = Holders(a) \ {t}
        BY <2>2, <3>1, Zenon
      <3>3. CASE Unlocked(a) = Unused
        <4>1. Holders(a)' = {}
          BY <1>4, <3>2, <3>3, UnlockedUsage, ZenonT(60)
        <4>2. q = <<>>
          <5>1. Released(a) = 0
            BY <2>1, <2>4
          <5>2. Released(a) = 0 => Unlocked(a) # Unused \/ q = <<>>
            BY <1>4, <2>1, ReleasedUsages
          <5> QED
            BY <3>3, <5>1, <5>2
        <4>3. r = <<>>
          BY <2>2, <2>3, <2>4, <4>2, EmptySeq, SMTT(60)
        <4> QED
          BY <2>1, <3>1, <3>3, <4>1, <4>3 DEF UsageInv, Unused, Written
      <3>4. CASE Unlocked(a) # Unused
        <4>1. /\ Unlocked(a) \in Nat /\ Unlocked(a) = Cardinality(Holders(a)')
              /\ \A h \in Holders(a)' : locks(h)[a] = Readonly
              /\ q # <<>> => locks(q[1])[a] = Writable
          BY <1>4, <2>1, <3>2, <3>4, UnlockedUsage, ZenonT(60)
        <4>2. r # <<>> => r[1] = q[1] /\ q # <<>>
          BY <2>2, <2>3, <2>4, EmptySeq
        <4>3. r # <<>> => lock_contexts'[r[1]][a] = Writable
          BY <1>1, <4>1, <4>2 DEF locks
        <4>4. current_usage'[a] \notin {Unused, Written}
          BY <3>1, <3>4, <4>1 DEF Unused, Written
        <4> QED
          BY <1>1, <2>1, <3>1, <4>1, <4>3, <4>4, SMTT(60) DEF UsageInv, locks
      <3> QED
        BY <3>3, <3>4, SMTT(60)
    <2>5. CASE k # 0
      <3>1. k > 0 /\ k \in Nat
        BY <2>2, <2>5, SMTT(60)
      <3>2. Unlocked(a) = Unused /\ Holders(a) = {t}
        BY <1>4, <2>1, <3>1, ReleasedUsages, UnlockedUsage, Zenon
      <3>3. Holders(a)' = {q[i] : i \in 1 .. k}
        BY <2>2, <3>2, ZenonT(60)
      <3>4. CASE locks(q[1])[a] = Writable
        <4>1. k = 1
          BY <1>4, <2>1, <3>1, <3>4, ReleasedUsages
        <4>2. current_usage'[a] = Written
          BY <2>1, <2>2, <2>5, <3>4, SMTT(60) DEF GrantedUsage
        <4>3. Holders(a)' = {q[1]}
          BY <3>3, <4>1, SMTT(60)
        <4> QED
          BY <1>1, <3>4, <4>2, <4>3 DEF UsageInv, Unused, Written, locks
      <3>5. CASE locks(q[1])[a] # Writable
        <4>1. /\ \A i \in 1 .. k : locks(q[i])[a] = Readonly
              /\ k < Len(q) => locks(q[k + 1])[a] = Writable
          BY <1>4, <2>1, <3>1, <3>5, ReleasedUsages, SMTT(60)
        <4>2. current_usage'[a] = k
          BY <2>1, <2>2, <2>5, <3>5, SMTT(60) DEF GrantedUsage
        <4>3. Cardinality(Holders(a)') = k
          <5>1. k \in 0 .. Len(blocked_usages_from_tasks[a])
            BY <2>1, <2>2
          <5>2. Cardinality({blocked_usages_from_tasks[a][i] : i \in 1 .. k}) = k
            BY <5>1, ReleasedCount
          <5> QED
            BY <2>1, <3>3, <5>2
        <4>4. \A h \in Holders(a)' : locks(h)[a] = Readonly
          BY <3>3, <4>1, SMTT(60)
        <4>5. r # <<>> => lock_contexts'[r[1]][a] = Writable
          BY <1>1, <2>3, <4>1 DEF locks
        <4>6. k \notin {Unused, Written}
          BY <3>1 DEF Unused, Written
        <4> QED
          BY <1>1, <2>1, <4>2, <4>3, <4>4, <4>5, <4>6, SMTT(60) DEF UsageInv, locks
      <3> QED
        BY <3>4, <3>5
    <2> QED
      BY <2>4, <2>5, SMTT(60)
  <1> QED
    BY <1>3, <1>4

LEMMA DescheduleInv ==
  ASSUME SchedulerInv, NEW t \in running, deschedule_task(t)
  PROVE  SchedulerInv'
  <1>1. QueueInv'
    <2> SUFFICES ASSUME NEW a \in Addresses
        PROVE /\ \A i, j \in DOMAIN blocked_usages_from_tasks'[a] :
                   i < j => blocked_usages_from_tasks'[a][i] < blocked_usages_from_tasks'[a][j]
              /\ \A u \in Waiting(a)' : Uses(u, a)'
      BY DEF QueueInv
    <2>1. /\ \A i, j \in DOMAIN blocked_usages_from_tasks[a] :
               i < j => blocked_usages_from_tasks[a][i] < blocked_usages_from_tasks[a][j]
          /\ \A u \in Waiting(a) : Uses(u, a)
      BY SMTT(60) DEF SchedulerInv, QueueInv
    <2>2. \A u : Uses(u, a)' <=> Uses(u, a)
      BY SMTT(60) DEF deschedule_task, Uses
    <2>3. Waiting(a)' \subseteq Waiting(a)
      BY DescheduleWaiting, SMTT(60)
    <2>4. CASE ~Uses(t, a)
      BY <2>1, <2>2, <2>3, <2>4, DescheduleWaiting, SMTT(60)
    <2>5. CASE Uses(t, a)
      <3>1. PICK q, r, k : /\ q = blocked_usages_from_tasks[a]
                           /\ r = blocked_usages_from_tasks'[a]
                           /\ k = Released(a)
        OBVIOUS
      <3>2. k \in Nat
        <4>1. k \in 0 .. Len(q)
          BY <2>5, <3>1, ReleasedUsages, SMTT(60)
        <4> QED
          BY <4>1, SMTT(60)
      <3>3. r \in Seq(Nat) /\ \A i \in DOMAIN r : i + k \in DOMAIN q /\ r[i] = q[i + k]
        BY <2>5, <3>1, DescheduleWaiting, SMTT(60)
      <3>4. \A i, j \in DOMAIN r : i < j => i + k < j + k
        BY <3>2, <3>3, SMTT(60)
      <3>5. \A i, j \in DOMAIN r : i < j => r[i] < r[j]
        BY <2>1, <3>1, <3>3, <3>4, SMTT(60)
      <3> QED
        BY <2>1, <2>2, <2>3, <3>1, <3>5, SMTT(60)
    <2> QED
      BY <2>4, <2>5, SMTT(60)
  <1>2. OrderInv'
    <2> SUFFICES ASSUME NEW a \in Addresses, NEW h \in Holders(a)', NEW w \in Waiting(a)'
        PROVE h < w
      BY DEF OrderInv
    <2>1. \A x \in Holders(a), y \in Waiting(a) : x < y
      BY DEF SchedulerInv, OrderInv
    <2> QED
      BY <2>1, DescheduleWaiting, DescheduleHolders
  <1>3. \A a \in Addresses : UsageInv(a)'
    BY DescheduleUsage
  <1> QED
    BY <1>1, <1>2, <1>3, DescheduleCounts, SMTT(60) DEF SchedulerInv

-----------------------------------------------------------------------------
(* The scheduler *)

LEMMA InitInv == Init => SchedulerInv /\ Finished = {}
  <1>1. Init => Clean
    BY DEF Init, InitMachine, Clean, Unused
  <1> QED
    BY <1>1, CleanInv

LEMMA StepInv == SchedulerInv /\ [Next]_machineVars => SchedulerInv'
  <1> SUFFICES ASSUME SchedulerInv, [Next]_machineVars PROVE SchedulerInv'
    OBVIOUS
  <1>1. CASE ScheduleTask
    BY <1>1, ScheduleInv DEF ScheduleTask
  <1>2. CASE ScheduleNext
    BY <1>2, NextInv DEF ScheduleNext
  <1>3. ASSUME NEW t \in Tasks, DescheduleTask(t) PROVE SchedulerInv'
    BY <1>3, DescheduleInv DEF DescheduleTask
  <1>4. CASE Reinitialize
    BY <1>4, ReinitializeInv, SMTT(60)
  <1>5. CASE UNCHANGED machineVars
    <2>1. /\ Tasks' = Tasks /\ Unfinished' = Unfinished
          /\ \A t : (locks(t)' = locks(t)) /\ (InQueue(t)' <=> InQueue(t))
          /\ \A a : Waiting(a)' = Waiting(a)
          /\ \A t, a : Uses(t, a)' <=> Uses(t, a)
      BY <1>5, SMTT(60) DEF machineVars, Tasks, Unfinished, Finished, locks, InQueue, Waiting, Uses
    <2>2. /\ \A t : Lacking(t)' = Lacking(t)
          /\ \A a : Holders(a)' = Holders(a)
      BY <2>1, SMTT(60) DEF Lacking, Holders
    <2>3. TypeInv' /\ CountInv' /\ QueueInv' /\ ReadyInv' /\ OrderInv'
      BY <1>5, <2>1, <2>2, SMTT(60)
         DEF machineVars, SchedulerInv, TypeInv, CountInv, QueueInv, ReadyInv, OrderInv
    <2>4. \A a \in Addresses : UsageInv(a)'
      BY <1>5, <2>1, <2>2, SMTT(60) DEF machineVars, SchedulerInv, UsageInv, locks
    <2> QED
      BY <2>3, <2>4, SMTT(60) DEF SchedulerInv
  <1> QED
    BY <1>1, <1>2, <1>3, <1>4, <1>5, SMTT(60) DEF Next

(* Every state of the scheduler satisfies the inductive invariant.         *)
THEOREM AlwaysSchedulerInv == Spec => []SchedulerInv
  BY InitInv, StepInv, PTL DEF Spec

(* A task that lacks nothing comes after the end of every earlier task it  *)
(* conflicts with: of two holders of an address none writes.               *)
LEMMA HoldersDoNotConflict ==
  SchedulerInv => \A t \in Unfinished : Lacking(t) = {} =>
    \A u \in 1 .. t - 1 : Order!Conflict(locks(u), locks(t)) => u \in Finished
  <1> SUFFICES ASSUME SchedulerInv, NEW t \in Unfinished, Lacking(t) = {},
                      NEW u \in 1 .. t - 1, Order!Conflict(locks(u), locks(t)), u \notin Finished
      PROVE FALSE
    OBVIOUS
  <1>1. /\ t \in Tasks /\ t \in Nat /\ u \in Tasks /\ u \in Nat /\ u < t
    BY TaskTypes DEF SchedulerInv
  <1>2. u \in Unfinished
    BY <1>1, SMTT(60) DEF Unfinished
  <1>3. PICK a \in DOMAIN locks(u) \cap DOMAIN locks(t) :
          locks(u)[a] = Writable \/ locks(t)[a] = Writable
    BY SMTT(60) DEF Order!Conflict, Writable
  <1>4. a \in Addresses /\ Uses(u, a) /\ Uses(t, a)
    BY <1>1, <1>3, TaskTypes, ContextTypes, SMTT(60) DEF SchedulerInv, Uses, locks
  <1>5. t \in Holders(a)
    BY <1>4 DEF Lacking, Holders
  <1>6. CASE u \in Waiting(a)
    <2>1. t < u
      BY <1>4, <1>5, <1>6, SMTT(60) DEF SchedulerInv, OrderInv
    <2> QED
      BY <1>1, <2>1, SMTT(60)
  <1>7. CASE u \notin Waiting(a)
    <2>1. u \in Holders(a)
      BY <1>2, <1>4, <1>7, SMTT(60) DEF Holders
    <2>2. UsageInv(a) /\ u # t /\ Readonly # Writable
      BY <1>1, <1>4, SMTT(60) DEF SchedulerInv, Readonly, Writable
    <2> QED
      BY <1>3, <1>5, <2>1, <2>2, SMTT(60) DEF UsageInv
  <1> QED
    BY <1>6, <1>7, SMTT(60)

LEMMA FinishedTasks == Finished = Tasks \ Unfinished /\ Finished \subseteq Tasks
  BY DEF Finished, Unfinished

(* Each operation of the scheduler is one step of the order it promises.   *)
LEMMA StepRefines ==
  SchedulerInv /\ SchedulerInv' /\ [Next]_machineVars => [Order!Next]_(Order!vars)
  <1> SUFFICES ASSUME SchedulerInv, SchedulerInv', [Next]_machineVars
      PROVE [Order!Next]_(Order!vars)
    OBVIOUS
  <1>1. ASSUME NEW c \in LockContexts, NEW force \in BOOLEAN, schedule_or_buffer_task(c, force)
        PROVE  Order!Submit(c)
    <2>1. PICK n : n = Len(lock_contexts) + 1
      BY SMTT(60)
    <2>2. /\ lock_contexts' = Append(lock_contexts, c)
          /\ Len(lock_contexts') = n /\ n \notin Tasks
          /\ Tasks' = Tasks \cup {n}
          /\ Unfinished' = Unfinished \cup {n}
      BY <1>1, <2>1, ScheduleTasks, ScheduleCounts, ZenonT(60) DEF schedule_or_buffer_task
    <2>3. Finished' = Finished /\ n \notin Finished
      <3>1. Finished' = Tasks' \ Unfinished'
        BY SMTT(60) DEF Finished, Unfinished
      <3> QED
        BY <2>2, <3>1, FinishedTasks, SMTT(60)
    <2>4. running' = running \/ (running' = running \cup {n} /\ n \in running')
      BY <1>1, <2>1, SMTT(60) DEF schedule_or_buffer_task
    <2>5. ASSUME n \in running'
          PROVE  Order!MayStart(n, lock_contexts')
      <3>1. n \notin running
        BY <2>2, SMTT(60) DEF SchedulerInv, TypeInv
      <3>2. (Lacking(n) = {})' /\ n \in Unfinished'
        BY <2>2, <2>5, ZenonT(60) DEF SchedulerInv, ReadyInv, TypeInv
      <3>3. (\A t \in Unfinished : Lacking(t) = {} =>
               \A u \in 1 .. t - 1 : Order!Conflict(locks(u), locks(t)) => u \in Finished)'
        BY HoldersDoNotConflict, PTL
      <3>4. \A u \in 1 .. n - 1 :
              Order!Conflict(lock_contexts'[u], lock_contexts'[n]) => u \in Finished'
        BY <3>2, <3>3 DEF locks
      <3> QED
        BY <2>3, <3>1, <3>4, SMTT(60) DEF Order!MayStart
    <2> QED
      BY <2>2, <2>3, <2>4, <2>5, SMTT(60) DEF Order!Submit
  <1>2. ASSUME schedule_next_unblocked_task
        PROVE  \E t \in Tasks : Order!Start(t)
    <2>1. PICK h : h = Head(unblocked_task_queue)
      OBVIOUS
    <2>2. h \in Tasks /\ InQueue(h) /\ Unfinished' = Unfinished
      BY <1>2, <2>1, NextInv, SMTT(60)
    <2>3. h \notin running /\ Lacking(h) = {} /\ h \in Unfinished
      BY <2>2, UnfinishedTasks, SMTT(60) DEF SchedulerInv, ReadyInv
    <2>4. lock_contexts' = lock_contexts /\ running' = running \cup {h}
      BY <1>2, <2>1 DEF schedule_next_unblocked_task
    <2>5. Finished' = Finished /\ h \notin Finished
      <3>1. Finished' = Tasks' \ Unfinished' /\ Tasks' = Tasks
        BY <2>4 DEF Finished, Unfinished, Tasks
      <3> QED
        BY <2>2, <2>3, <3>1, FinishedTasks, SMTT(60)
    <2>6. Order!MayStart(h, lock_contexts)
      BY <2>3, <2>5, HoldersDoNotConflict, SMTT(60) DEF Order!MayStart, locks
    <2> QED
      BY <2>2, <2>4, <2>5, <2>6, SMTT(60) DEF Order!Start
  <1>3. ASSUME NEW t \in Tasks, DescheduleTask(t)
        PROVE  Order!Finish(t)
    <2>1. t \in running /\ deschedule_task(t)
      BY <1>3 DEF DescheduleTask
    <2>2. Unfinished' = Unfinished \ {t} /\ Tasks' = Tasks /\ t \in Unfinished
      BY <2>1, DescheduleCounts, SMTT(60)
    <2>3. Finished' = Finished \cup {t}
      <3>1. Finished' = Tasks' \ Unfinished'
        BY DEF Finished, Unfinished
      <3> QED
        BY <2>2, <3>1, FinishedTasks, SMTT(60)
    <2> QED
      BY <2>1, <2>3, SMTT(60) DEF Order!Finish, deschedule_task
  <1>4. ASSUME Reinitialize PROVE Order!NewBlock
    BY <1>4, ReinitializeInv, SMTT(60) DEF Order!NewBlock, Reinitialize, reinitialize, Tasks
  <1>5. CASE UNCHANGED machineVars
    BY <1>5 DEF machineVars, Order!vars, Finished, Tasks, InQueue
  <1> QED
    BY <1>1, <1>2, <1>3, <1>4, <1>5, SMTT(60)
       DEF Next, ScheduleTask, ScheduleNext, Order!Next, Tasks

(* The usage queues implement the order of conflicting transactions, for   *)
(* every set of addresses and every number of tasks.                       *)
THEOREM SchedulerImplementsOrder == Spec => ImplementsConflictOrder
  <1>1. Init => Order!Init
    BY InitInv DEF Init, InitMachine, Order!Init
  <1> QED
    BY <1>1, AlwaysSchedulerInv, StepRefines, PTL DEF Spec, ImplementsConflictOrder, Order!Spec

(* A task waits only for an earlier one that it conflicts with and that    *)
(* has not ended.                                                          *)
THEOREM WaitsAreConflicts == Spec => []BlockedOnlyByConflict
  <1>1. SchedulerInv => BlockedOnlyByConflict
    <2> SUFFICES ASSUME SchedulerInv, NEW t \in Tasks, blocked_usage_count[t] > 0
        PROVE \E u \in Unfinished : u < t /\ Order!Conflict(locks(u), locks(t))
      BY DEF BlockedOnlyByConflict
    <2>1. Lacking(t) # {}
      BY FS_EmptySet DEF SchedulerInv, CountInv
    <2>2. PICK a \in Addresses : t \in Waiting(a)
      BY <2>1 DEF Lacking
    <2>3. PICK q : q = blocked_usages_from_tasks[a]
      OBVIOUS
    <2>4. PICK i \in DOMAIN q : q[i] = t
      BY <2>2, <2>3, SMTT(60) DEF Waiting
    <2>5. /\ q \in Seq(Nat) /\ q # <<>> /\ 1 \in DOMAIN q /\ i \in Nat /\ i >= 1
          /\ q[1] \in Waiting(a) /\ locks(t)[a] \in {Readonly, Writable}
      BY <2>3, <2>4, WaiterContexts, EmptySeq, SMTT(60)
    <2>6. /\ UsageInv(a) /\ \A x \in Waiting(a) : Uses(x, a)
          /\ \A h \in Holders(a) : h < t /\ Uses(h, a) /\ h \in Unfinished
      BY <2>2, SMTT(60) DEF SchedulerInv, OrderInv, QueueInv, Holders
    <2>7. CASE \E h \in Holders(a) : locks(h)[a] = Writable \/ locks(t)[a] = Writable
      BY <2>2, <2>6, <2>7, SMTT(60) DEF Order!Conflict, Uses, locks, Writable
    <2>8. CASE ~\E h \in Holders(a) : locks(h)[a] = Writable \/ locks(t)[a] = Writable
      <3>1. current_usage[a] \notin {Unused, Written}
        BY <2>3, <2>5, <2>6, <2>8, SMTT(60) DEF UsageInv
      <3>2. Holders(a) # {} /\ locks(q[1])[a] = Writable
        BY <2>3, <2>5, <2>6, <3>1, FS_EmptySet, ZenonT(60) DEF UsageInv, Unused
      <3>3. locks(t)[a] = Readonly /\ Readonly # Writable
        BY <2>5, <2>8, <3>2 DEF Readonly, Writable
      <3>4. i # 1
        BY <2>4, <3>2, <3>3
      <3>5. q[1] < t
        BY <2>3, <2>4, <2>5, <3>4, SMTT(60) DEF SchedulerInv, QueueInv
      <3>6. q[1] \in Unfinished /\ Uses(q[1], a) /\ Uses(t, a)
        BY <2>2, <2>5, <2>6, WaiterContexts, SMTT(60)
      <3> QED
        BY <3>2, <3>5, <3>6, SMTT(60) DEF Order!Conflict, Uses, locks, Writable
    <2> QED
      BY <2>7, <2>8, SMTT(60)
  <1> QED
    BY <1>1, AlwaysSchedulerInv, PTL

(* When no task is active the queues are as new, so that reinitialize need *)
(* not clean them and its assertions hold.                                 *)
THEOREM QueuesAreClean == Spec => []QueuesCleanWhenInactive
  <1>1. SchedulerInv => QueuesCleanWhenInactive
    BY InactiveIsClean DEF QueuesCleanWhenInactive
  <1> QED
    BY <1>1, AlwaysSchedulerInv, PTL
=============================================================================
