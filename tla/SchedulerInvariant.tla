------------------------- MODULE SchedulerInvariant -------------------------
(***************************************************************************)
(* The invariant of the usage queues, and that the arrival of a task, its  *)
(* handing out and a new session keep it.  What the end of a task does,    *)
(* and the theorems, are in SchedulerProofs.                               *)
(***************************************************************************)
EXTENDS UnifiedScheduler, TLAPS, FiniteSetTheorems, SequenceTheorems

Waiting(a) == {blocked_usages_from_tasks[a][i] : i \in DOMAIN blocked_usages_from_tasks[a]}
Lacking(t) == {a \in Addresses : t \in Waiting(a)}

(* The tasks that have been granted a and have not ended.                  *)
Holders(a) == {t \in Unfinished : Uses(t, a) /\ t \notin Waiting(a)}

(* The types, and what the counters count.                                 *)
TypeInv ==
  /\ lock_contexts \in Seq(LockContexts)
  /\ current_usage \in [Addresses -> Int]
  /\ blocked_usages_from_tasks \in [Addresses -> Seq(Nat)]
  /\ \A a \in Addresses : Waiting(a) \subseteq Tasks
  /\ blocked_usage_count \in Seq(Nat)
  /\ Len(blocked_usage_count) = Len(lock_contexts)
  /\ unblocked_task_queue \in Seq(Nat)
  /\ \A i \in DOMAIN unblocked_task_queue : unblocked_task_queue[i] \in Tasks
  /\ running \subseteq Tasks

CountInv ==
  /\ \A t \in Tasks : blocked_usage_count[t] = Cardinality(Lacking(t))
  /\ active_task_count = Cardinality(Unfinished)

(* The tasks that wait for an address came one after the other.            *)
QueueInv ==
  \A a \in Addresses :
    /\ \A i, j \in DOMAIN blocked_usages_from_tasks[a] :
         i < j => blocked_usages_from_tasks[a][i] < blocked_usages_from_tasks[a][j]
    /\ \A t \in Waiting(a) : Uses(t, a)

(* A task that runs or may run has all its addresses.                      *)
ReadyInv ==
  /\ \A i, j \in DOMAIN unblocked_task_queue :
       unblocked_task_queue[i] = unblocked_task_queue[j] => i = j
  /\ \A t \in Tasks : t \in running \/ InQueue(t) => Lacking(t) = {}
  /\ \A t \in running : ~InQueue(t)

(* The usage of an address is that of its holders.                         *)
UsageInv(a) ==
  /\ current_usage[a] = Unused => Holders(a) = {} /\ blocked_usages_from_tasks[a] = <<>>
  /\ current_usage[a] = Written =>
       \E h \in Holders(a) : Holders(a) = {h} /\ locks(h)[a] = Writable
  /\ current_usage[a] \notin {Unused, Written} =>
       /\ current_usage[a] = Cardinality(Holders(a))
       /\ \A h \in Holders(a) : locks(h)[a] = Readonly
       /\ blocked_usages_from_tasks[a] # <<>> => locks(blocked_usages_from_tasks[a][1])[a] = Writable

(* Whoever waits for an address came after whoever has it.                 *)
OrderInv == \A a \in Addresses : \A h \in Holders(a), w \in Waiting(a) : h < w

SchedulerInv ==
  TypeInv /\ CountInv /\ QueueInv /\ ReadyInv /\ (\A a \in Addresses : UsageInv(a)) /\ OrderInv

-----------------------------------------------------------------------------
(* Numbers and contexts *)

(* A set of naturals that is not empty has a least member.                 *)
LEMMA LeastNatural ==
  ASSUME NEW S, S \subseteq Nat, S # {}
  PROVE  \E m \in S : \A n \in S : m <= n
  <1>1. PICK m \in S : \A n \in S : ~(<<n, m>> \in OpToRel(<, Nat))
    BY NatLessThanWellFounded, WFMin, Zenon
  <1>2. \A n \in S : ~(n < m)
    BY <1>1, Zenon DEF OpToRel
  <1> QED
    BY <1>2

LEMMA ContextTypes ==
  ASSUME NEW c \in LockContexts
  PROVE  /\ DOMAIN c \subseteq Addresses
         /\ DOMAIN c # {}
         /\ \A a \in DOMAIN c : c[a] \in {Readonly, Writable}
         /\ IsFiniteSet(DOMAIN c)
  <1>1. PICK A \in (SUBSET Addresses) \ {{}} : c \in [A -> RequestedUsages]
    BY DEF LockContexts
  <1>2. IsFiniteSet(A)
    BY <1>1, AddressesAssumption, FS_Subset
  <1> QED
    BY <1>1, <1>2 DEF RequestedUsages

(* The tasks are counted from one, and each uses what its context names.   *)
LEMMA TaskTypes ==
  ASSUME TypeInv
  PROVE  /\ Len(lock_contexts) \in Nat
         /\ Tasks = 1 .. Len(lock_contexts)
         /\ \A t \in Tasks : locks(t) \in LockContexts
         /\ IsFiniteSet(Tasks)
         /\ Unfinished \subseteq Tasks
         /\ IsFiniteSet(Unfinished)
         /\ Cardinality(Unfinished) \in Nat
  <1>1. Len(lock_contexts) \in Nat /\ Tasks = 1 .. Len(lock_contexts)
    BY DEF TypeInv, Tasks
  <1>2. \A t \in Tasks : locks(t) \in LockContexts
    BY DEF TypeInv, Tasks, locks
  <1>3. IsFiniteSet(Tasks)
    BY <1>1, FS_Interval
  <1>4. Unfinished \subseteq Tasks
    BY DEF Unfinished
  <1>5. IsFiniteSet(Unfinished)
    BY <1>3, <1>4, FS_Subset
  <1> QED
    BY <1>1, <1>2, <1>3, <1>4, <1>5, FS_CardinalityType

LEMMA HoldersFinite ==
  ASSUME TypeInv, NEW a \in Addresses
  PROVE  Holders(a) \subseteq Unfinished /\ IsFiniteSet(Holders(a)) /\ Cardinality(Holders(a)) \in Nat
  <1>1. Holders(a) \subseteq Unfinished
    BY DEF Holders
  <1> QED
    BY <1>1, TaskTypes, FS_Subset, FS_CardinalityType

LEMMA LackingFinite ==
  ASSUME NEW t
  PROVE  IsFiniteSet(Lacking(t)) /\ Cardinality(Lacking(t)) \in Nat
  <1>1. Lacking(t) \subseteq Addresses
    BY DEF Lacking
  <1> QED
    BY <1>1, AddressesAssumption, FS_Subset, FS_CardinalityType

(* A task has ended unless it runs, may run or lacks an address.           *)
LEMMA UnfinishedTasks ==
  ASSUME TypeInv, CountInv
  PROVE  \A t \in Tasks : t \in Unfinished <=> t \in running \/ InQueue(t) \/ Lacking(t) # {}
  <1> SUFFICES ASSUME NEW t \in Tasks
      PROVE t \in Unfinished <=> t \in running \/ InQueue(t) \/ Lacking(t) # {}
    OBVIOUS
  <1>1. blocked_usage_count[t] = 0 <=> Lacking(t) = {}
    BY LackingFinite, FS_EmptySet DEF CountInv
  <1> QED
    BY <1>1, Zenon DEF Unfinished, Finished

-----------------------------------------------------------------------------
(* A task arrives *)

Blocked(c) == {a \in DOMAIN c : ~LocksAtOnce(a, c[a])}

(* What the new task is appended to, and what stays as it is.              *)
LEMMA ScheduleTasks ==
  ASSUME SchedulerInv, NEW c \in LockContexts, NEW force \in BOOLEAN,
         schedule_or_buffer_task(c, force), NEW n, n = Len(lock_contexts) + 1
  PROVE  /\ n \notin Tasks /\ n \in Nat
         /\ \A t \in Tasks : t \in Nat /\ t < n
         /\ lock_contexts' \in Seq(LockContexts)
         /\ Len(lock_contexts') = n
         /\ Tasks' = Tasks \cup {n}
         /\ \A t \in Tasks : lock_contexts'[t] = lock_contexts[t]
         /\ lock_contexts'[n] = c
         /\ \A t \in Tasks : blocked_usage_count'[t] = blocked_usage_count[t]
         /\ blocked_usage_count'[n] = Cardinality(Blocked(c))
         /\ blocked_usage_count' \in Seq(Nat)
         /\ Len(blocked_usage_count') = Len(lock_contexts')
  <1>1. /\ lock_contexts \in Seq(LockContexts)
        /\ blocked_usage_count \in Seq(Nat)
        /\ Len(blocked_usage_count) = Len(lock_contexts)
    BY DEF SchedulerInv, TypeInv
  <1>2. /\ lock_contexts' = Append(lock_contexts, c)
        /\ blocked_usage_count' = Append(blocked_usage_count, Cardinality(Blocked(c)))
    BY DEF schedule_or_buffer_task, Blocked
  <1>3. Cardinality(Blocked(c)) \in Nat
    <2>1. Blocked(c) \subseteq DOMAIN c
      BY DEF Blocked
    <2> QED
      BY <2>1, ContextTypes, FS_Subset, FS_CardinalityType
  <1>4. Tasks = 1 .. Len(lock_contexts) /\ Len(lock_contexts) \in Nat
    BY <1>1 DEF Tasks
  <1>5. Tasks' = 1 .. Len(lock_contexts) + 1
    BY <1>1, <1>2 DEF Tasks
  <1> QED
    BY <1>1, <1>2, <1>3, <1>4, <1>5, AppendProperties

LEMMA ScheduleWaiting ==
  ASSUME SchedulerInv, NEW c \in LockContexts, NEW force \in BOOLEAN,
         schedule_or_buffer_task(c, force), NEW n, n = Len(lock_contexts) + 1,
         NEW a \in Addresses
  PROVE  /\ blocked_usages_from_tasks' \in [Addresses -> Seq(Nat)]
         /\ a \in Blocked(c) =>
              /\ blocked_usages_from_tasks'[a] = Append(blocked_usages_from_tasks[a], n)
              /\ Waiting(a)' = Waiting(a) \cup {n}
         /\ a \notin Blocked(c) =>
              /\ blocked_usages_from_tasks'[a] = blocked_usages_from_tasks[a]
              /\ Waiting(a)' = Waiting(a)
  <1>1. blocked_usages_from_tasks \in [Addresses -> Seq(Nat)] /\ n \in Nat
    BY ScheduleTasks DEF SchedulerInv, TypeInv
  <1>2. blocked_usages_from_tasks' = [b \in Addresses |->
           IF b \in Blocked(c) THEN Append(blocked_usages_from_tasks[b], n)
           ELSE blocked_usages_from_tasks[b]]
    BY DEF schedule_or_buffer_task, Blocked
  <1>3. blocked_usages_from_tasks' \in [Addresses -> Seq(Nat)]
    BY <1>1, <1>2
  <1>4. ASSUME a \in Blocked(c)
        PROVE Waiting(a)' = Waiting(a) \cup {n}
    <2> DEFINE q == blocked_usages_from_tasks[a]
    <2>1. blocked_usages_from_tasks'[a] = Append(q, n) /\ q \in Seq(Nat)
      BY <1>1, <1>2, <1>4
    <2>2. /\ DOMAIN Append(q, n) = DOMAIN q \cup {Len(q) + 1}
          /\ \A i \in DOMAIN q : Append(q, n)[i] = q[i]
          /\ Append(q, n)[Len(q) + 1] = n
      BY <1>1, <2>1, AppendProperties
    <2> QED
      BY <2>1, <2>2 DEF Waiting
  <1> QED
    BY <1>1, <1>2, <1>3, <1>4, Zenon DEF Waiting

LEMMA ScheduleQueue ==
  ASSUME SchedulerInv, NEW c \in LockContexts, NEW force \in BOOLEAN,
         schedule_or_buffer_task(c, force), NEW n, n = Len(lock_contexts) + 1
  PROVE  /\ unblocked_task_queue' \in Seq(Nat)
         /\ \A i \in DOMAIN unblocked_task_queue' : unblocked_task_queue'[i] \in Tasks'
         /\ \A i, j \in DOMAIN unblocked_task_queue' :
              unblocked_task_queue'[i] = unblocked_task_queue'[j] => i = j
         /\ running' \subseteq Tasks'
         /\ \A t \in Tasks : InQueue(t)' <=> InQueue(t)
         /\ \A t \in Tasks : t \in running' <=> t \in running
         /\ Blocked(c) = {} <=> n \in running' \/ InQueue(n)'
         /\ n \in running' => ~InQueue(n)'
  <1> DEFINE q == unblocked_task_queue
  <1>1. /\ q \in Seq(Nat)
        /\ \A i \in DOMAIN q : q[i] \in Tasks
        /\ \A i, j \in DOMAIN q : q[i] = q[j] => i = j
        /\ running \subseteq Tasks
    BY DEF SchedulerInv, TypeInv, ReadyInv
  <1>2. n \notin Tasks /\ n \in Nat /\ Tasks' = Tasks \cup {n}
    BY ScheduleTasks
  <1>3. PICK handout \in BOOLEAN :
          /\ handout => Blocked(c) = {}
          /\ running' = IF handout THEN running \cup {n} ELSE running
          /\ q' = IF Blocked(c) = {} /\ ~handout THEN Append(q, n) ELSE q
    <2>1. WITNESS (Blocked(c) = {} /\ is_task_runnable /\ ~force) \in BOOLEAN
    <2> QED
      BY DEF schedule_or_buffer_task, Blocked
  <1>4. CASE Blocked(c) = {} /\ ~handout
    <2>1. q' = Append(q, n) /\ running' = running
      BY <1>3, <1>4
    <2>2. /\ q' \in Seq(Nat)
          /\ DOMAIN q' = DOMAIN q \cup {Len(q) + 1} /\ Len(q) + 1 \notin DOMAIN q
          /\ \A i \in DOMAIN q : q'[i] = q[i]
          /\ q'[Len(q) + 1] = n
      BY <1>1, <1>2, <2>1, AppendProperties
    <2>3. \A t \in Tasks : InQueue(t)' <=> InQueue(t)
      BY <1>2, <2>2 DEF InQueue
    <2>4. InQueue(n)'
      BY <2>2 DEF InQueue
    <2> QED
      BY <1>1, <1>2, <1>4, <2>1, <2>2, <2>3, <2>4
  <1>5. CASE ~(Blocked(c) = {} /\ ~handout)
    <2>1. q' = q /\ running' = IF handout THEN running \cup {n} ELSE running
      BY <1>3, <1>5
    <2>2. \A t : InQueue(t)' <=> InQueue(t)
      BY <2>1 DEF InQueue
    <2>3. ~InQueue(n)
      BY <1>1, <1>2 DEF InQueue
    <2> QED
      BY <1>1, <1>2, <1>3, <1>5, <2>1, <2>2, <2>3, SMTT(60)
  <1> QED
    BY <1>4, <1>5

LEMMA ScheduleCounts ==
  ASSUME SchedulerInv, NEW c \in LockContexts, NEW force \in BOOLEAN,
         schedule_or_buffer_task(c, force), NEW n, n = Len(lock_contexts) + 1
  PROVE  /\ TypeInv' /\ CountInv' /\ ReadyInv'
         /\ Unfinished' = Unfinished \cup {n}
         /\ n \notin Unfinished
  <1>1. \A a \in Addresses : Waiting(a) \subseteq Tasks
    BY DEF SchedulerInv, TypeInv
  <1>2. /\ \A t \in Tasks : Lacking(t)' = Lacking(t)
        /\ Lacking(n)' = Blocked(c)
    <2>1. Blocked(c) \subseteq Addresses
      BY ContextTypes DEF Blocked
    <2>2. \A t \in Tasks : t # n
      BY ScheduleTasks
    <2>3. \A t \in Tasks, a \in Addresses : t \in Waiting(a)' <=> t \in Waiting(a)
      BY <2>2, ScheduleWaiting
    <2>4. \A a \in Addresses : n \in Waiting(a)' <=> a \in Blocked(c)
      BY <1>1, ScheduleTasks, ScheduleWaiting
    <2> QED
      BY <2>1, <2>3, <2>4 DEF Lacking
  <1>3. TypeInv'
    <2>1. current_usage' \in [Addresses -> Int]
      BY DEF schedule_or_buffer_task, SchedulerInv, TypeInv, Locked, Written
    <2>2. \A a \in Addresses : Waiting(a)' \subseteq Tasks'
      BY <1>1, ScheduleTasks, ScheduleWaiting
    <2>3. blocked_usages_from_tasks' \in [Addresses -> Seq(Nat)]
      <3>1. CASE Addresses = {}
        BY <3>1, ContextTypes
      <3>2. CASE Addresses # {}
        BY <3>2, ScheduleWaiting
      <3> QED
        BY <3>1, <3>2
    <2> QED
      BY <2>1, <2>2, <2>3, ScheduleTasks, ScheduleQueue DEF TypeInv
  <1>4. \A t \in Tasks' : blocked_usage_count'[t] = Cardinality(Lacking(t)')
    BY <1>2, ScheduleTasks DEF SchedulerInv, CountInv
  <1>5. /\ \A t \in Tasks : t \in Unfinished' <=> t \in Unfinished
        /\ n \in Unfinished'
    <2>1. \A t \in Tasks' : blocked_usage_count'[t] = 0 <=> Lacking(t)' = {}
      <3>1. \A t \in Tasks' : IsFiniteSet(Lacking(t)')
        <4>1. \A t \in Tasks' : Lacking(t)' \subseteq Addresses
          BY DEF Lacking
        <4> QED
          BY <4>1, AddressesAssumption, FS_Subset
      <3> QED
        BY <1>4, <3>1, FS_EmptySet
    <2>2. /\ \A t \in Tasks : t \in Tasks' /\ (InQueue(t)' <=> InQueue(t))
          /\ \A t \in Tasks : t \in running' <=> t \in running
          /\ \A t \in Tasks : blocked_usage_count'[t] = blocked_usage_count[t]
      BY ScheduleTasks, ScheduleQueue
    <2>3. n \in Tasks' /\ ~(n \notin running' /\ ~InQueue(n)' /\ blocked_usage_count'[n] = 0)
      BY <1>2, <2>1, ScheduleTasks, ScheduleQueue
    <2>4. \A t \in Tasks : t \in Unfinished' <=> t \in Unfinished
      BY <2>2, Zenon DEF Unfinished, Finished
    <2>5. n \in Unfinished'
      BY <2>3, Zenon DEF Unfinished, Finished
    <2> QED
      BY <2>4, <2>5
  <1>6. Unfinished' = Unfinished \cup {n} /\ n \notin Unfinished
    BY <1>5, ScheduleTasks DEF Unfinished
  <1>7. active_task_count' = Cardinality(Unfinished')
    BY <1>6, TaskTypes, FS_AddElement, ZenonT(60) DEF schedule_or_buffer_task, SchedulerInv, CountInv
  <1>8. ReadyInv'
    <2>1. \A t \in Tasks' : t \in running' \/ InQueue(t)' => Lacking(t)' = {}
      BY <1>2, ScheduleTasks, ScheduleQueue DEF SchedulerInv, ReadyInv
    <2>2. \A t \in running' : ~InQueue(t)'
      BY ScheduleTasks, ScheduleQueue DEF SchedulerInv, ReadyInv
    <2> QED
      BY <2>1, <2>2, ScheduleQueue, SMTT(60) DEF ReadyInv
  <1> QED
    BY <1>3, <1>4, <1>6, <1>7, <1>8 DEF CountInv

LEMMA ScheduleHolders ==
  ASSUME SchedulerInv, NEW c \in LockContexts, NEW force \in BOOLEAN,
         schedule_or_buffer_task(c, force), NEW n, n = Len(lock_contexts) + 1,
         NEW a \in Addresses
  PROVE  /\ a \in DOMAIN c \ Blocked(c) => Holders(a)' = Holders(a) \cup {n}
         /\ a \notin DOMAIN c \ Blocked(c) => Holders(a)' = Holders(a)
         /\ \A t \in Holders(a) : locks(t)' = locks(t) /\ t \in Tasks /\ t < n
         /\ n \notin Holders(a)
         /\ \A t \in Waiting(a) : locks(t)' = locks(t) /\ t \in Tasks /\ t < n
         /\ locks(n)' = c
  <1>1. /\ Unfinished \subseteq Tasks
        /\ Waiting(a) \subseteq Tasks
        /\ Unfinished' = Unfinished \cup {n}
    BY TaskTypes, ScheduleCounts DEF SchedulerInv, TypeInv
  <1>2. /\ \A t \in Tasks : locks(t)' = locks(t) /\ t < n
        /\ locks(n)' = c
    BY ScheduleTasks DEF locks
  <1>3. /\ \A t \in Tasks : Uses(t, a)' <=> Uses(t, a)
        /\ Uses(n, a)' <=> a \in DOMAIN c
    BY ScheduleTasks DEF Uses
  <1>4. /\ \A t \in Tasks : t \in Waiting(a)' <=> t \in Waiting(a)
        /\ n \in Waiting(a)' <=> a \in Blocked(c)
    BY <1>1, ScheduleTasks, ScheduleWaiting
  <1>5. Holders(a)' = {t \in Unfinished \cup {n} : Uses(t, a)' /\ t \notin Waiting(a)'}
    BY <1>1 DEF Holders
  <1>6. n \notin Tasks
    BY ScheduleTasks
  <1> QED
    BY <1>1, <1>2, <1>3, <1>4, <1>5, <1>6 DEF Holders

LEMMA ScheduleUsage ==
  ASSUME SchedulerInv, NEW c \in LockContexts, NEW force \in BOOLEAN,
         schedule_or_buffer_task(c, force), NEW a \in Addresses
  PROVE  UsageInv(a)'
  <1> DEFINE q == blocked_usages_from_tasks[a]
  <1>0. PICK n : n = Len(lock_contexts) + 1
    OBVIOUS
  <1>1. UsageInv(a) /\ q \in Seq(Nat) /\ current_usage[a] \in Int
    BY DEF SchedulerInv, TypeInv
  <1>2. /\ IsFiniteSet(Holders(a)) /\ Cardinality(Holders(a)) \in Nat
        /\ q # <<>> => q[1] \in Waiting(a)
    <2>1. q # <<>> => 1 \in DOMAIN q
      BY <1>1, EmptySeq
    <2> QED
      BY <2>1, HoldersFinite DEF SchedulerInv, Waiting
  <1>3. CASE a \in DOMAIN c \ Blocked(c)
    <2>1. /\ q = <<>> /\ blocked_usages_from_tasks'[a] = <<>>
          /\ CanLock(current_usage[a], c[a])
      BY <1>0, <1>3, ScheduleWaiting DEF Blocked, LocksAtOnce
    <2>2. current_usage'[a] = Locked(current_usage[a], c[a])
      BY <1>3 DEF schedule_or_buffer_task, Blocked
    <2>3. Holders(a)' = Holders(a) \cup {n} /\ n \notin Holders(a) /\ locks(n)' = c
      BY <1>0, <1>3, ScheduleHolders
    <2>4. Cardinality(Holders(a)') = Cardinality(Holders(a)) + 1
      BY <1>2, <2>3, FS_AddElement, Zenon
    <2>5. \A t \in Holders(a) : locks(t)' = locks(t)
      BY <1>0, ScheduleHolders
    <2>6. c[a] \in {Readonly, Writable} /\ Readonly # Writable
      BY <1>3, ContextTypes DEF Readonly, Writable
    <2>7. CASE current_usage[a] = Unused /\ c[a] = Writable
      <3>1. current_usage'[a] = Written /\ Holders(a)' = {n} /\ locks(n)'[a] = Writable
        BY <1>1, <2>2, <2>3, <2>7 DEF Locked, UsageInv
      <3> QED
        BY <3>1 DEF UsageInv, Written, Unused
    <2>8. CASE current_usage[a] = Unused /\ c[a] = Readonly
      <3>1. Holders(a) = {} /\ Cardinality(Holders(a)) = 0
        BY <1>1, <2>8, FS_EmptySet DEF UsageInv
      <3>2. current_usage'[a] = 1 /\ Cardinality(Holders(a)') = 1 /\ Holders(a)' = {n}
        BY <2>2, <2>3, <2>4, <2>6, <2>8, <3>1, SMTT(60) DEF Locked, Unused
      <3> QED
        BY <2>1, <2>3, <2>8, <3>2 DEF UsageInv, Written, Unused
    <2>9. CASE current_usage[a] > 0 /\ c[a] = Readonly
      <3>1. /\ current_usage[a] = Cardinality(Holders(a))
            /\ \A h \in Holders(a) : locks(h)[a] = Readonly
        BY <1>1, <2>9 DEF UsageInv, Unused, Written
      <3>2. current_usage'[a] = Cardinality(Holders(a)') /\ current_usage'[a] > 0
        BY <1>1, <2>2, <2>4, <2>6, <2>9, <3>1, SMTT(60) DEF Locked
      <3>3. \A h \in Holders(a)' : locks(h)'[a] = Readonly
        BY <2>3, <2>5, <2>9, <3>1
      <3> QED
        BY <2>1, <3>2, <3>3 DEF UsageInv, Unused, Written
    <2> QED
      BY <2>1, <2>6, <2>7, <2>8, <2>9 DEF CanLock
  <1>4. CASE a \notin DOMAIN c \ Blocked(c)
    <2>1. current_usage'[a] = current_usage[a] /\ Holders(a)' = Holders(a)
      BY <1>0, <1>1, <1>4, ScheduleHolders, Zenon DEF schedule_or_buffer_task, Blocked, SchedulerInv, TypeInv
    <2>2. \A t \in Holders(a) \cup Waiting(a) : locks(t)' = locks(t)
      BY <1>0, ScheduleHolders
    <2>3. CASE a \notin Blocked(c)
      <3>1. blocked_usages_from_tasks'[a] = q
        BY <1>0, <2>3, ScheduleWaiting
      <3> QED
        BY <1>1, <1>2, <2>1, <2>2, <3>1 DEF UsageInv
    <2>4. CASE a \in Blocked(c)
      <3>1. /\ blocked_usages_from_tasks'[a] = Append(q, n)
            /\ n \in Nat /\ locks(n)' = c
        BY <1>0, <2>4, ScheduleWaiting, ScheduleTasks, ScheduleHolders
      <3>2. a \in DOMAIN c /\ (q # <<>> \/ ~CanLock(current_usage[a], c[a]))
        BY <2>4 DEF Blocked, LocksAtOnce
      <3>3. current_usage[a] # Unused
        BY <1>1, <3>2 DEF UsageInv, CanLock
      <3>4. ASSUME current_usage[a] \notin {Unused, Written}
            PROVE  lock_contexts'[Append(q, n)[1]][a] = Writable
        <4>1. CASE q = <<>>
          <5>1. Append(q, n)[1] = n
            BY <3>1, <4>1
          <5>2. current_usage[a] = Cardinality(Holders(a)) /\ current_usage[a] > 0
            BY <1>1, <1>2, <3>4 DEF UsageInv, Unused
          <5>3. c[a] # Readonly /\ c[a] \in {Readonly, Writable}
            BY <3>2, <4>1, <5>2, ContextTypes DEF CanLock
          <5> QED
            BY <3>1, <5>1, <5>3 DEF locks
        <4>2. CASE q # <<>>
          <5>1. Append(q, n)[1] = q[1]
            BY <1>1, <3>1, <4>2, EmptySeq, AppendProperties
          <5> QED
            BY <1>1, <1>2, <2>2, <3>4, <4>2, <5>1, SMTT(60) DEF UsageInv, locks
        <4> QED
          BY <4>1, <4>2
      <3> QED
        BY <1>1, <2>1, <2>2, <3>1, <3>3, <3>4, SMTT(60) DEF UsageInv, locks
    <2> QED
      BY <2>3, <2>4
  <1> QED
    BY <1>3, <1>4

LEMMA ScheduleInv ==
  ASSUME SchedulerInv, NEW c \in LockContexts, NEW force \in BOOLEAN,
         schedule_or_buffer_task(c, force)
  PROVE  SchedulerInv'
  <1>0. PICK n : n = Len(lock_contexts) + 1
    OBVIOUS
  <1>1. QueueInv'
    <2> SUFFICES ASSUME NEW a \in Addresses
        PROVE /\ \A i, j \in DOMAIN blocked_usages_from_tasks'[a] :
                   i < j => blocked_usages_from_tasks'[a][i] < blocked_usages_from_tasks'[a][j]
              /\ \A t \in Waiting(a)' : Uses(t, a)'
      BY DEF QueueInv
    <2> DEFINE q == blocked_usages_from_tasks[a]
    <2>1. /\ q \in Seq(Nat)
          /\ \A i, j \in DOMAIN q : i < j => q[i] < q[j]
          /\ \A t \in Waiting(a) : t \in Tasks /\ Uses(t, a)
      BY DEF SchedulerInv, TypeInv, QueueInv
    <2>2. \A t \in Waiting(a) : Uses(t, a)'
      BY <1>0, <2>1, ScheduleTasks DEF Uses
    <2>3. CASE a \notin Blocked(c)
      BY <1>0, <2>1, <2>2, <2>3, ScheduleWaiting
    <2>4. CASE a \in Blocked(c)
      <3>1. /\ blocked_usages_from_tasks'[a] = Append(q, n)
            /\ Waiting(a)' = Waiting(a) \cup {n}
            /\ n \in Nat
        BY <1>0, <2>4, ScheduleWaiting, ScheduleTasks
      <3>2. Uses(n, a)'
        BY <1>0, <2>4, ScheduleTasks, ZenonT(60) DEF Uses, Blocked
      <3>3. \A i \in DOMAIN q : q[i] < n
        BY <1>0, ScheduleHolders DEF Waiting
      <3>4. \A i, j \in DOMAIN Append(q, n) : i < j => Append(q, n)[i] < Append(q, n)[j]
        BY <2>1, <3>1, <3>3, AppendProperties
      <3> QED
        BY <2>2, <3>1, <3>2, <3>4
    <2> QED
      BY <2>3, <2>4
  <1>2. OrderInv'
    <2> SUFFICES ASSUME NEW a \in Addresses, NEW h \in Holders(a)', NEW w \in Waiting(a)'
        PROVE h < w
      BY DEF OrderInv
    <2>1. \A x \in Holders(a), y \in Waiting(a) : x < y
      BY DEF SchedulerInv, OrderInv
    <2>2. \A x \in Holders(a) : x < n
      BY <1>0, ScheduleHolders
    <2>3. CASE a \in DOMAIN c \ Blocked(c)
      <3>1. blocked_usages_from_tasks'[a] = <<>>
        BY <1>0, <2>3, ScheduleWaiting DEF Blocked, LocksAtOnce
      <3> QED
        BY <3>1 DEF Waiting
    <2>4. CASE a \notin DOMAIN c \ Blocked(c)
      BY <1>0, <2>1, <2>2, <2>4, ScheduleHolders, ScheduleWaiting
    <2> QED
      BY <2>3, <2>4
  <1>3. \A a \in Addresses : UsageInv(a)'
    BY ScheduleUsage
  <1> QED
    BY <1>0, <1>1, <1>2, <1>3, ScheduleCounts DEF SchedulerInv

-----------------------------------------------------------------------------
(* A task that may run is handed out, and the tasks are forgotten *)

LEMMA NextInv ==
  ASSUME SchedulerInv, schedule_next_unblocked_task
  PROVE  /\ SchedulerInv' /\ Unfinished' = Unfinished
         /\ Head(unblocked_task_queue) \in Tasks
         /\ InQueue(Head(unblocked_task_queue))
  <1> DEFINE q == unblocked_task_queue
  <1>0. PICK h : h = Head(q)
    OBVIOUS
  <1>1. /\ q \in Seq(Nat) /\ q # <<>>
        /\ \A i \in DOMAIN q : q[i] \in Tasks
        /\ \A i, j \in DOMAIN q : q[i] = q[j] => i = j
        /\ running' = running \cup {h} /\ q' = Tail(q)
    BY <1>0 DEF SchedulerInv, TypeInv, ReadyInv, schedule_next_unblocked_task,
                has_runnable_task, has_unblocked_task
  <1>2. /\ 1 \in DOMAIN q /\ h = q[1]
        /\ Tail(q) \in Seq(Nat)
        /\ \A i \in DOMAIN Tail(q) : i + 1 \in DOMAIN q /\ Tail(q)[i] = q[i + 1]
        /\ \A i \in DOMAIN q : i # 1 => i - 1 \in DOMAIN Tail(q) /\ i = (i - 1) + 1
    BY <1>0, <1>1, EmptySeq, HeadTailProperties
  <1>3. UNCHANGED <<lock_contexts, current_usage, blocked_usages_from_tasks,
                    blocked_usage_count, active_task_count>>
    BY DEF schedule_next_unblocked_task
  <1>4. /\ Tasks' = Tasks
        /\ \A a : Waiting(a)' = Waiting(a)
        /\ \A t : Lacking(t)' = Lacking(t)
        /\ \A t : locks(t)' = locks(t)
        /\ \A t, a : Uses(t, a)' <=> Uses(t, a)
    BY <1>3 DEF Tasks, Waiting, Lacking, locks, Uses
  <1>5. InQueue(h) /\ h \in Tasks /\ ~InQueue(h)'
    <2>1. InQueue(h) /\ h \in Tasks
      BY <1>1, <1>2 DEF InQueue
    <2>2. \A i \in DOMAIN Tail(q) : Tail(q)[i] # h
      <3> SUFFICES ASSUME NEW i \in DOMAIN Tail(q), Tail(q)[i] = h PROVE FALSE
        OBVIOUS
      <3>1. i + 1 \in DOMAIN q /\ q[i + 1] = q[1] /\ i \in Nat /\ i # 0
        BY <1>2
      <3> QED
        BY <1>1, <1>2, <3>1
    <2> QED
      BY <1>1, <2>1, <2>2 DEF InQueue
  <1>6. \A t : t # h => (InQueue(t)' <=> InQueue(t))
    <2> SUFFICES ASSUME NEW t, t # h PROVE InQueue(t)' <=> InQueue(t)
      OBVIOUS
    <2>1. ASSUME InQueue(t) PROVE InQueue(t)'
      <3>1. PICK i \in DOMAIN q : q[i] = t
        BY <2>1 DEF InQueue
      <3>2. i # 1
        BY <1>2, <3>1
      <3>3. i - 1 \in DOMAIN Tail(q) /\ Tail(q)[i - 1] = t
        BY <1>2, <3>1, <3>2
      <3> QED
        BY <1>1, <3>3 DEF InQueue
    <2>2. ASSUME InQueue(t)' PROVE InQueue(t)
      BY <1>1, <1>2, <2>2 DEF InQueue
    <2> QED
      BY <2>1, <2>2
  <1>7. \A t : t \in running' \/ InQueue(t)' <=> t \in running \/ InQueue(t)
    BY <1>1, <1>5, <1>6
  <1>8. Unfinished' = Unfinished
    BY <1>3, <1>4, <1>7 DEF Unfinished, Finished
  <1>9. \A a : Holders(a)' = Holders(a)
    BY <1>4, <1>8 DEF Holders
  <1>10. TypeInv'
    BY <1>1, <1>2, <1>3, <1>4, <1>5, SMTT(60) DEF SchedulerInv, TypeInv
  <1>11. CountInv' /\ QueueInv' /\ OrderInv' /\ \A a \in Addresses : UsageInv(a)'
    BY <1>3, <1>4, <1>8, <1>9, SMTT(60) DEF SchedulerInv, CountInv, QueueInv, OrderInv, UsageInv, locks
  <1>12. ReadyInv'
    <2>1. \A i, j \in DOMAIN Tail(q) : Tail(q)[i] = Tail(q)[j] => i = j
      BY <1>1, <1>2
    <2>2. \A t \in Tasks' : t \in running' \/ InQueue(t)' => Lacking(t)' = {}
      BY <1>4, <1>7 DEF SchedulerInv, ReadyInv
    <2>3. \A t \in running' : ~InQueue(t)'
      BY <1>1, <1>5, <1>6 DEF SchedulerInv, ReadyInv
    <2> QED
      BY <1>1, <2>1, <2>2, <2>3, SMTT(60) DEF ReadyInv
  <1> QED
    BY <1>0, <1>5, <1>8, <1>10, <1>11, <1>12 DEF SchedulerInv

(* Once no task is active, every queue is as it was in the beginning.      *)
LEMMA InactiveIsClean ==
  ASSUME SchedulerInv, has_no_active_task
  PROVE  /\ Unfinished = {} /\ CanReinitialize
         /\ \A a \in Addresses : current_usage[a] = Unused /\ blocked_usages_from_tasks[a] = <<>>
  <1>1. Unfinished = {}
    BY TaskTypes, FS_EmptySet, Zenon DEF SchedulerInv, CountInv, has_no_active_task
  <1>2. \A a \in Addresses : Holders(a) = {} /\ Cardinality(Holders(a)) = 0
    BY <1>1, FS_EmptySet DEF Holders
  <1>3. \A a \in Addresses : current_usage[a] = Unused
    BY <1>2 DEF SchedulerInv, UsageInv, Unused
  <1>4. \A a \in Addresses : blocked_usages_from_tasks[a] = <<>>
    BY <1>3 DEF SchedulerInv, UsageInv
  <1>5. \A t \in Tasks : t \notin running /\ ~InQueue(t)
    BY <1>1, Zenon DEF Unfinished, Finished
  <1>6. running = {}
    BY <1>5 DEF SchedulerInv, TypeInv
  <1>7. unblocked_task_queue = <<>>
    <2>1. DOMAIN unblocked_task_queue = {}
      BY <1>5, ZenonT(60) DEF SchedulerInv, TypeInv, InQueue
    <2> QED
      BY <2>1, EmptySeq DEF SchedulerInv, TypeInv
  <1> QED
    BY <1>1, <1>3, <1>4, <1>6, <1>7
       DEF CanReinitialize, has_no_running_task, has_unblocked_task

Clean ==
  /\ lock_contexts = <<>> /\ blocked_usage_count = <<>> /\ unblocked_task_queue = <<>>
  /\ running = {} /\ active_task_count = 0
  /\ current_usage \in [Addresses -> Int]
  /\ blocked_usages_from_tasks \in [Addresses -> Seq(Nat)]
  /\ \A a \in Addresses : current_usage[a] = Unused /\ blocked_usages_from_tasks[a] = <<>>

LEMMA CleanInv == Clean => SchedulerInv /\ Finished = {}
  <1> SUFFICES ASSUME Clean PROVE SchedulerInv /\ Finished = {}
    OBVIOUS
  <1>1. Tasks = {} /\ \A a \in Addresses : Waiting(a) = {}
    BY DEF Clean, Tasks, Waiting
  <1>2. Unfinished = {} /\ Finished = {} /\ \A a \in Addresses : Holders(a) = {}
    BY <1>1 DEF Unfinished, Finished, Holders
  <1>3. TypeInv
    BY <1>1 DEF Clean, TypeInv
  <1>4. CountInv
    BY <1>1, <1>2, FS_EmptySet DEF Clean, CountInv
  <1>5. QueueInv /\ ReadyInv /\ OrderInv
    BY <1>1 DEF Clean, QueueInv, ReadyInv, OrderInv
  <1>6. \A a \in Addresses : UsageInv(a)
    BY <1>2 DEF Clean, UsageInv, Unused, Written
  <1> QED
    BY <1>2, <1>3, <1>4, <1>5, <1>6 DEF SchedulerInv

LEMMA ReinitializeInv ==
  ASSUME SchedulerInv, Reinitialize
  PROVE  SchedulerInv' /\ Finished' = {} /\ Finished = Tasks
  <1>1. has_no_active_task
    BY DEF Reinitialize, CanReinitialize
  <1>2. Clean'
    BY <1>1, InactiveIsClean
       DEF Clean, Reinitialize, reinitialize, CanReinitialize, SchedulerInv, TypeInv,
           has_no_active_task, has_no_running_task, has_unblocked_task
  <1>3. (SchedulerInv /\ Finished = {})'
    BY <1>2, CleanInv, PTL
  <1>4. Finished = Tasks
    BY <1>1, InactiveIsClean, SMTT(60) DEF Unfinished, Finished
  <1> QED
    BY <1>2, <1>3, <1>4
=============================================================================
