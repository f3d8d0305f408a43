----------------------- MODULE SchedulingStateMachine -----------------------
(***************************************************************************)
(* The unified scheduler's account locking: which of the transactions it   *)
(* was given may run.  Every address has a queue with the usage granted    *)
(* now and the usages that wait for it, first come first served.  A task   *)
(* is run once it has been granted each of its addresses.                  *)
(*                                                                         *)
(* A task is the index under which it was scheduled; the addresses of a    *)
(* transaction are distinct, so its lock contexts are a function.  The     *)
(* counters that are only reported (handled, unblocked, total) are left    *)
(* out.                                                                    *)
(***************************************************************************)
EXTENDS Integers, Sequences, FiniteSets

CONSTANTS
  Addresses,
  MaxRunning            \* max_running_task_count

VARIABLES
  lock_contexts,             \* per task scheduled: its addresses and usages
  current_usage,             \* per address
  blocked_usages_from_tasks, \* per address: tasks that wait, in order
  blocked_usage_count,       \* per task
  unblocked_task_queue,
  running,                   \* tasks handed out and not descheduled yet
  active_task_count

machineVars == <<lock_contexts, current_usage, blocked_usages_from_tasks,
                 blocked_usage_count, unblocked_task_queue, running, active_task_count>>

ASSUME MaxRunningAssumption == MaxRunning \in Nat \ {0}
ASSUME AddressesAssumption == IsFiniteSet(Addresses)

Readonly == "Readonly"
Writable == "Writable"
RequestedUsages == {Readonly, Writable}

(* The lock contexts of the transactions there can be.                     *)
LockContexts == UNION {[A -> RequestedUsages] : A \in (SUBSET Addresses) \ {{}}}

(* A granted usage: unused, one writer, or a number of readers.            *)
Unused  == 0
Written == -1

Tasks     == DOMAIN lock_contexts
locks(t)  == lock_contexts[t]
Uses(t,a) == a \in DOMAIN lock_contexts[t]

InitMachine ==
  /\ lock_contexts = <<>>
  /\ current_usage = [a \in Addresses |-> Unused]
  /\ blocked_usages_from_tasks = [a \in Addresses |-> <<>>]
  /\ blocked_usage_count = <<>>
  /\ unblocked_task_queue = <<>>
  /\ running = {}
  /\ active_task_count = 0

has_no_running_task == running = {}
has_no_active_task  == active_task_count = 0
has_unblocked_task  == unblocked_task_queue # <<>>
is_task_runnable    == Cardinality(running) < MaxRunning
has_runnable_task   == has_unblocked_task /\ is_task_runnable

-----------------------------------------------------------------------------
(* Usage queues *)

(* try_lock succeeds.                                                      *)
CanLock(usage, requested) ==
  usage = Unused \/ (usage > 0 /\ requested = Readonly)

Locked(usage, requested) == IF requested = Writable THEN Written ELSE usage + 1

(* Mutant: a reader joins the readers although a writer waits.             *)
ReadersFirst(a, requested) == CanLock(current_usage[a], requested)

(* Nobody overtakes a usage that waits already.                            *)
LocksAtOnce(a, requested) ==
  blocked_usages_from_tasks[a] = <<>> /\ CanLock(current_usage[a], requested)

(* Mutant: a reader that leaves is still counted.                          *)
ReadersStay(a) == IF current_usage[a] = Written THEN Unused ELSE current_usage[a]

(* The usage of a once a task gives it up, before it is granted anew.      *)
Unlocked(a) == IF current_usage[a] = Written THEN Unused ELSE current_usage[a] - 1

ReadersUpTo(a, k) ==
  \A i \in 1 .. k : locks(blocked_usages_from_tasks[a][i])[a] = Readonly

(* Mutant: only one reader is woken although more wait behind it.          *)
OneAtATime(a) ==
  IF Unlocked(a) # Unused \/ blocked_usages_from_tasks[a] = <<>> THEN 0 ELSE 1

(* How many of the waiting usages are granted when a becomes unused: the   *)
(* first if it writes, and otherwise all readers in front of a writer.     *)
Released(a) ==
  LET queue == blocked_usages_from_tasks[a]
  IN  IF Unlocked(a) # Unused \/ queue = <<>> THEN 0
      ELSE IF locks(queue[1])[a] = Writable THEN 1
      ELSE CHOOSE k \in 1 .. Len(queue) :
             ReadersUpTo(a, k) /\ (k = Len(queue) \/ ~ReadersUpTo(a, k + 1))

GrantedUsage(a) ==
  IF Released(a) = 0 THEN Unlocked(a)
  ELSE IF locks(blocked_usages_from_tasks[a][1])[a] = Writable THEN Written
  ELSE Released(a)

ReleasedTasks(a) == {blocked_usages_from_tasks[a][i] : i \in 1 .. Released(a)}

-----------------------------------------------------------------------------
(* Operations *)

(* schedule_or_buffer_task: the task that arrives locks what it can and    *)
(* queues up elsewhere.  It is handed out at once if nothing blocks it,    *)
(* unless the limit is reached or buffering is forced.                     *)
schedule_or_buffer_task(contexts, force_buffering) ==
  LET task    == Len(lock_contexts) + 1
      blocked == {a \in DOMAIN contexts : ~LocksAtOnce(a, contexts[a])}
      granted == DOMAIN contexts \ blocked
      handout == blocked = {} /\ is_task_runnable /\ ~force_buffering
  IN  /\ lock_contexts' = Append(lock_contexts, contexts)
      /\ active_task_count' = active_task_count + 1
      /\ current_usage' = [a \in Addresses |->
           IF a \in granted THEN Locked(current_usage[a], contexts[a]) ELSE current_usage[a]]
      /\ blocked_usages_from_tasks' = [a \in Addresses |->
           IF a \in blocked THEN Append(blocked_usages_from_tasks[a], task)
           ELSE blocked_usages_from_tasks[a]]
      /\ blocked_usage_count' = Append(blocked_usage_count, Cardinality(blocked))
      /\ running' = IF handout THEN running \cup {task} ELSE running
      /\ unblocked_task_queue' = IF blocked = {} /\ ~handout
                                 THEN Append(unblocked_task_queue, task)
                                 ELSE unblocked_task_queue

schedule_next_unblocked_task ==
  /\ has_runnable_task
  /\ running' = running \cup {Head(unblocked_task_queue)}
  /\ unblocked_task_queue' = Tail(unblocked_task_queue)
  /\ UNCHANGED <<lock_contexts, current_usage, blocked_usages_from_tasks,
                 blocked_usage_count, active_task_count>>

(* The sequences that list each member of S once.                          *)
Orders(S) ==
  {s \in [1 .. Cardinality(S) -> S] : \A i, j \in DOMAIN s : s[i] = s[j] => i = j}

(* Mutant: the usages of the task that ends are passed on, but the count   *)
(* of the ones a waiting task still lacks is not looked at.                *)
WakeOnFirstGrant(t) ==
  UNION {ReleasedTasks(a) : a \in DOMAIN locks(t)}

(* Tasks that are granted their last address when t ends.                  *)
Woken(t) ==
  {u \in UNION {ReleasedTasks(a) : a \in DOMAIN locks(t)} :
     blocked_usage_count[u] = Cardinality({a \in DOMAIN locks(t) : u \in ReleasedTasks(a)})}

(* deschedule_task: t has been handled and gives up its addresses.  The    *)
(* tasks woken are queued in an order that depends on the order of the     *)
(* addresses in the transaction and is left open.                          *)
deschedule_task(t) ==
  /\ running' = running \ {t}
  /\ active_task_count' = active_task_count - 1
  /\ current_usage' = [a \in Addresses |->
       IF Uses(t, a) THEN GrantedUsage(a) ELSE current_usage[a]]
  /\ blocked_usages_from_tasks' = [a \in Addresses |->
       IF Uses(t, a)
       THEN SubSeq(blocked_usages_from_tasks[a], Released(a) + 1, Len(blocked_usages_from_tasks[a]))
       ELSE blocked_usages_from_tasks[a]]
  /\ blocked_usage_count' = [u \in Tasks |->
       blocked_usage_count[u] - Cardinality({a \in DOMAIN locks(t) : u \in ReleasedTasks(a)})]
  /\ \E woken \in Orders(Woken(t)) : unblocked_task_queue' = unblocked_task_queue \o woken
  /\ UNCHANGED lock_contexts

(* The assertions of reinitialize.                                         *)
CanReinitialize == has_no_active_task /\ has_no_running_task /\ ~has_unblocked_task

(* Tasks are forgotten, so that their indices can start anew; the usage    *)
(* queues are kept for the next session as they are.  It panics unless     *)
(* CanReinitialize, which is for the callers to ensure.                    *)
reinitialize ==
  /\ lock_contexts' = <<>>
  /\ blocked_usage_count' = <<>>
  /\ UNCHANGED <<current_usage, blocked_usages_from_tasks, unblocked_task_queue,
                 running, active_task_count>>
=============================================================================
