-------------------------- MODULE UnifiedScheduler --------------------------
(***************************************************************************)
(* The scheduling state machine under every use its documentation allows:  *)
(* tasks are scheduled or buffered at any time, each task handed out is    *)
(* descheduled once, and the machine is reinitialized when it is inactive. *)
(***************************************************************************)
EXTENDS SchedulingStateMachine

CONSTANT
  MaxTasks              \* bound on the tasks of one session

Init == InitMachine

ScheduleTask ==
  /\ Len(lock_contexts) < MaxTasks
  /\ \E c \in LockContexts, force \in BOOLEAN : schedule_or_buffer_task(c, force)

ScheduleNext == schedule_next_unblocked_task

DescheduleTask(t) == t \in running /\ deschedule_task(t)

Reinitialize == lock_contexts # <<>> /\ CanReinitialize /\ reinitialize

Next ==
  \/ ScheduleTask
  \/ ScheduleNext
  \/ \E t \in Tasks : DescheduleTask(t)
  \/ Reinitialize

Spec == Init /\ [][Next]_machineVars

(* The scheduler thread takes out whatever may run, and handlers end.      *)
FairSpec ==
  /\ Spec
  /\ WF_machineVars(ScheduleNext)
  /\ \A t \in 1 .. MaxTasks : WF_machineVars(t \in Tasks /\ DescheduleTask(t))

-----------------------------------------------------------------------------
InQueue(t)  == \E i \in DOMAIN unblocked_task_queue : unblocked_task_queue[i] = t
Finished    == {t \in Tasks : t \notin running /\ ~InQueue(t) /\ blocked_usage_count[t] = 0}
Unfinished  == Tasks \ Finished

Order == INSTANCE ConflictOrder
           WITH Contexts <- LockContexts, tasks <- lock_contexts, finished <- Finished

(* The usage queues let the tasks run in parallel and yet as if one after  *)
(* the other: a task is handed out only when every earlier task it         *)
(* conflicts with has ended, no matter which usages were passed on, in     *)
(* which order tasks ended or how many were buffered.                      *)
ImplementsConflictOrder == Order!Spec

(* A task waits only for an earlier one it conflicts with: readers never   *)
(* wait for readers and nobody waits for a task that has ended.            *)
BlockedOnlyByConflict ==
  \A t \in Tasks : blocked_usage_count[t] > 0 =>
    \E u \in Unfinished : u < t /\ Order!Conflict(locks(u), locks(t))

(* "UsageQueue state is identical to just after created, if                *)
(* has_no_active_task() is true": the queues can be used for the next      *)
(* block although nobody has cleaned them.                                 *)
QueuesCleanWhenInactive ==
  has_no_active_task =>
    /\ CanReinitialize
    /\ \A a \in Addresses :
         current_usage[a] = Unused /\ blocked_usages_from_tasks[a] = <<>>

(* "It can be assumed that every task will eventually succeed to be        *)
(* unblocked": none is forgotten in a queue, whatever ends in which order. *)
EveryTaskRuns ==
  \A t \in 1 .. MaxTasks : (t \in Tasks) ~> (t \notin Unfinished)
=============================================================================
