--------------------------- MODULE ThreadManager ----------------------------
(***************************************************************************)
(* The threads of a unified scheduler and the channels between them.  A    *)
(* client opens a session for a bank, sends tasks and ends the session; a  *)
(* scheduler thread runs the scheduling state machine; handler threads     *)
(* execute the tasks it hands out.  Threads are kept from session to       *)
(* session.  In block verification every task of a session must be         *)
(* executed in it.  In block production tasks come from the handlers       *)
(* themselves, which turn packets into tasks when they have nothing to do, *)
(* and are carried over when a block is full.                              *)
(*                                                                         *)
(* The client is whoever owns the scheduler at the time: the bank, the     *)
(* pool or the pool's cleaner.                                             *)
(***************************************************************************)
EXTENDS SchedulingStateMachine

CONSTANTS
  Modes,               \* the scheduling modes, which a scheduler has one of
  Handlers,
  TaskContexts,        \* the lock contexts of the tasks of this instance
  Failures,            \* per mode: what else than success a handler may end with
  MaxTasks,            \* bound on the tasks sent
  MaxSessions          \* bound on the sessions after the first

VARIABLES
  client,              \* [pc, sent, result, receive]
  new_tasks,           \* the new_task channel
  scheduler,           \* [mode, pc, ending, result, session, again]
  session_results,     \* the session_result channel
  runnable,            \* per session: the chained channel, tasks and NextChannel
  aux,                 \* per session: its auxiliary channel
  handler,             \* per handler: [pc, context, task, priority]
  finished_blocked,    \* channels back to the scheduler thread
  finished_idle,
  executed             \* <<task, result>> of every execution that has ended

clientVars  == <<client, new_tasks, session_results>>
threadVars  == <<runnable, aux, handler, finished_blocked, finished_idle>>
managerVars == <<machineVars, clientVars, scheduler, threadVars, executed>>

ASSUME ManagerAssumption ==
  /\ Modes \subseteq {"BlockVerification", "BlockProduction"}
  /\ TaskContexts \subseteq LockContexts
  /\ MaxTasks \in Nat /\ MaxSessions \in Nat

Verification == scheduler.mode = "BlockVerification"
Production   == scheduler.mode = "BlockProduction"

Sessions == 0 .. MaxSessions

(* The message that makes a handler change to the channel of the next      *)
(* session.                                                                *)
NextChannel == 0

Nobody == [a \in {} |-> Readonly]
Message(kind, contexts) == [kind |-> kind, contexts |-> contexts]
Signal(kind) == Message(kind, Nobody)

(* A production scheduler is spawned without a bank: its first session is  *)
(* ending from the start.                                                  *)
InitManager ==
  /\ InitMachine
  /\ client = [pc |-> "active", sent |-> 0, result |-> "none", receive |-> FALSE]
  /\ new_tasks = <<>>
  /\ \E mode \in Modes :
       scheduler = [mode |-> mode, pc |-> "session", ending |-> mode = "BlockProduction",
                    result |-> "Ok", session |-> 0, again |-> Nobody]
  /\ session_results = <<>>
  /\ runnable = [s \in Sessions |-> <<>>]
  /\ aux = [s \in Sessions |-> <<>>]
  /\ handler = [h \in Handlers |->
       [pc |-> "idle", context |-> 0, task |-> 0, priority |-> "idle"]]
  /\ finished_blocked = <<>>
  /\ finished_idle = <<>>
  /\ executed = {}

(* new_task_receiver is dropped when the scheduler thread ends; sending    *)
(* fails from then on.                                                     *)
Receiving == scheduler.pc # "exited"

-----------------------------------------------------------------------------
(* The client *)

ClientGoes(pc) == client' = [client EXCEPT !.pc = pc]

(* ensure_join_threads(receive)                                            *)
StartJoin(receive) == client' = [client EXCEPT !.pc = "joining", !.receive = receive]

(* send_task, and recover_error_after_abort when it fails.                 *)
SendTask ==
  /\ Verification
  /\ client.pc = "active" /\ client.sent < MaxTasks
  /\ \/ /\ Receiving
        /\ \E c \in TaskContexts : new_tasks' = Append(new_tasks, Message("Payload", c))
        /\ client' = [client EXCEPT !.sent = @ + 1]
     \/ /\ ~Receiving
        /\ StartJoin(TRUE)
        /\ UNCHANGED new_tasks
  /\ UNCHANGED <<machineVars, scheduler, session_results, threadVars, executed>>

(* Mutant: the scheduler is returned without waiting for the session.      *)
EndWithoutWaiting ==
  /\ client.pc = "active"
  /\ Receiving
  /\ new_tasks' = Append(new_tasks, Signal("CloseSubchannel"))
  /\ ClientGoes("ended")
  /\ UNCHANGED <<machineVars, scheduler, session_results, threadVars, executed>>

(* end_session up to the wait for the result.                              *)
EndSession ==
  /\ client.pc = "active"
  /\ \/ /\ Receiving
        /\ new_tasks' = Append(new_tasks, Signal("CloseSubchannel"))
        /\ ClientGoes("waiting")
     \/ /\ ~Receiving
        /\ StartJoin(TRUE)
        /\ UNCHANGED new_tasks
  /\ UNCHANGED <<machineVars, scheduler, session_results, threadVars, executed>>

(* The poh thread signals the end without waiting; the owner's blocking    *)
(* end_session follows.                                                    *)
PauseForRecentBlockhash ==
  /\ Production
  /\ client.pc = "active" /\ client.sent = 0
  /\ Receiving
  /\ new_tasks' = Append(new_tasks, Signal("CloseSubchannel"))
  /\ client' = [client EXCEPT !.sent = 1]
  /\ UNCHANGED <<machineVars, scheduler, session_results, threadVars, executed>>

(* The rest of end_session.  The scheduler goes back to the pool unless    *)
(* its threads are joined.                                                 *)
ReceiveResult ==
  /\ client.pc = "waiting" /\ session_results # <<>>
  /\ session_results' = Tail(session_results)
  /\ client' = [client EXCEPT !.result = Head(session_results), !.receive = FALSE,
                  !.pc = IF Head(session_results) = "Ok" THEN "ended" ELSE "joining"]
  /\ UNCHANGED <<machineVars, new_tasks, scheduler, threadVars, executed>>

HandlersJoined == \A h \in Handlers : handler[h].pc \in {"exited", "panicked"}
Panicked       == \E h \in Handlers : handler[h].pc = "panicked"

(* Joining a thread that panicked panics; otherwise the error the session  *)
(* ended with is left behind, and the scheduler is trashed.                *)
JoinThreads ==
  /\ client.pc = "joining"
  /\ HandlersJoined
  /\ \/ /\ Panicked
        /\ ClientGoes("panicked")
        /\ UNCHANGED session_results
     \/ /\ ~Panicked /\ scheduler.pc = "exited" /\ ~client.receive
        /\ ClientGoes("aborted")
        /\ UNCHANGED session_results
     \/ /\ ~Panicked /\ scheduler.pc = "exited" /\ client.receive /\ session_results # <<>>
        /\ client' = [client EXCEPT !.result = Head(session_results),
                        !.pc = IF Head(session_results) = "Ok" THEN "panicked" ELSE "aborted"]
        /\ session_results' = Tail(session_results)
  /\ UNCHANGED <<machineVars, new_tasks, scheduler, threadVars, executed>>

(* A scheduler taken from the pool is given the next bank.                 *)
StartSession ==
  /\ client.pc = "ended"
  /\ scheduler.session < MaxSessions
  /\ \/ /\ Receiving
        /\ new_tasks' = Append(new_tasks, Signal("OpenSubchannel"))
        /\ client' = [client EXCEPT !.pc = IF Production THEN "opened" ELSE "active",
                        !.sent = 0, !.result = "none"]
     \/ /\ ~Receiving
        /\ ClientGoes("panicked")
        /\ UNCHANGED new_tasks
  /\ UNCHANGED <<machineVars, scheduler, session_results, threadVars, executed>>

(* The bank has been handed to the poh.                                    *)
UnpauseStartedSession ==
  /\ client.pc = "opened"
  /\ new_tasks' = Append(new_tasks, Signal("UnpauseOpenedSubchannel"))
  /\ ClientGoes("active")
  /\ UNCHANGED <<machineVars, scheduler, session_results, threadVars, executed>>

(* The cleaner discards what an idle production scheduler has buffered.    *)
DiscardBufferedTasks ==
  /\ Production
  /\ client.pc = "ended" /\ Receiving
  /\ new_tasks = <<>> /\ scheduler.pc = "between"        \* bound: one at a time
  /\ new_tasks' = Append(new_tasks, Signal("Reset"))
  /\ UNCHANGED <<machineVars, client, scheduler, session_results, threadVars, executed>>

(* ThreadManager::drop of a pooled scheduler, or of one whose session is   *)
(* abandoned.                                                              *)
Drop ==
  /\ client.pc = "ended" \/ (Verification /\ client.pc = "active")
  /\ \/ /\ Receiving
        /\ new_tasks' = Append(new_tasks, Signal("Disconnect"))
        /\ ClientGoes("dropping")
     \/ /\ ~Receiving
        /\ StartJoin(TRUE)
        /\ UNCHANGED new_tasks
  /\ UNCHANGED <<machineVars, scheduler, session_results, threadVars, executed>>

FinishDrop ==
  /\ client.pc = "dropping"
  /\ HandlersJoined
  /\ \/ /\ Panicked
        /\ ClientGoes("panicked")
        /\ UNCHANGED session_results
     \/ /\ ~Panicked /\ scheduler.pc = "exited" /\ session_results # <<>>
        /\ client' = [client EXCEPT !.result = Head(session_results),
                        !.pc = IF Head(session_results) = "Ok" THEN "dropped" ELSE "panicked"]
        /\ session_results' = Tail(session_results)
  /\ UNCHANGED <<machineVars, new_tasks, scheduler, threadVars, executed>>

-----------------------------------------------------------------------------
(* The scheduler thread *)

can_receive_unblocked_task ==
  IF Verification THEN has_unblocked_task ELSE ~scheduler.ending /\ has_runnable_task

(* Mutant: the end is not put off until the tasks are done.                *)
EndAtOnce == scheduler.ending

(* Mutant: verification ends once the handlers are done, as production.    *)
NothingRunning == scheduler.ending /\ has_no_running_task

can_finish_session ==
  scheduler.ending /\ IF Verification THEN has_no_active_task ELSE has_no_running_task

(* An iteration of the session's loop; its alternatives have precedence in *)
(* this order: finished tasks that were blocked, unblocked tasks, new      *)
(* tasks, other finished tasks.                                            *)
InSession == scheduler.pc = "session" /\ ~can_finish_session

(* The thread leaves its main loop: it reports what it has and ends.       *)
Break(result) ==
  /\ scheduler' = [scheduler EXCEPT !.pc = "exiting", !.result = result]
  /\ session_results' = Append(session_results, result)

(* Mutant: errors are discarded in verification as well.                   *)
IgnoreError(done) == UNCHANGED <<scheduler, session_results>>

(* abort_or_accumulate_result_with_timings.  Verification stops at the     *)
(* first error.  Production discards failed tasks, ends the session when   *)
(* the block is full, and then keeps what did not fit for the next one.    *)
Accumulate(done) ==
  \/ /\ done.result = "Ok" \/ (Production /\ done.result = "Err")
     /\ UNCHANGED <<scheduler, session_results>>
  \/ /\ Verification /\ done.result = "Err"
     /\ Break("Err")
  \/ /\ Production /\ done.result = "OkFull"
     /\ scheduler' = [scheduler EXCEPT !.ending = TRUE]
     /\ UNCHANGED session_results
  \/ /\ Production /\ done.result = "Retry"
     /\ scheduler' = [scheduler EXCEPT !.pc = "rebuffer", !.again = locks(done.task)]
     /\ UNCHANGED session_results

(* A handler that panicked sends no task back.                             *)
HandleFinished(done) ==
  \/ /\ done.result = "Panicked"
     /\ Break(scheduler.result)
     /\ UNCHANGED machineVars
  \/ /\ done.result # "Panicked"
     /\ deschedule_task(done.task)
     /\ Accumulate(done)

ReceiveFinishedBlocked ==
  /\ InSession
  /\ finished_blocked # <<>>
  /\ HandleFinished(Head(finished_blocked))
  /\ finished_blocked' = Tail(finished_blocked)
  /\ UNCHANGED <<client, new_tasks, runnable, aux, handler, finished_idle, executed>>

ReceiveFinishedIdle ==
  /\ InSession
  /\ finished_blocked = <<>> /\ ~can_receive_unblocked_task /\ new_tasks = <<>>
  /\ finished_idle # <<>>
  /\ HandleFinished(Head(finished_idle))
  /\ finished_idle' = Tail(finished_idle)
  /\ UNCHANGED <<client, new_tasks, runnable, aux, handler, finished_blocked, executed>>

(* rebuffer_task_for_next_session                                          *)
Rebuffer ==
  /\ scheduler.pc = "rebuffer"
  /\ schedule_or_buffer_task(scheduler.again, TRUE)
  /\ scheduler' = [scheduler EXCEPT !.pc = "session", !.again = Nobody, !.ending = TRUE]
  /\ UNCHANGED <<clientVars, threadVars, executed>>

DispatchUnblocked ==
  /\ InSession
  /\ finished_blocked = <<>> /\ can_receive_unblocked_task
  /\ schedule_next_unblocked_task
  /\ runnable' = [runnable EXCEPT ![scheduler.session] = Append(@, Head(unblocked_task_queue))]
  /\ UNCHANGED <<clientVars, scheduler, aux, handler, finished_blocked, finished_idle, executed>>

(* Other messages than these are unreachable!() here, and in verification  *)
(* nothing may follow the end of the session.                              *)
ReceiveNewTask ==
  /\ InSession
  /\ finished_blocked = <<>> /\ ~can_receive_unblocked_task /\ new_tasks # <<>>
  /\ new_tasks' = Tail(new_tasks)
  /\ \/ /\ Head(new_tasks).kind = "Payload"
        /\ schedule_or_buffer_task(Head(new_tasks).contexts, scheduler.ending)
        /\ aux' = IF running' # running
                  THEN [aux EXCEPT ![scheduler.session] = Append(@, Len(lock_contexts'))]
                  ELSE aux
        /\ UNCHANGED <<scheduler, session_results>>
     \/ /\ Head(new_tasks).kind = "CloseSubchannel"
        /\ scheduler' = [scheduler EXCEPT !.ending = TRUE]
        /\ UNCHANGED <<machineVars, session_results, aux>>
     \/ /\ Head(new_tasks).kind = "Disconnect"
        /\ Break(scheduler.result)
        /\ UNCHANGED <<machineVars, aux>>
  /\ UNCHANGED <<client, runnable, handler, finished_blocked, finished_idle, executed>>

(* The result of the session is reported.                                  *)
FinishSession ==
  /\ scheduler.pc = "session" /\ can_finish_session
  /\ session_results' = Append(session_results, scheduler.result)
  /\ IF Verification THEN reinitialize ELSE UNCHANGED machineVars
  /\ scheduler' = [scheduler EXCEPT !.pc = "between", !.ending = FALSE]
  /\ UNCHANGED <<client, new_tasks, threadVars, executed>>

(* Mutant: the handlers are not told of the new channels.                  *)
SameChannel(s) == UNCHANGED <<runnable, aux>>

(* send_chained_channel: one message for each handler, over the channel of *)
(* the session before.                                                     *)
SendChainedChannel(s) ==
  /\ runnable' = [runnable EXCEPT ![s - 1] = @ \o [i \in 1 .. Cardinality(Handlers) |-> NextChannel]]
  /\ UNCHANGED aux

(* The wait for the next session.  Production buffers tasks meanwhile, and *)
(* starts only when the bank has reached the poh.                          *)
ReceiveBetween ==
  LET message == Head(new_tasks)
      next    == scheduler.session + 1
  IN  /\ scheduler.pc = "between" /\ new_tasks # <<>>
      /\ new_tasks' = Tail(new_tasks)
      /\ \/ /\ message.kind = "Payload" /\ Production
            /\ schedule_or_buffer_task(message.contexts, TRUE)
            /\ UNCHANGED <<scheduler, session_results, runnable, aux, executed>>
         \/ /\ message.kind = "OpenSubchannel"
            /\ SendChainedChannel(next)
            /\ scheduler' = [scheduler EXCEPT !.session = next, !.result = "Ok",
                               !.pc = IF Verification THEN "session" ELSE "between"]
            /\ executed' = IF Verification THEN {} ELSE executed
            /\ UNCHANGED <<machineVars, session_results>>
         \/ /\ message.kind = "UnpauseOpenedSubchannel" /\ Production
            /\ scheduler' = [scheduler EXCEPT !.pc = "session"]
            /\ UNCHANGED <<machineVars, session_results, runnable, aux, executed>>
         \/ /\ message.kind = "CloseSubchannel" /\ Production
            /\ UNCHANGED <<machineVars, scheduler, session_results, runnable, aux, executed>>
         \/ /\ message.kind = "Reset" /\ Production
            /\ scheduler' = [scheduler EXCEPT !.pc = "clearing"]
            /\ UNCHANGED <<machineVars, session_results, runnable, aux, executed>>
         \/ /\ message.kind = "Disconnect"
            /\ Break("Ok")
            /\ UNCHANGED <<machineVars, runnable, aux, executed>>
      /\ UNCHANGED <<client, handler, finished_blocked, finished_idle>>

(* clear_and_reinitialize: every task that can be taken out is descheduled *)
(* at once, which unblocks the next ones.                                  *)
ClearTask ==
  /\ scheduler.pc = "clearing"
  /\ \/ has_no_running_task /\ schedule_next_unblocked_task
     \/ \E t \in running : deschedule_task(t)
  /\ UNCHANGED <<clientVars, scheduler, threadVars, executed>>

ClearDone ==
  /\ scheduler.pc = "clearing"
  /\ has_no_running_task /\ ~has_runnable_task
  /\ reinitialize
  /\ executed' = {}
  /\ scheduler' = [scheduler EXCEPT !.pc = "between"]
  /\ UNCHANGED <<clientVars, threadVars>>

(* All channel ends the thread holds are dropped.                          *)
ExitScheduler ==
  /\ scheduler.pc = "exiting"
  /\ scheduler' = [scheduler EXCEPT !.pc = "exited"]
  /\ UNCHANGED <<machineVars, clientVars, threadVars, executed>>

-----------------------------------------------------------------------------
(* The handler threads *)

HandlerGoes(h, new_state) == handler' = [handler EXCEPT ![h] = new_state]

(* The sender of a chained channel is dropped when the next one is used.   *)
Disconnected(s) == ~Receiving \/ s < scheduler.session

(* Tasks that were blocked come first; then those that never were.         *)
ReceiveRunnable(h) ==
  LET s == handler[h].context
  IN  /\ handler[h].pc = "idle"
      /\ \/ /\ runnable[s] # <<>>
            /\ runnable' = [runnable EXCEPT ![s] = Tail(@)]
            /\ HandlerGoes(h, IF Head(runnable[s]) = NextChannel
                              THEN [handler[h] EXCEPT !.context = s + 1]
                              ELSE [handler[h] EXCEPT !.pc = "busy", !.priority = "blocked",
                                                      !.task = Head(runnable[s])])
            /\ UNCHANGED aux
         \/ /\ runnable[s] = <<>> /\ Disconnected(s)
            /\ HandlerGoes(h, [handler[h] EXCEPT !.pc = "exited"])
            /\ UNCHANGED <<runnable, aux>>
         \/ /\ runnable[s] = <<>> /\ ~Disconnected(s) /\ aux[s] # <<>>
            /\ aux' = [aux EXCEPT ![s] = Tail(@)]
            /\ HandlerGoes(h, [handler[h] EXCEPT !.pc = "busy", !.priority = "idle",
                                                 !.task = Head(aux[s])])
            /\ UNCHANGED runnable
  /\ UNCHANGED <<machineVars, clientVars, scheduler, finished_blocked, finished_idle, executed>>

(* A production handler with nothing to execute takes a packet.            *)
ReceivePacket(h) ==
  LET s == handler[h].context
  IN  /\ Production
      /\ handler[h].pc = "idle" /\ runnable[s] = <<>> /\ aux[s] = <<>> /\ ~Disconnected(s)
      /\ Len(lock_contexts) + Len(new_tasks) < MaxTasks
      /\ HandlerGoes(h, [handler[h] EXCEPT !.pc = "packet"])
      /\ UNCHANGED <<machineVars, clientVars, scheduler, runnable, aux, finished_blocked,
                     finished_idle, executed>>

(* send_new_task: nobody may be there to receive it any more.              *)
SendNewTask(h) ==
  /\ handler[h].pc = "packet"
  /\ \/ /\ Receiving
        /\ \E c \in TaskContexts : new_tasks' = Append(new_tasks, Message("Payload", c))
        /\ HandlerGoes(h, [handler[h] EXCEPT !.pc = "idle"])
     \/ /\ ~Receiving
        /\ HandlerGoes(h, [handler[h] EXCEPT !.pc = "panicked"])
        /\ UNCHANGED new_tasks
  /\ UNCHANGED <<machineVars, client, session_results, scheduler, runnable, aux,
                 finished_blocked, finished_idle, executed>>

(* The task is executed in the bank of the handler's context, and sent     *)
(* back over the channel that matches the one it came from.                *)
Execute(h) ==
  \E r \in {"Ok"} \cup Failures[scheduler.mode] :
    LET done == [task |-> handler[h].task, result |-> r]
    IN  /\ handler[h].pc = "busy"
        /\ executed' = executed \cup {<<handler[h].task, r>>}
        /\ HandlerGoes(h, [handler[h] EXCEPT !.task = 0,
             !.pc = IF r = "Panicked" THEN "panicked" ELSE IF Receiving THEN "idle" ELSE "exited"])
        /\ finished_blocked' = IF handler[h].priority = "blocked" /\ Receiving
                               THEN Append(finished_blocked, done) ELSE finished_blocked
        /\ finished_idle' = IF handler[h].priority = "idle" /\ Receiving
                            THEN Append(finished_idle, done) ELSE finished_idle
        /\ UNCHANGED <<machineVars, clientVars, scheduler, runnable, aux>>

-----------------------------------------------------------------------------
ClientStep ==
  \/ SendTask \/ EndSession \/ PauseForRecentBlockhash \/ ReceiveResult \/ JoinThreads
  \/ StartSession \/ UnpauseStartedSession \/ DiscardBufferedTasks \/ Drop \/ FinishDrop

SchedulerStep ==
  \/ ReceiveFinishedBlocked \/ ReceiveFinishedIdle \/ Rebuffer \/ DispatchUnblocked
  \/ ReceiveNewTask \/ FinishSession \/ ReceiveBetween \/ ClearTask \/ ClearDone
  \/ ExitScheduler

HandlerStep(h) ==
  ReceiveRunnable(h) \/ ReceivePacket(h) \/ SendNewTask(h) \/ Execute(h)

NextManager == ClientStep \/ SchedulerStep \/ \E h \in Handlers : HandlerStep(h)

ManagerSpec == InitManager /\ [][NextManager]_managerVars

(* Threads run; a client that waits for a thread is woken.                 *)
FairManagerSpec ==
  /\ ManagerSpec
  /\ WF_managerVars(SchedulerStep)
  /\ \A h \in Handlers : WF_managerVars(ReceiveRunnable(h) \/ SendNewTask(h) \/ Execute(h))
  /\ WF_managerVars(ReceiveResult \/ JoinThreads \/ FinishDrop)
=============================================================================
