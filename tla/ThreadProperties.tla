-------------------------- MODULE ThreadProperties --------------------------
(***************************************************************************)
(* What the owner of a unified scheduler can rely on, however its threads  *)
(* interleave and whatever the handlers end with.                          *)
(***************************************************************************)
EXTENDS ThreadManager

Busy(h) == handler[h].pc = "busy"

Conflict(t, u) ==
  \E a \in DOMAIN locks(t) \cap DOMAIN locks(u) :
    locks(t)[a] = Writable \/ locks(u)[a] = Writable

Ended(t) == \E r \in {"Ok"} \cup Failures[scheduler.mode] : <<t, r>> \in executed

(* "All running tasks are conflict-free": a handler starts a task only     *)
(* after every earlier task it conflicts with has been executed, although  *)
(* four channels of two priorities and several handlers lie between the    *)
(* order of arrival and the execution.                                     *)
ExecutionInOrder ==
  \A h \in Handlers : Busy(h) =>
    \A t \in 1 .. handler[h].task - 1 : Conflict(t, handler[h].task) => Ended(t)

HoldsTask(channel) == \E i \in DOMAIN channel : channel[i] # NextChannel

(* When the result of a session has been reported no task of it is left    *)
(* anywhere, so that none is executed after its bank is taken for          *)
(* complete; and while a session runs every handler at work is in its      *)
(* context ("prevent one of those threads from mixing current and next     *)
(* contexts").                                                             *)
SessionsDoNotMix ==
  /\ scheduler.pc \in {"between", "clearing"} =>
       /\ \A h \in Handlers : ~Busy(h)
       /\ \A s \in Sessions : ~HoldsTask(runnable[s]) /\ aux[s] = <<>>
       /\ finished_blocked = <<>> /\ finished_idle = <<>>
  /\ scheduler.pc \in {"session", "rebuffer"} =>
       \A h \in Handlers : Busy(h) => handler[h].context = scheduler.session

(* A verified block is one whose transactions have all been executed with  *)
(* success, as long as no handler panics.                                  *)
OkMeansExecuted ==
  Verification /\ client.result = "Ok" /\ client.pc = "ended" /\ ~Panicked =>
    executed = {<<t, "Ok">> : t \in 1 .. client.sent}

(* The messages the scheduler thread would panic on never reach it: the    *)
(* end of a session may be signalled twice, by different threads, and by   *)
(* the session itself, and the scheduler may abort at any moment.          *)
ExpectedMessagesOnly ==
  new_tasks # <<>> =>
    LET kind == Head(new_tasks).kind
    IN  /\ scheduler.pc = "session" /\ ~can_finish_session =>
             kind \in {"Payload", "CloseSubchannel", "Disconnect"} /\ (Production \/ ~scheduler.ending)
        /\ scheduler.pc = "between" /\ Verification =>
             kind \in {"OpenSubchannel", "Disconnect"}

(* reinitialize is called with no task left, be it at the end of a block   *)
(* or after the buffered tasks have been discarded one by one.             *)
ReinitializeNeverPanics ==
  \/ scheduler.pc = "session" /\ can_finish_session /\ Verification
  \/ scheduler.pc = "clearing" /\ has_no_running_task /\ ~has_runnable_task
  => CanReinitialize

(* A handler has panicked in the execution of a task.                      *)
ExecutionPanicked == \E e \in executed : e[2] = "Panicked"

(* Nobody waits for ever: the end of a session, the join after an abort    *)
(* and the shutdown return, whatever the threads were doing, unless a      *)
(* transaction makes a handler panic, on which the validator ends.         *)
WaitsEnd ==
  /\ client.pc = "waiting" ~> client.pc # "waiting" \/ ExecutionPanicked
  /\ client.pc = "joining" ~> client.pc # "joining" \/ ExecutionPanicked
  /\ client.pc = "dropping" ~> client.pc # "dropping" \/ ExecutionPanicked
=============================================================================
