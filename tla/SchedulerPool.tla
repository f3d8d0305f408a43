---------------------------- MODULE SchedulerPool ----------------------------
(***************************************************************************)
(* The pool of unified schedulers and the banks they are installed into.   *)
(* A bank takes a scheduler when it is inserted, loses it to a timeout,    *)
(* takes one again when more transactions come, and gives it back when it  *)
(* is completed or dropped.  A cleaner thread triggers the timeouts and    *)
(* destroys schedulers; the pool is taken down with the bank forks.        *)
(*                                                                         *)
(* Every step is what one thread does under one lock: the lock of a bank's *)
(* scheduler status or one of the pool's.  Of a scheduler's threads only   *)
(* what the pool can observe is kept (see ThreadManager for the rest).     *)
(* Handlers do not panic.  Time is left out: whatever has a deadline may   *)
(* be past it.                                                             *)
(***************************************************************************)
EXTENDS Integers, Sequences, FiniteSets

CONSTANTS
  VerifiedBanks,
  ProducedBanks,
  MaxSchedulers         \* bound on the schedulers alive at a time

VARIABLES
  scheduler,            \* per id: what is alive, see NewScheduler
  scheduler_inners,     \* pooled verification schedulers; the last is taken first
  block_production_scheduler_inner,
  trashed_scheduler_inners,
  timeout_listeners,    \* per bank: listeners registered
  banking_stage,        \* "unregistered", "registered" or "exited"
  bank,                 \* per bank: [status, id, result, refs]
  replay,               \* per bank: where the thread that replays it is
  failed,               \* banks with a transaction that failed
  outcome,              \* per bank: what completing it returned
  cleaner,              \* [pc, expired]
  forks                 \* dropping of the bank forks: [pc, listeners]

inners   == <<scheduler_inners, block_production_scheduler_inner, trashed_scheduler_inners>>
bankVars == <<bank, replay, failed, outcome>>
vars     == <<scheduler, inners, timeout_listeners, banking_stage, bankVars, cleaner, forks>>

Banks == VerifiedBanks \cup ProducedBanks
Ids   == 1 .. MaxSchedulers
NoId  == 0

ASSUME PoolAssumption ==
  VerifiedBanks \cap ProducedBanks = {} /\ MaxSchedulers \in Nat \ {0}

-----------------------------------------------------------------------------
(* Schedulers as the pool sees them.  result is session_result_with_       *)
(* timings; aborted means the scheduler thread has ended with an error,    *)
(* joined that its owner knows; consumes that its handlers take packets.   *)

Dropped == [mode |-> "none"]

NewScheduler(m) ==
  [mode |-> m, sent |-> FALSE, aborted |-> FALSE, joined |-> FALSE, result |-> "none",
   overgrown |-> FALSE, consumes |-> m = "production" /\ banking_stage # "exited"]

Alive(i) == scheduler[i] # Dropped

(* Ids are never used twice in the program; here a dropped one is.         *)
Spawnable == {i \in Ids : ~Alive(i)}
NewId     == CHOOSE i \in Spawnable : \A j \in Spawnable : i <= j

(* end_session, whose result stays in the thread manager.                  *)
end_session(sch) ==
  IF sch.joined \/ sch.result # "none" THEN sch
  ELSE IF sch.aborted THEN [sch EXCEPT !.joined = TRUE, !.result = "Err"]
  ELSE [sch EXCEPT !.result = "Ok"]

(* into_inner ends the session and takes the result out.                   *)
into_inner(sch) == [end_session(sch) EXCEPT !.result = "none", !.sent = FALSE]

(* What from_inner and start_session assert; all else stays as it is.      *)
CanStartSession(sch) == ~sch.joined /\ ~sch.aborted /\ sch.result = "none"

is_trashed(sch) == sch.joined \/ sch.overgrown

-----------------------------------------------------------------------------
(* The pool *)

NotSpawned == [kind |-> "NotSpawned", id |-> NoId]
Pooled(i)  == [kind |-> "Pooled", id |-> i]
Taken(i)   == [kind |-> "Taken", id |-> i]

can_put(i) == block_production_scheduler_inner = Taken(i)

(* Mutant: a production scheduler that is trashed is not replaced.         *)
ReturnWithoutSpawning(i, sch) ==
  /\ scheduler' = [scheduler EXCEPT ![i] = sch]
  /\ \/ /\ is_trashed(sch)
        /\ trashed_scheduler_inners' = trashed_scheduler_inners \cup {i}
        /\ UNCHANGED <<scheduler_inners, block_production_scheduler_inner>>
     \/ /\ ~is_trashed(sch) /\ can_put(i)
        /\ block_production_scheduler_inner' = Pooled(i)
        /\ UNCHANGED <<scheduler_inners, trashed_scheduler_inners>>
     \/ /\ ~is_trashed(sch) /\ ~can_put(i)
        /\ scheduler_inners' = Append(scheduler_inners, i)
        /\ UNCHANGED <<block_production_scheduler_inner, trashed_scheduler_inners>>

(* return_scheduler of i, whose state is now sch.                          *)
return_scheduler(i, sch) ==
  \/ /\ is_trashed(sch) /\ can_put(i)
     /\ Spawnable # {}
     /\ scheduler' = [scheduler EXCEPT ![i] = sch, ![NewId] = NewScheduler("production")]
     /\ block_production_scheduler_inner' = Pooled(NewId)
     /\ trashed_scheduler_inners' = trashed_scheduler_inners \cup {i}
     /\ UNCHANGED scheduler_inners
  \/ /\ is_trashed(sch) /\ ~can_put(i)
     /\ scheduler' = [scheduler EXCEPT ![i] = sch]
     /\ trashed_scheduler_inners' = trashed_scheduler_inners \cup {i}
     /\ UNCHANGED <<scheduler_inners, block_production_scheduler_inner>>
  \/ /\ ~is_trashed(sch) /\ can_put(i)
     /\ scheduler' = [scheduler EXCEPT ![i] = sch]
     /\ block_production_scheduler_inner' = Pooled(i)
     /\ UNCHANGED <<scheduler_inners, trashed_scheduler_inners>>
  \/ /\ ~is_trashed(sch) /\ ~can_put(i)
     /\ scheduler' = [scheduler EXCEPT ![i] = sch]
     /\ scheduler_inners' = Append(scheduler_inners, i)
     /\ UNCHANGED <<block_production_scheduler_inner, trashed_scheduler_inners>>

(* Who keeps a bank, and what for.                                         *)
Keeps(owner) == <<owner, "keep">>

(* Whoever gives the bank a scheduler keeps it meanwhile.                  *)
Install(b, i) == bank' = [bank EXCEPT ![b] = [@ EXCEPT !.status = "Active", !.id = i, !.result = "none",
                                               !.refs = IF @ = {} THEN {Keeps("inserter")} ELSE @]]

(* take_resumed_scheduler for b, which becomes active.                     *)
TakeScheduler(b) ==
  \/ /\ b \in VerifiedBanks /\ scheduler_inners # <<>>
     /\ Install(b, scheduler_inners[Len(scheduler_inners)])
     /\ scheduler_inners' = SubSeq(scheduler_inners, 1, Len(scheduler_inners) - 1)
     /\ UNCHANGED <<scheduler, block_production_scheduler_inner, trashed_scheduler_inners>>
  \/ /\ b \in VerifiedBanks /\ scheduler_inners = <<>> /\ Spawnable # {}
     /\ scheduler' = [scheduler EXCEPT ![NewId] = NewScheduler("verification")]
     /\ Install(b, NewId)
     /\ UNCHANGED inners
  \/ /\ b \in ProducedBanks
     /\ Install(b, block_production_scheduler_inner.id)
     /\ block_production_scheduler_inner' = Taken(block_production_scheduler_inner.id)
     /\ UNCHANGED <<scheduler, scheduler_inners, trashed_scheduler_inners>>

register_timeout_listener(b) ==
  timeout_listeners' = [timeout_listeners EXCEPT ![b] = @ + 1]

DropSchedulers(S) == scheduler' = [i \in Ids |-> IF i \in S THEN Dropped ELSE scheduler[i]]

register_banking_stage ==
  /\ banking_stage = "unregistered" /\ forks.pc = "alive" /\ Spawnable # {}
  /\ banking_stage' = "registered"
  /\ scheduler' = [scheduler EXCEPT ![NewId] = NewScheduler("production")]
  /\ block_production_scheduler_inner' = Pooled(NewId)
  /\ UNCHANGED <<scheduler_inners, trashed_scheduler_inners, timeout_listeners, bankVars, cleaner, forks>>

-----------------------------------------------------------------------------
Init ==
  /\ scheduler = [i \in Ids |-> Dropped]
  /\ scheduler_inners = <<>>
  /\ block_production_scheduler_inner = NotSpawned
  /\ trashed_scheduler_inners = {}
  /\ banking_stage = "unregistered"
  /\ timeout_listeners = [b \in Banks |-> 0]
  /\ bank = [b \in Banks |->
       [status |-> "Unavailable", id |-> NoId, result |-> "none", refs |-> {}]]
  /\ replay = [b \in Banks |-> "new"]
  /\ failed = {}
  /\ outcome = [b \in Banks |-> "none"]
  /\ cleaner = [pc |-> "asleep", expired |-> {}]
  /\ forks = [pc |-> "alive", listeners |-> {}]

Status(b)    == bank[b].status
Installed(b) == scheduler[bank[b].id]

ReplayGoes(b, pc) == replay' = [replay EXCEPT ![b] = pc]

-----------------------------------------------------------------------------
(* The thread that replays or produces bank b *)

(* BankForks::insert_with_scheduling_mode.  Blocks are produced one at a   *)
(* time and only once the banking stage is registered.                     *)
Insert(b) ==
  /\ replay[b] = "new" /\ forks.pc = "alive"
  /\ \/ /\ b \in VerifiedBanks
        /\ TakeScheduler(b)
        /\ register_timeout_listener(b)
     \/ /\ b \in ProducedBanks /\ banking_stage # "unregistered"
        /\ \A c \in ProducedBanks : Status(c) = "Unavailable"
        /\ TakeScheduler(b)
        /\ UNCHANGED timeout_listeners
  /\ ReplayGoes(b, "inserted")
  /\ UNCHANGED <<banking_stage, failed, outcome, cleaner, forks>>

(* The bank enters the map of the bank forks; the one of a block that is   *)
(* produced here is kept by the poh recorder, too.                         *)
Share(b) ==
  /\ replay[b] = "inserted"
  /\ \E owners \in {{"forks"}, {"forks", "poh"}} :
       bank' = [bank EXCEPT ![b].refs = (@ \ {Keeps("inserter")}) \cup {Keeps(o) : o \in owners}]
  /\ ReplayGoes(b, "idle")
  /\ UNCHANGED <<scheduler, inners, timeout_listeners, banking_stage, failed, outcome, cleaner, forks>>

(* schedule_execution fails when the scheduler thread has ended; otherwise *)
(* the addresses of the transactions may be more than a scheduler keeps.   *)
SendOrFail(b) ==
  \/ /\ ~Installed(b).aborted
     /\ \E many \in BOOLEAN : scheduler' = [scheduler EXCEPT
          ![bank[b].id] = [@ EXCEPT !.sent = TRUE, !.overgrown = @ \/ many]]
     /\ ReplayGoes(b, "idle")
  \/ /\ Installed(b).aborted
     /\ ReplayGoes(b, "failing")
     /\ UNCHANGED scheduler

(* schedule_transaction_executions up to the release of the read lock.     *)
Schedule(b) ==
  /\ b \in VerifiedBanks /\ replay[b] = "idle" /\ forks.pc = "alive"
  /\ \/ Status(b) = "Active" /\ SendOrFail(b)
     \/ Status(b) = "Stale" /\ bank[b].result = "Err" /\ ReplayGoes(b, "failing") /\ UNCHANGED scheduler
     \/ Status(b) = "Stale" /\ bank[b].result = "Ok" /\ ReplayGoes(b, "stale") /\ UNCHANGED scheduler
  /\ UNCHANGED <<inners, timeout_listeners, banking_stage, bank, failed, outcome, cleaner, forks>>

(* Mutant: the listener is registered when the scheduler is installed.     *)
ReactivateAndRegister(b) ==
  /\ replay[b] = "stale" /\ Status(b) = "Stale"
  /\ TakeScheduler(b)
  /\ register_timeout_listener(b)
  /\ ReplayGoes(b, "reactivated")
  /\ UNCHANGED <<banking_stage, failed, outcome, cleaner, forks>>

(* with_active_scheduler under the write lock ...                          *)
Reactivate(b) ==
  /\ replay[b] = "stale" /\ Status(b) = "Stale"
  /\ TakeScheduler(b)
  /\ ReplayGoes(b, "reactivated")
  /\ UNCHANGED <<timeout_listeners, banking_stage, failed, outcome, cleaner, forks>>

(* Mutant: no listener is registered for the new scheduler.                *)
SendOnly(b) ==
  /\ replay[b] = "reactivated" /\ Status(b) = "Active"
  /\ SendOrFail(b)
  /\ UNCHANGED <<inners, timeout_listeners, banking_stage, bank, failed, outcome, cleaner, forks>>

(* ... and then under the read lock, which keeps the listener it registers *)
(* from running.                                                           *)
RegisterAndSend(b) ==
  /\ replay[b] = "reactivated" /\ Status(b) = "Active"
  /\ register_timeout_listener(b)
  /\ SendOrFail(b)
  /\ UNCHANGED <<inners, banking_stage, bank, failed, outcome, cleaner, forks>>

(* retrieve_error_after_schedule_failure, under the write lock.            *)
RetrieveError(b) ==
  /\ replay[b] = "failing"
  /\ \/ /\ Status(b) = "Active"
        /\ scheduler' = [scheduler EXCEPT ![bank[b].id] = end_session(@)]
     \/ /\ Status(b) = "Stale"
        /\ UNCHANGED scheduler
  /\ ReplayGoes(b, "dead")
  /\ UNCHANGED <<inners, timeout_listeners, banking_stage, bank, failed, outcome, cleaner, forks>>

(* register_tick at the end of the block pauses the scheduler; production  *)
(* is only told to end.                                                    *)
RegisterLastTick(b) ==
  /\ replay[b] = "idle" /\ forks.pc = "alive"
  /\ scheduler' = IF Status(b) = "Active" /\ b \in VerifiedBanks
                  THEN [scheduler EXCEPT ![bank[b].id] = end_session(@)] ELSE scheduler
  /\ ReplayGoes(b, "ticked")
  /\ UNCHANGED <<inners, timeout_listeners, banking_stage, bank, failed, outcome, cleaner, forks>>

(* wait_for_scheduler_termination for c, leaving the rest of the bank's    *)
(* record as it is in next.                                                *)
Terminate(c, next) ==
  \/ /\ Status(c) = "Active"
     /\ return_scheduler(bank[c].id, into_inner(Installed(c)))
     /\ bank' = [bank EXCEPT ![c] = [next EXCEPT !.status = "Unavailable", !.id = NoId]]
  \/ /\ Status(c) = "Stale"
     /\ bank' = [bank EXCEPT ![c] = [next EXCEPT !.status = "Unavailable", !.result = "none"]]
     /\ UNCHANGED <<scheduler, inners>>
  \/ /\ Status(c) = "Unavailable"
     /\ bank' = [bank EXCEPT ![c] = next]
     /\ UNCHANGED <<scheduler, inners>>

(* What terminating the scheduler of c returns.                            *)
TerminationResult(c) ==
  IF Status(c) = "Active" THEN end_session(Installed(c)).result ELSE bank[c].result

(* wait_for_completed_scheduler, before the bank is frozen.                *)
Complete(b) ==
  /\ replay[b] = "ticked" /\ forks.pc = "alive"
  /\ outcome' = [outcome EXCEPT ![b] = TerminationResult(b)]
  /\ Terminate(b, bank[b])
  /\ ReplayGoes(b, "done")
  /\ UNCHANGED <<timeout_listeners, banking_stage, failed, cleaner, forks>>

(* A reference to the bank goes; the last one takes the scheduler along.   *)
Release(b, ref) ==
  LET next == [bank[b] EXCEPT !.refs = @ \ {ref}]
  IN  IF next.refs = {} THEN Terminate(b, next)
      ELSE bank' = [bank EXCEPT ![b] = next] /\ UNCHANGED <<scheduler, inners>>

(* The bank is pruned, dumped or complete and left by the poh recorder.    *)
DropReference(b, owner) ==
  /\ Keeps(owner) \in bank[b].refs
  /\ \/ /\ owner = "forks" /\ forks.pc \in {"alive", "banks"}
        /\ replay[b] \in {"idle", "ticked", "dead", "done"}
        /\ ReplayGoes(b, "done")
     \/ owner = "poh" /\ UNCHANGED replay
  /\ Release(b, Keeps(owner))
  /\ UNCHANGED <<timeout_listeners, banking_stage, failed, outcome, cleaner, forks>>

-----------------------------------------------------------------------------
(* A scheduler's threads *)

(* A transaction fails in a session that is not over.                      *)
Abort(b) ==
  /\ b \in VerifiedBanks /\ Status(b) = "Active"
  /\ Installed(b).sent /\ ~Installed(b).aborted /\ Installed(b).result = "none"
  /\ scheduler' = [scheduler EXCEPT ![bank[b].id].aborted = TRUE]
  /\ failed' = failed \cup {b}
  /\ UNCHANGED <<inners, timeout_listeners, banking_stage, bank, replay, outcome, cleaner, forks>>

(* Packets are buffered at any time, before a bank comes and after it.     *)
Overgrow(i) ==
  /\ Alive(i) /\ scheduler[i].consumes /\ ~scheduler[i].overgrown
  /\ scheduler' = [scheduler EXCEPT ![i].overgrown = TRUE]
  /\ UNCHANGED <<inners, timeout_listeners, banking_stage, bankVars, cleaner, forks>>

-----------------------------------------------------------------------------
(* The cleaner thread *)

CleanerGoes(pc) == cleaner' = [cleaner EXCEPT !.pc = pc]

PoolIsGone == forks.pc \in {"joining", "gone"}

(* The pool is looked up; it is kept until the round is over.              *)
CleanerWakes ==
  /\ cleaner.pc = "asleep"
  /\ CleanerGoes(IF PoolIsGone THEN "exited" ELSE "idle inners")
  /\ UNCHANGED <<scheduler, inners, timeout_listeners, banking_stage, bankVars, forks>>

(* Mutant: idle schedulers stay.                                           *)
KeepIdle(all) ==
  /\ cleaner.pc = "idle inners"
  /\ CleanerGoes("banking stage")
  /\ UNCHANGED <<scheduler, inners, timeout_listeners, banking_stage, bankVars, forks>>

(* Schedulers that have been idle for too long are dropped: all of them,   *)
(* or some oldest ones.                                                    *)
CleanIdle(all) ==
  \E n \in 0 .. Len(scheduler_inners) :
    /\ cleaner.pc = "idle inners"
    /\ all => n = Len(scheduler_inners)
    /\ DropSchedulers({scheduler_inners[k] : k \in 1 .. n})
    /\ scheduler_inners' = SubSeq(scheduler_inners, n + 1, Len(scheduler_inners))
    /\ CleanerGoes("banking stage")
    /\ UNCHANGED <<block_production_scheduler_inner, trashed_scheduler_inners, timeout_listeners,
                   banking_stage, bankVars, forks>>

(* The banking stage has exited, or is inactive and the pooled scheduler   *)
(* has buffered too much, or there is nothing to do but tell the pooled    *)
(* scheduler to drop what it buffered.                                     *)
WatchBankingStage ==
  LET production == block_production_scheduler_inner
  IN  /\ cleaner.pc = "banking stage"
      /\ \/ /\ banking_stage = "registered"
            /\ banking_stage' = "exited"
            /\ UNCHANGED <<scheduler, inners>>
         \/ /\ banking_stage = "registered"
            /\ production.kind = "Pooled" /\ scheduler[production.id].overgrown
            /\ Spawnable # {}
            /\ scheduler' = [scheduler EXCEPT ![NewId] = NewScheduler("production")]
            /\ block_production_scheduler_inner' = Pooled(NewId)
            /\ trashed_scheduler_inners' = trashed_scheduler_inners \cup {production.id}
            /\ UNCHANGED <<scheduler_inners, banking_stage>>
         \/ UNCHANGED <<scheduler, inners, banking_stage>>
      /\ CleanerGoes("trash")
      /\ UNCHANGED <<timeout_listeners, bankVars, forks>>

EmptyTrash ==
  /\ cleaner.pc = "trash"
  /\ DropSchedulers(trashed_scheduler_inners)
  /\ trashed_scheduler_inners' = {}
  /\ CleanerGoes("listeners")
  /\ UNCHANGED <<scheduler_inners, block_production_scheduler_inner, timeout_listeners,
                 banking_stage, bankVars, forks>>

(* Listeners that are due, those of the banks in due among them.  Two of a *)
(* bank in one round would act as in two rounds.                           *)
ExpireListeners(due) ==
  /\ cleaner.pc = "listeners"
  /\ \E E \in SUBSET {b \in Banks : timeout_listeners[b] > 0} :
       /\ due \subseteq E
       /\ timeout_listeners' = [b \in Banks |-> IF b \in E THEN timeout_listeners[b] - 1
                                                ELSE timeout_listeners[b]]
       /\ cleaner' = [pc |-> "triggering", expired |-> E]
  /\ UNCHANGED <<scheduler, inners, banking_stage, bankVars, forks>>

Kept(b) == bank[b].refs # {}

(* A listener runs in a thread, which keeps the bank while it does.        *)
UpgradeBank(b, thread) ==
  /\ Kept(b)
  /\ \A c \in Banks : {<<thread, "write">>, <<thread, "drop">>} \cap bank[c].refs = {}
  /\ bank' = [bank EXCEPT ![b].refs = @ \cup {<<thread, "write">>}]
  /\ UNCHANGED <<scheduler, inners>>

(* Mutant: the result of the session is not kept with the bank.            *)
ForgetResult(b) == [bank[b] EXCEPT !.status = "Stale", !.id = NoId, !.result = "Ok"]

StaleBank(b) == [bank[b] EXCEPT !.status = "Stale", !.id = NoId, !.result = TerminationResult(b)]

(* Mutant: a session to which nothing was sent is left alone.              *)
SpareUnused(b, thread) ==
  LET refs == (bank[b].refs \ {<<thread, "write">>}) \cup {<<thread, "drop">>}
      used == Status(b) = "Active" /\ Installed(b).sent
  IN  /\ <<thread, "write">> \in bank[b].refs
      /\ \/ /\ used
            /\ return_scheduler(bank[b].id, into_inner(Installed(b)))
            /\ bank' = [bank EXCEPT ![b] = [StaleBank(b) EXCEPT !.refs = refs]]
         \/ /\ ~used
            /\ bank' = [bank EXCEPT ![b].refs = refs]
            /\ UNCHANGED <<scheduler, inners>>

(* maybe_transition_from_active_to_stale under the write lock.             *)
TimeOut(b, thread) ==
  LET refs == (bank[b].refs \ {<<thread, "write">>}) \cup {<<thread, "drop">>}
  IN  /\ <<thread, "write">> \in bank[b].refs
      /\ \/ /\ Status(b) = "Active"
            /\ return_scheduler(bank[b].id, into_inner(Installed(b)))
            /\ bank' = [bank EXCEPT ![b] = [StaleBank(b) EXCEPT !.refs = refs]]
         \/ /\ Status(b) # "Active"
            /\ bank' = [bank EXCEPT ![b].refs = refs]
            /\ UNCHANGED <<scheduler, inners>>

(* The listener is done: with the bank, or because the bank is gone.       *)
Triggered(b, thread) ==
  \/ <<thread, "drop">> \in bank[b].refs /\ Release(b, <<thread, "drop">>)
  \/ ~Kept(b) /\ UNCHANGED <<scheduler, inners, bank>>

TriggerExpired ==
  /\ cleaner.pc = "triggering"
  /\ \E b \in cleaner.expired :
       \/ (UpgradeBank(b, "cleaner") \/ TimeOut(b, "cleaner")) /\ UNCHANGED cleaner
       \/ Triggered(b, "cleaner") /\ cleaner' = [cleaner EXCEPT !.expired = @ \ {b}]
  /\ UNCHANGED <<timeout_listeners, banking_stage, replay, failed, outcome, forks>>

RoundDone ==
  /\ cleaner.pc = "triggering" /\ cleaner.expired = {}
  /\ CleanerGoes("asleep")
  /\ UNCHANGED <<scheduler, inners, timeout_listeners, banking_stage, bankVars, forks>>

-----------------------------------------------------------------------------
(* BankForks::drop and uninstalled_from_bank_forks *)

ForksGo(pc) == forks' = [forks EXCEPT !.pc = pc]

(* Nobody replays any more: every other owner of the bank forks is gone.   *)
DropForks ==
  /\ forks.pc = "alive"
  /\ \A b \in Banks : replay[b] \notin {"inserted", "stale", "reactivated", "failing"}
  /\ ForksGo("banks")
  /\ UNCHANGED <<scheduler, inners, timeout_listeners, banking_stage, bankVars, cleaner>>

TakeListeners ==
  /\ forks.pc = "banks"
  /\ \A b \in Banks : Keeps("forks") \notin bank[b].refs
  /\ forks' = [pc |-> "listeners", listeners |-> {b \in Banks : timeout_listeners[b] > 0}]
  /\ timeout_listeners' = [b \in Banks |-> 0]
  /\ UNCHANGED <<scheduler, inners, banking_stage, bankVars, cleaner>>

TriggerAll ==
  /\ forks.pc = "listeners"
  /\ \E b \in forks.listeners :
       \/ (UpgradeBank(b, "uninstaller") \/ TimeOut(b, "uninstaller")) /\ UNCHANGED forks
       \/ Triggered(b, "uninstaller") /\ forks' = [forks EXCEPT !.listeners = @ \ {b}]
  /\ UNCHANGED <<timeout_listeners, banking_stage, replay, failed, outcome, cleaner>>

TakeInners ==
  /\ forks.pc = "listeners" /\ forks.listeners = {}
  /\ DropSchedulers({scheduler_inners[k] : k \in DOMAIN scheduler_inners})
  /\ scheduler_inners' = <<>>
  /\ ForksGo("production")
  /\ UNCHANGED <<block_production_scheduler_inner, trashed_scheduler_inners, timeout_listeners,
                 banking_stage, bankVars, cleaner>>

TakeProduction ==
  /\ forks.pc = "production"
  /\ DropSchedulers(IF block_production_scheduler_inner.kind = "Pooled"
                    THEN {block_production_scheduler_inner.id} ELSE {})
  /\ block_production_scheduler_inner' = NotSpawned
  /\ ForksGo("trash")
  /\ UNCHANGED <<scheduler_inners, trashed_scheduler_inners, timeout_listeners, banking_stage,
                 bankVars, cleaner>>

TakeTrash ==
  /\ forks.pc = "trash"
  /\ DropSchedulers(trashed_scheduler_inners)
  /\ trashed_scheduler_inners' = {}
  /\ ForksGo("waiting")
  /\ UNCHANGED <<scheduler_inners, block_production_scheduler_inner, timeout_listeners,
                 banking_stage, bankVars, cleaner>>

(* The other references to the pool: every scheduler has one, and so have  *)
(* a stale bank and a cleaner at work.                                     *)
PoolIsShared ==
  \/ \E i \in Ids : Alive(i)
  \/ \E b \in Banks : Status(b) = "Stale"
  \/ cleaner.pc \notin {"asleep", "exited"}

UnwrapPool ==
  /\ forks.pc = "waiting" /\ ~PoolIsShared
  /\ ForksGo("joining")
  /\ UNCHANGED <<scheduler, inners, timeout_listeners, banking_stage, bankVars, cleaner>>

JoinCleaner ==
  /\ forks.pc = "joining" /\ cleaner.pc = "exited"
  /\ ForksGo("gone")
  /\ UNCHANGED <<scheduler, inners, timeout_listeners, banking_stage, bankVars, cleaner>>

-----------------------------------------------------------------------------
ReplayStep(b) ==
  \/ Insert(b) \/ Share(b) \/ Schedule(b) \/ Reactivate(b) \/ RegisterAndSend(b)
  \/ RetrieveError(b) \/ RegisterLastTick(b) \/ Complete(b)

CleanerStep ==
  \/ CleanerWakes \/ CleanIdle(FALSE) \/ WatchBankingStage \/ EmptyTrash \/ ExpireListeners({})
  \/ TriggerExpired \/ RoundDone

ForksStep ==
  \/ DropForks \/ TakeListeners \/ TriggerAll \/ TakeInners \/ TakeProduction \/ TakeTrash
  \/ UnwrapPool \/ JoinCleaner

Next ==
  \/ \E b \in Banks : ReplayStep(b) \/ Abort(b) \/ \E o \in {"forks", "poh"} : DropReference(b, o)
  \/ \E i \in Ids : Overgrow(i)
  \/ register_banking_stage
  \/ CleanerStep
  \/ ForksStep

Spec == Init /\ [][Next]_vars

(* Threads run, deadlines pass, whoever else keeps a bank lets it go, and  *)
(* a retry every 100 ms meets the 10 s the cleaner sleeps.                 *)
FairSpec ==
  /\ Spec
  /\ WF_vars(CleanerStep)
  /\ SF_vars(CleanIdle(TRUE))
  /\ \A b \in VerifiedBanks : SF_vars(ExpireListeners({b}))
  /\ \A b \in Banks : WF_vars(Share(b) \/ Reactivate(b) \/ RegisterAndSend(b) \/ RetrieveError(b))
  /\ \A b \in Banks : WF_vars(DropReference(b, "poh"))
  /\ \A b \in Banks : WF_vars(forks.pc = "banks" /\ DropReference(b, "forks"))
  /\ WF_vars(ForksStep /\ forks.pc # "alive")
  /\ SF_vars(UnwrapPool)
=============================================================================
