--------------------------- MODULE PoolProperties ---------------------------
(***************************************************************************)
(* What the scheduler pool promises its banks.                             *)
(***************************************************************************)
EXTENDS SchedulerPool

Threads == {"cleaner", "uninstaller"}

(* A block is found invalid exactly when one of its own transactions has   *)
(* failed, whichever schedulers its transactions went through: through     *)
(* timeouts, resumed sessions, the pause at the last tick and schedulers   *)
(* that other banks have used before (maybe_transition_from_active_to_     *)
(* stale, take_resumed_scheduler, wait_for_scheduler_termination).         *)
OutcomeIsOwn ==
  \A b \in Banks :
    /\ outcome[b] # "none" => (outcome[b] = "Err" <=> b \in failed)
    /\ replay[b] = "dead" => b \in failed
    /\ replay[b] = "ticked" => Status(b) # "Unavailable"

Owners(i) ==
  {<<"pool", k>> : k \in {k \in DOMAIN scheduler_inners : scheduler_inners[k] = i}}
  \cup {<<"production", 0>> : p \in {block_production_scheduler_inner} \cap {Pooled(i)}}
  \cup {<<"trash", 0>> : t \in trashed_scheduler_inners \cap {i}}
  \cup {<<"bank", b>> : b \in {b \in Banks : bank[b].id = i}}

(* A live scheduler has one owner, a bank or one list of the pool, and     *)
(* none is lost; while the bank forks live, production has a scheduler to  *)
(* take that can start a session or a bank has taken it ("runtime          *)
(* invariant established in register_banking_stage()"), also when it is    *)
(* trashed and respawned.                                                  *)
SchedulersOwnedOnce ==
  /\ \A i \in Ids : Cardinality(Owners(i)) = (IF Alive(i) THEN 1 ELSE 0)
  /\ banking_stage # "unregistered" /\ forks.pc = "alive" =>
       \/ /\ block_production_scheduler_inner.kind = "Pooled"
          /\ CanStartSession(scheduler[block_production_scheduler_inner.id])
       \/ \E b \in ProducedBanks :
            Status(b) = "Active" /\ block_production_scheduler_inner = Taken(bank[b].id)

(* No assertion or unreachable!() of the pool and of the bank's wrapper    *)
(* can fail: a stale bank is stale with Ok until it is reactivated and     *)
(* active until its transactions are sent, an error is there when it is    *)
(* retrieved, and a verification scheduler that is pooled can start the    *)
(* next session.                                                           *)
AssertionsHold ==
  /\ \A b \in Banks :
       /\ replay[b] = "stale" => Status(b) = "Stale" /\ bank[b].result = "Ok"
       /\ replay[b] = "reactivated" => Status(b) = "Active"
       /\ replay[b] = "failing" => IF Status(b) = "Active" THEN Installed(b).aborted
                                   ELSE Status(b) = "Stale" /\ bank[b].result = "Err"
       /\ replay[b] \in {"inserted", "idle"} => Status(b) # "Unavailable"
  /\ \A k \in DOMAIN scheduler_inners : CanStartSession(scheduler[scheduler_inners[k]])
  /\ \A i \in trashed_scheduler_inners : scheduler[i].result = "none" /\ (scheduler[i].joined <=> scheduler[i].aborted)

Pending(b) ==
  timeout_listeners[b]
  + Cardinality({t \in Threads : \/ <<t, "write">> \in bank[b].refs
                                 \/ /\ b \in (IF t = "cleaner" THEN cleaner.expired ELSE forks.listeners)
                                    /\ <<t, "drop">> \notin bank[b].refs})

(* An active bank that is verified has exactly one timeout to come, except *)
(* between its reactivation and the read lock under which it registers one *)
(* (with_active_scheduler), so no scheduler stays with an abandoned bank.  *)
ActiveBanksAreTimed ==
  \A b \in VerifiedBanks : Status(b) = "Active" =>
    Pending(b) = (IF replay[b] = "reactivated" THEN 0 ELSE 1)

(* Whatever happens to a bank that is verified, also if nobody ever sends  *)
(* to it or completes it again, it does not keep its scheduler: a timeout  *)
(* takes it away (trigger, maybe_transition_from_active_to_stale), each    *)
(* time the bank has resumed with another one.                             *)
AbandonedBanksGoStale ==
  \A b \in VerifiedBanks : Status(b) = "Active" ~> Status(b) # "Active"

(* uninstalled_from_bank_forks returns: no live scheduler, stale bank or   *)
(* cleaner round keeps the pool for ever, also when the last bank goes     *)
(* after the pool has been emptied.                                        *)
UninstallReturns == forks.pc = "banks" ~> forks.pc = "gone"
=============================================================================
