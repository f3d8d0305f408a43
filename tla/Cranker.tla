------------------------------ MODULE Cranker ------------------------------
(***************************************************************************)
(* The restaking cranker: clients that poll the cluster for ever and drive *)
(* the epoch update of a vault with transactions over an unreliable        *)
(* network.  Every RPC call is a step of its own, so that what a client    *)
(* holds may be stale when it is used: the slot is the finalized one, the  *)
(* vault, its operators and its tracker are read one after the other, and  *)
(* a transaction may land long after its sender gave up on it.             *)
(*                                                                         *)
(* A client works on several vaults in independent tasks; here it is the   *)
(* task for one vault.  A failed RPC call ends the task (and, in the main  *)
(* loop, the process, which is then restarted): both are Fail.             *)
(***************************************************************************)
EXTENDS UpdateProtocol, FiniteSets

CONSTANTS
  Crankers,
  MaxRetries,         \* MAX_RETRIES, 10 in the code
  MaxInflight         \* bound on the transactions in flight

VARIABLES
  finalized,          \* the slot get_slot returns
  job,                \* the local state of each client's loop
  inflight            \* transactions sent that may still land

crankerVars == <<finalized, job, inflight>>
allVars     == <<vars, crankerVars>>

ASSUME CrankerAssumption == MaxRetries \in Nat \ {0} /\ MaxInflight \in Nat \ {0}

(* The state at the top of the loop.                                       *)
Idle == [pc |-> "slot", slot |-> 0, operators |-> <<>>, seen |-> NotStarted,
         unchecked |-> <<>>, plan |-> <<>>, batch |-> <<>>, retries |-> 0,
         landed |-> FALSE]

EpochOf(c) == get_epoch(job[c].slot)

InitCrankers ==
  /\ Init
  /\ finalized = InitSlot
  /\ job = [c \in Crankers |-> Idle]
  /\ inflight = {}

Goto(c, new_job) == job' = [job EXCEPT ![c] = new_job]

-----------------------------------------------------------------------------
(* Reads *)

GetSlot(c) ==
  /\ job[c].pc = "slot"
  /\ Goto(c, [Idle EXCEPT !.pc = "vaults", !.slot = finalized])
  /\ UNCHANGED <<vars, finalized, inflight>>

(* A vault that needs no update at the slot read is left alone.            *)
GetVaults(c) ==
  /\ job[c].pc = "vaults"
  /\ Goto(c, IF get_epoch(last_full_state_update_slot) < EpochOf(c)
             THEN [job[c] EXCEPT !.pc = "delegations"] ELSE Idle)
  /\ UNCHANGED <<vars, finalized, inflight>>

(* All operators of the vault, sorted by the index of the delegation.      *)
SortedOperators == [k \in 1 .. operator_count |-> k - 1]

GetDelegations(c) ==
  /\ job[c].pc = "delegations"
  /\ Goto(c, [job[c] EXCEPT !.pc = "tracker", !.operators = SortedOperators])
  /\ UNCHANGED <<vars, finalized, inflight>>

-----------------------------------------------------------------------------
(* Transactions *)

(* The transaction a client that waits for a confirmation has sent.  Two   *)
(* with the same instructions are not told apart.                          *)
Transaction(c, j) == [cranker |-> c, kind |-> j.pc, epoch |-> get_epoch(j.slot),
                      batch |-> j.batch]

(* A transaction beyond the bound is lost at once.                         *)
Send(c, new_job) ==
  LET more == inflight \cup {Transaction(c, new_job)}
  IN  /\ Goto(c, new_job)
      /\ inflight' = IF Cardinality(more) <= MaxInflight THEN more ELSE inflight

Waiting == {"initialize", "send", "close"}

(* Any error of the read, not only a missing account, is taken to mean     *)
(* that the tracker has to be initialized.                                 *)
GetTracker(c) ==
  /\ job[c].pc = "tracker"
  /\ \/ /\ EpochOf(c) \in DOMAIN trackers
        /\ Goto(c, [job[c] EXCEPT !.pc = "crank"])
        /\ UNCHANGED inflight
     \/ Send(c, [job[c] EXCEPT !.pc = "initialize"])
  /\ UNCHANGED <<vars, finalized>>

Execute(tx) ==
  \/ tx.kind = "initialize" /\ StartUpdate(tx.epoch)
  \/ tx.kind = "send" /\ Crank(tx.epoch, tx.batch)
  \/ tx.kind = "close" /\ Close(tx.epoch)

(* A transaction lands and succeeds.  It stays in flight: its sender may   *)
(* have sent it several times.                                             *)
Land(tx) ==
  LET c == tx.cranker
  IN  /\ Execute(tx)
      /\ Goto(c, [job[c] EXCEPT !.landed =
                    @ \/ (job[c].pc \in Waiting /\ tx = Transaction(c, job[c]))])
      /\ UNCHANGED <<finalized, inflight>>

(* It is dropped, fails, or its blockhash expires.                         *)
Lose(tx) ==
  /\ inflight' = inflight \ {tx}
  /\ UNCHANGED <<vars, finalized, job>>

(* The next transaction of the plan holds as many of its instructions as   *)
(* fit; the sizes are left open.                                           *)
SendSome(c, plan) ==
  \E k \in 1 .. Len(plan) :
    Send(c, [job[c] EXCEPT !.pc = "send", !.plan = SubSeq(plan, k + 1, Len(plan)),
                           !.batch = SubSeq(plan, 1, k), !.unchecked = <<>>,
                           !.retries = 0, !.landed = FALSE])

Confirmed(c) ==
  LET done == [job[c] EXCEPT !.batch = <<>>, !.retries = 0, !.landed = FALSE]
  IN  /\ job[c].pc \in Waiting
      /\ job[c].landed
      /\ \/ /\ job[c].pc = "initialize"
            /\ Goto(c, [done EXCEPT !.pc = "crank"])
            /\ UNCHANGED inflight
         \/ /\ job[c].pc = "send" /\ job[c].plan # <<>>
            /\ SendSome(c, job[c].plan)
         \/ /\ job[c].pc = "send" /\ job[c].plan = <<>>
            /\ Goto(c, [done EXCEPT !.pc = "recheck"])
            /\ UNCHANGED inflight
         \/ /\ job[c].pc = "close"
            /\ Goto(c, Idle)
            /\ UNCHANGED inflight
      /\ UNCHANGED <<vars, finalized>>

(* The call reports an error, whatever became of the transaction.  A crank *)
(* transaction is sent again as it is and granted one attempt more; the    *)
(* others are signed anew, so that an earlier success is not theirs.       *)
Unconfirmed(c) ==
  LET retries == job[c].retries + 1
      again   == IF job[c].pc = "send" THEN retries <= MaxRetries
                 ELSE retries < MaxRetries
  IN  /\ job[c].pc \in Waiting
      /\ IF again
         THEN Send(c, [job[c] EXCEPT !.retries = retries,
                                     !.landed = @ /\ job[c].pc = "send"])
         ELSE Goto(c, Idle) /\ UNCHANGED inflight
      /\ UNCHANGED <<vars, finalized>>

-----------------------------------------------------------------------------
(* Cranking *)

(* Mutant: the list always runs to its end and wraps, past the rotation's. *)
AlwaysWrap(ops, start, end) ==
  SubSeq(ops, start + 1, Len(ops)) \o SubSeq(ops, 1, end)

(* Mutant: the part of the rotation after the wrap is left out.            *)
NeverWrap(ops, start, end) ==
  IF start < end THEN SubSeq(ops, start + 1, end) ELSE SubSeq(ops, start + 1, Len(ops))

(* From the operator cranked last, or the epoch's first, to the end of the *)
(* epoch's rotation.                                                       *)
OperatorsIter(ops, start, end) ==
  IF start < end THEN SubSeq(ops, start + 1, end)
  ELSE SubSeq(ops, start + 1, Len(ops)) \o SubSeq(ops, 1, end)

AllUpdated(c) ==
  \/ job[c].operators = <<>>
  \/ all_operators_updated(EpochOf(c), trackers[EpochOf(c)], Len(job[c].operators))

ReadTrackerForCrank(c) ==
  LET ops == job[c].operators
      e   == EpochOf(c)
      end == e % Len(ops)
      start == IF trackers[e] = NotStarted THEN end ELSE trackers[e]
  IN  /\ job[c].pc = "crank"
      /\ Goto(c, IF e \notin DOMAIN trackers THEN Idle
                 ELSE IF AllUpdated(c) THEN [job[c] EXCEPT !.pc = "recheck"]
                 ELSE [job[c] EXCEPT !.pc = "check", !.seen = trackers[e],
                         !.unchecked = OperatorsIter(ops, start, end)])
      /\ UNCHANGED <<vars, finalized, inflight>>

(* One read per operator; those updated already get no instruction.        *)
CheckOperator(c) ==
  LET i == Head(job[c].unchecked)
  IN  /\ job[c].pc = "check" /\ job[c].unchecked # <<>>
      /\ Goto(c, [job[c] EXCEPT !.unchecked = Tail(@),
                    !.plan = IF check_is_already_updated(i, job[c].slot) THEN @
                             ELSE Append(@, i)])
      /\ UNCHANGED <<vars, finalized, inflight>>

StartSending(c) ==
  /\ job[c].pc = "check" /\ job[c].unchecked = <<>>
  /\ \/ /\ job[c].plan = <<>>
        /\ Goto(c, [job[c] EXCEPT !.pc = "recheck"])
        /\ UNCHANGED inflight
     \/ SendSome(c, job[c].plan)
  /\ UNCHANGED <<vars, finalized>>

ReadTrackerForClose(c) ==
  /\ job[c].pc = "recheck"
  /\ IF EpochOf(c) \in DOMAIN trackers /\ AllUpdated(c)
     THEN Send(c, [job[c] EXCEPT !.pc = "close"])
     ELSE Goto(c, Idle) /\ UNCHANGED inflight
  /\ UNCHANGED <<vars, finalized>>

Fail(c) ==
  /\ job[c].pc # "slot"
  /\ Goto(c, Idle)
  /\ UNCHANGED <<vars, finalized, inflight>>

-----------------------------------------------------------------------------
Finalize ==
  /\ finalized < slot
  /\ finalized' = finalized + 1
  /\ UNCHANGED <<vars, job, inflight>>

(* Anyone may send the instructions of an update.                          *)
Environment == Next /\ UNCHANGED crankerVars

CrankerStep(c) ==
  \/ GetSlot(c) \/ GetVaults(c) \/ GetDelegations(c) \/ GetTracker(c)
  \/ ReadTrackerForCrank(c) \/ CheckOperator(c) \/ StartSending(c)
  \/ ReadTrackerForClose(c) \/ Confirmed(c) \/ Unconfirmed(c)

NextCrankers ==
  \/ \E c \in Crankers : CrankerStep(c) \/ Fail(c)
  \/ \E tx \in inflight : Land(tx)
  \/ \E tx \in inflight : Lose(tx)
  \/ Finalize
  \/ Environment

CrankerSpec == InitCrankers /\ [][NextCrankers]_allVars

-----------------------------------------------------------------------------
LandCurrent(c) ==
  \E tx \in inflight : job[c].pc \in Waiting /\ tx = Transaction(c, job[c]) /\ Land(tx)

(* The loop never ends, a call always returns and RPC calls do not fail    *)
(* for ever; a transaction sent again and again lands, one that never      *)
(* lands expires, and the cluster finalizes slots and moves on.            *)
CrankerFairness ==
  /\ \A c \in Crankers :
       /\ <>[][Fail(c) => CrankerStep(c)]_allVars
       /\ WF_allVars(CrankerStep(c))
       /\ SF_allVars(GetTracker(c) /\ job'[c].pc = "crank")
       /\ SF_allVars(LandCurrent(c))
  /\ \A kind \in Waiting, s \in InitSlot .. MaxSlot :
       WF_allVars(\E tx \in inflight : tx.kind = kind /\ tx.epoch = get_epoch(s) /\ Lose(tx))
  /\ WF_allVars(Finalize)
  /\ WF_allVars(Tick /\ UNCHANGED crankerVars)

FairCrankerSpec == CrankerSpec /\ CrankerFairness
=============================================================================
