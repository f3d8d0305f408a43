--------------------------- MODULE CrankerProofs ---------------------------
(***************************************************************************)
(* The list of operators a client works from is complete while the update  *)
(* it drives is running, for any number of clients, operators and epochs.  *)
(***************************************************************************)
EXTENDS CrankerProperties, TLAPS

Fields == {"pc", "slot", "operators", "seen", "unchecked", "plan", "batch",
           "retries", "landed"}

FullEpoch == get_epoch(last_full_state_update_slot)

(* Nothing a client knows of the clock, and no update, is in the future.   *)
Clocks ==
  /\ slot \in Nat
  /\ operator_count \in Nat
  /\ finalized \in Nat /\ finalized <= slot
  /\ last_full_state_update_slot \in Nat /\ last_full_state_update_slot <= slot
  /\ DOMAIN job = Crankers
  /\ \A c \in Crankers :
       DOMAIN job[c] = Fields /\ job[c].slot \in Nat /\ job[c].slot <= slot

(* The vault has no tracker of the current epoch once it is up to date.    *)
TrackersOfThePast ==
  \A e \in DOMAIN trackers :
    e \in Nat /\ e <= CurrentEpoch /\ (e = CurrentEpoch => FullEpoch < e)

(* A list is complete, or the epoch it was read for has been updated.      *)
ListsComplete ==
  \A c \in Crankers :
    Driving(c) => FullEpoch >= EpochOf(c) \/ job[c].operators = SortedOperators

SnapshotInv == Clocks /\ TrackersOfThePast /\ ListsComplete

-----------------------------------------------------------------------------
(* Epochs are natural numbers that grow with the slot.                     *)
LEMMA EpochMonotone ==
  ASSUME NEW s \in Nat, NEW t \in Nat, s <= t
  PROVE  get_epoch(s) \in Nat /\ get_epoch(t) \in Nat /\ get_epoch(s) <= get_epoch(t)
  BY EpochLengthAssumption, Z3 DEF get_epoch

(* What a step may do to the local state of one client.                    *)
JobStep(d) ==
  \/ job'[d].pc = "slot" /\ job'[d].slot = 0
  \/ job'[d].pc = "vaults" /\ job'[d].slot = finalized
  \/ job'[d].pc = "delegations" /\ job'[d].slot = job[d].slot
  \/ job'[d].operators = SortedOperators /\ job'[d].slot = job[d].slot
  \/ /\ Driving(d) /\ job'[d].operators = job[d].operators
     /\ job'[d].slot = job[d].slot

Jobs ==
  /\ DOMAIN job' = Crankers
  /\ \A d \in Crankers : DOMAIN job'[d] = Fields /\ (JobStep(d) \/ job'[d] = job[d])

(* The local state of a client that has nothing to do.                     *)
LEMMA IdleFields == DOMAIN Idle = Fields /\ Idle.pc = "slot" /\ Idle.slot = 0
  BY DEF Idle, Fields

(* Every step of a client is a JobStep and leaves the vault alone.         *)
LEMMA ClientStep ==
  ASSUME SnapshotInv, NEW c \in Crankers,
         CrankerStep(c) \/ Fail(c)
  PROVE  Jobs /\ UNCHANGED <<vars, finalized>>
<1>. /\ DOMAIN job = Crankers /\ DOMAIN job[c] = Fields
     /\ \A d \in Crankers : DOMAIN job[d] = Fields
  BY DEF SnapshotInv, Clocks
<1>0. ASSUME NEW j, Goto(c, j), DOMAIN j = Fields,
             \/ j.pc = "slot" /\ j.slot = 0
             \/ j.pc = "vaults" /\ j.slot = finalized
             \/ j.pc = "delegations" /\ j.slot = job[c].slot
             \/ j.operators = SortedOperators /\ j.slot = job[c].slot
             \/ /\ Driving(c) /\ j.operators = job[c].operators
                /\ j.slot = job[c].slot
      PROVE  Jobs
  BY <1>0 DEF Goto, Jobs, JobStep
<1>i. ASSUME Goto(c, Idle) PROVE Jobs
  BY <1>0, <1>i, IdleFields
<1>1. CASE GetSlot(c)
  <2>. DEFINE j == [Idle EXCEPT !.pc = "vaults", !.slot = finalized]
  <2>1. DOMAIN j = Fields /\ j.pc = "vaults" /\ j.slot = finalized
    BY DEF Idle, Fields
  <2>. QED BY <1>0, <1>1, <2>1 DEF GetSlot
<1>2. CASE GetVaults(c)
  <2>. DEFINE j == [job[c] EXCEPT !.pc = "delegations"]
  <2>1. DOMAIN j = Fields /\ j.pc = "delegations" /\ j.slot = job[c].slot
    BY DEF Fields
  <2>2. Goto(c, j) \/ Goto(c, Idle)
    BY <1>2 DEF GetVaults
  <2>. QED BY <1>0, <1>i, <1>2, <2>1, <2>2 DEF GetVaults
<1>3. CASE GetDelegations(c)
  <2>. DEFINE j == [job[c] EXCEPT !.pc = "tracker", !.operators = SortedOperators]
  <2>1. DOMAIN j = Fields /\ j.operators = SortedOperators /\ j.slot = job[c].slot
    BY DEF Fields
  <2>. QED BY <1>0, <1>3, <2>1 DEF GetDelegations
<1>4. CASE GetTracker(c)
  <2>. DEFINE j == [job[c] EXCEPT !.pc = "crank"]
              k == [job[c] EXCEPT !.pc = "initialize"]
  <2>1. Driving(c)
    BY <1>4 DEF GetTracker, Driving
  <2>2. /\ DOMAIN j = Fields /\ j.operators = job[c].operators /\ j.slot = job[c].slot
        /\ DOMAIN k = Fields /\ k.operators = job[c].operators /\ k.slot = job[c].slot
    BY DEF Fields
  <2>3. Goto(c, j) \/ Goto(c, k)
    BY <1>4 DEF GetTracker, Send
  <2>. QED BY <1>0, <1>4, <2>1, <2>2, <2>3 DEF GetTracker
<1>5. CASE ReadTrackerForCrank(c)
  <2>1. Driving(c)
    BY <1>5 DEF ReadTrackerForCrank, Driving
  <2>2. PICK x, y : \/ Goto(c, Idle)
                    \/ Goto(c, [job[c] EXCEPT !.pc = "recheck"])
                    \/ Goto(c, [job[c] EXCEPT !.pc = "check", !.seen = x, !.unchecked = y])
    BY <1>5 DEF ReadTrackerForCrank
  <2>. DEFINE j == [job[c] EXCEPT !.pc = "recheck"]
              k == [job[c] EXCEPT !.pc = "check", !.seen = x, !.unchecked = y]
  <2>3. /\ DOMAIN j = Fields /\ j.operators = job[c].operators /\ j.slot = job[c].slot
        /\ DOMAIN k = Fields /\ k.operators = job[c].operators /\ k.slot = job[c].slot
    BY DEF Fields
  <2>. QED BY <1>0, <1>i, <1>5, <2>1, <2>2, <2>3 DEF ReadTrackerForCrank
<1>6. CASE CheckOperator(c)
  <2>1. Driving(c)
    BY <1>6 DEF CheckOperator, Driving
  <2>2. PICK x, y : Goto(c, [job[c] EXCEPT !.unchecked = x, !.plan = y])
    BY <1>6 DEF CheckOperator
  <2>. DEFINE j == [job[c] EXCEPT !.unchecked = x, !.plan = y]
  <2>3. DOMAIN j = Fields /\ j.operators = job[c].operators /\ j.slot = job[c].slot
    BY DEF Fields
  <2>. QED BY <1>0, <1>6, <2>1, <2>2, <2>3 DEF CheckOperator
<1>s. ASSUME NEW p, SendSome(c, p), Driving(c) PROVE Jobs
  <2>1. PICK k : Goto(c, [job[c] EXCEPT !.pc = "send", !.plan = SubSeq(p, k + 1, Len(p)),
                            !.batch = SubSeq(p, 1, k), !.unchecked = <<>>,
                            !.retries = 0, !.landed = FALSE])
    BY <1>s DEF SendSome, Send
  <2>. DEFINE j == [job[c] EXCEPT !.pc = "send", !.plan = SubSeq(p, k + 1, Len(p)),
                      !.batch = SubSeq(p, 1, k), !.unchecked = <<>>,
                      !.retries = 0, !.landed = FALSE]
  <2>2. DOMAIN j = Fields /\ j.operators = job[c].operators /\ j.slot = job[c].slot
    BY DEF Fields
  <2>. QED BY <1>0, <1>s, <2>1, <2>2
<1>7. CASE StartSending(c)
  <2>1. Driving(c)
    BY <1>7 DEF StartSending, Driving
  <2>. DEFINE j == [job[c] EXCEPT !.pc = "recheck"]
  <2>2. DOMAIN j = Fields /\ j.operators = job[c].operators /\ j.slot = job[c].slot
    BY DEF Fields
  <2>3. Goto(c, j) \/ SendSome(c, job[c].plan)
    BY <1>7 DEF StartSending
  <2>. QED BY <1>0, <1>s, <1>7, <2>1, <2>2, <2>3 DEF StartSending
<1>8. CASE ReadTrackerForClose(c)
  <2>1. Driving(c)
    BY <1>8 DEF ReadTrackerForClose, Driving
  <2>. DEFINE j == [job[c] EXCEPT !.pc = "close"]
  <2>2. DOMAIN j = Fields /\ j.operators = job[c].operators /\ j.slot = job[c].slot
    BY DEF Fields
  <2>3. Goto(c, j) \/ Goto(c, Idle)
    BY <1>8 DEF ReadTrackerForClose, Send
  <2>. QED BY <1>0, <1>i, <1>8, <2>1, <2>2, <2>3 DEF ReadTrackerForClose
<1>9. CASE Confirmed(c)
  <2>1. Driving(c)
    BY <1>9 DEF Confirmed, Driving, Waiting
  <2>. DEFINE done == [job[c] EXCEPT !.batch = <<>>, !.retries = 0, !.landed = FALSE]
              j == [done EXCEPT !.pc = "crank"]
              k == [done EXCEPT !.pc = "recheck"]
  <2>2. DOMAIN done = Fields /\ done.operators = job[c].operators /\ done.slot = job[c].slot
    BY DEF Fields
  <2>3. /\ DOMAIN j = Fields /\ j.operators = job[c].operators /\ j.slot = job[c].slot
        /\ DOMAIN k = Fields /\ k.operators = job[c].operators /\ k.slot = job[c].slot
    BY <2>2 DEF Fields
  <2>4. Goto(c, j) \/ Goto(c, k) \/ Goto(c, Idle) \/ SendSome(c, job[c].plan)
    BY <1>9 DEF Confirmed
  <2>. QED BY <1>0, <1>i, <1>s, <1>9, <2>1, <2>3, <2>4 DEF Confirmed
<1>10. CASE Unconfirmed(c)
  <2>1. Driving(c)
    BY <1>10 DEF Unconfirmed, Driving, Waiting
  <2>2. PICK x, y : \/ Goto(c, Idle)
                    \/ Goto(c, [job[c] EXCEPT !.retries = x, !.landed = y])
    BY <1>10 DEF Unconfirmed, Send
  <2>. DEFINE j == [job[c] EXCEPT !.retries = x, !.landed = y]
  <2>3. DOMAIN j = Fields /\ j.operators = job[c].operators /\ j.slot = job[c].slot
    BY DEF Fields
  <2>. QED BY <1>0, <1>i, <1>10, <2>1, <2>2, <2>3 DEF Unconfirmed
<1>11. CASE Fail(c)
  BY <1>i, <1>11 DEF Fail
<1>. QED BY <1>1, <1>2, <1>3, <1>4, <1>5, <1>6, <1>7, <1>8, <1>9, <1>10, <1>11 DEF CrankerStep

(* A step of the clients alone preserves the invariant.                    *)
LEMMA JobsPreserve ==
  ASSUME SnapshotInv, Jobs, UNCHANGED <<vars, finalized>>
  PROVE  SnapshotInv'
<1>. USE DEF vars
<1>1. ASSUME NEW d \in Crankers
      PROVE  job'[d].slot \in Nat /\ job'[d].slot <= slot
  BY <1>1 DEF Jobs, JobStep, SnapshotInv, Clocks
<1>2. Clocks'
  BY <1>1 DEF SnapshotInv, Clocks, Jobs
<1>3. TrackersOfThePast'
  BY DEF SnapshotInv, TrackersOfThePast, CurrentEpoch, FullEpoch, get_epoch
<1>4. ListsComplete'
  <2>. SUFFICES ASSUME NEW d \in Crankers, Driving(d)'
                PROVE  FullEpoch' >= EpochOf(d)' \/ job'[d].operators = SortedOperators'
    BY DEF ListsComplete
  <2>1. FullEpoch' = FullEpoch /\ SortedOperators' = SortedOperators
    BY DEF FullEpoch, get_epoch, SortedOperators
  <2>2. CASE job'[d] = job[d]
    BY <2>1, <2>2 DEF SnapshotInv, ListsComplete, Driving, EpochOf, get_epoch
  <2>3. CASE job'[d].operators = SortedOperators
    BY <2>1, <2>3
  <2>4. CASE Driving(d) /\ job'[d].operators = job[d].operators /\ job'[d].slot = job[d].slot
    BY <2>1, <2>4 DEF SnapshotInv, ListsComplete, EpochOf, get_epoch
  <2>. QED BY <2>2, <2>3, <2>4 DEF Jobs, JobStep, Driving
<1>. QED BY <1>2, <1>3, <1>4 DEF SnapshotInv

(* What the clients hold is preserved by any step of the vault that takes  *)
(* neither the clock nor the last full update back and lets an operator    *)
(* join only when the vault is up to date.                                 *)
LEMMA VaultPreserves ==
  ASSUME SnapshotInv,
         slot' \in Nat, slot <= slot',
         finalized' \in Nat, finalized' <= slot',
         operator_count' \in Nat,
         last_full_state_update_slot' \in {last_full_state_update_slot, slot'},
         \/ operator_count' = operator_count
         \/ operator_count' \in Nat /\ ~is_update_needed /\ slot' = slot,
         DOMAIN job' = Crankers,
         \A d \in Crankers : /\ DOMAIN job'[d] = Fields
                             /\ job'[d].pc = job[d].pc
                             /\ job'[d].slot = job[d].slot
                             /\ job'[d].operators = job[d].operators,
         TrackersOfThePast'
  PROVE  SnapshotInv'
<1>1. Clocks'
  BY DEF SnapshotInv, Clocks
<1>2. /\ FullEpoch \in Nat /\ FullEpoch' \in Nat /\ FullEpoch <= FullEpoch'
      /\ CurrentEpoch \in Nat /\ CurrentEpoch' \in Nat /\ CurrentEpoch <= CurrentEpoch'
  <2>1. last_full_state_update_slot' \in Nat
        /\ last_full_state_update_slot <= last_full_state_update_slot'
    BY DEF SnapshotInv, Clocks
  <2>2. FullEpoch \in Nat /\ FullEpoch' \in Nat /\ FullEpoch <= FullEpoch'
    BY <2>1, EpochMonotone DEF SnapshotInv, Clocks, FullEpoch
  <2>. QED BY <2>2, EpochMonotone DEF SnapshotInv, Clocks, CurrentEpoch
<1>3. ListsComplete'
  <2>. SUFFICES ASSUME NEW d \in Crankers, Driving(d)'
                PROVE  FullEpoch' >= EpochOf(d)' \/ job'[d].operators = SortedOperators'
    BY DEF ListsComplete
  <2>1. EpochOf(d)' = EpochOf(d) /\ Driving(d)
    BY DEF EpochOf, Driving, get_epoch
  <2>2. EpochOf(d) \in Nat /\ EpochOf(d) <= CurrentEpoch
    BY EpochMonotone DEF SnapshotInv, Clocks, EpochOf, CurrentEpoch
  <2>3. FullEpoch >= EpochOf(d) \/ job[d].operators = SortedOperators
    BY <2>1 DEF SnapshotInv, ListsComplete
  <2>4. CASE operator_count' = operator_count
    BY <1>2, <2>1, <2>2, <2>3, <2>4 DEF SortedOperators
  <2>5. CASE ~is_update_needed
    <3>1. FullEpoch >= CurrentEpoch
      BY <1>2, <2>5 DEF is_update_needed, FullEpoch
    <3>. QED BY <1>2, <2>1, <2>2, <3>1
  <2>. QED BY <2>4, <2>5
<1>. QED BY <1>1, <1>3 DEF SnapshotInv

(* The three instructions of an update and the vault's other steps.        *)
ProtocolStep ==
  \/ \E e : StartUpdate(e)
  \/ \E e, batch : Crank(e, batch)
  \/ \E e : Close(e)
  \/ AddOperator
  \/ \E p \in PauseValues : SetIsPaused(p)
  \/ Tick

LEMMA ProtocolPreserves ==
  ASSUME SnapshotInv, ProtocolStep, UNCHANGED finalized,
         DOMAIN job' = Crankers,
         \A d \in Crankers : /\ DOMAIN job'[d] = Fields
                             /\ job'[d].pc = job[d].pc
                             /\ job'[d].slot = job[d].slot
                             /\ job'[d].operators = job[d].operators
  PROVE  SnapshotInv'
<1>0. /\ slot \in Nat /\ operator_count \in Nat
      /\ finalized \in Nat /\ finalized <= slot
      /\ last_full_state_update_slot \in Nat /\ last_full_state_update_slot <= slot
      /\ TrackersOfThePast
  BY DEF SnapshotInv, Clocks
<1>a. CurrentEpoch \in Nat /\ FullEpoch \in Nat
  BY <1>0, EpochMonotone DEF CurrentEpoch, FullEpoch
<1>1. ASSUME NEW e, StartUpdate(e) PROVE SnapshotInv'
  <2>1. /\ UNCHANGED <<slot, operator_count, last_full_state_update_slot>>
        /\ CurrentEpoch' = CurrentEpoch /\ FullEpoch' = FullEpoch
    BY <1>1 DEF StartUpdate, CurrentEpoch, FullEpoch, get_epoch
  <2>2. e = CurrentEpoch /\ FullEpoch < e
    BY <1>1 DEF StartUpdate, is_update_needed, FullEpoch
  <2>3. DOMAIN trackers' = DOMAIN trackers \cup {e}
    BY <1>1 DEF StartUpdate
  <2>4. TrackersOfThePast'
    BY <1>0, <1>a, <2>1, <2>2, <2>3 DEF TrackersOfThePast
  <2>. QED BY <1>0, <2>1, <2>4, VaultPreserves
<1>2. ASSUME NEW e, NEW batch, Crank(e, batch) PROVE SnapshotInv'
  <2>1. /\ UNCHANGED <<slot, operator_count, last_full_state_update_slot>>
        /\ CurrentEpoch' = CurrentEpoch /\ FullEpoch' = FullEpoch
    BY <1>2 DEF Crank, CurrentEpoch, FullEpoch, get_epoch
  <2>2. DOMAIN trackers' = DOMAIN trackers
    BY <1>2 DEF Crank
  <2>3. TrackersOfThePast'
    BY <1>0, <2>1, <2>2 DEF TrackersOfThePast
  <2>. QED BY <1>0, <2>1, <2>3, VaultPreserves
<1>3. ASSUME NEW e, Close(e) PROVE SnapshotInv'
  <2>1. /\ UNCHANGED <<slot, operator_count>> /\ CurrentEpoch' = CurrentEpoch
        /\ DOMAIN trackers' = DOMAIN trackers \ {e}
    BY <1>3 DEF Close, CurrentEpoch, get_epoch
  <2>2. CASE e = CurrentEpoch
    <3>1. last_full_state_update_slot' = slot'
      BY <1>3, <2>1, <2>2 DEF Close
    <3>2. TrackersOfThePast'
      BY <1>0, <2>1, <2>2 DEF TrackersOfThePast
    <3>. QED BY <1>0, <2>1, <3>1, <3>2, VaultPreserves
  <2>3. CASE e # CurrentEpoch
    <3>1. last_full_state_update_slot' = last_full_state_update_slot
      BY <1>3, <2>3 DEF Close
    <3>2. TrackersOfThePast'
      BY <1>0, <2>1, <3>1 DEF TrackersOfThePast, FullEpoch, get_epoch
    <3>. QED BY <1>0, <2>1, <3>1, <3>2, VaultPreserves
  <2>. QED BY <2>2, <2>3
<1>4. CASE AddOperator
  <2>1. /\ UNCHANGED <<slot, trackers, last_full_state_update_slot>>
        /\ operator_count' \in Nat /\ ~is_update_needed
    BY <1>0, <1>4 DEF AddOperator
  <2>2. TrackersOfThePast'
    BY <1>0, <2>1 DEF TrackersOfThePast, FullEpoch, CurrentEpoch, get_epoch
  <2>. QED BY <1>0, <2>1, <2>2, VaultPreserves
<1>5. ASSUME NEW p \in PauseValues, SetIsPaused(p) PROVE SnapshotInv'
  <2>1. UNCHANGED <<slot, trackers, operator_count, last_full_state_update_slot>>
    BY <1>5 DEF SetIsPaused
  <2>2. TrackersOfThePast'
    BY <1>0, <2>1 DEF TrackersOfThePast, FullEpoch, CurrentEpoch, get_epoch
  <2>. QED BY <1>0, <2>1, <2>2, VaultPreserves
<1>6. CASE Tick
  <2>1. /\ UNCHANGED <<trackers, operator_count, last_full_state_update_slot>>
        /\ slot' = slot + 1
    BY <1>6 DEF Tick
  <2>2. CurrentEpoch' \in Nat /\ CurrentEpoch <= CurrentEpoch'
    BY <1>0, <2>1, EpochMonotone DEF CurrentEpoch
  <2>3. FullEpoch' = FullEpoch
    BY <2>1 DEF FullEpoch, get_epoch
  <2>4. ASSUME NEW f \in DOMAIN trackers, f = CurrentEpoch' PROVE FullEpoch' < f
    BY <1>0, <1>a, <2>2, <2>3, <2>4 DEF TrackersOfThePast
  <2>5. TrackersOfThePast'
    BY <1>0, <1>a, <2>1, <2>2, <2>4 DEF TrackersOfThePast
  <2>. QED BY <1>0, <2>1, <2>5, VaultPreserves
<1>. QED BY <1>1, <1>2, <1>3, <1>4, <1>5, <1>6 DEF ProtocolStep

-----------------------------------------------------------------------------
(* The list of operators each client works from stays complete while the   *)
(* update of its epoch is running, whatever is lost, late or repeated.     *)
THEOREM SnapshotsComplete == CrankerSpec => []SnapshotComplete
<1>1. InitCrankers => SnapshotInv
  <2>. SUFFICES ASSUME InitCrankers PROVE SnapshotInv
    OBVIOUS
  <2>1. slot \in Nat /\ finalized = slot /\ last_full_state_update_slot = slot
    BY ProtocolAssumption DEF InitCrankers, Init
  <2>2. /\ DOMAIN job = Crankers
        /\ \A c \in Crankers : DOMAIN job[c] = Fields /\ job[c].pc = "slot" /\ job[c].slot = 0
    BY IdleFields DEF InitCrankers
  <2>3. Clocks
    BY <2>1, <2>2 DEF Clocks, InitCrankers, Init
  <2>4. TrackersOfThePast
    BY DEF InitCrankers, Init, TrackersOfThePast
  <2>5. ListsComplete
    BY <2>2 DEF ListsComplete, Driving
  <2>. QED BY <2>3, <2>4, <2>5 DEF SnapshotInv
<1>2. SnapshotInv /\ [NextCrankers]_allVars => SnapshotInv'
  <2>. SUFFICES ASSUME SnapshotInv, [NextCrankers]_allVars PROVE SnapshotInv'
    OBVIOUS
  <2>0. /\ DOMAIN job = Crankers /\ \A d \in Crankers : DOMAIN job[d] = Fields
        /\ slot \in Nat /\ finalized \in Nat /\ finalized <= slot
    BY DEF SnapshotInv, Clocks
  <2>j. ASSUME UNCHANGED <<vars, finalized, job>> PROVE SnapshotInv'
    BY <2>0, <2>j, JobsPreserve DEF Jobs
  <2>1. ASSUME NEW c \in Crankers, CrankerStep(c) \/ Fail(c)
        PROVE  SnapshotInv'
    BY <2>1, ClientStep, JobsPreserve
  <2>2. ASSUME NEW tx \in inflight, Land(tx) PROVE SnapshotInv'
    <3>. DEFINE c == tx.cranker
    <3>1. ProtocolStep
      BY <2>2, ZenonT(30) DEF Land, Execute, ProtocolStep
    <3>2. PICK b : job' = [job EXCEPT ![c] = [job[c] EXCEPT !.landed = b]]
      BY <2>2 DEF Land, Goto
    <3>3. UNCHANGED finalized
      BY <2>2 DEF Land
    <3>4. /\ DOMAIN job' = Crankers
          /\ \A d \in Crankers : /\ DOMAIN job'[d] = Fields
                                 /\ job'[d].pc = job[d].pc
                                 /\ job'[d].slot = job[d].slot
                                 /\ job'[d].operators = job[d].operators
      BY <2>0, <3>2 DEF Fields
    <3>. QED BY <3>1, <3>3, <3>4, ProtocolPreserves
  <2>3. ASSUME NEW tx \in inflight, Lose(tx) PROVE SnapshotInv'
    BY <2>j, <2>3 DEF Lose
  <2>4. CASE Finalize
    <3>1. /\ UNCHANGED <<vars, job>> /\ finalized' = finalized + 1 /\ finalized' <= slot
      BY <2>0, <2>4 DEF Finalize
    <3>2. TrackersOfThePast'
      BY <3>1 DEF vars, SnapshotInv, TrackersOfThePast, CurrentEpoch, FullEpoch, get_epoch
    <3>. QED BY <2>0, <3>1, <3>2, VaultPreserves DEF vars, SnapshotInv, Clocks
  <2>5. CASE Environment
    <3>1. ProtocolStep /\ UNCHANGED <<finalized, job>>
      BY <2>5 DEF Environment, Next, ProtocolStep, crankerVars
    <3>. QED BY <2>0, <3>1, ProtocolPreserves
  <2>6. CASE UNCHANGED allVars
    BY <2>j, <2>6 DEF allVars, crankerVars
  <2>. QED BY <2>1, <2>2, <2>3, <2>4, <2>5, <2>6 DEF NextCrankers
<1>3. SnapshotInv => SnapshotComplete
  <2>. SUFFICES ASSUME SnapshotInv, NEW c \in Crankers, Driving(c), TrackerIsCurrent(c)
                PROVE  job[c].operators = SortedOperators
    BY DEF SnapshotComplete
  <2>1. FullEpoch < EpochOf(c)
    BY DEF SnapshotInv, TrackersOfThePast, TrackerIsCurrent
  <2>2. FullEpoch \in Nat /\ EpochOf(c) \in Nat
    BY EpochMonotone DEF SnapshotInv, Clocks, FullEpoch, EpochOf
  <2>. QED BY <2>1, <2>2 DEF SnapshotInv, ListsComplete
<1>. QED BY <1>1, <1>2, <1>3, PTL DEF CrankerSpec
=============================================================================
