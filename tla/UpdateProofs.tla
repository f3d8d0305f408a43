---------------------------- MODULE UpdateProofs ----------------------------
(***************************************************************************)
(* What the epoch update guarantees for any number of operators, epochs    *)
(* and abandoned updates.  The sums over operators stay with TLC; what is  *)
(* proved here is about when operators are cranked and when fees change.   *)
(***************************************************************************)
EXTENDS VaultProofs

(* Epochs never run ahead of the last start of an update: that is the      *)
(* fact that lets an update recognise an unfinished predecessor.           *)
Schedule ==
  /\ last_start_state_update_slot <= slot
  /\ LastFullEpoch <= LastStartEpoch
  /\ \A o \in LiveOperators : OperatorEpoch(o) <= LastStartEpoch
  /\ \A r \in trackers : r.ncn_epoch <= LastStartEpoch

(* Index i lies between start and last, going round.                       *)
Arc(start, last, i) ==
  IF start <= last THEN start <= i /\ i <= last ELSE start <= i \/ i <= last

(* The indices tracker r has passed, going round from its start index.     *)
Passed(r, i) ==
  /\ r.last_updated_index # U64Max
  /\ Arc(r.ncn_epoch % operator_count, r.last_updated_index, i)

Rotation ==
  /\ operator_count <= U64Max
  /\ \A o \in LiveOperators : operator_delegations[o].index < operator_count
  /\ \A o, p \in LiveOperators :
       operator_delegations[o].index = operator_delegations[p].index => o = p
  /\ \A r \in trackers : \/ r.last_updated_index = U64Max
                         \/ r.last_updated_index < operator_count
  /\ \A r, s \in trackers : r.ncn_epoch = s.ncn_epoch => r = s
  /\ \A r \in CurrentTrackers : is_update_needed
  /\ \A r \in CurrentTrackers, o \in LiveOperators :
       Passed(r, operator_delegations[o].index) => OperatorEpoch(o) = CurrentEpoch

UpdateInv == Inv /\ Schedule /\ Rotation

-----------------------------------------------------------------------------
(* A later slot is in the same or a later epoch (get_epoch).               *)
LEMMA EpochMonotone ==
  ASSUME NEW s \in Nat, NEW t \in Nat, s <= t
  PROVE  get_epoch(s) <= get_epoch(t)
<1>1. EpochLength \in Nat /\ EpochLength > 0
  BY ConstantAssumption
<1>2. ASSUME NEW a \in Nat, NEW b \in Nat, NEW e \in Nat, e > 0, a <= b
      PROVE  a \div e <= b \div e
  BY <1>2
<1>. QED
  BY <1>1, <1>2 DEF get_epoch

(* The crank's index arithmetic: the start index is an index, and the      *)
(* successor wraps at operator_count.                                      *)
LEMMA StartIndex ==
  ASSUME NEW e \in Nat, NEW n \in Nat, n > 0
  PROVE  e % n \in Nat /\ e % n < n
  OBVIOUS

(* The index after the last one is the first.                              *)
LEMMA SuccessorIndex ==
  ASSUME NEW i \in Nat, NEW n \in Nat, i < n
  PROVE  (i + 1) % n = IF i + 1 = n THEN 0 ELSE i + 1
<1>1. CASE i + 1 = n
  <2>1. n % n = 0
    OBVIOUS
  <2>. QED
    BY <1>1, <2>1
<1>2. CASE i + 1 < n
  BY <1>2
<1>. QED
  BY <1>1, <1>2

(* The epochs the invariant speaks of are naturals.                        *)
LEMMA EpochTypes ==
  ASSUME Inv
  PROVE  /\ CurrentEpoch \in Nat /\ LastFullEpoch \in Nat /\ LastStartEpoch \in Nat
         /\ \A o \in LiveOperators :
              /\ operator_delegations[o] \in OperatorDelegations
              /\ operator_delegations[o].index \in Nat
              /\ operator_delegations[o].last_update_slot \in Nat
              /\ OperatorEpoch(o) \in Nat
         /\ \A r \in trackers :
              /\ r \in Trackers /\ r.ncn_epoch \in Nat /\ r.last_updated_index \in Nat
         /\ operator_count \in Nat /\ slot \in Nat
         /\ last_start_state_update_slot \in Nat /\ last_full_state_update_slot \in Nat
<1>1. slot \in Nat /\ last_start_state_update_slot \in Nat
      /\ last_full_state_update_slot \in Nat /\ operator_count \in Nat
  BY DEF Inv, TypeOK
<1>2. CurrentEpoch \in Nat /\ LastFullEpoch \in Nat /\ LastStartEpoch \in Nat
  BY <1>1, EpochType DEF CurrentEpoch, LastFullEpoch, LastStartEpoch
<1>3. ASSUME NEW o \in LiveOperators
      PROVE  /\ operator_delegations[o] \in OperatorDelegations
             /\ operator_delegations[o].index \in Nat
             /\ operator_delegations[o].last_update_slot \in Nat
  BY DEF Inv, TypeOK, LiveOperators, OperatorDelegations
<1>4. \A o \in LiveOperators : OperatorEpoch(o) \in Nat
  BY <1>3, EpochType DEF OperatorEpoch
<1>5. \A r \in trackers :
        r \in Trackers /\ r.ncn_epoch \in Nat /\ r.last_updated_index \in Nat
  BY DEF Inv, TypeOK, Trackers
<1>. QED
  BY <1>1, <1>2, <1>3, <1>4, <1>5

(* A new vault has no operators and no trackers, and counts as updated.    *)
LEMMA InitUpdateInv == Init => UpdateInv
<1>. SUFFICES ASSUME Init PROVE Schedule /\ Rotation
  BY InitInv DEF UpdateInv
<1>1. LiveOperators = {} /\ trackers = {} /\ CurrentTrackers = {}
  BY DEF Init, LiveOperators, CurrentTrackers
<1>2. slot \in Nat /\ LastFullEpoch = LastStartEpoch /\ LastStartEpoch \in Nat
  BY InitInv, EpochTypes DEF Init, LastFullEpoch, LastStartEpoch
<1>3. Schedule
  BY <1>1, <1>2 DEF Init, Schedule
<1>4. Rotation
  BY <1>1, ConstantAssumption DEF Init, Rotation
<1>. QED
  BY <1>3, <1>4

(* Handlers outside the update leave clocks, trackers and the order of the *)
(* operators alone; delegating and cooling down only moves stake.          *)
LEMMA FrameUpdateInv ==
  ASSUME Schedule, Rotation,
         UNCHANGED <<slot, last_start_state_update_slot, last_full_state_update_slot,
                     trackers, operator_count>>,
         LiveOperators' = LiveOperators,
         \A o \in LiveOperators :
           /\ operator_delegations'[o].index = operator_delegations[o].index
           /\ operator_delegations'[o].last_update_slot
                = operator_delegations[o].last_update_slot
  PROVE  Schedule' /\ Rotation'
<1>1. /\ CurrentEpoch' = CurrentEpoch /\ LastFullEpoch' = LastFullEpoch
      /\ LastStartEpoch' = LastStartEpoch /\ is_update_needed' = is_update_needed
      /\ CurrentTrackers' = CurrentTrackers
  BY DEF CurrentEpoch, LastFullEpoch, LastStartEpoch, is_update_needed,
         CurrentTrackers, get_epoch
<1>2. \A o \in LiveOperators : OperatorEpoch(o)' = OperatorEpoch(o)
  BY DEF OperatorEpoch, get_epoch
<1>3. \A r, i : Passed(r, i)' = Passed(r, i)
  BY DEF Passed
<1>4. Schedule'
  BY <1>1, <1>2 DEF Schedule
<1>5. Rotation'
  BY <1>1, <1>2, <1>3 DEF Rotation
<1>. QED
  BY <1>4, <1>5

(* A new operator takes the next index; the vault is up to date, so no     *)
(* tracker of this epoch exists.                                           *)
LEMMA NewOperatorUpdateInv ==
  ASSUME UpdateInv, NEW o \in Operators, InitializeVaultOperatorDelegation(o)
  PROVE  Schedule' /\ Rotation'
<1>. USE DEF UpdateInv
<1>1. /\ ~is_update_needed /\ operator_delegations[o] = None
      /\ operator_count < U64Max /\ operator_count' = operator_count + 1
      /\ operator_delegations' = [operator_delegations EXCEPT ![o] =
           [index |-> operator_count, delegation_state |-> DefaultState,
            last_update_slot |-> slot]]
      /\ UNCHANGED <<slot, last_start_state_update_slot, last_full_state_update_slot,
                     trackers>>
  BY DEF InitializeVaultOperatorDelegation, Operational, updateVars
<1>2. /\ CurrentEpoch' = CurrentEpoch /\ LastFullEpoch' = LastFullEpoch
      /\ LastStartEpoch' = LastStartEpoch /\ is_update_needed' = is_update_needed
      /\ CurrentTrackers' = CurrentTrackers
  BY <1>1 DEF CurrentEpoch, LastFullEpoch, LastStartEpoch, is_update_needed,
              CurrentTrackers, get_epoch
<1>3. CurrentTrackers = {}
  BY <1>1 DEF Rotation
<1>4. operator_delegations \in [Operators -> OperatorDelegations \cup {None}]
  BY DEF Inv, TypeOK
<1>5. LiveOperators' \subseteq LiveOperators \cup {o}
  BY <1>1, <1>4 DEF LiveOperators
<1>6. /\ operator_delegations'[o].index = operator_count
      /\ operator_delegations'[o].last_update_slot = slot
      /\ o \notin LiveOperators
  BY <1>1, <1>4 DEF LiveOperators
<1>7. \A p \in LiveOperators : operator_delegations'[p] = operator_delegations[p]
  BY <1>1, <1>4, <1>6 DEF LiveOperators
<1>8. \A p \in LiveOperators : OperatorEpoch(p)' = OperatorEpoch(p)
  BY <1>7 DEF OperatorEpoch, get_epoch
<1>9. OperatorEpoch(o)' = CurrentEpoch
  BY <1>6 DEF OperatorEpoch, CurrentEpoch, get_epoch
<1>10. CurrentEpoch <= LastStartEpoch
  BY <1>1, EpochTypes DEF Schedule, is_update_needed
<1>11. Schedule'
  <2>1. \A p \in LiveOperators' : OperatorEpoch(p)' <= LastStartEpoch'
    BY <1>2, <1>5, <1>8, <1>9, <1>10 DEF Schedule
  <2>. QED
    BY <1>1, <1>2, <2>1 DEF Schedule
<1>12. operator_count \in Nat /\ U64Max \in Nat
  BY EpochTypes, ConstantAssumption
<1>13. \A p \in LiveOperators : operator_delegations'[p].index < operator_count
  BY <1>7 DEF Rotation
<1>14. \A p \in LiveOperators : operator_delegations[p].index \in Nat
  BY EpochTypes
<1>15. \A p \in LiveOperators' : operator_delegations'[p].index < operator_count'
  BY <1>1, <1>5, <1>6, <1>7, <1>12, <1>13, <1>14
<1>16. \A p, q \in LiveOperators' :
         operator_delegations'[p].index = operator_delegations'[q].index => p = q
  <2>. SUFFICES ASSUME NEW p \in LiveOperators', NEW q \in LiveOperators',
                       operator_delegations'[p].index = operator_delegations'[q].index
                PROVE  p = q
    OBVIOUS
  <2>1. CASE p = o \/ q = o
    BY <1>5, <1>6, <1>7, <1>12, <1>13, <1>14, <2>1
  <2>2. CASE p # o /\ q # o
    BY <1>5, <1>7, <2>2 DEF Rotation
  <2>. QED
    BY <2>1, <2>2
<1>17. \A r \in trackers' : \/ r.last_updated_index = U64Max
                            \/ r.last_updated_index < operator_count'
  BY <1>1, <1>12, EpochTypes DEF Rotation
<1>18. Rotation'
  BY <1>1, <1>2, <1>3, <1>12, <1>15, <1>16, <1>17 DEF Rotation
<1>. QED
  BY <1>11, <1>18

(* A new tracker has passed no index, and is the only one of its epoch.    *)
LEMMA NewTrackerUpdateInv ==
  ASSUME UpdateInv, InitializeVaultUpdateStateTracker
  PROVE  Schedule' /\ Rotation'
<1>. USE DEF UpdateInv
<1>. DEFINE new == [ncn_epoch |-> CurrentEpoch, last_updated_index |-> U64Max,
                    delegation_state |-> DefaultState]
<1>1. /\ is_update_needed /\ \A r \in trackers : r.ncn_epoch # CurrentEpoch
      /\ last_start_state_update_slot' = slot
      /\ trackers' = trackers \cup {new}
      /\ UNCHANGED <<slot, last_full_state_update_slot, operator_delegations,
                     operator_count>>
  BY DEF InitializeVaultUpdateStateTracker, delegVars
<1>2. new.ncn_epoch = CurrentEpoch /\ new.last_updated_index = U64Max
  OBVIOUS
<1>. HIDE DEF new
<1>3. /\ CurrentEpoch' = CurrentEpoch /\ LastFullEpoch' = LastFullEpoch
      /\ LastStartEpoch' = CurrentEpoch /\ is_update_needed' = is_update_needed
      /\ LiveOperators' = LiveOperators
      /\ \A o : OperatorEpoch(o)' = OperatorEpoch(o)
  BY <1>1 DEF CurrentEpoch, LastFullEpoch, LastStartEpoch, is_update_needed,
              LiveOperators, OperatorEpoch, get_epoch
<1>4. CurrentTrackers' = {new}
  BY <1>1, <1>2, <1>3 DEF CurrentTrackers
<1>5. LastStartEpoch <= CurrentEpoch
  BY EpochMonotone, EpochTypes DEF Schedule, LastStartEpoch, CurrentEpoch
<1>6. Schedule'
  <2>1. last_start_state_update_slot' <= slot'
    BY <1>1, EpochTypes
  <2>2. LastFullEpoch' <= LastStartEpoch'
    BY <1>3, <1>5, EpochTypes DEF Schedule
  <2>3. \A o \in LiveOperators' : OperatorEpoch(o)' <= LastStartEpoch'
    BY <1>3, <1>5, EpochTypes DEF Schedule
  <2>4. \A r \in trackers' : r.ncn_epoch <= LastStartEpoch'
    BY <1>1, <1>2, <1>3, <1>5, EpochTypes DEF Schedule
  <2>. QED
    BY <2>1, <2>2, <2>3, <2>4 DEF Schedule
<1>7. \A r, i : r.last_updated_index = U64Max => ~Passed(r, i)'
  BY SMTT(30) DEF Passed
<1>8. Rotation'
  <2>1. \A r, t \in trackers' : r.ncn_epoch = t.ncn_epoch => r = t
    BY <1>1, <1>2 DEF Rotation
  <2>2. \A r \in trackers' : \/ r.last_updated_index = U64Max
                             \/ r.last_updated_index < operator_count'
    BY <1>1, <1>2 DEF Rotation
  <2>3. \A r \in CurrentTrackers', o \in LiveOperators' :
          Passed(r, operator_delegations[o].index)' => OperatorEpoch(o)' = CurrentEpoch'
    BY <1>1, <1>2, <1>4, <1>7
  <2>. QED
    BY <1>1, <1>3, <2>1, <2>2, <2>3 DEF Rotation
<1>. QED
  BY <1>6, <1>8

(* Closing a tracker, of this epoch or an abandoned one.                   *)
LEMMA CloseUpdateInv ==
  ASSUME UpdateInv, CloseCurrentTracker \/ CloseOldTracker
  PROVE  Schedule' /\ Rotation'
<1>. USE DEF UpdateInv
<1>1. UNCHANGED <<slot, last_start_state_update_slot, operator_delegations,
                  operator_count>>
  BY DEF CloseCurrentTracker, CloseOldTracker, delegVars
<1>2. /\ CurrentEpoch' = CurrentEpoch /\ LastStartEpoch' = LastStartEpoch
      /\ LiveOperators' = LiveOperators
      /\ \A o : OperatorEpoch(o)' = OperatorEpoch(o)
      /\ \A r, i : Passed(r, i)' = Passed(r, i)
  BY <1>1 DEF CurrentEpoch, LastStartEpoch, LiveOperators, OperatorEpoch, Passed,
              get_epoch
<1>3. PICK r \in trackers :
        /\ trackers' = trackers \ {r}
        /\ \/ r.ncn_epoch = CurrentEpoch /\ last_full_state_update_slot' = slot
           \/ r.ncn_epoch # CurrentEpoch /\ UNCHANGED last_full_state_update_slot
  BY DEF CloseCurrentTracker, CloseOldTracker
<1>4. /\ CurrentTrackers' \subseteq CurrentTrackers
      /\ r.ncn_epoch = CurrentEpoch => CurrentTrackers' = {}
  BY <1>2, <1>3 DEF CurrentTrackers, Rotation
<1>5. LastFullEpoch' <= LastStartEpoch'
  BY <1>2, <1>3, EpochTypes DEF Schedule, LastFullEpoch, CurrentEpoch, get_epoch
<1>6. Schedule'
  BY SMTT(30), <1>1, <1>2, <1>3, <1>5 DEF Schedule
<1>7. \A t \in CurrentTrackers' : is_update_needed'
  BY SMTT(30), <1>2, <1>3, <1>4 DEF Rotation, is_update_needed, LastFullEpoch, CurrentEpoch,
                          get_epoch
<1>8. Rotation'
  BY SMTT(30), <1>1, <1>2, <1>3, <1>4, <1>7 DEF Rotation
<1>. QED
  BY <1>6, <1>8

(* The clock either stays in the epoch or leaves every tracker behind.     *)
LEMMA TickUpdateInv ==
  ASSUME UpdateInv, Tick
  PROVE  Schedule' /\ Rotation'
<1>. USE DEF UpdateInv
<1>1. /\ slot' = slot + 1
      /\ UNCHANGED <<last_start_state_update_slot, last_full_state_update_slot,
                     trackers, operator_delegations, operator_count>>
  BY SMTT(30) DEF Tick, delegVars, updateVars
<1>2. /\ LastFullEpoch' = LastFullEpoch /\ LastStartEpoch' = LastStartEpoch
      /\ LiveOperators' = LiveOperators
      /\ \A o : OperatorEpoch(o)' = OperatorEpoch(o)
      /\ \A r, i : Passed(r, i)' = Passed(r, i)
  BY <1>1 DEF LastFullEpoch, LastStartEpoch, LiveOperators, OperatorEpoch, Passed,
              get_epoch
<1>3. slot \in Nat /\ slot' \in Nat /\ slot <= slot'
  BY <1>1, EpochTypes
<1>4. CurrentEpoch <= CurrentEpoch' /\ CurrentEpoch' \in Nat
  BY <1>3, EpochMonotone, EpochType DEF CurrentEpoch, get_epoch
<1>5. Schedule'
  BY SMTT(30), <1>1, <1>2, EpochTypes DEF Schedule
<1>6. LastStartEpoch <= CurrentEpoch
  BY EpochMonotone, EpochTypes DEF Schedule, LastStartEpoch, CurrentEpoch
<1>7. CASE CurrentEpoch' = CurrentEpoch
  <2>1. CurrentTrackers' = CurrentTrackers /\ is_update_needed' = is_update_needed
    BY SMTT(30), <1>1, <1>2, <1>7 DEF CurrentTrackers, is_update_needed
  <2>. QED
    BY <1>1, <1>2, <1>5, <1>7, <2>1 DEF Rotation
<1>8. CASE CurrentEpoch' > CurrentEpoch
  <2>1. CurrentTrackers' = {}
    BY <1>1, <1>4, <1>6, <1>8, EpochTypes DEF CurrentTrackers, Schedule
  <2>. QED
    BY SMTT(30), <1>1, <1>2, <1>5, <2>1 DEF Rotation
<1>. QED
  BY <1>4, <1>7, <1>8, EpochTypes

(* Cranking the next operator adds exactly its index to those passed.      *)
LEMMA ArcGrows ==
  ASSUME NEW n \in Nat, NEW start \in Nat, NEW last \in Nat, NEW i \in Nat,
         start < n, last < n, i < n,
         NEW next, next = IF last + 1 = n THEN 0 ELSE last + 1,
         ~Arc(start, last, next), Arc(start, next, i)
  PROVE  Arc(start, last, i) \/ i = next
  BY DEF Arc

(* Once the crank moves on to the next operator, the others on the arc to  *)
(* it are those the tracker had passed before.                             *)
LEMMA PassedBefore ==
  ASSUME UpdateInv, NEW r \in CurrentTrackers,
         NEW o \in LiveOperators, NEW p \in LiveOperators, p # o,
         operator_delegations[o].index = NextIndex(r),
         OperatorEpoch(o) < CurrentEpoch,
         Arc(CurrentEpoch % operator_count,
             operator_delegations[o].index, operator_delegations[p].index)
  PROVE  OperatorEpoch(p) = CurrentEpoch
<1>. DEFINE idx(q) == operator_delegations[q].index
            start == CurrentEpoch % operator_count
            last == r.last_updated_index
<1>1. Rotation /\ r \in trackers /\ r.ncn_epoch = CurrentEpoch
  BY DEF UpdateInv, CurrentTrackers
<1>2. /\ operator_count \in Nat /\ CurrentEpoch \in Nat /\ OperatorEpoch(o) \in Nat
      /\ last \in Nat /\ idx(o) \in Nat /\ idx(p) \in Nat
  BY <1>1, EpochTypes DEF UpdateInv
<1>3. /\ idx(o) < operator_count /\ idx(p) < operator_count /\ idx(p) # idx(o)
      /\ last # U64Max => last < operator_count
  BY <1>1 DEF Rotation
<1>4. start \in Nat /\ start < operator_count
  BY SMTT(30), <1>2, <1>3, StartIndex
<1>5. \A q \in LiveOperators :
        last # U64Max /\ Arc(start, last, idx(q)) => OperatorEpoch(q) = CurrentEpoch
  BY <1>1 DEF Rotation, Passed
<1>6. CASE last = U64Max
  <2>1. idx(o) = start
    BY <1>1, <1>6 DEF NextIndex
  <2>. QED
    BY <1>2, <1>3, <1>4, <2>1 DEF Arc
<1>7. CASE last # U64Max
  <2>1. idx(o) = IF last + 1 = operator_count THEN 0 ELSE last + 1
    BY <1>2, <1>3, <1>7, SuccessorIndex DEF NextIndex
  <2>2. ~Arc(start, last, idx(o))
    BY <1>2, <1>5, <1>7
  <2>. HIDE DEF start, last, idx
  <2>3. Arc(start, idx(o), idx(p))
    BY SMTT(30) DEF start, idx
  <2>4. Arc(start, last, idx(p)) \/ idx(p) = idx(o)
    BY <1>2, <1>3, <1>4, <1>7, <2>1, <2>2, <2>3, ArcGrows
  <2>. QED
    BY Zenon, <1>3, <1>5, <1>7, <2>4
<1>. QED
  BY Zenon, <1>6, <1>7

(* An operator is cranked when its index comes next; the operators passed  *)
(* before it were cranked in the same epoch and stay so.                   *)
LEMMA CrankUpdateInv ==
  ASSUME UpdateInv, NEW o \in Operators, CrankVaultUpdateStateTracker(o)
  PROVE  Schedule' /\ Rotation'
<1>. USE DEF UpdateInv
<1>. DEFINE idx(p) == operator_delegations[p].index
<1>1. /\ o \in LiveOperators /\ OperatorEpoch(o) < CurrentEpoch
      /\ UNCHANGED <<slot, last_full_state_update_slot, last_start_state_update_slot,
                     operator_count>>
  BY SMTT(30) DEF CrankVaultUpdateStateTracker, LiveOperators, OperatorEpoch
<1>2. PICK state : operator_delegations' = [operator_delegations EXCEPT
        ![o] = [@ EXCEPT !.delegation_state = state, !.last_update_slot = slot]]
  BY ZenonT(30) DEF CrankVaultUpdateStateTracker
<1>3. PICK r \in trackers :
        /\ r.ncn_epoch = CurrentEpoch /\ idx(o) = NextIndex(r)
        /\ \E total : trackers' = (trackers \ {r}) \cup
             {[r EXCEPT !.last_updated_index = idx(o), !.delegation_state = total]}
  BY ZenonT(30) DEF CrankVaultUpdateStateTracker
<1>4. PICK r2 : /\ trackers' = (trackers \ {r}) \cup {r2}
                /\ r2.ncn_epoch = CurrentEpoch /\ r2.last_updated_index = idx(o)
  <2>1. PICK total : trackers' = (trackers \ {r}) \cup
          {[r EXCEPT !.last_updated_index = idx(o), !.delegation_state = total]}
    BY ZenonT(30), <1>3
  <2>. DEFINE x == [r EXCEPT !.last_updated_index = idx(o), !.delegation_state = total]
  <2>2. x.ncn_epoch = CurrentEpoch /\ x.last_updated_index = idx(o)
    BY <1>3, EpochTypes DEF Trackers
  <2>. QED
    BY ZenonT(30), <2>2, <2>1
<1>5. /\ CurrentEpoch' = CurrentEpoch /\ LastFullEpoch' = LastFullEpoch
      /\ LastStartEpoch' = LastStartEpoch /\ is_update_needed' = is_update_needed
  BY SMTT(30), <1>1 DEF CurrentEpoch, LastFullEpoch, LastStartEpoch, is_update_needed, get_epoch
<1>6. operator_delegations \in [Operators -> OperatorDelegations \cup {None}]
      /\ operator_delegations[o] \in OperatorDelegations
  BY <1>1, EpochTypes DEF Inv, TypeOK
<1>7. /\ operator_delegations'[o].index = idx(o)
      /\ operator_delegations'[o].last_update_slot = slot
      /\ operator_delegations'[o] # None
  <2>1. operator_delegations'[o] = [operator_delegations[o] EXCEPT
          !.delegation_state = state, !.last_update_slot = slot]
    BY <1>2, <1>6
  <2>2. operator_delegations'[o] # None
    BY CrankVaultUpdateStateTrackerInv, ConstantAssumption
  <2>. QED
    BY <1>6, <2>1, <2>2 DEF OperatorDelegations
<1>8. \A p \in Operators \ {o} : operator_delegations'[p] = operator_delegations[p]
  BY SMTT(30), <1>2, <1>6
<1>9. LiveOperators' = LiveOperators /\ \A p \in LiveOperators : idx(p)' = idx(p)
  BY SMTT(30), <1>1, <1>7, <1>8 DEF LiveOperators
<1>10. /\ OperatorEpoch(o)' = CurrentEpoch
       /\ \A p \in LiveOperators \ {o} : OperatorEpoch(p)' = OperatorEpoch(p)
  BY <1>7, <1>8 DEF OperatorEpoch, CurrentEpoch, get_epoch, LiveOperators
<1>11. CurrentEpoch <= LastStartEpoch
  BY <1>3 DEF Schedule
<1>12. Schedule'
  <2>1. \A p \in LiveOperators' : OperatorEpoch(p)' <= LastStartEpoch'
    BY SMTT(30), <1>5, <1>9, <1>10, <1>11 DEF Schedule
  <2>2. \A t \in trackers' : t.ncn_epoch <= LastStartEpoch'
    BY <1>4, <1>5, <1>11 DEF Schedule
  <2>. QED
    BY SMTT(30), <1>1, <1>5, <2>1, <2>2 DEF Schedule
<1>13. CurrentTrackers = {r} /\ CurrentTrackers' = {r2}
  BY SMTT(30), <1>3, <1>4, <1>5 DEF CurrentTrackers, Rotation
<1>14. /\ operator_count \in Nat /\ operator_count > 0 /\ idx(o) \in Nat
       /\ \A p \in LiveOperators : idx(p) \in Nat /\ idx(p) < operator_count
       /\ \A p \in LiveOperators : idx(p) = idx(o) => p = o
  BY <1>1, EpochTypes DEF Rotation
<1>. DEFINE start == CurrentEpoch % operator_count
<1>15. start \in Nat /\ start < operator_count
  BY SMTT(30), <1>14, StartIndex, EpochTypes
<1>16. \A i : Passed(r2, i)' => Arc(start, idx(o), i)
  BY <1>1, <1>4 DEF Passed
<1>17. \A p \in LiveOperators \ {o} :
         Arc(start, idx(o), idx(p)) => OperatorEpoch(p) = CurrentEpoch
  <2>1. r \in CurrentTrackers
    BY <1>13
  <2>. QED
    BY <1>1, <1>3, <2>1, PassedBefore
<1>18. \A p \in LiveOperators :
         Passed(r2, operator_delegations[p].index)' => OperatorEpoch(p)' = CurrentEpoch
  <2>1. \A p \in LiveOperators :
          Passed(r2, operator_delegations[p].index)' => Arc(start, idx(o), idx(p))
    BY Zenon, <1>9, <1>16
  <2>. QED
    BY SMTT(30), <1>10, <1>17, <2>1
<1>19. Rotation'
  <2>1. \A t \in trackers' : \/ t.last_updated_index = U64Max
                             \/ t.last_updated_index < operator_count'
    BY <1>1, <1>4, <1>14 DEF Rotation
  <2>2. \A t, u \in trackers' : t.ncn_epoch = u.ncn_epoch => t = u
    BY SMTT(30), <1>3, <1>4 DEF Rotation
  <2>3. \A t \in CurrentTrackers' : is_update_needed'
    BY SMTT(30), <1>5, <1>13 DEF Rotation
  <2>. QED
    <3>1. /\ operator_count' <= U64Max
          /\ \A p \in LiveOperators' : operator_delegations'[p].index < operator_count'
          /\ \A p, q \in LiveOperators' :
               operator_delegations'[p].index = operator_delegations'[q].index => p = q
      BY SMTT(30), <1>1, <1>9 DEF Rotation
    <3>2. \A t \in CurrentTrackers', p \in LiveOperators' :
            Passed(t, operator_delegations[p].index)' => OperatorEpoch(p)' = CurrentEpoch'
      BY ZenonT(30), <1>5, <1>9, <1>13, <1>18
    <3>. QED
      BY ZenonT(30), <2>1, <2>2, <2>3, <3>1, <3>2 DEF Rotation
<1>. QED
  BY <1>12, <1>19

(* Delegating and cooling down change an operator's stake, not its index   *)
(* or the epoch it was last cranked in.                                    *)
LEMMA StakeUpdateInv ==
  ASSUME UpdateInv, NEW o \in Operators, NEW a \in DelegationAmounts,
         AddDelegation(o, a) \/ CooldownDelegation(o, a)
  PROVE  Schedule' /\ Rotation'
<1>. USE DEF UpdateInv
<1>1. operator_delegations \in [Operators -> OperatorDelegations \cup {None}]
      /\ operator_delegations[o] # None
  BY DEF Inv, TypeOK, AddDelegation, CooldownDelegation
<1>2. PICK state :
        operator_delegations' = [operator_delegations EXCEPT ![o].delegation_state = state]
  BY DEF AddDelegation, CooldownDelegation
<1>3. UNCHANGED <<slot, last_start_state_update_slot, last_full_state_update_slot,
                  trackers, operator_count>>
  BY DEF AddDelegation, CooldownDelegation, updateVars
<1>4. operator_delegations[o] \in OperatorDelegations
  BY <1>1
<1>5. operator_delegations'[o] \in OperatorDelegations
  BY AddDelegationInv, CooldownDelegationInv, <1>1
<1>6. /\ operator_delegations'[o].index = operator_delegations[o].index
      /\ operator_delegations'[o].last_update_slot
           = operator_delegations[o].last_update_slot
  BY <1>1, <1>2, <1>4 DEF OperatorDelegations
<1>7. \A p \in Operators \ {o} : operator_delegations'[p] = operator_delegations[p]
  BY SMTT(30), <1>1, <1>2
<1>8. LiveOperators' = LiveOperators
  BY SMTT(30), <1>1, <1>5, <1>7, ConstantAssumption DEF LiveOperators
<1>9. \A p \in LiveOperators :
           /\ operator_delegations'[p].index = operator_delegations[p].index
           /\ operator_delegations'[p].last_update_slot
                = operator_delegations[p].last_update_slot
  BY SMTT(30), <1>6, <1>7 DEF LiveOperators
<1>. QED
  BY <1>3, <1>8, <1>9, FrameUpdateInv

(* Every instruction keeps the schedule and the rotation of the update.    *)
LEMMA NextUpdateInv == UpdateInv /\ [Next]_vars => UpdateInv'
<1>. SUFFICES ASSUME UpdateInv, [Next]_vars PROVE Schedule' /\ Rotation'
  BY NextInv DEF UpdateInv
<1>1. ASSUME UNCHANGED <<slot, delegVars, updateVars>>
      PROVE  Schedule' /\ Rotation'
  <2>1. LiveOperators' = LiveOperators
    BY SMTT(30), <1>1 DEF LiveOperators, delegVars
  <2>. QED
    BY <1>1, <2>1, FrameUpdateInv DEF UpdateInv, delegVars, updateVars
<1>2. CASE \/ \E h \in Stakers, a \in DepositAmounts : MintTo(h, a)
           \/ \E a \in RewardAmounts : ReceiveSt(a)
           \/ UpdateVaultBalance
           \/ \E h \in Stakers, t \in Tickets, a \in WithdrawalAmounts :
                EnqueueWithdrawal(h, t, a)
           \/ \E h \in Stakers, t \in Tickets, a \in ExtraVrtAmounts :
                SendVrtToTicket(h, t, a)
           \/ \E t \in Tickets, h \in Stakers : ChangeWithdrawalTicketOwner(t, h)
           \/ \E t \in Tickets : BurnWithdrawalTicket(t)
  BY SMTT(30), <1>1, <1>2 DEF MintTo, ReceiveSt, UpdateVaultBalance, EnqueueWithdrawal,
                    SendVrtToTicket, ChangeWithdrawalTicketOwner, BurnWithdrawalTicket
<1>3. CASE \/ \E r \in FeeRequests : SetFees(r)
           \/ \E f \in ProgramFees : SetProgramFee(f)
           \/ \E c \in Capacities : SetDepositCapacity(c)
           \/ \E p \in PauseValues : SetIsPaused(p)
           \/ UNCHANGED vars
  BY ZenonT(30), <1>1, <1>3 DEF SetFees, SetProgramFee, SetDepositCapacity, SetIsPaused, vars
<1>4. CASE \/ \E o \in Operators : InitializeVaultOperatorDelegation(o)
           \/ \E o \in Operators, a \in DelegationAmounts : AddDelegation(o, a)
           \/ \E o \in Operators, a \in DelegationAmounts : CooldownDelegation(o, a)
  BY <1>4, NewOperatorUpdateInv, StakeUpdateInv
<1>5. CASE \/ InitializeVaultUpdateStateTracker
           \/ \E o \in Operators : CrankVaultUpdateStateTracker(o)
           \/ CloseCurrentTracker
           \/ CloseOldTracker
           \/ Tick
  BY <1>5, NewTrackerUpdateInv, CrankUpdateInv, CloseUpdateInv, TickUpdateInv
<1>. QED
  BY <1>2, <1>3, <1>4, <1>5 DEF Next

-----------------------------------------------------------------------------
(* When the tracker's last index is the one before its start index, the    *)
(* arc is the whole circle.                                                *)
LEMMA ArcCloses ==
  ASSUME NEW n \in Nat, NEW start \in Nat, NEW i \in Nat, start < n, i < n
  PROVE  Arc(start, IF start = 0 THEN n - 1 ELSE start - 1, i)
  BY DEF Arc

(* Only closing a tracker moves the slot of the last full update.          *)
LEMMA FullUpdateByClose ==
  ASSUME [Next]_vars, last_full_state_update_slot' # last_full_state_update_slot
  PROVE  CloseCurrentTracker
  BY ZenonT(30) DEF Next, vars, updateVars, MintTo, ReceiveSt, UpdateVaultBalance,
         EnqueueWithdrawal, SendVrtToTicket, ChangeWithdrawalTicketOwner,
         BurnWithdrawalTicket, InitializeVaultOperatorDelegation, AddDelegation,
         CooldownDelegation, InitializeVaultUpdateStateTracker,
         CrankVaultUpdateStateTracker, CloseOldTracker, SetFees, SetProgramFee,
         SetDepositCapacity, SetIsPaused, Tick

(* Closing the tracker is the only step that marks the vault updated, and  *)
(* by then every operator was cranked this epoch.                          *)
LEMMA FullUpdateStep ==
  ASSUME UpdateInv, [Next]_vars,
         last_full_state_update_slot' # last_full_state_update_slot
  PROVE  /\ is_update_needed
         /\ \A o \in LiveOperators : OperatorEpoch(o) = CurrentEpoch
<1>. USE DEF UpdateInv
<1>1. CloseCurrentTracker
  BY FullUpdateByClose
<1>2. PICK r \in trackers : /\ r.ncn_epoch = CurrentEpoch
                            /\ operator_count > 0 => all_operators_updated(r)
  BY SMTT(30), <1>1 DEF CloseCurrentTracker
<1>3. r \in CurrentTrackers /\ is_update_needed
  BY SMTT(30), <1>2 DEF CurrentTrackers, Rotation
<1>4. ASSUME NEW o \in LiveOperators
      PROVE  OperatorEpoch(o) = CurrentEpoch
  <2>. DEFINE i == operator_delegations[o].index
              start == CurrentEpoch % operator_count
              last == IF start = 0 THEN operator_count - 1 ELSE start - 1
  <2>1. i \in Nat /\ operator_count \in Nat /\ i < operator_count /\ CurrentEpoch \in Nat
    BY EpochTypes DEF Rotation
  <2>2. start \in Nat /\ start < operator_count
    BY SMTT(30), <2>1, StartIndex
  <2>3. r.last_updated_index # U64Max /\ r.last_updated_index = last
    BY SMTT(30), <1>2, <2>1 DEF all_operators_updated
  <2>. HIDE DEF start
  <2>4. Arc(start, last, i)
    BY <2>1, <2>2, ArcCloses
  <2>5. Passed(r, i)
    BY <1>2, <2>3, <2>4 DEF Passed, start
  <2>. QED
    BY SMTT(30), <1>3, <2>5 DEF Rotation
<1>. QED
  BY SMTT(30), <1>3, <1>4

(* For any number of operators joining between updates, and any trackers   *)
(* left over from earlier epochs, CloseVaultUpdateStateTracker marks the   *)
(* vault updated only after the crank reached every operator, and at most  *)
(* once per epoch.                                                         *)
THEOREM FullUpdateComplete == Spec => FullUpdateIsComplete
<1>1. UpdateInv /\ [Next]_vars =>
        [last_full_state_update_slot' # last_full_state_update_slot =>
          /\ is_update_needed
          /\ \A o \in LiveOperators : OperatorEpoch(o) = CurrentEpoch]_vars
  BY SMTT(30), FullUpdateStep
<1>. QED
  BY <1>1, InitUpdateInv, NextUpdateInv, PTL DEF Spec, FullUpdateIsComplete

(* The slot, the slot of the last full update and the pause flag change    *)
(* only by Tick, CloseCurrentTracker and SetIsPaused.                      *)
LEMMA GateStep ==
  ASSUME UpdateInv, [Next]_vars
  PROVE  [Gate!Next]_(Gate!vars)
<1>1. CASE last_full_state_update_slot' # last_full_state_update_slot
  <2>1. CloseCurrentTracker
    BY <1>1, FullUpdateByClose
  <2>2. is_update_needed
    BY <1>1, FullUpdateStep
  <2>3. Gate!is_update_needed
    BY <2>2 DEF is_update_needed, CurrentEpoch, LastFullEpoch, get_epoch,
                Gate!is_update_needed, Gate!get_epoch
  <2>4. /\ ~is_paused /\ last_full_state_update_slot' = slot
        /\ slot' = slot /\ is_paused' = is_paused
    BY ZenonT(30), <2>1 DEF CloseCurrentTracker, adminVars
  <2>. QED
    BY <2>3, <2>4 DEF Gate!Update, Gate!Next
<1>2. CASE last_full_state_update_slot' = last_full_state_update_slot
  <2>1. CASE Tick
    BY <1>2, <2>1 DEF Tick, adminVars, Gate!SlotPasses, Gate!Next
  <2>2. CASE \E p \in PauseValues : SetIsPaused(p)
    <3>1. is_paused' \in BOOLEAN /\ slot' = slot
      BY <2>2, ConstantAssumption DEF SetIsPaused
    <3>. QED
      BY <1>2, <3>1 DEF Gate!SetIsPaused, Gate!Next
  <2>3. CASE UNCHANGED <<slot, is_paused>>
    BY <1>2, <2>3 DEF Gate!vars
  <2>. QED
    BY <2>1, <2>2, <2>3, ZenonT(30)
    DEF Next, vars, adminVars, MintTo, ReceiveSt, UpdateVaultBalance,
        EnqueueWithdrawal, SendVrtToTicket, ChangeWithdrawalTicketOwner,
        BurnWithdrawalTicket, InitializeVaultOperatorDelegation, AddDelegation,
        CooldownDelegation, InitializeVaultUpdateStateTracker,
        CrankVaultUpdateStateTracker, CloseCurrentTracker, CloseOldTracker,
        SetFees, SetProgramFee, SetDepositCapacity
<1>. QED
  BY <1>1, <1>2

(* The vault implements the gate its NCN and slasher tickets rely on, for  *)
(* any operators, epochs and abandoned updates.                            *)
THEOREM VaultImplementsGate == Spec => ImplementsUpdateGate
<1>1. Init => Gate!Init
  BY ConstantAssumption DEF Init, Gate!Init
<1>. QED
  BY <1>1, GateStep, InitUpdateInv, NextUpdateInv, PTL
  DEF Spec, ImplementsUpdateGate, Gate!Spec

(* InitializeVaultUpdateStateTracker is the only handler that changes the  *)
(* fees of a withdrawal, and not when it resumes an unfinished update.     *)
LEMMA FeeStep ==
  ASSUME UpdateInv, [Next]_vars,
         <<fees.withdrawal, fees.program>>' # <<fees.withdrawal, fees.program>>
  PROVE  /\ InitializeVaultUpdateStateTracker /\ ~NeedsToRecover
<1>. USE DEF UpdateInv
<1>1. fees \in Fees
  BY DEF Inv, TypeOK
<1>2. ASSUME NEW q \in FeeRequests, SetFees(q) PROVE FALSE
  BY <1>1, <1>2 DEF SetFees, Fees
<1>3. CASE InitializeVaultUpdateStateTracker
  BY <1>3 DEF InitializeVaultUpdateStateTracker
<1>. QED
  BY ZenonT(30), <1>2, <1>3
  DEF Next, vars, feeVars, MintTo, ReceiveSt, UpdateVaultBalance,
      EnqueueWithdrawal, SendVrtToTicket, ChangeWithdrawalTicketOwner,
      BurnWithdrawalTicket, InitializeVaultOperatorDelegation, AddDelegation,
      CooldownDelegation, CrankVaultUpdateStateTracker, CloseCurrentTracker,
      CloseOldTracker, SetProgramFee, SetDepositCapacity, SetIsPaused, Tick

(* The fees the reserve was sized with stay in force until the update that *)
(* sized it is complete, however often it is abandoned and resumed.        *)
THEOREM FeesStable == Spec => FeesStableDuringUpdate
<1>1. ASSUME UpdateInv, [Next]_vars,
             <<fees.withdrawal, fees.program>>' # <<fees.withdrawal, fees.program>>
      PROVE  /\ is_update_needed
             /\ \A o \in LiveOperators : OperatorEpoch(o) <= LastFullEpoch
  BY <1>1, FeeStep
  DEF UpdateInv, Schedule, InitializeVaultUpdateStateTracker, NeedsToRecover
<1>2. UpdateInv /\ [Next]_vars =>
        [<<fees.withdrawal, fees.program>>' # <<fees.withdrawal, fees.program>> =>
          /\ is_update_needed
          /\ \A o \in LiveOperators : OperatorEpoch(o) <= LastFullEpoch]_vars
  BY <1>1
<1>. QED
  BY <1>2, InitUpdateInv, NextUpdateInv, PTL DEF Spec, FeesStableDuringUpdate

-----------------------------------------------------------------------------
(* The pending withdrawal fee stays an admissible successor of the current *)
(* one, from set_fees until the update that applies it.                    *)
PendingFeeOK ==
  /\ fees.withdrawal <= DEPOSIT_WITHDRAWAL_FEE_CAP_BPS
  /\ check_fee_change_ok(fees.withdrawal, fees.next_withdrawal)

(* A rounded-down rate of change below the limit bounds the exact one.     *)
LEMMA RateBound ==
  ASSUME NEW a \in Nat, NEW b \in Nat, NEW c \in Nat, b > 0, a \div b <= c
  PROVE  a < (c + 1) * b
<1>1. a < (a \div b + 1) * b
  OBVIOUS
<1>2. a \div b + 1 \in Nat /\ c + 1 \in Nat /\ a \div b + 1 <= c + 1
  OBVIOUS
<1>. QED
  BY <1>1, <1>2, MulMono

(* Keeping a fee is an admissible change (check_fee_change_ok).            *)
LEMMA UnchangedFeeOK ==
  ASSUME NEW f \in Nat, f <= DEPOSIT_WITHDRAWAL_FEE_CAP_BPS
  PROVE  check_fee_change_ok(f, f)
  BY DEF check_fee_change_ok, saturating_sub, FEE_BUMP_BPS

(* A new vault has its withdrawal fee pending.                             *)
LEMMA InitPendingFee == Init => PendingFeeOK
<1>. SUFFICES ASSUME Init PROVE PendingFeeOK
  BY SMTT(30)
<1>1. PICK f \in InitialFees :
        fees = [deposit |-> f.deposit, withdrawal |-> f.withdrawal,
                next_withdrawal |-> f.withdrawal, reward |-> f.reward,
                program |-> f.program]
  BY DEF Init
<1>2. f \in [deposit : 0 .. DEPOSIT_WITHDRAWAL_FEE_CAP_BPS,
             withdrawal : 0 .. DEPOSIT_WITHDRAWAL_FEE_CAP_BPS,
             reward : Bps, program : Bps]
  BY ConstantAssumption
<1>3. f.withdrawal \in 0 .. DEPOSIT_WITHDRAWAL_FEE_CAP_BPS
  BY <1>2
<1>4. f.withdrawal \in Nat /\ f.withdrawal <= DEPOSIT_WITHDRAWAL_FEE_CAP_BPS
  <2>1. \A x \in 0 .. DEPOSIT_WITHDRAWAL_FEE_CAP_BPS :
          x \in Nat /\ x <= DEPOSIT_WITHDRAWAL_FEE_CAP_BPS
    BY DEF DEPOSIT_WITHDRAWAL_FEE_CAP_BPS
  <2>. QED
    BY SMTT(30), <1>3, <2>1
<1>5. fees.withdrawal = f.withdrawal /\ fees.next_withdrawal = f.withdrawal
  BY <1>1
<1>. QED
  BY <1>4, <1>5, UnchangedFeeOK DEF PendingFeeOK

(* set_fees replaces the pending fee by one it has checked against the     *)
(* current fee; a new tracker makes the pending fee current.               *)
LEMMA NextPendingFee ==
  ASSUME Inv, PendingFeeOK, [Next]_vars
  PROVE  /\ PendingFeeOK'
         /\ \/ fees'.withdrawal = fees.withdrawal
            \/ fees'.withdrawal = fees.next_withdrawal
<1>1. /\ fees \in Fees /\ fees.withdrawal \in Nat /\ fees.next_withdrawal \in Nat
  <2>1. fees \in Fees
    BY ZenonT(30) DEF Inv, TypeOK
  <2>. QED
    BY SMTT(30), <2>1 DEF Fees, Bps
<1>2. fees.next_withdrawal <= DEPOSIT_WITHDRAWAL_FEE_CAP_BPS
  BY DEF PendingFeeOK, check_fee_change_ok
<1>3. CASE UNCHANGED fees
  BY <1>3 DEF PendingFeeOK
<1>4. ASSUME NEW q \in FeeRequests, SetFees(q)
      PROVE  /\ fees'.withdrawal = fees.withdrawal
             /\ check_fee_change_ok(fees.withdrawal, fees'.next_withdrawal)
  <2>1. /\ fees'.withdrawal = fees.withdrawal
        /\ fees'.next_withdrawal = IF q.withdrawal = None THEN fees.next_withdrawal
                                   ELSE q.withdrawal
    BY <1>1, <1>4 DEF SetFees, Fees
  <2>. QED
    BY <1>4, <2>1 DEF SetFees, PendingFeeOK
<1>5. CASE InitializeVaultUpdateStateTracker
  <2>1. \/ UNCHANGED fees
        \/ /\ fees'.withdrawal = fees.next_withdrawal
           /\ fees'.next_withdrawal = fees.next_withdrawal
    BY SMTT(30), <1>1, <1>5 DEF InitializeVaultUpdateStateTracker, Fees
  <2>. QED
    BY <1>1, <1>2, <1>3, <2>1, UnchangedFeeOK DEF PendingFeeOK
<1>6. \/ UNCHANGED fees
      \/ \E q \in FeeRequests : SetFees(q)
      \/ InitializeVaultUpdateStateTracker
  BY ZenonT(30) DEF Next, vars, feeVars, MintTo, ReceiveSt, UpdateVaultBalance,
         EnqueueWithdrawal, SendVrtToTicket, ChangeWithdrawalTicketOwner,
         BurnWithdrawalTicket, InitializeVaultOperatorDelegation, AddDelegation,
         CooldownDelegation, CrankVaultUpdateStateTracker, CloseCurrentTracker,
         CloseOldTracker, SetProgramFee, SetDepositCapacity, SetIsPaused, Tick
<1>. QED
  BY <1>3, <1>4, <1>5, <1>6 DEF PendingFeeOK

(* However long a withdrawal fee waits between set_fees and the update     *)
(* that applies it, it takes effect within the cap and the rate of change. *)
THEOREM FeeRateBounded == Spec => WithdrawalFeeRateBounded
<1>. DEFINE Step ==
       LET increase == fees'.withdrawal - fees.withdrawal
       IN  /\ fees'.withdrawal <= DEPOSIT_WITHDRAWAL_FEE_CAP_BPS
           /\ increase > FEE_BUMP_BPS =>
                increase * MAX_BPS < (FEE_RATE_OF_CHANGE_BPS + 1) * fees.withdrawal
<1>1. ASSUME Inv, PendingFeeOK, [Next]_vars PROVE Step
  <2>. DEFINE w == fees.withdrawal
              n == fees.next_withdrawal
  <2>1. w \in Nat /\ n \in Nat
    BY <1>1 DEF Inv, TypeOK, Fees, Bps
  <2>2. fees'.withdrawal <= DEPOSIT_WITHDRAWAL_FEE_CAP_BPS
    BY <1>1, NextPendingFee DEF PendingFeeOK
  <2>3. CASE fees'.withdrawal = w
    BY <2>1, <2>2, <2>3 DEF FEE_BUMP_BPS
  <2>4. CASE fees'.withdrawal = n /\ n - w > FEE_BUMP_BPS
    <3>1. n - w \in Nat /\ saturating_sub(n, w) = n - w
      BY <2>1, <2>4 DEF saturating_sub, FEE_BUMP_BPS
    <3>2. w > 0 /\ ((n - w) * MAX_BPS) \div w <= FEE_RATE_OF_CHANGE_BPS
      BY <1>1, <2>4, <3>1 DEF PendingFeeOK, check_fee_change_ok
    <3>3. (n - w) * MAX_BPS \in Nat /\ FEE_RATE_OF_CHANGE_BPS \in Nat
      BY <3>1 DEF MAX_BPS, FEE_RATE_OF_CHANGE_BPS
    <3>4. (n - w) * MAX_BPS < (FEE_RATE_OF_CHANGE_BPS + 1) * w
      BY <2>1, <3>2, <3>3, RateBound
    <3>. QED
      BY <2>2, <2>4, <3>4
  <2>5. CASE fees'.withdrawal = n /\ ~(n - w > FEE_BUMP_BPS)
    BY <2>2, <2>5
  <2>. QED
    BY <1>1, <2>3, <2>4, <2>5, NextPendingFee
<1>2. Inv /\ PendingFeeOK /\ [Next]_vars => PendingFeeOK'
  BY NextPendingFee
<1>3. Inv /\ PendingFeeOK /\ [Next]_vars => [Step]_vars
  BY <1>1
<1>. QED
  BY <1>2, <1>3, InitInv, NextInv, InitPendingFee, PTL
  DEF Spec, WithdrawalFeeRateBounded
=============================================================================
