------------------------- MODULE CrankerProperties -------------------------
(***************************************************************************)
(* What the clients can rely on although all they know may be stale.       *)
(***************************************************************************)
EXTENDS Cranker

Driving(c) == job[c].pc \notin {"slot", "vaults", "delegations"}

(* The tracker a client works on is that of the running epoch.             *)
TrackerIsCurrent(c) == EpochOf(c) = CurrentEpoch /\ EpochOf(c) \in DOMAIN trackers

(* A client drives an update with a list of operators it read earlier, and *)
(* decides from its length whether to close: as long as that update runs   *)
(* the list is complete.  The slot is read before the operators, and one   *)
(* that joins afterwards needs a vault updated in that epoch or later, by  *)
(* which time the tracker of the epoch is done with.                       *)
SnapshotComplete ==
  \A c \in Crankers :
    Driving(c) /\ TrackerIsCurrent(c) => job[c].operators = SortedOperators

NotUpdated == {i \in 0 .. operator_count - 1 : ~check_is_already_updated(i, slot)}

(* The operators the program will accept next, in its order.               *)
Remaining(e) ==
  [k \in 1 .. Cardinality(NotUpdated) |-> (NextIndex(e) + k - 1) % operator_count]

(* The start and end index, the wrap-around and the filter of updated      *)
(* operators give exactly the operators that are left, in the order the    *)
(* program demands, for an update at any point, unless another client has  *)
(* moved the tracker since it was read.                                    *)
PlanIsRemainder ==
  \A c \in Crankers :
    ( /\ job[c].pc = "check" /\ job[c].unchecked = <<>>
      /\ TrackerIsCurrent(c) /\ trackers[EpochOf(c)] = job[c].seen )
    => job[c].plan = Remaining(EpochOf(c))

(* Whatever is lost, late, repeated or done by a competing client, a vault *)
(* that needs an update gets one, or is paused, or the epoch ends.  With a *)
(* clock that stops at MaxSlot it must succeed in the last epoch.          *)
CrankersComplete == is_update_needed ~> (~is_update_needed \/ is_paused)
=============================================================================
