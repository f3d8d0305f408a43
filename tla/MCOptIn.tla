------------------------------ MODULE MCOptIn ------------------------------
(***************************************************************************)
(* A small instance of the opt-in relations: MaxTickets bounds how many of *)
(* its tickets exist together, so every combination of that many occurs.   *)
(* A side needs five epochs to warm up, cool down and warm up again; to    *)
(* leave room for that, MaxOptIns bounds how many sides do so.             *)
(***************************************************************************)
EXTENDS OptInProperties, TLC

CONSTANTS
  n1, o1, v1, sl1, sl2,
  MaxOptIns           \* bound on the sides that have opted in, ever

(* The two slots of a side are equal until it opts in, and never again.    *)
OptedIn == {side \in Sides : toggle[side] # None /\ toggle[side] # new(toggle[side].slot_added)}

(* The step by which one side more opts in is still taken and checked.     *)
FewOptIns == Cardinality(OptedIn) <= MaxOptIns

AnySlasher == Permutations(Slashers)
=============================================================================
