----------------------------- MODULE AdminRoles -----------------------------
(***************************************************************************)
(* The admin of a vault, NCN, operator or of the vault program's config,   *)
(* and the secondary roles of each: who holds them as admins hand over.    *)
(* All roles of an account are treated alike, so their names are left to   *)
(* the instance; the config's only one is fee_admin.                       *)
(***************************************************************************)
EXTENDS TLAPS

CONSTANTS
  Keys,         \* keys that can sign
  NoKey,        \* Pubkey::default()
  Owned,        \* vaults, NCNs and operators
  Configs,      \* the config of the vault program
  Roles,
  Unset         \* the roles nobody holds at first: a vault's mint_burn_admin

VARIABLES
  admin,        \* per account
  role,         \* per account and role: the key that holds it
  former        \* per account: admins that handed over and were not appointed since

vars == <<admin, role, former>>

Accounts == Owned \cup Configs

ASSUME RolesAssumption == Owned \cap Configs = {} /\ Roles # {} /\ NoKey \notin Keys

(* Whoever initializes an account holds its roles.                         *)
Init ==
  \E creator \in [Accounts -> Keys] :
    /\ admin = creator
    /\ role = [a \in Accounts |-> [r \in Roles |->
          IF a \in Owned /\ r \in Unset THEN NoKey ELSE creator[a]]]
    /\ former = [a \in Accounts |-> {}]

(* Mutant: a role that was added later is forgotten.                       *)
MissOneRole(holders, old, new) ==
  [r \in Roles |-> IF holders[r] = old /\ r # CHOOSE s \in Roles : TRUE THEN new ELSE holders[r]]

(* Replace all secondary admins that were equal to the old admin.          *)
update_secondary_admin(holders, old, new) ==
  [r \in Roles |-> IF holders[r] = old THEN new ELSE holders[r]]

HandsOver(a, new) ==
  /\ admin' = [admin EXCEPT ![a] = new]
  /\ former' = [former EXCEPT ![a] = (@ \cup {admin[a]}) \ {new}]

(* SetAdmin, NcnSetAdmin, OperatorSetAdmin: both admins sign.              *)
SetAdmin(a, new) ==
  /\ a \in Owned
  /\ HandsOver(a, new)
  /\ role' = [role EXCEPT ![a] = update_secondary_admin(@, admin[a], new)]

(* SetConfigAdmin gives the new admin every role, whoever held it.         *)
SetConfigAdmin(a, new) ==
  /\ a \in Configs
  /\ HandsOver(a, new)
  /\ role' = [role EXCEPT ![a] = [r \in Roles |-> new]]

(* The admin appoints k: SetSecondaryAdmin, NcnSetSecondaryAdmin,          *)
(* OperatorSetSecondaryAdmin, SetConfigSecondaryAdmin.                     *)
SetSecondaryAdmin(a, r, k) ==
  /\ role' = [role EXCEPT ![a][r] = k]
  /\ former' = [former EXCEPT ![a] = @ \ {k}]
  /\ UNCHANGED admin

Next ==
  \E a \in Accounts, k \in Keys :
    \/ SetAdmin(a, k)
    \/ SetConfigAdmin(a, k)
    \/ \E r \in Roles, n \in {k, NoKey} : SetSecondaryAdmin(a, r, n)

Spec == Init /\ [][Next]_vars

-----------------------------------------------------------------------------
(* The types of the accounts' fields.                                      *)
TypeOK ==
  /\ admin \in [Accounts -> Keys]
  /\ role \in [Accounts -> [Roles -> Keys \cup {NoKey}]]
  /\ former \in [Accounts -> SUBSET Keys]

(* An admin that has handed an account over holds nothing of it any more,  *)
(* neither the roles it was created with nor those it was appointed to     *)
(* before it became admin, until an admin appoints it again.               *)
FormerAdminsHoldNothing ==
  \A a \in Accounts :
    /\ admin[a] \notin former[a]
    /\ \A r \in Roles : role[a][r] \notin former[a]

-----------------------------------------------------------------------------
(* FormerAdminsHoldNothing is inductive with the types, which come first.  *)
LEMMA TypesPreserved == Spec => []TypeOK
<1>1. Init => TypeOK
  BY DEF Init, TypeOK
<1>2. TypeOK /\ [Next]_vars => TypeOK'
  <2> SUFFICES ASSUME TypeOK, [Next]_vars PROVE TypeOK'
    OBVIOUS
  <2>1. ASSUME NEW a \in Accounts, NEW k \in Keys, SetAdmin(a, k) PROVE TypeOK'
    BY <2>1 DEF TypeOK, SetAdmin, HandsOver, update_secondary_admin
  <2>2. ASSUME NEW a \in Accounts, NEW k \in Keys, SetConfigAdmin(a, k) PROVE TypeOK'
    BY <2>2 DEF TypeOK, SetConfigAdmin, HandsOver
  <2>3. ASSUME NEW a \in Accounts, NEW k \in Keys \cup {NoKey}, NEW r \in Roles,
               SetSecondaryAdmin(a, r, k)
        PROVE  TypeOK'
    BY <2>3 DEF TypeOK, SetSecondaryAdmin
  <2>4. CASE UNCHANGED vars
    BY <2>4 DEF TypeOK, vars
  <2> QED
    BY <2>1, <2>2, <2>3, <2>4 DEF Next
<1> QED
  BY <1>1, <1>2, PTL DEF Spec

(* For any number of keys, accounts and roles, an admin that has handed    *)
(* over holds nothing until it is appointed again.                         *)
THEOREM FormerAdmins == Spec => []FormerAdminsHoldNothing
<1>1. Init => FormerAdminsHoldNothing
  BY DEF Init, FormerAdminsHoldNothing
<1>2. TypeOK /\ FormerAdminsHoldNothing /\ [Next]_vars => FormerAdminsHoldNothing'
  <2> SUFFICES ASSUME TypeOK, FormerAdminsHoldNothing, [Next]_vars
               PROVE  FormerAdminsHoldNothing'
    OBVIOUS
  <2>1. ASSUME NEW a \in Accounts, NEW k \in Keys, SetAdmin(a, k)
        PROVE  FormerAdminsHoldNothing'
    BY <2>1 DEF TypeOK, FormerAdminsHoldNothing, SetAdmin, HandsOver, update_secondary_admin
  <2>2. ASSUME NEW a \in Accounts, NEW k \in Keys, SetConfigAdmin(a, k)
        PROVE  FormerAdminsHoldNothing'
    BY <2>2 DEF TypeOK, FormerAdminsHoldNothing, SetConfigAdmin, HandsOver
  <2>3. ASSUME NEW a \in Accounts, NEW k \in Keys \cup {NoKey}, NEW r \in Roles,
               SetSecondaryAdmin(a, r, k)
        PROVE  FormerAdminsHoldNothing'
    BY <2>3 DEF TypeOK, FormerAdminsHoldNothing, SetSecondaryAdmin
  <2>4. CASE UNCHANGED vars
    BY <2>4 DEF FormerAdminsHoldNothing, vars
  <2> QED
    BY <2>1, <2>2, <2>3, <2>4 DEF Next
<1> QED
  BY <1>1, <1>2, TypesPreserved, PTL DEF Spec
=============================================================================
