------------------------------- MODULE OptIn -------------------------------
(***************************************************************************)
(* The relations between NCNs, operators, vaults and slashers that the     *)
(* restaking program and the vault program keep.  Each relation is an      *)
(* account (a ticket) that exists at most once, has an index among the     *)
(* tickets of the account that counts them, and carries a SlotToggle per   *)
(* party that has to opt in.  Of a vault only its UpdateGate matters here. *)
(*                                                                         *)
(* As in Vault, an instruction is one atomic action sent by whoever is     *)
(* entitled to send it, and tickets are never closed.                      *)
(***************************************************************************)
EXTENDS SlotToggle, FiniteSets

CONSTANTS
  Ncns, Operators, Vaults, Slashers,
  None,               \* an account that does not exist
  SlashLimits,        \* arguments max_slashable_per_epoch
  PauseValues,        \* arguments of SetIsPaused
  MaxSlot,            \* bound on the clock
  MaxTickets          \* bound on the tickets that exist together

VARIABLES
  slot,
  config,             \* ncn_count and operator_count of the restaking Config
  ncns, operators,    \* the Ncn and Operator accounts: index and counters, or None
  vaults,             \* per vault: its counters of tickets
  last_full_state_update_slot, is_paused,   \* per vault
  index,              \* ticket -> its index, or None
  toggle,             \* side of a ticket -> its SlotToggle, or None
  max_slashable,      \* slasher ticket -> max_slashable_per_epoch, or None
  slashed             \* the VaultNcnSlasherOperatorTickets that exist

gateVars    == <<last_full_state_update_slot, is_paused>>
accountVars == <<config, ncns, operators, vaults>>
ticketVars  == <<index, max_slashable, slashed>>
vars        == <<slot, gateVars, accountVars, ticketVars, toggle>>

-----------------------------------------------------------------------------
(* A ticket is named by the seeds of its address.                          *)
NcnOperatorState(n, o)            == <<"NcnOperatorState", n, o>>
OperatorVaultTicket(o, v)         == <<"OperatorVaultTicket", o, v>>
NcnVaultTicket(n, v)              == <<"NcnVaultTicket", n, v>>
NcnVaultSlasherTicket(n, v, s)    == <<"NcnVaultSlasherTicket", n, v, s>>
VaultNcnTicket(v, n)              == <<"VaultNcnTicket", v, n>>
VaultNcnSlasherTicket(v, n, s)    == <<"VaultNcnSlasherTicket", v, n, s>>

SlasherTickets ==
  {NcnVaultSlasherTicket(n, v, s) : n \in Ncns, v \in Vaults, s \in Slashers}
    \cup {VaultNcnSlasherTicket(v, n, s) : n \in Ncns, v \in Vaults, s \in Slashers}

Tickets ==
  {NcnOperatorState(n, o) : n \in Ncns, o \in Operators}
    \cup {OperatorVaultTicket(o, v) : o \in Operators, v \in Vaults}
    \cup {NcnVaultTicket(n, v) : n \in Ncns, v \in Vaults}
    \cup {VaultNcnTicket(v, n) : v \in Vaults, n \in Ncns}
    \cup SlasherTickets

(* The NcnOperatorState has two sides; any other ticket has one.           *)
NcnSide(n, o)      == <<"ncn_opt_in_state", n, o>>
OperatorSide(n, o) == <<"operator_opt_in_state", n, o>>

Sides ==
  {NcnSide(n, o) : n \in Ncns, o \in Operators}
    \cup {OperatorSide(n, o) : n \in Ncns, o \in Operators}
    \cup {t \in Tickets : t[1] # "NcnOperatorState"}

TicketOf(side) ==
  IF side[1] \in {"ncn_opt_in_state", "operator_opt_in_state"}
  THEN NcnOperatorState(side[2], side[3]) ELSE side

ASSUME OptInAssumption ==
  /\ MaxSlot \in Nat /\ MaxTickets \in Nat
  /\ SlashLimits \subseteq Nat
  /\ PauseValues \subseteq BOOLEAN
  /\ None \notin Nat /\ None \notin SlotToggles
  /\ None \notin [index : Nat, operator_count : Nat, vault_count : Nat, slasher_count : Nat]
  /\ None \notin [index : Nat, ncn_count : Nat, vault_count : Nat]

NcnAccounts ==
  [index : Nat, operator_count : Nat, vault_count : Nat, slasher_count : Nat]

OperatorAccounts == [index : Nat, ncn_count : Nat, vault_count : Nat]

TypeOK ==
  /\ slot \in Nat
  /\ config \in [ncn_count : Nat, operator_count : Nat]
  /\ ncns \in [Ncns -> NcnAccounts \cup {None}]
  /\ operators \in [Operators -> OperatorAccounts \cup {None}]
  /\ vaults \in [Vaults -> [ncn_count : Nat, slasher_count : Nat]]
  /\ last_full_state_update_slot \in [Vaults -> Nat]
  /\ is_paused \in [Vaults -> BOOLEAN]
  /\ index \in [Tickets -> Nat \cup {None}]
  /\ toggle \in [Sides -> SlotToggles \cup {None}]
  /\ max_slashable \in [SlasherTickets -> Nat \cup {None}]
  /\ slashed \subseteq (Vaults \X Ncns \X Slashers \X Operators \X Nat)

-----------------------------------------------------------------------------
Gate(v) == INSTANCE UpdateGate WITH
             last_full_state_update_slot <- last_full_state_update_slot[v],
             is_paused <- is_paused[v]

Init ==
  /\ slot = 0
  /\ config = [ncn_count |-> 0, operator_count |-> 0]
  /\ ncns = [n \in Ncns |-> None]
  /\ operators = [o \in Operators |-> None]
  /\ vaults = [v \in Vaults |-> [ncn_count |-> 0, slasher_count |-> 0]]
  /\ last_full_state_update_slot = [v \in Vaults |-> 0]
  /\ is_paused = [v \in Vaults |-> FALSE]
  /\ index = [t \in Tickets |-> None]
  /\ toggle = [s \in Sides |-> None]
  /\ max_slashable = [t \in SlasherTickets |-> None]
  /\ slashed = {}

InitializeNcn(n) ==
  /\ ncns[n] = None
  /\ ncns' = [ncns EXCEPT ![n] =
       [index |-> config.ncn_count, operator_count |-> 0, vault_count |-> 0,
        slasher_count |-> 0]]
  /\ config' = [config EXCEPT !.ncn_count = @ + 1]
  /\ UNCHANGED <<slot, gateVars, operators, vaults, ticketVars, toggle>>

InitializeOperator(o) ==
  /\ operators[o] = None
  /\ operators' = [operators EXCEPT ![o] =
       [index |-> config.operator_count, ncn_count |-> 0, vault_count |-> 0]]
  /\ config' = [config EXCEPT !.operator_count = @ + 1]
  /\ UNCHANGED <<slot, gateVars, ncns, vaults, ticketVars, toggle>>

-----------------------------------------------------------------------------
(* A new ticket with index i, whose sides are all Inactive.                *)
CreateTicket(t, i) ==
  /\ index[t] = None
  /\ Cardinality({u \in Tickets : index[u] # None}) < MaxTickets
  /\ index' = [index EXCEPT ![t] = i]
  /\ toggle' = [side \in Sides |->
                  IF TicketOf(side) = t THEN new(slot) ELSE toggle[side]]

(* Both parties count the relation; only the NCN's counter is its index.   *)
InitializeNcnOperatorState(n, o) ==
  /\ ncns[n] # None /\ operators[o] # None
  /\ CreateTicket(NcnOperatorState(n, o), ncns[n].operator_count)
  /\ ncns' = [ncns EXCEPT ![n].operator_count = @ + 1]
  /\ operators' = [operators EXCEPT ![o].ncn_count = @ + 1]
  /\ UNCHANGED <<slot, gateVars, config, vaults, max_slashable, slashed>>

InitializeOperatorVaultTicket(o, v) ==
  LET t == OperatorVaultTicket(o, v)
  IN  /\ operators[o] # None
      /\ CreateTicket(t, operators[o].vault_count)
      /\ operators' = [operators EXCEPT ![o].vault_count = @ + 1]
      /\ UNCHANGED <<slot, gateVars, config, ncns, vaults, max_slashable, slashed>>

InitializeNcnVaultTicket(n, v) ==
  LET t == NcnVaultTicket(n, v)
  IN  /\ ncns[n] # None
      /\ CreateTicket(t, ncns[n].vault_count)
      /\ ncns' = [ncns EXCEPT ![n].vault_count = @ + 1]
      /\ UNCHANGED <<slot, gateVars, config, operators, vaults, max_slashable, slashed>>

(* Mutant: the counter of the tickets is not advanced.                     *)
NcnSlasherTicketUncounted(n, v, s, limit) ==
  LET t == NcnVaultSlasherTicket(n, v, s)
  IN  /\ ncns[n] # None
      /\ index[NcnVaultTicket(n, v)] # None
      /\ CreateTicket(t, ncns[n].slasher_count)
      /\ max_slashable' = [max_slashable EXCEPT ![t] = limit]
      /\ UNCHANGED <<slot, gateVars, accountVars, slashed>>

InitializeNcnVaultSlasherTicket(n, v, s, limit) ==
  LET t == NcnVaultSlasherTicket(n, v, s)
  IN  /\ ncns[n] # None
      /\ index[NcnVaultTicket(n, v)] # None
      /\ CreateTicket(t, ncns[n].slasher_count)
      /\ max_slashable' = [max_slashable EXCEPT ![t] = limit]
      /\ ncns' = [ncns EXCEPT ![n].slasher_count = @ + 1]
      /\ UNCHANGED <<slot, gateVars, config, operators, vaults, slashed>>

-----------------------------------------------------------------------------
(* The vault's side, open only while the vault is operational.             *)

InitializeVaultNcnTicket(v, n) ==
  LET t == VaultNcnTicket(v, n)
  IN  /\ Gate(v)!Operational
      /\ index[NcnVaultTicket(n, v)] # None
      /\ CreateTicket(t, vaults[v].ncn_count)
      /\ vaults' = [vaults EXCEPT ![v].ncn_count = @ + 1]
      /\ UNCHANGED <<slot, gateVars, config, ncns, operators, max_slashable, slashed>>

(* Mutant: the NCN's ticket for the slasher is not asked for.              *)
VaultSlasherTicketUnasked(v, n, s) ==
  LET t == VaultNcnSlasherTicket(v, n, s)
  IN  /\ Gate(v)!Operational
      /\ CreateTicket(t, vaults[v].slasher_count)
      /\ max_slashable' = [max_slashable EXCEPT
           ![t] = max_slashable[NcnVaultSlasherTicket(n, v, s)]]
      /\ vaults' = [vaults EXCEPT ![v].slasher_count = @ + 1]
      /\ UNCHANGED <<slot, gateVars, config, ncns, operators, slashed>>

(* The limit is copied from the NCN's ticket.                              *)
InitializeVaultNcnSlasherTicket(v, n, s) ==
  LET t == VaultNcnSlasherTicket(v, n, s)
  IN  /\ Gate(v)!Operational
      /\ index[NcnVaultSlasherTicket(n, v, s)] # None
      /\ CreateTicket(t, vaults[v].slasher_count)
      /\ max_slashable' = [max_slashable EXCEPT
           ![t] = max_slashable[NcnVaultSlasherTicket(n, v, s)]]
      /\ vaults' = [vaults EXCEPT ![v].slasher_count = @ + 1]
      /\ UNCHANGED <<slot, gateVars, config, ncns, operators, slashed>>

InitializeVaultNcnSlasherOperatorTicket(v, n, s, o) ==
  LET t == <<v, n, s, o, get_epoch(slot)>>
  IN  /\ Gate(v)!Operational
      /\ ncns[n] # None /\ operators[o] # None
      /\ index[VaultNcnSlasherTicket(v, n, s)] # None
      /\ t \notin slashed
      /\ slashed' = slashed \cup {t}
      /\ UNCHANGED <<slot, gateVars, accountVars, index, max_slashable, toggle>>

-----------------------------------------------------------------------------
(* Warm-up and cooldown of one side *)

Warmup(side) ==
  /\ toggle[side] # None
  /\ CanActivate(toggle[side], slot)
  /\ toggle' = [toggle EXCEPT ![side] = activate(@, slot)]
  /\ UNCHANGED <<slot, gateVars, accountVars, ticketVars>>

Cooldown(side) ==
  /\ toggle[side] # None
  /\ CanDeactivate(toggle[side], slot)
  /\ toggle' = [toggle EXCEPT ![side] = deactivate(@, slot)]
  /\ UNCHANGED <<slot, gateVars, accountVars, ticketVars>>

NcnWarmupOperator(n, o)   == Warmup(NcnSide(n, o))
NcnCooldownOperator(n, o) == Cooldown(NcnSide(n, o))
OperatorWarmupNcn(n, o)   == Warmup(OperatorSide(n, o))
OperatorCooldownNcn(n, o) == Cooldown(OperatorSide(n, o))

WarmupOperatorVaultTicket(o, v)   == Warmup(OperatorVaultTicket(o, v))
CooldownOperatorVaultTicket(o, v) == Cooldown(OperatorVaultTicket(o, v))

WarmupNcnVaultTicket(n, v)   == Warmup(NcnVaultTicket(n, v))
CooldownNcnVaultTicket(n, v) == Cooldown(NcnVaultTicket(n, v))

WarmupNcnVaultSlasherTicket(n, v, s) ==
  index[NcnVaultTicket(n, v)] # None /\ Warmup(NcnVaultSlasherTicket(n, v, s))

CooldownNcnVaultSlasherTicket(n, v, s) == Cooldown(NcnVaultSlasherTicket(n, v, s))

WarmupVaultNcnTicket(v, n) ==
  Gate(v)!Operational /\ Warmup(VaultNcnTicket(v, n))

CooldownVaultNcnTicket(v, n) ==
  Gate(v)!Operational /\ Cooldown(VaultNcnTicket(v, n))

WarmupVaultNcnSlasherTicket(v, n, s) ==
  Gate(v)!Operational /\ Warmup(VaultNcnSlasherTicket(v, n, s))

CooldownVaultNcnSlasherTicket(v, n, s) ==
  Gate(v)!Operational /\ Cooldown(VaultNcnSlasherTicket(v, n, s))

-----------------------------------------------------------------------------
(* The vault's epoch update, in the one step UpdateGate abstracts it to.   *)
UpdateVault(v) ==
  /\ Gate(v)!is_update_needed
  /\ ~is_paused[v]
  /\ last_full_state_update_slot' = [last_full_state_update_slot EXCEPT ![v] = slot]
  /\ UNCHANGED <<slot, is_paused, accountVars, ticketVars, toggle>>

SetIsPaused(v, paused) ==
  /\ is_paused' = [is_paused EXCEPT ![v] = paused]
  /\ UNCHANGED <<slot, last_full_state_update_slot, accountVars, ticketVars, toggle>>

Tick ==
  /\ slot < MaxSlot
  /\ slot' = slot + 1
  /\ UNCHANGED <<gateVars, accountVars, ticketVars, toggle>>

Next ==
  \/ \E n \in Ncns : InitializeNcn(n)
  \/ \E o \in Operators : InitializeOperator(o)
  \/ \E n \in Ncns, o \in Operators :
       \/ InitializeNcnOperatorState(n, o)
       \/ NcnWarmupOperator(n, o)
       \/ NcnCooldownOperator(n, o)
       \/ OperatorWarmupNcn(n, o)
       \/ OperatorCooldownNcn(n, o)
  \/ \E o \in Operators, v \in Vaults :
       \/ InitializeOperatorVaultTicket(o, v)
       \/ WarmupOperatorVaultTicket(o, v)
       \/ CooldownOperatorVaultTicket(o, v)
  \/ \E n \in Ncns, v \in Vaults :
       \/ InitializeNcnVaultTicket(n, v)
       \/ WarmupNcnVaultTicket(n, v)
       \/ CooldownNcnVaultTicket(n, v)
       \/ InitializeVaultNcnTicket(v, n)
       \/ WarmupVaultNcnTicket(v, n)
       \/ CooldownVaultNcnTicket(v, n)
  \/ \E n \in Ncns, v \in Vaults, s \in Slashers :
       \/ \E limit \in SlashLimits : InitializeNcnVaultSlasherTicket(n, v, s, limit)
       \/ WarmupNcnVaultSlasherTicket(n, v, s)
       \/ CooldownNcnVaultSlasherTicket(n, v, s)
       \/ InitializeVaultNcnSlasherTicket(v, n, s)
       \/ WarmupVaultNcnSlasherTicket(v, n, s)
       \/ CooldownVaultNcnSlasherTicket(v, n, s)
       \/ \E o \in Operators : InitializeVaultNcnSlasherOperatorTicket(v, n, s, o)
  \/ \E v \in Vaults : UpdateVault(v)
  \/ \E v \in Vaults, p \in PauseValues : SetIsPaused(v, p)
  \/ Tick

Spec == Init /\ [][Next]_vars
=============================================================================
