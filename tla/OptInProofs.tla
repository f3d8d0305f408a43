---------------------------- MODULE OptInProofs ----------------------------
(***************************************************************************)
(* The opt-in relations for any number of parties and any epoch length.    *)
(***************************************************************************)
EXTENDS OptInProperties, TLAPS

(* No request lies in the future.                                          *)
RequestsInPast ==
  \A side \in Sides : toggle[side] # None =>
    toggle[side].slot_added <= slot /\ toggle[side].slot_removed <= slot

(* What a step may do to one side: nothing, or what the toggle's own       *)
(* operations do to it in the current slot.                                *)
SideStep(side) ==
  \/ toggle'[side] = toggle[side]
  \/ toggle[side] = None /\ toggle'[side] = new(slot)
  \/ /\ toggle[side] # None
     /\ CanActivate(toggle[side], slot)
     /\ toggle'[side] = activate(toggle[side], slot)
  \/ /\ toggle[side] # None
     /\ CanDeactivate(toggle[side], slot)
     /\ toggle'[side] = deactivate(toggle[side], slot)

(* A side exists exactly when its ticket does.                             *)
SidesHaveTickets ==
  \A side \in Sides : toggle[side] # None <=> index[TicketOf(side)] # None

ToggleInv == TypeOK /\ RequestsInPast /\ SidesHaveTickets

-----------------------------------------------------------------------------
(* get_epoch of a natural is a natural, and a slot lasts at most an epoch. *)
LEMMA EpochFacts ==
  ASSUME NEW s \in Nat
  PROVE  /\ get_epoch(s) \in Nat
         /\ get_epoch(s + 1) \in {get_epoch(s), get_epoch(s) + 1}
         /\ \A r \in Nat : r <= s => get_epoch(r) <= get_epoch(s)
<1>1. EpochLength \in Nat /\ EpochLength > 0
  BY EpochLengthAssumption
<1>2. ASSUME NEW a \in Nat, NEW e \in Nat, e > 0
      PROVE  a \div e \in Nat /\ (a + 1) \div e \in {a \div e, (a \div e) + 1}
  BY <1>2
<1>3. ASSUME NEW a \in Nat, NEW b \in Nat, NEW e \in Nat, e > 0, a <= b
      PROVE  a \div e <= b \div e
  BY <1>3
<1>. QED
  BY <1>1, <1>2, <1>3 DEF get_epoch

(* The names of tickets are tickets.                                       *)
LEMMA TicketNames ==
  /\ \A n \in Ncns, o \in Operators : NcnOperatorState(n, o) \in Tickets
  /\ \A o \in Operators, v \in Vaults : OperatorVaultTicket(o, v) \in Tickets
  /\ \A n \in Ncns, v \in Vaults :
       NcnVaultTicket(n, v) \in Tickets /\ VaultNcnTicket(v, n) \in Tickets
  /\ \A n \in Ncns, v \in Vaults, s \in Slashers :
       /\ NcnVaultSlasherTicket(n, v, s) \in SlasherTickets
       /\ VaultNcnSlasherTicket(v, n, s) \in SlasherTickets
  /\ SlasherTickets \subseteq Tickets
  BY DEF Tickets, SlasherTickets

(* CreateTicket makes toggles that did not exist, in the current slot.     *)
LEMMA CreateStep ==
  ASSUME ToggleInv, NEW t \in Tickets, NEW i \in Nat, CreateTicket(t, i)
  PROVE  /\ index' \in [Tickets -> Nat \cup {None}]
         /\ \A side \in Sides : SideStep(side)
         /\ \A side \in Sides :
              toggle'[side] # None <=> index'[TicketOf(side)] # None
<1>0. new(slot) # None /\ i # None
  BY OptInAssumption DEF new, SlotToggles, ToggleInv, TypeOK
<1>1. index' \in [Tickets -> Nat \cup {None}]
  BY DEF CreateTicket, ToggleInv, TypeOK
<1>2. ASSUME NEW side \in Sides
      PROVE  SideStep(side) /\ (toggle'[side] # None <=> index'[TicketOf(side)] # None)
  <2>1. CASE TicketOf(side) = t
    <3>1. toggle[side] = None
      BY <2>1 DEF ToggleInv, SidesHaveTickets, CreateTicket
    <3>2. toggle'[side] = new(slot)
      BY <2>1 DEF CreateTicket
    <3>3. index'[TicketOf(side)] = i
      BY <2>1 DEF CreateTicket, ToggleInv, TypeOK
    <3>. QED
      BY <1>0, <3>1, <3>2, <3>3 DEF SideStep
  <2>2. CASE TicketOf(side) # t
    <3>1. toggle'[side] = toggle[side]
      BY <2>2 DEF CreateTicket
    <3>2. index'[TicketOf(side)] = index[TicketOf(side)]
      BY <2>2 DEF CreateTicket, ToggleInv, TypeOK
    <3>. QED
      BY <3>1, <3>2 DEF SideStep, ToggleInv, SidesHaveTickets
  <2>. QED
    BY <2>1, <2>2
<1>. QED
  BY <1>1, <1>2

(* The counters that become indices are naturals.                          *)
LEMMA CountersAreNaturals ==
  ASSUME TypeOK
  PROVE  /\ \A n \in Ncns : ncns[n] # None => ncns[n] \in NcnAccounts
         /\ \A o \in Operators : operators[o] # None => operators[o] \in OperatorAccounts
         /\ \A v \in Vaults : vaults[v] \in [ncn_count : Nat, slasher_count : Nat]
  BY DEF TypeOK

(* What every step that leaves the slot alone gives the invariant.         *)
Preserves ==
  /\ TypeOK'
  /\ \A side \in Sides : SideStep(side)
  /\ SidesHaveTickets'

(* A handler that creates a ticket keeps what its other assignments keep.  *)
LEMMA CreatePreserves ==
  ASSUME ToggleInv, NEW t \in Tickets, NEW i \in Nat, CreateTicket(t, i),
         UNCHANGED <<slot, config, last_full_state_update_slot, is_paused, slashed>>,
         ncns' \in [Ncns -> NcnAccounts \cup {None}],
         operators' \in [Operators -> OperatorAccounts \cup {None}],
         vaults' \in [Vaults -> [ncn_count : Nat, slasher_count : Nat]],
         max_slashable' \in [SlasherTickets -> Nat \cup {None}]
  PROVE  Preserves
<1>1. new(slot) \in SlotToggles
  BY DEF new, SlotToggles, ToggleInv, TypeOK
<1>2. toggle' \in [Sides -> SlotToggles \cup {None}]
  BY <1>1 DEF CreateTicket, ToggleInv, TypeOK
<1>3. /\ index' \in [Tickets -> Nat \cup {None}]
      /\ \A side \in Sides : SideStep(side)
      /\ SidesHaveTickets'
  BY CreateStep DEF SidesHaveTickets
<1>4. TypeOK'
  BY <1>2, <1>3 DEF TypeOK, ToggleInv
<1>. QED
  BY <1>3, <1>4 DEF Preserves

InitializeTicket ==
  \/ \E n \in Ncns, o \in Operators : InitializeNcnOperatorState(n, o)
  \/ \E o \in Operators, v \in Vaults : InitializeOperatorVaultTicket(o, v)
  \/ \E n \in Ncns, v \in Vaults : InitializeNcnVaultTicket(n, v)
  \/ \E n \in Ncns, v \in Vaults, s \in Slashers, limit \in SlashLimits :
       InitializeNcnVaultSlasherTicket(n, v, s, limit)
  \/ \E n \in Ncns, v \in Vaults : InitializeVaultNcnTicket(v, n)
  \/ \E n \in Ncns, v \in Vaults, s \in Slashers :
       InitializeVaultNcnSlasherTicket(v, n, s)

(* The initialize handlers keep the types and bring in fresh sides.        *)
LEMMA InitializePreserves ==
  ASSUME ToggleInv, InitializeTicket
  PROVE  Preserves
<1>0. TypeOK
  BY DEF ToggleInv
<1>1. ASSUME NEW n \in Ncns, NEW o \in Operators, InitializeNcnOperatorState(n, o)
      PROVE  Preserves
  <2>1. ncns[n] \in NcnAccounts /\ operators[o] \in OperatorAccounts
    BY <1>0, <1>1, CountersAreNaturals DEF InitializeNcnOperatorState
  <2>2. CreateTicket(NcnOperatorState(n, o), ncns[n].operator_count)
    BY <1>1 DEF InitializeNcnOperatorState
  <2>3. ncns[n].operator_count \in Nat /\ NcnOperatorState(n, o) \in Tickets
    BY <2>1, TicketNames DEF NcnAccounts
  <2>4. ncns' \in [Ncns -> NcnAccounts \cup {None}]
    BY <1>0, <1>1, <2>1 DEF InitializeNcnOperatorState, NcnAccounts, TypeOK
  <2>5. operators' \in [Operators -> OperatorAccounts \cup {None}]
    BY <1>0, <1>1, <2>1 DEF InitializeNcnOperatorState, OperatorAccounts, TypeOK
  <2>6. UNCHANGED <<slot, config, vaults, last_full_state_update_slot, is_paused,
                    max_slashable, slashed>>
    BY <1>1 DEF InitializeNcnOperatorState, gateVars
  <2>. QED
    BY <1>0, <2>2, <2>3, <2>4, <2>5, <2>6, CreatePreserves DEF TypeOK
<1>2. ASSUME NEW o \in Operators, NEW v \in Vaults,
             InitializeOperatorVaultTicket(o, v)
      PROVE  Preserves
  <2>1. operators[o] \in OperatorAccounts
    BY <1>0, <1>2, CountersAreNaturals DEF InitializeOperatorVaultTicket
  <2>2. CreateTicket(OperatorVaultTicket(o, v), operators[o].vault_count)
    BY <1>2 DEF InitializeOperatorVaultTicket
  <2>3. operators[o].vault_count \in Nat /\ OperatorVaultTicket(o, v) \in Tickets
    BY <2>1, TicketNames DEF OperatorAccounts
  <2>4. operators' \in [Operators -> OperatorAccounts \cup {None}]
    BY <1>0, <1>2, <2>1 DEF InitializeOperatorVaultTicket, OperatorAccounts, TypeOK
  <2>5. UNCHANGED <<slot, config, ncns, vaults, last_full_state_update_slot,
                    is_paused, max_slashable, slashed>>
    BY <1>2 DEF InitializeOperatorVaultTicket, gateVars
  <2>. QED
    BY <1>0, <2>2, <2>3, <2>4, <2>5, CreatePreserves DEF TypeOK
<1>3. ASSUME NEW n \in Ncns, NEW v \in Vaults,
             InitializeNcnVaultTicket(n, v)
      PROVE  Preserves
  <2>1. ncns[n] \in NcnAccounts
    BY <1>0, <1>3, CountersAreNaturals DEF InitializeNcnVaultTicket
  <2>2. CreateTicket(NcnVaultTicket(n, v), ncns[n].vault_count)
    BY <1>3 DEF InitializeNcnVaultTicket
  <2>3. ncns[n].vault_count \in Nat /\ NcnVaultTicket(n, v) \in Tickets
    BY <2>1, TicketNames DEF NcnAccounts
  <2>4. ncns' \in [Ncns -> NcnAccounts \cup {None}]
    BY <1>0, <1>3, <2>1 DEF InitializeNcnVaultTicket, NcnAccounts, TypeOK
  <2>5. UNCHANGED <<slot, config, operators, vaults, last_full_state_update_slot,
                    is_paused, max_slashable, slashed>>
    BY <1>3 DEF InitializeNcnVaultTicket, gateVars
  <2>. QED
    BY <1>0, <2>2, <2>3, <2>4, <2>5, CreatePreserves DEF TypeOK
<1>4. ASSUME NEW n \in Ncns, NEW v \in Vaults, NEW s \in Slashers, NEW limit \in SlashLimits,
             InitializeNcnVaultSlasherTicket(n, v, s, limit)
      PROVE  Preserves
  <2>1. ncns[n] \in NcnAccounts
    BY <1>0, <1>4, CountersAreNaturals DEF InitializeNcnVaultSlasherTicket
  <2>2. CreateTicket(NcnVaultSlasherTicket(n, v, s), ncns[n].slasher_count)
    BY <1>4 DEF InitializeNcnVaultSlasherTicket
  <2>3. ncns[n].slasher_count \in Nat /\ NcnVaultSlasherTicket(n, v, s) \in Tickets
    BY <2>1, TicketNames DEF NcnAccounts
  <2>4. ncns' \in [Ncns -> NcnAccounts \cup {None}]
    BY <1>0, <1>4, <2>1 DEF InitializeNcnVaultSlasherTicket, NcnAccounts, TypeOK
  <2>5. UNCHANGED <<slot, config, operators, vaults, last_full_state_update_slot,
                    is_paused, slashed>>
    BY <1>4 DEF InitializeNcnVaultSlasherTicket, gateVars
  <2>6. max_slashable' \in [SlasherTickets -> Nat \cup {None}]
    BY <1>0, <1>4, TicketNames, OptInAssumption DEF InitializeNcnVaultSlasherTicket, TypeOK
  <2>. QED
    BY <1>0, <2>2, <2>3, <2>4, <2>5, <2>6, CreatePreserves DEF TypeOK
<1>5. ASSUME NEW n \in Ncns, NEW v \in Vaults,
             InitializeVaultNcnTicket(v, n)
      PROVE  Preserves
  <2>1. vaults[v] \in [ncn_count : Nat, slasher_count : Nat]
    BY <1>0, <1>5, CountersAreNaturals DEF InitializeVaultNcnTicket
  <2>2. CreateTicket(VaultNcnTicket(v, n), vaults[v].ncn_count)
    BY <1>5 DEF InitializeVaultNcnTicket
  <2>3. vaults[v].ncn_count \in Nat /\ VaultNcnTicket(v, n) \in Tickets
    BY <2>1, TicketNames
  <2>4. vaults' \in [Vaults -> [ncn_count : Nat, slasher_count : Nat]]
    BY <1>0, <1>5, <2>1 DEF InitializeVaultNcnTicket, TypeOK
  <2>5. UNCHANGED <<slot, config, ncns, operators, last_full_state_update_slot,
                    is_paused, max_slashable, slashed>>
    BY <1>5 DEF InitializeVaultNcnTicket, gateVars
  <2>. QED
    BY <1>0, <2>2, <2>3, <2>4, <2>5, CreatePreserves DEF TypeOK
<1>6. ASSUME NEW n \in Ncns, NEW v \in Vaults, NEW s \in Slashers,
             InitializeVaultNcnSlasherTicket(v, n, s)
      PROVE  Preserves
  <2>1. vaults[v] \in [ncn_count : Nat, slasher_count : Nat]
    BY <1>0, <1>6, CountersAreNaturals DEF InitializeVaultNcnSlasherTicket
  <2>2. CreateTicket(VaultNcnSlasherTicket(v, n, s), vaults[v].slasher_count)
    BY <1>6 DEF InitializeVaultNcnSlasherTicket
  <2>3. vaults[v].slasher_count \in Nat /\ VaultNcnSlasherTicket(v, n, s) \in Tickets
    BY <2>1, TicketNames
  <2>4. vaults' \in [Vaults -> [ncn_count : Nat, slasher_count : Nat]]
    BY <1>0, <1>6, <2>1 DEF InitializeVaultNcnSlasherTicket, TypeOK
  <2>5. UNCHANGED <<slot, config, ncns, operators, last_full_state_update_slot,
                    is_paused, slashed>>
    BY <1>6 DEF InitializeVaultNcnSlasherTicket, gateVars
  <2>6. max_slashable' \in [SlasherTickets -> Nat \cup {None}]
    BY <1>0, <1>6, TicketNames, OptInAssumption DEF InitializeVaultNcnSlasherTicket, TypeOK
  <2>. QED
    BY <1>0, <2>2, <2>3, <2>4, <2>5, <2>6, CreatePreserves DEF TypeOK
<1>. QED
  BY <1>1, <1>2, <1>3, <1>4, <1>5, <1>6 DEF InitializeTicket

(* Every warm-up and cooldown handler is Warmup or Cooldown of one side.   *)
SideRequest == \E side \in Sides : Warmup(side) \/ Cooldown(side)

(* The sides named by the handlers are sides.                              *)
LEMMA SideNames ==
  /\ \A n \in Ncns, o \in Operators : NcnSide(n, o) \in Sides /\ OperatorSide(n, o) \in Sides
  /\ \A o \in Operators, v \in Vaults : OperatorVaultTicket(o, v) \in Sides
  /\ \A n \in Ncns, v \in Vaults :
       NcnVaultTicket(n, v) \in Sides /\ VaultNcnTicket(v, n) \in Sides
  /\ \A n \in Ncns, v \in Vaults, s \in Slashers :
       /\ NcnVaultSlasherTicket(n, v, s) \in Sides
       /\ VaultNcnSlasherTicket(v, n, s) \in Sides
<1>1. \A n \in Ncns, o \in Operators : NcnSide(n, o) \in Sides /\ OperatorSide(n, o) \in Sides
  BY DEF Sides
<1>2. ASSUME NEW o \in Operators, NEW v \in Vaults
      PROVE  OperatorVaultTicket(o, v) \in Sides
  <2>1. OperatorVaultTicket(o, v)[1] = "OperatorVaultTicket"
    BY DEF OperatorVaultTicket
  <2>. QED
    BY <2>1, TicketNames DEF Sides
<1>3. ASSUME NEW n \in Ncns, NEW v \in Vaults
      PROVE  NcnVaultTicket(n, v) \in Sides
  <2>1. NcnVaultTicket(n, v)[1] = "NcnVaultTicket"
    BY DEF NcnVaultTicket
  <2>. QED
    BY <2>1, TicketNames DEF Sides
<1>4. ASSUME NEW n \in Ncns, NEW v \in Vaults
      PROVE  VaultNcnTicket(v, n) \in Sides
  <2>1. VaultNcnTicket(v, n)[1] = "VaultNcnTicket"
    BY DEF VaultNcnTicket
  <2>. QED
    BY <2>1, TicketNames DEF Sides
<1>5. ASSUME NEW n \in Ncns, NEW v \in Vaults, NEW s \in Slashers
      PROVE  NcnVaultSlasherTicket(n, v, s) \in Sides
  <2>1. NcnVaultSlasherTicket(n, v, s)[1] = "NcnVaultSlasherTicket"
    BY DEF NcnVaultSlasherTicket
  <2>. QED
    BY <2>1, TicketNames DEF Sides
<1>6. ASSUME NEW n \in Ncns, NEW v \in Vaults, NEW s \in Slashers
      PROVE  VaultNcnSlasherTicket(v, n, s) \in Sides
  <2>1. VaultNcnSlasherTicket(v, n, s)[1] = "VaultNcnSlasherTicket"
    BY DEF VaultNcnSlasherTicket
  <2>. QED
    BY <2>1, TicketNames DEF Sides
<1>. QED
  BY <1>1, <1>2, <1>3, <1>4, <1>5, <1>6

(* A request changes one side as its toggle's operation does.              *)
LEMMA RequestPreserves ==
  ASSUME ToggleInv, SideRequest
  PROVE  Preserves
<1>1. PICK side \in Sides : Warmup(side) \/ Cooldown(side)
  BY DEF SideRequest
<1>2. toggle[side] \in SlotToggles /\ slot \in Nat
  BY <1>1 DEF ToggleInv, TypeOK, Warmup, Cooldown
<1>3. activate(toggle[side], slot) \in SlotToggles /\ deactivate(toggle[side], slot) \in SlotToggles
  BY <1>2 DEF activate, deactivate, SlotToggles
<1>4. None \notin SlotToggles
  BY OptInAssumption
<1>5. UNCHANGED <<slot, config, ncns, operators, vaults, last_full_state_update_slot,
                  is_paused, index, max_slashable, slashed>>
  BY <1>1 DEF Warmup, Cooldown, gateVars, accountVars, ticketVars
<1>6. /\ toggle' \in [Sides -> SlotToggles \cup {None}]
      /\ \A other \in Sides \ {side} : toggle'[other] = toggle[other]
      /\ toggle'[side] \in SlotToggles
      /\ SideStep(side)
  BY <1>1, <1>3 DEF Warmup, Cooldown, ToggleInv, TypeOK, SideStep
<1>7. TypeOK'
  BY <1>5, <1>6 DEF TypeOK, ToggleInv
<1>8. \A other \in Sides : SideStep(other)
  BY <1>6 DEF SideStep
<1>9. SidesHaveTickets'
  BY <1>2, <1>4, <1>5, <1>6 DEF SidesHaveTickets, ToggleInv
<1>. QED
  BY <1>7, <1>8, <1>9 DEF Preserves

(* The remaining steps leave tickets and sides alone.                      *)
OtherStep ==
  \/ \E n \in Ncns : InitializeNcn(n)
  \/ \E o \in Operators : InitializeOperator(o)
  \/ \E n \in Ncns, v \in Vaults, s \in Slashers, o \in Operators :
       InitializeVaultNcnSlasherOperatorTicket(v, n, s, o)
  \/ \E v \in Vaults : UpdateVault(v)
  \/ \E v \in Vaults, p \in PauseValues : SetIsPaused(v, p)

(* They keep the types.                                                    *)
LEMMA OtherPreserves ==
  ASSUME ToggleInv, OtherStep \/ Tick
  PROVE  Preserves
<1>0. TypeOK /\ SidesHaveTickets
  BY DEF ToggleInv
<1>. SUFFICES UNCHANGED <<toggle, index>> /\ TypeOK'
  BY <1>0 DEF Preserves, SidesHaveTickets, SideStep
<1>1. UNCHANGED <<toggle, index, max_slashable, vaults>>
  BY DEF OtherStep, Tick, InitializeNcn, InitializeOperator, ticketVars, accountVars,
         InitializeVaultNcnSlasherOperatorTicket, UpdateVault, SetIsPaused
<1>3. CASE \E n \in Ncns : InitializeNcn(n)
  BY <1>0, <1>3, <1>1 DEF InitializeNcn, TypeOK, NcnAccounts, gateVars, ticketVars
<1>4. CASE \E o \in Operators : InitializeOperator(o)
  BY <1>0, <1>4, <1>1 DEF InitializeOperator, TypeOK, OperatorAccounts, gateVars, ticketVars
<1>5. ASSUME NEW n \in Ncns, NEW v \in Vaults, NEW s \in Slashers, NEW o \in Operators,
             InitializeVaultNcnSlasherOperatorTicket(v, n, s, o)
      PROVE  TypeOK'
  <2>1. get_epoch(slot) \in Nat
    BY <1>0, EpochFacts DEF TypeOK
  <2>2. slashed' \subseteq (Vaults \X Ncns \X Slashers \X Operators \X Nat)
    BY <1>0, <1>5, <2>1 DEF InitializeVaultNcnSlasherOperatorTicket, TypeOK
  <2>. QED
    BY <1>0, <1>1, <1>5, <2>2
    DEF InitializeVaultNcnSlasherOperatorTicket, TypeOK, gateVars, accountVars
<1>6. CASE \E v \in Vaults : UpdateVault(v)
  BY <1>0, <1>6, <1>1 DEF UpdateVault, TypeOK, accountVars, ticketVars
<1>7. CASE \E v \in Vaults, p \in PauseValues : SetIsPaused(v, p)
  BY <1>0, <1>7, <1>1, OptInAssumption DEF SetIsPaused, TypeOK, accountVars, ticketVars
<1>8. CASE Tick
  BY <1>0, <1>8, <1>1 DEF Tick, TypeOK, gateVars, accountVars, ticketVars
<1>. QED
  BY <1>1, <1>3, <1>4, <1>5, <1>6, <1>7, <1>8 DEF OtherStep

(* Every step is one of these.                                             *)
LEMMA NextCases ==
  ASSUME Next
  PROVE  InitializeTicket \/ SideRequest \/ OtherStep \/ Tick
<1>1. ASSUME NEW n \in Ncns, NEW o \in Operators,
             \/ NcnWarmupOperator(n, o) \/ NcnCooldownOperator(n, o)
             \/ OperatorWarmupNcn(n, o) \/ OperatorCooldownNcn(n, o)
      PROVE  SideRequest
  BY <1>1, SideNames DEF SideRequest, NcnWarmupOperator, NcnCooldownOperator,
                         OperatorWarmupNcn, OperatorCooldownNcn
<1>2. ASSUME NEW o \in Operators, NEW v \in Vaults,
             WarmupOperatorVaultTicket(o, v) \/ CooldownOperatorVaultTicket(o, v)
      PROVE  SideRequest
  BY <1>2, SideNames DEF SideRequest, WarmupOperatorVaultTicket, CooldownOperatorVaultTicket
<1>3. ASSUME NEW n \in Ncns, NEW v \in Vaults,
             \/ WarmupNcnVaultTicket(n, v) \/ CooldownNcnVaultTicket(n, v)
             \/ WarmupVaultNcnTicket(v, n) \/ CooldownVaultNcnTicket(v, n)
      PROVE  SideRequest
  BY <1>3, SideNames DEF SideRequest, WarmupNcnVaultTicket, CooldownNcnVaultTicket,
                         WarmupVaultNcnTicket, CooldownVaultNcnTicket
<1>4. ASSUME NEW n \in Ncns, NEW v \in Vaults, NEW s \in Slashers,
             \/ WarmupNcnVaultSlasherTicket(n, v, s) \/ CooldownNcnVaultSlasherTicket(n, v, s)
             \/ WarmupVaultNcnSlasherTicket(v, n, s) \/ CooldownVaultNcnSlasherTicket(v, n, s)
      PROVE  SideRequest
  BY <1>4, SideNames DEF SideRequest, WarmupNcnVaultSlasherTicket,
       CooldownNcnVaultSlasherTicket, WarmupVaultNcnSlasherTicket,
       CooldownVaultNcnSlasherTicket
<1>. QED
  BY <1>1, <1>2, <1>3, <1>4, ZenonT(30) DEF Next, InitializeTicket, OtherStep

(* Every side belongs to a ticket.                                         *)
LEMMA TicketsOfSides == \A side \in Sides : TicketOf(side) \in Tickets
<1>. SUFFICES ASSUME NEW side \in Sides PROVE TicketOf(side) \in Tickets
  OBVIOUS
<1>1. CASE side \in {NcnSide(n, o) : n \in Ncns, o \in Operators}
  <2>1. PICK n \in Ncns, o \in Operators : side = NcnSide(n, o)
    BY <1>1
  <2>2. TicketOf(side) = NcnOperatorState(n, o)
    BY <2>1 DEF TicketOf, NcnSide
  <2>. QED
    BY <2>2, TicketNames
<1>2. CASE side \in {OperatorSide(n, o) : n \in Ncns, o \in Operators}
  <2>1. PICK n \in Ncns, o \in Operators : side = OperatorSide(n, o)
    BY <1>2
  <2>2. TicketOf(side) = NcnOperatorState(n, o)
    BY <2>1 DEF TicketOf, OperatorSide
  <2>. QED
    BY <2>2, TicketNames
<1>3. CASE side \in Tickets
  <2>1. side[1] \notin {"ncn_opt_in_state", "operator_opt_in_state"}
    BY <1>3 DEF Tickets, SlasherTickets, NcnOperatorState, OperatorVaultTicket,
         NcnVaultTicket, VaultNcnTicket, NcnVaultSlasherTicket, VaultNcnSlasherTicket
  <2>. QED
    BY <1>3, <2>1 DEF TicketOf
<1>. QED
  BY <1>1, <1>2, <1>3 DEF Sides

(* Init, and what a step does to slot and sides.                           *)
LEMMA InitToggleInv == Init => ToggleInv
<1>. SUFFICES ASSUME Init PROVE ToggleInv
  OBVIOUS
<1>1. TypeOK
  BY DEF Init, TypeOK
<1>. QED
  BY <1>1, TicketsOfSides DEF Init, ToggleInv, RequestsInPast, SidesHaveTickets

(* A side changes only within a slot, and a slot passes alone.             *)
LEMMA StepPreserves ==
  ASSUME ToggleInv, [Next]_vars
  PROVE  /\ Preserves
         /\ \/ slot' = slot
            \/ slot' = slot + 1 /\ toggle' = toggle
<1>1. CASE UNCHANGED vars
  <2>1. UNCHANGED <<slot, config, ncns, operators, vaults, last_full_state_update_slot,
                    is_paused, index, max_slashable, slashed, toggle>>
    BY <1>1 DEF vars, gateVars, accountVars, ticketVars
  <2>2. TypeOK'
    BY <2>1 DEF TypeOK, ToggleInv
  <2>. QED
    BY <2>1, <2>2 DEF Preserves, SideStep, SidesHaveTickets, ToggleInv
<1>2. CASE InitializeTicket
  <2>1. slot' = slot
    BY <1>2 DEF InitializeTicket, InitializeNcnOperatorState,
         InitializeOperatorVaultTicket, InitializeNcnVaultTicket,
         InitializeNcnVaultSlasherTicket, InitializeVaultNcnTicket,
         InitializeVaultNcnSlasherTicket
  <2>. QED
    BY <1>2, <2>1, InitializePreserves
<1>3. CASE SideRequest
  BY <1>3, RequestPreserves DEF SideRequest, Warmup, Cooldown
<1>4. CASE OtherStep
  <2>1. slot' = slot
    BY <1>4 DEF OtherStep, InitializeNcn, InitializeOperator,
         InitializeVaultNcnSlasherOperatorTicket, UpdateVault, SetIsPaused
  <2>. QED
    BY <1>4, <2>1, OtherPreserves
<1>5. CASE Tick
  BY <1>5, OtherPreserves DEF Tick
<1>. QED
  BY <1>1, <1>2, <1>3, <1>4, <1>5, NextCases

(* The invariant is inductive.                                             *)
LEMMA NextToggleInv == ToggleInv /\ [Next]_vars => ToggleInv'
<1>. SUFFICES ASSUME ToggleInv, [Next]_vars PROVE ToggleInv'
  OBVIOUS
<1>1. Preserves /\ slot' \in Nat /\ slot <= slot'
  BY StepPreserves DEF ToggleInv, TypeOK
<1>2. ASSUME NEW side \in Sides, toggle'[side] # None
      PROVE  toggle'[side].slot_added <= slot' /\ toggle'[side].slot_removed <= slot'
  <2>1. SideStep(side)
    BY <1>1 DEF Preserves
  <2>2. CASE toggle'[side] = toggle[side]
    <3>1. toggle[side] \in SlotToggles
      BY <1>2, <2>2 DEF ToggleInv, TypeOK
    <3>. QED
      BY <1>1, <1>2, <2>2, <3>1 DEF ToggleInv, RequestsInPast, TypeOK, SlotToggles
  <2>3. CASE toggle'[side] = new(slot)
    BY <1>1, <2>3 DEF new, ToggleInv, TypeOK
  <2>4. CASE toggle[side] # None /\ toggle'[side] \in {activate(toggle[side], slot),
                                                      deactivate(toggle[side], slot)}
    <3>1. toggle[side] \in SlotToggles
      BY <2>4 DEF ToggleInv, TypeOK
    <3>2. toggle[side].slot_added <= slot /\ toggle[side].slot_removed <= slot
      BY <2>4 DEF ToggleInv, RequestsInPast
    <3>. QED
      BY <1>1, <2>4, <3>1, <3>2 DEF activate, deactivate, SlotToggles, ToggleInv, TypeOK
  <2>. QED
    BY <2>1, <2>2, <2>3, <2>4 DEF SideStep
<1>. QED
  BY <1>1, <1>2 DEF ToggleInv, Preserves, RequestsInPast

-----------------------------------------------------------------------------
(* state depends on the slot only through its epoch.                       *)
LEMMA StateByEpoch ==
  ASSUME NEW t, NEW r, NEW s, get_epoch(r) = get_epoch(s)
  PROVE  state(t, r) = state(t, s)
  BY DEF state, FullEpochPassed

(* activate puts an Inactive toggle into warm-up, requested in this epoch. *)
LEMMA ActivateWarmsUp ==
  ASSUME NEW s \in Nat, NEW t \in SlotToggles,
         t.slot_added <= s, t.slot_removed <= s, CanActivate(t, s)
  PROVE  /\ state(activate(t, s), s) = "WarmUp"
         /\ LastRequest(activate(t, s)) = s
<1>1. get_epoch(s) \in Nat /\ get_epoch(t.slot_removed) \in Nat
  BY EpochFacts DEF SlotToggles
<1>2. t.slot_removed < s
  <2>1. CASE t.slot_added = t.slot_removed
    BY <2>1 DEF CanActivate, SlotToggles
  <2>2. CASE t.slot_added < t.slot_removed
    <3>1. FullEpochPassed(t.slot_removed, s)
      BY <2>2 DEF CanActivate, state, SlotToggles
    <3>2. t.slot_removed # s
      BY <1>1, <3>1 DEF FullEpochPassed
    <3>. QED
      BY <3>2 DEF SlotToggles
  <2>3. CASE t.slot_removed < t.slot_added
    BY <2>3 DEF SlotToggles
  <2>. QED
    BY <2>1, <2>2, <2>3 DEF SlotToggles
<1>3. activate(t, s).slot_added = s /\ activate(t, s).slot_removed = t.slot_removed
  BY DEF activate, SlotToggles
<1>4. ~FullEpochPassed(s, s)
  BY <1>1 DEF FullEpochPassed
<1>. QED
  BY <1>2, <1>3, <1>4 DEF state, LastRequest, SlotToggles

(* deactivate puts an Active toggle into cooldown, requested in this epoch. *)
LEMMA DeactivateCoolsDown ==
  ASSUME NEW s \in Nat, NEW t \in SlotToggles,
         t.slot_added <= s, t.slot_removed <= s, CanDeactivate(t, s)
  PROVE  /\ state(deactivate(t, s), s) = "Cooldown"
         /\ LastRequest(deactivate(t, s)) = s
<1>1. get_epoch(s) \in Nat /\ get_epoch(t.slot_added) \in Nat
  BY EpochFacts DEF SlotToggles
<1>2. t.slot_removed < t.slot_added /\ FullEpochPassed(t.slot_added, s)
  BY DEF CanDeactivate, state, SlotToggles
<1>3. t.slot_added < s
  <2>1. t.slot_added # s
    BY <1>1, <1>2 DEF FullEpochPassed
  <2>. QED
    BY <2>1 DEF SlotToggles
<1>4. deactivate(t, s).slot_removed = s /\ deactivate(t, s).slot_added = t.slot_added
  BY DEF deactivate, SlotToggles
<1>5. ~FullEpochPassed(s, s)
  BY <1>1 DEF FullEpochPassed
<1>. QED
  BY <1>3, <1>4, <1>5 DEF state, LastRequest, SlotToggles

(* When the next epoch begins, a toggle moves on as the lifecycle says.    *)
LEMMA EpochPassesForToggle ==
  ASSUME NEW s \in Nat, NEW t \in SlotToggles,
         t.slot_added <= s, t.slot_removed <= s,
         get_epoch(s + 1) = get_epoch(s) + 1
  PROVE  state(t, s + 1) =
           IF get_epoch(s) + 1 <= get_epoch(LastRequest(t)) + 1 THEN state(t, s)
           ELSE IF state(t, s) = "WarmUp" THEN "Active"
           ELSE IF state(t, s) = "Cooldown" THEN "Inactive"
           ELSE state(t, s)
<1>1. /\ get_epoch(s) \in Nat /\ get_epoch(t.slot_added) \in Nat
      /\ get_epoch(t.slot_removed) \in Nat
  BY EpochFacts DEF SlotToggles
<1>2. CASE t.slot_added = t.slot_removed
  BY <1>2 DEF state
<1>3. CASE t.slot_added < t.slot_removed
  BY <1>1, <1>3 DEF state, LastRequest, FullEpochPassed, SlotToggles
<1>4. CASE t.slot_removed < t.slot_added
  BY <1>1, <1>4 DEF state, LastRequest, FullEpochPassed, SlotToggles
<1>. QED
  BY <1>2, <1>3, <1>4 DEF SlotToggles

(* One step of the program is a step, or a stutter, of each side's         *)
(* lifecycle.                                                              *)
LEMMA LifecycleStep ==
  ASSUME ToggleInv, [Next]_vars, NEW side \in Sides
  PROVE  [Lifecycle(side)!Next]_(Lifecycle(side)!vars)
<1>0. slot \in Nat /\ get_epoch(slot) \in Nat /\ None \notin SlotToggles
  BY EpochFacts, OptInAssumption DEF ToggleInv, TypeOK
<1>1. SideStep(side) /\ (slot' = slot \/ (slot' = slot + 1 /\ toggle' = toggle))
  BY StepPreserves DEF Preserves
<1>2. toggle[side] # None =>
        /\ toggle[side] \in SlotToggles
        /\ toggle[side].slot_added <= slot /\ toggle[side].slot_removed <= slot
  BY DEF ToggleInv, TypeOK, RequestsInPast
<1>3. CASE slot' = slot /\ toggle'[side] = toggle[side]
  BY <1>3 DEF Lifecycle!vars
<1>4. CASE slot' = slot /\ toggle[side] = None /\ toggle'[side] = new(slot)
  <2>1. new(slot) # None /\ state(new(slot), slot) = "Inactive" /\ LastRequest(new(slot)) = slot
    BY <1>0 DEF new, state, LastRequest, SlotToggles
  <2>2. Lifecycle(side)!Create
    BY <1>4, <2>1 DEF Lifecycle!Create
  <2>. QED
    BY <2>2 DEF Lifecycle!Next
<1>5. CASE /\ slot' = slot /\ toggle[side] # None
           /\ CanActivate(toggle[side], slot)
           /\ toggle'[side] = activate(toggle[side], slot)
  <2>1. activate(toggle[side], slot) # None
    BY <1>0, <1>2, <1>5 DEF activate, SlotToggles
  <2>2. state(toggle[side], slot) = "Inactive"
    BY <1>5 DEF CanActivate
  <2>3. Lifecycle(side)!WarmUp
    BY <1>0, <1>2, <1>5, <2>1, <2>2, ActivateWarmsUp DEF Lifecycle!WarmUp
  <2>. QED
    BY <2>3 DEF Lifecycle!Next
<1>6. CASE /\ slot' = slot /\ toggle[side] # None
           /\ CanDeactivate(toggle[side], slot)
           /\ toggle'[side] = deactivate(toggle[side], slot)
  <2>1. deactivate(toggle[side], slot) # None
    BY <1>0, <1>2, <1>6 DEF deactivate, SlotToggles
  <2>2. state(toggle[side], slot) = "Active"
    BY <1>6 DEF CanDeactivate
  <2>3. Lifecycle(side)!Cooldown
    BY <1>0, <1>2, <1>6, <2>1, <2>2, DeactivateCoolsDown DEF Lifecycle!Cooldown
  <2>. QED
    BY <2>3 DEF Lifecycle!Next
<1>7. CASE slot' = slot + 1 /\ toggle' = toggle
  <2>1. CASE get_epoch(slot + 1) = get_epoch(slot)
    BY <1>7, <2>1, StateByEpoch DEF Lifecycle!vars
  <2>2. CASE get_epoch(slot + 1) = get_epoch(slot) + 1
    <3>1. Lifecycle(side)!EpochPasses
      <4>1. CASE toggle[side] = None
        BY <1>0, <1>7, <2>2, <4>1 DEF Lifecycle!EpochPasses, Lifecycle!PhaseAfter
      <4>2. CASE toggle[side] # None
        BY <1>0, <1>2, <1>7, <2>2, <4>2, EpochPassesForToggle
        DEF Lifecycle!EpochPasses, Lifecycle!PhaseAfter
      <4>. QED
        BY <4>1, <4>2
    <3>. QED
      BY <3>1 DEF Lifecycle!Next
  <2>. QED
    BY <1>0, <2>1, <2>2, EpochFacts
<1>. QED
  BY <1>1, <1>3, <1>4, <1>5, <1>6, <1>7 DEF SideStep

(* Every side of every ticket implements the lifecycle, for any parties    *)
(* and any epoch length.                                                   *)
THEOREM OptInLifecycle == Spec => OptInsFollowLifecycle
<1>1. Init => \A side \in Sides : Lifecycle(side)!Init
  <2>1. ASSUME Init, NEW side \in Sides
        PROVE  Lifecycle(side)!Init
    <3>1. toggle[side] = None /\ slot = 0 /\ get_epoch(0) \in Nat
      BY <2>1, EpochFacts DEF Init
    <3>. QED
      BY <3>1 DEF Lifecycle!Init
  <2>. QED
    BY <2>1
<1>2. ToggleInv /\ [Next]_vars =>
        [\A side \in Sides : [Lifecycle(side)!Next]_(Lifecycle(side)!vars)]_vars
  BY LifecycleStep
<1>. QED
  BY <1>1, <1>2, InitToggleInv, NextToggleInv, PTL DEF Spec, OptInsFollowLifecycle

-----------------------------------------------------------------------------
(* The accounts that number tickets of a kind, and the counter they use.   *)
(* An account that does not exist yet has no tickets, so it counts none.   *)
Owners ==
  ({"NcnOperatorState", "NcnVaultTicket", "NcnVaultSlasherTicket"} \X Ncns)
    \cup ({"OperatorVaultTicket"} \X Operators)
    \cup ({"VaultNcnTicket", "VaultNcnSlasherTicket"} \X Vaults)

Counter(kind, x) ==
  IF kind = "NcnOperatorState"
  THEN IF ncns[x] = None THEN 0 ELSE ncns[x].operator_count
  ELSE IF kind = "NcnVaultTicket"
  THEN IF ncns[x] = None THEN 0 ELSE ncns[x].vault_count
  ELSE IF kind = "NcnVaultSlasherTicket"
  THEN IF ncns[x] = None THEN 0 ELSE ncns[x].slasher_count
  ELSE IF kind = "OperatorVaultTicket"
  THEN IF operators[x] = None THEN 0 ELSE operators[x].vault_count
  ELSE IF kind = "VaultNcnTicket" THEN vaults[x].ncn_count
  ELSE vaults[x].slasher_count

Numbering ==
  \A p \in Owners : Numbered(index, TicketsOf(p[1], p[2]), Counter(p[1], p[2]))

(* Ticket t, and only it, is counted by its owner.                         *)
Counted(t) ==
  /\ t \in Tickets
  /\ CreateTicket(t, Counter(t[1], t[2]))
  /\ Counter(t[1], t[2]) \in Nat
  /\ \A p \in Owners : Counter(p[1], p[2])' =
       IF t[1] = p[1] /\ t[2] = p[2] THEN Counter(p[1], p[2]) + 1 ELSE Counter(p[1], p[2])

(* A new ticket that takes the counter as its index extends the numbering. *)
LEMMA NumberedNext ==
  ASSUME NEW f, NEW T \in SUBSET Tickets, f \in [Tickets -> Nat \cup {None}],
         NEW t \in T, NEW c \in Nat, f[t] = None, Numbered(f, T, c)
  PROVE  Numbered([f EXCEPT ![t] = c], T, c + 1)
<1>. DEFINE g == [f EXCEPT ![t] = c]
            live == {u \in T : f[u] # None}
<1>0. None \notin Nat
  BY OptInAssumption
<1>1. {u \in T : g[u] # None} = live \cup {t}
  BY <1>0
<1>2. g[t] = c /\ \A u \in live : u # t /\ g[u] = f[u] /\ f[u] \in Nat
  OBVIOUS
<1>3. /\ \A u \in live : f[u] < c
      /\ \A i \in 0 .. c - 1 : \E u \in live : f[u] = i
      /\ \A u, w \in live : f[u] = f[w] => u = w
  BY DEF Numbered
<1>. HIDE DEF g, live
<1>4. \A u \in live \cup {t} : g[u] < c + 1
  BY <1>2, <1>3
<1>5. \A i \in 0 .. (c + 1) - 1 : \E u \in live \cup {t} : g[u] = i
  BY <1>2, <1>3
<1>6. \A u, w \in live \cup {t} : g[u] = g[w] => u = w
  BY <1>2, <1>3
<1>7. Numbered(g, T, c + 1)
  BY <1>1, <1>4, <1>5, <1>6 DEF Numbered
<1>. QED
  BY <1>7 DEF g

(* Tickets of other accounts keep their numbering.                         *)
LEMMA NumberedOther ==
  ASSUME NEW f, NEW g, NEW T, NEW c, \A u \in T : g[u] = f[u], Numbered(f, T, c)
  PROVE  Numbered(g, T, c)
  BY DEF Numbered

(* What creating ticket t does to the numbering of one account's tickets.  *)
LEMMA CreateNumbers ==
  ASSUME index \in [Tickets -> Nat \cup {None}],
         NEW t \in Tickets, NEW c \in Nat, CreateTicket(t, c),
         NEW kind, NEW x, NEW d, Numbered(index, TicketsOf(kind, x), d),
         (t[1] = kind /\ t[2] = x) => d = c
  PROVE  Numbered(index', TicketsOf(kind, x),
                  IF t[1] = kind /\ t[2] = x THEN d + 1 ELSE d)
<1>1. index' = [index EXCEPT ![t] = c] /\ index[t] = None
  BY DEF CreateTicket
<1>2. TicketsOf(kind, x) \in SUBSET Tickets
  BY DEF TicketsOf
<1>3. CASE t[1] = kind /\ t[2] = x
  <2>1. t \in TicketsOf(kind, x)
    BY <1>3 DEF TicketsOf
  <2>. QED
    BY <1>1, <1>2, <1>3, <2>1, NumberedNext
<1>4. CASE ~(t[1] = kind /\ t[2] = x)
  <2>1. \A u \in TicketsOf(kind, x) : index'[u] = index[u]
    BY <1>1, <1>4 DEF TicketsOf
  <2>. QED
    BY <1>4, <2>1, NumberedOther
<1>. QED
  BY <1>3, <1>4

(* A counted ticket keeps every account's numbering.                       *)
LEMMA CountedNumbers ==
  ASSUME TypeOK, Numbering, NEW t, Counted(t)
  PROVE  Numbering'
<1>1. ASSUME NEW p \in Owners
      PROVE  Numbered(index', TicketsOf(p[1], p[2]), Counter(p[1], p[2])')
  <2>1. Numbered(index, TicketsOf(p[1], p[2]), Counter(p[1], p[2]))
    BY DEF Numbering
  <2>2. /\ t \in Tickets /\ index \in [Tickets -> Nat \cup {None}]
        /\ CreateTicket(t, Counter(t[1], t[2])) /\ Counter(t[1], t[2]) \in Nat
        /\ Counter(p[1], p[2])' =
             IF t[1] = p[1] /\ t[2] = p[2] THEN Counter(p[1], p[2]) + 1
             ELSE Counter(p[1], p[2])
    BY DEF Counted, TypeOK
  <2>3. t[1] = p[1] /\ t[2] = p[2] => Counter(p[1], p[2]) = Counter(t[1], t[2])
    OBVIOUS
  <2>. HIDE DEF Counter
  <2>. QED
    BY <2>1, <2>2, <2>3, CreateNumbers
<1>. QED
  BY <1>1 DEF Numbering

(* Incrementing one counter of an account leaves the others alone.         *)
SameNcns(n, counter) ==
  \A m \in Ncns :
    /\ ncns'[m] = None <=> ncns[m] = None
    /\ ncns[m] # None => \A c \in {"operator_count", "vault_count", "slasher_count"} :
         ncns'[m][c] = IF m = n /\ c = counter THEN ncns[m][c] + 1 ELSE ncns[m][c]

SameOperators(o, counter) ==
  \A m \in Operators :
    /\ operators'[m] = None <=> operators[m] = None
    /\ operators[m] # None => operators'[m].vault_count =
         IF m = o /\ counter = "vault_count" THEN operators[m].vault_count + 1
         ELSE operators[m].vault_count

(* An NCN's counter is incremented.                                        *)
LEMMA IncrementNcn ==
  ASSUME TypeOK, NEW n \in Ncns, ncns[n] # None,
         NEW counter \in {"operator_count", "vault_count", "slasher_count"},
         ncns' = [ncns EXCEPT ![n][counter] = @ + 1]
  PROVE  SameNcns(n, counter)
<1>1. \A m \in Ncns : ncns[m] # None => ncns[m] \in NcnAccounts
  BY CountersAreNaturals
<1>2. None \notin NcnAccounts
  BY OptInAssumption DEF NcnAccounts
<1>3. ncns'[n] = [ncns[n] EXCEPT ![counter] = @ + 1] /\ ncns'[n] \in NcnAccounts
  BY <1>1 DEF TypeOK, NcnAccounts
<1>4. \A m \in Ncns : m # n => ncns'[m] = ncns[m]
  BY DEF TypeOK
<1>5. \A c \in {"operator_count", "vault_count", "slasher_count"} :
        ncns'[n][c] = IF c = counter THEN ncns[n][c] + 1 ELSE ncns[n][c]
  BY <1>1, <1>3 DEF NcnAccounts
<1>. QED
  BY <1>1, <1>2, <1>3, <1>4, <1>5 DEF SameNcns

(* An operator's counter is incremented.                                   *)
LEMMA IncrementOperator ==
  ASSUME TypeOK, NEW o \in Operators, operators[o] # None,
         NEW counter \in {"ncn_count", "vault_count"},
         operators' = [operators EXCEPT ![o][counter] = @ + 1]
  PROVE  SameOperators(o, counter)
<1>1. \A m \in Operators : operators[m] # None => operators[m] \in OperatorAccounts
  BY CountersAreNaturals
<1>2. None \notin OperatorAccounts
  BY OptInAssumption DEF OperatorAccounts
<1>3. operators'[o] = [operators[o] EXCEPT ![counter] = @ + 1] /\ operators'[o] \in OperatorAccounts
  BY <1>1 DEF TypeOK, OperatorAccounts
<1>4. \A m \in Operators : m # o => operators'[m] = operators[m]
  BY DEF TypeOK
<1>5. operators'[o].vault_count = IF counter = "vault_count" THEN operators[o].vault_count + 1
                                  ELSE operators[o].vault_count
  BY <1>1, <1>3 DEF OperatorAccounts
<1>. QED
  BY <1>1, <1>2, <1>3, <1>4, <1>5 DEF SameOperators

(* Each initialize handler counts the ticket it creates.                   *)
LEMMA InitializeCounts ==
  ASSUME TypeOK, InitializeTicket
  PROVE  \E t : Counted(t)
<1>0. \A p \in Owners :
        \/ p[1] \in {"NcnOperatorState", "NcnVaultTicket", "NcnVaultSlasherTicket"} /\ p[2] \in Ncns
        \/ p[1] = "OperatorVaultTicket" /\ p[2] \in Operators
        \/ p[1] \in {"VaultNcnTicket", "VaultNcnSlasherTicket"} /\ p[2] \in Vaults
  BY DEF Owners
<1>1. ASSUME NEW n \in Ncns, NEW o \in Operators,
             InitializeNcnOperatorState(n, o)
      PROVE  Counted(NcnOperatorState(n, o))
  <2>. DEFINE t == NcnOperatorState(n, o)
  <2>1. t \in Tickets /\ t[1] = "NcnOperatorState" /\ t[2] = n
    BY TicketNames DEF NcnOperatorState
  <2>2. ncns[n] # None /\ ncns[n].operator_count \in Nat
    BY <1>1, CountersAreNaturals DEF InitializeNcnOperatorState, NcnAccounts
  <2>3. CreateTicket(t, ncns[n].operator_count) /\ vaults' = vaults
    BY <1>1 DEF InitializeNcnOperatorState
  <2>4. SameNcns(n, "operator_count")
    BY <1>1, IncrementNcn DEF InitializeNcnOperatorState
  <2>5. SameOperators(o, "ncn_count")
    BY <1>1, IncrementOperator DEF InitializeNcnOperatorState
  <2>. HIDE DEF t
  <2>6. Counter(t[1], t[2]) \in Nat /\ CreateTicket(t, Counter(t[1], t[2]))
    BY <2>1, <2>2, <2>3 DEF Counter
  <2>7. ASSUME NEW p \in Owners
        PROVE  Counter(p[1], p[2])' =
                 IF t[1] = p[1] /\ t[2] = p[2] THEN Counter(p[1], p[2]) + 1
                 ELSE Counter(p[1], p[2])
    BY <1>0, <2>1, <2>2, <2>3, <2>4, <2>5 DEF Counter, SameNcns, SameOperators
  <2>8. Counted(t)
    BY <2>1, <2>6, <2>7 DEF Counted
  <2>. QED
    BY <2>8 DEF t
<1>2. ASSUME NEW o \in Operators, NEW v \in Vaults,
             InitializeOperatorVaultTicket(o, v)
      PROVE  Counted(OperatorVaultTicket(o, v))
  <2>. DEFINE t == OperatorVaultTicket(o, v)
  <2>1. t \in Tickets /\ t[1] = "OperatorVaultTicket" /\ t[2] = o
    BY TicketNames DEF OperatorVaultTicket
  <2>2. operators[o] # None /\ operators[o].vault_count \in Nat
    BY <1>2, CountersAreNaturals DEF InitializeOperatorVaultTicket, OperatorAccounts
  <2>3. CreateTicket(t, operators[o].vault_count) /\ vaults' = vaults
    BY <1>2 DEF InitializeOperatorVaultTicket
  <2>4. ncns' = ncns
    BY <1>2 DEF InitializeOperatorVaultTicket
  <2>5. SameOperators(o, "vault_count")
    BY <1>2, IncrementOperator DEF InitializeOperatorVaultTicket
  <2>. HIDE DEF t
  <2>6. Counter(t[1], t[2]) \in Nat /\ CreateTicket(t, Counter(t[1], t[2]))
    BY <2>1, <2>2, <2>3 DEF Counter
  <2>7. ASSUME NEW p \in Owners
        PROVE  Counter(p[1], p[2])' =
                 IF t[1] = p[1] /\ t[2] = p[2] THEN Counter(p[1], p[2]) + 1
                 ELSE Counter(p[1], p[2])
    BY <1>0, <2>1, <2>2, <2>3, <2>4, <2>5 DEF Counter, SameOperators
  <2>8. Counted(t)
    BY <2>1, <2>6, <2>7 DEF Counted
  <2>. QED
    BY <2>8 DEF t
<1>3. ASSUME NEW n \in Ncns, NEW v \in Vaults,
             InitializeNcnVaultTicket(n, v)
      PROVE  Counted(NcnVaultTicket(n, v))
  <2>. DEFINE t == NcnVaultTicket(n, v)
  <2>1. t \in Tickets /\ t[1] = "NcnVaultTicket" /\ t[2] = n
    BY TicketNames DEF NcnVaultTicket
  <2>2. ncns[n] # None /\ ncns[n].vault_count \in Nat
    BY <1>3, CountersAreNaturals DEF InitializeNcnVaultTicket, NcnAccounts
  <2>3. CreateTicket(t, ncns[n].vault_count) /\ vaults' = vaults
    BY <1>3 DEF InitializeNcnVaultTicket
  <2>4. SameNcns(n, "vault_count")
    BY <1>3, IncrementNcn DEF InitializeNcnVaultTicket
  <2>5. operators' = operators
    BY <1>3 DEF InitializeNcnVaultTicket
  <2>. HIDE DEF t
  <2>6. Counter(t[1], t[2]) \in Nat /\ CreateTicket(t, Counter(t[1], t[2]))
    BY <2>1, <2>2, <2>3 DEF Counter
  <2>7. ASSUME NEW p \in Owners
        PROVE  Counter(p[1], p[2])' =
                 IF t[1] = p[1] /\ t[2] = p[2] THEN Counter(p[1], p[2]) + 1
                 ELSE Counter(p[1], p[2])
    BY <1>0, <2>1, <2>2, <2>3, <2>4, <2>5 DEF Counter, SameNcns
  <2>8. Counted(t)
    BY <2>1, <2>6, <2>7 DEF Counted
  <2>. QED
    BY <2>8 DEF t
<1>4. ASSUME NEW n \in Ncns, NEW v \in Vaults, NEW s \in Slashers, NEW limit \in SlashLimits,
             InitializeNcnVaultSlasherTicket(n, v, s, limit)
      PROVE  Counted(NcnVaultSlasherTicket(n, v, s))
  <2>. DEFINE t == NcnVaultSlasherTicket(n, v, s)
  <2>1. t \in Tickets /\ t[1] = "NcnVaultSlasherTicket" /\ t[2] = n
    BY TicketNames DEF NcnVaultSlasherTicket
  <2>2. ncns[n] # None /\ ncns[n].slasher_count \in Nat
    BY <1>4, CountersAreNaturals DEF InitializeNcnVaultSlasherTicket, NcnAccounts
  <2>3. CreateTicket(t, ncns[n].slasher_count) /\ vaults' = vaults
    BY <1>4 DEF InitializeNcnVaultSlasherTicket
  <2>4. SameNcns(n, "slasher_count")
    BY <1>4, IncrementNcn DEF InitializeNcnVaultSlasherTicket
  <2>5. operators' = operators
    BY <1>4 DEF InitializeNcnVaultSlasherTicket
  <2>. HIDE DEF t
  <2>6. Counter(t[1], t[2]) \in Nat /\ CreateTicket(t, Counter(t[1], t[2]))
    BY <2>1, <2>2, <2>3 DEF Counter
  <2>7. ASSUME NEW p \in Owners
        PROVE  Counter(p[1], p[2])' =
                 IF t[1] = p[1] /\ t[2] = p[2] THEN Counter(p[1], p[2]) + 1
                 ELSE Counter(p[1], p[2])
    BY <1>0, <2>1, <2>2, <2>3, <2>4, <2>5 DEF Counter, SameNcns
  <2>8. Counted(t)
    BY <2>1, <2>6, <2>7 DEF Counted
  <2>. QED
    BY <2>8 DEF t
<1>5. ASSUME NEW n \in Ncns, NEW v \in Vaults,
             InitializeVaultNcnTicket(v, n)
      PROVE  Counted(VaultNcnTicket(v, n))
  <2>. DEFINE t == VaultNcnTicket(v, n)
  <2>1. t \in Tickets /\ t[1] = "VaultNcnTicket" /\ t[2] = v
    BY TicketNames DEF VaultNcnTicket
  <2>2. vaults[v].ncn_count \in Nat
    BY CountersAreNaturals
  <2>3. CreateTicket(t, vaults[v].ncn_count) /\ ncns' = ncns /\ operators' = operators
    BY <1>5 DEF InitializeVaultNcnTicket
  <2>4. \A w \in Vaults : w # v => vaults'[w] = vaults[w]
    BY <1>5 DEF InitializeVaultNcnTicket, TypeOK
  <2>5. vaults'[v] = [vaults[v] EXCEPT !.ncn_count = @ + 1]
    BY <1>5 DEF InitializeVaultNcnTicket, TypeOK
  <2>. HIDE DEF t
  <2>6. Counter(t[1], t[2]) \in Nat /\ CreateTicket(t, Counter(t[1], t[2]))
    BY <2>1, <2>2, <2>3 DEF Counter
  <2>7. ASSUME NEW p \in Owners
        PROVE  Counter(p[1], p[2])' =
                 IF t[1] = p[1] /\ t[2] = p[2] THEN Counter(p[1], p[2]) + 1
                 ELSE Counter(p[1], p[2])
    BY <1>0, <2>1, <2>2, <2>3, <2>4, <2>5, CountersAreNaturals DEF Counter
  <2>8. Counted(t)
    BY <2>1, <2>6, <2>7 DEF Counted
  <2>. QED
    BY <2>8 DEF t
<1>6. ASSUME NEW n \in Ncns, NEW v \in Vaults, NEW s \in Slashers,
             InitializeVaultNcnSlasherTicket(v, n, s)
      PROVE  Counted(VaultNcnSlasherTicket(v, n, s))
  <2>. DEFINE t == VaultNcnSlasherTicket(v, n, s)
  <2>1. t \in Tickets /\ t[1] = "VaultNcnSlasherTicket" /\ t[2] = v
    BY TicketNames DEF VaultNcnSlasherTicket
  <2>2. vaults[v].slasher_count \in Nat
    BY CountersAreNaturals
  <2>3. CreateTicket(t, vaults[v].slasher_count) /\ ncns' = ncns /\ operators' = operators
    BY <1>6 DEF InitializeVaultNcnSlasherTicket
  <2>4. \A w \in Vaults : w # v => vaults'[w] = vaults[w]
    BY <1>6 DEF InitializeVaultNcnSlasherTicket, TypeOK
  <2>5. vaults'[v] = [vaults[v] EXCEPT !.slasher_count = @ + 1]
    BY <1>6 DEF InitializeVaultNcnSlasherTicket, TypeOK
  <2>. HIDE DEF t
  <2>6. Counter(t[1], t[2]) \in Nat /\ CreateTicket(t, Counter(t[1], t[2]))
    BY <2>1, <2>2, <2>3 DEF Counter
  <2>7. ASSUME NEW p \in Owners
        PROVE  Counter(p[1], p[2])' =
                 IF t[1] = p[1] /\ t[2] = p[2] THEN Counter(p[1], p[2]) + 1
                 ELSE Counter(p[1], p[2])
    BY <1>0, <2>1, <2>2, <2>3, <2>4, <2>5, CountersAreNaturals DEF Counter
  <2>8. Counted(t)
    BY <2>1, <2>6, <2>7 DEF Counted
  <2>. QED
    BY <2>8 DEF t
<1>. QED
  BY <1>1, <1>2, <1>3, <1>4, <1>5, <1>6 DEF InitializeTicket

(* Steps that create no ticket leave indices and counters alone.           *)
LEMMA OthersCountNothing ==
  ASSUME TypeOK, SideRequest \/ OtherStep \/ Tick \/ UNCHANGED vars
  PROVE  index' = index /\ \A p \in Owners : Counter(p[1], p[2])' = Counter(p[1], p[2])
<1>1. CASE \E n \in Ncns : InitializeNcn(n)
  <2>1. PICK n \in Ncns : InitializeNcn(n)
    BY <1>1
  <2>2. /\ index' = index /\ operators' = operators /\ vaults' = vaults
        /\ ncns[n] = None /\ \A m \in Ncns : m # n => ncns'[m] = ncns[m]
    BY <2>1 DEF InitializeNcn, ticketVars, TypeOK
  <2>3. /\ ncns'[n].operator_count = 0 /\ ncns'[n].vault_count = 0
        /\ ncns'[n].slasher_count = 0
    BY <2>1 DEF InitializeNcn, TypeOK
  <2>. QED
    BY <2>2, <2>3 DEF Counter, Owners
<1>2. CASE \E o \in Operators : InitializeOperator(o)
  <2>1. PICK o \in Operators : InitializeOperator(o)
    BY <1>2
  <2>2. /\ index' = index /\ ncns' = ncns /\ vaults' = vaults
        /\ operators[o] = None /\ operators'[o].vault_count = 0
        /\ \A m \in Operators : m # o => operators'[m] = operators[m]
    BY <2>1 DEF InitializeOperator, ticketVars, TypeOK
  <2>. QED
    BY <2>2 DEF Counter, Owners
<1>3. CASE UNCHANGED <<index, ncns, operators, vaults>>
  BY <1>3 DEF Counter
<1>. QED
  BY <1>1, <1>2, <1>3 DEF SideRequest, OtherStep, Tick, Warmup, Cooldown, UpdateVault,
     SetIsPaused, InitializeVaultNcnSlasherOperatorTicket, vars, accountVars, ticketVars

(* A client that walks the indices below a counter meets every ticket of   *)
(* the account exactly once, for any parties and any order of handlers.    *)
THEOREM TicketNumbers == Spec => []TicketsNumbered
<1>1. Init => Numbering
  <2>1. ASSUME Init, NEW p \in Owners
        PROVE  Numbered(index, TicketsOf(p[1], p[2]), Counter(p[1], p[2]))
    <3>1. Counter(p[1], p[2]) = 0
      BY <2>1 DEF Init, Counter, Owners
    <3>2. \A t \in TicketsOf(p[1], p[2]) : index[t] = None
      BY <2>1 DEF Init, TicketsOf
    <3>. QED
      BY <3>1, <3>2 DEF Numbered
  <2>. QED
    BY <2>1 DEF Numbering
<1>2. TypeOK /\ Numbering /\ [Next]_vars => Numbering'
  <2>. SUFFICES ASSUME TypeOK, Numbering, [Next]_vars PROVE Numbering'
    OBVIOUS
  <2>1. CASE InitializeTicket
    BY <2>1, InitializeCounts, CountedNumbers
  <2>2. CASE SideRequest \/ OtherStep \/ Tick \/ UNCHANGED vars
    BY <2>2, OthersCountNothing DEF Numbering
  <2>. QED
    BY <2>1, <2>2, NextCases
<1>3. Numbering => TicketsNumbered
  <2>. SUFFICES ASSUME Numbering PROVE TicketsNumbered
    OBVIOUS
  <2>1. ASSUME NEW n \in Ncns, ncns[n] # None
        PROVE  Numbered(index, TicketsOf("NcnOperatorState", n), ncns[n].operator_count)
    <3>1. <<"NcnOperatorState", n>> \in Owners
      BY DEF Owners
    <3>2. Counter("NcnOperatorState", n) = ncns[n].operator_count
      BY <2>1 DEF Counter
    <3>3. Numbered(index, TicketsOf("NcnOperatorState", n), Counter("NcnOperatorState", n))
      BY <3>1 DEF Numbering
    <3>. QED
      BY <3>2, <3>3
  <2>2. ASSUME NEW n \in Ncns, ncns[n] # None
        PROVE  Numbered(index, TicketsOf("NcnVaultTicket", n), ncns[n].vault_count)
    <3>1. <<"NcnVaultTicket", n>> \in Owners
      BY DEF Owners
    <3>2. Counter("NcnVaultTicket", n) = ncns[n].vault_count
      BY <2>2 DEF Counter
    <3>3. Numbered(index, TicketsOf("NcnVaultTicket", n), Counter("NcnVaultTicket", n))
      BY <3>1 DEF Numbering
    <3>. QED
      BY <3>2, <3>3
  <2>3. ASSUME NEW n \in Ncns, ncns[n] # None
        PROVE  Numbered(index, TicketsOf("NcnVaultSlasherTicket", n), ncns[n].slasher_count)
    <3>1. <<"NcnVaultSlasherTicket", n>> \in Owners
      BY DEF Owners
    <3>2. Counter("NcnVaultSlasherTicket", n) = ncns[n].slasher_count
      BY <2>3 DEF Counter
    <3>3. Numbered(index, TicketsOf("NcnVaultSlasherTicket", n), Counter("NcnVaultSlasherTicket", n))
      BY <3>1 DEF Numbering
    <3>. QED
      BY <3>2, <3>3
  <2>4. ASSUME NEW o \in Operators, operators[o] # None
        PROVE  Numbered(index, TicketsOf("OperatorVaultTicket", o), operators[o].vault_count)
    <3>1. <<"OperatorVaultTicket", o>> \in Owners
      BY DEF Owners
    <3>2. Counter("OperatorVaultTicket", o) = operators[o].vault_count
      BY <2>4 DEF Counter
    <3>3. Numbered(index, TicketsOf("OperatorVaultTicket", o), Counter("OperatorVaultTicket", o))
      BY <3>1 DEF Numbering
    <3>. QED
      BY <3>2, <3>3
  <2>5. ASSUME NEW v \in Vaults
        PROVE  Numbered(index, TicketsOf("VaultNcnTicket", v), vaults[v].ncn_count)
    <3>1. <<"VaultNcnTicket", v>> \in Owners
      BY DEF Owners
    <3>2. Counter("VaultNcnTicket", v) = vaults[v].ncn_count
      BY <2>5 DEF Counter
    <3>3. Numbered(index, TicketsOf("VaultNcnTicket", v), Counter("VaultNcnTicket", v))
      BY <3>1 DEF Numbering
    <3>. QED
      BY <3>2, <3>3
  <2>6. ASSUME NEW v \in Vaults
        PROVE  Numbered(index, TicketsOf("VaultNcnSlasherTicket", v), vaults[v].slasher_count)
    <3>1. <<"VaultNcnSlasherTicket", v>> \in Owners
      BY DEF Owners
    <3>2. Counter("VaultNcnSlasherTicket", v) = vaults[v].slasher_count
      BY <2>6 DEF Counter
    <3>3. Numbered(index, TicketsOf("VaultNcnSlasherTicket", v), Counter("VaultNcnSlasherTicket", v))
      BY <3>1 DEF Numbering
    <3>. QED
      BY <3>2, <3>3
  <2>. QED
    BY <2>1, <2>2, <2>3, <2>4, <2>5, <2>6 DEF TicketsNumbered
<1>4. ToggleInv => TypeOK
  BY DEF ToggleInv
<1>. QED
  BY <1>1, <1>2, <1>3, <1>4, InitToggleInv, NextToggleInv, PTL DEF Spec

-----------------------------------------------------------------------------
(* The links of the chain, one by one; slashed tickets of any epoch.       *)
Links ==
  /\ \A n \in Ncns, v \in Vaults :
       /\ index[NcnVaultTicket(n, v)] # None => ncns[n] # None
       /\ index[VaultNcnTicket(v, n)] # None => index[NcnVaultTicket(n, v)] # None
  /\ \A n \in Ncns, v \in Vaults, s \in Slashers :
       /\ index[NcnVaultSlasherTicket(n, v, s)] # None => index[NcnVaultTicket(n, v)] # None
       /\ index[VaultNcnSlasherTicket(v, n, s)] # None =>
            /\ index[NcnVaultSlasherTicket(n, v, s)] # None
            /\ max_slashable[VaultNcnSlasherTicket(v, n, s)]
                 = max_slashable[NcnVaultSlasherTicket(n, v, s)]
  /\ \A n \in Ncns, v \in Vaults, s \in Slashers, o \in Operators, e \in Nat :
       <<v, n, s, o, e>> \in slashed =>
         index[VaultNcnSlasherTicket(v, n, s)] # None /\ operators[o] # None

(* What no step undoes: accounts and tickets that exist stay.              *)
Grows ==
  /\ \A n \in Ncns : ncns[n] # None => ncns'[n] # None
  /\ \A o \in Operators : operators[o] # None => operators'[o] # None
  /\ \A t \in Tickets : index[t] # None => index'[t] # None

(* Only the ticket t comes into being, with the index c.                   *)
LEMMA CreateIndex ==
  ASSUME TypeOK, NEW t \in Tickets, NEW c \in Nat, CreateTicket(t, c)
  PROVE  /\ \A u \in Tickets : u # t => index'[u] = index[u]
         /\ \A u \in Tickets : index[u] # None => index'[u] # None
         /\ index[t] = None
  BY OptInAssumption DEF CreateTicket, TypeOK

(* Tickets of different kinds differ, and the seeds name a slasher ticket. *)
LEMMA TicketKinds ==
  /\ \A n \in Ncns, o \in Operators : NcnOperatorState(n, o)[1] = "NcnOperatorState"
  /\ \A o \in Operators, v \in Vaults : OperatorVaultTicket(o, v)[1] = "OperatorVaultTicket"
  /\ \A n \in Ncns, v \in Vaults :
       /\ NcnVaultTicket(n, v)[1] = "NcnVaultTicket"
       /\ VaultNcnTicket(v, n)[1] = "VaultNcnTicket"
       /\ VaultNcnTicket(v, n)[2] = v /\ VaultNcnTicket(v, n)[3] = n
       /\ NcnVaultTicket(n, v)[2] = n /\ NcnVaultTicket(n, v)[3] = v
  /\ \A n \in Ncns, v \in Vaults, s \in Slashers :
       /\ NcnVaultSlasherTicket(n, v, s)[1] = "NcnVaultSlasherTicket"
       /\ NcnVaultSlasherTicket(n, v, s)[2] = n
       /\ NcnVaultSlasherTicket(n, v, s)[3] = v
       /\ NcnVaultSlasherTicket(n, v, s)[4] = s
       /\ VaultNcnSlasherTicket(v, n, s)[1] = "VaultNcnSlasherTicket"
       /\ VaultNcnSlasherTicket(v, n, s)[2] = v
       /\ VaultNcnSlasherTicket(v, n, s)[3] = n
       /\ VaultNcnSlasherTicket(v, n, s)[4] = s
  BY DEF NcnOperatorState, OperatorVaultTicket, NcnVaultTicket, VaultNcnTicket,
         NcnVaultSlasherTicket, VaultNcnSlasherTicket

(* A ticket whose kind starts no link, or whose link the handler checked,  *)
(* keeps the chain.                                                        *)
LEMMA CreateLinks ==
  ASSUME TypeOK, Links, Grows, NEW t \in Tickets, NEW c \in Nat, CreateTicket(t, c),
         UNCHANGED slashed,
         \A n \in Ncns, v \in Vaults : t = NcnVaultTicket(n, v) => ncns[n] # None,
         \A n \in Ncns, v \in Vaults :
           t = VaultNcnTicket(v, n) => index[NcnVaultTicket(n, v)] # None,
         \A n \in Ncns, v \in Vaults, s \in Slashers :
           t = NcnVaultSlasherTicket(n, v, s) => index[NcnVaultTicket(n, v)] # None,
         \A n \in Ncns, v \in Vaults, s \in Slashers :
           t = VaultNcnSlasherTicket(v, n, s) =>
             /\ index[NcnVaultSlasherTicket(n, v, s)] # None
             /\ max_slashable'[VaultNcnSlasherTicket(v, n, s)]
                  = max_slashable'[NcnVaultSlasherTicket(n, v, s)],
         \A u \in SlasherTickets : u # t => max_slashable'[u] = max_slashable[u]
  PROVE  Links'
<1>1. /\ \A u \in Tickets : u # t => index'[u] = index[u]
      /\ \A u \in Tickets : index[u] # None => index'[u] # None
      /\ index[t] = None
  BY CreateIndex
<1>2. ASSUME NEW n \in Ncns, NEW v \in Vaults
      PROVE  /\ index'[NcnVaultTicket(n, v)] # None => ncns'[n] # None
             /\ index'[VaultNcnTicket(v, n)] # None => index'[NcnVaultTicket(n, v)] # None
  BY <1>1, TicketNames DEF Links, Grows
<1>3. ASSUME NEW n \in Ncns, NEW v \in Vaults, NEW s \in Slashers
      PROVE  /\ index'[NcnVaultSlasherTicket(n, v, s)] # None =>
                  index'[NcnVaultTicket(n, v)] # None
             /\ index'[VaultNcnSlasherTicket(v, n, s)] # None =>
                  /\ index'[NcnVaultSlasherTicket(n, v, s)] # None
                  /\ max_slashable'[VaultNcnSlasherTicket(v, n, s)]
                       = max_slashable'[NcnVaultSlasherTicket(n, v, s)]
  <2>. DEFINE theirs == NcnVaultSlasherTicket(n, v, s)
              ours == VaultNcnSlasherTicket(v, n, s)
  <2>1. /\ theirs \in Tickets /\ ours \in Tickets /\ NcnVaultTicket(n, v) \in Tickets
        /\ theirs \in SlasherTickets /\ ours \in SlasherTickets
    BY TicketNames
  <2>2. /\ index[theirs] # None => index[NcnVaultTicket(n, v)] # None
        /\ index[ours] # None => index[theirs] # None /\ max_slashable[ours] = max_slashable[theirs]
    BY DEF Links
  <2>3. /\ t = theirs => index[NcnVaultTicket(n, v)] # None
        /\ t = ours => index[theirs] # None /\ max_slashable'[ours] = max_slashable'[theirs]
    OBVIOUS
  <2>. HIDE DEF theirs, ours
  <2>4. index'[theirs] # None => index'[NcnVaultTicket(n, v)] # None
    BY <1>1, <2>1, <2>2, <2>3
  <2>5. index'[ours] # None =>
          index'[theirs] # None /\ max_slashable'[ours] = max_slashable'[theirs]
    <3>1. CASE t = ours
      BY <1>1, <2>1, <2>3, <3>1
    <3>2. CASE t # ours
      BY <1>1, <2>1, <2>2, <3>2
    <3>. QED
      BY <3>1, <3>2
  <2>. QED
    BY <2>4, <2>5 DEF theirs, ours
<1>4. ASSUME NEW n \in Ncns, NEW v \in Vaults, NEW s \in Slashers, NEW o \in Operators,
             NEW e \in Nat, <<v, n, s, o, e>> \in slashed'
      PROVE  index'[VaultNcnSlasherTicket(v, n, s)] # None /\ operators'[o] # None
  BY <1>1, <1>4, TicketNames DEF Links, Grows
<1>. QED
  BY <1>2, <1>3, <1>4 DEF Links

(* The initialize handlers check the links of the tickets they create.     *)
LEMMA InitializeLinks ==
  ASSUME TypeOK, Links, InitializeTicket
  PROVE  Links'
<1>1. ASSUME NEW n \in Ncns, NEW o \in Operators,
             InitializeNcnOperatorState(n, o)
      PROVE  Links'
  <2>. DEFINE t == NcnOperatorState(n, o)
              c == ncns[n].operator_count
  <2>1. t \in Tickets /\ t[1] = "NcnOperatorState"
    BY TicketNames, TicketKinds
  <2>2. c \in Nat
    BY <1>1, CountersAreNaturals DEF InitializeNcnOperatorState, NcnAccounts
  <2>3. CreateTicket(t, c) /\ slashed' = slashed
    BY <1>1 DEF InitializeNcnOperatorState
  <2>4. SameNcns(n, "operator_count")
    BY <1>1, IncrementNcn DEF InitializeNcnOperatorState
  <2>5. SameOperators(o, "ncn_count")
    BY <1>1, IncrementOperator DEF InitializeNcnOperatorState
  <2>. HIDE DEF c
  <2>6. Grows
    BY <2>1, <2>2, <2>3, <2>4, <2>5, CreateIndex DEF Grows, SameNcns, SameOperators
  <2>7. max_slashable' = max_slashable
    BY <1>1 DEF InitializeNcnOperatorState
  <2>10. /\ \A m \in Ncns, w \in Vaults : t = NcnVaultTicket(m, w) => ncns[m] # None
         /\ \A m \in Ncns, w \in Vaults :
              t = VaultNcnTicket(w, m) => index[NcnVaultTicket(m, w)] # None
         /\ \A m \in Ncns, w \in Vaults, r \in Slashers :
              t = NcnVaultSlasherTicket(m, w, r) => index[NcnVaultTicket(m, w)] # None
         /\ \A m \in Ncns, w \in Vaults, r \in Slashers :
              t = VaultNcnSlasherTicket(w, m, r) =>
                /\ index[NcnVaultSlasherTicket(m, w, r)] # None
                /\ max_slashable'[VaultNcnSlasherTicket(w, m, r)]
                     = max_slashable'[NcnVaultSlasherTicket(m, w, r)]
    <3>. HIDE DEF t
    <3>. QED
      BY <2>1, TicketKinds
  <2>. HIDE DEF t
  <2>. QED
    BY <2>1, <2>2, <2>3, <2>6, <2>7, <2>10, CreateLinks
<1>2. ASSUME NEW o \in Operators, NEW v \in Vaults,
             InitializeOperatorVaultTicket(o, v)
      PROVE  Links'
  <2>. DEFINE t == OperatorVaultTicket(o, v)
              c == operators[o].vault_count
  <2>1. t \in Tickets /\ t[1] = "OperatorVaultTicket"
    BY TicketNames, TicketKinds
  <2>2. c \in Nat
    BY <1>2, CountersAreNaturals DEF InitializeOperatorVaultTicket, OperatorAccounts
  <2>3. CreateTicket(t, c) /\ slashed' = slashed
    BY <1>2 DEF InitializeOperatorVaultTicket
  <2>4. ncns' = ncns
    BY <1>2 DEF InitializeOperatorVaultTicket
  <2>5. SameOperators(o, "vault_count")
    BY <1>2, IncrementOperator DEF InitializeOperatorVaultTicket
  <2>. HIDE DEF c
  <2>6. Grows
    BY <2>1, <2>2, <2>3, <2>4, <2>5, CreateIndex DEF Grows, SameOperators
  <2>7. max_slashable' = max_slashable
    BY <1>2 DEF InitializeOperatorVaultTicket
  <2>10. /\ \A m \in Ncns, w \in Vaults : t = NcnVaultTicket(m, w) => ncns[m] # None
         /\ \A m \in Ncns, w \in Vaults :
              t = VaultNcnTicket(w, m) => index[NcnVaultTicket(m, w)] # None
         /\ \A m \in Ncns, w \in Vaults, r \in Slashers :
              t = NcnVaultSlasherTicket(m, w, r) => index[NcnVaultTicket(m, w)] # None
         /\ \A m \in Ncns, w \in Vaults, r \in Slashers :
              t = VaultNcnSlasherTicket(w, m, r) =>
                /\ index[NcnVaultSlasherTicket(m, w, r)] # None
                /\ max_slashable'[VaultNcnSlasherTicket(w, m, r)]
                     = max_slashable'[NcnVaultSlasherTicket(m, w, r)]
    <3>. HIDE DEF t
    <3>. QED
      BY <2>1, TicketKinds
  <2>. HIDE DEF t
  <2>. QED
    BY <2>1, <2>2, <2>3, <2>6, <2>7, <2>10, CreateLinks
<1>3. ASSUME NEW n \in Ncns, NEW v \in Vaults,
             InitializeNcnVaultTicket(n, v)
      PROVE  Links'
  <2>. DEFINE t == NcnVaultTicket(n, v)
              c == ncns[n].vault_count
  <2>1. t \in Tickets /\ t[1] = "NcnVaultTicket"
    BY TicketNames, TicketKinds
  <2>2. c \in Nat
    BY <1>3, CountersAreNaturals DEF InitializeNcnVaultTicket, NcnAccounts
  <2>3. CreateTicket(t, c) /\ slashed' = slashed
    BY <1>3 DEF InitializeNcnVaultTicket
  <2>4. SameNcns(n, "vault_count")
    BY <1>3, IncrementNcn DEF InitializeNcnVaultTicket
  <2>5. operators' = operators
    BY <1>3 DEF InitializeNcnVaultTicket
  <2>. HIDE DEF c
  <2>6. Grows
    BY <2>1, <2>2, <2>3, <2>4, <2>5, CreateIndex DEF Grows, SameNcns
  <2>7. max_slashable' = max_slashable
    BY <1>3 DEF InitializeNcnVaultTicket
  <2>8. ncns[n] # None
    BY <1>3 DEF InitializeNcnVaultTicket
  <2>9. \A m \in Ncns, w \in Vaults : t = NcnVaultTicket(m, w) => m = n /\ w = v
    BY TicketKinds
  <2>10. /\ \A m \in Ncns, w \in Vaults : t = NcnVaultTicket(m, w) => ncns[m] # None
         /\ \A m \in Ncns, w \in Vaults :
              t = VaultNcnTicket(w, m) => index[NcnVaultTicket(m, w)] # None
         /\ \A m \in Ncns, w \in Vaults, r \in Slashers :
              t = NcnVaultSlasherTicket(m, w, r) => index[NcnVaultTicket(m, w)] # None
         /\ \A m \in Ncns, w \in Vaults, r \in Slashers :
              t = VaultNcnSlasherTicket(w, m, r) =>
                /\ index[NcnVaultSlasherTicket(m, w, r)] # None
                /\ max_slashable'[VaultNcnSlasherTicket(w, m, r)]
                     = max_slashable'[NcnVaultSlasherTicket(m, w, r)]
    <3>. HIDE DEF t
    <3>. QED
      BY <2>1, <2>8, <2>9, TicketKinds
  <2>. HIDE DEF t
  <2>. QED
    BY <2>1, <2>2, <2>3, <2>6, <2>7, <2>10, CreateLinks
<1>4. ASSUME NEW n \in Ncns, NEW v \in Vaults, NEW s \in Slashers, NEW limit \in SlashLimits,
             InitializeNcnVaultSlasherTicket(n, v, s, limit)
      PROVE  Links'
  <2>. DEFINE t == NcnVaultSlasherTicket(n, v, s)
              c == ncns[n].slasher_count
  <2>1. t \in Tickets /\ t[1] = "NcnVaultSlasherTicket"
    BY TicketNames, TicketKinds
  <2>2. c \in Nat
    BY <1>4, CountersAreNaturals DEF InitializeNcnVaultSlasherTicket, NcnAccounts
  <2>3. CreateTicket(t, c) /\ slashed' = slashed
    BY <1>4 DEF InitializeNcnVaultSlasherTicket
  <2>4. SameNcns(n, "slasher_count")
    BY <1>4, IncrementNcn DEF InitializeNcnVaultSlasherTicket
  <2>5. operators' = operators
    BY <1>4 DEF InitializeNcnVaultSlasherTicket
  <2>. HIDE DEF c
  <2>6. Grows
    BY <2>1, <2>2, <2>3, <2>4, <2>5, CreateIndex DEF Grows, SameNcns
  <2>7. \A u \in SlasherTickets : u # t => max_slashable'[u] = max_slashable[u]
    BY <1>4 DEF InitializeNcnVaultSlasherTicket, TypeOK
  <2>8. index[NcnVaultTicket(n, v)] # None
    BY <1>4 DEF InitializeNcnVaultSlasherTicket
  <2>9. \A m \in Ncns, w \in Vaults, r \in Slashers : t = NcnVaultSlasherTicket(m, w, r) => m = n /\ w = v /\ r = s
    BY TicketKinds
  <2>10. /\ \A m \in Ncns, w \in Vaults : t = NcnVaultTicket(m, w) => ncns[m] # None
         /\ \A m \in Ncns, w \in Vaults :
              t = VaultNcnTicket(w, m) => index[NcnVaultTicket(m, w)] # None
         /\ \A m \in Ncns, w \in Vaults, r \in Slashers :
              t = NcnVaultSlasherTicket(m, w, r) => index[NcnVaultTicket(m, w)] # None
         /\ \A m \in Ncns, w \in Vaults, r \in Slashers :
              t = VaultNcnSlasherTicket(w, m, r) =>
                /\ index[NcnVaultSlasherTicket(m, w, r)] # None
                /\ max_slashable'[VaultNcnSlasherTicket(w, m, r)]
                     = max_slashable'[NcnVaultSlasherTicket(m, w, r)]
    <3>. HIDE DEF t
    <3>. QED
      BY <2>1, <2>8, <2>9, TicketKinds
  <2>. HIDE DEF t
  <2>. QED
    BY <2>1, <2>2, <2>3, <2>6, <2>7, <2>10, CreateLinks
<1>5. ASSUME NEW n \in Ncns, NEW v \in Vaults,
             InitializeVaultNcnTicket(v, n)
      PROVE  Links'
  <2>. DEFINE t == VaultNcnTicket(v, n)
              c == vaults[v].ncn_count
  <2>1. t \in Tickets /\ t[1] = "VaultNcnTicket"
    BY TicketNames, TicketKinds
  <2>2. c \in Nat
    BY <1>5, CountersAreNaturals DEF InitializeVaultNcnTicket
  <2>3. CreateTicket(t, c) /\ slashed' = slashed
    BY <1>5 DEF InitializeVaultNcnTicket
  <2>4. ncns' = ncns
    BY <1>5 DEF InitializeVaultNcnTicket
  <2>5. operators' = operators
    BY <1>5 DEF InitializeVaultNcnTicket
  <2>. HIDE DEF c
  <2>6. Grows
    BY <2>1, <2>2, <2>3, <2>4, <2>5, CreateIndex DEF Grows
  <2>7. max_slashable' = max_slashable
    BY <1>5 DEF InitializeVaultNcnTicket
  <2>8. index[NcnVaultTicket(n, v)] # None
    BY <1>5 DEF InitializeVaultNcnTicket
  <2>9. \A m \in Ncns, w \in Vaults : t = VaultNcnTicket(w, m) => m = n /\ w = v
    BY TicketKinds
  <2>10. /\ \A m \in Ncns, w \in Vaults : t = NcnVaultTicket(m, w) => ncns[m] # None
         /\ \A m \in Ncns, w \in Vaults :
              t = VaultNcnTicket(w, m) => index[NcnVaultTicket(m, w)] # None
         /\ \A m \in Ncns, w \in Vaults, r \in Slashers :
              t = NcnVaultSlasherTicket(m, w, r) => index[NcnVaultTicket(m, w)] # None
         /\ \A m \in Ncns, w \in Vaults, r \in Slashers :
              t = VaultNcnSlasherTicket(w, m, r) =>
                /\ index[NcnVaultSlasherTicket(m, w, r)] # None
                /\ max_slashable'[VaultNcnSlasherTicket(w, m, r)]
                     = max_slashable'[NcnVaultSlasherTicket(m, w, r)]
    <3>. HIDE DEF t
    <3>. QED
      BY <2>1, <2>8, <2>9, TicketKinds
  <2>. HIDE DEF t
  <2>. QED
    BY <2>1, <2>2, <2>3, <2>6, <2>7, <2>10, CreateLinks
<1>6. ASSUME NEW n \in Ncns, NEW v \in Vaults, NEW s \in Slashers,
             InitializeVaultNcnSlasherTicket(v, n, s)
      PROVE  Links'
  <2>. DEFINE t == VaultNcnSlasherTicket(v, n, s)
              c == vaults[v].slasher_count
  <2>1. t \in Tickets /\ t[1] = "VaultNcnSlasherTicket"
    BY TicketNames, TicketKinds
  <2>2. c \in Nat
    BY <1>6, CountersAreNaturals DEF InitializeVaultNcnSlasherTicket
  <2>3. CreateTicket(t, c) /\ slashed' = slashed
    BY <1>6 DEF InitializeVaultNcnSlasherTicket
  <2>4. ncns' = ncns
    BY <1>6 DEF InitializeVaultNcnSlasherTicket
  <2>5. operators' = operators
    BY <1>6 DEF InitializeVaultNcnSlasherTicket
  <2>. HIDE DEF c
  <2>6. Grows
    BY <2>1, <2>2, <2>3, <2>4, <2>5, CreateIndex DEF Grows
  <2>7. \A u \in SlasherTickets : u # t => max_slashable'[u] = max_slashable[u]
    BY <1>6 DEF InitializeVaultNcnSlasherTicket, TypeOK
  <2>8. index[NcnVaultSlasherTicket(n, v, s)] # None /\ max_slashable'[t] = max_slashable'[NcnVaultSlasherTicket(n, v, s)]
    BY <1>6, TicketNames, TicketKinds DEF InitializeVaultNcnSlasherTicket, TypeOK
  <2>9. \A m \in Ncns, w \in Vaults, r \in Slashers : t = VaultNcnSlasherTicket(w, m, r) => m = n /\ w = v /\ r = s
    BY TicketKinds
  <2>10. /\ \A m \in Ncns, w \in Vaults : t = NcnVaultTicket(m, w) => ncns[m] # None
         /\ \A m \in Ncns, w \in Vaults :
              t = VaultNcnTicket(w, m) => index[NcnVaultTicket(m, w)] # None
         /\ \A m \in Ncns, w \in Vaults, r \in Slashers :
              t = NcnVaultSlasherTicket(m, w, r) => index[NcnVaultTicket(m, w)] # None
         /\ \A m \in Ncns, w \in Vaults, r \in Slashers :
              t = VaultNcnSlasherTicket(w, m, r) =>
                /\ index[NcnVaultSlasherTicket(m, w, r)] # None
                /\ max_slashable'[VaultNcnSlasherTicket(w, m, r)]
                     = max_slashable'[NcnVaultSlasherTicket(m, w, r)]
    <3>. HIDE DEF t
    <3>. QED
      BY <2>1, <2>8, <2>9, TicketKinds
  <2>. HIDE DEF t
  <2>. QED
    BY <2>1, <2>2, <2>3, <2>6, <2>7, <2>10, CreateLinks
<1>. QED
  BY <1>1, <1>2, <1>3, <1>4, <1>5, <1>6 DEF InitializeTicket

(* The other steps add accounts and slashed tickets only.                  *)
LEMMA OtherLinks ==
  ASSUME TypeOK, Links, SideRequest \/ OtherStep \/ Tick \/ UNCHANGED vars
  PROVE  Links'
<1>0. UNCHANGED <<index, max_slashable>>
  BY DEF SideRequest, OtherStep, Tick, Warmup, Cooldown, InitializeNcn, InitializeOperator,
     InitializeVaultNcnSlasherOperatorTicket, UpdateVault, SetIsPaused, vars, ticketVars
<1>1. CASE \E n \in Ncns : InitializeNcn(n)
  <2>1. PICK n \in Ncns : InitializeNcn(n)
    BY <1>1
  <2>2. ncns'[n] # None /\ \A m \in Ncns : m # n => ncns'[m] = ncns[m]
    <3>1. [index |-> config.ncn_count, operator_count |-> 0, vault_count |-> 0,
           slasher_count |-> 0] # None
      BY OptInAssumption DEF TypeOK
    <3>. QED
      BY <2>1, <3>1 DEF InitializeNcn, TypeOK
  <2>. QED
    BY <1>0, <2>1, <2>2 DEF InitializeNcn, Links, ticketVars
<1>2. CASE \E o \in Operators : InitializeOperator(o)
  <2>1. PICK o \in Operators : InitializeOperator(o)
    BY <1>2
  <2>2. operators'[o] # None /\ \A m \in Operators : m # o => operators'[m] = operators[m]
    <3>1. [index |-> config.operator_count, ncn_count |-> 0, vault_count |-> 0] # None
      BY OptInAssumption DEF TypeOK
    <3>. QED
      BY <2>1, <3>1 DEF InitializeOperator, TypeOK
  <2>3. ncns' = ncns /\ slashed' = slashed
    BY <2>1 DEF InitializeOperator, ticketVars
  <2>. QED
    BY <1>0, <2>2, <2>3 DEF Links
<1>3. ASSUME NEW n \in Ncns, NEW v \in Vaults, NEW s \in Slashers, NEW o \in Operators,
             InitializeVaultNcnSlasherOperatorTicket(v, n, s, o)
      PROVE  Links'
  <2>1. /\ UNCHANGED <<ncns, operators>> /\ operators[o] # None
        /\ index[VaultNcnSlasherTicket(v, n, s)] # None
        /\ slashed' = slashed \cup {<<v, n, s, o, get_epoch(slot)>>}
    BY <1>3 DEF InitializeVaultNcnSlasherOperatorTicket, accountVars
  <2>2. ASSUME NEW m \in Ncns, NEW w \in Vaults, NEW r \in Slashers, NEW p \in Operators,
               NEW e \in Nat, <<w, m, r, p, e>> \in slashed'
        PROVE  index[VaultNcnSlasherTicket(w, m, r)] # None /\ operators[p] # None
    <3>1. CASE <<w, m, r, p, e>> \in slashed
      BY <3>1 DEF Links
    <3>2. CASE <<w, m, r, p, e>> = <<v, n, s, o, get_epoch(slot)>>
      <4>1. w = v /\ m = n /\ r = s /\ p = o
        BY <3>2
      <4>. QED
        BY <2>1, <4>1
    <3>. QED
      BY <2>1, <2>2, <3>1, <3>2
  <2>. QED
    BY <1>0, <2>1, <2>2 DEF Links
<1>4. CASE UNCHANGED <<ncns, operators, slashed>>
  BY <1>0, <1>4 DEF Links
<1>. QED
  BY <1>1, <1>2, <1>3, <1>4 DEF SideRequest, OtherStep, Tick, Warmup, Cooldown,
     UpdateVault, SetIsPaused, vars, accountVars, ticketVars

(* The vault's tickets rest on the NCN's, with equal limits, for any       *)
(* parties.                                                                *)
THEOREM TicketChain == Spec => []TicketsRestOnTickets
<1>1. Init => Links
  <2>. SUFFICES ASSUME Init PROVE Links
    OBVIOUS
  <2>1. \A t \in Tickets : index[t] = None
    BY DEF Init
  <2>. QED
    BY <2>1, TicketNames DEF Init, Links
<1>2. TypeOK /\ Links /\ [Next]_vars => Links'
  BY InitializeLinks, OtherLinks, NextCases
<1>3. TypeOK /\ Links => TicketsRestOnTickets
  <2>. SUFFICES ASSUME TypeOK, Links PROVE TicketsRestOnTickets
    OBVIOUS
  <2>1. 0 .. get_epoch(slot) \subseteq Nat
    BY EpochFacts DEF TypeOK
  <2>. QED
    BY <2>1 DEF Links, TicketsRestOnTickets
<1>4. ToggleInv => TypeOK
  BY DEF ToggleInv
<1>. QED
  BY <1>1, <1>2, <1>3, <1>4, InitToggleInv, NextToggleInv, PTL DEF Spec
=============================================================================
