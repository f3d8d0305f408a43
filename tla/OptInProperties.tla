-------------------------- MODULE OptInProperties --------------------------
(***************************************************************************)
(* What the tickets promise those who read them: NCN programs and the      *)
(* clients that enumerate tickets by index.                                *)
(***************************************************************************)
EXTENDS OptIn

LastRequest(t) == IF t.slot_added < t.slot_removed THEN t.slot_removed ELSE t.slot_added

Lifecycle(side) == INSTANCE ToggleLifecycle WITH
  epoch <- get_epoch(slot),
  phase <- IF toggle[side] = None THEN "Absent" ELSE state(toggle[side], slot),
  since <- IF toggle[side] = None THEN 0 ELSE get_epoch(LastRequest(toggle[side]))

(* Every side of every ticket goes through the phases in order, and warm-up *)
(* and cooldown each take the rest of the epoch and one full epoch, however *)
(* requests, refused requests and slots interleave: no sequence of          *)
(* activate and deactivate leaves a toggle whose two slots read as another  *)
(* phase.  (The conjunction over the sides of Lifecycle(side)!Spec.)        *)
OptInsFollowLifecycle ==
  /\ \A side \in Sides : Lifecycle(side)!Init
  /\ [][\A side \in Sides :
         [Lifecycle(side)!Next]_(Lifecycle(side)!vars)]_vars

-----------------------------------------------------------------------------
(* The tickets that count their indices in the same account.               *)
TicketsOf(kind, account) == {t \in Tickets : t[1] = kind /\ t[2] = account}

(* The tickets of T that f gives an index are numbered 0 .. count - 1,     *)
(* each number once.                                                       *)
Numbered(f, T, count) ==
  LET live == {t \in T : f[t] # None}
  IN  /\ \A t \in live : f[t] < count
      /\ \A i \in 0 .. count - 1 : \E t \in live : f[t] = i
      /\ \A t, u \in live : f[t] = f[u] => t = u

(* A client that walks the indices below an account's counter meets every  *)
(* ticket of that account once, although tickets of several vaults,        *)
(* operators or slashers draw on the same counter.                         *)
TicketsNumbered ==
  /\ \A n \in {m \in Ncns : ncns[m] # None} :
       /\ Numbered(index, TicketsOf("NcnOperatorState", n), ncns[n].operator_count)
       /\ Numbered(index, TicketsOf("NcnVaultTicket", n), ncns[n].vault_count)
       /\ Numbered(index, TicketsOf("NcnVaultSlasherTicket", n), ncns[n].slasher_count)
  /\ \A o \in {p \in Operators : operators[p] # None} :
       Numbered(index, TicketsOf("OperatorVaultTicket", o), operators[o].vault_count)
  /\ \A v \in Vaults :
       /\ Numbered(index, TicketsOf("VaultNcnTicket", v), vaults[v].ncn_count)
       /\ Numbered(index, TicketsOf("VaultNcnSlasherTicket", v), vaults[v].slasher_count)

(* Whoever finds the vault's ticket for a slasher may rely on the NCN      *)
(* having one with the same limit, on the NCN's ticket for the vault and   *)
(* on the accounts behind them: the chain of load calls in the handlers    *)
(* checks one link each, some in the other program.                        *)
TicketsRestOnTickets ==
  \A n \in Ncns, v \in Vaults :
    LET ncnTicket == index[NcnVaultTicket(n, v)]
    IN  /\ ncnTicket # None => ncns[n] # None
        /\ index[VaultNcnTicket(v, n)] # None => ncnTicket # None
        /\ \A s \in Slashers :
             LET ours   == VaultNcnSlasherTicket(v, n, s)
                 theirs == NcnVaultSlasherTicket(n, v, s)
             IN  /\ index[theirs] # None => ncnTicket # None
                 /\ index[ours] # None =>
                      /\ index[theirs] # None
                      /\ max_slashable[ours] = max_slashable[theirs]
                 /\ \A o \in Operators, e \in 0 .. get_epoch(slot) :
                      <<v, n, s, o, e>> \in slashed =>
                        index[ours] # None /\ operators[o] # None
=============================================================================
