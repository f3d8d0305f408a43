# TLA+ models of the restaking programs and the transaction scheduler

This directory specifies, model-checks and in part proves two bodies of code:

- the restaking workspace `src/restaking`: the vault program, the opt-in
  relations of the restaking program, and the cranker that drives the vaults;
- the unified scheduler of the validator fork `src/gorchain`: which transactions
  of a block run when, on which threads, and which bank owns which scheduler.

Paths without `src/` are relative to `src/restaking`, or to `src/gorchain` in
the sections on the scheduler.

## The system

| Part | State | Operations |
| --- | --- | --- |
| Share accounting (`vault_core/src/vault.rs`) | VRT supply, ST deposited, capacity, fees | initialize a vault, mint, book rewards |
| Withdrawal tickets | one account per ticket with its own VRT token account; three VRT buckets in the vault | enqueue, change owner, burn |
| Operator delegation | staked / enqueued / cooling per operator, and their sum in the vault | register operator, delegate, cool down |
| Epoch update | one tracker account per epoch; slots of the last start and last full update | start, crank one operator, close |
| Vault administration | pending fees, config program fee, pause flag | set fees, program fee, capacity, pause |
| Opt-in relations (`restaking_program`, `vault_program`) | NCN, operator, vault and slasher tickets with a `SlotToggle` per side | initialize, warm up, cool down |
| Admin roles | admin and secondary admins of vaults, NCNs, operators, config | hand over, appoint |
| Cranker (`crankers/src`) | what a client has read, its plan, transactions in flight | read, send, retry, give up |
| Account locking (`unified-scheduler-logic`) | a usage queue per address, blocked counts, the unblocked queue | schedule, buffer, deschedule, reinitialize |
| Scheduler threads (`unified-scheduler-pool`) | a scheduler thread, handlers, six kinds of channels | sessions, tasks, results, abort, shutdown |
| Scheduler pool (`unified-scheduler-pool`, `runtime`) | pooled, trashed and installed schedulers, timeouts, the banks' status | take, return, time out, resume, clean, uninstall |

How they interact. Users' instructions and the vault's side of the opt-in
relations require a vault that was fully updated in the current epoch. An update
takes one transaction to start, one per operator and one to close. Anybody may
send them and may stop half-way; the cranker does it as a job, from data that
may be stale. In the validator a bank takes a scheduler from the pool for a
session. The scheduler's thread runs the locking state machine and hands tasks to
its handlers. A cleaner thread takes schedulers away from banks that are slow.

`hazards` in `PROJECT.json` lists what makes this hard to test, with the
properties that cover each.

## Modules

| Module | Content |
| --- | --- |
| `VaultMath`, `DelegationState` | the arithmetic of fees, minting and burning; the `DelegationState` struct |
| `Vault` | one vault with all accounts its instructions touch; one action per instruction |
| `SharePool` | abstract: what a vault promises the holders of its VRT |
| `UpdateProtocol` | the epoch update without amounts: indices, trackers, slots |
| `UpdateGate` | abstract: when a vault counts as updated |
| `VaultProperties`, `MCVault` | properties, fairness and refinement mappings; instances |
| `VaultProofs`, `UpdateProofs` | proofs about the vault |
| `SlotToggle` | the toggle's two slots and what they mean |
| `OptIn` | all opt-in accounts of both programs, composed with one `UpdateGate` per vault |
| `ToggleLifecycle` | abstract: the phases of one side of a relation |
| `OptInProperties`, `MCOptIn`, `OptInProofs` | properties, instance, proofs |
| `Cranker` | clients over an unreliable network, composed with `UpdateProtocol` |
| `CrankerProperties`, `MCCranker`, `CrankerProofs` | properties, instance, proof |
| `AdminRoles` | roles and hand-over, with properties and proof |
| `SchedulingStateMachine` | usage queues and counters, as operations |
| `ConflictOrder` | abstract: conflicting transactions run in their order |
| `UnifiedScheduler`, `MCScheduler` | the state machine under every allowed use; properties; instance |
| `SchedulerInvariant`, `SchedulerProofs` | its inductive invariant and the refinement, proved |
| `ThreadManager` | client, scheduler thread, handlers and channels, composed with `SchedulingStateMachine` |
| `ThreadProperties`, `MCThreads` | properties, instance |
| `SchedulerPool`, `PoolProperties`, `MCPool` | the pool, the cleaner, the banks; properties; instance |

The refinements connect the modules. `Vault` implements `SharePool`,
`UpdateProtocol` and `UpdateGate`. So what `Cranker` shows about
`UpdateProtocol`, and `OptIn` about a vault behind its gate, is about the vault.

### Correspondence with the programs on chain

On Solana an instruction is atomic and an error undoes it. So each handler
`process_*` is one action: the guard is the absence of every error return, and
the primed variables are the fields it writes, including token transfers, mints
and burns. Different senders' transactions interleave freely, and `Tick` lets
slots pass between any two. Variables keep the names of the fields. An account
that does not exist is `None` or outside the domain.

- `Vault`: `vrt_queue` groups the three `vrt_*_amount` buckets and `fees` the five
  fee fields. `process_close_vault_update_state_tracker` has two actions, one per
  branch. `Init` is the state `process_initialize_vault` leaves behind.
- `OptIn`: a ticket is named by the seeds of its address. Both sides of an
  `NcnOperatorState` have a toggle. Tickets are never closed. `UpdateVault` is the
  one step to which `UpdateGate` reduces the update.
- `AdminRoles`: all secondary roles of an account are treated alike by the code,
  so they are a set. `former` is a history variable.

Left out: signer, owner and address checks (an action stands for the instruction
sent by someone entitled to it); the slippage argument of `MintTo`, which only
rejects; changes of the fee wallets. Every stored result that the code computes
with checked arithmetic is guarded with `U64Max`; u128 intermediates cannot
overflow for u64 operands. VRT that lies in a ticket's token account before the
ticket exists is treated as sent afterwards.

### Correspondence with the cranker

Every RPC call is a step: `GetSlot`, `GetVaults`, `GetDelegations`,
`GetTracker`, `ReadTrackerForCrank`, one `CheckOperator` per operator,
`ReadTrackerForClose`. `Send` puts a transaction in flight; `Land` executes it,
at any later time, and `Lose` drops it. `Confirmed` and `Unconfirmed` are the two
ends of the wait, with `MAX_RETRIES` as `MaxRetries`. Splitting by size is a
choice of the length of a batch (`SendSome`). `Fail` is an error of any call: it
ends the task and, in the main loop, the process, which is restarted.
`Environment` lets anybody else send the same instructions.

### Correspondence with the scheduler

- `SchedulingStateMachine`: `current_usage` and `blocked_usages_from_tasks` are the
  two fields of `UsageQueueInner`, the usage being a number (unused, written, or
  the number of readers). Operations keep the names of the methods. The tasks one
  `unlock` unblocks enter the unblocked queue in any order, since it depends on
  the order of the addresses in the transaction. Counters that are only reported
  are left out.
- `ThreadManager`: `new_tasks`, `runnable` (one chained channel per session),
  `aux`, `finished_blocked`, `finished_idle` and `session_results` are the
  channels. The alternatives of a `select_biased!` have the precedence of the code. `client` is the thread that owns the
  scheduler. Closing a channel is the end of the thread that holds its other side.
  The client unpauses a production session it has taken before it ends it, as the
  trait's documentation asks (`runtime/src/installed_scheduler_pool.rs:218`,
  "immediately after it's taken"). Without that the end of the session would be
  dropped by the loop that waits for the next one
  (`unified-scheduler-pool/src/lib.rs:2220`) and `end_session` would wait for ever.
  When every handler has panicked, `expect("alive handler")` (lines 2054 and 2113)
  ends the scheduler thread without a result, where the model reports one; the
  properties about results exclude panics of handlers.
- `SchedulerPool`: each step is what one thread does under one lock. A scheduler
  is reduced to what the pool sees of it. Deadlines are left out: whatever has one
  may be past it. Two listeners of a bank that expire in one round of the cleaner
  act as two rounds. Ids of dropped schedulers are used again, to keep the state
  finite; nothing compares them with old ones.

External and marked so in the map: `Tick`, `ReceiveSt` and `SendVrtToTicket`
(token transfers by anyone), `saturating_sub`, `div_ceil`, and the cluster as
the cranker sees it (`Execute`, `Land`, `Lose`, `Finalize`).

## Runs

| Run | Instance | Checks |
| --- | --- | --- |
| `update_cycle` | 2 operators, 2 tickets of 1 or 5, 4 epochs, withdrawal and program fee, a reward | `TypeOK`, `QueueMatchesTickets`, `DelegationMatchesOperators`, `SecurityCovered`, `UnstakingCovered`, `UpdateCanProceed`, `WithdrawableTicketsCovered` |
| `accounting` | all fees in two settings, 2 tickets, epochs of 2 slots, thousands of tokens | `VrtConservation`, `Backed`, `ImplementsSharePool` |
| `rotation` | 3 operators joining over 4 epochs, fee announcements, program fee change, pauses | `FullUpdateIsComplete`, `ImplementsUpdateGate`, `ImplementsUpdateProtocol`, `FeesStableDuringUpdate`, `WithdrawalFeeRateBounded` |
| `liveness` | 2 operators, 1 ticket, fees, pauses, fair | `UpdateCompletes`, `TicketEventuallyBurnable` |
| `fee_wallet` | the staker is the vault's fee wallet, fair | `TicketEventuallyBurnable` is violated |
| `opt_in` | an NCN, an operator, a vault, 2 slashers; any 3 tickets; 7 epochs; one side opts in, again and again; pause | `TicketsNumbered`, `TicketsRestOnTickets`, `OptInsFollowLifecycle` |
| `cranking` | a client, others, up to 3 operators, 3 epochs, 2 transactions in flight, 1 retry, fair | `SnapshotComplete`, `PlanIsRemainder`, `CrankersComplete` |
| `scheduling` | 4 tasks with any usages of 2 addresses, 2 running at most, fair | `ImplementsConflictOrder`, `BlockedOnlyByConflict`, `QueuesCleanWhenInactive`, `EveryTaskRuns` |
| `threads` | both modes, 2 handlers, 2 tasks, 2 sessions, failures, retries, panics, fair | `ExecutionInOrder`, `SessionsDoNotMix`, `OkMeansExecuted`, `ExpectedMessagesOnly`, `ReinitializeNeverPanics`, `WaitsEnd` |
| `pool` | 2 verified banks, 2 schedulers | `OutcomeIsOwn`, `AssertionsHold`, `ActiveBanksAreTimed` |
| `pool_production` | a verified and a produced bank, 2 schedulers, fair | `SchedulersOwnedOnce`, `AbandonedBanksGoStale`, `UninstallReturns` |
| `admin_roles` | 3 keys, an owned account and a config, 2 roles | `FormerAdminsHoldNothing` |

What the passing runs show:

- The vault's aggregates match its accounts through late and resumed updates;
  `additional_assets_need_unstaking` can always be met, so the error that
  `close_update_state_tracker.rs` logs as "This should not happen" does not. On
  an up-to-date vault each withdrawable ticket of an ordinary staker passes every
  check of `BurnWithdrawalTicket`, with constant fees and but for the ST of one VRT
  (see rounding below). VRT is neither lost nor invented, and no instruction
  dilutes holders.
- Warm-up and cooldown cannot be shortened by any sequence of requests, tickets
  are numbered densely, and a slasher's ticket rests on the NCN's.
- A cranker's list of operators, however old, is complete while its update runs:
  the slot is read first, and an operator joins only a vault that is up to date.
  What it plans is exactly what the program will accept.
- Of two conflicting transactions the first submitted runs first, in the state
  machine and on the handlers. The end of a session leaves no task behind, and no
  message the scheduler thread would panic on reaches it.
- A block's outcome is its own through timeouts and recycled schedulers. No
  scheduler is lost, owned twice or kept by an abandoned bank, and the pool can be
  taken down at any time.

Deadlock is checked except in `opt_in`, `cranking`, `threads`, `pool` and
`pool_production`: there the bounded clock, the dropped scheduler or the dropped
bank forks end the behaviour.

### Where code and comments differ

`fee_wallet` is a finding. The reserve is computed as if all tickets paid both
fees (`vault.rs:1130`), but a fee wallet's ticket does not pay its own. On a fully
delegated vault that ticket is never burnable, however many updates complete.
Someone has to deposit, or the delegation admin to cool stake down.

Rounding can delay an ordinary staker in the same way. The reserve rounds two fees
of the sum of all tickets, a burn those of its ticket. With both fees at 20%,
tickets of 5 and 1 at par pay out 3 and 0, and 2 is reserved for the two together.
On a fully delegated vault the first then waits until the second is burned and
later updates have unstaked more. `WithdrawableTicketsCovered` therefore allows for
the ST of one VRT. `update_cycle` has these amounts, and there the statement
without the allowance fails. `liveness` has a single ticket, for which the two
roundings agree.

Read off the code while modelling it, and not stated as properties:

- A reduced withdrawal fee takes effect when an update starts
  (`initialize_vault_update_state_tracker.rs:103`). A ticket that becomes
  withdrawable with this update may then be worth more than what is free; it is
  burnable after a later update. And "the next epoch's withdrawal fee"
  (`vault.rs:138`) is applied in the epoch in which it was announced when that
  epoch's update had not started.
- "The operator must have opted-in to the NCN before the NCN opts-in"
  (`initialize_ncn_operator_state.rs:18`): `ncn_warmup_operator.rs:39` does not
  look at the operator's side. "The NcnVaultTicket shall be active"
  (`initialize_vault_ncn_ticket.rs:68`): only its existence is checked.
- `do_vault_update` reports success when its close transaction lands after the
  epoch has ended, where it only removes the old tracker. The next round updates
  the vault.
- A handler that panics ends the scheduler thread with the result so far, which
  may be `Ok` (`unified-scheduler-pool/src/lib.rs:2114`, against 1571). A handler
  that is turning a packet into a task while the scheduler thread ends panics in
  `send_new_task` (line 400, against 2309). The validator's panic hook ends the
  process (`metrics/src/metrics.rs:510`).
- While an overgrown production scheduler waits in the trash its handlers consume
  packets beside those of its replacement (line 703, against 149).

### Bounds

- `MaxSlot` bounds the clock. Slots are read only through `get_epoch`, so one
  slot per epoch is enough for most runs; `accounting` uses two. Tickets need two
  epochs and the delegation pipeline two updates; four epochs contain an
  abandoned update, its resumption and a cycle afterwards. A toggle made in epoch 0
  warms up in 1, is active and may cool down in 3, and is inactive and may warm up
  again in 5; `opt_in` ends with epoch 6.
- `U64Max` is small in the runs, so it bounds amounts and makes the overflow
  guards fire. It is larger than `operator_count`, as in the code, where
  `u64::MAX` marks a tracker that has not started.
- Two operators are the fewest with which an update can be partial, three the
  fewest with which a start index lies strictly inside the rotation.
- Amounts in `accounting` (1001, 899, 701, 1) do not divide evenly under fees and
  prices; the second fee setting has fees whose sum exceeds the amount. In
  `update_cycle` two delegations of 5 take all ten tokens, and the fees of
  tickets of 5 and 1 round differently from those of their sum; a `U64Max` of 11
  leaves room for a reward at any time. Requests of 125 and 126 bps against a fee of
  100 are the two sides of the rate-of-change limit.
- `MaxTickets` in `opt_in`: the longest chain of tickets has three, and two
  slashers' tickets that share a counter need the NCN's ticket as a third.
- `MaxOptIns` in `opt_in` is a state constraint, of the instance and not of the
  model: states in which a second side has opted in are reached and checked but
  not continued. A side's toggle is read and written only by its own instructions,
  so sides that move together add no case; `OptInLifecycle` is proved without it.
- `MaxInflight` is 2, so that a late transaction is in flight beside a new one.
  With 1 a transaction of an earlier epoch would stop the client, which the
  network does not.
- Four tasks on one address are a writer, two readers behind it and a writer
  behind them. Two tasks per scheduler are enough for a conflict across the
  channels; each of the two sessions may have them.
- Two schedulers for two banks let a bank get one that the other has used.
- Symmetry is used only in runs without liveness, among tickets, operators,
  slashers or banks.

### Fairness

- `liveness`, `fee_wallet`: weak fairness of starting, cranking, closing and of
  the clock, for which the cranker stands: it loops for ever over all vaults
  that need an update. Nothing is assumed of stakers and admins. With a clock
  that stops at `MaxSlot` the last epoch lasts for ever, so the properties say
  that an update succeeds in an epoch that lasts long enough; an admin may pause.
- `cranking`: the client keeps running (weak fairness of its steps), calls do not
  fail for ever (`<>[]`: eventually an end of the task is one its code reaches
  without an error), a transaction that is sent again and again in its epoch lands
  (strong fairness of `LandCurrent`), and transactions expire. A blockhash
  expires by design, and the main loop restarts every task each round.
- `scheduling`, `threads`: threads that can run do (weak fairness), and a task
  ends. Nothing is assumed of who sends tasks or ends sessions. `WaitsEnd` makes
  no claim once a transaction has made a handler panic, since the process ends.
- `pool_production`: the cleaner's steps, the replay thread between two locks and
  the dropping of references are weakly fair; strong fairness holds for removing
  idle schedulers, expiring a listener and unwrapping the pool. The replay thread
  need not send, tick or complete anything: a bank may be abandoned. The cleaner comes
  round every 10 s, and uninstalling retries every 100 ms, so each meets the
  condition it waits for.

### Mutants

Each property is shown to depend on the code by a mutated definition that
violates it. The mutated form stands in the module before the definition, with
a comment "Mutant"; `PROJECT.json` pairs them with the properties.

## Proofs

Checked with TLAPS for all values of the constants that satisfy the named
assumptions. They are weak: positive epoch lengths, natural bounds, `InitTokens`
within `U64Max` and fees within their caps for the vault, finitely many addresses
and a positive `MaxRunning` for the scheduler.

- `VaultProofs`: `TypeCorrect` and `AlwaysBacked`, from `Inv == TypeOK /\ Backed`;
  backing is not inductive without the types its arithmetic runs over. One lemma
  per action, over lemmas on rounding (`DivFloor`, `FeeBound`, `BurnBound`,
  `MintBound`) and on prices at or above par. `VaultImplementsSharePool`: each
  step is an `Issue`, a `Redeem` or leaves the pool alone.
- `UpdateProofs`: `FullUpdateComplete`, `FeesStable` and `VaultImplementsGate` rest
  on `UpdateInv == Inv /\ Schedule /\ Rotation`. `Schedule` orders the epochs: no
  operator and no tracker is ahead of the last start of an update, which is how a
  started update recognises an unfinished predecessor. `Rotation` says that each
  operator whose index lies on the arc from the start index to the tracker's last
  index was cranked this epoch; when `all_operators_updated` holds, the arc is the
  whole circle. `FeeRateBounded` adds that the pending fee satisfies the bounds
  against the fee in force.
- `OptInProofs`: `OptInLifecycle` for any epoch length. A phase is derived from
  two slots and the clock, so the invariant (`ToggleInv`) says that no slot lies
  ahead of the clock and that a side exists exactly when its ticket does; each
  step is then one of the toggle's operations in the current slot or leaves the
  side alone. `TicketNumbers` needs
  that the live indices of an account are exactly those below its counter;
  `TicketChain` follows the chain of load calls.
- `CrankerProofs`: `SnapshotsComplete` for any number of crankers, operators,
  retries and transactions in flight. `SnapshotInv` adds what the property leaves
  out: the list is complete, or the vault was fully updated in the epoch of the
  slot the client read; and a tracker of the current epoch means that it was not.
- `AdminRoles`: `FormerAdmins`.
- `SchedulerInvariant`, `SchedulerProofs`: `SchedulerImplementsOrder`,
  `WaitsAreConflicts` and `QueuesAreClean` for any addresses and tasks. The code
  keeps numbers where the argument needs sets, so `SchedulerInv` says what they
  count: a task's blocked count is the number of addresses it waits for, an
  address's usage the number of its holders. It also says that holders of an
  address came before those waiting for it (`OrderInv`), and that behind readers
  the first to wait is a writer. Then a task without a blocked usage holds all
  its addresses, and an earlier conflicting task that had not ended would have to
  hold or wait for one of them.

Only model-checked:

- Liveness, which is beyond the prover.
- The invariants over sums of tickets or operators and what depends on them
  (`VrtConservation`, `QueueMatchesTickets`, `DelegationMatchesOperators`,
  `SecurityCovered`, `UnstakingCovered`, `UpdateCanProceed`,
  `WithdrawableTicketsCovered`): they need induction over finite sets.
- `ImplementsUpdateProtocol` and `PlanIsRemainder`.
- Threads and pool: `threads`, `pool` and `pool_production`.

## Not modelled

- The rest of the validator fork, several hundred thousand lines: consensus,
  gossip, ledger, accounts database, virtual machine, RPC, tools. A model of each
  would be a project of its own.
- `DelegationState::slash` and `subtract`, which no instruction calls;
  `operator_set_fee`, whose fee nothing reads; changes of the fee wallets; the
  delegation of token accounts and token metadata, single calls into other programs.
- In the scheduler: timings, statistics and logging; what executing a transaction
  does to accounts (only that it ends, and how); starvation in block production,
  where the biased `select` could keep a session open while packets keep coming,
  which the bound on tasks hides.
- In the pool: panics of handlers. (Banks are produced with a scheduler only by
  tests so far: `core/tests/unified_scheduler.rs:269`; the validator inserts its own
  banks for verification, `core/src/banking_stage.rs:633`.)
- Loaders and byte layout, SDKs, CLI and generated clients: no behaviour over
  time. The sweep system of `src/PLAN.md` has no code.
