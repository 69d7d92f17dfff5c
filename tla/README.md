# Verification of automation-alpaca

TLA+ models of the paper-trading runtime in `src/app`, checked with TLC on small
instances and, where stated, proved with TLAPS for all values of the constants. The
models follow the paths on which the program can lose money: an order that is live
at the broker and unknown locally, an order submitted twice, a share counted twice
or not at all, a buy and a sell of one symbol meeting at the venue, a position sold
twice, a restart that serves over stale state.

## 1. The system

| component | state | operations | hard behaviour |
|---|---|---|---|
| store (`store/core.py` planners, `store/memory.py`, `store/sqlite.py`) | orders, fills, execution events, submit recoveries, sessions, candidates, sell intents, envelopes | claim, transition, quarantine, append fill, create/ingest/reconcile recovery, close, controls | every operation is atomic under one lock; failures of a write between two operations |
| monitoring loop (`monitoring.py`) | none durable; a list per sweep | `run_monitoring_tick`: reconcile, repair, protection, envelopes, submit, re-drive, resolve, poll, recover | suspends in broker calls while commands run; crash at any await |
| facade and HTTP API (`facade/`, `api/`) | none | manual cancel, exits, approvals, controls, review commands | runs concurrently with the tick on the same event loop |
| broker adapter (`broker/alpaca_paper.py`) | none | submit, status, cancel, replace, query by client id, mass report | terminal / ambiguous / transient errors; cumulative fills turned into deltas |
| reconciliation (`reconciliation.py`) | query budget, fairness cursor | mass-report plan, not-found streaks, submit finalizer | a picture older than the store; venue lag |
| positions, sell intents, protection (`position.py`, `protection.py`) | derived from fills | protective exits, flatten, oversell limit, cross-side rail | two sells of the same shares from two sweeps |
| candidates, approval, strategy (`approval/`, `strategy_loop.py`) | candidate status | create, approve, reject, expire, order | approval that races an exit or a halt |
| execution envelopes (`approval/envelope.py`, `sellside/`) | envelope status, staged action | reprice by replace, fill attribution, disposition cancel | replace racing cancel; attribution after a crash |
| event log and projections (`events/`) | append-only log | project, replay | projection and row must agree |
| `execution_core/` domain kernel | position facts, venue book, authority, acquisition, protection | pure reducers, not imported by the runtime yet | evidence out of order, duplicated, contradictory |
| `execution_core/persistence/` | checkpoint, durable inputs, outbox, owner lease | unit of work, cold startup | ambiguous COMMIT, crash before publication, second owner |
| signals, market data, recorder, cockpit, server | inputs and views | - | - |

Interaction: API handlers and the loop are tasks of one asyncio event loop and
share only the store. Store operations take an `asyncio.Lock` and do not await
anything else inside it, so each one is atomic. The loop's real suspension
points are the broker calls and the market-data read before a sell is priced. The
kernel under `execution_core` is separate: its reducers are pure, its persistence
serialises writers by SQLite's `BEGIN IMMEDIATE`, and several processes may try to
own one datastore.

What makes it correct (numbers are those of `docs/INVARIANTS.md`): an order at the
venue always has a durable local owner (INV-022); a stale claim is recovered and not
stranded (INV-023); terminal means settled and fills are kept (INV-024); an unknown
submit outcome is never treated as a failure (ADR-002); every status change is legal
(INV-075); an envelope's mandate is decremented exactly once per fill (INV-076); no
buy survives its session as `CREATED` (D-013a); accepted cancels end (CHAOS-1); no
buy and sell of a symbol may both execute; an exit never sells more than is held;
buys wait until store and venue agree; the kernel publishes an effect at most once.
The hazards that threaten these are listed, each at its line, under `hazards` in
`PROJECT.json`.

## 2. Modules

| module | models | composed with |
|---|---|---|
| `OrderOwnership` | what the order path promises of one order: *local*, *owned*, *settled*, and the shares executed and recorded | - |
| `OrderSubmission` | one order between its minting and its broker-terminal state, in detail | implements `OrderOwnership` |
| `OrderSubmissionProofs` | theorems about `OrderSubmission`: submission, recorded fills, refinement | - |
| `SellSide` | the exits of one symbol: protection, flatten, emergency reduce, candidates, claim rails | uses orders as `OrderOwnership` promises, checked |
| `Envelopes` | execution envelopes of one symbol and their child orders | direct exits of `SellSide` as one variable |
| `MassReconciliation` | the mass-report pass and the gate it drives | order sweeps as one step each |
| `ExecutionFacts` | operators: the kernel's fold of execution facts into a position | used by `VenueRecovery` |
| `VenueRecovery` | the kernel's venue book | extends `ExecutionFacts` |
| `KernelPersistence` | the kernel's unit of work, startup and owner lease | effects' lifecycle of the venue book, market cursor of protection |
| `MassReconciliationProofs`, `SellSideProofs`, `EnvelopesProofs`, `VenueRecoveryProofs`, `KernelPersistenceProofs` | theorems about the module they are named after | - |
| `SumLemmas` | lemmas: the sum of a function over a finite set | used by the proofs of `SellSide`, `Envelopes` and `VenueRecovery` |
| `FoldLemmas` | lemmas: `FoldLeft` of any step over a sequence, for one element more and for prefixes | instantiated by `VenueRecoveryProofs` for the folds of heads, of a registry and of an opening |
| `MC*` | names and values of the instances | - |

A definition `X_Y` next to `X` is a mutant of `X`: the change a plausible mistake in
the code would make. It is used only to show that a property can fail.

### How `OrderSubmission` corresponds to the code

Durable variables are the store: `status` (the projected order status), `bid`
(a broker id is set), `fills` and `recorded` (fills by source id
`<broker id>:<cumulative level>` and their sum), `recovery` (the submit-recovery
record under the broker id), `noIdReview` (a `needs_review` record under a blank
id), `seed` (unpersisted-submit audits and fallbacks the repair has not passed),
`uncertain` (the `UNKNOWN_RECONCILE_REQUIRED` fallback), `redrives`, `notFound`,
and the sessions. Volatile ones are the tick (`phase`, `todo`, `winding`, `call`)
and `apiCancel`, the manual cancel in flight. `venue` and `late` are the broker.

A handler is split at its broker calls and nowhere else. `call` records which
call is in flight and how far it got: `prepare` (market-data read), `sent`,
`landed` (the venue has it, the answer is on its way), `acked` (the finalizer
task runs), `read`, `cancel`, `confirm`, `confirmed`. Each sweep lists its orders
when it starts, as the code does, and works on that list even if orders change.

| actions | code |
|---|---|
| `EnterPhase` | `run_monitoring_tick` |
| `RepairAdopt`, `RepairRecover`, `RepairAbort` | `_repair_unpersisted_submit_audits`, `_repair_accepted_submit_seed` |
| `ClaimOrderForSubmission`, `ClaimSkipped`, `SendSubmit`, `ReleaseUnpriceable`, `PrepareAbort`, `SubmitTransient` | `_submit_pending_orders` with the claim of the store |
| `VenueAccepts`, `SubmitAcked`, `SubmitTerminal`, `SubmitAmbiguous*`, `Finalize*`, `HandleUnpersistedSubmit`, `RecordAcceptedSubmitUncertainty` | the outcomes a submit and a re-drive share |
| `Redrive*` | `_redrive_stale_submitting` |
| `Query*`, `Resolve*` | `_resolve_timeout_quarantine` |
| `PollSend`, `PollFails`, `PollReads`, `ApplyUpdate` | `_reconcile_open_orders`, `_apply_update`, `append_fill` |
| `Recover*`, `ResolveRecoveryTerminal` | `_recover_unpersisted_submits` |
| `Cancel*` | `StoreBackedFacade.cancel` |
| `SetKillSwitch`, `SetBuysPaused`, `CloseSession`, `EnsureCurrentSession` | session controls |
| `IngestSubmitRecoveryFill`, `ReconcileSubmitRecovery` | the operator's review commands |
| `Venue*`, `Late*` | external: the venue |
| `Crash`, `Shutdown` | loss of the process; cancellation of the loop task |

Choices worth knowing:

- A store fault (`StoreFails`) happens where the code handles one: the write
  that fails is the one whose `except` branch the action models. An exception no
  handler catches ends the tick (`AbortTick`), as in `monitoring_loop`.
- `ClaimSkipped` may always happen: it stands for the claim gates this module
  does not model (risk limits, cross-side rail, overfill quarantine, envelope
  ownership). Likewise a sell may be unpriceable at any submit, also where the
  exact request is already durable: the model allows more than the code.
- `REDUCING` stands for buys paused and for the reconciliation driver alike.
- The status of a broker answer is the venue's at the moment of the answer; the
  handler acts on it later, when the venue may have moved on.
- Venue states are those the adapter's status map tells apart: working states
  (`done_for_day`, `suspended` and `stopped` among them) are `live`,
  `pending_cancel` is `cancelling`, and `canceled`, `expired` and `replaced` are
  `canceled`.
- The `ORDER_STALE` flag, the count of failed queries and the attempt number of a
  recovery record steer nothing and are left out.
- Orders exist as `CREATED` from the start, in session 1: a later minting is the
  same as a claim that comes later.

Assumptions about the outside:

- A second request with a known `client_order_id` creates nothing (the adapter's
  duplicate lookup relies on it).
- The venue denies knowing a request it holds, or may still receive, for at
  most `MaxLag` recorded answers, and `MaxLag < MaxQuery`: this is what
  `timeout_quarantine_max_query_attempts` is for. Without it `REJECTED` after the
  last confirmation would be a guess.
- The operator attests only what the venue shows. With `OperatorWaits` the
  operator also attests no fill of an order while a poll of it is in flight;
  nothing in the code enforces this, see the first finding.

### `SellSide`

`ord` is the symbol's order table (kind, quantity, session, status, what the venue
did, what is recorded, open recovery record); `cand` the candidates; `latched` the
overfill quarantine; `halted` and `override` the sessions with a kill switch and with
an unconsumed emergency grant; `prot`, `flat` and `sending` say where the protection
phase, the flatten command and the submit call are. Protection and submission are
phases of one loop and never overlap; flatten runs beside both.

| actions | code |
|---|---|
| `ProtectStart`, `ProtectCancelBuy`, `OpenProtectionExit` | `_run_protection`, `_open_protective_exit`, `cancel_open_buys`, `open_protection_exit` |
| `CreateExit`, `EmergencyReduce`, `Flatten*` | `create_exit`, `emergency_reduce_override`, `_flatten_cancelling_open_buys`, `plan_flatten_position`, `flatten_position` |
| `CreateCandidate`, `DecideCandidate`, `CreateOrderForCandidate` | `create_candidate`, `transition_candidate`, `create_order_for_candidate` |
| `ClaimOrder` with `ClaimHeld`, `CrossSideBlocked` | `claim_order_for_submission`, `_claim_hold_reason`, `_cross_side_claim_block_reason_locked` |
| `Acknowledge`, `LoseTrack`, `ReleaseClaim`, `RecordFill`, `Settle`, `ResolveRecovery` | the order path, one step per durable outcome |
| `SetKillSwitch`, `NextDay` | session controls and rollover |

`SUBMITTED` stands for `PARTIALLY_FILLED` too and `TERMINAL` for the three ended
statuses. A sell intent is always `ORDERED` together with its order, so it has no
variable. An accepted-submit uncertainty is an `unresolved` recovery: the rails treat
the two alike. Pause, close and risk limits only add refusals and are left out. That a
price is below its floor is a choice of the environment.

### `Envelopes`

One sell intent with its envelopes (`env`) and their child orders (`child`). A child
keeps its `FILL` events by cumulative level (`ev`), the sum of its fill rows (`rows`)
and the levels attributed to the envelope (`attr`) apart, because the code writes
them in different transactions. `loop` is the step the tick is in.

| actions | code |
|---|---|
| `CreateEnvelope`, `ApproveEnvelope`, `ActivateEnvelope`, `ResumeEnvelope`, `CancelEnvelope`, `SupersedeEnvelope` | envelope commands of facade and store |
| `KillSwitch`, `Flatten`, `OperatorCancelsOrder` | commands that hit an envelope from outside |
| `StageAction`, `StageDiverges`, `StageContext` | `stage_envelope_action`, `plan_stage_envelope_action` |
| `Claim`, `Release`, `Send`, `Reply*`, `RedriveRefused` | `_drive_staged_order`, `redrive_staged_envelope_action`, the accepted-order finalizer |
| `QuarantineStale`, `ResolveQuarantine`, `RecoverSubmit` | the sweeps, for an envelope's child |
| `Poll`, `PollBridge`, `PollAppend`, `PollStrict`, `PollSettle`, `RepairFill` | `_apply_update`, `record_envelope_fill`, `append_fill`, `_repair_unattributed_envelope_fills` |
| `Conclude`, `FreezeOnError`, `Wind*` | `_run_one_envelope`, `_run_envelopes`, `_converge_envelope_disposition_cancels`, `_cancel_envelope_working_order` |

`Owner`, `Retains` and the other helpers are `project_envelope_obligation` and the
owner reconciliation that every store write runs in its own transaction; `Write`
includes it in the action. What the policy decides (act, conclude, breach) is a choice,
so rail arithmetic is not here. Not here either: buys, the sweep of session close
(`sqlite.py` 8156-8230) and the operator's end of a `needs_review` record. The venue
answers "not found" only after the call landed or was refused; recovery's cancel and
its confirmation are one step.

Of a replace the model assumes the weaker of the two contracts the repository states:
that it was taken says nothing of the predecessor, which may go on working, fill first or
later, or end (`reconciliation.py` 1787-1792); the replacement may be refused, end
unfilled or fill as well. So both may execute, beyond the mandate too. The venue that
replaces atomically (`alpaca_paper.py` 1001, `monitoring.py` 2654-2658) is the case where
`VenueEnds` of the predecessor follows at once, or `VenueRefuses` when it is already over.

### `MassReconciliation`

The pass is split at its broker calls: `StartPass`, `ReadOrders` (`list_open_orders`),
`Plan` (`list_positions`, local reads and `plan_reconciliation`, which do not suspend
between each other), `AskVenue`/`AskFails` per lookup, `SettlePresent`/`SettleAbsent`
for its effect, `Finish` or `FailPass` for the driver's write. `Boot` is
`run_startup_reconcile` (`on_stream_reconnect` is the same gate). Then come the rest of
the tick as one step per sweep (`Submit`, `ResolveQuarantine`, `Poll`, `EndTick`), the
operator (`CreateOrder`, `RequestCancel`), `Rollover`, `Crash` and the venue.

Query budget and "recent" rows depend on the clock: the budget grants or refuses any
call, a pass takes any rows for recent. One symbol. The kill switch and the pause of
buys only add refusals. Foreign orders, inferred fills (the Alpaca report carries
none), average prices and audit records are left out. The venue may miss an order it
has for at most `MaxLag < Retries` lookups, and never after it showed it: this is what
the retries are for. `VenueForgets` is a venue that loses a working order.

### `ExecutionFacts` and `VenueRecovery`

`ExecutionFacts` translates the reducer of `position.py`: root fills, corrections and
busts of the current predecessor, replay and conflict, exact rational basis with its
fold and refold, integrity latches and `_replay_venue_hydration_snapshot`.
`VenueRecovery` has one action per input of `apply_venue_recovery_input` that changes
the book (`RequestEffect`, `RecordDispatchClaim`, `CancelBeforeDispatch`,
`RecordTransportOutcome`, `RecoverClaimedEffect`, `CloseAcceptanceSet`,
`DiscoverVenueLeg`, `RecordPendingVenueOperation`, `ObserveVenueStatus`,
`IngestHumanAttestedFill`, `ReleaseVenueLeg`, `RecordBrokerFillEvidence`,
`RecordBrokerRevisionEvidence`); an input that is refused, replayed or presented with
a stale snapshot changes nothing and is a stuttering step.

One symbol. Commitments and seals are left out: a snapshot is one value, so its parts
belong together. The registry catch-up between symbols (`venue.py` 13631-14093),
bootstrap targets and protection's cursor are left out; without catch-up,
and with openings whose facts are of legs the book does not know,
`_has_unattributed_broker_root` is never true. The finalization
`OPERATOR_RECONCILED` and its epochs need a certified external acceptance closure,
which the code never certifies (13537-13545). Terminal statuses are `CLOSED`.

### `KernelPersistence`

`ckpt`, `inputs` and `outbox` are the datastore; every process has a context `ctx`, a
step `pc` of `start_startup`, the claims it still has to query, its fence and its
unused eligibilities. `Operate*` is `execute_unit_of_work` for every kind of input:
prepare, retained input, reduction, successor checkpoint and outbox row in one
transaction, which `BEGIN IMMEDIATE` makes one step. `OperateAmbiguous` and
`StartupAmbiguous` are a COMMIT that raised: durable or not, the caller learns
nothing. `Publish` spends a post-commit eligibility. `Acquire` to `Serve` are the
phases of `start_startup`, with `StartupRefused` at each of them; `Crash` and
`LoseLease` may come at any time.

The unit of work never asks for the lease: a process that lost it is fenced by the
checkpoint version in its context. Lock port, market-recovery ports and the caller are
external. Opening the datastore is part of `Acquire`; subscription and fence are one
step. Venue reports concern claimed effects, and a final report says what the venue
decided. Left out: unmatched broker facts (`unit_of_work.py` 5573-5611), exhaustion of
64-bit ordinals, acquisition generations, manual flatten and query observations.

## 3. Runs

| run | instance | shows |
|---|---|---|
| `buy_lifecycle` | one buy of 1 share, 1 day, 1 command, 1 crash, 1 fault, fair; 53,308 states | `TypeOK`, `CreatedNeverSent`, `ClaimShields`, `NoZombieBuy`, `LifecycleGuarded`; liveness `QuarantineResolves`, `SubmittingNotStranded`, `RecoveryConverges`, `CancelSettles` |
| `floor_sell_faults` | one protective sell of 2 shares, 2 days, 1 command, 1 crash, 2 faults, 2 re-drives; 1,831,621 states | `NoUntrackedLiveOrder`, `TerminalIsSettled`, `NoInventedFill`, `ReleasedIsSettled`, `LedgerInv`, the refinement `ImplementsOwnership` |
| `sell_side` | 1 share held, 2 more orders, 1 candidate, 2 days, 2 commands, 1 share executed too many; 496,390 states | `NoSelfCross`, `NeverShort`, `NoBuyAfterOverfill`, `ExitPreempts`, `HaltedExitIsGranted`, `UsesOwnership` |
| `sell_side_live` | the same with 1 day, fair; 53,824 states | `ProtectionReaches` |
| `envelopes` | 2 envelopes, 2 children, 2 shares, 2 commands, 1 fault; 1,554,728 states | `SellsAtVenueAreOwned`, `ReleasedDelegationIsDead`, `RemainingMatchesLedger`, `OverfillIsLatched`, `CancelRequestHolds` |
| `envelopes_live` | 1 envelope, 2 children, 1 share, 1 command, 2 faults, fair; 28,453 states | `FillsGetAttributed`, `ExpiredWindsDown` |
| `mass_reconcile` | a buy and a sell of 2 shares, 2 days, 2 retries, lag 1, 1 fault; 4,121,498 states | `EndedIsSettled`, `BuysOnlyAtParity` |
| `venue_recovery` | an order and two cancels of its leg, capacity 2, two fills, corrections, a bust, attestations; 570,973 states | `BasisIsFold`, `SharesCountedOnce`, `OverCapacityIsQuarantined`, `RestartReproduces`, `VenueWorkBlocks`, `OneCancelPerLeg` |
| `kernel_persistence` | 2 processes, 1 effect, 2 input ids, 2 startups; 626,123 states | `PublishedOnce`, `OwnClaimsOnly`, `ServesFresh` |
| `operator_race` | one sell, `OperatorWaits = FALSE` | `NoInventedFill` is violated |
| `stranded` | one sell, 2 faults, fair | `SubmittingNotStranded` is violated |
| `torn_fill` | 1 envelope, 1 child, 2 shares, 1 crash | `FillCountedOnce` is violated |

`TypeOK` of the other modules is proved, or part of the proved invariant, and
holds too when it is added to their configurations. Each property of a passing run has a
mutant that violates it.

### Bounds

- `OrderSubmission`: orders interact only through the loop's position and the
  sessions, and the safety properties are proved for any number of orders, so TLC runs
  have one order with many failures. Two shares give partial fills and two fill
  levels; two faults reach the deepest nesting of failure handlers (submit, then
  repair); `MaxQuery` 2 with `MaxLag` 1 has a wrong not-found answer followed by a
  right one; two days have an order whose session is not today's.
- `SellSide`: two further orders are a buy and an exit, or an exit and the one that
  supersedes it; two days have a grant and a kill switch of yesterday; two commands have
  a kill switch with a flatten or a grant; one share over an order's size is an overfill.
- `Envelopes`: two envelopes are a predecessor and a successor, two children an order
  and its replacement, which may both work, two shares a partial fill; the fault is a
  crash or a failed write at any step. With two faults the same invariants hold (4,267,428
  states), and they are proved for any number. Under fairness there is one envelope,
  one command and two faults, a crash and a failed write or two crashes around one fill,
  since the repair sweep is needed only after the second.
- `MassReconciliation`: two orders let one be looked up while the other fills; two
  retries with lag 1 have a wrong absence followed by a right one.
- `VenueRecovery`: two fills with two reported intervals for one of them overlap or
  chain; a correction, a bust and a second correction form revision chains; 3 prices on
  2 grids lose the basis' metadata; openings are flat, long 3 and short 1; the
  registry stops at 3 facts. `REPLACE` effects are not instantiated.
- `KernelPersistence`: two processes are the owner and its successor; two startups are a
  takeover or a restart; two ids are a command and its repetition under another id. The
  invariants are proved without these bounds.

Deadlock is checked where the loop runs for ever (`OrderSubmission`,
`MassReconciliation`). The other models stop when their bounded supply of orders,
commands, facts or startups is used up.

### Fairness

- `OrderSubmission`: weak fairness of the loop, because `monitoring_loop` catches every
  exception of a tick and sleeps a fixed time; strong fairness of the answers to
  status reads, queries and cancels, because a call is repeated every tick and an outage
  that never ends is outside the promise; strong fairness of sending the query of each
  quarantined order, because `ReconcileFairnessCursor` resumes after the last order
  that used the budget; weak fairness of the venue finishing a cancel and of a
  delayed request landing or being lost. Submit and re-drive calls get none: they may
  fail for ever, and the cap must end them.
- `SellSide`: the tasks run; `ProtectStart` is strongly fair, which means that
  infinitely many ticks get past reconciliation and find the price below its floor;
  acknowledgements and accepted cancels of buys are strongly fair (repeated every
  tick); the venue takes a request and ends what it was asked to cancel.
- `Envelopes`: every sweep, poll, repair and wind-down is strongly fair, since a tick
  runs each of them for every child; a step in progress continues; the venue answers and
  ends an order whose cancel it accepted.

The liveness properties are about the loop as configured: an unpriceable floor sell is
retried for ever without one of these outcomes and has no liveness run.

### Findings

1. `operator_race`: `_reconcile_open_orders` reads the recorded sum before it
   awaits the broker. An operator's fill ingestion in between makes the poll
   book the increment over a stale sum under a new id: 3 shares recorded, 2
   executed. The adapter's comment calls the scheme airtight.
2. `stranded`: after an accepted submit falls back to the uncertainty fact and the
   repair fails once more, recovery and the operator settle the broker order, and
   the local order remains `SUBMITTING` without id, owner or sweep. INV-023 says
   "never left stranded".
3. `torn_fill`: an envelope child's fill is bridged (event and mandate) in one
   transaction and its row appended in another. After a crash between them and one more
   execution, the next poll delivers both shares under the id of the new level, and the
   first is counted twice.

Seen while modelling, without a run:

- `VenueRecovery!RestartIsAccepted` says that every registry the book records can be
  replayed, as `bind_venue_execution_snapshot` requires at a restart ("Bind restart
  state against independently retained reconciliation authority", `recovery.py:1427`).
  Added to `VenueRecovery.cfg` it is violated: a broker fill that overlaps or contradicts
  coverage is recorded as reconciliation required, without economics
  (`recovery.py:733`), while `_replay_venue_hydration_snapshot` (1325-1375) replays it
  as a new root and then refuses the registry.
- The repository states two contracts of a replace. By `adapter.py` 298-300 no "two
  orders (double exposure) rest" and by `monitoring.py` 2657-2658 the two "are never both
  live"; by `adapter.py` 301-303 and `reconciliation.py` 1787-1792 the acknowledgement
  does not end the predecessor. The claim checks a replacement's size against the whole
  position and mandate (`core.py` 2346-2351), without the shares its predecessor still
  offers. `Envelopes!VenueSellsAreCovered` says that the sells resting at the venue
  offer no more than is held: added to `Envelopes.cfg` it is violated under the second
  contract without any fault. `SellsAtVenueAreOwned` and `OverfillIsLatched` say what
  holds under both: the overlap is one replacement and its predecessor, both stay open in the
  store, and what is attributed beyond the mandate latches the quarantine.
- Not-found answers of the mass pass are said never to sum unless consecutive
  (`monitoring.py` 4850-4853, 4886-4890), but presence seen only in the mass report or by
  the per-order poll, or a failed `cleared_present` write, does not reset the streak.
- "A held position stays exitable" (`monitoring.py` 4298-4300, 2181-2183), but the
  re-raise at 4313-4316 ends the tick before protection while reports keep failing.
- With the smallest configurable query budget, 1, the two tokens a pass needs are
  never available and every pass is skipped or fails.
- After the venue forgets an order in `CANCEL_PENDING`, nothing resolves it: its poll
  errors and the pass cannot end it, so the driver stays `REDUCING`.
- A `needs_review` record with a blank broker id has no command that ends it
  (`SubmitRecoveryIdentity.broker_order_id` has `min_length=1`), and the "manual cancel
  raced the submit" case of `_handle_unpersisted_submit` cannot occur, since nothing
  moves a claimed order while its call is in flight (`ClaimIsExclusive`).
- A claim of the kernel lost between COMMIT and publication keeps startup
  `NON_SERVING` until the venue answers for it.
- Kernel protection: a price gap wider than `max_step_fraction` leaves the last primary
  price unchanged, so later prices near the new level are inert until the stream is
  invalidated. `docs/adr` ADR-023:69 keeps `evaluation_time` out of an
  occurrence's identity; `_market_occurrence_preimage` includes it (as a later
  work order accepted).

## 4. Proofs

All theorems are about `Spec` with any sets of orders, processes, effects and inputs
and any bounds, from the named assumptions of the module that declares the constants.

**Order path.** `SubmissionInv` is inductive whatever the operator does. The
properties alone are not: that a `CREATED` order was never sent depends on every release
path starting from an order that is *clean* (nothing at the venue, on its way, or in a
record), which holds because a submit that is not yet sent is clean, which holds because
the claim takes only clean orders; and all of it depends on the shape of the loop - a
call belongs to the running sweep, its order has left the list, and the condition that
listed an order lasts until the sweep reaches it (no other task may change it). From it
follow `TypeCorrectness`, `NeverResubmittedAsNew`, `ClaimIsExclusive` and
`CloseLeavesNoZombie`.

`LedgerInv` adds the fills, under `OperatorWaits`. Its core is `AnswerHolds`: what
a handler uses of a broker answer is still true when it acts on it, since fills
only grow, terminal venue states last, a believed not-found answer outlasts the
venue's lag, and the recorded sum read before a poll has not changed. Together
with `TerminalAgrees` (each terminal status agrees with the venue) it gives
`NoShareCountedTwice`, `TerminalMeansSettled`, `LiveIsTracked`, `ReleaseIsFinal`
and the action property `LifecycleIsGuarded`.

`OrderPathImplementsOwnership` shows the refinement from the same invariant: at every
action the stage an order is mapped to (*local*, *owned*, *settled*) either stays or moves
as `OrderOwnership` allows, with what was executed and recorded. A settled order may not
execute, which is where `TerminalAgrees` is needed.

**Mass reconciliation.** An order is ended when the report misses it `Retries` times in a
row. The invariant is a budget: for an order the venue has, the streak recorded, the
answer in hand and the misses the venue may still produce stay within `MaxLag`, which
the assumption puts below `Retries`. `AbsencesStayShort` states it and `NoLiveOrderEnded`
follows. `ClaimNeedsParity` needs that the gate was last set by a pass of this session
whose verdict was parity.

**Exits.** The core of `SellSideInvariant` is `ExitIsAlone`: while an exit is open no
other exit is and no buy may execute, since an exit is minted only when nothing else may
execute, and the claim refuses a buy while a sell is open. From it come
`BuysAndSellsNeverMeet` and, with `ExitIsCovered` (the venue holds what an open exit has
still to sell: it was sized from the recorded position, which is the venue's when
everything else is settled, and only the exit itself changes it since),
`ExitsNeverGoShort`. That last step is about sums over all orders, for which `SumLemmas`
says what an update of one order does to the sum. The action properties
`OverfillHoldsBuys`, `ExitsPreemptBuys` and `HaltedExitsNeedGrant` and the refinement
`SellSideUsesOwnership` use the same invariant.

**Envelopes.** `VenueSellsAreOwned` needs `ClaimMeetsOnlyItsOwn`: a child about to be
sent meets at the venue only the one it replaces. Nothing is assumed of what the venue
then does with the two. It and `ReleaseIsFinal` need that every step that
ends a child locally finds it over at the venue, that an owner is released only over dead
children and that nothing revives one.
`RemainderIsLedger` and `OverfillsAreLatched` need that every fill level is bound to one
mandate and attributed once, on whichever of the three paths (bridge, booking after
ingest, repair) it arrives. `RequestedCancelHolds` is an action property of the claim.

**Venue book.** `VenueBookInvariant` has three parts. Reservations and effects that
reserve name each other (`CancelsAreExclusive`). The summary of every effect equals
`Derived`, because each input refreshes every effect whose legs, status or disputes it
changed, and only an effect that never left can have a closed acceptance set
(`ClaimedWorkBlocks`). The reducer never drops a latch or a root (`Grown`), a root has
one broker interval, and the last interval of an undisputed leg ends where the leg's
total ends; so the total the capacity check of a correction computes from the input is
the total the book will have (`OverfillsAreQuarantined`).

**Position of the venue book.** `PositionInvariant` stands on `VenueBookInvariant`. Its
part `Sound` is about the execution snapshot alone, and a lemma shows it for each thing
that happens to one: a fact, a recorded reconciliation, a corroboration, a latch. It
says that

- the quantity is that of the ordered fold of the heads, an available basis and its
  price grid are the fold's, and the tail proof is the fold of all heads but the last;
  the last clause is what makes a correction of the last root, which refolds from the
  tail proof, agree with a fold from scratch (`PositionIsTheFoldOfItsHeads`);
- a root has one head;
- a registry that replays gives a position that differs in latches at most, and never
  has one more. It holds step by step because the reducer is a function of quantity,
  basis, heads, tail proof and registry and never reads the latches: two positions
  alike but for latches answer a fact alike (`FilledAlike`, `RevisedAlike`,
  `ReconcileAlike`). Only a step with the same answer is recorded under the same
  classification, which is what `ok` of the replay checks (`RestartReproducesPosition`).

The other parts relate the heads to the coverage: an undisputed leg's total is the sum
of its heads, an effect's total that of its legs, and a leg nobody owns covers nothing.
An applied fact adds or resizes one head, an exact mapping adds or resizes one interval
by the same shares, and everything else leaves the leg in dispute
(`SharesAreCountedOnce`). `VenueBookTypes` needs `ShapeInv`: the last interval ends at the
total also on disputed legs, as long as no inexact revision touched them, and so a total
that a correction resizes stays non-negative.

The assumptions are those of `VenueAssumption` and `InputAssumption`: finitely many legs,
the kinds, sides and quantities the input types admit, and that the facts a book is opened
with are of legs the book does not know. The code does not require the last one: the first
request may come with any snapshot. A head of a leg the book discovers later is what
`_has_unattributed_broker_root` (`recovery.py` 516-525) looks for before an attestation,
and the book's totals would miss its shares; the theorems say nothing of such openings.

**Kernel persistence.** `KernelInvariant` says that no context is ahead of the
checkpoint, that every outbox row is a claimed effect, that an eligibility belongs to
one process and to an unpublished effect, and what startup has established before its
last lease check and a serving process owns, each *while the context is current*. The
version is what makes it inductive: it rises with every change of the checkpoint, so a
context that equals the checkpoint after somebody else's step equalled it before, and
then that step changed nothing. `EffectsPublishedOnce`, `ClaimsAreOwned` and the action
property `StartupServesFresh` follow.

The proofs have one step per action. Lemmas state what a helper preserves. `SumLemmas`
proves its facts by a counterexample of least cardinality, `FoldLemmas` by one of least
length: the library's fold is defined on sets of positions, so the existence of that
function and its agreement on common prefixes come first, for any step operator.

Every inductive invariant was an invariant of a TLC run on the instance of its module
before it was proved. Some definitions were restated so that they could be reasoned
about, with the same meaning: sums are `SumFunctionOnSet`, `ApplyRevision` replaces one
head by one update, and the steps of the three folds have names (`FoldHead`, `ReplayOne`,
`Opened`), as have the heads and positions a fact leads to (`HeadOf`, `Filled`,
`RevisedHead`, `Revised`).

Only model-checked:

- liveness (`SubmittingNotStranded`, `QuarantineResolves`, `RecoveryConverges`,
  `CancelSettles`, `ProtectionReaches`, `FillsGetAttributed`, `ExpiredWindsDown`): the
  prover has no fairness reasoning;
- that a registry *is* accepted at a restart, which does not hold (`RestartIsAccepted`,
  section 3); the theorem is about what an accepted one reproduces;
- the violations.

## 5. Plan

Done: order path, sells and candidates, envelopes, mass reconciliation, abstract order
ownership and its two uses, execution facts and venue book, kernel persistence, and the
safety theorems of each.

Theorems: every safety invariant and action property of a passing run is stated by one,
and so are both refinements. What is left is liveness, which stays with TLC.

Models to come: the triggers and trail of kernel protection (they never loosen, an exit
needs two corroborating occurrences of one epoch, nothing re-arms after the position was
closed); liveness of `MassReconciliation` (the driver returns to `ACTIVE` once store and
venue agree).

## 6. Not modelled

- **Kernel authority and acquisition** (`authority.py`, `acquisition.py`). External
  acceptance closure is hard-coded to be uncertified (`venue.py` 13537-13545), so any
  dispatched effect blocks its symbol for good, and no command changes mode, phase,
  fence or session: little of their behaviour is reachable. Their dispatch claim and
  its retained inputs are in `KernelPersistence`. Read from the code only: a manual
  flatten whose sell was dispatched and ended unfilled stays `SELL_CREATED`; a cancel stood
  down by a kill under an active manual flatten cannot be requested again for an
  acquisition leg.
- **Kernel protection** beyond its market cursor: planned, section 5.
- **Checkpoint codec, schema, records, durable codec, identities**: encodings, table
  definitions, row types, seals and authenticity checks; they make up most of
  `execution_core`'s lines and hold no control state. A checkpoint is one value here.
- **In-memory and SQLite twins**: each operation is modelled once, from one of the two.
  Migrations and queries are not modelled.
- **Event log**: the projected status is a variable of `OrderSubmission`; the log, replay
  and the other projections are not modelled.
- **Strategy, indicators, market data, price rails**: when a candidate is proposed, a
  price is below its floor, a sell is priceable or an envelope acts is a choice of the
  environment.
- **Signal ingest, HTTP, server, cockpit**: they parse and end in the commands that
  are modelled. **Recorder**: a separate process writing files. **Simulated and mock
  adapters**: test doubles.
- The models of the runtime are not composed into one tick: `SellSide` uses orders
  through `OrderOwnership`, which `OrderSubmission` implements; `MassReconciliation` and
  `Envelopes` state what they assume of the sweeps.
