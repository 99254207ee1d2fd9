# Verification of polytrading's live execution

TLA+ models, TLC configurations and TLAPS proofs for the part of polytrading that can
lose money: the code that takes an execution intent to a venue at most once, follows the
order, and recovers after a crash, a lost answer or a stream gap; the local live pilot
that drives it; the link to the signer; the live feed; and the ledger that is reconciled
with the venue.

Paths below are relative to `src/src/polytrading/` unless they start with `docs/` or
`tests/` (which are under `src/`).

## 1. Inventory

| Component | State it keeps | Operations | Talks to | What is hard | What makes it correct |
|---|---|---|---|---|---|
| Execution coordinator (`predictions/execution/coordinator.py`) | `_prepared` snapshots, `_recovering`, the last received-at time | `prepare`, `submit_intent`, `apply_order_event`, `recover_account`, `recover_on_startup` | store, preflight, authority, signer and account-reader ports (callbacks) | no lock, several threads and coordinators on one database, a crash between any two writes, lost answers | at most one submission, boundary before venue, no order lost without a kill, one first-fill decision, a complete report means resolved |
| Venue order lifecycle (`execution/ledger.py`, `models.py`) | none | transition table, classification of histories | coordinator, reconciliation | chains per order id, evidence shared by two events | only legal chains are used |
| Execution store (`predictions/storage/store.py`) | append-only tables with content hashes, operation claims | append, verified reads, claims, one transaction at a time | everybody | idempotent re-append versus conflict | claims are permanent, records immutable |
| Live ledger and reconciliation (`execution/ledger.py`, `reconciliation.py`) | postings, reconciliations (in the store) | postings from confirmed trades, conservation, account reconciliation | store, coordinator's startup scan | relations between order, trade, posting and economics evidence | double entry conserves; a complete reconciliation closes |
| Authority and kill switch (`execution/authority.py`, `kill_switch.py`) | verified activation chain; kill events | `decide`, `KillState` | coordinator boundaries | staleness between decision and mutation | a kill is final for the account |
| REST routes and results (`polymarket_execution/routes.py`, `rest.py`, `order.py`) | none | encode, send, classify | signer | unknown outcomes | closed result codes with kill flags |
| User stream and heartbeat (`polymarket_execution/user_stream.py`, `heartbeat.py`) | connection, sequence and gap state; last heartbeat id | parse, health, beat | coordinator, recovery | gaps, reordering, late answers | a gap is never hidden |
| Signer process and IPC (`polymarket_execution/signer.py`, `ipc.py`, `protocol.py`, credential modules) | credentials, request ids, kill flag | sign, submit, cancel, heartbeat, kill | coordinator's signer port | lost answers, replay | no replay, kill closes it |
| Pilot execution (`predictions/pilot/sessions.py`, `execution_port.py`) | frozen plan, submitted legs, session | run a plan leg by leg, recover, tick | its execution port, capabilities, signer link | partial failure between legs | exposure is recovered or killed |
| Pilot control (`pilot/capabilities.py`, `services.py`, `policy.py`, `activation.py`, `presence.py`, `qualification.py`, ...) | challenges, nonces, grants, kill and clearance events, presence | challenge, authorize, issue, kill, clear | passkeys, store, executor | one-time use, expiry, revocation races | a grant is used once, by the session it was issued for |
| Pilot runtime, server, signer link, passkeys | processes, sockets, launch records | start, serve, verify | all of the pilot | start-up order | fails closed |
| Shadow planner, simulator, ledger, risk (`predictions/shadow_*.py`, `risk.py`) | shadow plans, events, postings | plan, simulate, post, reconcile | store, collectors | event order, partial fills | shadow ledger conserves |
| Candidates, economics, proofs, experiments | artifacts in the store | exact arithmetic and admission | store | rounding, staleness | artifacts are reproducible |
| Collectors, manifests, registries, dashboards | raw envelopes, books | fetch, parse, append, present | venues, store | gaps in data | nothing is overwritten |
| Funding trial (`trial/`), funding carry (`carry/`, `venues/`, `ledger/`, `storage/`) | writer lease, cycles, books | collect, rotate, paper-execute | venues, store | two writers, missed cycles | one writer at a time |
| Offline research, web, CLI (`ai/`, `research/`, `corpus_intake/`, `web/`, `cli.py`) | files | analysis, presentation | store | none of note | - |

How they interact. The coordinator claims and stores, asks preflight and authority at
each mutation boundary, and hands the order to the signer, which talks to the venue.
Stream events come back through `apply_order_event`; recovery reads the account through
the reader port and the whole stored history, and blocks the account with a kill when
they do not agree. The store is the only shared state; a DuckDB file belongs to one
process, so a crash takes all coordinators with it. Nothing under `src/src` builds an
`ExecutionCoordinator`: its callers are the tests and whoever composes it, and the model
leaves them free.

The live pilot has an executor of its own (`PilotExecutor` over
`CoordinatorExecutionPort`). It runs inside the handlers of a threading HTTP server, takes
its grant from a passkey ceremony, and reaches the venue through the signer sidecar, over
a pipe each way. The user stream, its parser and the heartbeat are values that a caller
advances, and the ledger is a set of functions over the store; neither has a caller under
`src/src` either, so the environment of those models is everything a caller may do.

`PROJECT.json` lists every component with its status, and the hazards of the code at the
lines where they bite.

## 2. Modules

| Module | Models |
|---|---|
| `OrderLifecycle` | `_LEGAL_ORDER_TRANSITIONS`, the terminal states, the classification of a history, and the readers (`latest_order_state`, `_known_venue_order_ids`). Operators only. |
| `ExecutionCoordinator` | The coordinator over its tables. |
| `CoordinatorProperties` | Its invariants, action and liveness properties, the documented claims that fail, and the refinement mapping. |
| `AtMostOnceSubmission` | The abstract specification: an intent goes new, claimed, ready, committed, sent, once and in order, and a halt closes the way to committed. |
| `ApprovalUse` | The abstract specification of the pilot: what one approval is worth. It is asked for once, given to one executor, and dies with its launch; its legs are stored, then sent, once and in turn; a leg that is not matched closes the launch. |
| `PilotLaunch`, `PilotProperties` | The live pilot: request threads, passkey ceremony, grants, executor, port, signer and kill, launch after launch over one store. |
| `AtomicSigner` | The abstract specification of the link: each request is handled at most once, whole, after it was asked, and its caller is told the answer to that request or nothing; nothing is performed once closed. A refusal does not say that nothing was performed. |
| `SignerLink`, `SignerLinkProperties` | The two pipes between control process and signer, write by write and read by read, and the sidecar's loop, cache and kill. |
| `UserStream`, `UserStreamProperties` | The one-shot subscription, the stream's health, its parser, and the heartbeat. |
| `LiveLedger`, `LiveLedgerProperties` | Trade events, economics, postings and reconciliation reports, over an account that moves on its own. |
| `ExecutionCoordinatorProofs`, `StreamProofs`, `RecoveryProofs`, `InertProofs` | Proofs about the coordinator. |
| `PilotProofs`, `SignerLinkProofs`, `UserStreamProofs`, `LiveLedgerProofs` | Proofs about the other four. |
| `MCCoordinator`, `MCPilot`, `MCSignerLink`, `MCUserStream`, `MCLiveLedger` | Model values, symmetry and small instances for TLC. |

The properties of a component stand in a module of their own, which the proofs and the MC
modules extend. A definition whose comment begins "Mutant:" is a plausible bug that some
property excludes; it is used by no specification.

### ExecutionCoordinator

The variables come in three groups, after where the program keeps them.

* The database survives a restart: `claims` and `firstFill` (operation claims),
  `persisted` (plan and intent), `envelopes`, `history` (order events), `trades` and
  `unreconciled` (trade events, and which of them no reconciliation covers), `killed`
  (some kill event).
* The memory of coordinators and threads does not: `prepared`, `recovering`, `rec` (the
  locals of the running recovery), `call` (each thread's place in its call), and
  `scanned` (which coordinators have run a startup recovery).
* What the ports have seen is there for the properties: `feed`, `posts`, `cancels`,
  `revalidations`. `posts` counts calls of `signer.submit`.

An order event is `[state, ref, src, raw]`: the normalized state, whether it carries the
venue's order id or the placeholder `intent:<id>`, where it came from, and what its
`raw_event_hash` is the hash of. Only evidence that two records can share is told apart
(a body of the orders read, a body of the trades read, a stream frame); everything else
is `NoBody`.

A call is a sequence of actions, one per store operation or port call, because a thread
can be overtaken exactly there; the tests and assignments between two of them belong to
one action.

| Code | Actions |
|---|---|
| `prepare` | `PrepareCall`, then `PrepareRefused`, `PrepareCollision` or `PrepareCommit` |
| `submit_intent` | `ClaimSubmission` or `SubmissionTaken`, `DuplicateSubmission` |
| `_submit_claimed_intent` | `StartClaimed`, `SignBoundary`, `Sign`, `PersistBoundary`, `SubmitBoundary`, `Post`, `Classify`, `UnknownAfterSign` |
| `_fresh_mutation_evidence` | `Boundary` |
| `apply_order_event` | `DeliverEvent` (`StartApply`), `AppendEvent`, `ClaimFirstFill`, `Revalidate`, `Contradict` |
| `_run_recovery`, `_recover_account` | `StartRecovery`, `Scan`, `ResolveByRead`, `ResolveByCancel`, `Unresolved`, `CloseRecovery`, `Report` |
| `_recover_from_order_read`, `_recover_from_trade_read` | `OrderRead`, `TradeRead` (then `StartApply` and what follows it) |
| `_recover_cancellation` | `Cancel`, `SendCancel`, `CancelResult`, `Confirm` |
| `_engage_kill` | `EngageKill` |
| `reconcile_live_account` | `Reconcile` |
| a process death | `Restart`: the tables stay, memory and calls are gone |

A recovery reads every history once, at its scan, and other threads append meanwhile.
`rec.read` is how much of each history it read: the cancellation decides on the
acknowledgements in that part (`AcksRead`). `rec.seen` is how far the times of its own
events reach.

Abstractions:

* Preflight, authority, signer, reader and stream answer nondeterministically within what
  the code accepts, exceptions included (`FAILED`). A refusal and stale evidence are the
  same answer.
* One clock: `received_at` order is append order. The tests of order id, time and sequence
  number of an incoming event are one Boolean, `inOrder`, FALSE for an event that is
  already stored. Recovery's own events are out of order only when something was appended
  after its scan.
* The account scan is one action: all its reads are as of one cutoff.
* The closure of postings, economics and reconciliations is the Boolean `closed`, which is
  FALSE while a stored trade has no reconciliation over it (`LiveLedger` has the detail).
  `Reconcile` is enabled when the histories are legal and the order and trade evidence is
  disjoint, as `reconciliation.py` requires. Two trades of one order from one read share a
  hash as well, and the code rejects that; the model keeps one body per intent, so it
  allows more reconciliations than the code, never fewer.
* A kill is a Boolean: its trigger, scope and evidence are not told apart. Two threads
  that store the same kill at the same time, and nested transactions, raise exceptions
  that end a call; they are not modelled (see the hazards). Corrupt records are not
  modelled, except as a recovery whose ledger is not closed.
* The test-and-set of `_recovering` is one action.

### PilotLaunch

`thread` is a request's place in its handler; `killed`, `challenges` and `grants` are
`_LaunchState`; `opened` and `spent` are `_CeremonyState`; `revoked` is the verifier's set;
`signerKilled` and `consumed` are the sidecar's; `store` is what is durable; `orders` and
`unsettled` are the venue's. A grant is a challenge and the request that drew it.

| Code | Actions |
|---|---|
| `auth_options` | `Options`, `OpenChallenge` |
| the ceremony of `authorize` and `clear_kill` (`spend`) | `Approve`, `Spend`, `Replayed` |
| `_freeze_plan`, `_issue`, `_executor_inputs` | `Freeze`, `Issue`, `Keep`, `Start` |
| a leg (`_run_frozen_plan`, `CoordinatorExecutionPort`, the sidecar's dispatch) | `Persist`, `Check`, `Sign`, `Snapshot`, `Deliver` or `Refuse`, `Reply` |
| `_continuation`, `_recover`, the end of a run | `Decide`, `Recover`, `Halt`, `Record` |
| `_engage_kill` (stop, lost presence, a refused freeze) | `Stop`, `Revoke`, `SetKill`, `Trip` |
| `clear_kill` | `ClearRead`, `ClearSet` |
| an exchange or store call that raises | `Raise` |
| the operator, the world, the venue, a new launch | `OperatorGone`, `Drift`, `Settle`, `Restart` |

A handler is split where it calls out and another thread may run. Amounts and policy
limits are left out (a plan is a number of legs); an expired challenge or grant is a step
that raises; the account, geoblock, eligibility and manifest reads are `healthy`. Two
handlers are coarser than the code: opening a challenge is one step (`OpenChallenge`), and
so are the revocations of one (`Revoke`); no property depends on what lies between.
`provider` is the reconciliation provider: the composed one (`reconcile_startup`) hashes
the times of its own reads, so no evidence hash it gives is current a moment later; an
injected one, as the tests use, may hash only what it read.

### SignerLink

An exchange is a process: `phase` says whether it has written the size and the body of its
frame and read the size of an answer. `requestPipe` and `responsePipe` are sequences of
frame parts. Several threads write and read without a lock, so parts of two frames mix: a
size followed by another's size makes the sidecar read garbage (`Garbled`), and a reader
that begins in the middle of an answer may skip anything after it (`torn`, `ReadTorn`).
`Serve` is one iteration of the sidecar: late requests, mutations refused by a gate or by
the kill, reads, and the kill. What was handled may still be answered with a refusal
(`Settles`): the service withholds a positive answer that holds a secret, does not encode,
is too long, or binds a venue order that another intent has (`_sanitized_response_bytes`,
`VENUE_ORDER_BINDING_COLLISION`), and engages no kill for it; only a failure of the
handler does. So a refused mutation may have been performed, with or without the kill.
`executed` is what was dispatched. `cache` is the replay cache. `Lost` and `Exit` end the
sidecar, and its exit ends the readers' waits (`ReadEnd`).

### UserStream

`health` and `parser.health` are values of `UserStreamHealth`, with times as numbers;
`parser.seen` is what the parser remembers and `given` what it returned. `Times` are now
and the instant before: a caller may pass a clock value that was overtaken. `heard` and
`settled` are history: when the stream last gave a sign of life, and which of reads and
reconnect completed since the last kill; `doubt` is a heartbeat that failed with no reads
since. Actions: `Open`, `Opened` (the session, whose guard may call back into `open`),
`Drop`, `NoticeDrop`, `Reopen` (the socket), `SendPing`, `TakePong`, `Check`,
`ProtocolError`, `CompleteReads`, `ParseFrame`, `BreakParser`, `HeartbeatAnswered`, `Tick`.

### LiveLedger

The venue matches and settles trades (`Match`, `Settle`, `CloseOrder`); the store receives
trade events in any order and with repeats, and one economics record per confirmed trade
(`StoreEvent`, `StoreEconomics`), each under the stamp its writer gave it, which may be any
instant from the fact it records to the append, so evidence may enter a window that was
reported and closed long ago; a bookkeeper stamps a snapshot (`BeginRead`), reads its
families at the stamp or later and reconciles (`Reconcile`, `Report`), then appends the
posting pairs and the report, in order, one at a time, and may stop anywhere between them
(`StorePair`, `StoreReport`, `Abandon`; the code appends a pair's debit and credit as two
rows). `Closes` is the store's closure test of a stored report and
`ScanCloses` the recovery scan's. `Report` and its helpers model `reconcile_live_account`:
which trades are postable, whether trade, settlement and balance families confirm and
agree, and whether the balances close.

The bookkeeper is external: nothing under `src/src` takes snapshots or calls
`reconcile_live_account`. Two assumptions are needed. The observation stamp of a snapshot
is taken before its first family is read, and open orders are read last. And there is one
clock: a writer's stamp is not earlier than the fact at the venue that it records, and not
later than its append. The repository's only writer of trade events,
`_recover_from_trade_read`, stamps them with the instant its last read ended
(`execution/coordinator.py:1833`, 1461) and appends them after further calls (1471); the
store compares the stamp with nothing (`storage/store.py:646-657`). One cash
asset and one outcome token; realized P&L, allowances, the order-history part of the
closure, and the disjointness of hash families (which `ExecutionCoordinator` has) are left
out.

## 3. Runs

All bounds are CONSTANTs, or the instances of the MC modules. Deadlock is not checked in
the coordinator, signer, stream and ledger runs: a system whose intents are all claimed,
whose exchanges have ended or whose clock has reached its bound has nothing left to do.

| Run | Instance | Shows |
|---|---|---|
| `Submit` | 2 intents, 3 threads, 2 coordinators, 1 restart | `AtMostOneSubmission`, `BoundaryBeforeVenue`, the inductive `SubmissionInv`; one intent's kill stops the other (`KillClosesWindow`); `SubmissionRefines` |
| `Stream` | 1 intent, 3 delivering threads on 2 coordinators, 2 events | `FirstFillDecided`, `OneRevalidation`, `UnknownIsKilled` under redelivered, reordered and early events, at a coordinator with a snapshot and at one without |
| `Recovery` | 1 intent, a thread that submits and delivers 1 event, a recoverer, 2 order bodies, 1 restart, histories up to 5 | `LostOrderIsKilled`, `CompleteMeansResolved`, `ExposureKills`, `AckedCancelNotResent`, and the type invariant |
| `Liveness` | 1 FOK intent, 2 threads, fairness | `LostOrderEventuallyKilled`, `RecoveryEnds` |
| `Pilot` | 2 request threads, 3 challenges, plans of 2 legs, any number of launches | `OneExecutionPerApproval`, `LegsInOrder`, `OneLateOrder`, `UnmatchedEndsLaunch`, `ComposedLaunchIsInert`, types, and the refinement of `ApprovalUse` (`ApprovalRefines`) |
| `SignerLink` | a read, a mutation and a kill at once, 3 requests, a cache of 3, fairness | `NoForeignAnswer`, `AcknowledgedKillHolds`, `KillNotLost`, `CacheNeverRefuses`, `QuietPipesAreEmpty`, `ExchangesEnd`, types, and the refinement of `AtomicSigner` (`SignerRefines`) |
| `UserStream` | ping interval 2, 4 instants, 1 identity with 2 stamps and 2 bodies, an identity limit of 2 | `SubscribesOnce`, `ResumeNeedsReads`, `SilenceNoticed`, `EventsOnceInOrder`, `DoubtNeedsReads`, types |
| `LiveLedger` | a buying and a selling intent, 2 trades, cutoffs 0 and 1, 3 instants, 2 trade events, 2 reports | `CompleteIsTrue`, `AcceptedLedgerIsTrue`, `OnlyLateFramesReopen`, types |

Why these bounds are enough to be of use:

* Coordinator. A claim, a history and a first-fill decision belong to one intent; two
  intents share the kill, the recovery and the snapshots of a coordinator. Two threads
  race over one intent while a third works on the other. One restart separates two lives
  of the process, and nothing in memory tells a second life from a third. Two events are
  two fills that race, or one delivered twice. `MaxHistory` is the length from which no
  new appending call starts (calls in progress finish); the histories are long enough for
  SUBMITTING, an acknowledgement, a pending cancel, its acknowledgement and a
  confirmation. `CompleteMeansResolved` and the startup half of `ExposureKills` also hold in 16
  million states of an instance with two events that race with the cancel, which takes too
  long to be kept; the theorems cover it.
* Pilot. Two threads race for one approval, or one stops while the other trades; three
  challenges are one to clear the kill, one to trade, and one more for a second
  clearance or trade. Challenges are never reused, so they bound the runs. Two legs give
  a leg that follows another; a restart may happen at any point.
* Signer link. Three exchanges give every mixture of two frames while a third is queued;
  the request limit equals the cache size, which is the tightest the constructor admits.
* Stream. Four instants hold two ping intervals and a late pong; a frame may come early,
  late, twice, or with other bytes.
* Ledger. Two trades may cancel in one balance and differ in another, one may fail; two
  reports are a first one and one with a moved cutoff. Two stored events give each trade
  its terminal one, or one trade a late or repeated frame beside it; a third makes the run
  too long, and the theorems hold for any number. Nothing is matched in the last instant,
  so every trade can be reported.

Fairness. `FairSpec` of the coordinator asks weak fairness of each thread's next step
inside a call (`Step(w)`): no step waits for another thread, ports are called with
timeouts, and the interpreter runs every thread. Nothing is assumed about calls being
started, the stream sending, or reconciliations being made. `SignerLink` asks weak
fairness of a thread that has begun its frame (`WriteBody`), of a reader that can read,
and of the sidecar, whose lifetime is bounded by its deadline. The pilot, stream and
ledger modules assume no fairness.

### What the documentation says and the code does not

Each is a run that expects a violation, with a finding in `PROJECT.json`.

* `CancelOvertaken` (1 intent, events CANCEL_PENDING and CANCELLED, histories up to 4): a
  recovery stores the acknowledgement of its cancel as a new CANCEL_PENDING without
  looking at what was stored meanwhile. After the stream's CANCELLED it makes the history
  illegal, the confirming read is accepted on top of it, and the report says complete,
  with no kill. Every later recovery then blocks the account. The stream's parser yields
  no CANCEL_PENDING; the event enters by the public `apply_order_event`, as
  `tests/predictions/test_execution_recovery.py` delivers it, and the illegal history does not
  depend on it.
* `UncertainNoKill`: a missed heartbeat or stream gap should engage the kill switch;
  recovery does so only for intents with a non-terminal history, so a signed intent that
  has none yet is posted afterwards. `ExposureStops` proves that this is the whole gap: an
  uncertain recovery that ends without a kill has read only empty or terminal histories.
* `Unreconcilable`: a fill recovered from the trades read is reported as complete, and the
  shared evidence hash of its order and trade events makes every later reconciliation
  incomplete, hence every later recovery blocked.
* `PilotStop`: a stop iterates over the kept grants while another request keeps one; the
  iteration raises before the kill flag is set, and trading goes on.

Seen while modelling, and true of the models, but not kept as runs:

* Startup recovery may send a cancel (`execution/coordinator.py:1602`) under a disengaged
  kill state, which only tests construct, where
  `docs/predictions/polymarket-execution-hardening.md:175-176` says read-only. A new coordinator
  admits work before any scan (`execution/coordinator.py:2320`). With the default kill
  state neither happens: `StartsInert` is proved.
* User stream: authoritative reads that complete while the socket is still closed count,
  and the reconnect alone then restores trust (`polymarket_execution/user_stream.py:682`,
  724-728; `tests/predictions/test_polymarket_user_stream.py:626-630` asserts it). Reads
  say nothing of when they were taken. A disconnect during another recovery is ignored
  (line 617). The parser's own health never learns of pings, so a parser accepts nothing
  later than one interval after it was made; a parser per connection forgets earlier
  identities. A ping is accepted only at its very instant.
* Pilot: a clean ceremony cannot clear the kill in the composed launch, because
  `reconcile_startup` hashes its read times (`ComposedLaunchIsInert`); a failed recovery
  leaves the executor before its kill; a clearance may fall while an executor is under way.
* Signer: a queued SIGNER_KILL may be refused as expired (`polymarket_execution/signer.py:358`)
  and `pilot/services.py:1039` suppresses it; `KillNotLost` says so.
* Ledger: the closure in the store expects every posting up to the observation, so a
  report with a moved cutoff over trades already posted never closes, and a trade missed
  before a moved cutoff breaks it for ever; one stored incomplete report blocks the account
  for ever, as does a non-terminal frame stored after the terminal one. No writer gives
  trade events sequence numbers. A frame not stored before, stamped in the window of a
  closed report and appended after it, reopens the report for good, and blocks every later recovery;
  `OnlyLateFramesReopen` says that nothing else does. The recovery itself stores only
  CONFIRMED, under one id per intent, trade and order.

## 4. Proofs

All theorems hold for any sets of intents, threads, coordinators, events, challenges,
requests and trades, any number of restarts and any history length, from the named
assumptions of the module that declares the constants alone, and two from one assumption
more: `UnknownKills` assumes that the stream yields no UNKNOWN, which `_order_state` of
`user_stream.py` does not, and `AckedCancels` that all threads share one coordinator.

| Module | Theorem | States |
|---|---|---|
| `ExecutionCoordinatorProofs` | `TypeCorrect` | `Spec => []TypeOK` |
| | `SubmittedAtMostOnce` | `Spec => []AtMostOneSubmission` |
| | `BoundaryStoredFirst` | `Spec => []BoundaryBeforeVenue` |
| | `SubmissionInvariant` | `Spec => []SubmissionInv` |
| | `KillIsFinal` | `Spec => KillClosesWindow` |
| | `CoordinatorRefines` | `Spec => SubmissionRefines` |
| `StreamProofs` | `FirstFillRevalidatedOnce` | `Spec => []OneRevalidation` |
| | `FirstFillNotForgotten` | `Spec => []FirstFillDecided` |
| | `UnknownKills` | `Spec => []UnknownIsKilled` |
| `RecoveryProofs` | `LostOrdersKill` | `Spec => []LostOrderIsKilled` |
| | `CompleteResolves` | `Spec => []CompleteMeansResolved` |
| | `ExposureStops` | `Spec => []ExposureKills` |
| | `AckedCancels` | `Spec => AckedCancelNotResent` |
| `InertProofs` | `NothingStarts` | `Spec => []StartsInert` |
| `PilotProofs` | `TypesHold`, `ApprovalsExecuteOnce`, `LegsAreInOrder`, `OrdersAreEvidenced`, `OneOrderIsLate`, `UnmatchedOrderEndsLaunch`, `ComposedNeverTrades` | `TypeOK`, the safety of `Pilot`, and that every order has its durable trail |
| | `LaunchesImplementApprovals`, `ApprovalsAreRefined` | `Spec => Approval!Spec`, `Spec => ApprovalRefines` |
| `SignerLinkProofs` | `TypesHold`, `AnswersAreOwn`, `AcknowledgedKills`, `KillsLand`, `CacheSuffices`, `QuietPipes` | `TypeOK` and the safety of `SignerLink` |
| | `LinkIsAtomic` | `Spec => SignerRefines` |
| `UserStreamProofs` | `TypesHold`, `OneSubscription`, `SilenceEnds`, `EventsInOrder`, `DoubtsLast`, `ResumesRead` | `TypeOK` and the five properties of `UserStream` |
| `LiveLedgerProofs` | `TypesHold`, `CompleteReportsAreTrue`, `AcceptedLedgersAreTrue`, `OnlyLateFrames` | `TypeOK` and the three properties of `LiveLedger` |

Submission. `posts[i] <= 1` is not inductive: a state with `posts[i] = 1` and a thread
about to send is not excluded by it. `SubmissionInv` says why it cannot happen: the places
of `submit_intent` from which the venue can be reached form a pipeline; whoever is in the
pipeline of an intent holds its claim and nothing has been sent; two threads are never in
the pipeline of one intent; and at each place of it everything stored before is stored.
The inductive invariant `IInv` adds the type invariant, whose second half (`CallsComplete`)
says that a call which is about an intent names one. Each step either stays in the
pipeline and stores what its next place asks for (`Inside`), or leaves or stays out of it
(`Outside`); only a claim enters it (`ClaimKeeps`) and only `Post` counts. Recovery,
delivery and the kill never lead back into it.

`KillIsFinal` needs the invariant only for types: after a kill no boundary can be passed.
`CoordinatorRefines` maps each intent to its phase by claim, envelope, thread at `send`
and `posts`, and shows that each step is a step of `AtMostOnceSubmission` or leaves the
phases alone; a restart is its `Crash`.

First fills. `FillInv` says that the claim, once taken, has at most one worker at
`revalidate`, that nobody has decided while it is there, and that before the claim nobody
has decided at all. Every step but three is `Quiet` about it. `UnknownInv` says that no
call is about to append an UNKNOWN that came from the stream; every step is `Accounted`:
an UNKNOWN it appends is its own to kill for.

Lost orders. Four facts make `RecoveryInv`: `IInv` (what was posted has a SUBMITTING
event), `ShapeInv` (without a venue id a history says only SUBMITTING, UNKNOWN or
REJECTED), `OwnerInv` (`_recovering` admits one recovery to a coordinator, so nobody else
changes its locals), and `LostInv` (a recovery that has scanned and met a lost order has
blocked something, and has killed when it reports). `ScanBlocks` is the heart: a lost
order has a history that ends in an unresolved state and no id to resolve it by, so no
read can take it off the blocked set. It uses nothing of `startup`: every recovery that
reports has killed for the lost orders it met.

Complete reports and startups. `ResolveInv` says of a recovery past its scan: what it read
of a history is a prefix of what is stored; what it did not block was legal, has an id and
exposes nothing at a startup (`Vetted`); and an intent it met unresolved is blocked,
waiting, worked on by the call, or has an event of a read stored after the scan
(`Attended`). Each step `Carries` all intents along: nothing leaves the waiting sets but
into the call, and nothing leaves the call but by an event or a block. Other threads may
append anything; a prefix that has been read does not change (`ReadStays`).

Cancels. `AckInv` says that from the scan to its own cancel of an intent a recovery has
read every stored acknowledgement of it. Only `CancelResult` stores one (`AcksAfter`), and
with one coordinator no other recovery is under way in between. With two coordinators the
property does not hold, nor does the code claim it.

Pilot. `CeremonyInv` says that a challenge is opened by one request, that the request
which popped it is alone with it, and that at most one grant is claimed for it, whatever
restarts. `View` is what an executing request may rely on: no order of its grant before
the first leg, matched orders for the legs before, the stored intent of the leg at hand,
and no late order yet when it stands behind its last authority test. `OrderInv` adds that
an order of this launch that did not match has killed the signer. For the composed launch
`Inert` says that no evidence hash is current, so that no request passes its reads.

The launches implement `ApprovalUse` by a mapping that reads only the store, the challenges
in memory, the orders and the signer's kill. `Alive` adds that a request executes in the
launch that opened its challenge. Most steps leave what is mapped alone or are a kill
(`QuietMaps`); opening and claiming a challenge are `Ask` and `Give` (`CeremonyMaps`),
`Persist` is `Store` and `Deliver` is `Send`, which `View` shows to be due, and a restart
is `Relaunch`. A recovery stores an unwind, never the intent of a leg
(`OnlyPersistStores`).

Signer link. `Truth` says that every positive answer on its way is the one the cache holds
for its request, `Fresh` that a request not wholly written or still in the pipe is there
once and has no answer yet, `Engaged` that an answered kill is engaged. The cache holds no
more answers than iterations of the loop (`Counted`). That quiet pipes are empty is a
matter of counting: `Balanced` says that of the answers the sidecar has
given, as many sizes were taken from the pipe as exchanges began to read, and as many
bodies as exchanges ended well. When all of them have, every answer was taken whole.

The link implements `AtomicSigner`: one iteration of the sidecar is the one step in which
a request is handled (`ServeMaps`), a first write is `Ask`, and a caller is told something
when its exchange ends. `Honest` says that an answer in the pipe that names a request is
the one in the cache, so a caller learns the truth about its own request or, after a
collision, an unbound answer or a failure, nothing: its request may have been handled, or
still be.

User stream. `Trust` says which deadlines a trusted stream is under and what each phase of
a recovery has behind it, `Opening` that an open under way is the only one and precedes
the frame, `Remembered` that the parser's memory is as large as what it gave.

Ledger. `Past` says that every report was stamped before now, so that what the venue does
next falls after it; `Grounded` that evidence and postings are of trades the venue made and
confirmed, and stamped no earlier than the facts it records. A closed report from the
opening posts every trade of its window. A frame stamped in the window is therefore of one
of its trades (`NewIsOfWindow`, `PostingsName`), which is a late frame; without one, the
events of the window, their facts, the economics (each trade has its own already), what is
postable and the rows expected no longer change (`EventsStay`, `FactsStay`, `EconStays`,
`PostableStays`, `RowsStay`).

Only model-checked: liveness (`LostOrderEventuallyKilled`, `RecoveryEnds`, `ExchangesEnd`),
because fairness and ENABLED are out of the prover's reach. Every other property of a
passing run is a theorem.

## 5. Not modelled, and the plan

Done: order lifecycle, coordinator and abstract submission; pilot; signer link; user
stream and heartbeat; live ledger; the proofs above.

The models stand for about a tenth of the lines of the implementation. Most of the rest
has no state a model could add anything about: parsing, validation and canonical encoding
of records, HTTP and venue clients, cryptography and key stores, presentation, command
lines, research tools, and the exact arithmetic of candidates and proofs, which is tested
against exact values. What does have state and is not modelled:

* the shadow trial (planner, simulator, shadow ledger, risk): its events and postings;
* the funding trial's writer lease and its cycles;
* the store itself: idempotent append against conflict, transactions entered by two
  threads, and the verification of stored hashes; its tables appear as the state of the
  models above;
* the chain of activation records and the kill-state records behind the authority, which
  are nondeterministic answers here, and the pilot's policy limits, plan selection and
  qualification;
* the automation session runner of the pilot, which every composition refuses.

Three hazards have no property: a crash between a stored REJECTED event and its kill
(`execution/coordinator.py:2399`), the unlocked test-and-set of `_recovering` (line 1799),
and transactions entered by two threads (`predictions/storage/store.py:511`).

Next would come the shadow trial's ledger (conservation of postings under partial fills),
the writer lease (one writer at a time), and the store's append as an abstract
specification that the tables of these models implement.
