# Formal models of the AI video aggregation platform

The platform sells points, quotes and queues video generation tasks, routes each
task to one of several providers, and pays for the outcome out of points that
were reserved when the task was created. It is a set of TypeScript services
(`src/services/*`), each with its own PostgreSQL schema, that talk through
authenticated HTTP commands and through outbox events that are delivered at
least once and in any order, and two web applications (`src/apps/*`).

This directory holds TLA+ models of the parts in which money, points, paid
work, sessions or decisions can be lost, doubled or stuck, the TLC runs that
check them on small instances, and proofs that TLAPS checks for every instance.

    tlc -workers 2 -config Services.cfg MCServices.tla
    tlapm TaskCreation_proofs.tla

## Modules at a glance

| Module | Models | Abstract module | Proofs |
| --- | --- | --- | --- |
| `WalletLedger` | `wallet-service`: ledger, adjustments, reconciliation | `PointsAccounts` | `WalletLedger_proofs` |
| `TaskCreation` | `generation-service`: creation of a task under an idempotency key | `TaskFunding` | `TaskCreation_proofs` |
| `TaskSaga` | `generation-service`: provider events, cancellation, payment, repair, failover | `PointsHold` | `TaskSaga_proofs` |
| `RechargeOrders` | `payment-service`: orders, credits, refunds | `PointsSale` | `RechargeOrders_proofs` |
| `ProviderExecution` | `provider-runtime`: submission, retries, polls and callbacks of one execution | `ProviderPurchase` | `ProviderExecution_proofs` |
| `ProviderCircuit` | `provider-runtime`: the circuit breaker of a provider and its half-open probe | | `MCServices_proofs` |
| `AssetStorage` | `asset-service`: uploads, imports, deletions and cleanups against an object store | | `AssetStorage_proofs` |
| `UserAccounts` | `identity-service`: login, refresh families, change of phone, closing | | `MCServices_proofs` |
| `SessionRefresh` | `user-web`: how the tabs of a browser share and refresh one session | | `MCServices_web_proofs` |
| `AdminSignIn` | `iam-service`: second factors and rotation, each in two transactions | | `MCServices_proofs` |
| `IamRoles` | `iam-service`: roles, grants and the last super administrator | | `MCServices_proofs` |
| `Notifications` | `notification-service`: the delivery of one SMS | | `MCServices_proofs` |
| `Publication` | `operations-service`: versions, publications, purchases, banner slots | | `MCServices_proofs` |
| `SupportUploads` | `operations-service`: the saga of a message with an attachment | | `MCServices_web_proofs` |
| `TaskEvents` | `user-web`, `edge-gateway`, `generation-service`: a tab that follows a task | | `MCServices_web_proofs` |
| `AdminConsole` | `admin-web`: how a decision of an administrator reaches the backend | | `MCServices_web_proofs` |
| `OutboxDispatch` | four services: how replicas publish their outbox | | `TaskCreation_proofs` |
| `Reporting` | `reporting-service`: projections, compensations and rebuilds | | `MCServices_proofs` |

`MC...` modules add the sets TLC is given; `MCProgress` and `MCServices` hold small
instances of several services each. A `.cfg` file is named for the question it
asks. An operator preceded by a comment `Mutant: ...` is a deliberately wrong form
of the definition that follows it, kept to show that the properties notice.

How the parts fit: `RechargeOrders` produces the CREDIT and REFUND commands,
`TaskCreation` the RESERVE (and its compensating RELEASE), and `TaskSaga` the
SETTLE and RELEASE commands that `WalletLedger` posts. Each of the three callers sees the
wallet through the same contract: a command under a business key is posted at
most once, an exact repetition is answered with the first result, and a command
that the points do not cover is refused. That contract is what `WalletLedger` is
proved to implement (`KeepsPromise`: `Once` of `PointsAccounts`), so the callers are
checked against what is proved of the ledger and not against its code again.
`ProviderExecution` stands on the other side of `TaskSaga`: the events it announces are those the
saga consumes, in any order, and more than once; `ProviderCircuit` is what lets its calls
through. `TaskEvents` composes the browser, the gateway and the stream of a task's transitions.
`SessionRefresh` composes the browser, the web server and the rotation of `UserAccounts`.
`SupportUploads` composes the ticket service with the reservations of the asset service.
`OutboxDispatch` is what brings the events of one service to the next: the consumers above take them to be repeated
and reordered, which is what it lets through, and its liveness says that they come.

## Inventory

For every component: the state it keeps, its operations, with whom it interacts,
what makes it hard, and what would make it correct.

**Wallet** (`services/wallet-service`). State: accounts, immutable entries,
balance snapshots, transactions under unique business keys, wallet restrictions,
adjustment requests and approvals, reconciliation runs. Operations: credit,
refund, reserve, settle, release, adjust; request and approve an adjustment;
reconcile. Called by the payment, generation and admin sides; emits an outbox
event for each posting. Hard: repeated commands, concurrent approvals that span
several transactions, a reconciliation that reads while postings commit. Correct:
double entry, no overdraft, append-only, two approvers, blocks only for cause.

**Task creation** (`services/generation-service`, `create-task.service.ts`). State:
the `TaskIdempotency` record with its phase and lease, the task with its saga, the
wallet commands in flight. Operations: claim, take over, reserve, persist,
compensate, wait, repair. Hard: every statement may commit and lose its
acknowledgement, the wallet may post after it answered an error, any process may
die. Correct: a queued task is funded, a failed creation holds nothing, whatever is
uncertain is in an operator's hands, and two callers never get contradictory answers.

**Task saga** (`services/generation-service`, the consumers and the repair job).
State: the task with status, version, saga, disposition and financial plan; an inbox
with leases; operator cases. Operations: the provider events, the asset event, the
cancel command, the repair job (converge, fail over, replay a plan, close, escalate).
Interacts with the wallet, the provider runtime and the asset service. Hard: every
ordering of late, repeated and contradictory events against cancellation and repair.
Correct: the points reserved for a task leave it exactly once, as the recorded outcome says.

**Provider runtime** (`services/provider-runtime`). State: executions with attempts and
leases, inbox, callback inbox, circuit states, outbox. Operations: submit, retry, record a
late result, poll, accept a callback, trip and probe a circuit. Between the generation
service and the providers' HTTP APIs. Hard: a submission whose outcome is unknown must
never be repeated blindly; polls and callbacks overlap; half-open probes expire. Correct:
one provider task per execution, no automatic retry after ambiguity, states never regress.

**Recharge orders** (`services/payment-service`). State: orders, callback bodies, outbox,
refund orders, invoices. Operations: create, callback, recovery by active query, credit,
drain, refund, reconcile. Interacts with the payment channel and the wallet. Hard: callback
and recovery race, credits and refunds lose their answers, refunds are retried concurrently.
Correct: what was paid is credited once; money and points go back together.

**Assets** (`services/asset-service`). State: assets, upload sessions, result imports with
leases, deletions and cleanups with leases, an object store. Operations: create, complete,
expire and reject an upload; import a result; delete, restore; the lifecycle job. Hard: rows
and objects are two stores; workers lose leases in the middle of a copy. Correct: an available
asset has its object, and an object nobody wants is deleted in the end.

**User identity** (`services/identity-service`). State: users, refresh-token sessions by family,
SMS challenges in Redis, outbox. Operations: issue and verify a code, sign in, rotate, log out,
revoke, change phone, close. Hard: a refresh token presented twice, closing an account during a
sign-in, codes consumed by a transaction that rolls back. Correct: one live session per family,
none after revocation or closing; identity changes only by proof.

**Admin sign-in and roles** (`services/iam-service`). State: administrators, MFA challenges,
recovery codes, sessions with a pending and a final state, roles, grants, audit events, a login throttle
in Redis. Operations: second factor, enrolment, rotation with finalise and release, disable; bootstrap,
create, update, delete, assign and revoke a role. Hard: a reservation that lapses under a slow request,
TOTP replay, rights that change between check and write. Correct: a factor earns one session, an active
super administrator remains, nobody grants what he has not.

**Notifications** (`services/notification-service`). State: processed events, notifications with
claims, delivery attempts, operator queue. Hard: an SMS whose acceptance is unknown is reconciled,
not repeated. Correct: at most one accepted SMS per event, and an end for each.

**Operations** (`services/operations-service`). State: tickets, messages, feedback, bindings of
support uploads with generations and compensations, versioned content, packages, settings, flags, banner slots.
Hard: the reserve/finalise/release saga with the asset service; publications that overtake each other.
Correct: an upload is attached once or released; a publication replaces what its publisher saw.

**Edge gateway** (`services/edge-gateway`). Authenticates, limits, forwards; its only state is the count of
event streams per user. Correct: the count is that of the connections there are.

**Web applications** (`apps/user-web`, `apps/admin-web`). State in browsers: cookies, a lock shared by tabs, the
task a tab shows, forms with intent ids and previews. Hard: tabs refresh one token at once; answers are lost and
decisions repeated. Correct: an honest browser keeps its session; a tab misses no transition; a decision
takes effect once, as it was shown.

**Reporting** (`services/reporting-service`). State: versions of the projections, the active one, exports.
Operations: count an event, compensate it, rebuild a version, reconcile, export. Hard: repeated and disordered
events, a rebuild beside live events. Correct: what is read counts every acknowledged event once.

**Outbox publishing** (in each service). State: the outbox rows with lease or attempts. Operations: select, claim, publish,
record. Hard: replicas stop between publishing and recording, rejected rows come first. Correct: every committed event
reaches the broker, or is isolated for an operator.

**Quotes and routing**, **model catalog**: immutable versions and pure functions.
**Packages**, **mock provider**: no protocol of their own.


## Conventions of the models

A database transaction, or a single statement outside one, is one step; so is one call of another
service. Between any two steps of a worker or a request every other actor may move, the process may
die, and where the code handles it an answer may be lost although its effect took place. Messages
are kept in a set until some worker has processed them, so that they may be repeated, delayed and
reordered without bound. A lease is a flag that may be lost at any time; the clock appears
only as that. Identifiers are model values; amounts are the small numbers the properties distinguish.

Statements of a disconnected client are assumed not to commit *after* that client has looked at
the record again; commands to the wallet get no such grace and may land at any later time
(`inflight` and `Land` in `TaskCreation`).

## The wallet: `WalletLedger`, `PointsAccounts`

| TLA+ | Code |
| --- | --- |
| `journal`, `snapshot` | sums of `LedgerEntry`, `BalanceSnapshot.balance` |
| `ledger[k]` | `LedgerTransaction` under its unique business key |
| `Post` (`Fresh`, `Unrestricted`, `Covered`, `Commit`) | `WalletService.post`, `PrismaLedgerRepository.postInTransaction` |
| `RequestAdjustment`, `ApproveRead/Add/Post/Mark/Abort` | `AdjustmentService`, one step per transaction |
| `Opened` | the `WalletAccount` rows: those that some posting has entered |
| `ReadAccounts`, `ReadSnapshots`, `ReadEntries`, `RecordReconciliation` | the three reads and the write of a reconciliation |
| `SnapshotDrift` | damage from outside, which reconciliation exists to find |

The entries of an account are only read through their sum, so the sum (`journal`) stands for them;
`LedgerExplainsEntries` ties it back to the transactions. `drift` is a history variable that says how
much damage an account's snapshot has suffered, so that the model can say `snapshot = journal + drift`.

Run `wallet`: two users, four keys, amounts 1 and 2, one adjustment request, two approval calls of three
approvers, reconciliations, damage of either sign. Two users show that points do not cross between accounts;
four keys are enough for a credit, a reservation and two competing ways out of it, each of which may come again;
amounts 1 and 2 tell apart what is covered and what is not. Two approval calls are what posts an adjustment
twice at the same time; each may stop after any of its transactions. `BoundedSpec` bounds how postings and
controls are mixed: the controls act on a wallet with at most two posted commands of one point (one opens its accounts before a scan, one comes in between), and only platform accounts are damaged. `AdjustmentsDualApproved` says that an adjustment is posted only after
the approvals of two others than the requester, `BlockedFundsStay` that nothing but an adjustment moves a blocked
user's points, nor any when `*` is blocked, `KeepsPromise` that the ledger is one of exactly-once accounts.

In `wallet_torn_scan` (finding: `BlockedOnlyWhenDamaged` is violated), `findReconciliationMismatches` reads
the accounts, their snapshots and their entries in separate statements. The trace: a credit opens the accounts, a scan selects
them and reads their snapshots, a second credit commits, the scan reads the entries, and an undamaged wallet is blocked, with the platform (`*`). The first
posting is needed: accounts are created by the posting that first enters them, and the scan compares only those it has selected.

Two things the model shows and no run asks: nothing in the service lifts a block, so a user blocked by mistake stays blocked
(`restricted` only grows), and the compensating adjustment of the runbook moves snapshot and entries by
the same amount, so their difference stays what it was.

## Task creation: `TaskCreation`, `TaskFunding`

| TLA+ | Code |
| --- | --- |
| `record` | the `TaskIdempotency` row: phase, lease token, whether the lease ran out |
| `calls[c]` | the place of one HTTP request in `CreateTaskService.create`, or its answer |
| `Claim`, `Reclaim`, `Expire` | claiming the key, taking an expired claim over |
| `Reserve`, `Release`, `Land` | wallet calls; `Land` posts a command whose caller already saw an error |
| `Advance`, `Persist`, `Finish`, `Refuse`, `Begin`, `Repair` with their `Check...` | a fenced write, and the read that follows when its acknowledgement was lost |
| `Await` | `awaitWinner`: a waiting request, which gives a stalled operation to an operator, and whose last read may come to see the outcome too late to answer with it |

Run `task_creation`: four requests with one key, of which any may lose acknowledgements, die and lose its
lease. One of them has another body, and one (`Reliable`) never fails. Three faulty ones are enough for an owner, a request that took over from
it, and one that waits or repairs; the fourth is the retry that must close what they left behind. The run checks the safety properties,
the refinement and liveness together. Weak fairness of each live call's own next step is what an HTTP request that is not killed does;
nothing is assumed of the calls that are killed, nor of the wallet commands still in flight.

Properties: `HoldAccounted` (a held reservation belongs to an open operation, a queued task or an operator),
`AnswersHold` (an answer given is not contradicted later), `KeepsFunding` (refinement), `RetryResolves` (a call that
runs to its end closes the operation).

## The task saga: `TaskSaga`, `PointsHold`

| TLA+ | Code |
| --- | --- |
| `task` | `GenerationTask` with its `TaskSaga`: status, version, disposition, plan |
| `sessions[w]` | a consumer or the repair job between its transactions, with the lease of its message (`leased`) and whether its read is still current (`fresh`) |
| `OnProgress`, `OnSucceeded`, `OnFailed`, `OnCanceled`, `OnAmbiguous`, `OnAssetImported`, `OnCancel` | the handlers of `provider-events.consumer.ts` |
| `Send`, `Deliver`, `Conclude` | the wallet calls of a financial plan, one step each, and the closing transaction |
| `RemoteCancel`, `ConfirmCancel`, `Unresolved` | the cancellation at the provider |
| `RepairScan`, `RepairConverge`, `RepairFailover`, `RepairReplay`, `RepairClose`, `RepairEscalate` | `task-repair.job.ts` |
| `Submit`, `Advance`, `ImportAsset` | provider runtime and asset service, external |

A consumer that claims a message and then writes is one step: whatever wrote the task in between makes its
version compare-and-set fail, which changes nothing. The `Terms` of a task say who may cancel it, what a cancellation and the asset
cost, and whether the inspector of the repair job knows billing (production is wired without one, which never fails over; one of the terms has it,
to reach the failover code at all). A repair whose snapshot has become stale is fenced wherever it writes; a replay only renews its lease, so `RepairReplay` may also
come from a stale snapshot, of which it keeps the route epoch and leaves the rest open. `EXPIRED` is left out because no code moves a task there.

Runs (`MCTaskSaga`; two workers are a consumer and a second consumer or the repair job; `Others` points of the same user are frozen for
other tasks, so that a release of too much is not stopped by the wallet):

- `task_saga`: either two cancel commands of the user and a cancellation that costs points, or a provider that cancels by itself, a
  substitute provider and an asset that costs more than the quote. `PostedAsDue`: only commands of the recorded plan are posted, each once
  (`PostedByPlan`), and the points follow what the user received (`ChargedForOutcome`). `RouteStands`: a task is on its substitute only if the first provider
  never took it, and its outcome is the one of the current route. `KeepsHold`: the saga implements `PointsHold`, in which the amount held
  is charged at most once, the rest is returned, and the hold is closed when nothing is left.
- `task_paying`: liveness (`OutcomesArePaid`) without cancel commands of the user. Fairness: workers keep taking steps, messages keep being redelivered,
  the repair job keeps running; and *eventually* no worker is without its lease any more (`Calm`). Without the last, a lease shorter than a wallet
  call defeats any retry. Exempt is a task whose provider contradicts itself after payment (`Contradicted`), which the code gives to an operator.
- `task_double_release` (finding: `ReleasedOnce` is violated): a provider's own cancellation after a cancellation before acceptance releases the quote a
  second time, out of the points frozen for other tasks; `KeepsHold` therefore is checked where either the user or the provider cancels, not both.

An observation that no run asks: the provider's cancel event after a charged cancellation throws on every redelivery, so that the message is never
acknowledged, although the task itself is closed.

`CHECK_DEADLOCK FALSE` in every run but `wallet_torn_scan`: a finished task, or a finished set of requests, rightly has nothing more to do.

## Recharge orders: `RechargeOrders`, `PointsSale`

| TLA+ | Code |
| --- | --- |
| `CreateOrder` | `OrderService.create`: the row, then the channel's order, which may fail |
| `Callback`, `QueryOrder` through `AcceptPayment` | one transaction of `PrismaPaymentRepository` that both the callback and the active query reach |
| `RecoverStalePending`, `DrainPendingWalletCredits` | the two interval workers of `main.ts`; a pass reads its batch once |
| `CreditWallet`, `MarkWalletCreditPublished` | the wallet call under the order's key, then `publishedAt` |
| `RequestRefund` ... `MarkRefundFailed` | `RefundService.refund`, one step per statement or remote call |
| `Pay`, `Spend` | the channel and the rest of the platform, external |

A refund's status writes are unconditional: a concurrent call may set a SUCCEEDED refund back to PROCESSING or FAILED. The model
keeps this; what is proved (`RefundsMoveBoth`) says what must have happened before a refund is SUCCEEDED, not that it stays so. That the channel returns the money of an
order under one refund number only is an assumption about the channel: the code does not stop a second `refundNo` itself.

A pass of an interval worker keeps the order it works on (`order`) and those that wait (`rest`); the recovery goes through its batch by age and
ends with the first error, the drain goes on (`Fails`). The daily channel reconciliation is left out: it writes a
report and changes nothing else. (It compares the channel's bill of a past day with the *present* status of the orders, so an order
refunded since then is reported as missing locally.)

Runs:

- `recharge_selling`: two orders, two refund numbers, two workers, a batch of one; unknown orders and payments of another amount. `PaidIsAnnounced`,
  `KeepsSale`. Two workers are enough because every race is between two writers of one row; two refund numbers because the second number is what asks
  for the same money again. Points may be spent elsewhere before the refund takes them back, and any answer of the channel, the wallet and the
  database may be lost.
- `progress` (below) has the liveness `PaidIsCredited` with one worker, a batch that holds all orders and orders the channel knows. Fairness: both intervals
  keep starting, a query, credit or publication that is tried again and again eventually succeeds, and a refund goes on until it ends or its process dies.
- `recharge_abandoned` (finding: `PaidIsCredited` is violated): with a batch of one, an order that is never paid fills the batch of the recovery for ever, so that a later
  payment whose callback was lost is never seen; with the batch of 100 it takes 100 such orders. An order whose payment has another amount does the
  same with a single order: its pass ends with the error each time, before the younger orders (`PaidIsCredited` is therefore checked with `Mismatches = FALSE`).

## Provider execution: `ProviderExecution`, `ProviderPurchase`

| TLA+ | Code |
| --- | --- |
| `exec` | the `ProviderExecution` row; `lease` and `live` its submission token and whether that has not expired, `poller` and `polling` the same for a poll; `action` is `nextAction` |
| `queued`, `retries`, `polls` | `generation.task-queued.v1`, `provider.execution-retry-scheduled.v1`, `provider.execution-poll-due.v1`: unsent, sent until acknowledged, done |
| `sessions[w]` | a delivery between its transactions and its calls of the provider |
| `Begin`, `RejectBinding`, `DuplicateQueued`, `RecoverQueued`, `ClaimRetry`, `RecoverRetry` | the outcomes of `begin` and `claimRetry` |
| `CreateTask`, `GetAnswer`, `LoseAnswer`, `CircuitRejects` | `ExecutionService`: the call and its deadline |
| `Complete`, `RecordCommitAmbiguity`, `LoseAttempt`, `LateResult` | `complete` and `completeFailure`, `recordCommitAmbiguity`, `recordLateResult` |
| `ClaimPoll`, `PollTerminal`, `QueryTask`, `DeferPoll`, `CompletePoll`, `LosePoll` | `polling.consumer.ts` with `PrismaPollRepository` |
| `Callback` (`Decision`) | `PrismaCallbackRepository.accept` |
| `Take`, `Refuse`, `Progress`, `calls`, `history` | the provider, external: what it did with each call, and the states its task went through |

A message stays until it is acknowledged and may be taken by several workers at once. The message of a poll or a retry is delivered once it is due, so time appears only as
the expiry of leases. Whether a queued message carries the same binding as the one that began the execution (`first`) is all the code asks of it, and of a failover message against the execution before it;
which of them do is left open, as each is handled to its end only once.
The circuit breaker may reject any call. `ProviderAttempt` repeats what the row says and is left out, and so are the delays.

Run `provider_execution`: two workers, two queued messages, two attempts, two polls, three
changes of state. Two workers are what overlaps: one that has claimed an attempt or a poll, and one that finds it claimed or recovers it. Two attempts
have a first, a retry and an exhausted retry; three states let a callback of the second arrive after one of the third, as well as a poll older than either. The provider reports each state once. The bound on
polls stands for a provider that comes to an end and can be reached then: the last poll finds it at its end. Safety, refinement and liveness are checked together, so no symmetry is used.

Properties: `RecordedIsTrue` (a final status is the end of the provider's task, or there is no such task and will be none), `MessagesAgree` (the outbox has one end, the
recorded one, and an execution that is to be polled has the message of its next poll, and only that one), `KeepsPurchase` (implements `ProviderPurchase`: bought
at most once, not asked for while a purchase may be on its way, given up only if not bought), `Concludes` (every execution ends or is left to an operator).

Fairness: claims, submissions and redeliveries are tried again and again, leases expire, the provider decides on its calls and gets on with its task. Strong
fairness for a query within its lease and for writing its result: a query is given up after 30 seconds and its lease is 60, so that a crash or a lost lease at every single poll is what is excluded, not any one of them.

`Faults` says what the provider may answer beside the truth: a success without results (`missing`), or an invalid answer to an accepted create call (`garbled`).
The properties are checked and proved without the latter, for good reason (below).

Observations that no run asks:

- An answer of the provider that the adapter cannot validate is a FAILED execution, even when the call was accepted (`RecordedIsTrue` and `KeepsPurchase` fail with
  `garbled`): the code takes an invalid response for a definite failure.
- A callback for an ambiguous execution whose provider task is known sets the status to ACCEPTED or RUNNING and leaves `nextAction` RECONCILE, without sending a poll. If the next callback is
  lost, nobody asks the provider again, though the runbook (`docs/runbooks/generation-provider.md:133`) has lost callbacks replaced by polls. `Concludes` therefore counts such an execution as left to an operator.
- The provider's task id is lost if the circuit's record throws after the provider answered, or the attempt was recovered meanwhile: the execution ends ambiguous, which is safe, and callbacks for it are answered 404.
- When two queued messages of the same binding exist, one may recover the attempt of the other's; a retry message recovered that way keeps being refused (nacked).

## Asset storage: `AssetStorage`

| TLA+ | Code |
| --- | --- |
| `assets`, `sessions`, `deletion`, `cleanup`, `import` | the rows of assets, upload sessions, deletions, cleanups and the reservation of an import |
| `objects[k]` | the object store: absent, or an object that passes the checks or not |
| `CreateUpload`, `Inspect`, `CompletePending`, `ClaimTerminal`, `Discard` | `UploadSessionService` |
| `ReserveImport`, `CopyResult`, `VerifyResult`, `PersistImported`, `ScheduleCleanup`, `FailAndScheduleCleanup` | `ResultImportService` |
| `RequestDeletion`, `RestoreDeletion` | the owner's commands |
| `RecoverImportOrphans`, `ScheduleExpiredTemporary`, `ClaimDeletions`, `ClaimCleanups`, `DeleteObject`, `Settle...` | one pass of `AssetLifecycleJob.run` |

Run `asset_storage`: one upload, two requests (to complete it, or to import the provider's result), two workers, of which one is reliable. Any call of the store may fail or lose
its answer, any lease may end. `AvailableIsStored`: what is available or restorable has its object. `RememberedIsDeleted`: an unwanted object that a row remembers
is deleted in the end, by the worker that is reliable (weak fairness of its steps, and of the clock). The action constraint `Reduced` starts the first of the two (interchangeable) requests first, and
keeps the unreliable worker at rest while the second request is under way (`MCAssetStorage`).

`exposed` names the exceptions `AvailableIsStored` needs, and each is real:

- `persistImported` commits and its answer is lost: `failAndScheduleCleanup` schedules the deletion of the object of an AVAILABLE asset (`result-import.service.ts:209`);
- `persistImported` does not look at its lease (`prisma-result-import.repository.ts:124`), while the recovery of orphans may already delete the object.

Two more limits: the asset of an expired session stays DELETING without a retention, so a failed deletion of its object is never retried, though a comment near
`upload-session.service.ts:402` says the worker can; and a copy that lands between the deletion of its key and the settling of the cleanup is forgotten, though
`result-import.service.ts:223` calls the recovery scan authoritative (`Remembered` leaves both out).

## Several services in one run: `MCServices` and `MCProgress`

The smaller models are checked together: a run holds a small instance of each, a variable `which` names one of them in
the initial state, and every behaviour is one of that service alone while the others rest. What a run says of one service is what a run of
its own would say; the bounds are in `Services.cfg` and, for `progress`, in the `INSTANCE` lines of `MCProgress`. `services` checks safety (with symmetry), `progress` liveness (without).

### The circuit of a provider: `ProviderCircuit` (in `services` and `progress`)

Two calls, in `progress` one of a process that never stops, two failures that open the circuit, a window of three. A call acquires, is answered and records; trips of the health
report come in between. `ClosedByCurrentProbe`: only the success of a probe that nothing has overtaken closes the circuit. `Recovers`: if the provider is healthy for good, the circuit
is closed again and again: fairness of the reliable process's calls, and of the clock (`OpenEnds`, `LeaseEnds`, `WindowMoves`).

### The delivery of an SMS: `Notifications` (in `services` and `progress`)

The event's message with its deliveries, the row with its claim, two workers that may stop anywhere (in `progress` only one of them may), the provider. `SmsOnce`: the provider accepts one SMS at most.
`SmsResolves`: an accepted event ends delivered or with an operator. Two attempts and two deliveries have a first, a last and a reconciled one. What the provider does with an unanswered request
is open until it reports (`Accept`, `Report`), which it does in the end. Observed: a well-formed message may reach the dead letter queue before its deliveries are exhausted, contrary to the runbook.

### Accounts and sessions: `UserAccounts`, `SessionRefresh` (in `services`)

`UserAccounts` has the writers of users and sessions under the lock of the user, with the two operations that verify codes while they hold it and whose transaction may be rolled back and run
again. `RevokedStaysDead`: a family is revoked as a whole, has one live session, and none survives the account. `ChangeIsProved`: phone and account change only by a request that proved the phone
the account has at that moment.

`SessionRefresh` has the tabs of one browser with a lock of their own (`user-session-refresh`), the cookie jar, the server action that rotates, and late answers. `SessionKept`: as long as answers arrive in time nobody is
sent to the login page, and the browser's token is presented twice only if an answer was lost. `lost` and `troubles` say when that is, and the model shows what they cost: a tab that times out after 10 seconds, or is closed, while the web server still rotates, makes the next
honest refresh look like reuse, which revokes the family; a refresh answer that arrives after a login in another tab overwrites its cookies; the web server clears the cookies when an answer is lost. Identity-service has no release of a rotated session when
its token cannot be signed (IAM has one). The operations on the account exist in the mock mode of the web application only, and the gateway has no `/v1/auth/refresh` route: both are left out.

### Administrators: `AdminSignIn`, `IamRoles` (in `services`)

`AdminSignIn` works in two transactions with the signing in between, each request may stop there, and reservations lapse. `SessionsEarned`: a challenge, time step, recovery code or refresh token brings one session to
life at most, and no request that was half way leaves one alive behind a disabled administrator or a detected reuse. Observed: losing the answer after the second transaction makes an honest retry look like reuse.

`IamRoles` is one transaction per operation, in two steps (`Begin`, the commit) between which others may run unless they want the same lock; roles have a content
(keys and scope). `SuperAdminStays`: there is an active super administrator from the bootstrap on. `WithinCeiling`: who comes to a right is given it by one who has it at
that moment. Three administrators, two roles, two requests. Refusals only write the audit log and are left out; a role's id is used once and its name is abstracted. `disableAdmin` does not ask for a protected actor, unlike the assignment of the protected role, but never takes the last one.

### Publications: `Publication` (in `services`)

Versions of a package or content, a purchase of it, or a slot with banners (`kind`), two calls of administrators that read, decide and write under the revision of what they read. `PublishedAsReviewed`: a publication replaces the version its draft was made from and says
what its publisher had in view. One difference to the source: `persistVersioned` inserts a new version without its id (`prisma-publication.repository.ts:411`, `:461`), for which the schema has no default, so that a draft cannot be created there; that is one of the behaviours here (`Fail`), and `CreateDraft` may also succeed, as with the id. `BannersDistinct`: the positions in a slot differ. Observed: the rows of a scope are read in no stated order, so that a publication may conflict with the version it is about to retire (a refusal); `rollbackContent` is three transactions, which the runbook ("CMS version rollback") calls atomic; a placement keeps referring to the version it was made for.

### Attachments: `SupportUploads` (in `services`)

Two requests with one key and a worker, against the binding row with its generations and the asset service. Transactions fail or lose their answer, calls fail and are executed late. `UploadsAccounted`: the upload of a written message stays reserved or finalized, and a
reservation is known to the binding or a compensation. `exposed` and `forgotten` are its exceptions, and real: `attachBindings` does not check its claim, so a request slower than its 30 s lease attaches an upload the worker has released, and finalizing is retried for ever; a commit whose answer is lost is compensated although the message exists; a reservation that got
no answer is closed without asking the asset service. A crash between marking RELEASE_PENDING and the release of a binding without token leaves a key that can never be sent again.

### Following a task: `TaskEvents` (in `services` and `progress`)

Tabs, the gateway's requests and streams, the durable history. `TabsServed`: a slot of the user is held by each request being served and by nothing else (`SlotsReturned`), and what a tab shows, what is on its way and what its stream reads next are the whole history (`NothingSkipped`). `EndIsShown` (in `progress`): an open tab shows the end unless it has given up on its
stream. One difference to the source: the gateway asks for `/internal/v1/tasks/:id/ownership` and `.../events` (`generation-events.ts:19`, `:43`), the generation service serves `/v1/tasks/...` (`operations.ts:300`), so that as composed every request ends refused; `Admit` and `Open` may always refuse, and may also succeed, as where the paths meet. Fairness: the tab reconnects, the stream catches up, connections do not break for ever. It is `unless` because after three failures the tab polls, and the gateway routes no `GET /v1/tasks/:id`; and the web's transitions lack SUBMITTING to QUEUED (`runtime.ts:83`), which the
server allows after a failover, so that such a tab rejects the event, fails three times and polls for good.

### The console: `AdminConsole` (in `services`)

A form shows a resource in some version, draws an intent id, previews, submits and submits again after a lost answer; others change the resource meanwhile. Each operation of the console is a record of what its form and its server action do to keep a decision from taking effect twice (the
intent kept or drawn anew, the version reread or taken from the form, the preview and whether it is shown), read off its own code; the run goes through all of them. `DecisionsHold`: once, as shown, and what is said to be executed was. The backend is not in the repository and is
external. Exceptions and observations: a preview of prices that was asked for before a field was edited is kept (`pricing-editor.tsx:139`); forms rendered on the server draw their intent at each render and show nothing of the receipt; an action that rereads refuses the honest repetition of what was done, so that nobody sees its receipt; rollbacks of prices, routing and
capabilities get their preview token inside the action, where nobody sees the preview.

### Projections: `Reporting` (in `services`)

Two facts and two compensations of the first happen in this order and are delivered live in any order and any number of times, while two rebuilds count what their callers have read into versions of their own, up to the third. A version holds per fact what it has processed, reversed and counts; a delivery is
acknowledged if the active version could take it. `ReportsCount`: what is read counts every processed fact once, and not at all if it was taken back, and has processed what was acknowledged. `missed` is the exception, and real: an event that is acknowledged after the caller has read the retained events is not in
the version that becomes active (`projector.ts:578`), and of two rebuilds the one that ends last wins, also with the older list. Then a compensation of the missing fact is refused for ever. The runbook (observability, "Projection rebuild") names reading in source order and comparing totals, which the model's rebuild does, but no stop of live events; the totals
compared are those of the list that was read. No production code wires the projector. Outside the model: a report reads its rows and its checkpoint in two reads, so that it may name a later event than its rows contain; an export whose audit call fails after the file was stored becomes FAILED.

### Publishing an outbox: `OutboxDispatch` (in `progress`)

| TLA+ | Code |
| --- | --- |
| `Commit` | the row written with the data, and the kick of `ResultImportService` |
| `Select`, `Claim` | `due` and `claim`; the selection of `publishBatch` |
| `Send`, `SendFails` | the call of the broker, and of the HTTP bridge |
| `Record`, `RecordFails` | `published`, `failed`; `updateMany` fenced by `attempts`, `recordFailure` |
| `LeaseEnds`, `BackoffEnds` | `leaseUntil`, `nextAttemptAt` have passed |

Two replicas publish one row that the broker takes and one that it always rejects, one row at a time, so that the rejected one can fill the selection; two of a death, a lost call and a lease that was too short may happen. Both transports are behaviours of the one model. `EventsArrive`: the good event is accepted and
recorded as published, or, with the fenced transport, isolated after its last attempt. Fairness: each replica runs at intervals, leases and delays end. The order of selection is the heart: a failure must move a leased row behind the others, and take a fenced one out in the end. Observed: the fenced transport has no delay, so an outage
of ten publishing rounds isolates every pending event until an operator resets its attempts (`docs/runbooks/generation-provider.md:82`); with two replicas the failure of one fences out the success of the other, and the event is sent again; the leased transport never gives a rejected row up. That the bridge removes duplicates by their key is taken from the runbook.

## What is proved

Proofs are by an inductive invariant, stated in the proof module, that TLC checked first. Each invariant is a conjunction of named parts; the step
case has one lemma per action.

- `WalletLedger_proofs`: `TypeCorrect`, `BalancesCorrect` (`NoOverdraft`), `LedgerIsAppendOnly`, `AdjustmentsNeedTwo`, `BlockedStaysBlocked`,
  `WalletKeepsPromise` and `LedgerExplained` (`LedgerExplainsEntries`), from the named assumptions on the constants only (points positive, approvers are administrators, request ids are no business
  keys of others, users finitely many). `snapshot = journal + drift` makes `NoOverdraft` inductive; dual approval needs that a call that is about to post has seen two
  approvals, that approvals are never withdrawn, and that a request's amount never changes. The refinement is proved for an undamaged ledger, `Drifts = {}`.
  `LedgerExplained` is about sums over sets, which the fold `MapThenSumSet` defines by recursion on what it happens to pick. Lemmas show that the fold exists (`SumExists`), that it
  is one (`SumsAgree`), that each member counts once whatever is picked first (`EachCountsOnce`), and that moving points from one member to another leaves the sum (`SumMoved`), each by a smallest set
  that would be an exception (`SmallestSet`), which is how induction can be put in the prover's first-order terms. Then a posting adds to an account what its own transaction says, since its key was not posted before.
- `TaskCreation_proofs`: `TypeCorrect`, `ReservationsAccounted`, `QueuedTasksAreFunded`, `AnswersStand`, `CreationKeepsFunding`, for any number of calls.
  The invariant relates each place a call can be at to the phases the record may have while its lease token is the call's own, and
  says which wallet commands may be in flight in each phase; fencing by token is what makes it hold under take-over.
  The module also holds `PublishedStands`, about `OutboxDispatch` by itself: for any events, replicas, batch size, attempts and faults, under both transports, what a row says was published the broker has accepted, and no replica
  takes that back. The invariant (`OutboxInv`) says that a replica takes a call for successful only if the broker has the event it stands at. That nothing committed is left behind (`EventsArrive`) is liveness, and stays with TLC.
- `TaskSaga_proofs`: `TypeCorrect`, `RouteCorrect` (`RouteStands`) and `ChargesCorrect` for any terms, and `PostedCorrect` (`PostedAsDue`) and `SagaKeepsHold` (`KeepsHold`) from
  `OneSideCancels` (the provider cancels by itself, or the user does, not both: with both, `task_double_release` shows that a release is posted twice), for any amounts, sets of terms and number of workers, and
  a provider that executes, imports and redelivers as it likes.
  `IInv` says what each event on its way presupposes at the provider (`MessageInv`), what the state of an execution implies (`ExecInv`), what a status and
  a disposition need (`TaskInv`), what a worker half way through a plan or a cancellation relies on (`SessionInv`), and that the reason of whatever was posted has happened (`PostedInv`). `PlanInv` is about the plan of an outcome: it never changes once recorded, a session whose read
  is still current has the rest of it to send, a stale one sends nothing that is not in it, and a task is closed only after all of it (`Whole`). The refinement follows: a command is posted once, because it is posted under its own key, and only as
  the plan says, so the hold is spent in full and never twice. `ClosedIsFinal` reads off what that means for the user: a closed task has charged or returned all that was reserved, and no point of it moves again.
- `RechargeOrders_proofs`: `TypeCorrect`, `PaymentsAreAnnounced`, `RefundsMoveBoth`, `OrdersKeepSale`, for any number of orders, refund numbers and workers
  and any batch size, from the assumption that `None` is no refund number, status or row. The invariant has three parts: what order, outbox, channel and wallet know of a payment
  (`Payments`), the trail of a refund from its row to the closed order (`Trails`), and what a worker between two steps relies on (`Trusts`). The last is why
  interleavings are harmless here: everything a worker relies on only ever grows (`Grows`), whatever the others do. The status of a refund does not grow, and no step relies on it for money or points. `RefundedWasPaidBack`: an order recorded as refunded was paid, its money returned and its points taken back under that same refund number (but its own points may
  then still be on their way: they were taken from what else the user had).
- `ProviderExecution_proofs`: `TypeCorrect`, `MessagesCorrect`, `NoRegressions` and `CallsDoNotOverlap` without further assumption, and `RecordedCorrect` and `Implementation` (`KeepsPurchase`) from
  `Truthful` (no `garbled` answers), for any number of workers, messages, attempts, polls and states. The invariant says that attempts follow each other and each but the last was turned away (`CallsInOrder`), that at most one worker is
  buying and its answer fits what became of its call (`Buyers`), what a poll claim presupposes (`PollsFollow`), what a status says of the provider (`RowFits`), and that the provider's task stops at
  its end (`HistoryFits`). `Buyers` is the heart: an attempt that was recovered by another delivery leaves the row ambiguous, from where no claim leads back. The refinement follows from how the row may move
  (`Moves`), which is also `NoRegressions`, and from the invariant before and after the step. `CallsDoNotOverlap` says more than the refinement does: at most one call was ever taken, refused for good or left undecided, so buying once does not rest on the provider's idempotency key.
- `AssetStorage_proofs`: `TypeCorrect`, `AvailableCorrect` (`AvailableIsStored`) and `GoneForGood`, for any number of uploads, requests and workers, from the
  assumptions that an upload has never the key of an import and that `None` is no key, worker or row. What is deleted and due is gone for good (`Gone`), and a worker
  has nothing else on its list (`WorkerInv`): that is why a claim that lapses, a second worker or a stop between the object and the row does no harm. An upload is decided
  once (`UploadInv`); a request relies on what its reservation protects (`Protected`) until its lease has ended, and imports that did without are the exception `exposed`.
- `MCServices_proofs` is about the services of `MCServices`, whose constants are arbitrary there: `Services.cfg` only gives TLC their values. A service takes its own steps or rests
  (`OneServiceSteps`), so each has an invariant of its own:
  - roles: `RolesTypeCorrect`, `SuperAdminRemains` (`SuperAdminStays`) and `CeilingKept` (`WithinCeiling`), of `IamRoles` by itself, for any number of administrators, roles and concurrent requests. What an open
    transaction has read stays true as long as it holds its lock (`Locks`), since whoever would change it wants the same lock; so what it was allowed when it began it is allowed when it commits.
  - users: `RevokedAreDead` (`RevokedStaysDead`) and `ChangesAreProved` (`ChangeIsProved`). The row that founded a family stays, and what an operation has verified, it
    has verified for the phone it asked for, under the lock it holds until it commits (`UserLocked`, `UserProofs`).
  - publications: `BannersStandApart` (`BannersDistinct`) and `ReviewedIsPublished` (`PublishedAsReviewed`). As long as the revision of a slot or version is the one
    a request has read, so is all it has read; so the decision made without a lock is right when it is written.
  - reports: `ReportsAreTrue` (`ReportsCount`). Every version, active or being built, counts each processed fact that was not taken back once and is
    written by one rebuild; that there is a latest version uses the least element of a set of numbers.
  - administrators: `SessionsAreEarned` (`SessionsEarned`). What has activated a session is used up: its challenge consumed, its time step not after the last, its code gone or of
    an older generation, its predecessor consumed; a code that is reserved is so by the pending session that will use it.
  - an SMS: `SmsIsSentOnce` (`SmsOnce`). While the next claim may send, or a worker may report a rejection that leads to another attempt, nothing was accepted, nothing is on its way and nobody is about to
    send (`Untried`); a row whose worker was lost keeps its unfinished attempt, so the next claim only looks up (`Mode`). A request that left late is still the only one.
  - a circuit: `CircuitClosesByProbe` (`ClosedByCurrentProbe`). The probe that a half-open circuit waits for is one that nothing has overtaken: whoever overtakes it is the new probe, or opens the circuit.
- `MCServices_web_proofs` goes on with the web applications and the uploads kept for them:
  - tabs: `TabsAreServed` (`TabsServed`). The slots of a user are the requests being served, by cardinality, whichever way a request ends; the versions between what a tab shows and
    where its stream reads next are exactly those on their way to it, so a reconnection with the last version shown skips none.
  - uploads: `UploadsAreAccounted` (`UploadsAccounted`). As long as the claim of the row is the request's own, or the message has the upload, nobody takes it away (`SenderOk`, `WorkerOk`, `MessageInv`); a generation
    that was closed gets no reservation any more (`ClosedInv`, `FenceInv`), and the row vouches for the reservation of the generation it is at (`BindingInv`).
  - decisions: `DecisionsTakeEffect` (`DecisionsHold`), for every operation of the console. Submissions that agree on their intent agree on the decision (`SubmissionsAgree`), intents and decisions are drawn once (`Numbered`), what took effect
    was submitted before (`EffectsPast`), and a form waits for one call of its own (`AwaitedOk`). `OperationsGuarded` says what each operation has of the protections that this needs.
  - sessions of a browser: `SessionsAreKept` (`SessionKept`). A tab that waits for its refresh holds the lock (`LockHeld`), and a refresh nobody waits for has lost its answer (`Unwaited`); so two refreshes of one family that
    has lost none are of one tab (`OneWaits`), and the token in the cookies is unused unless a tab waits for its successor (`JarOk`). `Calm` is what holds as long as nothing goes wrong: in particular only a session whose access token has expired
    is ever refreshed, and no access token expires during a recovery, which is what sends no tab to the login page.

`MCServices` has TLC evaluate what these proofs assume of its constants: `Bounds` (contents are keys and a scope, `Super` is no other role's id), `UsersAssumption` and `SignInAssumption` (the identities of
sessions and steps are numbers, and `None` is nothing else), `ReportsAssumption` (the source of a rebuild is a list), `SupportAssumption` and `BrowserAssumption` (generations and sessions are numbered, there is a first session, and `None` and the fence are nothing else),
`EventsAssumption` (the streams are finitely many, their limit is a number, and `None` is no reason for a stream to end), and `SmsAssumption` (the attempts are counted by a number, and `None` is no worker, receipt or row).

## What is only model-checked

Liveness (`RetryResolves`, `OutcomesArePaid`, `PaidIsCredited`, `Concludes`, `RememberedIsDeleted`, `Recovers`, `SmsResolves`, `EndIsShown`, `EventsArrive`) stays with TLC: the prover has no support for fairness with
`ENABLED`. One task of the saga is modelled because tasks share only the user's frozen points, which
`Others` represents. Every safety property of the passing runs is proved.

## Not modelled

- Exports of the reporting service (a queue in memory) and its queries; the outboxes of the wallet, payment and identity services, which no code publishes.
- *Quotes and routing*, *model catalog*: computations over immutable versions inside one transaction.
- *Shared packages*, *mock provider*, the mock modes of the web applications, in-memory repositories: test doubles and plumbing.
- Within modelled services: certificate, signature and bill parsing; the daily channel reconciliation; invoices (a row moved by single conditional updates); statements and lists that only read;
  status and assignment of a ticket; signed download URLs; preferences and templates of notifications; rate limits, login throttles and audit logs, which only refuse or record; metrics.

Two places where the models allow more than the source as it is composed: a new version of a publication may be inserted (`Publication`), and the gateway may reach the event stream of the generation service (`TaskEvents`). Both sections say at which lines the source cannot. What holds of the
models holds of the source there, where these parts only ever refuse; that they work once the paths and the id are right is what the models are for.

## Plan

What could come next, in this order: the status of tickets; the exports of reports; a composition of `TaskSaga` with `WalletLedger` in which the wallet is the ledger itself and not its contract.

