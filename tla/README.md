# HRP-CRM: TLA+ specifications

HRP-CRM takes in webhooks from messaging providers, commits them to Postgres, works them off
with polling workers against a gateway, and hands outbound messages to a provider whose
callbacks report what became of them. Staff see the rest: an intake saga they confirm, reviews,
an assistant, routing, a dashboard. Its promises are about what survives interleavings: a
committed event is neither lost nor worked on by two owners, a stale worker changes nothing, an
unclear delivery is investigated rather than resent, a saga step happens once, nobody
overwrites a change they have not seen. This directory holds models of those parts, their model
checking, and machine-checked proofs of all the safety properties the runs find to hold.

Paths below are relative to the repository; `lease.ts` is
`packages/integration-store/src/worker/lease.ts`, `event-receipt.ts` is
`packages/integration-store/src/repos/event-receipt.ts`, `durable-worker.ts` is
`apps/integration-worker/src/durable-worker.ts`, and the `outbox/`, `reconciler/`,
`orchestrator/`, `receiver/`, `dlq/`, `review/` directories are those of
`apps/integration-api/src`.

Contents: 1 inventory, 2 plan, 3 ReceiptLease, 4 OutboxIntents, 5 Recovery, 6 Intake, 7 the
inbound path, 8 the panel, 9 runs, 10 proofs, 11 what the code does not keep, 12 what is not
modelled.

## 1. Inventory

| component | state it keeps | operations | what makes it correct | module |
|---|---|---|---|---|
| Receipt lease queue (`lease.ts`, `retry.ts`, `clock.ts`) | lease, token, attempts and state columns of `ExternalEventReceipt` | claim, extend, release, complete, reclaim, release-all | one valid lease per row; no write by a stale worker; every receipt ends delivered or dead-lettered | `ReceiptLease` |
| Durable worker (`durable-worker.ts`, worker `server.ts`) | `running`, `inFlight`, the claimed job | poll loop, `stop()` | drains what it holds; a crash loses nothing | `ReceiptLease` |
| Receipt repository (`event-receipt.ts`) | receipt and placeholder intent rows | commit with dedupe, redrive, DLQ listing | an event is committed once; a redrive acts on a dead letter only | `Receiver`, `ReceiptLease`, `DeadLetters` |
| DLQ service (`dlq/`) | none of its own | list, stats, preview, redrive behind the DNC guard | no redrive for a suppressed contact; a listing misses nothing | `DeadLetters` |
| Outbox (`outbox/` dispatcher, receipt and reporting handlers) | `DispatchIntent` rows, the dispatcher's job | submit, claim, send, complete, receipt and report callbacks | final states are final; accepted is not delivered | `OutboxIntents` |
| UNKNOWN investigation (`outbox/unknown-handler.ts`, `outbox/reconciliation.ts`) | `ReconciliationEntry` rows | open, mark investigating, resolve | never delivered or resent without a decision; decided once | `OutboxIntents` |
| Stuck-item reconciler (`reconciler/`, `repos/reconciliation.ts`) | `RecoveryAction` ledger, scan statistics | scan, manual recover | no item recovered twice, no live lease revoked, a truthful ledger | `Recovery` |
| Intake orchestrator (`orchestrator/`, `repos/intake-checkpoint.ts`) | `IntakeCheckpoint` rows | run, resume, reviewed resume | a step is applied once; a resume continues after the last applied step | `Intake` |
| Gateway ledger and mock gateway (`gateway/`) | result cache, ring of calls | call | one result per idempotency key | `Intake`, `Pipeline`, `DoNotContact` |
| Webhook receiver (`receiver/`) | rate windows, connection registry | receive | 202 only after a durable commit; a replay gets the first answer | `Receiver` |
| Worker pipeline and gateway client (`pipeline-executor.ts`, `executor.ts`, `gateway-client.ts`; API `pipeline/`) | none beyond an execution | normalize, firewall, map, call, complete | one command per event; DELIVERED only after HRP has it | `Pipeline` |
| Firewall, mapping, normalizer (of the API and of the worker) | the revision tracker | classify, map | only authoritative events create actions (the worker's side does not keep it) | `Pipeline` |
| Contact and conversation links (`repos/contact-link.ts`, `conversation-link.ts`, `adapters.ts`) | link rows, a bounded history | upsert | versions only grow, one row per contact | `Links` |
| Review queue (`review/`) | entries with an audit log that is their version | create, detail, decide, link, unlink, replay | a decision rests on what its reviewer saw, and is made once | `Review` |
| Kill switch and recovery receipts (`context-panel/src/observability`) | the switch, receipts | toggle, refuse, register, replay, resolve | no refused write is forgotten | `KillSwitch` |
| Assistant (`context-panel/src/assistant`, `assistant-panel.tsx`) | proposals, drafts, ledgers of mutations and batch items; tabs | accept, confirm, reject, commit; load, type, switch | a mutation is applied once, a batch replay is safe | `Assistant`, `AssistantScreen` |
| Versioned settings (routing pools, providers, KPIs, next actions) | a version each | list, create, update | nobody overwrites a change they have not seen | `Config` |
| Routing simulator and its screen | round-robin weights, quota plan; selectors | simulate | fair by weight, within limits; the result is of the choice | `Routing`, `RoutingScreen` |
| Dashboard (`context-panel/src/dashboard`, `dashboard-panel.tsx`) | filters, fetches | aggregate, drill down | cell and drilldown agree, nothing counted twice | `Dashboard` |
| Panel server session and intake form (`orchestrator-wire.ts`, `intake-review.tsx`) | review snapshots, checkpoints, the form | preview, confirm, run, do-not-contact | a run acts only on what was previewed and confirmed | `Panel`, `DoNotContact` |
| Media (`core-1.10-media`), contracts, configuration, API server, rendering | evidence records, schemas, wiring | - | - | section 12 |

The components interact through Postgres rows (receipts, intents, checkpoints, entries), not
through messages: the receiver commits a receipt and a placeholder intent in one transaction, the
worker polls receipts, the dispatcher polls intents, HTTP callbacks and operators update the same
rows by primary key, and two recovery mechanisms, the workers' sweep and the reconcilers, reset
the same leases. `runInTxn` (`client.ts:169`) opens transactions without an isolation level, so
they run at READ COMMITTED and every read-then-write in them can be overtaken. That is the
behaviour most of the store is exposed to, and the models keep the two statements apart. The
panel is one Node process with in-memory stores: its interleavings are the awaits of its routes
(a guard before, a write after the body was read) and the answers that reach a screen in any
order.

Hard behaviours: leases that expire while their holder still works; completions that race a
reclaim; crashes between claim and completion and lost replies; `stop()` against an awaited
claim; two processes with one workerId; redrives and resolutions decided on stale rows; provider
callbacks out of order and against the dispatcher; recovery ledgers written apart from the reset
they record; overlapping runs of one saga; deliveries of one event that race to insert; settings
and reviews written from a stale screen; late answers. `PROJECT.json` lists each with its line.

## 2. Plan

1. `ReceiptLease`, the abstract `WorkQueue` it implements, and `ReceiptLeaseProofs`. Done.
2. `OutboxIntents` and the abstract `DeliveryCase`, with `OutboxProofs`. Done.
3. `Recovery`: the reconcilers over both tables next to the leases they reset, implementing
   `WorkQueue` again, with `RecoveryProofs`. Done.
4. `Intake`: the checkpointed saga with the gateway ledger. Done.
5. `Receiver`, `Pipeline`, `Links`, `DeadLetters`, composed in `MCInbound`. Done.
6. `Review`, `KillSwitch` with `Assistant` and `Config` on it, `AssistantScreen`, `Routing` with
   `RoutingScreen`, `Dashboard`, `Panel`, `DoNotContact`, composed in `MCPanel`. Done.
7. Proofs of the safety properties of 4 to 6: `IntakeProofs`, `InboundProofs` (`Receiver`,
   `Pipeline`), `ServiceProofs` (`Links`, `DeadLetters`, `Review`), `PanelProofs`,
   `RoutingProofs`. Done.
8. Left: abstract specifications of the saga (each step once, in order) and of the receiver
   (commit, then acknowledge), with their step simulations.

`RECURSIVE` is used nowhere. Every proof module extends the module it is about; every module with
an assumption is extended by the module of a passing run, so TLC evaluates it.

## 3. ReceiptLease

One record per receipt in `row`; the poll loop of each process in `pc`, the claimed job in `job`,
`inFlight` in `inflight`, the progress of `stop()` in `stop`; a redrive between its statements in
`admin`.

| code | actions |
|---|---|
| `commitReceiptWithIntents`, first delivery | `Commit` |
| poll loop: `reclaimExpiredLeases`, `claimNextReceipt` (locked by FOR UPDATE, one step), execution, `completeReceipt` as SELECT and UPDATE | `Reclaim`, `Claim`, `ClaimNothing`, `Execute`, `CompleteRead`, `CompleteWrite` |
| the loop's catch, a lost reply | `Throw`, `ClaimReplyLost` |
| `extendLease`, `releaseLease` | `Extend`, `Release` |
| `stop()`: flag, release by owner, drain, exit | `StopBegin`, `StopRelease`, `StopEnd` |
| process death and start | `Crash`, `Restart` |
| `redriveReceipt` as checks and UPDATE, rollback | `RedriveRead`, `RedriveWrite`, `RedriveAbort` |
| clock | `Tick` |

A lease's `left` counts down to 0, the value at which the sweep's `leaseExpiresAt < now` holds; the
claim's `<=` holds from 1 on. So the boundary between the two comparisons is a state of the model.
`wait` is the retry delay. Tokens are UUIDs: a claim takes one that no row and no process has, which
is what "never generated twice" means to anyone who could compare them.

Any step may fall between the SELECT and the UPDATE of a transaction: that is READ COMMITTED. A
pending transaction is *overtaken* when what its SELECT found is not so any more (`Overtaken`,
`OvertakenRedrive`), and its UPDATE, which goes by primary key, then takes effect all the same
(`LateResult`, `LateRedrive`).

What the model adds to the shipped callers: `extendLease` and `releaseLease` are exported and tested
but the worker does not call them; a job with a parsed event, which the pipeline completes itself
before the loop does, is possible in `executePipelineForReceipt` although the loop does not pass
one yet. Both make the checks stronger. What it leaves out: `claimSpecificReceipt` (tests only), the
organization filter (rows of other organizations are other instances), `ORDER BY firstSeenAt`
(any claimable row may be next), and the intent half, which has a module of its own.

Properties. `TypeOK`; `LeaseShape` (owner, token and expiry exactly while LEASED); `TokenInv` (a
token is in at most one process' hands, in the row it claimed); `EventuallyResolved` and
`OrphanReclaimed`. What `lease.ts:5` promises of the holder, `LeaseEnds`, is not kept
(`lease_stale_write`). `LeaseLost` is what is kept of it: a lease ends by right (its holder, its
expiry, `stop()` under its workerId) or by the UPDATE of one overtaken transaction on that receipt,
and a transaction is overtaken only after its SELECT had found the fence or the dead letter. It
tells a completion that is overtaken from one that never looked. `ImplementsQueue` says the same of
the whole table: every step is one of `WorkQueue`, or the UPDATE of an overtaken transaction, which
overwrites its one receipt and leaves it with nobody.

Bounds. `LeaseTicks` = 1 gives a lease three ages (fresh, at its boundary, expired); `Delays` =
{0, 1} a retry that is due at once and one that waits. `MaxAttempts` = 2 lets a retry be granted
and refused. `AttemptCap` saturates the counter above the cap, so nothing changes beyond it.
`MaxFaults` counts crashes, throws, stops, lost replies, cancelled jobs and overruns together: the
counterexample of `lease_stale_write` needs one overrun. Two processes are enough for a stale
holder and a new one; the proofs remove these bounds for the safety properties.
`Receipts + Workers - 1` tokens always leave one free for a claim. The runs have one receipt, since
each statement of the code writes one row except the sweep and `stop()`, which treat rows alike. What
relates two receipts, and every assignment of workerIds to processes, is covered by the theorems.
Symmetry is used over tokens, in runs without liveness only.

Fairness (`Fairness`): time passes; a process that is up goes on with its loop (`setTimeout` and
awaited statements come back, or throw, which is `Throw`); an UPDATE that was sent is executed; a
redrive is written or aborted. Nothing makes an operator redrive, a process restart or a lease be
extended; the liveness properties therefore assume that some worker is up time and again.

## 4. OutboxIntents

One record per `DispatchIntent` in `row` and the status of its `ReconciliationEntry` in `entry`
(the unique index on `intentId` allows one); `processNextIntent` of each dispatcher in `pc` and
`job`; each HTTP request between its SELECTs and its UPDATEs in `req`. `heard` is a ghost: what the
provider and the operators have said of an intent, as far as `News` asks. Nothing in the code reads
it; properties need it to say "on somebody's word".

| code | actions |
|---|---|
| `handleIntentSubmission` | `Submit` |
| `claimNextIntent`, `dispatchToGateway`, `completeIntent` as SELECT and UPDATE | `Claim`, `Send`, `CompleteRead`, `CompleteWrite` |
| the catch of `processNextIntent` | `Throw` |
| `stop`, process death, an unhandled rejection; `start` | `Down`, `Start` |
| the sweep of the integration workers over intents | `Reclaim` |
| the callback route: `processReceipt`, `processEvent`: SELECT; UPDATE | `HandleCallback` = `Receipt` or `Report`; `CallbackWrite` |
| the UNKNOWN route: `handleUnknownDelivery` with `createReconciliationEntry`: SELECTs; UPDATE and INSERT; with an entry already there | `HandleUnknownReceive` = `Unknown` or `UnknownAgain`; `OpenWrite` |
| the reconciliation route: `markInvestigating`, `resolveReconciliation`: SELECT; UPDATEs | `HandleReconciliation` = `Mark` or `Resolve`; `MarkWrite`, `ResolveWrite` |
| a transaction rolled back | `Rollback` |

Abstractions. `leaseOwner` is left out: `stop` of a dispatcher releases nothing, and
`releaseAllForWorker` is only called in the name of an integration worker, so the token alone
decides. A callback for an intent that was never sent is left out (`Sent`): the provider learns of
an intent by `Send`. A provider that refused or timed out may still call back. `expectedVersion` is
optional and compared with what was read, so it can only refuse a request. `OutboxDispatcher` is
exported and tested, but no server of the repository starts one; its actions are what its methods
do once started. `DISPATCHED` is not written by any code and so is not a status here.

Properties, all under every interleaving of the statements. `Fence` (a token passes the fence for one
dispatcher and the intent it claimed); `InvestigationOpen` (an intent under investigation has an open
entry); `QueuedUnleased` (no lease hides an intent queued for the first time or by the sweep, one
under investigation, or one whose case nobody has taken up); `EventuallyTaken` (no intent stays
PENDING or LEASED). What `reconciliation.ts:18` promises, `NoAutoDelivered`, is not kept
(`outbox_late_delivered`); `CaseKept` is what is kept of it: an open case keeps its intent out of the
queue unless a late mark reopens a decided case, and the intent is delivered over it only by a word from outside
or by one completion that was overtaken after it had found its fence. `ImplementsCase` is the
refinement of `DeliveryCase` (an intent settles for good unless a case decides otherwise, a case is
opened once while the intent moves, and decided once), with the UPDATE of an overtaken completion or
request as the one step aside, and with every request in order when it read.

Bounds. No action relates two intents (tokens are unique, the sweep treats rows alike), so one
intent carries every interleaving; two dispatchers are a stale and a new owner. Requests are not
counted: a request that is answered is free to ask again, so callbacks repeat and arrive in any
order. Two requests at once are what it takes for one to overtake the other; the theorems hold for
any number. The dispatchers share two tokens: a row that is not leased any more may keep one, and then a
claim waits until the other dispatcher is done. One fault here; the runs of violations have two.
`MaxFaults` counts stops, deaths, throws, rollbacks and overruns.

Fairness: time passes, some integration worker sweeps, a dispatcher that is up goes on, an UPDATE
that was sent is executed. Nobody has to call back, to investigate or to restart; `EventuallyTaken`
assumes a dispatcher is up time and again.

## 5. Recovery

The two tables again, with what the reconcilers ask of a row: its state, its holder, and whether
the lease has expired (`row`). `run` is what each scanner is doing: the phase of its scan, the
items its SELECT found and has not handled (`todo`), the item at hand and the statement it is at.
`ledger` is the `RecoveryAction` of each item, unique per (itemType, itemId). `resets` is a ghost
that counts what the reconcilers reset.

| code | actions |
|---|---|
| `commitReceiptWithIntents`, `handleIntentSubmission`; claims; completions that pass the fence or do not; death of a worker; time | `Insert`, `Claim`, `Finish`, `WorkerCrash`, `Expire` |
| `reclaimExpiredLeases` | `Sweep` |
| the interval and `runScan`; `POST /mock/reconciler/scan` | `StartScan`, `TriggerScan` |
| `POST /mock/reconciler/recover`: `recoverReceipt`, `recoverIntent` for any id, stuck or not | `StartManual` |
| `createRecoveryAction`; `resetStuckReceipt`, `resetStuckIntent`; `completeRecoveryAction` | `CreateAction`, `Reset`, `Close` |
| receipts are through, intents are searched; the end of a scan | `NextPhase` |
| the catch of the loop; death of the process | `Throw`, `ScannerCrash` |

The two statements of a completion, which `ReceiptLease` keeps apart, are one step here: the
module is about the second recovery mechanism, and its interleavings with the first and with the
holders. A worker has one job at a time, so its name stands for the token of its latest claim.

`RecoveryInv`: an item is reset once at most, by one scanner, and the ledger never claims a reset
that did not happen. `LiveLeaseKept`: a scan that works from an old list never ends a lease that
was granted since. `KeepsQueue`: with two recovery mechanisms the rows are still a `WorkQueue`.
`FirstRecovery` and `EntryClosed`: without faults an item that is stuck for the first time is
freed by the reconcilers alone, and every entry is closed. Deadlock is checked.

Bounds: one receipt, one intent, one worker, a timer and a request, two faults. Two scanners are
what it takes to race for an entry; two kinds of items make both phases of a scan happen; the
safety properties are proved for any numbers. Fairness: the interval fires (`setInterval`), and
the event loop goes on with an awaited statement. Nobody has to send a request, and no worker has
to sweep: `FirstRecovery` is the reconcilers' own.

## 6. Intake

The saga of one revision: `ckpt` is its `IntakeCheckpoint` row, `run` the locals of each call of
`run()` or `resumeWithPayload()`, `cache` the ledger of the gateway by idempotency key. A digest
is the draft it is the digest of (SHA-256 does not collide): the fields, and the profile and
version the reviewer saw. Applied steps are always a prefix of `STEP_ORDER`, so their number
`done` stands for the list. `applied` and `acts` are ghosts: what HRP did, on which draft and
profile.

| code | actions |
|---|---|
| `run`, `resumeWithPayload` with digest and confirmation checks | `Submit`, `Resume` |
| `createIntakeCheckpoint` (unique violation ends the loser) | `Create` |
| head of the loop: skip, or save the step before it is executed | `Mark` |
| the step's gateway call, its answer, the loop's catch, a lost answer | `ExecuteStep` = `IdentityStep`, `ProfileStep`, `CaseStep` or `AvailabilityStep` |
| the commit of a step; the terminal state | `Commit`, `Finish` |
| the store fails; the process restarts, with the ledger gone | `StoreError`, `Restart` |

Every await is the end of a step of a run. The gateway looks up, applies and caches before its
first await, so a call is one action. IDENTITY's payload carries the time, so a later call may
not be the cached one. `Save` is the findUnique and the update of `intake-checkpoint.ts:219` and `231` in
one step: the first yields the row's id alone, which nothing changes, and the update writes the
caller's values by that id. PROFILE and AVAILABILITY go on with every answer that is not FAILED
(`intake-orchestrator.ts:783`, `914`); the scenarios pinned for them never answer ACCEPTED, and if
one did, "applied" would mean "applied or taken over" for these two.

`IntakeInv` (types, and a command applied once per key and restart), `CheckpointTruth` (no step
is counted that was not applied), `OneDraft` (two clients with different drafts cannot mix their
effects), `OneTarget` and `GrowsAlone` (as long as calls do not overlap), and `Settles`.

Bounds: two runs, two profiles, two drafts (without a target, and for the first profile), one
fault. A lost answer, a store error and a restart are each one fault; two overlapping runs are
what it takes for a stale save. Fairness: `Proceed` of every run, since the event loop resumes a
call whose await is over. A client need not come back. `CHECK_DEADLOCK FALSE`: a completed
checkpoint with nobody calling is a proper end.

## 7. The inbound path

`MCInbound` runs four modules as one state machine with a variable `focus` that stays what it
was: each behaviour explores one part, and the parts share no state. (They meet in the receipt
rows, whose protocol is `ReceiptLease`.) `CHECK_DEADLOCK FALSE`: bounded behaviours end.

`Receiver`: `Post` is `handleRequest` up to the commit, with routing, registry, rate limit
(`CheckRateLimit` with `evictIdle` and `insertWithCap`), signature, identity and scope checks in
the order of the code; a refusal before the limit changes nothing, one after it has used a place.
The transaction is `Select`, `Insert`, `Commit`: `ON CONFLICT DO NOTHING` without a target, so any
unique constraint makes it a no-op; it waits for a row that another transaction has inserted and
not committed (`Blocked`); the loser reads again by scope. `StoreError`, `CommitLost` and `Crash`
are the failures. `ReceiverInv`: what was acknowledged is there, with its own digest and one
intent; 409 is never given to a racing twin; no scope gets more than two windows' worth into one
window. `Answered`: inserts that wait do not wait in a circle (fairness: `Handle` of each request).
Instance: three requests at once, two connections of one organization, whose events of one id make
one receiptId; limit 3, window 2, idle TTL 2, one entry in the map, four ticks; one error.
`RateKept` assumes, as the defaults do, that the idle TTL is not shorter than the window.

`Pipeline`: what becomes of one event of every kind that matters, for the worker's stages, the
API's stages and the worker's stand-in `executor.ts`. `Claim` (the first, or after a lease
expired under a slow execution), `Decide` (normalizer, firewall, mapping, revision tracker),
`Call` and `CallLost`, `GatewayRestart`, `Complete` (only the latest claimer). HRP applies a command
(APPLIED) or takes it over to apply it some time (ACCEPTED, with an operationId), and the ledger
answers a repetition as it answered first. `VerdictOf` counts both as success, as the code does
(`pipeline-executor.ts:413`, `469`, `event-pipeline.ts:295`); nothing asks for the operation later. The
scenarios the mock pins never answer ACCEPTED, the gateway of the worker's tests answers nothing else
(`ac5-staff-assisted.test.mjs:56`).

`PipelineInv`: HRP gets one command per event and restart (`AppliedOnce`), and `Quiet` says which
events get as far as a call. On both sides: none of metadata, of staff, of a recognised note, or without an exact
match; on the API's side AUTHORITATIVE ones only; on the worker's side also REVIEW_NEEDED ones, but none
that is blocked or ignored, or of another revision than its conversation's. That the worker's side
lets REVIEW_NEEDED through breaks "Only authoritative events create actions" (`firewall.ts:65`), which is
`OnlyAuthoritative` and the violation run `inbound_unreviewed`. `DeliveredTaken`: a receipt whose event
calls for a command is DELIVERED only after HRP applied it or took it over. Instance: two overlapping
executions, three attempts, one lost answer or restart.

`Links`: both upserts as `SelectContact`/`SelectConversation` and an INSERT or UPDATE by primary
key that decides on the row read. `LinksInv`: whatever overlaps, a contact id has one row, every
row can be read back, a history is bounded; without overlap versions only grow and the history is
the entries that were answered. Instance: two upserts, versions 1 and 2, two rows, a history of
two of three entries.

`DeadLetters`: deaths, the guard's block list, a redrive as find, check and update, the preview,
and a listing page by page with its cursor while the letters change. `DlqInv`'s parts: a listing
whose ids and times agree is complete and has no repetition; no redrive for a recipient that was
blocked throughout; redrives that do not overlap are all in `dlqAudit`; the preview tells what a
redrive would do. Instance: three receipts, two redrives, pages of one, three deaths, attempts at
and below the cap.

## 8. The panel

`MCPanel` composes the panel's modules the same way: `focus` chooses one of ten parts, which
share nothing but the kill switch. `CHECK_DEADLOCK FALSE`, as above. A route is two steps: what
it checks before it awaits the body, and what it does after; the body's route and content wait in
a `slot`.

| module | code | actions | property |
|---|---|---|---|
| `Review` | `review/` service, store, permissions, handler | `CreateFromIntake`, `HandleDetail`, `HandleDecide`, `HandleLink`, `HandleUnlink`, `HandleReplay` | `ReviewInv`: a decision rests on the links its reviewer saw, is made once, by the entry's organization, and nothing is added to it later |
| `KillSwitch` | `kill-switch.ts`, guards of `server.ts` | `Guarded` (= `Refuse` or `ReadBody`), `Applied`, `SetState`, `RecoveryRun`, `Resolve` | `RefusedKept`: no refused write is forgotten |
| `Assistant` | `assistant/service.ts`, `store.ts` | `Accept`, `Confirm`, `Reject`, `Commit`, `ReadProposals` | `AssistantInv`: a mutation once, an item of a batch once and for one payload, a replay repeats, receipts are true |
| `AssistantScreen` | `assistant-panel.tsx` | `Open...`, `TypeProfile`, `Press...`, `Answer...` | `AssistantPanelInv` with `TabsInv`: the offered draft is of the proposals that were on the screen |
| `Config` | `config-store.ts`, `assistant/store.ts`, `dashboard/store.ts`, services | `CreatePool`, `UpdatePool`, `UpdateProvider`, `AssignKpi`, `ReviseKpi`, `ProposeKpi`, `Reschedule` | `ConfigInv`: nobody overwrites a change it has not seen, unless a version came twice |
| `Routing`, `RoutingScreen` | `simulator.ts`, `routing-panel.tsx` | `AssignSource`, `AssignBatch`, `AssignRealtime`, `AssignHybrid`; `Choose...`, `PressSimulate`, `ReceiveSimulation` | `SimulatorInv`: limits, exact shares per full cycle and nobody a customer ahead in between, largest remainder; the result is of the choice |
| `Dashboard` | `aggregator.ts`, `service.ts`, `dashboard-panel.tsx` | `ChangeFilters`, `OpenDrilldown`, `ReceiveChart`, `ReceiveDrill` | `DashboardInv`: cell and drilldown agree, every row in one cell, what is shown is what was chosen |
| `Panel` | `intake-review.tsx`, `orchestrator-wire.ts` | `EditField`, `PressPreview`, `ConfirmChange`, `PressSubmit`, `TimeOut`, `PressReset`; `PostPreview`, `PostRun`, `ServeRun`, `ExpireSnapshot` | `PanelInv`: a run acts on a draft that was previewed for whoever runs it, from a form also confirmed, and a revision is acted on with one draft |
| `DoNotContact` | `handleDnc`, `dnc-handler.ts` | `PostDnc`, `ResetGateway` | `DncInv`: who is told "applied" asked for what the gateway accepted, and a contact is suppressed once per reset |

Versions that a client knows and the write it knows are kept apart in `Config` (every write has a
number of its own), so that an old version coming back (a pool that is created again, a next
action that is rescheduled twice in a second) shows. In `Panel` a run is its outcome and the row it
leaves; how it gets there is `Intake`. `Routing` compares fractions exactly and lets equal ones come
out in any order, as the floating-point comparison of the code may. The staff comes with the
request and the pool from the store, so a pool can name recipients who are not of the staff: only
their weight matters (`strangers`).

Bounds. Two requests at once are what a stale read takes; two reviewers of one organization and one
of another; four members with weights, capacities and quotas that make everyone eligible, nobody,
and some; two weeks of five rows; two fetches under way; three writes to a setting, three seconds
for its clock; a log of three versions for a review.

## 9. Runs

| run | question | instance |
|---|---|---|
| `lease` | when everything interleaves: do leases stay whole and tokens unique, is a lease lost by right or to an overtaken UPDATE only, is the table a `WorkQueue` but for these, is every receipt resolved and every orphan reclaimed? | 1 receipt, 2 processes with one workerId, 2 faults, 1 redrive, fair |
| `lease_stale_write` | violation: a stale completion overwrites the new owner | 1 receipt, 2 processes with their own workerId, 2 faults |
| `outbox` | when everything interleaves: is there one owner per token, an open entry behind every investigation, no lease that hides an intent, is an open case kept, are the tables a `DeliveryCase` but for overtaken UPDATEs, and does every intent get out of the queue? | 1 intent, 2 dispatchers, 2 requests at once, 1 fault, fair |
| `outbox_late_delivered` | violation: a completion delivers over a case opened after its SELECT | 1 intent, 2 dispatchers, 1 request at a time, 2 faults |
| `outbox_suppressed` | violation: a suppressed intent is queued again, even one transaction after the other | the same |
| `recovery` | do scans, requests and workers' sweeps together recover an item once, truthfully, without a live lease being lost, and do the reconcilers get there alone? | 1 receipt, 1 intent, 1 worker, 1 timer, 1 request, 2 faults, fair |
| `intake` | do overlapping runs, lost answers, store errors and restarts keep the saga to one draft and each step to one application? | 2 runs, 2 drafts, 2 profiles, 1 fault, fair |
| `intake_resume` | violation: a PARTIAL checkpoint refuses its own payload | as `intake`, without fairness |
| `inbound` | from delivery to receipt, event, links and dead letters: is what was answered true? | section 7 |
| `inbound_unreviewed` | violation: the worker calls HRP for an event left to a review | as `inbound` |
| `receiver_sibling` | violation: a second connection's event of the same id is dropped | as `inbound` |
| `panel` | the services behind the panel, one per behaviour | section 8 |

The lease, outbox, recovery and intake runs check `MCReceiptLease`, `MCOutboxIntents`, `MCRecovery` and
`MCIntake`, which give the constants their values; `inbound` and `panel` check the compositions
`MCInbound` and `MCPanel`.

`CHECK_DEADLOCK FALSE` where the system may stop: a table whose receipts are all resolved with
every process stopped or out of faults, a settled intent with the dispatchers down, a completed
saga, an exhausted bound. `recovery` keeps the check.

### What the violations say

* `lease_stale_write` (`LeaseEnds`): `completeReceipt` reads by token and writes by `receiptId`
  (`lease.ts:482`, `494`). Between the two the lease expires, another worker reclaims and claims,
  and the late UPDATE clears that lease. `lease.ts:5` excludes it. The fence would have to be in the
  UPDATE's WHERE, or the row locked.
* `outbox_late_delivered` (`NoAutoDelivered`): the same shape in `completeIntent` (`lease.ts:581`, `592`).
  Between its SELECT and its UPDATE an UNKNOWN opens a case and sets INVESTIGATION_PENDING; the
  completion then sets DELIVERED while the case is open, against `reconciliation.ts:18`.
* `outbox_suppressed` (`SuppressedStays`), even one transaction after the other: an acknowledgement takes the intent out of
  `INVESTIGATION_PENDING` and leaves the case open (`delivery-receipt.ts:144`); a SUPPRESSED report
  is accepted from `ACK_RECEIVED` and makes it TERMINAL; the open case is resolved as RETRY, which
  updates the intent whatever its status is (`reconciliation.ts:324`).
* `intake_resume` (`PartialResumable`): after IDENTITY and PROFILE the row holds the profile they found, and a resume
  compares the confirmation with the row (`intake-orchestrator.ts:604`). The payload of the run is
  stale, and a confirmation of the new target has another digest.
* `inbound_unreviewed` (`OnlyAuthoritative`): the worker's mapping service returns early for BLOCKED
  and NON_AUTHORITATIVE only (`mapping.ts:154`), so a REVIEW_NEEDED event (a branch claim without a
  confirmation token, an added participant) that matches exactly is sent to HRP (`mapping.ts:195`).
  `ac5-staff-assisted.test.mjs:134` expects no call, and sees none because the mapping service resolves
  by the first letter of the event id, and the test's is UNRESOLVED.
* `receiver_sibling` (`NeverSibling`): `receiptId` is made of prefixes of organization and event id
  (`event-receipt.ts:64`); an event with the id of one on another connection loses against the
  primary key, is not found by the re-read (`event-receipt.ts:239`) and answered 503 for ever.

## 10. Proofs

Proved for all values of the constants that satisfy the named assumptions.

`ReceiptLeaseProofs` (`WorkerIdAssumption`, `NullAssumption`, `TimeAssumption`, `BoundAssumption`):

* `TypeCorrect`: `TypeOK` is inductive by itself.
* `LeasesAreWhole`: `LeaseShape`, with `TokenInv` and `TypeOK`: every UPDATE, late ones
  included, writes all lease columns together.
* `TokensAreUnique`, and from it `AtMostOneLease`: that at most one process passes the fence is not
  inductive, since it says nothing of tokens of processes that have lost their lease. `TokenInv`
  adds that a token is in the hands of at most one process, in the row that process claimed and
  under that process' workerId.
* `LostByRightOrOvertaken` (`LeaseLost`), with no assumption on what may come between two statements.
  `LeaseStep` goes through the steps that can end a lease; `WriteBegins` and `RedriveBegins` say that
  a transaction reaches its UPDATE only from a SELECT that found what it needed, so that it can
  be overtaken only afterwards.
* `ReceiptsImplementQueue` (`ImplementsQueue`): the step simulation of `WorkQueue`. `LeaseShape` gives
  the holder of a leased row; a completion or redrive that still holds what it read is the abstract `Finish` or
  `Revive`, and an overtaken one is `Overwrite`.

`OutboxProofs` (`OutboxNulls`, `OutboxBounds`, `OutboxNews`):

* `OutboxTypes`: `TypeOK` needs `Named`, which says that a job or a request that is half done names
  an intent and that what it says is a word its UPDATE knows.
* `TokensFence`: every step either lets rows keep or lose their tokens (`QuietStep`) or leases one
  row under a token that no row and no job has (`ClaimStep`); both keep `Fence`.
* `InvestigationsAreOpen`: only `OpenWrite` begins an investigation, with its entry, and only
  `ResolveWrite` closes an entry, with the status.
* `NoLeaseHides` (`QueuedUnleased`): `CaseInv` adds to it what a late write must not find: an intent
  that was not submitted has no case, no lease and no word (`Plain`), and every job and request
  names one that was (`Submitted`).
* `CasesAreKept` (`CaseKept`): `KeepsStep` shows for each action that it neither queues nor delivers an
  intent over an open case; what remains are a late mark, a word from outside, and the
  completion that was overtaken, which had found its fence (`FenceFirst`).
* `OutboxImplementsCase` (`ImplementsCase`): the step simulation of `DeliveryCase`, with `Overwrite` for the
  overtaken UPDATEs; `ReadsFirst` shows that every request was in order when it read.

`RecoveryProofs` (`RecoveryNulls`, `RecoveryBound`), for any rows, workers, schedulers and requests:

* `RecoveredOnceForEver`: `RecoveryInv` with `Assigned` (a scanner that is at a statement has an
  item) is inductive. That an item is reset once is not, by itself: it needs that an entry that
  is missing or SKIPPED means no reset (`LedgerTruth`) and that the entry's one scanner knows what
  it did (`OneRecoverer`). Steps that touch neither ledger nor count, and put no scanner at
  an item it was not at, are done at once (`KeepsTruth`); the three statements of a recovery remain.
* `LiveLeaseHeld`: only the holder's `Finish` ends a lease that has not expired; `Reset` and
  `Sweep` look at the row again.
* `RecoveryImplementsQueue`: the step simulation of `WorkQueue`; both mechanisms are its `Revoke`.

`IntakeProofs` (`IntakeNulls`, `IntakeDrafts`, `IntakeBound`), for any calls, drafts and profiles:

* `StepsOnce`, `SkippedHappened`, `DraftsDoNotMix`, `TargetIsKept` and `CheckpointGrows` come from
  one inductive invariant (`AlwaysInductive`): where a run is (`Places`), what the gateway's ledger
  says of `applied` (`LedgerTruth`: an application is cached, or a restart took the entry), that
  row, runs and commands have one draft (`BoundToRow`), and, as long as calls do not overlap, that
  one run works, from the row (`RunsAlone`), on the profile IDENTITY gave (`OnTarget`).
  `CheckpointTruth` is not inductive without `LedgerTruth`: a step is counted because its answer
  came from the ledger, not because this run applied it.

`InboundProofs` (`ReceiverRate`, `ReceiverBounds`, `PipelineBounds`):

* `ReceiverKeepsItsWord` (`ReceiverInv`), and `AcknowledgedIsDurable` alone. The store's half:
  rows are as their request was (`RowsTrue`), an uncommitted row excludes another under its key
  (`OpenIsAlone`), and whoever passed its commit has its row (`AckedHasRow`). The limit's half
  (`RateTrue`, `MapBounded`): the entry of a scope counts what its window let through, and a scope
  without an entry was idle for a window. That needs `Window <= IdleTTL`, an assumption: the default
  is five minutes against one, and the configuration schema allows less (and 0, which turns
  eviction off).
* `OneCommandPerEvent` (`PipelineInv`) and `DeliveredWasTaken` (`DeliveredTaken`). `LedgerTruth` ties what
  HRP applied or took over to the cache and to restarts; `OnlyPlanned` says that an execution at its
  call, or with a success to report, has an event that calls for a command, and that a success is of a
  command HRP has. The tables of event names of both normalizers and firewalls are unfolded in lemmas.
  What calls for a command is what the code makes of an event: on the worker's side that includes
  REVIEW_NEEDED ones, so this is not `OnlyAuthoritative`, which fails.

`ServiceProofs` (`ReviewBounds`, `LinkBounds`, `LetterBounds`):

* `DecidedOnWhatWasSeen`: `Screens` adds to `ReviewInv` that a screen of the entry's present
  version shows its present links, which is what the version in the request stands for.
* `LinksStayInOrder`: `Transactions` and `Alone` (without overlap one transaction is under way, and
  what it selected is still so) carry `NewEnough` and `History`.
* `LettersAreAccountedFor` (`DlqInv`), under the conditions the property names: the listing part for
  listings whose ids and times of resolution agree in order, the audit part as long as no redrive
  overtakes another, the preview part for letters with a known recipient and no forbidden field. The
  code keeps none of the three for all letters (section 11). A listing in order is, at each page, what is newer than its cursor:
  `Pages` says so for what was seen, what has stood all the while, and what was counted. The letters
  may be any set of positive numbers, with any finite number of dead ones.

`PanelProofs` (`PanelBounds`, `DncBounds`, `ConfigBounds`, `TabsBounds`, `DashboardBounds`), one
inductive invariant for each part:

* `RunsWhatWasPreviewed` (`Session`): a form waits for a request of its own, a ticked box and a run
  under way are of a confirmed preview, a checked run carries a snapshot of who runs it, and the
  row of a revision has the draft that was acted on.
* `ToldWhatWasApplied` (`Ledger`): a payload that names a contact was accepted once per reset, and
  since the last one only if the gateway keeps it.
* `NobodyOverwritesBlindly` (`Settings`): as long as no version came twice, who knows the
  present version knows the present write (`KnownIsTrue`), and no version ever given is above the
  present one (`Counter`). That `again` stays false for providers and KPIs is proved, not assumed.
* `AssistantActsOnce`: `Booked` for the server (an applied draft is in the ledger; items and
  answers have the same keys and agree; keys of refusals are not keys of effects) and `View` for
  the tabs (which calls may be under way, and what they are about). `RefusedKept` is part of it.
* `ChartsAddUp` (`Display`): without a race every chart shown or fetched is of the filter bar; that
  cells and drilldowns agree and that cells are disjoint follows from how they are computed, for
  any rows.

`RoutingProofs` (`RoutingFixtures`, `ScreenBounds`), for any number of members, any weights, limits
and customers:

* Sums come first (`SumRemove`, `SumPlus`, `SumTimes`, `SumAtMost`, `SumWithin`, `SumCounts`). A
  fold over a finite set is a table of partial sums; that the order does not matter is an induction
  over finite sets, for which the provers have no rule they can instantiate. `LeastSubset` replaces
  it: the strict subsets of a finite set are well-founded, so a claim that fails fails for a least
  set, and that one is refuted.
* `SharedOutAsAsked` (`SimulatorInv`) of `SimulatorSpec`, in which the screen and the simulation
  behind it take turns. `Distribution`: the counters are what the fixture had and what was given
  (`Counted`); while all recipients are eligible, the weight a member has in hand is what it is
  behind its share, the weights in hand add up to 0, and none is as low as minus the total
  (`Balanced`: the chosen one is positive, because the raised weights add up to the total); while
  everyone online is eligible, what was given and what is left of the plan is a plan that shares
  everything out (`Planned`). `Simulator` is the screen's part: what is asked or shown is of no
  older version than the list, and answers the selectors unless they were moved.
* `QuotaIsFair`: every plan `computeQuotaPlan` may come to gives out all customers, and everyone
  the exact share rounded down or up, whichever of equal fractions comes first.

A proof attempt corrected the property: round-robin was thought to keep everyone within one
customer of its share. Nobody is a whole customer ahead (`Balanced`), but somebody may be behind by
more than one from five members on: with the weights 1, 1, 3, 56, 56 the last member is 1.11
customers behind after 65 customers. What holds is what the sum of 0 leaves: less than one for
each of the others. No instance of four members shows the difference.

The runs check the properties; the inductive invariants were model-checked on the same instances
before they were proved. Two habits of the models are for the provers' sake: maps are overridden
with `Over` (the operators of `TLC` have no definition the provers can use), and a choice between
exclusive cases is an IF.

Model-checked only: the liveness properties (`EventuallyResolved`, `OrphanReclaimed`,
`EventuallyTaken`, `FirstRecovery`, `EntryClosed`, `Settles`, `Answered`: liveness under fairness is
out of the prover's reach) and the six violations. Every safety property of a passing run is a
theorem.

## 11. What the code does not keep

Met while modelling; each is what the cited code does. The models do what the code does, and state
the properties around these. The six violations above are not repeated.

Receipt queue and worker. The attempts cap is read only on completion: a row whose holders crash or
overrun is claimed without limit (`retry.ts:98`). A `stop()` that overlaps an awaited claim leaves a
lease behind the drain (`durable-worker.ts:316`), and an exception leaves an `inFlight` entry
(`:283`). The redrive cap of 5 is below the default `maxAttempts` of 8 (`event-receipt.ts:566`), so a
receipt that used its attempts cannot be redriven. The first back-off is twice `baseMs`, because
`attempts` has been incremented by the claim (`retry.ts:72`).

Outbox. The dispatcher settles an accepted intent as DELIVERED (`dispatcher.ts:220`), which its
comment (`:219`) and `delivery-receipt.ts:56` leave to a callback. A completion that fails after the
provider call records FAIL (`dispatcher.ts:239`). `markInvestigating` changes a resolved entry
(`reconciliation.ts:225`, against `schema.prisma:294`). An UNKNOWN that follows a RETRY resolution is
taken for a repetition (`unknown-handler.ts:131`), so that the completion delivers it. An UNKNOWN
that comes by the report route settles as FAILED with no case (`delivery-reporting.ts:69`). A late
mark reopens a case that was decided for another try, and a late second RETRY queues a row that a dispatcher
has leased and keeps its lease columns; a late DELIVERED report is written over a case opened meanwhile
(all by primary key, `reconciliation.ts:225`, `324`, `delivery-reporting.ts:193`).

Reconciler. A `RecoveryAction` is unique per item for ever, so an item that gets stuck a second time
is left to the workers' sweep; a PENDING entry after a crash blocks the item in the same way; the
status FAILED is declared and never written.

Intake. The panel's resume is always answered IDEMPOTENCY_CONFLICT or has no route. A partial run
cannot be repeated, because the checkpoint's canonical id changes the digest that is compared. A
submit whose answer timed out in the browser goes on at the server, and the next preview has a new
revision id. The form's state `partial` has no button. The gateway's ledger is in memory.

Inbound. The durable worker never passes `parsedEvent`. A lost answer and its retry end
IDEMPOTENCY_CONFLICT, and the receipt is dead-lettered although the command was applied. The
firewalls of API and worker classify some events differently; `makeIdempotencyKey` of
`event-pipeline.ts` has no caller. An answer ACCEPTED counts as
success in both pipelines (`pipeline-executor.ts:469`, `event-pipeline.ts:295`): the receipt is DELIVERED when
HRP has only taken the command over, and nobody asks for the operation again. The rate limit
has fixed windows, so a burst around a boundary is twice the limit; `RateKept` is the promise per window
and needs an idle time of at least one window.

Links. A link without `externalContactId` is looked up as the empty string and never found, so each
upsert inserts another row. One version with two targets is answered with the old row, where the
comment of `contact-link.ts` says VERSION_CONFLICT. Overlapping upserts can lower the version.
Conversations have no unique constraint, so two first upserts that overlap leave two rows, and one
loses its history entry. An equal revision is written again, and a retry repeats its history entry. A
history of 64 refuses each later entry.

Dead letters. The list, statistics and preview routes do not await the service: their answer is an
empty object. Preview builds `unknown-${receiptId}` where redrive builds `unknown-${eventId}`, and skips
the check for forbidden fields. The listing orders by `resolvedAt` and continues by `receiptId`, so a page
can skip or repeat rows. The server's main never injects a DLQ service, so the routes answer 503.

Do-not-contact. The key has no connection in it: the same contact id on another connection, or a
second request with another reason, is a conflict, answered 200 `{applied: false}`. ACCEPTED is
answered as applied. A session reset forgets the keys. The client's list of reasons
(`mock-api.ts:254`) is not the server's, and no component calls it.

Settings and kill switch. Two reschedules in one second lose one. The kill switch is asked before the
body is awaited; reject, reschedule, intake run, DNC, routing and KPI routes do not ask it; it is not
persisted. A write that is repeated after the disarm leaves its receipt pending; `recovered` is never
returned (`kill-switch.ts:217`). `createPool` sets the version back to 1, so a stale version matches
again. KPI revision ids are not unique.

Dashboard. The UNRESOLVED list is always empty; KPI targets are never attached; the stage order is not
applied (`aggregator.ts:267`); `aggregateByActor` does not split by actor. An older answer can replace
a newer one, and a drilldown stays under other filters.

Assistant. A draft accepted again after it was applied is answered 409. One proposal can be applied by
several drafts, and the draft of a rejected proposal can still be confirmed. A batch that names an item
twice answers its first outcome and records its last. The tabs share one error; switching loses a
pending draft; another profile keeps the ticks; a late list can show the older profile; the answer
of a confirm removes whichever draft is offered by then.

Review and routing. The links of a decided entry can be unlinked; the cursor of a second page is lost;
a REVIEW outcome of the pipeline creates no item. A member of weight 0 gets customers when another is
ineligible (`commands/routing.ts:122`, `simulator.ts:108`); float ties depend on the shares and not on
the actor's id; a batch leaves customers in fallback while others have room. The simulate route ignores the
scenario the panel sends, a changed count keeps the old result, a late answer may be of an older
selection, and the versions listed are those of when the panel opened. A HYBRID pool sends everybody to
the fallback queue (`simulator.ts:359`; `docs/contracts/handoff-core-1.11.status.md` lists the mode as not
implemented). Round-robin subtracts the weight of the whole pool, recipients included who are not of the
staff it is given or cannot take a customer: with weights 3 and 1, and 6 of others, 1000 customers are
shared 600 to 400 and not 750 to 250.

## 12. Not modelled

* The API server's route table and wiring, and contracts and configuration: declarations and dispatch
  without state of their own. What a handler does is in the module of its component.
* Media evidence and URL policy: synchronous methods with one guard each, and string parsing. No step
  of one can come between the steps of another.
* Rendering, the mock scenarios, the call log, counters, correlation ids, log scrubbing, and the
  copying of fields in normalizers and adapters: they decide nothing the properties tell apart.
* Plain reads (`listReceiptsByOrg`, `findReceipt`, review list, `listContactLinksByOrg`), the test
  helper `claimSpecificReceipt`, `validateCommand` (called by neither pipeline), the orchestrator's
  `preview` and `resume()` (they report and write nothing).
* KPI labels, growth figures and the credit policy; the fixture of recommendations.
* Postgres, the provider and the gateway are not under the repository's control. They are modelled from
  how the code uses them and marked external: a statement is atomic, a unique index refuses the
  second row, a call's effect and its answer are two events and either may be lost.
