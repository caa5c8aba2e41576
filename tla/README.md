# TLA+ models of zrotext

zrotext sends SMS through phones its users own. A tenant hands a message to a
hub (Rust, PostgreSQL); the hub grants one attempt at a time to one phone; the
phone (Android) calls the platform's `SmsManager` at most once for the attempt
and reports back what it saw. Nothing about a radio call can be undone or asked
for again, so the whole design turns on evidence: a state changes only on a
recorded fact, silence is never taken for failure, and an attempt is replaced
only after a proof that it never reached the radio.

Beside this path the repository has two protocols of its own that decide what may
happen to it: a failover quorum that moves the authority to dispatch from one
site to another, and an outbox that reports inbound events to the webhooks of
the account.

This directory holds the models of these three, the TLC configurations that check
them on small instances and the TLAPS proofs for every instance.
`PROJECT.json` lists components, runs, mutants, source lines, hazards, findings
and theorems; this file explains them.

## 1. Inventory

| Part | Source | State | Operations | Modelled in |
|---|---|---|---|---|
| Domain state machine | `crates/domain` | message state | `apply(evidence)` | `MessageStates` |
| Domain authority | `crates/domain` | sessions, messages, grants, keys, switches | `accept`, `connect`, `grant`, `event` | `Authority` |
| Delivery store | `crates/delivery-store` + migrations 001, 003 | `messages`, `dispatch_jobs`, `message_attempts`, `dispatch_fences`, `message_events`, `device_sessions`, `deployment_authority`, `idempotency_keys`, `usage_periods`, `usage_ledger` | acceptance, cancel, expire, claim, grant, radio event, sweeps | `DeliveryStore` |
| Retention worker | `crates/server/src/retention.rs` | the same tables | prune keys, content, events | `DeliveryStore` |
| Revocation of a device | `crates/server/src/enrollment/mod.rs` | `devices.revoked_at`, the session lease | revoke | `DeliveryStore` |
| STOP/START, owner holds | `inbound/`, `http_owner_review/holds.rs` | suppressions, holds | suppress, resume | `DeliveryStore` (their effect on the queue) |
| Failover quorum | `crates/failover-quorum` (`decision`, `observe`, `report`) | the controller: phase, epoch memory, streaks | observe a round, restore | `FailoverQuorum` |
| Observation store | `crates/failover-quorum/src/store.rs`, `report.rs` | a journal and a checkpoint file per member, what was served | record, compact, open, serve a round | `ObservationStore` |
| Failover executor | `crates/failover-quorum/src/executor.rs`, `failover_executor.rs`, `failover_external.rs` | cached controller and journal, pending actions; `deployment_authority`, `sites`, `failover_controller_state`; an external anchor and host fence | tick, restore, fence, promote, rejoin, reconcile | `FailoverExecutor`; its writes also in `DeliveryStore` |
| Webhook outbox | `inbound/mod.rs`, `webhook_worker.rs`, `http_webhooks.rs` | `webhook_endpoints`, `webhook_deliveries`, `webhook_attempts`, cursors; a lane per worker | queue, claim, load, post, finish, defer, recover; enable, disable, rotate, replay | `WebhookOutbox` |
| Device socket | `crates/server/src/device_socket` | a task per connection | receive, record, answer, claim, grant, confirm, release | `Gateway` |
| Attempt journal | `AttemptJournal.kt` | `sms_attempts`, `sms_segments`, `alpha_radio_events` | reserve, acknowledge, retire, consume, callback, recover | `PhoneJournal` |
| Gateway service | `AuthenticatedGatewayService.kt`, `AlphaPumpGate.kt` | run, connection, grant in hand, awaited event | connect, grant, ack, pump, close, quarantine | `Gateway` |
| SMS adapter | `SmsAttemptAdapter.kt` | the send in progress | re-check, one-use gate, radio call, stall, callbacks | `Gateway`, `PhoneJournal` |
| Reconnect policy, test approval | `DeviceReconnectPolicy.kt`, `ControlledTestApproval.kt` | close streak; used marker, approvals | classify a close; prepare, approve, spend | `Gateway` |

Not modelled, with the reason for each in `PROJECT.json`: the HTTP front (it keeps
no state), authentication and enrolment but for revocation (cryptographic checks), line admission
and policy (a query inside acceptance), payment integration, schedules and
workflows (callers of acceptance), provider SMS (a second transport), the
sealed, conversation and profile03 transports, the owner surfaces, the migrator
and key-ceremony tools, the simulator, and the native HPKE code with its vendored
wolfSSL. The last is by far the largest part of the tree by lines and the only C in
it: about 242,000 lines of wolfSSL and under 600 of the project's own, a stateless
sequence of calls to the library. A share of C lines covered is therefore no
measure of what is modelled here, since the system's logic is in Rust and Kotlin.

How the parts meet:

* Tenant calls, socket tasks, sweeps, retention and operators share nothing but
  the database; each call is one transaction, and the rows it locks and the
  unique indexes decide who wins.
* The hub has one task for each device connection. It reads the store in one
  transaction and acts on what it read in a later one.
* The phone has a journal thread (all Room transactions, the pump, the send), a
  socket thread (frames) and timers. The socket thread hands journal work over
  and blocks only where the code waits for it.
* Phone and hub exchange submit intents, acknowledgements with
  `submit_permitted`, grants, evidence and close codes over a connection that may
  break between any two frames.
* Failover executors of several replicas share the writer's database, through one
  session that holds an advisory lock, and an authority outside of it (an anchor of
  the highest promoted epoch, a fence of the old host). Members report to each
  replica's observation store; the controller decides on what the store serves.
* Webhook lanes of all server processes share the outbox tables. A lane claims in one
  transaction, posts without holding anything, and records in another; owners and
  retention act in between.

What is hard, and what must therefore hold:

| Hazard | Property |
|---|---|
| four rows per message, written by different transactions | `RowsAgree`, `StoreTypeOK` |
| a late callback of a replaced attempt | `ReplacedOnlyAfterProof` |
| fences entering and leaving the active set of a device | `OneActivePerDevice` |
| callbacks, sweeps and reports after a contradiction | `ConflictIsFinal` |
| segment callbacks in any order, repeated, mixed | `OutcomeHasEvidence` |
| queue limits checked at acceptance only | `QueueBounded` |
| reserve in one month, refund in another; counters beside a ledger | `RefundIffUnsent`, `MeterBalanced` |
| a retried request, an expired or pruned key | `KeyNamesItsMessage`, `BindingsStable` |
| STOP after a claim, or under a grant that is proved unsent later | `NoGrantAfterWithdrawal` |
| lost acknowledgements, resent events, restarts of either side | `AtMostOnceRadio`, `FramesExpected`, `JournalOneWay` |
| process death around the radio call | `ProofMeansNoRadio`, `RadioAfterIntent` |
| the hub deciding while evidence is under way | `HubMatchesRadio`, `AckedAgrees` |
| a second test approved on a failure that is not the hub's yet | `OneUnresolvedCall` |
| a pump that nothing restarts | `EvidenceSettles` |
| evidence served twice, across compaction and reopening | `StreakOfNewReports` |
| a crash or failed write inside a compaction | `NothingFreshDropped`, `CrashLeavesLoadable` |
| a lock lost and taken again, with another replica in between | `CacheIsCurrent`, `JournalForward` |
| a promotion whose answer is lost, that commits late, or that is resumed | `EpochRaised`, `JournalForward` |
| anchor and database read at different times | `NoFalseTerminal`, `AnchorFollows` |
| a parked action retried beside new decisions and reloads | `ExecutorTypeOK` with `OnePromotionOpen` |
| a terminal hold that must go on holding | `TerminalHolds` |
| late results, expired leases, dying lanes, key failures | `AttemptsAccounted`, `SendsRecorded`, `SuccessIsTrue` |
| disable, rotate, enable, replay around a delivery | `EndedForGood`, `SignedWithOriginal` |
| lanes and endpoints competing | `OneLaneEach`, `HealthySettles` |

## 2. Modules

```
MessageStates            states, evidence, the transition table
  Authority              abstract specification (domain::Authority)
  DeliveryStore          the store and everyone who writes to it
    MCStore              instances for TLC
      StoreRefinement    DeliveryStore implements Authority
        StoreRefinementProofs   theorems: the refinement, step by step
    DeliveryStoreProofs  theorems: rows, fences, evidence
      StoreAdmissionProofs      theorems: keys, metering, withdrawal
        StoreEvidenceProofs     theorems: events, outcomes, queue bound
  PhoneJournal           the phone's durable journal and the radio
  Gateway                DeliveryStore + PhoneJournal + service + socket tasks
    MCGateway            instances for TLC, fairness
      MCSends            the sends of one phone under five disturbances
    GatewayProofs        theorems: phone, link and hub (on StoreEvidenceProofs)

FailoverQuorum           votes, consensus, the controller
  ObservationStore       the store of reports and the checks served from it
    MCObservations       instance for TLC
    ObservationProofs    theorems
  FailoverExecutor       replicas, writer database, external authority
    MCExecutor           instance for TLC
    ExecutorProofs       theorems

WebhookOutbox            outbox rows, lanes, owners, retention
  MCWebhook              instance for TLC
  WebhookProofs          theorems
```

Operators marked *Variant* in the modules are faulty forms of the definition
that follows them. Nothing uses them; `PROJECT.json` puts each in the place of
the right one to show that a property notices.

### DeliveryStore

Each action is one committed transaction. A transaction that is rolled back
leaves nothing and is a stutter; when it matters which error a caller gets,
`AcceptResult` and `RadioResult` compute it in the order the code decides.
Deadlines are flags that an action of the environment flips (`MessageExpires`,
`ClaimLapses`, `GrantExpires`, `KeyExpires`, `MonthEnds`): every relation between
`now()` and a timestamp that the code tests appears as "already passed" or "not
yet", and time may pass at any point.

* `Accept` is `accept_inner` with database metering: suppression, key, expiry,
  key conflict, queue limits, existing message, quota, then the inserts.
* `Cancel`, `Suppress`, `ExpireDue` and `GrantSuppressed` share `EndPreGrant`:
  the message ends, its job closes, its unit goes back to the month it came from.
* `Authenticated` stands for the challenge handshake by its outcome: what a refused
  handshake leaves behind (nothing) is a stuttering step.
* `ConnectSession`, `EndLease`, `ClaimDue`, `IssueGrant` carry the connection
  epoch as the name of the worker: a job's `lease_owner` and a fence's epoch are
  the fencing tokens the code compares. `Hub` calls them with any epoch and
  generation a worker may still hold, stale ones included.
* `RecordRadioEvent` is `record_radio_event`: replay by event id, fence, what
  recorded evidence rules out, segment counting, the transition table, then the
  unique indexes (`IndexRefuses`), then the writes to the four rows.
* `ReconcileSilentAttempt` and `ReconcileDeliveryTimeout` are the sweeps, one row
  of a batch at a time. The sweep's waiting time is left out: it may act on a
  silent attempt at any moment, which covers every real timing.
* `PruneKey`, `RedactMessage`, `PruneEvent` are retention. Its three periods are
  left out in the same way.
* `ChangeAuthority` stands for operators and for what the failover executor
  writes. `Revoke` is `revoke_device`: the device is refused from then on and loses its
  lease in the same transaction, with its claims and grants left as they are.

### PhoneJournal and Gateway

`PhoneJournal` has no next-state relation of its own: its operators are the Room
transactions, and `Gateway` says which thread runs them when. Event ids are
pairs of attempt and kind, because the journal writes each kind once for an
attempt. `radio` counts the calls really made, which no code reads; the
properties compare it with what phone and hub believe.

On the hub, `ServerReceive` is the pre-check of a radio event, `ServerRecord` the
transaction, and `ServerAnswer` the acknowledgement with the grant read again in
between. `ServerRecord` may commit and still report failure. `ServerClaim`,
`ServerGrant`, `ServerConfirm` are one dispatch tick cut at each transaction;
`ServerGiveUp`, `ServerRefuse`, `ServerRelease`, `ServerDies` are the ends of the
loop. On the phone, `PhoneGrant`, `PhoneAck`, `PhoneClose` take a frame off the
connection, `ReserveGrant`, `Pump`, `Quarantine`, `SendRefused`, `SendConsumes`,
`SendFinishes` are tasks of the journal thread, `GrantLapses`, `Stall` its timers,
`Callback` the platform, `Approve` and `ApprovalLapses` the owner, `Start`,
`Reconnect`, `Disconnect`, `Crash` the process and the network. A crash keeps the
journal and loses the rest; `Start` runs the recovery of the journal before the
first connection. `SendFinishes` covers all that can throw behind the one-use gate: the
call may or may not have reached the radio, a refusal may fail to be recorded, and so
may the `unknown` that is written instead, which leaves the attempt to the stall timer
or to the next start.

Left out of these two modules: failures of the journal's I/O elsewhere (in front of the
gate they are refusals without a proof; in a callback, an acknowledgement or the pump
the transaction is not made) and the five seconds the socket thread waits for a
quarantine; pruning of settled rows after
seven days; attempts of several segments on the phone (the alpha pilot reserves
one; the hub's side of several segments is in `DeliveryStore`); heartbeat frames
and policy closes; rows of a foreign identity; the other drivers that use the
same journal; renewed approvals for one failure, which are not told apart; the
window in which `observed_at_ms` must lie. Spending an approval and reserving the
attempt, two transactions of one task, are one action with an alternative in which
the connection is lost between them.

Left out of `DeliveryStore`: line labels, the invoice budget of the alpha meter,
and the message content itself.

### FailoverQuorum, ObservationStore and FailoverExecutor

`FailoverQuorum` has no variables: `Observe` is what one controller makes of one
round (votes of fresh reports, a majority, the vetoes, the phases), and
`RestoreController` what a restarted one starts from. Evidence that the code keeps
as `Option<bool>` counts only as `Some(true)` and is a set of facts here.

`ObservationStore` has the two files of each member beside the journal in memory.
An append, the rewrite of a journal and the write of its checkpoint are steps of
their own; each can fail, which poisons the store, and the process can die between
them or leave a torn record. `OpenJournal` and `OpenRefused` are the checks of
`open_journal`. `Collect` is a check: what is fresh and not yet served, fed to the
controller. `log` and `counted` are history: all durable reports, and the evidence
of each check of the present streak. Report signatures, the pull transport and the
hash chain of a journal are left out: files are changed by the store alone.

`FailoverExecutor` cuts a tick at each call. `pc` names the next call, `todo` the
actions still to be attempted, `pending` those to be retried. `Answered` and `Failed`
are the database port with its singleton guard: a call needs the session that holds
the lock, a lock taken again fails the call that paid for it and latches
`reacquired`, and a lost answer leaves the call without effect, with effect, or in
the hands of an abandoned session that may still commit it (`LateCall`). The
external authority can fail to answer with or without effect. Operators move the
epoch by hand, change the site row, resume dispatch; a backup of the database can
be restored, which sets it back behind the anchor. A restart (`Crash`) ends with the hold
of dispatch that precedes everything else at startup (`hold_before_external_start`); a
start whose hold fails is aborted, and the replica is dead until one succeeds. Nothing
in the code bounds how many actions are parked: a fence can be decided, parked, given
up and decided again, so `pending` grows with the rounds, and `MaxPending` is a bound of
the model. What is bounded is the promotions in it: `OnePromotionOpen`, a part of
`ExecutorTypeOK`. Left out: the
waiting time after a refused lock, which only delays a tick; a missing standby row; signatures and
replay fences of the adapter; the configuration without an external authority, in
which no promotion passes the host fence. `reconcile_complete` is an action although
the server's loop does not call it; the crate offers it to tooling.

### WebhookOutbox

One action per transaction; the endpoint's or the delivery's row lock is held to its
end. Time is two flags and an order: a lease is live or over, a failure streak is
younger or older than 72 hours, and `due` holds the pending deliveries of an endpoint
in the order their `next_attempt_at` passed. `turn` is the order of the two claim
cursors. A claim takes the endpoint whose turn it is, unless a lock hides it
(`SKIP LOCKED`), which may happen `MaxPassed` times. `Dispatch` loads and posts with
the secret as stored at that moment; `Return` is the receiver's answer, which may be
lost, and the begin of the recording transaction, whose `now()` is taken before it
waits for the rows; `Finish` and `Defer` are its rest. `Abandon` is the death of a lane
or a database error. `post` is a ghost: how many requests really left, whether the
receiver acknowledged one, and the secret of the time the delivery was queued.

Timeouts, HTTP errors and network errors are one failure, since nothing tells them
apart. `Prune` may remove a settled row at any time, where the code also asks for its
age and, for some, the state of its message: it prunes more than the code. Left out:
creation and the limit of endpoints, account erasure, the egress filter, the table of
replay request ids (a repeated id changes nothing), the sealed lane, which uses the
same tables with a body of its own.

### Authority and StoreRefinement

`domain::Authority` is the repository's own statement of what the writer
promises, and its header says that the PostgreSQL transactions must enforce the
same invariants. `StoreRefinement` maps the tables to its fields: a claim without
a grant is a lease on a queued message, so the abstract message is still queued;
grants are the fences; the abstract writer is always available, since a store
that is down commits nothing. The evidence of several calls made by one
transaction (STOP cancels every pending message of a recipient) is one abstract
step on a set of messages. The Authority has no expiry of keys and no retention,
so the refinement covers the time in which keys last. Its relation has acceptance, the
hub, the sweeps, withdrawals, failovers and revocations; besides key expiry and retention
it leaves out the lapse of a claim, the lifting of a suppression and the turn of a month,
which touch no mapped field and would double the states.

## 3. Runs

States are distinct states; times are for two workers.

| Run | What moves | States | Shows |
|---|---|---|---|
| `store_whole` | all of `StoreNext`, 1 message of up to 2 segments, 2 attempts, 2 sessions, 2 deployments | 807k, 95 s | the four rows agree; an attempt is replaced only after its proof; no order of segment callbacks settles a message early or on mixed evidence; no grant after a withdrawal |
| `store_admission` | tenants, expiry, keys, 3 messages, 2 keys, 2 months | 227k, 30 s | meter and ledger agree; exactly the unsent are refunded; keys keep their message |
| `store_refinement` | acceptance, hub, sweeps, withdrawals, failover, revocation, 2 messages on 1 device, queue limit 1 | 190k, 115 s | the store implements `Authority`; one open attempt per device; a conflict is final; a requeue exceeds the limit by a requeued message only |
| `gateway_sends` | phone and hub, 2 messages, 2 attempts, 2 connections, one of five disturbances | 568k, 100 s | one radio call per attempt, after its intent; true proofs; agreement once all is acknowledged; no sent message called unsent; no frame stops the phone; a second test only after the first failure is at the hub |
| `gateway_live` | `LiveNext` with `Progress`, 2 connections | 116k, 55 s | a connection that lasts empties the outbox |
| `failover_executor` | 2 replicas, 1 operator's deed, 1 fault, a restored backup | 1.7M, 85 s | an epoch is raised only along its protocol; the journal only moves forward; no stale cache is used; at most one promotion is open; no false terminal hold |
| `failover_store` | 3 members (one late, one silent), 6 reports, 1 fault | 1.3M, 35 s | streaks count new reports of a majority; nothing fresh is lost |
| `webhook` | one delivery's whole history, or two endpoints in turn, or two lanes | 521k, 160 s | every send has its row; success is true; retired is final; the original secret; healthy endpoints are served |

Four more runs are expected to fail; section 5 explains them.

`StoreNext`, `GatewayNext`, `ExecutorNext`, `ObservationNext` and `WebhookNext` are the whole
systems. `store_whole`, `failover_executor` and `failover_store` explore all of their
relation. The other runs take the disjuncts their question is about and leave out
callers it does not involve; every action is kept whole, and each relation is a
sub-relation of the full one. The full composition of phone and hub with two
messages, two connections and every caller is beyond what TLC finishes in minutes,
and the proofs of section 4 cover the store without any such restriction.

`MCSends` and `MCWebhook` let a behaviour pick one of several parts at its start, so
that disturbances which multiply without interacting are explored side by side under
one set of constants. In `MCSends` these are `losses` (lost connections, restarts of
either side, expiring grants, rejections; one frame under way), `expiry` (grant, claim
and session run out on one connection with two frames under way), `callbacks` (every
order of platform reports, with crashes and sweeps), `retry` (a second message after an
approved failure) and `withdrawal` (cancel, STOP, expiry, sweeps, retention, operator).
In `MCWebhook` they are `history` (all of `WebhookNext` on one delivery), `turns` (one
lane, two endpoints, one with a secret that may fail for ever) and `lanes` (two lanes,
one endpoint).

The composition does not give one message out twice: the pilot arms a phone for one
test, and a further one needs the recorded failure of the last, which a proof of no
submission is not. Replaced attempts are covered on the hub's side, in `store_whole`
and in the proofs.

Bounds. Two attempts are needed for "the attempt that was replaced", two
messages for "the other message of the device", two sessions or deployments for
a stale epoch, two months for a refund after the turn, two segments for a partial
result, two messages at a limit of one for a queue that fills while an attempt is out.
With two messages the first half of `QueueBounded`, that waiting and open messages exceed
the limit by one at most, cannot fail; it is a theorem for every number of messages, and
`EvidenceSpec` with three messages at a limit of one (460k states, 100 s) agrees.
`EventIds` bounds how many radio events the hub records, enough for an intent, an
outcome and a contradiction, or an intent and two segments. `CloseLimit` is 3 in the
code and 2 here: what matters is a count below and at the limit. `MaxFlight` lets a
second frame follow the first before that is read. Every bound is a guard on one
action of the environment and is named where it is declared.

Failover: one member and thresholds of one in `failover_executor`, where the calls and
not the votes are in question (votes and streaks are `failover_store`'s, with three
members and streaks of two); two replicas for a lock that changes hands; one fault,
since each of session death, lost answer, crash and refused connection already opens
the window, and `LateCall` and a second replica act in it for nothing; epochs up to 3
for a promotion after a move by hand. `Freshness` 1, reports that come a tick late and a clock from 2
to 3 let a report age out behind a fresher one and be compacted away; three reports of
each of two members reach a fence by a streak of two and the promotion after it. Webhooks: `MaxAttempts` 2 (7 in the code)
and `MaxGenerations` 2 (3) have a first, a last and a replayed attempt; `MaxSecrets` 2 a
rotation; `MaxPassed` 1 a claim out of turn; `MaxQueued` 2 a competing delivery.

Symmetry is used in safety runs only. Messages, attempts, event ids, keys and
devices are random identifiers in the code and only ever compared, so states that
differ by a renaming have the same behaviours; the replicas of the executor are alike.
In `gateway_sends` and `webhook` fresh ids are taken in one fixed order instead, which
has the same justification.

Deadlock is checked in `failover_executor` and `failover_store`, whose loops never end. It
is off in the other runs: a bounded run ends when its ids, epochs and
months are used up, and the real system may rest with every message settled.

Fairness is assumed in three places.

* `Progress` in `MCGateway`, for `gateway_live`: the journal executor and the socket
  thread run what is queued on them; the hub's task finishes a frame or a tick it has
  begun and reads what the phone sends; a phone whose peer is gone notices it by the
  missing heartbeat and disconnects. Each is weak fairness of a step that stays enabled
  until taken: single-threaded executors and an async task on a runtime, with a
  heartbeat deadline on the phone. Not fair are the network, the platform's reports,
  crashes, the owner, sweeps and the start of a dispatch tick. The property asks for
  nothing unless a connection lasts.
* `WebhookFairness` in `WebhookOutbox`, for `webhook`: one lane keeps running its loop (a
  task that sleeps and polls for as long as the server runs), expired leases are recovered at its ticks, and
  retry times and lease deadlines pass. Other lanes may stop for ever; any lane may die
  with its lease, and answers may stay away, as often as they like, since the attempts
  of a generation are bounded.
* `ExecutorFairness` in `FailoverExecutor`, for `failover_terminal`: each replica's loop
  ticks for ever and an abandoned session ends. The violation shows a replica that ticks
  and holds nothing.

## 4. Proofs

Every theorem holds for every set of messages, attempts, devices, keys, recipients,
event ids, endpoints, lanes, replicas and quorum members and for every bound, from the named assumptions of the
modules alone: `StoreAssumption` (the bounds are natural numbers, `Messages` is finite,
the markers of absent rows are not ids), `GatewayAssumption` (the phone is a device, its
events have ids, the reports are what the platform can report, `Attempts` is finite and
does not hold the marker `"first"` of a test without a predecessor; attempt ids are
UUIDs), `WebhookAssumption`,
`QuorumAssumption` and `ExecutorAssumption` (the holders `Nobody` and `Abandoned` are no
replicas). TLC evaluates them in every run. The cardinality theorems of the store need no
finite `Attempts` or `Devices`; finite `Attempts` are needed for the recovery of the
phone only, which lists the events of all orphaned attempts in one transaction.

### The store: rows and fences (`DeliveryStoreProofs`)

* `StoreInvariant`: `StoreSpec => []StoreInv`;
* `TypeCorrect`, `RowsAlwaysAgree`, `NoUnprovedReplacement`, `DeviceHasOneActive`,
  `ConflictStays`: the properties `StoreTypeOK`, `RowsAgree`,
  `ReplacedOnlyAfterProof`, `OneActivePerDevice`, `ConflictIsFinal` of the runs.

None of these is inductive alone. A sweep writes the attempt its fence names, so
the type of `attempt` needs `RowsAgree`; that no other message's attempt is written
needs it too. Recording evidence keeps `RowsAgree` only if the attempt holds the
fence, and keeps `ReplacedOnlyAfterProof` only because an attempt without its fence
is refused. `ConflictIsFinal` needs that a conflicted attempt is never proved
unsent (what `Contradicted` refuses) and that a message in `unknown` is never
redacted, or its conflict event could be pruned and forgotten. `EventsNamed` is
needed at a grant: a fresh attempt has no events, so it is neither conflicted nor
contradicted. `ActiveAlone` is `OneActivePerDevice` without the cardinality.

    StoreInv == StoreTypeOK /\ Requested /\ RowsAgree /\ ReplacedOnlyAfterProof
                            /\ ActiveAlone /\ EventsNamed /\ ConflictIsFinal

The argument has four layers: lemmas on the operators (`ApplyRange`,
`StatusOfRange`, `RadioNextRange`, `EndPreGrantType`, `RecordedShape`); frame lemmas for
steps that leave the four rows or the events alone (`RecordedFrame`, `RowsFrame`,
`QuietSteps`); one lemma for each action or group that writes them
(`AcceptCreateStep`, `EndPreGrantStep`, `ClaimDueStep`, `IssueGrantStep`,
`EvidenceStep`, `ProofStep`, `SweepStep`, `GrantExpiresStep`, `PruneEventStep`); and
`NextInv`, which splits `StoreNext` into them.

### The store: admission (`StoreAdmissionProofs`)

`WithdrawalObeyed` and `BindingsHold` are the action properties `NoGrantAfterWithdrawal`
and `BindingsStable`; `KeysNameTheirMessage`, `RefundsMatchEnds` and `MeterIsBalanced` are
`KeyNamesItsMessage`, `RefundIffUnsent` and `MeterBalanced`. They concern a few columns
each, so `StepKinds` first sorts the steps by what they do to those columns (created,
rebound, ended before a grant, moved on, key ended, passive). The refund theorem needs
`Billed`: a message has its ledger entry exactly from its acceptance on. That the
counters equal the ledger is shown by counting the entries of a month: one more for an
acceptance, and exactly the ended ones for a group of refunds.

### The store: evidence (`StoreEvidenceProofs`)

`OutcomesAreEvident` is `OutcomeHasEvidence`, `QueueKeepsBound` is `QueueBounded`. Both
rest on `EventsInOrder`, whose invariant says whose events are counted: an event belongs
to the message its attempt was granted for (`EventsLinked`), and the callbacks of an
attempt agree on the number of segments and are for different ones (`SegmentsApart`).
Without the first, retention of one message could remove the evidence of another;
without the second, as many callbacks as segments need not cover the segments. A lemma
turns the count of the code into coverage: `n` callbacks for different segments of
`1..n` are for all of them.

An earlier form of `QueueBounded` bounded the waiting messages together with every open
attempt of the device. TLC did not refute it at the bounds of its run, the proof did: a
conflict opens a settled attempt again while the queue is at its limit and another
message has just been requeued, which takes three messages and a limit of one. Such an
attempt is never requeued, so it takes no place in the queue; the property now counts
only the attempts that may still be proved unsent.

### The store implements the Authority (`StoreRefinementProofs`)

`StoreImplementsAuthority` is `ImplementsAuthority` for any number of messages and devices,
under the callers of `RefinementSpec` (section 2: above all no retention and no key expiry,
which the domain type does not have). Revoking a device is the end of its lease, if it has
one. `RefinementInv` adds `KeysLast` to `StoreInv`: every accepted
message has a live key that names it, so acceptance never replays under a second key,
which the Authority could not answer. Each transaction is one lemma that names the call
of the Authority it is, or shows that none of the mapped fields changes.

### Phone, link and hub (`GatewayProofs`)

`NoSecondCall`, `ProofsAreTrue`, `IntentBeforeRadio`, `HubTellsTheTruth`,
`GatewayWellFormed` and `JournalNeverReturns` are `AtMostOnceRadio`, `ProofMeansNoRadio`,
`RadioAfterIntent`, `HubMatchesRadio`, `GatewayTypeOK` and `JournalOneWay`, for `GatewaySpec`
with all its disturbances at once, which is more than the five parts the run explores
one at a time. `GatewayRunsStore` shows that a hub with a phone is a behaviour of
`StoreSpec`, so the theorems of the store hold for it.

    GatewayInv == StoreInv /\ PhoneInv /\ LinkInv /\ HubSound

* `PhoneInv` ties for each attempt the journal row, its events, the calls and the sender:
  an attempt that is absent, reserved or not submitted was not called; the sender's
  attempt was not called, its intent is acknowledged and its row is at the gate; a proof
  stands only beside `not_submitted`; callback evidence only beside a call.
* `LinkInv` says that what is under way is true: events in flight were written, tasks and
  frames name the hub's attempt of their message, and what the hub acknowledges it has
  recorded. A written event may have been retracted meanwhile, so `Written` speaks of the
  row and the radio, not of the outbox.
* `HubSound` says what the hub's own rows mean: a proof means `not_submitted` on the phone,
  a settled message was called, and an attempt past its reservation has its intent
  recorded, or forgotten with the content of its message.

`AtMostOnceRadio` across attempts takes all of it: a called attempt is not
`not_submitted`, so the hub has no proof of it, so (`ReplacedOnlyAfterProof`) it still
holds the fence of its message, and a message has one fence.

The step is proved in an order that breaks the circle between phone and hub. `GatewayKept`
shows what any step keeps of the journal (`Lasts`: rows stay, refusals stay, calls and
acknowledgements stay) and that an attempt becomes callable only on a known intent.
`StoreSide` shows that the step is a step of `StoreNext` and that every new event was
written by the phone. From both, `StaysStable`: what was written and known stays so. Then
`HubSoundStep` and one lemma for each task of the hub and each step of the service
(`ServerLink`, `PhoneLink`, `LinkStepLink`) preserve the rest.

Four more properties of the run are proved on top of `GatewayInv`, each with an
invariant of its own: `JournalWellFormed`, `TestsAreSettled`, `FramesAreExpected` and
`AckedAgree` are `JournalTypeOK`, `OneUnresolvedCall`, `FramesExpected` and `AckedAgrees`.

* `JournalInv` adds the log and `RowSound`. `LogInv` says that the log lists the events of
  the outbox, each once; `Logs` says all that a step does to it: it appends events that are
  new (`LogExtends`). `recordConflict` may also take a proof back, but the proof shows that
  this branch never finds one: the platform reports only on attempts that were called,
  and such an attempt has no proof. The log is read through `ToSet` and `IsInjective` and never computed, so no induction
  over sequences is needed; for the recovery, which appends a set of events in some
  order, it suffices that `SetToSeq` of a finite set lists it.
* `TestsInv` is why a second test waits for the failure of the first: at most one attempt
  is open or called without an approval spent on it, and an approval was spent only on a
  failure that is acknowledged. `AckedInv` turns the acknowledgement into a record at the
  hub. Its exception is the intent, which the phone also settles by itself when it
  retires a reservation.
* `AwaitInv`, `ExpectInv`, `ReachInv` and `GrantsInv` speak of the frames on the current
  connection. Everything the phone sent on it, the task reads or the hub answers is the
  event it awaits or one it has settled since, which is what `FramesExpected` needs of an
  acknowledgement; the pump keeps this because it sends nothing while it awaits. A grant
  is under way only to an armed phone, at most one at a time, for an attempt without a row:
  a task gives up its arming with the frame it sends, and a fresh attempt is named nowhere
  (`FreshUnnamed`).
* `StandsInv` and `EmittedInv` carry `AckedAgrees`. `Stands(a, evidence)` says what the hub
  holds once it has recorded an event, weakened by what may follow: the state it led to or
  a later one, a conflict, or the retention of the content. `StandsWhenRecorded` shows it
  at the commit and `StandsStays` through every later step of any caller of the store;
  `StandsInv` follows the event from the record through the answer to the acknowledgement.
  `EmittedInv` is the converse (what the hub heard was written to the outbox), without
  which the hub could be ahead of the phone, `delivered` beside a submitted row.

`HubMoves` and `ServiceMoves` sort the steps once by what they do to task, frames and
service, so the invariants of the link are shown by a handful of cases.

For the proofs `RecordConflict` updates the one event it retracts with `EXCEPT` and `Remove`
where it filtered by a set of at most one event; the run checks the same behaviour as
before.

### Failover executors (`ExecutorProofs`)

`ExecutorTypes`, `CurrentCache`, `FollowingAnchor`, `OnlyTrueTerminals`, `OneOpenPromotion`,
`EpochRaisedInOrder` and `JournalMovesForward` are `ExecutorTypeOK`, `CacheIsCurrent`,
`AnchorFollows`, `NoFalseTerminal`, the part `OnePromotionOpen` of the first, `EpochRaised` and `JournalForward` of `ExecutorSpec`, for any number of replicas, faults and
interventions; the run has two replicas and one of each.

    ExecutorInv == Types /\ Rows /\ \A e \in Executors : Sound(e)
    Sound(e)    == Shape(ex[e]) /\ Session(e) /\ Outward(ex[e], db, Around)
                   /\ (Live(e) => Knows(ex[e], db, Around))

* `Shape` is about the record alone: `pc`, `todo` and `pending` fit, and at most one
  promotion is open, the one the controller has decided.
* `Outward` is what a tick relies on whether its session lives or not: the anchor it read
  is not ahead of the anchor, past the host fence the host is fenced for its epoch, past
  the compare-and-set its epoch is served, and a terminal status has its reason.
* `Knows` is what only a live session can say: its durable copy is the row, its base and
  its controller's memory are not ahead of the epoch, an open promotion is at most one
  ahead of what the controller remembers and not behind what the journal intends, and the
  journal it is about to save is forward of the row and covered by the epoch.
* `Rows` says the same of what nobody holds: the row, the backup and the call an
  abandoned session still carries out (`CallSound`).

None of the properties is inductive alone. `EpochRaised` needs at the compare-and-set
that the intent is in the row now, not when it was saved, which is `Knows`; and `Knows`
survives because every way a call can fail ends the claim to be live, so that no step has
to know what became of its effect: the next session starts from the row (`FailedStep`).
A call that comes late is sound because it was sound when it was made and nobody writes
while its session holds the lock (`CallLasts` for the operators, who move the epoch and
leave the journal). `JournalForward` rests on the ranks of what is saved, with
`KnowsGrant` for the step from one intent to a later one; `AnchorFollows` on the witness
being taken only for an epoch that the database has granted; `NoFalseTerminal` on the
relation of base, controller and journal as long as no operator has moved the epoch.

There is one lemma for each action, over three for the ways a step can go
(`AnsweredStep`, `FailedStep`, `LocalStep`); `OtherSound` carries the other replicas through all of
them. `ExecutorWrites` collects that every write of an executor is a sound call, from
which the two action properties follow.

For the proofs the choices of `Proceed`, `Checked` and `Observe` that were
written as `CASE` with guards that can hold together became `IF` chains, or got guards that
exclude each other: TLA+ leaves open which of two true guards is taken. TLC takes the
first, so the runs check the same behaviour as before.

### Observation store (`ObservationProofs`)

`FreshReportsKept` and `StreaksAreNew` are `NothingFreshDropped` and `StreakOfNewReports`, for
every quorum, every pattern of late reports and any number of faults.

    ObservationInv == Types /\ Files /\ Memory /\ Counting /\ Streak

`Files` and `Memory` say what a journal is, on disk always and in memory while it is in use
(the store is open, or opening with that journal loaded): the end of its member's history,
cut at a place before which every report is too old to be fresh again (`Whole`). A compaction
keeps this (`Compacted`), because `Aged` counts leading records only and compares them with a
report that is itself of the past; a crash between its two writes leaves a file that is whole
by the same lemma. `NothingFreshDropped` follows, but is not inductive: a failed append makes
memory fall behind the file, which is harmless only because nothing uses that memory again.

`Counting` ties the length of `counted` to the controller's own count. `Streak` adds to the
property that what was counted is durable and was served (`Known`): new evidence lies beyond
what was served, so it is disjoint from the old. `ObserveRound` is what one round of
`FailoverController::observe` may do to a count, over any reports; `HandedVotes` turns a
majority of votes into a majority of contributors, and a failure vote into the absence of any
report that saw the writer. Two assumptions about the environment come from the
code: a member reports no epoch that the column cannot hold (it abstains), and the executor's
journal holds one of the four phases.

The attempt to prove `Counting` corrected the history variable `counted`: it kept the streak of
a fence through the promotion that followed, which the bounds of the run did not reach. The
run now has the reports for it.

### Webhooks (`WebhookProofs`)

`WebhookWellFormed`, `EveryAttemptHasItsRow`, `EverySendIsRecorded`, `SuccessWasSeen`,
`LanesTakeTurns`, `OriginalSecretSigns` and `EndsAreFinal` are `WebhookTypeOK`,
`AttemptsAccounted`, `SendsRecorded`, `SuccessIsTrue`, `OneLaneEach`, `SignedWithOriginal` and
`EndedForGood`.

    WebhookInv == RowsInv /\ SideInv /\ SecretsInv /\ AcksInv /\ ChargedInv

`Consistent(row, rows)` says what the delivery row and its attempt rows tell about each
other: numbers without gaps, one open row exactly under a lease, failures before a retry. That every transaction keeps it is a fact
about the rows it writes, whoever else runs. `SecretsInv` is why the secret is the
original one: what may still be sent was queued under the endpoint's present secret,
because a rotation retires the rest. `ChargedInv` is why no request escapes the record: a
lane that has sent nothing for the attempt it holds leaves a row to spare, which is the
one a key failure takes back.

For the proofs the claim is written with the least index of `turn` whose endpoint is
ready, and a lease is given back by one operator (`GivenBack`) wherever the code gives one
back; the runs check the same behaviour as before.

### Only model-checked

* Liveness: `HealthySettles`, `EvidenceSettles` and `TerminalHolds`. The proof system has no
  reasoning about `ENABLED`, so fairness stays with TLC.
Every invariant, every action property and the refinement that the passing runs check is
a theorem. What the four runs of section 5 state is false of the code.

## 5. Findings

1. `store_conflict` (`ConflictAccepted`). The documents say that a conflicting
   callback moves a message to `unknown` in any active state and keeps the device
   fenced even after `submitted` or `delivered`. The partial unique index of active
   fences allows one per device. When the next message of the device is already
   open, re-activating the old fence violates the index: the transaction fails, the
   hub closes with 1013, and the phone repeats the event. The hub keeps saying
   `submitted` until the other message settles or the phone's close limit
   quarantines the report.
2. `gateway_rejection` (`RejectionKeepsRunning`). The documents say the phone
   quarantines the rejected row and reconnects. If the grant deadline makes the
   pump settle the rejected intent before the quarantine task runs, the quarantine
   updates no row, which the code counts as a failed quarantine, and the service
   stops.
3. `failover_checkpoint` (`CrashLeavesLoadable`). The comment on the compaction and the
   documents say that a crash between its two writes leaves a state that loads. At the
   first compaction of a member there is no checkpoint yet: the crash leaves a journal
   that starts above sequence 1 without one, which `open_journal` refuses as
   `CheckpointMissing`. No record is lost, but no store opens until someone repairs the
   file.
4. `failover_terminal` (`TerminalHolds`). The protocol says that an anchor ahead of the
   writer's snapshot latches a terminal hold. A terminal tick calls `hold_dispatch` and
   returns before it asks `exclusivity_reacquired`. After one lost connection the next
   call takes the lock again and latches the guard; every later hold fails on the latch,
   while the session keeps the lock from the other replicas. Dispatch that an operator
   resumes by mistake is then never held again.

A variant of the second: when the pump has not only settled the rejected intent but
already sent its proof of no submission, the close frame, which names no event, makes
the phone quarantine the valid proof, and the hub never learns that the device is free.

Quotations and lines are in `PROJECT.json`. In the first two the safety properties
hold: nothing is sent twice and no message is called unsent that was sent. The third
refuses service and decides nothing wrongly. The fourth needs a restored database, a
lost connection and an operator who resumes dispatch.

## 6. Plan

Done: all modules of section 2, the runs of section 3, the proofs of section 4.

Models that could follow: `InboundReplies` (order of signed STOP and START events,
replays and late ones, composed with `Suppress` and `Resume`), the journal of several
segments and the pruning of settled rows on the phone, the renewal of test approvals,
schedules and workflows as callers of acceptance.
