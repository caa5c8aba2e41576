--------------------------- MODULE DeliveryStore ---------------------------
(***************************************************************************)
(* The durable delivery queue of one account:                              *)
(* crates/delivery-store/src/lib.rs over the tables of                     *)
(* deploy/compose/migrations/001_foundation.sql and 003_delivery.sql.      *)
(*                                                                         *)
(* Every action is one committed PostgreSQL transaction; a transaction     *)
(* that rolls back leaves no trace and is a stutter.  Wall-clock deadlines *)
(* are flags that an environment action flips once: an expiry that has     *)
(* passed, a lease that has lapsed, a month that has ended.                *)
(*                                                                         *)
(* Definitions marked "Variant" are faulty forms of the one after them;    *)
(* nothing uses them.  Each must make TLC find a property violated.        *)
(***************************************************************************)
EXTENDS MessageStates, Integers, FiniteSets

CONSTANTS
  Devices, Recipients, Keys, EventIds,
  SweepId,            \* the ids the sweeps draw for their own event rows
  MaxSegments,        \* segment_count is 1..MaxSegments (6 in the code)
  PerDevicePending,   \* MAX_PENDING_PER_DEVICE
  PerAccountPending,  \* MAX_PENDING_PER_ACCOUNT
  QuotaLimit,         \* usage_quota_policies.limit_units
  Months,             \* bound: billing months
  MaxGeneration,      \* bound: claims of one job
  MaxEpoch,           \* bound: sessions of one device
  MaxDeployment,      \* bound: deployment epochs
  KeysExpire          \* whether the run outlasts the idempotency window

ASSUME StoreAssumption ==
  /\ MaxSegments \in Nat \ {0}
  /\ PerDevicePending \in Nat /\ PerAccountPending \in Nat /\ QuotaLimit \in Nat
  /\ Months \in Nat \ {0} /\ MaxGeneration \in Nat
  /\ MaxEpoch \in Nat /\ MaxDeployment \in Nat \ {0}
  /\ KeysExpire \in BOOLEAN /\ IsFiniteSet(Messages)
  /\ "absent" \notin Messages /\ "none" \notin Attempts /\ SweepId \notin EventIds

VARIABLES
  state,       \* messages.state by message id, "absent" before acceptance
  request,     \* the device and recipient the request digest of a message covers
  expired,     \* messages whose expires_at has passed
  redacted,    \* messages whose content retention has removed
  job,         \* dispatch_jobs by message id
  attempt,     \* message_attempts by attempt id
  fence,       \* dispatch_fences by message id
  events,      \* message_events
  session,     \* device_sessions by device id
  authority,   \* deployment_authority, and whether site and account are open
  revoked,     \* revoked devices
  suppressed,  \* recipients under a suppression or an owner hold
  idem,        \* idempotency_keys by key
  usage,       \* usage_periods by month
  ledger,      \* usage_ledger by message id: the month reserved and the refund
  month        \* the current UTC month

queueVars   == <<state, request, expired, redacted, job>>
attemptVars == <<attempt, fence, events>>
controlVars == <<session, authority, revoked, suppressed>>
meterVars   == <<idem, usage, ledger, month>>
storeVars   == <<queueVars, attemptVars, controlVars, meterVars>>

Request == [device: Devices, recipient: Recipients]

\* Rows that do not exist.
NoRequest == [device |-> "none", recipient |-> "none"]
NoFence   == [attempt |-> "none", epoch |-> 0, deployment |-> 0,
              outcome |-> "none", live |-> FALSE]
NoAttempt == [message |-> "absent", status |-> "none"]
NoKey     == [message |-> "absent", request |-> NoRequest, live |-> FALSE]
NoEntry   == [month |-> 0, refunded |-> FALSE]
NewJob    == [generation |-> 0, owner |-> 0, live |-> FALSE,
              granted |-> FALSE, finished |-> FALSE]

\* The outcomes the partial unique index dispatch_fences_active_device covers.
ActiveOutcome == {"granted", "submitting", "unknown"}
Outcome       == ActiveOutcome \union {"submitted", "failed"}
AttemptStatus == Outcome \union {"proved_no_submit"}

\* A radio event that passes the shape checks of record_radio_event: exactly
\* the sent callbacks carry a segment index (from 1 here) and count, and
\* observed_at_ms lies in the accepted window.
RadioEvent ==
  { e \in [id: EventIds, device: Devices, message: Messages, attempt: Attempts,
           evidence: RadioEvidence, segment: 0..MaxSegments, count: 0..MaxSegments] :
      IF e.evidence \in SentCallback THEN 1 <= e.segment /\ e.segment <= e.count
                                     ELSE e.segment = 0 /\ e.count = 0 }

StoreInit ==
  /\ state = [m \in Messages |-> "absent"]
  /\ request = [m \in Messages |-> NoRequest]
  /\ expired = {} /\ redacted = {}
  /\ job = [m \in Messages |-> NewJob]
  /\ attempt = [a \in Attempts |-> NoAttempt]
  /\ fence = [m \in Messages |-> NoFence]
  /\ events = {}
  /\ session = [d \in Devices |-> [epoch |-> 0, deployment |-> 0, live |-> FALSE]]
  /\ authority = [epoch |-> 1, dispatch |-> TRUE, open |-> TRUE]
  /\ revoked = {} /\ suppressed = {}
  /\ idem = [k \in Keys |-> NoKey]
  /\ usage = [p \in 1..Months |-> [reserved |-> 0, refunded |-> 0]]
  /\ ledger = [m \in Messages |-> NoEntry]
  /\ month = 1

-----------------------------------------------------------------------------
(***************************************************************************)
(* Admission: accept_inner with database metering.                         *)
(***************************************************************************)

\* Messages the queue bounds count.
Pending == { m \in Messages : state[m] \in {"queued", "claimed"} /\ m \notin expired }

\* Variant: the bound is checked off by one.
QueueFullLate(d) ==
  \/ Cardinality({ m \in Pending : request[m].device = d }) > PerDevicePending
  \/ Cardinality(Pending) > PerAccountPending

QueueFull(d) ==
  \/ Cardinality({ m \in Pending : request[m].device = d }) >= PerDevicePending
  \/ Cardinality(Pending) >= PerAccountPending

\* Variant: the limit is checked off by one.
QuotaLeftLate == usage[month].reserved - usage[month].refunded <= QuotaLimit

\* reserve_outbound: one unit of the current month, under the period's limit.
QuotaLeft == usage[month].reserved - usage[month].refunded < QuotaLimit

\* Variant: a key is free again once its message is settled.
KeyHeldWhilePending(k) == idem[k].live /\ idem[k].message \in Pending

\* The key row is locked and has not expired.
KeyHeld(k) == idem[k].live

\* Variant: only a key inside its window counts.
KeyTakenInWindow(k, m) == \E j \in Keys \ {k} : idem[j].message = m /\ idem[j].live

\* Another key row, expired or not, names the message id.
KeyTaken(k, m) == \E j \in Keys \ {k} : idem[j].message = m

\* reservation_exists
Reserved(m) == ledger[m] # NoEntry

\* What accept_inner decides for key k, message id m and request r, in the order
\* it decides it; elapsed: the expiry the caller asks for has already passed.  The
\* digest covers message id, request and expiry, so an expiry still to come is not
\* the one of a message that has expired.
AcceptResult(k, m, r, elapsed) ==
  IF r.recipient \in suppressed THEN "recipient_suppressed"
  ELSE IF KeyHeld(k)
    THEN IF idem[k].message = m /\ idem[k].request = r /\ Reserved(m)
         THEN "replay" ELSE "idempotency_conflict"
  ELSE IF elapsed THEN "invalid_input"
  ELSE IF KeyTaken(k, m) THEN "message_id_conflict"
  ELSE IF QueueFull(r.device) THEN "queue_full"
  ELSE IF state[m] # "absent"
    THEN IF request[m] # r \/ m \in expired THEN "message_id_conflict"
         ELSE IF Reserved(m) THEN "replay_new_key" ELSE "idempotency_conflict"
  ELSE IF ~QuotaLeft THEN "quota_exceeded"
  ELSE "created"

\* The idempotency upsert takes a key that is free or expired.
BindKey(k, m, r) == idem' = [idem EXCEPT ![k] = [message |-> m, request |-> r, live |-> TRUE]]

AcceptCreate(k, m, r, elapsed) ==
  /\ AcceptResult(k, m, r, elapsed) = "created"
  /\ BindKey(k, m, r)
  /\ state' = [state EXCEPT ![m] = "queued"]
  /\ request' = [request EXCEPT ![m] = r]
  /\ job' = [job EXCEPT ![m] = NewJob]
  /\ usage' = [usage EXCEPT ![month].reserved = @ + 1]
  /\ ledger' = [ledger EXCEPT ![m] = [month |-> month, refunded |-> FALSE]]
  /\ UNCHANGED <<expired, redacted, attemptVars, controlVars, month>>

\* An expired key meets the message it created: the stored digest decides.
AcceptReplayNewKey(k, m, r, elapsed) ==
  /\ AcceptResult(k, m, r, elapsed) = "replay_new_key"
  /\ BindKey(k, m, r)
  /\ UNCHANGED <<queueVars, attemptVars, controlVars, usage, ledger, month>>

Accept(k, m, r) ==
  \E elapsed \in BOOLEAN :
    AcceptCreate(k, m, r, elapsed) \/ AcceptReplayNewKey(k, m, r, elapsed)

-----------------------------------------------------------------------------
(***************************************************************************)
(* Ending a message before its grant: cancel, STOP, expiry.                *)
(***************************************************************************)

\* Variant: only reservations of the current month are refunded.
RefundedThisMonth(ms) ==
  { m \in ms : ledger[m] # NoEntry /\ ~ledger[m].refunded /\ ledger[m].month = month }

\* refund_outbound: once per reservation, into the month it was taken from.
Refunded(ms) == { m \in ms : ledger[m] # NoEntry /\ ~ledger[m].refunded }

Refund(ms) ==
  /\ ledger' = [m \in Messages |->
                  IF m \in Refunded(ms) THEN [ledger[m] EXCEPT !.refunded = TRUE]
                                        ELSE ledger[m]]
  /\ usage' = [p \in 1..Months |->
                 [usage[p] EXCEPT !.refunded =
                    @ + Cardinality({ m \in Refunded(ms) : ledger[m].month = p })]]
  /\ UNCHANGED <<idem, month>>

\* cancel_pre_grant, and the same writes of expire_due: the messages ms end in
\* state s, their jobs are closed and their reservations refunded.
EndPreGrant(ms, s) ==
  /\ state' = [m \in Messages |-> IF m \in ms THEN s ELSE state[m]]
  /\ job' = [m \in Messages |->
               IF m \in ms THEN [job[m] EXCEPT !.owner = 0, !.live = FALSE, !.finished = TRUE]
                           ELSE job[m]]
  /\ Refund(ms)
  /\ UNCHANGED <<request, expired, redacted, attemptVars>>

\* Variant: whether a grant was issued is not looked at.
CancelAnyTime(m) ==
  /\ state[m] # "absent"
  /\ Apply(state[m], "cancel") # InvalidTransition
  /\ EndPreGrant({m}, "cancelled")
  /\ UNCHANGED controlVars

\* cancel_in_transaction: a tenant cancels while no grant was issued.
Cancel(m) ==
  /\ state[m] # "absent"
  /\ ~job[m].granted
  /\ Apply(state[m], "cancel") # InvalidTransition
  /\ EndPreGrant({m}, "cancelled")
  /\ UNCHANGED controlVars

\* cancel_pending_recipient, in the transaction that records the withdrawal.
Suppress(r) ==
  /\ suppressed' = suppressed \union {r}
  /\ EndPreGrant({ m \in Messages : /\ request[m].recipient = r /\ m \notin redacted
                                     /\ state[m] \in {"queued", "claimed"}
                                     /\ ~job[m].granted /\ ~job[m].finished },
                 "cancelled")
  /\ UNCHANGED <<session, authority, revoked>>

\* A later verified START, or an owner release, clears the suppression.
Resume(r) ==
  /\ r \in suppressed
  /\ suppressed' = suppressed \ {r}
  /\ UNCHANGED <<queueVars, attemptVars, session, authority, revoked, meterVars>>

\* One row of an expire_due batch.
ExpireDue(m) ==
  /\ m \in expired /\ state[m] \in {"queued", "claimed"}
  /\ ~job[m].granted /\ ~job[m].finished
  /\ EndPreGrant({m}, "expired")
  /\ UNCHANGED controlVars

-----------------------------------------------------------------------------
(***************************************************************************)
(* Sessions, claims and grants.  A worker is named by the connection epoch *)
(* of its device, so a job's lease_owner is an epoch (0: no lease).        *)
(***************************************************************************)

\* authenticate: the device proves its key against a fresh challenge, and neither
\* it nor its key is revoked.  A refused handshake leaves no trace in the store.
Authenticated(d) == d \notin revoked

\* claim_session_for_actor: the hub serves the current deployment epoch.
ConnectSession(d) ==
  /\ authority.open /\ Authenticated(d)
  /\ session[d].epoch < MaxEpoch
  /\ session' = [session EXCEPT ![d] = [epoch |-> @.epoch + 1,
                                       deployment |-> authority.epoch, live |-> TRUE]]
  /\ UNCHANGED <<queueVars, attemptVars, authority, revoked, suppressed, meterVars>>

\* release_session, fenced by the caller's epoch, or the lease running out.
EndLease(d, e) ==
  /\ session[d].epoch = e /\ session[d].live
  /\ session' = [session EXCEPT ![d].live = FALSE]
  /\ UNCHANGED <<queueVars, attemptVars, authority, revoked, suppressed, meterVars>>

\* claim_due_with_content by the worker of epoch e of the job's device.
Claimable(m) ==
  /\ state[m] \in {"queued", "claimed"} /\ m \notin expired
  /\ ~job[m].live /\ ~job[m].granted /\ ~job[m].finished
  /\ request[m].device \notin revoked

ClaimDue(m, e) ==
  /\ Claimable(m) /\ job[m].generation < MaxGeneration
  /\ job' = [job EXCEPT ![m].generation = @ + 1, ![m].owner = e, ![m].live = TRUE]
  /\ state' = [state EXCEPT ![m] = "claimed"]
  /\ UNCHANGED <<request, expired, redacted, attemptVars, controlVars, meterVars>>

\* grant_in_transaction up to the suppression check: the claim (m, g) of the
\* worker of epoch e still stands.
GrantCurrent(m, g, e) ==
  LET s == session[request[m].device]
  IN  /\ state[m] = "claimed" /\ m \notin expired /\ m \notin redacted
      /\ authority.dispatch /\ authority.open
      /\ s.deployment = authority.epoch /\ s.epoch = e /\ s.live
      /\ request[m].device \notin revoked
      /\ job[m].generation = g /\ job[m].owner = e /\ job[m].live /\ ~job[m].granted

\* The messages of device d that the index of active fences holds.
Active(d) == { m \in Messages : fence[m].outcome \in ActiveOutcome /\ request[m].device = d }

\* Variant: only the first claim of a message is checked.
WithdrawnAtFirstClaim(m) == request[m].recipient \in suppressed /\ job[m].generation = 1

\* The suppression is read again under the grant's locks.
Withdrawn(m) == request[m].recipient \in suppressed

GrantSuppressed(m, g, e) ==
  /\ GrantCurrent(m, g, e) /\ Withdrawn(m)
  /\ EndPreGrant({m}, "cancelled")
  /\ UNCHANGED controlVars

\* Both inserts must pass their unique indexes: the attempt id is new, the
\* message has no fence and the device no active one.
IssueGrant(m, g, e, a) ==
  /\ GrantCurrent(m, g, e) /\ ~Withdrawn(m)
  /\ attempt[a] = NoAttempt /\ fence[m] = NoFence
  /\ Active(request[m].device) = {}
  /\ attempt' = [attempt EXCEPT ![a] = [message |-> m, status |-> "granted"]]
  /\ fence' = [fence EXCEPT ![m] = [attempt |-> a, epoch |-> e, deployment |-> authority.epoch,
                                    outcome |-> "granted", live |-> TRUE]]
  /\ job' = [job EXCEPT ![m].granted = TRUE]
  /\ UNCHANGED <<state, request, expired, redacted, events, controlVars, meterVars>>

-----------------------------------------------------------------------------
(***************************************************************************)
(* Radio evidence: record_radio_event.                                     *)
(***************************************************************************)

\* prior_attempt_evidence
Recorded(a, codes) == { e \in events : e.attempt = a /\ e.evidence \in codes }
Conflicted(a)      == Recorded(a, {"callback_conflict"}) # {}
Contrary(a)        == Recorded(a, SentCallback \union
                                 {"delivery_callback_ok", "callback_conflict"}) # {}
IntentRecorded(a)  == Recorded(a, {"durable_submit_intent"}) # {}

\* Variants: failed segments count as sent; the last segment is not counted.
AllSegmentsReported(v) == Cardinality(Recorded(v.attempt, SentCallback)) + 1 = v.count
AllSegmentsButOwn(v)   == Cardinality(Recorded(v.attempt, {"sent_callback_ok"})) = v.count

\* With v, every segment has its positive callback.
AllSegmentsSent(v) == Cardinality(Recorded(v.attempt, {"sent_callback_ok"})) + 1 = v.count

\* The next message state the new event v asks for; a callback that does not fit
\* the recorded segment count is refused like an invalid transition.
SentNext(v) ==
  LET current == state[v.message]
      prior   == Recorded(v.attempt, SentCallback)
  IN  IF \/ \E e \in prior : e.count # v.count
         \/ Cardinality(prior) >= v.count THEN InvalidTransition
      ELSE IF v.evidence = "sent_callback_failed"
        THEN IF v.count = 1 THEN Apply(current, "sent_callback_failed")
             ELSE IF current = "unknown" THEN current
             ELSE Apply(current, "partial_sent_callbacks")
      ELSE IF AllSegmentsSent(v) THEN Apply(current, "sent_callback_ok")
      ELSE IF current \in {"submitting", "unknown"} THEN current ELSE InvalidTransition

RadioNext(v) ==
  CASE v.evidence \in SentCallback ->
         IF IntentRecorded(v.attempt) THEN SentNext(v) ELSE InvalidTransition
    [] v.evidence = "callback_conflict" ->
         IF IntentRecorded(v.attempt) THEN Apply(state[v.message], v.evidence)
                                      ELSE InvalidTransition
    [] OTHER -> Apply(state[v.message], v.evidence)

\* Variant: the message state itself.
StatusVerbatim(s) == s

\* attempt_status: the attempt and fence status a message state implies.
StatusOf(s) ==
  CASE s \in {"submitted", "delivered", "delivery_unknown"} -> "submitted"
    [] s \in {"submitting", "unknown", "failed"} -> s
    [] OTHER -> "none"

\* Variant: the attempt row alone is looked up.
FencedByAttempt(v) ==
  attempt[v.attempt].message = v.message /\ request[v.message].device = v.device

\* v names an attempt of its message and device that still holds the fence.
Fenced(v) ==
  /\ attempt[v.attempt].message = v.message /\ request[v.message].device = v.device
  /\ fence[v.message].attempt = v.attempt

\* Variant: a recorded conflict rules nothing out.
ContradictedProof(v) == v.evidence = "proven_no_submit" /\ Contrary(v.attempt)

\* Evidence that what is recorded for the attempt rules out.
Contradicted(v) ==
  \/ v.evidence # "callback_conflict" /\ Conflicted(v.attempt)
  \/ v.evidence = "proven_no_submit" /\ Contrary(v.attempt)

\* Variant: the index of active fences is missing.
SegmentIndexRefuses(v) ==
  v.evidence \in SentCallback /\ \E e \in Recorded(v.attempt, SentCallback) : e.segment = v.segment

\* A unique index refuses the transaction: two sent callbacks for one segment, or
\* a fence that would become a second active one on its device.
IndexRefuses(v) ==
  \/ v.evidence \in SentCallback
       /\ \E e \in Recorded(v.attempt, SentCallback) : e.segment = v.segment
  \/ /\ v.evidence # "proven_no_submit" /\ StatusOf(RadioNext(v)) \in ActiveOutcome
     /\ Active(v.device) \ {v.message} # {}

\* What record_radio_event answers to v.
RadioResult(v) ==
  IF state[v.message] = "absent" THEN "not_found"
  ELSE IF v.message \in redacted THEN "stale_fence"
  ELSE IF \E e \in events : e.id = v.id
    THEN IF v \in events THEN "replay" ELSE "event_id_conflict"
  ELSE IF ~Fenced(v) THEN "stale_fence"
  ELSE IF Contradicted(v) \/ RadioNext(v) = InvalidTransition THEN "invalid_transition"
  ELSE IF IndexRefuses(v) THEN "database_error"
  ELSE "recorded"

\* A proof that nothing was submitted withdraws the grant and requeues the job;
\* any other evidence moves attempt and fence with the message.
RecordRadioEvent(v) ==
  LET m    == v.message
      next == RadioNext(v)
      proof == v.evidence = "proven_no_submit"
  IN  /\ RadioResult(v) = "recorded"
      /\ state' = [state EXCEPT ![m] = next]
      /\ events' = events \union {v}
      /\ attempt' = [attempt EXCEPT ![v.attempt].status =
                       IF proof THEN "proved_no_submit"
                       ELSE IF StatusOf(next) = "none" THEN @ ELSE StatusOf(next)]
      /\ fence' = [fence EXCEPT ![m] =
                     IF proof THEN NoFence
                     ELSE IF StatusOf(next) = "none" THEN @
                     ELSE [@ EXCEPT !.outcome = StatusOf(next)]]
      /\ job' = IF proof
                THEN [job EXCEPT ![m] = [@ EXCEPT !.granted = FALSE, !.owner = 0,
                                                  !.live = FALSE, !.finished = FALSE]]
                ELSE job
      /\ UNCHANGED <<request, expired, redacted, controlVars, meterVars>>

-----------------------------------------------------------------------------
(***************************************************************************)
(* Recovery sweeps (one row of a batch each) and retention.                *)
(***************************************************************************)

\* The event row a sweep adds under an id of its own.
SweepEvent(m, code) ==
  [id |-> SweepId, device |-> request[m].device, message |-> m,
   attempt |-> fence[m].attempt, evidence |-> code, segment |-> 0, count |-> 0]

Sweep(m, s, status, code) ==
  /\ state' = [state EXCEPT ![m] = s]
  /\ attempt' = [attempt EXCEPT ![fence[m].attempt].status = status]
  /\ fence' = [fence EXCEPT ![m].outcome = status]
  /\ events' = events \union {SweepEvent(m, code)}
  /\ UNCHANGED <<request, expired, redacted, job, controlVars, meterVars>>

\* Variant: two silent minutes count as a failure.
ReconcileAsFailed(m) ==
  \/ /\ state[m] = "claimed" /\ fence[m].outcome = "granted" /\ ~fence[m].live
     /\ Sweep(m, "unknown", "unknown", "grant_timeout")
  \/ /\ state[m] = "submitting" /\ fence[m].outcome = "submitting"
     /\ Sweep(m, "failed", "failed", "sent_callback_timeout")

\* reconcile_silent_attempts: a grant that ran out unanswered, or two silent
\* minutes after a durable intent.
ReconcileSilentAttempt(m) ==
  \/ /\ state[m] = "claimed" /\ fence[m].outcome = "granted" /\ ~fence[m].live
     /\ Sweep(m, "unknown", "unknown", "grant_timeout")
  \/ /\ state[m] = "submitting" /\ fence[m].outcome = "submitting"
     /\ Sweep(m, "unknown", "unknown", "sent_callback_timeout")

\* reconcile_delivery_timeouts: no delivery receipt for 24 hours.
ReconcileDeliveryTimeout(m) ==
  /\ state[m] = "submitted" /\ fence[m].outcome = "submitted"
  /\ attempt[fence[m].attempt].status = "submitted"
  /\ Sweep(m, "delivery_unknown", "submitted", "delivery_timeout")

\* The retention worker: expired keys, content of settled messages, and then
\* the events of messages whose content is gone.
Settled(m) == /\ state[m] \in {"delivered", "failed", "cancelled", "expired"}
              /\ fence[m].outcome \notin ActiveOutcome

PruneKey(k) ==
  /\ idem[k] # NoKey /\ ~idem[k].live
  /\ idem' = [idem EXCEPT ![k] = NoKey]
  /\ UNCHANGED <<queueVars, attemptVars, controlVars, usage, ledger, month>>

RedactMessage(m) ==
  /\ m \notin redacted /\ Settled(m)
  /\ redacted' = redacted \union {m}
  /\ UNCHANGED <<state, request, expired, job, attemptVars, controlVars, meterVars>>

PruneEvent(v) ==
  /\ v \in events /\ v.message \in redacted /\ Settled(v.message)
  /\ events' = events \ {v}
  /\ UNCHANGED <<queueVars, attempt, fence, controlVars, meterVars>>

-----------------------------------------------------------------------------
(***************************************************************************)
(* Time and operators: deadlines pass, devices are revoked, sites drain,   *)
(* the failover executor moves the deployment authority.                   *)
(***************************************************************************)
MessageExpires(m) ==
  /\ state[m] # "absent" /\ m \notin expired
  /\ expired' = expired \union {m}
  /\ UNCHANGED <<state, request, redacted, job, attemptVars, controlVars, meterVars>>

ClaimLapses(m) ==
  /\ job[m].live
  /\ job' = [job EXCEPT ![m].live = FALSE]
  /\ UNCHANGED <<state, request, expired, redacted, attemptVars, controlVars, meterVars>>

GrantExpires(m) ==
  /\ fence[m].live
  /\ fence' = [fence EXCEPT ![m].live = FALSE]
  /\ UNCHANGED <<queueVars, attempt, events, controlVars, meterVars>>

KeyExpires(k) ==
  /\ KeysExpire /\ idem[k].live
  /\ idem' = [idem EXCEPT ![k].live = FALSE]
  /\ UNCHANGED <<queueVars, attemptVars, controlVars, usage, ledger, month>>

MonthEnds ==
  /\ month < Months
  /\ month' = month + 1
  /\ UNCHANGED <<queueVars, attemptVars, controlVars, idem, usage, ledger>>

\* revoke_device: the device, its key and its session row in one transaction.  The
\* last epoch stays in the model as a number nobody uses: no revoked device connects.
Revoke(d) ==
  /\ d \notin revoked
  /\ revoked' = revoked \union {d}
  /\ session' = [session EXCEPT ![d].live = FALSE]
  /\ UNCHANGED <<queueVars, attemptVars, authority, suppressed, meterVars>>

\* hold_dispatch and the operator's release of it; draining or disabling a site
\* or the account; a failover promotes a new deployment epoch, dispatch held.
ChangeAuthority ==
  /\ \/ authority' = [authority EXCEPT !.dispatch = ~@]
     \/ authority' = [authority EXCEPT !.open = ~@]
     \/ /\ authority.epoch < MaxDeployment
        /\ authority' = [authority EXCEPT !.epoch = @ + 1, !.dispatch = FALSE]
  /\ UNCHANGED <<queueVars, attemptVars, session, revoked, suppressed, meterVars>>

Passage ==
  \/ \E m \in Messages : MessageExpires(m) \/ ClaimLapses(m) \/ GrantExpires(m)
  \/ \E k \in Keys : KeyExpires(k)
  \/ MonthEnds

Recovery ==
  \E m \in Messages :
    ExpireDue(m) \/ ReconcileSilentAttempt(m) \/ ReconcileDeliveryTimeout(m)

Retention ==
  \/ \E k \in Keys : PruneKey(k)
  \/ \E m \in Messages : RedactMessage(m)
  \/ \E v \in events : PruneEvent(v)

\* The clients of the store, each call with any arguments they could hold.
Tenant ==
  \/ \E k \in Keys, m \in Messages, r \in Request : Accept(k, m, r)
  \/ \E m \in Messages : Cancel(m)
  \/ \E r \in Recipients : Suppress(r) \/ Resume(r)

Operator == ChangeAuthority \/ \E d \in Devices : Revoke(d)

Hub ==
  \/ \E d \in Devices : ConnectSession(d)
  \/ \E d \in Devices, e \in 1..MaxEpoch : EndLease(d, e)
  \/ \E m \in Messages, e \in 1..MaxEpoch :
       \/ Claimable(m) /\ e <= session[request[m].device].epoch /\ ClaimDue(m, e)
       \/ \E g \in 1..MaxGeneration :
            \/ GrantSuppressed(m, g, e)
            \/ \E a \in Attempts : IssueGrant(m, g, e, a)
  \/ \E v \in RadioEvent : RecordRadioEvent(v)

StoreNext == Tenant \/ Hub \/ Recovery \/ Retention \/ Passage \/ Operator

StoreSpec == StoreInit /\ [][StoreNext]_storeVars

-----------------------------------------------------------------------------
(***************************************************************************)
(* Properties.                                                             *)
(***************************************************************************)

SweepEvents == [id: {SweepId}, device: Devices, message: Messages, attempt: Attempts,
                evidence: {"grant_timeout", "sent_callback_timeout", "delivery_timeout"},
                segment: {0}, count: {0}]

\* The columns of the tables.
JobRow     == [generation: 0..MaxGeneration, owner: 0..MaxEpoch,
               live: BOOLEAN, granted: BOOLEAN, finished: BOOLEAN]
AttemptRow == [message: Messages, status: AttemptStatus]
FenceRow   == [attempt: Attempts, epoch: 1..MaxEpoch, deployment: 1..MaxDeployment,
               outcome: Outcome, live: BOOLEAN]
SessionRow == [epoch: 0..MaxEpoch, deployment: 0..MaxDeployment, live: BOOLEAN]
KeyRow     == [message: Messages, request: Request, live: BOOLEAN]
PeriodRow  == [reserved: Nat, refunded: Nat]
EntryRow   == [month: 1..Months, refunded: BOOLEAN]

\* Every table keeps the shape its columns and CHECK constraints give it.
StoreTypeOK ==
  /\ state \in [Messages -> MessageState \union {"absent"}]
  /\ request \in [Messages -> Request \union {NoRequest}]
  /\ expired \subseteq Messages /\ redacted \subseteq Messages
  /\ job \in [Messages -> JobRow]
  /\ attempt \in [Attempts -> AttemptRow \union {NoAttempt}]
  /\ fence \in [Messages -> FenceRow \union {NoFence}]
  /\ events \subseteq RadioEvent \union SweepEvents
  /\ session \in [Devices -> SessionRow]
  /\ authority \in [epoch: 1..MaxDeployment, dispatch: BOOLEAN, open: BOOLEAN]
  /\ revoked \subseteq Devices /\ suppressed \subseteq Recipients
  /\ idem \in [Keys -> KeyRow \union {NoKey}]
  /\ usage \in [1..Months -> PeriodRow]
  /\ ledger \in [Messages -> EntryRow \union {NoEntry}]
  /\ month \in 1..Months

\* Message, job, attempt and fence are four rows that several transactions update
\* separately; they always tell the same story about a message.  A fence exists
\* exactly while a grant stands, and its outcome is the one the state implies.
RowsAgree ==
  \A m \in Messages :
    /\ job[m].granted <=> fence[m] # NoFence
    /\ fence[m] = NoFence => state[m] \in {"absent", "queued", "claimed", "cancelled", "expired"}
    /\ fence[m] # NoFence =>
         /\ attempt[fence[m].attempt] = [message |-> m, status |-> fence[m].outcome]
         /\ fence[m].outcome = IF state[m] = "claimed" THEN "granted" ELSE StatusOf(state[m])

\* A second attempt of a message is granted only after the one before it is
\* proved not to have been submitted, and that proof is never contradicted by
\* evidence recorded for the old attempt.
ReplacedOnlyAfterProof ==
  \A a \in Attempts :
    LET m == attempt[a].message
    IN  attempt[a] # NoAttempt /\ fence[m].attempt # a =>
          attempt[a].status = "proved_no_submit" /\ ~Contrary(a)

\* The index dispatch_fences_active_device: one device, one open attempt,
\* through grants, callbacks, sweeps and conflicts.
OneActivePerDevice == \A d \in Devices : Cardinality(Active(d)) <= 1

\* A message counts as submitted, delivered or failed only on complete evidence
\* of its current attempt, however segments, timeouts and replays interleave.
OutcomeHasEvidence ==
  \A m \in Messages \ redacted :
    LET a  == fence[m].attempt
        ok == Recorded(a, {"sent_callback_ok"})
    IN  /\ state[m] \in {"submitted", "delivered", "delivery_unknown"} =>
             /\ IntentRecorded(a) /\ Recorded(a, {"sent_callback_failed"}) = {}
             /\ \E n \in 1..MaxSegments : /\ { e.segment : e \in ok } = 1..n
                                         /\ { e.count : e \in ok } = {n}
        /\ state[m] = "failed" =>
             IntentRecorded(a) /\ ok = {} /\ Recorded(a, {"sent_callback_failed"}) # {}

\* A conflicting callback leaves a message unknown for good: no later evidence
\* and no sweep settles it, and its device stays fenced.
ConflictIsFinal ==
  \A a \in Attempts :
    Conflicted(a) => /\ state[attempt[a].message] = "unknown"
                     /\ fence[attempt[a].message].attempt = a

\* A unit is refunded only for a message that ended before any grant stood, and
\* every such message is refunded.
RefundIffUnsent ==
  \A m \in Messages : ledger[m].refunded <=> state[m] \in {"cancelled", "expired"}

\* usage_periods, updated by counters, always equals the ledger, and a month
\* never charges more than its limit.
MeterBalanced ==
  \A p \in 1..Months :
    LET charged == { m \in Messages : ledger[m].month = p }
    IN  /\ usage[p].reserved = Cardinality(charged)
        /\ usage[p].refunded = Cardinality({ m \in charged : ledger[m].refunded })
        /\ usage[p].reserved - usage[p].refunded <= QuotaLimit

\* The queue bound counts queued and claimed messages only, so a proof that
\* requeues an attempt may exceed it: by nothing but a requeued message, and by
\* no more than the one attempt of a device that may still be proved unsent.  A
\* conflict opens an attempt again too, but that one is never requeued.
QueueBounded ==
  \A d \in Devices :
    LET waiting == { m \in Pending : request[m].device = d }
        open == { m \in Messages \ expired :
                    /\ request[m].device = d /\ state[m] \in {"submitting", "unknown"}
                    /\ ~Conflicted(fence[m].attempt) }
    IN  /\ Cardinality(waiting \union open) <= PerDevicePending + 1
        /\ Cardinality(waiting) > PerDevicePending =>
             \E m \in waiting, a \in Attempts :
               attempt[a] = [message |-> m, status |-> "proved_no_submit"]

\* Retrying a key inside its window finds the one message it created: a live key
\* names an accepted message with the same request, and no two keys share one.
KeyNamesItsMessage ==
  \A k \in Keys : idem[k] # NoKey =>
    /\ state[idem[k].message] # "absent" /\ request[idem[k].message] = idem[k].request
    /\ \A j \in Keys \ {k} : idem[j].message # idem[k].message

\* "A conflicting callback in any active state also moves the message to
\* unknown", "even if earlier evidence said submitted or delivered": a new
\* conflict report for an attempt whose intent is recorded is never refused.
ConflictAccepted ==
  \A m \in Messages \ redacted, i \in EventIds :
    LET a == fence[m].attempt
    IN  /\ fence[m] # NoFence /\ IntentRecorded(a) /\ \A e \in events : e.id # i
        => RadioResult([id |-> i, device |-> request[m].device, message |-> m, attempt |-> a,
                        evidence |-> "callback_conflict", segment |-> 0, count |-> 0])
             = "recorded"

\* A key keeps its message as long as it is live, a message its request for good.
BindingsStable ==
  [][ /\ \A k \in Keys : idem[k].live /\ idem'[k].live => idem'[k] = idem[k]
      /\ \A m \in Messages : state[m] # "absent" => request'[m] = request[m] ]_storeVars

\* No grant starts for a recipient whose withdrawal is recorded, whatever was
\* claimed or requeued before it; and cancelled or expired messages stay so.
NoGrantAfterWithdrawal ==
  [][ \A m \in Messages :
        /\ fence[m] = NoFence /\ fence'[m] # NoFence => request[m].recipient \notin suppressed
        /\ state[m] \in {"cancelled", "expired"} => state'[m] = state[m] ]_storeVars

=============================================================================
