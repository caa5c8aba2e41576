------------------------ MODULE StoreAdmissionProofs ------------------------
(***************************************************************************)
(* What admission promises, proved for every instance of the delivery      *)
(* store: keys and requests stay bound, a unit is refunded exactly for a   *)
(* message that was never sent, the counters equal the ledger, and a       *)
(* withdrawal is obeyed.                                                   *)
(*                                                                         *)
(* Each of these concerns a few columns, so the steps are first sorted by  *)
(* what they do to those: StepKinds and Coarsely.  They use that a message *)
(* with a fence is past its cancellation (StoreInv).                       *)
(***************************************************************************)
EXTENDS DeliveryStoreProofs

USE DEF JobRow, AttemptRow, FenceRow, SessionRow, KeyRow, PeriodRow, EntryRow

-----------------------------------------------------------------------------
(***************************************************************************)
(* The kinds of steps.                                                     *)
(***************************************************************************)

\* The states of a message that was accepted and has not been cut off.
Ongoing == MessageState \ {"accepted", "cancelled", "expired"}

Created == \E k \in Keys, m \in Messages, r \in Request, elapsed \in BOOLEAN :
             AcceptCreate(k, m, r, elapsed)
Rebound == \E k \in Keys, m \in Messages, r \in Request, elapsed \in BOOLEAN :
             AcceptReplayNewKey(k, m, r, elapsed)

\* Messages that wait without a fence are cut off, and refunded.
Ended == \E ms \in SUBSET Messages, s \in {"cancelled", "expired"} :
           /\ EndPreGrant(ms, s)
           /\ \A m \in ms : state[m] \in {"queued", "claimed"} /\ fence[m] = NoFence

Claimed   == \E m \in Messages, e \in 1..MaxEpoch : ClaimDue(m, e)
Granted   == \E m \in Messages, g \in 1..MaxGeneration, e \in 1..MaxEpoch, a \in Attempts :
               IssueGrant(m, g, e, a)
Evidenced == \E v \in RadioEvent : RecordRadioEvent(v)
Swept     == \E m \in Messages : ReconcileSilentAttempt(m) \/ ReconcileDeliveryTimeout(m)

\* Each of these moves one message on.
Moved == \E m \in Messages, s \in Ongoing :
           /\ state' = [state EXCEPT ![m] = s] /\ state[m] \in Ongoing
           /\ UNCHANGED <<request, expired, redacted, idem, usage, ledger, month>>

\* A key leaves its window or is pruned.
KeyEnded == \E k \in Keys :
              /\ \/ idem' = [idem EXCEPT ![k] = NoKey] /\ ~idem[k].live
                 \/ idem' = [idem EXCEPT ![k].live = FALSE] /\ idem[k].live
              /\ UNCHANGED <<state, request, expired, redacted, attempt, fence, events,
                             usage, ledger, month>>

EventPruned == \E v \in events : PruneEvent(v)

\* Time, operators, sessions and retention of content.
Passive == /\ UNCHANGED <<state, request, attempt, events, idem, usage, ledger>>
           /\ expired \subseteq expired' /\ redacted \subseteq redacted'
           /\ \A m \in Messages : /\ fence'[m].attempt = fence[m].attempt
                                  /\ fence'[m] # NoFence => fence[m] # NoFence
           /\ month' \in 1..Months

\* A message that has a fence is on its way or has arrived.
LEMMA FencedOngoing ==
  ASSUME StoreInv, NEW m \in Messages
  PROVE  /\ fence[m] # NoFence => state[m] \in Ongoing \ {"queued"}
         /\ state[m] \in MessageState => state[m] # "accepted"
<1>1. state[m] \in MessageState \union {"absent"}
  BY DEF StoreInv, StoreTypeOK
<1>2. fence[m] # NoFence =>
        fence[m].outcome = IF state[m] = "claimed" THEN "granted" ELSE StatusOf(state[m])
  BY DEF StoreInv, RowsInv, RowsAgree
<1>3. fence[m] # NoFence => fence[m].outcome \in Outcome
  BY Ungranted
<1>4. StatusOf("accepted") = "none"
  BY Zenon DEF StatusOf
<1>5. fence[m] # NoFence => state[m] \notin {"absent", "queued", "accepted", "cancelled", "expired"}
  BY <1>2, <1>3, <1>4, StatusOfRange DEF Outcome, ActiveOutcome
<1>6. fence[m] = NoFence => state[m] # "accepted"
  BY DEF StoreInv, RowsInv, RowsAgree
<1>. QED  BY <1>1, <1>5, <1>6 DEF Ongoing, MessageState

\* Every step of the store is of one of these kinds.
LEMMA StepKinds ==
  ASSUME StoreInv, [StoreNext]_storeVars
  PROVE  \/ Created \/ Rebound \/ Ended \/ Claimed \/ Granted \/ Evidenced \/ Swept
         \/ KeyEnded \/ EventPruned \/ Passive
<1>. USE DEF queueVars, attemptVars, controlVars, meterVars
<1>1. month \in 1..Months /\ fence \in [Messages -> FenceRow \union {NoFence}]
  BY DEF StoreInv, StoreTypeOK
<1>2. CASE Tenant
  <2>1. ASSUME NEW k \in Keys, NEW m \in Messages, NEW r \in Request, Accept(k, m, r)
        PROVE  Created \/ Rebound
    BY <2>1 DEF Accept, Created, Rebound
  <2>2. ASSUME NEW m \in Messages, Cancel(m) PROVE Ended
    <3>1. state[m] \in {"queued", "claimed"}
      <4>1. state[m] \in {"accepted", "queued", "claimed"}
        BY <2>2, Zenon DEF Cancel, Apply
      <4>. QED  BY <4>1, FencedOngoing DEF MessageState
    <3>2. fence[m] = NoFence
      BY <2>2, Ungranted DEF Cancel
    <3>3. EndPreGrant({m}, "cancelled")
      BY <2>2 DEF Cancel
    <3>. QED  BY <3>1, <3>2, <3>3 DEF Ended
  <2>3. ASSUME NEW r \in Recipients, Suppress(r) PROVE Ended
    <3>. DEFINE ms == { m \in Messages : /\ request[m].recipient = r /\ m \notin redacted
                                         /\ state[m] \in {"queued", "claimed"}
                                         /\ ~job[m].granted /\ ~job[m].finished }
    <3>1. EndPreGrant(ms, "cancelled")
      BY <2>3 DEF Suppress
    <3>2. ms \in SUBSET Messages /\ \A m \in ms : state[m] \in {"queued", "claimed"}
                                                  /\ fence[m] = NoFence
      BY Ungranted
    <3>. HIDE DEF ms
    <3>. QED  BY <3>1, <3>2 DEF Ended
  <2>4. ASSUME NEW r \in Recipients, Resume(r) PROVE Passive
    BY <1>1, <2>4 DEF Resume, Passive
  <2>. QED  BY <1>2, <2>1, <2>2, <2>3, <2>4 DEF Tenant
<1>3. CASE Hub
  <2>1. ASSUME NEW d \in Devices, ConnectSession(d) PROVE Passive
    BY <1>1, <2>1 DEF ConnectSession, Passive
  <2>2. ASSUME NEW d \in Devices, NEW e \in 1..MaxEpoch, EndLease(d, e) PROVE Passive
    BY <1>1, <2>2 DEF EndLease, Passive
  <2>3. ASSUME NEW m \in Messages, NEW g \in 1..MaxGeneration, NEW e \in 1..MaxEpoch,
               GrantSuppressed(m, g, e)
        PROVE  Ended
    <3>1. EndPreGrant({m}, "cancelled") /\ state[m] = "claimed" /\ fence[m] = NoFence
      BY <2>3, Ungranted DEF GrantSuppressed, GrantCurrent
    <3>. QED  BY <3>1 DEF Ended
  <2>. QED  BY <1>3, <2>1, <2>2, <2>3 DEF Hub, Claimed, Granted, Evidenced
<1>4. CASE Recovery
  <2>1. ASSUME NEW m \in Messages, ExpireDue(m) PROVE Ended
    <3>1. /\ EndPreGrant({m}, "expired") /\ state[m] \in {"queued", "claimed"}
          /\ fence[m] = NoFence
      BY <2>1, Ungranted DEF ExpireDue
    <3>. QED  BY <3>1 DEF Ended
  <2>. QED  BY <1>4, <2>1 DEF Recovery, Swept
<1>5. CASE Retention
  <2>1. ASSUME NEW k \in Keys, PruneKey(k) PROVE KeyEnded
    BY <2>1 DEF PruneKey, KeyEnded
  <2>2. ASSUME NEW m \in Messages, RedactMessage(m) PROVE Passive
    BY <1>1, <2>2 DEF RedactMessage, Passive
  <2>. QED  BY <1>5, <2>1, <2>2 DEF Retention, EventPruned
<1>6. CASE Passage
  <2>1. ASSUME NEW m \in Messages, MessageExpires(m) \/ ClaimLapses(m)
        PROVE  Passive
    BY <1>1, <2>1 DEF MessageExpires, ClaimLapses, Passive
  <2>2. ASSUME NEW m \in Messages, GrantExpires(m) PROVE Passive
    <3>1. \A n \in Messages : /\ fence'[n].attempt = fence[n].attempt
                              /\ fence'[n] # NoFence => fence[n] # NoFence
      <4>1. fence[m] # NoFence /\ fence[m] \in FenceRow
        BY <1>1, <2>2 DEF GrantExpires, NoFence
      <4>2. fence' = [fence EXCEPT ![m] = [fence[m] EXCEPT !.live = FALSE]]
        BY <2>2 DEF GrantExpires
      <4>3. [fence[m] EXCEPT !.live = FALSE].attempt = fence[m].attempt
        BY <4>1
      <4>. QED  BY <1>1, <4>1, <4>2, <4>3
    <3>. QED  BY <1>1, <2>2, <3>1 DEF GrantExpires, Passive
  <2>3. ASSUME NEW k \in Keys, KeyExpires(k) PROVE KeyEnded
    BY <2>3 DEF KeyExpires, KeyEnded
  <2>4. ASSUME MonthEnds PROVE Passive
    BY <1>1, <2>4, StoreAssumption DEF MonthEnds, Passive
  <2>. QED  BY <1>6, <2>1, <2>2, <2>3, <2>4 DEF Passage
<1>7. CASE Operator
  BY <1>1, <1>7 DEF Operator, ChangeAuthority, Revoke, Passive
<1>8. CASE UNCHANGED storeVars
  BY <1>1, <1>8 DEF storeVars, Passive
<1>. QED  BY <1>2, <1>3, <1>4, <1>5, <1>6, <1>7, <1>8 DEF StoreNext

\* Claims, grants, evidence and sweeps leave alone what admission wrote.
LEMMA MovesOne ==
  ASSUME StoreInv, Claimed \/ Granted \/ Evidenced \/ Swept
  PROVE  Moved
<1>. USE DEF queueVars, attemptVars, controlVars, meterVars
<1>1. ASSUME NEW m \in Messages, NEW e \in 1..MaxEpoch, ClaimDue(m, e) PROVE Moved
  BY <1>1 DEF ClaimDue, Claimable, Moved, Ongoing, MessageState
<1>2. ASSUME NEW m \in Messages, NEW g \in 1..MaxGeneration, NEW e \in 1..MaxEpoch,
             NEW a \in Attempts, IssueGrant(m, g, e, a)
      PROVE  Moved
  <2>1. state[m] = "claimed" /\ "claimed" \in Ongoing
    BY <1>2 DEF IssueGrant, GrantCurrent, Ongoing, MessageState
  <2>2. state' = [state EXCEPT ![m] = "claimed"]
    BY <1>2, <2>1 DEF IssueGrant, StoreInv, StoreTypeOK
  <2>. QED  BY <1>2, <2>1, <2>2 DEF IssueGrant, Moved
<1>3. ASSUME NEW v \in RadioEvent, RecordRadioEvent(v) PROVE Moved
  <2>1. /\ v.message \in Messages /\ fence[v.message] # NoFence
        /\ RadioNext(v) # InvalidTransition
    BY <1>3, RecordedShape DEF RecordRadioEvent, StoreInv
  <2>2. RadioNext(v) \in Ongoing
    BY <2>1, RadioNextRange DEF Ongoing, MessageState, InvalidTransition
  <2>3. state[v.message] \in Ongoing
    BY <2>1, FencedOngoing
  <2>. QED  BY <1>3, <2>1, <2>2, <2>3 DEF RecordRadioEvent, Moved
<1>4. ASSUME NEW m \in Messages, ReconcileSilentAttempt(m) \/ ReconcileDeliveryTimeout(m)
      PROVE  Moved
  <2>1. /\ state[m] \in {"claimed", "submitting", "submitted"}
        /\ \E s \in {"unknown", "delivery_unknown"} : \E o, code : Sweep(m, s, o, code)
    BY <1>4 DEF ReconcileSilentAttempt, ReconcileDeliveryTimeout
  <2>2. {"claimed", "submitting", "submitted", "unknown", "delivery_unknown"} \subseteq Ongoing
    BY DEF Ongoing, MessageState
  <2>. QED  BY <2>1, <2>2 DEF Sweep, Moved
<1>. QED  BY <1>1, <1>2, <1>3, <1>4 DEF Claimed, Granted, Evidenced, Swept

\* What a step does to keys, requests and the meter.
Unaccounted == /\ UNCHANGED <<state, request, idem, usage, ledger>>
               /\ expired \subseteq expired' /\ month' \in 1..Months

LEMMA Coarsely ==
  ASSUME StoreInv, [StoreNext]_storeVars
  PROVE  Created \/ Rebound \/ Ended \/ Moved \/ KeyEnded \/ Unaccounted
<1>1. Passive => Unaccounted
  BY DEF Passive, Unaccounted
<1>2. EventPruned => Unaccounted
  BY DEF EventPruned, PruneEvent, Unaccounted, queueVars, meterVars, StoreInv, StoreTypeOK
<1>. QED  BY <1>1, <1>2, StepKinds, MovesOne

-----------------------------------------------------------------------------
(***************************************************************************)
(* Withdrawals, keys and refunds.                                          *)
(***************************************************************************)

\* Only grant_in_transaction creates a fence, and not for a withdrawn recipient.
LEMMA GrantLawful ==
  ASSUME StoreInv, [StoreNext]_storeVars, NEW m \in Messages,
         fence[m] = NoFence, fence'[m] # NoFence
  PROVE  request[m].recipient \notin suppressed
<1>. USE DEF queueVars, attemptVars, controlVars, meterVars
<1>1. \/ Granted \/ Evidenced \/ Swept
      \/ \A n \in Messages : fence'[n] # NoFence => fence[n] # NoFence
  <2>1. Created \/ Rebound \/ Ended \/ Claimed \/ KeyEnded \/ EventPruned => UNCHANGED fence
    BY DEF Created, AcceptCreate, Rebound, AcceptReplayNewKey, Ended, EndPreGrant, Claimed,
           ClaimDue, KeyEnded, EventPruned, PruneEvent
  <2>. QED  BY <2>1, StepKinds DEF Passive
<1>2. fence \in [Messages -> FenceRow \union {NoFence}]
  BY DEF StoreInv, StoreTypeOK
<1>3. ASSUME NEW n \in Messages, NEW g \in 1..MaxGeneration, NEW e \in 1..MaxEpoch,
             NEW a \in Attempts, IssueGrant(n, g, e, a)
      PROVE  request[m].recipient \notin suppressed
  <2>1. m = n
    BY <1>2, <1>3 DEF IssueGrant
  <2>. QED  BY <1>3, <2>1 DEF IssueGrant, Withdrawn
<1>4. ASSUME NEW v \in RadioEvent, RecordRadioEvent(v) PROVE FALSE
  <2>1. v.message \in Messages /\ fence[v.message] # NoFence
    BY <1>4, RecordedShape DEF RecordRadioEvent, StoreInv
  <2>. QED  BY <1>2, <1>4, <2>1 DEF RecordRadioEvent
<1>5. ASSUME NEW n \in Messages, ReconcileSilentAttempt(n) \/ ReconcileDeliveryTimeout(n)
      PROVE  FALSE
  <2>1. fence[n] # NoFence
    BY <1>5 DEF ReconcileSilentAttempt, ReconcileDeliveryTimeout, NoFence
  <2>. QED  BY <1>2, <1>5, <2>1 DEF ReconcileSilentAttempt, ReconcileDeliveryTimeout, Sweep
<1>. QED  BY <1>1, <1>3, <1>4, <1>5 DEF Granted, Evidenced, Swept

\* A message that was cut off stays cut off.
LEMMA EndsStay ==
  ASSUME StoreInv, [StoreNext]_storeVars, NEW m \in Messages,
         state[m] \in {"cancelled", "expired"}
  PROVE  state'[m] = state[m]
<1>1. state \in [Messages -> MessageState \union {"absent"}]
  BY DEF StoreInv, StoreTypeOK
<1>2. CASE Created
  BY <1>1, <1>2 DEF Created, AcceptCreate, AcceptResult
<1>3. CASE Ended
  BY <1>1, <1>3 DEF Ended, EndPreGrant
<1>4. CASE Moved
  BY <1>1, <1>4 DEF Moved, Ongoing
<1>5. CASE Rebound \/ KeyEnded \/ Unaccounted
  BY <1>5 DEF Rebound, AcceptReplayNewKey, queueVars, KeyEnded, Unaccounted
<1>. QED  BY <1>2, <1>3, <1>4, <1>5, Coarsely

\* grant_in_transaction reads the suppression under its own locks: no grant starts
\* for a recipient whose withdrawal is recorded, and no later step revives a message
\* that was cancelled or expired.
THEOREM WithdrawalObeyed == StoreSpec => NoGrantAfterWithdrawal
<1>1. StoreInv /\ [StoreNext]_storeVars =>
        [\A m \in Messages :
           /\ fence[m] = NoFence /\ fence'[m] # NoFence => request[m].recipient \notin suppressed
           /\ state[m] \in {"cancelled", "expired"} => state'[m] = state[m]]_storeVars
  BY GrantLawful, EndsStay
<1>. QED  BY <1>1, StoreInvariant, PTL DEF StoreSpec, NoGrantAfterWithdrawal

\* What acceptance found before it took the key k for the message m.
LEMMA AcceptedShape ==
  ASSUME NEW k, NEW m, NEW r, NEW elapsed,
         AcceptResult(k, m, r, elapsed) \in {"created", "replay_new_key"}
  PROVE  /\ ~idem[k].live /\ ~KeyTaken(k, m) /\ ~QueueFull(r.device)
         /\ AcceptResult(k, m, r, elapsed) = "created" => state[m] = "absent" /\ QuotaLeft
         /\ AcceptResult(k, m, r, elapsed) = "replay_new_key" =>
              state[m] # "absent" /\ request[m] = r /\ ledger[m] # NoEntry
BY DEF AcceptResult, KeyHeld, Reserved

\* The idempotency upsert never takes a key inside its window, and nothing rewrites
\* the request of an accepted message.
THEOREM BindingsHold == StoreSpec => BindingsStable
<1>1. ASSUME StoreInv, [StoreNext]_storeVars
      PROVE  /\ \A k \in Keys : idem[k].live /\ idem'[k].live => idem'[k] = idem[k]
             /\ \A m \in Messages : state[m] # "absent" => request'[m] = request[m]
  <2>1. /\ idem \in [Keys -> KeyRow \union {NoKey}]
        /\ request \in [Messages -> Request \union {NoRequest}]
    BY <1>1 DEF StoreInv, StoreTypeOK
  <2>2. CASE Created
    BY <2>1, <2>2, AcceptedShape DEF Created, AcceptCreate, BindKey
  <2>3. CASE Rebound
    BY <2>1, <2>3, AcceptedShape DEF Rebound, AcceptReplayNewKey, BindKey, queueVars
  <2>4. CASE Ended
    BY <2>4 DEF Ended, EndPreGrant, Refund
  <2>5. CASE KeyEnded
    BY <2>1, <2>5 DEF KeyEnded, NoKey
  <2>6. CASE Moved \/ Unaccounted
    BY <2>6 DEF Moved, Unaccounted
  <2>. QED  BY <1>1, <2>2, <2>3, <2>4, <2>5, <2>6, Coarsely
<1>2. StoreInv /\ [StoreNext]_storeVars =>
        [/\ \A k \in Keys : idem[k].live /\ idem'[k].live => idem'[k] = idem[k]
         /\ \A m \in Messages : state[m] # "absent" => request'[m] = request[m]]_storeVars
  BY <1>1
<1>. QED  BY <1>2, StoreInvariant, PTL DEF StoreSpec, BindingsStable

\* A key that is bound again names a message no other key names, and one with the
\* request it is bound to.
LEMMA KeyStep ==
  ASSUME StoreInv, KeyNamesItsMessage, [StoreNext]_storeVars
  PROVE  KeyNamesItsMessage'
<1>1. /\ idem \in [Keys -> KeyRow \union {NoKey}]
      /\ request \in [Messages -> Request \union {NoRequest}]
      /\ state \in [Messages -> MessageState \union {"absent"}]
  BY DEF StoreInv, StoreTypeOK
<1>2. \A k \in Keys : idem[k] # NoKey => idem[k].message \in Messages
  BY <1>1
<1>3. NoKey.message \notin Messages
  BY StoreAssumption DEF NoKey
\* Keys that are not taken keep a message whose request nobody rewrites.
<1>4. ASSUME \A k \in Keys : idem'[k] = NoKey \/ (idem'[k].message = idem[k].message /\
                                                 idem'[k].request = idem[k].request /\
                                                 idem[k] # NoKey),
             \A m \in Messages : state[m] # "absent" =>
                                  state'[m] # "absent" /\ request'[m] = request[m]
      PROVE  KeyNamesItsMessage'
  BY <1>2, <1>3, <1>4 DEF KeyNamesItsMessage
<1>5. ASSUME NEW k \in Keys, NEW m \in Messages, NEW r \in Request,
             BindKey(k, m, r), ~KeyTaken(k, m), state'[m] # "absent", request'[m] = r,
             \A n \in Messages : state[n] # "absent" =>
                                  state'[n] # "absent" /\ request'[n] = request[n]
      PROVE  KeyNamesItsMessage'
  <2>. DEFINE row == [message |-> m, request |-> r, live |-> TRUE]
  <2>1. \A j \in Keys : idem'[j] = IF j = k THEN row ELSE idem[j]
    BY <1>1, <1>5 DEF BindKey
  <2>2. \A j \in Keys \ {k} : idem[j].message # m
    BY <1>5 DEF KeyTaken
  <2>3. row.message = m /\ row.request = r
    OBVIOUS
  <2>. HIDE DEF row
  <2>. QED  BY <1>2, <1>5, <2>1, <2>2, <2>3 DEF KeyNamesItsMessage
<1>6. CASE Created
  <2>1. PICK k \in Keys, m \in Messages, r \in Request, elapsed \in BOOLEAN :
          AcceptCreate(k, m, r, elapsed)
    BY <1>6 DEF Created
  <2>2. state[m] = "absent" /\ ~KeyTaken(k, m) /\ BindKey(k, m, r)
    BY <2>1, AcceptedShape DEF AcceptCreate
  <2>3. /\ state' = [state EXCEPT ![m] = "queued"] /\ request' = [request EXCEPT ![m] = r]
    BY <2>1 DEF AcceptCreate
  <2>. QED  BY <1>1, <1>5, <2>2, <2>3
<1>7. CASE Rebound
  <2>1. PICK k \in Keys, m \in Messages, r \in Request, elapsed \in BOOLEAN :
          AcceptReplayNewKey(k, m, r, elapsed)
    BY <1>7 DEF Rebound
  <2>. QED  BY <1>5, <2>1, AcceptedShape DEF AcceptReplayNewKey, queueVars
<1>8. CASE Ended
  <2>1. UNCHANGED <<idem, request>>
    BY <1>8 DEF Ended, EndPreGrant, Refund
  <2>2. \A m \in Messages : state[m] # "absent" => state'[m] # "absent"
    BY <1>8 DEF Ended, EndPreGrant
  <2>. QED  BY <1>4, <2>1, <2>2
<1>9. CASE Moved
  <2>1. \A m \in Messages : state[m] # "absent" => state'[m] # "absent"
    BY <1>1, <1>9 DEF Moved, Ongoing, MessageState
  <2>. QED  BY <1>4, <1>9, <2>1 DEF Moved
<1>10. CASE KeyEnded
  <2>1. PICK k \in Keys :
          /\ \/ idem' = [idem EXCEPT ![k] = NoKey]
             \/ idem' = [idem EXCEPT ![k] = [idem[k] EXCEPT !.live = FALSE]] /\ idem[k].live
          /\ UNCHANGED <<state, request>>
    BY <1>10 DEF KeyEnded
  <2>2. idem[k].live => idem[k] # NoKey
    BY DEF NoKey
  <2>3. /\ [idem[k] EXCEPT !.live = FALSE].message = idem[k].message
        /\ [idem[k] EXCEPT !.live = FALSE].request = idem[k].request
    BY <1>1 DEF NoKey
  <2>. QED  BY <1>1, <1>4, <2>1, <2>2, <2>3
<1>11. CASE Unaccounted
  BY <1>4, <1>11 DEF Unaccounted
<1>. QED  BY <1>6, <1>7, <1>8, <1>9, <1>10, <1>11, Coarsely

\* Retrying a key inside its window, or binding it anew after a prune, can only meet
\* the one message that the key created.
THEOREM KeysNameTheirMessage == StoreSpec => []KeyNamesItsMessage
<1>1. StoreInit => KeyNamesItsMessage
  BY DEF StoreInit, KeyNamesItsMessage
<1>2. StoreInv /\ KeyNamesItsMessage /\ [StoreNext]_storeVars => KeyNamesItsMessage'
  BY KeyStep
<1>. QED  BY <1>1, <1>2, StoreInvariant, PTL DEF StoreSpec

-----------------------------------------------------------------------------
(***************************************************************************)
(* The meter.                                                              *)
(***************************************************************************)

\* Exactly the accepted messages have a reservation.
Billed == \A m \in Messages : ledger[m] # NoEntry <=> state[m] # "absent"

Charged(p)  == { m \in Messages : ledger[m].month = p }
Returned(p) == { m \in Charged(p) : ledger[m].refunded }

\* Months are counted from 1, so a message without a reservation is in none.
LEMMA EntryShape ==
  ASSUME StoreTypeOK, NEW m \in Messages
  PROVE  /\ ledger[m].refunded \in BOOLEAN /\ ledger[m].month \in Nat
         /\ ledger[m] = NoEntry => ~ledger[m].refunded /\ ledger[m].month \notin 1..Months
         /\ ledger[m] # NoEntry => ledger[m].month \in 1..Months /\ ledger[m] \in EntryRow
<1>1. ledger[m] \in EntryRow \union {NoEntry}
  BY DEF StoreTypeOK
<1>2. NoEntry.refunded = FALSE /\ NoEntry.month = 0 /\ 0 \notin 1..Months
  BY DEF NoEntry
<1>3. CASE ledger[m] = NoEntry
  <2>1. ledger[m].refunded = FALSE /\ ledger[m].month = 0
    BY <1>2, <1>3
  <2>2. ledger[m].refunded \in BOOLEAN /\ ~ledger[m].refunded
    BY <2>1
  <2>3. ledger[m].month \in Nat /\ ledger[m].month \notin 1..Months
    BY <1>2, <2>1
  <2>. QED  BY <1>3, <2>2, <2>3
<1>4. CASE ledger[m] # NoEntry
  BY <1>1, <1>4, StoreAssumption
<1>. QED  BY <1>3, <1>4

\* The refund of the messages ms marks those that are reserved and not yet
\* refunded, and keeps their months.
LEMMA RefundShape ==
  ASSUME StoreTypeOK, NEW ms \in SUBSET Messages, Refund(ms)
  PROVE  \A m \in Messages :
           /\ ledger'[m].month = ledger[m].month
           /\ ledger'[m].refunded <=> (ledger[m].refunded \/ m \in Refunded(ms))
           /\ ledger'[m] = NoEntry <=> ledger[m] = NoEntry
<1>. TAKE m \in Messages
<1>1. ledger'[m] = IF m \in Refunded(ms) THEN [ledger[m] EXCEPT !.refunded = TRUE]
                                          ELSE ledger[m]
  BY DEF Refund
<1>2. m \in Refunded(ms) => ledger[m] \in EntryRow /\ ledger[m] # NoEntry
  BY EntryShape DEF Refunded
<1>3. CASE m \in Refunded(ms)
  <2>1. ledger'[m].month = ledger[m].month /\ ledger'[m].refunded = TRUE
    BY <1>1, <1>2, <1>3
  <2>. QED  BY <1>2, <1>3, <2>1, EntryShape DEF NoEntry
<1>4. CASE m \notin Refunded(ms)
  BY <1>1, <1>4, EntryShape
<1>. QED  BY <1>3, <1>4

\* Refunds and ends come together, and only for what was never sent.
LEMMA RefundStep ==
  ASSUME StoreInv, Billed, RefundIffUnsent, [StoreNext]_storeVars
  PROVE  Billed' /\ RefundIffUnsent'
<1>1. /\ StoreTypeOK
      /\ state \in [Messages -> MessageState \union {"absent"}]
      /\ ledger \in [Messages -> EntryRow \union {NoEntry}]
  BY DEF StoreInv, StoreTypeOK
<1>2. CASE Created
  <2>1. PICK k \in Keys, m \in Messages, r \in Request, elapsed \in BOOLEAN :
          AcceptCreate(k, m, r, elapsed)
    BY <1>2 DEF Created
  <2>. DEFINE entry == [month |-> month, refunded |-> FALSE]
  <2>2. /\ \A n \in Messages : state'[n] = IF n = m THEN "queued" ELSE state[n]
        /\ \A n \in Messages : ledger'[n] = IF n = m THEN entry ELSE ledger[n]
    BY <1>1, <2>1 DEF AcceptCreate
  <2>3. entry # NoEntry /\ entry.refunded = FALSE
    BY <1>1, StoreAssumption DEF NoEntry, StoreTypeOK
  <2>. HIDE DEF entry
  <2>. QED  BY <2>2, <2>3 DEF Billed, RefundIffUnsent
<1>3. CASE Ended
  <2>1. PICK ms \in SUBSET Messages, s \in {"cancelled", "expired"} :
          /\ EndPreGrant(ms, s)
          /\ \A m \in ms : state[m] \in {"queued", "claimed"} /\ fence[m] = NoFence
    BY <1>3 DEF Ended
  <2>2. \A m \in Messages : state'[m] = IF m \in ms THEN s ELSE state[m]
    BY <2>1 DEF EndPreGrant
  <2>3. \A m \in Messages : m \in Refunded(ms) <=> m \in ms
    BY <2>1 DEF Refunded, Billed, RefundIffUnsent
  <2>4. Refund(ms)
    BY <2>1 DEF EndPreGrant
  <2>5. \A m \in Messages : /\ ledger'[m].refunded <=> (ledger[m].refunded \/ m \in ms)
                            /\ ledger'[m] = NoEntry <=> ledger[m] = NoEntry
    BY <1>1, <2>3, <2>4, RefundShape
  <2>. QED  BY <2>1, <2>2, <2>5 DEF Billed, RefundIffUnsent
<1>4. CASE Moved
  <2>1. PICK m \in Messages, s \in Ongoing :
          /\ state' = [state EXCEPT ![m] = s] /\ state[m] \in Ongoing /\ UNCHANGED ledger
    BY <1>4 DEF Moved
  <2>. QED  BY <1>1, <2>1 DEF Billed, RefundIffUnsent, Ongoing, MessageState
<1>5. CASE Rebound \/ KeyEnded \/ Unaccounted
  BY <1>5 DEF Rebound, AcceptReplayNewKey, queueVars, KeyEnded, Unaccounted, Billed, RefundIffUnsent
<1>. QED  BY <1>2, <1>3, <1>4, <1>5, Coarsely

\* cancel, STOP, expiry and the late withdrawal refund a unit in the transaction
\* that ends the message; nothing that was ever granted and not taken back is.
THEOREM RefundsMatchEnds == StoreSpec => [](Billed /\ RefundIffUnsent)
<1>1. StoreInit => Billed /\ RefundIffUnsent
  BY DEF StoreInit, Billed, RefundIffUnsent, NoEntry
<1>2. StoreInv /\ Billed /\ RefundIffUnsent /\ [StoreNext]_storeVars =>
        Billed' /\ RefundIffUnsent'
  BY RefundStep
<1>. QED  BY <1>1, <1>2, StoreInvariant, PTL DEF StoreSpec

\* A month's sets of reserved and refunded messages are finite.
LEMMA MonthFinite ==
  ASSUME NEW p
  PROVE  /\ IsFiniteSet(Charged(p)) /\ Cardinality(Charged(p)) \in Nat
         /\ IsFiniteSet(Returned(p)) /\ Cardinality(Returned(p)) \in Nat
<1>1. Charged(p) \subseteq Messages /\ Returned(p) \subseteq Messages
  BY DEF Charged, Returned
<1>. QED  BY <1>1, StoreAssumption, FS_Subset, FS_CardinalityType

\* MeterBalanced in the terms of the two sets.
Balanced ==
  \A p \in 1..Months :
    /\ usage[p].reserved = Cardinality(Charged(p))
    /\ usage[p].refunded = Cardinality(Returned(p))
    /\ usage[p].reserved - usage[p].refunded <= QuotaLimit

\* Reservation and counter are raised together, under the limit; a refund raises
\* the other counter by as many as it marks.
LEMMA MeterStep ==
  ASSUME StoreInv, Billed, Balanced, [StoreNext]_storeVars
  PROVE  Balanced'
<1>1. /\ StoreTypeOK /\ month \in 1..Months
      /\ usage \in [1..Months -> PeriodRow]
      /\ ledger \in [Messages -> EntryRow \union {NoEntry}]
  BY DEF StoreInv, StoreTypeOK
<1>2. CASE Created
  <2>1. PICK k \in Keys, m \in Messages, r \in Request, elapsed \in BOOLEAN :
          AcceptCreate(k, m, r, elapsed)
    BY <1>2 DEF Created
  <2>2. state[m] = "absent" /\ QuotaLeft
    BY <2>1, AcceptedShape DEF AcceptCreate
  <2>3. ledger[m] = NoEntry
    BY <2>2 DEF Billed
  <2>4. \A n \in Messages :
          ledger'[n] = IF n = m THEN [month |-> month, refunded |-> FALSE] ELSE ledger[n]
    BY <1>1, <2>1 DEF AcceptCreate
  <2>5. /\ ledger'[m].month = month /\ ~ledger'[m].refunded
        /\ \A n \in Messages \ {m} : ledger'[n] = ledger[n]
    BY <2>4
  <2>6. /\ usage'[month].reserved = usage[month].reserved + 1
        /\ usage'[month].refunded = usage[month].refunded
        /\ \A q \in 1..Months : q # month => usage'[q] = usage[q]
    <3>1. usage' = [usage EXCEPT ![month] = [usage[month] EXCEPT !.reserved = @ + 1]]
      BY <2>1 DEF AcceptCreate
    <3>. QED  BY <1>1, <3>1
  <2>. SUFFICES ASSUME NEW p \in 1..Months
                PROVE  /\ usage'[p].reserved = Cardinality(Charged(p)')
                       /\ usage'[p].refunded = Cardinality(Returned(p)')
                       /\ usage'[p].reserved - usage'[p].refunded <= QuotaLimit
    BY DEF Balanced
  <2>7. m \notin Charged(p) /\ m \notin Returned(p)
    BY <1>1, <2>3, EntryShape DEF Charged, Returned
  <2>8. Returned(p)' = Returned(p)
    BY <2>5, <2>7 DEF Returned, Charged
  <2>9. /\ usage[p].reserved = Cardinality(Charged(p)) /\ usage[p].refunded = Cardinality(Returned(p))
        /\ usage[p].reserved - usage[p].refunded <= QuotaLimit
    BY DEF Balanced
  <2>10. CASE p = month
    <3>1. Charged(p)' = Charged(p) \union {m}
      BY <2>5, <2>7, <2>10 DEF Charged
    <3>2. Cardinality(Charged(p) \union {m}) = Cardinality(Charged(p)) + 1
      BY <2>7, MonthFinite, FS_AddElement
    <3>3. usage[p].reserved - usage[p].refunded < QuotaLimit
      BY <2>2, <2>10 DEF QuotaLeft
    <3>. QED  BY <2>6, <2>8, <2>9, <2>10, <3>1, <3>2, <3>3, MonthFinite, StoreAssumption
  <2>11. CASE p # month
    <3>1. Charged(p)' = Charged(p)
      BY <2>5, <2>7, <2>11 DEF Charged
    <3>. QED  BY <2>6, <2>8, <2>9, <2>11, <3>1
  <2>. QED  BY <2>10, <2>11
<1>3. CASE Ended
  <2>1. PICK ms \in SUBSET Messages, s \in {"cancelled", "expired"} : EndPreGrant(ms, s)
    BY <1>3 DEF Ended
  <2>2. Refund(ms)
    BY <2>1 DEF EndPreGrant
  <2>3. \A m \in Messages : /\ ledger'[m].month = ledger[m].month
                            /\ ledger'[m].refunded <=> (ledger[m].refunded \/ m \in Refunded(ms))
    BY <1>1, <2>2, RefundShape
  <2>. SUFFICES ASSUME NEW p \in 1..Months
                PROVE  /\ usage'[p].reserved = Cardinality(Charged(p)')
                       /\ usage'[p].refunded = Cardinality(Returned(p)')
                       /\ usage'[p].reserved - usage'[p].refunded <= QuotaLimit
    BY DEF Balanced
  <2>. DEFINE back == { m \in Refunded(ms) : ledger[m].month = p }
  <2>4. Charged(p)' = Charged(p)
    BY <2>3 DEF Charged
  <2>5. Returned(p)' = Returned(p) \union back /\ Returned(p) \cap back = {}
    BY <2>3 DEF Returned, Charged, Refunded
  <2>6. IsFiniteSet(back) /\ Cardinality(back) \in Nat
    <3>1. back \subseteq Messages
      BY DEF Refunded
    <3>. QED  BY <3>1, StoreAssumption, FS_Subset, FS_CardinalityType
  <2>7. /\ usage'[p].reserved = usage[p].reserved
        /\ usage'[p].refunded = usage[p].refunded + Cardinality(back)
    BY <1>1, <2>2 DEF Refund
  <2>. HIDE DEF back
  <2>8. Cardinality(Returned(p) \union back) = Cardinality(Returned(p)) + Cardinality(back)
    <3>1. Cardinality(Returned(p) \union back) =
            Cardinality(Returned(p)) + Cardinality(back) - Cardinality(Returned(p) \cap back)
      BY <2>6, MonthFinite, FS_Union
    <3>2. Cardinality(Returned(p) \cap back) = 0
      BY <2>5, FS_EmptySet
    <3>. QED  BY <2>6, <3>1, <3>2, MonthFinite
  <2>9. /\ usage[p].reserved = Cardinality(Charged(p)) /\ usage[p].refunded = Cardinality(Returned(p))
        /\ usage[p].reserved - usage[p].refunded <= QuotaLimit
    BY DEF Balanced
  <2>. QED  BY <2>4, <2>5, <2>6, <2>7, <2>8, <2>9, MonthFinite, StoreAssumption
<1>4. CASE Rebound \/ Moved \/ KeyEnded \/ Unaccounted
  <2>1. UNCHANGED <<usage, ledger>>
    BY <1>4 DEF Rebound, AcceptReplayNewKey, Moved, KeyEnded, Unaccounted
  <2>. QED  BY <2>1 DEF Balanced, Charged, Returned
<1>. QED  BY <1>2, <1>3, <1>4, Coarsely

\* usage_periods, kept by counters across acceptances, ends in other months and
\* batches of refunds, equals the ledger, and no month charges more than its limit.
THEOREM MeterIsBalanced == StoreSpec => []MeterBalanced
<1>1. StoreInit => Balanced
  <2>. SUFFICES ASSUME StoreInit, NEW p \in 1..Months
                PROVE  /\ usage[p].reserved = Cardinality(Charged(p))
                       /\ usage[p].refunded = Cardinality(Returned(p))
                       /\ usage[p].reserved - usage[p].refunded <= QuotaLimit
    BY DEF Balanced
  <2>1. Charged(p) = {} /\ Returned(p) = {}
    BY DEF StoreInit, Charged, Returned, NoEntry
  <2>2. usage[p].reserved = 0 /\ usage[p].refunded = 0
    BY DEF StoreInit
  <2>. QED  BY <2>1, <2>2, FS_EmptySet, StoreAssumption
<1>2. StoreInv /\ Billed /\ Balanced /\ [StoreNext]_storeVars => Balanced'
  BY MeterStep
<1>3. Balanced => MeterBalanced
  BY DEF Balanced, MeterBalanced, Charged, Returned
<1>. QED  BY <1>1, <1>2, <1>3, StoreInvariant, RefundsMatchEnds, PTL DEF StoreSpec

=============================================================================
