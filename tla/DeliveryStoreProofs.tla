------------------------ MODULE DeliveryStoreProofs ------------------------
(***************************************************************************)
(* Proofs about the delivery store, for every set of messages, attempts,   *)
(* devices, keys and event ids and every value of the bounds.              *)
(*                                                                         *)
(* The four rows of a message (messages, dispatch_jobs, message_attempts,  *)
(* dispatch_fences) only stay well formed together: a sweep writes the     *)
(* attempt its fence names, and evidence is recorded for the attempt that  *)
(* holds the fence.  StoreInv is therefore one inductive invariant.        *)
(***************************************************************************)
EXTENDS DeliveryStore, FiniteSetTheorems, TLAPS

USE DEF JobRow, AttemptRow, FenceRow, SessionRow, KeyRow, PeriodRow, EntryRow

\* An accepted message has the device and recipient of a request.
Requested == \A m \in Messages : state[m] # "absent" => request[m] \in Request

\* OneActivePerDevice without the cardinality.
ActiveAlone ==
  \A m, n \in Messages :
    /\ fence[m].outcome \in ActiveOutcome /\ fence[n].outcome \in ActiveOutcome
    /\ request[m].device = request[n].device
    => m = n

\* An event names an attempt that was granted.
EventsNamed == \A e \in events : attempt[e.attempt] # NoAttempt

RowsInv == /\ Requested /\ RowsAgree /\ ReplacedOnlyAfterProof
           /\ ActiveAlone /\ EventsNamed /\ ConflictIsFinal

StoreInv == StoreTypeOK /\ RowsInv

-----------------------------------------------------------------------------
(***************************************************************************)
(* The operators the transactions are built from.                          *)
(***************************************************************************)

\* What the transition table may answer to evidence from a device: a proof
\* requeues, anything else leaves the message submitting or beyond.
LEMMA ApplyRange ==
  ASSUME NEW s, NEW ev \in Evidence
  PROVE  /\ Apply(s, ev) \in MessageState \union {InvalidTransition}
         /\ ev = "proven_no_submit" => Apply(s, ev) \in {"queued", InvalidTransition}
         /\ ev \in (RadioEvidence \ {"proven_no_submit"}) \union {"partial_sent_callbacks"} =>
              Apply(s, ev) \in {"submitting", "submitted", "delivered", "delivery_unknown",
                                "unknown", "failed", InvalidTransition}
BY DEF Apply, Evidence, RadioEvidence, MessageState, InvalidTransition

\* The status a message state implies for its attempt and fence.
LEMMA StatusOfRange ==
  ASSUME NEW s
  PROVE  /\ StatusOf(s) \in Outcome \union {"none"}
         /\ s \in {"submitting", "submitted", "delivered", "delivery_unknown", "unknown",
                   "failed"} => StatusOf(s) \in Outcome
         /\ s \in {"absent", "queued", "claimed", "cancelled", "expired"} =>
              StatusOf(s) = "none"
BY DEF StatusOf, Outcome, ActiveOutcome

\* The state new radio evidence asks for, segment counting included.
LEMMA RadioNextRange ==
  ASSUME NEW v \in RadioEvent
  PROVE  /\ v.evidence = "proven_no_submit" => RadioNext(v) \in {"queued", InvalidTransition}
         /\ v.evidence # "proven_no_submit" =>
              RadioNext(v) \in {"submitting", "submitted", "delivered", "delivery_unknown",
                                "unknown", "failed", InvalidTransition}
<1>1. v.evidence \in RadioEvidence
  BY DEF RadioEvent
<1>2. v.evidence \in Evidence
  BY <1>1 DEF RadioEvidence, Evidence
<1>3. CASE v.evidence = "proven_no_submit"
  BY <1>2, <1>3, ApplyRange DEF RadioNext, SentCallback
<1>4. CASE v.evidence \in SentCallback
  <2>1. SentNext(v) \in {"submitting", "submitted", "delivered", "delivery_unknown",
                         "unknown", "failed", InvalidTransition}
    <3>1. /\ "sent_callback_failed" \in Evidence \cap (RadioEvidence \ {"proven_no_submit"})
          /\ "sent_callback_ok" \in Evidence \cap (RadioEvidence \ {"proven_no_submit"})
          /\ "partial_sent_callbacks" \in Evidence
      BY DEF Evidence, RadioEvidence
    <3>2. \A ev \in {"sent_callback_failed", "sent_callback_ok", "partial_sent_callbacks"} :
            Apply(state[v.message], ev) \in
              {"submitting", "submitted", "delivered", "delivery_unknown",
               "unknown", "failed", InvalidTransition}
      BY <3>1, ApplyRange
    <3>. QED  BY <3>2 DEF SentNext
  <2>. QED  BY <1>4, <2>1 DEF RadioNext, SentCallback
<1>5. CASE v.evidence \notin SentCallback \union {"proven_no_submit"}
  BY <1>1, <1>2, <1>5, ApplyRange DEF RadioNext, SentCallback
<1>. QED  BY <1>3, <1>4, <1>5

\* The writes that end messages before their grant keep every row in shape; the
\* counters of a month are raised by the size of a set of messages.
LEMMA EndPreGrantType ==
  ASSUME StoreTypeOK, NEW ms \in SUBSET Messages, NEW s \in {"cancelled", "expired"},
         EndPreGrant(ms, s)
  PROVE  /\ state' \in [Messages -> MessageState \union {"absent"}]
         /\ job' \in [Messages -> JobRow]
         /\ usage' \in [1..Months -> PeriodRow]
         /\ ledger' \in [Messages -> EntryRow \union {NoEntry}]
         /\ UNCHANGED <<request, expired, redacted, attempt, fence, events, idem, month>>
<1>1. state' \in [Messages -> MessageState \union {"absent"}]
  BY DEF EndPreGrant, StoreTypeOK, MessageState
<1>2. job' \in [Messages -> JobRow]
  <2>1. 0 \in 0..MaxEpoch
    BY StoreAssumption
  <2>2. job' = [m \in Messages |->
                  IF m \in ms THEN [job[m] EXCEPT !.owner = 0, !.live = FALSE, !.finished = TRUE]
                              ELSE job[m]]
    BY DEF EndPreGrant
  <2>3. \A m \in Messages :
          job[m] \in JobRow
    BY DEF StoreTypeOK
  <2>. QED  BY <2>1, <2>2, <2>3
<1>3. ledger' \in [Messages -> EntryRow \union {NoEntry}]
  BY DEF EndPreGrant, Refund, Refunded, StoreTypeOK
<1>4. usage' \in [1..Months -> PeriodRow]
  <2>1. \A p \in 1..Months :
          Cardinality({ m \in Refunded(ms) : ledger[m].month = p }) \in Nat
    <3>1. Refunded(ms) \subseteq Messages
      BY DEF Refunded
    <3>2. \A p \in 1..Months : IsFiniteSet({ m \in Refunded(ms) : ledger[m].month = p })
      BY <3>1, StoreAssumption, FS_Subset
    <3>. QED  BY <3>2, FS_CardinalityType
  <2>2. usage' = [p \in 1..Months |->
                    [usage[p] EXCEPT !.refunded =
                       @ + Cardinality({ m \in Refunded(ms) : ledger[m].month = p })]]
    BY DEF EndPreGrant, Refund
  <2>3. \A p \in 1..Months : usage[p] \in PeriodRow
    BY DEF StoreTypeOK
  <2>4. ASSUME NEW p \in 1..Months
        PROVE  [usage[p] EXCEPT !.refunded =
                  @ + Cardinality({ m \in Refunded(ms) : ledger[m].month = p })] \in PeriodRow
    BY <2>1, <2>3
  <2>. QED  BY <2>2, <2>4
<1>5. UNCHANGED <<request, expired, redacted, attempt, fence, events, idem, month>>
  BY DEF EndPreGrant, Refund, attemptVars
<1>. QED  BY <1>1, <1>2, <1>3, <1>4, <1>5

\* Evidence is only recorded for the attempt that holds the fence of its message.
LEMMA RecordedShape ==
  ASSUME StoreTypeOK, NEW v \in RadioEvent, RadioResult(v) = "recorded"
  PROVE  /\ state[v.message] # "absent" /\ v.message \notin redacted
         /\ Fenced(v) /\ ~Contradicted(v) /\ ~IndexRefuses(v)
         /\ RadioNext(v) # InvalidTransition
         /\ v.message \in Messages /\ v.attempt \in Attempts
         /\ attempt[v.attempt] # NoAttempt /\ attempt[v.attempt].message = v.message
         /\ fence[v.message] # NoFence /\ fence[v.message].attempt = v.attempt
<1>1. /\ state[v.message] # "absent" /\ v.message \notin redacted
      /\ Fenced(v) /\ ~Contradicted(v) /\ ~IndexRefuses(v)
      /\ RadioNext(v) # InvalidTransition
  BY DEF RadioResult
<1>2. v.message \in Messages /\ v.attempt \in Attempts
  BY DEF RadioEvent
<1>3. attempt[v.attempt].message = v.message /\ fence[v.message].attempt = v.attempt
  BY <1>1 DEF Fenced
<1>4. attempt[v.attempt] # NoAttempt /\ fence[v.message] # NoFence
  BY <1>2, <1>3, StoreAssumption DEF NoAttempt, NoFence
<1>. QED  BY <1>1, <1>2, <1>3, <1>4

\* Nothing recorded for an attempt changes unless an event of it comes or goes.
LEMMA RecordedFrame ==
  ASSUME NEW a, UNCHANGED events
  PROVE  /\ Conflicted(a)' = Conflicted(a)
         /\ Contrary(a)' = Contrary(a)
BY DEF Conflicted, Contrary, Recorded

-----------------------------------------------------------------------------
(***************************************************************************)
(* Transactions that leave the rows of every message as they tell it.      *)
(***************************************************************************)
\* The rows of a message keep agreeing while none of them is written.
LEMMA RowsFrame ==
  ASSUME StoreTypeOK, RowsInv, UNCHANGED <<state, request, attempt, fence, events>>,
         \A m \in Messages : job'[m].granted = job[m].granted
  PROVE  RowsInv'
<1>1. Requested'
  BY DEF RowsInv, Requested
<1>2. RowsAgree'
  BY DEF RowsInv, RowsAgree
<1>3. ReplacedOnlyAfterProof'
  BY RecordedFrame DEF RowsInv, ReplacedOnlyAfterProof
<1>4. ActiveAlone'
  BY DEF RowsInv, ActiveAlone
<1>5. EventsNamed'
  BY DEF RowsInv, EventsNamed
<1>6. ConflictIsFinal'
  BY RecordedFrame DEF RowsInv, ConflictIsFinal
<1>. QED  BY <1>1, <1>2, <1>3, <1>4, <1>5, <1>6 DEF RowsInv

\* The empty database satisfies the invariant.
LEMMA InitInv == StoreInit => StoreInv
<1>. SUFFICES ASSUME StoreInit PROVE StoreInv
  OBVIOUS
<1>1. StoreTypeOK
  <2>1. /\ 0 \in 0..MaxGeneration /\ 0 \in 0..MaxEpoch /\ 0 \in 0..MaxDeployment
        /\ 1 \in 1..MaxDeployment /\ 1 \in 1..Months
    BY StoreAssumption
  <2>2. /\ job \in [Messages -> JobRow]
        /\ session \in [Devices -> SessionRow]
        /\ authority \in [epoch: 1..MaxDeployment, dispatch: BOOLEAN, open: BOOLEAN]
    BY <2>1 DEF StoreInit, NewJob
  <2>3. usage \in [1..Months -> PeriodRow] /\ month \in 1..Months
    BY <2>1 DEF StoreInit
  <2>4. /\ state \in [Messages -> MessageState \union {"absent"}]
        /\ request \in [Messages -> Request \union {NoRequest}]
        /\ attempt \in [Attempts -> AttemptRow \union {NoAttempt}]
        /\ fence \in [Messages -> FenceRow \union {NoFence}]
        /\ idem \in [Keys -> KeyRow \union {NoKey}]
        /\ ledger \in [Messages -> EntryRow \union {NoEntry}]
    BY DEF StoreInit
  <2>. QED  BY <2>2, <2>3, <2>4 DEF StoreInit, StoreTypeOK
<1>2. /\ \A m \in Messages : /\ state[m] = "absent" /\ fence[m] = NoFence
                              /\ fence[m].outcome = "none" /\ ~job[m].granted
      /\ \A a \in Attempts : attempt[a] = NoAttempt
      /\ events = {}
  BY DEF StoreInit, NoFence, NewJob
<1>3. Requested /\ RowsAgree /\ ReplacedOnlyAfterProof /\ EventsNamed
  BY <1>2 DEF Requested, RowsAgree, ReplacedOnlyAfterProof, EventsNamed
<1>4. ActiveAlone
  BY <1>2 DEF ActiveAlone, ActiveOutcome
<1>5. ConflictIsFinal
  BY <1>2 DEF ConflictIsFinal, Conflicted, Recorded
<1>. QED  BY <1>1, <1>3, <1>4, <1>5 DEF StoreInv, RowsInv

\* Deadlines, operators, sessions, keys and the claims that lapse.
LEMMA QuietSteps ==
  ASSUME StoreInv,
         \/ \E r \in Recipients : Resume(r)
         \/ \E d \in Devices : ConnectSession(d)
         \/ \E d \in Devices, e \in 1..MaxEpoch : EndLease(d, e)
         \/ \E k \in Keys : PruneKey(k) \/ KeyExpires(k)
         \/ \E m \in Messages : RedactMessage(m) \/ MessageExpires(m) \/ ClaimLapses(m)
         \/ MonthEnds \/ Operator \/ UNCHANGED storeVars
         \/ \E k \in Keys, m \in Messages, r \in Request, elapsed \in BOOLEAN :
              AcceptReplayNewKey(k, m, r, elapsed)
  PROVE  StoreInv'
<1>. USE DEF StoreInv, queueVars, attemptVars, controlVars, meterVars
<1>1. ASSUME NEW r \in Recipients, Resume(r) PROVE StoreInv'
  <2>1. StoreTypeOK'
    BY <1>1 DEF Resume, StoreTypeOK
  <2>. QED  BY <1>1, <2>1, RowsFrame DEF Resume
<1>2. ASSUME NEW d \in Devices, ConnectSession(d) PROVE StoreInv'
  <2>1. session' \in [Devices -> SessionRow]
    BY <1>2, StoreAssumption DEF ConnectSession, StoreTypeOK
  <2>2. StoreTypeOK'
    BY <1>2, <2>1 DEF ConnectSession, StoreTypeOK
  <2>. QED  BY <1>2, <2>2, RowsFrame DEF ConnectSession
<1>3. ASSUME NEW d \in Devices, NEW e \in 1..MaxEpoch, EndLease(d, e) PROVE StoreInv'
  <2>1. session' \in [Devices -> SessionRow]
    <3>1. session \in [Devices -> SessionRow]
      BY DEF StoreTypeOK
    <3>2. session' = [session EXCEPT ![d].live = FALSE]
      BY <1>3 DEF EndLease
    <3>. QED  BY ONLY <3>1, <3>2
  <2>2. StoreTypeOK'
    BY <1>3, <2>1 DEF EndLease, StoreTypeOK
  <2>. QED  BY <1>3, <2>2, RowsFrame DEF EndLease
<1>4. ASSUME NEW k \in Keys, PruneKey(k) \/ KeyExpires(k) PROVE StoreInv'
  <2>1. idem' \in [Keys -> KeyRow \union {NoKey}]
    <3>1. idem \in [Keys -> KeyRow \union {NoKey}]
      BY DEF StoreTypeOK
    <3>2. CASE PruneKey(k)
      BY <3>1, <3>2 DEF PruneKey
    <3>3. CASE KeyExpires(k)
      <4>1. idem[k] \in KeyRow
        BY <3>1, <3>3 DEF KeyExpires, NoKey
      <4>2. [idem[k] EXCEPT !.live = FALSE] \in KeyRow
        BY ONLY <4>1
      <4>3. idem' = [idem EXCEPT ![k] = [idem[k] EXCEPT !.live = FALSE]]
        BY <3>3 DEF KeyExpires
      <4>. QED  BY ONLY <3>1, <4>2, <4>3
    <3>. QED  BY <1>4, <3>2, <3>3
  <2>2. StoreTypeOK'
    BY <1>4, <2>1 DEF PruneKey, KeyExpires, StoreTypeOK
  <2>. QED  BY <1>4, <2>2, RowsFrame DEF PruneKey, KeyExpires
<1>5. ASSUME NEW m \in Messages, RedactMessage(m) \/ MessageExpires(m) PROVE StoreInv'
  <2>1. StoreTypeOK'
    BY <1>5 DEF RedactMessage, MessageExpires, StoreTypeOK
  <2>. QED  BY <1>5, <2>1, RowsFrame DEF RedactMessage, MessageExpires
<1>6. ASSUME NEW m \in Messages, ClaimLapses(m) PROVE StoreInv'
  <2>1. /\ job' \in [Messages -> JobRow]
        /\ \A n \in Messages : job'[n].granted = job[n].granted
    <3>1. job \in [Messages -> JobRow]
      BY DEF StoreTypeOK
    <3>2. job' = [job EXCEPT ![m].live = FALSE]
      BY <1>6 DEF ClaimLapses
    <3>. QED  BY ONLY <3>1, <3>2
  <2>2. StoreTypeOK'
    BY <1>6, <2>1 DEF ClaimLapses, StoreTypeOK
  <2>. QED  BY <1>6, <2>1, <2>2, RowsFrame DEF ClaimLapses
<1>7. ASSUME MonthEnds PROVE StoreInv'
  <2>1. month' \in 1..Months
    BY <1>7, StoreAssumption DEF MonthEnds, StoreTypeOK
  <2>2. StoreTypeOK'
    BY <1>7, <2>1 DEF MonthEnds, StoreTypeOK
  <2>. QED  BY <1>7, <2>2, RowsFrame DEF MonthEnds
<1>8. ASSUME NEW d \in Devices, Revoke(d) PROVE StoreInv'
  <2>1. session' \in [Devices -> SessionRow]
    <3>1. session \in [Devices -> SessionRow]
      BY DEF StoreTypeOK
    <3>2. session' = [session EXCEPT ![d].live = FALSE]
      BY <1>8 DEF Revoke
    <3>. QED  BY ONLY <3>1, <3>2
  <2>2. StoreTypeOK'
    BY <1>8, <2>1 DEF Revoke, StoreTypeOK
  <2>. QED  BY <1>8, <2>2, RowsFrame DEF Revoke
<1>9. ASSUME ChangeAuthority PROVE StoreInv'
  <2>1. authority' \in [epoch: 1..MaxDeployment, dispatch: BOOLEAN, open: BOOLEAN]
    <3>1. authority \in [epoch: 1..MaxDeployment, dispatch: BOOLEAN, open: BOOLEAN]
      BY DEF StoreTypeOK
    <3>2. \/ authority' = [authority EXCEPT !.dispatch = ~authority.dispatch]
          \/ authority' = [authority EXCEPT !.open = ~authority.open]
          \/ /\ authority.epoch < MaxDeployment
             /\ authority' = [authority EXCEPT !.epoch = authority.epoch + 1, !.dispatch = FALSE]
      BY <1>9 DEF ChangeAuthority
    <3>3. /\ authority.epoch \in 1..MaxDeployment
          /\ authority.dispatch \in BOOLEAN /\ authority.open \in BOOLEAN
          /\ authority = [epoch |-> authority.epoch, dispatch |-> authority.dispatch,
                          open |-> authority.open]
      BY ONLY <3>1
    <3>4. CASE authority' = [authority EXCEPT !.dispatch = ~authority.dispatch]
      <4>1. (~authority.dispatch) \in BOOLEAN
        OBVIOUS
      <4>. QED  BY ONLY <3>1, <3>4, <4>1
    <3>5. CASE authority' = [authority EXCEPT !.open = ~authority.open]
      <4>1. (~authority.open) \in BOOLEAN
        OBVIOUS
      <4>. QED  BY ONLY <3>1, <3>5, <4>1
    <3>6. CASE /\ authority.epoch < MaxDeployment
               /\ authority' = [authority EXCEPT !.epoch = authority.epoch + 1,
                                                 !.dispatch = FALSE]
      <4>1. authority.epoch + 1 \in 1..MaxDeployment
        BY ONLY <3>3, <3>6, StoreAssumption
      <4>. QED  BY ONLY <3>1, <3>6, <4>1
    <3>. QED  BY <3>2, <3>4, <3>5, <3>6
  <2>2. StoreTypeOK'
    BY <1>9, <2>1 DEF ChangeAuthority, StoreTypeOK
  <2>. QED  BY <1>9, <2>2, RowsFrame DEF ChangeAuthority
<1>10. ASSUME UNCHANGED storeVars PROVE StoreInv'
  <2>1. StoreTypeOK'
    BY <1>10 DEF storeVars, StoreTypeOK
  <2>. QED  BY <1>10, <2>1, RowsFrame DEF storeVars
<1>11. ASSUME NEW k \in Keys, NEW m \in Messages, NEW r \in Request, NEW elapsed \in BOOLEAN,
              AcceptReplayNewKey(k, m, r, elapsed)
       PROVE  StoreInv'
  <2>1. idem' \in [Keys -> KeyRow \union {NoKey}]
    BY <1>11 DEF AcceptReplayNewKey, BindKey, StoreTypeOK
  <2>2. StoreTypeOK'
    BY <1>11, <2>1 DEF AcceptReplayNewKey, StoreTypeOK
  <2>. QED  BY <1>11, <2>2, RowsFrame DEF AcceptReplayNewKey
<1>. QED
  BY <1>1, <1>2, <1>3, <1>4, <1>5, <1>6, <1>7, <1>8, <1>9, <1>10, <1>11 DEF Operator

-----------------------------------------------------------------------------
(***************************************************************************)
(* Before the grant.                                                       *)
(***************************************************************************)

\* A message without a grant has no fence, and no active outcome.
LEMMA Ungranted ==
  ASSUME StoreInv, NEW m \in Messages
  PROVE  /\ ~job[m].granted => fence[m] = NoFence
         /\ state[m] = "absent" => fence[m] = NoFence
         /\ fence[m] = NoFence => fence[m].outcome \notin ActiveOutcome
         /\ fence[m] # NoFence => /\ fence[m].attempt \in Attempts
                                  /\ fence[m].outcome \in Outcome
                                  /\ attempt[fence[m].attempt].message = m
                                  /\ attempt[fence[m].attempt] # NoAttempt
<1>1. fence[m] = NoFence \/ (fence[m].attempt \in Attempts /\ fence[m].outcome \in Outcome)
  BY DEF StoreInv, StoreTypeOK
<1>2. fence[m] # NoFence =>
        /\ attempt[fence[m].attempt] = [message |-> m, status |-> fence[m].outcome]
        /\ fence[m].outcome = IF state[m] = "claimed" THEN "granted" ELSE StatusOf(state[m])
  BY DEF StoreInv, RowsInv, RowsAgree
<1>3. ~job[m].granted => fence[m] = NoFence
  BY DEF StoreInv, RowsInv, RowsAgree
<1>4. state[m] = "absent" => fence[m] = NoFence
  BY <1>1, <1>2, StatusOfRange DEF Outcome, ActiveOutcome
<1>5. fence[m] = NoFence => fence[m].outcome \notin ActiveOutcome
  BY DEF NoFence, ActiveOutcome
<1>6. fence[m] # NoFence => attempt[fence[m].attempt] # NoAttempt
  BY <1>2, StoreAssumption DEF NoAttempt
<1>. QED  BY <1>1, <1>2, <1>3, <1>4, <1>5, <1>6

\* A conflicting callback is recorded for the attempt that holds the fence, so a
\* message without a fence has none.
LEMMA ConflictFenced ==
  ASSUME StoreInv, NEW a \in Attempts, Conflicted(a)
  PROVE  /\ attempt[a].message \in Messages /\ attempt[a] # NoAttempt
         /\ state[attempt[a].message] = "unknown"
         /\ fence[attempt[a].message].attempt = a
         /\ fence[attempt[a].message] # NoFence
<1>1. attempt[a] # NoAttempt
  BY DEF StoreInv, RowsInv, EventsNamed, Conflicted, Recorded
<1>2. attempt[a].message \in Messages
  BY <1>1 DEF StoreInv, StoreTypeOK
<1>3. state[attempt[a].message] = "unknown" /\ fence[attempt[a].message].attempt = a
  BY DEF StoreInv, RowsInv, ConflictIsFinal
<1>. QED  BY <1>1, <1>2, <1>3, StoreAssumption DEF NoFence

\* A step that changes the state of messages without a fence only, and grants
\* nothing, keeps the rows in agreement.
LEMMA UnfencedStep ==
  ASSUME StoreInv, UNCHANGED <<attempt, fence, events>>,
         \A m \in Messages : job'[m].granted = job[m].granted,
         \A m \in Messages :
           \/ state'[m] = state[m] /\ request'[m] = request[m]
           \/ /\ fence[m] = NoFence /\ request'[m] \in Request
              /\ state'[m] \in {"queued", "claimed", "cancelled", "expired"}
  PROVE  RowsInv'
<1>1. Requested'
  BY DEF StoreInv, RowsInv, Requested
<1>2. RowsAgree'
  BY DEF StoreInv, RowsInv, RowsAgree
<1>3. ReplacedOnlyAfterProof'
  BY RecordedFrame DEF StoreInv, RowsInv, ReplacedOnlyAfterProof
<1>4. ActiveAlone'
  BY Ungranted DEF StoreInv, RowsInv, ActiveAlone
<1>5. EventsNamed'
  BY DEF StoreInv, RowsInv, EventsNamed
<1>6. ConflictIsFinal'
  BY RecordedFrame, ConflictFenced DEF ConflictIsFinal
<1>. QED  BY <1>1, <1>2, <1>3, <1>4, <1>5, <1>6 DEF RowsInv

\* Acceptance creates the row and the job of a message that had neither a fence
\* nor a grant: a state "absent" implies no outcome.
LEMMA AcceptCreateStep ==
  ASSUME StoreInv, NEW k \in Keys, NEW m \in Messages, NEW r \in Request,
         NEW elapsed \in BOOLEAN, AcceptCreate(k, m, r, elapsed)
  PROVE  StoreInv'
<1>1. state[m] = "absent"
  BY DEF AcceptCreate, AcceptResult
<1>2. fence[m] = NoFence /\ ~job[m].granted
  BY <1>1, Ungranted DEF StoreInv, RowsInv, RowsAgree
<1>3. StoreTypeOK'
  <2>. USE DEF StoreInv, queueVars, attemptVars, controlVars, meterVars
  <2>1. job' \in [Messages -> JobRow]
    BY StoreAssumption DEF AcceptCreate, NewJob, StoreTypeOK
  <2>2. idem' \in [Keys -> KeyRow \union {NoKey}]
    BY DEF AcceptCreate, BindKey, StoreTypeOK
  <2>3. usage' \in [1..Months -> PeriodRow]
    <3>1. usage \in [1..Months -> PeriodRow] /\ month \in 1..Months
      BY DEF StoreTypeOK
    <3>2. usage' = [usage EXCEPT ![month].reserved = @ + 1]
      BY DEF AcceptCreate
    <3>. QED  BY ONLY <3>1, <3>2
  <2>4. ledger' \in [Messages -> EntryRow \union {NoEntry}]
    BY DEF AcceptCreate, StoreTypeOK
  <2>5. /\ state' \in [Messages -> MessageState \union {"absent"}]
        /\ request' \in [Messages -> Request \union {NoRequest}]
    BY DEF AcceptCreate, StoreTypeOK, MessageState
  <2>. QED  BY <2>1, <2>2, <2>3, <2>4, <2>5 DEF AcceptCreate, StoreTypeOK
<1>4. RowsInv'
  <2>1. UNCHANGED <<attempt, fence, events>>
    BY DEF AcceptCreate, attemptVars
  <2>2. \A n \in Messages : job'[n].granted = job[n].granted
    BY <1>2 DEF AcceptCreate, NewJob, StoreInv, StoreTypeOK
  <2>3. \A n \in Messages : \/ state'[n] = state[n] /\ request'[n] = request[n]
                            \/ n = m /\ state'[n] = "queued" /\ request'[n] = r
    BY DEF AcceptCreate, StoreInv, StoreTypeOK
  <2>. QED  BY <1>2, <2>1, <2>2, <2>3, UnfencedStep
<1>. QED  BY <1>3, <1>4 DEF StoreInv

\* Cancellation, expiry and withdrawals end messages that have no fence.
LEMMA EndPreGrantStep ==
  ASSUME StoreInv, NEW ms \in SUBSET Messages, NEW s \in {"cancelled", "expired"},
         EndPreGrant(ms, s), UNCHANGED <<session, authority, revoked>>,
         suppressed' \subseteq Recipients,
         \A m \in ms : state[m] # "absent" /\ ~job[m].granted
  PROVE  StoreInv'
<1>1. StoreTypeOK'
  <2>1. StoreTypeOK
    BY DEF StoreInv
  <2>2. /\ state' \in [Messages -> MessageState \union {"absent"}]
        /\ job' \in [Messages -> JobRow]
        /\ usage' \in [1..Months -> PeriodRow]
        /\ ledger' \in [Messages -> EntryRow \union {NoEntry}]
        /\ UNCHANGED <<request, expired, redacted, attempt, fence, events, idem, month>>
    BY <2>1, EndPreGrantType
  <2>. QED  BY <2>1, <2>2 DEF StoreTypeOK
<1>2. UNCHANGED <<request, attempt, fence, events>>
  BY EndPreGrantType DEF StoreInv
<1>3. \A m \in Messages : job'[m].granted = job[m].granted
  <2>1. \A m \in Messages :
          job[m] \in JobRow
    BY DEF StoreInv, StoreTypeOK
  <2>. QED  BY <2>1 DEF EndPreGrant
<1>4. \A m \in Messages : state'[m] = state[m] \/ (m \in ms /\ state'[m] = s)
  BY DEF EndPreGrant
<1>5. \A m \in ms : fence[m] = NoFence /\ request[m] \in Request
  BY Ungranted DEF StoreInv, RowsInv, Requested
<1>6. RowsInv'
  BY <1>2, <1>3, <1>4, <1>5, UnfencedStep
<1>. QED  BY <1>1, <1>6 DEF StoreInv

\* A claim, also one that takes over a lapsed lease, finds no grant and no fence.
LEMMA ClaimDueStep ==
  ASSUME StoreInv, NEW m \in Messages, NEW e \in 1..MaxEpoch, ClaimDue(m, e)
  PROVE  StoreInv'
<1>. USE DEF queueVars, attemptVars, controlVars, meterVars
<1>1. job \in [Messages -> JobRow]
  BY DEF StoreInv, StoreTypeOK
<1>2. job' = [job EXCEPT ![m].generation = @ + 1, ![m].owner = e, ![m].live = TRUE]
  BY DEF ClaimDue
<1>3. job[m].generation + 1 \in 0..MaxGeneration /\ e \in 0..MaxEpoch
  BY <1>1, StoreAssumption DEF ClaimDue
<1>4. /\ job' \in [Messages -> JobRow]
      /\ \A n \in Messages : job'[n].granted = job[n].granted
  BY ONLY <1>1, <1>2, <1>3
<1>5. state' \in [Messages -> MessageState \union {"absent"}]
  BY DEF ClaimDue, StoreInv, StoreTypeOK, MessageState
<1>6. StoreTypeOK'
  BY <1>4, <1>5 DEF ClaimDue, StoreInv, StoreTypeOK
<1>7. fence[m] = NoFence /\ request[m] \in Request
  BY Ungranted DEF ClaimDue, Claimable, StoreInv, RowsInv, Requested
<1>8. \A n \in Messages : state'[n] = state[n] \/ (n = m /\ state'[n] = "claimed")
  BY DEF ClaimDue, StoreInv, StoreTypeOK
<1>9. UNCHANGED <<request, attempt, fence, events>>
  BY DEF ClaimDue
<1>10. RowsInv'
  BY <1>4, <1>7, <1>8, <1>9, UnfencedStep
<1>. QED  BY <1>6, <1>10 DEF StoreInv

-----------------------------------------------------------------------------
(***************************************************************************)
(* The grant, and what is recorded after it.                               *)
(***************************************************************************)

\* A grant starts an attempt nothing was recorded for, on a device with no other.
LEMMA IssueGrantStep ==
  ASSUME StoreInv, NEW m \in Messages, NEW g \in 1..MaxGeneration, NEW e \in 1..MaxEpoch,
         NEW a \in Attempts, IssueGrant(m, g, e, a)
  PROVE  StoreInv'
<1>. DEFINE f == [attempt |-> a, epoch |-> e, deployment |-> authority.epoch,
                  outcome |-> "granted", live |-> TRUE]
<1>1. /\ state[m] = "claimed" /\ attempt[a] = NoAttempt /\ fence[m] = NoFence
      /\ Active(request[m].device) = {}
      /\ attempt' = [attempt EXCEPT ![a] = [message |-> m, status |-> "granted"]]
      /\ fence' = [fence EXCEPT ![m] = f]
      /\ job' = [job EXCEPT ![m].granted = TRUE]
      /\ UNCHANGED <<state, request, expired, redacted, events, controlVars, meterVars>>
  BY DEF IssueGrant, GrantCurrent
<1>2. UNCHANGED <<state, request, events>>
  BY <1>1
<1>3. StoreTypeOK
  BY DEF StoreInv
<1>4. f # NoFence /\ f.attempt = a /\ f.outcome = "granted"
  BY StoreAssumption DEF NoFence
<1>5. \A n \in Messages : fence'[n] = IF n = m THEN f ELSE fence[n]
  BY <1>1, <1>3 DEF StoreTypeOK
<1>6. \A b \in Attempts :
        attempt'[b] = IF b = a THEN [message |-> m, status |-> "granted"] ELSE attempt[b]
  BY <1>1, <1>3 DEF StoreTypeOK
<1>7. \A n \in Messages : job'[n].granted = IF n = m THEN TRUE ELSE job[n].granted
  BY <1>1, <1>3 DEF StoreTypeOK
<1>8. \A n \in Messages : fence[n] # NoFence => fence[n].attempt # a
  BY <1>1, Ungranted
<1>9. StoreTypeOK'
  <2>1. f \in FenceRow
    BY <1>3 DEF StoreTypeOK, Outcome, ActiveOutcome
  <2>2. fence' \in [Messages -> FenceRow \union {NoFence}]
    BY <1>1, <1>3, <2>1 DEF StoreTypeOK
  <2>3. attempt' \in [Attempts -> AttemptRow \union {NoAttempt}]
    BY <1>1, <1>3 DEF StoreTypeOK, AttemptStatus, Outcome, ActiveOutcome
  <2>4. job' \in [Messages -> JobRow]
    <3>1. job \in [Messages -> JobRow]
      BY <1>3 DEF StoreTypeOK
    <3>. QED  BY ONLY <1>1, <3>1
  <2>. QED  BY <1>1, <1>3, <2>2, <2>3, <2>4 DEF StoreTypeOK, controlVars, meterVars
<1>10. Requested'
  BY <1>2 DEF StoreInv, RowsInv, Requested
<1>11. RowsAgree'
  <2>. SUFFICES ASSUME NEW n \in Messages
                PROVE  /\ job'[n].granted <=> fence'[n] # NoFence
                       /\ fence'[n] = NoFence =>
                            state'[n] \in {"absent", "queued", "claimed", "cancelled", "expired"}
                       /\ fence'[n] # NoFence =>
                            /\ attempt'[fence'[n].attempt] =
                                 [message |-> n, status |-> fence'[n].outcome]
                            /\ fence'[n].outcome =
                                 IF state'[n] = "claimed" THEN "granted" ELSE StatusOf(state'[n])
    BY Zenon DEF RowsAgree, StatusOf
  <2>1. CASE n = m
    BY <1>1, <1>2, <1>4, <1>5, <1>6, <1>7, <2>1
  <2>2. CASE n # m
    <3>1. fence'[n] = fence[n] /\ job'[n].granted = job[n].granted /\ state'[n] = state[n]
      BY <1>2, <1>5, <1>7, <2>2
    <3>2. fence[n] # NoFence => attempt'[fence[n].attempt] = attempt[fence[n].attempt]
      BY <1>6, <1>8, Ungranted
    <3>. QED  BY <3>1, <3>2 DEF StoreInv, RowsInv, RowsAgree
  <2>. QED  BY <2>1, <2>2
<1>12. ReplacedOnlyAfterProof'
  <2>. SUFFICES ASSUME NEW b \in Attempts, attempt'[b] # NoAttempt,
                       fence'[attempt'[b].message].attempt # b
                PROVE  attempt'[b].status = "proved_no_submit" /\ ~Contrary(b)'
    BY DEF ReplacedOnlyAfterProof
  <2>1. b # a
    BY <1>4, <1>5, <1>6
  <2>2. attempt[b] # NoAttempt /\ attempt'[b] = attempt[b]
    BY <1>6, <2>1
  <2>3. attempt[b].message \in Messages
    BY <1>3, <2>2 DEF StoreTypeOK
  <2>4. fence[attempt[b].message].attempt # b
    BY <1>1, <1>5, <2>2, <2>3, StoreAssumption DEF NoFence
  <2>. QED  BY <1>2, <2>2, <2>4, RecordedFrame DEF StoreInv, RowsInv, ReplacedOnlyAfterProof
<1>13. ActiveAlone'
  <2>1. \A n \in Messages : request[n].device = request[m].device =>
          fence[n].outcome \notin ActiveOutcome
    BY <1>1 DEF Active
  <2>. QED  BY <1>2, <1>5, <2>1 DEF StoreInv, RowsInv, ActiveAlone
<1>14. EventsNamed'
  <2>1. [message |-> m, status |-> "granted"] # NoAttempt
    BY StoreAssumption DEF NoAttempt
  <2>2. \A x \in events : x.attempt \in Attempts
    BY <1>3 DEF StoreTypeOK, RadioEvent, SweepEvents
  <2>. QED  BY <1>2, <1>6, <2>1, <2>2 DEF StoreInv, RowsInv, EventsNamed
<1>15. ConflictIsFinal'
  <2>. SUFFICES ASSUME NEW b \in Attempts, Conflicted(b)'
                PROVE  /\ state'[attempt'[b].message] = "unknown"
                       /\ fence'[attempt'[b].message].attempt = b
    BY DEF ConflictIsFinal
  <2>1. Conflicted(b)
    BY <1>2, RecordedFrame
  <2>2. b # a /\ attempt'[b] = attempt[b] /\ attempt[b].message \in Messages
    BY <1>1, <1>6, <2>1, ConflictFenced
  <2>3. attempt[b].message # m
    BY <1>1, <2>1, ConflictFenced
  <2>. QED  BY <1>2, <1>5, <2>1, <2>2, <2>3, ConflictFenced
<1>. QED  BY <1>9, <1>10, <1>11, <1>12, <1>13, <1>14, <1>15 DEF StoreInv, RowsInv

\* Evidence x moves message m, the attempt a that holds its fence and the fence
\* together to state s and its outcome: sweeps, and every radio event but a proof.
LEMMA EvidenceStep ==
  ASSUME StoreInv, NEW m \in Messages, NEW a \in Attempts, NEW s \in MessageState,
         NEW o \in Outcome, NEW x \in RadioEvent \union SweepEvents,
         fence[m] # NoFence, fence[m].attempt = a, x.attempt = a,
         s # "claimed", StatusOf(s) = o,
         state' = [state EXCEPT ![m] = s],
         attempt' = [attempt EXCEPT ![a].status = o],
         fence' = [fence EXCEPT ![m].outcome = o],
         events' = events \union {x},
         UNCHANGED <<request, expired, redacted, job, controlVars, meterVars>>,
         o \in ActiveOutcome =>
           \A n \in Messages \ {m} : fence[n].outcome \in ActiveOutcome =>
                                     request[n].device # request[m].device,
         Conflicted(a) \/ x.evidence = "callback_conflict" => s = "unknown"
  PROVE  StoreInv'
<1>1. StoreTypeOK /\ UNCHANGED <<request, job>>
  BY DEF StoreInv
<1>2. /\ attempt[a] = [message |-> m, status |-> fence[m].outcome]
      /\ attempt[a] # NoAttempt /\ state[m] # "absent" /\ job[m].granted
  BY Ungranted DEF StoreInv, RowsInv, RowsAgree
<1>3. fence[m] \in FenceRow
  BY <1>1 DEF StoreTypeOK
<1>4. /\ [fence[m] EXCEPT !.outcome = o] \in FenceRow
      /\ [fence[m] EXCEPT !.outcome = o].attempt = a
      /\ [fence[m] EXCEPT !.outcome = o].outcome = o
  BY <1>3
<1>5. /\ \A n \in Messages : n # m => fence'[n] = fence[n]
      /\ fence'[m] = [fence[m] EXCEPT !.outcome = o]
  BY <1>1 DEF StoreTypeOK
<1>6. fence'[m].attempt = a /\ fence'[m].outcome = o /\ fence'[m] # NoFence
  BY <1>4, <1>5, StoreAssumption DEF NoFence
<1>7. /\ \A b \in Attempts : b # a => attempt'[b] = attempt[b]
      /\ attempt'[a] = [message |-> m, status |-> o]
  BY <1>1, <1>2 DEF StoreTypeOK
<1>8. \A n \in Messages : state'[n] = IF n = m THEN s ELSE state[n]
  BY <1>1 DEF StoreTypeOK
<1>9. StoreTypeOK'
  <2>1. fence' \in [Messages -> FenceRow \union {NoFence}]
    BY <1>1, <1>4 DEF StoreTypeOK
  <2>2. attempt' \in [Attempts -> AttemptRow \union {NoAttempt}]
    BY <1>1, <1>7 DEF StoreTypeOK, AttemptStatus
  <2>3. /\ state' \in [Messages -> MessageState \union {"absent"}]
        /\ events' \subseteq RadioEvent \union SweepEvents
    BY <1>1 DEF StoreTypeOK
  <2>. QED  BY <1>1, <2>1, <2>2, <2>3 DEF StoreTypeOK, controlVars, meterVars
<1>10. Requested'
  BY <1>1, <1>2, <1>8 DEF StoreInv, RowsInv, Requested
<1>11. RowsAgree'
  <2>. SUFFICES ASSUME NEW n \in Messages
                PROVE  /\ job'[n].granted <=> fence'[n] # NoFence
                       /\ fence'[n] = NoFence =>
                            state'[n] \in {"absent", "queued", "claimed", "cancelled", "expired"}
                       /\ fence'[n] # NoFence =>
                            /\ attempt'[fence'[n].attempt] =
                                 [message |-> n, status |-> fence'[n].outcome]
                            /\ fence'[n].outcome =
                                 IF state'[n] = "claimed" THEN "granted" ELSE StatusOf(state'[n])
    BY Zenon DEF RowsAgree, StatusOf
  <2>1. CASE n = m
    BY <1>1, <1>2, <1>6, <1>7, <1>8, <2>1
  <2>2. CASE n # m
    <3>1. fence'[n] = fence[n] /\ job'[n].granted = job[n].granted /\ state'[n] = state[n]
      BY <1>1, <1>5, <1>8, <2>2
    <3>2. fence[n] # NoFence => attempt'[fence[n].attempt] = attempt[fence[n].attempt]
      BY <1>2, <1>7, <2>2, Ungranted
    <3>. QED  BY <3>1, <3>2 DEF StoreInv, RowsInv, RowsAgree
  <2>. QED  BY <2>1, <2>2
<1>12. \A b \in Attempts : b # a => /\ Conflicted(b)' = Conflicted(b)
                                    /\ Contrary(b)' = Contrary(b)
  BY DEF Conflicted, Contrary, Recorded
<1>13. ReplacedOnlyAfterProof'
  <2>. SUFFICES ASSUME NEW b \in Attempts, attempt'[b] # NoAttempt,
                       fence'[attempt'[b].message].attempt # b
                PROVE  attempt'[b].status = "proved_no_submit" /\ ~Contrary(b)'
    BY DEF ReplacedOnlyAfterProof
  <2>1. b # a
    BY <1>6, <1>7
  <2>2. attempt'[b] = attempt[b] /\ attempt[b].message \in Messages
    BY <1>1, <1>7, <2>1 DEF StoreTypeOK
  <2>3. fence[attempt[b].message].attempt # b
    BY <1>5, <2>1, <2>2
  <2>. QED  BY <1>12, <2>1, <2>2, <2>3 DEF StoreInv, RowsInv, ReplacedOnlyAfterProof
<1>14. ActiveAlone'
  BY <1>1, <1>5, <1>6 DEF StoreInv, RowsInv, ActiveAlone
<1>15. EventsNamed'
  <2>1. [message |-> m, status |-> o] # NoAttempt
    BY StoreAssumption DEF NoAttempt
  <2>2. \A y \in events : y.attempt \in Attempts
    BY <1>1 DEF StoreTypeOK, RadioEvent, SweepEvents
  <2>. QED  BY <1>7, <2>1, <2>2 DEF StoreInv, RowsInv, EventsNamed
<1>16. ConflictIsFinal'
  <2>. SUFFICES ASSUME NEW b \in Attempts, Conflicted(b)'
                PROVE  /\ state'[attempt'[b].message] = "unknown"
                       /\ fence'[attempt'[b].message].attempt = b
    BY DEF ConflictIsFinal
  <2>1. CASE b = a
    <3>1. Conflicted(a) \/ x.evidence = "callback_conflict"
      BY <2>1 DEF Conflicted, Recorded
    <3>. QED  BY <1>6, <1>7, <1>8, <2>1, <3>1
  <2>2. CASE b # a
    <3>1. Conflicted(b) /\ attempt'[b] = attempt[b]
      BY <1>7, <1>12, <2>2
    <3>2. attempt[b].message # m
      BY <2>2, <3>1, ConflictFenced
    <3>. QED  BY <1>5, <1>8, <3>1, <3>2, ConflictFenced
  <2>. QED  BY <2>1, <2>2
<1>. QED  BY <1>9, <1>10, <1>11, <1>13, <1>14, <1>15, <1>16 DEF StoreInv, RowsInv

\* The sweeps find the attempt open, or settled as submitted, and never conflicted.
LEMMA SweepStep ==
  ASSUME StoreInv, NEW m \in Messages,
         ReconcileSilentAttempt(m) \/ ReconcileDeliveryTimeout(m)
  PROVE  StoreInv'
<1>. DEFINE a == fence[m].attempt
<1>1. /\ state[m] \in {"claimed", "submitting", "submitted"}
      /\ fence[m].outcome \in {"granted", "submitting", "submitted"}
  BY DEF ReconcileSilentAttempt, ReconcileDeliveryTimeout
<1>2. fence[m] # NoFence /\ a \in Attempts
  BY <1>1, Ungranted DEF NoFence
<1>3. PICK s, o, code :
        /\ \/ /\ s = "unknown" /\ o = "unknown"
              /\ code \in {"grant_timeout", "sent_callback_timeout"}
              /\ fence[m].outcome \in ActiveOutcome
           \/ s = "delivery_unknown" /\ o = "submitted" /\ code = "delivery_timeout"
        /\ Sweep(m, s, o, code)
  BY DEF ReconcileSilentAttempt, ReconcileDeliveryTimeout, ActiveOutcome
<1>. DEFINE x == SweepEvent(m, code)
<1>4. s \in MessageState /\ o \in Outcome /\ s # "claimed" /\ StatusOf(s) = o
  BY <1>3, Zenon DEF MessageState, Outcome, ActiveOutcome, StatusOf
<1>5. request[m] \in Request
  BY <1>1 DEF StoreInv, RowsInv, Requested
<1>6. x \in SweepEvents /\ x.attempt = a /\ x.evidence # "callback_conflict"
  BY <1>2, <1>3, <1>5 DEF SweepEvent, SweepEvents, Request
<1>7. ~Conflicted(a)
  <2>1. attempt[a].message = m
    BY <1>2, Ungranted
  <2>. QED  BY <1>1, <1>2, <2>1, ConflictFenced
<1>8. o \in ActiveOutcome =>
        \A n \in Messages \ {m} : fence[n].outcome \in ActiveOutcome =>
                                  request[n].device # request[m].device
  BY <1>3 DEF StoreInv, RowsInv, ActiveAlone, ActiveOutcome
<1>9. /\ state' = [state EXCEPT ![m] = s]
      /\ attempt' = [attempt EXCEPT ![a].status = o]
      /\ fence' = [fence EXCEPT ![m].outcome = o]
      /\ events' = events \union {x}
      /\ UNCHANGED <<request, expired, redacted, job, controlVars, meterVars>>
  BY <1>3 DEF Sweep
<1>. HIDE DEF x, a
<1>. QED  BY <1>2, <1>4, <1>6, <1>7, <1>8, <1>9, EvidenceStep DEF a

\* A proof withdraws the grant: its attempt is replaceable, since nothing recorded
\* for it speaks of a submission, and the message is queued without a fence.
LEMMA ProofStep ==
  ASSUME StoreInv, NEW v \in RadioEvent, v.evidence = "proven_no_submit",
         RecordRadioEvent(v)
  PROVE  StoreInv'
<1>. DEFINE m == v.message
            a == v.attempt
<1>1. /\ m \in Messages /\ a \in Attempts /\ ~Contradicted(v)
      /\ attempt[a] # NoAttempt /\ attempt[a].message = m
      /\ fence[m] # NoFence /\ fence[m].attempt = a
      /\ RadioNext(v) # InvalidTransition /\ state[m] # "absent"
  BY RecordedShape DEF RecordRadioEvent, StoreInv
<1>2. ~Contrary(a) /\ ~Conflicted(a)
  BY <1>1 DEF Contradicted
<1>3. RadioNext(v) = "queued"
  BY <1>1, RadioNextRange
<1>4. /\ state' = [state EXCEPT ![m] = "queued"]
      /\ events' = events \union {v}
      /\ attempt' = [attempt EXCEPT ![a].status = "proved_no_submit"]
      /\ fence' = [fence EXCEPT ![m] = NoFence]
      /\ job' = [job EXCEPT ![m] = [@ EXCEPT !.granted = FALSE, !.owner = 0,
                                             !.live = FALSE, !.finished = FALSE]]
      /\ UNCHANGED <<request, expired, redacted, controlVars, meterVars>>
  BY <1>3 DEF RecordRadioEvent
<1>. HIDE DEF m, a
<1>5. StoreTypeOK /\ UNCHANGED request
  BY <1>4 DEF StoreInv
<1>6. \A n \in Messages : fence'[n] = IF n = m THEN NoFence ELSE fence[n]
  BY <1>4, <1>5 DEF StoreTypeOK
<1>7. attempt[a] \in AttemptRow
  BY <1>1, <1>5 DEF StoreTypeOK
<1>8. /\ \A b \in Attempts : b # a => attempt'[b] = attempt[b]
      /\ attempt'[a] = [message |-> m, status |-> "proved_no_submit"]
  BY <1>1, <1>4, <1>5, <1>7 DEF StoreTypeOK
<1>9. \A n \in Messages : state'[n] = IF n = m THEN "queued" ELSE state[n]
  BY <1>4, <1>5 DEF StoreTypeOK
<1>10. /\ job' \in [Messages -> JobRow]
       /\ \A n \in Messages : job'[n].granted = IF n = m THEN FALSE ELSE job[n].granted
  <2>1. job \in [Messages -> JobRow]
    BY <1>5 DEF StoreTypeOK
  <2>2. 0 \in 0..MaxEpoch
    BY StoreAssumption
  <2>. DEFINE j == [job[m] EXCEPT !.granted = FALSE, !.owner = 0,
                                  !.live = FALSE, !.finished = FALSE]
  <2>3. /\ j \in JobRow
        /\ j.granted = FALSE
    BY <1>1, <2>1, <2>2
  <2>4. job' = [job EXCEPT ![m] = j]
    BY <1>4
  <2>. HIDE DEF j
  <2>. QED  BY ONLY <1>1, <2>1, <2>3, <2>4
<1>11. StoreTypeOK'
  <2>1. fence' \in [Messages -> FenceRow \union {NoFence}]
    BY <1>4, <1>5 DEF StoreTypeOK
  <2>2. attempt' \in [Attempts -> AttemptRow \union {NoAttempt}]
    BY <1>1, <1>4, <1>5, <1>8 DEF StoreTypeOK, AttemptStatus
  <2>3. /\ state' \in [Messages -> MessageState \union {"absent"}]
        /\ events' \subseteq RadioEvent \union SweepEvents
    BY <1>4, <1>5 DEF StoreTypeOK, MessageState
  <2>. QED  BY <1>4, <1>5, <1>10, <2>1, <2>2, <2>3 DEF StoreTypeOK, controlVars, meterVars
<1>12. Requested'
  BY <1>1, <1>5, <1>9 DEF StoreInv, RowsInv, Requested
<1>13. RowsAgree'
  <2>. SUFFICES ASSUME NEW n \in Messages
                PROVE  /\ job'[n].granted <=> fence'[n] # NoFence
                       /\ fence'[n] = NoFence =>
                            state'[n] \in {"absent", "queued", "claimed", "cancelled", "expired"}
                       /\ fence'[n] # NoFence =>
                            /\ attempt'[fence'[n].attempt] =
                                 [message |-> n, status |-> fence'[n].outcome]
                            /\ fence'[n].outcome =
                                 IF state'[n] = "claimed" THEN "granted" ELSE StatusOf(state'[n])
    BY Zenon DEF RowsAgree, StatusOf
  <2>1. CASE n = m
    BY <1>6, <1>9, <1>10, <2>1
  <2>2. CASE n # m
    <3>1. fence'[n] = fence[n] /\ job'[n].granted = job[n].granted /\ state'[n] = state[n]
      BY <1>6, <1>9, <1>10, <2>2
    <3>2. fence[n] # NoFence => attempt'[fence[n].attempt] = attempt[fence[n].attempt]
      BY <1>1, <1>8, <2>2, Ungranted
    <3>. QED  BY <3>1, <3>2 DEF StoreInv, RowsInv, RowsAgree
  <2>. QED  BY <2>1, <2>2
<1>14. \A b \in Attempts : Conflicted(b)' = Conflicted(b) /\ Contrary(b)' = Contrary(b)
  BY <1>4 DEF Conflicted, Contrary, Recorded, SentCallback
<1>15. ReplacedOnlyAfterProof'
  <2>. SUFFICES ASSUME NEW b \in Attempts, attempt'[b] # NoAttempt,
                       fence'[attempt'[b].message].attempt # b
                PROVE  attempt'[b].status = "proved_no_submit" /\ ~Contrary(b)'
    BY DEF ReplacedOnlyAfterProof
  <2>1. CASE b = a
    BY <1>2, <1>8, <1>14, <2>1
  <2>2. CASE b # a
    <3>1. attempt'[b] = attempt[b] /\ attempt[b].message \in Messages
      BY <1>5, <1>8, <2>2 DEF StoreTypeOK
    <3>2. fence[attempt[b].message].attempt # b
      BY <1>1, <1>6, <2>2, <3>1
    <3>. QED  BY <1>14, <3>1, <3>2 DEF StoreInv, RowsInv, ReplacedOnlyAfterProof
  <2>. QED  BY <2>1, <2>2
<1>16. ActiveAlone'
  BY <1>5, <1>6 DEF StoreInv, RowsInv, ActiveAlone, NoFence, ActiveOutcome
<1>17. EventsNamed'
  <2>1. [message |-> m, status |-> "proved_no_submit"] # NoAttempt
    BY <1>1, StoreAssumption DEF NoAttempt
  <2>2. \A y \in events : y.attempt \in Attempts
    BY <1>5 DEF StoreTypeOK, RadioEvent, SweepEvents
  <2>. QED  BY <1>1, <1>4, <1>8, <2>1, <2>2 DEF StoreInv, RowsInv, EventsNamed, a
<1>18. ConflictIsFinal'
  <2>. SUFFICES ASSUME NEW b \in Attempts, Conflicted(b)'
                PROVE  /\ state'[attempt'[b].message] = "unknown"
                       /\ fence'[attempt'[b].message].attempt = b
    BY DEF ConflictIsFinal
  <2>1. Conflicted(b) /\ b # a /\ attempt'[b] = attempt[b]
    BY <1>2, <1>8, <1>14
  <2>2. attempt[b].message # m
    BY <1>1, <2>1, ConflictFenced
  <2>. QED  BY <1>6, <1>9, <2>1, <2>2, ConflictFenced
<1>. QED  BY <1>11, <1>12, <1>13, <1>15, <1>16, <1>17, <1>18 DEF StoreInv, RowsInv

\* record_radio_event.
LEMMA RecordStep ==
  ASSUME StoreInv, NEW v \in RadioEvent, RecordRadioEvent(v)
  PROVE  StoreInv'
<1>1. CASE v.evidence = "proven_no_submit"
  BY <1>1, ProofStep
<1>2. CASE v.evidence # "proven_no_submit"
  <2>. DEFINE m == v.message
              a == v.attempt
              s == RadioNext(v)
              o == StatusOf(s)
  <2>1. /\ m \in Messages /\ a \in Attempts /\ ~Contradicted(v) /\ ~IndexRefuses(v)
        /\ fence[m] # NoFence /\ fence[m].attempt = a /\ attempt[a].message = m
        /\ s # InvalidTransition /\ Fenced(v)
    BY RecordedShape DEF RecordRadioEvent, StoreInv
  <2>2. s \in {"submitting", "submitted", "delivered", "delivery_unknown", "unknown", "failed"}
    BY <1>2, <2>1, RadioNextRange
  <2>3. s \in MessageState /\ s # "claimed" /\ o \in Outcome /\ o # "none"
    BY <2>2, StatusOfRange DEF MessageState, Outcome, ActiveOutcome
  <2>4. /\ state' = [state EXCEPT ![m] = s]
        /\ attempt' = [attempt EXCEPT ![a].status = o]
        /\ fence' = [fence EXCEPT ![m].outcome = o]
        /\ events' = events \union {v}
        /\ UNCHANGED <<request, expired, redacted, job, controlVars, meterVars>>
    BY <1>2, <2>3 DEF RecordRadioEvent
  <2>5. o \in ActiveOutcome =>
          \A n \in Messages \ {m} : fence[n].outcome \in ActiveOutcome =>
                                    request[n].device # request[m].device
    BY <1>2, <2>1 DEF IndexRefuses, Active, Fenced
  <2>6. Conflicted(a) \/ v.evidence = "callback_conflict" => s = "unknown"
    <3>1. Conflicted(a) => v.evidence = "callback_conflict"
      BY <2>1 DEF Contradicted
    <3>2. v.evidence = "callback_conflict" => s = "unknown"
      BY <2>1, Zenon DEF RadioNext, SentCallback, Apply, InvalidTransition
    <3>. QED  BY <3>1, <3>2
  <2>. HIDE DEF m, s, o
  <2>. QED  BY <2>1, <2>3, <2>4, <2>5, <2>6, EvidenceStep DEF a, o
<1>. QED  BY <1>1, <1>2

\* A grant that runs out keeps its fence.
LEMMA GrantExpiresStep ==
  ASSUME StoreInv, NEW m \in Messages, GrantExpires(m)
  PROVE  StoreInv'
<1>. DEFINE f == [fence[m] EXCEPT !.live = FALSE]
<1>1. /\ fence' = [fence EXCEPT ![m] = f] /\ fence[m].live
      /\ UNCHANGED <<queueVars, attempt, events, controlVars, meterVars>>
  BY DEF GrantExpires
<1>2. StoreTypeOK /\ UNCHANGED <<state, request, job, attempt, events>>
  BY <1>1 DEF StoreInv, queueVars
<1>3. fence[m] # NoFence /\ fence[m] \in FenceRow
  BY <1>1, <1>2 DEF StoreTypeOK, NoFence
<1>4. /\ f \in FenceRow
      /\ f.attempt = fence[m].attempt /\ f.outcome = fence[m].outcome
  BY ONLY <1>3
<1>5. f # NoFence
  BY <1>4, StoreAssumption DEF NoFence
<1>. HIDE DEF f
<1>6. \A n \in Messages : fence'[n] = IF n = m THEN f ELSE fence[n]
  BY <1>1, <1>2 DEF StoreTypeOK
<1>7. StoreTypeOK'
  <2>1. fence' \in [Messages -> FenceRow \union {NoFence}]
    BY <1>1, <1>2, <1>4 DEF StoreTypeOK
  <2>. QED  BY <1>1, <1>2, <2>1 DEF StoreTypeOK, queueVars, controlVars, meterVars
<1>8. \A n \in Messages : /\ fence'[n].attempt = fence[n].attempt
                          /\ fence'[n].outcome = fence[n].outcome
                          /\ fence'[n] = NoFence <=> fence[n] = NoFence
  BY <1>3, <1>4, <1>5, <1>6
<1>9. Requested' /\ RowsAgree' /\ ActiveAlone' /\ EventsNamed'
  BY <1>2, <1>8 DEF StoreInv, RowsInv, Requested, RowsAgree, ActiveAlone, EventsNamed
<1>10. \A b \in Attempts : attempt[b] # NoAttempt => attempt[b].message \in Messages
  BY <1>2 DEF StoreTypeOK
<1>11. ReplacedOnlyAfterProof'
  BY <1>2, <1>8, <1>10, RecordedFrame DEF StoreInv, RowsInv, ReplacedOnlyAfterProof
<1>12. ConflictIsFinal'
  BY <1>2, <1>8, ConflictFenced, RecordedFrame DEF ConflictIsFinal
<1>. QED  BY <1>7, <1>9, <1>11, <1>12 DEF StoreInv, RowsInv

\* Retention removes events; what is gone cannot contradict.
LEMMA PruneEventStep ==
  ASSUME StoreInv, NEW v \in events, PruneEvent(v)
  PROVE  StoreInv'
<1>1. /\ events' = events \ {v}
      /\ UNCHANGED <<queueVars, attempt, fence, controlVars, meterVars>>
  BY DEF PruneEvent
<1>2. StoreTypeOK'
  BY <1>1 DEF StoreInv, StoreTypeOK, queueVars, controlVars, meterVars
<1>3. UNCHANGED <<state, request, job, attempt, fence>>
  BY <1>1 DEF queueVars
<1>4. \A a \in Attempts : (Conflicted(a)' => Conflicted(a)) /\ (Contrary(a)' => Contrary(a))
  BY <1>1 DEF Conflicted, Contrary, Recorded
<1>5. Requested' /\ RowsAgree' /\ ActiveAlone' /\ EventsNamed'
  BY <1>1, <1>3 DEF StoreInv, RowsInv, Requested, RowsAgree, ActiveAlone, EventsNamed
<1>6. ReplacedOnlyAfterProof'
  BY <1>3, <1>4 DEF StoreInv, RowsInv, ReplacedOnlyAfterProof
<1>7. ConflictIsFinal'
  BY <1>3, <1>4 DEF StoreInv, RowsInv, ConflictIsFinal
<1>. QED  BY <1>2, <1>5, <1>6, <1>7 DEF StoreInv, RowsInv

-----------------------------------------------------------------------------
(***************************************************************************)
(* The invariant.                                                          *)
(***************************************************************************)
\* Every transaction keeps the invariant.
LEMMA NextInv == StoreInv /\ [StoreNext]_storeVars => StoreInv'
<1>. SUFFICES ASSUME StoreInv, [StoreNext]_storeVars PROVE StoreInv'
  OBVIOUS
<1>1. CASE Tenant
  <2>1. ASSUME NEW k \in Keys, NEW m \in Messages, NEW r \in Request, Accept(k, m, r)
        PROVE  StoreInv'
    BY <2>1, AcceptCreateStep, QuietSteps DEF Accept
  <2>2. ASSUME NEW m \in Messages, Cancel(m) PROVE StoreInv'
    <3>1. suppressed' \subseteq Recipients
      BY <2>2 DEF Cancel, controlVars, StoreInv, StoreTypeOK
    <3>. QED  BY <2>2, <3>1, EndPreGrantStep DEF Cancel, controlVars
  <2>3. ASSUME NEW r \in Recipients, Suppress(r) PROVE StoreInv'
    <3>. DEFINE ms == { m \in Messages : /\ request[m].recipient = r /\ m \notin redacted
                                         /\ state[m] \in {"queued", "claimed"}
                                         /\ ~job[m].granted /\ ~job[m].finished }
    <3>1. suppressed' \subseteq Recipients
      BY <2>3 DEF Suppress, StoreInv, StoreTypeOK
    <3>2. EndPreGrant(ms, "cancelled") /\ UNCHANGED <<session, authority, revoked>>
      BY <2>3 DEF Suppress
    <3>3. ms \in SUBSET Messages /\ \A m \in ms : state[m] # "absent" /\ ~job[m].granted
      OBVIOUS
    <3>. HIDE DEF ms
    <3>. QED  BY <3>1, <3>2, <3>3, EndPreGrantStep
  <2>4. ASSUME NEW r \in Recipients, Resume(r) PROVE StoreInv'
    BY <2>4, QuietSteps
  <2>. QED  BY <1>1, <2>1, <2>2, <2>3, <2>4 DEF Tenant
<1>2. CASE Hub
  <2>1. ASSUME NEW m \in Messages, NEW g \in 1..MaxGeneration, NEW e \in 1..MaxEpoch,
               GrantSuppressed(m, g, e)
        PROVE  StoreInv'
    <3>1. suppressed' \subseteq Recipients
      BY <2>1 DEF GrantSuppressed, controlVars, StoreInv, StoreTypeOK
    <3>. QED  BY <2>1, <3>1, EndPreGrantStep DEF GrantSuppressed, GrantCurrent, controlVars
  <2>. QED  BY <1>2, <2>1, QuietSteps, ClaimDueStep, IssueGrantStep, RecordStep DEF Hub
<1>3. CASE Recovery
  <2>1. ASSUME NEW m \in Messages, ExpireDue(m) PROVE StoreInv'
    <3>1. suppressed' \subseteq Recipients
      BY <2>1 DEF ExpireDue, controlVars, StoreInv, StoreTypeOK
    <3>. QED  BY <2>1, <3>1, EndPreGrantStep DEF ExpireDue, controlVars
  <2>. QED  BY <1>3, <2>1, SweepStep DEF Recovery
<1>4. CASE Retention
  BY <1>4, QuietSteps, PruneEventStep DEF Retention
<1>5. CASE Passage
  BY <1>5, QuietSteps, GrantExpiresStep DEF Passage
<1>6. CASE Operator \/ UNCHANGED storeVars
  BY <1>6, QuietSteps
<1>. QED  BY <1>1, <1>2, <1>3, <1>4, <1>5, <1>6 DEF StoreNext

\* The inductive invariant, in every reachable state of the store.
THEOREM StoreInvariant == StoreSpec => []StoreInv
BY InitInv, NextInv, PTL DEF StoreSpec

\* Every table keeps its shape under every transaction.
THEOREM TypeCorrect == StoreSpec => []StoreTypeOK
<1>1. StoreInv => StoreTypeOK
  BY DEF StoreInv
<1>. QED  BY <1>1, StoreInvariant, PTL

\* Message, job, attempt and fence rows, written by separate transactions of the
\* hub, the tenant and the sweeps, never disagree.
THEOREM RowsAlwaysAgree == StoreSpec => []RowsAgree
<1>1. StoreInv => RowsAgree
  BY DEF StoreInv, RowsInv
<1>. QED  BY <1>1, StoreInvariant, PTL

\* record_radio_event gives an attempt up for another one only on a proof that
\* nothing was submitted, and records nothing against that proof afterwards.
THEOREM NoUnprovedReplacement == StoreSpec => []ReplacedOnlyAfterProof
<1>1. StoreInv => ReplacedOnlyAfterProof
  BY DEF StoreInv, RowsInv
<1>. QED  BY <1>1, StoreInvariant, PTL

\* grant_in_transaction, record_radio_event and the sweeps never leave a device
\* with two open attempts.
THEOREM DeviceHasOneActive == StoreSpec => []OneActivePerDevice
<1>1. StoreInv => OneActivePerDevice
  <2>. SUFFICES ASSUME StoreInv, NEW d \in Devices PROVE Cardinality(Active(d)) <= 1
    BY DEF OneActivePerDevice
  <2>1. \A m, n \in Active(d) : m = n
    BY DEF StoreInv, RowsInv, ActiveAlone, Active
  <2>2. CASE Active(d) = {}
    BY <2>2, FS_EmptySet
  <2>3. CASE Active(d) # {}
    <3>1. PICK m \in Active(d) : TRUE
      BY <2>3
    <3>2. Active(d) = {m}
      BY <2>1, <3>1
    <3>3. Cardinality({m}) = 1
      BY FS_Singleton
    <3>. QED  BY <3>2, <3>3
  <2>. QED  BY <2>2, <2>3
<1>. QED  BY <1>1, StoreInvariant, PTL

\* A recorded conflict is final: the message stays unknown and fenced, whatever
\* evidence, sweep or retention pass comes later.
THEOREM ConflictStays == StoreSpec => []ConflictIsFinal
<1>1. StoreInv => ConflictIsFinal
  BY DEF StoreInv, RowsInv
<1>. QED  BY <1>1, StoreInvariant, PTL

=============================================================================
