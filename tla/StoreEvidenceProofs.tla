------------------------ MODULE StoreEvidenceProofs -------------------------
(***************************************************************************)
(* What the recorded events say, proved for every instance of the delivery *)
(* store: an outcome rests on complete evidence of the current attempt,    *)
(* and evidence that requeues a message exceeds the queue bound by one.    *)
(*                                                                         *)
(* Both need to know whose events they count (EventsLinked): retention     *)
(* removes events of settled messages while others are being decided.      *)
(***************************************************************************)
EXTENDS StoreAdmissionProofs, FunctionTheorems

USE DEF JobRow, AttemptRow, FenceRow, SessionRow, KeyRow, PeriodRow, EntryRow

\* An event belongs to the message that its attempt was granted for.
EventsLinked == \A e \in events : attempt[e.attempt].message = e.message

\* The callbacks of an attempt agree on the number of segments, and no two are
\* for the same one.
SegmentsApart ==
  \A e, f \in events :
    e.attempt = f.attempt /\ e.evidence \in SentCallback /\ f.evidence \in SentCallback =>
      e.count = f.count /\ (e.segment = f.segment => e = f)

EventsInv == IsFiniteSet(events) /\ EventsLinked /\ SegmentsApart

-----------------------------------------------------------------------------
(***************************************************************************)
(* Single steps.                                                           *)
(***************************************************************************)

\* A radio event as it is recorded: its attempt holds the fence, and the three rows
\* of its message are written.
LEMMA RecordWrites ==
  ASSUME StoreInv, NEW v \in RadioEvent, RecordRadioEvent(v)
  PROVE  /\ v.message \in Messages /\ v.attempt \in Attempts
         /\ fence[v.message] # NoFence /\ fence[v.message].attempt = v.attempt
         /\ attempt[v.attempt].message = v.message
         /\ RadioNext(v) # InvalidTransition
         /\ state' = [state EXCEPT ![v.message] = RadioNext(v)]
         /\ events' = events \union {v}
         /\ \A a \in Attempts : a # v.attempt => attempt'[a] = attempt[a]
         /\ attempt'[v.attempt].message = v.message
         /\ v.evidence = "proven_no_submit" =>
              attempt'[v.attempt] = [message |-> v.message, status |-> "proved_no_submit"]
         /\ \A m \in Messages : m # v.message => fence'[m] = fence[m]
         /\ v.evidence # "proven_no_submit" => fence'[v.message].attempt = v.attempt
         /\ v.evidence = "proven_no_submit" => fence'[v.message] = NoFence
         /\ UNCHANGED <<request, expired, redacted>>
<1>1. /\ v.message \in Messages /\ v.attempt \in Attempts /\ RadioNext(v) # InvalidTransition
      /\ fence[v.message] # NoFence /\ fence[v.message].attempt = v.attempt
      /\ attempt[v.attempt] # NoAttempt /\ attempt[v.attempt].message = v.message
  BY RecordedShape DEF RecordRadioEvent, StoreInv
<1>2. /\ attempt \in [Attempts -> AttemptRow \union {NoAttempt}]
      /\ fence \in [Messages -> FenceRow \union {NoFence}]
  BY DEF StoreInv, StoreTypeOK
<1>3. PICK s : attempt' = [attempt EXCEPT ![v.attempt].status = s] /\
               (v.evidence = "proven_no_submit" => s = "proved_no_submit")
  BY Zenon DEF RecordRadioEvent
<1>4. attempt[v.attempt] \in AttemptRow
  BY <1>1, <1>2
<1>5. /\ \A a \in Attempts : a # v.attempt => attempt'[a] = attempt[a]
      /\ attempt'[v.attempt] = [message |-> v.message, status |-> s]
  BY <1>1, <1>2, <1>3, <1>4
<1>6. PICK f : fence' = [fence EXCEPT ![v.message] = f] /\
               (v.evidence = "proven_no_submit" => f = NoFence) /\
               (v.evidence # "proven_no_submit" =>
                  f = fence[v.message] \/ \E o : f = [fence[v.message] EXCEPT !.outcome = o])
  BY Zenon DEF RecordRadioEvent
<1>7. v.evidence # "proven_no_submit" => f.attempt = v.attempt
  <2>1. fence[v.message] \in FenceRow
    BY <1>1, <1>2
  <2>2. \A o : [fence[v.message] EXCEPT !.outcome = o].attempt = fence[v.message].attempt
    BY <2>1
  <2>. QED  BY <1>1, <1>6, <2>2
<1>8. /\ \A m \in Messages : m # v.message => fence'[m] = fence[m]
      /\ fence'[v.message] = f
  BY <1>1, <1>2, <1>6
<1>9. /\ state' = [state EXCEPT ![v.message] = RadioNext(v)] /\ events' = events \union {v}
      /\ UNCHANGED <<request, expired, redacted>>
  BY DEF RecordRadioEvent
<1>. QED  BY <1>1, <1>3, <1>5, <1>6, <1>7, <1>8, <1>9

\* A sweep adds an event with one of its own codes, for the attempt that holds the
\* fence, and leaves the fence there.
LEMMA SweepWrites ==
  ASSUME StoreInv, NEW m \in Messages,
         ReconcileSilentAttempt(m) \/ ReconcileDeliveryTimeout(m)
  PROVE  /\ fence[m] # NoFence /\ attempt[fence[m].attempt].message = m
         /\ \/ state[m] \in {"claimed", "submitting"}
               /\ state' = [state EXCEPT ![m] = "unknown"]
            \/ state[m] = "submitted" /\ state' = [state EXCEPT ![m] = "delivery_unknown"]
         /\ \E x \in SweepEvents : /\ events' = events \union {x} /\ x.message = m
                                   /\ x.attempt = fence[m].attempt
         /\ \A a \in Attempts : attempt'[a].message = attempt[a].message /\
              (a # fence[m].attempt => attempt'[a] = attempt[a])
         /\ \A n \in Messages : fence'[n].attempt = fence[n].attempt
         /\ UNCHANGED <<request, expired, redacted>>
<1>1. /\ state[m] \in {"claimed", "submitting", "submitted"}
      /\ fence[m].outcome \in {"granted", "submitting", "submitted"}
  BY DEF ReconcileSilentAttempt, ReconcileDeliveryTimeout
<1>2. /\ fence[m] # NoFence /\ fence[m].attempt \in Attempts
      /\ attempt[fence[m].attempt].message = m /\ attempt[fence[m].attempt] # NoAttempt
  BY <1>1, Ungranted DEF NoFence
<1>3. /\ attempt \in [Attempts -> AttemptRow \union {NoAttempt}]
      /\ fence \in [Messages -> FenceRow \union {NoFence}]
  BY DEF StoreInv, StoreTypeOK
<1>4. PICK s, o, code :
        /\ \/ s = "unknown" /\ state[m] \in {"claimed", "submitting"}
           \/ s = "delivery_unknown" /\ state[m] = "submitted"
        /\ code \in {"grant_timeout", "sent_callback_timeout", "delivery_timeout"}
        /\ Sweep(m, s, o, code)
  BY DEF ReconcileSilentAttempt, ReconcileDeliveryTimeout
<1>5. request[m] \in Request
  BY <1>1 DEF StoreInv, RowsInv, Requested
<1>6. /\ SweepEvent(m, code) \in SweepEvents
      /\ SweepEvent(m, code).message = m /\ SweepEvent(m, code).attempt = fence[m].attempt
  BY <1>2, <1>4, <1>5 DEF SweepEvent, SweepEvents, Request
<1>7. \A a \in Attempts : attempt'[a].message = attempt[a].message /\
              (a # fence[m].attempt => attempt'[a] = attempt[a])
  <2>1. attempt[fence[m].attempt] \in AttemptRow
    BY <1>2, <1>3
  <2>2. attempt' = [attempt EXCEPT ![fence[m].attempt] =
                      [attempt[fence[m].attempt] EXCEPT !.status = o]]
    BY <1>4 DEF Sweep
  <2>3. [attempt[fence[m].attempt] EXCEPT !.status = o].message = attempt[fence[m].attempt].message
    BY <2>1
  <2>. QED  BY <1>2, <1>3, <2>2, <2>3
<1>8. \A n \in Messages : fence'[n].attempt = fence[n].attempt
  <2>1. fence[m] \in FenceRow
    BY <1>2, <1>3
  <2>2. fence' = [fence EXCEPT ![m] = [fence[m] EXCEPT !.outcome = o]]
    BY <1>4 DEF Sweep
  <2>3. [fence[m] EXCEPT !.outcome = o].attempt = fence[m].attempt
    BY <2>1
  <2>. QED  BY <1>3, <2>2, <2>3
<1>9. state' = [state EXCEPT ![m] = s] /\ events' = events \union {SweepEvent(m, code)}
      /\ UNCHANGED <<request, expired, redacted>>
  BY <1>4 DEF Sweep
<1>. QED  BY <1>2, <1>4, <1>6, <1>7, <1>8, <1>9

\* No event comes or goes; a message that changes its state waits without a fence.
Still ==
  /\ UNCHANGED <<attempt, events, request>>
  /\ expired \subseteq expired' /\ redacted \subseteq redacted'
  /\ \A m \in Messages :
       /\ fence'[m].attempt = fence[m].attempt
       /\ \/ state'[m] = state[m]
          \/ /\ state[m] \in {"queued", "claimed"} /\ fence[m] = NoFence
             /\ state'[m] \in {"claimed", "cancelled", "expired"}

\* Every step is an acceptance, a grant, evidence, a sweep, a pruned event, or still.
LEMMA EvidenceKinds ==
  ASSUME StoreInv, [StoreNext]_storeVars
  PROVE  Created \/ Granted \/ Evidenced \/ Swept \/ EventPruned \/ Still
<1>. USE DEF queueVars, attemptVars, controlVars, meterVars
<1>1. ASSUME NEW m \in Messages, NEW e \in 1..MaxEpoch, ClaimDue(m, e) PROVE Still
  <2>1. state[m] \in {"queued", "claimed"} /\ fence[m] = NoFence
    BY <1>1, Ungranted DEF ClaimDue, Claimable
  <2>. QED  BY <1>1, <2>1 DEF ClaimDue, Still, StoreInv, StoreTypeOK
<1>2. Ended => Still
  BY DEF Ended, EndPreGrant, Still
<1>3. Rebound \/ KeyEnded \/ Passive => Still
  BY DEF Rebound, AcceptReplayNewKey, KeyEnded, Passive, Still
<1>. QED  BY <1>1, <1>2, <1>3, StepKinds DEF Claimed

\* An attempt id is drawn once: the attempt keeps its message, and a proof.
LEMMA AttemptKept ==
  ASSUME StoreInv, [StoreNext]_storeVars, NEW a \in Attempts, attempt[a] # NoAttempt
  PROVE  /\ attempt'[a].message = attempt[a].message
         /\ attempt[a].status = "proved_no_submit" => attempt'[a] = attempt[a]
<1>1. attempt \in [Attempts -> AttemptRow \union {NoAttempt}]
  BY DEF StoreInv, StoreTypeOK
<1>2. \A m \in Messages : fence[m] # NoFence => attempt[fence[m].attempt].status # "proved_no_submit"
  <2>. TAKE m \in Messages
  <2>1. fence[m] # NoFence => /\ fence[m].outcome \in Outcome
                              /\ attempt[fence[m].attempt] = [message |-> m, status |-> fence[m].outcome]
    BY Ungranted DEF StoreInv, RowsInv, RowsAgree
  <2>. QED  BY <2>1 DEF Outcome, ActiveOutcome
<1>3. CASE Created \/ EventPruned \/ Still
  <2>1. UNCHANGED attempt
    BY <1>3 DEF Created, AcceptCreate, EventPruned, PruneEvent, Still, attemptVars
  <2>. QED  BY <2>1
<1>4. CASE Granted
  BY <1>1, <1>4 DEF Granted, IssueGrant
<1>5. CASE Evidenced
  <2>1. PICK v \in RadioEvent : RecordRadioEvent(v)
    BY <1>5 DEF Evidenced
  <2>2. CASE a = v.attempt
    <3>1. /\ v.message \in Messages /\ fence[v.message] # NoFence
          /\ fence[v.message].attempt = a /\ attempt'[a].message = attempt[a].message
      BY <2>1, <2>2, RecordWrites
    <3>2. attempt[a].status # "proved_no_submit"
      BY <1>2, <3>1
    <3>. QED  BY <3>1, <3>2
  <2>3. CASE a # v.attempt
    BY <2>1, <2>3, RecordWrites
  <2>. QED  BY <2>2, <2>3
<1>6. CASE Swept
  <2>1. PICK m \in Messages : ReconcileSilentAttempt(m) \/ ReconcileDeliveryTimeout(m)
    BY <1>6 DEF Swept
  <2>2. a = fence[m].attempt => attempt[a].status # "proved_no_submit"
    BY <1>2, <2>1, SweepWrites
  <2>. QED  BY <2>1, <2>2, SweepWrites
<1>. QED  BY <1>3, <1>4, <1>5, <1>6, EvidenceKinds

-----------------------------------------------------------------------------
(***************************************************************************)
(* The events.                                                             *)
(***************************************************************************)

\* A recorded callback fits the ones before it.
LEMMA SegmentFits ==
  ASSUME StoreInv, NEW v \in RadioEvent, RecordRadioEvent(v), v.evidence \in SentCallback,
         NEW e \in events, e.attempt = v.attempt, e.evidence \in SentCallback
  PROVE  e.count = v.count /\ e.segment # v.segment
<1>1. RadioNext(v) # InvalidTransition /\ ~IndexRefuses(v)
  BY RecordedShape DEF RecordRadioEvent, StoreInv
<1>2. e \in Recorded(v.attempt, SentCallback)
  BY DEF Recorded
<1>3. e.segment # v.segment
  BY <1>1, <1>2 DEF IndexRefuses
<1>4. SentNext(v) # InvalidTransition
  BY <1>1 DEF RadioNext, SentCallback
<1>5. e.count = v.count
  BY <1>2, <1>4, Zenon DEF SentNext
<1>. QED  BY <1>3, <1>5

\* Evidence, sweeps and retention keep the events in order.
LEMMA EventsStep ==
  ASSUME StoreInv, EventsInv, [StoreNext]_storeVars
  PROVE  EventsInv'
<1>1. \A e \in events : /\ e.attempt \in Attempts /\ attempt[e.attempt] # NoAttempt
                        /\ attempt'[e.attempt].message = e.message
  <2>1. \A e \in events : e.attempt \in Attempts
    BY DEF StoreInv, StoreTypeOK, RadioEvent, SweepEvents
  <2>2. \A e \in events : attempt[e.attempt] # NoAttempt
    BY DEF StoreInv, RowsInv, EventsNamed
  <2>. QED  BY <2>1, <2>2, AttemptKept DEF EventsInv, EventsLinked
<1>2. ASSUME events' \subseteq events PROVE EventsInv'
  <2>1. IsFiniteSet(events')
    BY <1>2, FS_Subset DEF EventsInv
  <2>. QED  BY <1>1, <1>2, <2>1 DEF EventsInv, EventsLinked, SegmentsApart
<1>3. Created \/ Granted \/ EventPruned \/ Still => events' \subseteq events
  BY DEF Created, AcceptCreate, Granted, IssueGrant, EventPruned, PruneEvent, Still, attemptVars
<1>4. CASE Evidenced
  <2>1. PICK v \in RadioEvent : RecordRadioEvent(v)
    BY <1>4 DEF Evidenced
  <2>2. events' = events \union {v} /\ attempt'[v.attempt].message = v.message
    BY <2>1, RecordWrites
  <2>3. IsFiniteSet(events')
    BY <2>2, FS_AddElement DEF EventsInv
  <2>4. EventsLinked'
    BY <1>1, <2>2 DEF EventsLinked
  <2>5. \A e \in events : e.attempt = v.attempt /\ e.evidence \in SentCallback
                          /\ v.evidence \in SentCallback =>
                            e.count = v.count /\ e.segment # v.segment
    BY <2>1, SegmentFits
  <2>6. SegmentsApart'
    BY <2>2, <2>5 DEF EventsInv, SegmentsApart
  <2>. QED  BY <2>3, <2>4, <2>6 DEF EventsInv
<1>5. CASE Swept
  <2>1. PICK m \in Messages : ReconcileSilentAttempt(m) \/ ReconcileDeliveryTimeout(m)
    BY <1>5 DEF Swept
  <2>2. PICK x \in SweepEvents : /\ events' = events \union {x} /\ x.message = m
                                 /\ x.attempt = fence[m].attempt
    BY <2>1, SweepWrites
  <2>3. x.attempt \in Attempts /\ attempt'[x.attempt].message = x.message
    BY <2>1, <2>2, SweepWrites DEF SweepEvents
  <2>4. IsFiniteSet(events')
    BY <2>2, FS_AddElement DEF EventsInv
  <2>5. x.evidence \notin SentCallback
    BY DEF SweepEvents, SentCallback
  <2>6. EventsLinked' /\ SegmentsApart'
    BY <1>1, <2>2, <2>3, <2>5 DEF EventsInv, EventsLinked, SegmentsApart
  <2>. QED  BY <2>4, <2>6 DEF EventsInv
<1>. QED  BY <1>2, <1>3, <1>4, <1>5, EvidenceKinds

\* record_radio_event, the sweeps and retention keep every event with the message
\* its attempt was granted for, and the segment callbacks of an attempt consistent.
THEOREM EventsInOrder == StoreSpec => []EventsInv
<1>1. StoreInit => EventsInv
  BY FS_EmptySet DEF StoreInit, EventsInv, EventsLinked, SegmentsApart
<1>2. StoreInv /\ EventsInv /\ [StoreNext]_storeVars => EventsInv'
  BY EventsStep
<1>. QED  BY <1>1, <1>2, StoreInvariant, PTL DEF StoreSpec


-----------------------------------------------------------------------------
(***************************************************************************)
(* The queue bound.  A message that waits, or may still be requeued, was   *)
(* one of the two before, or has just been accepted.                       *)
(***************************************************************************)

Waits(m) == m \notin expired /\ state[m] \in {"queued", "claimed"}
MayRequeue(m) == /\ m \notin expired /\ state[m] \in {"submitting", "unknown"}
                 /\ ~Conflicted(fence[m].attempt)
Requeued(m) == \E a \in Attempts : attempt[a] = [message |-> m, status |-> "proved_no_submit"]

Waiting(d) == { m \in Messages : Waits(m) /\ request[m].device = d }
Outstanding(d) == { m \in Messages : (Waits(m) \/ MayRequeue(m)) /\ request[m].device = d }

\* Evidence other than a conflict keeps a message open only if it was not settled.
LEMMA OpenBefore ==
  ASSUME NEW v \in RadioEvent, v.evidence # "callback_conflict",
         RadioNext(v) \in {"queued", "submitting", "unknown"}
  PROVE  state[v.message] \in {"claimed", "submitting", "unknown"}
<1>1. v.evidence \in RadioEvidence
  BY DEF RadioEvent
<1>2. \A s : \A ev \in RadioEvidence \union {"partial_sent_callbacks"} :
        ev # "callback_conflict" /\ Apply(s, ev) \in {"queued", "submitting", "unknown"} =>
          s \in {"claimed", "submitting", "unknown"}
  BY DEF Apply, RadioEvidence, InvalidTransition
<1>3. CASE v.evidence \in SentCallback
  <2>1. SentNext(v) \in {"queued", "submitting", "unknown"}
    BY <1>3 DEF RadioNext, InvalidTransition
  <2>2. \/ state[v.message] \in {"submitting", "unknown"}
        \/ \E ev \in {"sent_callback_ok", "sent_callback_failed", "partial_sent_callbacks"} :
             SentNext(v) = Apply(state[v.message], ev)
    BY <2>1 DEF SentNext, InvalidTransition
  <2>. QED  BY <1>2, <2>1, <2>2 DEF RadioEvidence
<1>4. CASE v.evidence \notin SentCallback
  BY <1>1, <1>2, <1>4 DEF RadioNext
<1>. QED  BY <1>3, <1>4

\* A new event of v's attempt never takes a conflict away.
LEMMA ConflictGrows ==
  ASSUME events \subseteq events', NEW a, ~Conflicted(a)'
  PROVE  ~Conflicted(a)
BY DEF Conflicted, Recorded

\* What the next state holds, the present one held or created.
LEMMA HeldBefore ==
  ASSUME StoreInv, EventsInv, [StoreNext]_storeVars, ~Created, NEW m \in Messages
  PROVE  /\ request'[m] = request[m]
         /\ Waits(m)' \/ MayRequeue(m)' => Waits(m) \/ MayRequeue(m)
         /\ Waits(m)' => Waits(m) \/ Requeued(m)'
<1>. USE DEF Waits, MayRequeue
<1>0. /\ state \in [Messages -> MessageState \union {"absent"}]
      /\ fence \in [Messages -> FenceRow \union {NoFence}]
  BY DEF StoreInv, StoreTypeOK
<1>1. CASE Still
  <2>1. fence'[m].attempt = fence[m].attempt /\ UNCHANGED <<events, request>>
        /\ expired \subseteq expired'
    BY <1>1 DEF Still
  <2>2. Conflicted(fence[m].attempt)' = Conflicted(fence[m].attempt)
    BY <2>1 DEF Conflicted, Recorded
  <2>. QED  BY <1>1, <2>1, <2>2 DEF Still
<1>2. CASE Granted
  <2>1. PICK n \in Messages, g \in 1..MaxGeneration, e \in 1..MaxEpoch, a \in Attempts :
          IssueGrant(n, g, e, a)
    BY <1>2 DEF Granted
  <2>2. /\ UNCHANGED <<state, request, expired, events>> /\ state[n] = "claimed"
        /\ m # n => fence'[m] = fence[m]
    BY <1>0, <2>1 DEF IssueGrant, GrantCurrent
  <2>3. m # n => Conflicted(fence[m].attempt)' = Conflicted(fence[m].attempt)
    BY <2>2 DEF Conflicted, Recorded
  <2>. QED  BY <2>2, <2>3
<1>3. CASE Evidenced
  <2>1. PICK v \in RadioEvent : RecordRadioEvent(v)
    BY <1>3 DEF Evidenced
  <2>2. /\ v.message \in Messages /\ fence[v.message].attempt = v.attempt
        /\ state' = [state EXCEPT ![v.message] = RadioNext(v)] /\ events' = events \union {v}
        /\ UNCHANGED <<request, expired>>
    BY <2>1, RecordWrites
  <2>3. CASE m # v.message
    <3>1. state'[m] = state[m] /\ fence'[m] = fence[m]
      BY <1>0, <2>1, <2>2, <2>3, RecordWrites
    <3>2. ~Conflicted(fence[m].attempt)' => ~Conflicted(fence[m].attempt)
      BY <2>2, <3>1, ConflictGrows
    <3>. QED  BY <2>2, <3>1, <3>2
  <2>4. CASE m = v.message
    <3>1. state'[m] = RadioNext(v)
      BY <1>0, <2>2, <2>4
    <3>2. RadioNext(v) \notin {"claimed"} /\ (RadioNext(v) = "queued" => v.evidence = "proven_no_submit")
      BY RadioNextRange DEF InvalidTransition
    <3>3. CASE RadioNext(v) = "queued"
      <4>1. v.evidence = "proven_no_submit" /\ ~Contradicted(v)
        BY <2>1, <3>2, <3>3, RecordedShape DEF RecordRadioEvent, StoreInv
      <4>2. ~Conflicted(v.attempt)
        BY <4>1 DEF Contradicted
      <4>3. state[m] \in {"claimed", "submitting", "unknown"}
        BY <2>4, <3>3, <4>1, OpenBefore
      <4>4. Requeued(m)'
        BY <2>1, <2>4, <4>1, RecordWrites DEF Requeued
      <4>. QED  BY <2>2, <2>4, <4>2, <4>3, <4>4
    <3>4. CASE RadioNext(v) \in {"submitting", "unknown"}
      <4>. SUFFICES ASSUME MayRequeue(m)' PROVE request'[m] = request[m] /\ (Waits(m) \/ MayRequeue(m))
        BY <2>2, <3>1, <3>4
      <4>1. v.evidence # "proven_no_submit"
        BY <3>4, RadioNextRange DEF InvalidTransition
      <4>2. fence'[m].attempt = v.attempt
        BY <2>1, <2>4, <4>1, RecordWrites
      <4>3. ~Conflicted(v.attempt)'
        BY <4>2
      <4>4. v.evidence # "callback_conflict"
        BY <2>2, <4>3 DEF Conflicted, Recorded
      <4>5. state[m] \in {"claimed", "submitting", "unknown"}
        BY <2>4, <3>4, <4>4, OpenBefore
      <4>6. ~Conflicted(v.attempt)
        BY <2>2, <4>3, ConflictGrows
      <4>. QED  BY <2>2, <2>4, <4>5, <4>6
    <3>. QED  BY <2>2, <3>1, <3>2, <3>3, <3>4
  <2>. QED  BY <2>3, <2>4
<1>4. CASE Swept
  <2>1. PICK n \in Messages : ReconcileSilentAttempt(n) \/ ReconcileDeliveryTimeout(n)
    BY <1>4 DEF Swept
  <2>2. /\ fence'[m].attempt = fence[m].attempt /\ events \subseteq events'
        /\ UNCHANGED <<request, expired>>
    BY <2>1, SweepWrites
  <2>3. ~Conflicted(fence[m].attempt)' => ~Conflicted(fence[m].attempt)
    BY <2>2, ConflictGrows
  <2>4. \/ state'[m] = state[m]
        \/ state[m] \in {"claimed", "submitting"} /\ state'[m] = "unknown"
        \/ state'[m] = "delivery_unknown"
    BY <1>0, <2>1, SweepWrites
  <2>. QED  BY <2>2, <2>3, <2>4
<1>5. CASE EventPruned
  <2>1. PICK v \in events : PruneEvent(v)
    BY <1>5 DEF EventPruned
  <2>2. /\ UNCHANGED <<state, request, expired, fence>> /\ events' = events \ {v}
        /\ Settled(v.message)
    BY <2>1 DEF PruneEvent, queueVars
  <2>3. ASSUME state[m] \in {"submitting", "unknown"}, Conflicted(fence[m].attempt)
        PROVE  Conflicted(fence[m].attempt)'
    <3>1. fence[m] # NoFence
      BY <2>3 DEF StoreInv, RowsInv, RowsAgree
    <3>2. attempt[fence[m].attempt].message = m
      BY <3>1, Ungranted
    <3>3. PICK x \in events : x.attempt = fence[m].attempt /\ x.evidence = "callback_conflict"
      BY <2>3 DEF Conflicted, Recorded
    <3>4. x.message = m
      BY <3>2, <3>3 DEF EventsInv, EventsLinked
    <3>5. x # v
      BY <2>2, <2>3, <3>4 DEF Settled
    <3>. QED  BY <2>2, <3>3, <3>5 DEF Conflicted, Recorded
  <2>. QED  BY <2>2, <2>3
<1>. QED  BY <1>1, <1>2, <1>3, <1>4, <1>5, EvidenceKinds


\* The open attempts of a device are active, so there is at most one.
LEMMA ProvableAlone ==
  ASSUME StoreInv, NEW d
  PROVE  \E x \in Messages \union {"absent"} : Outstanding(d) \subseteq Waiting(d) \union {x}
<1>1. ASSUME NEW m \in Messages, NEW n \in Messages, MayRequeue(m), MayRequeue(n),
             request[m].device = request[n].device
      PROVE  m = n
  <2>1. ASSUME NEW l \in Messages, MayRequeue(l) PROVE fence[l].outcome \in ActiveOutcome
    <3>1. fence[l] # NoFence /\ fence[l].outcome = StatusOf(state[l])
      BY <2>1 DEF MayRequeue, StoreInv, RowsInv, RowsAgree
    <3>2. StatusOf("submitting") = "submitting" /\ StatusOf("unknown") = "unknown"
      BY DEF StatusOf
    <3>. QED  BY <2>1, <3>1, <3>2 DEF MayRequeue, ActiveOutcome
  <2>. QED  BY <1>1, <2>1 DEF StoreInv, RowsInv, ActiveAlone
<1>2. CASE Outstanding(d) \subseteq Waiting(d)
  BY <1>2
<1>3. CASE ~(Outstanding(d) \subseteq Waiting(d))
  <2>1. PICK x \in Messages : x \in Outstanding(d) /\ x \notin Waiting(d)
    BY <1>3 DEF Outstanding
  <2>2. MayRequeue(x) /\ request[x].device = d
    BY <2>1 DEF Outstanding, Waiting
  <2>3. ASSUME NEW m \in Messages, m \in Outstanding(d), m \notin Waiting(d) PROVE m = x
    <3>1. MayRequeue(m) /\ request[m].device = d
      BY <2>3 DEF Outstanding, Waiting
    <3>. QED  BY <1>1, <2>2, <3>1
  <2>4. Outstanding(d) \subseteq Messages
    BY DEF Outstanding
  <2>. QED  BY <2>1, <2>3, <2>4
<1>. QED  BY <1>2, <1>3

\* QueueBounded in these words.
WithinBound(d) ==
  /\ Cardinality(Outstanding(d)) <= PerDevicePending + 1
  /\ Cardinality(Waiting(d)) > PerDevicePending => \E m \in Waiting(d) : Requeued(m)

QueueKept == \A d \in Devices : WithinBound(d)

LEMMA QueueWords == QueueBounded <=> QueueKept
<1>1. \A d \in Devices : Waiting(d) = { m \in Pending : request[m].device = d }
  BY DEF Waiting, Waits, Pending
<1>2. \A d \in Devices :
        Outstanding(d) = { m \in Pending : request[m].device = d } \union
                  { m \in Messages \ expired :
                      /\ request[m].device = d /\ state[m] \in {"submitting", "unknown"}
                      /\ ~Conflicted(fence[m].attempt) }
  BY DEF Outstanding, Waits, MayRequeue, Pending
<1>. QED  BY <1>1, <1>2, Zenon DEF QueueBounded, QueueKept, WithinBound, Requeued

\* Subsets of a queue, and a queue with one or two more.
LEMMA QueueSizes ==
  ASSUME NEW S \in SUBSET Messages, NEW T \in SUBSET Messages
  PROVE  /\ Cardinality(S) \in Nat
         /\ T \subseteq S => Cardinality(T) <= Cardinality(S)
                             /\ (Cardinality(T) = Cardinality(S) => T = S)
         /\ \A x, y : T \subseteq S \union {x, y} => Cardinality(T) <= Cardinality(S) + 2
         /\ \A x : T \subseteq S \union {x} => Cardinality(T) <= Cardinality(S) + 1
<1>1. IsFiniteSet(S) /\ IsFiniteSet(T)
  BY StoreAssumption, FS_Subset
<1>2. Cardinality(S) \in Nat
  BY <1>1, FS_CardinalityType
<1>3. T \subseteq S => Cardinality(T) <= Cardinality(S) /\ (Cardinality(T) = Cardinality(S) => T = S)
  BY <1>1, FS_Subset
<1>4. ASSUME NEW R, IsFiniteSet(R), NEW x
      PROVE  /\ IsFiniteSet(R \union {x}) /\ Cardinality(R \union {x}) <= Cardinality(R) + 1
             /\ T \subseteq R \union {x} => Cardinality(T) <= Cardinality(R) + 1
  <2>1. Cardinality(R) \in Nat
    BY <1>4, FS_CardinalityType
  <2>2. IsFiniteSet(R \union {x}) /\ Cardinality(R \union {x}) <= Cardinality(R) + 1
    BY <1>4, <2>1, FS_AddElement
  <2>3. Cardinality(R \union {x}) \in Nat /\ Cardinality(T) \in Nat
    BY <1>1, <2>2, FS_CardinalityType
  <2>4. T \subseteq R \union {x} => Cardinality(T) <= Cardinality(R \union {x})
    BY <2>2, FS_Subset
  <2>. QED  BY <2>1, <2>2, <2>3, <2>4
<1>5. ASSUME NEW x, NEW y, T \subseteq S \union {x, y}
      PROVE  Cardinality(T) <= Cardinality(S) + 2
  <2>1. IsFiniteSet(S \union {x}) /\ Cardinality(S \union {x}) <= Cardinality(S) + 1
    BY <1>1, <1>4
  <2>2. Cardinality(S \union {x}) \in Nat /\ Cardinality(T) \in Nat
    BY <1>1, <2>1, FS_CardinalityType
  <2>3. T \subseteq (S \union {x}) \union {y}
    BY <1>5
  <2>4. Cardinality(T) <= Cardinality(S \union {x}) + 1
    BY <1>4, <2>1, <2>3
  <2>. QED  BY <1>2, <2>1, <2>2, <2>4
<1>. QED  BY <1>1, <1>2, <1>3, <1>4, <1>5

\* Acceptance found room before it queued the message.
LEMMA CreatedRoom ==
  ASSUME StoreInv, QueueKept, Created, NEW d \in Devices
  PROVE  WithinBound(d)'
<1>0. /\ state \in [Messages -> MessageState \union {"absent"}]
      /\ request \in [Messages -> Request \union {NoRequest}]
      /\ PerDevicePending \in Nat
  BY StoreAssumption DEF StoreInv, StoreTypeOK
<1>1. PICK k \in Keys, m \in Messages, r \in Request, elapsed \in BOOLEAN :
        AcceptCreate(k, m, r, elapsed)
  BY DEF Created
<1>2. /\ state' = [state EXCEPT ![m] = "queued"] /\ request' = [request EXCEPT ![m] = r]
      /\ UNCHANGED <<expired, attempt, fence, events>> /\ r \in Request
      /\ state[m] = "absent" /\ ~QueueFull(r.device)
  BY <1>1, AcceptedShape DEF AcceptCreate, attemptVars
<1>3. \A n \in Messages : n # m => /\ request'[n] = request[n] /\ (Waits(n)' <=> Waits(n))
                                   /\ (MayRequeue(n)' <=> MayRequeue(n))
  BY <1>0, <1>2, RecordedFrame DEF Waits, MayRequeue, Conflicted, Recorded
<1>4. ~Waits(m) /\ ~MayRequeue(m) /\ request'[m] = r
  BY <1>0, <1>2 DEF Waits, MayRequeue
<1>5. /\ Waiting(d) \in SUBSET Messages /\ Outstanding(d) \in SUBSET Messages
      /\ Waiting(d)' \in SUBSET Messages /\ Outstanding(d)' \in SUBSET Messages
  BY DEF Waiting, Outstanding
<1>6. /\ Cardinality(Waiting(d)) \in Nat /\ Cardinality(Outstanding(d)) \in Nat
      /\ Cardinality(Waiting(d)') \in Nat /\ Cardinality(Outstanding(d)') \in Nat
  BY <1>5, QueueSizes
<1>7. CASE r.device = d
  <2>1. Waiting(d) = { n \in Pending : request[n].device = d }
    BY DEF Waiting, Waits, Pending
  <2>2. Cardinality(Waiting(d)) < PerDevicePending
    BY <1>0, <1>2, <1>6, <1>7, <2>1 DEF QueueFull
  <2>3. PICK x : Outstanding(d) \subseteq Waiting(d) \union {x}
    BY ProvableAlone
  <2>4. Outstanding(d)' \subseteq Waiting(d) \union {x, m} /\ Waiting(d)' \subseteq Waiting(d) \union {m}
    BY <1>3, <2>3 DEF Outstanding, Waiting
  <2>5. /\ Cardinality(Outstanding(d)') <= Cardinality(Waiting(d)) + 2
        /\ Cardinality(Waiting(d)') <= Cardinality(Waiting(d)) + 1
    BY <1>5, <2>4, QueueSizes
  <2>. QED  BY <1>0, <1>6, <2>2, <2>5 DEF WithinBound
<1>8. CASE r.device # d
  <2>1. Outstanding(d)' = Outstanding(d) /\ Waiting(d)' = Waiting(d)
    BY <1>3, <1>4, <1>8 DEF Outstanding, Waiting
  <2>2. \A n \in Messages : Requeued(n)' <=> Requeued(n)
    BY <1>2 DEF Requeued
  <2>. QED  BY <1>5, <2>1, <2>2 DEF QueueKept, WithinBound
<1>. QED  BY <1>7, <1>8

LEMMA QueueStep ==
  ASSUME StoreInv, EventsInv, QueueKept, [StoreNext]_storeVars
  PROVE  QueueKept'
<1>0. PerDevicePending \in Nat
  BY StoreAssumption
<1>1. ASSUME NEW d \in Devices, ~Created
      PROVE  WithinBound(d)'
  <2>1. /\ Waiting(d) \in SUBSET Messages /\ Outstanding(d) \in SUBSET Messages
        /\ Waiting(d)' \in SUBSET Messages /\ Outstanding(d)' \in SUBSET Messages
        /\ Waiting(d) \subseteq Outstanding(d)
    BY DEF Waiting, Outstanding
  <2>2. /\ Cardinality(Waiting(d)) \in Nat /\ Cardinality(Outstanding(d)) \in Nat
        /\ Cardinality(Waiting(d)') \in Nat /\ Cardinality(Outstanding(d)') \in Nat
        /\ Cardinality(Waiting(d)) <= Cardinality(Outstanding(d))
    BY <2>1, QueueSizes
  <2>3. /\ Cardinality(Outstanding(d)) <= PerDevicePending + 1
        /\ Cardinality(Waiting(d)) > PerDevicePending => \E m \in Waiting(d) : Requeued(m)
    BY DEF QueueKept, WithinBound
  <2>4. Outstanding(d)' \subseteq Outstanding(d)
    BY <1>1, HeldBefore DEF Outstanding
  <2>5. Cardinality(Outstanding(d)') <= Cardinality(Outstanding(d))
    BY <2>1, <2>4, QueueSizes
  <2>6. CASE \A m \in Waiting(d)' : m \in Waiting(d)
    <3>. SUFFICES ASSUME Cardinality(Waiting(d)') > PerDevicePending
                  PROVE  \E m \in Waiting(d)' : Requeued(m)'
      BY <1>0, <2>2, <2>3, <2>5 DEF WithinBound
    <3>1. Waiting(d)' \subseteq Waiting(d)
      BY <2>6
    <3>2. /\ Cardinality(Waiting(d)') <= Cardinality(Waiting(d))
          /\ Cardinality(Waiting(d)') = Cardinality(Waiting(d)) => Waiting(d)' = Waiting(d)
      BY <2>1, <3>1, QueueSizes
    <3>3. Waiting(d)' = Waiting(d) /\ Cardinality(Waiting(d)) > PerDevicePending
      BY <1>0, <2>2, <2>3, <3>2
    <3>4. PICK m \in Waiting(d) : Requeued(m)
      BY <2>3, <3>3
    <3>5. PICK a \in Attempts : attempt[a] = [message |-> m, status |-> "proved_no_submit"]
      BY <3>4 DEF Requeued
    <3>6. m \in Messages
      BY <2>1
    <3>7. attempt[a] # NoAttempt /\ attempt[a].status = "proved_no_submit"
      BY <3>5 DEF NoAttempt
    <3>8. attempt'[a] = attempt[a]
      BY <3>7, AttemptKept
    <3>. QED  BY <3>3, <3>5, <3>8 DEF Requeued
  <2>7. CASE \E m \in Waiting(d)' : m \notin Waiting(d)
    <3>1. PICK m \in Messages : m \in Waiting(d)' /\ m \notin Waiting(d)
      BY <2>1, <2>7
    <3>2. Requeued(m)'
      BY <1>1, <3>1, HeldBefore DEF Waiting
    <3>. QED  BY <1>0, <2>2, <2>3, <2>5, <3>1, <3>2 DEF WithinBound
  <2>. QED  BY <2>6, <2>7
<1>. QED  BY <1>1, CreatedRoom DEF QueueKept

\* accept_inner bounds what is queued or claimed; an attempt proved unsent comes back
\* on top.  Nothing else does, and never more than one above the bound of its device.
THEOREM QueueKeepsBound == StoreSpec => []QueueBounded
<1>1. StoreInit => QueueKept
  <2>. SUFFICES ASSUME StoreInit, NEW d \in Devices
                PROVE  Outstanding(d) = {} /\ Waiting(d) = {}
    BY FS_EmptySet, StoreAssumption DEF QueueKept, WithinBound
  <2>. QED  BY DEF StoreInit, Outstanding, Waiting, Waits, MayRequeue
<1>2. StoreInv /\ EventsInv /\ QueueKept /\ [StoreNext]_storeVars => QueueKept'
  BY QueueStep
<1>. QED  BY <1>1, <1>2, QueueWords, StoreInvariant, EventsInOrder, PTL DEF StoreSpec


-----------------------------------------------------------------------------
(***************************************************************************)
(* Outcomes.  The last positive callback completes the segments because    *)
(* the ones before it are as many as are missing it, all positive and all  *)
(* different; retention takes no event of a message that is not redacted.  *)
(***************************************************************************)

\* The events that decide whether a message was sent.
Telling(a) == Recorded(a, SentCallback \union {"durable_submit_intent"})

SentFully(a) ==
  /\ IntentRecorded(a) /\ Recorded(a, {"sent_callback_failed"}) = {}
  /\ \E n \in 1..MaxSegments :
       /\ { e.segment : e \in Recorded(a, {"sent_callback_ok"}) } = 1..n
       /\ { e.count : e \in Recorded(a, {"sent_callback_ok"}) } = {n}

FailedAlone(a) == /\ IntentRecorded(a) /\ Recorded(a, {"sent_callback_ok"}) = {}
                  /\ Recorded(a, {"sent_callback_failed"}) # {}

Supported(m) ==
  /\ state[m] \in {"submitted", "delivered", "delivery_unknown"} => SentFully(fence[m].attempt)
  /\ state[m] = "failed" => FailedAlone(fence[m].attempt)

OutcomesSupported == \A m \in Messages \ redacted : Supported(m)

\* OutcomeHasEvidence in these words.
LEMMA OutcomeWords == OutcomeHasEvidence <=> OutcomesSupported
BY Zenon DEF OutcomeHasEvidence, OutcomesSupported, Supported, SentFully, FailedAlone

\* A message keeps its support while the telling events of its attempt stay.
LEMMA TellingFrame ==
  ASSUME NEW a, Telling(a)' = Telling(a)
  PROVE  (SentFully(a) => SentFully(a)') /\ (FailedAlone(a) => FailedAlone(a)')
<1>1. ASSUME NEW codes \in SUBSET (SentCallback \union {"durable_submit_intent"})
      PROVE  Recorded(a, codes)' = Recorded(a, codes)
  <2>1. Recorded(a, codes) = { e \in Telling(a) : e.evidence \in codes }
    BY <1>1 DEF Recorded, Telling
  <2>2. Recorded(a, codes)' = { e \in Telling(a)' : e.evidence \in codes }
    BY <1>1 DEF Recorded, Telling
  <2>. QED  BY <2>1, <2>2
<1>2. /\ Recorded(a, {"sent_callback_ok"})' = Recorded(a, {"sent_callback_ok"})
      /\ Recorded(a, {"sent_callback_failed"})' = Recorded(a, {"sent_callback_failed"})
      /\ Recorded(a, {"durable_submit_intent"})' = Recorded(a, {"durable_submit_intent"})
  BY <1>1 DEF SentCallback
<1>. QED  BY <1>2 DEF SentFully, FailedAlone, IntentRecorded

\* Segments only count once the intent is recorded.
LEMMA SentDecides ==
  ASSUME NEW v, v.evidence \in SentCallback, RadioNext(v) # InvalidTransition
  PROVE  IntentRecorded(v.attempt) /\ RadioNext(v) = SentNext(v)
BY DEF RadioNext, SentCallback

\* The callback that lets SentNext answer submitted completes the segments.
LEMMA LastSegment ==
  ASSUME StoreInv, EventsInv, NEW v \in RadioEvent, RecordRadioEvent(v),
         v.evidence \in SentCallback, RadioNext(v) = "submitted"
  PROVE  SentFully(v.attempt)'
<1>. DEFINE S == Recorded(v.attempt, {"sent_callback_ok"})
            P == Recorded(v.attempt, SentCallback)
            T == Recorded(v.attempt, {"sent_callback_ok"})'
            n == v.count
<1>1. IntentRecorded(v.attempt) /\ SentNext(v) = "submitted" /\ events' = events \union {v}
  BY RecordWrites, SentDecides
<1>2. v.evidence = "sent_callback_ok" /\ AllSegmentsSent(v) /\ ~(Cardinality(P) >= n)
  BY <1>1 DEF SentNext, SentCallback, Apply, InvalidTransition
<1>3. IsFiniteSet(P) /\ S \in SUBSET P /\ IsFiniteSet(S)
  <2>1. P \in SUBSET events /\ S \in SUBSET P
    BY DEF Recorded, SentCallback
  <2>. QED  BY <2>1, FS_Subset DEF EventsInv
<1>4. n \in 1..MaxSegments /\ v.segment \in 1..n
  BY <1>2, StoreAssumption DEF RadioEvent, SentCallback
<1>5. Cardinality(S) + 1 = n /\ Cardinality(S) \in Nat /\ Cardinality(P) \in Nat
  BY <1>2, <1>3, FS_CardinalityType DEF AllSegmentsSent
<1>6. P = S
  <2>1. Cardinality(S) <= Cardinality(P) /\ (Cardinality(P) = Cardinality(S) => P = S)
    BY <1>3, FS_Subset
  <2>. QED  BY <1>2, <1>4, <1>5, <2>1
<1>7. \A e \in S : e.count = n /\ e.segment # v.segment
  BY SegmentFits DEF Recorded, SentCallback
<1>8. \A e \in S : e.segment \in 1..n
  <2>. SUFFICES ASSUME NEW e \in S PROVE e.segment \in 1..n
    OBVIOUS
  <2>1. e \in RadioEvent
    BY DEF Recorded, StoreInv, StoreTypeOK, SweepEvents
  <2>2. 1 <= e.segment /\ e.segment <= e.count /\ e.segment \in 0..MaxSegments
    BY <2>1 DEF Recorded, RadioEvent, SentCallback
  <2>. QED  BY <1>7, <2>2
<1>9. T = S \union {v} /\ v \notin S
  BY <1>1, <1>2, <1>7 DEF Recorded
<1>10. IsFiniteSet(T) /\ Cardinality(T) = n
  BY <1>3, <1>5, <1>9, FS_AddElement
<1>11. /\ \A e \in T : e.segment \in 1..n /\ e.count = n
       /\ \A e, f \in T : e.segment = f.segment => e = f
  <2>1. \A e, f \in S : e.segment = f.segment => e = f
    BY DEF EventsInv, SegmentsApart, Recorded, SentCallback
  <2>. QED  BY <1>4, <1>7, <1>8, <1>9, <2>1
<1>12. { e.segment : e \in T } = 1..n
  <2>. DEFINE f == [e \in T |-> e.segment]
  <2>. HIDE DEF T
  <2>1. f \in [T -> 1..n] /\ \A d, e \in T : f[d] = f[e] => d = e
    BY <1>11
  <2>2. \A e \in T : f[e] = e.segment
    OBVIOUS
  <2>. HIDE DEF f
  <2>3. f \in Injection(T, 1..n)
    BY <2>1, Fun_IsInj
  <2>4. IsFiniteSet(1..n) /\ Cardinality(1..n) = n
    BY <1>4, FS_Interval
  <2>5. f \in Surjection(T, 1..n)
    BY <1>10, <2>3, <2>4, FS_Injection
  <2>6. \A k \in 1..n : \E e \in T : f[e] = k
    BY <2>5 DEF Surjection
  <2>. QED  BY <1>11, <2>2, <2>6
<1>13. { e.count : e \in T } = {n}
  BY <1>9, <1>11
<1>14. Recorded(v.attempt, {"sent_callback_failed"})' = {}
  BY <1>1, <1>2, <1>6 DEF Recorded, SentCallback
<1>15. IntentRecorded(v.attempt)'
  BY <1>1 DEF IntentRecorded, Recorded
<1>. QED  BY <1>4, <1>12, <1>13, <1>14, <1>15 DEF SentFully

\* The callback that lets SentNext answer failed is the only one.
LEMMA OnlyCallback ==
  ASSUME StoreInv, EventsInv, NEW v \in RadioEvent, RecordRadioEvent(v),
         v.evidence \in SentCallback, RadioNext(v) = "failed"
  PROVE  FailedAlone(v.attempt)'
<1>. DEFINE P == Recorded(v.attempt, SentCallback)
<1>1. IntentRecorded(v.attempt) /\ SentNext(v) = "failed" /\ events' = events \union {v}
  BY RecordWrites, SentDecides
<1>2. v.evidence = "sent_callback_failed" /\ v.count = 1 /\ ~(Cardinality(P) >= v.count)
  BY <1>1 DEF SentNext, SentCallback, Apply, InvalidTransition
<1>3. IsFiniteSet(P)
  <2>1. P \in SUBSET events
    BY DEF Recorded
  <2>. QED  BY <2>1, FS_Subset DEF EventsInv
<1>4. P = {}
  BY <1>2, <1>3, FS_CardinalityType, FS_EmptySet
<1>. QED  BY <1>1, <1>2, <1>4 DEF FailedAlone, IntentRecorded, Recorded, SentCallback

\* Only a receipt or its timeout moves a message that was sent.
LEMMA SentBefore ==
  ASSUME NEW v \in RadioEvent, v.evidence \notin SentCallback,
         RadioNext(v) \in {"submitted", "delivered", "delivery_unknown", "failed"}
  PROVE  /\ state[v.message] \in {"submitted", "delivery_unknown"}
         /\ v.evidence # "durable_submit_intent" /\ RadioNext(v) # "failed"
<1>1. \A s : \A ev \in RadioEvidence \ SentCallback :
        Apply(s, ev) \in {"submitted", "delivered", "delivery_unknown", "failed"} =>
          /\ s \in {"submitted", "delivery_unknown"} /\ ev # "durable_submit_intent"
          /\ Apply(s, ev) # "failed"
  BY DEF Apply, RadioEvidence, SentCallback, InvalidTransition
<1>2. RadioNext(v) = Apply(state[v.message], v.evidence)
  BY DEF RadioNext, InvalidTransition
<1>. QED  BY <1>1, <1>2 DEF RadioEvent

LEMMA OutcomeStep ==
  ASSUME StoreInv, EventsInv, OutcomesSupported, [StoreNext]_storeVars
  PROVE  OutcomesSupported'
<1>0. /\ state \in [Messages -> MessageState \union {"absent"}]
      /\ fence \in [Messages -> FenceRow \union {NoFence}]
  BY DEF StoreInv, StoreTypeOK
<1>. DEFINE Decided == {"submitted", "delivered", "delivery_unknown", "failed"}
\* A message whose rows stay keeps its support.
<1>1. ASSUME NEW m \in Messages \ redacted, fence'[m].attempt = fence[m].attempt,
             \/ state'[m] = state[m]
             \/ state[m] \in {"submitted", "delivery_unknown"} /\
                state'[m] \in {"submitted", "delivered", "delivery_unknown"},
             Telling(fence[m].attempt)' = Telling(fence[m].attempt)
      PROVE  Supported(m)'
  <2>1. Supported(m)
    BY DEF OutcomesSupported
  <2>. QED  BY <1>1, <2>1, TellingFrame DEF Supported
<1>2. ASSUME NEW m \in Messages, state'[m] \notin Decided PROVE Supported(m)'
  BY <1>2 DEF Supported
<1>3. \A a : events' = events => Telling(a)' = Telling(a)
  BY DEF Telling, Recorded
<1>4. CASE Created
  <2>1. PICK k \in Keys, n \in Messages, r \in Request, elapsed \in BOOLEAN :
          AcceptCreate(k, n, r, elapsed)
    BY <1>4 DEF Created
  <2>2. state' = [state EXCEPT ![n] = "queued"] /\ UNCHANGED <<redacted, fence, events>>
    BY <2>1 DEF AcceptCreate, attemptVars
  <2>3. ASSUME NEW m \in Messages \ redacted PROVE Supported(m)'
    BY <1>0, <1>1, <1>2, <1>3, <2>2
  <2>. QED  BY <2>2, <2>3 DEF OutcomesSupported
<1>5. CASE Granted
  <2>1. PICK n \in Messages, g \in 1..MaxGeneration, e \in 1..MaxEpoch, a \in Attempts :
          IssueGrant(n, g, e, a)
    BY <1>5 DEF Granted
  <2>2. /\ UNCHANGED <<state, redacted, events>> /\ state[n] = "claimed"
        /\ \A m \in Messages : m # n => fence'[m] = fence[m]
    BY <1>0, <2>1 DEF IssueGrant, GrantCurrent
  <2>3. ASSUME NEW m \in Messages \ redacted PROVE Supported(m)'
    BY <1>1, <1>2, <1>3, <2>2
  <2>. QED  BY <2>2, <2>3 DEF OutcomesSupported
<1>6. CASE Still
  <2>1. ASSUME NEW m \in Messages \ redacted PROVE Supported(m)'
    BY <1>1, <1>2, <1>3, <1>6 DEF Still
  <2>. QED  BY <1>6, <2>1 DEF OutcomesSupported, Still
<1>7. CASE Swept
  <2>1. PICK n \in Messages : ReconcileSilentAttempt(n) \/ ReconcileDeliveryTimeout(n)
    BY <1>7 DEF Swept
  <2>2. PICK x \in SweepEvents : events' = events \union {x}
    BY <2>1, SweepWrites
  <2>3. \A a : Telling(a)' = Telling(a)
    BY <2>2 DEF Telling, Recorded, SweepEvents, SentCallback
  <2>4. ASSUME NEW m \in Messages \ redacted PROVE Supported(m)'
    <3>1. \/ state'[m] = state[m] \/ state'[m] = "unknown"
          \/ state[m] = "submitted" /\ state'[m] = "delivery_unknown"
      BY <1>0, <2>1, SweepWrites
    <3>2. fence'[m].attempt = fence[m].attempt
      BY <2>1, SweepWrites
    <3>. QED  BY <1>1, <1>2, <2>3, <3>1, <3>2
  <2>5. redacted' = redacted
    BY <2>1, SweepWrites
  <2>. QED  BY <2>4, <2>5 DEF OutcomesSupported
<1>8. ASSUME NEW m \in Messages, state[m] \in Decided
      PROVE  /\ fence[m].attempt \in Attempts /\ attempt[fence[m].attempt].message = m
  <2>1. fence[m] # NoFence
    BY <1>8 DEF StoreInv, RowsInv, RowsAgree
  <2>. QED  BY <2>1, Ungranted
<1>9. CASE EventPruned
  <2>1. PICK v \in events : PruneEvent(v)
    BY <1>9 DEF EventPruned
  <2>2. /\ UNCHANGED <<state, redacted, fence>> /\ events' = events \ {v}
        /\ v.message \in redacted /\ attempt[v.attempt].message = v.message
    BY <2>1 DEF PruneEvent, queueVars, EventsInv, EventsLinked
  <2>3. ASSUME NEW m \in Messages \ redacted PROVE Supported(m)'
    <3>1. CASE state[m] \in Decided
      <4>1. v.attempt # fence[m].attempt
        BY <1>8, <2>2, <2>3, <3>1
      <4>2. Telling(fence[m].attempt)' = Telling(fence[m].attempt)
        BY <2>2, <4>1 DEF Telling, Recorded
      <4>. QED  BY <1>1, <2>2, <4>2
    <3>2. CASE state[m] \notin Decided
      BY <1>2, <2>2, <3>2
    <3>. QED  BY <3>1, <3>2
  <2>. QED  BY <2>2, <2>3 DEF OutcomesSupported
<1>10. CASE Evidenced
  <2>1. PICK v \in RadioEvent : RecordRadioEvent(v)
    BY <1>10 DEF Evidenced
  <2>2. /\ v.message \in Messages /\ attempt[v.attempt].message = v.message
        /\ fence[v.message].attempt = v.attempt
        /\ state' = [state EXCEPT ![v.message] = RadioNext(v)]
        /\ events' = events \union {v} /\ redacted' = redacted
        /\ \A m \in Messages : m # v.message => fence'[m] = fence[m]
    BY <2>1, RecordWrites
  <2>3. ASSUME NEW m \in Messages \ redacted, m # v.message PROVE Supported(m)'
    <3>1. state'[m] = state[m] /\ fence'[m] = fence[m]
      BY <1>0, <2>2, <2>3
    <3>2. CASE state[m] \in Decided
      <4>1. v.attempt # fence[m].attempt
        BY <1>8, <2>2, <2>3, <3>2
      <4>2. Telling(fence[m].attempt)' = Telling(fence[m].attempt)
        BY <2>2, <4>1 DEF Telling, Recorded
      <4>. QED  BY <1>1, <3>1, <4>2
    <3>3. CASE state[m] \notin Decided
      BY <1>2, <3>1, <3>3
    <3>. QED  BY <3>2, <3>3
  <2>4. ASSUME NEW m \in Messages \ redacted, m = v.message PROVE Supported(m)'
    <3>1. state'[m] = RadioNext(v)
      BY <1>0, <2>2, <2>4
    <3>2. CASE RadioNext(v) \notin Decided
      BY <1>2, <3>1, <3>2
    <3>3. CASE RadioNext(v) \in Decided
      <4>1. v.evidence # "proven_no_submit"
        BY <3>3, RadioNextRange DEF InvalidTransition
      <4>2. fence'[m].attempt = v.attempt /\ fence[m].attempt = v.attempt
        BY <2>1, <2>2, <2>4, <4>1, RecordWrites
      <4>3. CASE v.evidence \in SentCallback
        <5>1. RadioNext(v) \in {"submitted", "failed"}
          <6>1. RadioNext(v) = SentNext(v)
            BY <3>3, <4>3, SentDecides DEF InvalidTransition
          <6>. QED  BY <3>3, <6>1 DEF SentNext, Apply, InvalidTransition
        <5>. QED  BY <2>1, <3>1, <4>2, <4>3, <5>1, LastSegment, OnlyCallback DEF Supported
      <4>4. CASE v.evidence \notin SentCallback
        <5>1. /\ state[m] \in {"submitted", "delivery_unknown"} /\ RadioNext(v) # "failed"
              /\ v.evidence # "durable_submit_intent"
          BY <2>4, <3>3, <4>4, SentBefore
        <5>2. Telling(v.attempt)' = Telling(v.attempt)
          BY <2>2, <4>4, <5>1 DEF Telling, Recorded
        <5>. QED  BY <1>1, <3>1, <3>3, <4>2, <5>1, <5>2
      <4>. QED  BY <4>3, <4>4
    <3>. QED  BY <3>2, <3>3
  <2>. QED  BY <2>2, <2>3, <2>4 DEF OutcomesSupported
<1>. QED  BY <1>4, <1>5, <1>6, <1>7, <1>9, <1>10, EvidenceKinds

\* record_radio_event counts callbacks, it does not collect them: still, a message is
\* submitted, delivered or failed only when every segment of its attempt says so,
\* through retries, timeouts, sweeps and retention.
THEOREM OutcomesAreEvident == StoreSpec => []OutcomeHasEvidence
<1>1. StoreInit => OutcomesSupported
  BY DEF StoreInit, OutcomesSupported, Supported
<1>2. StoreInv /\ EventsInv /\ OutcomesSupported /\ [StoreNext]_storeVars => OutcomesSupported'
  BY OutcomeStep
<1>. QED  BY <1>1, <1>2, OutcomeWords, StoreInvariant, EventsInOrder, PTL DEF StoreSpec


=============================================================================
