----------------------- MODULE StoreRefinementProofs ------------------------
(***************************************************************************)
(* The delivery store implements the domain Authority, for every instance: *)
(* the initial states map to initial states, every transaction maps to a   *)
(* call of the Authority or to a stutter.                                  *)
(*                                                                         *)
(* The Authority has no claims and never forgets a key.  So the mapping    *)
(* needs that a claim has no fence until its grant (StoreInv), and that,   *)
(* while keys last, an accepted message has a live one (KeysLast).         *)
(***************************************************************************)
EXTENDS StoreRefinement, StoreAdmissionProofs

USE DEF JobRow, AttemptRow, FenceRow, SessionRow, KeyRow, PeriodRow, EntryRow

KeysLast ==
  /\ \A k \in Keys : idem[k] = NoKey \/ idem[k].live
  /\ \A m \in Messages : state[m] # "absent" => \E k \in Keys : idem[k].live /\ idem[k].message = m

RefinementInv == StoreInv /\ KeysLast

\* The callers left out of the refinement only ever do less.
LEMMA FewerCallers == [RefinementNext]_storeVars => [StoreNext]_storeVars
BY DEF RefinementNext, StoreNext, Tenant, Operator, Passage

\* An accepted message has the key that created it, so no second key takes it.
LEMMA NoSecondKey ==
  ASSUME RefinementInv, NEW k \in Keys, NEW m \in Messages, NEW r \in Request, NEW elapsed
  PROVE  ~AcceptReplayNewKey(k, m, r, elapsed)
<1>. SUFFICES ASSUME AcceptResult(k, m, r, elapsed) = "replay_new_key" PROVE FALSE
  BY DEF AcceptReplayNewKey
<1>1. ~idem[k].live /\ ~KeyTaken(k, m) /\ state[m] # "absent"
  BY AcceptedShape
<1>2. PICK j \in Keys : idem[j].live /\ idem[j].message = m
  BY <1>1 DEF RefinementInv, KeysLast
<1>. QED  BY <1>1, <1>2 DEF KeyTaken

\* A step of the refinement, without what the Authority does not know.
LEMMA KeysLastStep ==
  ASSUME RefinementInv, [RefinementNext]_storeVars
  PROVE  KeysLast'
<1>. USE DEF queueVars, attemptVars, controlVars, meterVars
<1>0. /\ idem \in [Keys -> KeyRow \union {NoKey}]
      /\ state \in [Messages -> MessageState \union {"absent"}]
  BY DEF RefinementInv, StoreInv, StoreTypeOK
<1>1. ASSUME NEW k \in Keys, NEW m \in Messages, NEW r \in Request, NEW elapsed \in BOOLEAN,
             AcceptCreate(k, m, r, elapsed)
      PROVE  KeysLast'
  <2>1. /\ ~idem[k].live /\ state' = [state EXCEPT ![m] = "queued"]
        /\ idem' = [idem EXCEPT ![k] = [message |-> m, request |-> r, live |-> TRUE]]
    BY <1>1, AcceptedShape DEF AcceptCreate, BindKey
  <2>2. \A j \in Keys : j # k => idem'[j] = idem[j]
    BY <1>0, <2>1
  <2>3. idem'[k] = [message |-> m, request |-> r, live |-> TRUE]
    BY <1>0, <2>1
  <2>4. \A n \in Messages : n # m => state'[n] = state[n]
    BY <1>0, <2>1
  <2>5. \A j \in Keys : idem'[j] = NoKey \/ idem'[j].live
    BY <2>2, <2>3 DEF RefinementInv, KeysLast
  <2>6. ASSUME NEW n \in Messages, state'[n] # "absent"
        PROVE  \E j \in Keys : idem'[j].live /\ idem'[j].message = n
    <3>1. CASE n = m
      BY <2>3, <3>1
    <3>2. CASE n # m
      <4>1. PICK j \in Keys : idem[j].live /\ idem[j].message = n
        BY <2>4, <2>6, <3>2 DEF RefinementInv, KeysLast
      <4>. QED  BY <2>1, <2>2, <4>1
    <3>. QED  BY <3>1, <3>2
  <2>. QED  BY <2>5, <2>6 DEF KeysLast
<1>2. ASSUME UNCHANGED idem, \A m \in Messages : state'[m] # "absent" => state[m] # "absent"
      PROVE  KeysLast'
  BY <1>2 DEF RefinementInv, KeysLast
<1>3. [StoreNext]_storeVars /\ StoreInv
  BY FewerCallers DEF RefinementInv
<1>4. CASE Ended
  BY <1>0, <1>2, <1>4 DEF Ended, EndPreGrant, Refund
<1>5. CASE Moved
  BY <1>0, <1>2, <1>5 DEF Moved, Ongoing, MessageState
<1>6. CASE Unaccounted
  BY <1>2, <1>6 DEF Unaccounted
<1>7. ~Rebound
  BY NoSecondKey DEF Rebound
<1>8. CASE KeyEnded
  <2>1. \/ UNCHANGED idem
        \/ \E k \in Keys, m \in Messages, r \in Request : Accept(k, m, r)
    <3>1. Hub => UNCHANGED idem
      <4>1. ASSUME NEW d \in Devices, NEW e, ConnectSession(d) \/ EndLease(d, e)
            PROVE  UNCHANGED idem
        BY <4>1 DEF ConnectSession, EndLease
      <4>2. ASSUME NEW m \in Messages, NEW g, NEW e, NEW a,
                   ClaimDue(m, e) \/ GrantSuppressed(m, g, e) \/ IssueGrant(m, g, e, a)
            PROVE  UNCHANGED idem
        BY <4>2 DEF ClaimDue, GrantSuppressed, EndPreGrant, Refund, IssueGrant
      <4>3. ASSUME NEW v \in RadioEvent, RecordRadioEvent(v) PROVE UNCHANGED idem
        BY <4>3 DEF RecordRadioEvent
      <4>. QED  BY <4>1, <4>2, <4>3, Zenon DEF Hub
    <3>2. Recovery => UNCHANGED idem
      BY DEF Recovery, ExpireDue, EndPreGrant, Refund, ReconcileSilentAttempt,
             ReconcileDeliveryTimeout, Sweep
    <3>3. ASSUME NEW m \in Messages, GrantExpires(m) \/ MessageExpires(m) \/ Cancel(m)
          PROVE  UNCHANGED idem
      BY <3>3 DEF GrantExpires, MessageExpires, Cancel, EndPreGrant, Refund
    <3>4. ASSUME NEW r \in Recipients, Suppress(r) PROVE UNCHANGED idem
      BY <3>4 DEF Suppress, EndPreGrant, Refund
    <3>5. Operator \/ UNCHANGED storeVars => UNCHANGED idem
      BY DEF Operator, ChangeAuthority, Revoke, storeVars
    <3>. QED  BY <3>1, <3>2, <3>3, <3>4, <3>5 DEF RefinementNext
  <2>2. CASE UNCHANGED idem
    BY <1>2, <1>8, <2>2 DEF KeyEnded
  <2>3. CASE \E k \in Keys, m \in Messages, r \in Request : Accept(k, m, r)
    BY <1>1, <2>3, NoSecondKey DEF Accept
  <2>. QED  BY <2>1, <2>2, <2>3
<1>9. CASE Created
  BY <1>1, <1>9 DEF Created
<1>. QED  BY <1>3, <1>4, <1>5, <1>6, <1>7, <1>8, <1>9, Coarsely

\* While keys last, no step of accept_inner leaves an accepted message without one.
THEOREM RefinementInvariant == RefinementSpec => []RefinementInv
<1>1. StoreInit => KeysLast
  BY DEF StoreInit, KeysLast, NoKey
<1>2. StoreInit => RefinementInv
  BY <1>1, InitInv DEF RefinementInv
<1>3. RefinementInv /\ [RefinementNext]_storeVars => RefinementInv'
  BY KeysLastStep, FewerCallers, NextInv DEF RefinementInv
<1>. QED  BY <1>2, <1>3, PTL DEF RefinementSpec

-----------------------------------------------------------------------------
(***************************************************************************)
(* The mapping.                                                            *)
(***************************************************************************)

MappedSessions == [d \in Devices |-> [epoch |-> session[d].epoch, live |-> session[d].live]]

\* The Authority sees the state of a message that has a grant as it is, and none of
\* its claims.
LEMMA MappedRows ==
  ASSUME StoreInv, NEW m \in Messages
  PROVE  /\ job[m].granted => MappedMessages[m] = state[m]
         /\ ~job[m].granted /\ state[m] \in {"queued", "claimed"} => MappedMessages[m] = "queued"
         /\ state[m] = "absent" <=> MappedMessages[m] = "absent"
         /\ ~job[m].granted => MappedGrants[m] = Abstract!NoGrant
         /\ job[m].granted <=> fence[m] # NoFence
         /\ fence[m] # NoFence => MappedGrants[m].device = request[m].device
         /\ MappedMessages[m] \in {"claimed", "submitting", "unknown"} =>
              fence[m].outcome \in ActiveOutcome
<1>1. job[m].granted <=> fence[m] # NoFence
  BY DEF StoreInv, RowsInv, RowsAgree
<1>2. fence[m] # NoFence => fence[m].attempt \in Attempts
  BY Ungranted
<1>3. NoFence.attempt = "none" /\ "none" \notin Attempts
  BY StoreAssumption DEF NoFence
<1>4. ASSUME MappedMessages[m] \in {"claimed", "submitting", "unknown"}
      PROVE  fence[m].outcome \in ActiveOutcome
  <2>1. state[m] \in {"claimed", "submitting", "unknown"} /\ (state[m] = "claimed" => job[m].granted)
    BY <1>4 DEF MappedMessages
  <2>2. fence[m] # NoFence
    BY <1>1, <2>1 DEF StoreInv, RowsInv, RowsAgree
  <2>3. fence[m].outcome = IF state[m] = "claimed" THEN "granted" ELSE StatusOf(state[m])
    BY <2>2 DEF StoreInv, RowsInv, RowsAgree
  <2>4. StatusOf("submitting") = "submitting" /\ StatusOf("unknown") = "unknown"
    BY DEF StatusOf
  <2>. QED  BY <2>1, <2>3, <2>4 DEF ActiveOutcome
<1>. QED  BY <1>1, <1>2, <1>3, <1>4 DEF MappedMessages, MappedGrants, Abstract!NoGrant

\* Steps the Authority does not see.
LEMMA Unseen ==
  ASSUME UNCHANGED <<authority, session, idem, request>>,
         \A m \in Messages : /\ MappedMessages'[m] = MappedMessages[m]
                             /\ fence'[m].attempt = fence[m].attempt
                             /\ fence'[m].epoch = fence[m].epoch
                             /\ fence'[m].deployment = fence[m].deployment
  PROVE  UNCHANGED Abstract!vars
<1>1. MappedMessages' = MappedMessages
  BY DEF MappedMessages
<1>2. MappedGrants' = MappedGrants
  BY DEF MappedGrants
<1>3. MappedIdempotency' = MappedIdempotency
  BY DEF MappedIdempotency
<1>. QED  BY <1>1, <1>2, <1>3 DEF Abstract!vars

\* accept_inner creates a message: Authority::accept.
LEMMA AcceptMapped ==
  ASSUME RefinementInv, NEW k \in Keys, NEW m \in Messages, NEW r \in Request, NEW elapsed,
         AcceptCreate(k, m, r, elapsed)
  PROVE  Abstract!Accept(k, r, m)
<1>0. /\ idem \in [Keys -> KeyRow \union {NoKey}]
      /\ state \in [Messages -> MessageState \union {"absent"}]
      /\ job \in [Messages -> JobRow] /\ request \in [Messages -> Request \union {NoRequest}]
  BY DEF RefinementInv, StoreInv, StoreTypeOK
<1>1. /\ ~idem[k].live /\ state[m] = "absent"
      /\ state' = [state EXCEPT ![m] = "queued"] /\ job' = [job EXCEPT ![m] = NewJob]
      /\ request' = [request EXCEPT ![m] = r]
      /\ idem' = [idem EXCEPT ![k] = [message |-> m, request |-> r, live |-> TRUE]]
      /\ UNCHANGED <<fence, session, authority>>
  BY AcceptedShape DEF AcceptCreate, BindKey, attemptVars, controlVars
<1>2. MappedIdempotency[k] = Abstract!NoBinding
  BY <1>1 DEF RefinementInv, KeysLast, MappedIdempotency, Abstract!NoBinding, NoKey
<1>3. MappedMessages[m] = "absent" /\ fence[m] = NoFence
  BY <1>1, MappedRows, Ungranted DEF RefinementInv
<1>4. MappedIdempotency' = [MappedIdempotency EXCEPT ![k] = [request |-> r, message |-> m]]
  BY <1>0, <1>1 DEF MappedIdempotency
<1>5. MappedMessages' = [MappedMessages EXCEPT ![m] = "queued"]
  BY <1>0, <1>1 DEF MappedMessages
<1>6. MappedGrants' = MappedGrants
  <2>1. \A n \in Messages : n # m => request'[n] = request[n]
    BY <1>0, <1>1
  <2>2. fence[m].attempt = "none"
    BY <1>3 DEF NoFence
  <2>. QED  BY <1>1, <2>1, <2>2 DEF MappedGrants
<1>. QED  BY <1>1, <1>2, <1>3, <1>4, <1>5, <1>6 DEF Abstract!Accept

\* grant_in_transaction: Authority::grant.
LEMMA GrantMapped ==
  ASSUME RefinementInv, NEW m \in Messages, NEW g \in 1..MaxGeneration, NEW e \in 1..MaxEpoch,
         NEW a \in Attempts, IssueGrant(m, g, e, a)
  PROVE  request[m].device \in Devices /\ Abstract!Grant(request[m].device, e, m, a)
<1>. DEFINE d == request[m].device
<1>0. /\ fence \in [Messages -> FenceRow \union {NoFence}] /\ job \in [Messages -> JobRow]
      /\ state \in [Messages -> MessageState \union {"absent"}] /\ StoreInv
  BY DEF RefinementInv, StoreInv, StoreTypeOK
<1>1. /\ state[m] = "claimed" /\ ~job[m].granted /\ authority.dispatch
      /\ session[d].epoch = e /\ session[d].live /\ Active(d) = {} /\ fence[m] = NoFence
      /\ fence' = [fence EXCEPT ![m] = [attempt |-> a, epoch |-> e, deployment |-> authority.epoch,
                                        outcome |-> "granted", live |-> TRUE]]
      /\ job' = [job EXCEPT ![m].granted = TRUE]
      /\ UNCHANGED <<state, request, session, authority, idem>>
  BY DEF IssueGrant, GrantCurrent, controlVars, meterVars
<1>2. d \in Devices
  BY <1>1 DEF RefinementInv, StoreInv, RowsInv, Requested, Request
<1>3. MappedMessages[m] = "queued" /\ MappedGrants[m] = Abstract!NoGrant
  BY <1>0, <1>1, MappedRows
<1>4. ~Abstract!Busy(d)
  <2>. SUFFICES ASSUME NEW n \in Messages, MappedGrants[n].device = d,
                       MappedMessages[n] \in {"claimed", "submitting", "unknown"}
                PROVE  FALSE
    BY DEF Abstract!Busy
  <2>1. fence[n].outcome \in ActiveOutcome
    BY <1>0, MappedRows
  <2>2. request[n].device = d
    BY <1>0, <2>1, MappedRows, Ungranted
  <2>. QED  BY <1>1, <2>1, <2>2 DEF Active
<1>5. MappedGrants' = [MappedGrants EXCEPT ![m] = [attempt |-> a, device |-> d, epoch |-> e,
                                                   deployment |-> authority.epoch]]
  BY <1>0, <1>1, StoreAssumption DEF MappedGrants
<1>6. MappedMessages' = [MappedMessages EXCEPT ![m] = "claimed"]
  <2>1. \A n \in Messages : job'[n].granted = IF n = m THEN TRUE ELSE job[n].granted
    BY <1>0, <1>1
  <2>. QED  BY <1>1, <2>1 DEF MappedMessages
<1>7. MappedIdempotency' = MappedIdempotency
  BY <1>1 DEF MappedIdempotency
<1>. QED  BY <1>1, <1>2, <1>3, <1>4, <1>5, <1>6, <1>7 DEF Abstract!Grant

\* The store and the Authority share the transition table of the domain crate.
LEMMA SameTable ==
  /\ Abstract!Evidence = Evidence /\ Abstract!InvalidTransition = InvalidTransition
  /\ \A s, ev : Abstract!Apply(s, ev) = Apply(s, ev)
BY DEF Abstract!Evidence, Evidence, Abstract!InvalidTransition, InvalidTransition,
       Abstract!Apply, Apply

\* Evidence that changes messages and grants as Authority::event does.
LEMMA EventMapped ==
  ASSUME NEW ms \in (SUBSET Messages) \ {{}}, NEW ev \in Evidence,
         UNCHANGED <<session, authority, idem>>,
         \A m \in ms : /\ MappedMessages[m] # "absent"
                       /\ Apply(MappedMessages[m], ev) # InvalidTransition
                       /\ ev \in {"cancel", "expire"} => MappedGrants[m] = Abstract!NoGrant,
         \A m \in Messages : MappedMessages'[m] = IF m \in ms THEN Apply(MappedMessages[m], ev)
                                                            ELSE MappedMessages[m],
         \A m \in Messages : MappedGrants'[m] = IF m \in ms /\ ev = "proven_no_submit"
                                                THEN Abstract!NoGrant ELSE MappedGrants[m]
  PROVE  Abstract!Next
<1>1. MappedMessages' = [m \in Messages |-> IF m \in ms THEN Abstract!Apply(MappedMessages[m], ev)
                                                        ELSE MappedMessages[m]]
  BY SameTable DEF MappedMessages
<1>2. MappedGrants' = [m \in Messages |-> IF m \in ms /\ ev = "proven_no_submit"
                                          THEN Abstract!NoGrant ELSE MappedGrants[m]]
  BY DEF MappedGrants
<1>3. MappedIdempotency' = MappedIdempotency
  BY DEF MappedIdempotency
<1>4. \A m \in ms : Abstract!Apply(MappedMessages[m], ev) # Abstract!InvalidTransition
  BY SameTable
<1>5. Abstract!Event(ms, ev)
  BY <1>1, <1>2, <1>3, <1>4 DEF Abstract!Event
<1>. QED  BY <1>5, SameTable DEF Abstract!Next

\* Cancels, withdrawals and expiries: Authority::event on every message they end.
LEMMA EndMapped ==
  ASSUME RefinementInv, NEW ms \in SUBSET Messages, NEW s \in {"cancelled", "expired"},
         EndPreGrant(ms, s), UNCHANGED <<session, authority>>,
         \A m \in ms : state[m] \in {"queued", "claimed"} /\ fence[m] = NoFence
  PROVE  [Abstract!Next]_Abstract!vars
<1>. DEFINE ev == IF s = "cancelled" THEN "cancel" ELSE "expire"
<1>0. job \in [Messages -> JobRow] /\ StoreInv
  BY DEF RefinementInv, StoreInv, StoreTypeOK
<1>1. /\ state' = [m \in Messages |-> IF m \in ms THEN s ELSE state[m]]
      /\ \A m \in Messages : job'[m].granted = job[m].granted
      /\ UNCHANGED <<request, fence, idem>>
  BY <1>0 DEF EndPreGrant, Refund, attemptVars
<1>2. Apply("queued", ev) = s /\ ev \in Evidence /\ ev # "proven_no_submit"
  BY DEF Apply, Evidence, InvalidTransition
<1>3. \A m \in ms : MappedMessages[m] = "queued" /\ MappedGrants[m] = Abstract!NoGrant
  BY <1>0, MappedRows
<1>4. \A m \in Messages : MappedMessages'[m] = IF m \in ms THEN Apply(MappedMessages[m], ev)
                                                     ELSE MappedMessages[m]
  <2>1. \A m \in Messages : MappedMessages'[m] = IF m \in ms THEN s ELSE MappedMessages[m]
    BY <1>1 DEF MappedMessages
  <2>. QED  BY <1>2, <1>3, <2>1
<1>5. MappedGrants' = MappedGrants
  BY <1>1 DEF MappedGrants
<1>6. CASE ms = {}
  <2>1. MappedMessages' = MappedMessages /\ MappedIdempotency' = MappedIdempotency
    BY <1>1, <1>4, <1>6 DEF MappedMessages, MappedIdempotency
  <2>. QED  BY <1>5, <2>1 DEF Abstract!vars
<1>7. CASE ms # {}
  <2>1. \A m \in ms : /\ MappedMessages[m] # "absent"
                      /\ Apply(MappedMessages[m], ev) # InvalidTransition
                      /\ MappedGrants[m] = Abstract!NoGrant
    BY <1>2, <1>3 DEF InvalidTransition
  <2>. HIDE DEF ev
  <2>2. Abstract!Next
    BY <1>1, <1>2, <1>4, <1>5, <1>7, <2>1, EventMapped
  <2>. QED  BY <2>2
<1>. QED  BY <1>6, <1>7

\* Radio evidence moves the message by the table, or not at all.
LEMMA RadioMapped ==
  ASSUME RefinementInv, NEW v \in RadioEvent, RecordRadioEvent(v)
  PROVE  [Abstract!Next]_Abstract!vars
<1>. DEFINE m == v.message
<1>0. /\ StoreInv /\ job \in [Messages -> JobRow]
      /\ state \in [Messages -> MessageState \union {"absent"}]
      /\ fence \in [Messages -> FenceRow \union {NoFence}]
  BY DEF RefinementInv, StoreInv, StoreTypeOK
<1>1. /\ m \in Messages /\ fence[m] # NoFence /\ RadioNext(v) # InvalidTransition
      /\ state' = [state EXCEPT ![m] = RadioNext(v)]
      /\ UNCHANGED <<request, session, authority, idem>>
  BY <1>0, RecordedShape DEF StoreInv, RecordRadioEvent, controlVars, meterVars
<1>2. job[m].granted /\ MappedMessages[m] = state[m] /\ state[m] # "absent"
  BY <1>0, <1>1, MappedRows, Ungranted
<1>3. \A n \in Messages : n # m => /\ MappedMessages'[n] = MappedMessages[n]
                                   /\ MappedGrants'[n] = MappedGrants[n]
  <2>1. \A n \in Messages : n # m => state'[n] = state[n] /\ job'[n] = job[n] /\ fence'[n] = fence[n]
    BY <1>0, <1>1 DEF RecordRadioEvent
  <2>. QED  BY <1>1, <2>1 DEF MappedMessages, MappedGrants
<1>4. MappedMessages'[m] = RadioNext(v)
  <2>1. state'[m] = RadioNext(v) /\ RadioNext(v) # "claimed"
    BY <1>0, <1>1, RadioNextRange DEF InvalidTransition
  <2>. QED  BY <1>1, <2>1 DEF MappedMessages
<1>5. MappedGrants'[m] = IF v.evidence = "proven_no_submit" THEN Abstract!NoGrant ELSE MappedGrants[m]
  <2>1. CASE v.evidence = "proven_no_submit"
    <3>1. fence'[m] = NoFence
      BY <1>0, <1>1, <2>1 DEF RecordRadioEvent
    <3>. QED  BY <1>1, <2>1, <3>1 DEF MappedGrants, NoFence, Abstract!NoGrant
  <2>2. CASE v.evidence # "proven_no_submit"
    <3>1. PICK f : fence' = [fence EXCEPT ![m] = f] /\
                   (f = fence[m] \/ \E o : f = [fence[m] EXCEPT !.outcome = o])
      BY <2>2, Zenon DEF RecordRadioEvent
    <3>2. fence[m] \in FenceRow
      BY <1>0, <1>1
    <3>3. f.attempt = fence[m].attempt /\ f.epoch = fence[m].epoch
          /\ f.deployment = fence[m].deployment
      BY <3>1, <3>2
    <3>4. fence'[m] = f
      BY <1>0, <1>1, <3>1
    <3>. QED  BY <1>1, <2>2, <3>3, <3>4 DEF MappedGrants
  <2>. QED  BY <2>1, <2>2
<1>6. \/ RadioNext(v) = state[m] /\ v.evidence # "proven_no_submit"
      \/ \E ev \in Evidence \ {"cancel", "expire"} :
           RadioNext(v) = Apply(state[m], ev) /\
             (ev = "proven_no_submit" <=> v.evidence = "proven_no_submit")
  <2>1. /\ v.evidence \in RadioEvidence /\ RadioEvidence \subseteq Evidence \ {"cancel", "expire"}
        /\ "partial_sent_callbacks" \in Evidence
    BY DEF RadioEvent, RadioEvidence, Evidence
  <2>2. CASE v.evidence \in SentCallback
    <3>1. RadioNext(v) = SentNext(v)
      BY <1>1, <2>2 DEF RadioNext, SentCallback
    <3>2. \/ RadioNext(v) = state[m]
          \/ \E ev \in SentCallback \union {"partial_sent_callbacks"} :
               RadioNext(v) = Apply(state[m], ev)
      BY <1>1, <3>1 DEF SentNext, SentCallback
    <3>. QED  BY <2>1, <2>2, <3>2 DEF SentCallback, RadioEvidence
  <2>3. CASE v.evidence \notin SentCallback
    <3>1. RadioNext(v) = Apply(state[m], v.evidence)
      BY <1>1, <2>3 DEF RadioNext
    <3>. QED  BY <2>1, <3>1
  <2>. QED  BY <2>2, <2>3
<1>. HIDE DEF m
<1>7. CASE RadioNext(v) = state[m] /\ v.evidence # "proven_no_submit"
  <2>1. /\ \A n \in Messages : MappedMessages'[n] = MappedMessages[n]
        /\ \A n \in Messages : MappedGrants'[n] = MappedGrants[n]
    BY <1>2, <1>3, <1>4, <1>5, <1>7
  <2>2. MappedMessages' = MappedMessages /\ MappedGrants' = MappedGrants
        /\ MappedIdempotency' = MappedIdempotency
    BY <1>1, <2>1 DEF MappedMessages, MappedGrants, MappedIdempotency
  <2>. QED  BY <1>1, <2>2 DEF Abstract!vars
<1>8. CASE \E ev \in Evidence \ {"cancel", "expire"} :
             RadioNext(v) = Apply(state[m], ev) /\
               (ev = "proven_no_submit" <=> v.evidence = "proven_no_submit")
  <2>1. PICK ev \in Evidence \ {"cancel", "expire"} :
             RadioNext(v) = Apply(state[m], ev) /\
               (ev = "proven_no_submit" <=> v.evidence = "proven_no_submit")
    BY <1>8
  <2>2. {m} \in (SUBSET Messages) \ {{}}
    BY <1>1
  <2>3. \A n \in {m} : /\ MappedMessages[n] # "absent"
                       /\ Apply(MappedMessages[n], ev) # InvalidTransition
                       /\ ev \in {"cancel", "expire"} => MappedGrants[n] = Abstract!NoGrant
    BY <1>1, <1>2, <2>1
  <2>4. /\ \A n \in Messages : MappedMessages'[n] = IF n \in {m} THEN Apply(MappedMessages[n], ev)
                                                               ELSE MappedMessages[n]
        /\ \A n \in Messages : MappedGrants'[n] = IF n \in {m} /\ ev = "proven_no_submit"
                                                   THEN Abstract!NoGrant ELSE MappedGrants[n]
    BY <1>2, <1>3, <1>4, <1>5, <2>1
  <2>5. UNCHANGED <<session, authority, idem>> /\ ev \in Evidence
    BY <1>1
  <2>6. Abstract!Next
    BY <2>2, <2>3, <2>4, <2>5, EventMapped
  <2>. QED  BY <2>6
<1>. QED  BY <1>6, <1>7, <1>8

\* The recovery sweeps: Authority::event with the timeout's evidence.
LEMMA SweepMapped ==
  ASSUME RefinementInv, NEW m \in Messages,
         ReconcileSilentAttempt(m) \/ ReconcileDeliveryTimeout(m)
  PROVE  Abstract!Next
<1>0. /\ StoreInv /\ job \in [Messages -> JobRow]
      /\ state \in [Messages -> MessageState \union {"absent"}]
      /\ fence \in [Messages -> FenceRow \union {NoFence}]
  BY DEF RefinementInv, StoreInv, StoreTypeOK
<1>1. PICK s, o, ev :
        /\ Sweep(m, s, o, ev)
        /\ \/ state[m] = "claimed" /\ s = "unknown" /\ ev = "grant_timeout"
           \/ state[m] = "submitting" /\ s = "unknown" /\ ev = "sent_callback_timeout"
           \/ state[m] = "submitted" /\ s = "delivery_unknown" /\ ev = "delivery_timeout"
  BY DEF ReconcileSilentAttempt, ReconcileDeliveryTimeout
<1>2. Apply(state[m], ev) = s /\ ev \in Evidence \ {"cancel", "expire", "proven_no_submit"}
  BY <1>1 DEF Apply, Evidence
<1>3. fence[m] # NoFence
  BY DEF ReconcileSilentAttempt, ReconcileDeliveryTimeout, NoFence
<1>4. job[m].granted /\ MappedMessages[m] = state[m] /\ fence[m] \in FenceRow
  BY <1>0, <1>3, MappedRows
<1>5. /\ state' = [state EXCEPT ![m] = s] /\ fence' = [fence EXCEPT ![m].outcome = o]
      /\ UNCHANGED <<job, request, session, authority, idem>>
  BY <1>1 DEF Sweep, controlVars, meterVars
<1>6. \A n \in Messages : /\ fence'[n].attempt = fence[n].attempt
                          /\ fence'[n].epoch = fence[n].epoch
                          /\ fence'[n].deployment = fence[n].deployment
  <2>1. fence' = [fence EXCEPT ![m] = [fence[m] EXCEPT !.outcome = o]]
    BY <1>5
  <2>. DEFINE f == [fence[m] EXCEPT !.outcome = o]
  <2>2. f.attempt = fence[m].attempt /\ f.epoch = fence[m].epoch
        /\ f.deployment = fence[m].deployment
    BY <1>4
  <2>. HIDE DEF f
  <2>. QED  BY <1>0, <2>1, <2>2
<1>7. \A n \in Messages : MappedGrants'[n] = MappedGrants[n]
  BY <1>5, <1>6 DEF MappedGrants
<1>8. \A n \in Messages : MappedMessages'[n] = IF n \in {m} THEN s ELSE MappedMessages[n]
  BY <1>0, <1>1, <1>5 DEF MappedMessages
<1>9. {m} \in (SUBSET Messages) \ {{}}
  OBVIOUS
<1>10. /\ \A n \in {m} : /\ MappedMessages[n] # "absent"
                         /\ Apply(MappedMessages[n], ev) # InvalidTransition
  BY <1>1, <1>2, <1>4 DEF InvalidTransition
<1>11. /\ \A n \in Messages : MappedMessages'[n] = IF n \in {m} THEN Apply(MappedMessages[n], ev)
                                                               ELSE MappedMessages[n]
       /\ \A n \in Messages : MappedGrants'[n] = IF n \in {m} /\ ev = "proven_no_submit"
                                                   THEN Abstract!NoGrant ELSE MappedGrants[n]
  BY <1>2, <1>4, <1>7, <1>8
<1>. QED  BY <1>2, <1>5, <1>9, <1>10, <1>11, EventMapped

\* The hub: sessions, claims, grants and evidence.
LEMMA HubMapped ==
  ASSUME RefinementInv, Hub
  PROVE  [Abstract!Next]_Abstract!vars
<1>0. /\ StoreInv /\ session \in [Devices -> SessionRow] /\ job \in [Messages -> JobRow]
      /\ state \in [Messages -> MessageState \union {"absent"}]
  BY DEF RefinementInv, StoreInv, StoreTypeOK
<1>1. ASSUME UNCHANGED <<state, request, job, fence, idem>>
      PROVE  /\ MappedMessages' = MappedMessages /\ MappedGrants' = MappedGrants
             /\ MappedIdempotency' = MappedIdempotency
  BY <1>1 DEF MappedMessages, MappedGrants, MappedIdempotency
<1>2. ASSUME NEW d \in Devices, ConnectSession(d) PROVE Abstract!Connect(d)
  <2>1. /\ UNCHANGED <<state, request, job, fence, idem, authority>> /\ session[d].epoch < MaxEpoch
        /\ session' = [session EXCEPT ![d] = [epoch |-> session[d].epoch + 1,
                                              deployment |-> authority.epoch, live |-> TRUE]]
    BY <1>2 DEF ConnectSession, queueVars, attemptVars, meterVars
  <2>2. MappedSessions' = [MappedSessions EXCEPT ![d] = [epoch |-> MappedSessions[d].epoch + 1,
                                                         live |-> TRUE]]
    BY <1>0, <2>1 DEF MappedSessions
  <2>3. MappedSessions[d].epoch < MaxEpoch
    BY <2>1 DEF MappedSessions
  <2>. QED  BY <1>1, <2>1, <2>2, <2>3 DEF Abstract!Connect, MappedSessions
<1>3. ASSUME NEW d \in Devices, NEW e \in 1..MaxEpoch, EndLease(d, e) PROVE Abstract!LeaseEnds(d)
  <2>1. /\ UNCHANGED <<state, request, job, fence, idem, authority>> /\ session[d].live
        /\ session' = [session EXCEPT ![d].live = FALSE]
    BY <1>3 DEF EndLease, queueVars, attemptVars, meterVars
  <2>2. MappedSessions' = [MappedSessions EXCEPT ![d].live = FALSE]
    BY <1>0, <2>1 DEF MappedSessions
  <2>3. MappedSessions[d].live
    BY <2>1 DEF MappedSessions
  <2>. QED  BY <1>1, <2>1, <2>2, <2>3 DEF Abstract!LeaseEnds, MappedSessions
<1>4. ASSUME NEW m \in Messages, NEW e \in 1..MaxEpoch, ClaimDue(m, e)
      PROVE  UNCHANGED Abstract!vars
  <2>1. /\ UNCHANGED <<request, fence, idem, authority, session>>
        /\ state[m] \in {"queued", "claimed"} /\ ~job[m].granted
        /\ state' = [state EXCEPT ![m] = "claimed"]
        /\ \A n \in Messages : job'[n].granted = job[n].granted
    BY <1>0, <1>4 DEF ClaimDue, Claimable, attemptVars, controlVars, meterVars
  <2>2. \A n \in Messages : MappedMessages'[n] = MappedMessages[n]
    BY <1>0, <2>1 DEF MappedMessages
  <2>. QED  BY <2>1, <2>2, Unseen
<1>5. ASSUME NEW m \in Messages, NEW g \in 1..MaxGeneration, NEW e \in 1..MaxEpoch,
             GrantSuppressed(m, g, e)
      PROVE  [Abstract!Next]_Abstract!vars
  <2>1. /\ EndPreGrant({m}, "cancelled") /\ UNCHANGED <<session, authority>>
        /\ state[m] = "claimed" /\ fence[m] = NoFence
    BY <1>0, <1>5, Ungranted DEF GrantSuppressed, GrantCurrent, controlVars
  <2>. QED  BY <2>1, EndMapped
<1>6. ASSUME NEW m \in Messages, NEW g \in 1..MaxGeneration, NEW e \in 1..MaxEpoch,
             NEW a \in Attempts, IssueGrant(m, g, e, a)
      PROVE  Abstract!Next
  BY <1>6, GrantMapped DEF Abstract!Next
<1>7. \/ \E d \in Devices : ConnectSession(d)
      \/ \E d \in Devices, e \in 1..MaxEpoch : EndLease(d, e)
      \/ \E m \in Messages, e \in 1..MaxEpoch : ClaimDue(m, e)
      \/ \E m \in Messages, e \in 1..MaxEpoch, g \in 1..MaxGeneration : GrantSuppressed(m, g, e)
      \/ \E m \in Messages, e \in 1..MaxEpoch, g \in 1..MaxGeneration, a \in Attempts :
           IssueGrant(m, g, e, a)
      \/ \E v \in RadioEvent : RecordRadioEvent(v)
  BY DEF Hub
<1>8. (\E d \in Devices : ConnectSession(d)) => Abstract!Next
  BY <1>2 DEF Abstract!Next
<1>9. (\E d \in Devices, e \in 1..MaxEpoch : EndLease(d, e)) => Abstract!Next
  BY <1>3 DEF Abstract!Next
<1>. QED  BY <1>4, <1>5, <1>6, <1>7, <1>8, <1>9, RadioMapped

\* Every transaction of the refinement is a call of the Authority, or a stutter.
LEMMA StepMapped ==
  ASSUME RefinementInv, [RefinementNext]_storeVars
  PROVE  [Abstract!Next]_Abstract!vars
<1>. USE DEF queueVars, attemptVars, controlVars, meterVars
<1>0. /\ StoreInv /\ fence \in [Messages -> FenceRow \union {NoFence}]
      /\ authority \in [epoch: 1..MaxDeployment, dispatch: BOOLEAN, open: BOOLEAN]
  BY DEF RefinementInv, StoreInv, StoreTypeOK
<1>1. ASSUME NEW k \in Keys, NEW m \in Messages, NEW r \in Request, Accept(k, m, r)
      PROVE  Abstract!Next
  <2>1. Abstract!Accept(k, r, m)
    BY <1>1, AcceptMapped, NoSecondKey DEF Accept
  <2>. QED  BY <2>1 DEF Abstract!Next
<1>2. CASE Hub
  BY <1>2, HubMapped
<1>3. CASE Recovery
  <2>1. ASSUME NEW m \in Messages, ExpireDue(m) PROVE [Abstract!Next]_Abstract!vars
    <3>1. /\ EndPreGrant({m}, "expired") /\ UNCHANGED <<session, authority>>
          /\ state[m] \in {"queued", "claimed"} /\ fence[m] = NoFence
      BY <1>0, <2>1, Ungranted DEF ExpireDue
    <3>. QED  BY <3>1, EndMapped
  <2>. QED  BY <1>3, <2>1, SweepMapped DEF Recovery
<1>4. CASE ChangeAuthority
  <2>1. /\ UNCHANGED <<state, request, job, fence, idem, session>>
        /\ authority'.dispatch \in BOOLEAN /\ authority'.epoch \in authority.epoch..MaxDeployment
    <3>1. UNCHANGED <<state, request, job, fence, idem, session>>
      BY <1>4 DEF ChangeAuthority
    <3>2. MaxDeployment \in Nat /\ authority.epoch \in authority.epoch..MaxDeployment
      BY <1>0, StoreAssumption
    <3>3. CASE authority' = [authority EXCEPT !.dispatch = ~@] \/
               authority' = [authority EXCEPT !.open = ~@]
      BY <1>0, <3>1, <3>2, <3>3
    <3>4. CASE /\ authority.epoch < MaxDeployment
               /\ authority' = [authority EXCEPT !.epoch = @ + 1, !.dispatch = FALSE]
      <4>1. authority.epoch + 1 \in authority.epoch..MaxDeployment
        BY <1>0, <3>2, <3>4
      <4>2. authority'.dispatch = FALSE /\ authority'.epoch = authority.epoch + 1
        BY <1>0, <3>4
      <4>. QED  BY <3>1, <4>1, <4>2
    <3>. QED  BY <1>4, <3>3, <3>4 DEF ChangeAuthority
  <2>2. MappedMessages' = MappedMessages /\ MappedGrants' = MappedGrants
        /\ MappedIdempotency' = MappedIdempotency
    BY <2>1 DEF MappedMessages, MappedGrants, MappedIdempotency
  <2>3. Abstract!Operate
    BY <2>1, <2>2 DEF Abstract!Operate
  <2>. QED  BY <2>3 DEF Abstract!Next
<1>5. ASSUME NEW m \in Messages, GrantExpires(m) PROVE UNCHANGED Abstract!vars
  <2>1. /\ UNCHANGED <<state, request, job, idem, session, authority>> /\ fence[m].live
        /\ fence' = [fence EXCEPT ![m] = [fence[m] EXCEPT !.live = FALSE]]
    BY <1>5 DEF GrantExpires
  <2>. DEFINE f == [fence[m] EXCEPT !.live = FALSE]
  <2>2. f.attempt = fence[m].attempt /\ f.epoch = fence[m].epoch
        /\ f.deployment = fence[m].deployment
    BY <1>0 DEF NoFence
  <2>. HIDE DEF f
  <2>3. \A n \in Messages : /\ fence'[n].attempt = fence[n].attempt
                            /\ fence'[n].epoch = fence[n].epoch
                            /\ fence'[n].deployment = fence[n].deployment
    BY <1>0, <2>1, <2>2 DEF f
  <2>4. \A n \in Messages : MappedMessages'[n] = MappedMessages[n]
    BY <2>1 DEF MappedMessages
  <2>. QED  BY <2>1, <2>3, <2>4, Unseen
<1>6. ASSUME UNCHANGED <<state, request, job, fence, idem, session, authority>>
      PROVE  UNCHANGED Abstract!vars
  <2>1. \A n \in Messages : MappedMessages'[n] = MappedMessages[n]
    BY <1>6 DEF MappedMessages
  <2>. QED  BY <1>6, <2>1, Unseen
<1>7. ASSUME NEW m \in Messages, MessageExpires(m) PROVE UNCHANGED Abstract!vars
  BY <1>6, <1>7 DEF MessageExpires
<1>8. ASSUME NEW m \in Messages, Cancel(m) PROVE [Abstract!Next]_Abstract!vars
  <2>1. EndPreGrant({m}, "cancelled") /\ UNCHANGED <<session, authority>> /\ fence[m] = NoFence
    BY <1>0, <1>8, Ungranted DEF Cancel
  <2>2. state[m] \in {"queued", "claimed"}
    <3>1. state[m] \in {"accepted", "queued", "claimed"}
      BY <1>8, Zenon DEF Cancel, Apply
    <3>. QED  BY <1>0, <3>1, FencedOngoing DEF MessageState
  <2>. QED  BY <2>1, <2>2, EndMapped
<1>9. ASSUME NEW r \in Recipients, Suppress(r) PROVE [Abstract!Next]_Abstract!vars
  <2>. DEFINE ms == { m \in Messages : /\ request[m].recipient = r /\ m \notin redacted
                                       /\ state[m] \in {"queued", "claimed"}
                                       /\ ~job[m].granted /\ ~job[m].finished }
  <2>1. EndPreGrant(ms, "cancelled") /\ UNCHANGED <<session, authority>>
    BY <1>9 DEF Suppress
  <2>2. ms \in SUBSET Messages /\ \A m \in ms : state[m] \in {"queued", "claimed"}
                                                /\ fence[m] = NoFence
    BY <1>0, Ungranted
  <2>. HIDE DEF ms
  <2>. QED  BY <2>1, <2>2, EndMapped
<1>10. CASE UNCHANGED storeVars
  BY <1>6, <1>10 DEF storeVars
<1>11. ASSUME NEW d \in Devices, Revoke(d) PROVE [Abstract!Next]_Abstract!vars
  <2>1. /\ UNCHANGED <<state, request, job, fence, idem, authority>>
        /\ session' = [session EXCEPT ![d].live = FALSE]
    BY <1>11 DEF Revoke
  <2>2. session \in [Devices -> SessionRow]
    BY <1>0 DEF StoreInv, StoreTypeOK
  <2>3. CASE session[d].live
    <3>1. MappedSessions' = [MappedSessions EXCEPT ![d].live = FALSE] /\ MappedSessions[d].live
      BY <2>1, <2>2, <2>3 DEF MappedSessions
    <3>2. MappedMessages' = MappedMessages /\ MappedGrants' = MappedGrants
          /\ MappedIdempotency' = MappedIdempotency
      BY <2>1 DEF MappedMessages, MappedGrants, MappedIdempotency
    <3>3. Abstract!LeaseEnds(d)
      BY <2>1, <3>1, <3>2 DEF Abstract!LeaseEnds, MappedSessions
    <3>. QED  BY <3>3 DEF Abstract!Next
  <2>4. CASE ~session[d].live
    <3>1. session' = session
      BY <2>1, <2>2, <2>4
    <3>. QED  BY <1>6, <2>1, <3>1
  <2>. QED  BY <2>3, <2>4
<1>. QED  BY <1>1, <1>2, <1>3, <1>4, <1>5, <1>7, <1>8, <1>9, <1>10, <1>11 DEF RefinementNext, Operator

\* crates/delivery-store implements what crates/domain promises: acceptance, sessions,
\* grants and evidence, with claims, sweeps, withdrawals, revocations and failovers in
\* between.
THEOREM StoreImplementsAuthority == RefinementSpec => ImplementsAuthority
<1>1. StoreInit => Abstract!Init
  <2>. SUFFICES ASSUME StoreInit PROVE Abstract!Init
    OBVIOUS
  <2>1. authority.dispatch = TRUE /\ authority.epoch = 1
    BY DEF StoreInit
  <2>2. MappedSessions = [d \in Devices |-> [epoch |-> 0, live |-> FALSE]]
    BY DEF StoreInit, MappedSessions
  <2>3. MappedMessages = [m \in Messages |-> "absent"]
    BY DEF StoreInit, MappedMessages
  <2>4. MappedGrants = [m \in Messages |-> Abstract!NoGrant]
    BY DEF StoreInit, MappedGrants, NoFence, Abstract!NoGrant
  <2>5. MappedIdempotency = [k \in Keys |-> Abstract!NoBinding]
    BY DEF StoreInit, MappedIdempotency, NoKey, Abstract!NoBinding
  <2>. QED  BY <2>1, <2>2, <2>3, <2>4, <2>5 DEF Abstract!Init, MappedSessions
<1>2. RefinementInv /\ [RefinementNext]_storeVars => [Abstract!Next]_Abstract!vars
  BY StepMapped
<1>. QED  BY <1>1, <1>2, RefinementInvariant, PTL DEF RefinementSpec, ImplementsAuthority, Abstract!Spec


=============================================================================
