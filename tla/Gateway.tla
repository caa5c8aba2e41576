------------------------------ MODULE Gateway ------------------------------
(***************************************************************************)
(* One phone and the hub it reports to: the device stream between          *)
(* AuthenticatedGatewayService.kt with its journal and radio, and the      *)
(* per-connection task of crates/server/src/device_socket/mod.rs with the  *)
(* delivery store.                                                         *)
(*                                                                         *)
(* The hub's task of a connection, the phone's journal thread and its      *)
(* socket thread interleave between any two database or journal            *)
(* transactions.  Connections break, either side restarts, frames already  *)
(* sent by a broken connection may still be read by the hub.               *)
(***************************************************************************)
EXTENDS DeliveryStore, PhoneJournal, SequencesExt

CONSTANTS
  Phone,       \* the device this phone is enrolled as
  MaxFlight,   \* bound: frames in flight in one direction
  CloseLimit,  \* untyped closes of one event before it is quarantined (3 in the code)
  Reports      \* what the platform may report on a call: pairs of the kind and result

ASSUME GatewayAssumption ==
  /\ Phone \in Devices /\ PhoneEvent \subseteq EventIds
  /\ IsFiniteSet(Attempts) /\ "first" \notin Attempts
  /\ MaxFlight \in Nat \ {0} /\ CloseLimit \in Nat \ {0}
  /\ Reports \subseteq ({"sent"} \X {"ok", "failed"})
                \union ({"delivery"} \X {"unverified", "received", "failed"})

VARIABLES
  phone,   \* the service of the phone: its run, connection and awaited event
  sender,  \* sendAuthorized on the journal thread
  pilot,   \* the one-use marker and the controlled-test approvals
  up,      \* events sent by the phone, by connection epoch
  down,    \* frames on the phone's current connection
  task     \* the hub's task of each connection epoch

phoneVars == <<phone, sender, pilot>>
hubVars   == <<up, down, task>>
vars      == <<storeVars, journalVars, phoneVars, hubVars>>

Epochs == 1..MaxEpoch

NoGrant   == [attempt |-> "none", message |-> "absent", live |-> FALSE, prior |-> "none"]
NoEvent   == <<"none", "none">>
NoClosing == [event |-> NoEvent, epoch |-> 0]
NoStreak  == [event |-> NoEvent, count |-> 0]
IdleSend  == [pc |-> "idle", attempt |-> "none", epoch |-> 0, prior |-> "none"]
NoTask    == [pc |-> "off", armed |-> FALSE, event |-> NoEvent,
              message |-> "absent", generation |-> 0, attempt |-> "none"]

\* Close codes: 4409, 1013 and a close without one.
CloseCode == {"rejected", "retry", "none"}

\* A close frame carries its code only; the event the hub rejected is kept beside
\* it for the properties.
GrantFrame(a, m)    == [type |-> "grant", attempt |-> a, message |-> m]
AckFrame(e, p)      == [type |-> "ack", event |-> e, permitted |-> p]
CloseFrame(code, e) == [type |-> "close", code |-> code, event |-> e]

GatewayInit ==
  /\ StoreInit /\ JournalInit
  /\ phone = [running |-> FALSE, conn |-> 0, armed |-> FALSE, grant |-> NoGrant,
              awaiting |-> NoEvent, retire |-> FALSE, closing |-> NoClosing,
              streak |-> NoStreak]
  /\ sender = IdleSend
  /\ pilot = [used |-> FALSE, approved |-> "none", spent |-> {}]
  /\ up = [e \in Epochs |-> <<>>] /\ down = <<>>
  /\ task = [e \in Epochs |-> NoTask]

\* The event as the hub reads it from the frame.
Wire(e) ==
  LET n == IF e[2] \in SentCallback THEN 1 ELSE 0
  IN  [id |-> e, device |-> Phone, message |-> journal[e[1]].message, attempt |-> e[1],
       evidence |-> e[2], segment |-> n, count |-> n]

-----------------------------------------------------------------------------
(***************************************************************************)
(* The hub.                                                                *)
(***************************************************************************)

\* SocketActor::current
SessionCurrent(e) ==
  /\ session[Phone].epoch = e /\ session[Phone].live
  /\ session[Phone].deployment = authority.epoch /\ authority.open
  /\ Phone \notin revoked

\* grant_still_current
GrantStillCurrent(e, a, m) ==
  /\ fence[m].attempt = a /\ fence[m].epoch = e /\ fence[m].live
  /\ fence[m].deployment = authority.epoch /\ authority.dispatch
  /\ fence[m].outcome \in {"granted", "submitting"}

\* A frame for connection e; the phone reads only its current one.
Send(e, frame) == down' = IF phone.conn = e THEN Append(down, frame) ELSE down

\* The task leaves its loop: close frame first, then the release of the session.
Close(e, code, event) ==
  /\ task' = [task EXCEPT ![e] = [NoTask EXCEPT !.pc = "closing"]]
  /\ Send(e, CloseFrame(code, event))

\* durable_intent_preflight: the grant of a submit intent is not current, and this
\* very intent was not recorded before.
PreflightRefuses(e, v) ==
  /\ v.evidence = "durable_submit_intent"
  /\ ~GrantStillCurrent(e, v.attempt, v.message) /\ v \notin events

\* A radio_event frame: the session check and the preflight.
ServerReceive(e) ==
  /\ task[e].pc = "idle" /\ up[e] # <<>>
  /\ up' = [up EXCEPT ![e] = Tail(@)]
  /\ LET v == Wire(Head(up[e]))
     IN  IF ~SessionCurrent(e) THEN Close(e, "none", NoEvent)
         ELSE IF PreflightRefuses(e, v) THEN Close(e, "rejected", v.id)
         ELSE /\ task' = [task EXCEPT ![e].pc = "record", ![e].event = v.id]
              /\ UNCHANGED down
  /\ UNCHANGED <<storeVars, journalVars, phoneVars>>

\* radio_evidence_close_code for what record_radio_event answered.
CloseCodeFor(e, result) ==
  IF result \in {"invalid_transition", "event_id_conflict"}
     \/ (result = "stale_fence" /\ SessionCurrent(e)) THEN "rejected" ELSE "retry"

\* Variant: the answer does not wait for the commit.
ServerRecordUncommitted(e) ==
  /\ task[e].pc = "record"
  /\ RadioResult(Wire(task[e].event)) \in {"recorded", "replay"}
  /\ task' = [task EXCEPT ![e].pc = "answer"]
  /\ UNCHANGED <<storeVars, journalVars, phoneVars, up, down>>

\* record_radio_event commits, or finds an exact replay.
ServerRecord(e) ==
  LET v == Wire(task[e].event)
  IN  /\ task[e].pc = "record"
      /\ \/ RecordRadioEvent(v)
         \/ RadioResult(v) = "replay" /\ UNCHANGED storeVars
      /\ task' = [task EXCEPT ![e].pc = "answer"]
      /\ UNCHANGED <<journalVars, phoneVars, up, down>>

\* It refuses, or the database fails; the commit of a failed call may stand.
ServerRefuse(e) ==
  LET v == Wire(task[e].event)
  IN  /\ task[e].pc = "record"
      /\ \/ /\ RadioResult(v) \notin {"recorded", "replay"}
            /\ Close(e, CloseCodeFor(e, RadioResult(v)), v.id) /\ UNCHANGED storeVars
         \/ Close(e, "retry", NoEvent) /\ (RecordRadioEvent(v) \/ UNCHANGED storeVars)
      /\ UNCHANGED <<journalVars, phoneVars, up>>

\* The acknowledgement, with the grant read again after the commit; a failed
\* read counts as not permitted.
ServerAnswer(e) ==
  LET v == Wire(task[e].event)
  IN  /\ task[e].pc = "answer" /\ Len(down) < MaxFlight
      /\ \E permitted \in {FALSE, /\ v.evidence = "durable_submit_intent"
                                  /\ GrantStillCurrent(e, v.attempt, v.message)} :
           Send(e, AckFrame(v.id, permitted))
      /\ task' = [task EXCEPT ![e].pc = "idle", ![e].event = NoEvent]
      /\ UNCHANGED <<storeVars, journalVars, phoneVars, up>>

\* Variant: the phone need not have said that it is armed.
ServerClaimUnarmed(e) ==
  /\ task[e].pc = "idle" /\ SessionCurrent(e)
  /\ \E m \in Messages :
       /\ request[m].device = Phone /\ ClaimDue(m, e)
       /\ task' = [task EXCEPT ![e].pc = "claimed", ![e].message = m,
                               ![e].generation = job[m].generation + 1]
  /\ UNCHANGED <<journalVars, phoneVars, up, down>>

\* A dispatch tick: poll_synthetic_grant claims for this device ...  Its unlocked
\* filter grant_may_be_due only spares claims that the grant would refuse.
ServerClaim(e) ==
  /\ task[e].pc = "idle" /\ task[e].armed /\ SessionCurrent(e)
  /\ \E m \in Messages :
       /\ request[m].device = Phone /\ ClaimDue(m, e)
       /\ task' = [task EXCEPT ![e].pc = "claimed", ![e].message = m,
                               ![e].generation = job[m].generation + 1]
  /\ UNCHANGED <<journalVars, phoneVars, up, down>>

\* ... cancels it if the alpha policy refuses its content, asks for the grant, which
\* a busy device, held dispatch or a suppression refuses ...
ServerGrant(e) ==
  LET t == task[e]
  IN  /\ t.pc = "claimed"
      /\ \/ \E a \in Attempts : /\ IssueGrant(t.message, t.generation, e, a)
                                /\ task' = [task EXCEPT ![e].pc = "granted", ![e].attempt = a]
         \/ Cancel(t.message) /\ task' = [task EXCEPT ![e].pc = "idle"]
         \/ /\ GrantSuppressed(t.message, t.generation, e)
            /\ task' = [task EXCEPT ![e].pc = "idle"]
         \/ /\ Active(Phone) # {} \/ ~authority.dispatch
            /\ task' = [task EXCEPT ![e].pc = "idle"] /\ UNCHANGED storeVars
      /\ UNCHANGED <<journalVars, phoneVars, up, down>>

\* ... and confirms it before the frame goes out: checked_synthetic_grant.
Confirmed(e) ==
  LET m == task[e].message
  IN  /\ GrantStillCurrent(e, task[e].attempt, m) /\ SessionCurrent(e)
      /\ state[m] = "claimed" /\ m \notin expired /\ fence[m].outcome = "granted"

ServerConfirm(e) ==
  /\ task[e].pc = "granted" /\ Confirmed(e) /\ Len(down) < MaxFlight
  /\ Send(e, GrantFrame(task[e].attempt, task[e].message))
  /\ task' = [task EXCEPT ![e] = [NoTask EXCEPT !.pc = "idle"]]
  /\ UNCHANGED <<storeVars, journalVars, phoneVars, up>>

\* The loop ends for another reason: drain, a newer socket, a lost lease or a
\* missed heartbeat (no code); storage is gone; a poll met an error.
ServerGiveUp(e) ==
  /\ \/ task[e].pc = "idle" /\ \E code \in {"none", "retry"} : Close(e, code, NoEvent)
     \/ task[e].pc \in {"claimed", "granted"} /\ Close(e, "none", NoEvent)
  /\ UNCHANGED <<storeVars, journalVars, phoneVars, up>>

\* release_session, best effort; or the process dies with the task.
ServerRelease(e) ==
  /\ task[e].pc = "closing"
  /\ task' = [task EXCEPT ![e] = [NoTask EXCEPT !.pc = "done"]]
  /\ EndLease(Phone, e) \/ UNCHANGED storeVars
  /\ UNCHANGED <<journalVars, phoneVars, up, down>>

ServerDies(e) ==
  /\ task[e].pc \notin {"off", "done"}
  /\ task' = [task EXCEPT ![e] = [NoTask EXCEPT !.pc = "done"]]
  /\ UNCHANGED <<storeVars, journalVars, phoneVars, up, down>>

Server(e) ==
  \/ ServerReceive(e) \/ ServerRecord(e) \/ ServerRefuse(e) \/ ServerAnswer(e)
  \/ ServerClaim(e) \/ ServerGrant(e) \/ ServerConfirm(e)
  \/ ServerGiveUp(e) \/ ServerRelease(e) \/ ServerDies(e)

-----------------------------------------------------------------------------
(***************************************************************************)
(* The phone: connections and the run of the service.                      *)
(***************************************************************************)

\* disconnect: the next generation holds no grant and awaits nothing.
Lost(p) == [p EXCEPT !.conn = 0, !.armed = FALSE, !.grant = NoGrant,
                     !.awaiting = NoEvent, !.retire = FALSE]
Stopped(p) == [Lost(p) EXCEPT !.running = FALSE]

\* clearEvidenceCloseStreak
ClearStreak(p) == [p EXCEPT !.streak = NoStreak]

\* DeviceDisconnectClassifier.closed: a rejection that names no event stops the run.
AfterClose(p, code) == IF code = "rejected" THEN Stopped(p) ELSE Lost(p)

Leave(p) == phone' = p /\ down' = <<>>

\* The phone's handling of "challenge" and "session": the service p, any earlier
\* connection given up, now holds connection e, armed or for heartbeats.
SessionOpened(p, e, armed) ==
  [Lost(p) EXCEPT !.conn = e, !.armed = armed, !.retire = TRUE]

\* openConnection up to the session frame; p is the service before it.
Connect(p, armed) ==
  /\ ConnectSession(Phone)
  /\ LET e == session[Phone].epoch + 1
     IN  /\ phone' = SessionOpened(p, e, armed)
         /\ task' = [task EXCEPT ![e] = [NoTask EXCEPT !.pc = "idle", !.armed = armed]]
  /\ down' = <<>>
  /\ UNCHANGED <<journalVars, sender, pilot, up>>

\* The owner starts the service, for heartbeats or armed for one test message;
\* a later connection of the run is for heartbeats only.
Start ==
  \E armed \in BOOLEAN :
    /\ armed => ~pilot.used \/ pilot.approved # "none"
    /\ Connect([ClearStreak(phone) EXCEPT !.running = TRUE], armed)

Reconnect == phone.running /\ phone.conn = 0 /\ Connect(phone, FALSE)

\* Variant: any settled attempt will do.
ApprovableSettled(p, x) ==
  /\ p \in Attempts
  /\ journal[p].state \in {"failed", "submitted"}
  /\ \A ev \in PhoneEvidence : status[<<p, ev>>] \in {"none", "acked"}

\* ControlledTestApproval.failure: attempt p failed beyond doubt, and no attempt
\* but x is open.
Approvable(p, x) ==
  /\ p \in Attempts
  /\ journal[p].state = "failed" /\ ~journal[p].conflict /\ journal[p].delivery # "received"
  /\ \A b \in Attempts \ {x} :
       ~journal[b].conflict
       /\ journal[b].state \notin {"reserved", "radio_started", "submitting", "unknown"}
  /\ status[<<p, "sent_callback_failed">>] = "acked"
  /\ \A ev \in PhoneEvidence : status[<<p, ev>>] \in
       IF ev \in {"sent_callback_ok", "delivery_callback_ok"} THEN {"none"} ELSE {"none", "acked"}

\* The owner approves one more test after the failure of p; the approval lasts
\* five minutes, and a renewed one for the same failure is as good as the first.
\* The latest attempt is the one no approval was spent on.
Approve(p) ==
  /\ pilot.used /\ Approvable(p, "none") /\ p \notin pilot.spent
  /\ pilot' = [pilot EXCEPT !.approved = p]
  /\ UNCHANGED <<storeVars, journalVars, phone, sender, hubVars>>

\* consume: the approval of p still stands and is spent.
Spendable(p) == pilot.approved = p /\ p \notin pilot.spent /\ Approvable(p, "none")
Spent(p) == [pilot EXCEPT !.approved = "none", !.spent = @ \union {p}]

\* radioStillApproved, for attempt a: a late callback of p revokes it.
RadioStillApproved(p, a) == Approvable(p, a)

ApprovalLapses ==
  /\ pilot.approved # "none"
  /\ pilot' = [pilot EXCEPT !.approved = "none"]
  /\ UNCHANGED <<storeVars, journalVars, phone, sender, hubVars>>

\* The network fails, or the owner pauses the service.
Disconnect ==
  /\ phone.conn # 0
  /\ Leave(Lost(phone)) \/ Leave(ClearStreak(Stopped(phone)))
  /\ UNCHANGED <<storeVars, journalVars, sender, pilot, up, task>>

\* The process dies; the next one recovers the journal before anything else.
Crash ==
  /\ \E late \in BOOLEAN : RecoverJournal(late)
  /\ Leave([ClearStreak(Stopped(phone)) EXCEPT !.closing = NoClosing])
  /\ sender' = IdleSend
  /\ UNCHANGED <<storeVars, pilot, up, task>>

-----------------------------------------------------------------------------
(***************************************************************************)
(* The phone: frames and the evidence pump.  JournalFree: the journal      *)
(* thread is not inside sendOnJournalThread.                               *)
(***************************************************************************)
JournalFree == sender.pc # "consumed"

\* A task the current connection queued: behind a quarantine of an earlier one.
JournalTurn == JournalFree /\ phone.closing.epoch \in {0, phone.conn}

\* Frame i is next on the socket thread, which hands acks to the journal thread
\* and overtakes those still queued there.
SocketTurn(i) == /\ phone.closing.epoch # phone.conn \/ phone.conn = 0
                 /\ down[i].type # "ack" /\ \A j \in 1..(i - 1) : down[j].type = "ack"

\* synthetic_grant on the socket thread: the one-use marker is set first; a grant
\* the phone did not arm for, or that its validator refuses (the grant has run out
\* by the phone's clock, the SIM has changed), stops the run.
PhoneGrant ==
  \E i \in 1..Len(down), valid \in BOOLEAN :
    /\ SocketTurn(i) /\ down[i].type = "grant"
    /\ IF phone.armed /\ valid
       THEN /\ down' = RemoveAt(down, i)
            /\ phone' = [phone EXCEPT !.armed = FALSE,
                            !.grant = [attempt |-> down[i].attempt, live |-> TRUE,
                                       message |-> down[i].message,
                                       prior |-> IF pilot.used THEN pilot.approved ELSE "first"]]
            /\ pilot' = [pilot EXCEPT !.used = TRUE]
       ELSE Leave(Stopped(phone)) /\ UNCHANGED pilot
    /\ UNCHANGED <<storeVars, journalVars, sender, up, task>>

\* The reservation on the journal thread; an approval is spent before it, and
\* stays spent when the connection is lost in between.
ReserveGrant ==
  LET g == phone.grant
      first == g.prior = "first"
  IN  /\ JournalTurn /\ g # NoGrant /\ journal[g.attempt].state = "absent"
      /\ \/ /\ first \/ Spendable(g.prior)
            /\ Reserve(g.attempt, g.message)
            /\ pilot' = IF first THEN pilot ELSE Spent(g.prior)
            /\ UNCHANGED <<phone, down>>
         \/ /\ ~first /\ Spendable(g.prior) /\ pilot' = Spent(g.prior)
            /\ Leave(Lost(phone)) /\ UNCHANGED journalVars
         \/ /\ ~first /\ ~Spendable(g.prior)
            /\ Leave(Stopped(phone)) /\ UNCHANGED <<journalVars, pilot>>
      /\ UNCHANGED <<storeVars, sender, up, task>>

\* handleAlphaAck: a late duplicate is ignored, an unexpected ack stops the run.
AckExpected(e) == IF e = phone.awaiting THEN status[e] = "pending" ELSE status[e] = "acked"

PhoneAck ==
  LET e == Head(down).event
      a == e[1]
      g == phone.grant
      permitted == Head(down).permitted /\ g.attempt = a /\ g.live
      authorized == e = Intent(a) /\ permitted /\ journal[a].state = "reserved"
  IN  /\ JournalTurn /\ down # <<>> /\ Head(down).type = "ack"
      /\ IF ~AckExpected(e) THEN Leave(Stopped(phone)) /\ UNCHANGED <<journalVars, sender>>
         ELSE IF e # phone.awaiting
           THEN down' = Tail(down) /\ UNCHANGED <<phone, journalVars, sender>>
         ELSE /\ down' = Tail(down)
              /\ phone' = [ClearStreak(phone) EXCEPT !.awaiting = NoEvent]
              /\ IF e = Intent(a) THEN AcknowledgeIntent(a, permitted) ELSE AcknowledgeEvent(e)
              /\ sender' = IF authorized THEN [pc |-> "queued", attempt |-> a,
                                               epoch |-> phone.conn, prior |-> g.prior]
                           ELSE sender
      /\ UNCHANGED <<storeVars, pilot, up, task>>

\* Variant: a journal write does not ask for another query.
HeldUntilSession(next) == ~phone.retire

\* The next event waits while another one is awaited, unless that one was settled
\* or retracted in the meantime.
Held(next) ==
  /\ phone.awaiting # NoEvent /\ phone.awaiting \notin next
  /\ status'[phone.awaiting] \in {"pending", "quarantined"}

\* pumpAlphaEvents: retire orphaned intents when due and no grant is current,
\* then send the oldest event unless an older one is still awaited.
Pump ==
  /\ phone.conn # 0 /\ JournalTurn
  /\ IF phone.retire /\ ~phone.grant.live THEN RetireOrphans ELSE UNCHANGED journalVars
  /\ LET next == NextAlphaEvent(status', log')
     IN  \/ /\ next = {} \/ Held(next)
           /\ phone.retire
           /\ phone' = [phone EXCEPT !.retire = FALSE] /\ UNCHANGED up
        \/ /\ ~Held(next) /\ Len(up[phone.conn]) < MaxFlight
           /\ \E e \in next :
                /\ up' = [up EXCEPT ![phone.conn] = Append(@, e)]
                /\ phone' = [phone EXCEPT !.retire = FALSE, !.awaiting = e]
  /\ UNCHANGED <<storeVars, sender, pilot, down, task>>

\* The grant runs out by the phone's clock: a retirement is due.
GrantLapses ==
  /\ phone.grant.live
  /\ phone' = [phone EXCEPT !.grant.live = FALSE, !.retire = TRUE]
  /\ UNCHANGED <<storeVars, journalVars, sender, pilot, hubVars>>

\* Variant: one close too many.
QuarantineDueLate(code, count) == code = "rejected" \/ count > CloseLimit

\* recordEvidenceClose: a typed rejection, or CloseLimit closes in a row.
QuarantineDue(code, count) == code = "rejected" \/ count >= CloseLimit

\* classifyEvidenceClose on the socket thread; soon: the awaited event was sent
\* just before.
PhoneClose ==
  /\ phone.closing = NoClosing
  /\ \E i \in 1..Len(down), soon \in BOOLEAN :
       LET code == down[i].code
           e == phone.awaiting
           count == IF phone.streak.event = e THEN phone.streak.count + 1 ELSE 1
           quarantine == phone' = [phone EXCEPT !.closing = [event |-> e, epoch |-> phone.conn]]
                           /\ UNCHANGED down
       IN  /\ SocketTurn(i) /\ down[i].type = "close"
           /\ IF e = NoEvent \/ code = "retry" \/ (code = "none" /\ ~soon)
              THEN Leave(ClearStreak(AfterClose(phone, code)))
              ELSE IF QuarantineDue(code, count) THEN quarantine
              ELSE Leave([Lost(phone) EXCEPT !.streak = [event |-> e, count |-> count]])
  /\ UNCHANGED <<storeVars, journalVars, sender, pilot, up, task>>

\* The quarantine it waits for on the journal thread, behind the acks queued there:
\* a row that was settled in the meantime counts as a failure, and stops the run.
Quarantine ==
  LET c == phone.closing
      cleared == [ClearStreak(phone) EXCEPT !.closing = NoClosing]
  IN  /\ JournalFree /\ c # NoClosing
      /\ phone.conn = c.epoch => Head(down).type = "close"
      /\ QuarantineEvent(c.event)
      /\ IF phone.conn # c.epoch THEN phone' = cleared /\ UNCHANGED down
         ELSE IF status[c.event] = "pending" THEN Leave(Lost(cleared))
         ELSE Leave(Stopped(cleared))
      /\ UNCHANGED <<storeVars, sender, pilot, up, task>>

-----------------------------------------------------------------------------
(***************************************************************************)
(* The phone: sendAuthorized, callbacks and the stall timer.               *)
(***************************************************************************)
SendCurrent ==
  /\ phone.conn = sender.epoch /\ phone.grant.live
  /\ sender.prior = "first" \/ RadioStillApproved(sender.prior, sender.attempt)

\* Refused for the session, the deadline, the SIM or a suppression: a proof; a
\* journal error or a consumed gate: nothing.
SendRefused ==
  /\ sender.pc = "queued"
  /\ MarkNoRadio(sender.attempt, "submitting") \/ UNCHANGED journalVars
  /\ sender' = IdleSend
  /\ UNCHANGED <<storeVars, phone, pilot, hubVars>>

SendConsumes ==
  /\ sender.pc = "queued" /\ SendCurrent
  /\ ConsumeRadioStart(sender.attempt)
  /\ sender' = [sender EXCEPT !.pc = "consumed"]
  /\ UNCHANGED <<storeVars, phone, pilot, hubVars>>

\* Variant: a call that throws is made again.
SendFinishesOrRetries ==
  /\ sender.pc = "consumed"
  /\ \/ MarkNoRadio(sender.attempt, "radio_started") /\ sender' = IdleSend
     \/ SendCurrent /\ CallRadio(sender.attempt, 1, "radio_started") /\ sender' = IdleSend
     \/ SendCurrent /\ radio[sender.attempt] < 2
          /\ CallRadio(sender.attempt, 1, "radio_started") /\ UNCHANGED sender
  /\ UNCHANGED <<storeVars, phone, pilot, hubVars>>

\* The checks once more behind the gate, and a refusal or the call.  What throws
\* (the journal in a check or in the refusal, the call itself, made or not) leaves
\* "unknown" behind, or what was there if that cannot be written either.
SendFinishes ==
  /\ sender.pc = "consumed"
  /\ \/ MarkNoRadio(sender.attempt, "radio_started")
     \/ \E n \in {0, 1}, s \in {"radio_started", "unknown"} :
          (n = 1 => SendCurrent) /\ CallRadio(sender.attempt, n, s)
  /\ sender' = IdleSend
  /\ UNCHANGED <<storeVars, phone, pilot, hubVars>>

\* The platform reports, in any order and as often as it likes, on calls made.
Callback(a, r) ==
  /\ radio[a] > 0 /\ JournalFree
  /\ RecordCallback(a, r[1] = "sent", r[2])
  /\ UNCHANGED <<storeVars, phoneVars, hubVars>>

\* The timer is set before the last checks: it finds an attempt that was called, or
\* one whose refusal could not be written.  (One that was refused before the timer
\* was set and could not be written stays until the next start; it is not told
\* apart.)
Stall(a) ==
  /\ radio[a] > 0 \/ journal[a].state = "radio_started"
  /\ JournalFree
  /\ MarkStalled(a)
  /\ UNCHANGED <<storeVars, phoneVars, hubVars>>

PhoneStep(reports) ==
  \/ PhoneGrant \/ ReserveGrant \/ PhoneAck \/ Pump \/ GrantLapses
  \/ PhoneClose \/ Quarantine
  \/ SendRefused \/ SendConsumes \/ SendFinishes
  \/ \E a \in Attempts : Stall(a) \/ \E r \in reports : Callback(a, r)

\* The owner's word on a further test.
OwnerStep == ApprovalLapses \/ \E a \in Attempts : Approve(a)

LinkStep == Start \/ Reconnect \/ Disconnect \/ Crash

\* Everyone else who writes the delivery store.
Others ==
  /\ Tenant \/ Recovery \/ Retention \/ Passage \/ Operator \/ EndLease(Phone, session[Phone].epoch)
  /\ UNCHANGED <<journalVars, phoneVars, hubVars>>

GatewayNext ==
  (\E e \in Epochs : Server(e)) \/ PhoneStep(Reports) \/ OwnerStep \/ LinkStep \/ Others

GatewaySpec == GatewayInit /\ [][GatewayNext]_vars

-----------------------------------------------------------------------------
(***************************************************************************)
(* Properties.                                                             *)
(***************************************************************************)

\* The fields of the service, of a grant it holds, of the sender and of a task.
GrantRow == [attempt: Attempts, message: Messages, live: BOOLEAN,
             prior: Attempts \union {"first", "none"}]
PhoneRow == [running: BOOLEAN, conn: 0..MaxEpoch, armed: BOOLEAN,
             grant: GrantRow \union {NoGrant}, awaiting: PhoneEvent \union {NoEvent},
             retire: BOOLEAN, closing: [event: PhoneEvent, epoch: Epochs] \union {NoClosing},
             streak: [event: PhoneEvent, count: 1..(CloseLimit - 1)] \union {NoStreak}]
SendRow  == [pc: {"queued", "consumed"}, attempt: Attempts, epoch: Epochs,
             prior: Attempts \union {"first", "none"}]
PilotRow == [used: BOOLEAN, approved: Attempts \union {"none"}, spent: SUBSET Attempts]
TaskRow  == [pc: {"off", "idle", "record", "answer", "claimed", "granted", "closing", "done"},
             armed: BOOLEAN, event: PhoneEvent \union {NoEvent},
             message: Messages \union {"absent"}, generation: 0..MaxGeneration,
             attempt: Attempts \union {"none"}]

\* Service, sender and hub tasks keep their shape.
GatewayTypeOK ==
  /\ phone \in PhoneRow /\ sender \in SendRow \union {IdleSend} /\ pilot \in PilotRow
  /\ up \in [Epochs -> Seq(PhoneEvent)] /\ task \in [Epochs -> TaskRow]

\* "It never retries a radio call for the same attempt": one call per attempt,
\* whatever acks are repeated, grants resent or processes restarted, and no two
\* attempts of a message both reach the radio.
AtMostOnceRadio ==
  /\ \A a \in Attempts : radio[a] <= 1
  /\ \A a, b \in Attempts : a # b /\ radio[a] > 0 /\ radio[b] > 0 =>
       journal[a].message # journal[b].message

\* "The phone may report proven_no_submit only before any possible radio
\* invocation": an attempt with a proof, on the phone or recorded at the hub,
\* was not called and can no longer be.
ProofMeansNoRadio ==
  \A a \in Attempts :
    (status[Proof(a)] # "none" \/ Recorded(a, {"proven_no_submit"}) # {}) =>
      radio[a] = 0 /\ sender.attempt # a

\* The hub's word about a message agrees with what the radio did: never refunded
\* or requeued after a call, never submitted, delivered or failed without one.
HubMatchesRadio ==
  \A m \in Messages :
    LET called == { a \in Attempts : journal[a].message = m /\ radio[a] > 0 }
    IN  /\ state[m] \in {"queued", "cancelled", "expired"} => called = {}
        /\ state[m] \in {"submitted", "delivered", "delivery_unknown", "failed"} => called # {}

\* A further test is called only after the hub has recorded the failure of every
\* call before it: at most one call is without that record.
OneUnresolvedCall ==
  Cardinality({ a \in Attempts : /\ radio[a] > 0 /\ journal[a].message \notin redacted
                                 /\ Recorded(a, {"sent_callback_failed"}) = {} }) <= 1

\* A call is preceded by the hub's commit of the submit intent, so silence after
\* a crash of either side is never taken for proof of no submission.
RadioAfterIntent ==
  \A a \in Attempts : radio[a] > 0 /\ journal[a].message \notin redacted => IntentRecorded(a)

\* The phone and the hub agree in the end: when every event of an attempt has been
\* acknowledged, the hub holds the message in the state the journal implies.
AckedAgrees ==
  \A a \in Attempts :
    LET j == journal[a]
        s == state[j.message]
    IN  /\ j.state \notin {"absent", "reserved", "submitting", "radio_started"}
        /\ \A ev \in PhoneEvidence : status[<<a, ev>>] \in {"none", "acked"}
        => /\ j.conflict => s = "unknown"
           /\ ~j.conflict /\ j.state = "failed" => s = "failed"
           /\ j.state = "delivered" => s = "delivered"
           /\ j.state \in {"submitted", "delivery_failed", "delivery_unknown"} =>
                s \in {"submitted", "delivery_unknown"}
           /\ j.state = "not_submitted" => attempt[a].status = "proved_no_submit"

\* No frame the hub sends is one the phone stops on: acks come for the awaited
\* event or one already settled, grants only once to an armed phone.
FramesExpected ==
  /\ down # <<>> /\ Head(down).type = "ack" => AckExpected(Head(down).event)
  /\ \A i \in 1..Len(down) : down[i].type = "grant" =>
       phone.armed /\ journal[down[i].attempt].state = "absent"

\* What the phone settles is final: an acknowledged event stays acknowledged and
\* an attempt once proved unsent or called never becomes callable again.
JournalOneWay ==
  [][ /\ \A e \in PhoneEvent : status[e] = "acked" => status'[e] = "acked"
      /\ \A a \in Attempts : journal[a].state \notin {"absent", "reserved"} =>
                               journal'[a].state \notin {"absent", "reserved"}
      /\ \A a \in Attempts : radio'[a] # radio[a] =>
           journal[a].state = "radio_started" /\ status[Intent(a)] = "acked" ]_vars

\* The event a typed close on the current connection rejected.
Rejected == IF phone.closing.epoch = phone.conn /\ down # <<>> /\ Last(down).type = "close"
               /\ Last(down).code = "rejected" THEN Last(down).event ELSE NoEvent

\* "The phone durably quarantines that one local row and reconnects for
\* heartbeat-only service": a rejection does not end the run of the service.
RejectionKeepsRunning ==
  [][ Quarantine /\ phone.running /\ Rejected # NoEvent => phone'.running ]_vars

=============================================================================
