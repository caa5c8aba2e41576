---------------------------- MODULE PhoneJournal ----------------------------
(***************************************************************************)
(* The durable journal of the Android gateway: sms_attempts, sms_segments  *)
(* and the outbox alpha_radio_events of AttemptJournal.kt, with the radio  *)
(* as the platform shows it to the adapter.  Every operator is one Room    *)
(* transaction on the single journal thread.  An alpha attempt has exactly *)
(* one segment (reserveAlpha is called with segmentCount 1).               *)
(***************************************************************************)
EXTENDS MessageStates, Naturals, Sequences, SequencesExt

VARIABLES
  journal,  \* sms_attempts with the result columns of its segment, by attempt id
  status,   \* alpha_radio_events: what became of each event, "none" if never written
  log,      \* the events in the order they were written (rowid)
  radio     \* SmsManager calls made for each attempt

journalVars == <<journal, status, log, radio>>

\* The journal writes each kind of evidence at most once for an attempt, so the
\* pair names the event.
PhoneEvidence == RadioEvidence \ {"delivery_timeout", "crash_without_callback"}
PhoneEvent    == Attempts \X PhoneEvidence

AttemptState == { "reserved", "radio_started", "submitting", "submitted", "unknown",
                  "delivered", "delivery_failed", "delivery_unknown", "failed",
                  "not_submitted" }

NoRow == [state |-> "absent", message |-> "absent", conflict |-> FALSE,
          sent |-> "none", delivery |-> "none"]

JournalInit ==
  /\ journal = [a \in Attempts |-> NoRow]
  /\ status = [e \in PhoneEvent |-> "none"]
  /\ log = <<>>
  /\ radio = [a \in Attempts |-> 0]

-----------------------------------------------------------------------------
(***************************************************************************)
(* The outbox.                                                             *)
(***************************************************************************)
Insert(s, es)      == [e \in PhoneEvent |-> IF e \in es THEN "pending" ELSE s[e]]
Acknowledge(s, es) == [e \in PhoneEvent |-> IF e \in es THEN "acked" ELSE s[e]]

\* nextAlphaEvent on outbox s, l: the oldest event neither acknowledged nor
\* quarantined, if there is one.
NextAlphaEvent(s, l) ==
  { e \in PhoneEvent : /\ s[e] = "pending"
                       /\ \E i \in 1..Len(l) : /\ l[i] = e
                                               /\ \A k \in 1..(i - 1) : s[l[k]] # "pending" }

\* The event acknowledged by a frame, and the one quarantined after a rejection.
AcknowledgeEvent(e) ==
  /\ status' = Acknowledge(status, {e})
  /\ UNCHANGED <<journal, log, radio>>

QuarantineEvent(e) ==
  /\ status' = [status EXCEPT ![e] = IF @ = "pending" THEN "quarantined" ELSE @]
  /\ UNCHANGED <<journal, log, radio>>

-----------------------------------------------------------------------------
(***************************************************************************)
(* Reservation, and the ways an attempt ends before the radio.             *)
(***************************************************************************)
Intent(a) == <<a, "durable_submit_intent">>
Proof(a)  == <<a, "proven_no_submit">>

\* Variant: the intent is left for a transaction of its own.
ReserveOnly(a, m) ==
  /\ journal[a].state = "absent"
  /\ journal' = [journal EXCEPT ![a] = [NoRow EXCEPT !.state = "reserved", !.message = m]]
  /\ UNCHANGED <<status, log, radio>>

\* reserveAlpha: the submit intent is written with the reservation.
Reserve(a, m) ==
  /\ journal[a].state = "absent"
  /\ journal' = [journal EXCEPT ![a] = [NoRow EXCEPT !.state = "reserved", !.message = m]]
  /\ status' = Insert(status, {Intent(a)})
  /\ log' = Append(log, Intent(a))
  /\ UNCHANGED radio

\* recordNoRadioProof for the attempts as, once they are not_submitted.
Provable(as) ==
  { a \in as : /\ ~journal[a].conflict /\ status[Proof(a)] = "none"
               /\ journal[a].sent = "none" /\ journal[a].delivery = "none" }

\* The attempts as move to not_submitted, the intents of acks are settled and
\* the proofs are written, in one transaction.
ProveNoRadio(as, acks) ==
  LET proofs == { Proof(a) : a \in Provable(as) }
  IN  /\ journal' = [a \in Attempts |->
                       IF a \in as THEN [journal[a] EXCEPT !.state = "not_submitted"]
                                   ELSE journal[a]]
      /\ status' = Insert(Acknowledge(status, { Intent(a) : a \in acks }), proofs)
      /\ log' = log \o SetToSeq(proofs)
      /\ UNCHANGED radio

\* acknowledgeAlphaIntent, for the unsettled intent of attempt a.
AcknowledgeIntent(a, permitted) ==
  \/ /\ journal[a].state = "reserved" /\ permitted
     /\ journal' = [journal EXCEPT ![a].state = "submitting"]
     /\ status' = Acknowledge(status, {Intent(a)})
     /\ UNCHANGED <<log, radio>>
  \/ /\ ~(journal[a].state = "reserved" /\ permitted)
     /\ ProveNoRadio({ b \in {a} : journal[b].state \in {"reserved", "not_submitted"} }, {a})

\* orphanedAlphaIntents, and retireOrphanedAlphaIntents.
Orphans == { a \in Attempts : /\ status[Intent(a)] = "pending"
                              /\ journal[a].state \in {"reserved", "not_submitted"} }
RetireOrphans == ProveNoRadio(Orphans, Orphans)

\* markAcknowledgedNoRadio and markPreflightNoRadio: a refusal before the radio
\* call, if the attempt is still in state s.
MarkNoRadio(a, s) == ProveNoRadio({ b \in {a} : journal[b].state = s }, {})

-----------------------------------------------------------------------------
(***************************************************************************)
(* The radio, its callbacks and the restart of the process.                *)
(***************************************************************************)

\* consumeRadioStart: the one-use gate in front of the radio.
ConsumeRadioStart(a) ==
  /\ journal[a].state = "submitting"
  /\ journal' = [journal EXCEPT ![a].state = "radio_started"]
  /\ UNCHANGED <<status, log, radio>>

\* SmsManager: n calls (a call that throws may or may not have reached the radio),
\* and the state the adapter writes after it.
CallRadio(a, n, s) ==
  /\ radio' = [radio EXCEPT ![a] = @ + n]
  /\ journal' = [journal EXCEPT ![a].state = s]
  /\ UNCHANGED <<status, log>>

\* Variant: the silence counts as proof that nothing was sent.
MarkStalledUnsent(a) ==
  journal[a].state \in {"submitting", "radio_started"} /\ ProveNoRadio({a}, {})

\* markStalledSubmission, two silent minutes after the radio call.
MarkStalled(a) ==
  /\ journal[a].state \in {"submitting", "radio_started"}
  /\ journal' = [journal EXCEPT ![a].state = "unknown"]
  /\ UNCHANGED <<status, log, radio>>

\* AttemptState.fromEvidence for the one segment of an attempt.
FromEvidence(prior, sent, delivery) ==
  CASE prior = "not_submitted" -> "not_submitted"
    [] prior # "not_submitted" /\ sent = "none" ->
         IF prior \in {"submitting", "radio_started"} THEN "submitting" ELSE "unknown"
    [] prior # "not_submitted" /\ sent = "failed" -> "failed"
    [] prior # "not_submitted" /\ sent = "ok" ->
         IF delivery = "failed" THEN "delivery_failed"
         ELSE IF delivery = "received" THEN "delivered"
         ELSE IF prior = "delivery_unknown" THEN prior ELSE "submitted"

\* CallbackEvidence: what a callback does to the column it reports on.
SentDecision(old, new) ==
  IF old = "none" THEN "store" ELSE IF old = new THEN "ignore" ELSE "conflict"
DeliveryDecision(old, new) ==
  CASE old = "none" \/ (old = "unverified" /\ new # "unverified") -> "store"
    [] old \in {"received", "failed"} /\ new \in {"received", "failed"} \ {old} -> "conflict"
    [] OTHER -> "ignore"

\* recordConflict on row j of attempt a: once, and it retracts an unsent proof.
RecordConflict(a, j) ==
  LET unsent == status[Proof(a)] \in {"pending", "quarantined"}
      e == <<a, "callback_conflict">>
  IN  IF j.conflict
      THEN journal' = [journal EXCEPT ![a] = j] /\ UNCHANGED <<status, log>>
      ELSE /\ journal' = [journal EXCEPT ![a] = [j EXCEPT !.state = "unknown", !.conflict = TRUE]]
           /\ status' = Insert(IF unsent THEN [status EXCEPT ![Proof(a)] = "none"] ELSE status, {e})
           /\ log' = Append(IF unsent THEN Remove(log, Proof(a)) ELSE log, e)

\* recordCallback for the row j that holds the stored result: the next state, the
\* sent callback and the first delivery as events.
StoreCallback(a, j, isSent) ==
  LET next == IF j.conflict THEN "unknown" ELSE FromEvidence(j.state, j.sent, j.delivery)
      sent == IF isSent /\ ~j.conflict
              THEN <<<<a, IF j.sent = "ok" THEN "sent_callback_ok" ELSE "sent_callback_failed">>>>
              ELSE <<>>
      delivered == IF next = "delivered" /\ j.state # "delivered"
                   THEN <<<<a, "delivery_callback_ok">>>> ELSE <<>>
  IN  /\ journal' = [journal EXCEPT ![a] = [j EXCEPT !.state = next]]
      /\ status' = Insert(status, ToSet(sent \o delivered))
      /\ log' = log \o sent \o delivered

\* A callback for an attempt the radio was never asked for contradicts its row.
RecordCallback(a, isSent, result) ==
  LET row == journal[a]
      decision == IF isSent THEN SentDecision(row.sent, result)
                            ELSE DeliveryDecision(row.delivery, result)
      stored == IF isSent THEN [row EXCEPT !.sent = result] ELSE [row EXCEPT !.delivery = result]
      impossible == row.state \in {"not_submitted", "reserved"}
  IN  /\ row.state # "absent"
      /\ \/ decision = "store" /\ ~impossible /\ StoreCallback(a, stored, isSent)
         \/ decision = "store" /\ impossible /\ RecordConflict(a, stored)
         \/ (decision = "conflict" \/ (decision = "ignore" /\ impossible))
               /\ RecordConflict(a, row)
      /\ UNCHANGED radio

\* Variant: an interrupted submission is offered again.
RecoveredForRetry(s, late) ==
  CASE s \in {"submitting", "radio_started"} -> "reserved"
    [] s = "submitted" /\ late -> "delivery_unknown"
    [] OTHER -> s

\* recoverJournalState: what a dead process left behind, once per process start;
\* late: the receipts of submitted attempts are overdue.
Recovered(s, late) ==
  CASE s \in {"submitting", "radio_started"} -> "unknown"
    [] s = "reserved" -> "not_submitted"
    [] s = "submitted" /\ late -> "delivery_unknown"
    [] OTHER -> s

RecoverJournal(late) ==
  LET proofs == { Proof(a) : a \in Provable(Orphans) }
  IN  /\ journal' = [a \in Attempts |-> [journal[a] EXCEPT !.state = Recovered(@, late)]]
      /\ status' = Insert(Acknowledge(status, { Intent(a) : a \in Orphans }), proofs)
      /\ log' = log \o SetToSeq(proofs)
      /\ UNCHANGED radio

\* The rows of the journal have the shape their columns give them, the log holds
\* exactly the events that were written, each once, and an attempt has its submit
\* intent in the outbox from its reservation on.
JournalTypeOK ==
  /\ journal \in [Attempts -> [state: AttemptState, message: Messages, conflict: BOOLEAN,
                               sent: {"none", "ok", "failed"},
                               delivery: {"none", "unverified", "received", "failed"}]
                              \union {NoRow}]
  /\ status \in [PhoneEvent -> {"none", "pending", "acked", "quarantined"}]
  /\ log \in Seq(PhoneEvent) /\ IsInjective(log)
  /\ ToSet(log) = { e \in PhoneEvent : status[e] # "none" }
  /\ \A a \in Attempts : status[Intent(a)] = "none" <=> journal[a] = NoRow
  /\ radio \in [Attempts -> Nat]

=============================================================================
