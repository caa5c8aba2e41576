--------------------------- MODULE GatewayProofs ---------------------------
(***************************************************************************)
(* The phone and its hub, proved for every instance: no attempt and no     *)
(* message reaches the radio twice, a proof means that nothing was sent,   *)
(* and the hub's word about a message agrees with the radio.               *)
(***************************************************************************)
EXTENDS Gateway, StoreEvidenceProofs, SequenceTheorems

USE DEF JobRow, AttemptRow, FenceRow, SessionRow, KeyRow, PeriodRow, EntryRow

-----------------------------------------------------------------------------
(***************************************************************************)
(* The invariant.                                                          *)
(***************************************************************************)

\* The columns of sms_attempts and its segment.
JournalRow == [state: AttemptState, message: Messages, conflict: BOOLEAN,
               sent: {"none", "ok", "failed"},
               delivery: {"none", "unverified", "received", "failed"}]

\* The evidence that only a callback of the platform brings about.
CallEvidence == SentCallback \union {"delivery_callback_ok", "callback_conflict"}

\* The states in which the radio was not asked, and the ones of a settled refusal.
Uncalled == {"absent", "reserved", "not_submitted"}

JournalShape ==
  /\ journal \in [Attempts -> JournalRow \union {NoRow}]
  /\ status \in [PhoneEvent -> {"none", "pending", "acked", "quarantined"}]
  /\ radio \in [Attempts -> Nat]

\* What journal, outbox, radio and sender say about one attempt.
AttemptSound(a) ==
  /\ radio[a] \in {0, 1}
  /\ journal[a].state \in Uncalled => radio[a] = 0
  /\ sender.attempt = a =>
       /\ radio[a] = 0 /\ status[Intent(a)] = "acked"
       /\ journal[a].state = IF sender.pc = "queued" THEN "submitting" ELSE "radio_started"
  /\ status[Proof(a)] # "none" => journal[a].state = "not_submitted"
  /\ journal[a].state = "absent" => \A ev \in PhoneEvidence : status[<<a, ev>>] = "none"
  /\ \A ev \in CallEvidence : status[<<a, ev>>] # "none" => radio[a] > 0
  /\ \A ev \in SentCallback : status[<<a, ev>>] # "none" => journal[a].sent # "none"
  /\ status[<<a, "delivery_callback_ok">>] # "none" =>
       journal[a].sent # "none" /\ journal[a].delivery \notin {"none", "unverified"}
  /\ status[<<a, "callback_conflict">>] # "none" => journal[a].conflict

PhoneInv == JournalShape /\ \A a \in Attempts : AttemptSound(a)

\* An event that was written at some time, whatever has become of it.
Written(e) ==
  /\ e \in PhoneEvent /\ journal[e[1]].state # "absent"
  /\ e[2] = "proven_no_submit" => journal[e[1]].state = "not_submitted"
  /\ e[2] \in CallEvidence => radio[e[1]] > 0

\* The hub has the event, or has forgotten it with its message.
Known(e) == Wire(e) \in events \/ journal[e[1]].message \in redacted

Frame == [type: {"grant"}, attempt: Attempts, message: Messages]
           \union [type: {"ack"}, event: PhoneEvent, permitted: BOOLEAN]
           \union [type: {"close"}, code: CloseCode, event: PhoneEvent \union {NoEvent}]

\* A task of the hub holds a claim or a grant of its message, or an event that was
\* written, and answers only what is recorded.
TaskSound(t) ==
  /\ t.pc \in {"claimed", "granted"} => t.message \in Messages /\ t.generation \in 1..MaxGeneration
  /\ t.pc = "granted" => t.attempt \in Attempts /\ attempt[t.attempt].message = t.message
  /\ t.pc \in {"record", "answer"} => Written(t.event)
  /\ t.pc = "answer" => Known(t.event)

\* A frame to the phone names the hub's attempt for that message, or an event that
\* was written and is recorded.
FrameSound(f) ==
  /\ f.type = "grant" => attempt[f.attempt].message = f.message
  /\ f.type = "ack" => Written(f.event) /\ Known(f.event)

TasksInv == task \in [Epochs -> TaskRow] /\ \A e \in Epochs : TaskSound(task[e])
UpInv    == /\ up \in [Epochs -> Seq(PhoneEvent)]
            /\ \A e \in Epochs : \A i \in 1..Len(up[e]) : Written(up[e][i])
DownInv  == down \in Seq(Frame) /\ \A i \in 1..Len(down) : FrameSound(down[i])

\* The service, its sender and the rows it reserved; the hub's lease.
ServiceInv ==
  /\ phone \in PhoneRow /\ (phone.conn = 0 => down = <<>>)
  /\ phone.grant # NoGrant => attempt[phone.grant.attempt].message = phone.grant.message
SendInv   == sender \in SendRow \union {IdleSend} /\ pilot \in PilotRow
RowsNamed == \A a \in Attempts : journal[a].state # "absent" =>
               attempt[a].message = journal[a].message
LeaseInv  == session[Phone].live => session[Phone].epoch # 0

LinkInv == TasksInv /\ UpInv /\ DownInv /\ ServiceInv /\ SendInv /\ RowsNamed /\ LeaseInv

\* What the hub took from the phone.
HubSound ==
  /\ \A v \in events : v.evidence = "proven_no_submit" => journal[v.attempt].state = "not_submitted"
  /\ \A a \in Attempts : attempt[a].status = "proved_no_submit" =>
       journal[a].state = "not_submitted"
  /\ \A m \in Messages : state[m] \in {"submitted", "delivered", "delivery_unknown", "failed"} =>
       /\ radio[fence[m].attempt] > 0 /\ journal[fence[m].attempt].message = m
  /\ \A a \in Attempts : journal[a].state \notin Uncalled => Known(Intent(a))

-----------------------------------------------------------------------------
(***************************************************************************)
(* One attempt under the transactions of the journal.                      *)
(***************************************************************************)

\* The two events every attempt may have, and the kinds of evidence.
LEMMA EvidenceNames ==
  /\ PhoneEvidence = {"durable_submit_intent", "proven_no_submit"} \union CallEvidence
  /\ SentCallback \subseteq CallEvidence
  /\ "delivery_callback_ok" \in CallEvidence /\ "callback_conflict" \in CallEvidence
  /\ "durable_submit_intent" \notin CallEvidence /\ "proven_no_submit" \notin CallEvidence
BY DEF PhoneEvidence, RadioEvidence, CallEvidence, SentCallback

LEMMA EventNames ==
  /\ \A a \in Attempts : Intent(a) \in PhoneEvent /\ Proof(a) \in PhoneEvent
  /\ \A a \in Attempts, ev \in PhoneEvidence : <<a, ev>> \in PhoneEvent
  /\ \A e \in PhoneEvent : e[1] \in Attempts /\ e[2] \in PhoneEvidence /\ e = <<e[1], e[2]>>
  /\ NoEvent \notin PhoneEvent
BY EvidenceNames, StoreAssumption DEF Intent, Proof, PhoneEvent, NoEvent

\* A row stays, with its message, and its attempt does not become callable again; a
\* refusal stays settled, a call made, an event acknowledged.
Lasts(a) ==
  /\ journal[a].state # "absent" =>
       journal'[a].state # "absent" /\ journal'[a].message = journal[a].message
  /\ journal[a].state \notin {"absent", "reserved"} =>
       journal'[a].state \notin {"absent", "reserved"}
  /\ journal[a].state = "not_submitted" => journal'[a].state = "not_submitted"
  /\ radio'[a] >= radio[a]
  /\ \A ev \in PhoneEvidence : status[<<a, ev>>] = "acked" => status'[<<a, ev>>] = "acked"

\* What the columns of a row say about its events: no event is missing for what the
\* row claims, and an attempt refused before the radio has its proof, unless its
\* intent was quarantined.
RowSound(a) ==
  /\ journal[a].state = "absent" <=> status[Intent(a)] = "none"
  /\ radio[a] = 0 =>
       ~journal[a].conflict /\ journal[a].sent = "none" /\ journal[a].delivery = "none"
  /\ journal[a].conflict =>
       journal[a].state = "unknown" /\ status[<<a, "callback_conflict">>] # "none"
  /\ ~journal[a].conflict =>
       /\ journal[a].sent = "ok" => status[<<a, "sent_callback_ok">>] # "none"
       /\ journal[a].sent = "failed" => status[<<a, "sent_callback_failed">>] # "none"
  /\ journal[a].state = "failed" => journal[a].sent = "failed"
  /\ journal[a].state \in {"submitted", "delivered", "delivery_failed", "delivery_unknown"} =>
       journal[a].sent = "ok"
  /\ journal[a].state = "delivered" => status[<<a, "delivery_callback_ok">>] # "none"
  /\ status[<<a, "delivery_callback_ok">>] # "none" =>
       journal[a].state = "delivered" \/ journal[a].conflict
  /\ journal[a].state = "reserved" => status[Intent(a)] \in {"pending", "quarantined"}
  /\ journal[a].state = "not_submitted" =>
       /\ status[Intent(a)] # "pending"
       /\ status[Proof(a)] # "none" \/ status[Intent(a)] = "quarantined"

\* An attempt the radio may still be asked for.
Opened(a) == journal[a].state \in {"reserved", "submitting", "radio_started"} /\ radio[a] = 0

Firm(a) == /\ RowSound(a) => RowSound(a)'
           /\ Opened(a)' => Opened(a) \/ journal[a].state = "absent"

\* The events s are new in the outbox, at its end; no other is written or removed.
Logged(s) ==
  /\ log' = log \o s /\ IsInjective(s)
  /\ \A e \in PhoneEvent : /\ status'[e] # "none" <=> status[e] # "none" \/ e \in ToSet(s)
                           /\ e \in ToSet(s) => status[e] = "none"

Logs == log \in Seq(PhoneEvent) => \E s \in Seq(PhoneEvent) : Logged(s)

Kept == /\ JournalShape' /\ Logs
        /\ \A a \in Attempts : AttemptSound(a)' /\ Lasts(a) /\ Firm(a)

\* A set is listed in some order, each of its elements once.
LEMMA SetToSeqEnumerates ==
  ASSUME NEW S, IsFiniteSet(S)
  PROVE  SetToSeq(S) \in Seq(S) /\ IsInjective(SetToSeq(S)) /\ ToSet(SetToSeq(S)) = S
<1>. DEFINE n == Cardinality(S)
<1>1. n \in Nat /\ ExistsBijection(1..n, S)
  BY FS_CardinalityType
<1>2. PICK g : g \in Bijection(1..n, S)
  BY <1>1 DEF ExistsBijection
<1>3. g \in [1..n -> S] /\ IsInjective(g)
  <2>1. g \in [1..n -> S] /\ \A i, k \in 1..n : g[i] = g[k] => i = k
    BY <1>2 DEF Bijection, Injection, IsInjective
  <2>. QED  BY <2>1 DEF IsInjective
<1>. DEFINE f == SetToSeq(S)
<1>4. f \in [1..n -> S] /\ IsInjective(f)
  BY <1>3 DEF SetToSeq
<1>. HIDE DEF f
<1>5. f \in Seq(S)
  BY <1>1, <1>4, IsASeq
<1>6. ToSet(f) \subseteq S
  BY <1>4 DEF ToSet
<1>7. f \in Bijection(1..n, ToSet(f))
  BY <1>4 DEF Bijection, Injection, Surjection, IsInjective, ToSet
<1>8. Cardinality(ToSet(f)) = n
  BY <1>1, <1>7, FS_CountingElements DEF ExistsBijection
<1>9. ToSet(f) = S
  BY <1>6, <1>8, FS_Subset
<1>. QED  BY <1>4, <1>5, <1>9 DEF f

\* A transaction that writes no event, one, or the proofs of a refusal.
LEMMA NoneLogged ==
  ASSUME log' = log, \A e \in PhoneEvent : status'[e] = "none" <=> status[e] = "none"
  PROVE  Logs
<1>. SUFFICES ASSUME log \in Seq(PhoneEvent) PROVE Logged(<<>>) /\ <<>> \in Seq(PhoneEvent)
  BY DEF Logs
<1>1. log' = log \o <<>>
  BY ConcatEmptySeq
<1>2. IsInjective(<<>>) /\ ToSet(<<>>) = {}
  BY DEF IsInjective, ToSet
<1>. QED  BY <1>1, <1>2 DEF Logged

LEMMA OneLogged ==
  ASSUME NEW x \in PhoneEvent, log' = Append(log, x), status' = Insert(status, {x}), status[x] = "none"
  PROVE  Logs
<1>. SUFFICES ASSUME log \in Seq(PhoneEvent) PROVE Logged(<<x>>) /\ <<x>> \in Seq(PhoneEvent)
  BY DEF Logs
<1>1. log' = log \o <<x>>
  BY AppendIsConcat
<1>2. IsInjective(<<x>>) /\ ToSet(<<x>>) = {x}
  BY DEF IsInjective, ToSet
<1>3. \A e \in PhoneEvent : status'[e] # "none" <=> status[e] # "none" \/ e = x
  BY DEF Insert
<1>. DEFINE s == <<x>>
<1>4. s \in Seq(PhoneEvent)
  OBVIOUS
<1>. HIDE DEF s
<1>5. log' = log \o s /\ IsInjective(s) /\ ToSet(s) = {x}
  BY <1>1, <1>2 DEF s
<1>6. Logged(s)
  BY <1>3, <1>5 DEF Logged
<1>. QED  BY <1>4, <1>6 DEF s

LEMMA ProofsLogged ==
  ASSUME NEW as \in SUBSET Attempts, NEW acks \in SUBSET Attempts,
         log' = log \o SetToSeq({ Proof(a) : a \in Provable(as) }),
         status' = Insert(Acknowledge(status, { Intent(a) : a \in acks }),
                          { Proof(a) : a \in Provable(as) }),
         \A a \in acks : status[Intent(a)] # "none"
  PROVE  Logs
<1>. DEFINE proofs == { Proof(a) : a \in Provable(as) }
            intents == { Intent(a) : a \in acks }
<1>1. IsFiniteSet(proofs)
  <2>1. Provable(as) \in SUBSET Attempts
    BY DEF Provable
  <2>2. IsFiniteSet(Provable(as))
    BY <2>1, FS_Subset, GatewayAssumption
  <2>. DEFINE F == [a \in Provable(as) |-> Proof(a)]
  <2>3. F \in Surjection(Provable(as), proofs)
    BY DEF Surjection
  <2>. HIDE DEF F, proofs
  <2>. QED  BY <2>2, <2>3, FS_Surjection DEF ExistsSurjection
<1>2. proofs \in SUBSET PhoneEvent /\ \A e \in proofs : status[e] = "none"
  BY EventNames DEF Provable
<1>3. \A e \in intents : status[e] # "none"
  OBVIOUS
<1>. HIDE DEF proofs, intents
<1>. DEFINE s == SetToSeq(proofs)
<1>4. s \in Seq(proofs) /\ IsInjective(s) /\ ToSet(s) = proofs
  BY <1>1, SetToSeqEnumerates
<1>5. s \in Seq(PhoneEvent)
  BY <1>2, <1>4, SeqMonotonic
<1>6. log' = log \o s
  BY DEF proofs
<1>. HIDE DEF s
<1>7. status' = Insert(Acknowledge(status, intents), proofs)
  BY DEF proofs, intents
<1>8. \A e \in PhoneEvent : status'[e] # "none" <=> status[e] # "none" \/ e \in proofs
  BY <1>3, <1>7 DEF Insert, Acknowledge
<1>. QED  BY <1>2, <1>4, <1>5, <1>6, <1>8 DEF Logs, Logged

\* A row whose state is written.
LEMMA RowWrites ==
  ASSUME NEW r \in JournalRow, NEW s \in AttemptState
  PROVE  /\ [r EXCEPT !.state = s] \in JournalRow
         /\ [r EXCEPT !.state = s].state = s
         /\ [r EXCEPT !.state = s].message = r.message
         /\ [r EXCEPT !.state = s].sent = r.sent
         /\ [r EXCEPT !.state = s].delivery = r.delivery
         /\ [r EXCEPT !.state = s].conflict = r.conflict
BY DEF JournalRow

LEMMA RowExists ==
  ASSUME NEW j \in [Attempts -> JournalRow \union {NoRow}], NEW a \in Attempts
  PROVE  /\ j[a].state # "absent" => j[a] \in JournalRow
         /\ j[a].state = "absent" => j[a] = NoRow
         /\ j[a] \in JournalRow => j[a].state \in AttemptState
<1>1. NoRow.state = "absent" /\ "absent" \notin AttemptState
  BY DEF NoRow, AttemptState
<1>2. \A r \in JournalRow : r.state \in AttemptState
  BY DEF JournalRow
<1>. QED  BY <1>1, <1>2

LEMMA FirmFrame ==
  ASSUME NEW a \in Attempts, journal'[a] = journal[a], radio'[a] = radio[a],
         \A ev \in PhoneEvidence : status'[<<a, ev>>] = status[<<a, ev>>]
  PROVE  Firm(a)
<1>1. /\ status'[Intent(a)] = status[Intent(a)] /\ status'[Proof(a)] = status[Proof(a)]
      /\ status'[<<a, "callback_conflict">>] = status[<<a, "callback_conflict">>]
      /\ status'[<<a, "delivery_callback_ok">>] = status[<<a, "delivery_callback_ok">>]
      /\ status'[<<a, "sent_callback_ok">>] = status[<<a, "sent_callback_ok">>]
      /\ status'[<<a, "sent_callback_failed">>] = status[<<a, "sent_callback_failed">>]
  BY EvidenceNames DEF Intent, Proof, CallEvidence, SentCallback
<1>. QED  BY <1>1 DEF Firm, RowSound, Opened

LEMMA UntouchedKept ==
  ASSUME PhoneInv, UNCHANGED journalVars, sender' \in {sender, IdleSend}
  PROVE  Kept
<1>1. UNCHANGED <<journal, status, radio>>
  BY DEF journalVars
<1>2. JournalShape'
  BY <1>1 DEF PhoneInv, JournalShape
<1>3. ASSUME NEW a \in Attempts PROVE AttemptSound(a)' /\ Lasts(a)
  <2>1. AttemptSound(a)
    BY DEF PhoneInv
  <2>2. sender'.attempt = a => sender' = sender
    BY StoreAssumption DEF IdleSend
  <2>3. radio[a] \in Nat
    BY DEF PhoneInv, JournalShape
  <2>. QED  BY <1>1, <2>1, <2>2, <2>3 DEF AttemptSound, Lasts
<1>4. ASSUME NEW a \in Attempts PROVE Firm(a)
  BY <1>1 DEF Firm, RowSound, Opened
<1>5. Logs
  BY <1>1, NoneLogged DEF journalVars
<1>. QED  BY <1>2, <1>3, <1>4, <1>5 DEF Kept

LEMMA ReserveKept ==
  ASSUME PhoneInv, NEW b \in Attempts, NEW m \in Messages, Reserve(b, m), UNCHANGED sender
  PROVE  Kept
<1>1. /\ journal \in [Attempts -> JournalRow \union {NoRow}]
      /\ status \in [PhoneEvent -> {"none", "pending", "acked", "quarantined"}]
      /\ radio \in [Attempts -> Nat]
  BY DEF PhoneInv, JournalShape
<1>. DEFINE row == [NoRow EXCEPT !.state = "reserved", !.message = m]
<1>2. row \in JournalRow /\ row.state = "reserved" /\ row.message = m
      /\ row.sent = "none" /\ row.delivery = "none" /\ row.conflict = FALSE
  BY DEF NoRow, JournalRow, AttemptState
<1>. HIDE DEF row
<1>3. /\ journal[b].state = "absent" /\ journal' = [journal EXCEPT ![b] = row]
      /\ status' = Insert(status, {Intent(b)}) /\ radio' = radio
      /\ log' = Append(log, Intent(b))
  BY DEF Reserve, row
<1>4. JournalShape'
  BY <1>1, <1>2, <1>3 DEF JournalShape, Insert
<1>5. ASSUME NEW a \in Attempts PROVE AttemptSound(a)' /\ Lasts(a)
  <2>1. AttemptSound(a)
    BY DEF PhoneInv
  <2>2. \A ev \in PhoneEvidence :
          status'[<<a, ev>>] = IF a = b /\ ev = "durable_submit_intent" THEN "pending"
                               ELSE status[<<a, ev>>]
    BY <1>3, EventNames DEF Insert, Intent
  <2>3. CASE a = b
    <3>1. journal'[a] = row /\ radio'[a] = 0 /\ radio[a] = 0 /\ sender.attempt # a
          /\ \A ev \in PhoneEvidence : status[<<a, ev>>] = "none"
      BY <1>1, <1>3, <2>1, <2>3 DEF AttemptSound, Uncalled
    <3>2. \A ev \in PhoneEvidence \ {"durable_submit_intent"} : status'[<<a, ev>>] = "none"
      BY <2>2, <3>1
    <3>3. status'[Proof(a)] = "none" /\ \A ev \in CallEvidence : status'[<<a, ev>>] = "none"
      BY <3>2, EvidenceNames DEF Proof
    <3>4. AttemptSound(a)'
      BY <1>2, <1>3, <2>3, <3>1, <3>3, EvidenceNames DEF AttemptSound, Uncalled
    <3>5. journal[a].state = "absent"
      BY <1>3, <2>3
    <3>6. \A ev \in PhoneEvidence : status[<<a, ev>>] = "acked" => status'[<<a, ev>>] = "acked"
      BY <3>1
    <3>7. radio'[a] >= radio[a]
      BY <3>1
    <3>. QED  BY <3>4, <3>5, <3>6, <3>7 DEF Lasts
  <2>4. CASE a # b
    <3>1. journal'[a] = journal[a] /\ radio'[a] = radio[a]
          /\ \A ev \in PhoneEvidence : status'[<<a, ev>>] = status[<<a, ev>>]
      BY <1>1, <1>3, <2>2, <2>4
    <3>2. status'[Intent(a)] = status[Intent(a)] /\ status'[Proof(a)] = status[Proof(a)]
          /\ \A ev \in CallEvidence : status'[<<a, ev>>] = status[<<a, ev>>]
      BY <3>1, EvidenceNames DEF Intent, Proof
    <3>. QED  BY <1>1, <2>1, <3>1, <3>2, EvidenceNames DEF AttemptSound, Lasts
  <2>. QED  BY <2>3, <2>4
<1>6. AttemptSound(b) /\ status[Intent(b)] = "none"
  BY <1>3, EvidenceNames DEF PhoneInv, AttemptSound, Intent
<1>7. Logs
  BY <1>3, <1>6, OneLogged, EventNames
<1>8. ASSUME NEW a \in Attempts PROVE Firm(a)
  <2>1. \A ev \in PhoneEvidence :
          status'[<<a, ev>>] = IF a = b /\ ev = "durable_submit_intent" THEN "pending"
                               ELSE status[<<a, ev>>]
    BY <1>3, EventNames DEF Insert, Intent
  <2>2. CASE a = b
    <3>1. journal'[a] = row /\ journal[a].state = "absent"
      BY <1>1, <1>3, <2>2
    <3>2. /\ status'[Intent(a)] = "pending"
          /\ status'[<<a, "delivery_callback_ok">>] = "none"
      BY <1>3, <1>6, <2>1, <2>2, EvidenceNames DEF AttemptSound, Intent
    <3>. QED  BY <1>2, <3>1, <3>2 DEF Firm, RowSound
  <2>3. CASE a # b
    <3>1. journal'[a] = journal[a] /\ radio'[a] = radio[a]
      BY <1>1, <1>3, <2>3
    <3>2. \A ev \in PhoneEvidence : status'[<<a, ev>>] = status[<<a, ev>>]
      BY <2>1, <2>3
    <3>. QED  BY <3>1, <3>2, FirmFrame
  <2>. QED  BY <2>2, <2>3
<1>. QED  BY <1>4, <1>5, <1>7, <1>8 DEF Kept

\* An attempt whose row and calls stay, and whose events but for its intent.
LEMMA AttemptFrame ==
  ASSUME PhoneInv, NEW a \in Attempts, journal'[a] = journal[a], radio'[a] = radio[a],
         \A ev \in PhoneEvidence \ {"durable_submit_intent"} : status'[<<a, ev>>] = status[<<a, ev>>],
         status[Intent(a)] = "acked" => status'[Intent(a)] = "acked",
         status[Intent(a)] = "none" => status'[Intent(a)] = "none",
         sender'.attempt = a => sender' = sender
  PROVE  AttemptSound(a)' /\ Lasts(a)
<1>1. AttemptSound(a) /\ radio[a] \in Nat
  BY DEF PhoneInv, JournalShape
<1>2. /\ status'[Proof(a)] = status[Proof(a)]
      /\ \A ev \in CallEvidence : status'[<<a, ev>>] = status[<<a, ev>>]
  BY EvidenceNames DEF Proof
<1>3. journal[a].state = "absent" => \A ev \in PhoneEvidence : status'[<<a, ev>>] = "none"
  <2>. SUFFICES ASSUME journal[a].state = "absent", NEW ev \in PhoneEvidence
                PROVE  status'[<<a, ev>>] = "none"
    OBVIOUS
  <2>1. status[<<a, ev>>] = "none"
    BY <1>1 DEF AttemptSound
  <2>2. CASE ev = "durable_submit_intent"
    BY <2>1, <2>2 DEF Intent
  <2>. QED  BY <2>1, <2>2
<1>4. \A ev \in PhoneEvidence : status[<<a, ev>>] = "acked" => status'[<<a, ev>>] = "acked"
  BY DEF Intent
<1>. QED  BY <1>1, <1>2, <1>3, <1>4, EvidenceNames DEF AttemptSound, Lasts

\* A refusal, of attempts the radio was not asked for, with or without the intents.
LEMMA RefusalKept ==
  ASSUME PhoneInv, NEW as \in SUBSET Attempts, NEW acks \in SUBSET Attempts,
         ProveNoRadio(as, acks), sender' \in {sender, IdleSend},
         \A a \in as : journal[a].state # "absent" /\ radio[a] = 0 /\ sender'.attempt # a,
         \A a \in acks : journal[a].state # "absent" /\ status[Intent(a)] # "none",
         \A a \in as : a \in acks \/ status[Intent(a)] = "acked",
         \A a \in acks \ as : journal[a].state \notin {"reserved", "not_submitted"}
  PROVE  Kept
<1>1. /\ journal \in [Attempts -> JournalRow \union {NoRow}]
      /\ status \in [PhoneEvent -> {"none", "pending", "acked", "quarantined"}]
      /\ radio \in [Attempts -> Nat]
  BY DEF PhoneInv, JournalShape
<1>. DEFINE proofs == { Proof(a) : a \in Provable(as) }
            intents == { Intent(a) : a \in acks }
<1>2. /\ journal' = [a \in Attempts |->
                       IF a \in as THEN [journal[a] EXCEPT !.state = "not_submitted"]
                                   ELSE journal[a]]
      /\ status' = Insert(Acknowledge(status, intents), proofs)
      /\ radio' = radio
      /\ log' = log \o SetToSeq(proofs)
  BY DEF ProveNoRadio
<1>3. \A a \in as : /\ journal[a] \in JournalRow
                    /\ [journal[a] EXCEPT !.state = "not_submitted"] \in JournalRow
  <2>1. \A a \in as : journal[a] \in JournalRow
    BY <1>1, RowExists
  <2>2. "not_submitted" \in AttemptState
    BY DEF AttemptState
  <2>. QED  BY <2>1, <2>2, RowWrites
<1>4. ASSUME NEW a \in Attempts, NEW ev \in PhoneEvidence
      PROVE  /\ ev \notin {"durable_submit_intent", "proven_no_submit"} =>
                  status'[<<a, ev>>] = status[<<a, ev>>]
             /\ ev = "proven_no_submit" /\ a \notin as => status'[<<a, ev>>] = status[<<a, ev>>]
             /\ ev = "durable_submit_intent" =>
                  status'[<<a, ev>>] = IF a \in acks THEN "acked" ELSE status[<<a, ev>>]
             /\ status[<<a, ev>>] = "acked" => status'[<<a, ev>>] = "acked"
  <2>1. <<a, ev>> \in proofs <=> ev = "proven_no_submit" /\ a \in Provable(as)
    BY DEF Proof
  <2>2. <<a, ev>> \in intents <=> ev = "durable_submit_intent" /\ a \in acks
    BY DEF Intent
  <2>3. \A b \in Provable(as) : b \in as /\ status[<<b, "proven_no_submit">>] = "none"
    BY DEF Provable, Proof
  <2>4. <<a, ev>> \in PhoneEvent
    BY EventNames
  <2>. HIDE DEF proofs, intents
  <2>5. status'[<<a, ev>>] = IF <<a, ev>> \in proofs THEN "pending"
                             ELSE IF <<a, ev>> \in intents THEN "acked" ELSE status[<<a, ev>>]
    BY <1>2, <2>4 DEF Insert, Acknowledge
  <2>. QED  BY <2>1, <2>2, <2>3, <2>5
<1>5. JournalShape'
  <2>1. journal' \in [Attempts -> JournalRow \union {NoRow}]
    BY <1>1, <1>2, <1>3
  <2>2. status' \in [PhoneEvent -> {"none", "pending", "acked", "quarantined"}]
    BY <1>1, <1>2 DEF Insert, Acknowledge
  <2>. QED  BY <1>1, <1>2, <2>1, <2>2 DEF JournalShape
<1>6. ASSUME NEW a \in Attempts PROVE AttemptSound(a)' /\ Lasts(a)
  <2>1. AttemptSound(a)
    BY DEF PhoneInv
  <2>2. radio'[a] = radio[a]
    BY <1>2
  <2>3. CASE a \in as
    <3>1. /\ journal'[a].state = "not_submitted" /\ journal'[a].message = journal[a].message
          /\ journal'[a].sent = journal[a].sent /\ journal'[a].delivery = journal[a].delivery
          /\ journal'[a].conflict = journal[a].conflict
      BY <1>2, <1>3, <2>3 DEF JournalRow
    <3>2. \A ev \in CallEvidence : status'[<<a, ev>>] = status[<<a, ev>>]
      BY <1>4, EvidenceNames
    <3>3. radio[a] = 0 /\ sender'.attempt # a
      BY <2>3
    <3>4. \A ev \in PhoneEvidence : status[<<a, ev>>] = "acked" => status'[<<a, ev>>] = "acked"
      BY <1>4
    <3>5. AttemptSound(a)'
      BY <1>1, <2>1, <2>2, <3>1, <3>2, <3>3, EvidenceNames DEF AttemptSound, Uncalled
    <3>. QED  BY <1>1, <2>2, <3>1, <3>4, <3>5 DEF Lasts
  <2>4. CASE a \notin as
    <3>1. journal'[a] = journal[a]
      BY <1>2, <2>4
    <3>2. \A ev \in PhoneEvidence \ {"durable_submit_intent"} : status'[<<a, ev>>] = status[<<a, ev>>]
      BY <1>4, <2>4
    <3>3. status'[Intent(a)] = IF a \in acks THEN "acked" ELSE status[Intent(a)]
      BY <1>4, EvidenceNames DEF Intent
    <3>4. a \in acks => journal[a].state # "absent"
      OBVIOUS
    <3>5. sender'.attempt = a => sender' = sender
      BY StoreAssumption DEF IdleSend
    <3>6. CASE a \notin acks \/ status[Intent(a)] # "none"
      BY <2>2, <3>1, <3>2, <3>3, <3>5, <3>6, AttemptFrame
    <3>7. CASE a \in acks /\ status[Intent(a)] = "none"
      <4>1. sender'.attempt # a
        BY <2>1, <3>5, <3>7 DEF AttemptSound
      <4>2. \A ev \in CallEvidence : status'[<<a, ev>>] = status[<<a, ev>>]
        BY <3>2, EvidenceNames
      <4>3. status'[Proof(a)] = status[Proof(a)]
        BY <3>2, EvidenceNames DEF Proof
      <4>4. \A ev \in PhoneEvidence : status[<<a, ev>>] = "acked" => status'[<<a, ev>>] = "acked"
        BY <1>4
      <4>. QED  BY <1>1, <2>1, <2>2, <3>1, <3>4, <3>7, <4>1, <4>2, <4>3, <4>4, EvidenceNames
                DEF AttemptSound, Lasts
    <3>. QED  BY <3>6, <3>7
  <2>. QED  BY <2>3, <2>4
<1>7. Logs
  BY <1>2, ProofsLogged
<1>8. ASSUME NEW a \in Attempts PROVE Firm(a)
  <2>1. /\ status'[<<a, "callback_conflict">>] = status[<<a, "callback_conflict">>]
        /\ status'[<<a, "delivery_callback_ok">>] = status[<<a, "delivery_callback_ok">>]
        /\ status'[<<a, "sent_callback_ok">>] = status[<<a, "sent_callback_ok">>]
        /\ status'[<<a, "sent_callback_failed">>] = status[<<a, "sent_callback_failed">>]
        /\ a \notin as => status'[Proof(a)] = status[Proof(a)]
        /\ status'[Intent(a)] = IF a \in acks THEN "acked" ELSE status[Intent(a)]
    BY <1>4, EvidenceNames DEF Intent, Proof, CallEvidence, SentCallback
  <2>2. radio'[a] = radio[a]
    BY <1>2
  <2>3. CASE a \in as
    <3>1. /\ journal'[a].state = "not_submitted"
          /\ journal'[a].sent = journal[a].sent /\ journal'[a].delivery = journal[a].delivery
          /\ journal'[a].conflict = journal[a].conflict
      BY <1>2, <1>3, <2>3 DEF JournalRow
    <3>2. radio[a] = 0 /\ status'[Intent(a)] = "acked"
      BY <2>1, <2>3
    <3>3. ASSUME RowSound(a) PROVE RowSound(a)'
      <4>1. ~journal[a].conflict /\ journal[a].sent = "none" /\ journal[a].delivery = "none"
        BY <3>2, <3>3 DEF RowSound
      <4>2. status'[Proof(a)] # "none"
        <5>1. CASE status[Proof(a)] = "none"
          <6>1. a \in Provable(as)
            BY <2>3, <4>1, <5>1 DEF Provable
          <6>2. Proof(a) \in proofs /\ Proof(a) \in PhoneEvent
            BY <6>1, EventNames
          <6>. HIDE DEF proofs, intents
          <6>. QED  BY <1>2, <6>2 DEF Insert
        <5>2. CASE status[Proof(a)] # "none"
          <6>1. Proof(a) \in PhoneEvent
            BY EventNames
          <6>. QED  BY <1>2, <5>2, <6>1 DEF Insert, Acknowledge
        <5>. QED  BY <5>1, <5>2
      <4>3. status'[<<a, "delivery_callback_ok">>] = "none"
        <5>1. AttemptSound(a) /\ ~(radio[a] > 0)
          BY <3>2 DEF PhoneInv
        <5>2. status[<<a, "delivery_callback_ok">>] = "none"
          BY <5>1, EvidenceNames DEF AttemptSound
        <5>. QED  BY <2>1, <5>2
      <4>. QED  BY <3>1, <3>2, <4>1, <4>2, <4>3 DEF RowSound
    <3>. QED  BY <3>1, <3>3 DEF Firm, Opened
  <2>4. CASE a \notin as
    <3>1. journal'[a] = journal[a]
      BY <1>2, <2>4
    <3>2. a \in acks => /\ journal[a].state \notin {"reserved", "not_submitted"}
                        /\ journal[a].state # "absent" /\ status[Intent(a)] # "none"
      BY <2>4
    <3>. QED  BY <2>1, <2>2, <2>4, <3>1, <3>2 DEF Firm, RowSound, Opened
  <2>. QED  BY <2>3, <2>4
<1>. QED  BY <1>5, <1>6, <1>7, <1>8 DEF Kept

\* A transaction that writes the state of one row.
LEMMA StateWrites ==
  ASSUME JournalShape, NEW b \in Attempts, NEW s \in AttemptState, journal[b].state # "absent",
         journal' = [journal EXCEPT ![b].state = s]
  PROVE  /\ journal' \in [Attempts -> JournalRow \union {NoRow}]
         /\ \A a \in Attempts : a # b => journal'[a] = journal[a]
         /\ journal'[b].state = s /\ journal'[b].message = journal[b].message
         /\ journal'[b].sent = journal[b].sent /\ journal'[b].delivery = journal[b].delivery
         /\ journal'[b].conflict = journal[b].conflict
<1>1. journal \in [Attempts -> JournalRow \union {NoRow}]
  BY DEF JournalShape
<1>2. journal[b] \in JournalRow
  BY <1>1, RowExists
<1>. DEFINE r == [journal[b] EXCEPT !.state = s]
<1>3. /\ r \in JournalRow /\ r.state = s /\ r.message = journal[b].message
      /\ r.sent = journal[b].sent /\ r.delivery = journal[b].delivery
      /\ r.conflict = journal[b].conflict
  BY <1>2, RowWrites
<1>4. journal' = [journal EXCEPT ![b] = r]
  OBVIOUS
<1>. HIDE DEF r
<1>. QED  BY <1>1, <1>3, <1>4

\* acknowledgeAlphaIntent lets the attempt go to the radio.
LEMMA PermitKept ==
  ASSUME PhoneInv, NEW b \in Attempts, journal[b].state = "reserved",
         journal' = [journal EXCEPT ![b].state = "submitting"],
         status' = Acknowledge(status, {Intent(b)}), radio' = radio, log' = log,
         status[Intent(b)] # "none", sender'.pc = "queued", sender'.attempt = b
  PROVE  Kept
<1>1. /\ JournalShape
      /\ status \in [PhoneEvent -> {"none", "pending", "acked", "quarantined"}]
      /\ radio \in [Attempts -> Nat]
  BY DEF PhoneInv, JournalShape
<1>2. "submitting" \in AttemptState
  BY DEF AttemptState
<1>3. /\ journal' \in [Attempts -> JournalRow \union {NoRow}]
      /\ \A a \in Attempts : a # b => journal'[a] = journal[a]
      /\ journal'[b].state = "submitting" /\ journal'[b].message = journal[b].message
      /\ journal'[b].sent = journal[b].sent /\ journal'[b].delivery = journal[b].delivery
      /\ journal'[b].conflict = journal[b].conflict
  BY <1>1, <1>2, StateWrites
<1>4. JournalShape'
  BY <1>1, <1>3 DEF JournalShape, Acknowledge
<1>5. ASSUME NEW a \in Attempts, NEW ev \in PhoneEvidence
      PROVE  status'[<<a, ev>>] = IF a = b /\ ev = "durable_submit_intent" THEN "acked"
                                  ELSE status[<<a, ev>>]
  BY <1>1, EventNames DEF Acknowledge, Intent
<1>6. ASSUME NEW a \in Attempts PROVE AttemptSound(a)' /\ Lasts(a)
  <2>1. AttemptSound(a)
    BY DEF PhoneInv
  <2>2. CASE a = b
    <3>1. /\ radio[a] = 0 /\ status[Proof(a)] = "none"
      BY <2>1, <2>2 DEF AttemptSound, Uncalled
    <3>2. /\ status'[Intent(a)] = "acked" /\ status'[Proof(a)] = "none"
          /\ \A ev \in CallEvidence : status'[<<a, ev>>] = status[<<a, ev>>]
      BY <1>5, <2>2, <3>1, EvidenceNames DEF Intent, Proof
    <3>3. radio'[a] = 0
      BY <3>1
    <3>4. AttemptSound(a)'
      <4>1. \A ev \in CallEvidence : status'[<<a, ev>>] = "none"
        <5>1. \A ev \in CallEvidence : status[<<a, ev>>] # "none" => radio[a] > 0
          BY <2>1 DEF AttemptSound
        <5>2. ~(radio[a] > 0)
          BY <3>1
        <5>3. \A ev \in CallEvidence : status'[<<a, ev>>] = status[<<a, ev>>]
          BY <3>2
        <5>. QED  BY <5>1, <5>2, <5>3, Zenon
      <4>2. /\ \A ev \in SentCallback : status'[<<a, ev>>] = "none"
            /\ status'[<<a, "delivery_callback_ok">>] = "none"
            /\ status'[<<a, "callback_conflict">>] = "none"
        BY <4>1, EvidenceNames
      <4>3. journal'[a].state = "submitting" /\ journal'[a].state \notin Uncalled
        BY <1>3, <2>2 DEF Uncalled
      <4>. QED  BY <3>2, <3>3, <4>1, <4>2, <4>3 DEF AttemptSound
    <3>5. \A ev \in PhoneEvidence : status[<<a, ev>>] = "acked" => status'[<<a, ev>>] = "acked"
      BY <1>5
    <3>6. radio'[a] >= radio[a]
      BY <3>1, <3>3
    <3>7. /\ journal[a].state = "reserved" /\ journal'[a].state = "submitting"
          /\ journal'[a].message = journal[a].message
      BY <1>3, <2>2
    <3>. QED  BY <3>4, <3>5, <3>6, <3>7 DEF Lasts
  <2>3. CASE a # b
    <3>1. \A ev \in PhoneEvidence : status'[<<a, ev>>] = status[<<a, ev>>]
      BY <1>5, <2>3
    <3>2. status'[Intent(a)] = status[Intent(a)]
      BY <3>1, EvidenceNames DEF Intent
    <3>. QED  BY <1>3, <2>3, <3>1, <3>2, AttemptFrame
  <2>. QED  BY <2>2, <2>3
<1>7. Logs
  BY <1>1, NoneLogged DEF Acknowledge
<1>8. ASSUME NEW a \in Attempts PROVE Firm(a)
  <2>1. CASE a = b
    <3>1. /\ status'[<<a, "callback_conflict">>] = status[<<a, "callback_conflict">>]
          /\ status'[<<a, "delivery_callback_ok">>] = status[<<a, "delivery_callback_ok">>]
          /\ status'[<<a, "sent_callback_ok">>] = status[<<a, "sent_callback_ok">>]
          /\ status'[<<a, "sent_callback_failed">>] = status[<<a, "sent_callback_failed">>]
          /\ status'[Intent(a)] = "acked"
      BY <1>5, <2>1, EvidenceNames DEF Intent, CallEvidence, SentCallback
    <3>. QED  BY <1>3, <2>1, <3>1 DEF Firm, RowSound, Opened
  <2>2. CASE a # b
    BY <1>3, <1>5, <2>2, FirmFrame
  <2>. QED  BY <2>1, <2>2
<1>. QED  BY <1>4, <1>6, <1>7, <1>8 DEF Kept

\* An event is acknowledged or quarantined.
LEMMA SettleKept ==
  ASSUME PhoneInv, NEW e \in PhoneEvent, UNCHANGED sender,
         \/ AcknowledgeEvent(e) /\ status[e] = "pending" /\ e # Intent(e[1])
         \/ QuarantineEvent(e)
  PROVE  Kept
<1>1. /\ status \in [PhoneEvent -> {"none", "pending", "acked", "quarantined"}]
      /\ radio \in [Attempts -> Nat]
  BY DEF PhoneInv, JournalShape
<1>2. PICK s \in {"none", "pending", "acked", "quarantined"} :
        /\ status' = [status EXCEPT ![e] = s]
        /\ s = "none" <=> status[e] = "none"
        /\ status[e] = "acked" => s = "acked"
        /\ status[e] = "quarantined" => s = "quarantined"
        /\ e = Intent(e[1]) => s = IF status[e] = "pending" THEN "quarantined" ELSE status[e]
  <2>1. CASE AcknowledgeEvent(e) /\ status[e] = "pending" /\ e # Intent(e[1])
    BY <1>1, <2>1 DEF AcknowledgeEvent, Acknowledge
  <2>2. CASE QuarantineEvent(e)
    BY <1>1, <2>2 DEF QuarantineEvent
  <2>. QED  BY <2>1, <2>2
<1>3. UNCHANGED <<journal, radio, log>>
  BY DEF AcknowledgeEvent, QuarantineEvent
<1>4. JournalShape'
  BY <1>1, <1>2, <1>3 DEF PhoneInv, JournalShape
<1>5. \A x \in PhoneEvent : /\ status'[x] = "none" <=> status[x] = "none"
                            /\ status[x] = "acked" => status'[x] = "acked"
  BY <1>1, <1>2
<1>6. ASSUME NEW a \in Attempts PROVE AttemptSound(a)' /\ Lasts(a)
  <2>1. AttemptSound(a) /\ radio[a] \in Nat
    BY DEF PhoneInv, JournalShape
  <2>2. \A ev \in PhoneEvidence : status'[<<a, ev>>] = "none" <=> status[<<a, ev>>] = "none"
    BY <1>5, EventNames
  <2>3. \A ev \in CallEvidence : status'[<<a, ev>>] = "none" <=> status[<<a, ev>>] = "none"
    BY <2>2, EvidenceNames
  <2>4. /\ status'[Proof(a)] = "none" <=> status[Proof(a)] = "none"
        /\ status[Intent(a)] = "acked" => status'[Intent(a)] = "acked"
        /\ \A ev \in PhoneEvidence : status[<<a, ev>>] = "acked" => status'[<<a, ev>>] = "acked"
    BY <1>5, EventNames
  <2>. QED  BY <1>3, <2>1, <2>2, <2>3, <2>4, EvidenceNames DEF AttemptSound, Lasts
<1>7. Logs
  BY <1>3, <1>5, NoneLogged
<1>8. ASSUME NEW a \in Attempts PROVE Firm(a)
  <2>1. /\ \A ev \in PhoneEvidence : status'[<<a, ev>>] = "none" <=> status[<<a, ev>>] = "none"
        /\ Intent(a) \in PhoneEvent /\ Intent(a)[1] = a
    BY <1>5, EventNames DEF Intent
  <2>2. /\ status'[<<a, "callback_conflict">>] = "none" <=> status[<<a, "callback_conflict">>] = "none"
        /\ status'[<<a, "delivery_callback_ok">>] = "none" <=> status[<<a, "delivery_callback_ok">>] = "none"
        /\ status'[<<a, "sent_callback_ok">>] = "none" <=> status[<<a, "sent_callback_ok">>] = "none"
        /\ status'[<<a, "sent_callback_failed">>] = "none" <=> status[<<a, "sent_callback_failed">>] = "none"
        /\ status'[Proof(a)] = "none" <=> status[Proof(a)] = "none"
    BY <2>1, EvidenceNames DEF CallEvidence, SentCallback, Proof
  <2>3. \/ status'[Intent(a)] = status[Intent(a)]
        \/ status[Intent(a)] = "pending" /\ status'[Intent(a)] = "quarantined"
    BY <1>1, <1>2, <2>1
  <2>. QED  BY <1>3, <2>2, <2>3 DEF Firm, RowSound, Opened
<1>. QED  BY <1>4, <1>6, <1>7, <1>8 DEF Kept

\* The gate in front of the radio is consumed.
LEMMA ConsumeKept ==
  ASSUME PhoneInv, NEW b \in Attempts, ConsumeRadioStart(b), sender.attempt = b,
         sender' = [sender EXCEPT !.pc = "consumed"], sender'.pc = "consumed",
         sender'.attempt = sender.attempt
  PROVE  Kept
<1>1. JournalShape /\ radio \in [Attempts -> Nat]
  BY DEF PhoneInv, JournalShape
<1>2. "radio_started" \in AttemptState
  BY DEF AttemptState
<1>3. UNCHANGED <<status, radio, log>> /\ journal[b].state = "submitting"
  BY DEF ConsumeRadioStart
<1>4. /\ journal' \in [Attempts -> JournalRow \union {NoRow}]
      /\ \A a \in Attempts : a # b => journal'[a] = journal[a]
      /\ journal'[b].state = "radio_started" /\ journal'[b].message = journal[b].message
      /\ journal'[b].sent = journal[b].sent /\ journal'[b].delivery = journal[b].delivery
      /\ journal'[b].conflict = journal[b].conflict
  BY <1>1, <1>2, <1>3, StateWrites DEF ConsumeRadioStart
<1>5. JournalShape'
  BY <1>1, <1>3, <1>4 DEF JournalShape
<1>6. ASSUME NEW a \in Attempts PROVE AttemptSound(a)' /\ Lasts(a)
  <2>1. AttemptSound(a)
    BY DEF PhoneInv
  <2>2. CASE a = b
    BY <1>1, <1>3, <1>4, <2>1, <2>2 DEF AttemptSound, Lasts, Uncalled
  <2>3. CASE a # b
    BY <1>1, <1>3, <1>4, <2>1, <2>3 DEF AttemptSound, Lasts
  <2>. QED  BY <2>2, <2>3
<1>7. ASSUME NEW a \in Attempts PROVE Firm(a)
  <2>1. CASE a = b
    BY <1>3, <1>4, <2>1 DEF Firm, RowSound, Opened
  <2>2. CASE a # b
    BY <1>3, <1>4, <2>2 DEF Firm, RowSound, Opened
  <2>. QED  BY <2>1, <2>2
<1>. QED  BY <1>3, <1>5, <1>6, <1>7, NoneLogged DEF Kept

\* The one call, behind the gate.
LEMMA CallKept ==
  ASSUME PhoneInv, NEW b \in Attempts, NEW n \in {0, 1}, NEW s \in {"radio_started", "unknown"},
         CallRadio(b, n, s), sender.attempt = b, sender.pc = "consumed", sender' = IdleSend
  PROVE  Kept
<1>1. JournalShape /\ radio \in [Attempts -> Nat]
  BY DEF PhoneInv, JournalShape
<1>2. s \in AttemptState
  BY DEF AttemptState
<1>3. AttemptSound(b)
  BY DEF PhoneInv
<1>4. radio[b] = 0 /\ journal[b].state = "radio_started"
  BY <1>3 DEF AttemptSound
<1>5. UNCHANGED <<status, log>> /\ radio' = [radio EXCEPT ![b] = radio[b] + n]
  BY DEF CallRadio
<1>6. /\ journal' \in [Attempts -> JournalRow \union {NoRow}]
      /\ \A a \in Attempts : a # b => journal'[a] = journal[a]
      /\ journal'[b].state = s /\ journal'[b].message = journal[b].message
      /\ journal'[b].sent = journal[b].sent /\ journal'[b].delivery = journal[b].delivery
      /\ journal'[b].conflict = journal[b].conflict
  BY <1>1, <1>2, <1>4, StateWrites DEF CallRadio
<1>7. JournalShape'
  <2>1. radio[b] + n \in Nat
    BY <1>4
  <2>2. radio' \in [Attempts -> Nat]
    BY <1>1, <1>5, <2>1
  <2>. QED  BY <1>1, <1>5, <1>6, <2>2 DEF JournalShape
<1>8. sender'.attempt \notin Attempts
  BY StoreAssumption DEF IdleSend
<1>9. ASSUME NEW a \in Attempts PROVE AttemptSound(a)' /\ Lasts(a)
  <2>1. AttemptSound(a)
    BY DEF PhoneInv
  <2>2. CASE a = b
    BY <1>1, <1>4, <1>5, <1>6, <1>8, <2>1, <2>2 DEF AttemptSound, Lasts, Uncalled
  <2>3. CASE a # b
    BY <1>1, <1>5, <1>6, <1>8, <2>1, <2>3 DEF AttemptSound, Lasts
  <2>. QED  BY <2>2, <2>3
<1>10. ASSUME NEW a \in Attempts PROVE Firm(a)
  <2>1. CASE a = b
    <3>1. ~(radio[b] > 0) /\ status[<<b, "delivery_callback_ok">>] = "none"
      BY <1>3, <1>4, EvidenceNames DEF AttemptSound
    <3>. QED  BY <1>4, <1>5, <1>6, <2>1, <3>1 DEF Firm, RowSound, Opened
  <2>2. CASE a # b
    BY <1>1, <1>5, <1>6, <2>2 DEF Firm, RowSound, Opened
  <2>. QED  BY <2>1, <2>2
<1>. QED  BY <1>5, <1>7, <1>9, <1>10, NoneLogged DEF Kept

\* Two silent minutes after the call.
LEMMA StallKept ==
  ASSUME PhoneInv, NEW b \in Attempts, sender.attempt # b, MarkStalled(b), UNCHANGED sender
  PROVE  Kept
<1>1. JournalShape /\ radio \in [Attempts -> Nat]
  BY DEF PhoneInv, JournalShape
<1>2. "unknown" \in AttemptState
  BY DEF AttemptState
<1>3. AttemptSound(b)
  BY DEF PhoneInv
<1>4. UNCHANGED <<status, radio, log>> /\ journal[b].state \in {"submitting", "radio_started"}
  BY DEF MarkStalled
<1>5. /\ journal' \in [Attempts -> JournalRow \union {NoRow}]
      /\ \A a \in Attempts : a # b => journal'[a] = journal[a]
      /\ journal'[b].state = "unknown" /\ journal'[b].message = journal[b].message
      /\ journal'[b].sent = journal[b].sent /\ journal'[b].delivery = journal[b].delivery
      /\ journal'[b].conflict = journal[b].conflict
  BY <1>1, <1>2, <1>4, StateWrites DEF MarkStalled
<1>6. JournalShape'
  BY <1>1, <1>4, <1>5 DEF JournalShape
<1>7. ASSUME NEW a \in Attempts PROVE AttemptSound(a)' /\ Lasts(a)
  <2>1. AttemptSound(a)
    BY DEF PhoneInv
  <2>2. CASE a = b
    BY <1>1, <1>4, <1>5, <2>1, <2>2 DEF AttemptSound, Lasts, Uncalled
  <2>3. CASE a # b
    BY <1>1, <1>4, <1>5, <2>1, <2>3 DEF AttemptSound, Lasts
  <2>. QED  BY <2>2, <2>3
<1>8. ASSUME NEW a \in Attempts PROVE Firm(a)
  <2>1. CASE a = b
    BY <1>4, <1>5, <2>1 DEF Firm, RowSound, Opened
  <2>2. CASE a # b
    BY <1>4, <1>5, <2>2 DEF Firm, RowSound, Opened
  <2>. QED  BY <2>1, <2>2
<1>. QED  BY <1>4, <1>6, <1>7, <1>8, NoneLogged DEF Kept

\* A restart recovers the journal: interrupted calls are unknown, the rest refused.
LEMMA RecoverKept ==
  ASSUME PhoneInv, NEW late \in BOOLEAN, RecoverJournal(late), sender' = IdleSend
  PROVE  Kept
<1>1. /\ journal \in [Attempts -> JournalRow \union {NoRow}]
      /\ status \in [PhoneEvent -> {"none", "pending", "acked", "quarantined"}]
      /\ radio \in [Attempts -> Nat]
  BY DEF PhoneInv, JournalShape
<1>. DEFINE proofs == { Proof(a) : a \in Provable(Orphans) }
            intents == { Intent(a) : a \in Orphans }
<1>2. /\ journal' = [a \in Attempts |-> [journal[a] EXCEPT !.state = Recovered(journal[a].state, late)]]
      /\ status' = Insert(Acknowledge(status, intents), proofs)
      /\ radio' = radio /\ log' = log \o SetToSeq(proofs)
  BY DEF RecoverJournal
<1>3. ASSUME NEW a \in Attempts, journal[a].state # "absent"
      PROVE  /\ journal'[a] \in JournalRow /\ journal'[a].message = journal[a].message
             /\ journal'[a].sent = journal[a].sent /\ journal'[a].delivery = journal[a].delivery
             /\ journal'[a].conflict = journal[a].conflict
             /\ journal'[a].state = Recovered(journal[a].state, late)
             /\ journal'[a].state \notin {"absent", "reserved"}
             /\ journal[a].state \in {"reserved", "not_submitted"} =>
                  journal'[a].state = "not_submitted"
             /\ journal'[a].state \in Uncalled => journal[a].state \in Uncalled
  <2>1. journal[a] \in JournalRow /\ journal[a].state \in AttemptState
    BY <1>1, <1>3, RowExists
  <2>2. /\ Recovered(journal[a].state, late) \in AttemptState \ {"reserved"}
        /\ journal[a].state \in {"reserved", "not_submitted"} =>
             Recovered(journal[a].state, late) = "not_submitted"
        /\ Recovered(journal[a].state, late) \in Uncalled => journal[a].state \in Uncalled
    BY <2>1 DEF Recovered, AttemptState, Uncalled
  <2>3. journal'[a] = [journal[a] EXCEPT !.state = Recovered(journal[a].state, late)]
    BY <1>2
  <2>4. "absent" \notin AttemptState
    BY DEF AttemptState
  <2>. QED  BY <2>1, <2>2, <2>3, <2>4, RowWrites
<1>4. ASSUME NEW a \in Attempts, journal[a].state = "absent" PROVE journal'[a] = journal[a]
  <2>1. journal[a] = NoRow
    BY <1>1, <1>4, RowExists
  <2>2. Recovered("absent", late) = "absent"
    BY DEF Recovered
  <2>3. journal'[a] = [NoRow EXCEPT !.state = "absent"]
    BY <1>2, <2>1, <2>2, <1>4
  <2>. QED  BY <2>1, <2>3 DEF NoRow
<1>5. ASSUME NEW a \in Attempts, NEW ev \in PhoneEvidence
      PROVE  /\ ev \in CallEvidence => status'[<<a, ev>>] = status[<<a, ev>>]
             /\ a \notin Orphans => status'[<<a, ev>>] = status[<<a, ev>>]
             /\ status[<<a, ev>>] = "acked" => status'[<<a, ev>>] = "acked"
  <2>1. <<a, ev>> \in proofs <=> ev = "proven_no_submit" /\ a \in Provable(Orphans)
    BY DEF Proof
  <2>2. <<a, ev>> \in intents <=> ev = "durable_submit_intent" /\ a \in Orphans
    BY DEF Intent
  <2>3. \A b \in Provable(Orphans) : b \in Orphans /\ status[<<b, "proven_no_submit">>] = "none"
    BY DEF Provable, Proof
  <2>4. <<a, ev>> \in PhoneEvent
    BY EventNames
  <2>. HIDE DEF proofs, intents
  <2>5. status'[<<a, ev>>] = IF <<a, ev>> \in proofs THEN "pending"
                             ELSE IF <<a, ev>> \in intents THEN "acked" ELSE status[<<a, ev>>]
    BY <1>2, <2>4 DEF Insert, Acknowledge
  <2>. QED  BY <2>1, <2>2, <2>3, <2>5, EvidenceNames
<1>6. JournalShape'
  <2>1. journal' \in [Attempts -> JournalRow \union {NoRow}]
    <3>1. \A a \in Attempts : journal'[a] \in JournalRow \union {NoRow}
      BY <1>1, <1>3, <1>4
    <3>2. journal' = [a \in Attempts |-> journal'[a]]
      BY <1>2
    <3>. QED  BY <3>1, <3>2
  <2>2. status' \in [PhoneEvent -> {"none", "pending", "acked", "quarantined"}]
    BY <1>1, <1>2 DEF Insert, Acknowledge
  <2>. QED  BY <1>1, <1>2, <2>1, <2>2 DEF JournalShape
<1>7. sender'.attempt \notin Attempts
  BY StoreAssumption DEF IdleSend
<1>8. ASSUME NEW a \in Attempts PROVE AttemptSound(a)' /\ Lasts(a)
  <2>1. AttemptSound(a) /\ radio'[a] = radio[a]
    BY <1>2 DEF PhoneInv
  <2>2. /\ \A ev \in CallEvidence : status'[<<a, ev>>] = status[<<a, ev>>]
        /\ \A ev \in PhoneEvidence : status[<<a, ev>>] = "acked" => status'[<<a, ev>>] = "acked"
    BY <1>5, EvidenceNames
  <2>3. CASE a \in Orphans
    <3>1. journal[a].state \in {"reserved", "not_submitted"}
      BY <2>3 DEF Orphans
    <3>2. AttemptSound(a)'
      BY <1>1, <1>3, <1>7, <2>1, <2>2, <3>1, EvidenceNames DEF AttemptSound, Uncalled
    <3>. QED  BY <1>1, <1>3, <2>1, <2>2, <3>1, <3>2 DEF Lasts
  <2>4. CASE a \notin Orphans
    <3>1. \A ev \in PhoneEvidence : status'[<<a, ev>>] = status[<<a, ev>>]
      BY <1>5, <2>4
    <3>2. status'[Proof(a)] = status[Proof(a)]
      BY <3>1, EvidenceNames DEF Proof
    <3>3. CASE journal[a].state = "absent"
      BY <1>1, <1>4, <1>7, <2>1, <2>2, <3>1, <3>2, <3>3, EvidenceNames DEF AttemptSound, Lasts
    <3>4. CASE journal[a].state # "absent"
      <4>1. AttemptSound(a)'
        BY <1>1, <1>3, <1>7, <2>1, <2>2, <3>2, <3>4, EvidenceNames DEF AttemptSound
      <4>. QED  BY <1>1, <1>3, <2>1, <2>2, <3>4, <4>1 DEF Lasts
    <3>. QED  BY <3>3, <3>4
  <2>. QED  BY <2>3, <2>4
<1>9. Logs
  <2>1. Orphans \in SUBSET Attempts /\ \A a \in Orphans : status[Intent(a)] # "none"
    BY DEF Orphans
  <2>. QED  BY <1>2, <2>1, ProofsLogged
<1>10. ASSUME NEW a \in Attempts PROVE Firm(a)
  <2>1. /\ status'[<<a, "callback_conflict">>] = status[<<a, "callback_conflict">>]
        /\ status'[<<a, "delivery_callback_ok">>] = status[<<a, "delivery_callback_ok">>]
        /\ status'[<<a, "sent_callback_ok">>] = status[<<a, "sent_callback_ok">>]
        /\ status'[<<a, "sent_callback_failed">>] = status[<<a, "sent_callback_failed">>]
        /\ a \notin Orphans => status'[Proof(a)] = status[Proof(a)] /\ status'[Intent(a)] = status[Intent(a)]
    BY <1>5, EvidenceNames DEF Intent, Proof, CallEvidence, SentCallback
  <2>2. radio'[a] = radio[a] /\ AttemptSound(a)
    BY <1>2 DEF PhoneInv
  <2>3. CASE journal[a].state = "absent"
    <3>1. a \notin Orphans /\ journal'[a] = journal[a]
      BY <1>4, <2>3 DEF Orphans
    <3>. QED  BY <2>1, <2>2, <3>1 DEF Firm, RowSound, Opened
  <2>4. CASE journal[a].state # "absent"
    <3>1. /\ journal'[a].sent = journal[a].sent /\ journal'[a].delivery = journal[a].delivery
          /\ journal'[a].conflict = journal[a].conflict
          /\ journal'[a].state = Recovered(journal[a].state, late)
      BY <1>3, <2>4
    <3>2. journal[a].state \in AttemptState
      BY <1>1, <2>4, RowExists
    <3>3. CASE journal[a].state \in {"submitting", "radio_started"}
      <4>1. journal'[a].state = "unknown" /\ a \notin Orphans
        BY <3>1, <3>3 DEF Recovered, Orphans
      <4>. QED  BY <2>1, <2>2, <3>1, <3>3, <4>1 DEF Firm, RowSound, Opened
    <3>4. CASE journal[a].state = "reserved"
      <4>1. journal'[a].state = "not_submitted" /\ radio[a] = 0
        BY <2>2, <3>1, <3>4 DEF Recovered, AttemptSound, Uncalled
      <4>2. ASSUME RowSound(a) PROVE RowSound(a)'
        <5>1. ~journal[a].conflict /\ journal[a].sent = "none" /\ journal[a].delivery = "none"
              /\ status[Intent(a)] \in {"pending", "quarantined"} /\ status[Proof(a)] = "none"
              /\ status[<<a, "delivery_callback_ok">>] = "none"
          BY <2>2, <3>4, <4>1, <4>2 DEF RowSound, AttemptSound
        <5>2. CASE status[Intent(a)] = "pending"
          <6>1. a \in Orphans /\ a \in Provable(Orphans)
            BY <3>4, <5>1, <5>2 DEF Orphans, Provable
          <6>2. Proof(a) \in proofs /\ Intent(a) \in intents
            BY <6>1
          <6>3. Intent(a) \notin proofs
            BY DEF Intent, Proof
          <6>4. Proof(a) \in PhoneEvent /\ Intent(a) \in PhoneEvent
            BY EventNames
          <6>. HIDE DEF proofs, intents
          <6>5. status'[Proof(a)] = "pending" /\ status'[Intent(a)] = "acked"
            BY <1>2, <6>2, <6>3, <6>4 DEF Insert, Acknowledge
          <6>. QED  BY <2>1, <3>1, <4>1, <5>1, <6>5 DEF RowSound
        <5>3. CASE status[Intent(a)] = "quarantined"
          <6>1. a \notin Orphans
            BY <5>3 DEF Orphans
          <6>. QED  BY <2>1, <3>1, <4>1, <5>1, <5>3, <6>1 DEF RowSound
        <5>. QED  BY <5>1, <5>2, <5>3
      <4>. QED  BY <4>1, <4>2 DEF Firm, Opened
    <3>5. CASE journal[a].state = "not_submitted"
      <4>1. journal'[a].state = "not_submitted"
        BY <3>1, <3>5 DEF Recovered
      <4>2. ASSUME RowSound(a) PROVE RowSound(a)'
        <5>1. a \notin Orphans
          BY <3>5, <4>2 DEF Orphans, RowSound
        <5>. QED  BY <2>1, <2>2, <3>1, <3>5, <4>1, <4>2, <5>1 DEF RowSound
      <4>. QED  BY <4>1, <4>2 DEF Firm, Opened
    <3>6. CASE journal[a].state \notin {"submitting", "radio_started", "reserved", "not_submitted"}
      <4>1. /\ a \notin Orphans
            /\ \/ journal'[a].state = journal[a].state
               \/ journal[a].state = "submitted" /\ journal'[a].state = "delivery_unknown"
        BY <3>1, <3>6 DEF Recovered, Orphans
      <4>. QED  BY <2>1, <2>2, <2>4, <3>1, <3>6, <4>1 DEF Firm, RowSound, Opened
    <3>. QED  BY <3>3, <3>4, <3>5, <3>6
  <2>. QED  BY <2>3, <2>4
<1>. QED  BY <1>6, <1>8, <1>9, <1>10 DEF Kept

LEMMA ToSetParts ==
  ASSUME NEW S, NEW s \in Seq(S), NEW t \in Seq(S), NEW x \in ToSet(s \o t)
  PROVE  x \in ToSet(s) \/ x \in ToSet(t)
<1>1. PICK i \in 1..Len(s \o t) : x = (s \o t)[i]
  BY DEF ToSet
<1>2. CASE i <= Len(s)
  BY <1>1, <1>2 DEF ToSet
<1>3. CASE i > Len(s)
  BY <1>1, <1>3 DEF ToSet
<1>. QED  BY <1>2, <1>3

LEMMA ToSetConcat ==
  ASSUME NEW S, NEW s \in Seq(S), NEW t \in Seq(S)
  PROVE  ToSet(s \o t) = ToSet(s) \union ToSet(t)
<1>1. ASSUME NEW x \in ToSet(s) PROVE x \in ToSet(s \o t)
  <2>1. PICK i \in 1..Len(s) : x = s[i]
    BY <1>1 DEF ToSet
  <2>2. i \in 1..Len(s \o t) /\ (s \o t)[i] = x
    BY <2>1
  <2>. QED  BY <2>2 DEF ToSet
<1>2. ASSUME NEW x \in ToSet(t) PROVE x \in ToSet(s \o t)
  <2>1. PICK i \in 1..Len(t) : x = t[i]
    BY <1>2 DEF ToSet
  <2>2. Len(s) + i \in 1..Len(s \o t) /\ (s \o t)[Len(s) + i] = x
    BY <2>1
  <2>. QED  BY <2>2 DEF ToSet
<1>. QED  BY <1>1, <1>2, ToSetParts

\* What the evidence columns make of a row whose radio was asked.
LEMMA FromEvidenceRange ==
  ASSUME NEW prior \in AttemptState \ Uncalled, NEW sent \in {"none", "ok", "failed"}, NEW delivery
  PROVE  /\ FromEvidence(prior, sent, delivery) \in AttemptState \ Uncalled
         /\ FromEvidence(prior, sent, delivery) = "delivered" =>
              sent # "none" /\ delivery = "received"
BY DEF FromEvidence, AttemptState, Uncalled

\* The row that a callback leaves behind; j holds the result.
LEMMA StoredKept ==
  ASSUME PhoneInv, NEW b \in Attempts, radio[b] > 0, NEW j \in JournalRow, NEW isSent \in BOOLEAN,
         StoreCallback(b, j, isSent), UNCHANGED <<radio, sender>>,
         j.state = journal[b].state, j.message = journal[b].message, j.conflict = journal[b].conflict,
         isSent => /\ journal[b].sent = "none" /\ j.sent # "none" /\ j.delivery = journal[b].delivery,
         ~isSent => /\ journal[b].delivery \in {"none", "unverified"} /\ j.sent = journal[b].sent
  PROVE  Kept
<1>1. /\ journal \in [Attempts -> JournalRow \union {NoRow}]
      /\ status \in [PhoneEvent -> {"none", "pending", "acked", "quarantined"}]
      /\ radio \in [Attempts -> Nat] /\ AttemptSound(b)
  BY DEF PhoneInv, JournalShape
<1>2. journal[b].state \in AttemptState \ Uncalled
  <2>1. journal[b].state \notin Uncalled
    BY <1>1 DEF AttemptSound
  <2>. QED  BY <1>1, <2>1, RowExists DEF Uncalled
<1>. DEFINE next == IF j.conflict THEN "unknown" ELSE FromEvidence(j.state, j.sent, j.delivery)
            sent == IF isSent /\ ~j.conflict
                    THEN <<<<b, IF j.sent = "ok" THEN "sent_callback_ok" ELSE "sent_callback_failed">>>>
                    ELSE <<>>
            delivered == IF next = "delivered" /\ j.state # "delivered"
                         THEN <<<<b, "delivery_callback_ok">>>> ELSE <<>>
            row == [j EXCEPT !.state = next]
            new == ToSet(sent \o delivered)
<1>3. /\ journal' = [journal EXCEPT ![b] = row]
      /\ status' = Insert(status, new)
      /\ log' = log \o sent \o delivered
  BY DEF StoreCallback
<1>4. j.sent \in {"none", "ok", "failed"} /\ j.conflict \in BOOLEAN
  BY DEF JournalRow
<1>5. /\ next \in AttemptState \ Uncalled
      /\ next = "delivered" => j.sent # "none" /\ j.delivery = "received"
  BY <1>2, <1>4, FromEvidenceRange DEF AttemptState, Uncalled
<1>6. \A x \in new : /\ x = <<b, "delivery_callback_ok">> =>
                          j.sent # "none" /\ j.delivery = "received"
                     /\ x \in {<<b, "sent_callback_ok">>, <<b, "sent_callback_failed">>} => isSent
                     /\ x \in {<<b, "delivery_callback_ok">>, <<b, "sent_callback_ok">>,
                               <<b, "sent_callback_failed">>}
  <2>. SUFFICES ASSUME NEW x \in new
                PROVE  \/ x = <<b, "delivery_callback_ok">> /\ j.sent # "none" /\ j.delivery = "received"
                       \/ x \in {<<b, "sent_callback_ok">>, <<b, "sent_callback_failed">>} /\ isSent
    OBVIOUS
  <2>1. sent \in Seq(PhoneEvent) /\ delivered \in Seq(PhoneEvent)
    BY EventNames, EvidenceNames DEF SentCallback
  <2>2. x \in ToSet(sent) => x \in {<<b, "sent_callback_ok">>, <<b, "sent_callback_failed">>} /\ isSent
    BY DEF ToSet
  <2>3. x \in ToSet(delivered) => x = <<b, "delivery_callback_ok">> /\ next = "delivered"
    BY DEF ToSet
  <2>. HIDE DEF sent, delivered, next
  <2>4. x \in ToSet(sent) \/ x \in ToSet(delivered)
    BY <2>1, ToSetParts
  <2>. QED  BY <1>5, <2>2, <2>3, <2>4
<1>11. /\ next = "delivered" /\ j.state # "delivered" => <<b, "delivery_callback_ok">> \in new
       /\ <<b, "delivery_callback_ok">> \in new => next = "delivered"
       /\ isSent /\ ~j.conflict /\ j.sent = "ok" => <<b, "sent_callback_ok">> \in new
       /\ isSent /\ ~j.conflict /\ j.sent = "failed" => <<b, "sent_callback_failed">> \in new
  <2>1. sent \in Seq(PhoneEvent) /\ delivered \in Seq(PhoneEvent)
    BY EventNames, EvidenceNames DEF SentCallback
  <2>2. /\ isSent /\ ~j.conflict /\ j.sent = "ok" => <<b, "sent_callback_ok">> \in ToSet(sent)
        /\ isSent /\ ~j.conflict /\ j.sent = "failed" => <<b, "sent_callback_failed">> \in ToSet(sent)
        /\ <<b, "delivery_callback_ok">> \notin ToSet(sent)
    BY DEF ToSet
  <2>3. <<b, "delivery_callback_ok">> \in ToSet(delivered) <=> next = "delivered" /\ j.state # "delivered"
    BY DEF ToSet
  <2>. HIDE DEF sent, delivered, next
  <2>4. new = ToSet(sent) \union ToSet(delivered)
    BY <2>1, ToSetConcat
  <2>. HIDE DEF new
  <2>. QED  BY <2>2, <2>3, <2>4
<1>12. (\A x \in new : status[x] = "none") => Logs
  <2>. SUFFICES ASSUME \A x \in new : status[x] = "none", log \in Seq(PhoneEvent)
                PROVE  sent \o delivered \in Seq(PhoneEvent) /\ Logged(sent \o delivered)
    BY DEF Logs
  <2>1. sent \in Seq(PhoneEvent) /\ delivered \in Seq(PhoneEvent)
    BY EventNames, EvidenceNames DEF SentCallback
  <2>2. IsInjective(sent \o delivered)
    BY DEF IsInjective
  <2>. HIDE DEF sent, delivered
  <2>3. log' = log \o (sent \o delivered) /\ sent \o delivered \in Seq(PhoneEvent)
    BY <1>3, <2>1, ConcatAssociative, ConcatProperties
  <2>4. \A e \in PhoneEvent : status'[e] # "none" <=> status[e] # "none" \/ e \in new
    <3>. HIDE DEF new
    <3>. QED  BY <1>3 DEF Insert
  <2>. QED  BY <2>2, <2>3, <2>4 DEF Logged
<1>. HIDE DEF next, new
<1>7. /\ row \in JournalRow /\ row.state = next /\ row.message = j.message /\ row.sent = j.sent
      /\ row.delivery = j.delivery /\ row.conflict = j.conflict
  BY <1>5, RowWrites
<1>. HIDE DEF row
<1>8. JournalShape'
  BY <1>1, <1>3, <1>7 DEF JournalShape, Insert
<1>9. ASSUME NEW a \in Attempts, NEW ev \in PhoneEvidence
      PROVE  status'[<<a, ev>>] = IF <<a, ev>> \in new THEN "pending" ELSE status[<<a, ev>>]
  BY <1>1, <1>3, EventNames DEF Insert
<1>10. ASSUME NEW a \in Attempts PROVE AttemptSound(a)' /\ Lasts(a)
  <2>1. AttemptSound(a)
    BY DEF PhoneInv
  <2>2. CASE a = b
    <3>1. journal'[a] = row
      BY <1>1, <1>3, <2>2
    <3>2. sender'.attempt # a /\ radio'[a] = radio[a] /\ radio[a] \in {0, 1} /\ radio[a] > 0
      BY <2>1, <2>2 DEF AttemptSound
    <3>3. status[<<a, "delivery_callback_ok">>] = "none"
      BY <2>1, <2>2 DEF AttemptSound
    <3>4. isSent => \A ev \in SentCallback : status[<<a, ev>>] = "none"
      BY <2>1, <2>2 DEF AttemptSound
    <3>5. ~isSent => \A ev \in SentCallback : status'[<<a, ev>>] = status[<<a, ev>>]
      BY <1>6, <1>9, <2>2, EvidenceNames DEF SentCallback
    <3>6. /\ status'[Proof(a)] = status[Proof(a)]
          /\ status'[<<a, "callback_conflict">>] = status[<<a, "callback_conflict">>]
      BY <1>6, <1>9, EvidenceNames DEF Proof
    <3>7. status'[<<a, "delivery_callback_ok">>] # "none" => j.sent # "none" /\ j.delivery = "received"
      BY <1>6, <1>9, <2>2, <3>3, EvidenceNames
    <3>8. \A ev \in PhoneEvidence : status[<<a, ev>>] = "acked" => status'[<<a, ev>>] = "acked"
      <4>1. \A ev \in PhoneEvidence : <<a, ev>> \in new => status[<<a, ev>>] = "none"
        BY <1>6, <3>3, <3>4, <2>2 DEF SentCallback
      <4>. QED  BY <1>9, <4>1
    <3>9. \A ev \in SentCallback : status'[<<a, ev>>] # "none" => j.sent # "none"
      BY <2>1, <2>2, <3>5 DEF AttemptSound
    <3>10. status[Proof(a)] = "none"
      BY <1>2, <2>1, <2>2 DEF AttemptSound, Uncalled
    <3>11. AttemptSound(a)'
      BY <1>5, <1>7, <2>1, <2>2, <3>1, <3>2, <3>6, <3>7, <3>9, <3>10 DEF AttemptSound, Uncalled
    <3>12. /\ journal'[a].state \notin Uncalled /\ journal'[a].message = journal[a].message
           /\ journal[a].state \notin Uncalled
      BY <1>2, <1>5, <1>7, <2>2, <3>1
    <3>. QED  BY <3>2, <3>8, <3>11, <3>12 DEF Lasts, Uncalled
  <2>3. CASE a # b
    <3>1. journal'[a] = journal[a]
      BY <1>1, <1>3, <2>3
    <3>2. \A ev \in PhoneEvidence : status'[<<a, ev>>] = status[<<a, ev>>]
      BY <1>6, <1>9, <2>3
    <3>3. status'[Intent(a)] = status[Intent(a)]
      BY <3>2, EvidenceNames DEF Intent
    <3>. QED  BY <3>1, <3>2, <3>3, AttemptFrame
  <2>. QED  BY <2>2, <2>3
<1>13. /\ status[<<b, "delivery_callback_ok">>] = "none"
       /\ isSent => \A ev \in SentCallback : status[<<b, ev>>] = "none"
  BY <1>1 DEF AttemptSound
<1>14. Logs
  <2>1. \A x \in new : status[x] = "none"
    BY <1>6, <1>13 DEF SentCallback
  <2>. QED  BY <1>12, <2>1
<1>15. ASSUME NEW a \in Attempts PROVE Firm(a)
  <2>1. CASE a = b
    <3>1. journal'[a] = row /\ radio'[a] > 0
      BY <1>1, <1>3, <2>1
    <3>2. ~Opened(a)'
      BY <3>1 DEF Opened
    <3>3. /\ status'[Proof(a)] = status[Proof(a)] /\ status'[Intent(a)] = status[Intent(a)]
          /\ status'[<<a, "callback_conflict">>] = status[<<a, "callback_conflict">>]
      BY <1>6, <1>9, EvidenceNames DEF Proof, Intent
    <3>4. /\ status'[<<a, "delivery_callback_ok">>] # "none" <=> <<b, "delivery_callback_ok">> \in new
          /\ status[<<a, "sent_callback_ok">>] # "none" \/ <<b, "sent_callback_ok">> \in new =>
               status'[<<a, "sent_callback_ok">>] # "none"
          /\ status[<<a, "sent_callback_failed">>] # "none" \/ <<b, "sent_callback_failed">> \in new =>
               status'[<<a, "sent_callback_failed">>] # "none"
      BY <1>9, <1>13, <2>1, EvidenceNames DEF SentCallback
    <3>5. ASSUME RowSound(a) PROVE RowSound(a)'
      <4>1. /\ row.state = next /\ row.sent = j.sent /\ row.conflict = j.conflict
            /\ next \notin {"absent", "reserved", "not_submitted"}
            /\ journal[a].state \notin {"absent", "reserved", "not_submitted"}
        BY <1>2, <1>5, <1>7, <2>1 DEF Uncalled
      <4>2. j.conflict => next = "unknown"
        BY DEF next
      <4>3. ~j.conflict => next = FromEvidence(j.state, j.sent, j.delivery)
        BY DEF next
      <4>4. /\ next = "failed" => j.sent = "failed"
            /\ next \in {"submitted", "delivered", "delivery_failed", "delivery_unknown"} => j.sent = "ok"
        BY <1>4, <4>1, <4>2, <4>3, <2>1 DEF FromEvidence
      <4>5. next = "delivered" => status'[<<a, "delivery_callback_ok">>] # "none"
        <5>1. j.state = "delivered" => status[<<a, "delivery_callback_ok">>] # "none"
          BY <2>1, <3>5 DEF RowSound
        <5>. QED  BY <1>11, <1>13, <2>1, <3>4, <5>1
      <4>6. ~j.conflict => /\ j.sent = "ok" => status'[<<a, "sent_callback_ok">>] # "none"
                           /\ j.sent = "failed" => status'[<<a, "sent_callback_failed">>] # "none"
        <5>1. CASE isSent
          BY <1>11, <3>4, <5>1
        <5>2. CASE ~isSent
          <6>1. j.sent = journal[a].sent /\ j.conflict = journal[a].conflict
            BY <2>1, <5>2
          <6>2. ~journal[a].conflict =>
                  /\ journal[a].sent = "ok" => status[<<a, "sent_callback_ok">>] # "none"
                  /\ journal[a].sent = "failed" => status[<<a, "sent_callback_failed">>] # "none"
            BY <3>5 DEF RowSound
          <6>. QED  BY <3>4, <6>1, <6>2
        <5>. QED  BY <5>1, <5>2
      <4>7. j.conflict => status'[<<a, "callback_conflict">>] # "none"
        BY <2>1, <3>3, <3>5 DEF RowSound
      <4>8. status'[Intent(a)] # "none"
        BY <3>3, <3>5, <4>1 DEF RowSound
      <4>. QED  BY <1>11, <3>1, <3>4, <4>1, <4>2, <4>4, <4>5, <4>6, <4>7, <4>8 DEF RowSound
    <3>. QED  BY <3>2, <3>5 DEF Firm
  <2>2. CASE a # b
    <3>1. journal'[a] = journal[a] /\ radio'[a] = radio[a]
      BY <1>1, <1>3, <2>2
    <3>2. \A ev \in PhoneEvidence : status'[<<a, ev>>] = status[<<a, ev>>]
      BY <1>6, <1>9, <2>2
    <3>. QED  BY <3>1, <3>2, FirmFrame
  <2>. QED  BY <2>1, <2>2
<1>. QED  BY <1>8, <1>10, <1>14, <1>15 DEF Kept

\* A callback that contradicts the row, of a call that was made.
LEMMA ConflictKept ==
  ASSUME PhoneInv, NEW b \in Attempts, radio[b] > 0, RecordConflict(b, journal[b]),
         UNCHANGED <<radio, sender>>
  PROVE  Kept
<1>1. /\ journal \in [Attempts -> JournalRow \union {NoRow}]
      /\ status \in [PhoneEvent -> {"none", "pending", "acked", "quarantined"}]
      /\ radio \in [Attempts -> Nat] /\ AttemptSound(b)
  BY DEF PhoneInv, JournalShape
<1>2. journal[b].state \notin Uncalled /\ journal[b] \in JournalRow
  <2>1. journal[b].state \notin Uncalled
    BY <1>1 DEF AttemptSound
  <2>. QED  BY <1>1, <2>1, RowExists DEF Uncalled
<1>3. CASE journal[b].conflict
  <2>1. journal' = [journal EXCEPT ![b] = journal[b]] /\ UNCHANGED <<status, log>>
    BY <1>3 DEF RecordConflict
  <2>2. journal' = journal
    BY <1>1, <2>1
  <2>3. JournalShape'
    BY <1>1, <2>1, <2>2 DEF JournalShape
  <2>4. ASSUME NEW a \in Attempts PROVE AttemptSound(a)' /\ Lasts(a)
    BY <2>1, <2>2, AttemptFrame
  <2>5. ASSUME NEW a \in Attempts PROVE Firm(a)
    BY <2>1, <2>2, FirmFrame
  <2>. QED  BY <2>1, <2>3, <2>4, <2>5, NoneLogged DEF Kept
<1>4. CASE ~journal[b].conflict
  <2>. DEFINE row == [journal[b] EXCEPT !.state = "unknown", !.conflict = TRUE]
  <2>3. status[Proof(b)] = "none"
    BY <1>1, <1>2 DEF AttemptSound, Uncalled
  <2>1. /\ journal' = [journal EXCEPT ![b] = row]
        /\ status' = Insert(status, {<<b, "callback_conflict">>})
        /\ log' = Append(log, <<b, "callback_conflict">>)
    BY <1>4, <2>3 DEF RecordConflict
  <2>2. /\ row \in JournalRow /\ row.state = "unknown" /\ row.message = journal[b].message
        /\ row.sent = journal[b].sent /\ row.delivery = journal[b].delivery /\ row.conflict
    BY <1>2 DEF JournalRow, AttemptState
  <2>. HIDE DEF row
  <2>5. status' = Insert(status, {<<b, "callback_conflict">>})
    BY <2>1
  <2>6. JournalShape'
    BY <1>1, <2>1, <2>2, <2>5 DEF JournalShape, Insert
  <2>7. ASSUME NEW a \in Attempts, NEW ev \in PhoneEvidence
        PROVE  status'[<<a, ev>>] = IF a = b /\ ev = "callback_conflict" THEN "pending"
                                    ELSE status[<<a, ev>>]
    BY <1>1, <2>5, EventNames DEF Insert
  <2>8. ASSUME NEW a \in Attempts PROVE AttemptSound(a)' /\ Lasts(a)
    <3>1. AttemptSound(a)
      BY DEF PhoneInv
    <3>2. CASE a = b
      <4>1. journal'[a] = row
        BY <1>1, <2>1, <3>2
      <4>2. sender'.attempt # a /\ radio'[a] = radio[a] /\ radio[a] \in {0, 1} /\ radio[a] > 0
        BY <3>1, <3>2 DEF AttemptSound
      <4>3. status[<<a, "callback_conflict">>] = "none"
        BY <1>4, <3>1, <3>2 DEF AttemptSound
      <4>4. /\ status'[Proof(a)] = "none"
            /\ \A ev \in SentCallback \union {"delivery_callback_ok"} :
                 status'[<<a, ev>>] = status[<<a, ev>>]
        BY <2>3, <2>7, <3>2, EvidenceNames DEF Proof, SentCallback
      <4>5. \A ev \in PhoneEvidence : status[<<a, ev>>] = "acked" => status'[<<a, ev>>] = "acked"
        BY <2>7, <4>3
      <4>6. AttemptSound(a)'
        BY <2>2, <3>1, <3>2, <4>1, <4>2, <4>4 DEF AttemptSound, Uncalled
      <4>7. /\ journal[a].state \notin Uncalled /\ journal'[a].state = "unknown"
            /\ journal'[a].message = journal[a].message
        BY <1>2, <2>2, <3>2, <4>1
      <4>. QED  BY <4>2, <4>5, <4>6, <4>7 DEF Lasts, Uncalled
    <3>3. CASE a # b
      <4>1. journal'[a] = journal[a]
        BY <1>1, <2>1, <3>3
      <4>2. \A ev \in PhoneEvidence : status'[<<a, ev>>] = status[<<a, ev>>]
        BY <2>7, <3>3
      <4>3. status'[Intent(a)] = status[Intent(a)]
        BY <4>2, EvidenceNames DEF Intent
      <4>. QED  BY <4>1, <4>2, <4>3, AttemptFrame
    <3>. QED  BY <3>2, <3>3
  <2>9. Logs
    <3>1. <<b, "callback_conflict">> \in PhoneEvent
      BY EventNames, EvidenceNames
    <3>2. status[<<b, "callback_conflict">>] = "none"
      BY <1>1, <1>4 DEF AttemptSound
    <3>. QED  BY <2>1, <3>1, <3>2, OneLogged
  <2>10. ASSUME NEW a \in Attempts PROVE Firm(a)
    <3>1. CASE a = b
      <4>1. journal'[a] = row /\ radio'[a] > 0
        BY <1>1, <2>1, <3>1
      <4>2. /\ status'[<<a, "callback_conflict">>] # "none" /\ status'[Intent(a)] = status[Intent(a)]
        BY <2>7, <3>1, EvidenceNames DEF Intent
      <4>3. journal[a].state # "absent"
        BY <1>2, <3>1 DEF Uncalled
      <4>. QED  BY <2>2, <4>1, <4>2, <4>3 DEF Firm, RowSound, Opened
    <3>2. CASE a # b
      <4>1. journal'[a] = journal[a] /\ radio'[a] = radio[a]
        BY <1>1, <2>1, <3>2
      <4>2. \A ev \in PhoneEvidence : status'[<<a, ev>>] = status[<<a, ev>>]
        BY <2>7, <3>2
      <4>. QED  BY <4>1, <4>2, FirmFrame
    <3>. QED  BY <3>1, <3>2
  <2>. QED  BY <2>6, <2>8, <2>9, <2>10 DEF Kept
<1>. QED  BY <1>3, <1>4

\* The platform reports on a call that was made.
LEMMA CallbackKept ==
  ASSUME PhoneInv, NEW b \in Attempts, radio[b] > 0, NEW isSent \in BOOLEAN, NEW result,
         isSent => result \in {"ok", "failed"},
         ~isSent => result \in {"unverified", "received", "failed"},
         RecordCallback(b, isSent, result), UNCHANGED sender
  PROVE  Kept
<1>1. /\ journal \in [Attempts -> JournalRow \union {NoRow}] /\ AttemptSound(b)
  BY DEF PhoneInv, JournalShape
<1>2. journal[b].state \notin Uncalled /\ journal[b] \in JournalRow
  <2>1. journal[b].state \notin Uncalled
    BY <1>1 DEF AttemptSound
  <2>. QED  BY <1>1, <2>1, RowExists DEF Uncalled
<1>3. UNCHANGED radio
  BY DEF RecordCallback
<1>. DEFINE stored == IF isSent THEN [journal[b] EXCEPT !.sent = result]
                                ELSE [journal[b] EXCEPT !.delivery = result]
            decision == IF isSent THEN SentDecision(journal[b].sent, result)
                                  ELSE DeliveryDecision(journal[b].delivery, result)
<1>4. \/ decision = "store" /\ StoreCallback(b, stored, isSent)
      \/ RecordConflict(b, journal[b])
  <2>1. journal[b].state \notin {"not_submitted", "reserved"}
    BY <1>2 DEF Uncalled
  <2>. QED  BY <2>1 DEF RecordCallback
<1>5. CASE decision = "store" /\ StoreCallback(b, stored, isSent)
  <2>1. /\ stored \in JournalRow /\ stored.state = journal[b].state
        /\ stored.message = journal[b].message /\ stored.conflict = journal[b].conflict
        /\ isSent => stored.sent = result /\ stored.delivery = journal[b].delivery
        /\ ~isSent => stored.sent = journal[b].sent
    BY <1>2 DEF JournalRow
  <2>2. isSent => journal[b].sent = "none"
    BY <1>5 DEF SentDecision
  <2>3. ~isSent => journal[b].delivery \in {"none", "unverified"}
    BY <1>5 DEF DeliveryDecision
  <2>4. StoreCallback(b, stored, isSent)
    BY <1>5
  <2>. HIDE DEF stored, decision
  <2>. QED  BY <1>3, <2>1, <2>2, <2>3, <2>4, StoredKept
<1>6. CASE RecordConflict(b, journal[b])
  BY <1>3, <1>6, ConflictKept
<1>. QED  BY <1>4, <1>5, <1>6

-----------------------------------------------------------------------------
(***************************************************************************)
(* One attempt under the steps of phone and hub.                           *)
(***************************************************************************)

\* An attempt leaves the states in which the radio was not asked only on the hub's
\* acknowledgement of its intent; a row is written only for the grant the phone holds.
Entered ==
  \A a \in Attempts :
    /\ journal[a].state \in Uncalled /\ journal'[a].state \notin Uncalled =>
         journal[a].state # "absent" /\ Known(Intent(a))
    /\ journal[a].state = "absent" /\ journal'[a].state # "absent" =>
         /\ ReserveGrant /\ phone.grant # NoGrant /\ a = phone.grant.attempt
         /\ journal'[a].message = phone.grant.message

LEMMA SameEntered ==
  ASSUME UNCHANGED journal
  PROVE  Entered
BY DEF Entered

\* The first frame, the sender and the grant have the types of their tables.
LEMMA LinkTypes ==
  ASSUME LinkInv
  PROVE  /\ sender = IdleSend \/ (sender.attempt \in Attempts /\ sender.pc \in {"queued", "consumed"})
         /\ phone.grant # NoGrant => phone.grant.attempt \in Attempts /\ phone.grant.message \in Messages
         /\ phone.grant.attempt \in Attempts => phone.grant # NoGrant
         /\ phone.awaiting \in PhoneEvent \union {NoEvent}
         /\ phone.conn \in 0..MaxEpoch
         /\ down \in Seq(Frame)
         /\ \A i \in 1..Len(down) : /\ down[i] \in Frame
                                    /\ down[i].type \in {"grant", "ack", "close"}
                                    /\ down[i].type = "grant" => down[i].attempt \in Attempts /\ down[i].message \in Messages
                                    /\ down[i].type = "ack" => down[i].event \in PhoneEvent /\ down[i].permitted \in BOOLEAN
<1>1. sender = IdleSend \/ (sender.attempt \in Attempts /\ sender.pc \in {"queued", "consumed"})
  BY DEF LinkInv, SendInv, ServiceInv, PhoneRow, GrantRow, SendRow
<1>2. /\ phone.awaiting \in PhoneEvent \union {NoEvent} /\ phone.conn \in 0..MaxEpoch
      /\ phone.grant # NoGrant => phone.grant.attempt \in Attempts /\ phone.grant.message \in Messages
  BY DEF LinkInv, SendInv, ServiceInv, PhoneRow, GrantRow, SendRow
<1>3. phone.grant.attempt \in Attempts => phone.grant # NoGrant
  BY StoreAssumption DEF NoGrant
<1>4. down \in Seq(Frame)
  BY DEF LinkInv, DownInv
<1>5. ASSUME NEW f \in Frame
      PROVE  /\ f.type \in {"grant", "ack", "close"}
             /\ f.type = "grant" => f.attempt \in Attempts /\ f.message \in Messages
             /\ f.type = "ack" => f.event \in PhoneEvent /\ f.permitted \in BOOLEAN
  BY DEF Frame
<1>6. \A i \in 1..Len(down) : down[i] \in Frame
  BY <1>4
<1>. QED  BY <1>1, <1>2, <1>3, <1>4, <1>5, <1>6

\* handleAlphaAck, from the frame to the journal.
LEMMA AckKept ==
  ASSUME PhoneInv, LinkInv, PhoneAck
  PROVE  Kept /\ Entered
<1>. DEFINE e == Head(down).event
            a == e[1]
            permitted == Head(down).permitted /\ phone.grant.attempt = a /\ phone.grant.live
            authorized == e = Intent(a) /\ permitted /\ journal[a].state = "reserved"
<1>1. /\ e \in PhoneEvent /\ a \in Attempts /\ Known(e) /\ Head(down) = down[1]
  <2>1. down # <<>> /\ Head(down).type = "ack"
    BY DEF PhoneAck
  <2>2. 1 \in 1..Len(down) /\ Head(down) = down[1] /\ 1 \in DOMAIN down
    BY <2>1, LinkTypes
  <2>3. down[1].event \in PhoneEvent /\ Known(down[1].event)
    BY <2>1, <2>2, LinkTypes DEF LinkInv, DownInv, FrameSound
  <2>. QED  BY <2>2, <2>3, EventNames
<1>2. \/ UNCHANGED <<journalVars, sender>>
      \/ /\ e = phone.awaiting /\ AckExpected(e)
         /\ IF e = Intent(a) THEN AcknowledgeIntent(a, permitted) ELSE AcknowledgeEvent(e)
         /\ sender' = IF authorized THEN [pc |-> "queued", attempt |-> a,
                                          epoch |-> phone.conn, prior |-> phone.grant.prior]
                      ELSE sender
  BY Zenon DEF PhoneAck
<1>. HIDE DEF e, a, permitted, authorized
<1>3. ASSUME UNCHANGED <<journalVars, sender>> PROVE Kept /\ Entered
  BY <1>3, UntouchedKept, SameEntered DEF journalVars
<1>4. ASSUME e = phone.awaiting, AckExpected(e), e # Intent(a), AcknowledgeEvent(e), sender' = sender
      PROVE  Kept /\ Entered
  <2>1. status[e] = "pending"
    BY <1>4 DEF AckExpected
  <2>2. Kept
    BY <1>1, <1>4, <2>1, SettleKept DEF a
  <2>. QED  BY <1>4, <2>2, SameEntered DEF AcknowledgeEvent
<1>5. ASSUME e = phone.awaiting, AckExpected(e), e = Intent(a), authorized,
             AcknowledgeIntent(a, permitted),
             sender' = [pc |-> "queued", attempt |-> a,
                        epoch |-> phone.conn, prior |-> phone.grant.prior]
      PROVE  Kept /\ Entered
  <2>1. /\ journal[a].state = "reserved" /\ permitted
        /\ journal' = [journal EXCEPT ![a].state = "submitting"]
        /\ status' = Acknowledge(status, {Intent(a)}) /\ radio' = radio /\ log' = log
        /\ status[Intent(a)] # "none"
    BY <1>5 DEF AcknowledgeIntent, authorized, AckExpected
  <2>2. sender'.pc = "queued" /\ sender'.attempt = a
    BY <1>5
  <2>3. Kept
    BY <1>1, <2>1, <2>2, PermitKept
  <2>4. \A b \in Attempts : b # a => journal'[b] = journal[b]
    BY <2>1 DEF PhoneInv, JournalShape
  <2>5. Entered
    BY <1>1, <1>5, <2>1, <2>4 DEF Entered
  <2>. QED  BY <2>3, <2>5
<1>6. ASSUME e = phone.awaiting, AckExpected(e), e = Intent(a), ~authorized, AcknowledgeIntent(a, permitted), sender' = sender
      PROVE  Kept /\ Entered
  <2>. DEFINE as == { b \in {a} : journal[b].state \in {"reserved", "not_submitted"} }
  <2>1. ProveNoRadio(as, {a})
    BY <1>6 DEF AcknowledgeIntent, authorized
  <2>2. status[Intent(a)] = "pending"
    BY <1>6 DEF AckExpected
  <2>3. AttemptSound(a)
    BY <1>1 DEF PhoneInv
  <2>4. journal[a].state # "absent"
    BY <2>2, <2>3, EvidenceNames DEF AttemptSound, Intent
  <2>5. \A b \in as : b = a /\ journal[b].state # "absent" /\ radio[b] = 0 /\ sender'.attempt # b
    BY <1>1, <1>6, <2>2, <2>3, <2>4 DEF AttemptSound, Uncalled
  <2>6. as \in SUBSET Attempts /\ {a} \in SUBSET Attempts
    BY <1>1
  <2>. HIDE DEF as
  <2>7. Kept
    <3>1. /\ \A b \in {a} : journal[b].state # "absent" /\ status[Intent(b)] # "none"
          /\ \A b \in as : b \in {a} \/ status[Intent(b)] = "acked"
      BY <2>2, <2>4, <2>5
    <3>2. \A b \in {a} \ as : journal[b].state \notin {"reserved", "not_submitted"}
      BY DEF as
    <3>. QED  BY <1>6, <2>1, <2>5, <2>6, <3>1, <3>2, RefusalKept
  <2>8. Entered
    <3>1. journal' = [b \in Attempts |->
                       IF b \in as THEN [journal[b] EXCEPT !.state = "not_submitted"]
                                   ELSE journal[b]]
      BY <2>1 DEF ProveNoRadio
    <3>2. \A b \in as : [journal[b] EXCEPT !.state = "not_submitted"].state = "not_submitted"
      <4>1. \A b \in as : journal[b] \in JournalRow
        BY <2>5, <2>6, RowExists DEF PhoneInv, JournalShape
      <4>. QED  BY <4>1 DEF JournalRow
    <3>. QED  BY <2>5, <3>1, <3>2 DEF Entered, Uncalled
  <2>. QED  BY <2>7, <2>8
<1>7. CASE authorized
  BY <1>2, <1>3, <1>5, <1>7 DEF authorized
<1>8. CASE ~authorized
  BY <1>2, <1>3, <1>4, <1>6, <1>8
<1>. QED  BY <1>7, <1>8


\* A refusal settles attempts the radio was not asked for.
LEMMA RefusalEntered ==
  ASSUME PhoneInv, NEW as \in SUBSET Attempts, NEW acks, ProveNoRadio(as, acks),
         \A a \in as : journal[a].state # "absent"
  PROVE  Entered
<1>1. journal' = [b \in Attempts |->
                   IF b \in as THEN [journal[b] EXCEPT !.state = "not_submitted"]
                               ELSE journal[b]]
  BY DEF ProveNoRadio
<1>2. \A b \in as : journal[b] \in JournalRow
  BY RowExists DEF PhoneInv, JournalShape
<1>3. \A b \in as : [journal[b] EXCEPT !.state = "not_submitted"].state = "not_submitted"
  BY <1>2 DEF JournalRow
<1>. QED  BY <1>1, <1>3 DEF Entered, Uncalled

\* A row whose attempt is past the gate, and no other, is written.
LEMMA PastEntered ==
  ASSUME JournalShape, NEW b \in Attempts, journal[b].state \notin Uncalled,
         \A a \in Attempts : a # b => journal'[a] = journal[a]
  PROVE  Entered
BY DEF Entered, Uncalled

LEMMA ReserveEntered ==
  ASSUME JournalShape, ReserveGrant, phone.grant # NoGrant, phone.grant.attempt \in Attempts,
         Reserve(phone.grant.attempt, phone.grant.message)
  PROVE  Entered
<1>. DEFINE b == phone.grant.attempt
            row == [NoRow EXCEPT !.state = "reserved", !.message = phone.grant.message]
<1>1. journal' = [journal EXCEPT ![b] = row] /\ journal \in [Attempts -> JournalRow \union {NoRow}]
  BY DEF Reserve, JournalShape
<1>2. row.state = "reserved" /\ row.message = phone.grant.message
  BY DEF NoRow
<1>. HIDE DEF row
<1>. QED  BY <1>1, <1>2 DEF Entered, Uncalled

LEMMA RecoverEntered ==
  ASSUME JournalShape, NEW late \in BOOLEAN, RecoverJournal(late)
  PROVE  Entered
<1>1. journal' = [a \in Attempts |-> [journal[a] EXCEPT !.state = Recovered(journal[a].state, late)]]
  BY DEF RecoverJournal
<1>2. ASSUME NEW a \in Attempts, journal[a].state \in Uncalled
      PROVE  /\ journal'[a].state \in Uncalled
             /\ journal[a].state = "absent" => journal'[a].state = "absent"
  <2>1. /\ Recovered(journal[a].state, late) \in Uncalled
        /\ journal[a].state = "absent" => Recovered(journal[a].state, late) = "absent"
    BY <1>2 DEF Recovered, Uncalled
  <2>2. \A s : [journal[a] EXCEPT !.state = s].state = s
    BY DEF JournalShape, JournalRow, NoRow
  <2>. QED  BY <1>1, <2>1, <2>2
<1>. QED  BY <1>2 DEF Entered, Uncalled

\* Every step of the phone keeps what its journal says.
LEMMA PhoneStepKept ==
  ASSUME PhoneInv, LinkInv, PhoneStep(Reports)
  PROVE  Kept /\ Entered
<1>. USE DEF phoneVars
<1>1. JournalShape /\ \A a \in Attempts : AttemptSound(a)
  BY DEF PhoneInv
<1>2. ASSUME PhoneGrant \/ GrantLapses \/ PhoneClose PROVE Kept /\ Entered
  <2>1. UNCHANGED <<journalVars, sender>>
    BY <1>2 DEF PhoneGrant, GrantLapses, PhoneClose
  <2>. QED  BY <2>1, UntouchedKept, SameEntered DEF journalVars
<1>3. ASSUME ReserveGrant PROVE Kept /\ Entered
  <2>1. UNCHANGED journalVars \/ Reserve(phone.grant.attempt, phone.grant.message)
    BY <1>3 DEF ReserveGrant
  <2>2. /\ phone.grant # NoGrant /\ phone.grant.attempt \in Attempts
        /\ phone.grant.message \in Messages /\ UNCHANGED sender
    BY <1>3, LinkTypes DEF ReserveGrant
  <2>3. CASE UNCHANGED journalVars
    BY <2>2, <2>3, UntouchedKept, SameEntered DEF journalVars
  <2>4. CASE Reserve(phone.grant.attempt, phone.grant.message)
    BY <1>1, <1>3, <2>2, <2>4, ReserveKept, ReserveEntered
  <2>. QED  BY <2>1, <2>3, <2>4
<1>4. ASSUME Pump PROVE Kept /\ Entered
  <2>1. (UNCHANGED journalVars \/ RetireOrphans) /\ UNCHANGED sender
    BY <1>4 DEF Pump
  <2>2. CASE UNCHANGED journalVars
    BY <2>1, <2>2, UntouchedKept, SameEntered DEF journalVars
  <2>3. CASE RetireOrphans
    <3>1. ProveNoRadio(Orphans, Orphans) /\ Orphans \in SUBSET Attempts
      BY <2>3 DEF RetireOrphans, Orphans
    <3>2. \A a \in Orphans : journal[a].state # "absent" /\ radio[a] = 0 /\ sender'.attempt # a
      BY <1>1, <2>1 DEF Orphans, AttemptSound, Uncalled
    <3>3. \A a \in Orphans : status[Intent(a)] # "none"
      BY DEF Orphans
    <3>. QED  BY <2>1, <3>1, <3>2, <3>3, RefusalKept, RefusalEntered
  <2>. QED  BY <2>1, <2>2, <2>3
<1>5. ASSUME Quarantine PROVE Kept /\ Entered
  <2>1. phone.closing # NoClosing /\ QuarantineEvent(phone.closing.event) /\ UNCHANGED sender
    BY <1>5 DEF Quarantine
  <2>2. phone.closing.event \in PhoneEvent
    BY <2>1 DEF LinkInv, ServiceInv, PhoneRow
  <2>3. Kept
    BY <2>1, <2>2, SettleKept
  <2>. QED  BY <2>1, <2>3, SameEntered DEF QuarantineEvent
<1>6. ASSUME sender.pc # "idle" PROVE sender.attempt \in Attempts /\ AttemptSound(sender.attempt)
  BY <1>1, <1>6, LinkTypes DEF IdleSend
<1>7. ASSUME NEW s, sender.pc # "idle", MarkNoRadio(sender.attempt, s), sender' = IdleSend
      PROVE  Kept /\ Entered
  <2>. DEFINE as == { b \in {sender.attempt} : journal[b].state = s }
  <2>1. ProveNoRadio(as, {}) /\ as \in SUBSET Attempts /\ as \subseteq {sender.attempt}
    BY <1>6, <1>7 DEF MarkNoRadio
  <2>. HIDE DEF as
  <2>2. \A a \in as : journal[a].state # "absent" /\ radio[a] = 0
    BY <1>6, <1>7, <2>1 DEF AttemptSound
  <2>3. \A a \in as : sender'.attempt # a
    BY <1>7, <2>1, StoreAssumption DEF IdleSend
  <2>4. /\ {} \in SUBSET Attempts /\ sender' \in {sender, IdleSend}
        /\ \A a \in {} : journal[a].state # "absent" /\ status[Intent(a)] # "none"
        /\ \A a \in {} \ as : journal[a].state \notin {"reserved", "not_submitted"}
    BY <1>7
  <2>6. \A a \in as : a \in {} \/ status[Intent(a)] = "acked"
    BY <1>6, <1>7, <2>1 DEF AttemptSound
  <2>5. Kept
    BY <2>1, <2>2, <2>3, <2>4, <2>6, RefusalKept
  <2>. QED  BY <2>1, <2>2, <2>5, RefusalEntered
<1>8. ASSUME SendRefused PROVE Kept /\ Entered
  <2>1. /\ sender.pc = "queued" /\ sender' = IdleSend
        /\ MarkNoRadio(sender.attempt, "submitting") \/ UNCHANGED journalVars
    BY <1>8 DEF SendRefused
  <2>2. CASE UNCHANGED journalVars
    BY <2>1, <2>2, UntouchedKept, SameEntered DEF journalVars
  <2>. QED  BY <1>7, <2>1, <2>2
<1>9. ASSUME SendConsumes PROVE Kept /\ Entered
  <2>1. /\ sender.pc = "queued" /\ ConsumeRadioStart(sender.attempt)
        /\ sender' = [sender EXCEPT !.pc = "consumed"]
    BY <1>9 DEF SendConsumes
  <2>2. sender.attempt \in Attempts /\ AttemptSound(sender.attempt)
    BY <1>6, <2>1
  <2>3. sender'.pc = "consumed" /\ sender'.attempt = sender.attempt
    BY <2>1 DEF LinkInv, SendInv, SendRow, IdleSend
  <2>4. Kept
    BY <2>1, <2>2, <2>3, ConsumeKept
  <2>5. journal[sender.attempt].state \notin Uncalled
    BY <2>1 DEF ConsumeRadioStart, Uncalled
  <2>6. \A a \in Attempts : a # sender.attempt => journal'[a] = journal[a]
    BY <1>1, <2>1 DEF ConsumeRadioStart, JournalShape
  <2>. QED  BY <1>1, <2>2, <2>4, <2>5, <2>6, PastEntered
<1>10. ASSUME SendFinishes PROVE Kept /\ Entered
  <2>1. /\ sender.pc = "consumed" /\ sender' = IdleSend
        /\ \/ MarkNoRadio(sender.attempt, "radio_started")
           \/ \E n \in {0, 1}, s \in {"radio_started", "unknown"} : CallRadio(sender.attempt, n, s)
    BY <1>10 DEF SendFinishes
  <2>2. sender.attempt \in Attempts /\ AttemptSound(sender.attempt)
    BY <1>6, <2>1
  <2>3. ASSUME NEW n \in {0, 1}, NEW s \in {"radio_started", "unknown"},
               CallRadio(sender.attempt, n, s)
        PROVE  Kept /\ Entered
    <3>1. Kept
      BY <2>1, <2>2, <2>3, CallKept
    <3>2. journal[sender.attempt].state \notin Uncalled
      BY <2>1, <2>2 DEF AttemptSound, Uncalled
    <3>3. \A a \in Attempts : a # sender.attempt => journal'[a] = journal[a]
      BY <1>1, <2>3 DEF CallRadio, JournalShape
    <3>. QED  BY <1>1, <2>2, <3>1, <3>2, <3>3, PastEntered
  <2>. QED  BY <1>7, <2>1, <2>3
<1>11. ASSUME NEW a \in Attempts, Stall(a) PROVE Kept /\ Entered
  <2>1. /\ radio[a] > 0 \/ journal[a].state = "radio_started"
        /\ sender.pc # "consumed" /\ MarkStalled(a) /\ UNCHANGED sender
    BY <1>11 DEF Stall, JournalFree
  <2>5. sender.attempt # a
    <3>. SUFFICES ASSUME sender.attempt = a PROVE FALSE
      OBVIOUS
    <3>1. sender.pc = "queued"
      BY <2>1, StoreAssumption DEF LinkInv, SendInv, SendRow, IdleSend
    <3>2. AttemptSound(a)
      BY <1>1
    <3>3. radio[a] = 0 /\ journal[a].state = "submitting"
      BY <3>1, <3>2 DEF AttemptSound
    <3>. QED  BY <2>1, <3>3
  <2>2. Kept
    BY <1>1, <2>1, <2>5, StallKept
  <2>3. journal[a].state \notin Uncalled
    BY <2>1 DEF MarkStalled, Uncalled
  <2>4. \A b \in Attempts : b # a => journal'[b] = journal[b]
    BY <1>1, <2>1 DEF MarkStalled, JournalShape
  <2>. QED  BY <1>1, <2>2, <2>3, <2>4, PastEntered
<1>12. ASSUME NEW a \in Attempts, NEW r \in Reports, Callback(a, r) PROVE Kept /\ Entered
  <2>1. radio[a] > 0 /\ RecordCallback(a, r[1] = "sent", r[2]) /\ UNCHANGED sender
    BY <1>12 DEF Callback
  <2>2. /\ (r[1] = "sent") \in BOOLEAN
        /\ (r[1] = "sent") => r[2] \in {"ok", "failed"}
        /\ ~(r[1] = "sent") => r[2] \in {"unverified", "received", "failed"}
    BY GatewayAssumption
  <2>3. Kept
    BY <2>1, <2>2, CallbackKept
  <2>4. journal[a].state \notin Uncalled
    <3>1. (journal[a].state \in Uncalled => radio[a] = 0) /\ radio[a] > 0
      BY <1>1, <2>1, Zenon DEF AttemptSound
    <3>. QED  BY <3>1
  <2>5. \E k : journal' = [journal EXCEPT ![a] = k]
    <3>1. ASSUME NEW j, RecordConflict(a, j) PROVE \E k : journal' = [journal EXCEPT ![a] = k]
      BY <3>1 DEF RecordConflict
    <3>2. ASSUME NEW j, NEW isSent, StoreCallback(a, j, isSent)
          PROVE  \E k : journal' = [journal EXCEPT ![a] = k]
      BY <3>2 DEF StoreCallback
    <3>3. (\E j : RecordConflict(a, j)) \/ (\E j, isSent : StoreCallback(a, j, isSent))
      BY <2>1, Zenon DEF RecordCallback
    <3>. QED  BY <3>1, <3>2, <3>3
  <2>6. \A b \in Attempts : b # a => journal'[b] = journal[b]
    BY <1>1, <2>5 DEF JournalShape
  <2>. QED  BY <1>1, <2>3, <2>4, <2>6, PastEntered
<1>. QED
  BY <1>2, <1>3, <1>4, <1>5, <1>8, <1>9, <1>10, <1>11, <1>12, AckKept DEF PhoneStep

\* ... and so does every other step.
LEMMA GatewayKept ==
  ASSUME PhoneInv, LinkInv, [GatewayNext]_vars
  PROVE  Kept /\ Entered
<1>. USE DEF phoneVars, hubVars
<1>1. ASSUME NEW e \in Epochs, Server(e) PROVE Kept /\ Entered
  <2>1. UNCHANGED <<journalVars, sender>>
    BY <1>1 DEF Server, ServerReceive, ServerRecord, ServerRefuse, ServerAnswer, ServerClaim,
                ServerGrant, ServerConfirm, ServerGiveUp, ServerRelease, ServerDies
  <2>. QED  BY <2>1, UntouchedKept, SameEntered DEF journalVars
<1>2. ASSUME OwnerStep \/ Others \/ Start \/ Reconnect \/ Disconnect \/ UNCHANGED vars
      PROVE  Kept /\ Entered
  <2>1. UNCHANGED <<journalVars, sender>>
    BY <1>2 DEF OwnerStep, ApprovalLapses, Approve, Others, Start, Reconnect, Connect,
                Disconnect, vars
  <2>. QED  BY <2>1, UntouchedKept, SameEntered DEF journalVars
<1>3. ASSUME Crash PROVE Kept /\ Entered
  <2>1. PICK late \in BOOLEAN : RecoverJournal(late)
    BY <1>3 DEF Crash
  <2>2. sender' = IdleSend /\ JournalShape
    BY <1>3 DEF Crash, PhoneInv
  <2>. QED  BY <2>1, <2>2, RecoverKept, RecoverEntered
<1>. QED  BY <1>1, <1>2, <1>3, PhoneStepKept DEF GatewayNext, LinkStep


-----------------------------------------------------------------------------
(***************************************************************************)
(* The delivery store under the steps of phone and hub.                    *)
(***************************************************************************)

\* The frame of a written event passes the shape checks of record_radio_event.
LEMMA WireShape ==
  ASSUME PhoneInv, NEW e, Written(e)
  PROVE  /\ Wire(e) \in RadioEvent
         /\ Wire(e).id = e /\ Wire(e).attempt = e[1] /\ Wire(e).evidence = e[2]
         /\ Wire(e).message = journal[e[1]].message
         /\ e[1] \in Attempts /\ journal[e[1]] \in JournalRow
<1>1. e \in PhoneEvent /\ e[1] \in Attempts /\ e[2] \in PhoneEvidence
      /\ journal[e[1]].state # "absent"
  BY EventNames DEF Written
<1>2. journal[e[1]] \in JournalRow
  BY <1>1, RowExists DEF PhoneInv, JournalShape
<1>3. journal[e[1]].message \in Messages
  BY <1>2 DEF JournalRow
<1>4. e \in EventIds /\ Phone \in Devices /\ e[2] \in RadioEvidence
  BY <1>1, GatewayAssumption DEF PhoneEvidence
<1>5. 0 \in 0..MaxSegments /\ 1 \in 0..MaxSegments
  BY StoreAssumption
<1>6. PICK n \in {0, 1} :
        /\ Wire(e) = [id |-> e, device |-> Phone, message |-> journal[e[1]].message,
                      attempt |-> e[1], evidence |-> e[2], segment |-> n, count |-> n]
        /\ n = IF e[2] \in SentCallback THEN 1 ELSE 0
  BY DEF Wire
<1>. QED  BY <1>1, <1>2, <1>3, <1>4, <1>5, <1>6 DEF RadioEvent

\* What is new in message_events is a sweep's own, or an event the phone wrote and
\* sent, which a task holds.
InHand(e) == \E c \in Epochs : task[c].pc = "record" /\ task[c].event = e
Heard == \A v \in events' \ events :
           v \in SweepEvents \/ \E e \in PhoneEvent : Written(e) /\ InHand(e) /\ v = Wire(e)

\* Every step of phone and hub is a transaction of the delivery store, or leaves it.
LEMMA StoreSide ==
  ASSUME StoreInv, PhoneInv, LinkInv, [GatewayNext]_vars
  PROVE  [StoreNext]_storeVars /\ Heard
<1>. USE DEF phoneVars, hubVars
<1>1. ASSUME UNCHANGED storeVars PROVE [StoreNext]_storeVars /\ Heard
  BY <1>1 DEF Heard, storeVars, attemptVars
<1>2. ASSUME NEW e \in Epochs, task[e].pc = "record", RecordRadioEvent(Wire(task[e].event))
      PROVE  StoreNext /\ Heard
  <2>1. Written(task[e].event) /\ task[e].event \in PhoneEvent
    BY <1>2 DEF LinkInv, TasksInv, TaskSound, Written
  <2>2. Wire(task[e].event) \in RadioEvent
    BY <2>1, WireShape
  <2>3. Heard
    <3>1. InHand(task[e].event)
      BY <1>2 DEF InHand
    <3>2. events' = events \union {Wire(task[e].event)}
      BY <1>2 DEF RecordRadioEvent
    <3>. QED  BY <2>1, <3>1, <3>2 DEF Heard
  <2>. QED  BY <1>2, <2>2, <2>3 DEF StoreNext, Hub
<1>3. ASSUME NEW e \in Epochs, Server(e) PROVE [StoreNext]_storeVars /\ Heard
  <2>1. e \in 1..MaxEpoch
    BY DEF Epochs
  <2>2. CASE ServerReceive(e) \/ ServerAnswer(e) \/ ServerConfirm(e) \/ ServerGiveUp(e) \/ ServerDies(e)
    <3>1. UNCHANGED storeVars
      BY <2>2 DEF ServerReceive, ServerAnswer, ServerConfirm, ServerGiveUp, ServerDies
    <3>. QED  BY <1>1, <3>1
  <2>3. CASE ServerRecord(e) \/ ServerRefuse(e)
    <3>1. task[e].pc = "record" /\ (RecordRadioEvent(Wire(task[e].event)) \/ UNCHANGED storeVars)
      BY <2>3 DEF ServerRecord, ServerRefuse
    <3>. QED  BY <1>1, <1>2, <3>1
  <2>4. CASE ServerClaim(e)
    <3>1. PICK m \in Messages : request[m].device = Phone /\ ClaimDue(m, e)
      BY <2>4 DEF ServerClaim
    <3>2. Claimable(m) /\ UNCHANGED events
      BY <3>1 DEF ClaimDue, attemptVars
    <3>3. e <= session[request[m].device].epoch
      <4>1. session[request[m].device].epoch = e
        BY <2>4, <3>1 DEF ServerClaim, SessionCurrent
      <4>. QED  BY <2>1, <4>1
    <3>. QED  BY <2>1, <3>1, <3>2, <3>3 DEF StoreNext, Hub, Heard
  <2>5. CASE ServerGrant(e)
    <3>1. task[e].message \in Messages /\ task[e].generation \in 1..MaxGeneration
      BY <2>5 DEF ServerGrant, LinkInv, TasksInv, TaskSound
    <3>2. CASE \E a \in Attempts : IssueGrant(task[e].message, task[e].generation, e, a)
      BY <2>1, <3>1, <3>2 DEF StoreNext, Hub, Heard, IssueGrant
    <3>3. CASE GrantSuppressed(task[e].message, task[e].generation, e)
      <4>1. UNCHANGED events
        BY <3>3 DEF GrantSuppressed, EndPreGrant, attemptVars
      <4>. QED  BY <2>1, <3>1, <3>3, <4>1 DEF StoreNext, Hub, Heard
    <3>4. CASE Cancel(task[e].message)
      <4>1. UNCHANGED events
        BY <3>4 DEF Cancel, EndPreGrant, attemptVars
      <4>. QED  BY <3>1, <3>4, <4>1 DEF StoreNext, Tenant, Heard
    <3>. QED  BY <1>1, <2>5, <3>2, <3>3, <3>4 DEF ServerGrant
  <2>6. CASE ServerRelease(e)
    <3>1. EndLease(Phone, e) \/ UNCHANGED storeVars
      BY <2>6 DEF ServerRelease
    <3>2. EndLease(Phone, e) => UNCHANGED events
      BY DEF EndLease, attemptVars
    <3>. QED  BY <1>1, <2>1, <3>1, <3>2, GatewayAssumption DEF StoreNext, Hub, Heard
  <2>. QED  BY <1>3, <2>2, <2>3, <2>4, <2>5, <2>6 DEF Server
<1>4. ASSUME PhoneStep(Reports) \/ OwnerStep PROVE UNCHANGED storeVars
  <2>1. ASSUME NEW a \in Attempts, Stall(a) \/ \E r \in Reports : Callback(a, r)
        PROVE  UNCHANGED storeVars
    BY <2>1 DEF Stall, Callback
  <2>2. ASSUME \/ PhoneGrant \/ ReserveGrant \/ PhoneAck \/ Pump \/ GrantLapses
               \/ PhoneClose \/ Quarantine \/ SendRefused \/ SendConsumes \/ SendFinishes
        PROVE  UNCHANGED storeVars
    BY <2>2 DEF PhoneGrant, ReserveGrant, PhoneAck, Pump, GrantLapses, PhoneClose, Quarantine,
                SendRefused, SendConsumes, SendFinishes
  <2>3. OwnerStep => UNCHANGED storeVars
    BY DEF OwnerStep, ApprovalLapses, Approve
  <2>. QED  BY <1>4, <2>1, <2>2, <2>3 DEF PhoneStep
<1>5. ASSUME LinkStep PROVE [StoreNext]_storeVars /\ Heard
  <2>1. ASSUME ConnectSession(Phone) PROVE StoreNext /\ Heard
    <3>1. UNCHANGED events
      BY <2>1 DEF ConnectSession, attemptVars
    <3>. QED  BY <2>1, <3>1, GatewayAssumption DEF StoreNext, Hub, Heard
  <2>2. Start \/ Reconnect => ConnectSession(Phone)
    BY DEF Start, Reconnect, Connect
  <2>3. Disconnect \/ Crash => UNCHANGED storeVars
    BY DEF Disconnect, Crash
  <2>. QED  BY <1>1, <1>5, <2>1, <2>2, <2>3 DEF LinkStep
<1>6. ASSUME Others PROVE StoreNext /\ Heard
  <2>. USE DEF queueVars, attemptVars, controlVars, meterVars
  <2>1. CASE EndLease(Phone, session[Phone].epoch)
    <3>1. session[Phone].live /\ UNCHANGED events
      BY <2>1 DEF EndLease
    <3>2. session[Phone].epoch \in 0..MaxEpoch
      BY GatewayAssumption DEF StoreInv, StoreTypeOK
    <3>3. session[Phone].epoch \in 1..MaxEpoch
      BY <3>1, <3>2, StoreAssumption DEF LinkInv, LeaseInv
    <3>. QED  BY <2>1, <3>1, <3>3, GatewayAssumption DEF StoreNext, Hub, Heard
  <2>2. Tenant => UNCHANGED events
    BY DEF Tenant, Accept, AcceptCreate, AcceptReplayNewKey, Cancel, EndPreGrant, Suppress, Resume
  <2>3. Recovery => Heard
    <3>1. ASSUME NEW m \in Messages, ExpireDue(m) PROVE Heard
      BY <3>1 DEF ExpireDue, EndPreGrant, Heard
    <3>2. ASSUME NEW m \in Messages, ReconcileSilentAttempt(m) \/ ReconcileDeliveryTimeout(m)
          PROVE  Heard
      <4>1. \E x \in SweepEvents : events' = events \union {x}
        BY <3>2, SweepWrites
      <4>. QED  BY <4>1 DEF Heard
    <3>. QED  BY <3>1, <3>2 DEF Recovery
  <2>4. Retention => events' \subseteq events
    BY DEF Retention, PruneKey, RedactMessage, PruneEvent
  <2>5. Passage => UNCHANGED events
    BY DEF Passage, MessageExpires, ClaimLapses, GrantExpires, KeyExpires, MonthEnds
  <2>6. Operator => UNCHANGED events
    BY DEF Operator, ChangeAuthority, Revoke
  <2>7. \/ Tenant \/ Recovery \/ Retention \/ Passage \/ Operator
        \/ EndLease(Phone, session[Phone].epoch)
    BY <1>6 DEF Others
  <2>8. (Tenant \/ Retention \/ Passage \/ Operator) => Heard
    BY <2>2, <2>4, <2>5, <2>6 DEF Heard
  <2>. QED  BY <2>1, <2>3, <2>7, <2>8 DEF StoreNext
<1>7. UNCHANGED vars => UNCHANGED storeVars
  BY DEF vars
<1>. QED  BY <1>1, <1>3, <1>4, <1>5, <1>6, <1>7 DEF GatewayNext


-----------------------------------------------------------------------------
(***************************************************************************)
(* What neither side takes back.                                           *)
(***************************************************************************)

\* An attempt keeps its message, a written event stays written, and what the hub
\* has recorded goes only with the content of its message.
Stable ==
  /\ \A a \in Attempts : attempt[a].message \in Messages => attempt'[a].message = attempt[a].message
  /\ \A e : Written(e) => Written(e)'
  /\ \A e : Written(e) /\ Known(e) => Known(e)'
  /\ \A e : Written(e) /\ Wire(e) \in events' => Known(e)'

LEMMA StoreLasts ==
  ASSUME StoreInv, [StoreNext]_storeVars
  PROVE  /\ redacted \subseteq redacted'
         /\ \A v \in events : v \in events' \/ v.message \in redacted
<1>. USE DEF queueVars, attemptVars
<1>1. CASE Created
  BY <1>1 DEF Created, AcceptCreate
<1>2. CASE Granted
  BY <1>2 DEF Granted, IssueGrant
<1>3. CASE Evidenced
  BY <1>3 DEF Evidenced, RecordRadioEvent
<1>4. CASE Swept
  <2>1. PICK m \in Messages : ReconcileSilentAttempt(m) \/ ReconcileDeliveryTimeout(m)
    BY <1>4 DEF Swept
  <2>. QED  BY <2>1, SweepWrites
<1>5. CASE EventPruned
  BY <1>5 DEF EventPruned, PruneEvent
<1>6. CASE Still
  BY <1>6 DEF Still
<1>. QED  BY <1>1, <1>2, <1>3, <1>4, <1>5, <1>6, EvidenceKinds

LEMMA StaysStable ==
  ASSUME StoreInv, PhoneInv, [StoreNext]_storeVars, Kept
  PROVE  Stable
<1>1. ASSUME NEW a \in Attempts, attempt[a].message \in Messages
      PROVE  attempt'[a].message = attempt[a].message
  <2>1. attempt[a] # NoAttempt
    BY <1>1, StoreAssumption DEF NoAttempt
  <2>. QED  BY <2>1, AttemptKept
<1>2. ASSUME NEW e, Written(e)
      PROVE  /\ Written(e)' /\ e[1] \in Attempts /\ Wire(e)' = Wire(e)
             /\ journal'[e[1]].message = journal[e[1]].message
  <2>1. e \in PhoneEvent /\ e[1] \in Attempts /\ journal[e[1]].state # "absent"
    BY <1>2, EventNames DEF Written
  <2>2. Lasts(e[1]) /\ radio[e[1]] \in Nat /\ radio'[e[1]] \in Nat
    BY <2>1 DEF Kept, PhoneInv, JournalShape
  <2>3. /\ journal'[e[1]].state # "absent" /\ journal'[e[1]].message = journal[e[1]].message
        /\ journal[e[1]].state = "not_submitted" => journal'[e[1]].state = "not_submitted"
        /\ radio[e[1]] > 0 => radio'[e[1]] > 0
    BY <2>1, <2>2 DEF Lasts
  <2>4. Written(e)'
    BY <1>2, <2>1, <2>3 DEF Written
  <2>5. Wire(e)' = Wire(e)
    BY <2>3 DEF Wire
  <2>. QED  BY <2>1, <2>3, <2>4, <2>5
<1>3. ASSUME NEW e, Written(e), Known(e) PROVE Known(e)'
  <2>1. Wire(e).message = journal[e[1]].message
    BY <1>3, WireShape
  <2>2. Wire(e)' = Wire(e) /\ journal'[e[1]].message = journal[e[1]].message
    BY <1>2, <1>3
  <2>3. CASE Wire(e) \in events
    <3>1. Wire(e) \in events' \/ journal[e[1]].message \in redacted
      BY <2>1, <2>3, StoreLasts
    <3>. QED  BY <2>2, <3>1, StoreLasts DEF Known
  <2>4. CASE journal[e[1]].message \in redacted
    BY <2>2, <2>4, StoreLasts DEF Known
  <2>. QED  BY <1>3, <2>3, <2>4 DEF Known
<1>4. ASSUME NEW e, Written(e), Wire(e) \in events' PROVE Known(e)'
  BY <1>2, <1>4 DEF Known
<1>. QED  BY <1>1, <1>2, <1>3, <1>4 DEF Stable

LEMMA StableParts ==
  ASSUME Stable
  PROVE  /\ \A t : TaskSound(t) => TaskSound(t)'
         /\ \A f \in Frame : FrameSound(f) => FrameSound(f)'
<1>1. ASSUME NEW t, TaskSound(t) PROVE TaskSound(t)'
  <2>1. /\ \A e : Written(e) => Written(e)'
        /\ \A e : Written(e) /\ Known(e) => Known(e)'
    BY DEF Stable
  <2>2. t.pc = "granted" => t.attempt \in Attempts /\ attempt'[t.attempt].message = t.message
    BY <1>1 DEF TaskSound, Stable
  <2>. QED  BY <1>1, <2>1, <2>2 DEF TaskSound
<1>2. ASSUME NEW f \in Frame, FrameSound(f) PROVE FrameSound(f)'
  <2>1. /\ \A e : Written(e) => Written(e)'
        /\ \A e : Written(e) /\ Known(e) => Known(e)'
    BY DEF Stable
  <2>2. f.type = "grant" => f.attempt \in Attempts /\ f.message \in Messages
    BY DEF Frame
  <2>3. f.type = "grant" => attempt'[f.attempt].message = f.message
    BY <1>2, <2>2 DEF FrameSound, Stable
  <2>. QED  BY <1>2, <2>1, <2>3 DEF FrameSound
<1>. QED  BY <1>1, <1>2


-----------------------------------------------------------------------------
(***************************************************************************)
(* What the hub took from the phone.                                       *)
(***************************************************************************)

\* An attempt that holds the fence is not proved unsent.
Unproved == \A m \in Messages : fence[m].attempt \in Attempts =>
              attempt[fence[m].attempt].status # "proved_no_submit"

LEMMA FencedUnproved == StoreInv => Unproved
<1>. SUFFICES ASSUME StoreInv, NEW m \in Messages, fence[m].attempt \in Attempts
              PROVE  attempt[fence[m].attempt].status # "proved_no_submit"
  BY DEF Unproved
<1>1. fence[m] # NoFence
  BY StoreAssumption DEF NoFence
<1>2. fence[m].outcome \in Outcome
      /\ attempt[fence[m].attempt] = [message |-> m, status |-> fence[m].outcome]
  BY <1>1, Ungranted DEF StoreInv, RowsInv, RowsAgree
<1>. QED  BY <1>2 DEF Outcome, ActiveOutcome

LEMMA FencedUnprovedNext == StoreInv' => Unproved'
BY FencedUnproved, PTL

\* Of the phone's evidence, only what a callback brought about settles a message.
LEMMA SettledByCall ==
  ASSUME NEW v, v.evidence \in PhoneEvidence,
         RadioNext(v) \in {"submitted", "delivered", "delivery_unknown", "failed"}
  PROVE  v.evidence \in CallEvidence
<1>. SUFFICES ASSUME v.evidence \in {"durable_submit_intent", "proven_no_submit"} PROVE FALSE
  BY EvidenceNames
<1>1. RadioNext(v) = Apply(state[v.message], v.evidence)
  BY DEF RadioNext, SentCallback
<1>2. Apply(state[v.message], v.evidence) \in {"submitting", "queued", InvalidTransition}
  BY DEF Apply
<1>. QED  BY <1>1, <1>2 DEF InvalidTransition

\* An event that is recorded is one the phone wrote.
LEMMA RecordedIsHeard ==
  ASSUME StoreInv, Heard, NEW v \in RadioEvent, RecordRadioEvent(v)
  PROVE  \E e \in PhoneEvent : Written(e) /\ InHand(e) /\ v = Wire(e)
<1>1. v \notin events
  <2>1. ~\E e \in events : e.id = v.id
    BY Zenon DEF RecordRadioEvent, RadioResult
  <2>. QED  BY <2>1
<1>2. v \in events'
  BY DEF RecordRadioEvent
<1>3. v \notin SweepEvents
  BY StoreAssumption DEF RadioEvent, SweepEvents
<1>. QED  BY <1>1, <1>2, <1>3 DEF Heard

LEMMA HubSoundStep ==
  ASSUME StoreInv, StoreInv', PhoneInv, HubSound, [StoreNext]_storeVars, Heard, Kept, Entered, Stable
  PROVE  HubSound'
<1>. DEFINE Done == {"submitted", "delivered", "delivery_unknown", "failed"}
<1>1. \A a \in Attempts :
        /\ journal[a].state = "not_submitted" => journal'[a].state = "not_submitted"
        /\ radio[a] > 0 => radio'[a] > 0
        /\ journal[a].state # "absent" =>
             journal'[a].state # "absent" /\ journal'[a].message = journal[a].message
  <2>1. \A a \in Attempts : Lasts(a) /\ radio[a] \in Nat /\ radio'[a] \in Nat
    BY DEF Kept, PhoneInv, JournalShape
  <2>. QED  BY <2>1 DEF Lasts
<1>2. ASSUME NEW v \in events', v.evidence = "proven_no_submit"
      PROVE  journal'[v.attempt].state = "not_submitted"
  <2>1. CASE v \in events
    <3>1. v.attempt \in Attempts
      BY <2>1 DEF StoreInv, StoreTypeOK, RadioEvent, SweepEvents
    <3>. QED  BY <1>1, <1>2, <2>1, <3>1 DEF HubSound
  <2>2. CASE v \notin events
    <3>1. v \notin SweepEvents
      BY <1>2 DEF SweepEvents
    <3>2. PICK e \in PhoneEvent : Written(e) /\ v = Wire(e)
      BY <2>2, <3>1 DEF Heard
    <3>3. v.attempt = e[1] /\ v.evidence = e[2] /\ e[1] \in Attempts
      BY <3>2, WireShape
    <3>. QED  BY <1>1, <1>2, <3>2, <3>3 DEF Written
  <2>. QED  BY <2>1, <2>2
<1>3. ASSUME NEW a \in Attempts, attempt'[a].status = "proved_no_submit"
      PROVE  journal'[a].state = "not_submitted"
  <2>1. CASE attempt[a].status = "proved_no_submit"
    BY <1>1, <2>1 DEF HubSound
  <2>2. CASE attempt[a].status # "proved_no_submit"
    <3>1. \A m \in Messages : fence'[m].attempt # a
      BY <1>3, FencedUnprovedNext DEF Unproved
    <3>2. ASSUME NEW v \in RadioEvent, RecordRadioEvent(v)
          PROVE  journal'[a].state = "not_submitted"
      <4>1. a = v.attempt /\ v.message \in Messages
        BY <1>3, <2>2, <3>2, RecordWrites
      <4>2. v.evidence = "proven_no_submit" /\ events' = events \union {v}
        BY <3>1, <3>2, <4>1, RecordWrites
      <4>. QED  BY <1>2, <4>1, <4>2
    <3>3. ~Swept
      <4>. SUFFICES ASSUME NEW m \in Messages, ReconcileSilentAttempt(m) \/ ReconcileDeliveryTimeout(m)
                    PROVE  FALSE
        BY DEF Swept
      <4>1. a = fence[m].attempt /\ fence'[m].attempt = fence[m].attempt
        BY <1>3, <2>2, SweepWrites
      <4>. QED  BY <3>1, <4>1
    <3>4. ~Granted
      <4>. SUFFICES ASSUME NEW m \in Messages, NEW g, NEW e, NEW b \in Attempts, IssueGrant(m, g, e, b)
                    PROVE  FALSE
        BY DEF Granted
      <4>1. attempt' = [attempt EXCEPT ![b] = [message |-> m, status |-> "granted"]]
        BY DEF IssueGrant
      <4>. QED  BY <1>3, <2>2, <4>1 DEF StoreInv, StoreTypeOK
    <3>5. Created \/ EventPruned \/ Still => UNCHANGED attempt
      BY DEF Created, AcceptCreate, EventPruned, PruneEvent, Still, attemptVars
    <3>. QED  BY <1>3, <2>2, <3>2, <3>3, <3>4, <3>5, EvidenceKinds DEF Evidenced
  <2>. QED  BY <2>1, <2>2
<1>4. ASSUME NEW m \in Messages, state'[m] \in Done
      PROVE  radio'[fence'[m].attempt] > 0 /\ journal'[fence'[m].attempt].message = m
  <2>1. ASSUME state[m] \in Done, fence'[m].attempt = fence[m].attempt
        PROVE  radio'[fence'[m].attempt] > 0 /\ journal'[fence'[m].attempt].message = m
    <3>1. fence[m].attempt \in Attempts
      <4>1. fence[m] # NoFence
        BY <2>1 DEF StoreInv, RowsInv, RowsAgree
      <4>. QED  BY <4>1, Ungranted
    <3>2. radio[fence[m].attempt] > 0 /\ journal[fence[m].attempt].message = m
      BY <2>1 DEF HubSound
    <3>3. journal[fence[m].attempt].state # "absent"
      BY <3>1, <3>2, RowExists, StoreAssumption DEF PhoneInv, JournalShape, NoRow
    <3>. QED  BY <1>1, <2>1, <3>1, <3>2, <3>3
  <2>2. ASSUME NEW v \in RadioEvent, RecordRadioEvent(v)
        PROVE  radio'[fence'[m].attempt] > 0 /\ journal'[fence'[m].attempt].message = m
    <3>1. state \in [Messages -> MessageState \union {"absent"}]
      BY DEF StoreInv, StoreTypeOK
    <3>2. CASE m # v.message
      <4>1. state'[m] = state[m] /\ fence'[m] = fence[m]
        BY <2>2, <3>1, <3>2, RecordWrites
      <4>. QED  BY <1>4, <2>1, <4>1
    <3>3. CASE m = v.message
      <4>1. PICK e \in PhoneEvent : Written(e) /\ v = Wire(e)
        BY <2>2, RecordedIsHeard
      <4>2. /\ v.attempt = e[1] /\ v.evidence = e[2] /\ e[1] \in Attempts
            /\ v.message = journal[e[1]].message
        BY <4>1, WireShape
      <4>3. state'[m] = RadioNext(v)
        BY <2>2, <3>1, <3>3, RecordWrites
      <4>4. v.evidence \in CallEvidence
        BY <1>4, <4>2, <4>3, SettledByCall, EventNames
      <4>5. fence'[m].attempt = v.attempt
        BY <2>2, <3>3, <4>4, RecordWrites, EvidenceNames
      <4>6. radio[e[1]] > 0 /\ journal[e[1]].state # "absent"
        BY <4>1, <4>2, <4>4 DEF Written
      <4>. QED  BY <1>1, <3>3, <4>2, <4>5, <4>6
    <3>. QED  BY <3>2, <3>3
  <2>3. ASSUME NEW n \in Messages, ReconcileSilentAttempt(n) \/ ReconcileDeliveryTimeout(n)
        PROVE  radio'[fence'[m].attempt] > 0 /\ journal'[fence'[m].attempt].message = m
    <3>1. state \in [Messages -> MessageState \union {"absent"}]
      BY DEF StoreInv, StoreTypeOK
    <3>2. state[m] \in Done
      BY <1>4, <2>3, <3>1, SweepWrites
    <3>3. fence'[m].attempt = fence[m].attempt
      BY <2>3, SweepWrites
    <3>. QED  BY <2>1, <3>2, <3>3
  <2>4. ASSUME NEW n \in Messages, NEW g, NEW e, NEW b \in Attempts, IssueGrant(n, g, e, b)
        PROVE  state[m] \in Done /\ fence'[m].attempt = fence[m].attempt
    <3>1. state' = state /\ state[n] = "claimed"
      BY <2>4 DEF IssueGrant, GrantCurrent
    <3>2. m # n
      BY <1>4, <3>1
    <3>3. fence'[m] = fence[m]
      BY <2>4, <3>2 DEF IssueGrant, StoreInv, StoreTypeOK
    <3>. QED  BY <1>4, <3>1, <3>3
  <2>5. Created => state[m] \in Done /\ fence'[m].attempt = fence[m].attempt
    <3>. SUFFICES ASSUME NEW n \in Messages, state' = [state EXCEPT ![n] = "queued"], fence' = fence
                  PROVE  state[m] \in Done
      BY DEF Created, AcceptCreate, attemptVars
    <3>. QED  BY <1>4 DEF StoreInv, StoreTypeOK
  <2>6. EventPruned \/ Still => state[m] \in Done /\ fence'[m].attempt = fence[m].attempt
    BY <1>4 DEF EventPruned, PruneEvent, queueVars, Still
  <2>. QED  BY <2>1, <2>2, <2>3, <2>4, <2>5, <2>6, EvidenceKinds DEF Granted, Evidenced, Swept
<1>5. ASSUME NEW a \in Attempts, journal'[a].state \notin Uncalled PROVE Known(Intent(a))'
  <2>1. journal[a].state # "absent" /\ Known(Intent(a))
    BY <1>5 DEF Entered, HubSound, Uncalled
  <2>2. Written(Intent(a))
    BY <2>1, EventNames, EvidenceNames DEF Written, Intent
  <2>. QED  BY <2>1, <2>2 DEF Stable
<1>. QED  BY <1>2, <1>3, <1>4, <1>5 DEF HubSound


-----------------------------------------------------------------------------
(***************************************************************************)
(* Tasks and frames.                                                       *)
(***************************************************************************)

LEMMA TaskSet ==
  ASSUME TasksInv, Stable, NEW e \in Epochs, NEW t \in TaskRow, TaskSound(t)',
         task' = [task EXCEPT ![e] = t]
  PROVE  TasksInv'
<1>1. /\ task' \in [Epochs -> TaskRow]
      /\ \A x \in Epochs : task'[x] = IF x = e THEN t ELSE task[x]
  BY DEF TasksInv
<1>2. \A x \in Epochs : x # e => TaskSound(task[x])'
  BY <1>1, StableParts DEF TasksInv
<1>3. TaskSound(task[e])'
  BY <1>1
<1>. QED  BY <1>1, <1>2, <1>3 DEF TasksInv

LEMMA TasksSame ==
  ASSUME TasksInv, Stable, UNCHANGED task
  PROVE  TasksInv'
BY StableParts DEF TasksInv

\* A task that starts over, ends or is being closed holds nothing.
LEMMA TaskCleared ==
  ASSUME TasksInv, Stable, NEW e \in Epochs, NEW p \in {"idle", "closing", "done"},
         NEW armed \in BOOLEAN, task' = [task EXCEPT ![e] = [NoTask EXCEPT !.pc = p, !.armed = armed]]
  PROVE  TasksInv'
<1>1. PICK t : t = [NoTask EXCEPT !.pc = p, !.armed = armed]
  OBVIOUS
<1>2. t = [pc |-> p, armed |-> armed, event |-> NoEvent,
           message |-> "absent", generation |-> 0, attempt |-> "none"]
  BY <1>1, Zenon DEF NoTask
<1>3. t \in TaskRow /\ t.pc = p
  <2>1. 0 \in 0..MaxGeneration
    BY StoreAssumption
  <2>. QED  BY <1>2, <2>1 DEF TaskRow
<1>4. TaskSound(t)'
  BY <1>3 DEF TaskSound
<1>. QED  BY <1>1, <1>3, <1>4, TaskSet

LEMMA TaskEnds ==
  ASSUME TasksInv, Stable, NEW e \in Epochs, NEW p \in {"idle", "closing", "done"},
         task' = [task EXCEPT ![e] = [NoTask EXCEPT !.pc = p]]
  PROVE  TasksInv'
<1>1. PICK t : t = [NoTask EXCEPT !.pc = p]
  OBVIOUS
<1>2. t = [pc |-> p, armed |-> FALSE, event |-> NoEvent,
           message |-> "absent", generation |-> 0, attempt |-> "none"]
  BY <1>1, Zenon DEF NoTask
<1>3. t \in TaskRow /\ t.pc = p
  <2>1. 0 \in 0..MaxGeneration
    BY StoreAssumption
  <2>. QED  BY <1>2, <2>1 DEF TaskRow
<1>4. TaskSound(t)'
  BY <1>3 DEF TaskSound
<1>. QED  BY <1>1, <1>3, <1>4, TaskSet

LEMMA FramesSame ==
  ASSUME DownInv, Stable, UNCHANGED down
  PROVE  DownInv'
<1>1. \A i \in 1..Len(down) : down[i] \in Frame /\ FrameSound(down[i])
  BY DEF DownInv
<1>. QED  BY <1>1, StableParts DEF DownInv

LEMMA FrameSent ==
  ASSUME DownInv, Stable, ServiceInv, NEW e \in Epochs, NEW f \in Frame, FrameSound(f)', Send(e, f)
  PROVE  DownInv' /\ (phone.conn = 0 => down' = <<>>)
<1>1. CASE phone.conn = e
  <2>1. down' = Append(down, f) /\ phone.conn # 0
    BY <1>1 DEF Send, Epochs
  <2>2. /\ down' \in Seq(Frame)
        /\ \A i \in 1..Len(down') : (i \in 1..Len(down) /\ down'[i] = down[i]) \/ down'[i] = f
    BY <2>1 DEF DownInv
  <2>3. \A i \in 1..Len(down) : down[i] \in Frame /\ FrameSound(down[i])
    BY DEF DownInv
  <2>4. \A i \in 1..Len(down') : FrameSound(down[i])'
    BY <2>2, <2>3, StableParts
  <2>. QED  BY <2>1, <2>2, <2>4 DEF DownInv
<1>2. CASE phone.conn # e
  <2>1. down' = down
    BY <1>2 DEF Send
  <2>. QED  BY <2>1, FramesSame DEF ServiceInv
<1>. QED  BY <1>1, <1>2

\* Frames are read from the front, or past the acknowledgements there.
LEMMA FramesRead ==
  ASSUME DownInv, Stable,
         \/ down' = <<>>
         \/ down # <<>> /\ down' = Tail(down)
         \/ \E i \in 1..Len(down) : down' = RemoveAt(down, i)
  PROVE  DownInv'
<1>1. /\ down' \in Seq(Frame)
      /\ \A k \in 1..Len(down') : \E j \in 1..Len(down) : down'[k] = down[j]
  <2>1. down \in Seq(Frame)
    BY DEF DownInv
  <2>2. CASE down' = <<>>
    BY <2>2
  <2>3. CASE down # <<>> /\ down' = Tail(down)
    <3>1. /\ down' \in Seq(Frame) /\ Len(down') = Len(down) - 1
          /\ \A k \in 1..Len(down') : down'[k] = down[k + 1]
      BY <2>1, <2>3
    <3>. QED  BY <2>1, <3>1
  <2>4. ASSUME NEW i \in 1..Len(down), down' = RemoveAt(down, i)
        PROVE  /\ down' \in Seq(Frame)
               /\ \A k \in 1..Len(down') : \E j \in 1..Len(down) : down'[k] = down[j]
    <3>. DEFINE s == SubSeq(down, 1, i - 1)
                t == SubSeq(down, i + 1, Len(down))
    <3>1. s \in Seq(Frame) /\ Len(s) = i - 1 /\ \A k \in 1..Len(s) : s[k] = down[k]
      BY <2>1
    <3>2. t \in Seq(Frame) /\ Len(t) = Len(down) - i /\ \A k \in 1..Len(t) : t[k] = down[k + i]
      BY <2>1
    <3>3. down' = s \o t
      BY <2>4 DEF RemoveAt
    <3>. HIDE DEF s, t
    <3>4. /\ down' \in Seq(Frame) /\ Len(down') = Len(s) + Len(t)
          /\ \A k \in 1..Len(down') : down'[k] = IF k <= Len(s) THEN s[k] ELSE t[k - Len(s)]
      <4>1. /\ s \o t \in Seq(Frame) /\ Len(s \o t) = Len(s) + Len(t)
            /\ \A k \in 1..(Len(s) + Len(t)) : (s \o t)[k] = IF k <= Len(s) THEN s[k] ELSE t[k - Len(s)]
        BY <3>1, <3>2, ConcatProperties
      <4>. QED  BY <3>3, <4>1
    <3>5. ASSUME NEW k \in 1..Len(down') PROVE \E j \in 1..Len(down) : down'[k] = down[j]
      <4>1. CASE k <= Len(s)
        BY <2>1, <3>1, <3>4, <4>1
      <4>2. CASE ~(k <= Len(s))
        <5>1. k - Len(s) \in 1..Len(t) /\ k - Len(s) + i \in 1..Len(down)
          BY <2>1, <3>1, <3>2, <3>4, <4>2
        <5>. QED  BY <3>2, <3>4, <4>2, <5>1
      <4>. QED  BY <4>1, <4>2
    <3>. QED  BY <3>4, <3>5
  <2>. QED  BY <2>2, <2>3, <2>4
<1>2. \A i \in 1..Len(down) : down[i] \in Frame /\ FrameSound(down[i])
  BY DEF DownInv
<1>3. \A k \in 1..Len(down') : FrameSound(down[k])'
  BY <1>1, <1>2, StableParts
<1>. QED  BY <1>1, <1>3 DEF DownInv

LEMMA UpSame ==
  ASSUME UpInv, Stable, UNCHANGED up
  PROVE  UpInv'
<1>1. \A e : Written(e) => Written(e)'
  BY DEF Stable
<1>. QED  BY <1>1 DEF UpInv


\* The task of a connection closes.
LEMMA CloseLink ==
  ASSUME LinkInv, Stable, NEW e \in Epochs, NEW code \in CloseCode,
         NEW event \in PhoneEvent \union {NoEvent}, Close(e, code, event)
  PROVE  TasksInv' /\ DownInv' /\ (phone.conn = 0 => down' = <<>>)
<1>1. TasksInv'
  BY TaskEnds DEF Close, LinkInv
<1>2. PICK f : f = CloseFrame(code, event)
  OBVIOUS
<1>3. f \in Frame /\ f.type = "close"
  BY <1>2 DEF CloseFrame, Frame
<1>4. FrameSound(f)'
  BY <1>3 DEF FrameSound
<1>5. Send(e, f)
  BY <1>2 DEF Close
<1>. QED  BY <1>1, <1>3, <1>4, <1>5, FrameSent DEF LinkInv

\* A field or two of a task are written.
LEMMA TaskMoves ==
  ASSUME NEW r \in TaskRow, NEW p \in {"idle", "answer"}
  PROVE  /\ [r EXCEPT !.pc = p] \in TaskRow /\ [r EXCEPT !.pc = p].pc = p
         /\ [r EXCEPT !.pc = p].event = r.event
BY DEF TaskRow

LEMMA TaskHolds ==
  ASSUME NEW r \in TaskRow, NEW p \in {"idle", "record"}, NEW x \in PhoneEvent \union {NoEvent}
  PROVE  /\ [r EXCEPT !.pc = p, !.event = x] \in TaskRow
         /\ [r EXCEPT !.pc = p, !.event = x].pc = p
         /\ [r EXCEPT !.pc = p, !.event = x].event = x
BY DEF TaskRow

LEMMA TaskClaims ==
  ASSUME NEW r \in TaskRow, NEW m \in Messages, NEW g \in 1..MaxGeneration
  PROVE  /\ [r EXCEPT !.pc = "claimed", !.message = m, !.generation = g] \in TaskRow
         /\ [r EXCEPT !.pc = "claimed", !.message = m, !.generation = g].pc = "claimed"
         /\ [r EXCEPT !.pc = "claimed", !.message = m, !.generation = g].message = m
         /\ [r EXCEPT !.pc = "claimed", !.message = m, !.generation = g].generation = g
<1>1. g \in 0..MaxGeneration
  BY StoreAssumption
<1>. QED  BY <1>1 DEF TaskRow

LEMMA TaskGrants ==
  ASSUME NEW r \in TaskRow, NEW a \in Attempts
  PROVE  /\ [r EXCEPT !.pc = "granted", !.attempt = a] \in TaskRow
         /\ [r EXCEPT !.pc = "granted", !.attempt = a].pc = "granted"
         /\ [r EXCEPT !.pc = "granted", !.attempt = a].attempt = a
         /\ [r EXCEPT !.pc = "granted", !.attempt = a].message = r.message
         /\ [r EXCEPT !.pc = "granted", !.attempt = a].generation = r.generation
BY DEF TaskRow

LEMMA ReceiveLink ==
  ASSUME PhoneInv, LinkInv, Stable, NEW e \in Epochs, ServerReceive(e)
  PROVE  TasksInv' /\ UpInv' /\ DownInv' /\ (phone.conn = 0 => down' = <<>>)
<1>. DEFINE x == Head(up[e])
<1>1. /\ up[e] \in Seq(PhoneEvent) /\ up[e] # <<>> /\ up' = [up EXCEPT ![e] = Tail(up[e])]
      /\ up \in [Epochs -> Seq(PhoneEvent)] /\ \A y \in Epochs : \A i \in 1..Len(up[y]) : Written(up[y][i])
  BY DEF ServerReceive, LinkInv, UpInv
<1>2. Written(x) /\ x \in PhoneEvent
  <2>1. x = up[e][1] /\ 1 \in 1..Len(up[e]) /\ x \in PhoneEvent
    BY <1>1
  <2>. QED  BY <1>1, <2>1
<1>3. UpInv'
  <2>1. up' \in [Epochs -> Seq(PhoneEvent)]
    BY <1>1
  <2>2. \A y \in Epochs : \A i \in 1..Len(up'[y]) : \E j \in 1..Len(up[y]) : up'[y][i] = up[y][j]
    <3>. TAKE y \in Epochs
    <3>. TAKE i \in 1..Len(up'[y])
    <3>1. CASE y # e
      BY <1>1, <3>1
    <3>2. CASE y = e
      <4>1. up'[y] = Tail(up[e]) /\ Len(Tail(up[e])) = Len(up[e]) - 1
        BY <1>1, <3>2
      <4>2. Len(up[e]) \in Nat /\ i \in 1..(Len(up[e]) - 1)
        BY <1>1, <4>1
      <4>3. \A k \in 1..(Len(up[e]) - 1) : Tail(up[e])[k] = up[e][k + 1]
        BY <1>1, HeadTailProperties
      <4>4. up'[y][i] = up[e][i + 1] /\ i + 1 \in 1..Len(up[e])
        BY <4>1, <4>2, <4>3
      <4>. QED  BY <3>2, <4>4
    <3>. QED  BY <3>1, <3>2
  <2>3. \A z : Written(z) => Written(z)'
    BY DEF Stable
  <2>4. \A y \in Epochs : \A i \in 1..Len(up'[y]) : Written(up[y][i])'
    BY <1>1, <2>2, <2>3
  <2>. QED  BY <2>1, <2>4 DEF UpInv
<1>4. Wire(x).id = x
  BY <1>2, WireShape
<1>5. \/ Close(e, "none", NoEvent) \/ Close(e, "rejected", x)
      \/ /\ task' = [task EXCEPT ![e].pc = "record", ![e].event = x]
         /\ UNCHANGED down
  BY <1>4 DEF ServerReceive
<1>. HIDE DEF x
<1>6. CASE Close(e, "none", NoEvent) \/ Close(e, "rejected", x)
  BY <1>2, <1>3, <1>6, CloseLink DEF CloseCode
<1>7. CASE task' = [task EXCEPT ![e].pc = "record", ![e].event = x] /\ UNCHANGED down
  <2>1. PICK t : t = [task[e] EXCEPT !.pc = "record", !.event = x]
    OBVIOUS
  <2>2. task \in [Epochs -> TaskRow] /\ task[e] \in TaskRow
    BY DEF LinkInv, TasksInv
  <2>3. t \in TaskRow /\ t.pc = "record" /\ t.event = x
    BY <1>2, <2>1, <2>2, TaskHolds
  <2>4. task' = [task EXCEPT ![e] = t]
    BY <1>7, <2>1, <2>2
  <2>5. TaskSound(t)'
    BY <1>2, <2>3 DEF TaskSound, Stable
  <2>6. TasksInv'
    BY <2>3, <2>4, <2>5, TaskSet DEF LinkInv
  <2>. QED  BY <1>3, <1>7, <2>6, FramesSame DEF LinkInv, ServiceInv
<1>. QED  BY <1>5, <1>6, <1>7

\* The answer to an event waits for its commit.
LEMMA RecordLink ==
  ASSUME PhoneInv, LinkInv, Stable, NEW e \in Epochs, ServerRecord(e)
  PROVE  TasksInv'
<1>1. task \in [Epochs -> TaskRow] /\ task[e] \in TaskRow /\ TaskSound(task[e])
  BY DEF LinkInv, TasksInv
<1>2. PICK x : x = task[e].event
  OBVIOUS
<1>3. Written(x) /\ x \in PhoneEvent
  BY <1>1, <1>2 DEF ServerRecord, TaskSound, Written
<1>4. Known(x)'
  <2>1. CASE RecordRadioEvent(Wire(x))
    BY <1>3, <2>1 DEF Stable, RecordRadioEvent
  <2>2. CASE RadioResult(Wire(x)) = "replay"
    <3>1. Wire(x) \in events
      BY <2>2, Zenon DEF RadioResult
    <3>. QED  BY <1>3, <3>1 DEF Known, Stable
  <2>. QED  BY <1>2, <2>1, <2>2 DEF ServerRecord
<1>5. PICK t : t = [task[e] EXCEPT !.pc = "answer"]
  OBVIOUS
<1>6. t \in TaskRow /\ t.pc = "answer" /\ t.event = x
  BY <1>1, <1>2, <1>5, TaskMoves
<1>7. task' = [task EXCEPT ![e] = t]
  BY <1>1, <1>5 DEF ServerRecord
<1>8. TaskSound(t)'
  BY <1>3, <1>4, <1>6 DEF TaskSound, Stable
<1>. QED  BY <1>6, <1>7, <1>8, TaskSet DEF LinkInv


LEMMA RefuseLink ==
  ASSUME PhoneInv, LinkInv, Stable, NEW e \in Epochs, ServerRefuse(e)
  PROVE  TasksInv' /\ DownInv' /\ (phone.conn = 0 => down' = <<>>)
<1>1. Written(task[e].event) /\ task[e].event \in PhoneEvent
  BY DEF ServerRefuse, LinkInv, TasksInv, TaskSound, Written
<1>2. Wire(task[e].event).id = task[e].event
  BY <1>1, WireShape
<1>3. \E code \in CloseCode, x \in PhoneEvent \union {NoEvent} : Close(e, code, x)
  BY <1>1, <1>2 DEF ServerRefuse, CloseCodeFor, CloseCode
<1>. QED  BY <1>3, CloseLink

LEMMA AnswerLink ==
  ASSUME PhoneInv, LinkInv, Stable, NEW e \in Epochs, ServerAnswer(e)
  PROVE  TasksInv' /\ DownInv' /\ (phone.conn = 0 => down' = <<>>)
<1>1. task \in [Epochs -> TaskRow] /\ task[e] \in TaskRow /\ TaskSound(task[e])
  BY DEF LinkInv, TasksInv
<1>2. PICK x : x = task[e].event
  OBVIOUS
<1>3. Written(x) /\ Known(x) /\ x \in PhoneEvent
  BY <1>1, <1>2 DEF ServerAnswer, TaskSound, Written
<1>4. TasksInv'
  <2>1. PICK t : t = [task[e] EXCEPT !.pc = "idle", !.event = NoEvent]
    OBVIOUS
  <2>2. t \in TaskRow /\ t.pc = "idle"
    BY <1>1, <2>1, TaskHolds
  <2>3. task' = [task EXCEPT ![e] = t]
    BY <1>1, <2>1 DEF ServerAnswer
  <2>4. TaskSound(t)'
    BY <2>2 DEF TaskSound
  <2>. QED  BY <2>2, <2>3, <2>4, TaskSet DEF LinkInv
<1>5. PICK p \in BOOLEAN : Send(e, AckFrame(x, p))
  BY <1>2, <1>3, WireShape DEF ServerAnswer
<1>6. PICK f : f = AckFrame(x, p)
  OBVIOUS
<1>7. f \in Frame /\ f.type = "ack" /\ f.event = x
  BY <1>3, <1>6 DEF AckFrame, Frame
<1>8. FrameSound(f)'
  BY <1>3, <1>7 DEF FrameSound, Stable
<1>. QED  BY <1>4, <1>5, <1>6, <1>7, <1>8, FrameSent DEF LinkInv

LEMMA ClaimLink ==
  ASSUME StoreInv, LinkInv, Stable, NEW e \in Epochs, ServerClaim(e)
  PROVE  TasksInv'
<1>1. task \in [Epochs -> TaskRow] /\ task[e] \in TaskRow
  BY DEF LinkInv, TasksInv
<1>2. PICK m \in Messages :
        /\ ClaimDue(m, e)
        /\ task' = [task EXCEPT ![e].pc = "claimed", ![e].message = m,
                                ![e].generation = job[m].generation + 1]
  BY DEF ServerClaim
<1>3. PICK g : g = job[m].generation + 1
  OBVIOUS
<1>4. g \in 1..MaxGeneration
  <2>1. job[m].generation \in 0..MaxGeneration /\ job[m].generation < MaxGeneration
    BY <1>2 DEF StoreInv, StoreTypeOK, ClaimDue
  <2>. QED  BY <1>3, <2>1, StoreAssumption
<1>5. PICK t : t = [task[e] EXCEPT !.pc = "claimed", !.message = m, !.generation = g]
  OBVIOUS
<1>6. t \in TaskRow /\ t.pc = "claimed" /\ t.message = m /\ t.generation = g
  <2>1. PICK r \in TaskRow : r = task[e]
    BY <1>1
  <2>2. t = [r EXCEPT !.pc = "claimed", !.message = m, !.generation = g]
    BY <1>5, <2>1
  <2>3. g \in 0..MaxGeneration /\ m \in Messages
    BY <1>2, <1>4, StoreAssumption
  <2>. QED  BY <2>1, <2>2, <2>3 DEF TaskRow
<1>7. task' = [task EXCEPT ![e] = t]
  <2>1. task' = [task EXCEPT ![e].pc = "claimed", ![e].message = m, ![e].generation = g]
    BY <1>2, <1>3
  <2>. QED  BY <1>1, <1>5, <2>1
<1>8. TaskSound(t)'
  BY <1>4, <1>6 DEF TaskSound
<1>. QED  BY <1>6, <1>7, <1>8, TaskSet DEF LinkInv

LEMMA GrantLink ==
  ASSUME StoreInv, LinkInv, Stable, NEW e \in Epochs, ServerGrant(e)
  PROVE  TasksInv'
<1>1. task \in [Epochs -> TaskRow] /\ task[e] \in TaskRow /\ TaskSound(task[e])
  BY DEF LinkInv, TasksInv
<1>2. task[e].pc = "claimed" /\ task[e].message \in Messages /\ task[e].generation \in 1..MaxGeneration
  BY <1>1 DEF ServerGrant, TaskSound
<1>3. ASSUME task' = [task EXCEPT ![e].pc = "idle"] PROVE TasksInv'
  <2>1. PICK t : t = [task[e] EXCEPT !.pc = "idle"]
    OBVIOUS
  <2>2. t \in TaskRow /\ t.pc = "idle"
    BY <1>1, <2>1, TaskMoves
  <2>3. task' = [task EXCEPT ![e] = t]
    BY <1>1, <1>3, <2>1
  <2>4. TaskSound(t)'
    BY <2>2 DEF TaskSound
  <2>. QED  BY <2>2, <2>3, <2>4, TaskSet DEF LinkInv
<1>4. ASSUME NEW a \in Attempts, IssueGrant(task[e].message, task[e].generation, e, a),
             task' = [task EXCEPT ![e].pc = "granted", ![e].attempt = a]
      PROVE  TasksInv'
  <2>1. PICK t : t = [task[e] EXCEPT !.pc = "granted", !.attempt = a]
    OBVIOUS
  <2>2. /\ t \in TaskRow /\ t.pc = "granted" /\ t.attempt = a /\ t.message = task[e].message
        /\ t.generation = task[e].generation
    BY <1>1, <2>1, TaskGrants
  <2>3. task' = [task EXCEPT ![e] = t]
    BY <1>1, <1>4, <2>1
  <2>4. attempt'[a].message = task[e].message
    BY <1>4 DEF IssueGrant, StoreInv, StoreTypeOK
  <2>5. TaskSound(t)'
    BY <1>2, <2>2, <2>4 DEF TaskSound
  <2>. QED  BY <2>2, <2>3, <2>5, TaskSet DEF LinkInv
<1>. QED  BY <1>3, <1>4 DEF ServerGrant

LEMMA ConfirmLink ==
  ASSUME LinkInv, Stable, NEW e \in Epochs, ServerConfirm(e)
  PROVE  TasksInv' /\ DownInv' /\ (phone.conn = 0 => down' = <<>>)
<1>1. TasksInv'
  BY TaskEnds DEF ServerConfirm, LinkInv
<1>2. PICK f : f = GrantFrame(task[e].attempt, task[e].message)
  OBVIOUS
<1>3. /\ task[e].attempt \in Attempts /\ task[e].message \in Messages
      /\ attempt[task[e].attempt].message = task[e].message
  BY DEF ServerConfirm, LinkInv, TasksInv, TaskSound
<1>4. f \in Frame /\ f.type = "grant" /\ f.attempt = task[e].attempt /\ f.message = task[e].message
  BY <1>2, <1>3 DEF GrantFrame, Frame
<1>5. FrameSound(f)'
  BY <1>3, <1>4 DEF FrameSound, Stable
<1>6. Send(e, f)
  BY <1>2 DEF ServerConfirm
<1>. QED  BY <1>1, <1>4, <1>5, <1>6, FrameSent DEF LinkInv

\* The hub's task of a connection, whatever it does.
LEMMA ServerLink ==
  ASSUME StoreInv, PhoneInv, LinkInv, Stable, NEW e \in Epochs, Server(e)
  PROVE  TasksInv' /\ UpInv' /\ DownInv' /\ (phone.conn = 0 => down' = <<>>)
<1>1. UNCHANGED up => UpInv'
  BY UpSame DEF LinkInv
<1>2. UNCHANGED down => DownInv' /\ (phone.conn = 0 => down' = <<>>)
  BY FramesSame DEF LinkInv, ServiceInv
<1>3. CASE ServerRecord(e)
  BY <1>1, <1>2, <1>3, RecordLink DEF ServerRecord
<1>4. CASE ServerRefuse(e)
  BY <1>1, <1>4, RefuseLink DEF ServerRefuse
<1>5. CASE ServerAnswer(e)
  BY <1>1, <1>5, AnswerLink DEF ServerAnswer
<1>6. CASE ServerClaim(e)
  BY <1>1, <1>2, <1>6, ClaimLink DEF ServerClaim
<1>7. CASE ServerGrant(e)
  BY <1>1, <1>2, <1>7, GrantLink DEF ServerGrant
<1>8. CASE ServerConfirm(e)
  BY <1>1, <1>8, ConfirmLink DEF ServerConfirm
<1>9. CASE ServerGiveUp(e)
  <2>1. \E code \in CloseCode : Close(e, code, NoEvent)
    BY <1>9 DEF ServerGiveUp, CloseCode
  <2>2. UNCHANGED up
    BY <1>9 DEF ServerGiveUp
  <2>. QED  BY <1>1, <2>1, <2>2, CloseLink
<1>10. CASE ServerRelease(e) \/ ServerDies(e)
  <2>1. UNCHANGED <<up, down>> /\ task' = [task EXCEPT ![e] = [NoTask EXCEPT !.pc = "done"]]
    BY <1>10 DEF ServerRelease, ServerDies
  <2>2. TasksInv'
    BY <2>1, TaskEnds DEF LinkInv
  <2>. QED  BY <1>1, <1>2, <2>1, <2>2
<1>. QED
  BY <1>3, <1>4, <1>5, <1>6, <1>7, <1>8, <1>9, <1>10, ReceiveLink DEF Server


-----------------------------------------------------------------------------
(***************************************************************************)
(* The service on the phone.                                               *)
(***************************************************************************)

\* The fields the loss of a connection, a stop or a new session writes.
LEMMA LostRow ==
  ASSUME NEW p \in PhoneRow
  PROVE  /\ Lost(p) \in PhoneRow /\ Stopped(p) \in PhoneRow /\ ClearStreak(p) \in PhoneRow
         /\ Lost(p).grant = NoGrant /\ Stopped(p).grant = NoGrant
         /\ ClearStreak(p).grant = p.grant /\ ClearStreak(p).conn = p.conn
         /\ [p EXCEPT !.closing = NoClosing] \in PhoneRow
         /\ [p EXCEPT !.closing = NoClosing].grant = p.grant
         /\ [p EXCEPT !.closing = NoClosing].conn = p.conn
<1>1. 0 \in 0..MaxEpoch
  BY StoreAssumption
<1>2. Lost(p) \in PhoneRow /\ Lost(p).grant = NoGrant
  BY <1>1 DEF Lost, PhoneRow
<1>3. PICK q \in PhoneRow : q = Lost(p)
  BY <1>2
<1>4. Stopped(p) \in PhoneRow /\ Stopped(p).grant = NoGrant
  <2>1. [q EXCEPT !.running = FALSE] \in PhoneRow /\ [q EXCEPT !.running = FALSE].grant = q.grant
    BY DEF PhoneRow
  <2>. QED  BY <1>2, <1>3, <2>1 DEF Stopped
<1>5. /\ ClearStreak(p) \in PhoneRow
      /\ ClearStreak(p).grant = p.grant /\ ClearStreak(p).conn = p.conn
  BY DEF ClearStreak, PhoneRow
<1>6. /\ [p EXCEPT !.closing = NoClosing] \in PhoneRow
      /\ [p EXCEPT !.closing = NoClosing].grant = p.grant
      /\ [p EXCEPT !.closing = NoClosing].conn = p.conn
  BY DEF PhoneRow
<1>. QED  BY <1>2, <1>4, <1>5, <1>6

LEMMA ServiceSet ==
  ASSUME ServiceInv, Stable, NEW p \in PhoneRow, phone' = p,
         p.conn = 0 => down' = <<>>,
         p.grant # NoGrant => /\ p.grant.attempt = phone.grant.attempt
                              /\ p.grant.message = phone.grant.message
                              /\ phone.grant # NoGrant
  PROVE  ServiceInv'
<1>1. phone.grant # NoGrant => phone.grant.attempt \in Attempts /\ phone.grant.message \in Messages
  BY DEF ServiceInv, PhoneRow, GrantRow
<1>. QED  BY <1>1 DEF ServiceInv, Stable

\* The connection is given up.
LEMMA LeaveLink ==
  ASSUME LinkInv, Stable, NEW p \in PhoneRow, p.grant = NoGrant, Leave(p)
  PROVE  ServiceInv' /\ DownInv'
<1>1. phone' = p /\ down' = <<>>
  BY DEF Leave
<1>. QED  BY <1>1, ServiceSet, FramesRead DEF LinkInv

\* Neither the connection nor the grant changes, and frames are only read.
LEMMA StayLink ==
  ASSUME LinkInv, Stable, NEW p \in PhoneRow, p.grant = phone.grant, p.conn = phone.conn,
         phone' = p, DownInv', down = <<>> => down' = <<>>
  PROVE  ServiceInv'
BY ServiceSet DEF LinkInv, ServiceInv

LEMMA IdleLink ==
  ASSUME LinkInv, Stable, UNCHANGED <<phone, down>>
  PROVE  ServiceInv' /\ DownInv'
<1>1. DownInv'
  BY FramesSame DEF LinkInv
<1>. QED  BY <1>1, StayLink DEF LinkInv, ServiceInv


LEMMA GrantFrameLink ==
  ASSUME LinkInv, Stable, PhoneGrant
  PROVE  ServiceInv' /\ DownInv' /\ pilot' \in PilotRow
<1>1. phone \in PhoneRow /\ pilot \in PilotRow
  BY DEF LinkInv, ServiceInv, SendInv
<1>2. PICK i \in 1..Len(down), valid \in BOOLEAN :
        /\ SocketTurn(i) /\ down[i].type = "grant"
        /\ IF phone.armed /\ valid
           THEN /\ down' = RemoveAt(down, i)
                /\ phone' = [phone EXCEPT !.armed = FALSE,
                            !.grant = [attempt |-> down[i].attempt, live |-> TRUE,
                                       message |-> down[i].message,
                                       prior |-> IF pilot.used THEN pilot.approved ELSE "first"]]
                /\ pilot' = [pilot EXCEPT !.used = TRUE]
           ELSE Leave(Stopped(phone)) /\ UNCHANGED pilot
  BY DEF PhoneGrant
<1>3. ASSUME Leave(Stopped(phone)), UNCHANGED pilot
      PROVE  ServiceInv' /\ DownInv' /\ pilot' \in PilotRow
  BY <1>1, <1>3, LostRow, LeaveLink
<1>4. ASSUME down' = RemoveAt(down, i),
             phone' = [phone EXCEPT !.armed = FALSE,
                            !.grant = [attempt |-> down[i].attempt, live |-> TRUE,
                                       message |-> down[i].message,
                                       prior |-> IF pilot.used THEN pilot.approved ELSE "first"]],
             pilot' = [pilot EXCEPT !.used = TRUE]
      PROVE  ServiceInv' /\ DownInv' /\ pilot' \in PilotRow
  <2>1. DownInv'
    BY <1>4, FramesRead DEF LinkInv
  <2>2. pilot' \in PilotRow
    BY <1>1, <1>4 DEF PilotRow
  <2>3. PICK a \in Attempts, m \in Messages : a = down[i].attempt /\ m = down[i].message
    BY <1>2, LinkTypes
  <2>4. attempt[a].message = m
    BY <1>2, <2>3 DEF LinkInv, DownInv, FrameSound
  <2>5. attempt'[a].message = m
    BY <2>4, Stable DEF Stable
  <2>6. PICK b \in Attempts \union {"first", "none"} :
          b = IF pilot.used THEN pilot.approved ELSE "first"
    BY <1>1 DEF PilotRow
  <2>7. PICK g : g = [attempt |-> a, live |-> TRUE, message |-> m, prior |-> b]
    OBVIOUS
  <2>8. g \in GrantRow /\ g.attempt = a /\ g.message = m
    BY <2>7 DEF GrantRow
  <2>9. phone' = [phone EXCEPT !.armed = FALSE, !.grant = g]
    BY <1>4, <2>3, <2>6, <2>7
  <2>10. PICK p : p = phone
    OBVIOUS
  <2>11. phone' \in PhoneRow /\ phone'.grant = g /\ phone'.conn = phone.conn
    <3>1. /\ [p EXCEPT !.armed = FALSE, !.grant = g] \in PhoneRow
          /\ [p EXCEPT !.armed = FALSE, !.grant = g].grant = g
          /\ [p EXCEPT !.armed = FALSE, !.grant = g].conn = p.conn
      BY <1>1, <2>8, <2>10 DEF PhoneRow
    <3>. QED  BY <2>9, <2>10, <3>1
  <2>12. phone'.conn # 0
    <3>1. down # <<>>
      BY <1>2
    <3>. QED  BY <2>11, <3>1 DEF LinkInv, ServiceInv
  <2>13. ServiceInv'
    BY <2>5, <2>8, <2>11, <2>12 DEF ServiceInv
  <2>. QED  BY <2>1, <2>2, <2>13
<1>. QED  BY <1>2, <1>3, <1>4

LEMMA SpentPilot ==
  ASSUME pilot \in PilotRow, NEW p, Spendable(p)
  PROVE  Spent(p) \in PilotRow
<1>1. p \in Attempts
  BY DEF Spendable, Approvable
<1>. QED  BY <1>1 DEF Spent, PilotRow

LEMMA ReserveLink ==
  ASSUME LinkInv, Stable, ReserveGrant
  PROVE  ServiceInv' /\ DownInv' /\ pilot' \in PilotRow
<1>1. phone \in PhoneRow /\ pilot \in PilotRow
  BY DEF LinkInv, ServiceInv, SendInv
<1>2. \/ UNCHANGED <<phone, down>> \/ Leave(Lost(phone)) \/ Leave(Stopped(phone))
  BY DEF ReserveGrant
<1>3. ServiceInv' /\ DownInv'
  BY <1>1, <1>2, LostRow, LeaveLink, IdleLink
<1>4. pilot' = pilot \/ (Spendable(phone.grant.prior) /\ pilot' = Spent(phone.grant.prior))
  <2>1. ASSUME phone.grant.prior = "first" PROVE pilot' = pilot
    BY <2>1 DEF ReserveGrant
  <2>2. ASSUME phone.grant.prior # "first", Spendable(phone.grant.prior)
        PROVE  pilot' = Spent(phone.grant.prior)
    BY <2>2 DEF ReserveGrant
  <2>3. ASSUME phone.grant.prior # "first", ~Spendable(phone.grant.prior) PROVE pilot' = pilot
    BY <2>3 DEF ReserveGrant
  <2>. QED  BY <2>1, <2>2, <2>3
<1>. QED  BY <1>1, <1>3, <1>4, SpentPilot

LEMMA PhoneAckLink ==
  ASSUME LinkInv, Stable, PhoneAck
  PROVE  ServiceInv' /\ DownInv'
<1>1. phone \in PhoneRow
  BY DEF LinkInv, ServiceInv
<1>2. down # <<>>
  BY DEF PhoneAck
<1>3. \/ Leave(Stopped(phone))
      \/ down' = Tail(down) /\ phone' = phone
      \/ down' = Tail(down) /\ phone' = [ClearStreak(phone) EXCEPT !.awaiting = NoEvent]
  <2>1. ASSUME ~AckExpected(Head(down).event) PROVE Leave(Stopped(phone))
    BY <2>1 DEF PhoneAck
  <2>2. ASSUME AckExpected(Head(down).event), Head(down).event # phone.awaiting
        PROVE  down' = Tail(down) /\ phone' = phone
    BY <2>2 DEF PhoneAck
  <2>3. ASSUME AckExpected(Head(down).event), Head(down).event = phone.awaiting
        PROVE  down' = Tail(down) /\ phone' = [ClearStreak(phone) EXCEPT !.awaiting = NoEvent]
    BY <2>3, Zenon DEF PhoneAck
  <2>. QED  BY <2>1, <2>2, <2>3
<1>4. CASE Leave(Stopped(phone))
  BY <1>1, <1>4, LostRow, LeaveLink
<1>5. ASSUME down' = Tail(down), NEW p \in PhoneRow, phone' = p,
             p.grant = phone.grant, p.conn = phone.conn
      PROVE  ServiceInv' /\ DownInv'
  <2>1. DownInv'
    BY <1>2, <1>5, FramesRead DEF LinkInv
  <2>. QED  BY <1>2, <1>5, <2>1, StayLink
<1>6. CASE down' = Tail(down) /\ phone' = phone
  BY <1>1, <1>5, <1>6
<1>7. CASE down' = Tail(down) /\ phone' = [ClearStreak(phone) EXCEPT !.awaiting = NoEvent]
  <2>1. PICK q \in PhoneRow : q = ClearStreak(phone)
    BY <1>1, LostRow
  <2>2. q.grant = phone.grant /\ q.conn = phone.conn
    BY <1>1, <2>1, LostRow
  <2>3. PICK p : p = [q EXCEPT !.awaiting = NoEvent]
    OBVIOUS
  <2>4. p \in PhoneRow /\ p.grant = q.grant /\ p.conn = q.conn
    BY <2>1, <2>3 DEF PhoneRow
  <2>. QED  BY <1>5, <1>7, <2>1, <2>2, <2>3, <2>4
<1>. QED  BY <1>3, <1>4, <1>6, <1>7

LEMMA LapseLink ==
  ASSUME LinkInv, Stable, GrantLapses
  PROVE  ServiceInv' /\ DownInv'
<1>1. phone \in PhoneRow
  BY DEF LinkInv, ServiceInv
<1>2. phone.grant \in GrantRow /\ phone.grant # NoGrant
  BY <1>1 DEF GrantLapses, NoGrant, PhoneRow
<1>3. PICK g : g = [phone.grant EXCEPT !.live = FALSE]
  OBVIOUS
<1>4. g \in GrantRow /\ g.attempt = phone.grant.attempt /\ g.message = phone.grant.message
  BY <1>2, <1>3 DEF GrantRow
<1>5. PICK p : p = [phone EXCEPT !.grant = g, !.retire = TRUE]
  OBVIOUS
<1>6. p \in PhoneRow /\ p.grant = g /\ p.conn = phone.conn
  BY <1>1, <1>4, <1>5 DEF PhoneRow
<1>7. phone' = p
  BY <1>1, <1>3, <1>5 DEF GrantLapses, PhoneRow
<1>8. down' = down
  BY DEF GrantLapses, hubVars
<1>9. ServiceInv'
  BY <1>2, <1>4, <1>6, <1>7, <1>8, ServiceSet DEF LinkInv, ServiceInv
<1>. QED  BY <1>8, <1>9, FramesSame DEF LinkInv


\* An event the outbox offers was written.
LEMMA OfferedIsWritten ==
  ASSUME Kept, NEW e \in PhoneEvent, status'[e] = "pending"
  PROVE  Written(e)'
<1>1. e[1] \in Attempts /\ e[2] \in PhoneEvidence /\ e = <<e[1], e[2]>>
  BY EventNames
<1>2. AttemptSound(e[1])'
  BY <1>1 DEF Kept
<1>3. journal'[e[1]].state # "absent"
  <2>1. journal'[e[1]].state = "absent" => status'[<<e[1], e[2]>>] = "none"
    BY <1>1, <1>2 DEF AttemptSound
  <2>. QED  BY <1>1, <2>1
<1>4. e[2] = "proven_no_submit" => journal'[e[1]].state = "not_submitted"
  <2>1. status'[<<e[1], "proven_no_submit">>] # "none" => journal'[e[1]].state = "not_submitted"
    BY <1>2 DEF AttemptSound, Proof
  <2>. QED  BY <1>1, <2>1
<1>5. e[2] \in CallEvidence => radio'[e[1]] > 0
  <2>1. e[2] \in CallEvidence /\ status'[<<e[1], e[2]>>] # "none" => radio'[e[1]] > 0
    BY <1>2 DEF AttemptSound
  <2>. QED  BY <1>1, <2>1
<1>. QED  BY <1>3, <1>4, <1>5 DEF Written

LEMMA PumpLink ==
  ASSUME LinkInv, Stable, Kept, Pump
  PROVE  ServiceInv' /\ DownInv' /\ UpInv'
<1>1. phone \in PhoneRow /\ down' = down /\ phone.conn \in Epochs
  <2>1. phone \in PhoneRow
    BY DEF LinkInv, ServiceInv
  <2>2. phone.conn \in 0..MaxEpoch /\ phone.conn # 0
    BY <2>1 DEF Pump, PhoneRow
  <2>3. phone.conn \in Epochs
    BY <2>2, StoreAssumption DEF Epochs
  <2>4. down' = down
    BY DEF Pump
  <2>. QED  BY <2>1, <2>3, <2>4
<1>2. DownInv'
  BY <1>1, FramesSame DEF LinkInv
<1>3. \/ phone' = [phone EXCEPT !.retire = FALSE] /\ UNCHANGED up
      \/ \E e \in PhoneEvent :
           /\ status'[e] = "pending"
           /\ up' = [up EXCEPT ![phone.conn] = Append(up[phone.conn], e)]
           /\ phone' = [phone EXCEPT !.retire = FALSE, !.awaiting = e]
  BY DEF Pump, NextAlphaEvent
<1>4. CASE phone' = [phone EXCEPT !.retire = FALSE] /\ UNCHANGED up
  <2>1. PICK p : p = [phone EXCEPT !.retire = FALSE]
    OBVIOUS
  <2>2. p \in PhoneRow /\ p.grant = phone.grant /\ p.conn = phone.conn
    BY <1>1, <2>1 DEF PhoneRow
  <2>. QED  BY <1>1, <1>2, <1>4, <2>1, <2>2, StayLink, UpSame DEF LinkInv
<1>5. ASSUME NEW e \in PhoneEvent, status'[e] = "pending",
             up' = [up EXCEPT ![phone.conn] = Append(up[phone.conn], e)],
             phone' = [phone EXCEPT !.retire = FALSE, !.awaiting = e]
      PROVE  ServiceInv' /\ DownInv' /\ UpInv'
  <2>1. PICK p : p = [phone EXCEPT !.retire = FALSE, !.awaiting = e]
    OBVIOUS
  <2>2. p \in PhoneRow /\ p.grant = phone.grant /\ p.conn = phone.conn
    BY <1>1, <2>1 DEF PhoneRow
  <2>3. ServiceInv'
    BY <1>1, <1>2, <1>5, <2>1, <2>2, StayLink
  <2>4. Written(e)' /\ \A x : Written(x) => Written(x)'
    BY <1>5, OfferedIsWritten DEF Stable
  <2>5. /\ up' \in [Epochs -> Seq(PhoneEvent)]
        /\ \A c \in Epochs : \A i \in 1..Len(up'[c]) :
             (i \in 1..Len(up[c]) /\ up'[c][i] = up[c][i]) \/ up'[c][i] = e
    <3>1. up \in [Epochs -> Seq(PhoneEvent)]
      BY DEF LinkInv, UpInv
    <3>2. PICK s : s = Append(up[phone.conn], e)
      OBVIOUS
    <3>3. /\ s \in Seq(PhoneEvent)
          /\ \A i \in 1..Len(s) : (i \in 1..Len(up[phone.conn]) /\ s[i] = up[phone.conn][i]) \/ s[i] = e
      BY <1>1, <3>1, <3>2
    <3>4. up' = [up EXCEPT ![phone.conn] = s]
      BY <1>5, <3>2
    <3>. QED  BY <1>1, <3>1, <3>3, <3>4
  <2>6. ASSUME NEW c \in Epochs, NEW i \in 1..Len(up'[c]) PROVE Written(up[c][i])'
    <3>1. PICK x : x = up'[c][i]
      OBVIOUS
    <3>2. x = e \/ Written(x)
      BY <2>5, <2>6, <3>1 DEF LinkInv, UpInv
    <3>3. Written(x)'
      BY <2>4, <3>2
    <3>. QED  BY <3>1, <3>3
  <2>. QED  BY <1>2, <2>3, <2>5, <2>6 DEF UpInv
<1>. QED  BY <1>3, <1>4, <1>5

LEMMA PhoneCloseLink ==
  ASSUME LinkInv, Stable, PhoneClose
  PROVE  ServiceInv' /\ DownInv'
<1>1. phone \in PhoneRow
  BY DEF LinkInv, ServiceInv
<1>. DEFINE e == phone.awaiting
            count == IF phone.streak.event = e THEN phone.streak.count + 1 ELSE 1
<1>2. PICK i \in 1..Len(down) :
           \/ \E c : Leave(ClearStreak(AfterClose(phone, c)))
           \/ /\ e # NoEvent /\ UNCHANGED down
              /\ phone' = [phone EXCEPT !.closing = [event |-> e, epoch |-> phone.conn]]
           \/ /\ e # NoEvent /\ ~(count >= CloseLimit)
              /\ Leave([Lost(phone) EXCEPT !.streak = [event |-> e, count |-> count]])
  BY DEF PhoneClose, QuarantineDue
<1>3. ASSUME NEW c, Leave(ClearStreak(AfterClose(phone, c))) PROVE ServiceInv' /\ DownInv'
  <2>1. PICK q \in PhoneRow : q = AfterClose(phone, c) /\ q.grant = NoGrant
    BY <1>1, LostRow DEF AfterClose
  <2>. QED  BY <1>3, <2>1, LostRow, LeaveLink
<1>4. CASE /\ e # NoEvent /\ UNCHANGED down
           /\ phone' = [phone EXCEPT !.closing = [event |-> e, epoch |-> phone.conn]]
  <2>1. down # <<>> /\ e \in PhoneEvent
    BY <1>1, <1>2, <1>4 DEF PhoneRow
  <2>2. phone.conn \in Epochs
    BY <1>1, <2>1, StoreAssumption DEF LinkInv, ServiceInv, PhoneRow, Epochs
  <2>3. PICK x : x = [event |-> e, epoch |-> phone.conn]
    OBVIOUS
  <2>4. x \in [event: PhoneEvent, epoch: Epochs]
    BY <2>1, <2>2, <2>3
  <2>5. PICK p : p = [phone EXCEPT !.closing = x]
    OBVIOUS
  <2>6. p \in PhoneRow /\ p.grant = phone.grant /\ p.conn = phone.conn
    BY <1>1, <2>4, <2>5 DEF PhoneRow
  <2>7. DownInv'
    BY <1>4, FramesSame DEF LinkInv
  <2>. QED  BY <1>4, <2>3, <2>5, <2>6, <2>7, StayLink
<1>5. CASE /\ e # NoEvent /\ ~(count >= CloseLimit)
           /\ Leave([Lost(phone) EXCEPT !.streak = [event |-> e, count |-> count]])
  <2>1. e \in PhoneEvent
    BY <1>1, <1>2, <1>5 DEF PhoneRow
  <2>2. count \in 1..(CloseLimit - 1)
    <3>1. phone.streak.event = e => phone.streak.count \in Nat
      BY <1>1, GatewayAssumption DEF PhoneRow, NoStreak
    <3>. QED  BY <1>2, <1>5, <3>1, GatewayAssumption
  <2>3. PICK x : x = [event |-> e, count |-> count]
    OBVIOUS
  <2>4. x \in [event: PhoneEvent, count: 1..(CloseLimit - 1)]
    BY <2>1, <2>2, <2>3
  <2>5. PICK q \in PhoneRow : q = Lost(phone) /\ q.grant = NoGrant
    BY <1>1, LostRow
  <2>6. PICK p : p = [q EXCEPT !.streak = x]
    OBVIOUS
  <2>7. p \in PhoneRow /\ p.grant = q.grant
    BY <2>4, <2>5, <2>6 DEF PhoneRow
  <2>. QED  BY <1>5, <2>3, <2>5, <2>6, <2>7, LeaveLink
<1>. QED  BY <1>2, <1>3, <1>4, <1>5

LEMMA QuarantineLink ==
  ASSUME LinkInv, Stable, Quarantine
  PROVE  ServiceInv' /\ DownInv'
<1>1. phone \in PhoneRow
  BY DEF LinkInv, ServiceInv
<1>2. PICK q \in PhoneRow : q = ClearStreak(phone) /\ q.grant = phone.grant /\ q.conn = phone.conn
  BY <1>1, LostRow
<1>3. PICK p \in PhoneRow : p = [q EXCEPT !.closing = NoClosing] /\ p.grant = q.grant /\ p.conn = q.conn
  BY <1>2, LostRow
<1>4. \/ phone' = p /\ UNCHANGED down
      \/ Leave(Lost(p)) \/ Leave(Stopped(p))
  BY <1>2, <1>3 DEF Quarantine
<1>5. CASE phone' = p /\ UNCHANGED down
  <2>1. DownInv'
    BY <1>5, FramesSame DEF LinkInv
  <2>. QED  BY <1>2, <1>3, <1>5, <2>1, StayLink
<1>6. CASE Leave(Lost(p)) \/ Leave(Stopped(p))
  BY <1>3, <1>6, LostRow, LeaveLink
<1>. QED  BY <1>4, <1>5, <1>6


\* A new connection: the hub's task of it starts idle.
LEMMA ConnectLink ==
  ASSUME StoreInv, LinkInv, Stable, NEW p \in PhoneRow, NEW armed \in BOOLEAN, Connect(p, armed)
  PROVE  TasksInv' /\ ServiceInv' /\ DownInv'
<1>1. PICK e \in Epochs : e = session[Phone].epoch + 1
  <2>1. session[Phone].epoch \in 0..MaxEpoch /\ session[Phone].epoch < MaxEpoch
    BY GatewayAssumption DEF Connect, ConnectSession, StoreInv, StoreTypeOK
  <2>. QED  BY <2>1, StoreAssumption DEF Epochs
<1>2. task' = [task EXCEPT ![e] = [NoTask EXCEPT !.pc = "idle", !.armed = armed]]
  BY <1>1 DEF Connect
<1>3. TasksInv'
  BY <1>2, TaskCleared DEF LinkInv
<1>4. PICK q \in PhoneRow : q = Lost(p) /\ q.grant = NoGrant
  BY LostRow
<1>5. PICK s : s = [q EXCEPT !.conn = e, !.armed = armed, !.retire = TRUE]
  OBVIOUS
<1>6. s \in PhoneRow /\ s.grant = NoGrant
  <2>1. e \in 0..MaxEpoch
    BY StoreAssumption DEF Epochs
  <2>. QED  BY <1>4, <1>5, <2>1 DEF PhoneRow
<1>7. phone' = s /\ down' = <<>>
  BY <1>1, <1>4, <1>5 DEF Connect, SessionOpened
<1>8. Leave(s)
  BY <1>7 DEF Leave
<1>. QED  BY <1>3, <1>6, <1>8, LeaveLink

LEMMA LinkStepLink ==
  ASSUME StoreInv, LinkInv, Stable, LinkStep
  PROVE  TasksInv' /\ UpInv' /\ ServiceInv' /\ DownInv'
<1>1. phone \in PhoneRow
  BY DEF LinkInv, ServiceInv
<1>2. UNCHANGED up
  BY DEF LinkStep, Start, Reconnect, Connect, Disconnect, Crash
<1>3. UpInv'
  BY <1>2, UpSame DEF LinkInv
<1>4. CASE Start
  <2>1. PICK armed \in BOOLEAN : Connect([ClearStreak(phone) EXCEPT !.running = TRUE], armed)
    BY <1>4 DEF Start
  <2>2. PICK q \in PhoneRow : q = ClearStreak(phone)
    BY <1>1, LostRow
  <2>3. [q EXCEPT !.running = TRUE] \in PhoneRow
    BY <2>2 DEF PhoneRow
  <2>. QED  BY <1>3, <2>1, <2>2, <2>3, ConnectLink
<1>5. CASE Reconnect
  BY <1>1, <1>3, <1>5, ConnectLink DEF Reconnect
<1>6. CASE Disconnect
  <2>1. UNCHANGED task /\ (Leave(Lost(phone)) \/ Leave(ClearStreak(Stopped(phone))))
    BY <1>6 DEF Disconnect
  <2>2. TasksInv'
    BY <2>1, TasksSame DEF LinkInv
  <2>3. PICK q \in PhoneRow : q = Stopped(phone) /\ q.grant = NoGrant
    BY <1>1, LostRow
  <2>4. ServiceInv' /\ DownInv'
    BY <1>1, <2>1, <2>3, LostRow, LeaveLink
  <2>. QED  BY <1>3, <2>2, <2>4
<1>7. CASE Crash
  <2>1. UNCHANGED task /\ Leave([ClearStreak(Stopped(phone)) EXCEPT !.closing = NoClosing])
    BY <1>7 DEF Crash
  <2>2. TasksInv'
    BY <2>1, TasksSame DEF LinkInv
  <2>3. PICK q \in PhoneRow : q = Stopped(phone) /\ q.grant = NoGrant
    BY <1>1, LostRow
  <2>4. PICK r \in PhoneRow : r = ClearStreak(q) /\ r.grant = NoGrant
    BY <2>3, LostRow
  <2>5. [r EXCEPT !.closing = NoClosing] \in PhoneRow /\ [r EXCEPT !.closing = NoClosing].grant = NoGrant
    BY <2>4, LostRow
  <2>6. ServiceInv' /\ DownInv'
    BY <2>1, <2>3, <2>4, <2>5, LeaveLink
  <2>. QED  BY <1>3, <2>2, <2>6
<1>. QED  BY <1>4, <1>5, <1>6, <1>7 DEF LinkStep

\* The journal thread and the socket thread, whatever they do.
LEMMA PhoneLink ==
  ASSUME LinkInv, Stable, Kept, PhoneStep(Reports)
  PROVE  TasksInv' /\ UpInv' /\ ServiceInv' /\ DownInv'
<1>. USE DEF phoneVars, hubVars
<1>1. UNCHANGED task
  BY DEF PhoneStep, PhoneGrant, ReserveGrant, PhoneAck, Pump, GrantLapses, PhoneClose, Quarantine,
         SendRefused, SendConsumes, SendFinishes, Stall, Callback
<1>2. TasksInv'
  BY <1>1, TasksSame DEF LinkInv
<1>3. UNCHANGED up => UpInv'
  BY UpSame DEF LinkInv
<1>4. CASE PhoneGrant
  BY <1>2, <1>3, <1>4, GrantFrameLink DEF PhoneGrant
<1>5. CASE ReserveGrant
  BY <1>2, <1>3, <1>5, ReserveLink DEF ReserveGrant
<1>6. CASE PhoneAck
  BY <1>2, <1>3, <1>6, PhoneAckLink DEF PhoneAck
<1>7. CASE Pump
  BY <1>2, <1>7, PumpLink
<1>8. CASE GrantLapses
  BY <1>2, <1>3, <1>8, LapseLink DEF GrantLapses
<1>9. CASE PhoneClose
  BY <1>2, <1>3, <1>9, PhoneCloseLink DEF PhoneClose
<1>10. CASE Quarantine
  BY <1>2, <1>3, <1>10, QuarantineLink DEF Quarantine
<1>11. ASSUME UNCHANGED <<phone, up, down>> PROVE TasksInv' /\ UpInv' /\ ServiceInv' /\ DownInv'
  BY <1>2, <1>3, <1>11, IdleLink
<1>12. CASE SendRefused \/ SendConsumes \/ SendFinishes
  BY <1>11, <1>12 DEF SendRefused, SendConsumes, SendFinishes
<1>13. ASSUME NEW a \in Attempts, Stall(a) \/ \E r \in Reports : Callback(a, r)
       PROVE  TasksInv' /\ UpInv' /\ ServiceInv' /\ DownInv'
  BY <1>11, <1>13 DEF Stall, Callback
<1>. QED
  BY <1>4, <1>5, <1>6, <1>7, <1>8, <1>9, <1>10, <1>12, <1>13 DEF PhoneStep


\* The sender is handed an attempt the phone holds the grant of, on its connection.
LEMMA QueuedRow ==
  ASSUME LinkInv, PhoneAck, sender' # sender
  PROVE  sender' \in SendRow
<1>1. Head(down) \in Frame /\ Head(down) = down[1] /\ 1 \in 1..Len(down) /\ Head(down).type = "ack"
  BY DEF PhoneAck, LinkInv, DownInv
<1>2. Head(down).event \in PhoneEvent
  BY <1>1, LinkTypes
<1>3. PICK a \in Attempts : a = Head(down).event[1]
  BY <1>2, EventNames
<1>4. /\ sender' = [pc |-> "queued", attempt |-> a, epoch |-> phone.conn, prior |-> phone.grant.prior]
      /\ phone.grant.attempt = a
  <2>1. AckExpected(Head(down).event) /\ Head(down).event = phone.awaiting
    BY DEF PhoneAck
  <2>. QED  BY <1>3, <2>1 DEF PhoneAck
<1>5. phone.grant # NoGrant /\ phone \in PhoneRow
  BY <1>4, LinkTypes DEF LinkInv, ServiceInv
<1>6. phone.grant.prior \in Attempts \union {"first", "none"}
  BY <1>5 DEF PhoneRow, GrantRow
<1>7. phone.conn \in Epochs
  <2>1. phone.conn # 0 /\ phone.conn \in 0..MaxEpoch
    BY <1>1, <1>5 DEF LinkInv, ServiceInv, PhoneRow
  <2>. QED  BY <2>1, StoreAssumption DEF Epochs
<1>. QED  BY <1>4, <1>6, <1>7 DEF SendRow

LEMMA SendStep ==
  ASSUME LinkInv, Stable, [GatewayNext]_vars
  PROVE  SendInv'
<1>. USE DEF phoneVars, hubVars
<1>1. sender \in SendRow \union {IdleSend} /\ pilot \in PilotRow
  BY DEF LinkInv, SendInv
<1>2. ASSUME NEW e \in Epochs, Server(e) PROVE SendInv'
  <2>1. UNCHANGED <<sender, pilot>>
    BY <1>2 DEF Server, ServerReceive, ServerRecord, ServerRefuse, ServerAnswer, ServerClaim,
                ServerGrant, ServerConfirm, ServerGiveUp, ServerRelease, ServerDies
  <2>. QED  BY <1>1, <2>1 DEF SendInv
<1>3. ASSUME OwnerStep PROVE SendInv'
  <2>1. UNCHANGED sender /\ \E a \in Attempts \union {"none"} : pilot' = [pilot EXCEPT !.approved = a]
    BY <1>3 DEF OwnerStep, ApprovalLapses, Approve
  <2>2. pilot' \in PilotRow
    BY <1>1, <2>1 DEF PilotRow
  <2>. QED  BY <1>1, <2>1, <2>2 DEF SendInv
<1>4. ASSUME LinkStep \/ Others \/ UNCHANGED vars PROVE SendInv'
  <2>1. UNCHANGED pilot /\ sender' \in {sender, IdleSend}
    BY <1>4 DEF LinkStep, Start, Reconnect, Connect, Disconnect, Crash, Others, vars
  <2>. QED  BY <1>1, <2>1 DEF SendInv
<1>5. ASSUME PhoneGrant \/ ReserveGrant PROVE SendInv'
  <2>1. UNCHANGED sender
    BY <1>5 DEF PhoneGrant, ReserveGrant
  <2>2. pilot' \in PilotRow
    BY <1>5, GrantFrameLink, ReserveLink
  <2>. QED  BY <1>1, <2>1, <2>2 DEF SendInv
<1>6. ASSUME PhoneAck PROVE SendInv'
  <2>1. UNCHANGED pilot
    BY <1>6 DEF PhoneAck
  <2>. QED  BY <1>1, <1>6, <2>1, QueuedRow DEF SendInv
<1>7. ASSUME SendConsumes PROVE SendInv'
  <2>1. UNCHANGED pilot /\ sender.pc = "queued" /\ sender' = [sender EXCEPT !.pc = "consumed"]
    BY <1>7 DEF SendConsumes
  <2>2. sender \in SendRow
    BY <1>1, <2>1 DEF IdleSend
  <2>3. sender' \in SendRow
    BY <2>1, <2>2 DEF SendRow
  <2>. QED  BY <1>1, <2>1, <2>3 DEF SendInv
<1>8. ASSUME Pump \/ GrantLapses \/ PhoneClose \/ Quarantine \/ SendRefused \/ SendFinishes
      PROVE  SendInv'
  <2>1. UNCHANGED pilot /\ sender' \in {sender, IdleSend}
    BY <1>8 DEF Pump, GrantLapses, PhoneClose, Quarantine, SendRefused, SendFinishes
  <2>. QED  BY <1>1, <2>1 DEF SendInv
<1>9. ASSUME NEW a \in Attempts, Stall(a) \/ \E r \in Reports : Callback(a, r) PROVE SendInv'
  <2>1. UNCHANGED <<sender, pilot>>
    BY <1>9 DEF Stall, Callback
  <2>. QED  BY <1>1, <2>1 DEF SendInv
<1>10. ASSUME PhoneStep(Reports) PROVE SendInv'
  BY <1>5, <1>6, <1>7, <1>8, <1>9, <1>10 DEF PhoneStep
<1>. QED  BY <1>2, <1>3, <1>4, <1>10 DEF GatewayNext

\* A row of the journal is written for the grant, and keeps its message.
LEMMA RowsNamedStep ==
  ASSUME PhoneInv, LinkInv, Stable, Kept, Entered
  PROVE  RowsNamed'
<1>. SUFFICES ASSUME NEW a \in Attempts, journal'[a].state # "absent"
              PROVE  attempt'[a].message = journal'[a].message
  BY DEF RowsNamed
<1>1. CASE journal[a].state # "absent"
  <2>1. journal'[a].message = journal[a].message
    BY <1>1 DEF Kept, Lasts
  <2>2. attempt[a].message = journal[a].message
    BY <1>1 DEF LinkInv, RowsNamed
  <2>3. journal[a] \in JournalRow
    BY <1>1, RowExists DEF PhoneInv, JournalShape
  <2>4. journal[a].message \in Messages
    BY <2>3 DEF JournalRow
  <2>. QED  BY <2>1, <2>2, <2>4 DEF Stable
<1>2. CASE journal[a].state = "absent"
  <2>1. phone.grant # NoGrant /\ a = phone.grant.attempt /\ journal'[a].message = phone.grant.message
    BY <1>2 DEF Entered
  <2>2. attempt[a].message = phone.grant.message /\ phone.grant.message \in Messages
    BY <2>1, LinkTypes DEF LinkInv, ServiceInv
  <2>. QED  BY <2>1, <2>2 DEF Stable
<1>. QED  BY <1>1, <1>2

\* device_sessions is written by the handshake and the release only.
LEMMA LeaseStep ==
  ASSUME StoreInv, LeaseInv, [StoreNext]_storeVars
  PROVE  LeaseInv'
<1>. USE DEF controlVars
<1>1. session \in [Devices -> SessionRow] /\ Phone \in Devices
  BY GatewayAssumption DEF StoreInv, StoreTypeOK
<1>2. ASSUME NEW d \in Devices, ConnectSession(d) PROVE LeaseInv'
  <2>1. PICK n : n = session[d].epoch + 1
    OBVIOUS
  <2>2. n # 0
    BY <1>1, <2>1
  <2>3. session' = [session EXCEPT ![d] = [epoch |-> n, deployment |-> authority.epoch, live |-> TRUE]]
    BY <1>1, <1>2, <2>1 DEF ConnectSession
  <2>. QED  BY <1>1, <2>2, <2>3 DEF LeaseInv
<1>3. ASSUME NEW d \in Devices, NEW e, EndLease(d, e) PROVE LeaseInv'
  <2>1. session' = [session EXCEPT ![d].live = FALSE]
    BY <1>3 DEF EndLease
  <2>. QED  BY <1>1, <2>1 DEF LeaseInv
<1>4. ASSUME UNCHANGED session PROVE LeaseInv'
  BY <1>4 DEF LeaseInv
<1>5. Tenant => UNCHANGED session
  BY DEF Tenant, Accept, AcceptReplayNewKey, AcceptCreate, Cancel, Suppress, Resume
<1>6. ASSUME NEW m \in Messages, NEW e \in 1..MaxEpoch
      PROVE  /\ ClaimDue(m, e) => UNCHANGED session
             /\ \A g \in 1..MaxGeneration :
                  /\ GrantSuppressed(m, g, e) => UNCHANGED session
                  /\ \A a \in Attempts : IssueGrant(m, g, e, a) => UNCHANGED session
  BY DEF ClaimDue, GrantSuppressed, IssueGrant
<1>7. \A v \in RadioEvent : RecordRadioEvent(v) => UNCHANGED session
  BY DEF RecordRadioEvent
<1>8. Hub => LeaseInv'
  BY <1>2, <1>3, <1>4, <1>6, <1>7 DEF Hub
<1>9. Recovery => UNCHANGED session
  BY DEF Recovery, ExpireDue, ReconcileSilentAttempt, ReconcileDeliveryTimeout, Sweep
<1>10. Retention \/ Passage \/ ChangeAuthority => UNCHANGED session
  BY DEF Retention, PruneKey, RedactMessage, PruneEvent, Passage, MessageExpires, ClaimLapses,
         GrantExpires, KeyExpires, MonthEnds, ChangeAuthority
<1>14. ASSUME NEW d \in Devices, Revoke(d)
       PROVE  LeaseInv'
  <2>1. session' = [session EXCEPT ![d].live = FALSE]
    BY <1>14 DEF Revoke
  <2>. QED  BY <1>1, <2>1 DEF LeaseInv
<1>11. UNCHANGED storeVars => UNCHANGED session
  BY DEF storeVars
<1>. QED  BY <1>4, <1>5, <1>8, <1>9, <1>10, <1>11, <1>14 DEF StoreNext, Operator


-----------------------------------------------------------------------------
(***************************************************************************)
(* The invariant holds.                                                    *)
(***************************************************************************)

LEMMA LinkInvStep ==
  ASSUME StoreInv, PhoneInv, LinkInv, [GatewayNext]_vars, [StoreNext]_storeVars, Stable, Kept, Entered
  PROVE  LinkInv'
<1>. USE DEF phoneVars, hubVars
<1>. DEFINE Goal == TasksInv' /\ UpInv' /\ DownInv' /\ ServiceInv'
<1>1. ASSUME UNCHANGED <<phone, up, down, task>> PROVE Goal
  BY <1>1, TasksSame, UpSame, IdleLink DEF LinkInv
<1>2. ASSUME OwnerStep \/ Others \/ UNCHANGED vars PROVE Goal
  <2>1. UNCHANGED <<phone, up, down, task>>
    BY <1>2 DEF OwnerStep, ApprovalLapses, Approve, Others, vars
  <2>. QED  BY <1>1, <2>1
<1>3. ASSUME NEW e \in Epochs, Server(e) PROVE Goal
  <2>1. UNCHANGED phone
    BY <1>3 DEF Server, ServerReceive, ServerRecord, ServerRefuse, ServerAnswer, ServerClaim,
                ServerGrant, ServerConfirm, ServerGiveUp, ServerRelease, ServerDies
  <2>2. TasksInv' /\ UpInv' /\ DownInv' /\ (phone.conn = 0 => down' = <<>>)
    BY <1>3, ServerLink
  <2>3. phone \in PhoneRow
    BY DEF LinkInv, ServiceInv
  <2>4. ServiceInv'
    BY <2>1, <2>2, <2>3, ServiceSet DEF LinkInv
  <2>. QED  BY <2>2, <2>4
<1>4. ASSUME PhoneStep(Reports) PROVE Goal
  BY <1>4, PhoneLink
<1>5. ASSUME LinkStep PROVE Goal
  BY <1>5, LinkStepLink
<1>. HIDE DEF Goal
<1>6. Goal
  BY <1>2, <1>3, <1>4, <1>5 DEF GatewayNext
<1>7. SendInv' /\ RowsNamed' /\ LeaseInv'
  BY SendStep, RowsNamedStep, LeaseStep DEF LinkInv
<1>. QED  BY <1>6, <1>7 DEF Goal, LinkInv

\* The inductive invariant of phone, link and hub.
GatewayInv == StoreInv /\ PhoneInv /\ LinkInv /\ HubSound

LEMMA GatewayInitInv == GatewayInit => GatewayInv
<1>. SUFFICES ASSUME GatewayInit PROVE GatewayInv
  OBVIOUS
<1>1. StoreInv
  BY InitInv DEF GatewayInit
<1>2. /\ journal = [a \in Attempts |-> NoRow] /\ status = [e \in PhoneEvent |-> "none"]
      /\ radio = [a \in Attempts |-> 0] /\ sender = IdleSend
  BY DEF GatewayInit, JournalInit
<1>3. PhoneInv
  <2>1. JournalShape
    BY <1>2 DEF JournalShape
  <2>2. ASSUME NEW a \in Attempts PROVE AttemptSound(a)
    <3>1. /\ journal[a].state = "absent" /\ radio[a] = 0 /\ sender.attempt # a
      BY <1>2, StoreAssumption DEF NoRow, IdleSend
    <3>2. \A ev \in PhoneEvidence : status[<<a, ev>>] = "none"
      BY <1>2, EventNames
    <3>3. status[Proof(a)] = "none"
      BY <1>2, EventNames
    <3>. QED  BY <3>1, <3>2, <3>3, EvidenceNames DEF AttemptSound
  <2>. QED  BY <2>1, <2>2 DEF PhoneInv
<1>4. LinkInv
  <2>1. TasksInv
    <3>1. PICK t : t = NoTask
      OBVIOUS
    <3>2. t \in TaskRow /\ t.pc = "off"
      BY <3>1, StoreAssumption DEF NoTask, TaskRow
    <3>3. TaskSound(t)
      BY <3>2 DEF TaskSound
    <3>. QED  BY <3>1, <3>2, <3>3 DEF GatewayInit, TasksInv
  <2>2. UpInv
    BY DEF GatewayInit, UpInv
  <2>3. DownInv
    BY DEF GatewayInit, DownInv
  <2>4. ServiceInv
    <3>1. /\ down = <<>>
          /\ phone = [running |-> FALSE, conn |-> 0, armed |-> FALSE, grant |-> NoGrant,
              awaiting |-> NoEvent, retire |-> FALSE, closing |-> NoClosing,
              streak |-> NoStreak]
      BY DEF GatewayInit
    <3>2. phone \in PhoneRow
      BY <3>1, StoreAssumption DEF PhoneRow
    <3>3. phone.grant = NoGrant
      BY <3>1
    <3>. QED  BY <3>1, <3>2, <3>3 DEF ServiceInv
  <2>5. SendInv
    BY <1>2 DEF GatewayInit, SendInv, PilotRow
  <2>6. RowsNamed
    BY <1>2 DEF RowsNamed, NoRow
  <2>7. LeaseInv
    BY GatewayAssumption DEF GatewayInit, StoreInit, LeaseInv
  <2>. QED  BY <2>1, <2>2, <2>3, <2>4, <2>5, <2>6, <2>7 DEF LinkInv
<1>5. HubSound
  <2>1. /\ events = {} /\ \A a \in Attempts : attempt[a].status # "proved_no_submit"
        /\ \A m \in Messages : state[m] = "absent"
    BY DEF GatewayInit, StoreInit, NoAttempt
  <2>2. \A a \in Attempts : journal[a].state \in Uncalled
    BY <1>2 DEF NoRow, Uncalled
  <2>. QED  BY <2>1, <2>2 DEF HubSound
<1>. QED  BY <1>1, <1>3, <1>4, <1>5 DEF GatewayInv

\* One step of phone, link or hub: what it keeps of the journal, what it does to the
\* store, and with both the rest.
LEMMA GatewayNextInv ==
  ASSUME GatewayInv, [GatewayNext]_vars
  PROVE  GatewayInv' /\ Kept /\ [StoreNext]_storeVars
<1>. USE DEF GatewayInv
<1>1. Kept /\ Entered
  BY GatewayKept
<1>2. [StoreNext]_storeVars /\ Heard
  BY StoreSide
<1>3. StoreInv'
  BY <1>2, NextInv
<1>4. Stable
  BY <1>1, <1>2, StaysStable
<1>5. PhoneInv'
  BY <1>1 DEF Kept, PhoneInv
<1>6. LinkInv'
  BY <1>1, <1>2, <1>4, LinkInvStep
<1>7. HubSound'
  BY <1>1, <1>2, <1>3, <1>4, HubSoundStep
<1>. QED  BY <1>1, <1>2, <1>3, <1>5, <1>6, <1>7


\* Journal, outbox, radio, sender, link, hub tasks and delivery store agree between
\* any two transactions of phone and hub: the invariant the theorems rest on.
THEOREM GatewayInvariant == GatewaySpec => []GatewayInv
<1>1. GatewayInv /\ [GatewayNext]_vars => GatewayInv'
  BY GatewayNextInv
<1>. QED  BY <1>1, GatewayInitInv, PTL DEF GatewaySpec

\* Service, sender, approval marker, frames in flight and the hub's tasks keep their
\* shape under every interleaving of the phone's threads and the hub.
THEOREM GatewayWellFormed == GatewaySpec => []GatewayTypeOK
<1>1. GatewayInv => GatewayTypeOK
  BY DEF GatewayInv, LinkInv, TasksInv, UpInv, ServiceInv, SendInv, GatewayTypeOK
<1>. QED  BY <1>1, GatewayInvariant, PTL

\* device_socket only ever uses the delivery store through its transactions: what is
\* proved of the store alone holds of it with a phone attached.
THEOREM GatewayRunsStore == GatewaySpec => StoreSpec
<1>1. GatewayInit => StoreInit
  BY DEF GatewayInit
<1>2. GatewayInv /\ [GatewayNext]_vars => [StoreNext]_storeVars
  BY GatewayNextInv
<1>. QED  BY <1>1, <1>2, GatewayInvariant, PTL DEF GatewaySpec, StoreSpec

-----------------------------------------------------------------------------
(***************************************************************************)
(* The radio.                                                              *)
(***************************************************************************)

\* An attempt that was called still holds the fence of its message at the hub.
LEMMA CalledHoldsFence ==
  ASSUME GatewayInv, NEW a \in Attempts, radio[a] > 0
  PROVE  /\ journal[a].state \notin Uncalled /\ journal[a].message \in Messages
         /\ fence[journal[a].message].attempt = a
<1>1. journal[a].state \notin Uncalled /\ journal[a].state # "absent"
  <2>1. AttemptSound(a)
    BY DEF GatewayInv, PhoneInv
  <2>2. journal[a].state \in Uncalled => radio[a] = 0
    BY <2>1 DEF AttemptSound
  <2>3. journal[a].state \notin Uncalled
    BY <2>2
  <2>. QED  BY <2>3 DEF Uncalled
<1>2. journal[a] \in JournalRow
  BY <1>1, RowExists DEF GatewayInv, PhoneInv, JournalShape
<1>3. journal[a].message \in Messages
  BY <1>2 DEF JournalRow
<1>4. attempt[a].message = journal[a].message
  BY <1>1 DEF GatewayInv, LinkInv, RowsNamed
<1>5. attempt[a] # NoAttempt
  BY <1>3, <1>4, StoreAssumption DEF NoAttempt
<1>6. attempt[a].status # "proved_no_submit"
  BY <1>1 DEF GatewayInv, HubSound, Uncalled
<1>7. ReplacedOnlyAfterProof
  BY DEF GatewayInv, StoreInv, RowsInv
<1>. QED  BY <1>1, <1>3, <1>4, <1>5, <1>6, <1>7 DEF ReplacedOnlyAfterProof

\* AuthenticatedGatewayService never asks the radio twice for an attempt, and no two
\* attempts of a message are ever both sent, through lost connections, repeated
\* acknowledgements, expired grants and restarts of either side.
THEOREM NoSecondCall == GatewaySpec => []AtMostOnceRadio
<1>1. ASSUME GatewayInv PROVE AtMostOnceRadio
  <2>1. ASSUME NEW a \in Attempts PROVE radio[a] <= 1
    <3>1. AttemptSound(a)
      BY <1>1 DEF GatewayInv, PhoneInv
    <3>2. radio[a] \in {0, 1}
      BY <3>1 DEF AttemptSound
    <3>. QED  BY <3>2
  <2>2. ASSUME NEW a \in Attempts, NEW b \in Attempts, a # b, radio[a] > 0, radio[b] > 0
        PROVE  journal[a].message # journal[b].message
    BY <1>1, <2>2, CalledHoldsFence
  <2>. QED  BY <2>1, <2>2 DEF AtMostOnceRadio
<1>. QED  BY <1>1, GatewayInvariant, PTL

\* recordNoRadioProof is the truth: an attempt whose proof was written on the phone or
\* recorded at the hub was not called, and the sender does not hold it.
THEOREM ProofsAreTrue == GatewaySpec => []ProofMeansNoRadio
<1>1. ASSUME GatewayInv PROVE ProofMeansNoRadio
  <2>. SUFFICES ASSUME NEW a \in Attempts,
                       status[Proof(a)] # "none" \/ Recorded(a, {"proven_no_submit"}) # {}
                PROVE  radio[a] = 0 /\ sender.attempt # a
    BY DEF ProofMeansNoRadio
  <2>1. AttemptSound(a)
    BY <1>1 DEF GatewayInv, PhoneInv
  <2>2. journal[a].state = "not_submitted"
    <3>1. CASE status[Proof(a)] # "none"
      BY <2>1, <3>1 DEF AttemptSound
    <3>2. CASE Recorded(a, {"proven_no_submit"}) # {}
      <4>1. PICK v \in events : v.attempt = a /\ v.evidence = "proven_no_submit"
        BY <3>2 DEF Recorded
      <4>. QED  BY <1>1, <4>1 DEF GatewayInv, HubSound
    <3>. QED  BY <3>1, <3>2
  <2>. QED  BY <2>1, <2>2 DEF AttemptSound, Uncalled
<1>. QED  BY <1>1, GatewayInvariant, PTL

\* A radio call has the hub's committed submit intent behind it, for as long as the
\* message has its content.
THEOREM IntentBeforeRadio == GatewaySpec => []RadioAfterIntent
<1>1. ASSUME GatewayInv PROVE RadioAfterIntent
  <2>. SUFFICES ASSUME NEW a \in Attempts, radio[a] > 0, journal[a].message \notin redacted
                PROVE  IntentRecorded(a)
    BY DEF RadioAfterIntent
  <2>1. journal[a].state \notin Uncalled
    BY <1>1, CalledHoldsFence
  <2>2. Known(Intent(a))
    BY <1>1, <2>1 DEF GatewayInv, HubSound
  <2>3. Intent(a)[1] = a /\ Intent(a)[2] = "durable_submit_intent"
    BY DEF Intent
  <2>4. Wire(Intent(a)) \in events
    BY <2>2, <2>3 DEF Known
  <2>5. Wire(Intent(a)).attempt = a /\ Wire(Intent(a)).evidence = "durable_submit_intent"
    BY <2>3 DEF Wire
  <2>. QED  BY <2>4, <2>5 DEF IntentRecorded, Recorded
<1>. QED  BY <1>1, GatewayInvariant, PTL

\* What the hub says of a message agrees with what the radio did: nothing is refunded
\* or sent again after a call, nothing counts as submitted or failed without one.
THEOREM HubTellsTheTruth == GatewaySpec => []HubMatchesRadio
<1>1. ASSUME GatewayInv PROVE HubMatchesRadio
  <2>1. ASSUME NEW m \in Messages, NEW a \in Attempts, journal[a].message = m, radio[a] > 0
        PROVE  state[m] \notin {"queued", "cancelled", "expired"}
    <3>1. fence[m].attempt = a
      BY <1>1, <2>1, CalledHoldsFence
    <3>2. fence[m] # NoFence
      BY <3>1, StoreAssumption DEF NoFence
    <3>3. fence[m].outcome \in Outcome
      BY <1>1, <3>2, Ungranted DEF GatewayInv
    <3>4. fence[m].outcome = IF state[m] = "claimed" THEN "granted" ELSE StatusOf(state[m])
      BY <1>1, <3>2 DEF GatewayInv, StoreInv, RowsInv, RowsAgree
    <3>. QED  BY <3>3, <3>4 DEF StatusOf, Outcome, ActiveOutcome
  <2>2. ASSUME NEW m \in Messages,
               state[m] \in {"submitted", "delivered", "delivery_unknown", "failed"}
        PROVE  \E a \in Attempts : journal[a].message = m /\ radio[a] > 0
    <3>1. fence[m] # NoFence
      BY <1>1, <2>2 DEF GatewayInv, StoreInv, RowsInv, RowsAgree
    <3>2. fence[m].attempt \in Attempts
      BY <1>1, <3>1, Ungranted DEF GatewayInv
    <3>. QED  BY <1>1, <2>2, <3>2 DEF GatewayInv, HubSound
  <2>. QED  BY <2>1, <2>2 DEF HubMatchesRadio
<1>. QED  BY <1>1, GatewayInvariant, PTL

\* The radio is asked by the sender alone, past its one-use gate.
LEMMA RadioBySender ==
  ASSUME LinkInv, PhoneInv, [GatewayNext]_vars, NEW a \in Attempts, radio'[a] # radio[a]
  PROVE  sender.attempt = a /\ sender.pc = "consumed"
<1>. USE DEF phoneVars, hubVars, journalVars
<1>1. \A e \in Epochs : Server(e) => UNCHANGED radio
  BY DEF Server, ServerReceive, ServerRecord, ServerRefuse, ServerAnswer, ServerClaim,
         ServerGrant, ServerConfirm, ServerGiveUp, ServerRelease, ServerDies
<1>2. OwnerStep \/ Others \/ LinkStep \/ UNCHANGED vars => UNCHANGED radio
  BY DEF OwnerStep, ApprovalLapses, Approve, Others, LinkStep, Start, Reconnect, Connect,
         Disconnect, Crash, RecoverJournal, vars
<1>3. PhoneGrant \/ ReserveGrant \/ Pump \/ GrantLapses \/ PhoneClose \/ Quarantine => UNCHANGED radio
  BY DEF PhoneGrant, ReserveGrant, Reserve, Pump, RetireOrphans, ProveNoRadio, GrantLapses,
         PhoneClose, Quarantine, QuarantineEvent
<1>4. PhoneAck => UNCHANGED radio
  BY DEF PhoneAck, AcknowledgeIntent, AcknowledgeEvent, ProveNoRadio
<1>5. SendRefused \/ SendConsumes => UNCHANGED radio
  BY DEF SendRefused, MarkNoRadio, ProveNoRadio, SendConsumes, ConsumeRadioStart
<1>6. ASSUME NEW b \in Attempts, Stall(b) \/ \E r \in Reports : Callback(b, r) PROVE UNCHANGED radio
  BY <1>6 DEF Stall, MarkStalled, Callback, RecordCallback
<1>7. ASSUME SendFinishes PROVE sender.attempt = a /\ sender.pc = "consumed"
  <2>1. \/ UNCHANGED radio
        \/ \E n \in {0, 1} : radio' = [radio EXCEPT ![sender.attempt] = radio[sender.attempt] + n]
    BY <1>7 DEF SendFinishes, MarkNoRadio, ProveNoRadio, CallRadio
  <2>2. sender.pc = "consumed"
    BY <1>7 DEF SendFinishes
  <2>. QED  BY <2>1, <2>2 DEF PhoneInv, JournalShape
<1>. QED  BY <1>1, <1>2, <1>3, <1>4, <1>5, <1>6, <1>7 DEF GatewayNext, PhoneStep

\* What the journal settled stays settled, and the radio is asked only for an attempt
\* past its one-use gate whose intent the hub has acknowledged.
THEOREM JournalNeverReturns == GatewaySpec => JournalOneWay
<1>1. ASSUME GatewayInv, [GatewayNext]_vars
      PROVE  /\ \A e \in PhoneEvent : status[e] = "acked" => status'[e] = "acked"
             /\ \A a \in Attempts : journal[a].state \notin {"absent", "reserved"} =>
                                      journal'[a].state \notin {"absent", "reserved"}
             /\ \A a \in Attempts : radio'[a] # radio[a] =>
                  journal[a].state = "radio_started" /\ status[Intent(a)] = "acked"
  <2>1. \A a \in Attempts : Lasts(a)
    BY <1>1, GatewayNextInv DEF Kept
  <2>2. ASSUME NEW e \in PhoneEvent, status[e] = "acked" PROVE status'[e] = "acked"
    <3>1. e[1] \in Attempts /\ e[2] \in PhoneEvidence /\ e = <<e[1], e[2]>>
      BY EventNames
    <3>2. status[<<e[1], e[2]>>] = "acked" => status'[<<e[1], e[2]>>] = "acked"
      BY <2>1, <3>1 DEF Lasts
    <3>. QED  BY <2>2, <3>1, <3>2
  <2>3. ASSUME NEW a \in Attempts, radio'[a] # radio[a]
        PROVE  journal[a].state = "radio_started" /\ status[Intent(a)] = "acked"
    <3>1. sender.attempt = a /\ sender.pc = "consumed"
      BY <1>1, <2>3, RadioBySender DEF GatewayInv
    <3>. QED  BY <1>1, <3>1 DEF GatewayInv, PhoneInv, AttemptSound
  <2>. QED  BY <2>1, <2>2, <2>3 DEF Lasts
<1>. QED  BY <1>1, GatewayInvariant, PTL DEF GatewaySpec, JournalOneWay

-----------------------------------------------------------------------------
(***************************************************************************)
(* The journal and its outbox.                                             *)
(***************************************************************************)

\* The log lists the events of the outbox, each once.
LogInv ==
  /\ log \in Seq(PhoneEvent) /\ IsInjective(log)
  /\ ToSet(log) = { e \in PhoneEvent : status[e] # "none" }

\* The gateway with its log, and what each row says of its events.
JournalInv == GatewayInv /\ LogInv /\ \A a \in Attempts : RowSound(a)

\* New events at the end of a log without repetitions.
LEMMA LogExtends ==
  ASSUME LogInv, Logs
  PROVE  LogInv'
<1>1. PICK s \in Seq(PhoneEvent) : Logged(s)
  BY DEF LogInv, Logs
<1>. DEFINE n == Len(log)
<1>2. /\ n \in Nat /\ Len(s) \in Nat /\ DOMAIN log = 1..n /\ DOMAIN s = 1..Len(s)
      /\ log' = log \o s /\ log \in Seq(PhoneEvent)
  BY <1>1, LenProperties DEF LogInv, Logged
<1>3. /\ log' \in Seq(PhoneEvent) /\ Len(log') = n + Len(s)
      /\ \A i \in 1..Len(log') : log'[i] = IF i <= n THEN log[i] ELSE s[i - n]
  BY <1>1, <1>2, ConcatProperties
<1>4. DOMAIN log' = 1..Len(log')
  BY <1>3, LenProperties
<1>5. ToSet(log') = ToSet(log) \union ToSet(s)
  BY <1>1, <1>2, ToSetConcat
<1>6. /\ \A i, k \in 1..n : log[i] = log[k] => i = k
      /\ \A i, k \in 1..Len(s) : s[i] = s[k] => i = k
  BY <1>1, <1>2 DEF LogInv, Logged, IsInjective
<1>7. \A i \in 1..n, k \in 1..Len(s) : log[i] # s[k]
  <2>. SUFFICES ASSUME NEW i \in 1..n, NEW k \in 1..Len(s), log[i] = s[k] PROVE FALSE
    OBVIOUS
  <2>1. log[i] \in ToSet(log) /\ s[k] \in ToSet(s)
    BY <1>2 DEF ToSet
  <2>2. s[k] \in PhoneEvent
    BY <1>1, ElementOfSeq
  <2>. QED  BY <1>1, <2>1, <2>2 DEF LogInv, Logged
<1>8. IsInjective(log')
  <2>. SUFFICES ASSUME NEW i \in 1..Len(log'), NEW k \in 1..Len(log'), log'[i] = log'[k]
                PROVE  i = k
    BY <1>4 DEF IsInjective
  <2>. HIDE DEF n
  <2>1. CASE i <= n /\ k <= n
    BY <1>2, <1>3, <1>6, <2>1
  <2>2. CASE i > n /\ k > n
    <3>1. i - n \in 1..Len(s) /\ k - n \in 1..Len(s)
      BY <1>2, <1>3, <2>2
    <3>2. s[i - n] = s[k - n]
      BY <1>2, <1>3, <2>2
    <3>3. i - n = k - n
      BY <1>6, <3>1, <3>2
    <3>. QED  BY <1>2, <1>3, <3>3
  <2>3. CASE i <= n /\ k > n
    <3>1. i \in 1..n /\ k - n \in 1..Len(s) /\ log[i] = s[k - n]
      BY <1>2, <1>3, <2>3
    <3>. QED  BY <1>7, <3>1
  <2>4. CASE i > n /\ k <= n
    <3>1. k \in 1..n /\ i - n \in 1..Len(s) /\ log[k] = s[i - n]
      BY <1>2, <1>3, <2>4
    <3>. QED  BY <1>7, <3>1
  <2>. QED  BY <1>2, <1>3, <2>1, <2>2, <2>3, <2>4
<1>9. ToSet(log') = { e \in PhoneEvent : status'[e] # "none" }
  <2>1. ToSet(s) \subseteq PhoneEvent
    BY <1>1, <1>2, ElementOfSeq DEF ToSet
  <2>2. \A e \in PhoneEvent : status'[e] # "none" <=> status[e] # "none" \/ e \in ToSet(s)
    BY <1>1 DEF Logged
  <2>. QED  BY <1>5, <2>1, <2>2 DEF LogInv
<1>. QED  BY <1>3, <1>8, <1>9 DEF LogInv

\* Journal, outbox and log agree on every attempt, with all the rest.
LEMMA JournalInvariant == GatewaySpec => []JournalInv
<1>1. ASSUME GatewayInit PROVE JournalInv
  <2>1. /\ journal = [a \in Attempts |-> NoRow] /\ status = [e \in PhoneEvent |-> "none"]
        /\ radio = [a \in Attempts |-> 0] /\ log = <<>>
    BY <1>1 DEF GatewayInit, JournalInit
  <2>2. LogInv
    <3>1. IsInjective(<<>>) /\ ToSet(<<>>) = {} /\ <<>> \in Seq(PhoneEvent)
      BY DEF IsInjective, ToSet
    <3>. QED  BY <2>1, <3>1 DEF LogInv
  <2>3. ASSUME NEW a \in Attempts PROVE RowSound(a)
    <3>1. /\ journal[a].state = "absent" /\ radio[a] = 0 /\ ~journal[a].conflict
          /\ journal[a].sent = "none" /\ journal[a].delivery = "none"
      BY <2>1 DEF NoRow
    <3>2. \A ev \in PhoneEvidence : status[<<a, ev>>] = "none"
      BY <2>1, EventNames
    <3>3. status[Intent(a)] = "none" /\ status[<<a, "delivery_callback_ok">>] = "none"
      BY <3>2, EvidenceNames DEF Intent
    <3>. QED  BY <3>1, <3>3 DEF RowSound
  <2>. QED  BY <1>1, <2>2, <2>3, GatewayInitInv DEF JournalInv
<1>2. ASSUME JournalInv, [GatewayNext]_vars PROVE JournalInv'
  <2>1. GatewayInv' /\ Kept
    BY <1>2, GatewayNextInv DEF JournalInv
  <2>2. LogInv'
    BY <1>2, <2>1, LogExtends DEF JournalInv, Kept
  <2>3. \A a \in Attempts : RowSound(a)'
    BY <1>2, <2>1 DEF JournalInv, Kept, Firm
  <2>. QED  BY <2>1, <2>2, <2>3 DEF JournalInv
<1>. QED  BY <1>1, <1>2, PTL DEF GatewaySpec

\* AttemptJournal keeps its tables in shape: rowids are used once, the log holds just
\* the events that were written, and a row exists exactly when its intent does.
THEOREM JournalWellFormed == GatewaySpec => []JournalTypeOK
<1>1. ASSUME JournalInv PROVE JournalTypeOK
  <2>1. /\ journal \in [Attempts -> JournalRow \union {NoRow}]
        /\ status \in [PhoneEvent -> {"none", "pending", "acked", "quarantined"}]
        /\ radio \in [Attempts -> Nat]
    BY <1>1 DEF JournalInv, GatewayInv, PhoneInv, JournalShape
  <2>2. \A a \in Attempts : status[Intent(a)] = "none" <=> journal[a] = NoRow
    <3>1. \A a \in Attempts : journal[a].state = "absent" <=> status[Intent(a)] = "none"
      BY <1>1 DEF JournalInv, RowSound
    <3>2. NoRow.state = "absent"
      BY DEF NoRow
    <3>. QED  BY <2>1, <3>1, <3>2, RowExists
  <2>. QED  BY <1>1, <2>1, <2>2 DEF JournalTypeOK, JournalInv, LogInv, JournalRow
<1>. QED  BY <1>1, JournalInvariant, PTL

-----------------------------------------------------------------------------
(***************************************************************************)
(* What one step may do to an event, to the service and to the approvals.  *)
(***************************************************************************)

\* A callback writes events that were not there, and touches no other.
LEMMA CallbackMoves ==
  ASSUME PhoneInv, NEW b \in Attempts, radio[b] > 0, NEW isSent \in BOOLEAN, NEW result,
         isSent => result \in {"ok", "failed"},
         ~isSent => result \in {"unverified", "received", "failed"},
         RecordCallback(b, isSent, result)
  PROVE  \A e \in PhoneEvent : status'[e] = status[e] \/ (status[e] = "none" /\ status'[e] = "pending")
<1>. SUFFICES ASSUME NEW e \in PhoneEvent, status'[e] # status[e]
              PROVE  status[e] = "none" /\ status'[e] = "pending"
  OBVIOUS
<1>1. /\ journal \in [Attempts -> JournalRow \union {NoRow}] /\ AttemptSound(b)
      /\ status \in [PhoneEvent -> {"none", "pending", "acked", "quarantined"}]
  BY DEF PhoneInv, JournalShape
<1>2. journal[b].state \notin Uncalled /\ journal[b] \in JournalRow
  <2>1. journal[b].state \notin Uncalled
    BY <1>1 DEF AttemptSound
  <2>. QED  BY <1>1, <2>1, RowExists DEF Uncalled
<1>. DEFINE stored == IF isSent THEN [journal[b] EXCEPT !.sent = result]
                                ELSE [journal[b] EXCEPT !.delivery = result]
            decision == IF isSent THEN SentDecision(journal[b].sent, result)
                                  ELSE DeliveryDecision(journal[b].delivery, result)
<1>3. \/ decision = "store" /\ StoreCallback(b, stored, isSent)
      \/ RecordConflict(b, journal[b])
  <2>1. journal[b].state \notin {"not_submitted", "reserved"}
    BY <1>2 DEF Uncalled
  <2>. QED  BY <2>1 DEF RecordCallback
<1>4. CASE decision = "store" /\ StoreCallback(b, stored, isSent)
  <2>1. isSent => journal[b].sent = "none"
    BY <1>4 DEF SentDecision
  <2>2. ~isSent => journal[b].delivery \in {"none", "unverified"}
    BY <1>4 DEF DeliveryDecision
  <2>. DEFINE next == IF stored.conflict THEN "unknown"
                      ELSE FromEvidence(stored.state, stored.sent, stored.delivery)
              sent == IF isSent /\ ~stored.conflict
                      THEN <<<<b, IF stored.sent = "ok" THEN "sent_callback_ok" ELSE "sent_callback_failed">>>>
                      ELSE <<>>
              delivered == IF next = "delivered" /\ stored.state # "delivered"
                           THEN <<<<b, "delivery_callback_ok">>>> ELSE <<>>
  <2>3. status' = Insert(status, ToSet(sent \o delivered))
    BY <1>4 DEF StoreCallback
  <2>4. ToSet(sent \o delivered) = ToSet(sent) \union ToSet(delivered)
    <3>1. sent \in Seq(PhoneEvent) /\ delivered \in Seq(PhoneEvent)
      BY EventNames, EvidenceNames DEF SentCallback
    <3>. HIDE DEF sent, delivered
    <3>. QED  BY <3>1, ToSetConcat
  <2>. HIDE DEF decision
  <2>5. \A x \in ToSet(sent) : isSent /\ x \in {<<b, "sent_callback_ok">>, <<b, "sent_callback_failed">>}
    BY DEF ToSet
  <2>6. \A x \in ToSet(delivered) : x = <<b, "delivery_callback_ok">>
    BY DEF ToSet
  <2>. HIDE DEF sent, delivered, stored
  <2>7. /\ isSent => /\ status[<<b, "sent_callback_ok">>] = "none" /\ status[<<b, "sent_callback_failed">>] = "none"
        /\ status[<<b, "delivery_callback_ok">>] = "none"
    <3>1. /\ status[<<b, "sent_callback_ok">>] # "none" => journal[b].sent # "none"
          /\ status[<<b, "sent_callback_failed">>] # "none" => journal[b].sent # "none"
      BY <1>1 DEF AttemptSound, SentCallback
    <3>2. status[<<b, "delivery_callback_ok">>] # "none" =>
            journal[b].sent # "none" /\ journal[b].delivery \notin {"none", "unverified"}
      BY <1>1 DEF AttemptSound
    <3>. QED  BY <2>1, <2>2, <3>1, <3>2
  <2>8. \A x \in ToSet(sent \o delivered) : status[x] = "none"
    BY <2>4, <2>5, <2>6, <2>7
  <2>. QED  BY <2>3, <2>8 DEF Insert
<1>5. CASE RecordConflict(b, journal[b])
  <2>1. ~journal[b].conflict
    BY <1>5 DEF RecordConflict
  <2>2. status[<<b, "callback_conflict">>] = "none" /\ status[Proof(b)] = "none"
    BY <1>1, <1>2, <2>1 DEF AttemptSound, Uncalled
  <2>3. status' = Insert(status, {<<b, "callback_conflict">>})
    BY <1>5, <2>1, <2>2 DEF RecordConflict
  <2>. QED  BY <2>2, <2>3 DEF Insert
<1>. QED  BY <1>3, <1>4, <1>5

\* An event is written, acknowledged by the frame it waits for, settled with the
\* retirement of its attempt, or quarantined.
StatusMoves(e) ==
  \/ status'[e] = status[e]
  \/ status[e] = "none" /\ status'[e] = "pending"
  \/ /\ PhoneAck /\ e = Head(down).event /\ e = phone.awaiting /\ AckExpected(e)
     /\ status[e] = "pending" /\ status'[e] = "acked"
  \/ /\ (Pump /\ phone.retire /\ ~phone.grant.live /\ RetireOrphans) \/ Crash
     /\ e = Intent(e[1]) /\ e[1] \in Orphans /\ status'[e] = "acked"
  \/ /\ Quarantine /\ e = phone.closing.event
     /\ status[e] = "pending" /\ status'[e] = "quarantined"

\* The proofs of a refusal are new; intents are settled.
LEMMA RefusalMoves ==
  ASSUME PhoneInv, NEW as \in SUBSET Attempts, NEW acks \in SUBSET Attempts,
         status' = Insert(Acknowledge(status, { Intent(a) : a \in acks }),
                          { Proof(a) : a \in Provable(as) })
  PROVE  \A e \in PhoneEvent : \/ status'[e] = status[e]
                               \/ status[e] = "none" /\ status'[e] = "pending"
                               \/ e = Intent(e[1]) /\ e[1] \in acks /\ status'[e] = "acked"
<1>. SUFFICES ASSUME NEW e \in PhoneEvent
              PROVE  \/ status'[e] = status[e]
                     \/ status[e] = "none" /\ status'[e] = "pending"
                     \/ e = Intent(e[1]) /\ e[1] \in acks /\ status'[e] = "acked"
  OBVIOUS
<1>. DEFINE intents == { Intent(a) : a \in acks }
            proofs == { Proof(a) : a \in Provable(as) }
<1>1. e \in proofs => status[e] = "none"
  BY DEF Provable
<1>2. e \in intents => e = Intent(e[1]) /\ e[1] \in acks
  BY DEF Intent
<1>3. status'[e] = IF e \in proofs THEN "pending" ELSE IF e \in intents THEN "acked" ELSE status[e]
  BY DEF Insert, Acknowledge
<1>. HIDE DEF intents, proofs
<1>. QED  BY <1>1, <1>2, <1>3

LEMMA StatusStep ==
  ASSUME PhoneInv, LinkInv, [GatewayNext]_vars, NEW e \in PhoneEvent
  PROVE  StatusMoves(e)
<1>. USE DEF phoneVars, hubVars, journalVars
<1>0. status \in [PhoneEvent -> {"none", "pending", "acked", "quarantined"}]
  BY DEF PhoneInv, JournalShape
<1>1. ASSUME UNCHANGED status PROVE StatusMoves(e)
  BY <1>1 DEF StatusMoves
<1>2. ASSUME NEW f \in Epochs, Server(f) PROVE UNCHANGED status
  BY <1>2 DEF Server, ServerReceive, ServerRecord, ServerRefuse, ServerAnswer, ServerClaim,
              ServerGrant, ServerConfirm, ServerGiveUp, ServerRelease, ServerDies
<1>3. OwnerStep \/ Others \/ Start \/ Reconnect \/ Disconnect \/ UNCHANGED vars => UNCHANGED status
  BY DEF OwnerStep, ApprovalLapses, Approve, Others, Start, Reconnect, Connect, Disconnect, vars
<1>4. PhoneGrant \/ GrantLapses \/ PhoneClose \/ SendConsumes => UNCHANGED status
  BY DEF PhoneGrant, GrantLapses, PhoneClose, SendConsumes, ConsumeRadioStart
<1>5. \A a \in Attempts : Stall(a) => UNCHANGED status
  BY DEF Stall, MarkStalled
<1>6. ASSUME Crash PROVE StatusMoves(e)
  <2>1. status' = Insert(Acknowledge(status, { Intent(a) : a \in Orphans }),
                         { Proof(a) : a \in Provable(Orphans) })
    BY <1>6 DEF Crash, RecoverJournal
  <2>2. Orphans \in SUBSET Attempts
    BY DEF Orphans
  <2>. QED  BY <1>6, <2>1, <2>2, RefusalMoves DEF StatusMoves
<1>7. ASSUME Pump PROVE StatusMoves(e)
  <2>1. CASE UNCHANGED journalVars
    BY <1>1, <2>1
  <2>2. CASE phone.retire /\ ~phone.grant.live /\ RetireOrphans
    <3>1. status' = Insert(Acknowledge(status, { Intent(a) : a \in Orphans }),
                           { Proof(a) : a \in Provable(Orphans) })
      BY <2>2 DEF RetireOrphans, ProveNoRadio
    <3>2. Orphans \in SUBSET Attempts
      BY DEF Orphans
    <3>. QED  BY <1>7, <2>2, <3>1, <3>2, RefusalMoves DEF StatusMoves
  <2>. QED  BY <1>7, <2>1, <2>2 DEF Pump
<1>8. ASSUME Quarantine PROVE StatusMoves(e)
  <2>1. QuarantineEvent(phone.closing.event)
    BY <1>8 DEF Quarantine
  <2>. QED  BY <1>0, <1>8, <2>1 DEF QuarantineEvent, StatusMoves
<1>9. ASSUME NEW as \in SUBSET Attempts, ProveNoRadio(as, {}) PROVE StatusMoves(e)
  <2>1. {} \in SUBSET Attempts
        /\ status' = Insert(Acknowledge(status, { Intent(a) : a \in {} }),
                            { Proof(a) : a \in Provable(as) })
    BY <1>9 DEF ProveNoRadio
  <2>. QED  BY <2>1, RefusalMoves DEF StatusMoves
<1>10. sender.pc # "idle" => sender.attempt \in Attempts
  BY LinkTypes DEF IdleSend
<1>11. ASSUME NEW s, sender.pc # "idle", MarkNoRadio(sender.attempt, s) PROVE StatusMoves(e)
  <2>. DEFINE as == { b \in {sender.attempt} : journal[b].state = s }
  <2>1. as \in SUBSET Attempts /\ ProveNoRadio(as, {})
    BY <1>10, <1>11 DEF MarkNoRadio
  <2>. HIDE DEF as
  <2>. QED  BY <1>9, <2>1
<1>12. ASSUME SendRefused PROVE StatusMoves(e)
  <2>1. sender.pc = "queued" /\ (MarkNoRadio(sender.attempt, "submitting") \/ UNCHANGED journalVars)
    BY <1>12 DEF SendRefused
  <2>. QED  BY <1>1, <1>11, <2>1
<1>13. ASSUME SendFinishes PROVE StatusMoves(e)
  <2>1. sender.pc = "consumed" /\ (MarkNoRadio(sender.attempt, "radio_started") \/ UNCHANGED status)
    BY <1>13 DEF SendFinishes, CallRadio
  <2>. QED  BY <1>1, <1>11, <2>1
<1>14. ASSUME NEW a \in Attempts, NEW r \in Reports, Callback(a, r) PROVE StatusMoves(e)
  <2>1. radio[a] > 0 /\ RecordCallback(a, r[1] = "sent", r[2])
    BY <1>14 DEF Callback
  <2>2. /\ (r[1] = "sent") \in BOOLEAN
        /\ (r[1] = "sent") => r[2] \in {"ok", "failed"}
        /\ ~(r[1] = "sent") => r[2] \in {"unverified", "received", "failed"}
    BY GatewayAssumption
  <2>. QED  BY <2>1, <2>2, CallbackMoves DEF StatusMoves
<1>15. ASSUME ReserveGrant PROVE StatusMoves(e)
  <2>1. CASE UNCHANGED journalVars
    BY <1>1, <2>1
  <2>2. CASE Reserve(phone.grant.attempt, phone.grant.message)
    <3>. DEFINE a == phone.grant.attempt
    <3>1. a \in Attempts
      BY <1>15, LinkTypes DEF ReserveGrant
    <3>2. status[Intent(a)] = "none"
      <4>1. journal[a].state = "absent" /\ AttemptSound(a)
        BY <2>2, <3>1 DEF Reserve, PhoneInv
      <4>. QED  BY <4>1, EvidenceNames DEF AttemptSound, Intent
    <3>3. status' = Insert(status, {Intent(a)})
      BY <2>2 DEF Reserve
    <3>. QED  BY <3>2, <3>3 DEF Insert, StatusMoves
  <2>. QED  BY <1>15, <2>1, <2>2 DEF ReserveGrant
<1>16. ASSUME PhoneAck PROVE StatusMoves(e)
  <2>. DEFINE x == Head(down).event
              a == x[1]
              permitted == Head(down).permitted /\ phone.grant.attempt = a /\ phone.grant.live
  <2>1. \/ UNCHANGED journalVars
        \/ /\ x = phone.awaiting /\ AckExpected(x)
           /\ IF x = Intent(a) THEN AcknowledgeIntent(a, permitted) ELSE AcknowledgeEvent(x)
    BY <1>16, Zenon DEF PhoneAck
  <2>2. x \in PhoneEvent /\ a \in Attempts
    <3>1. down # <<>> /\ Head(down).type = "ack"
      BY <1>16 DEF PhoneAck
    <3>2. 1 \in 1..Len(down) /\ Head(down) = down[1]
      BY <3>1, LinkTypes
    <3>. QED  BY <3>1, <3>2, LinkTypes, EventNames
  <2>. HIDE DEF x, permitted
  <2>3. CASE x = phone.awaiting /\ AckExpected(x) /\ x # Intent(a) /\ AcknowledgeEvent(x)
    <3>1. status[x] = "pending"
      BY <2>3 DEF AckExpected
    <3>2. status' = Acknowledge(status, {x})
      BY <2>3 DEF AcknowledgeEvent
    <3>. QED  BY <1>16, <2>3, <3>1, <3>2 DEF StatusMoves, Acknowledge, x
  <2>4. CASE x = phone.awaiting /\ AckExpected(x) /\ x = Intent(a) /\ AcknowledgeIntent(a, permitted)
    <3>1. status[x] = "pending"
      BY <2>4 DEF AckExpected
    <3>. DEFINE as == { b \in {a} : journal[b].state \in {"reserved", "not_submitted"} }
    <3>2. \/ status' = Acknowledge(status, {x})
          \/ status' = Insert(Acknowledge(status, { Intent(b) : b \in {a} }),
                              { Proof(b) : b \in Provable(as) })
      BY <2>4 DEF AcknowledgeIntent, ProveNoRadio
    <3>3. as \in SUBSET Attempts /\ {a} \in SUBSET Attempts
      BY <2>2
    <3>. HIDE DEF as
    <3>4. CASE status' = Acknowledge(status, {x})
      BY <1>16, <2>4, <3>1, <3>4 DEF StatusMoves, Acknowledge, x
    <3>5. CASE status' = Insert(Acknowledge(status, { Intent(b) : b \in {a} }),
                                { Proof(b) : b \in Provable(as) })
      <4>1. \/ status'[e] = status[e]
            \/ status[e] = "none" /\ status'[e] = "pending"
            \/ e = Intent(e[1]) /\ e[1] \in {a} /\ status'[e] = "acked"
        BY <3>3, <3>5, RefusalMoves
      <4>2. e = Intent(e[1]) /\ e[1] \in {a} => e = x
        BY <2>4
      <4>. QED  BY <1>16, <2>4, <3>1, <4>1, <4>2 DEF StatusMoves, x
    <3>. QED  BY <3>2, <3>4, <3>5
  <2>. QED  BY <1>1, <2>1, <2>3, <2>4
<1>17. ASSUME PhoneStep(Reports) PROVE StatusMoves(e)
  BY <1>1, <1>4, <1>5, <1>7, <1>8, <1>12, <1>13, <1>14, <1>15, <1>16, <1>17 DEF PhoneStep
<1>. QED  BY <1>1, <1>2, <1>3, <1>6, <1>17 DEF GatewayNext, LinkStep

\* The connection is given up, whatever it held; a pending quarantine may outlive it.
Departs ==
  /\ phone'.conn = 0 /\ phone'.grant = NoGrant /\ phone'.awaiting = NoEvent
  /\ phone'.armed = FALSE /\ phone'.closing \in {phone.closing, NoClosing} /\ down' = <<>>
  /\ UNCHANGED <<up, task>>

\* A session is opened, with nothing held or awaited.
Opens ==
  /\ Start \/ Reconnect
  /\ phone'.conn = session[Phone].epoch + 1 /\ phone'.grant = NoGrant
  /\ phone'.awaiting = NoEvent /\ phone'.closing = phone.closing /\ down' = <<>>
  /\ task' = [task EXCEPT ![session[Phone].epoch + 1] =
                [NoTask EXCEPT !.pc = "idle", !.armed = phone'.armed]]
  /\ UNCHANGED <<journalVars, up>>

\* The connection, what is awaited on it and its close stay as they are.
Remains == UNCHANGED <<phone.conn, phone.awaiting, phone.closing>>

\* A grant is taken off the socket; an ack is; an event is offered.
Takes ==
  /\ PhoneGrant /\ Remains /\ phone.armed /\ ~phone'.armed /\ pilot' = [pilot EXCEPT !.used = TRUE]
  /\ UNCHANGED <<journalVars, up, task>>
  /\ \E i \in 1..Len(down) :
       /\ down[i].type = "grant" /\ \A j \in 1..(i - 1) : down[j].type = "ack"
       /\ down' = RemoveAt(down, i)
       /\ phone'.grant = [attempt |-> down[i].attempt, live |-> TRUE, message |-> down[i].message,
                          prior |-> IF pilot.used THEN pilot.approved ELSE "first"]
Reads ==
  /\ PhoneAck /\ UNCHANGED <<phone.conn, phone.closing, phone.armed, phone.grant, up, task>>
  /\ AckExpected(Head(down).event) /\ down # <<>> /\ Head(down).type = "ack" /\ down' = Tail(down)
  /\ IF Head(down).event = phone.awaiting
     THEN phone'.awaiting = NoEvent /\ status'[phone.awaiting] = "acked"
     ELSE phone'.awaiting = phone.awaiting /\ UNCHANGED journalVars
Offers ==
  /\ Pump /\ UNCHANGED <<phone.conn, phone.closing, phone.armed, phone.grant, down, task>>
  /\ LET next == NextAlphaEvent(status', log')
     IN  \/ /\ next = {} \/ Held(next)
           /\ phone'.awaiting = phone.awaiting /\ UNCHANGED up
        \/ /\ ~Held(next) /\ phone'.awaiting \in next
           /\ up' = [up EXCEPT ![phone.conn] = Append(@, phone'.awaiting)]

\* A close of the current connection is left to a quarantine, or the quarantine of an
\* earlier one is done.
Closes ==
  /\ UNCHANGED <<phone.conn, phone.awaiting, phone.armed, phone.grant, up, down, task>>
  /\ \/ /\ PhoneClose /\ phone'.closing = [event |-> phone.awaiting, epoch |-> phone.conn]
        /\ phone.awaiting # NoEvent
     \/ Quarantine /\ phone.conn # phone.closing.epoch /\ phone'.closing = NoClosing

\* Nothing but the clock of the grant moves on the phone's side.
Idles ==
  /\ Remains /\ UNCHANGED <<phone.armed, up, down, task>>
  /\ phone'.grant \in {phone.grant, [phone.grant EXCEPT !.live = FALSE]}
  /\ phone'.grant # phone.grant => phone.grant # NoGrant

\* The task of a connection takes a step.
Serves == \E e \in Epochs : Server(e)

\* Fields of a service that leaves its connection.
LEMMA LostFields ==
  ASSUME NEW p \in PhoneRow
  PROVE  /\ Lost(p).conn = 0 /\ Lost(p).grant = NoGrant /\ Lost(p).awaiting = NoEvent
         /\ Lost(p).armed = FALSE /\ Lost(p).closing = p.closing /\ Lost(p) \in PhoneRow
         /\ Stopped(p).conn = 0 /\ Stopped(p).grant = NoGrant /\ Stopped(p).awaiting = NoEvent
         /\ Stopped(p).armed = FALSE /\ Stopped(p).closing = p.closing /\ Stopped(p) \in PhoneRow
<1>1. /\ Lost(p).conn = 0 /\ Lost(p).grant = NoGrant /\ Lost(p).awaiting = NoEvent
      /\ Lost(p).armed = FALSE /\ Lost(p).closing = p.closing
  BY DEF Lost, PhoneRow
<1>2. Lost(p) \in PhoneRow /\ Stopped(p) \in PhoneRow
  BY LostRow
<1>. DEFINE q == Lost(p)
<1>3. q \in PhoneRow /\ Stopped(p) = [q EXCEPT !.running = FALSE]
  BY <1>2 DEF Stopped
<1>. HIDE DEF q
<1>4. /\ Stopped(p).conn = q.conn /\ Stopped(p).grant = q.grant /\ Stopped(p).awaiting = q.awaiting
      /\ Stopped(p).armed = q.armed /\ Stopped(p).closing = q.closing
  BY <1>3 DEF PhoneRow
<1>. QED  BY <1>1, <1>2, <1>4 DEF q

LEMMA ClearFields ==
  ASSUME NEW p \in PhoneRow
  PROVE  /\ ClearStreak(p).conn = p.conn /\ ClearStreak(p).grant = p.grant
         /\ ClearStreak(p).awaiting = p.awaiting /\ ClearStreak(p).armed = p.armed
         /\ ClearStreak(p).closing = p.closing /\ ClearStreak(p) \in PhoneRow
         /\ [p EXCEPT !.closing = NoClosing].conn = p.conn
         /\ [p EXCEPT !.closing = NoClosing].grant = p.grant
         /\ [p EXCEPT !.closing = NoClosing].awaiting = p.awaiting
         /\ [p EXCEPT !.closing = NoClosing].armed = p.armed
         /\ [p EXCEPT !.closing = NoClosing].closing = NoClosing
         /\ [p EXCEPT !.closing = NoClosing] \in PhoneRow
<1>1. ClearStreak(p) \in PhoneRow /\ [p EXCEPT !.closing = NoClosing] \in PhoneRow
  BY LostRow
<1>2. /\ ClearStreak(p).conn = p.conn /\ ClearStreak(p).grant = p.grant
      /\ ClearStreak(p).awaiting = p.awaiting /\ ClearStreak(p).armed = p.armed
      /\ ClearStreak(p).closing = p.closing
  BY DEF ClearStreak, PhoneRow
<1>. QED  BY <1>1, <1>2 DEF PhoneRow

\* What any step does to the service and the frames it has not read.
LEMMA ServiceMoves ==
  ASSUME LinkInv, [GatewayNext]_vars
  PROVE  /\ Departs \/ Opens \/ Takes \/ Reads \/ Offers \/ Closes \/ Idles \/ Serves
         /\ PhoneAck => Departs \/ Reads
         /\ Pump => Offers
         /\ Quarantine => Departs \/ Closes
         /\ Crash => Departs
<1>. USE DEF phoneVars, hubVars
<1>0. phone \in PhoneRow
  BY DEF LinkInv, ServiceInv
<1>1. ASSUME UNCHANGED <<phone, up, down, task>> PROVE Idles
  BY <1>1 DEF Idles, Remains
<1>3. OwnerStep \/ Others \/ UNCHANGED vars => UNCHANGED <<phone, up, down, task>>
  BY DEF OwnerStep, ApprovalLapses, Approve, Others, vars
<1>4. ASSUME NEW q \in PhoneRow, NEW p, Leave(p), UNCHANGED <<up, task>>,
             p \in {Lost(q), Stopped(q)}, q.closing \in {phone.closing, NoClosing}
      PROVE  Departs
  BY <1>4, LostFields DEF Departs, Leave
<1>5. ASSUME NEW p \in PhoneRow, Leave(p), UNCHANGED <<up, task>>, p.conn = 0, p.grant = NoGrant, p.awaiting = NoEvent,
             p.armed = FALSE, p.closing \in {phone.closing, NoClosing}
      PROVE  Departs
  BY <1>5 DEF Departs, Leave
<1>6. ASSUME Disconnect PROVE Departs
  <2>1. (Leave(Lost(phone)) \/ Leave(ClearStreak(Stopped(phone)))) /\ UNCHANGED <<up, task>>
    BY <1>6 DEF Disconnect
  <2>2. CASE Leave(Lost(phone))
    BY <1>0, <1>4, <2>1, <2>2
  <2>3. CASE Leave(ClearStreak(Stopped(phone)))
    BY <1>0, <1>5, <2>1, <2>3, LostFields, ClearFields
  <2>. QED  BY <2>1, <2>2, <2>3
<1>7. ASSUME Crash PROVE Departs
  <2>1. PICK q \in PhoneRow : q = ClearStreak(Stopped(phone))
    BY <1>0, LostFields, ClearFields
  <2>2. Leave([q EXCEPT !.closing = NoClosing]) /\ UNCHANGED <<up, task>>
    BY <1>7, <2>1 DEF Crash
  <2>3. q.conn = 0 /\ q.grant = NoGrant /\ q.awaiting = NoEvent /\ q.armed = FALSE
    <3>1. PICK u \in PhoneRow : u = Stopped(phone)
      BY <1>0, LostFields
    <3>2. u.conn = 0 /\ u.grant = NoGrant /\ u.awaiting = NoEvent /\ u.armed = FALSE
      BY <1>0, <3>1, LostFields
    <3>3. q.conn = u.conn /\ q.grant = u.grant /\ q.awaiting = u.awaiting /\ q.armed = u.armed
      BY <2>1, <3>1, ClearFields
    <3>. QED  BY <3>2, <3>3
  <2>4. PICK r \in PhoneRow : r = [q EXCEPT !.closing = NoClosing]
    BY ClearFields
  <2>5. /\ r.conn = q.conn /\ r.grant = q.grant /\ r.awaiting = q.awaiting
        /\ r.armed = q.armed /\ r.closing = NoClosing
    BY <2>4 DEF PhoneRow
  <2>. QED  BY <1>5, <2>2, <2>3, <2>4, <2>5
<1>8. ASSUME NEW p \in PhoneRow, NEW armed \in BOOLEAN, Connect(p, armed), p.closing = phone.closing,
             Start \/ Reconnect
      PROVE  Opens
  <2>. DEFINE e == session[Phone].epoch + 1
  <2>1. /\ phone' = SessionOpened(p, e, armed) /\ down' = <<>> /\ UNCHANGED <<journalVars, up>>
        /\ task' = [task EXCEPT ![e] = [NoTask EXCEPT !.pc = "idle", !.armed = armed]]
    BY <1>8 DEF Connect
  <2>2. PICK q \in PhoneRow : q = Lost(p)
    BY LostFields
  <2>. HIDE DEF e
  <2>3. phone' = [q EXCEPT !.conn = e, !.armed = armed, !.retire = TRUE]
    BY <2>1, <2>2 DEF SessionOpened
  <2>4. /\ phone'.conn = e /\ phone'.armed = armed /\ phone'.grant = q.grant
        /\ phone'.awaiting = q.awaiting /\ phone'.closing = q.closing
    BY <2>3 DEF PhoneRow
  <2>. QED  BY <1>8, <2>1, <2>2, <2>4, LostFields DEF Opens, e
<1>9. ASSUME Start PROVE Opens
  <2>1. PICK armed \in BOOLEAN : Connect([ClearStreak(phone) EXCEPT !.running = TRUE], armed)
    BY <1>9 DEF Start
  <2>2. PICK q \in PhoneRow : q = ClearStreak(phone)
    BY <1>0, ClearFields
  <2>3. [q EXCEPT !.running = TRUE] \in PhoneRow /\ [q EXCEPT !.running = TRUE].closing = q.closing
    BY DEF PhoneRow
  <2>. QED  BY <1>0, <1>8, <1>9, <2>1, <2>2, <2>3, ClearFields
<1>10. ASSUME Reconnect PROVE Opens
  BY <1>0, <1>8, <1>10 DEF Reconnect
<1>11. ASSUME PhoneGrant PROVE Departs \/ Takes
  <2>0. UNCHANGED <<journalVars, up, task>>
    BY <1>11 DEF PhoneGrant
  <2>1. PICK i \in 1..Len(down), valid \in BOOLEAN :
          /\ SocketTurn(i) /\ down[i].type = "grant"
          /\ \/ /\ phone.armed /\ valid /\ down' = RemoveAt(down, i)
                /\ phone' = [phone EXCEPT !.armed = FALSE,
                            !.grant = [attempt |-> down[i].attempt, live |-> TRUE,
                                       message |-> down[i].message,
                                       prior |-> IF pilot.used THEN pilot.approved ELSE "first"]]
                /\ pilot' = [pilot EXCEPT !.used = TRUE]
             \/ Leave(Stopped(phone))
    BY <1>11, Zenon DEF PhoneGrant
  <2>2. CASE Leave(Stopped(phone))
    BY <1>0, <1>4, <2>0, <2>2
  <2>3. ASSUME phone.armed, NEW g, phone' = [phone EXCEPT !.armed = FALSE, !.grant = g]
        PROVE  Remains /\ phone'.armed = FALSE /\ phone'.grant = g
    BY <1>0, <2>3 DEF Remains, PhoneRow
  <2>4. \A j \in 1..(i - 1) : down[j].type = "ack"
    BY <2>1 DEF SocketTurn
  <2>5. CASE phone.armed /\ down' = RemoveAt(down, i) /\ pilot' = [pilot EXCEPT !.used = TRUE]
                /\ phone' = [phone EXCEPT !.armed = FALSE,
                            !.grant = [attempt |-> down[i].attempt, live |-> TRUE,
                                       message |-> down[i].message,
                                       prior |-> IF pilot.used THEN pilot.approved ELSE "first"]]
    BY <1>11, <2>0, <2>1, <2>3, <2>4, <2>5, Zenon DEF Takes
  <2>. QED  BY <2>1, <2>2, <2>5
<1>12. ASSUME ReserveGrant PROVE Departs \/ Idles
  <2>1. /\ UNCHANGED <<phone, down>> \/ Leave(Lost(phone)) \/ Leave(Stopped(phone))
        /\ UNCHANGED <<up, task>>
    BY <1>12 DEF ReserveGrant
  <2>. QED  BY <1>0, <1>1, <1>4, <2>1
<1>13. ASSUME PhoneAck PROVE Departs \/ Reads
  <2>. DEFINE e == Head(down).event
              a == e[1]
              permitted == Head(down).permitted /\ phone.grant.attempt = a /\ phone.grant.live
  <2>0. UNCHANGED <<up, task>>
    BY <1>13 DEF PhoneAck
  <2>1. \/ Leave(Stopped(phone))
        \/ AckExpected(e) /\ e # phone.awaiting /\ down' = Tail(down) /\ phone' = phone
             /\ UNCHANGED journalVars
        \/ AckExpected(e) /\ e = phone.awaiting /\ down' = Tail(down)
             /\ phone' = [ClearStreak(phone) EXCEPT !.awaiting = NoEvent]
             /\ IF e = Intent(a) THEN AcknowledgeIntent(a, permitted) ELSE AcknowledgeEvent(e)
    BY <1>13, Zenon DEF PhoneAck
  <2>2. down # <<>> /\ Head(down).type = "ack"
    BY <1>13 DEF PhoneAck
  <2>3. CASE AckExpected(e) /\ e = phone.awaiting /\ down' = Tail(down)
               /\ phone' = [ClearStreak(phone) EXCEPT !.awaiting = NoEvent]
               /\ IF e = Intent(a) THEN AcknowledgeIntent(a, permitted) ELSE AcknowledgeEvent(e)
    <3>1. PICK q \in PhoneRow : q = ClearStreak(phone)
      BY <1>0, ClearFields
    <3>2. phone' = [q EXCEPT !.awaiting = NoEvent]
      BY <2>3, <3>1
    <3>3. /\ phone'.conn = q.conn /\ phone'.closing = q.closing /\ phone'.armed = q.armed
          /\ phone'.grant = q.grant /\ phone'.awaiting = NoEvent
      BY <3>2 DEF PhoneRow
    <3>4. e \in PhoneEvent
      <4>1. 1 \in 1..Len(down) /\ Head(down) = down[1]
        BY <2>2, LinkTypes
      <4>. QED  BY <2>2, <4>1, LinkTypes
    <3>5. status'[e] = "acked"
      <4>. HIDE DEF e, permitted
      <4>1. CASE AcknowledgeEvent(e)
        BY <3>4, <4>1 DEF AcknowledgeEvent, Acknowledge
      <4>2. CASE e = Intent(a) /\ AcknowledgeIntent(a, permitted)
        <5>1. \/ status' = Acknowledge(status, {e})
              \/ \E as : status' = Insert(Acknowledge(status, { Intent(b) : b \in {a} }),
                                         { Proof(b) : b \in as })
          BY <4>2 DEF AcknowledgeIntent, ProveNoRadio
        <5>2. ASSUME NEW as PROVE e \notin { Proof(b) : b \in as }
          <6>1. Intent(a)[2] = "durable_submit_intent" /\ \A b : Proof(b)[2] = "proven_no_submit"
            BY DEF Intent, Proof
          <6>2. \A b : e # Proof(b)
            BY <4>2, <6>1
          <6>. QED  BY <6>2
        <5>3. e \in { Intent(b) : b \in {a} }
          BY <4>2
        <5>. QED  BY <3>4, <5>1, <5>2, <5>3 DEF Insert, Acknowledge
      <4>. QED  BY <2>3, <4>1, <4>2
    <3>. HIDE DEF permitted
    <3>. QED  BY <1>0, <1>13, <2>0, <2>2, <2>3, <3>1, <3>3, <3>5, ClearFields DEF Reads
  <2>4. CASE AckExpected(e) /\ e # phone.awaiting /\ down' = Tail(down) /\ phone' = phone
               /\ UNCHANGED journalVars
    BY <1>13, <2>0, <2>2, <2>4 DEF Reads
  <2>5. CASE Leave(Stopped(phone))
    BY <1>0, <1>4, <2>0, <2>5
  <2>. QED  BY <2>1, <2>3, <2>4, <2>5
<1>14. ASSUME Pump PROVE Offers
  <2>. DEFINE next == NextAlphaEvent(status', log')
  <2>1. /\ UNCHANGED <<down, task>>
        /\ \/ (next = {} \/ Held(next)) /\ phone' = [phone EXCEPT !.retire = FALSE] /\ UNCHANGED up
           \/ /\ ~Held(next)
              /\ \E e \in next : /\ up' = [up EXCEPT ![phone.conn] = Append(up[phone.conn], e)]
                                /\ phone' = [phone EXCEPT !.retire = FALSE, !.awaiting = e]
    BY <1>14 DEF Pump
  <2>. HIDE DEF next
  <2>2. CASE (next = {} \/ Held(next)) /\ phone' = [phone EXCEPT !.retire = FALSE] /\ UNCHANGED up
    <3>1. /\ phone'.conn = phone.conn /\ phone'.closing = phone.closing /\ phone'.armed = phone.armed
          /\ phone'.grant = phone.grant /\ phone'.awaiting = phone.awaiting
      BY <1>0, <2>2 DEF PhoneRow
    <3>. QED  BY <1>14, <2>1, <2>2, <3>1 DEF Offers, next
  <2>3. ASSUME ~Held(next), NEW e \in next, up' = [up EXCEPT ![phone.conn] = Append(up[phone.conn], e)],
               phone' = [phone EXCEPT !.retire = FALSE, !.awaiting = e]
        PROVE  Offers
    <3>1. /\ phone'.conn = phone.conn /\ phone'.closing = phone.closing /\ phone'.armed = phone.armed
          /\ phone'.grant = phone.grant /\ phone'.awaiting = e
      BY <1>0, <2>3 DEF PhoneRow
    <3>. QED  BY <1>14, <2>1, <2>3, <3>1 DEF Offers, next
  <2>. QED  BY <2>1, <2>2, <2>3
<1>15. ASSUME GrantLapses PROVE Idles
  <2>1. /\ phone.grant.live /\ UNCHANGED <<up, down, task>>
        /\ phone' = [phone EXCEPT !.grant.live = FALSE, !.retire = TRUE]
    BY <1>15 DEF GrantLapses
  <2>2. phone.grant # NoGrant
    BY <2>1 DEF NoGrant
  <2>3. phone'.grant = [phone.grant EXCEPT !.live = FALSE] /\ Remains /\ phone'.armed = phone.armed
    BY <1>0, <2>1 DEF PhoneRow, Remains
  <2>. QED  BY <2>1, <2>2, <2>3 DEF Idles
<1>16. ASSUME PhoneClose PROVE Departs \/ Closes
  <2>0. UNCHANGED <<up, task>>
    BY <1>16 DEF PhoneClose
  <2>1. \/ \E c : Leave(ClearStreak(AfterClose(phone, c)))
        \/ /\ phone.awaiting # NoEvent /\ UNCHANGED down
           /\ phone' = [phone EXCEPT !.closing = [event |-> phone.awaiting, epoch |-> phone.conn]]
        \/ \E s : Leave([Lost(phone) EXCEPT !.streak = s])
    BY <1>16 DEF PhoneClose
  <2>2. ASSUME NEW c, Leave(ClearStreak(AfterClose(phone, c))) PROVE Departs
    BY <1>0, <1>5, <2>0, <2>2, LostFields, ClearFields DEF AfterClose
  <2>3. ASSUME NEW s, Leave([Lost(phone) EXCEPT !.streak = s]) PROVE Departs
    <3>1. PICK q \in PhoneRow : q = Lost(phone)
      BY <1>0, LostFields
    <3>2. phone' = [q EXCEPT !.streak = s] /\ down' = <<>>
      BY <2>3, <3>1 DEF Leave
    <3>3. /\ phone'.conn = q.conn /\ phone'.grant = q.grant /\ phone'.awaiting = q.awaiting
          /\ phone'.armed = q.armed /\ phone'.closing = q.closing
      BY <3>2 DEF PhoneRow
    <3>. QED  BY <1>0, <2>0, <3>1, <3>2, <3>3, LostFields DEF Departs
  <2>4. ASSUME phone.awaiting # NoEvent, UNCHANGED down,
               phone' = [phone EXCEPT !.closing = [event |-> phone.awaiting, epoch |-> phone.conn]]
        PROVE  Closes
    BY <1>0, <1>16, <2>0, <2>4 DEF Closes, PhoneRow
  <2>. QED  BY <2>1, <2>2, <2>3, <2>4
<1>17. ASSUME Quarantine PROVE Departs \/ Closes
  <2>1. PICK q \in PhoneRow : q = ClearStreak(phone)
    BY <1>0, ClearFields
  <2>2. PICK r \in PhoneRow : r = [q EXCEPT !.closing = NoClosing]
    BY ClearFields
  <2>3. /\ r.conn = phone.conn /\ r.grant = phone.grant /\ r.awaiting = phone.awaiting
        /\ r.armed = phone.armed /\ r.closing = NoClosing
    <3>1. /\ r.conn = q.conn /\ r.grant = q.grant /\ r.awaiting = q.awaiting
          /\ r.armed = q.armed /\ r.closing = NoClosing
      BY <2>2 DEF PhoneRow
    <3>. QED  BY <1>0, <2>1, <3>1, ClearFields
  <2>4. \/ phone.conn # phone.closing.epoch /\ phone' = r /\ UNCHANGED down
        \/ Leave(Lost(r)) \/ Leave(Stopped(r))
    BY <1>17, <2>1, <2>2 DEF Quarantine
  <2>5. UNCHANGED <<up, task>>
    BY <1>17 DEF Quarantine
  <2>. QED  BY <1>4, <1>17, <2>3, <2>4, <2>5 DEF Closes
<1>18. SendRefused \/ SendConsumes \/ SendFinishes => UNCHANGED <<phone, up, down, task>>
  BY DEF SendRefused, SendConsumes, SendFinishes
<1>19. ASSUME NEW a \in Attempts, Stall(a) \/ \E r \in Reports : Callback(a, r)
       PROVE  UNCHANGED <<phone, up, down, task>>
  BY <1>19 DEF Stall, Callback
<1>20. ASSUME PhoneStep(Reports) PROVE Departs \/ Takes \/ Reads \/ Offers \/ Closes \/ Idles
  BY <1>1, <1>11, <1>12, <1>13, <1>14, <1>15, <1>16, <1>17, <1>18, <1>19, <1>20 DEF PhoneStep
<1>21. Departs \/ Opens \/ Takes \/ Reads \/ Offers \/ Closes \/ Idles \/ Serves
  BY <1>1, <1>3, <1>6, <1>7, <1>9, <1>10, <1>20 DEF GatewayNext, LinkStep, Serves
<1>. QED  BY <1>7, <1>13, <1>14, <1>17, <1>21

-----------------------------------------------------------------------------
(***************************************************************************)
(* One test at a time.                                                     *)
(***************************************************************************)

\* Calls no approval was spent on.
Unresolved == { a \in Attempts : radio[a] > 0 /\ a \notin pilot.spent }

\* At most one attempt is between its grant and the record of its failure: it is
\* open, or it was called and no approval was spent on it.  The one-use marker is set
\* before the first row is written.
TestsInv ==
  /\ \A a, b \in Unresolved : a = b
  /\ \A p \in pilot.spent : status[<<p, "sent_callback_failed">>] = "acked"
  /\ \A x \in Attempts : Opened(x) => Unresolved = {}
  /\ \A x, y \in Attempts : Opened(x) /\ Opened(y) => x = y
  /\ ~pilot.used => phone.grant = NoGrant /\ \A a \in Attempts : journal[a].state = "absent"
  /\ phone.grant.prior = "first" =>
       \A a \in Attempts \ {phone.grant.attempt} : journal[a].state = "absent"

\* An acknowledged event other than an intent, which is also settled by retirement.
AckedInv == \A e \in PhoneEvent :
              status[e] = "acked" /\ e[2] # "durable_submit_intent" => Known(e)

\* Approvals are spent by a reservation only, and the marker stays set.
PilotMoves ==
  /\ pilot.used => pilot'.used
  /\ \/ pilot'.spent = pilot.spent
     \/ /\ ReserveGrant /\ phone.grant.prior # "first" /\ Spendable(phone.grant.prior)
        /\ pilot'.spent = pilot.spent \union {phone.grant.prior}

LEMMA PilotStep ==
  ASSUME LinkInv, [GatewayNext]_vars
  PROVE  PilotMoves
<1>. USE DEF phoneVars, hubVars
<1>0. pilot \in PilotRow
  BY DEF LinkInv, SendInv
<1>1. ASSUME UNCHANGED pilot PROVE PilotMoves
  BY <1>1 DEF PilotMoves
<1>2. \A e \in Epochs : Server(e) => UNCHANGED pilot
  BY DEF Server, ServerReceive, ServerRecord, ServerRefuse, ServerAnswer, ServerClaim,
         ServerGrant, ServerConfirm, ServerGiveUp, ServerRelease, ServerDies
<1>3. LinkStep \/ Others \/ UNCHANGED vars => UNCHANGED pilot
  BY DEF LinkStep, Start, Reconnect, Connect, Disconnect, Crash, Others, vars
<1>4. ASSUME OwnerStep PROVE PilotMoves
  <2>1. PICK p : pilot' = [pilot EXCEPT !.approved = p]
    BY <1>4 DEF OwnerStep, ApprovalLapses, Approve
  <2>. QED  BY <1>0, <2>1 DEF PilotMoves, PilotRow
<1>5. ASSUME PhoneGrant PROVE PilotMoves
  <2>1. UNCHANGED pilot \/ pilot' = [pilot EXCEPT !.used = TRUE]
    BY <1>5, Zenon DEF PhoneGrant
  <2>. QED  BY <1>0, <2>1 DEF PilotMoves, PilotRow
<1>6. ASSUME ReserveGrant PROVE PilotMoves
  <2>1. \/ UNCHANGED pilot
        \/ /\ phone.grant.prior # "first" /\ Spendable(phone.grant.prior)
           /\ pilot' = Spent(phone.grant.prior)
    BY <1>6, Zenon DEF ReserveGrant
  <2>2. ASSUME NEW p, pilot' = Spent(p)
        PROVE  pilot'.spent = pilot.spent \union {p} /\ pilot'.used = pilot.used
    BY <1>0, <2>2 DEF Spent, PilotRow
  <2>. QED  BY <1>1, <1>6, <2>1, <2>2 DEF PilotMoves
<1>7. PhoneAck \/ Pump \/ GrantLapses \/ PhoneClose \/ Quarantine => UNCHANGED pilot
  BY DEF PhoneAck, Pump, GrantLapses, PhoneClose, Quarantine
<1>8. SendRefused \/ SendConsumes \/ SendFinishes => UNCHANGED pilot
  BY DEF SendRefused, SendConsumes, SendFinishes
<1>9. \A a \in Attempts : Stall(a) \/ (\E r \in Reports : Callback(a, r)) => UNCHANGED pilot
  BY DEF Stall, Callback
<1>10. ASSUME PhoneStep(Reports) PROVE PilotMoves
  BY <1>1, <1>5, <1>6, <1>7, <1>8, <1>9, <1>10 DEF PhoneStep
<1>. QED  BY <1>1, <1>2, <1>3, <1>4, <1>10 DEF GatewayNext

\* The grant the phone holds is kept, lapses, is given up or is new.
LEMMA GrantMoves ==
  ASSUME LinkInv, [GatewayNext]_vars
  PROVE  \/ phone'.grant = NoGrant
         \/ /\ phone.grant # NoGrant /\ phone'.grant.attempt = phone.grant.attempt
            /\ phone'.grant.prior = phone.grant.prior
         \/ /\ PhoneGrant /\ pilot'.used /\ UNCHANGED journalVars
            /\ phone'.grant.prior = "first" => ~pilot.used
<1>0. phone \in PhoneRow /\ pilot \in PilotRow
  BY DEF LinkInv, ServiceInv, SendInv
<1>1. CASE Departs \/ Opens
  BY <1>1 DEF Departs, Opens
<1>2. CASE Reads \/ Offers \/ Closes
  BY <1>2 DEF Reads, Offers, Closes
<1>3. CASE Idles
  <2>1. CASE phone'.grant = phone.grant
    BY <2>1
  <2>2. CASE phone.grant # NoGrant /\ phone'.grant = [phone.grant EXCEPT !.live = FALSE]
    BY <1>0, <2>2 DEF PhoneRow, GrantRow
  <2>. QED  BY <1>3, <2>1, <2>2 DEF Idles
<1>5. CASE Serves
  <2>1. UNCHANGED phone
    BY <1>5 DEF Serves, Server, ServerReceive, ServerRecord, ServerRefuse, ServerAnswer,
                ServerClaim, ServerGrant, ServerConfirm, ServerGiveUp, ServerRelease, ServerDies, phoneVars
  <2>. QED  BY <2>1
<1>4. CASE Takes
  <2>1. pilot' = [pilot EXCEPT !.used = TRUE] /\ PhoneGrant
    BY <1>4 DEF Takes
  <2>2. pilot'.used /\ UNCHANGED journalVars
    BY <1>0, <2>1 DEF PilotRow, PhoneGrant
  <2>3. phone'.grant.prior = IF pilot.used THEN pilot.approved ELSE "first"
    BY <1>4 DEF Takes
  <2>4. pilot.approved # "first"
    BY <1>0, GatewayAssumption DEF PilotRow
  <2>. QED  BY <2>1, <2>2, <2>3, <2>4
<1>. QED  BY <1>1, <1>2, <1>3, <1>4, <1>5, ServiceMoves

\* A row is written when nothing is open or unresolved any more.
LEMMA ReservedAlone ==
  ASSUME JournalInv, TestsInv, ReserveGrant, PilotMoves, NEW x \in Attempts,
         journal[x].state = "absent", journal'[x].state # "absent", x = phone.grant.attempt
  PROVE  /\ Unresolved' = {} /\ \A y \in Attempts : ~Opened(y)
<1>1. /\ phone.grant.prior = "first" \/ Spendable(phone.grant.prior)
      /\ phone.grant.prior = "first" \/ pilot' = Spent(phone.grant.prior)
      /\ Reserve(phone.grant.attempt, phone.grant.message)
  <2>1. ~UNCHANGED journalVars
    BY DEF journalVars
  <2>. QED  BY <2>1 DEF ReserveGrant
<1>2. UNCHANGED radio /\ pilot.spent \subseteq pilot'.spent
  BY <1>1 DEF Reserve, PilotMoves
<1>3. \A y \in Attempts : AttemptSound(y) /\ radio[y] \in Nat
  BY DEF JournalInv, GatewayInv, PhoneInv, JournalShape
<1>4. CASE phone.grant.prior = "first"
  <2>1. \A y \in Attempts : journal[y].state = "absent"
    BY <1>4 DEF TestsInv
  <2>2. \A y \in Attempts : radio[y] = 0
    BY <1>3, <2>1 DEF AttemptSound, Uncalled
  <2>. QED  BY <1>2, <2>1, <2>2 DEF Unresolved, Opened
<1>5. CASE phone.grant.prior # "first" /\ Spendable(phone.grant.prior)
  <2>. DEFINE p == phone.grant.prior
  <2>1. p \in Attempts /\ p \notin pilot.spent /\ Approvable(p, "none")
    BY <1>5 DEF Spendable, Approvable
  <2>2. \A y \in Attempts : ~Opened(y)
    BY <2>1, StoreAssumption DEF Approvable, Opened
  <2>3. radio[p] > 0
    <3>1. status[<<p, "sent_callback_failed">>] = "acked"
      BY <2>1 DEF Approvable
    <3>. QED  BY <1>3, <2>1, <3>1 DEF AttemptSound, CallEvidence, SentCallback
  <2>4. p \in Unresolved
    BY <2>1, <2>3 DEF Unresolved
  <2>5. p \in pilot'.spent
    <3>1. pilot' = Spent(p) /\ pilot \in PilotRow
      BY <1>1, <1>5 DEF JournalInv, GatewayInv, LinkInv, SendInv
    <3>. QED  BY <3>1 DEF Spent, PilotRow
  <2>6. \A a \in Unresolved : a = p
    BY <2>4 DEF TestsInv
  <2>7. Unresolved' \subseteq Unresolved
    BY <1>2 DEF Unresolved
  <2>8. p \notin Unresolved'
    BY <2>5 DEF Unresolved
  <2>. QED  BY <2>2, <2>6, <2>7, <2>8
<1>. QED  BY <1>1, <1>4, <1>5

LEMMA TestsStep ==
  ASSUME JournalInv, TestsInv, [GatewayNext]_vars
  PROVE  TestsInv'
<1>1. Kept /\ Entered
  BY GatewayKept DEF JournalInv, GatewayInv
<1>2. PilotMoves
  BY PilotStep DEF JournalInv, GatewayInv
<1>3. pilot.spent \subseteq pilot'.spent /\ pilot \in PilotRow
  BY <1>2 DEF PilotMoves, JournalInv, GatewayInv, LinkInv, SendInv
<1>4. \A a \in Attempts : AttemptSound(a) /\ radio[a] \in Nat /\ radio'[a] \in Nat
  BY <1>1 DEF JournalInv, GatewayInv, PhoneInv, JournalShape, Kept
<1>5. ASSUME NEW p \in pilot'.spent PROVE status'[<<p, "sent_callback_failed">>] = "acked"
  <2>1. p \in Attempts /\ status[<<p, "sent_callback_failed">>] = "acked"
    <3>1. CASE p \in pilot.spent
      BY <1>3, <3>1 DEF TestsInv, PilotRow
    <3>2. CASE Spendable(p)
      BY <3>2 DEF Spendable, Approvable
    <3>. QED  BY <1>2, <1>5, <3>1, <3>2 DEF PilotMoves
  <2>2. Lasts(p) /\ "sent_callback_failed" \in PhoneEvidence
    BY <1>1, <2>1, EvidenceNames DEF Kept, CallEvidence, SentCallback
  <2>. QED  BY <2>1, <2>2 DEF Lasts
<1>6. /\ \A a, b \in Unresolved' : a = b
      /\ \A x \in Attempts : Opened(x)' => Unresolved' = {}
      /\ \A x, y \in Attempts : Opened(x)' /\ Opened(y)' => x = y
  <2>1. CASE \E x \in Attempts : journal[x].state = "absent" /\ journal'[x].state # "absent"
    <3>1. PICK x \in Attempts : journal[x].state = "absent" /\ journal'[x].state # "absent"
      BY <2>1
    <3>2. ReserveGrant /\ x = phone.grant.attempt
      BY <1>1, <3>1 DEF Entered
    <3>3. Unresolved' = {} /\ \A y \in Attempts : ~Opened(y)
      BY <1>2, <3>1, <3>2, ReservedAlone
    <3>4. ASSUME NEW y \in Attempts, Opened(y)' PROVE y = x
      <4>1. journal[y].state = "absent" /\ journal'[y].state # "absent"
        BY <1>1, <3>3, <3>4 DEF Kept, Firm, Opened
      <4>2. y = phone.grant.attempt
        BY <1>1, <4>1 DEF Entered
      <4>. QED  BY <3>2, <4>2
    <3>. QED  BY <3>3, <3>4
  <2>2. CASE \A x \in Attempts : journal[x].state = "absent" => journal'[x].state = "absent"
    <3>1. \A x \in Attempts : Opened(x)' => Opened(x)
      BY <1>1, <2>2 DEF Kept, Firm, Opened
    <3>2. CASE \A a \in Attempts : radio'[a] = radio[a]
      <4>1. Unresolved' \subseteq Unresolved
        BY <1>3, <3>2 DEF Unresolved
      <4>. QED  BY <3>1, <4>1 DEF TestsInv
    <3>3. CASE \E a \in Attempts : radio'[a] # radio[a]
      <4>1. PICK a \in Attempts : radio'[a] # radio[a]
        BY <3>3
      <4>2. \A b \in Attempts : radio'[b] # radio[b] => sender.attempt = b /\ sender.pc = "consumed"
        BY RadioBySender DEF JournalInv, GatewayInv
      <4>3. radio[a] = 0 /\ journal[a].state = "radio_started"
        BY <1>4, <4>1, <4>2 DEF AttemptSound
      <4>4. Opened(a) /\ Unresolved = {}
        BY <4>3 DEF Opened, TestsInv
      <4>5. Unresolved' \subseteq {a}
        BY <1>3, <4>1, <4>2, <4>4 DEF Unresolved
      <4>6. \A x \in Attempts : ~Opened(x)'
        <5>1. ASSUME NEW x \in Attempts, Opened(x)' PROVE FALSE
          <6>1. x = a
            BY <3>1, <4>4, <5>1 DEF TestsInv
          <6>2. radio'[a] = 0
            BY <5>1, <6>1 DEF Opened
          <6>. QED  BY <4>1, <4>3, <6>2
        <5>. QED  BY <5>1
      <4>. QED  BY <4>5, <4>6
    <3>. QED  BY <3>2, <3>3
  <2>. QED  BY <2>1, <2>2
<1>7. /\ ~pilot'.used => phone'.grant = NoGrant /\ \A a \in Attempts : journal'[a].state = "absent"
      /\ phone'.grant.prior = "first" =>
           \A a \in Attempts \ {phone'.grant.attempt} : journal'[a].state = "absent"
  <2>1. \A a \in Attempts : journal[a].state = "absent" /\ journal'[a].state # "absent" =>
          phone.grant # NoGrant /\ a = phone.grant.attempt
    BY <1>1 DEF Entered
  <2>2. CASE phone'.grant = NoGrant
    <3>1. phone'.grant.prior # "first"
      BY <2>2 DEF NoGrant
    <3>2. ~pilot'.used => ~pilot.used
      BY <1>2 DEF PilotMoves
    <3>. QED  BY <2>1, <2>2, <3>1, <3>2 DEF TestsInv
  <2>3. CASE /\ phone.grant # NoGrant /\ phone'.grant.attempt = phone.grant.attempt
             /\ phone'.grant.prior = phone.grant.prior
    <3>1. pilot.used /\ pilot'.used
      BY <1>2, <2>3 DEF TestsInv, PilotMoves
    <3>. QED  BY <2>1, <2>3, <3>1 DEF TestsInv
  <2>4. CASE /\ PhoneGrant /\ pilot'.used /\ UNCHANGED journalVars
             /\ phone'.grant.prior = "first" => ~pilot.used
    BY <2>4 DEF TestsInv, journalVars
  <2>. QED  BY <2>2, <2>3, <2>4, GrantMoves DEF JournalInv, GatewayInv
<1>. QED  BY <1>5, <1>6, <1>7 DEF TestsInv

\* An event that was ever written has a row that bears it out.
LEMMA StatusIsWritten ==
  ASSUME PhoneInv, NEW e \in PhoneEvent, status[e] # "none"
  PROVE  Written(e)
<1>1. e[1] \in Attempts /\ e[2] \in PhoneEvidence /\ e = <<e[1], e[2]>> /\ AttemptSound(e[1])
  BY EventNames DEF PhoneInv
<1>2. status[<<e[1], e[2]>>] # "none"
  BY <1>1
<1>. QED  BY <1>1, <1>2 DEF Written, AttemptSound, Proof

LEMMA AckedStep ==
  ASSUME JournalInv, AckedInv, [GatewayNext]_vars
  PROVE  AckedInv'
<1>. SUFFICES ASSUME NEW e \in PhoneEvent, status'[e] = "acked", e[2] # "durable_submit_intent"
              PROVE  Known(e)'
  BY DEF AckedInv
<1>. USE DEF JournalInv, GatewayInv
<1>1. Stable
  BY StoreSide, GatewayKept, StaysStable
<1>2. Written(e) /\ Known(e)
  <2>1. CASE status[e] = "acked"
    BY <2>1, StatusIsWritten DEF AckedInv
  <2>2. CASE PhoneAck /\ e = Head(down).event
    <3>1. down # <<>> /\ Head(down).type = "ack"
      BY <2>2 DEF PhoneAck
    <3>2. 1 \in 1..Len(down) /\ Head(down) = down[1]
      BY <3>1, LinkTypes
    <3>. QED  BY <2>2, <3>1, <3>2 DEF LinkInv, DownInv, FrameSound
  <2>3. e # Intent(e[1])
    BY DEF Intent
  <2>. QED  BY <2>1, <2>2, <2>3, StatusStep DEF StatusMoves
<1>. QED  BY <1>1, <1>2 DEF Stable

\* A further test is sent only once the hub has recorded the failure of every call
\* before it, however acknowledgements, approvals, late callbacks and restarts fall.
THEOREM TestsAreSettled == GatewaySpec => []OneUnresolvedCall
<1>1. ASSUME GatewayInit PROVE TestsInv /\ AckedInv
  <2>1. /\ journal = [a \in Attempts |-> NoRow] /\ status = [e \in PhoneEvent |-> "none"]
        /\ radio = [a \in Attempts |-> 0] /\ pilot.spent = {}
    BY <1>1 DEF GatewayInit, JournalInit
  <2>2. phone.grant = NoGrant
    BY <1>1 DEF GatewayInit
  <2>3. phone.grant.prior # "first"
    BY <2>2 DEF NoGrant
  <2>4. \A a \in Attempts : journal[a].state = "absent"
    BY <2>1 DEF NoRow
  <2>5. Unresolved = {} /\ \A a \in Attempts : ~Opened(a)
    BY <2>1, <2>4 DEF Unresolved, Opened
  <2>. QED  BY <2>1, <2>2, <2>3, <2>4, <2>5 DEF TestsInv, AckedInv
<1>2. ASSUME JournalInv, TestsInv /\ AckedInv, [GatewayNext]_vars PROVE (TestsInv /\ AckedInv)'
  BY <1>2, TestsStep, AckedStep
<1>3. ASSUME JournalInv, TestsInv, AckedInv PROVE OneUnresolvedCall
  <2>. DEFINE open == { a \in Attempts : /\ radio[a] > 0 /\ journal[a].message \notin redacted
                                         /\ Recorded(a, {"sent_callback_failed"}) = {} }
  <2>1. ASSUME NEW a \in open PROVE a \in Unresolved
    <3>. SUFFICES ASSUME a \in pilot.spent PROVE FALSE
      BY <2>1 DEF Unresolved
    <3>. DEFINE e == <<a, "sent_callback_failed">>
    <3>1. e \in PhoneEvent /\ e[1] = a /\ e[2] = "sent_callback_failed"
      BY <2>1, EventNames, EvidenceNames DEF CallEvidence, SentCallback
    <3>2. status[e] = "acked"
      BY <1>3 DEF TestsInv
    <3>. HIDE DEF e
    <3>3. Wire(e) \in events
      BY <1>3, <2>1, <3>1, <3>2 DEF AckedInv, Known
    <3>4. Wire(e).attempt = a /\ Wire(e).evidence = "sent_callback_failed"
      BY <3>1 DEF Wire
    <3>. QED  BY <2>1, <3>3, <3>4 DEF Recorded
  <2>2. open = {} \/ \E a : open = {a}
    <3>1. \A a, b \in open : a = b
      BY <1>3, <2>1 DEF TestsInv
    <3>. HIDE DEF open
    <3>. QED  BY <3>1
  <2>. HIDE DEF open
  <2>3. Cardinality(open) \in {0, 1}
    <3>1. Cardinality({}) = 0
      BY FS_EmptySet
    <3>2. \A a : Cardinality({a}) = 1
      BY FS_Singleton
    <3>. QED  BY <2>2, <3>1, <3>2
  <2>. QED  BY <2>3 DEF open, OneUnresolvedCall
<1>. QED  BY <1>1, <1>2, <1>3, JournalInvariant, PTL DEF GatewaySpec

-----------------------------------------------------------------------------
(***************************************************************************)
(* What one step of the hub may do to a task and to the frames.            *)
(***************************************************************************)

\* A step of the task of connection e, which leaves it as t; f is its frame, if it
\* sends one.
HubStep(e, t, f) ==
  /\ task[e].pc \notin {"off", "done"} /\ task' = [task EXCEPT ![e] = t]
  /\ UNCHANGED <<phone, journalVars>>
  /\ down' = down \/ (phone.conn = e /\ down' = Append(down, f))
  /\ \/ /\ f.type = "close" /\ up[e] # <<>> /\ up' = [up EXCEPT ![e] = Tail(@)] /\ UNCHANGED storeVars
        /\ \/ t.pc = "record" /\ t.event = Head(up[e]) /\ t.armed = task[e].armed
           \/ t.pc = "closing" /\ ~t.armed
     \/ /\ f.type = "close" /\ UNCHANGED up
        /\ \/ t.pc \in {"closing", "done"} /\ ~t.armed
           \/ t.pc = "idle" /\ t.armed = task[e].armed
           \/ /\ t.pc = "answer" /\ task[e].pc = "record"
              /\ t.event = task[e].event /\ t.armed = task[e].armed
              /\ RecordRadioEvent(Wire(t.event)) \/ (Wire(t.event) \in events /\ UNCHANGED storeVars)
           \/ t.pc = "claimed" /\ task[e].armed /\ t.armed
           \/ /\ t.pc = "granted" /\ task[e].pc = "claimed" /\ t.armed = task[e].armed
              /\ attempt[t.attempt] = NoAttempt
     \/ /\ f.type = "ack" /\ f.event = task[e].event /\ task[e].pc = "answer"
        /\ UNCHANGED <<up, storeVars>> /\ t.pc = "idle" /\ t.armed = task[e].armed
     \/ /\ f.type = "grant" /\ f.attempt = task[e].attempt /\ task[e].pc = "granted"
        /\ UNCHANGED <<up, storeVars>> /\ t.pc = "idle" /\ ~t.armed

LEMMA ClosesTask ==
  ASSUME NEW e \in Epochs, NEW code, NEW x, Close(e, code, x),
         task[e].pc \notin {"off", "done"}, UNCHANGED <<phone, journalVars>>,
         UNCHANGED up \/ (UNCHANGED storeVars /\ up[e] # <<>> /\ up' = [up EXCEPT ![e] = Tail(@)])
  PROVE  \E t, f : HubStep(e, t, f)
<1>1. PICK t : t = [NoTask EXCEPT !.pc = "closing"]
  OBVIOUS
<1>2. t.pc = "closing" /\ ~t.armed
  BY <1>1 DEF NoTask
<1>3. PICK f : f = CloseFrame(code, x)
  OBVIOUS
<1>4. f.type = "close"
  BY <1>3 DEF CloseFrame
<1>5. task' = [task EXCEPT ![e] = t] /\ (down' = down \/ (phone.conn = e /\ down' = Append(down, f)))
  BY <1>1, <1>3 DEF Close, Send
<1>. QED  BY <1>2, <1>4, <1>5 DEF HubStep

LEMMA QuietTask ==
  ASSUME NEW e \in Epochs, NEW t, task' = [task EXCEPT ![e] = t], UNCHANGED <<phone, journalVars, up, down>>,
         task[e].pc \notin {"off", "done"},
         \/ t.pc \in {"closing", "done"} /\ ~t.armed
         \/ t.pc = "idle" /\ t.armed = task[e].armed
         \/ /\ t.pc = "answer" /\ task[e].pc = "record"
            /\ t.event = task[e].event /\ t.armed = task[e].armed
            /\ RecordRadioEvent(Wire(t.event)) \/ (Wire(t.event) \in events /\ UNCHANGED storeVars)
         \/ t.pc = "claimed" /\ task[e].armed /\ t.armed
         \/ /\ t.pc = "granted" /\ task[e].pc = "claimed" /\ t.armed = task[e].armed
            /\ attempt[t.attempt] = NoAttempt
  PROVE  \E x, f : HubStep(e, x, f)
<1>1. PICK f : f = CloseFrame("none", NoEvent)
  OBVIOUS
<1>2. f.type = "close"
  BY <1>1 DEF CloseFrame
<1>3. HubStep(e, t, f)
  BY <1>2 DEF HubStep
<1>. QED  BY <1>3

LEMMA HubMoves ==
  ASSUME PhoneInv, LinkInv, NEW e \in Epochs, Server(e)
  PROVE  \E t, f : HubStep(e, t, f)
<1>. USE DEF phoneVars
<1>. DEFINE Goal == \E t, f : HubStep(e, t, f)
<1>1. task \in [Epochs -> TaskRow] /\ task[e] \in TaskRow
  BY DEF LinkInv, TasksInv
<1>2. PICK r \in TaskRow : r = task[e]
  BY <1>1
<1>3. CASE ServerReceive(e)
  <2>1. PICK x : x = Head(up[e])
    OBVIOUS
  <2>2. /\ r.pc = "idle" /\ up[e] # <<>> /\ up' = [up EXCEPT ![e] = Tail(@)]
        /\ UNCHANGED <<storeVars, journalVars, phone>>
    BY <1>2, <1>3 DEF ServerReceive
  <2>3. up[e] \in Seq(PhoneEvent)
    BY DEF LinkInv, UpInv
  <2>4. x \in PhoneEvent /\ Wire(x).id = x
    BY <2>1, <2>2, <2>3 DEF Wire
  <2>5. \/ \E code, y : Close(e, code, y)
        \/ task' = [task EXCEPT ![e].pc = "record", ![e].event = x] /\ UNCHANGED down
    BY <1>3, <2>1, <2>4 DEF ServerReceive
  <2>6. CASE \E code, y : Close(e, code, y)
    BY <1>2, <2>2, <2>6, ClosesTask
  <2>7. CASE task' = [task EXCEPT ![e].pc = "record", ![e].event = x] /\ UNCHANGED down
    <3>1. PICK t : t = [r EXCEPT !.pc = "record", !.event = x]
      OBVIOUS
    <3>2. t.pc = "record" /\ t.event = x /\ t.armed = r.armed
      BY <3>1 DEF TaskRow
    <3>3. task' = [task EXCEPT ![e] = t]
      BY <1>1, <1>2, <2>7, <3>1
    <3>4. PICK f : f = CloseFrame("none", NoEvent)
      OBVIOUS
    <3>5. f.type = "close"
      BY <3>4 DEF CloseFrame
    <3>6. HubStep(e, t, f)
      BY <1>2, <2>1, <2>2, <2>7, <3>2, <3>3, <3>5 DEF HubStep
    <3>. QED  BY <3>6
  <2>. QED  BY <2>5, <2>6, <2>7
<1>4. CASE ServerRecord(e)
  <2>1. PICK t : t = [r EXCEPT !.pc = "answer"]
    OBVIOUS
  <2>2. t.pc = "answer" /\ t.event = r.event /\ t.armed = r.armed
    BY <2>1 DEF TaskRow
  <2>3. task' = [task EXCEPT ![e] = t]
    BY <1>1, <1>2, <1>4, <2>1 DEF ServerRecord
  <2>4. /\ r.pc = "record" /\ UNCHANGED <<journalVars, phone, up, down>>
        /\ RecordRadioEvent(Wire(r.event)) \/ (RadioResult(Wire(r.event)) = "replay" /\ UNCHANGED storeVars)
    BY <1>2, <1>4 DEF ServerRecord
  <2>5. RadioResult(Wire(r.event)) = "replay" => Wire(r.event) \in events
    BY Zenon DEF RadioResult
  <2>. QED  BY <1>2, <2>2, <2>3, <2>4, <2>5, QuietTask
<1>5. CASE ServerRefuse(e)
  <2>1. /\ r.pc = "record" /\ UNCHANGED <<journalVars, phone, up>> /\ \E code, y : Close(e, code, y)
    BY <1>2, <1>5 DEF ServerRefuse
  <2>. QED  BY <1>2, <2>1, ClosesTask
<1>6. CASE ServerAnswer(e)
  <2>1. PICK p : Send(e, AckFrame(Wire(r.event).id, p))
    BY <1>2, <1>6 DEF ServerAnswer
  <2>2. PICK t : t = [r EXCEPT !.pc = "idle", !.event = NoEvent]
    OBVIOUS
  <2>3. t.pc = "idle" /\ t.armed = r.armed
    BY <2>2 DEF TaskRow
  <2>4. task' = [task EXCEPT ![e] = t]
    BY <1>1, <1>2, <1>6, <2>2 DEF ServerAnswer
  <2>5. r.pc = "answer" /\ UNCHANGED <<storeVars, journalVars, phone, up>>
    BY <1>2, <1>6 DEF ServerAnswer
  <2>6. PICK f : f = AckFrame(Wire(r.event).id, p)
    OBVIOUS
  <2>7. f.type = "ack" /\ f.event = r.event
    BY <2>6 DEF AckFrame, Wire
  <2>8. HubStep(e, t, f)
    BY <1>2, <2>1, <2>3, <2>4, <2>5, <2>6, <2>7 DEF HubStep, Send
  <2>. QED  BY <2>8
<1>7. CASE ServerClaim(e)
  <2>1. /\ r.pc = "idle" /\ r.armed /\ UNCHANGED <<journalVars, phone, up, down>>
    BY <1>2, <1>7 DEF ServerClaim
  <2>2. PICK m, g : task' = [task EXCEPT ![e].pc = "claimed", ![e].message = m, ![e].generation = g]
    BY <1>7 DEF ServerClaim
  <2>3. PICK t : t = [r EXCEPT !.pc = "claimed", !.message = m, !.generation = g]
    OBVIOUS
  <2>4. t.pc = "claimed" /\ t.armed = r.armed
    BY <2>3 DEF TaskRow
  <2>5. task' = [task EXCEPT ![e] = t]
    BY <1>1, <1>2, <2>2, <2>3
  <2>. QED  BY <1>2, <2>1, <2>4, <2>5, QuietTask
<1>8. CASE ServerGrant(e)
  <2>1. r.pc = "claimed" /\ UNCHANGED <<journalVars, phone, up, down>>
    BY <1>2, <1>8 DEF ServerGrant
  <2>2. \/ \E a \in Attempts : /\ attempt[a] = NoAttempt
                               /\ task' = [task EXCEPT ![e].pc = "granted", ![e].attempt = a]
        \/ task' = [task EXCEPT ![e].pc = "idle"]
    BY <1>8 DEF ServerGrant, IssueGrant
  <2>3. CASE task' = [task EXCEPT ![e].pc = "idle"]
    <3>1. PICK t : t = [r EXCEPT !.pc = "idle"]
      OBVIOUS
    <3>2. t.pc = "idle" /\ t.armed = r.armed
      BY <3>1 DEF TaskRow
    <3>3. task' = [task EXCEPT ![e] = t]
      BY <1>1, <1>2, <2>3, <3>1
    <3>. QED  BY <1>2, <2>1, <3>2, <3>3, QuietTask
  <2>4. ASSUME NEW a \in Attempts, attempt[a] = NoAttempt,
               task' = [task EXCEPT ![e].pc = "granted", ![e].attempt = a]
        PROVE  Goal
    <3>1. PICK t : t = [r EXCEPT !.pc = "granted", !.attempt = a]
      OBVIOUS
    <3>2. t.pc = "granted" /\ t.armed = r.armed /\ t.attempt = a
      BY <3>1 DEF TaskRow
    <3>3. task' = [task EXCEPT ![e] = t]
      BY <1>1, <1>2, <2>4, <3>1
    <3>. QED  BY <1>2, <2>1, <2>4, <3>2, <3>3, QuietTask
  <2>. QED  BY <2>2, <2>3, <2>4
<1>9. CASE ServerConfirm(e)
  <2>1. r.pc = "granted" /\ UNCHANGED <<storeVars, journalVars, phone, up>>
        /\ Send(e, GrantFrame(r.attempt, r.message))
    BY <1>2, <1>9 DEF ServerConfirm
  <2>2. PICK t : t = [NoTask EXCEPT !.pc = "idle"]
    OBVIOUS
  <2>3. t.pc = "idle" /\ ~t.armed
    BY <2>2 DEF NoTask
  <2>4. task' = [task EXCEPT ![e] = t]
    BY <1>9, <2>2 DEF ServerConfirm
  <2>5. PICK f : f = GrantFrame(r.attempt, r.message)
    OBVIOUS
  <2>6. f.type = "grant" /\ f.attempt = r.attempt
    BY <2>5 DEF GrantFrame
  <2>7. HubStep(e, t, f)
    BY <1>2, <2>1, <2>3, <2>4, <2>5, <2>6 DEF HubStep, Send
  <2>. QED  BY <2>7
<1>10. CASE ServerGiveUp(e)
  <2>1. /\ r.pc \in {"idle", "claimed", "granted"} /\ UNCHANGED <<journalVars, phone, up>>
        /\ \E code, y : Close(e, code, y)
    BY <1>2, <1>10 DEF ServerGiveUp
  <2>. QED  BY <1>2, <2>1, ClosesTask
<1>11. CASE ServerRelease(e) \/ ServerDies(e)
  <2>1. /\ r.pc \notin {"off", "done"} /\ UNCHANGED <<journalVars, phone, up, down>>
        /\ task' = [task EXCEPT ![e] = [NoTask EXCEPT !.pc = "done"]]
    BY <1>2, <1>11 DEF ServerRelease, ServerDies
  <2>2. PICK t : t = [NoTask EXCEPT !.pc = "done"]
    OBVIOUS
  <2>3. t.pc = "done" /\ ~t.armed
    BY <2>2 DEF NoTask
  <2>. QED  BY <1>2, <2>1, <2>2, <2>3, QuietTask
<1>. QED
  BY <1>3, <1>4, <1>5, <1>6, <1>7, <1>8, <1>9, <1>10, <1>11 DEF Server

\* Every frame is an old one, or the new one at the end.
LEMMA FrameAdded ==
  ASSUME NEW f, down \in Seq(Frame), down' = down \/ down' = Append(down, f)
  PROVE  /\ Len(down) \in Nat /\ Len(down') \in Nat /\ Len(down) <= Len(down')
         /\ \A i \in 1..Len(down') : \/ i \in 1..Len(down) /\ down'[i] = down[i]
                                     \/ i = Len(down) + 1 /\ down'[i] = f /\ down' = Append(down, f)
<1>1. CASE down' = down
  BY <1>1
<1>2. CASE down' = Append(down, f)
  <2>1. /\ Len(down') = Len(down) + 1 /\ Len(down) \in Nat
        /\ \A i \in 1..Len(down) : down'[i] = down[i]
        /\ down'[Len(down) + 1] = f
    BY <1>2, AppendProperties
  <2>. QED  BY <1>2, <2>1
<1>. QED  BY <1>1, <1>2

\* Every frame left is one that was there: behind the first, or not the one taken.
LEMMA FramesBehind ==
  ASSUME down \in Seq(Frame), down # <<>>, down' = Tail(down)
  PROVE  \A k \in 1..Len(down') : k + 1 \in 1..Len(down) /\ down'[k] = down[k + 1]
<1>1. /\ Len(down) \in Nat /\ Len(down') = Len(down) - 1
      /\ \A k \in 1..Len(down') : down'[k] = down[k + 1]
  BY HeadTailProperties
<1>. QED  BY <1>1

LEMMA FramesLeft ==
  ASSUME down \in Seq(Frame), NEW i \in 1..Len(down), down' = RemoveAt(down, i)
  PROVE  \A k \in 1..Len(down') : \E j \in 1..Len(down) : j # i /\ down'[k] = down[j]
<1>. DEFINE s == SubSeq(down, 1, i - 1)
            t == SubSeq(down, i + 1, Len(down))
<1>1. s \in Seq(Frame) /\ Len(s) = i - 1 /\ \A k \in 1..Len(s) : s[k] = down[k]
  OBVIOUS
<1>2. t \in Seq(Frame) /\ Len(t) = Len(down) - i /\ \A k \in 1..Len(t) : t[k] = down[k + i]
  OBVIOUS
<1>3. down' = s \o t
  BY DEF RemoveAt
<1>. HIDE DEF s, t
<1>4. /\ Len(down') = Len(s) + Len(t)
      /\ \A k \in 1..Len(down') : down'[k] = IF k <= Len(s) THEN s[k] ELSE t[k - Len(s)]
  <2>1. /\ Len(s \o t) = Len(s) + Len(t)
        /\ \A k \in 1..(Len(s) + Len(t)) : (s \o t)[k] = IF k <= Len(s) THEN s[k] ELSE t[k - Len(s)]
    BY <1>1, <1>2, ConcatProperties
  <2>. QED  BY <1>3, <2>1
<1>5. ASSUME NEW k \in 1..Len(down') PROVE \E j \in 1..Len(down) : j # i /\ down'[k] = down[j]
  <2>1. CASE k <= Len(s)
    <3>1. k \in 1..Len(down) /\ k # i /\ down'[k] = down[k]
      BY <1>1, <1>4, <2>1
    <3>. QED  BY <3>1
  <2>2. CASE ~(k <= Len(s))
    <3>1. k - Len(s) \in 1..Len(t) /\ k - Len(s) + i \in 1..Len(down) /\ k - Len(s) + i # i
      BY <1>1, <1>2, <1>4, <2>2
    <3>. QED  BY <1>2, <1>4, <2>2, <3>1
  <2>. QED  BY <2>1, <2>2
<1>. QED  BY <1>5

\* Connection epochs are handed out one by one.
LEMMA EpochGrows ==
  ASSUME StoreInv, [StoreNext]_storeVars
  PROVE  /\ session[Phone].epoch \in Nat /\ session'[Phone].epoch \in Nat
         /\ session'[Phone].epoch \in {session[Phone].epoch, session[Phone].epoch + 1}
         /\ session'[Phone].epoch <= MaxEpoch
<1>. USE DEF controlVars
<1>1. session \in [Devices -> SessionRow] /\ Phone \in Devices
  BY GatewayAssumption DEF StoreInv, StoreTypeOK
<1>2. session' \in [Devices -> SessionRow]
  BY NextInv DEF StoreInv, StoreTypeOK
<1>3. ASSUME NEW d \in Devices, ConnectSession(d)
      PROVE  session'[Phone].epoch \in {session[Phone].epoch, session[Phone].epoch + 1}
  <2>1. PICK n : n = session[d].epoch + 1
    OBVIOUS
  <2>2. session' = [session EXCEPT ![d] = [epoch |-> n, deployment |-> authority.epoch, live |-> TRUE]]
    BY <1>1, <1>3, <2>1 DEF ConnectSession
  <2>. QED  BY <1>1, <2>1, <2>2
<1>4. ASSUME NEW d \in Devices, NEW e, EndLease(d, e)
      PROVE  session'[Phone].epoch \in {session[Phone].epoch, session[Phone].epoch + 1}
  <2>1. session' = [session EXCEPT ![d].live = FALSE]
    BY <1>4 DEF EndLease
  <2>. QED  BY <1>1, <2>1
<1>5. Tenant => UNCHANGED session
  BY DEF Tenant, Accept, AcceptReplayNewKey, AcceptCreate, Cancel, Suppress, Resume
<1>6. ASSUME NEW m \in Messages, NEW e \in 1..MaxEpoch
      PROVE  /\ ClaimDue(m, e) => UNCHANGED session
             /\ \A g \in 1..MaxGeneration :
                  /\ GrantSuppressed(m, g, e) => UNCHANGED session
                  /\ \A a \in Attempts : IssueGrant(m, g, e, a) => UNCHANGED session
  BY DEF ClaimDue, GrantSuppressed, IssueGrant
<1>7. \A v \in RadioEvent : RecordRadioEvent(v) => UNCHANGED session
  BY DEF RecordRadioEvent
<1>8. Hub => session'[Phone].epoch \in {session[Phone].epoch, session[Phone].epoch + 1}
  BY <1>3, <1>4, <1>6, <1>7 DEF Hub
<1>9. Recovery => UNCHANGED session
  BY DEF Recovery, ExpireDue, ReconcileSilentAttempt, ReconcileDeliveryTimeout, Sweep
<1>10. Retention \/ Passage \/ ChangeAuthority => UNCHANGED session
  BY DEF Retention, PruneKey, RedactMessage, PruneEvent, Passage, MessageExpires, ClaimLapses,
         GrantExpires, KeyExpires, MonthEnds, ChangeAuthority
<1>14. ASSUME NEW d \in Devices, Revoke(d)
       PROVE  session'[Phone].epoch \in {session[Phone].epoch, session[Phone].epoch + 1}
  <2>1. session' = [session EXCEPT ![d].live = FALSE]
    BY <1>14 DEF Revoke
  <2>. QED  BY <1>1, <2>1
<1>11. UNCHANGED storeVars => UNCHANGED session
  BY DEF storeVars
<1>12. session'[Phone].epoch \in {session[Phone].epoch, session[Phone].epoch + 1}
  BY <1>5, <1>8, <1>9, <1>10, <1>11, <1>14 DEF StoreNext, Operator
<1>13. /\ session[Phone].epoch \in Nat /\ session'[Phone].epoch \in Nat /\ session'[Phone].epoch <= MaxEpoch
  BY <1>1, <1>2, StoreAssumption DEF SessionRow
<1>. QED  BY <1>12, <1>13

-----------------------------------------------------------------------------
(***************************************************************************)
(* What the phone expects.                                                 *)
(***************************************************************************)

\* The outbox offers at most one event, and one whenever one is pending.
LEMMA NextAlone ==
  ASSUME NEW s, NEW l \in Seq(PhoneEvent),
         NEW x \in NextAlphaEvent(s, l), NEW y \in NextAlphaEvent(s, l)
  PROVE  x = y
<1>1. PICK i \in 1..Len(l) : l[i] = x /\ \A k \in 1..(i - 1) : s[l[k]] # "pending"
  BY DEF NextAlphaEvent
<1>2. PICK j \in 1..Len(l) : l[j] = y /\ \A k \in 1..(j - 1) : s[l[k]] # "pending"
  BY DEF NextAlphaEvent
<1>3. s[x] = "pending" /\ s[y] = "pending"
  BY DEF NextAlphaEvent
<1>4. ~(i < j) /\ ~(j < i)
  <2>1. i < j => i \in 1..(j - 1)
    OBVIOUS
  <2>2. j < i => j \in 1..(i - 1)
    OBVIOUS
  <2>. QED  BY <1>1, <1>2, <1>3, <2>1, <2>2
<1>5. i = j
  BY <1>4
<1>. QED  BY <1>1, <1>2, <1>5

\* A set of indices has a least one.
LEMMA LeastIndex ==
  ASSUME NEW P \in SUBSET Nat, P # {}
  PROVE  \E i \in P : \A k \in P : i <= k
<1>1. PICK R : R = OpToRel(<, Nat)
  OBVIOUS
<1>2. IsWellFoundedOn(R, Nat)
  BY <1>1, NatLessThanWellFounded
<1>3. PICK i \in P : \A k \in P : ~(<<k, i>> \in R)
  BY <1>2, WFMin
<1>4. \A k \in P : k < i => <<k, i>> \in R
  BY <1>1 DEF OpToRel
<1>5. ASSUME NEW k \in P PROVE i <= k
  <2>1. i \in Nat /\ k \in Nat
    OBVIOUS
  <2>2. ~(k < i)
    BY <1>3, <1>4
  <2>. QED  BY <2>1, <2>2
<1>. QED  BY <1>5

LEMMA NextExists ==
  ASSUME NEW s, NEW l \in Seq(PhoneEvent), NEW e \in ToSet(l), s[e] = "pending"
  PROVE  NextAlphaEvent(s, l) # {}
<1>. DEFINE P == { i \in 1..Len(l) : s[l[i]] = "pending" }
<1>1. P \in SUBSET Nat /\ P # {}
  <2>1. PICK i \in 1..Len(l) : l[i] = e
    BY DEF ToSet
  <2>2. i \in P
    BY <2>1
  <2>. QED  BY <2>2
<1>2. PICK i \in P : \A k \in P : i <= k
  <2>. HIDE DEF P
  <2>. QED  BY <1>1, LeastIndex
<1>3. i \in 1..Len(l) /\ s[l[i]] = "pending" /\ l[i] \in PhoneEvent
  BY <1>2, ElementOfSeq
<1>4. \A k \in 1..(i - 1) : s[l[k]] # "pending"
  <2>. SUFFICES ASSUME NEW k \in 1..(i - 1), s[l[k]] = "pending" PROVE FALSE
    OBVIOUS
  <2>1. k \in P
    BY <1>3
  <2>2. i <= k
    BY <1>2, <2>1
  <2>. QED  BY <1>3, <2>2
<1>. QED  BY <1>3, <1>4 DEF NextAlphaEvent

\* A retirement that settles a pending intent leaves its proof to be sent.
LEMMA PumpLeaves ==
  ASSUME JournalInv, LogInv', Pump, NEW e \in PhoneEvent, status[e] = "pending"
  PROVE  \/ status'[e] = "pending"
         \/ status'[e] = "acked" /\ NextAlphaEvent(status', log') # {}
<1>1. CASE UNCHANGED journalVars
  BY <1>1 DEF journalVars
<1>2. CASE RetireOrphans
  <2>1. status' = Insert(Acknowledge(status, { Intent(a) : a \in Orphans }),
                         { Proof(a) : a \in Provable(Orphans) })
    BY <1>2 DEF RetireOrphans, ProveNoRadio
  <2>2. Orphans \in SUBSET Attempts
    BY DEF Orphans
  <2>3. \/ status'[e] = status[e]
        \/ e = Intent(e[1]) /\ e[1] \in Orphans /\ status'[e] = "acked"
    BY <2>1, <2>2, RefusalMoves DEF JournalInv, GatewayInv
  <2>4. ASSUME e[1] \in Orphans PROVE NextAlphaEvent(status', log') # {}
    <3>. DEFINE a == e[1]
    <3>1. /\ a \in Attempts /\ status[Intent(a)] = "pending"
          /\ journal[a].state \in {"reserved", "not_submitted"}
      BY <2>4 DEF Orphans
    <3>2. AttemptSound(a) /\ RowSound(a)
      BY <3>1 DEF JournalInv, GatewayInv, PhoneInv
    <3>3. radio[a] = 0
      BY <3>1, <3>2 DEF AttemptSound, Uncalled
    <3>4. ~journal[a].conflict /\ journal[a].sent = "none" /\ journal[a].delivery = "none"
      BY <3>2, <3>3 DEF RowSound
    <3>5. status[Proof(a)] = "none"
      BY <3>1, <3>2 DEF AttemptSound, RowSound
    <3>6. a \in Provable(Orphans)
      BY <2>4, <3>4, <3>5 DEF Provable
    <3>7. Proof(a) \in PhoneEvent /\ status'[Proof(a)] = "pending"
      BY <2>1, <3>1, <3>6, EventNames DEF Insert
    <3>8. log' \in Seq(PhoneEvent) /\ Proof(a) \in ToSet(log')
      BY <3>7 DEF LogInv
    <3>. QED  BY <3>7, <3>8, NextExists
  <2>. QED  BY <2>3, <2>4
<1>. QED  BY <1>1, <1>2 DEF Pump

\* An event on the current connection: the one awaited, or one settled since.
Awaited(e) == e = phone.awaiting \/ status[e] = "acked"

\* What the phone awaits is pending, on a live connection.
AwaitInv ==
  phone.awaiting # NoEvent => /\ phone.conn # 0 /\ status[phone.awaiting] = "pending"
                              /\ phone.closing.epoch \in {0, phone.conn}

\* What is under way on the current connection is awaited or settled.
ExpectInv ==
  phone.conn # 0 =>
    /\ \A i \in 1..Len(up[phone.conn]) : Awaited(up[phone.conn][i])
    /\ task[phone.conn].pc \in {"record", "answer"} => Awaited(task[phone.conn].event)
    /\ \A i \in 1..Len(down) : down[i].type = "ack" => Awaited(down[i].event)

\* Connections that were never opened carry nothing.
ReachInv ==
  /\ phone.conn <= session[Phone].epoch
  /\ \A e \in Epochs : e > session[Phone].epoch => up[e] = <<>> /\ task[e].pc = "off"

LEMMA ReachStep ==
  ASSUME GatewayInv, ReachInv, [GatewayNext]_vars
  PROVE  ReachInv'
<1>. USE DEF GatewayInv
<1>0. /\ phone.conn \in Nat /\ task \in [Epochs -> TaskRow] /\ up \in [Epochs -> Seq(PhoneEvent)]
      /\ \A e \in Epochs : e \in Nat
  BY DEF LinkInv, ServiceInv, PhoneRow, TasksInv, UpInv, Epochs
<1>1. /\ session[Phone].epoch \in Nat /\ session'[Phone].epoch \in Nat
      /\ session'[Phone].epoch \in {session[Phone].epoch, session[Phone].epoch + 1}
      /\ session'[Phone].epoch <= MaxEpoch
  BY StoreSide, EpochGrows
<1>2. ASSUME UNCHANGED <<up, task>>, phone'.conn \in {0, phone.conn} PROVE ReachInv'
  BY <1>0, <1>1, <1>2 DEF ReachInv
<1>3. CASE Departs \/ Takes \/ Reads \/ Closes \/ Idles
  BY <1>2, <1>3 DEF Departs, Takes, Reads, Closes, Idles, Remains
<1>4. CASE Opens
  <2>. DEFINE n == session[Phone].epoch + 1
  <2>1. session'[Phone].epoch = n
    <3>1. ConnectSession(Phone)
      BY <1>4 DEF Opens, Start, Reconnect, Connect
    <3>. QED  BY <3>1, GatewayAssumption DEF ConnectSession, StoreInv, StoreTypeOK
  <2>2. PICK t : task' = [task EXCEPT ![n] = t]
    BY <1>4 DEF Opens
  <2>3. phone'.conn = n /\ up' = up
    BY <1>4 DEF Opens
  <2>. QED  BY <1>0, <1>1, <2>1, <2>2, <2>3 DEF ReachInv
<1>5. CASE Offers
  <2>1. /\ phone'.conn = phone.conn /\ task' = task
        /\ up' = up \/ \E s : up' = [up EXCEPT ![phone.conn] = s]
    BY <1>5 DEF Offers
  <2>2. ASSUME NEW e \in Epochs, e > session'[Phone].epoch PROVE up'[e] = up[e] /\ e > session[Phone].epoch
    <3>1. e > session[Phone].epoch /\ e # phone.conn
      BY <1>0, <1>1, <2>2 DEF ReachInv
    <3>. QED  BY <1>0, <2>1, <3>1
  <2>3. phone.conn <= session'[Phone].epoch
    BY <1>0, <1>1 DEF ReachInv
  <2>. QED  BY <2>1, <2>2, <2>3 DEF ReachInv
<1>6. CASE Serves
  <2>1. PICK e \in Epochs : Server(e)
    BY <1>6 DEF Serves
  <2>2. PICK t, f : HubStep(e, t, f)
    BY <2>1, HubMoves
  <2>3. /\ task[e].pc # "off" /\ task' = [task EXCEPT ![e] = t] /\ phone' = phone
        /\ up' = up \/ \E s : up' = [up EXCEPT ![e] = s]
    BY <2>2 DEF HubStep
  <2>4. ~(e > session[Phone].epoch)
    BY <2>3 DEF ReachInv
  <2>5. ASSUME NEW x \in Epochs, x > session'[Phone].epoch
        PROVE  up'[x] = up[x] /\ task'[x] = task[x] /\ x > session[Phone].epoch
    <3>1. x > session[Phone].epoch
      BY <1>0, <1>1, <2>5
    <3>2. x # e
      BY <2>4, <3>1
    <3>. QED  BY <1>0, <2>3, <3>1, <3>2
  <2>6. phone.conn <= session'[Phone].epoch
    BY <1>0, <1>1 DEF ReachInv
  <2>. QED  BY <2>3, <2>5, <2>6 DEF ReachInv
<1>. QED  BY <1>3, <1>4, <1>5, <1>6, ServiceMoves

LEMMA AwaitStep ==
  ASSUME JournalInv, LogInv', AwaitInv, [GatewayNext]_vars
  PROVE  AwaitInv'
<1>. USE DEF JournalInv, GatewayInv
<1>1. /\ phone \in PhoneRow /\ phone.awaiting \in PhoneEvent \union {NoEvent}
      /\ phone.closing \in [event: PhoneEvent, epoch: Epochs] \union {NoClosing}
  BY DEF LinkInv, ServiceInv, PhoneRow
<1>2. CASE Departs \/ Opens
  BY <1>2 DEF Departs, Opens, AwaitInv
<1>3. CASE Takes
  BY <1>3 DEF Takes, Remains, AwaitInv, journalVars
<1>4. CASE Reads
  BY <1>4 DEF Reads, AwaitInv, journalVars
<1>5. CASE Offers
  <2>1. phone.conn # 0 /\ phone.closing.epoch \in {0, phone.conn} /\ Pump
    BY <1>5 DEF Offers, Pump, JournalTurn
  <2>2. phone'.conn = phone.conn /\ phone'.closing = phone.closing
    BY <1>5 DEF Offers
  <2>. DEFINE next == NextAlphaEvent(status', log')
  <2>3. CASE phone'.awaiting \in next
    BY <2>1, <2>2, <2>3 DEF AwaitInv, NextAlphaEvent
  <2>4. CASE (next = {} \/ Held(next)) /\ phone'.awaiting = phone.awaiting
    <3>1. CASE phone.awaiting = NoEvent
      BY <2>4, <3>1 DEF AwaitInv
    <3>2. CASE phone.awaiting # NoEvent
      <4>1. phone.awaiting \in PhoneEvent /\ status[phone.awaiting] = "pending"
        BY <1>1, <3>2 DEF AwaitInv
      <4>2. status'[phone.awaiting] = "pending" \/ (status'[phone.awaiting] = "acked" /\ next # {})
        BY <2>1, <4>1, PumpLeaves
      <4>3. status'[phone.awaiting] = "pending"
        BY <2>4, <4>2 DEF Held
      <4>. QED  BY <2>1, <2>2, <2>4, <4>3 DEF AwaitInv
    <3>. QED  BY <3>1, <3>2
  <2>. QED  BY <1>5, <2>3, <2>4 DEF Offers
<1>6. CASE Closes
  <2>1. CASE PhoneClose /\ phone'.closing = [event |-> phone.awaiting, epoch |-> phone.conn]
    <3>1. UNCHANGED status /\ phone'.closing.epoch = phone.conn
      BY <2>1 DEF PhoneClose, journalVars
    <3>. QED  BY <1>6, <3>1 DEF Closes, AwaitInv
  <2>2. CASE Quarantine /\ phone.conn # phone.closing.epoch
    <3>1. phone.closing # NoClosing
      BY <2>2 DEF Quarantine
    <3>2. phone.closing.epoch # 0
      BY <1>1, <3>1 DEF Epochs
    <3>3. phone.awaiting = NoEvent
      BY <2>2, <3>2 DEF AwaitInv
    <3>. QED  BY <1>6, <3>3 DEF Closes, AwaitInv
  <2>. QED  BY <1>6, <2>1, <2>2 DEF Closes
<1>7. CASE Serves
  <2>1. PICK e \in Epochs : Server(e)
    BY <1>7 DEF Serves
  <2>2. PICK t, f : HubStep(e, t, f)
    BY <2>1, HubMoves
  <2>. QED  BY <2>2 DEF HubStep, AwaitInv, journalVars
<1>8. CASE Idles /\ ~Departs /\ ~Reads /\ ~Offers /\ ~Closes
  <2>1. ~PhoneAck /\ ~Pump /\ ~Quarantine /\ ~Crash
    BY <1>8, ServiceMoves
  <2>2. CASE phone.awaiting = NoEvent
    BY <1>8, <2>2 DEF Idles, Remains, AwaitInv
  <2>3. CASE phone.awaiting # NoEvent
    <3>1. StatusMoves(phone.awaiting) /\ status[phone.awaiting] = "pending"
      BY <1>1, <2>3, StatusStep DEF AwaitInv
    <3>2. status'[phone.awaiting] = "pending"
      BY <2>1, <3>1 DEF StatusMoves
    <3>. QED  BY <1>8, <3>2 DEF Idles, Remains, AwaitInv
  <2>. QED  BY <2>2, <2>3
<1>. QED  BY <1>2, <1>3, <1>4, <1>5, <1>6, <1>7, <1>8, ServiceMoves

\* What is awaited on a connection stays so until it is settled.
LEMMA AwaitedStays ==
  ASSUME JournalInv, LogInv', AwaitInv, [GatewayNext]_vars, ~Departs, ~Opens,
         NEW x \in PhoneEvent, Awaited(x)
  PROVE  Awaited(x)'
<1>. USE DEF JournalInv, GatewayInv
<1>1. CASE status[x] = "acked"
  <2>1. StatusMoves(x)
    BY StatusStep
  <2>. QED  BY <1>1, <2>1 DEF StatusMoves, Awaited
<1>2. CASE x = phone.awaiting
  <2>0. x # NoEvent /\ status[x] = "pending"
    BY <1>2, EventNames DEF AwaitInv
  <2>1. CASE Takes \/ Closes \/ Idles
    BY <1>2, <2>1 DEF Takes, Closes, Idles, Remains, Awaited
  <2>2. CASE Serves
    <3>1. PICK e \in Epochs : Server(e)
      BY <2>2 DEF Serves
    <3>2. PICK t, f : HubStep(e, t, f)
      BY <3>1, HubMoves
    <3>. QED  BY <1>2, <3>2 DEF HubStep, Awaited
  <2>3. CASE Reads
    BY <1>2, <2>3 DEF Reads, Awaited
  <2>4. CASE Offers
    <3>. DEFINE next == NextAlphaEvent(status', log')
    <3>1. CASE phone'.awaiting = phone.awaiting
      BY <1>2, <3>1 DEF Awaited
    <3>2. CASE ~Held(next) /\ phone'.awaiting \in next
      <4>1. CASE x \in next
        <5>1. log' \in Seq(PhoneEvent)
          BY DEF LogInv
        <5>2. \A y \in next, z \in next : y = z
          BY <5>1, NextAlone
        <5>. QED  BY <3>2, <4>1, <5>2 DEF Awaited
      <4>2. CASE x \notin next
        <5>1. status'[x] \notin {"pending", "quarantined"}
          BY <1>2, <2>0, <3>2, <4>2 DEF Held
        <5>2. Pump
          BY <2>4 DEF Offers
        <5>3. status'[x] = "acked"
          BY <2>0, <5>1, <5>2, PumpLeaves
        <5>. QED  BY <5>3 DEF Awaited
      <4>. QED  BY <4>1, <4>2
    <3>. QED  BY <2>4, <3>1, <3>2 DEF Offers
  <2>. QED  BY <2>1, <2>2, <2>3, <2>4, ServiceMoves
<1>. QED  BY <1>1, <1>2 DEF Awaited

LEMMA ExpectStep ==
  ASSUME JournalInv, LogInv', AwaitInv, ExpectInv, ReachInv, [GatewayNext]_vars
  PROVE  ExpectInv'
<1>. USE DEF JournalInv, GatewayInv
<1>0. /\ phone.conn \in 0..MaxEpoch /\ task \in [Epochs -> TaskRow] /\ up \in [Epochs -> Seq(PhoneEvent)]
      /\ down \in Seq(Frame) /\ Epochs = 1..MaxEpoch /\ MaxEpoch \in Nat
  BY StoreAssumption DEF LinkInv, ServiceInv, PhoneRow, TasksInv, UpInv, DownInv, Epochs
<1>1. CASE Departs
  BY <1>1 DEF Departs, ExpectInv
<1>2. CASE Opens
  <2>. DEFINE n == session[Phone].epoch + 1
  <2>1. ConnectSession(Phone)
    BY <1>2 DEF Opens, Start, Reconnect, Connect
  <2>2. session[Phone].epoch \in Nat /\ n \in Epochs
    <3>1. session[Phone].epoch \in Nat
      BY StoreSide, EpochGrows
    <3>2. session[Phone].epoch < MaxEpoch
      BY <2>1 DEF ConnectSession
    <3>. QED  BY <1>0, <3>1, <3>2
  <2>3. up[n] = <<>>
    <3>1. n > session[Phone].epoch
      BY <2>2
    <3>. QED  BY <2>2, <3>1 DEF ReachInv
  <2>4. PICK t : t = [NoTask EXCEPT !.pc = "idle", !.armed = phone'.armed]
    OBVIOUS
  <2>5. t.pc = "idle"
    BY <2>4 DEF NoTask
  <2>. HIDE DEF n
  <2>6. phone'.conn = n /\ down' = <<>> /\ up' = up /\ task' = [task EXCEPT ![n] = t]
    BY <1>2, <2>4 DEF Opens, n
  <2>7. task'[n] = t
    BY <1>0, <2>2, <2>6
  <2>. QED  BY <2>3, <2>5, <2>6, <2>7 DEF ExpectInv
<1>3. CASE ~Departs /\ ~Opens
  <2>. DEFINE Due(x) == x = phone'.awaiting \/ status'[x] = "acked"
  <2>1. \A x \in PhoneEvent : Awaited(x) => Due(x)
    <3>1. \A x \in PhoneEvent : Awaited(x) => Awaited(x)'
      BY <1>3, AwaitedStays
    <3>. QED  BY <3>1 DEF Awaited
  <2>2. phone'.conn = phone.conn
    <3>1. CASE Serves
      <4>1. PICK e \in Epochs : Server(e)
        BY <3>1 DEF Serves
      <4>2. PICK t, f : HubStep(e, t, f)
        BY <4>1, HubMoves
      <4>. QED  BY <4>2 DEF HubStep
    <3>2. CASE Takes \/ Reads \/ Offers \/ Closes \/ Idles
      BY <3>2 DEF Takes, Reads, Offers, Closes, Idles, Remains
    <3>. QED  BY <1>3, <3>1, <3>2, ServiceMoves
  <2>. DEFINE c == phone.conn
  <2>. SUFFICES ASSUME c # 0 PROVE ExpectInv'
    BY <2>2 DEF ExpectInv
  <2>3. c \in Epochs /\ up[c] \in Seq(PhoneEvent) /\ task[c] \in TaskRow
    BY <1>0
  <2>4. /\ \A i \in 1..Len(up[c]) : up[c][i] \in PhoneEvent /\ Awaited(up[c][i])
        /\ task[c].pc \in {"record", "answer"} => task[c].event \in PhoneEvent /\ Awaited(task[c].event)
        /\ \A i \in 1..Len(down) : down[i].type = "ack" => down[i].event \in PhoneEvent /\ Awaited(down[i].event)
    <3>1. \A i \in 1..Len(up[c]) : up[c][i] \in PhoneEvent
      BY <2>3, ElementOfSeq
    <3>2. task[c].pc \in {"record", "answer"} => task[c].event \in PhoneEvent
      BY <2>3 DEF LinkInv, TasksInv, TaskSound, Written
    <3>. QED  BY <3>1, <3>2, LinkTypes DEF ExpectInv
  <2>. HIDE DEF c
  <2>5. ASSUME UNCHANGED up PROVE \A i \in 1..Len(up'[c]) : Due(up'[c][i])
    BY <2>1, <2>4, <2>5
  <2>6. ASSUME UNCHANGED task PROVE task'[c].pc \in {"record", "answer"} => Due(task'[c].event)
    BY <2>1, <2>4, <2>6
  <2>7. ASSUME UNCHANGED down PROVE \A i \in 1..Len(down') : down'[i].type = "ack" => Due(down'[i].event)
    BY <2>1, <2>4, <2>7
  <2>8. ASSUME /\ \A i \in 1..Len(up'[c]) : Due(up'[c][i])
               /\ task'[c].pc \in {"record", "answer"} => Due(task'[c].event)
               /\ \A i \in 1..Len(down') : down'[i].type = "ack" => Due(down'[i].event)
        PROVE  ExpectInv'
    BY <2>2, <2>8 DEF ExpectInv, Awaited, c
  <2>. HIDE DEF Due
  <2>9. CASE Closes \/ Idles
    BY <2>5, <2>6, <2>7, <2>8, <2>9 DEF Closes, Idles
  <2>10. CASE Takes
    <3>1. UNCHANGED <<up, task>> /\ \E i \in 1..Len(down) : down' = RemoveAt(down, i)
      BY <2>10 DEF Takes
    <3>2. \A k \in 1..Len(down') : \E j \in 1..Len(down) : down'[k] = down[j]
      BY <1>0, <3>1, FramesLeft
    <3>3. \A i \in 1..Len(down') : down'[i].type = "ack" => Due(down'[i].event)
      BY <2>1, <2>4, <3>2
    <3>. QED  BY <2>5, <2>6, <2>8, <3>1, <3>3
  <2>11. CASE Reads
    <3>1. UNCHANGED <<up, task>> /\ down # <<>> /\ down' = Tail(down)
      BY <2>11 DEF Reads
    <3>2. \A k \in 1..Len(down') : k + 1 \in 1..Len(down) /\ down'[k] = down[k + 1]
      BY <1>0, <3>1, FramesBehind
    <3>3. \A i \in 1..Len(down') : down'[i].type = "ack" => Due(down'[i].event)
      BY <2>1, <2>4, <3>2
    <3>. QED  BY <2>5, <2>6, <2>8, <3>1, <3>3
  <2>12. CASE Offers
    <3>1. UNCHANGED <<down, task>>
      BY <2>12 DEF Offers
    <3>2. CASE UNCHANGED up
      BY <2>5, <2>6, <2>7, <2>8, <3>1, <3>2
    <3>3. CASE up' = [up EXCEPT ![phone.conn] = Append(@, phone'.awaiting)]
      <4>1. up'[c] = Append(up[c], phone'.awaiting)
        BY <1>0, <2>3, <3>3 DEF c
      <4>2. Due(phone'.awaiting)
        BY DEF Due
      <4>3. \A i \in 1..Len(up'[c]) : (i \in 1..Len(up[c]) /\ up'[c][i] = up[c][i]) \/ up'[c][i] = phone'.awaiting
        <5>1. /\ Len(up'[c]) = Len(up[c]) + 1 /\ Len(up[c]) \in Nat /\ up'[c][Len(up[c]) + 1] = phone'.awaiting
              /\ \A i \in 1..Len(up[c]) : up'[c][i] = up[c][i]
          BY <2>3, <4>1, AppendProperties
        <5>. QED  BY <5>1
      <4>4. \A i \in 1..Len(up'[c]) : Due(up'[c][i])
        BY <2>1, <2>4, <4>2, <4>3
      <4>. QED  BY <2>6, <2>7, <2>8, <3>1, <4>4
    <3>. QED  BY <2>12, <3>2, <3>3 DEF Offers
  <2>13. CASE Serves
    <3>1. PICK e \in Epochs : Server(e)
      BY <2>13 DEF Serves
    <3>2. PICK t, f : HubStep(e, t, f)
      BY <3>1, HubMoves
    <3>3. \A i \in 1..Len(up'[c]) : Due(up'[c][i])
      <4>1. CASE UNCHANGED up
        BY <2>5, <4>1
      <4>2. CASE up[e] # <<>> /\ up' = [up EXCEPT ![e] = Tail(@)]
        <5>1. CASE e = c
          <6>1. up'[c] = Tail(up[c]) /\ up[c] # <<>>
            BY <1>0, <2>3, <4>2, <5>1
          <6>2. \A k \in 1..Len(up'[c]) : k + 1 \in 1..Len(up[c]) /\ up'[c][k] = up[c][k + 1]
            <7>1. /\ Len(up[c]) \in Nat /\ Len(up'[c]) = Len(up[c]) - 1
                  /\ \A k \in 1..Len(up'[c]) : up'[c][k] = up[c][k + 1]
              BY <2>3, <6>1, HeadTailProperties
            <7>. QED  BY <7>1
          <6>. QED  BY <2>1, <2>4, <6>2
        <5>2. CASE e # c
          <6>1. up'[c] = up[c]
            BY <1>0, <2>3, <4>2, <5>2
          <6>. QED  BY <2>1, <2>4, <6>1
        <5>. QED  BY <5>1, <5>2
      <4>. QED  BY <3>2, <4>1, <4>2 DEF HubStep
    <3>4. task'[c].pc \in {"record", "answer"} => Due(task'[c].event)
      <4>1. task' = [task EXCEPT ![e] = t]
        BY <3>2 DEF HubStep
      <4>2. CASE e # c
        <5>1. task'[c] = task[c]
          BY <1>0, <2>3, <4>1, <4>2
        <5>. QED  BY <2>1, <2>4, <5>1
      <4>3. CASE e = c
        <5>1. task'[c] = t
          BY <1>0, <2>3, <4>1, <4>3
        <5>2. \/ t.pc = "record" /\ up[c] # <<>> /\ t.event = Head(up[c])
              \/ t.pc = "answer" /\ task[c].pc = "record" /\ t.event = task[c].event
              \/ t.pc \notin {"record", "answer"}
          BY <3>2, <4>3 DEF HubStep
        <5>3. up[c] # <<>> => Head(up[c]) \in PhoneEvent /\ Awaited(Head(up[c]))
          <6>1. up[c] # <<>> => 1 \in 1..Len(up[c]) /\ Head(up[c]) = up[c][1]
            BY <2>3
          <6>. QED  BY <2>4, <6>1
        <5>. QED  BY <2>1, <2>4, <5>1, <5>2, <5>3
      <4>. QED  BY <4>2, <4>3
    <3>5. \A i \in 1..Len(down') : down'[i].type = "ack" => Due(down'[i].event)
      <4>1. CASE down' = down
        BY <2>7, <4>1
      <4>2. CASE e = c /\ down' = Append(down, f)
        <5>1. \A i \in 1..Len(down') : (i \in 1..Len(down) /\ down'[i] = down[i]) \/ down'[i] = f
          BY <1>0, <4>2, FrameAdded
        <5>2. f.type = "ack" => f.event = task[c].event /\ task[c].pc = "answer"
          BY <3>2, <4>2 DEF HubStep
        <5>. QED  BY <2>1, <2>4, <5>1, <5>2
      <4>. QED  BY <3>2, <4>1, <4>2 DEF HubStep, c
    <3>. QED  BY <2>8, <3>3, <3>4, <3>5
  <2>. QED  BY <1>3, <2>9, <2>10, <2>11, <2>12, <2>13, ServiceMoves
<1>. QED  BY <1>1, <1>2, <1>3

-----------------------------------------------------------------------------
(***************************************************************************)
(* Grants on their way.                                                    *)
(***************************************************************************)

\* No row was written for the attempt, and the phone does not hold its grant.
Untaken(a) == journal[a].state = "absent" /\ phone.grant.attempt # a

\* A grant is sent by an armed task, whose phone is armed and has none on the way; it
\* names an attempt nobody else names.
GrantsInv ==
  /\ \A e \in Epochs : task[e].pc \in {"claimed", "granted"} => task[e].armed
  /\ \A e \in Epochs : task[e].armed /\ e = phone.conn =>
       phone.armed /\ \A i \in 1..Len(down) : down[i].type # "grant"
  /\ \A i \in 1..Len(down) : down[i].type = "grant" => phone.armed /\ Untaken(down[i].attempt)
  /\ \A i, j \in 1..Len(down) : down[i].type = "grant" /\ down[j].type = "grant" => i = j
  /\ \A e \in Epochs : task[e].pc = "granted" =>
       /\ Untaken(task[e].attempt)
       /\ \A i \in 1..Len(down) : down[i].type = "grant" => down[i].attempt # task[e].attempt
  /\ \A e, f \in Epochs :
      task[e].pc = "granted" /\ task[f].pc = "granted" /\ task[e].attempt = task[f].attempt
        => e = f

\* An attempt without a row at the hub is named nowhere.
LEMMA FreshUnnamed ==
  ASSUME GatewayInv, NEW a \in Attempts, attempt[a] = NoAttempt
  PROVE  /\ Untaken(a)
         /\ \A i \in 1..Len(down) : down[i].type = "grant" => down[i].attempt # a
         /\ \A e \in Epochs : task[e].pc = "granted" => task[e].attempt # a
<1>. USE DEF GatewayInv
<1>1. attempt[a].message \notin Messages
  BY StoreAssumption DEF NoAttempt
<1>2. journal[a].state = "absent"
  <2>. SUFFICES ASSUME journal[a].state # "absent" PROVE FALSE
    OBVIOUS
  <2>1. journal[a] \in JournalRow
    <3>1. NoRow.state = "absent"
      BY DEF NoRow
    <3>. QED  BY <3>1 DEF PhoneInv, JournalShape
  <2>2. journal[a].message \in Messages
    BY <2>1 DEF JournalRow
  <2>. QED  BY <1>1, <2>2 DEF LinkInv, RowsNamed
<1>3. phone.grant.attempt # a
  BY <1>1, LinkTypes DEF LinkInv, ServiceInv
<1>4. ASSUME NEW i \in 1..Len(down), down[i].type = "grant" PROVE down[i].attempt # a
  <2>1. down[i].attempt \in Attempts /\ down[i].message \in Messages
    BY <1>4, LinkTypes
  <2>2. attempt[down[i].attempt].message = down[i].message
    BY <1>4 DEF LinkInv, DownInv, FrameSound
  <2>. QED  BY <1>1, <2>1, <2>2
<1>5. ASSUME NEW e \in Epochs, task[e].pc = "granted" PROVE task[e].attempt # a
  BY <1>1, <1>5 DEF LinkInv, TasksInv, TaskSound
<1>. QED  BY <1>2, <1>3, <1>4, <1>5 DEF Untaken

\* An attempt stays untaken unless the phone takes its grant.
LEMMA UntakenStays ==
  ASSUME GatewayInv, [GatewayNext]_vars, NEW a \in Attempts, Untaken(a),
         \A i \in 1..Len(down) : down[i].type = "grant" /\ Takes /\ phone'.grant.attempt = down[i].attempt
            => down[i].attempt # a
  PROVE  Untaken(a)'
<1>. USE DEF GatewayInv
<1>1. journal'[a].state = "absent"
  <2>1. Entered
    BY GatewayKept
  <2>. QED  BY <2>1 DEF Entered, Untaken
<1>2. phone'.grant.attempt # a
  <2>1. a # "none"
    BY StoreAssumption
  <2>2. CASE Departs \/ Opens
    BY <2>1, <2>2 DEF Departs, Opens, NoGrant
  <2>3. CASE Reads \/ Offers \/ Closes
    BY <2>3 DEF Reads, Offers, Closes, Untaken
  <2>4. CASE Idles
    <3>1. phone'.grant = phone.grant \/ (phone.grant # NoGrant /\ phone'.grant = [phone.grant EXCEPT !.live = FALSE])
      BY <2>4 DEF Idles
    <3>2. phone.grant # NoGrant => phone.grant \in GrantRow
      BY DEF LinkInv, ServiceInv, PhoneRow
    <3>3. phone'.grant.attempt = phone.grant.attempt
      BY <3>1, <3>2 DEF GrantRow
    <3>. QED  BY <3>3 DEF Untaken
  <2>5. CASE Serves
    <3>1. PICK e \in Epochs : Server(e)
      BY <2>5 DEF Serves
    <3>2. PICK t, f : HubStep(e, t, f)
      BY <3>1, HubMoves
    <3>. QED  BY <3>2 DEF HubStep, Untaken
  <2>6. CASE Takes
    <3>1. PICK i \in 1..Len(down) : down[i].type = "grant" /\ phone'.grant.attempt = down[i].attempt
      BY <2>6 DEF Takes
    <3>. QED  BY <2>6, <3>1
  <2>. QED  BY <2>2, <2>3, <2>4, <2>5, <2>6, ServiceMoves
<1>. QED  BY <1>1, <1>2 DEF Untaken

\* A phone that takes a grant holds one.
LEMMA NotTaken ==
  ASSUME phone'.grant = NoGrant
  PROVE  ~Takes
<1>1. NoGrant.live = FALSE
  BY DEF NoGrant
<1>2. Takes => phone'.grant.live = TRUE
  BY DEF Takes
<1>. QED  BY <1>1, <1>2

LEMMA GrantsStep ==
  ASSUME GatewayInv, GatewayInv', GrantsInv, [GatewayNext]_vars
  PROVE  GrantsInv'
<1>. USE DEF GatewayInv
<1>0. /\ phone.conn \in 0..MaxEpoch /\ task \in [Epochs -> TaskRow] /\ down \in Seq(Frame)
      /\ Len(down) \in Nat /\ 0 \notin Epochs
  BY DEF LinkInv, ServiceInv, PhoneRow, TasksInv, DownInv, Epochs
<1>. DEFINE Free(a) == journal'[a].state = "absent" /\ phone'.grant.attempt # a
<1>1. ASSUME ~Takes, NEW a \in Attempts, Untaken(a) PROVE Free(a)
  <2>1. Untaken(a)'
    BY <1>1, UntakenStays
  <2>. QED  BY <2>1 DEF Untaken
<1>2. /\ \A e \in Epochs : task[e].pc = "granted" => task[e].attempt \in Attempts
      /\ \A i \in 1..Len(down) : down[i].type = "grant" => down[i].attempt \in Attempts
  BY LinkTypes DEF LinkInv, TasksInv, TaskSound
<1>. HIDE DEF Free
\* The frames are old ones, no two of them the same, and the service stays as it was.
<1>3. ASSUME ~Takes, UNCHANGED task, UNCHANGED <<phone.conn, phone.armed>>,
             \A k \in 1..Len(down') : k + 1 \in 1..Len(down) /\ down'[k] = down[k + 1]
      PROVE  GrantsInv'
  <2>1. \A i \in 1..Len(down') : down'[i].type = "grant" => phone'.armed /\ Free(down'[i].attempt)
    BY <1>1, <1>2, <1>3 DEF GrantsInv
  <2>2. \A i, j \in 1..Len(down') : down'[i].type = "grant" /\ down'[j].type = "grant" => i = j
    <3>. SUFFICES ASSUME NEW i \in 1..Len(down'), NEW j \in 1..Len(down'),
                         down'[i].type = "grant", down'[j].type = "grant"
                  PROVE  i = j
      OBVIOUS
    <3>1. i + 1 = j + 1
      BY <1>3 DEF GrantsInv
    <3>. QED  BY <3>1
  <2>3. \A e \in Epochs : task'[e].pc = "granted" =>
          /\ Free(task'[e].attempt)
          /\ \A i \in 1..Len(down') : down'[i].type = "grant" => down'[i].attempt # task'[e].attempt
    BY <1>1, <1>2, <1>3 DEF GrantsInv
  <2>4. \A e \in Epochs : task'[e].armed /\ e = phone'.conn =>
          phone'.armed /\ \A i \in 1..Len(down') : down'[i].type # "grant"
    BY <1>3 DEF GrantsInv
  <2>5. /\ \A e \in Epochs : task'[e].pc \in {"claimed", "granted"} => task'[e].armed
        /\ \A e, f \in Epochs :
            task'[e].pc = "granted" /\ task'[f].pc = "granted" /\ task'[e].attempt = task'[f].attempt
              => e = f
    BY <1>3 DEF GrantsInv
  <2>. QED  BY <2>1, <2>2, <2>3, <2>4, <2>5 DEF GrantsInv, Untaken, Free
<1>4. ASSUME ~Takes, UNCHANGED <<task, down>>, UNCHANGED <<phone.conn, phone.armed>>
      PROVE  GrantsInv'
  <2>1. \A i \in 1..Len(down) : down[i].type = "grant" => phone'.armed /\ Free(down[i].attempt)
    BY <1>1, <1>2, <1>4 DEF GrantsInv
  <2>2. \A e \in Epochs : task[e].pc = "granted" =>
          /\ Free(task[e].attempt)
          /\ \A i \in 1..Len(down) : down[i].type = "grant" => down[i].attempt # task[e].attempt
    BY <1>1, <1>2, <1>4 DEF GrantsInv
  <2>. QED  BY <1>4, <2>1, <2>2 DEF GrantsInv, Untaken, Free
<1>5. CASE Departs
  <2>1. UNCHANGED task /\ down' = <<>> /\ phone'.conn = 0 /\ ~Takes
    BY <1>5, NotTaken DEF Departs
  <2>2. \A e \in Epochs : task[e].pc = "granted" => Free(task[e].attempt)
    BY <1>1, <1>2, <2>1 DEF GrantsInv
  <2>. QED  BY <1>0, <2>1, <2>2 DEF GrantsInv, Untaken, Free
<1>6. CASE Opens
  <2>1. PICK n : n = session[Phone].epoch + 1
    OBVIOUS
  <2>2. PICK t : t = [NoTask EXCEPT !.pc = "idle", !.armed = phone'.armed]
    OBVIOUS
  <2>3. t.pc = "idle" /\ t.armed = phone'.armed
    BY <2>2 DEF NoTask
  <2>4. task' = [task EXCEPT ![n] = t] /\ down' = <<>> /\ phone'.conn = n
    BY <1>6, <2>1, <2>2 DEF Opens
  <2>5. ~Takes
    BY <1>6, NotTaken DEF Opens
  <2>6. \A e \in Epochs : task[e].pc = "granted" => Free(task[e].attempt)
    BY <1>1, <1>2, <2>5 DEF GrantsInv
  <2>. HIDE DEF GatewayInv
  <2>7. \A e \in Epochs : task'[e] = task[e] \/ (e = n /\ task'[e] = t)
    BY <1>0, <2>4
  <2>8. \A e \in Epochs : task'[e].pc \in {"claimed", "granted"} => task'[e].armed
    BY <2>3, <2>7 DEF GrantsInv
  <2>9. \A e \in Epochs : task'[e].armed /\ e = phone'.conn => phone'.armed
    <3>1. \A e \in Epochs : e = n => task'[e] = t
      BY <1>0, <2>4
    <3>. QED  BY <2>3, <2>4, <3>1
  <2>10. \A e \in Epochs : task'[e].pc = "granted" => Free(task'[e].attempt) /\ task'[e] = task[e]
    BY <2>3, <2>6, <2>7
  <2>11. \A e, f \in Epochs :
          task'[e].pc = "granted" /\ task'[f].pc = "granted" /\ task'[e].attempt = task'[f].attempt
            => e = f
    BY <2>10 DEF GrantsInv
  <2>. QED  BY <2>4, <2>8, <2>9, <2>10, <2>11 DEF GrantsInv, Untaken, Free
<1>7. CASE Takes
  <2>1. PICK i \in 1..Len(down) : /\ down[i].type = "grant" /\ down' = RemoveAt(down, i)
                                  /\ phone'.grant.attempt = down[i].attempt
    BY <1>7 DEF Takes
  <2>2. UNCHANGED <<journalVars, task>> /\ phone'.conn = phone.conn
    BY <1>7 DEF Takes, Remains
  <2>3. \A k \in 1..Len(down') : down'[k].type # "grant"
    <3>1. \A k \in 1..Len(down') : \E j \in 1..Len(down) : j # i /\ down'[k] = down[j]
      BY <1>0, <2>1, FramesLeft
    <3>. QED  BY <2>1, <3>1 DEF GrantsInv
  <2>4. \A e \in Epochs : ~(task[e].armed /\ e = phone.conn)
    BY <2>1 DEF GrantsInv
  <2>5. \A e \in Epochs : task[e].pc = "granted" => Free(task[e].attempt)
    BY <2>1, <2>2 DEF GrantsInv, Untaken, Free, journalVars
  <2>. QED  BY <2>2, <2>3, <2>4, <2>5 DEF GrantsInv, Untaken, Free
<1>8. CASE ~Takes /\ Reads
  <2>1. UNCHANGED <<task, phone.conn, phone.armed>> /\ down # <<>> /\ down' = Tail(down)
    BY <1>8 DEF Reads
  <2>. QED  BY <1>0, <1>3, <1>8, <2>1, FramesBehind
<1>9. CASE ~Takes /\ (Offers \/ Closes \/ Idles)
  BY <1>4, <1>9 DEF Offers, Closes, Idles, Remains
<1>10. CASE ~Takes /\ Serves
  <2>1. PICK e \in Epochs : Server(e)
    BY <1>10 DEF Serves
  <2>2. PICK t, f : HubStep(e, t, f)
    BY <2>1, HubMoves
  <2>3. /\ task' = [task EXCEPT ![e] = t] /\ phone' = phone
        /\ down' = down \/ (phone.conn = e /\ down' = Append(down, f))
    BY <2>2 DEF HubStep
  <2>4. \A x \in Epochs : task'[x] = IF x = e THEN t ELSE task[x]
    BY <1>0, <2>3
  <2>5. /\ t.armed => task[e].armed
        /\ t.pc = "claimed" => t.armed
        /\ t.pc = "granted" => t.armed = task[e].armed /\ task[e].pc = "claimed" /\ f.type = "close"
                                 /\ attempt[t.attempt] = NoAttempt
        /\ f.type = "grant" => ~t.armed /\ t.pc = "idle" /\ task[e].pc = "granted" /\ f.attempt = task[e].attempt
    BY <2>2 DEF HubStep
  <2>6. /\ Len(down') \in Nat
        /\ \A i \in 1..Len(down') : \/ i \in 1..Len(down) /\ down'[i] = down[i]
                                    \/ i = Len(down) + 1 /\ down'[i] = f /\ phone.conn = e
    BY <1>0, <2>3, FrameAdded
  <2>7. /\ \A i \in 1..Len(down) : down[i].type = "grant" => Free(down[i].attempt)
        /\ \A x \in Epochs : task[x].pc = "granted" => Free(task[x].attempt)
    BY <1>1, <1>2, <1>10 DEF GrantsInv
  <2>8. t.pc = "granted" =>
          /\ Free(t.attempt)
          /\ \A i \in 1..Len(down) : down[i].type = "grant" => down[i].attempt # t.attempt
          /\ \A x \in Epochs : task[x].pc = "granted" => task[x].attempt # t.attempt
    <3>. SUFFICES ASSUME t.pc = "granted"
                  PROVE  /\ Free(t.attempt)
                         /\ \A i \in 1..Len(down) : down[i].type = "grant" => down[i].attempt # t.attempt
                         /\ \A x \in Epochs : task[x].pc = "granted" => task[x].attempt # t.attempt
      OBVIOUS
    <3>1. t.attempt \in Attempts
      <4>1. task'[e] = t /\ TaskSound(task[e])'
        BY <2>4 DEF LinkInv, TasksInv
      <4>. QED  BY <4>1 DEF TaskSound
    <3>2. /\ Untaken(t.attempt)
          /\ \A i \in 1..Len(down) : down[i].type = "grant" => down[i].attempt # t.attempt
          /\ \A x \in Epochs : task[x].pc = "granted" => task[x].attempt # t.attempt
      BY <2>5, <3>1, FreshUnnamed
    <3>3. Free(t.attempt)
      BY <1>1, <1>10, <3>1, <3>2
    <3>. QED  BY <3>2, <3>3
  <2>9. task[e].armed /\ phone.conn = e =>
          phone.armed /\ \A i \in 1..Len(down) : down[i].type # "grant"
    BY DEF GrantsInv
  <2>10. task[e].pc \in {"claimed", "granted"} => task[e].armed
    BY DEF GrantsInv
  <2>11. \A x \in Epochs : task'[x].pc \in {"claimed", "granted"} => task'[x].armed
    BY <2>4, <2>5, <2>10 DEF GrantsInv
  <2>12. \A x \in Epochs : task'[x].armed /\ x = phone'.conn =>
           phone'.armed /\ \A i \in 1..Len(down') : down'[i].type # "grant"
    <3>. SUFFICES ASSUME NEW x \in Epochs, task'[x].armed, x = phone.conn
                  PROVE  phone.armed /\ \A i \in 1..Len(down') : down'[i].type # "grant"
      BY <2>3
    <3>1. task[x].armed
      BY <2>4, <2>5
    <3>2. phone.armed /\ \A i \in 1..Len(down) : down[i].type # "grant"
      BY <3>1 DEF GrantsInv
    <3>3. x = e => f.type # "grant"
      BY <2>4, <2>5
    <3>. QED  BY <2>6, <3>2, <3>3
  <2>13. \A i \in 1..Len(down') : down'[i].type = "grant" => phone'.armed /\ Free(down'[i].attempt)
    <3>. SUFFICES ASSUME NEW i \in 1..Len(down'), down'[i].type = "grant"
                  PROVE  phone.armed /\ Free(down'[i].attempt)
      BY <2>3
    <3>1. CASE i \in 1..Len(down) /\ down'[i] = down[i]
      BY <2>7, <3>1 DEF GrantsInv
    <3>2. CASE down'[i] = f /\ phone.conn = e
      BY <2>5, <2>7, <2>9, <2>10, <3>2
    <3>. QED  BY <2>6, <3>1, <3>2
  <2>14. \A i, j \in 1..Len(down') : down'[i].type = "grant" /\ down'[j].type = "grant" => i = j
    <3>. SUFFICES ASSUME NEW i \in 1..Len(down'), NEW j \in 1..Len(down'),
                         down'[i].type = "grant", down'[j].type = "grant"
                  PROVE  i = j
      OBVIOUS
    <3>1. CASE f.type = "grant" /\ phone.conn = e
      <4>1. \A k \in 1..Len(down) : down[k].type # "grant"
        BY <2>5, <2>9, <2>10, <3>1
      <4>. QED  BY <2>6, <4>1
    <3>2. CASE ~(f.type = "grant" /\ phone.conn = e)
      <4>1. i \in 1..Len(down) /\ down'[i] = down[i] /\ j \in 1..Len(down) /\ down'[j] = down[j]
        BY <2>6, <3>2
      <4>. QED  BY <4>1 DEF GrantsInv
    <3>. QED  BY <3>1, <3>2
  <2>15. \A x \in Epochs : task'[x].pc = "granted" =>
           /\ Free(task'[x].attempt)
           /\ \A i \in 1..Len(down') : down'[i].type = "grant" => down'[i].attempt # task'[x].attempt
    <3>. SUFFICES ASSUME NEW x \in Epochs, task'[x].pc = "granted"
                  PROVE  /\ Free(task'[x].attempt)
                         /\ \A i \in 1..Len(down') : down'[i].type = "grant" => down'[i].attempt # task'[x].attempt
      OBVIOUS
    <3>1. CASE x = e
      <4>1. task'[x] = t /\ f.type # "grant"
        BY <2>4, <2>5, <3>1
      <4>. QED  BY <2>6, <2>8, <4>1
    <3>2. CASE x # e
      <4>1. task'[x] = task[x]
        BY <2>4, <3>2
      <4>2. f.type = "grant" => f.attempt # task[x].attempt
        BY <2>5, <3>2, <4>1 DEF GrantsInv
      <4>3. \A i \in 1..Len(down) : down[i].type = "grant" => down[i].attempt # task[x].attempt
        BY <4>1 DEF GrantsInv
      <4>. QED  BY <2>6, <2>7, <4>1, <4>2, <4>3
    <3>. QED  BY <3>1, <3>2
  <2>16. \A x, y \in Epochs :
          task'[x].pc = "granted" /\ task'[y].pc = "granted" /\ task'[x].attempt = task'[y].attempt
            => x = y
    BY <2>4, <2>8 DEF GrantsInv
  <2>. QED  BY <2>11, <2>12, <2>13, <2>14, <2>15, <2>16 DEF GrantsInv, Untaken, Free
<1>. QED  BY <1>5, <1>6, <1>7, <1>8, <1>9, <1>10, ServiceMoves

\* "The phone stops on a frame it does not expect" never happens: every ack that comes
\* first answers the event the phone awaits or one it has settled, and every grant on
\* the way finds the phone armed and its attempt without a row.
THEOREM FramesAreExpected == GatewaySpec => []FramesExpected
<1>. DEFINE Inv == AwaitInv /\ ExpectInv /\ ReachInv /\ GrantsInv
<1>1. GatewayInit => Inv
  <2>. SUFFICES ASSUME GatewayInit PROVE Inv
    OBVIOUS
  <2>1. /\ phone.conn = 0 /\ phone.awaiting = NoEvent /\ down = <<>> /\ Len(down) = 0
        /\ up = [e \in Epochs |-> <<>>] /\ task = [e \in Epochs |-> NoTask]
    BY DEF GatewayInit
  <2>2. session[Phone].epoch = 0
    BY GatewayAssumption DEF GatewayInit, StoreInit
  <2>3. NoTask.pc = "off" /\ NoTask.armed = FALSE
    BY DEF NoTask
  <2>4. AwaitInv /\ ExpectInv
    BY <2>1 DEF AwaitInv, ExpectInv
  <2>5. ReachInv
    BY <2>1, <2>2, <2>3 DEF ReachInv
  <2>6. GrantsInv
    BY <2>1, <2>3 DEF GrantsInv
  <2>. QED  BY <2>4, <2>5, <2>6
<1>2. JournalInv /\ JournalInv' /\ Inv /\ [GatewayNext]_vars => Inv'
  <2>. SUFFICES ASSUME JournalInv, JournalInv', Inv, [GatewayNext]_vars PROVE Inv'
    OBVIOUS
  <2>1. GatewayInv /\ GatewayInv' /\ LogInv'
    BY DEF JournalInv
  <2>. QED  BY <2>1, AwaitStep, ExpectStep, ReachStep, GrantsStep
<1>3. JournalInv /\ Inv => FramesExpected
  <2>. SUFFICES ASSUME JournalInv, Inv PROVE FramesExpected
    OBVIOUS
  <2>1. ASSUME down # <<>>, Head(down).type = "ack" PROVE AckExpected(Head(down).event)
    <3>1. down \in Seq(Frame) /\ phone.conn # 0
      BY <2>1 DEF JournalInv, GatewayInv, LinkInv, DownInv, ServiceInv
    <3>2. 1 \in 1..Len(down) /\ Head(down) = down[1]
      BY <2>1, <3>1
    <3>3. Awaited(Head(down).event) /\ Head(down).event \in PhoneEvent
      BY <2>1, <3>1, <3>2, LinkTypes DEF ExpectInv, JournalInv, GatewayInv
    <3>. QED  BY <3>3, EventNames DEF Awaited, AckExpected, AwaitInv
  <2>2. \A i \in 1..Len(down) : down[i].type = "grant" =>
          phone.armed /\ journal[down[i].attempt].state = "absent"
    BY DEF GrantsInv, Untaken
  <2>. QED  BY <2>1, <2>2 DEF FramesExpected
<1>. QED  BY <1>1, <1>2, <1>3, JournalInvariant, PTL DEF GatewaySpec

-----------------------------------------------------------------------------
(***************************************************************************)
(* What an acknowledged event has done at the hub.                         *)
(***************************************************************************)

\* Attempt a brought its message to one of the states ss, unless a conflict followed.
Reached(a, ss) ==
  \/ Conflicted(a)
  \/ state[attempt[a].message] \in ss /\ fence[attempt[a].message].attempt = a

\* The effect evidence ev of attempt a has, once recorded, for good.
Stands(a, ev) ==
  /\ ev = "callback_conflict" => Conflicted(a)
  /\ ev = "sent_callback_failed" => Reached(a, {"failed"})
  /\ ev = "sent_callback_ok" => Reached(a, {"submitted", "delivered", "delivery_unknown"})
  /\ ev = "delivery_callback_ok" => Reached(a, {"delivered"})
  /\ ev = "proven_no_submit" => attempt[a].status = "proved_no_submit"

\* A message beyond its submission moves on by a receipt, its timeout or a conflict.
LEMMA SettledMoves ==
  ASSUME NEW v, RadioNext(v) # InvalidTransition,
         state[v.message] \in {"submitted", "delivered", "delivery_unknown", "failed"}
  PROVE  \/ v.evidence = "callback_conflict"
         \/ /\ state[v.message] \in {"submitted", "delivery_unknown"}
            /\ RadioNext(v) \in {"delivered", "delivery_unknown"}
<1>. DEFINE s == state[v.message]
<1>1. /\ Apply(s, "sent_callback_ok") = InvalidTransition
      /\ Apply(s, "sent_callback_failed") = InvalidTransition
      /\ Apply(s, "partial_sent_callbacks") = InvalidTransition
  BY DEF Apply, InvalidTransition
<1>2. CASE v.evidence \in SentCallback
  <2>1. SentNext(v) = InvalidTransition
    <3>1. CASE v.evidence = "sent_callback_failed"
      BY <1>1, <3>1 DEF SentNext
    <3>2. CASE v.evidence # "sent_callback_failed"
      BY <1>1, <3>2 DEF SentNext
    <3>. QED  BY <3>1, <3>2
  <2>2. RadioNext(v) = IF IntentRecorded(v.attempt) THEN SentNext(v) ELSE InvalidTransition
    <3>1. v.evidence # "callback_conflict"
      BY <1>2 DEF SentCallback
    <3>. QED  BY <1>2, <3>1 DEF RadioNext
  <2>. QED  BY <2>1, <2>2
<1>3. CASE v.evidence \notin SentCallback /\ v.evidence # "callback_conflict"
  <2>1. RadioNext(v) = Apply(s, v.evidence)
    BY <1>3, Zenon DEF RadioNext
  <2>2. Apply(s, v.evidence) \in {InvalidTransition}
          \/ (s \in {"submitted", "delivery_unknown"} /\ Apply(s, v.evidence) \in {"delivered", "delivery_unknown"})
    <3>. PICK ev : ev = v.evidence
      OBVIOUS
    <3>. HIDE DEF s
    <3>1. s \in {"submitted", "delivered", "delivery_unknown", "failed"} /\ ev \notin SentCallback /\ ev # "callback_conflict"
      BY <1>3 DEF s
    <3>2. Apply(s, ev) \in {InvalidTransition}
          \/ (s \in {"submitted", "delivery_unknown"} /\ Apply(s, ev) \in {"delivered", "delivery_unknown"})
      BY <3>1 DEF Apply, SentCallback, InvalidTransition
    <3>. QED  BY <3>2
  <2>. QED  BY <2>1, <2>2
<1>. QED  BY <1>2, <1>3

\* A conflict stays recorded: its message is never settled, so nothing prunes it.
LEMMA ConflictRemains ==
  ASSUME StoreInv, EventsInv, [StoreNext]_storeVars, NEW a \in Attempts, Conflicted(a)
  PROVE  Conflicted(a)'
<1>1. PICK v \in events : v.attempt = a /\ v.evidence = "callback_conflict"
  BY DEF Conflicted, Recorded
<1>2. v.message = attempt[a].message /\ state[v.message] = "unknown"
  BY <1>1, ConflictFenced DEF EventsInv, EventsLinked
<1>3. ~Settled(v.message)
  BY <1>2 DEF Settled
<1>4. v \in events'
  <2>. USE DEF queueVars, attemptVars
  <2>1. CASE Created
    BY <2>1 DEF Created, AcceptCreate
  <2>2. CASE Granted
    BY <2>2 DEF Granted, IssueGrant
  <2>3. CASE Evidenced
    BY <2>3 DEF Evidenced, RecordRadioEvent
  <2>4. CASE Swept
    BY <2>4, SweepWrites DEF Swept
  <2>5. CASE EventPruned
    BY <1>3, <2>5 DEF EventPruned, PruneEvent
  <2>6. CASE Still
    BY <2>6 DEF Still
  <2>. QED  BY <2>1, <2>2, <2>3, <2>4, <2>5, <2>6, EvidenceKinds
<1>. QED  BY <1>1, <1>4 DEF Conflicted, Recorded

\* Attempts keep what they brought about.
LEMMA ReachedStays ==
  ASSUME StoreInv, EventsInv, [StoreNext]_storeVars, NEW a \in Attempts, attempt[a].message \in Messages,
         NEW ss \in {{"failed"}, {"submitted", "delivered", "delivery_unknown"}, {"delivered"}},
         Reached(a, ss)
  PROVE  Reached(a, ss)'
<1>. DEFINE m == attempt[a].message
<1>0. attempt'[a].message = m
  <2>1. attempt[a] # NoAttempt
    BY StoreAssumption DEF NoAttempt
  <2>. QED  BY <2>1, AttemptKept
<1>1. CASE Conflicted(a)
  BY <1>1, ConflictRemains DEF Reached
<1>2. CASE state[m] \in ss /\ fence[m].attempt = a
  <2>. USE DEF queueVars, attemptVars
  <2>0. /\ state \in [Messages -> MessageState \union {"absent"}]
        /\ fence \in [Messages -> FenceRow \union {NoFence}]
        /\ fence[m] # NoFence /\ state[m] \in {"submitted", "delivered", "delivery_unknown", "failed"}
        /\ m \in Messages
    BY <1>2, StoreAssumption DEF StoreInv, StoreTypeOK, NoFence
  <2>1. ASSUME state'[m] = state[m], fence'[m].attempt = fence[m].attempt PROVE Reached(a, ss)'
    BY <1>0, <1>2, <2>1 DEF Reached
  <2>. HIDE DEF m
  <2>2. CASE Created
    <3>1. PICK k \in Keys, n \in Messages, r \in Request, elapsed \in BOOLEAN : AcceptCreate(k, n, r, elapsed)
      BY <2>2 DEF Created
    <3>2. state[n] = "absent"
      BY <3>1, Zenon DEF AcceptCreate, AcceptResult
    <3>3. state' = [state EXCEPT ![n] = "queued"] /\ fence' = fence
      BY <3>1 DEF AcceptCreate
    <3>. QED  BY <2>0, <2>1, <3>2, <3>3
  <2>3. CASE Granted
    <3>1. PICK n \in Messages, g \in 1..MaxGeneration, e \in 1..MaxEpoch, b \in Attempts : IssueGrant(n, g, e, b)
      BY <2>3 DEF Granted
    <3>2. state[n] = "claimed"
      BY <3>1 DEF IssueGrant, GrantCurrent
    <3>3. PICK x : fence' = [fence EXCEPT ![n] = x] /\ state' = state
      BY <3>1 DEF IssueGrant
    <3>. QED  BY <2>0, <2>1, <3>2, <3>3
  <2>4. CASE Evidenced
    <3>1. PICK v \in RadioEvent : RecordRadioEvent(v)
      BY <2>4 DEF Evidenced
    <3>2. CASE v.message # m
      BY <2>0, <2>1, <3>1, <3>2, RecordWrites
    <3>3. CASE v.message = m
      <4>1. /\ v.attempt = a /\ RadioNext(v) # InvalidTransition /\ state'[m] = RadioNext(v) /\ v \in events'
            /\ v.evidence # "proven_no_submit" => fence'[m].attempt = a
        <5>1. /\ fence[v.message].attempt = v.attempt /\ RadioNext(v) # InvalidTransition
              /\ state' = [state EXCEPT ![v.message] = RadioNext(v)] /\ events' = events \union {v}
              /\ v.evidence # "proven_no_submit" => fence'[v.message].attempt = v.attempt
          BY <3>1, RecordWrites
        <5>. QED  BY <1>2, <2>0, <3>3, <5>1 DEF m
      <4>2. CASE v.evidence = "callback_conflict"
        BY <4>1, <4>2 DEF Reached, Conflicted, Recorded
      <4>3. CASE v.evidence # "callback_conflict"
        <5>1. /\ state[m] \in {"submitted", "delivery_unknown"}
              /\ RadioNext(v) \in {"delivered", "delivery_unknown"}
          BY <2>0, <3>3, <4>1, <4>3, SettledMoves
        <5>2. v.evidence # "proven_no_submit"
          <6>1. v.evidence = "proven_no_submit" => RadioNext(v) = Apply(state[m], "proven_no_submit")
            BY <3>3, Zenon DEF RadioNext, SentCallback
          <6>2. Apply(state[m], "proven_no_submit") = InvalidTransition
            BY <5>1 DEF Apply, InvalidTransition
          <6>. QED  BY <4>1, <6>1, <6>2
        <5>3. ss = {"submitted", "delivered", "delivery_unknown"}
          BY <1>2, <5>1 DEF m
        <5>. QED  BY <1>0, <4>1, <5>1, <5>2, <5>3 DEF Reached, m
      <4>. QED  BY <4>2, <4>3
    <3>. QED  BY <3>2, <3>3
  <2>5. CASE Swept
    <3>1. PICK n \in Messages : ReconcileSilentAttempt(n) \/ ReconcileDeliveryTimeout(n)
      BY <2>5 DEF Swept
    <3>2. /\ fence'[m].attempt = fence[m].attempt
          /\ \/ state[n] \in {"claimed", "submitting"} /\ state' = [state EXCEPT ![n] = "unknown"]
             \/ state[n] = "submitted" /\ state' = [state EXCEPT ![n] = "delivery_unknown"]
      BY <2>0, <3>1, SweepWrites
    <3>3. CASE n = m
      <4>1. state[m] = "submitted" /\ state'[m] = "delivery_unknown"
        BY <2>0, <3>2, <3>3
      <4>2. ss = {"submitted", "delivered", "delivery_unknown"}
        BY <1>2, <4>1 DEF m
      <4>. QED  BY <1>0, <1>2, <3>2, <4>1, <4>2 DEF Reached, m
    <3>4. CASE n # m
      BY <2>0, <2>1, <3>2, <3>4
    <3>. QED  BY <3>3, <3>4
  <2>6. CASE EventPruned
    BY <2>1, <2>6 DEF EventPruned, PruneEvent
  <2>7. CASE Still
    BY <2>0, <2>1, <2>7 DEF Still
  <2>. QED  BY <2>2, <2>3, <2>4, <2>5, <2>6, <2>7, EvidenceKinds
<1>. QED  BY <1>1, <1>2 DEF Reached

\* The proof of an attempt stays: it gave up the fence, and only a fence is written.
LEMMA ProvedStays ==
  ASSUME StoreInv, [StoreNext]_storeVars, NEW a \in Attempts, attempt[a].status = "proved_no_submit"
  PROVE  attempt'[a].status = "proved_no_submit"
<1>. USE DEF queueVars, attemptVars
<1>0. \A m \in Messages : fence[m].attempt # a
  BY FencedUnproved DEF Unproved
<1>1. CASE Created
  BY <1>1 DEF Created, AcceptCreate
<1>2. CASE Granted
  <2>1. PICK n \in Messages, g \in 1..MaxGeneration, e \in 1..MaxEpoch, b \in Attempts : IssueGrant(n, g, e, b)
    BY <1>2 DEF Granted
  <2>2. attempt[b] = NoAttempt /\ \E x : attempt' = [attempt EXCEPT ![b] = x]
    BY <2>1 DEF IssueGrant
  <2>3. a # b
    BY <2>2 DEF NoAttempt
  <2>. QED  BY <2>2, <2>3 DEF StoreInv, StoreTypeOK
<1>3. CASE Evidenced
  <2>1. PICK v \in RadioEvent : RecordRadioEvent(v)
    BY <1>3 DEF Evidenced
  <2>2. /\ v.message \in Messages /\ fence[v.message].attempt = v.attempt
        /\ \A b \in Attempts : b # v.attempt => attempt'[b] = attempt[b]
    BY <2>1, RecordWrites
  <2>. QED  BY <1>0, <2>2
<1>4. CASE Swept
  <2>1. PICK n \in Messages : ReconcileSilentAttempt(n) \/ ReconcileDeliveryTimeout(n)
    BY <1>4 DEF Swept
  <2>2. fence[n].attempt # a => attempt'[a] = attempt[a]
    BY <2>1, SweepWrites
  <2>. QED  BY <1>0, <2>2
<1>5. CASE EventPruned
  BY <1>5 DEF EventPruned, PruneEvent
<1>6. CASE Still
  BY <1>6 DEF Still
<1>. QED  BY <1>1, <1>2, <1>3, <1>4, <1>5, <1>6, EvidenceKinds

LEMMA StandsStays ==
  ASSUME StoreInv, EventsInv, [StoreNext]_storeVars, NEW a \in Attempts, attempt[a].message \in Messages,
         NEW ev, Stands(a, ev)
  PROVE  Stands(a, ev)'
<1>1. ev = "callback_conflict" => Conflicted(a)'
  BY ConflictRemains DEF Stands
<1>2. ev = "sent_callback_failed" => Reached(a, {"failed"})'
  BY ReachedStays DEF Stands
<1>3. ev = "sent_callback_ok" => Reached(a, {"submitted", "delivered", "delivery_unknown"})'
  BY ReachedStays DEF Stands
<1>4. ev = "delivery_callback_ok" => Reached(a, {"delivered"})'
  BY ReachedStays DEF Stands
<1>5. ev = "proven_no_submit" => attempt'[a].status = "proved_no_submit"
  BY ProvedStays DEF Stands
<1>. QED  BY <1>1, <1>2, <1>3, <1>4, <1>5 DEF Stands

\* Evidence for a message of one segment has its effect when it is recorded.
LEMMA StandsWhenRecorded ==
  ASSUME StoreInv, NEW v \in RadioEvent, RecordRadioEvent(v),
         v.evidence \in SentCallback => v.segment = 1 /\ v.count = 1
  PROVE  Stands(v.attempt, v.evidence)'
<1>. DEFINE a == v.attempt
            m == v.message
            s == state[m]
<1>0. /\ m \in Messages /\ a \in Attempts /\ RadioNext(v) # InvalidTransition
      /\ state'[m] = RadioNext(v) /\ v \in events' /\ attempt'[a].message = m
      /\ v.evidence # "proven_no_submit" => fence'[m].attempt = a
      /\ v.evidence = "proven_no_submit" => attempt'[a].status = "proved_no_submit"
  <2>1. /\ v.message \in Messages /\ v.attempt \in Attempts /\ RadioNext(v) # InvalidTransition
        /\ state' = [state EXCEPT ![v.message] = RadioNext(v)] /\ events' = events \union {v}
        /\ v.evidence # "proven_no_submit" => fence'[v.message].attempt = v.attempt
        /\ attempt'[v.attempt].message = v.message
        /\ v.evidence = "proven_no_submit" =>
              attempt'[v.attempt] = [message |-> v.message, status |-> "proved_no_submit"]
    BY RecordWrites
  <2>2. state \in [Messages -> MessageState \union {"absent"}]
    BY DEF StoreInv, StoreTypeOK
  <2>. QED  BY <2>1, <2>2
<1>1. ASSUME NEW ss, v.evidence # "proven_no_submit", RadioNext(v) \in ss PROVE Reached(a, ss)'
  BY <1>0, <1>1 DEF Reached
<1>2. v.evidence = "callback_conflict" => Conflicted(a)'
  BY <1>0 DEF Conflicted, Recorded
<1>3. v.evidence = "sent_callback_failed" => RadioNext(v) = "failed"
  <2>. SUFFICES ASSUME v.evidence = "sent_callback_failed" PROVE RadioNext(v) = "failed"
    OBVIOUS
  <2>1. v.evidence \in SentCallback /\ v.count = 1
    BY DEF SentCallback
  <2>2. RadioNext(v) = SentNext(v)
    BY <1>0, <2>1, Zenon DEF RadioNext
  <2>3. SentNext(v) \in {InvalidTransition, Apply(s, "sent_callback_failed")}
    BY <2>1, Zenon DEF SentNext
  <2>4. Apply(s, "sent_callback_failed") \in {"failed", InvalidTransition}
    BY DEF Apply, InvalidTransition
  <2>. QED  BY <1>0, <2>2, <2>3, <2>4
<1>4. v.evidence = "sent_callback_ok" => RadioNext(v) = "submitted"
  <2>. SUFFICES ASSUME v.evidence = "sent_callback_ok" PROVE RadioNext(v) = "submitted"
    OBVIOUS
  <2>1. v.evidence \in SentCallback /\ v.count = 1 /\ v.segment = 1
    BY DEF SentCallback
  <2>2. RadioNext(v) = SentNext(v) /\ SentNext(v) # InvalidTransition
    BY <1>0, <2>1, Zenon DEF RadioNext
  <2>3. \A e \in Recorded(a, SentCallback) : e.count = 1 /\ e.segment # 1
    <3>1. \A e \in Recorded(a, SentCallback) : e.count = v.count
      BY <2>2, Zenon DEF SentNext
    <3>2. ~IndexRefuses(v)
      BY RecordedShape DEF RecordRadioEvent, StoreInv
    <3>. QED  BY <2>1, <3>1, <3>2 DEF IndexRefuses
  <2>4. \A e \in Recorded(a, SentCallback) : e.segment \in Nat /\ 1 <= e.segment /\ e.segment <= e.count
    <3>1. events \subseteq RadioEvent \union SweepEvents
      BY DEF StoreInv, StoreTypeOK
    <3>2. \A e \in SweepEvents : e.evidence \notin SentCallback
      BY DEF SweepEvents, SentCallback
    <3>3. \A e \in RadioEvent : e.evidence \in SentCallback =>
            e.segment \in Nat /\ 1 <= e.segment /\ e.segment <= e.count
      BY DEF RadioEvent
    <3>. QED  BY <3>1, <3>2, <3>3 DEF Recorded
  <2>5. Recorded(a, SentCallback) = {}
    BY <2>3, <2>4
  <2>6. Recorded(a, {"sent_callback_ok"}) = {}
    BY <2>5 DEF Recorded, SentCallback
  <2>7. AllSegmentsSent(v)
    <3>1. Cardinality({}) = 0
      BY FS_EmptySet
    <3>. QED  BY <2>1, <2>6, <3>1 DEF AllSegmentsSent
  <2>8. SentNext(v) = Apply(s, "sent_callback_ok")
    <3>1. v.evidence # "sent_callback_failed"
      OBVIOUS
    <3>. QED  BY <2>2, <2>7, <3>1, Zenon DEF SentNext
  <2>9. Apply(s, "sent_callback_ok") \in {"submitted", InvalidTransition}
    BY DEF Apply, InvalidTransition
  <2>. QED  BY <2>2, <2>8, <2>9
<1>5. v.evidence = "delivery_callback_ok" => RadioNext(v) = "delivered"
  <2>1. v.evidence = "delivery_callback_ok" => RadioNext(v) = Apply(s, "delivery_callback_ok")
    BY Zenon DEF RadioNext, SentCallback
  <2>2. Apply(s, "delivery_callback_ok") \in {"delivered", InvalidTransition}
    BY DEF Apply, InvalidTransition
  <2>. QED  BY <1>0, <2>1, <2>2
<1>6. Stands(a, v.evidence)'
  BY <1>0, <1>1, <1>2, <1>3, <1>4, <1>5 DEF Stands
<1>. QED  BY <1>6

\* The events of the phone whose effect stands at the hub.
Standing == { e \in PhoneEvent : Stands(e[1], e[2]) }

\* What is recorded, answered, acknowledged or on the way to be stands.
StandsInv ==
  /\ \A v \in events : v.evidence \in PhoneEvidence => <<v.attempt, v.evidence>> \in Standing
  /\ \A e \in PhoneEvent : status[e] = "acked" => e \in Standing
  /\ \A c \in Epochs : task[c].pc = "answer" => task[c].event \in Standing
  /\ \A i \in 1..Len(down) : down[i].type = "ack" => down[i].event \in Standing

\* What the hub hears of was written to the outbox, and a message is delivered only
\* on the receipt of its attempt.
EmittedInv ==
  /\ \A c \in Epochs : \A i \in 1..Len(up[c]) : status[up[c][i]] # "none"
  /\ \A c \in Epochs : task[c].pc = "record" => status[task[c].event] # "none"
  /\ \A v \in events : v.evidence \in PhoneEvidence => status[<<v.attempt, v.evidence>>] # "none"
  /\ \A m \in Messages : state[m] = "delivered" =>
       status[<<fence[m].attempt, "delivery_callback_ok">>] # "none"

LEMMA RowNames ==
  ASSUME GatewayInv, NEW a \in Attempts, journal[a].state # "absent"
  PROVE  attempt[a].message = journal[a].message /\ attempt[a].message \in Messages
<1>1. journal[a] \in JournalRow
  BY RowExists DEF GatewayInv, PhoneInv, JournalShape
<1>2. journal[a].message \in Messages
  BY <1>1 DEF JournalRow
<1>. QED  BY <1>2 DEF GatewayInv, LinkInv, RowsNamed

\* An event new in message_events was put there by a sweep or by record_radio_event.
LEMMA NewEvent ==
  ASSUME StoreInv, [StoreNext]_storeVars, NEW v \in events', v \notin events
  PROVE  v \in SweepEvents \/ (v \in RadioEvent /\ RecordRadioEvent(v))
<1>. USE DEF queueVars, attemptVars
<1>1. CASE Created
  BY <1>1 DEF Created, AcceptCreate
<1>2. CASE Granted
  BY <1>2 DEF Granted, IssueGrant
<1>3. CASE Evidenced
  <2>1. PICK x \in RadioEvent : RecordRadioEvent(x)
    BY <1>3 DEF Evidenced
  <2>2. events' = events \union {x}
    BY <2>1 DEF RecordRadioEvent
  <2>3. x = v
    BY <2>2
  <2>. QED  BY <2>1, <2>3
<1>4. CASE Swept
  <2>1. PICK m \in Messages : ReconcileSilentAttempt(m) \/ ReconcileDeliveryTimeout(m)
    BY <1>4 DEF Swept
  <2>2. \E x \in SweepEvents : events' = events \union {x}
    BY <2>1, SweepWrites
  <2>. QED  BY <2>2
<1>5. CASE EventPruned
  BY <1>5 DEF EventPruned, PruneEvent
<1>6. CASE Still
  BY <1>6 DEF Still
<1>. QED  BY <1>1, <1>2, <1>3, <1>4, <1>5, <1>6, EvidenceKinds

\* A message is delivered by the receipt of the attempt that holds its fence.
LEMMA DeliveredBy ==
  ASSUME StoreInv, [StoreNext]_storeVars, NEW m \in Messages, state'[m] = "delivered"
  PROVE  \/ state[m] = "delivered" /\ fence'[m].attempt = fence[m].attempt
         \/ \E v \in RadioEvent : /\ RecordRadioEvent(v) /\ v.evidence = "delivery_callback_ok"
                                  /\ fence'[m].attempt = v.attempt
<1>. USE DEF queueVars, attemptVars
<1>0. /\ state \in [Messages -> MessageState \union {"absent"}]
      /\ fence \in [Messages -> FenceRow \union {NoFence}]
  BY DEF StoreInv, StoreTypeOK
<1>1. CASE Created
  <2>1. PICK n : state' = [state EXCEPT ![n] = "queued"] /\ fence' = fence
    BY <1>1 DEF Created, AcceptCreate
  <2>. QED  BY <1>0, <2>1
<1>2. CASE Granted
  <2>1. PICK n \in Messages, g \in 1..MaxGeneration, e \in 1..MaxEpoch, b \in Attempts : IssueGrant(n, g, e, b)
    BY <1>2 DEF Granted
  <2>2. PICK x : fence' = [fence EXCEPT ![n] = x] /\ state' = state /\ state[n] = "claimed"
    BY <2>1 DEF IssueGrant, GrantCurrent
  <2>. QED  BY <1>0, <2>2
<1>3. CASE Evidenced
  <2>1. PICK v \in RadioEvent : RecordRadioEvent(v)
    BY <1>3 DEF Evidenced
  <2>2. /\ fence[v.message].attempt = v.attempt /\ v.message \in Messages
        /\ state' = [state EXCEPT ![v.message] = RadioNext(v)] /\ RadioNext(v) # InvalidTransition
        /\ \A n \in Messages : n # v.message => fence'[n] = fence[n]
        /\ v.evidence # "proven_no_submit" => fence'[v.message].attempt = v.attempt
    BY <2>1, RecordWrites
  <2>3. CASE v.message # m
    BY <1>0, <2>2, <2>3
  <2>4. CASE v.message = m
    <3>1. RadioNext(v) = "delivered"
      BY <1>0, <2>2, <2>4
    <3>2. v.evidence = "delivery_callback_ok"
      <4>1. \A ev \in RadioEvidence \union {"partial_sent_callbacks"} : ev # "delivery_callback_ok" =>
              Apply(state[m], ev) # "delivered"
        BY DEF Apply, RadioEvidence, InvalidTransition
      <4>2. v.evidence \in RadioEvidence
        BY DEF RadioEvent
      <4>3. v.evidence \notin SentCallback => RadioNext(v) \in {Apply(state[m], v.evidence), InvalidTransition}
        <5>1. CASE v.evidence = "callback_conflict"
          BY <2>4, <5>1 DEF RadioNext, SentCallback
        <5>2. CASE v.evidence \notin SentCallback /\ v.evidence # "callback_conflict"
          BY <2>4, <5>2 DEF RadioNext
        <5>. QED  BY <5>1, <5>2
      <4>4. v.evidence \in SentCallback => RadioNext(v) # "delivered"
        <5>. SUFFICES ASSUME v.evidence \in SentCallback PROVE RadioNext(v) # "delivered"
          OBVIOUS
        <5>1. RadioNext(v) = IF IntentRecorded(v.attempt) THEN SentNext(v) ELSE InvalidTransition
          <6>1. v.evidence # "callback_conflict"
            BY DEF SentCallback
          <6>. QED  BY <6>1 DEF RadioNext
        <5>2. \/ SentNext(v) \in {InvalidTransition, Apply(state[m], "sent_callback_failed"),
                                  Apply(state[m], "partial_sent_callbacks"), Apply(state[m], "sent_callback_ok")}
              \/ SentNext(v) \in {"submitting", "unknown"}
          BY <2>4 DEF SentNext
        <5>3. InvalidTransition # "delivered"
          BY DEF InvalidTransition
        <5>4. {"sent_callback_failed", "sent_callback_ok"} \subseteq RadioEvidence
          BY DEF RadioEvidence
        <5>. QED  BY <4>1, <5>1, <5>2, <5>3, <5>4
      <4>. QED  BY <3>1, <4>1, <4>2, <4>3, <4>4, <2>2
    <3>. QED  BY <2>1, <2>2, <2>4, <3>2
  <2>. QED  BY <2>3, <2>4
<1>4. CASE Swept
  <2>1. PICK n \in Messages : ReconcileSilentAttempt(n) \/ ReconcileDeliveryTimeout(n)
    BY <1>4 DEF Swept
  <2>2. /\ fence'[m].attempt = fence[m].attempt
        /\ state' = [state EXCEPT ![n] = "unknown"] \/ state' = [state EXCEPT ![n] = "delivery_unknown"]
    BY <2>1, SweepWrites
  <2>. QED  BY <1>0, <2>2
<1>5. CASE EventPruned
  BY <1>5 DEF EventPruned, PruneEvent
<1>6. CASE Still
  BY <1>6 DEF Still
<1>. QED  BY <1>1, <1>2, <1>3, <1>4, <1>5, <1>6, EvidenceKinds

\* The phone's name for a recorded event.
LEMMA EventNamed ==
  ASSUME StoreInv, NEW v \in events, v.evidence \in PhoneEvidence
  PROVE  /\ <<v.attempt, v.evidence>> \in PhoneEvent /\ v.attempt \in Attempts
         /\ attempt[v.attempt].message \in Messages
<1>1. v.attempt \in Attempts
  BY DEF StoreInv, StoreTypeOK, RadioEvent, SweepEvents
<1>2. attempt[v.attempt] \in AttemptRow
  BY <1>1 DEF StoreInv, StoreTypeOK, RowsInv, EventsNamed
<1>. QED  BY <1>1, <1>2 DEF PhoneEvent

LEMMA EmittedStep ==
  ASSUME JournalInv, EmittedInv, [GatewayNext]_vars
  PROVE  EmittedInv'
<1>. USE DEF JournalInv, GatewayInv
<1>0. /\ phone.conn \in 0..MaxEpoch /\ task \in [Epochs -> TaskRow] /\ up \in [Epochs -> Seq(PhoneEvent)]
  BY DEF LinkInv, ServiceInv, PhoneRow, TasksInv, UpInv
<1>1. \A e \in PhoneEvent : status[e] # "none" => status'[e] # "none"
  BY StatusStep DEF StatusMoves
<1>2. [StoreNext]_storeVars /\ Heard
  BY StoreSide
<1>3. /\ \A c \in Epochs : up[c] \in Seq(PhoneEvent) /\ \A i \in 1..Len(up[c]) : up[c][i] \in PhoneEvent
      /\ \A c \in Epochs : task[c].pc = "record" => task[c].event \in PhoneEvent
  BY <1>0, ElementOfSeq DEF LinkInv, TasksInv, TaskSound, Written
<1>4. \A c \in Epochs : \A i \in 1..Len(up'[c]) : status'[up'[c][i]] # "none"
  <2>1. CASE UNCHANGED up
    BY <1>1, <1>3, <2>1 DEF EmittedInv
  <2>2. ASSUME Offers, ~UNCHANGED up PROVE \A c \in Epochs : \A i \in 1..Len(up'[c]) : status'[up'[c][i]] # "none"
    <3>1. PICK x : x = phone'.awaiting
      OBVIOUS
    <3>2. x \in NextAlphaEvent(status', log') /\ up' = [up EXCEPT ![phone.conn] = Append(up[phone.conn], x)]
      BY <2>2, <3>1 DEF Offers
    <3>3. status'[x] # "none"
      BY <3>2 DEF NextAlphaEvent
    <3>4. ASSUME NEW c \in Epochs, NEW i \in 1..Len(up'[c]) PROVE status'[up'[c][i]] # "none"
      <4>1. CASE c # phone.conn
        <5>1. up'[c] = up[c]
          BY <1>0, <3>2, <4>1
        <5>. QED  BY <1>1, <1>3, <3>4, <5>1 DEF EmittedInv
      <4>2. CASE c = phone.conn
        <5>1. up'[c] = Append(up[c], x)
          BY <1>0, <3>2, <4>2
        <5>2. /\ Len(up'[c]) = Len(up[c]) + 1 /\ Len(up[c]) \in Nat /\ up'[c][Len(up[c]) + 1] = x
              /\ \A k \in 1..Len(up[c]) : up'[c][k] = up[c][k]
          BY <1>3, <5>1, AppendProperties
        <5>3. (i \in 1..Len(up[c]) /\ up'[c][i] = up[c][i]) \/ up'[c][i] = x
          BY <5>2
        <5>. QED  BY <1>1, <1>3, <3>3, <5>3 DEF EmittedInv
      <4>. QED  BY <4>1, <4>2
    <3>. QED  BY <3>4
  <2>3. ASSUME Serves, ~UNCHANGED up PROVE \A c \in Epochs : \A i \in 1..Len(up'[c]) : status'[up'[c][i]] # "none"
    <3>1. PICK e \in Epochs : Server(e)
      BY <2>3 DEF Serves
    <3>2. PICK t, f : HubStep(e, t, f)
      BY <3>1, HubMoves
    <3>3. up[e] # <<>> /\ up' = [up EXCEPT ![e] = Tail(@)]
      BY <2>3, <3>2 DEF HubStep
    <3>4. ASSUME NEW c \in Epochs, NEW i \in 1..Len(up'[c]) PROVE status'[up'[c][i]] # "none"
      <4>1. CASE c # e
        <5>1. up'[c] = up[c]
          BY <1>0, <3>3, <4>1
        <5>. QED  BY <1>1, <1>3, <3>4, <5>1 DEF EmittedInv
      <4>2. CASE c = e
        <5>1. up'[c] = Tail(up[c]) /\ up[c] # <<>>
          BY <1>0, <3>3, <4>2
        <5>2. /\ Len(up[c]) \in Nat /\ Len(up'[c]) = Len(up[c]) - 1
              /\ \A k \in 1..Len(up'[c]) : up'[c][k] = up[c][k + 1]
          BY <1>3, <5>1, HeadTailProperties
        <5>3. i + 1 \in 1..Len(up[c]) /\ up'[c][i] = up[c][i + 1]
          BY <5>2
        <5>. QED  BY <1>1, <1>3, <5>3 DEF EmittedInv
      <4>. QED  BY <4>1, <4>2
    <3>. QED  BY <3>4
  <2>4. Offers \/ Serves \/ UNCHANGED up
    BY ServiceMoves DEF Departs, Opens, Takes, Reads, Closes, Idles
  <2>. QED  BY <2>1, <2>2, <2>3, <2>4
<1>5. \A c \in Epochs : task'[c].pc = "record" => status'[task'[c].event] # "none"
  <2>1. ASSUME NEW e, NEW t, task' = [task EXCEPT ![e] = t],
               t.pc = "record" => t.event \in PhoneEvent /\ status[t.event] # "none"
        PROVE  \A c \in Epochs : task'[c].pc = "record" => status'[task'[c].event] # "none"
    <3>1. \A c \in Epochs : task'[c] = task[c] \/ task'[c] = t
      BY <1>0, <2>1
    <3>. QED  BY <1>1, <1>3, <2>1, <3>1 DEF EmittedInv
  <2>2. CASE UNCHANGED task
    BY <1>1, <1>3, <2>2 DEF EmittedInv
  <2>3. CASE Opens
    <3>1. PICK t : t = [NoTask EXCEPT !.pc = "idle", !.armed = phone'.armed]
      OBVIOUS
    <3>2. t.pc = "idle" /\ task' = [task EXCEPT ![session[Phone].epoch + 1] = t]
      BY <2>3, <3>1 DEF Opens, NoTask
    <3>. QED  BY <2>1, <3>2
  <2>4. CASE Serves
    <3>1. PICK e \in Epochs : Server(e)
      BY <2>4 DEF Serves
    <3>2. PICK t, f : HubStep(e, t, f)
      BY <3>1, HubMoves
    <3>3. task' = [task EXCEPT ![e] = t] /\ (t.pc = "record" => up[e] # <<>> /\ t.event = Head(up[e]))
      BY <3>2 DEF HubStep
    <3>4. up[e] # <<>> => Head(up[e]) \in PhoneEvent /\ status[Head(up[e])] # "none"
      <4>1. up[e] # <<>> => 1 \in 1..Len(up[e]) /\ Head(up[e]) = up[e][1]
        BY <1>3
      <4>. QED  BY <1>3, <4>1 DEF EmittedInv
    <3>. QED  BY <2>1, <3>3, <3>4
  <2>5. Opens \/ Serves \/ UNCHANGED task
    BY ServiceMoves DEF Departs, Takes, Reads, Offers, Closes, Idles
  <2>. QED  BY <2>2, <2>3, <2>4, <2>5
<1>6. ASSUME NEW v \in RadioEvent, RecordRadioEvent(v)
      PROVE  <<v.attempt, v.evidence>> \in PhoneEvent /\ status[<<v.attempt, v.evidence>>] # "none"
  <2>1. PICK x \in PhoneEvent : Written(x) /\ InHand(x) /\ v = Wire(x)
    BY <1>2, <1>6, RecordedIsHeard
  <2>2. <<v.attempt, v.evidence>> = x
    BY <2>1, WireShape, EventNames
  <2>3. status[x] # "none"
    BY <2>1 DEF InHand, EmittedInv
  <2>. QED  BY <2>2, <2>3
<1>7. ASSUME NEW v \in events', v.evidence \in PhoneEvidence PROVE status'[<<v.attempt, v.evidence>>] # "none"
  <2>1. CASE v \in events
    BY <1>1, <1>7, <2>1, EventNamed DEF EmittedInv
  <2>2. CASE v \notin events
    <3>1. v \notin SweepEvents
      BY <1>7 DEF SweepEvents, PhoneEvidence, RadioEvidence
    <3>2. v \in RadioEvent /\ RecordRadioEvent(v)
      BY <1>2, <2>2, <3>1, NewEvent
    <3>. QED  BY <1>1, <1>6, <3>2
  <2>. QED  BY <2>1, <2>2
<1>8. ASSUME NEW m \in Messages, state'[m] = "delivered"
      PROVE  status'[<<fence'[m].attempt, "delivery_callback_ok">>] # "none"
  <2>1. CASE state[m] = "delivered" /\ fence'[m].attempt = fence[m].attempt
    <3>1. fence[m] # NoFence
      BY <2>1 DEF StoreInv, RowsInv, RowsAgree
    <3>2. fence[m].attempt \in Attempts
      BY <3>1, Ungranted
    <3>3. <<fence[m].attempt, "delivery_callback_ok">> \in PhoneEvent
      BY <3>2, EventNames, EvidenceNames
    <3>. QED  BY <1>1, <2>1, <3>3 DEF EmittedInv
  <2>2. CASE \E v \in RadioEvent : /\ RecordRadioEvent(v) /\ v.evidence = "delivery_callback_ok"
                                   /\ fence'[m].attempt = v.attempt
    BY <1>1, <1>6, <2>2
  <2>. QED  BY <1>2, <1>8, <2>1, <2>2, DeliveredBy
<1>. QED  BY <1>4, <1>5, <1>7, <1>8 DEF EmittedInv

LEMMA StandsStep ==
  ASSUME JournalInv, EventsInv, StandsInv, [GatewayNext]_vars
  PROVE  StandsInv'
<1>. USE DEF JournalInv, GatewayInv
<1>0. task \in [Epochs -> TaskRow] /\ down \in Seq(Frame)
  BY DEF LinkInv, TasksInv, DownInv
<1>1. [StoreNext]_storeVars /\ Heard
  BY StoreSide
<1>2. ASSUME NEW e \in Standing, attempt[e[1]].message \in Messages PROVE e \in Standing'
  <2>1. e \in PhoneEvent /\ e[1] \in Attempts /\ Stands(e[1], e[2])
    BY EventNames DEF Standing
  <2>2. Stands(e[1], e[2])'
    BY <1>1, <1>2, <2>1, StandsStays
  <2>. QED  BY <2>1, <2>2 DEF Standing
<1>3. ASSUME NEW e, Written(e), e \in Standing PROVE e \in Standing'
  <2>1. e[1] \in Attempts /\ journal[e[1]].state # "absent"
    BY <1>3, EventNames DEF Written
  <2>. QED  BY <1>2, <1>3, <2>1, RowNames
\* What is recorded now.
<1>4. ASSUME NEW x, Written(x), RecordRadioEvent(Wire(x)) PROVE x \in Standing'
  <2>1. PICK v \in RadioEvent : /\ v = Wire(x) /\ v.attempt = x[1] /\ v.evidence = x[2]
                                /\ x \in PhoneEvent
    BY <1>4, WireShape DEF Written
  <2>2. v.evidence \in SentCallback => v.segment = 1 /\ v.count = 1
    BY <2>1 DEF Wire
  <2>3. Stands(v.attempt, v.evidence)'
    BY <1>4, <2>1, <2>2, StandsWhenRecorded
  <2>4. Stands(x[1], x[2])'
    BY <2>1, <2>3
  <2>. QED  BY <2>1, <2>4 DEF Standing
<1>5. ASSUME NEW v \in events', v.evidence \in PhoneEvidence PROVE <<v.attempt, v.evidence>> \in Standing'
  <2>1. CASE v \in events
    <3>1. PICK x : x = <<v.attempt, v.evidence>>
      OBVIOUS
    <3>2. x \in Standing /\ attempt[x[1]].message \in Messages
      BY <1>5, <2>1, <3>1, EventNamed DEF StandsInv
    <3>. QED  BY <1>2, <3>1, <3>2
  <2>2. CASE v \notin events
    <3>1. v \notin SweepEvents
      BY <1>5 DEF SweepEvents, PhoneEvidence, RadioEvidence
    <3>2. v \in RadioEvent /\ RecordRadioEvent(v)
      BY <1>1, <2>2, <3>1, NewEvent
    <3>3. PICK x \in PhoneEvent : Written(x) /\ v = Wire(x)
      BY <1>1, <3>2, RecordedIsHeard
    <3>4. x \in Standing' /\ <<v.attempt, v.evidence>> = x
      BY <1>4, <3>2, <3>3, WireShape, EventNames
    <3>. QED  BY <3>4
  <2>. QED  BY <2>1, <2>2
<1>6. ASSUME NEW e \in PhoneEvent, status'[e] = "acked" PROVE e \in Standing'
  <2>0. StatusMoves(e)
    BY StatusStep
  <2>1. CASE status[e] = "acked"
    <3>1. journal[e[1]].state # "absent" /\ e[1] \in Attempts
      <4>1. e[1] \in Attempts /\ e[2] \in PhoneEvidence /\ e = <<e[1], e[2]>>
        BY EventNames
      <4>2. AttemptSound(e[1])
        BY <4>1 DEF PhoneInv
      <4>. QED  BY <2>1, <4>1, <4>2 DEF AttemptSound
    <3>. QED  BY <1>2, <2>1, <3>1, RowNames DEF StandsInv
  <2>2. CASE PhoneAck /\ e = Head(down).event
    <3>1. down # <<>> /\ Head(down).type = "ack"
      BY <2>2 DEF PhoneAck
    <3>2. 1 \in 1..Len(down) /\ Head(down) = down[1]
      BY <1>0, <3>1
    <3>3. e \in Standing /\ Written(e)
      BY <2>2, <3>1, <3>2 DEF StandsInv, LinkInv, DownInv, FrameSound
    <3>. QED  BY <1>3, <3>3
  <2>3. CASE e = Intent(e[1])
    <3>1. e[2] = "durable_submit_intent"
      <4>1. Intent(e[1])[2] = "durable_submit_intent"
        BY DEF Intent
      <4>. QED  BY <2>3, <4>1
    <3>2. Stands(e[1], e[2])'
      BY <3>1 DEF Stands
    <3>. QED  BY <3>2 DEF Standing
  <2>. QED  BY <1>6, <2>0, <2>1, <2>2, <2>3 DEF StatusMoves
<1>7. /\ \A c \in Epochs : task[c].pc = "answer" => task[c].event \in Standing'
      /\ \A i \in 1..Len(down) : down[i].type = "ack" => down[i].event \in Standing'
  BY <1>3 DEF StandsInv, LinkInv, TasksInv, TaskSound, DownInv, FrameSound
<1>8. \A c \in Epochs : task'[c].pc = "answer" => task'[c].event \in Standing'
  <2>1. ASSUME NEW e, NEW t, task' = [task EXCEPT ![e] = t], t.pc = "answer" => t.event \in Standing'
        PROVE  \A c \in Epochs : task'[c].pc = "answer" => task'[c].event \in Standing'
    <3>1. \A c \in Epochs : task'[c] = task[c] \/ task'[c] = t
      BY <1>0, <2>1
    <3>. QED  BY <1>7, <2>1, <3>1
  <2>2. CASE UNCHANGED task
    BY <1>7, <2>2
  <2>3. CASE Opens
    <3>1. PICK t : t = [NoTask EXCEPT !.pc = "idle", !.armed = phone'.armed]
      OBVIOUS
    <3>2. t.pc = "idle" /\ task' = [task EXCEPT ![session[Phone].epoch + 1] = t]
      BY <2>3, <3>1 DEF Opens, NoTask
    <3>. QED  BY <2>1, <3>2
  <2>4. CASE Serves
    <3>1. PICK e \in Epochs : Server(e)
      BY <2>4 DEF Serves
    <3>2. PICK t, f : HubStep(e, t, f)
      BY <3>1, HubMoves
    <3>3. task' = [task EXCEPT ![e] = t]
      BY <3>2 DEF HubStep
    <3>4. ASSUME t.pc = "answer" PROVE t.event \in Standing'
      <4>1. /\ task[e].pc = "record" /\ t.event = task[e].event
            /\ RecordRadioEvent(Wire(t.event)) \/ Wire(t.event) \in events
        BY <3>2, <3>4 DEF HubStep
      <4>2. Written(t.event)
        BY <4>1 DEF LinkInv, TasksInv, TaskSound
      <4>3. CASE RecordRadioEvent(Wire(t.event))
        BY <1>4, <4>2, <4>3
      <4>4. CASE Wire(t.event) \in events
        <5>1. PICK x : x = t.event
          OBVIOUS
        <5>2. /\ Wire(x).attempt = x[1] /\ Wire(x).evidence = x[2] /\ x = <<x[1], x[2]>> /\ x[2] \in PhoneEvidence
          BY <4>2, <5>1, WireShape, EventNames DEF Written
        <5>3. x \in Standing
          BY <4>4, <5>1, <5>2 DEF StandsInv
        <5>. QED  BY <1>3, <4>2, <5>1, <5>3
      <4>. QED  BY <4>1, <4>3, <4>4
    <3>. QED  BY <2>1, <3>3, <3>4
  <2>5. Opens \/ Serves \/ UNCHANGED task
    BY ServiceMoves DEF Departs, Takes, Reads, Offers, Closes, Idles
  <2>. QED  BY <2>2, <2>3, <2>4, <2>5
<1>9. \A i \in 1..Len(down') : down'[i].type = "ack" => down'[i].event \in Standing'
  <2>1. CASE down' = <<>>
    BY <2>1
  <2>2. CASE UNCHANGED down
    BY <1>7, <2>2
  <2>3. CASE Takes
    <3>1. \E i \in 1..Len(down) : down' = RemoveAt(down, i)
      BY <2>3 DEF Takes
    <3>2. \A k \in 1..Len(down') : \E j \in 1..Len(down) : down'[k] = down[j]
      BY <1>0, <3>1, FramesLeft
    <3>. QED  BY <1>7, <3>2
  <2>4. CASE Reads
    <3>1. down # <<>> /\ down' = Tail(down)
      BY <2>4 DEF Reads
    <3>2. \A k \in 1..Len(down') : k + 1 \in 1..Len(down) /\ down'[k] = down[k + 1]
      BY <1>0, <3>1, FramesBehind
    <3>. QED  BY <1>7, <3>2
  <2>5. CASE Serves
    <3>1. PICK e \in Epochs : Server(e)
      BY <2>5 DEF Serves
    <3>2. PICK t, f : HubStep(e, t, f)
      BY <3>1, HubMoves
    <3>3. down' = down \/ down' = Append(down, f)
      BY <3>2 DEF HubStep
    <3>4. \A i \in 1..Len(down') : (i \in 1..Len(down) /\ down'[i] = down[i]) \/ down'[i] = f
      BY <1>0, <3>3, FrameAdded
    <3>5. f.type = "ack" => f.event = task[e].event /\ task[e].pc = "answer"
      BY <3>2 DEF HubStep
    <3>. QED  BY <1>7, <3>4, <3>5
  <2>6. down' = <<>> \/ UNCHANGED down \/ Takes \/ Reads \/ Serves
    BY ServiceMoves DEF Departs, Opens, Offers, Closes, Idles
  <2>. QED  BY <2>1, <2>2, <2>3, <2>4, <2>5, <2>6
<1>. QED  BY <1>5, <1>6, <1>8, <1>9 DEF StandsInv

\* The hub takes an attempt for conflicting only when its phone does.
LEMMA ConflictIsMutual ==
  ASSUME JournalInv, EmittedInv, NEW a \in Attempts, Conflicted(a)
  PROVE  journal[a].conflict
<1>1. PICK v \in events : v.attempt = a /\ v.evidence = "callback_conflict"
  BY DEF Conflicted, Recorded
<1>2. "callback_conflict" \in PhoneEvidence
  BY EvidenceNames
<1>3. status[<<a, "callback_conflict">>] # "none"
  BY <1>1, <1>2 DEF EmittedInv
<1>. QED  BY <1>3 DEF JournalInv, GatewayInv, PhoneInv, AttemptSound

LEMMA AgreeWhenStanding ==
  ASSUME JournalInv, StandsInv, EmittedInv
  PROVE  AckedAgrees
<1>. USE DEF JournalInv, GatewayInv
<1>. SUFFICES ASSUME NEW a \in Attempts,
                     journal[a].state \notin {"absent", "reserved", "submitting", "radio_started"},
                     \A ev \in PhoneEvidence : status[<<a, ev>>] \in {"none", "acked"}
              PROVE  LET j == journal[a]
                         s == state[j.message]
                     IN  /\ j.conflict => s = "unknown"
                         /\ ~j.conflict /\ j.state = "failed" => s = "failed"
                         /\ j.state = "delivered" => s = "delivered"
                         /\ j.state \in {"submitted", "delivery_failed", "delivery_unknown"} =>
                              s \in {"submitted", "delivery_unknown"}
                         /\ j.state = "not_submitted" => attempt[a].status = "proved_no_submit"
  BY DEF AckedAgrees
<1>. DEFINE m == journal[a].message
<1>1. attempt[a].message = m /\ m \in Messages
  BY RowNames
<1>2. RowSound(a)
  OBVIOUS
<1>3. ASSUME NEW ev \in PhoneEvidence, status[<<a, ev>>] # "none" PROVE Stands(a, ev)
  <2>1. <<a, ev>> \in PhoneEvent /\ status[<<a, ev>>] = "acked"
    BY <1>3, EventNames
  <2>2. <<a, ev>> \in Standing
    BY <2>1 DEF StandsInv
  <2>. QED  BY <2>2 DEF Standing
<1>4. Conflicted(a) => journal[a].conflict /\ state[m] = "unknown"
  BY <1>1, ConflictIsMutual, ConflictFenced
<1>5. {"callback_conflict", "sent_callback_failed", "sent_callback_ok", "delivery_callback_ok",
       "proven_no_submit", "durable_submit_intent"} \subseteq PhoneEvidence
  BY EvidenceNames DEF SentCallback
<1>6. journal[a].conflict => state[m] = "unknown"
  <2>1. journal[a].conflict => Stands(a, "callback_conflict")
    BY <1>2, <1>3, <1>5 DEF RowSound
  <2>. QED  BY <1>4, <2>1 DEF Stands
<1>7. ~journal[a].conflict /\ journal[a].state = "failed" => state[m] = "failed"
  <2>1. ~journal[a].conflict /\ journal[a].state = "failed" => Stands(a, "sent_callback_failed")
    BY <1>2, <1>3, <1>5 DEF RowSound
  <2>. QED  BY <1>1, <1>4, <2>1 DEF Stands, Reached
<1>8. journal[a].state # "unknown" => ~journal[a].conflict
  BY <1>2 DEF RowSound
<1>9. journal[a].state = "delivered" => state[m] = "delivered"
  <2>1. journal[a].state = "delivered" => Stands(a, "delivery_callback_ok")
    BY <1>2, <1>3, <1>5 DEF RowSound
  <2>. QED  BY <1>1, <1>4, <1>8, <2>1 DEF Stands, Reached
<1>10. journal[a].state \in {"submitted", "delivery_failed", "delivery_unknown"} =>
         state[m] \in {"submitted", "delivery_unknown"}
  <2>. SUFFICES ASSUME journal[a].state \in {"submitted", "delivery_failed", "delivery_unknown"}
                PROVE  state[m] \in {"submitted", "delivery_unknown"}
    OBVIOUS
  <2>1. ~journal[a].conflict /\ ~Conflicted(a)
    BY <1>4, <1>8
  <2>2. Stands(a, "sent_callback_ok")
    BY <1>2, <1>3, <1>5, <2>1 DEF RowSound
  <2>3. state[m] \in {"submitted", "delivered", "delivery_unknown"} /\ fence[m].attempt = a
    BY <1>1, <2>1, <2>2 DEF Stands, Reached
  <2>4. state[m] # "delivered"
    <3>. SUFFICES ASSUME state[m] = "delivered" PROVE FALSE
      OBVIOUS
    <3>1. status[<<a, "delivery_callback_ok">>] # "none"
      BY <1>1, <2>3 DEF EmittedInv
    <3>. QED  BY <1>2, <2>1, <3>1 DEF RowSound
  <2>. QED  BY <2>3, <2>4
<1>11. journal[a].state = "not_submitted" => attempt[a].status = "proved_no_submit"
  <2>. SUFFICES ASSUME journal[a].state = "not_submitted" PROVE attempt[a].status = "proved_no_submit"
    OBVIOUS
  <2>1. status[Intent(a)] \in {"none", "acked"}
    BY <1>5 DEF Intent
  <2>2. status[Proof(a)] # "none"
    BY <1>2, <2>1 DEF RowSound
  <2>3. Stands(a, "proven_no_submit")
    BY <1>3, <1>5, <2>2 DEF Proof
  <2>. QED  BY <2>3 DEF Stands
<1>. QED  BY <1>6, <1>7, <1>9, <1>10, <1>11

\* Once the hub has acknowledged all that the phone has to say about an attempt, both
\* hold the same of it, however acks, replays, restarts, sweeps and retention
\* interleaved: record_radio_event answers only what it committed, and nothing the
\* store does later takes that back.
THEOREM AckedAgree == GatewaySpec => []AckedAgrees
<1>. DEFINE Inv == EventsInv /\ StandsInv /\ EmittedInv
<1>1. GatewayInit => Inv
  <2>. SUFFICES ASSUME GatewayInit PROVE Inv
    OBVIOUS
  <2>1. /\ events = {} /\ state = [m \in Messages |-> "absent"] /\ status = [e \in PhoneEvent |-> "none"]
        /\ down = <<>> /\ Len(down) = 0 /\ up = [e \in Epochs |-> <<>>] /\ task = [e \in Epochs |-> NoTask]
    BY DEF GatewayInit, StoreInit, JournalInit
  <2>2. NoTask.pc = "off"
    BY DEF NoTask
  <2>3. EventsInv
    BY <2>1, FS_EmptySet DEF EventsInv, EventsLinked, SegmentsApart
  <2>4. StandsInv
    BY <2>1, <2>2 DEF StandsInv
  <2>5. EmittedInv
    BY <2>1, <2>2 DEF EmittedInv
  <2>. QED  BY <2>3, <2>4, <2>5
<1>2. JournalInv /\ Inv /\ [GatewayNext]_vars => Inv'
  <2>. SUFFICES ASSUME JournalInv, Inv, [GatewayNext]_vars PROVE Inv'
    OBVIOUS
  <2>1. StoreInv /\ [StoreNext]_storeVars
    BY StoreSide DEF JournalInv, GatewayInv
  <2>. QED  BY <2>1, EventsStep, StandsStep, EmittedStep
<1>3. JournalInv /\ Inv => AckedAgrees
  BY AgreeWhenStanding
<1>. QED  BY <1>1, <1>2, <1>3, JournalInvariant, PTL DEF GatewaySpec

=============================================================================
