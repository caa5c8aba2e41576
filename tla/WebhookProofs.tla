---------------------------- MODULE WebhookProofs ---------------------------
(***************************************************************************)
(* Proofs about the webhook outbox, for every set of endpoints, events and *)
(* lanes and every value of the bounds.                                    *)
(*                                                                         *)
(* A delivery and its attempt rows are changed by lanes, recovery, the     *)
(* owner and retention, never by two in one transaction.  Consistent says  *)
(* what the two tables tell about one delivery; that every transaction     *)
(* keeps it is a fact about the rows it writes, whoever else runs.  What   *)
(* lanes hold while they post (WebhookInv) is argued separately.           *)
(***************************************************************************)
EXTENDS WebhookOutbox, FiniteSetTheorems, SequenceTheorems, WellFoundedInduction, TLAPS

Status == {"absent", "pending", "leased", "succeeded", "dead"}
Reason == {"none", "failed", "policy_rejected", "retired"}

DeliveryRow == [status: Status, reason: Reason, generation: 1..MaxGenerations,
                count: 0..MaxAttempts, owner: Workers \union {Nobody}, live: BOOLEAN]
AttemptRow  == [generation: 1..MaxGenerations, number: 1..MaxAttempts,
                outcome: Outcome \union {Open}]

\* The attempts of generation g that a delivery has used up.
Top(row, g) == IF g = row.generation THEN row.count ELSE MaxAttempts

\* Owner and reason stand exactly where they belong.
Tidy(row) == /\ (row.owner # Nobody) = (row.status = "leased")
             /\ (row.reason # "none") = (row.status = "dead")
             /\ row.status = "absent" => row = Absent
             /\ row.status = "leased" => row.count > 0
             /\ row.reason = "failed" => row.count = MaxAttempts

\* Each generation numbers its rows through, one row for each number.
Numbered(row, rows) ==
  /\ \A r \in rows : r.generation <= row.generation /\ r.number <= Top(row, r.generation)
  /\ \A r, s \in rows : r.generation = s.generation /\ r.number = s.number => r = s
  /\ \A g \in 1..row.generation : \A n \in 1..Top(row, g) :
       \E r \in rows : r.generation = g /\ r.number = n

\* The open row is the lease's, and what may be tried again has only failed so far.
Told(row, rows) ==
  /\ \A r \in rows : r.outcome = Open <=> /\ row.status = "leased"
                                          /\ r.generation = row.generation
                                          /\ r.number = row.count
  /\ \A r \in rows : r.generation < row.generation => r.outcome = "failure"
  /\ row.status \in {"pending", "leased"} \/ row.reason = "failed" =>
       \A r \in rows : r.outcome \in {"failure", Open}
  /\ \A r \in rows : r.outcome = "ack" => row.status = "succeeded"

Consistent(row, rows) ==
  /\ row \in DeliveryRow /\ rows \subseteq AttemptRow /\ IsFiniteSet(rows)
  /\ Tidy(row) /\ Numbered(row, rows) /\ Told(row, rows)
  /\ row.status = "absent" => rows = {}

-----------------------------------------------------------------------------
(***************************************************************************)
(* What the transactions write keeps the two tables consistent.            *)
(***************************************************************************)

\* A delivery before it is queued, and as it is queued.
LEMMA FreshConsistent ==
  /\ Consistent(Absent, {})
  /\ Consistent([Absent EXCEPT !.status = "pending"], {})
<1>1. IsFiniteSet({})
  BY FS_EmptySet
<1>2. Absent \in DeliveryRow /\ [Absent EXCEPT !.status = "pending"] \in DeliveryRow
  <2>1. 1 \in 1..MaxGenerations /\ 0 \in 0..MaxAttempts /\ Nobody \in Workers \union {Nobody}
    BY WebhookAssumption
  <2>2. Absent \in DeliveryRow
    BY <2>1 DEF Absent, DeliveryRow, Status, Reason
  <2>. QED  BY <2>2 DEF DeliveryRow, Status
<1>3. ASSUME NEW row \in {Absent, [Absent EXCEPT !.status = "pending"]}
      PROVE  Numbered(row, {}) /\ Told(row, {})
  <2>1. row.generation = 1 /\ row.count = 0
    BY DEF Absent
  <2>. QED  BY <2>1 DEF Numbered, Told, Top
<1>4. Tidy(Absent) /\ Tidy([Absent EXCEPT !.status = "pending"])
  BY WebhookAssumption DEF Tidy, Absent
<1>. QED  BY <1>1, <1>2, <1>3, <1>4 DEF Consistent

\* claim_webhook leases a pending delivery and opens the row of the next attempt.
LEMMA ClaimConsistent ==
  ASSUME NEW row, NEW rows, Consistent(row, rows), row.status = "pending",
         row.count < MaxAttempts, NEW w \in Workers
  PROVE  LET new == Row(row.generation, row.count + 1, Open)
         IN  /\ new \notin rows
             /\ Consistent([row EXCEPT !.status = "leased", !.count = @ + 1, !.owner = w,
                                       !.live = TRUE], rows \union {new})
<1>. DEFINE new == Row(row.generation, row.count + 1, Open)
            lease == [row EXCEPT !.status = "leased", !.count = @ + 1, !.owner = w, !.live = TRUE]
<1>1. /\ row \in DeliveryRow /\ rows \subseteq AttemptRow /\ row.count \in 0..MaxAttempts
      /\ row.generation \in 1..MaxGenerations /\ MaxAttempts \in Nat /\ MaxGenerations \in Nat
      /\ row.reason = "none"
  BY WebhookAssumption DEF Consistent, DeliveryRow, Tidy
<1>2. /\ lease \in DeliveryRow /\ lease.status = "leased" /\ lease.count = row.count + 1
      /\ lease.generation = row.generation /\ lease.owner = w /\ lease.reason = "none"
  <2>1. row.count + 1 \in 0..MaxAttempts /\ w \in Workers \union {Nobody} /\ "leased" \in Status
    BY <1>1 DEF Status
  <2>2. lease \in DeliveryRow
    BY <1>1, <2>1 DEF DeliveryRow
  <2>3. /\ lease.status = "leased" /\ lease.count = row.count + 1
        /\ lease.generation = row.generation /\ lease.owner = w /\ lease.reason = row.reason
    BY <1>1 DEF DeliveryRow
  <2>. QED  BY <1>1, <2>2, <2>3
<1>3. /\ new.generation = row.generation /\ new.number = row.count + 1 /\ new.outcome = Open
      /\ new \in AttemptRow
  BY <1>1 DEF Row, AttemptRow
<1>4. \A r \in rows : /\ r.generation <= row.generation /\ r.number <= Top(row, r.generation)
                      /\ r.generation \in Nat /\ r.number \in Nat /\ r.outcome = "failure"
  BY <1>1 DEF Consistent, Numbered, Told, AttemptRow
<1>5. new \notin rows
  BY <1>1, <1>3, <1>4 DEF Top
<1>. HIDE DEF lease, new
<1>6. Numbered(lease, rows \union {new})
  <2>1. \A r \in rows \union {new} : r.generation <= lease.generation /\
                                     r.number <= Top(lease, r.generation)
    BY <1>1, <1>2, <1>3, <1>4 DEF Top
  <2>2. \A r, s \in rows \union {new} :
          r.generation = s.generation /\ r.number = s.number => r = s
    <3>1. \A r, s \in rows : r.generation = s.generation /\ r.number = s.number => r = s
      BY DEF Consistent, Numbered
    <3>2. \A r \in rows : ~(r.generation = new.generation /\ r.number = new.number)
      BY <1>1, <1>3, <1>4 DEF Top
    <3>. QED  BY <3>1, <3>2
  <2>3. ASSUME NEW g \in 1..lease.generation, NEW n \in 1..Top(lease, g)
        PROVE  \E r \in rows \union {new} : r.generation = g /\ r.number = n
    <3>1. CASE g = row.generation /\ n = row.count + 1
      BY <1>3, <3>1
    <3>2. CASE ~(g = row.generation /\ n = row.count + 1)
      <4>1. g \in 1..row.generation /\ n \in 1..Top(row, g)
        BY <1>1, <1>2, <3>2 DEF Top
      <4>. QED  BY <4>1 DEF Consistent, Numbered
    <3>. QED  BY <3>1, <3>2
  <2>. QED  BY <2>1, <2>2, <2>3 DEF Numbered
<1>7. Told(lease, rows \union {new})
  BY <1>1, <1>2, <1>3, <1>4 DEF Told, Open, Top
<1>8. Tidy(lease)
  BY <1>1, <1>2, WebhookAssumption DEF Tidy
<1>9. IsFiniteSet(rows \union {new})
  BY FS_AddElement DEF Consistent
<1>10. rows \union {new} \subseteq AttemptRow
  BY <1>1, <1>3
<1>. QED  BY <1>2, <1>5, <1>6, <1>7, <1>8, <1>9, <1>10 DEF Consistent, lease, new

\* What becomes of a row that gives up its lease.
LEMMA RowWrites ==
  ASSUME NEW row \in DeliveryRow, NEW reason \in Reason
  PROVE  /\ Requeued(row) \in DeliveryRow /\ Requeued(row).status = "pending"
         /\ Requeued(row).reason = row.reason /\ Requeued(row).owner = Nobody
         /\ Requeued(row).generation = row.generation /\ Requeued(row).count = row.count
         /\ Dead(row, reason) \in DeliveryRow /\ Dead(row, reason).status = "dead"
         /\ Dead(row, reason).reason = reason /\ Dead(row, reason).owner = Nobody
         /\ Dead(row, reason).generation = row.generation /\ Dead(row, reason).count = row.count
         /\ Recorded(row, "ack") \in DeliveryRow /\ Recorded(row, "ack").status = "succeeded"
         /\ Recorded(row, "ack").reason = row.reason /\ Recorded(row, "ack").owner = Nobody
         /\ Recorded(row, "ack").generation = row.generation
         /\ Recorded(row, "ack").count = row.count
         /\ Recorded(row, "policy_rejected") = Dead(row, "policy_rejected")
         /\ Recorded(row, "failure") = AfterFailure(row)
<1>1. /\ WithoutLease(row) \in DeliveryRow /\ WithoutLease(row).owner = Nobody
      /\ WithoutLease(row).reason = row.reason
      /\ WithoutLease(row).generation = row.generation /\ WithoutLease(row).count = row.count
  BY DEF WithoutLease, DeliveryRow
<1>. DEFINE free == WithoutLease(row)
<1>2. Requeued(row) = [free EXCEPT !.status = "pending"]
  BY DEF Requeued
<1>3. Dead(row, reason) = [free EXCEPT !.status = "dead", !.reason = reason]
  BY DEF Dead
<1>4. Recorded(row, "ack") = [free EXCEPT !.status = "succeeded"]
  BY DEF Recorded
<1>. HIDE DEF free
<1>5. free \in DeliveryRow /\ {"pending", "dead", "succeeded"} \subseteq Status
  BY <1>1 DEF free, Status
<1>6. /\ Requeued(row) \in DeliveryRow /\ Requeued(row).status = "pending"
      /\ Requeued(row).reason = free.reason /\ Requeued(row).owner = free.owner
      /\ Requeued(row).generation = free.generation /\ Requeued(row).count = free.count
  BY <1>2, <1>5 DEF DeliveryRow
<1>7. /\ Dead(row, reason) \in DeliveryRow /\ Dead(row, reason).status = "dead"
      /\ Dead(row, reason).reason = reason /\ Dead(row, reason).owner = free.owner
      /\ Dead(row, reason).generation = free.generation
      /\ Dead(row, reason).count = free.count
  BY <1>3, <1>5 DEF DeliveryRow
<1>8. /\ Recorded(row, "ack") \in DeliveryRow /\ Recorded(row, "ack").status = "succeeded"
      /\ Recorded(row, "ack").reason = free.reason /\ Recorded(row, "ack").owner = free.owner
      /\ Recorded(row, "ack").generation = free.generation
      /\ Recorded(row, "ack").count = free.count
  BY <1>4, <1>5 DEF DeliveryRow
<1>9. /\ Recorded(row, "policy_rejected") = Dead(row, "policy_rejected")
      /\ Recorded(row, "failure") = AfterFailure(row)
  BY DEF Recorded
<1>. QED  BY <1>1, <1>6, <1>7, <1>8, <1>9 DEF free

\* The row of the current attempt of a leased delivery is there, open, and the only
\* one that is.
LEMMA OpenRow ==
  ASSUME NEW row, NEW rows, Consistent(row, rows), row.status = "leased"
  PROVE  LET open == Row(row.generation, row.count, Open)
         IN  /\ open \in rows /\ open \in AttemptRow
             /\ \A r \in rows : r # open => /\ r.outcome = "failure"
                                            /\ ~(r.generation = row.generation /\ r.number = row.count)
<1>. DEFINE open == Row(row.generation, row.count, Open)
<1>1. /\ row.generation \in 1..MaxGenerations /\ row.count \in 1..MaxAttempts
      /\ rows \subseteq AttemptRow
  BY WebhookAssumption DEF Consistent, DeliveryRow, Tidy
<1>2. row.generation \in 1..row.generation /\ row.count \in 1..Top(row, row.generation)
  BY <1>1 DEF Top
<1>3. PICK r \in rows : r.generation = row.generation /\ r.number = row.count
  BY <1>2 DEF Consistent, Numbered
<1>4. r.outcome = Open
  BY <1>3 DEF Consistent, Told
<1>5. r = open
  BY <1>1, <1>3, <1>4 DEF AttemptRow, Row
<1>6. open.generation = row.generation /\ open.number = row.count
  BY DEF Row
<1>. HIDE DEF open
<1>7. \A s \in rows : s.generation = row.generation /\ s.number = row.count => s = open
  BY <1>5, <1>6 DEF Consistent, Numbered
<1>8. \A s \in rows : s # open => s.outcome \in {"failure", Open} /\ s.outcome # Open
  BY <1>7 DEF Consistent, Told
<1>9. open \in rows /\ open \in AttemptRow
  BY <1>1, <1>5
<1>. QED  BY <1>7, <1>8, <1>9 DEF open

\* A leased delivery is settled or requeued, and its open row takes the outcome.
LEMMA CompleteConsistent ==
  ASSUME NEW row, NEW rows, Consistent(row, rows), row.status = "leased",
         NEW result \in Outcome, NEW next \in DeliveryRow, Tidy(next),
         next.generation = row.generation, next.count = row.count,
         next.status \in {"pending", "succeeded", "dead"},
         result = "ack" <=> next.status = "succeeded",
         result = "policy_rejected" => next.status = "dead" /\ next.reason # "failed"
  PROVE  LET after == (rows \ {Row(row.generation, row.count, Open)})
                        \union {Row(row.generation, row.count, result)}
         IN  Consistent(next, after) /\ Cardinality(after) = Cardinality(rows)
<1>. DEFINE open  == Row(row.generation, row.count, Open)
            done  == Row(row.generation, row.count, result)
            after == (rows \ {open}) \union {done}
<1>1. /\ open \in rows /\ open \in AttemptRow
      /\ \A r \in rows : r # open => /\ r.outcome = "failure"
                                     /\ ~(r.generation = row.generation /\ r.number = row.count)
  BY OpenRow
<1>2. /\ open.generation = row.generation /\ open.number = row.count
      /\ done.generation = row.generation /\ done.number = row.count /\ done.outcome = result
  BY DEF Row
<1>3. done \in AttemptRow /\ rows \subseteq AttemptRow
  BY <1>1 DEF Row, AttemptRow, Consistent
<1>. HIDE DEF open, done
<1>4. done \notin rows \ {open}
  BY <1>1, <1>2
<1>5. IsFiniteSet(rows) /\ IsFiniteSet(after) /\ Cardinality(after) = Cardinality(rows)
  <2>1. IsFiniteSet(rows)
    BY DEF Consistent
  <2>2. IsFiniteSet(rows \ {open}) /\ Cardinality(rows \ {open}) = Cardinality(rows) - 1
    BY <1>1, <2>1, FS_RemoveElement
  <2>3. IsFiniteSet(after) /\ Cardinality(after) = Cardinality(rows \ {open}) + 1
    BY <1>4, <2>2, FS_AddElement
  <2>4. Cardinality(rows) \in Nat
    BY <2>1, FS_CardinalityType
  <2>. QED  BY <2>1, <2>2, <2>3, <2>4
<1>6. \A g : Top(next, g) = Top(row, g)
  BY DEF Top
<1>7. Numbered(next, after)
  <2>1. \A r \in after : r.generation <= next.generation /\ r.number <= Top(next, r.generation)
    <3>1. \A r \in rows : r.generation <= row.generation /\ r.number <= Top(row, r.generation)
      BY DEF Consistent, Numbered
    <3>2. done.generation <= row.generation /\ done.number <= Top(row, done.generation)
      BY <1>1, <1>2, <3>1
    <3>. QED  BY <1>6, <3>1, <3>2
  <2>2. \A r, s \in after : r.generation = s.generation /\ r.number = s.number => r = s
    <3>1. \A r, s \in rows : r.generation = s.generation /\ r.number = s.number => r = s
      BY DEF Consistent, Numbered
    <3>. QED  BY <1>1, <1>2, <3>1
  <2>3. ASSUME NEW g \in 1..next.generation, NEW n \in 1..Top(next, g)
        PROVE  \E r \in after : r.generation = g /\ r.number = n
    <3>1. PICK r \in rows : r.generation = g /\ r.number = n
      BY <1>6 DEF Consistent, Numbered
    <3>. QED  BY <1>2, <3>1
  <2>. QED  BY <2>1, <2>2, <2>3 DEF Numbered
<1>8. Told(next, after)
  <2>1. \A r \in after : r.outcome # Open
    BY <1>1, <1>2 DEF Outcome, Open
  <2>2. \A r \in after : r.generation < next.generation => r.outcome = "failure"
    <3>1. ~(done.generation < next.generation)
      BY <1>2 DEF DeliveryRow
    <3>. QED  BY <1>1, <3>1
  <2>3. next.status = "pending" \/ next.reason = "failed" => result = "failure"
    BY DEF Outcome, Tidy
  <2>. QED  BY <1>1, <1>2, <2>1, <2>2, <2>3 DEF Told
<1>9. after \subseteq AttemptRow
  BY <1>3
<1>10. Consistent(next, after)
  BY <1>5, <1>7, <1>8, <1>9 DEF Consistent
<1>. QED  BY <1>5, <1>10 DEF open, done


\* The rows once the open one has its outcome.
After(row, rows, outcome) ==
  (rows \ {Row(row.generation, row.count, Open)}) \union {Row(row.generation, row.count, outcome)}

\* finish_webhook and recovery, by the result they record; and retire, for a delivery
\* that is leased.
LEMMA SettleConsistent ==
  ASSUME NEW row, NEW rows, Consistent(row, rows), row.status = "leased", NEW result \in Outcome
  PROVE  /\ Consistent(Recorded(row, result), After(row, rows, result))
         /\ Cardinality(After(row, rows, result)) = Cardinality(rows)
         /\ Recorded(row, result).owner = Nobody /\ Recorded(row, result).status # "leased"
         /\ Recorded(row, result).status = "succeeded" <=> result = "ack"
         /\ Consistent(Dead(row, "retired"), After(row, rows, "policy_rejected"))
<1>1. /\ row \in DeliveryRow /\ row.reason = "none" /\ row.count \in 0..MaxAttempts
      /\ MaxAttempts \in Nat
  BY WebhookAssumption DEF Consistent, Tidy, DeliveryRow
<1>2. {"failed", "policy_rejected", "retired"} \subseteq Reason /\ "policy_rejected" \in Outcome
  BY DEF Reason, Outcome
<1>3. ASSUME NEW s \in DeliveryRow, s.owner = Nobody, (s.reason # "none") = (s.status = "dead"),
             s.status \in {"pending", "succeeded", "dead"}, s.count = row.count,
             s.reason = "failed" => row.count = MaxAttempts
      PROVE  Tidy(s)
  BY <1>1, <1>3 DEF Tidy
<1>4. Consistent(Dead(row, "retired"), After(row, rows, "policy_rejected"))
  <2>1. /\ Dead(row, "retired") \in DeliveryRow /\ Dead(row, "retired").status = "dead"
        /\ Dead(row, "retired").reason = "retired" /\ Dead(row, "retired").owner = Nobody
        /\ Dead(row, "retired").generation = row.generation
        /\ Dead(row, "retired").count = row.count
    BY <1>1, <1>2, RowWrites
  <2>2. Tidy(Dead(row, "retired"))
    BY <1>3, <2>1
  <2>. QED  BY <1>2, <2>1, <2>2, CompleteConsistent DEF After
<1>5. /\ Recorded(row, result) \in DeliveryRow /\ Recorded(row, result).owner = Nobody
      /\ Recorded(row, result).generation = row.generation
      /\ Recorded(row, result).count = row.count
      /\ Recorded(row, result).status \in {"pending", "succeeded", "dead"}
      /\ Recorded(row, result).status = "succeeded" <=> result = "ack"
      /\ result = "policy_rejected" =>
           Recorded(row, result).status = "dead" /\ Recorded(row, result).reason # "failed"
      /\ (Recorded(row, result).reason # "none") = (Recorded(row, result).status = "dead")
      /\ Recorded(row, result).reason = "failed" => row.count = MaxAttempts
  <2>1. CASE result = "ack"
    BY <1>1, <1>2, <2>1, RowWrites
  <2>2. CASE result = "policy_rejected"
    BY <1>1, <1>2, <2>2, RowWrites
  <2>3. CASE result = "failure"
    <3>1. CASE RetryLeft(row)
      <4>1. Recorded(row, result) = Requeued(row)
        <5>1. Recorded(row, "failure") = AfterFailure(row)
          BY <1>1, <1>2, RowWrites
        <5>. QED  BY <2>3, <3>1, <5>1 DEF AfterFailure
      <4>. QED  BY <1>1, <1>2, <2>3, <4>1, RowWrites
    <3>2. CASE ~RetryLeft(row)
      <4>1. Recorded(row, result) = Dead(row, "failed") /\ row.count = MaxAttempts
        <5>1. Recorded(row, "failure") = AfterFailure(row)
          BY <1>1, <1>2, RowWrites
        <5>2. Recorded(row, result) = Dead(row, "failed")
          BY <2>3, <3>2, <5>1 DEF AfterFailure
        <5>3. row.count = MaxAttempts
          BY <1>1, <3>2 DEF RetryLeft
        <5>. QED  BY <5>2, <5>3
      <4>. QED  BY <1>1, <1>2, <2>3, <4>1, RowWrites
    <3>. QED  BY <3>1, <3>2
  <2>. QED  BY <2>1, <2>2, <2>3 DEF Outcome
<1>6. Tidy(Recorded(row, result))
  BY <1>3, <1>5
<1>7. /\ Consistent(Recorded(row, result), After(row, rows, result))
      /\ Cardinality(After(row, rows, result)) = Cardinality(rows)
  BY <1>5, <1>6, CompleteConsistent DEF After
<1>. QED  BY <1>4, <1>5, <1>7

\* defer_webhook_key_failure takes the attempt back, row and number.
LEMMA DeferConsistent ==
  ASSUME NEW row, NEW rows, Consistent(row, rows), row.status = "leased"
  PROVE  LET open == Row(row.generation, row.count, Open)
         IN  /\ open \in rows
             /\ Consistent(GivenBack(row), rows \ {open})
<1>. DEFINE open == Row(row.generation, row.count, Open)
            next == GivenBack(row)
<1>1. /\ open \in rows
      /\ \A r \in rows : r # open => /\ r.outcome = "failure"
                                     /\ ~(r.generation = row.generation /\ r.number = row.count)
      /\ open.generation = row.generation /\ open.number = row.count
  BY OpenRow DEF Row
<1>2. /\ row \in DeliveryRow /\ row.reason = "none" /\ row.count \in 1..MaxAttempts
      /\ row.generation \in 1..MaxGenerations /\ MaxAttempts \in Nat /\ MaxGenerations \in Nat
  BY WebhookAssumption DEF Consistent, Tidy, DeliveryRow
<1>3. /\ next \in DeliveryRow /\ next.status = "pending" /\ next.reason = "none"
      /\ next.owner = Nobody /\ next.generation = row.generation /\ next.count = row.count - 1
  <2>1. "none" \in Reason
    BY DEF Reason
  <2>2. /\ Requeued(row) \in DeliveryRow /\ Requeued(row).status = "pending"
        /\ Requeued(row).reason = "none" /\ Requeued(row).owner = Nobody
        /\ Requeued(row).generation = row.generation /\ Requeued(row).count = row.count
    BY <1>2, <2>1, RowWrites
  <2>3. row.count - 1 \in 0..MaxAttempts
    BY <1>2
  <2>. QED  BY <2>2, <2>3 DEF DeliveryRow, GivenBack
<1>. HIDE DEF open, next
<1>4. \A r \in rows : /\ r.generation <= row.generation /\ r.number <= Top(row, r.generation)
                      /\ r.generation \in Nat /\ r.number \in Nat
  BY DEF Consistent, Numbered, AttemptRow
<1>5. Numbered(next, rows \ {open})
  <2>1. \A r \in rows \ {open} :
          r.generation <= next.generation /\ r.number <= Top(next, r.generation)
    BY <1>1, <1>2, <1>3, <1>4 DEF Top
  <2>2. \A r, s \in rows \ {open} : r.generation = s.generation /\ r.number = s.number => r = s
    BY DEF Consistent, Numbered
  <2>3. ASSUME NEW g \in 1..next.generation, NEW n \in 1..Top(next, g)
        PROVE  \E r \in rows \ {open} : r.generation = g /\ r.number = n
    <3>1. g \in 1..row.generation /\ n \in 1..Top(row, g)
          /\ ~(g = row.generation /\ n = row.count)
      BY <1>2, <1>3 DEF Top
    <3>2. PICK r \in rows : r.generation = g /\ r.number = n
      BY <3>1 DEF Consistent, Numbered
    <3>. QED  BY <1>1, <3>1, <3>2
  <2>. QED  BY <2>1, <2>2, <2>3 DEF Numbered
<1>6. Told(next, rows \ {open})
  BY <1>1, <1>3 DEF Told, Open
<1>7. Tidy(next)
  BY <1>2, <1>3 DEF Tidy
<1>8. IsFiniteSet(rows \ {open}) /\ rows \ {open} \subseteq AttemptRow
  BY FS_RemoveElement DEF Consistent
<1>9. Consistent(next, rows \ {open})
  BY <1>3, <1>5, <1>6, <1>7, <1>8 DEF Consistent
<1>. QED  BY <1>1, <1>9 DEF open, next

\* A replay starts the next generation over the full one that failed.
LEMMA ReplayConsistent ==
  ASSUME NEW row, NEW rows, Consistent(row, rows), row.reason = "failed",
         row.generation < MaxGenerations
  PROVE  Consistent([row EXCEPT !.status = "pending", !.reason = "none",
                                !.generation = @ + 1, !.count = 0], rows)
<1>. DEFINE next == [row EXCEPT !.status = "pending", !.reason = "none",
                                !.generation = @ + 1, !.count = 0]
<1>1. /\ row \in DeliveryRow /\ row.status = "dead" /\ row.count = MaxAttempts
      /\ row.generation \in 1..MaxGenerations /\ MaxAttempts \in Nat /\ MaxGenerations \in Nat
      /\ row.owner = Nobody
  BY WebhookAssumption DEF Consistent, Tidy, DeliveryRow
<1>2. /\ next \in DeliveryRow /\ next.status = "pending" /\ next.reason = "none"
      /\ next.owner = Nobody /\ next.generation = row.generation + 1 /\ next.count = 0
  <2>1. /\ row.generation + 1 \in 1..MaxGenerations /\ 0 \in 0..MaxAttempts
        /\ "pending" \in Status /\ "none" \in Reason
    BY <1>1 DEF Status, Reason
  <2>2. next \in DeliveryRow
    BY <1>1, <2>1 DEF DeliveryRow
  <2>. QED  BY <1>1, <2>2 DEF DeliveryRow
<1>. HIDE DEF next
<1>3. \A r \in rows : /\ r.generation <= row.generation /\ r.number <= Top(row, r.generation)
                      /\ r.generation \in Nat /\ r.number \in Nat
  BY DEF Consistent, Numbered, AttemptRow
<1>4. Numbered(next, rows)
  <2>1. \A r \in rows : r.generation <= next.generation /\ r.number <= Top(next, r.generation)
    BY <1>1, <1>2, <1>3 DEF Top
  <2>2. \A r, s \in rows : r.generation = s.generation /\ r.number = s.number => r = s
    BY DEF Consistent, Numbered
  <2>3. ASSUME NEW g \in 1..next.generation, NEW n \in 1..Top(next, g)
        PROVE  \E r \in rows : r.generation = g /\ r.number = n
    <3>1. g \in 1..row.generation /\ n \in 1..Top(row, g)
      BY <1>1, <1>2 DEF Top
    <3>. QED  BY <3>1 DEF Consistent, Numbered
  <2>. QED  BY <2>1, <2>2, <2>3 DEF Numbered
<1>5. Told(next, rows)
  <2>1. \A r \in rows : r.outcome = "failure"
    BY <1>1 DEF Consistent, Told, Open
  <2>. QED  BY <1>2, <2>1 DEF Told, Open
<1>6. Tidy(next)
  BY <1>2 DEF Tidy
<1>. QED  BY <1>2, <1>4, <1>5, <1>6 DEF Consistent, next

\* Retirement closes what is queued or could be replayed; a lease that runs out
\* changes its flag only.
LEMMA RetireConsistent ==
  ASSUME NEW row, NEW rows, Consistent(row, rows)
  PROVE  /\ row.status = "pending" \/ row.reason = "failed" => Consistent(Dead(row, "retired"), rows)
         /\ row.status = "leased" => Consistent([row EXCEPT !.live = FALSE], rows)
<1>1. row \in DeliveryRow /\ "retired" \in Reason
  BY DEF Consistent, Reason
<1>2. ASSUME NEW next \in DeliveryRow, Tidy(next), next.generation = row.generation,
             next.count = row.count, next.status = row.status \/ next.status = "dead",
             next.reason = row.reason \/ next.reason = "retired",
             next.status # row.status => row.status = "pending",
             next.status = "absent" => row.status = "absent"
      PROVE  Consistent(next, rows)
  <2>1. Numbered(next, rows)
    BY <1>2 DEF Consistent, Numbered, Top
  <2>2. Told(next, rows)
    BY <1>2 DEF Consistent, Told, Tidy
  <2>. QED  BY <1>2, <2>1, <2>2 DEF Consistent
<1>3. ASSUME row.status = "pending" \/ row.reason = "failed"
      PROVE  Consistent(Dead(row, "retired"), rows)
  <2>1. /\ Dead(row, "retired") \in DeliveryRow /\ Dead(row, "retired").status = "dead"
        /\ Dead(row, "retired").reason = "retired" /\ Dead(row, "retired").owner = Nobody
        /\ Dead(row, "retired").generation = row.generation
        /\ Dead(row, "retired").count = row.count
    BY <1>1, RowWrites
  <2>2. Tidy(Dead(row, "retired"))
    BY <2>1 DEF Tidy
  <2>3. row.status \in {"pending", "dead"}
    BY <1>3 DEF Consistent, Tidy
  <2>. QED  BY <1>2, <2>1, <2>2, <2>3
<1>4. ASSUME row.status = "leased"
      PROVE  Consistent([row EXCEPT !.live = FALSE], rows)
  <2>. DEFINE next == [row EXCEPT !.live = FALSE]
  <2>1. /\ next \in DeliveryRow /\ next.status = row.status /\ next.reason = row.reason
        /\ next.owner = row.owner /\ next.generation = row.generation /\ next.count = row.count
    BY <1>1 DEF DeliveryRow
  <2>. HIDE DEF next
  <2>2. Tidy(next)
    BY <1>4, <2>1 DEF Consistent, Tidy
  <2>3. Consistent(next, rows)
    BY <1>2, <1>4, <2>1, <2>2
  <2>. QED  BY <2>3 DEF next
<1>. QED  BY <1>3, <1>4


\* The tables counted: as many rows of a generation as it has used attempts, numbered
\* from 1.
LEMMA CountedRows ==
  ASSUME NEW row, NEW rows, Consistent(row, rows), NEW g \in 1..row.generation
  PROVE  LET mine == { r \in rows : r.generation = g }
         IN  /\ Cardinality(mine) = Top(row, g)
             /\ { r.number : r \in mine } = 1..Top(row, g)
<1>. DEFINE mine == { r \in rows : r.generation = g }
            top  == Top(row, g)
<1>1. top \in Nat
  BY WebhookAssumption DEF Consistent, DeliveryRow, Top
<1>2. \A r \in mine : r.number \in 1..top
  BY <1>1 DEF Consistent, AttemptRow, Numbered
<1>3. \A r, s \in mine : r.number = s.number => r = s
  BY DEF Consistent, Numbered
<1>4. \A n \in 1..top : \E r \in mine : r.number = n
  BY DEF Consistent, Numbered
<1>. HIDE DEF mine, top
<1>5. { r.number : r \in mine } = 1..top
  BY <1>2, <1>4
<1>6. Cardinality(mine) = top
  <2>. DEFINE f == [r \in mine |-> r.number]
  <2>1. f \in [mine -> 1..top]
    BY <1>2
  <2>2. \A r, s \in mine : f[r] = f[s] => r = s
    BY <1>3
  <2>3. \A n \in 1..top : \E r \in mine : f[r] = n
    BY <1>4
  <2>4. f \in Bijection(mine, 1..top)
    BY <2>1, <2>2, <2>3 DEF Bijection, Injection, Surjection, IsInjective
  <2>5. ExistsBijection(mine, 1..top)
    BY <2>4 DEF ExistsBijection
  <2>6. IsFiniteSet(mine)
    <3>1. mine \in SUBSET rows /\ IsFiniteSet(rows)
      BY DEF mine, Consistent
    <3>. QED  BY <3>1, FS_Subset
  <2>7. Cardinality(mine) = Cardinality(1..top)
    BY <2>5, <2>6, FS_Bijection
  <2>8. Cardinality(1..top) = top
    BY <1>1, FS_Interval
  <2>. QED  BY <2>7, <2>8
<1>. QED  BY <1>5, <1>6 DEF mine, top

-----------------------------------------------------------------------------
(***************************************************************************)
(* Queues.                                                                 *)
(***************************************************************************)

\* The claim's ORDER BY ... LIMIT 1 has a row to return.
LEMMA MinMember ==
  ASSUME NEW S \in SUBSET Nat, S # {}
  PROVE  Min(S) \in S
<1>. DEFINE less == { p \in Nat \X Nat : p[1] < p[2] }
<1>1. IsWellFoundedOn(less, Nat)
  BY NatLessThanWellFounded DEF OpToRel
<1>. HIDE DEF less
<1>2. PICK x \in S : \A y \in S : <<y, x>> \notin less
  BY <1>1, WFMin
<1>3. \A y \in S : ~(y < x)
  BY <1>2 DEF less
<1>4. \A y \in S : x <= y
  BY <1>3
<1>. QED  BY <1>4 DEF Min

\* No delivery stands twice in a queue.
Distinct(q) == \A i, j \in 1..Len(q) : q[i] = q[j] => i = j

\* A delivery that joins a queue it is not in.
LEMMA Joined ==
  ASSUME NEW q \in Seq(Deliveries), NEW d \in Deliveries, Distinct(q), d \notin ToSet(q)
  PROVE  /\ Append(q, d) \in Seq(Deliveries) /\ Distinct(Append(q, d))
         /\ \A i \in 1..Len(Append(q, d)) :
              Append(q, d)[i] = d \/ \E j \in 1..Len(q) : Append(q, d)[i] = q[j]
<1>1. /\ Append(q, d) \in Seq(Deliveries) /\ Len(Append(q, d)) = Len(q) + 1
      /\ \A i \in 1..Len(q) : Append(q, d)[i] = q[i]
      /\ Append(q, d)[Len(q) + 1] = d /\ Len(q) \in Nat
  BY AppendProperties, LenProperties
<1>2. \A i \in 1..Len(q) : q[i] # d
  BY LenProperties DEF ToSet
<1>. QED  BY <1>1, <1>2 DEF Distinct

\* The delivery at place i leaves its queue.
LEMMA Left ==
  ASSUME NEW q \in Seq(Deliveries), Distinct(q), NEW i \in 1..Len(q)
  PROVE  /\ RemoveAt(q, i) \in Seq(Deliveries) /\ Distinct(RemoveAt(q, i))
         /\ \A k \in 1..Len(RemoveAt(q, i)) :
              \E j \in 1..Len(q) : RemoveAt(q, i)[k] = q[j] /\ q[j] # q[i]
<1>. DEFINE s == SubSeq(q, 1, i - 1)
            t == SubSeq(q, i + 1, Len(q))
<1>1. Len(q) \in Nat /\ \A j \in 1..Len(q) : q[j] \in Deliveries
  BY LenProperties, ElementOfSeq
<1>2. /\ s \in Seq(Deliveries) /\ Len(s) = i - 1
      /\ \A j \in 1..(i - 1) : s[j] = q[j]
  <2>1. \A j \in 1..(i - 1) : q[j] \in Deliveries
    BY <1>1
  <2>2. /\ s \in Seq(Deliveries) /\ Len(s) = IF 1 <= i - 1 THEN i - 1 - 1 + 1 ELSE 0
        /\ \A j \in 1..(i - 1 - 1 + 1) : s[j] = q[1 + j - 1]
    BY <1>1, <2>1, SubSeqProperties
  <2>. QED  BY <1>1, <2>2
<1>3. /\ t \in Seq(Deliveries) /\ Len(t) = Len(q) - i
      /\ \A j \in 1..(Len(q) - i) : t[j] = q[i + j]
  <2>1. \A j \in (i + 1)..Len(q) : q[j] \in Deliveries
    BY <1>1
  <2>2. /\ t \in Seq(Deliveries)
        /\ Len(t) = IF i + 1 <= Len(q) THEN Len(q) - (i + 1) + 1 ELSE 0
        /\ \A j \in 1..(Len(q) - (i + 1) + 1) : t[j] = q[(i + 1) + j - 1]
    BY <1>1, <2>1, SubSeqProperties
  <2>. QED  BY <1>1, <2>2
<1>. HIDE DEF s, t
<1>4. /\ s \o t \in Seq(Deliveries) /\ Len(s \o t) = Len(q) - 1
      /\ \A k \in 1..(Len(q) - 1) : (s \o t)[k] = IF k < i THEN q[k] ELSE q[k + 1]
  <2>1. /\ s \o t \in Seq(Deliveries) /\ Len(s \o t) = Len(s) + Len(t)
        /\ \A k \in 1..(Len(s) + Len(t)) :
             (s \o t)[k] = IF k <= Len(s) THEN s[k] ELSE t[k - Len(s)]
    BY <1>2, <1>3, ConcatProperties
  <2>2. ASSUME NEW k \in 1..(Len(q) - 1)
        PROVE  (s \o t)[k] = IF k < i THEN q[k] ELSE q[k + 1]
    <3>1. CASE k < i
      BY <1>1, <1>2, <1>3, <2>1, <3>1
    <3>2. CASE ~(k < i)
      <4>1. k - (i - 1) \in 1..(Len(q) - i) /\ i + (k - (i - 1)) = k + 1
        BY <1>1, <3>2
      <4>2. (s \o t)[k] = t[k - (i - 1)]
        BY <1>1, <1>2, <1>3, <2>1, <3>2
      <4>. QED  BY <1>3, <3>2, <4>1, <4>2
    <3>. QED  BY <3>1, <3>2
  <2>. QED  BY <1>1, <1>2, <1>3, <2>1, <2>2
<1>5. RemoveAt(q, i) = s \o t
  BY DEF RemoveAt, s, t
<1>6. Distinct(s \o t)
  BY <1>1, <1>4 DEF Distinct
<1>7. \A k \in 1..Len(s \o t) : \E j \in 1..Len(q) : (s \o t)[k] = q[j] /\ q[j] # q[i]
  <2>. SUFFICES ASSUME NEW k \in 1..(Len(q) - 1)
                PROVE  \E j \in 1..Len(q) : (s \o t)[k] = q[j] /\ q[j] # q[i]
    BY <1>4
  <2>1. CASE k < i
    <3>1. k \in 1..Len(q) /\ k # i
      BY <1>1, <2>1
    <3>2. (s \o t)[k] = q[k]
      BY <1>4, <2>1
    <3>. QED  BY <3>1, <3>2 DEF Distinct
  <2>2. CASE ~(k < i)
    <3>1. k + 1 \in 1..Len(q) /\ k + 1 # i
      BY <1>1, <2>2
    <3>2. (s \o t)[k] = q[k + 1]
      BY <1>4, <2>2
    <3>. QED  BY <3>1, <3>2 DEF Distinct
  <2>. QED  BY <2>1, <2>2
<1>. QED  BY <1>4, <1>5, <1>6, <1>7


-----------------------------------------------------------------------------
(***************************************************************************)
(* What one transaction may do to a delivery and its attempt rows.         *)
(***************************************************************************)

Claimed(row, w) ==
  [row EXCEPT !.status = "leased", !.count = @ + 1, !.owner = w, !.live = TRUE]

\* Nothing; queue; claim; finish or recover; defer; expire; retire; replay; prune.
\* Only a new event queues, and only the lanes that claim take a lease.
Moves(row, rows, next, after, new, lanes) ==
  \/ next = row /\ after = rows
  \/ new /\ row = Absent /\ next = [Absent EXCEPT !.status = "pending"] /\ after = rows
  \/ \E w \in lanes :
       /\ row.status = "pending" /\ row.count < MaxAttempts /\ next = Claimed(row, w)
       /\ after = rows \union {Row(row.generation, row.count + 1, Open)}
  \/ \E r \in Outcome :
       row.status = "leased" /\ next = Recorded(row, r) /\ after = After(row, rows, r)
  \/ /\ row.status = "leased" /\ next = GivenBack(row)
     /\ after = rows \ {Row(row.generation, row.count, Open)}
  \/ row.status = "leased" /\ next = [row EXCEPT !.live = FALSE] /\ after = rows
  \/ /\ row.status = "leased" /\ next = Dead(row, "retired")
     /\ after = After(row, rows, "policy_rejected")
  \/ (row.status = "pending" \/ row.reason = "failed") /\ next = Dead(row, "retired") /\ after = rows
  \/ /\ row.reason = "failed" /\ row.generation < MaxGenerations /\ after = rows
     /\ next = [row EXCEPT !.status = "pending", !.reason = "none", !.generation = @ + 1, !.count = 0]
  \/ row.status \in {"succeeded", "dead"} /\ next = Absent /\ after = {}

\* A delivery that may still be sent.
Live(row) == row.status \in {"pending", "leased"} \/ row.reason = "failed"

\* Whatever a transaction does keeps the tables consistent, lets what has ended rest,
\* grants a lease only to what is queued, and leaves a lease that stays as it was.
LEMMA MoveFacts ==
  ASSUME NEW row, NEW rows, NEW next, NEW after, NEW new \in BOOLEAN, NEW lanes \in SUBSET Workers,
         Consistent(row, rows), Moves(row, rows, next, after, new, lanes)
  PROVE  /\ Consistent(next, after)
         /\ row.status = "succeeded" \/ row.reason = "retired" => next \in {row, Absent}
         /\ next.status = "leased" /\ row.status # "pending" =>
              /\ row.status = "leased" /\ next.owner = row.owner
              /\ next.generation = row.generation /\ next.count = row.count /\ after = rows
         /\ row.status = "pending" /\ lanes = {} => next.status \in {"pending", "dead"}
         /\ Live(next) /\ row # Absent => Live(row)
         /\ row = Absent => after = rows /\ (~new => next = Absent)
<1>1. /\ row \in DeliveryRow /\ Tidy(row) /\ {"none", "failed", "retired"} \subseteq Reason
      /\ "policy_rejected" \in Outcome /\ row.status \in Status
      /\ row.status = "absent" => row = Absent
  BY DEF Consistent, Reason, Tidy, Outcome, DeliveryRow
<1>a. /\ row.status = "dead" <=> row.reason # "none"
      /\ row = Absent => row.status = "absent"
  <2>1. (row.reason # "none") = (row.status = "dead")
    BY <1>1 DEF Tidy
  <2>2. Absent.status = "absent"
    BY DEF Absent
  <2>. QED  BY <2>1, <2>2
<1>2. CASE next = row /\ after = rows
  BY <1>a, <1>2
<1>3. CASE new /\ row = Absent /\ next = [Absent EXCEPT !.status = "pending"] /\ after = rows
  <2>1. next.status = "pending" /\ next.reason = "none" /\ rows = {}
    BY <1>3, <1>a DEF Absent, Consistent
  <2>. QED  BY <1>3, <1>a, <2>1, FreshConsistent
<1>4. CASE \E w \in lanes :
       /\ row.status = "pending" /\ row.count < MaxAttempts /\ next = Claimed(row, w)
       /\ after = rows \union {Row(row.generation, row.count + 1, Open)}
  <2>1. PICK w \in lanes :
          /\ row.status = "pending" /\ row.count < MaxAttempts /\ next = Claimed(row, w)
          /\ after = rows \union {Row(row.generation, row.count + 1, Open)}
    BY <1>4
  <2>2. next.status = "leased"
    BY <1>1, <2>1 DEF Claimed, DeliveryRow
  <2>3. Consistent(next, after)
    <3>1. Consistent(Claimed(row, w), rows \union {Row(row.generation, row.count + 1, Open)})
      BY <2>1, ClaimConsistent, Zenon DEF Claimed
    <3>. QED  BY <2>1, <3>1
  <2>. QED  BY <2>1, <1>a, <2>2, <2>3 DEF Live
<1>5. CASE \E r \in Outcome :
       row.status = "leased" /\ next = Recorded(row, r) /\ after = After(row, rows, r)
  <2>1. PICK r \in Outcome : next = Recorded(row, r) /\ after = After(row, rows, r)
    BY <1>5
  <2>2. Consistent(next, after) /\ next.status # "leased"
    BY <1>5, <2>1, SettleConsistent
  <2>. QED  BY <1>5, <1>a, <2>2 DEF Live
<1>6. CASE /\ row.status = "leased" /\ next = GivenBack(row)
           /\ after = rows \ {Row(row.generation, row.count, Open)}
  <2>1. Consistent(next, after)
    BY <1>6, DeferConsistent
  <2>2. next.status = "pending"
    <3>1. Requeued(row) \in DeliveryRow /\ Requeued(row).status = "pending"
      BY <1>1, RowWrites
    <3>. QED  BY <1>6, <3>1 DEF DeliveryRow, GivenBack
  <2>. QED  BY <1>6, <1>a, <2>1, <2>2 DEF Live
<1>7. CASE row.status = "leased" /\ next = [row EXCEPT !.live = FALSE] /\ after = rows
  <2>1. /\ next.status = "leased" /\ next.owner = row.owner
        /\ next.generation = row.generation /\ next.count = row.count
    BY <1>1, <1>7 DEF DeliveryRow
  <2>. QED  BY <1>7, <1>a, <2>1, RetireConsistent DEF Live
<1>8. CASE /\ row.status = "leased" /\ next = Dead(row, "retired")
           /\ after = After(row, rows, "policy_rejected")
  <2>1. Consistent(next, after)
    BY <1>1, <1>8, SettleConsistent
  <2>2. next.status = "dead"
    BY <1>1, <1>8, RowWrites
  <2>. QED  BY <1>8, <1>a, <2>1, <2>2 DEF Live
<1>9. CASE (row.status = "pending" \/ row.reason = "failed")
           /\ next = Dead(row, "retired") /\ after = rows
  <2>1. Consistent(next, after)
    BY <1>9, RetireConsistent
  <2>2. next.status = "dead"
    BY <1>1, <1>9, RowWrites
  <2>. QED  BY <1>9, <1>a, <2>1, <2>2 DEF Live
<1>10. CASE /\ row.reason = "failed" /\ row.generation < MaxGenerations /\ after = rows
            /\ next = [row EXCEPT !.status = "pending", !.reason = "none",
                                  !.generation = @ + 1, !.count = 0]
  <2>1. Consistent(next, after)
    BY <1>10, ReplayConsistent
  <2>2. next.status = "pending"
    BY <1>1, <1>10 DEF DeliveryRow
  <2>. QED  BY <1>10, <1>a, <2>1, <2>2 DEF Live
<1>11. CASE row.status \in {"succeeded", "dead"} /\ next = Absent /\ after = {}
  <2>1. next.status = "absent" /\ next.reason = "none"
    BY <1>11 DEF Absent
  <2>. QED  BY <1>11, <1>a, <2>1, FreshConsistent DEF Live
<1>. QED  BY <1>2, <1>3, <1>4, <1>5, <1>6, <1>7, <1>8, <1>9, <1>10, <1>11 DEF Moves


-----------------------------------------------------------------------------
(***************************************************************************)
(* The invariant.                                                          *)
(***************************************************************************)
EndpointRow == [enabled: BOOLEAN, paused: BOOLEAN, failing: {"no", "recent", "long"}, secret: Nat]
PostRow     == [count: Nat, acked: BOOLEAN, secret: Nat]

ClaimedLane   == [pc: {"claimed"}, delivery: Deliveries, generation: Nat, number: Nat]
AwayLane      == [pc: {"away"}, delivery: Deliveries, generation: Nat, number: Nat,
                  plan: {"policy_rejected", "send", "key"}, secret: Nat]
RecordingLane == [pc: {"recording"}, delivery: Deliveries, generation: Nat, number: Nat,
                  result: Outcome \union {"key"}]
LaneRow       == {Idle} \union ClaimedLane \union AwayLane \union RecordingLane

\* The lanes, the endpoints and the ghost of the receiver keep their shape.
SideInv ==
  /\ worker \in [Workers -> LaneRow] /\ endpoint \in [Endpoints -> EndpointRow]
  /\ post \in [Deliveries -> PostRow]

RowShape == /\ delivery \in [Deliveries -> DeliveryRow] /\ attempts \in [Deliveries -> SUBSET AttemptRow]
            /\ due \in [Endpoints -> Seq(Deliveries)]

TablesAgree == \A d \in Deliveries : Consistent(delivery[d], attempts[d])

\* An event that is not stored has queued nothing.
FreshUnqueued == \A d \in Deliveries : d[1] \notin ingested => delivery[d] = Absent

\* Queues hold pending deliveries of their endpoint, once.
QueuesPending ==
  \A e \in Endpoints :
    /\ Distinct(due[e])
    /\ \A i \in 1..Len(due[e]) : EndpointOf(due[e][i]) = e /\ delivery[due[e][i]].status = "pending"

\* The serialisation of an endpoint: at most one of its deliveries is leased.
OneLease ==
  \A c, d \in Deliveries :
    delivery[c].status = "leased" /\ delivery[d].status = "leased" /\ EndpointOf(c) = EndpointOf(d)
      => c = d

RowsInv == RowShape /\ TablesAgree /\ FreshUnqueued /\ QueuesPending /\ OneLease

\* The delivery a claim takes: queued at the endpoint, with an attempt left.
LEMMA ClaimChoice ==
  ASSUME RowsInv, NEW e \in Endpoints, Claimable(e)
  PROVE  LET i == Min(Ready(e))
             d == due[e][i]
         IN  /\ i \in 1..Len(due[e]) /\ d \in Deliveries /\ EndpointOf(d) = e
             /\ delivery[d].status = "pending" /\ delivery[d].count < MaxAttempts
<1>1. due[e] \in Seq(Deliveries)
  BY DEF RowsInv, RowShape
<1>2. Len(due[e]) \in Nat /\ \A i \in 1..Len(due[e]) : due[e][i] \in Deliveries
  BY <1>1, LenProperties, ElementOfSeq
<1>3. Ready(e) \in SUBSET Nat /\ Ready(e) # {}
  BY <1>2 DEF Ready, Claimable
<1>4. Min(Ready(e)) \in Ready(e)
  BY <1>3, MinMember
<1>. QED  BY <1>2, <1>4 DEF Ready, RowsInv, QueuesPending

\* What the lanes, the endpoints and the ghost hold stays well-formed.
LEMMA SideStep ==
  ASSUME RowsInv, SideInv, [WebhookNext]_vars
  PROVE  SideInv'
<1>. USE DEF SideInv
<1>0. \A d \in Deliveries : EndpointOf(d) \in Endpoints /\ post[d] \in PostRow
  BY DEF Deliveries, EndpointOf
<1>a. \A w \in Workers, l \in LaneRow : [worker EXCEPT ![w] = l] \in [Workers -> LaneRow]
  OBVIOUS
<1>b. Idle \in LaneRow
  BY DEF LaneRow
<1>c. \A d \in Deliveries, p \in PostRow : [post EXCEPT ![d] = p] \in [Deliveries -> PostRow]
  OBVIOUS
<1>d. \A e \in Endpoints, r \in EndpointRow : [endpoint EXCEPT ![e] = r] \in [Endpoints -> EndpointRow]
  OBVIOUS
<1>1. ASSUME NEW v \in Events, NEW a \in Accounts, Ingest(v, a)  PROVE SideInv'
  <2>1. UNCHANGED <<worker, endpoint>>
    BY <1>1 DEF Ingest
  <2>2. \A d \in Deliveries : post'[d] \in PostRow
    <3>. SUFFICES ASSUME NEW d \in Deliveries  PROVE post'[d] \in PostRow
      OBVIOUS
    <3>1. endpoint[d[2]].secret \in Nat /\ post[d] \in PostRow
      BY <1>0 DEF EndpointRow, EndpointOf
    <3>2. [post[d] EXCEPT !.secret = endpoint[d[2]].secret] \in PostRow
      BY <3>1 DEF PostRow
    <3>. QED  BY <1>1, <3>1, <3>2 DEF Ingest
  <2>3. post' \in [Deliveries -> PostRow]
    BY <1>1, <2>2 DEF Ingest
  <2>. QED  BY <2>1, <2>3
<1>2. ASSUME NEW w \in Workers, Claim(w)  PROVE SideInv'
  <2>1. UNCHANGED <<post, endpoint>>
    BY <1>2 DEF Claim
  <2>2. PICK e \in Endpoints :
          LET i == Min(Ready(e))
              d == due[e][i]
          IN  /\ Claimable(e)
              /\ worker' = [worker EXCEPT ![w] =
                           [pc |-> "claimed", delivery |-> d,
                            generation |-> delivery[d].generation, number |-> delivery[d].count + 1]]
    BY <1>2 DEF Claim
  <2>. DEFINE d == due[e][Min(Ready(e))]
              l == [pc |-> "claimed", delivery |-> d, generation |-> delivery[d].generation,
                    number |-> delivery[d].count + 1]
  <2>3. d \in Deliveries
    BY <2>2, ClaimChoice
  <2>4. delivery[d].generation \in Nat /\ delivery[d].count + 1 \in Nat
    BY <2>3, WebhookAssumption DEF RowsInv, RowShape, DeliveryRow
  <2>5. l \in LaneRow
    BY <2>3, <2>4 DEF LaneRow, ClaimedLane
  <2>6. worker' = [worker EXCEPT ![w] = l]
    BY <2>2
  <2>. QED  BY <1>a, <2>1, <2>5, <2>6
<1>3. ASSUME NEW w \in Workers, Dispatch(w)  PROVE SideInv'
  <2>. DEFINE d == worker[w].delivery
  <2>1. worker[w] \in ClaimedLane /\ UNCHANGED endpoint
    BY <1>3 DEF Dispatch, LaneRow, Idle, AwayLane, RecordingLane
  <2>2. d \in Deliveries /\ worker[w].generation \in Nat /\ worker[w].number \in Nat
    BY <2>1 DEF ClaimedLane
  <2>3. CASE worker' = [worker EXCEPT ![w] = Idle] /\ UNCHANGED post
    BY <1>a, <1>b, <2>1, <2>3
  <2>4. ASSUME NEW plan \in Plan(EndpointOf(d)),
               worker' = [worker EXCEPT ![w] =
                                 [pc |-> "away", delivery |-> d, generation |-> @.generation,
                                  number |-> @.number, plan |-> plan,
                                  secret |-> endpoint[EndpointOf(d)].secret]],
               post' = [post EXCEPT ![d].count = IF plan = "send" THEN @ + 1 ELSE @]
        PROVE  SideInv'
    <3>. DEFINE l == [pc |-> "away", delivery |-> d, generation |-> worker[w].generation,
                      number |-> worker[w].number, plan |-> plan,
                      secret |-> endpoint[EndpointOf(d)].secret]
                p == [post[d] EXCEPT !.count = IF plan = "send" THEN @ + 1 ELSE @]
    <3>1. endpoint[EndpointOf(d)].secret \in Nat /\ plan \in {"policy_rejected", "send", "key"}
      BY <1>0, <2>2 DEF EndpointRow, Plan
    <3>2. l \in LaneRow
      BY <2>2, <3>1 DEF LaneRow, AwayLane
    <3>3. p \in PostRow
      BY <1>0, <2>2 DEF PostRow
    <3>4. worker' = [worker EXCEPT ![w] = l] /\ post' = [post EXCEPT ![d] = p]
      BY <2>4
    <3>. QED  BY <1>a, <1>c, <2>1, <2>2, <3>2, <3>3, <3>4
  <2>. QED  BY <1>3, <2>3, <2>4 DEF Dispatch
<1>4. ASSUME NEW w \in Workers, Return(w)  PROVE SideInv'
  <2>. DEFINE d == worker[w].delivery
              l(r) == [pc |-> "recording", delivery |-> d, generation |-> worker[w].generation,
                       number |-> worker[w].number, result |-> r]
  <2>1. worker[w] \in AwayLane /\ UNCHANGED endpoint
    BY <1>4 DEF Return, LaneRow, Idle, ClaimedLane, RecordingLane
  <2>2. d \in Deliveries /\ worker[w].generation \in Nat /\ worker[w].number \in Nat
    BY <2>1 DEF AwayLane
  <2>3. \A r \in Outcome \union {"key"} : l(r) \in LaneRow
    BY <2>2 DEF LaneRow, RecordingLane
  <2>4. worker' \in [Workers -> LaneRow]
    <3>1. CASE worker[w].plan # "send"
      <4>1. worker[w].plan \in Outcome \union {"key"}
        BY <2>1, <3>1 DEF AwayLane, Outcome
      <4>2. worker' = [worker EXCEPT ![w] = IF Held(w) /\ delivery[d].live
                                            THEN l(worker[w].plan) ELSE Idle]
        BY <1>4, <3>1 DEF Return
      <4>. QED  BY <1>a, <1>b, <2>3, <4>1, <4>2
    <3>2. CASE worker[w].plan = "send"
      <4>1. PICK answer \in {"2xx", "other", "none"}, lost \in BOOLEAN :
              worker' = [worker EXCEPT ![w] = IF Held(w) /\ delivery[d].live
                           THEN l(OutcomeOf(IF lost THEN "none" ELSE answer)) ELSE Idle]
        BY <1>4, <3>2 DEF Return
      <4>2. OutcomeOf(IF lost THEN "none" ELSE answer) \in Outcome \union {"key"}
        BY DEF OutcomeOf, Outcome
      <4>. QED  BY <1>a, <1>b, <2>3, <4>1, <4>2
    <3>. QED  BY <3>1, <3>2
  <2>5. post' \in [Deliveries -> PostRow]
    <3>1. CASE UNCHANGED post
      BY <3>1
    <3>2. ASSUME NEW answer \in {"2xx", "other", "none"},
                 post' = [post EXCEPT ![d].acked = @ \/ answer = "2xx"]
          PROVE  post' \in [Deliveries -> PostRow]
      <4>1. [post[d] EXCEPT !.acked = @ \/ answer = "2xx"] \in PostRow
        BY <1>0, <2>2 DEF PostRow
      <4>. QED  BY <1>c, <2>2, <3>2, <4>1
    <3>. QED  BY <1>4, <3>1, <3>2 DEF Return
  <2>. QED  BY <2>1, <2>4, <2>5
<1>5. ASSUME NEW w \in Workers, Finish(w)  PROVE SideInv'
  <2>1. worker' = [worker EXCEPT ![w] = Idle] /\ UNCHANGED post
    BY <1>5 DEF Finish
  <2>2. endpoint' \in [Endpoints -> EndpointRow]
    <3>. DEFINE e == EndpointOf(worker[w].delivery)
                r == worker[w].result
    <3>1. worker[w] \in RecordingLane
      BY <1>5 DEF Finish, LaneRow, Idle, ClaimedLane, AwayLane
    <3>2. e \in Endpoints /\ endpoint[e] \in EndpointRow
      BY <1>0, <3>1 DEF RecordingLane
    <3>3. StreakAfter(endpoint[e], r) \in EndpointRow
      BY <3>2 DEF StreakAfter, EndpointRow
    <3>4. endpoint' = [endpoint EXCEPT ![e] = StreakAfter(@, r)] \/ UNCHANGED endpoint
      BY <1>5 DEF Finish
    <3>. QED  BY <1>d, <3>2, <3>3, <3>4
  <2>. QED  BY <1>a, <1>b, <2>1, <2>2
<1>6. ASSUME NEW w \in Workers, Defer(w) \/ Abandon(w)  PROVE SideInv'
  <2>1. worker' = [worker EXCEPT ![w] = Idle] /\ UNCHANGED <<post, endpoint>>
    BY <1>6 DEF Defer, Abandon
  <2>. QED  BY <1>a, <1>b, <2>1
<1>7. ASSUME NEW d \in Deliveries, Recover(d) \/ Prune(d) \/ Replay(d) \/ BecomesDue(d) \/ LeaseExpires(d)
      PROVE  SideInv'
  BY <1>7 DEF Recover, Prune, Replay, BecomesDue, LeaseExpires
<1>8. ASSUME NEW e \in Endpoints, Enable(e) \/ Disable(e) \/ Rotate(e) \/ FailureAges(e)
      PROVE  SideInv'
  <2>1. UNCHANGED <<worker, post>>
    BY <1>8 DEF Enable, Disable, Rotate, Retire, FailureAges
  <2>2. endpoint' \in [Endpoints -> EndpointRow]
    <3>1. endpoint[e] \in EndpointRow
      OBVIOUS
    <3>2. /\ [endpoint[e] EXCEPT !.enabled = TRUE, !.paused = FALSE, !.failing = "no"] \in EndpointRow
          /\ [endpoint[e] EXCEPT !.failing = "long"] \in EndpointRow
          /\ \A s \in Nat : [endpoint[e] EXCEPT !.enabled = FALSE, !.secret = s] \in EndpointRow
          /\ endpoint[e].secret \in Nat /\ endpoint[e].secret + 1 \in Nat
      <4>1. [endpoint[e] EXCEPT !.enabled = TRUE, !.paused = FALSE, !.failing = "no"] \in EndpointRow
        BY <3>1 DEF EndpointRow
      <4>2. [endpoint[e] EXCEPT !.failing = "long"] \in EndpointRow
        BY <3>1 DEF EndpointRow
      <4>3. \A s \in Nat : [endpoint[e] EXCEPT !.enabled = FALSE, !.secret = s] \in EndpointRow
        BY <3>1 DEF EndpointRow
      <4>4. endpoint[e].secret \in Nat /\ endpoint[e].secret + 1 \in Nat
        BY <3>1 DEF EndpointRow
      <4>. QED  BY <4>1, <4>2, <4>3, <4>4
    <3>3. CASE Enable(e)
      BY <1>d, <3>2, <3>3 DEF Enable
    <3>4. CASE Disable(e) \/ Rotate(e)
      <4>1. PICK s \in Nat : endpoint' = [endpoint EXCEPT ![e].enabled = FALSE, ![e].secret = s]
        BY <3>2, <3>4 DEF Disable, Rotate, Retire
      <4>2. endpoint' = [endpoint EXCEPT ![e] = [endpoint[e] EXCEPT !.enabled = FALSE, !.secret = s]]
        BY <4>1
      <4>. QED  BY <1>d, <3>2, <4>2
    <3>5. CASE FailureAges(e)
      BY <1>d, <3>2, <3>5 DEF FailureAges
    <3>. QED  BY <1>8, <3>3, <3>4, <3>5
  <2>. QED  BY <2>1, <2>2
<1>9. CASE UNCHANGED vars
  BY <1>9 DEF vars
<1>. QED  BY <1>1, <1>2, <1>3, <1>4, <1>5, <1>6, <1>7, <1>8, <1>9
          DEF WebhookNext, Lane, Owner, Time


\* A delivery and its rows, before and after.
MovedBy(d, lanes) ==
  Moves(delivery[d], attempts[d], delivery'[d], attempts'[d], d[1] \in ingested' \ ingested, lanes)

\* Every step but a claim.
NoClaim ==
  \/ \E v \in Events, a \in Accounts : Ingest(v, a)
  \/ \E w \in Workers : Dispatch(w) \/ Return(w) \/ Finish(w) \/ Defer(w) \/ Abandon(w)
  \/ \E d \in Deliveries : Recover(d) \/ Prune(d) \/ Replay(d) \/ BecomesDue(d) \/ LeaseExpires(d)
  \/ \E e \in Endpoints : Enable(e) \/ Disable(e) \/ Rotate(e) \/ FailureAges(e)
  \/ UNCHANGED vars

LEMMA StepKinds ==
  ASSUME [WebhookNext]_vars
  PROVE  NoClaim \/ \E w \in Workers : Claim(w)
BY DEF WebhookNext, Lane, Owner, Time, NoClaim

\* Every transaction but a claim makes one of the moves that take no lease.
LEMMA OtherMoves ==
  ASSUME RowsInv, SideInv, NoClaim
  PROVE  /\ delivery' = [d \in Deliveries |-> delivery'[d]]
         /\ attempts' = [d \in Deliveries |-> attempts'[d]]
         /\ ingested \subseteq ingested'
         /\ \A d \in Deliveries : MovedBy(d, {})
<1>. DEFINE Goal == /\ delivery' = [d \in Deliveries |-> delivery'[d]]
                    /\ attempts' = [d \in Deliveries |-> attempts'[d]]
                    /\ ingested \subseteq ingested'
                    /\ \A d \in Deliveries : MovedBy(d, {})
<1>0. /\ delivery \in [Deliveries -> DeliveryRow] /\ attempts \in [Deliveries -> SUBSET AttemptRow]
      /\ \A d \in Deliveries : Consistent(delivery[d], attempts[d])
  BY DEF RowsInv, RowShape, TablesAgree
<1>1. ASSUME NEW v \in Events, NEW a \in Accounts, Ingest(v, a)  PROVE Goal
  <2>1. /\ delivery' = [d \in Deliveries |-> delivery'[d]] /\ attempts' = attempts
        /\ ingested' = ingested \union {v}
    BY <1>1 DEF Ingest
  <2>2. ASSUME NEW d \in Deliveries  PROVE MovedBy(d, {})
    <3>1. CASE delivery'[d] = delivery[d]
      BY <2>1, <3>1 DEF MovedBy, Moves
    <3>2. CASE d[1] = v /\ delivery'[d] = [Absent EXCEPT !.status = "pending"]
      <4>1. d[1] \notin ingested /\ d[1] \in ingested' \ ingested
        BY <1>1, <2>1, <3>2 DEF Ingest
      <4>2. delivery[d] = Absent
        BY <4>1 DEF RowsInv, FreshUnqueued
      <4>. QED  BY <2>1, <3>2, <4>1, <4>2 DEF MovedBy, Moves
    <3>. QED  BY <1>1, <3>1, <3>2 DEF Ingest
  <2>. QED  BY <1>0, <2>1, <2>2
<1>2. ASSUME UNCHANGED <<delivery, attempts, ingested>>  PROVE Goal
  BY <1>0, <1>2 DEF MovedBy, Moves
<1>3. ASSUME NEW d \in Deliveries, UNCHANGED ingested,
             delivery' = [delivery EXCEPT ![d] = delivery'[d]],
             attempts' = [attempts EXCEPT ![d] = attempts'[d]],
             Moves(delivery[d], attempts[d], delivery'[d], attempts'[d], d[1] \in ingested' \ ingested, {})
      PROVE  Goal
  <2>1. \A c \in Deliveries \ {d} : delivery'[c] = delivery[c] /\ attempts'[c] = attempts[c]
    BY <1>0, <1>3
  <2>2. \A c \in Deliveries : MovedBy(c, {})
    <3>. SUFFICES ASSUME NEW c \in Deliveries  PROVE MovedBy(c, {})
      OBVIOUS
    <3>1. CASE c = d
      BY <1>3, <3>1 DEF MovedBy
    <3>2. CASE c # d
      BY <2>1, <3>2 DEF MovedBy, Moves
    <3>. QED  BY <3>1, <3>2
  <2>3. DOMAIN delivery' = Deliveries /\ DOMAIN attempts' = Deliveries
    BY <1>0, <1>3
  <2>4. /\ delivery' = [c \in Deliveries |-> delivery'[c]]
        /\ attempts' = [c \in Deliveries |-> attempts'[c]]
    BY <1>0, <1>3, <2>3
  <2>. QED  BY <1>3, <2>2, <2>4
<1>. HIDE DEF Goal
<1>4. ASSUME NEW w \in Workers, Finish(w)  PROVE Goal
  <2>. DEFINE d == worker[w].delivery
              r == worker[w].result
  <2>1. CASE ~LeaseAccepted(w)
    BY <1>2, <1>4, <2>1 DEF Finish
  <2>2. CASE LeaseAccepted(w)
    <3>1. worker[w] \in RecordingLane /\ r # "key"
      BY <1>4 DEF SideInv, Finish, LaneRow, Idle, ClaimedLane, AwayLane
    <3>2. d \in Deliveries /\ r \in Outcome
      BY <3>1 DEF RecordingLane
    <3>3. delivery[d].status = "leased"
      BY <2>2 DEF LeaseAccepted, Held
    <3>4. /\ delivery' = [delivery EXCEPT ![d] = Recorded(delivery[d], r)]
          /\ attempts' = [attempts EXCEPT ![d] = After(delivery[d], attempts[d], r)]
          /\ UNCHANGED ingested
      BY <1>4, <2>2 DEF Finish, Completed, After
    <3>5. /\ delivery'[d] = Recorded(delivery[d], r)
          /\ attempts'[d] = After(delivery[d], attempts[d], r)
      BY <1>0, <3>2, <3>4
    <3>6. Moves(delivery[d], attempts[d], delivery'[d], attempts'[d], d[1] \in ingested' \ ingested, {})
      BY <3>2, <3>3, <3>5 DEF Moves
    <3>. QED  BY <1>3, <3>2, <3>4, <3>5, <3>6
  <2>. QED  BY <2>1, <2>2
<1>5. ASSUME NEW w \in Workers, Defer(w)  PROVE Goal
  <2>. DEFINE d == worker[w].delivery
  <2>1. CASE ~LeaseAccepted(w)
    BY <1>2, <1>5, <2>1 DEF Defer
  <2>2. CASE LeaseAccepted(w)
    <3>1. worker[w] \in RecordingLane
      BY <1>5 DEF SideInv, Defer, LaneRow, Idle, ClaimedLane, AwayLane
    <3>2. d \in Deliveries
      BY <3>1 DEF RecordingLane
    <3>3. /\ delivery[d].status = "leased" /\ worker[w].generation = delivery[d].generation
          /\ worker[w].number = delivery[d].count
      BY <2>2 DEF LeaseAccepted, Held
    <3>4. /\ delivery' = [delivery EXCEPT ![d] = GivenBack(delivery[d])]
          /\ attempts' = [attempts EXCEPT ![d] =
                            attempts[d] \ {Row(delivery[d].generation, delivery[d].count, Open)}]
          /\ UNCHANGED ingested
      BY <1>5, <2>2, <3>3 DEF Defer
    <3>5. /\ delivery'[d] = GivenBack(delivery[d])
          /\ attempts'[d] = attempts[d] \ {Row(delivery[d].generation, delivery[d].count, Open)}
      BY <1>0, <3>2, <3>4
    <3>6. Moves(delivery[d], attempts[d], delivery'[d], attempts'[d], d[1] \in ingested' \ ingested, {})
      BY <3>2, <3>3, <3>5 DEF Moves
    <3>. QED  BY <1>3, <3>2, <3>4, <3>5, <3>6
  <2>. QED  BY <2>1, <2>2
<1>6. ASSUME NEW d \in Deliveries, Recover(d)  PROVE Goal
  <2>1. /\ delivery[d].status = "leased" /\ UNCHANGED ingested
        /\ delivery' = [delivery EXCEPT ![d] = AfterFailure(delivery[d])]
        /\ attempts' = [attempts EXCEPT ![d] = After(delivery[d], attempts[d], "failure")]
    BY <1>6 DEF Recover, Completed, After
  <2>2. Recorded(delivery[d], "failure") = AfterFailure(delivery[d]) /\ "failure" \in Outcome
    BY DEF Recorded, Outcome
  <2>3. /\ delivery'[d] = Recorded(delivery[d], "failure")
        /\ attempts'[d] = After(delivery[d], attempts[d], "failure")
    BY <1>0, <2>1, <2>2
  <2>4. Moves(delivery[d], attempts[d], delivery'[d], attempts'[d], d[1] \in ingested' \ ingested, {})
    BY <2>1, <2>2, <2>3 DEF Moves
  <2>. QED  BY <1>3, <2>1, <2>2, <2>3, <2>4
<1>7. ASSUME NEW d \in Deliveries, Prune(d)  PROVE Goal
  <2>1. /\ delivery[d].status \in {"succeeded", "dead"} /\ UNCHANGED ingested
        /\ delivery' = [delivery EXCEPT ![d] = Absent] /\ attempts' = [attempts EXCEPT ![d] = {}]
    BY <1>7 DEF Prune
  <2>2. delivery'[d] = Absent /\ attempts'[d] = {}
    BY <1>0, <2>1
  <2>3. Moves(delivery[d], attempts[d], delivery'[d], attempts'[d], d[1] \in ingested' \ ingested, {})
    BY <2>1, <2>2 DEF Moves
  <2>. QED  BY <1>3, <2>1, <2>2, <2>3
<1>8. ASSUME NEW d \in Deliveries, Replay(d)  PROVE Goal
  <2>. DEFINE next == [delivery[d] EXCEPT !.status = "pending", !.reason = "none",
                                          !.generation = @ + 1, !.count = 0]
  <2>1. /\ delivery[d].reason = "failed" /\ delivery[d].generation < MaxGenerations
        /\ UNCHANGED <<ingested, attempts>>
        /\ delivery' = [delivery EXCEPT ![d].status = "pending", ![d].reason = "none",
                                        ![d].generation = @ + 1, ![d].count = 0]
    BY <1>8 DEF Replay
  <2>2. delivery' = [delivery EXCEPT ![d] = next]
    BY <1>0, <2>1
  <2>3. delivery'[d] = next /\ attempts'[d] = attempts[d]
    BY <1>0, <2>1, <2>2
  <2>4. Moves(delivery[d], attempts[d], delivery'[d], attempts'[d], d[1] \in ingested' \ ingested, {})
    BY <2>1, <2>3 DEF Moves
  <2>5. delivery' = [delivery EXCEPT ![d] = delivery'[d]]
    BY <2>2, <2>3
  <2>6. attempts' = [attempts EXCEPT ![d] = attempts'[d]]
    BY <1>0, <2>1, <2>3
  <2>. QED  BY <1>3, <2>1, <2>4, <2>5, <2>6
<1>9. ASSUME NEW d \in Deliveries, LeaseExpires(d)  PROVE Goal
  <2>. DEFINE next == [delivery[d] EXCEPT !.live = FALSE]
  <2>1. /\ delivery[d].status = "leased" /\ UNCHANGED <<ingested, attempts>>
        /\ delivery' = [delivery EXCEPT ![d] = next]
    BY <1>9 DEF LeaseExpires
  <2>2. delivery'[d] = next /\ attempts'[d] = attempts[d]
    BY <1>0, <2>1
  <2>3. Moves(delivery[d], attempts[d], delivery'[d], attempts'[d], d[1] \in ingested' \ ingested, {})
    BY <2>1, <2>2 DEF Moves
  <2>. QED  BY <1>0, <1>3, <2>1, <2>2, <2>3
<1>10. ASSUME NEW e \in Endpoints, NEW s, Retire(e, s)  PROVE Goal
  <2>1. /\ delivery' = [d \in Deliveries |-> delivery'[d]]
        /\ attempts' = [d \in Deliveries |-> attempts'[d]] /\ UNCHANGED ingested
    BY <1>10 DEF Retire
  <2>2. ASSUME NEW d \in Deliveries  PROVE MovedBy(d, {})
    <3>1. /\ delivery'[d] = IF d \in Of(e) THEN Retired(delivery[d]) ELSE delivery[d]
          /\ attempts'[d] = IF d \in Of(e) /\ delivery[d].status = "leased"
                            THEN After(delivery[d], attempts[d], "policy_rejected") ELSE attempts[d]
      BY <1>0, <1>10 DEF Retire, Completed, After
    <3>2. CASE d \notin Of(e)
      BY <3>1, <3>2 DEF MovedBy, Moves
    <3>3. CASE d \in Of(e) /\ delivery[d].status = "leased"
      BY <3>1, <3>3 DEF MovedBy, Moves, Retired
    <3>4. CASE d \in Of(e) /\ delivery[d].status # "leased"
      BY <3>1, <3>4 DEF MovedBy, Moves, Retired
    <3>. QED  BY <3>2, <3>3, <3>4
  <2>. QED  BY <2>1, <2>2 DEF Goal
<1>11. Goal
  <2>1. ASSUME NEW w \in Workers, Dispatch(w) \/ Return(w) \/ Abandon(w)  PROVE Goal
    BY <1>2, <2>1 DEF Dispatch, Return, Abandon, rowVars
  <2>2. ASSUME NEW d \in Deliveries, BecomesDue(d)  PROVE Goal
    BY <1>2, <2>2 DEF BecomesDue
  <2>3. ASSUME NEW e \in Endpoints, Enable(e) \/ FailureAges(e)  PROVE Goal
    BY <1>2, <2>3 DEF Enable, FailureAges, rowVars
  <2>4. CASE UNCHANGED vars
    BY <1>2, <2>4 DEF vars, rowVars
  <2>5. ASSUME NEW e \in Endpoints, Disable(e) \/ Rotate(e)  PROVE Goal
    BY <1>10, <2>5 DEF Disable, Rotate
  <2>. QED  BY <1>1, <1>4, <1>5, <1>6, <1>7, <1>8, <1>9, <2>1, <2>2, <2>3, <2>4, <2>5 DEF NoClaim
<1>. QED  BY <1>11 DEF Goal


\* Lane w claims delivery d, at place i of the queue of endpoint e.
ClaimOf(w, e, i, d) ==
  /\ i \in 1..Len(due[e]) /\ d = due[e][i] /\ EndpointOf(d) = e
  /\ delivery[d].status = "pending" /\ delivery[d].count < MaxAttempts
  /\ \A c \in Of(e) : delivery[c].status # "leased"
  /\ delivery' = [delivery EXCEPT ![d] = Claimed(delivery[d], w)]
  /\ attempts' = [attempts EXCEPT ![d] =
                    @ \union {Row(delivery[d].generation, delivery[d].count + 1, Open)}]
  /\ due' = [due EXCEPT ![e] = RemoveAt(@, i)]
  /\ worker[w] = Idle
  /\ worker' = [worker EXCEPT ![w] =
                  [pc |-> "claimed", delivery |-> d,
                   generation |-> delivery[d].generation, number |-> delivery[d].count + 1]]
  /\ UNCHANGED <<endpoint, ingested, post>>

LEMMA ClaimEffect ==
  ASSUME RowsInv, NEW w \in Workers, Claim(w)
  PROVE  \E e \in Endpoints, d \in Deliveries : \E i \in Nat : ClaimOf(w, e, i, d)
<1>1. PICK e \in Endpoints :
        LET i == Min(Ready(e))
            d == due[e][i]
        IN  /\ Claimable(e)
            /\ delivery' = [delivery EXCEPT ![d].status = "leased", ![d].count = @ + 1,
                                            ![d].owner = w, ![d].live = TRUE]
            /\ attempts' = [attempts EXCEPT ![d] =
                              @ \union {Row(delivery[d].generation, delivery[d].count + 1, Open)}]
            /\ due' = [due EXCEPT ![e] = RemoveAt(@, i)]
            /\ worker' = [worker EXCEPT ![w] =
                            [pc |-> "claimed", delivery |-> d,
                             generation |-> delivery[d].generation, number |-> delivery[d].count + 1]]
  BY DEF Claim
<1>. DEFINE i == Min(Ready(e))
            d == due[e][i]
<1>2. /\ i \in 1..Len(due[e]) /\ d \in Deliveries /\ EndpointOf(d) = e
      /\ delivery[d].status = "pending" /\ delivery[d].count < MaxAttempts
  BY <1>1, ClaimChoice
<1>3. delivery' = [delivery EXCEPT ![d] = Claimed(delivery[d], w)]
  BY <1>1, <1>2 DEF RowsInv, RowShape, DeliveryRow, Claimed
<1>4. worker[w] = Idle /\ UNCHANGED <<endpoint, ingested, post>>
  BY DEF Claim
<1>5. \A c \in Of(e) : delivery[c].status # "leased"
  BY <1>1 DEF Claimable
<1>6. i \in Nat
  BY <1>2
<1>7. /\ attempts' = [attempts EXCEPT ![d] =
                        @ \union {Row(delivery[d].generation, delivery[d].count + 1, Open)}]
      /\ due' = [due EXCEPT ![e] = RemoveAt(@, i)]
      /\ worker' = [worker EXCEPT ![w] =
                      [pc |-> "claimed", delivery |-> d,
                       generation |-> delivery[d].generation, number |-> delivery[d].count + 1]]
  BY <1>1
<1>. HIDE DEF i
<1>8. ClaimOf(w, e, i, d)
  BY <1>2, <1>3, <1>4, <1>5, <1>7 DEF ClaimOf
<1>. QED  BY <1>2, <1>6, <1>8

\* A claim leases the one delivery it takes.
LEMMA ClaimMoves ==
  ASSUME RowsInv, NEW w \in Workers, NEW e \in Endpoints, NEW i \in Nat, NEW d \in Deliveries,
         ClaimOf(w, e, i, d)
  PROVE  /\ delivery' = [c \in Deliveries |-> delivery'[c]]
         /\ attempts' = [c \in Deliveries |-> attempts'[c]]
         /\ delivery'[d] = Claimed(delivery[d], w)
         /\ attempts'[d] = attempts[d] \union {Row(delivery[d].generation, delivery[d].count + 1, Open)}
         /\ \A c \in Deliveries \ {d} : delivery'[c] = delivery[c] /\ attempts'[c] = attempts[c]
         /\ \A c \in Deliveries : MovedBy(c, {w})
<1>1. /\ delivery \in [Deliveries -> DeliveryRow] /\ attempts \in [Deliveries -> SUBSET AttemptRow]
  BY DEF RowsInv, RowShape
<1>2. /\ delivery' = [c \in Deliveries |-> delivery'[c]]
      /\ attempts' = [c \in Deliveries |-> attempts'[c]]
      /\ delivery'[d] = Claimed(delivery[d], w)
      /\ attempts'[d] = attempts[d] \union {Row(delivery[d].generation, delivery[d].count + 1, Open)}
      /\ \A c \in Deliveries \ {d} : delivery'[c] = delivery[c] /\ attempts'[c] = attempts[c]
  BY <1>1 DEF ClaimOf
<1>3. ASSUME NEW c \in Deliveries  PROVE MovedBy(c, {w})
  <2>1. CASE c = d
    <3>1. delivery[d].status = "pending" /\ delivery[d].count < MaxAttempts
      BY DEF ClaimOf
    <3>. QED  BY <1>2, <2>1, <3>1 DEF MovedBy, Moves
  <2>2. CASE c # d
    BY <1>2, <2>2 DEF MovedBy, Moves
  <2>. QED  BY <2>1, <2>2
<1>. QED  BY <1>2, <1>3

\* Whatever step is taken, each delivery makes one of its moves.
LEMMA StepMoves ==
  ASSUME RowsInv, SideInv, [WebhookNext]_vars
  PROVE  /\ delivery' = [d \in Deliveries |-> delivery'[d]]
         /\ attempts' = [d \in Deliveries |-> attempts'[d]]
         /\ ingested \subseteq ingested'
         /\ \A d \in Deliveries : MovedBy(d, Workers)
<1>1. CASE NoClaim
  <2>1. \A d \in Deliveries : MovedBy(d, {}) => MovedBy(d, Workers)
    BY DEF MovedBy, Moves
  <2>. QED  BY <1>1, <2>1, OtherMoves
<1>2. ASSUME NEW w \in Workers, Claim(w)
      PROVE  /\ delivery' = [d \in Deliveries |-> delivery'[d]]
             /\ attempts' = [d \in Deliveries |-> attempts'[d]]
             /\ ingested \subseteq ingested'
             /\ \A d \in Deliveries : MovedBy(d, Workers)
  <2>1. \A d \in Deliveries : MovedBy(d, {w}) => MovedBy(d, Workers)
    BY DEF MovedBy, Moves
  <2>2. PICK e \in Endpoints, d \in Deliveries : \E i \in Nat : ClaimOf(w, e, i, d)
    BY <1>2, ClaimEffect
  <2>3. PICK i \in Nat : ClaimOf(w, e, i, d)
    BY <2>2
  <2>4. ingested' = ingested
    BY <2>3 DEF ClaimOf
  <2>. QED  BY <2>1, <2>3, <2>4, ClaimMoves
<1>. QED  BY <1>1, <1>2, StepKinds


\* What MoveFacts says of a step.
LEMMA DeliveryFacts ==
  ASSUME RowsInv, NEW d \in Deliveries, NEW lanes \in SUBSET Workers, MovedBy(d, lanes)
  PROVE  /\ Consistent(delivery'[d], attempts'[d])
         /\ delivery[d].status = "succeeded" \/ delivery[d].reason = "retired" =>
              delivery'[d] \in {delivery[d], Absent}
         /\ delivery'[d].status = "leased" /\ delivery[d].status # "pending" =>
              /\ delivery[d].status = "leased" /\ delivery'[d].owner = delivery[d].owner
              /\ delivery'[d].generation = delivery[d].generation
              /\ delivery'[d].count = delivery[d].count /\ attempts'[d] = attempts[d]
         /\ delivery[d].status = "pending" /\ lanes = {} => delivery'[d].status \in {"pending", "dead"}
         /\ Live(delivery'[d]) /\ delivery[d] # Absent => Live(delivery[d])
         /\ delivery[d] = Absent =>
              attempts'[d] = attempts[d] /\ (d[1] \notin ingested' \ ingested => delivery'[d] = Absent)
<1>. DEFINE new == d[1] \in ingested' \ ingested
<1>1. Consistent(delivery[d], attempts[d])
  BY DEF RowsInv, TablesAgree
<1>2. Moves(delivery[d], attempts[d], delivery'[d], attempts'[d], new, lanes)
  BY DEF MovedBy
<1>3. new \in BOOLEAN
  OBVIOUS
<1>4. new <=> d[1] \in ingested' \ ingested
  OBVIOUS
<1>. HIDE DEF new
<1>. QED  BY <1>1, <1>2, <1>3, <1>4, MoveFacts

\* A pending delivery stays queued where no step takes it out.
LEMMA QueueKept ==
  ASSUME RowsInv, NEW e \in Endpoints, due'[e] = due[e],
         \A i \in 1..Len(due[e]) : delivery'[due[e][i]].status = "pending"
  PROVE  /\ due'[e] \in Seq(Deliveries) /\ Distinct(due'[e])
         /\ \A i \in 1..Len(due'[e]) :
              EndpointOf(due'[e][i]) = e /\ delivery'[due'[e][i]].status = "pending"
BY DEF RowsInv, RowShape, QueuesPending

LEMMA QueueGrows ==
  ASSUME RowsInv, NEW e \in Endpoints, NEW d \in Deliveries, due'[e] = Append(due[e], d),
         d \notin ToSet(due[e]), EndpointOf(d) = e, delivery'[d].status = "pending",
         \A i \in 1..Len(due[e]) : delivery'[due[e][i]].status = "pending"
  PROVE  /\ due'[e] \in Seq(Deliveries) /\ Distinct(due'[e])
         /\ \A i \in 1..Len(due'[e]) :
              EndpointOf(due'[e][i]) = e /\ delivery'[due'[e][i]].status = "pending"
<1>1. due[e] \in Seq(Deliveries) /\ Distinct(due[e])
      /\ \A i \in 1..Len(due[e]) : EndpointOf(due[e][i]) = e
  BY DEF RowsInv, RowShape, QueuesPending
<1>2. /\ Append(due[e], d) \in Seq(Deliveries) /\ Distinct(Append(due[e], d))
      /\ \A i \in 1..Len(Append(due[e], d)) :
           Append(due[e], d)[i] = d \/ \E j \in 1..Len(due[e]) : Append(due[e], d)[i] = due[e][j]
  BY <1>1, Joined
<1>. HIDE DEF EndpointOf
<1>. QED  BY <1>1, <1>2

\* A delivery that is not pending is in no queue.
LEMMA NotQueued ==
  ASSUME RowsInv, NEW e \in Endpoints
  PROVE  /\ \A i \in 1..Len(due[e]) : due[e][i] \in Deliveries
         /\ \A d \in ToSet(due[e]) : delivery[d].status = "pending" /\ EndpointOf(d) = e
<1>1. due[e] \in Seq(Deliveries)
  BY DEF RowsInv, RowShape
<1>2. DOMAIN due[e] = 1..Len(due[e]) /\ \A i \in 1..Len(due[e]) : due[e][i] \in Deliveries
  BY <1>1, LenProperties, ElementOfSeq
<1>. QED  BY <1>2 DEF ToSet, RowsInv, QueuesPending

\* Queues hold pending deliveries of their endpoint only, whatever step is taken.
LEMMA QueuesStep ==
  ASSUME RowsInv, SideInv, [WebhookNext]_vars
  PROVE  due' \in [Endpoints -> Seq(Deliveries)] /\ QueuesPending'
<1>. DEFINE Fine(e) == /\ due'[e] \in Seq(Deliveries) /\ Distinct(due'[e])
                       /\ \A i \in 1..Len(due'[e]) :
                            EndpointOf(due'[e][i]) = e /\ delivery'[due'[e][i]].status = "pending"
            Goal == due' = [e \in Endpoints |-> due'[e]] /\ \A e \in Endpoints : Fine(e)
<1>. SUFFICES Goal
  BY DEF QueuesPending, RowsInv, RowShape
<1>0. /\ due \in [Endpoints -> Seq(Deliveries)] /\ delivery \in [Deliveries -> DeliveryRow]
      /\ \A d \in Deliveries : EndpointOf(d) \in Endpoints
      /\ \A e \in Endpoints : \A i \in 1..Len(due[e]) :
           /\ due[e][i] \in Deliveries /\ EndpointOf(due[e][i]) = e
           /\ delivery[due[e][i]].status = "pending"
  BY NotQueued DEF RowsInv, RowShape, QueuesPending, Deliveries, EndpointOf
<1>1. ASSUME UNCHANGED due, \A d \in Deliveries : delivery[d].status = "pending" =>
                                                   delivery'[d].status = "pending"
      PROVE  Goal
  BY <1>0, <1>1, QueueKept
<1>2. ASSUME NEW v \in Events, NEW a \in Accounts, Ingest(v, a)  PROVE Goal
  <2>1. \A d \in Deliveries : d[1] = v => delivery[d] = Absent
    BY <1>2 DEF Ingest, RowsInv, FreshUnqueued
  <2>2. Absent.status = "absent" /\ [Absent EXCEPT !.status = "pending"].status = "pending"
    BY DEF Absent
  <2>3. \A d \in Deliveries : delivery[d].status = "pending" => delivery'[d].status = "pending"
    BY <1>2, <2>2 DEF Ingest
  <2>4. ASSUME NEW e \in Endpoints  PROVE Fine(e)
    <3>1. CASE due'[e] = due[e]
      BY <1>0, <2>3, <3>1, QueueKept
    <3>2. CASE due'[e] = Append(due[e], <<v, e>>) /\ home[e] = a /\ endpoint[e].enabled
      <4>1. <<v, e>> \in Deliveries /\ <<v, e>>[1] = v /\ <<v, e>>[2] = e /\ EndpointOf(<<v, e>>) = e
        BY DEF Deliveries, EndpointOf
      <4>2. delivery'[<<v, e>>].status = "pending"
        BY <1>2, <2>2, <3>2, <4>1 DEF Ingest
      <4>3. <<v, e>> \notin ToSet(due[e])
        BY <2>1, <2>2, <4>1, NotQueued
      <4>4. \A i \in 1..Len(due[e]) : delivery'[due[e][i]].status = "pending"
        BY <1>0, <2>3
      <4>. QED  BY <3>2, <4>1, <4>2, <4>3, <4>4, QueueGrows
    <3>. QED  BY <1>2, <3>1, <3>2 DEF Ingest
  <2>5. due' = [e \in Endpoints |-> due'[e]]
    BY <1>2 DEF Ingest
  <2>. QED  BY <2>4, <2>5
<1>3. ASSUME NEW d \in Deliveries, NEW s, due' = [due EXCEPT ![EndpointOf(d)] = Append(@, d)],
             d \notin ToSet(due[EndpointOf(d)]), delivery'[d].status = "pending",
             \A c \in Deliveries : delivery[c].status = "pending" => delivery'[c].status = "pending"
      PROVE  Goal
  <2>1. due' = [e \in Endpoints |-> due'[e]]
    BY <1>0, <1>3
  <2>2. ASSUME NEW e \in Endpoints  PROVE Fine(e)
    <3>1. CASE e # EndpointOf(d)
      BY <1>0, <1>3, <3>1, QueueKept
    <3>2. CASE e = EndpointOf(d)
      <4>1. due'[e] = Append(due[e], d)
        BY <1>0, <1>3, <3>2
      <4>2. \A i \in 1..Len(due[e]) : delivery'[due[e][i]].status = "pending"
        BY <1>0, <1>3
      <4>. QED  BY <1>3, <3>2, <4>1, <4>2, QueueGrows
    <3>. QED  BY <3>1, <3>2
  <2>. QED  BY <2>1, <2>2
<1>4. ASSUME NEW e \in Endpoints, NEW s, Retire(e, s)  PROVE Goal
  <2>1. due' = [due EXCEPT ![e] = <<>>]
    BY <1>4 DEF Retire
  <2>2. \A d \in Deliveries : EndpointOf(d) # e => delivery'[d] = delivery[d]
    BY <1>4 DEF Retire, Of
  <2>3. ASSUME NEW f \in Endpoints  PROVE Fine(f)
    <3>1. CASE f = e
      <4>1. due'[f] = <<>>
        BY <1>0, <2>1, <3>1
      <4>2. <<>> \in Seq(Deliveries) /\ Len(<<>>) = 0
        BY EmptySeq
      <4>. QED  BY <4>1, <4>2 DEF Distinct
    <3>2. CASE f # e
      <4>1. due'[f] = due[f]
        BY <1>0, <2>1, <3>2
      <4>2. \A i \in 1..Len(due[f]) : delivery'[due[f][i]].status = "pending"
        BY <1>0, <2>2, <3>2
      <4>. QED  BY <4>1, <4>2, QueueKept
    <3>. QED  BY <3>1, <3>2
  <2>4. due' = [f \in Endpoints |-> due'[f]]
    BY <1>0, <2>1
  <2>. QED  BY <2>3, <2>4
<1>5. ASSUME NEW w \in Workers, Claim(w)  PROVE Goal
  <2>1. PICK e \in Endpoints, d \in Deliveries : \E i \in Nat : ClaimOf(w, e, i, d)
    BY <1>5, ClaimEffect
  <2>2. PICK i \in Nat : ClaimOf(w, e, i, d)
    BY <2>1
  <2>3. \A c \in Deliveries \ {d} : delivery'[c] = delivery[c]
    BY <1>0, <2>2 DEF ClaimOf
  <2>4. due' = [due EXCEPT ![e] = RemoveAt(@, i)] /\ i \in 1..Len(due[e]) /\ d = due[e][i]
        /\ EndpointOf(d) = e
    BY <2>2 DEF ClaimOf
  <2>5. ASSUME NEW f \in Endpoints  PROVE Fine(f)
    <3>1. CASE f = e
      <4>1. due'[f] = RemoveAt(due[e], i)
        BY <1>0, <2>4, <3>1
      <4>2. due[e] \in Seq(Deliveries) /\ Distinct(due[e])
        BY DEF RowsInv, RowShape, QueuesPending
      <4>3. /\ RemoveAt(due[e], i) \in Seq(Deliveries) /\ Distinct(RemoveAt(due[e], i))
            /\ \A k \in 1..Len(RemoveAt(due[e], i)) :
                 \E j \in 1..Len(due[e]) : RemoveAt(due[e], i)[k] = due[e][j] /\ due[e][j] # due[e][i]
        BY <2>4, <4>2, Left
      <4>4. ASSUME NEW k \in 1..Len(RemoveAt(due[e], i))
            PROVE  LET c == RemoveAt(due[e], i)[k]
                   IN  EndpointOf(c) = e /\ delivery'[c].status = "pending"
        <5>1. PICK j \in 1..Len(due[e]) : RemoveAt(due[e], i)[k] = due[e][j] /\ due[e][j] # d
          BY <2>4, <4>3
        <5>2. /\ due[e][j] \in Deliveries /\ EndpointOf(due[e][j]) = e
              /\ delivery[due[e][j]].status = "pending"
          BY <1>0
        <5>. QED  BY <2>3, <5>1, <5>2
      <4>. QED  BY <3>1, <4>1, <4>3, <4>4
    <3>2. CASE f # e
      <4>1. due'[f] = due[f]
        BY <1>0, <2>4, <3>2
      <4>2. \A j \in 1..Len(due[f]) : delivery'[due[f][j]].status = "pending"
        BY <1>0, <2>3, <2>4, <3>2
      <4>. QED  BY <4>1, <4>2, QueueKept
    <3>. QED  BY <3>1, <3>2
  <2>6. due' = [f \in Endpoints |-> due'[f]]
    BY <1>0, <2>4
  <2>. QED  BY <2>5, <2>6
<1>. HIDE DEF Goal
<1>6. ASSUME NEW w \in Workers, Dispatch(w) \/ Return(w) \/ Finish(w) \/ Defer(w) \/ Abandon(w)
      PROVE  Goal
  <2>1. CASE Dispatch(w) \/ Return(w) \/ Abandon(w)
    <3>1. UNCHANGED <<due, delivery>>
      BY <2>1 DEF Dispatch, Return, Abandon, rowVars
    <3>. QED  BY <1>1, <3>1
  <2>2. CASE Finish(w) \/ Defer(w)
    <3>1. UNCHANGED due
      BY <2>2 DEF Finish, Defer
    <3>2. \A d \in Deliveries : delivery[d].status = "pending" => delivery'[d] = delivery[d]
      <4>1. CASE UNCHANGED delivery
        BY <4>1
      <4>2. CASE LeaseAccepted(w)
        <5>1. delivery[worker[w].delivery].status = "leased"
          BY <4>2 DEF LeaseAccepted, Held
        <5>. QED  BY <1>0, <2>2, <5>1 DEF Finish, Defer
      <4>. QED  BY <2>2, <4>1, <4>2 DEF Finish, Defer
    <3>. QED  BY <1>1, <3>1, <3>2
  <2>. QED  BY <1>6, <2>1, <2>2
<1>7. ASSUME NEW d \in Deliveries, Recover(d) \/ Prune(d) \/ LeaseExpires(d)  PROVE Goal
  <2>1. UNCHANGED due /\ delivery[d].status \in {"leased", "succeeded", "dead"}
    BY <1>7 DEF Recover, Prune, LeaseExpires
  <2>2. \A c \in Deliveries \ {d} : delivery'[c] = delivery[c]
    BY <1>0, <1>7 DEF Recover, Prune, LeaseExpires
  <2>. QED  BY <1>1, <2>1, <2>2
<1>8. ASSUME NEW d \in Deliveries, Replay(d)  PROVE Goal
  <2>1. /\ due' = [due EXCEPT ![EndpointOf(d)] = Append(@, d)] /\ delivery[d].status = "dead"
        /\ delivery' = [delivery EXCEPT ![d].status = "pending", ![d].reason = "none",
                                        ![d].generation = @ + 1, ![d].count = 0]
    BY <1>8 DEF Replay
  <2>2. /\ delivery'[d].status = "pending"
        /\ \A c \in Deliveries \ {d} : delivery'[c] = delivery[c]
    BY <1>0, <2>1 DEF DeliveryRow
  <2>3. d \notin ToSet(due[EndpointOf(d)])
    BY <1>0, <2>1, NotQueued
  <2>. QED  BY <1>3, <2>1, <2>2, <2>3
<1>9. ASSUME NEW d \in Deliveries, BecomesDue(d)  PROVE Goal
  BY <1>3, <1>9 DEF BecomesDue
<1>10. ASSUME NEW e \in Endpoints, Enable(e) \/ Disable(e) \/ Rotate(e) \/ FailureAges(e)  PROVE Goal
  <2>1. CASE Enable(e) \/ FailureAges(e)
    BY <1>1, <2>1 DEF Enable, FailureAges, rowVars
  <2>2. CASE Disable(e) \/ Rotate(e)
    BY <1>4, <2>2 DEF Disable, Rotate
  <2>. QED  BY <1>10, <2>1, <2>2
<1>11. CASE UNCHANGED vars
  BY <1>1, <1>11 DEF vars, rowVars
<1>. QED  BY <1>2, <1>5, <1>6, <1>7, <1>8, <1>9, <1>10, <1>11, StepKinds DEF NoClaim


\* The tables, the queues and the serialisation of the endpoints are kept by every step.
LEMMA RowsStep ==
  ASSUME RowsInv, SideInv, [WebhookNext]_vars
  PROVE  RowsInv'
<1>1. /\ delivery' = [d \in Deliveries |-> delivery'[d]]
      /\ attempts' = [d \in Deliveries |-> attempts'[d]]
      /\ ingested \subseteq ingested'
      /\ \A d \in Deliveries : MovedBy(d, Workers)
  BY StepMoves
<1>2. \A d \in Deliveries : Consistent(delivery'[d], attempts'[d])
  BY <1>1, DeliveryFacts
<1>3. RowShape'
  <2>1. \A d \in Deliveries : delivery'[d] \in DeliveryRow /\ attempts'[d] \in SUBSET AttemptRow
    BY <1>2 DEF Consistent
  <2>2. delivery' \in [Deliveries -> DeliveryRow]
    BY <1>1, <2>1
  <2>3. attempts' \in [Deliveries -> SUBSET AttemptRow]
    BY <1>1, <2>1
  <2>. QED  BY <2>2, <2>3, QueuesStep DEF RowShape
<1>4. FreshUnqueued'
  <2>. SUFFICES ASSUME NEW d \in Deliveries, d[1] \notin ingested'  PROVE delivery'[d] = Absent
    BY DEF FreshUnqueued
  <2>1. delivery[d] = Absent
    BY <1>1 DEF RowsInv, FreshUnqueued
  <2>. QED  BY <1>1, <2>1, DeliveryFacts
<1>5. OneLease'
  <2>1. CASE NoClaim
    <3>1. \A d \in Deliveries : MovedBy(d, {})
      BY <2>1, OtherMoves
    <3>2. {} \in SUBSET Workers
      OBVIOUS
    <3>3. \A d \in Deliveries : delivery'[d].status = "leased" => delivery[d].status = "leased"
      BY <3>1, <3>2, DeliveryFacts
    <3>. QED  BY <3>3 DEF RowsInv, OneLease
  <2>2. ASSUME NEW w \in Workers, Claim(w)  PROVE OneLease'
    <3>1. PICK e \in Endpoints, d \in Deliveries : \E i \in Nat : ClaimOf(w, e, i, d)
      BY <2>2, ClaimEffect
    <3>2. PICK i \in Nat : ClaimOf(w, e, i, d)
      BY <3>1
    <3>3. \A c \in Deliveries \ {d} : delivery'[c] = delivery[c]
      BY <3>2 DEF ClaimOf, RowsInv, RowShape
    <3>4. EndpointOf(d) = e /\ \A c \in Deliveries : EndpointOf(c) = e => delivery[c].status # "leased"
      BY <3>2 DEF ClaimOf, Of
    <3>. QED  BY <3>3, <3>4 DEF RowsInv, OneLease
  <2>. QED  BY <2>1, <2>2, StepKinds
<1>. QED  BY <1>2, <1>3, <1>4, <1>5, QueuesStep DEF RowsInv, TablesAgree

-----------------------------------------------------------------------------
(***************************************************************************)
(* Lanes and receivers: what a lane away from the database may rely on.    *)
(***************************************************************************)

\* What may still be sent was queued under the endpoint's present secret, which is
\* the one lanes away carry; a lane's event is stored, so it is never queued anew.
SecretsInv ==
  /\ \A d \in Deliveries : Live(delivery[d]) => post[d].secret = endpoint[EndpointOf(d)].secret
  /\ \A w \in Workers : worker[w] # Idle => worker[w].delivery[1] \in ingested
  /\ SignedWithOriginal

\* A lane that records an acknowledgement has seen one.
AcksInv ==
  /\ \A d \in Deliveries : delivery[d].status = "succeeded" => post[d].acked
  /\ \A w \in Workers : worker[w].pc = "recording" /\ worker[w].result = "ack" =>
       post[worker[w].delivery].acked

\* The lane has sent nothing for the attempt it holds.
Unspent(w) == \/ worker[w].pc = "claimed"
              \/ worker[w].pc = "away" /\ worker[w].plan = "key"
              \/ worker[w].pc = "recording" /\ worker[w].result = "key"

\* An attempt held without a request leaves a row to spare, the one a key failure
\* takes back.
ChargedInv ==
  \A d \in Deliveries :
    /\ d[1] \notin ingested => post[d].count = 0
    /\ Stored(d) => /\ post[d].count <= Cardinality(attempts[d])
                    /\ \A w \in Workers :
                         worker[w] # Idle /\ worker[w].delivery = d /\ Held(w) /\ Unspent(w) =>
                           post[d].count < Cardinality(attempts[d])

WebhookInv == RowsInv /\ SideInv /\ SecretsInv /\ AcksInv /\ ChargedInv


\* A lane moves by its own actions or is put back to idle.
LEMMA LaneStep ==
  ASSUME SideInv, [WebhookNext]_vars, NEW w \in Workers
  PROVE  worker'[w] \in {worker[w], Idle} \/ Claim(w) \/ Dispatch(w) \/ Return(w)
<1>2. ASSUME NEW v \in Workers, Claim(v) \/ Dispatch(v) \/ Return(v)
      PROVE  w # v => worker'[w] = worker[w]
  BY <1>2 DEF SideInv, Claim, Dispatch, Return
<1>3. ASSUME NEW v \in Workers, Finish(v) \/ Defer(v) \/ Abandon(v)
      PROVE  worker'[w] \in {worker[w], Idle}
  BY <1>3 DEF SideInv, Finish, Defer, Abandon
<1>4. ASSUME NEW v \in Events, NEW a \in Accounts, Ingest(v, a)  PROVE worker'[w] = worker[w]
  BY <1>4 DEF Ingest
<1>5. ASSUME NEW d \in Deliveries, Recover(d) \/ Prune(d) \/ Replay(d) \/ BecomesDue(d) \/ LeaseExpires(d)
      PROVE  worker'[w] = worker[w]
  BY <1>5 DEF Recover, Prune, Replay, BecomesDue, LeaseExpires
<1>6. ASSUME NEW e \in Endpoints, Enable(e) \/ Disable(e) \/ Rotate(e) \/ FailureAges(e)
      PROVE  worker'[w] = worker[w]
  BY <1>6 DEF Enable, Disable, Rotate, Retire, FailureAges
<1>7. CASE UNCHANGED vars
  BY <1>7 DEF vars
<1>. QED  BY <1>2, <1>3, <1>4, <1>5, <1>6, <1>7 DEF WebhookNext, Lane, Owner, Time

\* Dispatch and Return keep the claim a lane works on, and tell what becomes of it.
LEMMA LaneEffect ==
  ASSUME SideInv, RowsInv, NEW w \in Workers, Dispatch(w) \/ Return(w), worker'[w] # Idle
  PROVE  /\ worker[w] # Idle /\ worker[w].delivery \in Deliveries
         /\ worker'[w].delivery = worker[w].delivery
         /\ worker'[w].generation = worker[w].generation /\ worker'[w].number = worker[w].number
         /\ Held(w)
         /\ UNCHANGED <<endpoint, ingested, delivery, attempts>>
         /\ Dispatch(w) => /\ worker[w].pc = "claimed" /\ worker'[w].pc = "away"
                           /\ worker'[w].secret = endpoint[EndpointOf(worker[w].delivery)].secret
         /\ Return(w) => /\ worker[w].pc = "away" /\ worker'[w].pc = "recording"
                         /\ worker'[w].result = "key" => worker[w].plan = "key"
<1>1. CASE Dispatch(w)
  <2>1. worker[w] \in ClaimedLane /\ UNCHANGED <<endpoint, ingested, delivery, attempts>>
    BY <1>1 DEF SideInv, Dispatch, LaneRow, Idle, AwayLane, RecordingLane, rowVars
  <2>2. worker[w].delivery \in Deliveries /\ worker[w].pc = "claimed" /\ worker[w] # Idle
    BY <2>1 DEF ClaimedLane, Idle
  <2>3. ~(worker' = [worker EXCEPT ![w] = Idle])
    BY DEF SideInv
  <2>4. /\ Loadable(w)
        /\ \E plan \in Plan(EndpointOf(worker[w].delivery)) :
             worker' = [worker EXCEPT ![w] =
                          [pc |-> "away", delivery |-> worker[w].delivery,
                           generation |-> worker[w].generation, number |-> worker[w].number,
                           plan |-> plan, secret |-> endpoint[EndpointOf(worker[w].delivery)].secret]]
    BY <1>1, <2>3 DEF Dispatch
  <2>5. PICK plan : worker'[w] = [pc |-> "away", delivery |-> worker[w].delivery,
                           generation |-> worker[w].generation, number |-> worker[w].number,
                           plan |-> plan, secret |-> endpoint[EndpointOf(worker[w].delivery)].secret]
    BY <2>4 DEF SideInv
  <2>6. ~Return(w)
    BY <2>2 DEF Return
  <2>. QED  BY <1>1, <2>1, <2>2, <2>4, <2>5, <2>6 DEF Loadable
<1>2. CASE Return(w)
  <2>1. worker[w] \in AwayLane /\ UNCHANGED <<endpoint, ingested, delivery, attempts>>
    BY <1>2 DEF SideInv, Return, LaneRow, Idle, ClaimedLane, RecordingLane, rowVars
  <2>2. worker[w].delivery \in Deliveries /\ worker[w].pc = "away" /\ worker[w] # Idle
    BY <2>1 DEF AwayLane, Idle
  <2>3. PICK r : /\ worker' = [worker EXCEPT ![w] =
                                IF Held(w) /\ delivery[worker[w].delivery].live
                                THEN [pc |-> "recording", delivery |-> worker[w].delivery,
                                      generation |-> worker[w].generation,
                                      number |-> worker[w].number, result |-> r]
                                ELSE Idle]
                 /\ r = "key" => worker[w].plan = "key"
    <3>1. \A answer : OutcomeOf(answer) # "key"
      BY DEF OutcomeOf
    <3>2. CASE worker[w].plan # "send"
      BY <1>2, <3>2 DEF Return
    <3>3. CASE worker[w].plan = "send"
      BY <1>2, <3>1, <3>3 DEF Return
    <3>. QED  BY <3>2, <3>3
  <2>4. Held(w) /\ worker'[w] = [pc |-> "recording", delivery |-> worker[w].delivery,
                                 generation |-> worker[w].generation,
                                 number |-> worker[w].number, result |-> r]
    BY <2>3 DEF SideInv
  <2>5. ~Dispatch(w)
    BY <2>2 DEF Dispatch
  <2>. QED  BY <1>2, <2>1, <2>2, <2>3, <2>4, <2>5
<1>. QED  BY <1>1, <1>2

\* What the ghost records: the queueing's secret, requests that leave, answers given.
LEMMA PostStep ==
  ASSUME SideInv, [WebhookNext]_vars, NEW d \in Deliveries
  PROVE  /\ post[d].acked => post'[d].acked
         /\ post'[d].count # post[d].count =>
              \E w \in Workers : /\ Dispatch(w) /\ worker[w].delivery = d /\ worker'[w] # Idle
                                 /\ worker'[w].pc = "away" /\ worker'[w].plan = "send"
                                 /\ post'[d].count = post[d].count + 1
         /\ post'[d].secret # post[d].secret => d[1] \notin ingested /\ d[1] \in ingested'
<1>0. post \in [Deliveries -> PostRow] /\ post[d] \in PostRow
  BY DEF SideInv
<1>. DEFINE Goal ==
         /\ post[d].acked => post'[d].acked
         /\ post'[d].count # post[d].count =>
              \E w \in Workers : /\ Dispatch(w) /\ worker[w].delivery = d /\ worker'[w] # Idle
                                 /\ worker'[w].pc = "away" /\ worker'[w].plan = "send"
                                 /\ post'[d].count = post[d].count + 1
         /\ post'[d].secret # post[d].secret => d[1] \notin ingested /\ d[1] \in ingested'
<1>1. ASSUME UNCHANGED post  PROVE Goal
  BY <1>1
<1>2. ASSUME NEW v \in Events, NEW a \in Accounts, Ingest(v, a)  PROVE Goal
  <2>1. post'[d] = post[d] \/ (d[1] = v /\ post'[d] = [post[d] EXCEPT !.secret = endpoint[d[2]].secret])
    BY <1>2 DEF Ingest
  <2>2. v \notin ingested /\ v \in ingested'
    BY <1>2 DEF Ingest
  <2>3. CASE post'[d] = post[d]
    BY <2>3
  <2>4. CASE d[1] = v /\ post'[d] = [post[d] EXCEPT !.secret = endpoint[d[2]].secret]
    <3>1. post'[d].acked = post[d].acked /\ post'[d].count = post[d].count
      BY <1>0, <2>4 DEF PostRow
    <3>. QED  BY <2>2, <2>4, <3>1
  <2>. QED  BY <2>1, <2>3, <2>4
<1>3. ASSUME NEW w \in Workers, Dispatch(w)  PROVE Goal
  <2>. DEFINE c == worker[w].delivery
  <2>1. CASE UNCHANGED post
    BY <1>1, <2>1
  <2>2. ASSUME NEW plan \in Plan(EndpointOf(c)),
               worker' = [worker EXCEPT ![w] =
                                 [pc |-> "away", delivery |-> c, generation |-> @.generation,
                                  number |-> @.number, plan |-> plan,
                                  secret |-> endpoint[EndpointOf(c)].secret]],
               post' = [post EXCEPT ![c].count = IF plan = "send" THEN @ + 1 ELSE @]
        PROVE  Goal
    <3>1. /\ post'[d].acked = post[d].acked /\ post'[d].secret = post[d].secret
          /\ c # d \/ plan # "send" => post'[d].count = post[d].count
          /\ c = d /\ plan = "send" => post'[d].count = post[d].count + 1
      BY <1>0, <2>2 DEF PostRow
    <3>2. worker'[w].pc = "away" /\ worker'[w].plan = plan
      BY <2>2 DEF SideInv
    <3>3. worker'[w] # Idle
      BY <3>2 DEF Idle
    <3>. QED  BY <1>3, <3>1, <3>2, <3>3
  <2>. QED  BY <1>3, <2>1, <2>2 DEF Dispatch
<1>4. ASSUME NEW w \in Workers, Return(w)  PROVE Goal
  <2>1. CASE UNCHANGED post
    BY <1>1, <2>1
  <2>2. ASSUME NEW answer, post' = [post EXCEPT ![worker[w].delivery].acked = @ \/ answer = "2xx"]
        PROVE  Goal
    <3>1. /\ post[d].acked => post'[d].acked
          /\ post'[d].secret = post[d].secret /\ post'[d].count = post[d].count
      BY <1>0, <2>2 DEF PostRow
    <3>. QED  BY <3>1
  <2>. QED  BY <1>4, <2>1, <2>2 DEF Return
<1>. HIDE DEF Goal
<1>5. ASSUME NEW w \in Workers, Claim(w) \/ Finish(w) \/ Defer(w) \/ Abandon(w)  PROVE Goal
  BY <1>1, <1>5 DEF Claim, Finish, Defer, Abandon
<1>6. ASSUME NEW c \in Deliveries, Recover(c) \/ Prune(c) \/ Replay(c) \/ BecomesDue(c) \/ LeaseExpires(c)
      PROVE  Goal
  BY <1>1, <1>6 DEF Recover, Prune, Replay, BecomesDue, LeaseExpires
<1>7. ASSUME NEW e \in Endpoints, Enable(e) \/ Disable(e) \/ Rotate(e) \/ FailureAges(e)  PROVE Goal
  BY <1>1, <1>7 DEF Enable, Disable, Rotate, Retire, FailureAges
<1>8. ASSUME UNCHANGED vars  PROVE Goal
  BY <1>1, <1>8 DEF vars
<1>9. Goal
  BY <1>2, <1>3, <1>4, <1>5, <1>6, <1>7, <1>8, StepKinds DEF NoClaim
<1>. QED  BY <1>9 DEF Goal


\* A lease that outlives a step was there before it, in the same lane's hands.
LEMMA HeldStep ==
  ASSUME RowsInv, SideInv, [WebhookNext]_vars, NoClaim, NEW w \in Workers,
         worker'[w] # Idle, Held(w)'
  PROVE  /\ worker[w] # Idle /\ worker'[w].delivery = worker[w].delivery /\ Held(w)
         /\ worker[w].delivery \in Deliveries
         /\ Unspent(w)' => Unspent(w)
         /\ attempts'[worker[w].delivery] = attempts[worker[w].delivery]
         /\ delivery'[worker[w].delivery].owner = w
<1>0. worker'[w] \in {worker[w], Idle} \/ Dispatch(w) \/ Return(w)
  <2>1. ASSUME NEW v \in Workers, Dispatch(v) \/ Return(v) \/ Finish(v) \/ Defer(v) \/ Abandon(v)
        PROVE  worker'[w] \in {worker[w], Idle} \/ Dispatch(w) \/ Return(w)
    BY <2>1 DEF SideInv, Dispatch, Return, Finish, Defer, Abandon
  <2>2. ASSUME NEW v \in Events, NEW a \in Accounts, Ingest(v, a)  PROVE worker'[w] = worker[w]
    BY <2>2 DEF Ingest
  <2>3. ASSUME NEW d \in Deliveries,
               Recover(d) \/ Prune(d) \/ Replay(d) \/ BecomesDue(d) \/ LeaseExpires(d)
        PROVE  worker'[w] = worker[w]
    BY <2>3 DEF Recover, Prune, Replay, BecomesDue, LeaseExpires
  <2>4. ASSUME NEW e \in Endpoints, Enable(e) \/ Disable(e) \/ Rotate(e) \/ FailureAges(e)
        PROVE  worker'[w] = worker[w]
    BY <2>4 DEF Enable, Disable, Rotate, Retire, FailureAges
  <2>5. CASE UNCHANGED vars
    BY <2>5 DEF vars
  <2>. QED  BY <2>1, <2>2, <2>3, <2>4, <2>5 DEF NoClaim
<1>1. /\ worker[w] # Idle /\ worker'[w].delivery = worker[w].delivery
      /\ worker'[w].generation = worker[w].generation /\ worker'[w].number = worker[w].number
      /\ worker[w].delivery \in Deliveries
  <2>1. CASE worker'[w] = worker[w]
    BY <2>1 DEF SideInv, LaneRow, ClaimedLane, AwayLane, RecordingLane
  <2>2. CASE Dispatch(w) \/ Return(w)
    BY <2>2, LaneEffect
  <2>. QED  BY <1>0, <2>1, <2>2
<1>. DEFINE d == worker[w].delivery
<1>2. /\ delivery'[d].status = "leased" /\ delivery'[d].owner = w
      /\ delivery'[d].generation = worker[w].generation /\ delivery'[d].count = worker[w].number
  BY <1>1 DEF Held
<1>3. MovedBy(d, {}) /\ {} \in SUBSET Workers
  BY <1>1, OtherMoves
<1>4. /\ delivery[d].status = "leased" /\ delivery'[d].owner = delivery[d].owner
      /\ delivery'[d].generation = delivery[d].generation
      /\ delivery'[d].count = delivery[d].count /\ attempts'[d] = attempts[d]
  BY <1>1, <1>2, <1>3, DeliveryFacts
<1>5. Held(w)
  BY <1>2, <1>4 DEF Held
<1>6. Unspent(w)' => Unspent(w)
  <2>1. CASE worker'[w] = worker[w]
    BY <2>1 DEF Unspent
  <2>2. CASE Dispatch(w)
    BY <2>2, LaneEffect DEF Unspent
  <2>3. CASE Return(w)
    BY <2>3, LaneEffect DEF Unspent
  <2>. QED  BY <1>0, <2>1, <2>2, <2>3
<1>. QED  BY <1>1, <1>2, <1>4, <1>5, <1>6


\* Rotation retires what the old secret was for, and nothing it retired comes back.
LEMMA SecretsStep ==
  ASSUME RowsInv, SideInv, SecretsInv, [WebhookNext]_vars
  PROVE  SecretsInv'
<1>0. /\ ingested \subseteq ingested' /\ \A d \in Deliveries : MovedBy(d, Workers)
      /\ \A d \in Deliveries : EndpointOf(d) \in Endpoints
  BY StepMoves DEF Deliveries, EndpointOf
<1>1. ASSUME NEW d \in Deliveries, Live(delivery'[d])
      PROVE  post'[d].secret = endpoint'[EndpointOf(d)].secret
  <2>. DEFINE e == EndpointOf(d)
  <2>1. ASSUME post'[d].secret = post[d].secret, endpoint'[e].secret = endpoint[e].secret,
               d[1] \notin ingested' \ ingested
        PROVE  post'[d].secret = endpoint'[e].secret
    <3>1. delivery[d] # Absent
      <4>1. delivery[d] = Absent => delivery'[d] = Absent
        BY <1>0, <2>1, DeliveryFacts
      <4>2. ~Live(Absent)
        BY DEF Live, Absent
      <4>. QED  BY <1>1, <4>1, <4>2
    <3>2. Live(delivery[d])
      BY <1>0, <1>1, <3>1, DeliveryFacts
    <3>. QED  BY <2>1, <3>2 DEF SecretsInv
  <2>2. ASSUME NEW v \in Events, NEW a \in Accounts, Ingest(v, a)
        PROVE  post'[d].secret = endpoint'[e].secret
    <3>1. CASE d[1] = v /\ d[2] \in { f \in Endpoints : home[f] = a /\ endpoint[f].enabled }
      <4>1. post'[d] = [post[d] EXCEPT !.secret = endpoint[e].secret] /\ UNCHANGED endpoint
        BY <2>2, <3>1 DEF Ingest, EndpointOf
      <4>2. post[d] \in PostRow
        BY DEF SideInv
      <4>. QED  BY <4>1, <4>2 DEF PostRow
    <3>2. CASE ~(d[1] = v /\ d[2] \in { f \in Endpoints : home[f] = a /\ endpoint[f].enabled })
      <4>1. post'[d] = post[d] /\ delivery'[d] = delivery[d] /\ UNCHANGED endpoint
        BY <2>2, <3>2 DEF Ingest
      <4>. QED  BY <1>1, <4>1 DEF SecretsInv
    <3>. QED  BY <3>1, <3>2
  <2>3. ASSUME NEW f \in Endpoints, NEW s, Retire(f, s)
        PROVE  post'[d].secret = endpoint'[e].secret
    <3>1. UNCHANGED post /\ (e # f => endpoint'[e] = endpoint[e] /\ delivery'[d] = delivery[d])
      BY <1>0, <2>3 DEF Retire, Of, SideInv
    <3>2. CASE e = f
      <4>1. delivery'[d] = Retired(delivery[d])
        BY <2>3, <3>2 DEF Retire, Of
      <4>2. delivery[d] \in DeliveryRow /\ "retired" \in Reason
        BY DEF RowsInv, RowShape, Reason
      <4>3. /\ Dead(delivery[d], "retired").status = "dead"
            /\ Dead(delivery[d], "retired").reason = "retired"
        BY <4>2, RowWrites
      <4>4. ~Live(Retired(delivery[d]))
        BY <4>3 DEF Live, Retired
      <4>. QED  BY <1>1, <4>1, <4>4
    <3>3. CASE e # f
      BY <1>1, <3>1, <3>3 DEF SecretsInv
    <3>. QED  BY <3>2, <3>3
  <2>4. ASSUME UNCHANGED ingested, endpoint'[e].secret = endpoint[e].secret
        PROVE  post'[d].secret = endpoint'[e].secret
    BY <2>1, <2>4, PostStep
  <2>5. ASSUME NEW w \in Workers, Claim(w) \/ Dispatch(w) \/ Return(w) \/ Defer(w) \/ Abandon(w)
        PROVE  post'[d].secret = endpoint'[e].secret
    <3>1. UNCHANGED <<ingested, endpoint>>
      BY <2>5 DEF Claim, Dispatch, Return, Defer, Abandon
    <3>. QED  BY <2>4, <3>1
  <2>6. ASSUME NEW w \in Workers, Finish(w)  PROVE post'[d].secret = endpoint'[e].secret
    <3>1. \A r, p : p \in EndpointRow => StreakAfter(p, r).secret = p.secret
      BY DEF StreakAfter, EndpointRow
    <3>2. /\ UNCHANGED ingested
          /\ endpoint' = endpoint \/
               endpoint' = [endpoint EXCEPT ![EndpointOf(worker[w].delivery)] =
                              StreakAfter(@, worker[w].result)]
      BY <2>6 DEF Finish
    <3>3. endpoint'[e].secret = endpoint[e].secret
      BY <1>0, <3>1, <3>2 DEF SideInv
    <3>. QED  BY <2>4, <3>2, <3>3
  <2>7. ASSUME NEW c \in Deliveries,
               Recover(c) \/ Prune(c) \/ Replay(c) \/ BecomesDue(c) \/ LeaseExpires(c)
        PROVE  post'[d].secret = endpoint'[e].secret
    <3>1. UNCHANGED <<ingested, endpoint>>
      BY <2>7 DEF Recover, Prune, Replay, BecomesDue, LeaseExpires
    <3>. QED  BY <2>4, <3>1
  <2>8. ASSUME NEW f \in Endpoints, Enable(f) \/ FailureAges(f)
        PROVE  post'[d].secret = endpoint'[e].secret
    <3>1. UNCHANGED ingested /\ endpoint'[e].secret = endpoint[e].secret
      BY <1>0, <2>8 DEF Enable, FailureAges, SideInv, EndpointRow
    <3>. QED  BY <2>4, <3>1
  <2>9. ASSUME UNCHANGED vars  PROVE post'[d].secret = endpoint'[e].secret
    BY <2>4, <2>9 DEF vars
  <2>10. ASSUME NEW f \in Endpoints, Disable(f) \/ Rotate(f)
         PROVE  post'[d].secret = endpoint'[e].secret
    BY <2>3, <2>10 DEF Disable, Rotate
  <2>. HIDE DEF e
  <2>. QED  BY <2>2, <2>5, <2>6, <2>7, <2>8, <2>9, <2>10, StepKinds DEF NoClaim, e
<1>2. ASSUME NEW w \in Workers, worker'[w] # Idle
      PROVE  worker'[w].delivery[1] \in ingested'
  <2>1. CASE worker'[w] = worker[w]
    BY <1>0, <1>2, <2>1 DEF SecretsInv
  <2>2. CASE Dispatch(w) \/ Return(w)
    BY <1>0, <1>2, <2>2, LaneEffect DEF SecretsInv
  <2>3. CASE Claim(w)
    <3>1. PICK e \in Endpoints, d \in Deliveries : \E i \in Nat : ClaimOf(w, e, i, d)
      BY <2>3, ClaimEffect
    <3>2. worker'[w].delivery = d /\ delivery[d].status = "pending"
      BY <3>1 DEF ClaimOf, SideInv
    <3>3. d[1] \in ingested
      BY <3>2 DEF RowsInv, FreshUnqueued, Absent
    <3>. QED  BY <1>0, <3>2, <3>3
  <2>. QED  BY <1>2, <2>1, <2>2, <2>3, LaneStep
<1>3. ASSUME NEW w \in Workers, worker'[w].pc = "away"
      PROVE  worker'[w].secret = post'[worker'[w].delivery].secret
  <2>1. worker'[w] # Idle
    BY <1>3 DEF Idle
  <2>2. CASE worker'[w] = worker[w]
    <3>1. worker[w] \in AwayLane
      BY <1>3, <2>2 DEF SideInv, LaneRow, Idle, ClaimedLane, RecordingLane
    <3>2. worker[w].delivery \in Deliveries /\ worker[w].delivery[1] \in ingested
      BY <2>1, <2>2, <3>1 DEF AwayLane, SecretsInv
    <3>3. post'[worker[w].delivery].secret = post[worker[w].delivery].secret
      BY <3>2, PostStep
    <3>. QED  BY <1>3, <2>2, <3>3 DEF SecretsInv, SignedWithOriginal
  <2>3. CASE Dispatch(w)
    <3>. DEFINE d == worker[w].delivery
    <3>1. /\ d \in Deliveries /\ worker[w] # Idle /\ worker'[w].delivery = d /\ Held(w)
          /\ worker'[w].secret = endpoint[EndpointOf(d)].secret
      BY <2>1, <2>3, LaneEffect
    <3>2. Live(delivery[d]) /\ d[1] \in ingested
      BY <3>1 DEF Held, Live, SecretsInv
    <3>3. post'[d].secret = post[d].secret
      BY <3>1, <3>2, PostStep
    <3>. QED  BY <3>1, <3>2, <3>3 DEF SecretsInv
  <2>4. CASE Return(w)
    BY <1>3, <2>1, <2>4, LaneEffect
  <2>5. CASE Claim(w)
    <3>1. PICK e \in Endpoints, d \in Deliveries : \E i \in Nat : ClaimOf(w, e, i, d)
      BY <2>5, ClaimEffect
    <3>2. worker'[w].pc = "claimed"
      BY <3>1 DEF ClaimOf, SideInv
    <3>. QED  BY <1>3, <3>2
  <2>. QED  BY <2>1, <2>2, <2>3, <2>4, <2>5, LaneStep
<1>. QED  BY <1>1, <1>2, <1>3 DEF SecretsInv, SignedWithOriginal


\* Only an acknowledgement a lane has seen makes a delivery succeed.
LEMMA AcksStep ==
  ASSUME RowsInv, SideInv, AcksInv, [WebhookNext]_vars
  PROVE  AcksInv'
<1>0. \A d \in Deliveries : /\ Consistent(delivery[d], attempts[d]) /\ delivery[d] \in DeliveryRow
                            /\ MovedBy(d, Workers) /\ (post[d].acked => post'[d].acked)
  BY StepMoves, PostStep DEF RowsInv, TablesAgree, RowShape
<1>1. ASSUME NEW d \in Deliveries, delivery'[d].status = "succeeded"
      PROVE  post'[d].acked
  <2>1. CASE delivery[d].status = "succeeded"
    BY <1>0, <2>1 DEF AcksInv
  <2>2. ASSUME delivery'[d].status # "succeeded"  PROVE post'[d].acked
    BY <1>1, <2>2
  <2>3. ASSUME delivery'[d] = delivery[d]  PROVE post'[d].acked
    BY <1>1, <2>1, <2>3
  <2>4. ASSUME NEW v \in Events, NEW a \in Accounts, Ingest(v, a)  PROVE post'[d].acked
    <3>1. [Absent EXCEPT !.status = "pending"].status = "pending"
      BY DEF Absent
    <3>. QED  BY <2>2, <2>3, <2>4, <3>1 DEF Ingest
  <2>5. ASSUME NEW w \in Workers, Claim(w)  PROVE post'[d].acked
    <3>1. PICK e \in Endpoints, c \in Deliveries : \E i \in Nat : ClaimOf(w, e, i, c)
      BY <2>5, ClaimEffect
    <3>2. delivery' = [delivery EXCEPT ![c] = Claimed(delivery[c], w)]
      BY <3>1 DEF ClaimOf
    <3>3. Claimed(delivery[c], w).status = "leased"
      BY <1>0 DEF Claimed, DeliveryRow
    <3>. QED  BY <2>2, <2>3, <3>2, <3>3 DEF RowsInv, RowShape
  <2>6. ASSUME NEW w \in Workers, Finish(w)  PROVE post'[d].acked
    <3>. DEFINE r == worker[w].result
    <3>1. worker[w] \in RecordingLane /\ r # "key"
      BY <2>6 DEF SideInv, Finish, LaneRow, Idle, ClaimedLane, AwayLane
    <3>2. worker[w].pc = "recording" /\ r \in Outcome
      BY <3>1 DEF RecordingLane
    <3>3. CASE LeaseAccepted(w) /\ worker[w].delivery = d
      <4>1. delivery[d].status = "leased" /\ delivery'[d] = Recorded(delivery[d], r)
        BY <2>6, <3>3 DEF Finish, LeaseAccepted, Held, RowsInv, RowShape
      <4>2. Recorded(delivery[d], r).status = "succeeded" <=> r = "ack"
        BY <1>0, <3>2, <4>1, SettleConsistent
      <4>. QED  BY <1>0, <1>1, <3>2, <3>3, <4>1, <4>2 DEF AcksInv
    <3>4. CASE ~(LeaseAccepted(w) /\ worker[w].delivery = d)
      BY <2>3, <2>6, <3>4 DEF Finish, RowsInv, RowShape
    <3>. QED  BY <3>3, <3>4
  <2>7. ASSUME NEW w \in Workers, Defer(w)  PROVE post'[d].acked
    <3>1. Requeued(delivery[d]) \in DeliveryRow /\ Requeued(delivery[d]).status = "pending"
      BY <1>0, RowWrites DEF Reason
    <3>2. GivenBack(delivery[d]).status = "pending"
      BY <3>1 DEF GivenBack, DeliveryRow
    <3>. QED  BY <2>2, <2>3, <2>7, <3>2 DEF Defer, RowsInv, RowShape
  <2>8. ASSUME NEW w \in Workers, Dispatch(w) \/ Return(w) \/ Abandon(w)  PROVE post'[d].acked
    BY <2>3, <2>8 DEF Dispatch, Return, Abandon, rowVars
  <2>9. ASSUME NEW c \in Deliveries, Recover(c)  PROVE post'[d].acked
    <3>1. /\ delivery[c].status = "leased" /\ delivery' = [delivery EXCEPT ![c] = AfterFailure(@)]
          /\ Recorded(delivery[c], "failure") = AfterFailure(delivery[c]) /\ "failure" \in Outcome
      BY <2>9 DEF Recover, Recorded, Outcome
    <3>2. Recorded(delivery[c], "failure").status # "succeeded"
      BY <1>0, <3>1, SettleConsistent
    <3>. QED  BY <2>2, <2>3, <3>1, <3>2 DEF RowsInv, RowShape
  <2>10. ASSUME NEW c \in Deliveries, Prune(c)  PROVE post'[d].acked
    <3>1. Absent.status = "absent"
      BY DEF Absent
    <3>. QED  BY <2>2, <2>3, <2>10, <3>1 DEF Prune, RowsInv, RowShape
  <2>11. ASSUME NEW c \in Deliveries, Replay(c)  PROVE post'[d].acked
    <3>1. d # c => delivery'[d] = delivery[d]
      BY <2>11 DEF Replay, RowsInv, RowShape
    <3>2. d = c => delivery'[d].status = "pending"
      BY <1>0, <2>11 DEF Replay, RowsInv, RowShape, DeliveryRow
    <3>. QED  BY <2>2, <2>3, <3>1, <3>2
  <2>12. ASSUME NEW c \in Deliveries, LeaseExpires(c) \/ BecomesDue(c)  PROVE post'[d].acked
    <3>1. delivery'[d].status = delivery[d].status
      BY <1>0, <2>12 DEF LeaseExpires, BecomesDue, RowsInv, RowShape, DeliveryRow
    <3>. QED  BY <1>1, <2>1, <3>1
  <2>13. ASSUME NEW e \in Endpoints, Disable(e) \/ Rotate(e)  PROVE post'[d].acked
    <3>1. delivery'[d] \in {delivery[d], Retired(delivery[d])}
      BY <2>13 DEF Disable, Rotate, Retire
    <3>2. Dead(delivery[d], "retired").status = "dead"
      BY <1>0, RowWrites DEF Reason
    <3>. QED  BY <2>2, <2>3, <3>1, <3>2 DEF Retired
  <2>14. ASSUME NEW e \in Endpoints, Enable(e) \/ FailureAges(e)  PROVE post'[d].acked
    BY <2>3, <2>14 DEF Enable, FailureAges, rowVars
  <2>15. ASSUME UNCHANGED vars  PROVE post'[d].acked
    BY <2>3, <2>15 DEF vars, rowVars
  <2>. QED  BY <2>4, <2>5, <2>6, <2>7, <2>8, <2>9, <2>10, <2>11, <2>12, <2>13, <2>14, <2>15,
               StepKinds DEF NoClaim
<1>2. ASSUME NEW w \in Workers, worker'[w].pc = "recording", worker'[w].result = "ack"
      PROVE  post'[worker'[w].delivery].acked
  <2>1. worker'[w] # Idle
    BY <1>2 DEF Idle
  <2>2. CASE worker'[w] = worker[w]
    <3>1. worker[w] \in RecordingLane
      BY <1>2, <2>2 DEF SideInv, LaneRow, Idle, ClaimedLane, AwayLane
    <3>2. worker[w].delivery \in Deliveries
      BY <3>1 DEF RecordingLane
    <3>. QED  BY <1>0, <1>2, <2>2, <3>2 DEF AcksInv
  <2>3. CASE Dispatch(w)
    BY <1>2, <2>1, <2>3, LaneEffect
  <2>4. CASE Return(w)
    <3>. DEFINE d == worker[w].delivery
    <3>1. d \in Deliveries /\ worker'[w].delivery = d /\ worker[w] \in AwayLane
      BY <2>1, <2>4, LaneEffect DEF SideInv, LaneRow, Idle, ClaimedLane, RecordingLane
    <3>2. CASE worker[w].plan # "send"
      <4>1. worker'[w].result = worker[w].plan
        BY <2>1, <2>4, <3>2 DEF Return, SideInv
      <4>2. worker[w].plan # "ack"
        BY <3>1 DEF AwayLane
      <4>. QED  BY <1>2, <4>1, <4>2
    <3>3. CASE worker[w].plan = "send"
      <4>1. PICK answer \in {"2xx", "other", "none"}, lost \in BOOLEAN :
              /\ worker'[w].result = OutcomeOf(IF lost THEN "none" ELSE answer)
              /\ post' = [post EXCEPT ![d].acked = @ \/ answer = "2xx"]
        BY <2>1, <2>4, <3>3 DEF Return, SideInv
      <4>2. answer = "2xx"
        BY <1>2, <4>1 DEF OutcomeOf
      <4>. QED  BY <3>1, <4>1, <4>2 DEF SideInv, PostRow
    <3>. QED  BY <3>2, <3>3
  <2>5. CASE Claim(w)
    <3>1. PICK e \in Endpoints, d \in Deliveries : \E i \in Nat : ClaimOf(w, e, i, d)
      BY <2>5, ClaimEffect
    <3>2. worker'[w].pc = "claimed"
      BY <3>1 DEF ClaimOf, SideInv
    <3>. QED  BY <1>2, <3>2
  <2>. QED  BY <2>1, <2>2, <2>3, <2>4, <2>5, LaneStep
<1>. QED  BY <1>1, <1>2 DEF AcksInv


\* A request is charged to a row of its own: the row comes with the claim, the request
\* leaves once, and only a claim without a request gives the row back.
LEMMA ChargedStep ==
  ASSUME RowsInv, SideInv, SecretsInv, ChargedInv, [WebhookNext]_vars
  PROVE  ChargedInv'
<1>0. /\ \A d \in Deliveries : /\ Consistent(delivery[d], attempts[d]) /\ post[d].count \in Nat
                               /\ MovedBy(d, Workers)
                               /\ IsFiniteSet(attempts[d]) /\ Cardinality(attempts[d]) \in Nat
      /\ ingested \subseteq ingested'
  BY StepMoves, FS_CardinalityType DEF RowsInv, TablesAgree, Consistent, SideInv, PostRow
<1>1. ASSUME NEW d \in Deliveries, d[1] \notin ingested'  PROVE post'[d].count = 0
  <2>1. post[d].count = 0
    BY <1>0, <1>1 DEF ChargedInv
  <2>2. ASSUME NEW w \in Workers, Dispatch(w), worker[w].delivery = d, worker'[w] # Idle
        PROVE  FALSE
    <3>1. worker[w] # Idle
      BY <2>2, LaneEffect
    <3>. QED  BY <1>0, <1>1, <2>2, <3>1 DEF SecretsInv
  <2>. QED  BY <2>1, <2>2, PostStep
<1>2. ASSUME NoClaim, NEW d \in Deliveries, delivery'[d].status # "absent"
      PROVE  post'[d].count <= Cardinality(attempts'[d])
  <2>0. /\ Consistent(delivery[d], attempts[d]) /\ IsFiniteSet(attempts[d])
        /\ Cardinality(attempts[d]) \in Nat /\ post[d].count \in Nat
    BY <1>0
  <2>1. CASE delivery[d] = Absent
    <3>1. d[1] \in ingested' \ ingested /\ attempts'[d] = attempts[d]
      <4>1. Absent.status = "absent"
        BY DEF Absent
      <4>. QED  BY <1>0, <1>2, <2>1, <4>1, DeliveryFacts
    <3>2. post[d].count = 0
      BY <3>1 DEF ChargedInv
    <3>3. post'[d].count = post[d].count
      <4>1. ASSUME NEW w \in Workers, Dispatch(w), worker[w].delivery = d, worker'[w] # Idle
            PROVE  FALSE
        <5>1. UNCHANGED ingested
          BY <4>1, LaneEffect
        <5>. QED  BY <3>1, <5>1
      <4>. QED  BY <4>1, PostStep
    <3>. QED  BY <1>0, <3>1, <3>2, <3>3
  <2>2. CASE delivery[d] # Absent
    <3>1. Stored(d)
      BY <1>0, <2>2 DEF Stored, Consistent, Tidy
    <3>2. post[d].count <= Cardinality(attempts[d])
      BY <3>1 DEF ChargedInv
    <3>3. CASE post'[d].count # post[d].count
      <4>1. PICK w \in Workers : /\ Dispatch(w) /\ worker[w].delivery = d /\ worker'[w] # Idle
                                 /\ post'[d].count = post[d].count + 1
        BY <3>3, PostStep
      <4>2. /\ worker[w] # Idle /\ Held(w) /\ Unspent(w) /\ attempts'[d] = attempts[d]
        BY <4>1, LaneEffect DEF Unspent
      <4>3. post[d].count < Cardinality(attempts[d])
        BY <3>1, <4>1, <4>2 DEF ChargedInv
      <4>. QED  BY <1>0, <4>1, <4>2, <4>3
    <3>4. ASSUME post'[d].count = post[d].count, Cardinality(attempts'[d]) = Cardinality(attempts[d])
          PROVE  post'[d].count <= Cardinality(attempts'[d])
      BY <3>2, <3>4
    <3>5. CASE post'[d].count = post[d].count
      <4>1. ASSUME attempts'[d] = attempts[d]  PROVE post'[d].count <= Cardinality(attempts'[d])
        BY <3>2, <3>5, <4>1
      <4>2. ASSUME NEW w \in Workers, Finish(w)  PROVE post'[d].count <= Cardinality(attempts'[d])
        <5>. DEFINE r == worker[w].result
        <5>1. worker[w] \in RecordingLane /\ r # "key"
          BY <4>2 DEF SideInv, Finish, LaneRow, Idle, ClaimedLane, AwayLane
        <5>2. r \in Outcome
          BY <5>1 DEF RecordingLane
        <5>3. CASE LeaseAccepted(w) /\ worker[w].delivery = d
          <6>1. delivery[d].status = "leased" /\ attempts'[d] = After(delivery[d], attempts[d], r)
            BY <4>2, <5>3 DEF Finish, LeaseAccepted, Held, Completed, After, RowsInv, RowShape
          <6>2. Cardinality(attempts'[d]) = Cardinality(attempts[d])
            BY <2>0, <5>2, <6>1, SettleConsistent
          <6>. QED  BY <3>4, <3>5, <6>2
        <5>4. CASE ~(LeaseAccepted(w) /\ worker[w].delivery = d)
          BY <4>1, <4>2, <5>4 DEF Finish, Completed, RowsInv, RowShape
        <5>. QED  BY <5>3, <5>4
      <4>3. ASSUME NEW w \in Workers, Defer(w)  PROVE post'[d].count <= Cardinality(attempts'[d])
        <5>1. CASE LeaseAccepted(w) /\ worker[w].delivery = d
          <6>1. /\ delivery[d].status = "leased" /\ worker[w].generation = delivery[d].generation
                /\ worker[w].number = delivery[d].count /\ Held(w)
            BY <5>1 DEF LeaseAccepted, Held
          <6>2. /\ attempts'[d] = attempts[d] \ {Row(delivery[d].generation, delivery[d].count, Open)}
                /\ worker[w] # Idle /\ Unspent(w)
            BY <4>3, <5>1, <6>1 DEF Defer, RowsInv, RowShape, Unspent, Idle
          <6>3. Row(delivery[d].generation, delivery[d].count, Open) \in attempts[d]
            BY <1>0, <6>1, OpenRow
          <6>4. Cardinality(attempts'[d]) = Cardinality(attempts[d]) - 1
            <7>. DEFINE x == Row(delivery[d].generation, delivery[d].count, Open)
            <7>1. x \in attempts[d] /\ attempts'[d] = attempts[d] \ {x}
              BY <6>2, <6>3
            <7>. HIDE DEF x
            <7>2. Cardinality(attempts[d] \ {x}) = Cardinality(attempts[d]) - 1
              BY <2>0, <7>1, FS_RemoveElement
            <7>. QED  BY <7>1, <7>2
          <6>5. post[d].count < Cardinality(attempts[d])
            BY <3>1, <5>1, <6>1, <6>2 DEF ChargedInv
          <6>. QED  BY <1>0, <3>5, <6>4, <6>5
        <5>2. CASE ~(LeaseAccepted(w) /\ worker[w].delivery = d)
          BY <4>1, <4>3, <5>2 DEF Defer, RowsInv, RowShape
        <5>. QED  BY <5>1, <5>2
      <4>4. ASSUME NEW c \in Deliveries, Recover(c)  PROVE post'[d].count <= Cardinality(attempts'[d])
        <5>1. CASE c = d
          <6>1. /\ delivery[d].status = "leased" /\ "failure" \in Outcome
                /\ attempts'[d] = After(delivery[d], attempts[d], "failure")
            BY <4>4, <5>1 DEF Recover, Completed, After, RowsInv, RowShape, Outcome
          <6>2. Cardinality(attempts'[d]) = Cardinality(attempts[d])
            BY <2>0, <6>1, SettleConsistent
          <6>. QED  BY <3>4, <3>5, <6>2
        <5>2. CASE c # d
          BY <4>1, <4>4, <5>2 DEF Recover, Completed, RowsInv, RowShape
        <5>. QED  BY <5>1, <5>2
      <4>5. ASSUME NEW c \in Deliveries, Prune(c)  PROVE post'[d].count <= Cardinality(attempts'[d])
        <5>1. c # d
          BY <1>2, <4>5 DEF Prune, RowsInv, RowShape, Absent
        <5>. QED  BY <4>1, <4>5, <5>1 DEF Prune, RowsInv, RowShape
      <4>6. ASSUME NEW e \in Endpoints, NEW s, Retire(e, s)
            PROVE  post'[d].count <= Cardinality(attempts'[d])
        <5>1. CASE attempts'[d] = attempts[d]
          BY <4>1, <5>1
        <5>2. CASE /\ delivery[d].status = "leased"
                   /\ attempts'[d] = After(delivery[d], attempts[d], "policy_rejected")
          <6>1. "policy_rejected" \in Outcome
            BY DEF Outcome
          <6>2. Cardinality(attempts'[d]) = Cardinality(attempts[d])
            BY <2>0, <5>2, <6>1, SettleConsistent
          <6>. QED  BY <3>4, <3>5, <6>2
        <5>. QED  BY <4>6, <5>1, <5>2 DEF Retire, Completed, After, RowsInv, RowShape
      <4>7. ASSUME NEW v \in Events, NEW a \in Accounts, Ingest(v, a)
            PROVE  post'[d].count <= Cardinality(attempts'[d])
        BY <4>1, <4>7 DEF Ingest
      <4>8. ASSUME NEW w \in Workers, Dispatch(w) \/ Return(w) \/ Abandon(w)
            PROVE  post'[d].count <= Cardinality(attempts'[d])
        BY <4>1, <4>8 DEF Dispatch, Return, Abandon, rowVars
      <4>9. ASSUME NEW c \in Deliveries, Replay(c) \/ BecomesDue(c) \/ LeaseExpires(c)
            PROVE  post'[d].count <= Cardinality(attempts'[d])
        BY <4>1, <4>9 DEF Replay, BecomesDue, LeaseExpires
      <4>10. ASSUME NEW e \in Endpoints, Enable(e) \/ FailureAges(e)
             PROVE  post'[d].count <= Cardinality(attempts'[d])
        BY <4>1, <4>10 DEF Enable, FailureAges, rowVars
      <4>11. ASSUME NEW e \in Endpoints, Disable(e) \/ Rotate(e)
             PROVE  post'[d].count <= Cardinality(attempts'[d])
        BY <4>6, <4>11 DEF Disable, Rotate
      <4>12. ASSUME UNCHANGED vars  PROVE post'[d].count <= Cardinality(attempts'[d])
        BY <4>1, <4>12 DEF vars, rowVars
      <4>. QED  BY <1>2, <4>2, <4>3, <4>4, <4>5, <4>7, <4>8, <4>9, <4>10, <4>11, <4>12 DEF NoClaim
    <3>. QED  BY <3>3, <3>5
  <2>. QED  BY <2>1, <2>2
<1>3. ASSUME NoClaim, NEW w \in Workers, worker'[w] # Idle, Held(w)', Unspent(w)'
      PROVE  post'[worker'[w].delivery].count < Cardinality(attempts'[worker'[w].delivery])
  <2>. DEFINE d == worker[w].delivery
  <2>1. /\ worker[w] # Idle /\ worker'[w].delivery = d /\ Held(w) /\ d \in Deliveries
        /\ Unspent(w) /\ attempts'[d] = attempts[d] /\ delivery'[d].owner = w
    BY <1>3, HeldStep
  <2>2. Stored(d)
    BY <2>1 DEF Held, Stored
  <2>3. post[d].count < Cardinality(attempts[d])
    BY <2>1, <2>2 DEF ChargedInv
  <2>4. post'[d].count = post[d].count
    <3>1. ASSUME NEW u \in Workers, Dispatch(u), worker[u].delivery = d, worker'[u] # Idle,
                 worker'[u].pc = "away", worker'[u].plan = "send"
          PROVE  FALSE
      <4>1. Held(u)
        BY <3>1, LaneEffect
      <4>2. delivery[d].owner = w /\ delivery[d].owner = u
        BY <2>1, <3>1, <4>1 DEF Held
      <4>. QED  BY <1>3, <3>1, <4>2 DEF Unspent
    <3>. QED  BY <2>1, <3>1, PostStep
  <2>. QED  BY <2>1, <2>3, <2>4
<1>4. ASSUME NEW w \in Workers, Claim(w), NEW c \in Deliveries, delivery'[c].status # "absent"
      PROVE  /\ post'[c].count <= Cardinality(attempts'[c])
             /\ \A v \in Workers : worker'[v] # Idle /\ worker'[v].delivery = c /\ Held(v)' /\ Unspent(v)'
                  => post'[c].count < Cardinality(attempts'[c])
  <2>1. PICK e \in Endpoints, d \in Deliveries : \E i \in Nat : ClaimOf(w, e, i, d)
    BY <1>4, ClaimEffect
  <2>2. PICK i \in Nat : ClaimOf(w, e, i, d)
    BY <2>1
  <2>3. /\ delivery' = [delivery EXCEPT ![d] = Claimed(delivery[d], w)]
        /\ attempts' = [attempts EXCEPT ![d] =
                          @ \union {Row(delivery[d].generation, delivery[d].count + 1, Open)}]
        /\ UNCHANGED post /\ delivery[d].status = "pending" /\ delivery[d].count < MaxAttempts
        /\ worker'[w].delivery = d /\ \A v \in Workers \ {w} : worker'[v] = worker[v]
    BY <2>2 DEF ClaimOf, SideInv
  <2>4. CASE c = d
    <3>0. IsFiniteSet(attempts[d]) /\ Cardinality(attempts[d]) \in Nat /\ post[d].count \in Nat
      BY <1>0
    <3>1. attempts'[d] = attempts[d] \union {Row(delivery[d].generation, delivery[d].count + 1, Open)}
      BY <2>3 DEF RowsInv, RowShape
    <3>2. Row(delivery[d].generation, delivery[d].count + 1, Open) \notin attempts[d]
      BY <1>0, <2>3, ClaimConsistent
    <3>3. Cardinality(attempts'[d]) = Cardinality(attempts[d]) + 1
      <4>. DEFINE x == Row(delivery[d].generation, delivery[d].count + 1, Open)
      <4>1. x \notin attempts[d] /\ attempts'[d] = attempts[d] \union {x}
        BY <3>1, <3>2
      <4>. HIDE DEF x
      <4>2. Cardinality(attempts[d] \union {x}) = Cardinality(attempts[d]) + 1
        BY <3>0, <4>1, FS_AddElement
      <4>. QED  BY <4>1, <4>2
    <3>4. post[d].count <= Cardinality(attempts[d])
      BY <2>3 DEF ChargedInv, Stored
    <3>5. post[d].count < Cardinality(attempts'[d]) /\ post[d].count <= Cardinality(attempts'[d])
      BY <3>0, <3>3, <3>4
    <3>6. post'[d] = post[d]
      BY <2>3
    <3>. QED  BY <2>4, <3>5, <3>6
  <2>5. CASE c # d
    <3>1. delivery'[c] = delivery[c] /\ attempts'[c] = attempts[c] /\ post'[c] = post[c]
      BY <2>3, <2>5 DEF RowsInv, RowShape
    <3>2. Stored(c)
      BY <1>4, <3>1 DEF Stored
    <3>3. ASSUME NEW v \in Workers, worker'[v] # Idle, worker'[v].delivery = c, Held(v)', Unspent(v)'
          PROVE  worker[v] # Idle /\ worker[v].delivery = c /\ Held(v) /\ Unspent(v)
      <4>1. worker'[v] = worker[v]
        BY <2>3, <2>5, <3>3
      <4>. QED  BY <3>1, <3>3, <4>1 DEF Held, Unspent
    <3>. QED  BY <3>1, <3>2, <3>3 DEF ChargedInv
  <2>. QED  BY <2>4, <2>5
<1>. QED  BY <1>1, <1>2, <1>3, <1>4, StepKinds DEF ChargedInv, Stored


-----------------------------------------------------------------------------
(***************************************************************************)
(* Theorems.                                                               *)
(***************************************************************************)
LEMMA WebhookInitial == WebhookInit => WebhookInv
<1>. SUFFICES ASSUME WebhookInit  PROVE WebhookInv
  OBVIOUS
<1>1. /\ \A d \in Deliveries : delivery[d] = Absent /\ attempts[d] = {}
      /\ \A w \in Workers : worker[w] = Idle
      /\ \A d \in Deliveries : post[d] = [count |-> 0, acked |-> FALSE, secret |-> 0]
      /\ \A e \in Endpoints : due[e] = <<>>
      /\ Absent.status = "absent" /\ Absent.reason = "none" /\ Idle.pc = "idle"
  BY DEF WebhookInit, Absent, Idle
<1>2. RowsInv
  <2>1. TablesAgree
    BY <1>1, FreshConsistent DEF TablesAgree
  <2>2. RowShape
    <3>1. Absent \in DeliveryRow
      BY FreshConsistent DEF Consistent
    <3>2. <<>> \in Seq(Deliveries)
      BY EmptySeq
    <3>. QED  BY <3>1, <3>2 DEF RowShape, WebhookInit
  <2>3. QueuesPending
    <3>1. Len(<<>>) = 0
      BY EmptySeq
    <3>. QED  BY <1>1, <3>1 DEF QueuesPending, Distinct
  <2>. QED  BY <1>1, <2>1, <2>2, <2>3 DEF RowsInv, FreshUnqueued, OneLease
<1>3. SideInv
  BY DEF SideInv, WebhookInit, LaneRow, EndpointRow, PostRow
<1>4. SecretsInv /\ AcksInv
  BY <1>1 DEF SecretsInv, AcksInv, Live, SignedWithOriginal
<1>5. ChargedInv
  BY <1>1 DEF ChargedInv, Stored
<1>. QED  BY <1>2, <1>3, <1>4, <1>5 DEF WebhookInv

LEMMA WebhookInductive == WebhookInv /\ [WebhookNext]_vars => WebhookInv'
BY RowsStep, SideStep, SecretsStep, AcksStep, ChargedStep DEF WebhookInv

\* The inductive invariant: what the tables, the queues, the lanes and the receiver
\* tell of each other between any two transactions.
THEOREM WebhookInvariant == WebhookSpec => []WebhookInv
BY WebhookInitial, WebhookInductive, PTL DEF WebhookSpec

\* webhook_deliveries, webhook_attempts and the claim order keep their shape: owner
\* and reason stand exactly where they belong, and a queue holds pending rows, once.
THEOREM WebhookWellFormed == WebhookSpec => []WebhookTypeOK
<1>1. WebhookInv => WebhookTypeOK
  <2>. SUFFICES ASSUME WebhookInv  PROVE WebhookTypeOK
    OBVIOUS
  <2>1. ASSUME NEW d \in Deliveries
        PROVE  LET row == delivery[d]
               IN  /\ row.status \in {"absent", "pending", "leased", "succeeded", "dead"}
                   /\ row.generation \in 1..MaxGenerations /\ row.count \in 0..MaxAttempts
                   /\ (row.owner # Nobody) = (row.status = "leased")
                   /\ (row.reason # "none") = (row.status = "dead")
                   /\ \A r \in attempts[d] : r.outcome \in Outcome \union {Open}
    <3>1. Consistent(delivery[d], attempts[d])
      BY DEF WebhookInv, RowsInv, TablesAgree
    <3>. QED  BY <3>1 DEF Consistent, Tidy, DeliveryRow, AttemptRow, Status
  <2>2. ASSUME NEW e \in Endpoints
        PROVE  /\ \A i, j \in 1..Len(due[e]) : due[e][i] = due[e][j] => i = j
               /\ \A d \in ToSet(due[e]) : EndpointOf(d) = e /\ delivery[d].status = "pending"
    BY NotQueued DEF WebhookInv, RowsInv, QueuesPending, Distinct
  <2>. QED  BY <2>1, <2>2 DEF WebhookTypeOK
<1>. QED  BY <1>1, WebhookInvariant, PTL

\* "Every attempt has a durable row", through claims, results, key failures, expired
\* leases, retirements and replays in any order.
THEOREM EveryAttemptHasItsRow == WebhookSpec => []AttemptsAccounted
<1>1. WebhookInv => AttemptsAccounted
  <2>. SUFFICES ASSUME WebhookInv, NEW d \in Deliveries, Stored(d)
                PROVE  LET row == delivery[d]
                           rows(g) == { r \in attempts[d] : r.generation = g }
                       IN  /\ Cardinality(rows(row.generation)) = row.count
                           /\ { r.number : r \in rows(row.generation) } = 1..row.count
                           /\ { r \in attempts[d] : r.outcome = Open } =
                                IF row.status = "leased" THEN {Row(row.generation, row.count, Open)}
                                                         ELSE {}
                           /\ \A g \in 1..(row.generation - 1) :
                                Cardinality(rows(g)) = MaxAttempts /\
                                \A r \in rows(g) : r.outcome = "failure"
                           /\ row.reason = "failed" =>
                                row.count = MaxAttempts /\
                                \A r \in rows(row.generation) : r.outcome = "failure"
    BY Zenon DEF AttemptsAccounted
  <2>. DEFINE row == delivery[d]
              rows == attempts[d]
              mine(g) == { r \in attempts[d] : r.generation = g }
  <2>1. Consistent(row, rows)
    BY DEF WebhookInv, RowsInv, TablesAgree
  <2>2. /\ row \in DeliveryRow /\ Tidy(row) /\ row.generation \in 1..MaxGenerations
        /\ MaxGenerations \in Nat
    BY <2>1, WebhookAssumption DEF Consistent, DeliveryRow
  <2>. HIDE DEF row, rows
  <2>3. Cardinality(mine(row.generation)) = row.count
        /\ { r.number : r \in mine(row.generation) } = 1..row.count
    <3>1. row.generation \in 1..row.generation /\ Top(row, row.generation) = row.count
      BY <2>2 DEF Top
    <3>. QED  BY <2>1, <3>1, CountedRows DEF rows
  <2>4. { r \in rows : r.outcome = Open } =
          IF row.status = "leased" THEN {Row(row.generation, row.count, Open)} ELSE {}
    <3>1. CASE row.status = "leased"
      <4>1. /\ Row(row.generation, row.count, Open) \in rows
            /\ \A r \in rows : r # Row(row.generation, row.count, Open) => r.outcome = "failure"
        BY <2>1, <3>1, OpenRow
      <4>2. Row(row.generation, row.count, Open).outcome = Open /\ Open # "failure"
        BY DEF Row, Open
      <4>. QED  BY <3>1, <4>1, <4>2
    <3>2. CASE row.status # "leased"
      BY <2>1, <3>2 DEF Consistent, Told
    <3>. QED  BY <3>1, <3>2
  <2>5. ASSUME NEW g \in 1..(row.generation - 1)
        PROVE  Cardinality(mine(g)) = MaxAttempts /\ \A r \in mine(g) : r.outcome = "failure"
    <3>1. g \in 1..row.generation /\ Top(row, g) = MaxAttempts /\ g < row.generation
      BY <2>2 DEF Top
    <3>2. Cardinality(mine(g)) = MaxAttempts
      BY <2>1, <3>1, CountedRows DEF rows
    <3>. QED  BY <2>1, <3>1, <3>2 DEF Consistent, Told, rows
  <2>6. ASSUME row.reason = "failed"
        PROVE  row.count = MaxAttempts /\ \A r \in mine(row.generation) : r.outcome = "failure"
    <3>1. row.count = MaxAttempts /\ row.status = "dead"
      BY <2>2, <2>6 DEF Tidy
    <3>2. \A r \in rows : r.outcome \in {"failure", Open} /\ r.outcome # Open
      BY <2>1, <2>6, <3>1 DEF Consistent, Told
    <3>. QED  BY <3>1, <3>2 DEF rows
  <2>. QED  BY <2>3, <2>4, <2>5, <2>6 DEF row, rows
<1>. QED  BY <1>1, WebhookInvariant, PTL

\* A receiver sees no more requests than the history shows.
THEOREM EverySendIsRecorded == WebhookSpec => []SendsRecorded
<1>1. WebhookInv => SendsRecorded
  BY DEF WebhookInv, ChargedInv, SendsRecorded
<1>. QED  BY <1>1, WebhookInvariant, PTL

\* "Success requires HTTP 2xx": finish_webhook believes only what a receiver said.
THEOREM SuccessWasSeen == WebhookSpec => []SuccessIsTrue
<1>1. WebhookInv => SuccessIsTrue
  BY DEF WebhookInv, AcksInv, SuccessIsTrue, RowsInv, TablesAgree, Consistent, Told
<1>. QED  BY <1>1, WebhookInvariant, PTL

\* The claim query's serialisation holds for lanes of any number of processes.
THEOREM LanesTakeTurns == WebhookSpec => []OneLaneEach
<1>1. WebhookInv => OneLaneEach
  <2>. SUFFICES ASSUME WebhookInv, NEW v \in Workers, NEW w \in Workers, v # w, worker[v] # Idle,
                       worker[w] # Idle, Held(v), Held(w),
                       EndpointOf(worker[v].delivery) = EndpointOf(worker[w].delivery)
                PROVE  FALSE
    BY DEF OneLaneEach
  <2>1. worker[v].delivery \in Deliveries /\ worker[w].delivery \in Deliveries
    BY DEF WebhookInv, SideInv, LaneRow, ClaimedLane, AwayLane, RecordingLane
  <2>2. worker[v].delivery = worker[w].delivery
    BY <2>1 DEF WebhookInv, RowsInv, OneLease, Held
  <2>. QED  BY <2>2 DEF Held
<1>. QED  BY <1>1, WebhookInvariant, PTL

\* No request leaves with a secret its delivery was not queued under, however
\* rotations, retries and replays interleave with the lane that posts.
THEOREM OriginalSecretSigns == WebhookSpec => []SignedWithOriginal
<1>1. WebhookInv => SignedWithOriginal
  BY DEF WebhookInv, SecretsInv
<1>. QED  BY <1>1, WebhookInvariant, PTL

\* "Retired deliveries can never be replayed": no transaction touches a delivery that
\* succeeded or was retired, but the one that prunes it.
THEOREM EndsAreFinal == WebhookSpec => EndedForGood
<1>1. ASSUME WebhookInv, [WebhookNext]_vars
      PROVE  \A d \in Deliveries :
               delivery[d].status = "succeeded" \/ delivery[d].reason = "retired" =>
                 delivery'[d] \in {delivery[d], Absent}
  <2>1. RowsInv /\ \A d \in Deliveries : MovedBy(d, Workers)
    BY <1>1, StepMoves DEF WebhookInv
  <2>. QED  BY <2>1, DeliveryFacts
<1>. QED  BY <1>1, WebhookInvariant, PTL DEF WebhookSpec, EndedForGood


=============================================================================
