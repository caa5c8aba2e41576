---------------------------- MODULE WebhookOutbox ---------------------------
(***************************************************************************)
(* The webhook outbox of crates/server: deliveries queued with each        *)
(* inbound event (inbound/mod.rs), the lanes that claim, post and record   *)
(* them (webhook_worker.rs), the owner's endpoint operations and replays   *)
(* (http_webhooks.rs) and the pruning of settled rows (retention.rs).      *)
(*                                                                         *)
(* Each database transaction is one action: they take the endpoint's row   *)
(* or the delivery's row first and hold it to the commit.  A lane keeps no *)
(* row and no socket while it posts, so anything may happen in between.    *)
(***************************************************************************)
EXTENDS Integers, Sequences, FiniteSets, SequencesExt

CONSTANTS
  Endpoints, Accounts, Events,
  Workers,         \* the lanes of all processes; each draws a worker_id of its own
  Nobody,          \* lease_owner is NULL
  Broken,          \* endpoints whose secret the worker's vault may fail to open
  MaxAttempts,     \* sends of one generation (7 in the code)
  MaxGenerations,  \* a first generation and the replays (3 in the code)
  MaxSecrets,      \* bound: signing secrets of an endpoint, one per rotation
  MaxPassed        \* bound: claims that pass over a row another transaction has locked

ASSUME WebhookAssumption ==
  /\ Broken \subseteq Endpoints /\ Nobody \notin Workers
  /\ MaxAttempts \in Nat \ {0} /\ MaxGenerations \in Nat \ {0} /\ MaxSecrets \in Nat \ {0}
  /\ MaxPassed \in Nat

Deliveries == Events \X Endpoints      \* UNIQUE (endpoint_id, event_id)
EndpointOf(d) == d[2]
Of(e) == { d \in Deliveries : EndpointOf(d) = e }

VARIABLES
  home,      \* the account of each endpoint
  endpoint,  \* webhook_endpoints: enabled, paused_at, failure_started_at, the secret
  ingested,  \* the events stored
  delivery,  \* webhook_deliveries
  attempts,  \* webhook_attempts of each delivery: a set of rows
  due,       \* pending deliveries by endpoint, in the order of their next_attempt_at
  turn,      \* accounts and endpoints in the order of last_claim_seq
  worker,    \* the lanes
  passed,    \* claims that passed over a locked row
  post       \* ghost: what left for the receiver, and the secret of the queueing

rowVars == <<delivery, attempts, due>>
vars    == <<home, endpoint, ingested, rowVars, turn, worker, passed, post>>

\* failure: timeout, http_error and network_error, which nothing tells apart.
Outcome == {"failure", "ack", "policy_rejected"}
Open    == "open"   \* completed_at IS NULL

Absent == [status |-> "absent", reason |-> "none", generation |-> 1, count |-> 0,
           owner |-> Nobody, live |-> FALSE]
Idle   == [pc |-> "idle"]

WebhookInit ==
  /\ home \in [Endpoints -> Accounts]
  /\ endpoint = [e \in Endpoints |->
                   [enabled |-> FALSE, paused |-> FALSE, failing |-> "no", secret |-> 1]]
  /\ ingested = {}
  /\ delivery = [d \in Deliveries |-> Absent]
  /\ attempts = [d \in Deliveries |-> {}]
  /\ due = [e \in Endpoints |-> <<>>]
  /\ turn = [accounts |-> SetToSeq(Accounts), endpoints |-> SetToSeq(Endpoints)]
  /\ worker = [w \in Workers |-> Idle]
  /\ passed = 0
  /\ post = [d \in Deliveries |-> [count |-> 0, acked |-> FALSE, secret |-> 0]]

Row(g, n, outcome) == [generation |-> g, number |-> n, outcome |-> outcome]

\* The row of the delivery's current attempt takes this outcome.
Completed(d, outcome) ==
  LET g == delivery[d].generation
      n == delivery[d].count
  IN  [attempts EXCEPT ![d] = (@ \ {Row(g, n, Open)}) \union {Row(g, n, outcome)}]

WithoutLease(row) == [row EXCEPT !.owner = Nobody, !.live = FALSE]
Requeued(row)     == [WithoutLease(row) EXCEPT !.status = "pending"]
GivenBack(row)    == [Requeued(row) EXCEPT !.count = @ - 1]   \* the attempt too

\* Variant: the lease columns stay on the dead row.
DeadOwned(row, reason) == [row EXCEPT !.status = "dead", !.reason = reason]

Dead(row, reason) == [WithoutLease(row) EXCEPT !.status = "dead", !.reason = reason]

\* retry_delay: no delay is left after the last attempt.
RetryLeft(row) == row.count < MaxAttempts
AfterFailure(row) == IF RetryLeft(row) THEN Requeued(row) ELSE Dead(row, "failed")

-----------------------------------------------------------------------------
(***************************************************************************)
(* Queueing, and time.                                                     *)
(***************************************************************************)

\* A stored event of account a queues one delivery for each endpoint enabled under
\* the share lock; an event already stored queues nothing.
Ingest(v, a) ==
  LET queued == { e \in Endpoints : home[e] = a /\ endpoint[e].enabled }
  IN  /\ v \notin ingested
      /\ ingested' = ingested \union {v}
      /\ delivery' = [d \in Deliveries |->
                        IF d[1] = v /\ d[2] \in queued
                        THEN [Absent EXCEPT !.status = "pending"] ELSE delivery[d]]
      /\ due' = [e \in Endpoints |-> IF e \in queued THEN Append(due[e], <<v, e>>) ELSE due[e]]
      /\ post' = [d \in Deliveries |->
                    IF d[1] = v /\ d[2] \in queued
                    THEN [post[d] EXCEPT !.secret = endpoint[d[2]].secret] ELSE post[d]]
      /\ UNCHANGED <<home, endpoint, attempts, turn, worker, passed>>

\* next_attempt_at passes.
BecomesDue(d) ==
  /\ delivery[d].status = "pending" /\ d \notin ToSet(due[EndpointOf(d)])
  /\ due' = [due EXCEPT ![EndpointOf(d)] = Append(@, d)]
  /\ UNCHANGED <<home, endpoint, ingested, delivery, attempts, turn, worker, passed, post>>

\* lease_until passes.
LeaseExpires(d) ==
  /\ delivery[d].status = "leased" /\ delivery[d].live
  /\ delivery' = [delivery EXCEPT ![d].live = FALSE]
  /\ UNCHANGED <<home, endpoint, ingested, attempts, due, turn, worker, passed, post>>

\* 72 hours pass since failure_started_at.
FailureAges(e) ==
  /\ endpoint[e].failing = "recent"
  /\ endpoint' = [endpoint EXCEPT ![e].failing = "long"]
  /\ UNCHANGED <<home, ingested, rowVars, turn, worker, passed, post>>

-----------------------------------------------------------------------------
(***************************************************************************)
(* A lane: claim, load, post, record.                                      *)
(***************************************************************************)

\* Where the due order of an endpoint has deliveries with an attempt left.
Ready(e) == { i \in 1..Len(due[e]) : delivery[due[e][i]].count < MaxAttempts }

\* Variant: a lease of another delivery is no obstacle.
ClaimableAlongside(e) == endpoint[e].enabled /\ ~endpoint[e].paused /\ Ready(e) # {}

\* An endpoint with a due delivery, none of whose deliveries is leased.
Claimable(e) ==
  /\ endpoint[e].enabled /\ ~endpoint[e].paused
  /\ Ready(e) # {}
  /\ \A d \in Of(e) : delivery[d].status # "leased"

\* Accounts first, then the endpoints of the account, by their cursors.
Before(e, f) ==
  LET at(seq, x) == CHOOSE i \in 1..Len(seq) : seq[i] = x
  IN  IF home[e] = home[f] THEN at(turn.endpoints, e) < at(turn.endpoints, f)
      ELSE at(turn.accounts, home[e]) < at(turn.accounts, home[f])

MovedBack(seq, x) == Append(SelectSeq(seq, LAMBDA y : y # x), x)

\* Variant: the cursors stay.
AfterClaimUnmoved(e) == turn

\* The claim draws webhook_claim_sequence for both cursors.
AfterClaim(e) == [accounts  |-> MovedBack(turn.accounts, home[e]),
                  endpoints |-> MovedBack(turn.endpoints, e)]

\* claim_webhook: the earliest due delivery of the endpoint whose turn it is, or of
\* a later one if a lock keeps the first out of sight at that moment.
Claim(w) ==
  /\ worker[w] = Idle
  /\ \E e \in Endpoints :
       LET first == \A f \in Endpoints \ {e} : Claimable(f) => Before(e, f)
           i == Min(Ready(e))
           d == due[e][i]
       IN  /\ Claimable(e)
           /\ first \/ passed < MaxPassed
           /\ passed' = IF first THEN passed ELSE passed + 1
           /\ delivery' = [delivery EXCEPT ![d].status = "leased", ![d].count = @ + 1,
                                           ![d].owner = w, ![d].live = TRUE]
           /\ attempts' = [attempts EXCEPT ![d] =
                             @ \union {Row(delivery[d].generation, delivery[d].count + 1, Open)}]
           /\ due' = [due EXCEPT ![e] = RemoveAt(@, i)]
           /\ turn' = AfterClaim(e)
           /\ worker' = [worker EXCEPT ![w] =
                           [pc |-> "claimed", delivery |-> d,
                            generation |-> delivery[d].generation, number |-> delivery[d].count + 1]]
  /\ UNCHANGED <<home, endpoint, ingested, post>>

\* The delivery is still leased to lane w for the attempt it claimed.
Held(w) ==
  LET row == delivery[worker[w].delivery]
  IN  /\ row.status = "leased" /\ row.owner = w
      /\ row.generation = worker[w].generation /\ row.count = worker[w].number

\* load_webhook_payload: a lease that is gone or an endpoint that is disabled ends
\* the dispatch.
Loadable(w) ==
  LET d == worker[w].delivery
  IN  Held(w) /\ delivery[d].live /\ endpoint[EndpointOf(d)].enabled

\* What dispatch_payload_with makes of the payload: the target is refused, the
\* secret cannot be opened, or the signed request leaves.
Plan(e) == {"policy_rejected", "send"} \union IF e \in Broken THEN {"key"} ELSE {}

\* Load and dispatch, with the secret as it is stored now.  After the load the lane
\* touches nothing shared before the request leaves, once for each load.
Dispatch(w) ==
  LET d == worker[w].delivery
  IN  /\ worker[w].pc = "claimed"
      /\ \/ /\ ~Loadable(w)
            /\ worker' = [worker EXCEPT ![w] = Idle] /\ UNCHANGED post
         \/ /\ Loadable(w)
            /\ \E plan \in Plan(EndpointOf(d)) :
                 /\ worker' = [worker EXCEPT ![w] =
                                 [pc |-> "away", delivery |-> d, generation |-> @.generation,
                                  number |-> @.number, plan |-> plan,
                                  secret |-> endpoint[EndpointOf(d)].secret]]
                 /\ post' = [post EXCEPT ![d].count = IF plan = "send" THEN @ + 1 ELSE @]
      /\ UNCHANGED <<home, endpoint, ingested, rowVars, turn, passed>>

\* Variant: a redirect counts as an answer.
OutcomeOfAnswer(answer) == IF answer # "none" THEN "ack" ELSE "failure"

\* What the lane makes of the answer it sees, or of seeing none.
OutcomeOf(answer) == IF answer = "2xx" THEN "ack" ELSE "failure"

\* The receiver answers, and the answer may be lost; then the transaction that
\* records the result begins.  Its now() is taken here, before the wait for the
\* rows: a lease that is over by then is refused (StaleLease), whatever follows.
Return(w) ==
  LET d == worker[w].delivery
      recording(result) ==
        worker' = [worker EXCEPT ![w] =
                     IF Held(w) /\ delivery[d].live
                     THEN [pc |-> "recording", delivery |-> d, generation |-> @.generation,
                           number |-> @.number, result |-> result]
                     ELSE Idle]
  IN  /\ worker[w].pc = "away"
      /\ IF worker[w].plan # "send" THEN recording(worker[w].plan) /\ UNCHANGED post
         ELSE \E answer \in {"2xx", "other", "none"}, lost \in BOOLEAN :
                /\ recording(OutcomeOf(IF lost THEN "none" ELSE answer))
                /\ post' = [post EXCEPT ![d].acked = @ \/ answer = "2xx"]
      /\ UNCHANGED <<home, endpoint, ingested, rowVars, turn, passed>>

\* The checks of finish_webhook and defer_webhook_key_failure under the row locks,
\* the open attempt row among them; the deadline was compared with the older now().
LeaseAccepted(w) ==
  /\ Held(w)
  /\ Row(worker[w].generation, worker[w].number, Open) \in attempts[worker[w].delivery]

\* What a recorded result does to its delivery ...
Recorded(row, result) ==
  CASE result = "ack" -> [WithoutLease(row) EXCEPT !.status = "succeeded"]
    [] result = "policy_rejected" -> Dead(row, result)
    [] OTHER -> AfterFailure(row)

\* ... and to the failure streak of its endpoint: paused once it spans 72 hours.
StreakAfter(ep, result) ==
  CASE result = "ack" -> [ep EXCEPT !.failing = "no"]
    [] result = "failure" -> [ep EXCEPT !.paused = @ \/ ep.failing = "long",
                                        !.failing = IF @ = "no" THEN "recent" ELSE @]
    [] OTHER -> ep

\* finish_webhook
Finish(w) ==
  LET d == worker[w].delivery
      r == worker[w].result
      e == EndpointOf(d)
  IN  /\ worker[w].pc = "recording" /\ r # "key"
      /\ IF LeaseAccepted(w)
         THEN /\ delivery' = [delivery EXCEPT ![d] = Recorded(@, r)]
              /\ attempts' = Completed(d, r)
              /\ endpoint' = [endpoint EXCEPT ![e] = StreakAfter(@, r)]
         ELSE UNCHANGED <<delivery, attempts, endpoint>>
      /\ worker' = [worker EXCEPT ![w] = Idle]
      /\ UNCHANGED <<home, ingested, due, turn, passed, post>>

\* Variant: the attempt is given back with its row left behind.
DeferKeepsRow(w) ==
  LET d == worker[w].delivery
  IN  /\ worker[w].pc = "recording" /\ worker[w].result = "key"
      /\ delivery' = IF LeaseAccepted(w)
                     THEN [delivery EXCEPT ![d] = GivenBack(@)]
                     ELSE delivery
      /\ worker' = [worker EXCEPT ![w] = Idle]
      /\ UNCHANGED <<home, endpoint, ingested, attempts, due, turn, passed, post>>

\* defer_webhook_key_failure: the attempt is given back, its row deleted.
Defer(w) ==
  LET d == worker[w].delivery
  IN  /\ worker[w].pc = "recording" /\ worker[w].result = "key"
      /\ IF LeaseAccepted(w)
         THEN /\ delivery' = [delivery EXCEPT ![d] = GivenBack(@)]
              /\ attempts' = [attempts EXCEPT ![d] =
                                @ \ {Row(worker[w].generation, worker[w].number, Open)}]
         ELSE UNCHANGED <<delivery, attempts>>
      /\ worker' = [worker EXCEPT ![w] = Idle]
      /\ UNCHANGED <<home, endpoint, ingested, due, turn, passed, post>>

\* A database error or the end of the process: the lease is left to expire.
Abandon(w) ==
  /\ worker[w] # Idle
  /\ worker' = [worker EXCEPT ![w] = Idle]
  /\ UNCHANGED <<home, endpoint, ingested, rowVars, turn, passed, post>>

\* Variant: a lost lease costs no attempt.
RecoverFree(d) ==
  /\ delivery[d].status = "leased" /\ ~delivery[d].live
  /\ delivery' = [delivery EXCEPT ![d] = GivenBack(@)]
  /\ attempts' = [attempts EXCEPT ![d] =
                    @ \ {Row(delivery[d].generation, delivery[d].count, Open)}]
  /\ UNCHANGED <<home, endpoint, ingested, due, turn, worker, passed, post>>

\* recover_expired_webhook_leases, once per lane tick: an expired lease is a timeout.
Recover(d) ==
  /\ delivery[d].status = "leased" /\ ~delivery[d].live
  /\ delivery' = [delivery EXCEPT ![d] = AfterFailure(@)]
  /\ attempts' = Completed(d, "failure")
  /\ UNCHANGED <<home, endpoint, ingested, due, turn, worker, passed, post>>

-----------------------------------------------------------------------------
(***************************************************************************)
(* The owner and retention.                                                *)
(***************************************************************************)

\* enable: clears pause and failure streak; the secret must open.
Enable(e) ==
  /\ endpoint' = [endpoint EXCEPT ![e].enabled = TRUE, ![e].paused = FALSE, ![e].failing = "no"]
  /\ UNCHANGED <<home, ingested, rowVars, turn, worker, passed, post>>

\* Variant: what has failed stays replayable.
RetiredQueued(row) ==
  IF row.status \in {"pending", "leased"} THEN Dead(row, "retired") ELSE row

\* What is queued or leased, and what could be replayed.
Retired(row) ==
  IF row.status \in {"pending", "leased"} \/ row.reason = "failed" THEN Dead(row, "retired") ELSE row

\* retire, for disable and rotate: the leased delivery's attempt is closed with it.
Retire(e, secret) ==
  /\ endpoint' = [endpoint EXCEPT ![e].enabled = FALSE, ![e].secret = secret]
  /\ delivery' = [d \in Deliveries |-> IF d \in Of(e) THEN Retired(delivery[d]) ELSE delivery[d]]
  /\ attempts' = [d \in Deliveries |->
                    IF d \in Of(e) /\ delivery[d].status = "leased"
                    THEN Completed(d, "policy_rejected")[d] ELSE attempts[d]]
  /\ due' = [due EXCEPT ![e] = <<>>]
  /\ UNCHANGED <<home, ingested, turn, worker, passed, post>>

Disable(e) == Retire(e, endpoint[e].secret)
Rotate(e)  == endpoint[e].secret < MaxSecrets /\ Retire(e, endpoint[e].secret + 1)

\* The rows of d's current generation.
CurrentRows(d) == { r \in attempts[d] : r.generation = delivery[d].generation }

\* Variant: any dead delivery may be replayed.
ReplayDead(d) ==
  LET row == delivery[d]
      e == EndpointOf(d)
  IN  /\ endpoint[e].enabled
      /\ row.status = "dead" /\ row.count = MaxAttempts /\ row.generation < MaxGenerations
      /\ Cardinality(CurrentRows(d)) = MaxAttempts
      /\ \A r \in CurrentRows(d) : r.outcome = "failure"
      /\ delivery' = [delivery EXCEPT ![d].status = "pending", ![d].reason = "none",
                                      ![d].generation = @ + 1, ![d].count = 0]
      /\ due' = [due EXCEPT ![e] = Append(@, d)]
      /\ UNCHANGED <<home, endpoint, ingested, attempts, turn, worker, passed, post>>

\* replay under a new request id: an exhausted failed delivery starts over in a new
\* generation.  A repeated request id changes nothing.
Replay(d) ==
  LET row == delivery[d]
      e == EndpointOf(d)
  IN  /\ endpoint[e].enabled
      /\ row.status = "dead" /\ row.reason = "failed" /\ row.count = MaxAttempts
      /\ row.generation < MaxGenerations
      /\ Cardinality(CurrentRows(d)) = MaxAttempts
      /\ \A r \in CurrentRows(d) : r.outcome = "failure"
      /\ delivery' = [delivery EXCEPT ![d].status = "pending", ![d].reason = "none",
                                      ![d].generation = @ + 1, ![d].count = 0]
      /\ due' = [due EXCEPT ![e] = Append(@, d)]
      /\ UNCHANGED <<home, endpoint, ingested, attempts, turn, worker, passed, post>>

\* Retention removes a settled delivery with its attempts.
Prune(d) ==
  /\ delivery[d].status \in {"succeeded", "dead"}
  /\ delivery' = [delivery EXCEPT ![d] = Absent]
  /\ attempts' = [attempts EXCEPT ![d] = {}]
  /\ UNCHANGED <<home, endpoint, ingested, due, turn, worker, passed, post>>

-----------------------------------------------------------------------------
Lane(w) == Claim(w) \/ Dispatch(w) \/ Return(w) \/ Finish(w) \/ Defer(w)

Owner == \/ \E e \in Endpoints : Enable(e) \/ Disable(e) \/ Rotate(e)
         \/ \E d \in Deliveries : Replay(d)

Time == \/ \E d \in Deliveries : BecomesDue(d) \/ LeaseExpires(d)
        \/ \E e \in Endpoints : FailureAges(e)

WebhookNext ==
  \/ \E v \in Events, a \in Accounts : Ingest(v, a)
  \/ \E w \in Workers : Lane(w) \/ Abandon(w)
  \/ \E d \in Deliveries : Recover(d) \/ Prune(d)
  \/ Owner \/ Time

WebhookSpec == WebhookInit /\ [][WebhookNext]_vars

\* One lane keeps running its loop, expired leases are recovered at the ticks, and
\* time passes; lanes may die and answers stay away as often as they like.
WebhookFairness(w) ==
  /\ WF_vars(Lane(w))
  /\ \A d \in Deliveries :
       WF_vars(BecomesDue(d)) /\ WF_vars(LeaseExpires(d)) /\ WF_vars(Recover(d))

-----------------------------------------------------------------------------
(***************************************************************************)
(* Properties.                                                             *)
(***************************************************************************)
Unsettled(d) == delivery[d].status \in {"pending", "leased"}
Stored(d)    == delivery[d].status # "absent"

\* Rows, lanes and queues keep their shape: an owner exactly on leased rows, a
\* reason exactly on dead ones, and only pending deliveries in the due order, once.
WebhookTypeOK ==
  /\ \A d \in Deliveries :
       LET row == delivery[d]
       IN  /\ row.status \in {"absent", "pending", "leased", "succeeded", "dead"}
           /\ row.generation \in 1..MaxGenerations /\ row.count \in 0..MaxAttempts
           /\ (row.owner # Nobody) = (row.status = "leased")
           /\ (row.reason # "none") = (row.status = "dead")
           /\ \A r \in attempts[d] : r.outcome \in Outcome \union {Open}
  /\ \A e \in Endpoints :
       /\ \A i, j \in 1..Len(due[e]) : due[e][i] = due[e][j] => i = j
       /\ \A d \in ToSet(due[e]) : EndpointOf(d) = e /\ delivery[d].status = "pending"

\* "Every attempt has a durable row": whatever leases expire, lanes die, keys fail
\* and owners retire or replay, the rows of a generation are numbered through, the
\* one open row belongs to the lease, earlier generations are full of failures, and
\* a delivery ends as failed only after all attempts of its generation failed.
AttemptsAccounted ==
  \A d \in Deliveries : Stored(d) =>
    LET row == delivery[d]
        rows(g) == { r \in attempts[d] : r.generation = g }
    IN  /\ Cardinality(rows(row.generation)) = row.count
        /\ { r.number : r \in rows(row.generation) } = 1..row.count
        /\ { r \in attempts[d] : r.outcome = Open } =
             IF row.status = "leased" THEN {Row(row.generation, row.count, Open)} ELSE {}
        /\ \A g \in 1..(row.generation - 1) :
             Cardinality(rows(g)) = MaxAttempts /\ \A r \in rows(g) : r.outcome = "failure"
        /\ row.reason = "failed" =>
             row.count = MaxAttempts /\ \A r \in rows(row.generation) : r.outcome = "failure"

\* "Attempts are bounded to seven total sends": every request that left is covered
\* by an attempt row of its own, so a receiver sees no more requests than the
\* history shows, and no key failure or lost lease makes room for another.
SendsRecorded ==
  \A d \in Deliveries : Stored(d) => post[d].count <= Cardinality(attempts[d])

\* "Success requires HTTP 2xx": the outbox believes a delivery acknowledged, in its
\* status or in its history, only if the receiver has acknowledged it.
SuccessIsTrue ==
  \A d \in Deliveries :
    /\ delivery[d].status = "succeeded" => post[d].acked
    /\ (\E r \in attempts[d] : r.outcome = "ack") => delivery[d].status = "succeeded"

\* One send at a time per endpoint: two lanes never both hold a current lease there.
OneLaneEach ==
  \A v, w \in Workers :
    v # w /\ worker[v] # Idle /\ worker[w] # Idle /\ Held(v) /\ Held(w) =>
      EndpointOf(worker[v].delivery) # EndpointOf(worker[w].delivery)

\* A delivery is sent only with "its original signing secret": none outlives a
\* rotation to be signed with the new one, by retry, recovery or replay.
SignedWithOriginal ==
  \A w \in Workers : worker[w].pc = "away" =>
    worker[w].secret = post[worker[w].delivery].secret

\* "Retired deliveries can never be replayed, and re-enabling cannot revive them",
\* nor does a late result change a delivery that has ended well.
EndedForGood ==
  [][ \A d \in Deliveries :
        delivery[d].status = "succeeded" \/ delivery[d].reason = "retired" =>
          delivery'[d] \in {delivery[d], Absent} ]_vars

\* "Continuous work cannot starve" another endpoint: a queued delivery whose secret
\* opens is settled unless its endpoint is paused, though another endpoint's
\* deliveries are deferred for ever.
HealthySettles ==
  \A d \in Deliveries : EndpointOf(d) \notin Broken =>
    (Unsettled(d) ~> (~Unsettled(d) \/ endpoint[EndpointOf(d)].paused))

=============================================================================
