--------------------------- MODULE FailoverQuorum ---------------------------
(***************************************************************************)
(* The decision model of crates/failover-quorum: what one controller makes *)
(* of one round of member reports.  Everything here is a function of its   *)
(* arguments; ObservationStore and FailoverExecutor hold the controller as *)
(* state and feed it.                                                      *)
(*                                                                         *)
(* A report says what one member saw at time "at": the epoch of a          *)
(* reachable writer, or 0 for an unreachable one, and which positive facts *)
(* it carries.  The code's Option<bool> evidence counts only as Some(true),*)
(* so a fact is a Boolean here.                                            *)
(***************************************************************************)
EXTENDS Naturals, FiniteSets, FiniteSetsExt

CONSTANTS
  Members,          \* the configured quorum
  Freshness,        \* how old an observation may be
  FailedChecks,     \* failed checks in a row before the writer is fenced
  RecoveryChecks,   \* good checks in a row before the former writer may rejoin
  RecoveryStable,   \* and how long they must span
  MaxStoredEpoch    \* the largest epoch the authority's column can hold

ASSUME QuorumAssumption ==
  /\ IsFiniteSet(Members)
  /\ FailedChecks \in Nat \ {0} /\ RecoveryChecks \in Nat \ {0}
  /\ Freshness \in Nat /\ RecoveryStable \in Nat /\ MaxStoredEpoch \in Nat

\* MemberObserver::observe: a member that saw the writer alive carries no stop
\* confirmation.  An indeterminate writer probe, or an epoch no row can hold,
\* makes it abstain: no report at all.
Observation(m, at, writer, facts) ==
  [member |-> m, at |-> at, writer |-> writer,
   facts |-> IF writer = 0 THEN facts ELSE facts \ {"stop"}]

Fact == {"fenced", "stop", "ready", "former"}

Fresh(at, now) == at <= now /\ now - at <= Freshness

FreshReports(reports, now) ==
  {r \in reports : r.member \in Members /\ Fresh(r.at, now)}

\* A member's reports make one vote: one reachable report decides its view of
\* the writer, a fact counts only if all of them carry it.
FoldVote(rs) ==
  [writer |-> Max({r.writer : r \in rs}),
   facts  |-> {f \in Fact : \A r \in rs : f \in r.facts}]

Votes(reports, now) ==
  LET fresh == FreshReports(reports, now)
  IN  [m \in {r.member : r \in fresh} |-> FoldVote({r \in fresh : r.member = m})]

Majority == Cardinality(Members) \div 2 + 1

Voters(votes)    == DOMAIN votes
Reachable(votes) == {m \in DOMAIN votes : votes[m].writer # 0}

\* Any fresh reachable vote vetoes a failure consensus.
Healthy(votes) == Cardinality(Reachable(votes)) >= Majority
Failure(votes) == Cardinality(Voters(votes)) >= Majority /\ Reachable(votes) = {}

Agreed(votes, fact) == Cardinality({m \in DOMAIN votes : fact \in votes[m].facts}) >= Majority

---------------------------------------------------------------------------
(* The controller.  "fails" counts a suspicion, the last four fields are   *)
(* those of a promotion.  Clocks start at 1: NoTime is stable_since_ms =   *)
(* None.                                                                   *)

NoTime == 0

Steady(max) ==
  [phase |-> "steady", max |-> max, fails |-> 0,
   new |-> 0, reconciled |-> FALSE, rejoined |-> FALSE, streak |-> 0, since |-> NoTime]

InSteady(c)  == [Steady(c.max) EXCEPT !.phase = "steady"]
InFencing(c) == [Steady(c.max) EXCEPT !.phase = "fencing"]
InPromoted(c, new) == [Steady(c.max) EXCEPT !.phase = "promoted", !.new = new]

\* Variant: a completed promotion is resumed like an intended one.
RestoreIntended(max, p) ==
  CASE p.phase = "steady"  -> Steady(max)
    [] p.phase = "fencing" -> InFencing(Steady(max))
    [] OTHER               -> InFencing(Steady(p.new - 1))

\* FailoverController::restore.  A promotion, intended or done, pins the epoch
\* memory below its epoch, so that it can only be decided again as it was.
RestoreController(max, p) ==
  CASE p.phase = "steady"    -> Steady(max)
    [] p.phase = "fencing"   -> InFencing(Steady(max))
    [] p.phase = "promoting" -> InFencing(Steady(p.new - 1))
    [] p.phase = "promoted"  -> [InPromoted(Steady(p.new - 1), p.new)
                                   EXCEPT !.reconciled = p.reconciled, !.rejoined = p.rejoined]

Outcome(c, decision) == [ctl |-> c, decision |-> decision]

\* observe_steady, observe_suspecting and enter_suspecting: consecutive failures
\* only; a round that is neither healthy nor failed starts the count again.
ObserveWriter(c, votes) ==
  IF Failure(votes)
    THEN IF c.fails + 1 >= FailedChecks
           THEN Outcome(InFencing(c), "fence")
           ELSE Outcome([c EXCEPT !.phase = "suspecting", !.fails = @ + 1], "hold")
    ELSE Outcome(InSteady(c), "hold")

PromotionDue(c, votes) ==
  /\ Failure(votes)
  /\ Agreed(votes, "fenced") /\ Agreed(votes, "stop") /\ Agreed(votes, "ready")
  /\ c.max # 0 /\ c.max < MaxStoredEpoch

ObserveFencing(c, votes) ==
  CASE Healthy(votes)         -> Outcome(InSteady(c), "cancel")
    [] PromotionDue(c, votes) -> Outcome(InPromoted(c, c.max + 1), "promote")
    [] OTHER                  -> Outcome(c, "hold")

ObservePromoted(c, votes, now) ==
  LET since == IF c.since = NoTime THEN now ELSE c.since
      again == [c EXCEPT !.streak = @ + 1, !.since = since]
  IN  IF ~c.reconciled THEN Outcome(c, "paused")
      ELSE IF c.rejoined THEN Outcome(c, "hold")
      ELSE IF ~Agreed(votes, "former")
        THEN Outcome([c EXCEPT !.streak = 0, !.since = NoTime], "hold")
      ELSE IF again.streak >= RecoveryChecks /\ now - since >= RecoveryStable
        THEN Outcome([again EXCEPT !.rejoined = TRUE], "rejoin")
      ELSE Outcome(again, "hold")

\* A round without a majority of fresh votes restarts what has not finished.
LoseEvidence(c) ==
  CASE c.phase = "suspecting" -> InSteady(c)
    [] c.phase = "promoted"   -> [c EXCEPT !.streak = 0, !.since = NoTime]
    [] OTHER                  -> c

\* FailoverController::observe.  Epochs are remembered from any number of votes.
Observe(c, reports, now) ==
  LET votes == Votes(reports, now)
      seen  == [c EXCEPT !.max = Max({@} \union {votes[m].writer : m \in DOMAIN votes})]
  IN  IF Cardinality(Voters(votes)) < Majority
        THEN Outcome(LoseEvidence(seen), "lost")
        ELSE CASE seen.phase \in {"steady", "suspecting"} -> ObserveWriter(seen, votes)
               [] seen.phase = "fencing"  -> ObserveFencing(seen, votes)
               [] seen.phase = "promoted" -> ObservePromoted(seen, votes, now)

=============================================================================
