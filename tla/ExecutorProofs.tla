--------------------------- MODULE ExecutorProofs ---------------------------
(***************************************************************************)
(* Proofs about the failover executors, for any number of replicas and     *)
(* members and every value of the bounds.                                  *)
(*                                                                         *)
(* The strengthening says what each replica's record looks like (Shape),   *)
(* what a tick may rely on whether its session lives or not (Outward), and *)
(* what a live session knows: that the journal it takes for durable is the *)
(* row, and how its controller, its open promotion and the epoch relate    *)
(* (Knows).  A call that fails ends the session's claim to be live, so     *)
(* that nothing has to be known of what became of it; a call that an       *)
(* abandoned session still carries out is sound for the row as it is,      *)
(* since nobody writes while that session holds the lock.                  *)
(***************************************************************************)
EXTENDS FailoverExecutor, SequenceTheorems, TLAPS

---------------------------------------------------------------------------
(* The shapes of the records. *)

Phase == {"none", "steady", "fencing", "promoting", "promoted"}

JournalRow ==
  [phase : Phase, max : Nat, new : Nat, reconciled : BOOLEAN, rejoined : BOOLEAN]

Controller ==
  [phase : {"none", "steady", "suspecting", "fencing", "promoted"}, max : Nat, fails : Nat,
   new : Nat, reconciled : BOOLEAN, rejoined : BOOLEAN, streak : Nat, since : Nat]

CallRow ==
  [kind : {"none", "hold", "state", "load", "fence", "promote", "save"},
   new : Nat, journal : JournalRow]

DbRow ==
  [epoch : Nat, dispatch : BOOLEAN, row : {"open", "fenced", "missing"}, journal : JournalRow]

Resting  == {"idle", "hold", "anchor", "snapshot", "load", "drop", "stop", "reset",
             "collect", "rejoin", "rejoined"}
Granting == {"intent", "host", "check", "cas", "witness", "promoted"}
Steps    == Resting \union Granting \union {"fence", "fenced"}
Starting == {"idle", "hold", "anchor", "snapshot", "load"}
Saving   == {"fenced", "promoted", "rejoined"}

ExecutorRow ==
  [conn : {"none", "open"}, ever : BOOLEAN, reacquired : BOOLEAN,
   ctl : Controller, journal : JournalRow, durable : JournalRow, base : Nat,
   pending : Seq(Nat), status : Statuses,
   pc : Steps,
   todo : Seq(Nat), fresh : BOOLEAN, anchored : Nat]

Types ==
  /\ db \in DbRow /\ backup \in DbRow
  /\ host \in Nat /\ anchor \in Nat
  /\ lock \in Executors \union {Nobody, Abandoned}
  /\ late \in CallRow /\ (late # NoCall => lock = Abandoned)
  /\ ex \in [Executors -> ExecutorRow]
  /\ moves \in Nat /\ restored \in BOOLEAN

---------------------------------------------------------------------------
(* What an executor's own record says. *)

\* At most one promotion is open, the one the controller has decided.
Grants(s) ==
  /\ \A i \in DOMAIN s.todo : s.todo[i] # 0 => s.ctl.phase = "promoted" /\ s.todo[i] = s.ctl.new
  /\ \A i \in DOMAIN s.pending :
       s.pending[i] # 0 => s.ctl.phase = "promoted" /\ s.pending[i] = s.ctl.new
  /\ \A i, j \in DOMAIN s.todo : s.todo[i] # 0 /\ s.todo[j] # 0 => i = j
  /\ \A i, j \in DOMAIN s.pending : s.pending[i] # 0 /\ s.pending[j] # 0 => i = j
  /\ \A i \in DOMAIN s.todo : \A j \in DOMAIN s.pending : s.todo[i] = 0 \/ s.pending[j] = 0

Open(s) == (\E i \in DOMAIN s.todo : s.todo[i] # 0) \/ (\E i \in DOMAIN s.pending : s.pending[i] # 0)

Place(s) ==
  /\ s.pc # "idle" => s.status \notin Terminal
  /\ s.ctl.phase = "none" => s.ctl = NoController
  /\ s.ctl = NoController => s.pending = <<>> /\ s.pc \in Starting
  /\ s.pc \in {"hold", "load"} => s.ctl = NoController
  /\ s.pc \in Resting <=> s.todo = <<>>
  /\ s.pc \in {"fence", "fenced"} => Head(s.todo) = 0
  /\ s.pc \in Granting => Head(s.todo) # 0

Shape(s) == Place(s) /\ Grants(s)

\* What a replica without a session knows.
Session(e) ==
  /\ ~ex[e].ever => /\ ex[e].ctl = NoController /\ ex[e].pc \in {"idle", "hold"}
                    /\ ~ex[e].reacquired /\ ex[e].conn = "none"
  /\ lock = e => ex[e].conn = "open"

---------------------------------------------------------------------------
(* The database, and what surrounds it. *)

Around == [host |-> host, anchor |-> anchor, moves |-> moves, restored |-> restored]

World == [host : Nat, anchor : Nat, moves : Nat, restored : BOOLEAN]

\* The epoch m has caught up with what journal j says of it.
Covers(j, m, w) ==
  /\ j.max <= m
  /\ j.phase = "promoting" => j.new # 0 /\ j.new <= m + 1
  /\ j.phase = "promoted" => j.new # 0 /\ j.new <= m
  /\ j.phase = "promoting" /\ w.moves = 0 => m <= j.new

Forward(j, k) ==
  /\ Rank(k) >= Rank(j)
  /\ Rank(k) = Rank(j) => (j.reconciled => k.reconciled) /\ (j.rejoined => k.rejoined)

\* A call that may be carried out.
CallSound(c, d, w) ==
  /\ c.kind = "promote" =>
       c.new # 0 /\ d.journal.phase = "promoting" /\ d.journal.new = c.new /\ w.host = c.new
  /\ c.kind = "save" => Forward(d.journal, c.journal) /\ Covers(c.journal, d.epoch, w)

---------------------------------------------------------------------------
(* What a live session knows. *)

Live(e) == Connected(e) /\ ~ex[e].reacquired

KnowsNothing(s, d, w) ==
  s.pc = "load" => /\ s.base <= d.epoch /\ (w.moves = 0 => s.base = d.epoch)
                   /\ Covers(d.journal, s.base, w)

KnowsJournal(s, d, w) ==
  /\ s.durable = d.journal
  /\ s.pc \notin Saving => s.journal = s.durable
  /\ s.pc \in Saving => CallSound(SaveCall(s.journal), d, w)
  /\ s.pc = "fenced" =>
       s.journal = s.durable \/ (s.journal.phase = "fencing" /\ s.durable.phase \in {"none", "steady"})
  /\ s.pc = "promoted" => s.journal.phase = "promoted"
  /\ s.pc = "rejoined" => s.journal.phase = "promoted" /\ s.durable.phase = "promoted"
  /\ s.pc \in {"host", "check", "cas", "witness"} => Intended(s, Head(s.todo))
  /\ s.pc = "intent" => ~Intended(s, Head(s.todo))

KnowsEpoch(s, d, w) ==
  /\ s.base <= d.epoch /\ (w.moves = 0 => s.base = d.epoch)
  /\ s.ctl.max <= d.epoch
  /\ s.pc = "witness" => Head(s.todo) <= d.epoch

KnowsGrant(s, w) ==
  /\ s.ctl.phase # "promoted" =>
       /\ w.moves = 0 => s.base <= s.ctl.max + 1
       /\ s.durable.phase = "promoting" => s.durable.new <= s.ctl.max + 1
       /\ s.durable.phase # "promoted" /\ s.journal.phase # "promoted"
  /\ Open(s) =>
       /\ w.moves = 0 => s.base <= s.ctl.new
       /\ s.durable.phase = "promoting" => s.durable.new <= s.ctl.new
       /\ s.durable.phase # "promoted"
       /\ s.ctl.new <= s.ctl.max + 1

Knows(s, d, w) ==
  IF s.ctl = NoController THEN KnowsNothing(s, d, w)
  ELSE KnowsJournal(s, d, w) /\ KnowsEpoch(s, d, w) /\ KnowsGrant(s, w)

\* What holds of a tick whether its session lives or not.
Outward(s, d, w) ==
  /\ s.anchored <= w.anchor
  /\ s.pc = "stop" => w.restored
  /\ s.status \in {"ahead", "inconsistent"} => w.restored
  /\ s.status = "superseded" => w.moves > 0
  /\ s.pc \in {"check", "cas", "witness"} => w.host = Head(s.todo)
  /\ s.pc = "witness" => w.restored \/ Head(s.todo) <= d.epoch

Rows ==
  /\ Covers(db.journal, db.epoch, Around) /\ Covers(backup.journal, backup.epoch, Around)
  /\ CallSound(late, db, Around)
  /\ ~restored => anchor <= db.epoch

Sound(e) ==
  /\ Shape(ex[e]) /\ Session(e) /\ Outward(ex[e], db, Around)
  /\ Live(e) => Knows(ex[e], db, Around)

ExecutorInv == Types /\ Rows /\ \A e \in Executors : Sound(e)

---------------------------------------------------------------------------
(* Operators. *)

\* The greater of two numbers.
LEMMA MaxOfTwo ==
  ASSUME NEW a \in Nat, NEW b \in Nat
  PROVE  Max({a, b}) \in Nat /\ Max({a, b}) = IF a >= b THEN a ELSE b
<1>1. CASE a >= b
  <2>1. \E x \in {a, b} : \A y \in {a, b} : x >= y
    BY <1>1
  <2>2. Max({a, b}) \in {a, b} /\ \A y \in {a, b} : Max({a, b}) >= y
    BY <2>1 DEF Max
  <2>. QED  BY <1>1, <2>2
<1>2. CASE ~(a >= b)
  <2>1. \E x \in {a, b} : \A y \in {a, b} : x >= y
    BY <1>2
  <2>2. Max({a, b}) \in {a, b} /\ \A y \in {a, b} : Max({a, b}) >= y
    BY <2>1 DEF Max
  <2>. QED  BY <1>2, <2>2
<1>. QED  BY <1>1, <1>2

\* A vote on a writer is the epoch or nothing when every report is.
LEMMA MaxOfReports ==
  ASSUME NEW k \in Nat, NEW S \in SUBSET {0, k}, S # {}
  PROVE  Max(S) \in {0, k}
<1>1. \E x \in S : \A y \in S : x >= y
  <2>1. CASE k \in S
    BY <2>1
  <2>2. CASE k \notin S
    <3>1. 0 \in S /\ \A y \in S : y = 0
      BY <2>2
    <3>. QED  BY <3>1
  <2>. QED  BY <2>1, <2>2
<1>. QED  BY <1>1 DEF Max

\* What a controller remembers is the old value or the epoch that was reported.
LEMMA MaxRemembered ==
  ASSUME NEW a \in Nat, NEW k \in Nat, NEW S \in SUBSET {0, k}
  PROVE  LET m == Max({a} \union S) IN m \in Nat /\ a <= m /\ (m = a \/ m = k)
<1>. DEFINE T == {a} \union S
<1>1. \E x \in T : \A y \in T : x >= y
  <2>1. CASE k \in S /\ k >= a
    BY <2>1
  <2>2. CASE k \in S /\ ~(k >= a)
    BY <2>2
  <2>3. CASE k \notin S
    BY <2>3
  <2>. QED  BY <2>1, <2>2, <2>3
<1>2. Max(T) \in T /\ \A y \in T : Max(T) >= y
  BY <1>1 DEF Max
<1>. HIDE DEF T
<1>3. a \in T /\ \A x \in T : x \in Nat /\ (x = a \/ x = k \/ (x = 0))
  BY DEF T
<1>4. Max(T) = 0 => Max(T) = a
  BY <1>2, <1>3
<1>. QED  BY <1>2, <1>3, <1>4 DEF T

\* Where FailoverController::observe may take a controller: a decided promotion
\* stays as decided, and a new one names the epoch after the last one remembered.
ObservedAs(c, r, k) ==
  /\ r.ctl \in Controller /\ r.ctl.phase # "none"
  /\ c.max <= r.ctl.max /\ (r.ctl.max = c.max \/ r.ctl.max = k)
  /\ c.phase = "promoted" =>
       r.ctl.phase = "promoted" /\ r.ctl.new = c.new /\ r.decision \notin {"fence", "promote"}
  /\ r.decision = "promote" => r.ctl.phase = "promoted" /\ r.ctl.new = r.ctl.max + 1
  /\ c.phase # "promoted" /\ r.decision # "promote" => r.ctl.phase # "promoted"

\* One round of FailoverController::observe, over the reports that the members can make.
LEMMA ObserveResult ==
  ASSUME NEW c \in Controller, c.phase # "none", db \in DbRow, NEW view
  PROVE  ObservedAs(c, Observe(c, Reports(view), 1), db.epoch)
<1>. DEFINE reports == Reports(view)
            votes == Votes(reports, 1)
            W == {votes[m].writer : m \in DOMAIN votes}
            top == Max({c.max} \union W)
            seen == [c EXCEPT !.max = top]
            r == Observe(c, reports, 1)
<1>1. db.epoch \in Nat
  BY DEF DbRow
<1>2. \A x \in reports : x.writer \in {0, db.epoch}
  BY DEF Reports, Observation
<1>3. W \in SUBSET {0, db.epoch}
  <2>. DEFINE fresh == FreshReports(reports, 1)
  <2>1. fresh \subseteq reports
    BY DEF FreshReports
  <2>2. /\ DOMAIN votes = {x.member : x \in fresh}
        /\ \A m \in DOMAIN votes : votes[m] = FoldVote({x \in fresh : x.member = m})
    BY DEF Votes
  <2>. HIDE DEF fresh, votes, reports
  <2>3. SUFFICES ASSUME NEW m \in DOMAIN votes
                 PROVE  votes[m].writer \in {0, db.epoch}
    BY <2>3
  <2>. DEFINE rs == {x \in fresh : x.member = m}
              S == {x.writer : x \in rs}
  <2>4. S \in SUBSET {0, db.epoch}
    BY <1>2, <2>1
  <2>5. S # {}
    BY <2>2
  <2>6. Max(S) \in {0, db.epoch}
    <3>. HIDE DEF S
    <3>. QED  BY <1>1, <2>4, <2>5, MaxOfReports
  <2>7. votes[m] = FoldVote(rs)
    BY <2>2
  <2>8. FoldVote(rs).writer = Max(S)
    BY DEF FoldVote
  <2>. QED  BY <2>6, <2>7, <2>8
<1>4. c.max \in Nat
  BY DEF Controller
<1>5. top \in Nat /\ c.max <= top /\ (top = c.max \/ top = db.epoch)
  <2>. HIDE DEF W
  <2>. QED  BY <1>1, <1>3, <1>4, MaxRemembered
<1>. HIDE DEF top
<1>6. seen \in Controller /\ seen.max = top /\ seen.phase = c.phase /\ seen.new = c.new
  BY <1>5 DEF Controller
<1>7. r = IF Cardinality(Voters(votes)) < Majority
            THEN Outcome(LoseEvidence(seen), "lost")
            ELSE CASE seen.phase \in {"steady", "suspecting"} -> ObserveWriter(seen, votes)
                   [] seen.phase = "fencing"  -> ObserveFencing(seen, votes)
                   [] seen.phase = "promoted" -> ObservePromoted(seen, votes, 1)
  BY DEF Observe, top
<1>. HIDE DEF votes, seen
<1>8. InSteady(seen) \in Controller /\ InSteady(seen).max = top /\ InSteady(seen).phase = "steady"
  BY <1>5, <1>6 DEF InSteady, Steady, Controller, NoTime
<1>9. /\ InFencing(seen) \in Controller /\ InFencing(seen).max = top
      /\ InFencing(seen).phase = "fencing"
  BY <1>5, <1>6 DEF InFencing, Steady, Controller, NoTime
<1>10. ASSUME NEW d \in Controller, d.phase # "none", d.max = top, NEW x,
              c.phase = "promoted" => d.phase = "promoted" /\ d.new = c.new /\ x \notin {"fence", "promote"},
              x = "promote" => d.phase = "promoted" /\ d.new = top + 1,
              c.phase # "promoted" /\ x # "promote" => d.phase # "promoted",
              r = Outcome(d, x)
       PROVE  ObservedAs(c, r, db.epoch)
  <2>1. r.ctl = d /\ r.decision = x
    BY <1>10 DEF Outcome
  <2>. QED  BY <1>5, <1>10, <2>1 DEF ObservedAs
<1>. SUFFICES ObservedAs(c, r, db.epoch)
  OBVIOUS
<1>. HIDE DEF r
<1>11. c.phase \in {"steady", "suspecting", "fencing", "promoted"}
  BY DEF Controller
<1>12. CASE Cardinality(Voters(votes)) < Majority
  <2>1. r = Outcome(LoseEvidence(seen), "lost")
    BY <1>7, <1>12
  <2>2. CASE c.phase = "suspecting"
    BY <1>6, <1>8, <1>10, <2>1, <2>2 DEF LoseEvidence
  <2>3. CASE c.phase = "promoted"
    <3>. DEFINE d == [seen EXCEPT !.streak = 0, !.since = NoTime]
    <3>1. d \in Controller /\ d.phase = "promoted" /\ d.max = top /\ d.new = c.new
      BY <1>6, <2>3 DEF Controller, NoTime
    <3>2. LoseEvidence(seen) = d
      BY <1>6, <2>3 DEF LoseEvidence
    <3>. HIDE DEF d
    <3>. QED  BY <1>10, <2>1, <2>3, <3>1, <3>2
  <2>4. CASE c.phase \in {"steady", "fencing"}
    <3>1. LoseEvidence(seen) = seen
      BY <1>6, <2>4 DEF LoseEvidence
    <3>. QED  BY <1>6, <1>10, <2>1, <2>4, <3>1
  <2>. QED  BY <1>11, <2>2, <2>3, <2>4
<1>13. CASE ~(Cardinality(Voters(votes)) < Majority) /\ c.phase \in {"steady", "suspecting"}
  <2>1. r = ObserveWriter(seen, votes)
    BY <1>6, <1>7, <1>13
  <2>. DEFINE n == seen.fails + 1
              d == [seen EXCEPT !.phase = "suspecting", !.fails = n]
  <2>2. d \in Controller /\ d.phase = "suspecting" /\ d.max = top
    <3>1. n \in Nat
      BY <1>6 DEF Controller
    <3>. HIDE DEF n
    <3>. QED  BY <1>6, <3>1 DEF Controller
  <2>3. r \in {Outcome(InFencing(seen), "fence"), Outcome(d, "hold"), Outcome(InSteady(seen), "hold")}
    BY <2>1 DEF ObserveWriter
  <2>. HIDE DEF d
  <2>. QED  BY <1>8, <1>9, <1>10, <1>13, <2>2, <2>3
<1>14. CASE ~(Cardinality(Voters(votes)) < Majority) /\ c.phase = "fencing"
  <2>1. r = ObserveFencing(seen, votes)
    BY <1>6, <1>7, <1>14
  <2>. DEFINE d == InPromoted(seen, seen.max + 1)
  <2>2. d \in Controller /\ d.phase = "promoted" /\ d.max = top /\ d.new = top + 1
    <3>. DEFINE n == top + 1
    <3>1. n \in Nat /\ d = InPromoted(seen, n)
      BY <1>5, <1>6
    <3>. HIDE DEF n, d
    <3>2. d.new = n /\ d.phase = "promoted" /\ d.max = top /\ d \in Controller
      BY <1>5, <1>6, <3>1 DEF InPromoted, Steady, NoTime, Controller
    <3>. QED  BY <3>2 DEF n
  <2>3. r \in {Outcome(InSteady(seen), "cancel"), Outcome(d, "promote"), Outcome(seen, "hold")}
    BY <2>1 DEF ObserveFencing
  <2>. HIDE DEF d
  <2>. QED  BY <1>6, <1>8, <1>10, <1>14, <2>2, <2>3
<1>15. CASE ~(Cardinality(Voters(votes)) < Majority) /\ c.phase = "promoted"
  <2>1. r = ObservePromoted(seen, votes, 1)
    BY <1>6, <1>7, <1>15
  <2>. DEFINE since == IF seen.since = NoTime THEN 1 ELSE seen.since
              n == seen.streak + 1
              again == [seen EXCEPT !.streak = n, !.since = since]
              none  == [seen EXCEPT !.streak = 0, !.since = NoTime]
              back  == [again EXCEPT !.rejoined = TRUE]
  <2>2. since \in Nat /\ n \in Nat
    BY <1>6 DEF Controller
  <2>. HIDE DEF since, n
  <2>3. again \in Controller /\ again.phase = "promoted" /\ again.max = top /\ again.new = c.new
    BY <1>6, <1>15, <2>2 DEF Controller
  <2>4. none \in Controller /\ none.phase = "promoted" /\ none.max = top /\ none.new = c.new
    BY <1>6, <1>15 DEF Controller, NoTime
  <2>5. r \in {Outcome(seen, "paused"), Outcome(seen, "hold"), Outcome(none, "hold"),
               Outcome(back, "rejoin"), Outcome(again, "hold")}
    BY <2>1 DEF ObservePromoted, since, n
  <2>. HIDE DEF again, none
  <2>6. back \in Controller /\ back.phase = "promoted" /\ back.max = top /\ back.new = c.new
    BY <2>3 DEF Controller
  <2>. HIDE DEF back
  <2>. QED  BY <1>6, <1>10, <1>15, <2>3, <2>4, <2>5, <2>6
<1>. QED  BY <1>11, <1>12, <1>13, <1>14, <1>15 DEF r

---------------------------------------------------------------------------
(* Moving through a tick. *)

SameSession(t, s) == t.conn = s.conn /\ t.ever = s.ever /\ t.reacquired = s.reacquired

SameBelief(t, s) ==
  t.ctl = s.ctl /\ t.journal = s.journal /\ t.durable = s.durable /\ t.base = s.base

SameMemory(t, s) == SameBelief(t, s) /\ t.status = s.status

\* The next call of a tick changes nothing that is remembered.
LEMMA AtFields ==
  ASSUME NEW s \in ExecutorRow, NEW p \in Steps
  PROVE  LET t == At(s, p)
         IN  /\ t \in ExecutorRow /\ SameSession(t, s) /\ SameMemory(t, s)
             /\ t.pc = p /\ t.anchored = 0 /\ t.pending = s.pending
             /\ t.todo = IF p = "idle" THEN <<>> ELSE s.todo
<1>. DEFINE q == IF p = "idle" THEN <<>> ELSE s.todo
            b == IF p = "idle" THEN FALSE ELSE s.fresh
            t == [s EXCEPT !.pc = p, !.anchored = 0, !.todo = q, !.fresh = b]
<1>1. At(s, p) = t
  BY DEF At
<1>2. q \in Seq(Nat) /\ b \in BOOLEAN
  <2>1. s.todo \in Seq(Nat) /\ s.fresh \in BOOLEAN
    BY DEF ExecutorRow
  <2>2. q \in Seq(Nat)
    BY <2>1
  <2>3. b \in BOOLEAN
    BY <2>1
  <2>. QED  BY <2>2, <2>3
<1>. HIDE DEF q, b
<1>3. t \in ExecutorRow
  BY <1>2 DEF ExecutorRow
<1>4. SameSession(t, s) /\ SameMemory(t, s)
  BY DEF ExecutorRow, SameSession, SameMemory, SameBelief
<1>5. t.pc = p /\ t.anchored = 0 /\ t.pending = s.pending /\ t.todo = q
  BY DEF ExecutorRow
<1>. HIDE DEF t
<1>. QED  BY <1>1, <1>3, <1>4, <1>5 DEF q

\* A row that is on its way to the next attempt, or past the last one.
Onward(t, s) ==
  /\ t \in ExecutorRow /\ SameSession(t, s) /\ SameMemory(t, s) /\ t.anchored = 0
  /\ t.pc \in {"idle", "collect", "fence", "host", "intent"}
  /\ t.pc = "host" => Intended(t, Head(t.todo))
  /\ t.pc = "intent" => ~Intended(t, Head(t.todo))
  /\ Shape(t)

\* The start of an attempt matches the action, and an intent that is durable is not repeated.
LEMMA ProceedFields ==
  ASSUME NEW s \in ExecutorRow, s.status \notin Terminal, s.ctl # NoController,
         s.ctl.phase # "none", Grants(s)
  PROVE  LET t == Proceed(s)
         IN  Onward(t, s) /\ t.todo = s.todo /\ t.pending = s.pending
<1>. DEFINE p == IF s.todo = <<>> THEN IF s.fresh THEN "idle" ELSE "collect"
                 ELSE IF Head(s.todo) = 0 THEN "fence"
                 ELSE IF Intended(s, Head(s.todo)) THEN "host" ELSE "intent"
            t == At(s, p)
<1>1. Proceed(s) = t
  BY DEF Proceed
<1>2. p \in Steps /\ p \in {"idle", "collect", "fence", "host", "intent"}
  BY DEF Steps, Resting, Granting
<1>3. /\ s.todo = <<>> <=> p \in {"idle", "collect"}
      /\ p = "fence" => Head(s.todo) = 0
      /\ p = "host" => Head(s.todo) # 0 /\ Intended(s, Head(s.todo))
      /\ p = "intent" => Head(s.todo) # 0 /\ ~Intended(s, Head(s.todo))
  OBVIOUS
<1>. HIDE DEF p
<1>4. /\ t \in ExecutorRow /\ SameSession(t, s) /\ SameMemory(t, s)
      /\ t.pc = p /\ t.anchored = 0 /\ t.pending = s.pending
      /\ t.todo = IF p = "idle" THEN <<>> ELSE s.todo
  BY <1>2, AtFields
<1>. HIDE DEF t
<1>5. t.todo = s.todo
  BY <1>3, <1>4
<1>6. Intended(t, Head(t.todo)) <=> Intended(s, Head(s.todo))
  BY <1>4, <1>5 DEF Intended, SameMemory, SameBelief
<1>7. Place(t)
  BY <1>2, <1>3, <1>4, <1>5 DEF Place, SameMemory, SameBelief, Resting, Granting, Starting
<1>8. Grants(t)
  BY <1>4, <1>5 DEF Grants, SameMemory, SameBelief
<1>. QED  BY <1>1, <1>2, <1>3, <1>4, <1>5, <1>6, <1>7, <1>8 DEF Onward, Shape

\* An action that is done leaves the queue; a promotion that is done was the only one.
LEMMA DoneOnward ==
  ASSUME NEW s \in ExecutorRow, Shape(s), s.todo # <<>>
  PROVE  LET t == Done(s)
         IN  /\ Onward(t, s) /\ (Open(t) => Open(s))
             /\ Head(s.todo) # 0 => ~Open(t)
<1>. DEFINE w == Tail(s.todo)
            u == [s EXCEPT !.todo = w]
            t == Done(s)
<1>1. s.todo \in Seq(Nat) /\ s.pending \in Seq(Nat) /\ s.fresh \in BOOLEAN
  BY DEF ExecutorRow
<1>2. /\ w \in Seq(Nat) /\ Len(w) = Len(s.todo) - 1
      /\ \A i \in DOMAIN w : i + 1 \in DOMAIN s.todo /\ w[i] = s.todo[i + 1] /\ i \in Nat /\ i > 0
      /\ 1 \in DOMAIN s.todo /\ Head(s.todo) = s.todo[1]
  BY <1>1
<1>3. u \in ExecutorRow /\ SameSession(u, s) /\ SameMemory(u, s) /\ u.todo = w
        /\ u.pending = s.pending
  <2>. HIDE DEF w
  <2>1. u \in ExecutorRow
    BY <1>2 DEF ExecutorRow
  <2>. QED  BY <2>1 DEF ExecutorRow, SameSession, SameMemory, SameBelief
<1>. HIDE DEF u, w
<1>4. s.status \notin Terminal /\ s.ctl # NoController /\ s.ctl.phase # "none"
  BY DEF Shape, Place, Resting, Starting
<1>5. Grants(u)
  <2>1. Grants(s)
    BY DEF Shape
  <2>2. \A i, j \in DOMAIN w : w[i] # 0 /\ w[j] # 0 => i = j
    <3>. SUFFICES ASSUME NEW i \in DOMAIN w, NEW j \in DOMAIN w, w[i] # 0, w[j] # 0
                  PROVE  i = j
      OBVIOUS
    <3>1. i + 1 = j + 1
      BY <1>2, <2>1 DEF Grants
    <3>. QED  BY <1>2, <3>1
  <2>3. \A i \in DOMAIN w : w[i] # 0 => s.ctl.phase = "promoted" /\ w[i] = s.ctl.new
    BY <1>2, <2>1 DEF Grants
  <2>4. \A i \in DOMAIN w : \A j \in DOMAIN s.pending : w[i] = 0 \/ s.pending[j] = 0
    BY <1>2, <2>1 DEF Grants
  <2>. QED  BY <1>3, <2>1, <2>2, <2>3, <2>4 DEF Grants, SameMemory, SameBelief
<1>6. t = Proceed(u)
  BY DEF Done, u, w
<1>. HIDE DEF t
<1>7. Onward(t, u) /\ t.todo = w /\ t.pending = s.pending
  BY <1>3, <1>4, <1>5, <1>6, ProceedFields DEF SameMemory, SameBelief
<1>8. Onward(t, s)
  BY <1>3, <1>7 DEF Onward, SameSession, SameMemory, SameBelief
<1>9. Open(t) => Open(s)
  BY <1>2, <1>7 DEF Open
<1>10. Head(s.todo) # 0 => ~Open(t)
  <2>. SUFFICES ASSUME s.todo[1] # 0, Open(t) PROVE FALSE
    BY <1>2
  <2>1. CASE \E i \in DOMAIN w : w[i] # 0
    <3>1. PICK i \in DOMAIN w : w[i] # 0
      BY <2>1
    <3>2. i + 1 = 1
      BY <1>2, <3>1 DEF Shape, Grants
    <3>. QED  BY <1>2, <3>2
  <2>2. CASE \E i \in DOMAIN s.pending : s.pending[i] # 0
    BY <1>2, <2>2 DEF Shape, Grants
  <2>. QED  BY <1>7, <2>1, <2>2 DEF Open
<1>. QED  BY <1>8, <1>9, <1>10 DEF t

\* An action that is parked is still there.
LEMMA ParkOnward ==
  ASSUME NEW s \in ExecutorRow, Shape(s), s.todo # <<>>
  PROVE  LET t == Park(s) IN Onward(t, s) /\ (Open(t) => Open(s))
<1>. DEFINE w == Tail(s.todo)
            q == Append(s.pending, Head(s.todo))
            u == [s EXCEPT !.pending = q, !.todo = w]
            t == Park(s)
<1>1. s.todo \in Seq(Nat) /\ s.pending \in Seq(Nat)
  BY DEF ExecutorRow
<1>2. /\ w \in Seq(Nat) /\ Len(w) = Len(s.todo) - 1
      /\ \A i \in DOMAIN w : i + 1 \in DOMAIN s.todo /\ w[i] = s.todo[i + 1] /\ i \in Nat /\ i > 0
      /\ 1 \in DOMAIN s.todo /\ Head(s.todo) = s.todo[1] /\ s.todo[1] \in Nat
  BY <1>1
<1>3. /\ q \in Seq(Nat) /\ Len(s.pending) \in Nat /\ DOMAIN s.pending = 1 .. Len(s.pending)
      /\ DOMAIN q = 1 .. Len(s.pending) + 1
      /\ \A i \in DOMAIN s.pending : q[i] = s.pending[i]
      /\ q[Len(s.pending) + 1] = s.todo[1]
  BY <1>1, <1>2
<1>4. u \in ExecutorRow /\ SameSession(u, s) /\ SameMemory(u, s) /\ u.todo = w /\ u.pending = q
  <2>. HIDE DEF w, q
  <2>1. u \in ExecutorRow
    BY <1>2, <1>3 DEF ExecutorRow
  <2>. QED  BY <2>1 DEF ExecutorRow, SameSession, SameMemory, SameBelief
<1>5. t = Proceed(u)
  BY DEF Park
<1>. HIDE DEF u, w, q, t
<1>6. s.status \notin Terminal /\ s.ctl # NoController /\ s.ctl.phase # "none"
  BY DEF Shape, Place, Resting, Starting
<1>7. Grants(s)
  BY DEF Shape
<1>8. \A i \in DOMAIN q : \/ i \in DOMAIN s.pending /\ q[i] = s.pending[i]
                          \/ i = Len(s.pending) + 1 /\ q[i] = s.todo[1]
  BY <1>3
<1>9. Grants(u)
  <2>1. \A i, j \in DOMAIN w : w[i] # 0 /\ w[j] # 0 => i = j
    <3>. SUFFICES ASSUME NEW i \in DOMAIN w, NEW j \in DOMAIN w, w[i] # 0, w[j] # 0
                  PROVE  i = j
      OBVIOUS
    <3>1. i + 1 = j + 1
      BY <1>2, <1>7 DEF Grants
    <3>. QED  BY <1>2, <3>1
  <2>2. \A i, j \in DOMAIN q : q[i] # 0 /\ q[j] # 0 => i = j
    BY <1>2, <1>7, <1>8 DEF Grants
  <2>3. \A i \in DOMAIN w : \A j \in DOMAIN q : w[i] = 0 \/ q[j] = 0
    <3>. SUFFICES ASSUME NEW i \in DOMAIN w, NEW j \in DOMAIN q, w[i] # 0, q[j] # 0
                  PROVE  FALSE
      OBVIOUS
    <3>1. CASE j \in DOMAIN s.pending /\ q[j] = s.pending[j]
      BY <1>2, <1>7, <3>1 DEF Grants
    <3>2. CASE q[j] = s.todo[1]
      <4>1. i + 1 = 1
        BY <1>2, <1>7, <3>2 DEF Grants
      <4>. QED  BY <1>2, <4>1
    <3>. QED  BY <1>8, <3>1, <3>2
  <2>4. \A i \in DOMAIN w : w[i] # 0 => s.ctl.phase = "promoted" /\ w[i] = s.ctl.new
    BY <1>2, <1>7 DEF Grants
  <2>5. \A i \in DOMAIN q : q[i] # 0 => s.ctl.phase = "promoted" /\ q[i] = s.ctl.new
    BY <1>2, <1>7, <1>8 DEF Grants
  <2>. QED  BY <1>4, <2>1, <2>2, <2>3, <2>4, <2>5 DEF Grants, SameMemory, SameBelief
<1>10. Onward(t, u) /\ t.todo = w /\ t.pending = q
  BY <1>4, <1>5, <1>6, <1>9, ProceedFields DEF SameMemory, SameBelief
<1>11. Onward(t, s)
  BY <1>4, <1>10 DEF Onward, SameSession, SameMemory, SameBelief
<1>12. Open(t) => Open(s)
  BY <1>2, <1>8, <1>10 DEF Open
<1>. QED  BY <1>11, <1>12 DEF t

\* The tick takes up what is pending.
LEMMA RetryOnward ==
  ASSUME NEW s \in ExecutorRow, Grants(s), s.todo = <<>>, s.status \notin Terminal,
         s.ctl # NoController, s.ctl.phase # "none"
  PROVE  LET t == Retry(s) IN Onward(t, s) /\ (Open(t) => Open(s))
<1>. DEFINE q == s.pending
            u == [s EXCEPT !.todo = q, !.pending = <<>>, !.fresh = FALSE]
            t == Retry(s)
<1>1. q \in Seq(Nat) /\ <<>> \in Seq(Nat)
  <2>1. s.pending \in Seq(Nat)
    BY DEF ExecutorRow
  <2>. QED  BY <2>1
<1>2. t = Proceed(u)
  BY DEF Retry
<1>3. u \in ExecutorRow /\ SameSession(u, s) /\ SameMemory(u, s) /\ u.todo = q /\ u.pending = <<>>
  <2>. HIDE DEF q
  <2>. DEFINE none == <<>>
  <2>1. none \in Seq(Nat)
    BY <1>1
  <2>2. u = [s EXCEPT !.todo = q, !.pending = none, !.fresh = FALSE]
    OBVIOUS
  <2>. HIDE DEF none, u
  <2>3. u \in ExecutorRow
    BY <1>1, <2>1, <2>2 DEF ExecutorRow
  <2>4. SameSession(u, s) /\ SameMemory(u, s) /\ u.todo = q /\ u.pending = none
    BY <2>2 DEF ExecutorRow, SameSession, SameMemory, SameBelief
  <2>. QED  BY <2>3, <2>4 DEF none
<1>. HIDE DEF u, t
<1>4. Grants(u)
  BY <1>3 DEF Grants, SameMemory, SameBelief
<1>5. Onward(t, u) /\ t.todo = q /\ t.pending = <<>>
  BY <1>2, <1>3, <1>4, ProceedFields DEF SameMemory, SameBelief
<1>6. Onward(t, s)
  BY <1>3, <1>5 DEF Onward, SameSession, SameMemory, SameBelief
<1>7. Open(t) => Open(s)
  BY <1>5 DEF Open
<1>. QED  BY <1>6, <1>7 DEF t

\* The tick takes up what the controller has decided.
LEMMA AttemptOnward ==
  ASSUME NEW s \in ExecutorRow, Grants(s), s.status \notin Terminal,
         s.ctl # NoController, s.ctl.phase # "none", NEW a \in Nat,
         a = 0 \/ (s.ctl.phase = "promoted" /\ a = s.ctl.new /\ ~Open(s))
  PROVE  LET t == Attempt(s, a) IN Onward(t, s) /\ (Open(t) => Open(s) \/ a # 0)
<1>. DEFINE q == <<a>>
            u == [s EXCEPT !.todo = q, !.fresh = TRUE]
            t == Attempt(s, a)
<1>1. q \in Seq(Nat) /\ DOMAIN q = {1} /\ q[1] = a
  OBVIOUS
<1>2. t = Proceed(u)
  BY DEF Attempt
<1>. HIDE DEF q
<1>3. u \in ExecutorRow /\ SameSession(u, s) /\ SameMemory(u, s) /\ u.todo = q /\ u.pending = s.pending
  <2>1. u \in ExecutorRow
    BY <1>1 DEF ExecutorRow
  <2>. QED  BY <2>1 DEF ExecutorRow, SameSession, SameMemory, SameBelief
<1>. HIDE DEF u, t
<1>4. Grants(u)
  BY <1>1, <1>3 DEF Grants, SameMemory, SameBelief, Open
<1>5. Onward(t, u) /\ t.todo = q /\ t.pending = s.pending
  BY <1>2, <1>3, <1>4, ProceedFields DEF SameMemory, SameBelief
<1>6. Onward(t, s)
  BY <1>3, <1>5 DEF Onward, SameSession, SameMemory, SameBelief
<1>7. Open(t) => Open(s) \/ a # 0
  BY <1>1, <1>5 DEF Open
<1>. QED  BY <1>6, <1>7 DEF t

---------------------------------------------------------------------------
(* Calls. *)

\* The empty rows.
LEMMA NoRows ==
  /\ NoJournal \in JournalRow /\ NoController \in Controller
  /\ NoController.phase = "none" /\ NoController # Steady(0)
  /\ NoCall \in CallRow /\ NoCall.kind = "none" /\ NoJournal.phase = "none" /\ NoJournal.max = 0
  /\ NoJournal.reconciled = FALSE /\ NoJournal.rejoined = FALSE
<1>1. NoJournal \in JournalRow /\ NoJournal.phase = "none" /\ NoJournal.max = 0
      /\ NoJournal.reconciled = FALSE /\ NoJournal.rejoined = FALSE
  BY DEF NoJournal, JournalRow, Phase
<1>2. NoController \in Controller /\ NoController.phase = "none"
  BY DEF NoController, Steady, Controller, NoTime
<1>3. Steady(0).phase = "steady"
  BY DEF Steady
<1>4. NoCall \in CallRow /\ NoCall.kind = "none"
  BY <1>1 DEF NoCall, Call, CallRow
<1>. QED  BY <1>1, <1>2, <1>3, <1>4

\* The calls of a tick.
LEMMA CallRows ==
  /\ \A k \in {"none", "hold", "state", "load", "fence"} : Call(k) \in CallRow /\ Call(k).kind = k
  /\ \A n \in Nat : /\ PromoteCall(n) \in CallRow /\ PromoteCall(n).kind = "promote"
                    /\ PromoteCall(n).new = n
  /\ \A j \in JournalRow : /\ SaveCall(j) \in CallRow /\ SaveCall(j).kind = "save"
                           /\ SaveCall(j).journal = j
BY NoRows DEF Call, PromoteCall, SaveCall, CallRow

\* A journal is not behind itself.
LEMMA ForwardSame ==
  ASSUME NEW j \in JournalRow
  PROVE  Forward(j, j)
<1>1. Rank(j) \in Nat
  BY DEF Rank, JournalRow, Phase
<1>. QED  BY <1>1 DEF Forward

\* What a sound call makes of the database.
LEMMA EffectFacts ==
  ASSUME NEW c \in CallRow, NEW d \in DbRow, NEW w \in World,
         CallSound(c, d, w), Covers(d.journal, d.epoch, w)
  PROVE  LET r == Effect(c, d)
         IN  /\ r \in DbRow /\ d.epoch <= r.epoch
             /\ Covers(r.journal, r.epoch, w) /\ Forward(d.journal, r.journal)
             /\ c.kind # "save" => r.journal = d.journal
             /\ c.kind = "save" => r.journal = c.journal
             /\ c.kind # "promote" => r.epoch = d.epoch
             /\ c.kind = "promote" /\ Promotes(c.new, d) => r.epoch = c.new
             /\ d.epoch < r.epoch =>
                  /\ d.journal.phase = "promoting" /\ d.journal.new = r.epoch
                  /\ w.host = r.epoch /\ d.row = "fenced" /\ ~r.dispatch
<1>. DEFINE r == Effect(c, d)
<1>1. d.epoch \in Nat /\ d.journal \in JournalRow /\ c.new \in Nat /\ c.journal \in JournalRow
      /\ d.journal.new \in Nat /\ d.journal.max \in Nat
  BY DEF DbRow, CallRow, JournalRow
<1>2. Forward(d.journal, d.journal)
  BY <1>1, ForwardSame
<1>3. CASE c.kind = "hold"
  <2>1. r = [d EXCEPT !.dispatch = FALSE]
    BY <1>3 DEF Effect
  <2>2. r \in DbRow /\ r.journal = d.journal /\ r.epoch = d.epoch
    BY <2>1 DEF DbRow
  <2>. QED  BY <1>1, <1>2, <1>3, <2>2
<1>4. CASE c.kind = "fence"
  <2>1. r = d \/ r = [d EXCEPT !.row = "fenced"]
    BY <1>4 DEF Effect
  <2>2. r \in DbRow /\ r.journal = d.journal /\ r.epoch = d.epoch
    BY <2>1 DEF DbRow
  <2>. QED  BY <1>1, <1>2, <1>4, <2>2
<1>5. CASE c.kind = "promote" /\ Promotes(c.new, d)
  <2>1. r = [d EXCEPT !.epoch = c.new, !.dispatch = FALSE]
    BY <1>5 DEF Effect
  <2>2. r \in DbRow /\ r.journal = d.journal /\ r.epoch = c.new /\ r.dispatch = FALSE
    BY <1>1, <2>1 DEF DbRow
  <2>3. d.epoch <= c.new /\ d.row = "fenced" /\ d.journal.phase = "promoting"
        /\ d.journal.new = c.new /\ w.host = c.new
    BY <1>5 DEF Promotes, CallSound
  <2>4. Covers(d.journal, c.new, w)
    BY <1>1, <2>3 DEF Covers
  <2>. QED  BY <1>1, <1>2, <1>5, <2>2, <2>3, <2>4
<1>6. CASE c.kind = "promote" /\ ~Promotes(c.new, d)
  <2>1. r = d
    BY <1>6 DEF Effect
  <2>. QED  BY <1>1, <1>2, <1>6, <2>1
<1>7. CASE c.kind = "save"
  <2>1. r = [d EXCEPT !.journal = c.journal]
    BY <1>7 DEF Effect
  <2>2. r \in DbRow /\ r.journal = c.journal /\ r.epoch = d.epoch
    BY <1>1, <2>1 DEF DbRow
  <2>. QED  BY <1>1, <1>7, <2>2 DEF CallSound
<1>8. CASE c.kind \notin {"hold", "fence", "promote", "save"}
  <2>1. r = d
    BY <1>8 DEF Effect
  <2>. QED  BY <1>1, <1>2, <1>8, <2>1
<1>. QED  BY <1>3, <1>4, <1>5, <1>6, <1>7, <1>8

---------------------------------------------------------------------------
(* What a step leaves of the others. *)

\* A record with the same memory and place.
Twin(t, s) ==
  /\ t \in ExecutorRow /\ SameMemory(t, s)
  /\ t.pending = s.pending /\ t.pc = s.pc /\ t.todo = s.todo /\ t.anchored = s.anchored

\* What is said of a record depends on its memory and its place alone.
LEMMA TwinSound ==
  ASSUME NEW s, NEW t, NEW d, NEW w, Twin(t, s)
  PROVE  /\ Shape(s) => Shape(t)
         /\ Outward(s, d, w) => Outward(t, d, w)
         /\ Knows(s, d, w) => Knows(t, d, w)
<1>1. Grants(s) => Grants(t)
  BY DEF Twin, SameMemory, SameBelief, Grants
<1>2. Place(s) => Place(t)
  BY DEF Twin, SameMemory, SameBelief, Place
<1>3. Outward(s, d, w) => Outward(t, d, w)
  BY DEF Twin, SameMemory, SameBelief, Outward
<1>4. (Open(s) <=> Open(t)) /\ \A n : Intended(s, n) <=> Intended(t, n)
  BY DEF Twin, SameMemory, SameBelief, Open, Intended
<1>5. KnowsGrant(s, w) => KnowsGrant(t, w)
  BY <1>4 DEF Twin, SameMemory, SameBelief, KnowsGrant
<1>6. KnowsEpoch(s, d, w) => KnowsEpoch(t, d, w)
  BY DEF Twin, SameMemory, SameBelief, KnowsEpoch
<1>7. KnowsJournal(s, d, w) => KnowsJournal(t, d, w)
  BY <1>4 DEF Twin, SameMemory, SameBelief, KnowsJournal
<1>8. KnowsNothing(s, d, w) => KnowsNothing(t, d, w)
  BY DEF Twin, SameMemory, SameBelief, KnowsNothing
<1>. QED  BY <1>1, <1>2, <1>3, <1>5, <1>6, <1>7, <1>8 DEF Shape, Knows, Twin, SameMemory, SameBelief

\* Time passes outside: the anchor rises, a host once fenced stays so, interventions
\* are not undone.
Passes(w, v) ==
  /\ w \in World /\ v \in World
  /\ w.anchor <= v.anchor /\ w.moves <= v.moves
  /\ w.host # 0 => v.host = w.host
  /\ w.restored => v.restored

\* The same journal, at an epoch that only an operator has raised.
Ages(d, r, v) ==
  r.journal = d.journal /\ d.epoch <= r.epoch /\ (v.moves = 0 => r.epoch = d.epoch)

\* A journal stays covered as the epoch moves by hand.
LEMMA CoversLasts ==
  ASSUME NEW w, NEW v, Passes(w, v), NEW j \in JournalRow, NEW m \in Nat, NEW n \in Nat,
         m <= n, v.moves = 0 => m = n, Covers(j, m, w)
  PROVE  Covers(j, n, v)
BY DEF Covers, Passes, World, JournalRow

\* What may be called remains so, and what was learnt stays true.
LEMMA CallLasts ==
  ASSUME NEW w, NEW v, Passes(w, v), NEW c \in CallRow, NEW d \in DbRow, NEW r \in DbRow,
         Ages(d, r, v), CallSound(c, d, w)
  PROVE  CallSound(c, r, v)
<1>1. c.kind = "save" => Covers(c.journal, r.epoch, v)
  BY CoversLasts DEF CallSound, Ages, DbRow, CallRow
<1>2. c.kind = "promote" => v.host = c.new
  BY DEF CallSound, Passes
<1>. QED  BY <1>1, <1>2 DEF CallSound, Ages

\* What a tick relies on outside stays true as time passes.
LEMMA OutwardLasts ==
  ASSUME NEW w, NEW v, Passes(w, v), NEW s \in ExecutorRow, NEW d \in DbRow, NEW r \in DbRow,
         Shape(s), Outward(s, d, w), v.restored \/ d.epoch <= r.epoch
  PROVE  Outward(s, r, v)
<1>1. s.pc \in {"check", "cas", "witness"} => Head(s.todo) # 0 /\ s.todo # <<>>
  BY DEF Shape, Place, Granting, Resting
<1>2. s.todo # <<>> => Head(s.todo) \in Nat
  <2>1. s.todo \in Seq(Nat)
    BY DEF ExecutorRow
  <2>. QED  BY <2>1
<1>3. s.anchored \in Nat /\ d.epoch \in Nat /\ r.epoch \in Nat
  BY DEF ExecutorRow, DbRow
<1>4. s.anchored <= v.anchor
  BY <1>3 DEF Outward, Passes, World
<1>5. s.status = "superseded" => v.moves > 0
  BY DEF Outward, Passes, World
<1>6. s.pc = "witness" => v.restored \/ Head(s.todo) <= r.epoch
  BY <1>1, <1>2, <1>3 DEF Outward, Passes
<1>. QED  BY <1>1, <1>4, <1>5, <1>6 DEF Outward, Passes

\* What a live session knows stays true while nobody else writes.
LEMMA KnowledgeLasts ==
  ASSUME NEW w, NEW v, Passes(w, v), NEW s \in ExecutorRow, NEW d \in DbRow, NEW r \in DbRow,
         Shape(s), Knows(s, d, w), Ages(d, r, v)
  PROVE  Knows(s, r, v)
<1>1. /\ s.base \in Nat /\ s.ctl.max \in Nat /\ s.journal \in JournalRow
      /\ d.epoch \in Nat /\ r.epoch \in Nat /\ r.journal \in JournalRow
  BY DEF ExecutorRow, DbRow, Controller
<1>2. v.moves = 0 => w.moves = 0
  BY DEF Passes, World
<1>3. CASE s.ctl = NoController
  <2>1. KnowsNothing(s, r, v)
    <3>. SUFFICES ASSUME s.pc = "load"
                  PROVE  /\ s.base <= r.epoch /\ (v.moves = 0 => s.base = r.epoch)
                         /\ Covers(r.journal, s.base, v)
      BY DEF KnowsNothing
    <3>1. /\ s.base <= d.epoch /\ (w.moves = 0 => s.base = d.epoch)
          /\ Covers(d.journal, s.base, w)
      BY <1>3 DEF Knows, KnowsNothing
    <3>2. Covers(d.journal, s.base, v)
      BY <1>1, <3>1, CoversLasts DEF Ages
    <3>. QED  BY <1>1, <1>2, <3>1, <3>2 DEF Ages
  <2>. QED  BY <1>3, <2>1 DEF Knows
<1>4. CASE s.ctl # NoController
  <2>1. KnowsJournal(s, d, w) /\ KnowsEpoch(s, d, w) /\ KnowsGrant(s, w)
    BY <1>4 DEF Knows
  <2>2. s.pc \in Saving => CallSound(SaveCall(s.journal), r, v)
    BY <1>1, <2>1, CallRows, CallLasts DEF KnowsJournal
  <2>3. KnowsJournal(s, r, v)
    BY <2>1, <2>2 DEF KnowsJournal, Ages
  <2>4. KnowsEpoch(s, r, v)
    <3>1. s.pc = "witness" => s.todo # <<>> /\ s.todo \in Seq(Nat)
      BY DEF Shape, Place, Resting, ExecutorRow
    <3>2. s.pc = "witness" => Head(s.todo) \in Nat
      BY <3>1
    <3>. QED  BY <1>1, <1>2, <2>1, <3>2 DEF KnowsEpoch, Ages
  <2>5. KnowsGrant(s, v)
    BY <1>2, <2>1 DEF KnowsGrant
  <2>. QED  BY <1>4, <2>3, <2>4, <2>5 DEF Knows
<1>. QED  BY <1>3, <1>4

---------------------------------------------------------------------------
(* Steps of one executor. *)

\* The surroundings as one record.
LEMMA WorldType ==
  ASSUME Types
  PROVE  /\ Around \in World /\ Around.host = host /\ Around.anchor = anchor
         /\ Around.moves = moves /\ Around.restored = restored
BY DEF Types, Around, World

\* With nothing outside changed, time has not passed.
LEMMA WorldStays ==
  ASSUME Types, UNCHANGED outside
  PROVE  Around' = Around /\ Passes(Around, Around')
<1>1. Around' = Around
  BY DEF outside, Around
<1>2. Around \in World
  BY WorldType
<1>3. Around.anchor <= Around.anchor /\ Around.moves <= Around.moves
  BY <1>2 DEF World
<1>. QED  BY <1>1, <1>2, <1>3 DEF Passes

\* A step that takes nobody else's lock leaves the others sound.
LEMMA OtherSound ==
  ASSUME NEW x \in Executors, Sound(x), ex'[x] = ex[x], ex[x] \in ExecutorRow,
         db \in DbRow, db' \in DbRow, Passes(Around, Around'),
         lock' = x => lock = x /\ Ages(db, db', Around'),
         Around'.restored \/ db.epoch <= db'.epoch
  PROVE  Sound(x)'
<1>1. Shape(ex[x])'
  BY DEF Sound
<1>2. Session(x)'
  BY DEF Sound, Session
<1>3. Outward(ex[x], db, Around)'
  <2>1. Outward(ex[x], db', Around')
    BY OutwardLasts DEF Sound
  <2>. QED  BY <2>1
<1>4. ASSUME Live(x)' PROVE Knows(ex[x], db, Around)'
  <2>1. Live(x) /\ Ages(db, db', Around')
    BY <1>4 DEF Live, Connected
  <2>2. Knows(ex[x], db', Around')
    BY <2>1, KnowledgeLasts DEF Sound
  <2>. QED  BY <2>2
<1>. QED  BY <1>1, <1>2, <1>3, <1>4 DEF Sound

\* The session can carry out a call.
Able(e) == ~ex[e].reacquired /\ (Connected(e) \/ FirstLock(e))

\* A tick past its first call has had a session, so a call that is carried out is one of a live session.
LEMMA AbleLive ==
  ASSUME ExecutorInv, NEW e \in Executors, ex[e].pc \notin {"idle", "hold"} \/ ex[e].ctl # NoController
  PROVE  ex[e].ever /\ (Able(e) => Live(e))
BY DEF ExecutorInv, Sound, Session, Able, FirstLock, Live

\* A sound call that is carried out and answered.
LEMMA AnsweredStep ==
  ASSUME ExecutorInv, NEW e \in Executors, NEW c \in CallRow, NEW s \in ExecutorRow,
         Answered(e, c, s), UNCHANGED outside, CallSound(c, db, Around), Shape(s),
         Outward(s, Effect(c, db), Around), Knows(s, Effect(c, db), Around)
  PROVE  ExecutorInv'
<1>. DEFINE t == [s EXCEPT !.conn = "open", !.ever = TRUE]
<1>1. /\ Types /\ Rows /\ db \in DbRow /\ ex \in [Executors -> ExecutorRow]
      /\ Around \in World /\ Covers(db.journal, db.epoch, Around)
  BY WorldType DEF ExecutorInv, Types, Rows
<1>2. /\ db' = Effect(c, db) /\ lock' = e /\ ex' = [ex EXCEPT ![e] = t]
      /\ late' = late /\ (lock = e \/ lock = Nobody)
  BY DEF Answered, Connected, FirstLock
<1>3. Around' = Around /\ Passes(Around, Around')
  BY <1>1, WorldStays
<1>4. db' \in DbRow /\ db.epoch <= db'.epoch /\ Covers(db'.journal, db'.epoch, Around)
  BY <1>1, <1>2, EffectFacts
<1>5. /\ t \in ExecutorRow /\ Twin(t, s) /\ t.ever /\ t.conn = "open"
  <2>1. t \in ExecutorRow
    BY DEF ExecutorRow
  <2>. QED  BY <2>1 DEF ExecutorRow, Twin, SameMemory, SameBelief
<1>6. late = NoCall /\ e \notin {Nobody, Abandoned}
  BY <1>1, <1>2, ExecutorAssumption DEF Types
<1>. HIDE DEF t
<1>7. ex'[e] = t /\ ex' \in [Executors -> ExecutorRow] /\ \A x \in Executors \ {e} : ex'[x] = ex[x]
  BY <1>1, <1>2, <1>5
<1>8. Types'
  <2>1. /\ backup' \in DbRow /\ host' \in Nat /\ anchor' \in Nat
        /\ moves' \in Nat /\ restored' \in BOOLEAN
    BY <1>1 DEF Types, outside
  <2>2. late' \in CallRow /\ late' = NoCall
    BY <1>1, <1>2, <1>6 DEF Types
  <2>. QED  BY <1>2, <1>4, <1>7, <2>1, <2>2 DEF Types
<1>9. Rows'
  <2>1. CallSound(late, db', Around)
    BY <1>6, NoRows DEF CallSound
  <2>2. backup' = backup /\ restored' = restored /\ anchor' = anchor
    BY DEF outside
  <2>3. ~restored => anchor <= db'.epoch
    BY <1>1, <1>4 DEF Rows, Types, DbRow
  <2>. QED  BY <1>1, <1>2, <1>3, <1>4, <2>1, <2>2, <2>3 DEF Rows
<1>10. Sound(e)'
  <2>1. Shape(t) /\ Outward(t, db', Around') /\ Knows(t, db', Around')
    BY <1>2, <1>3, <1>5, TwinSound
  <2>2. Session(e)'
    BY <1>5, <1>7 DEF Session
  <2>. QED  BY <1>7, <2>1, <2>2 DEF Sound
<1>11. ASSUME NEW x \in Executors \ {e} PROVE Sound(x)'
  <2>1. Sound(x) /\ ex'[x] = ex[x] /\ lock' # x /\ ex[x] \in ExecutorRow
    BY <1>1, <1>2, <1>7 DEF ExecutorInv
  <2>. QED  BY <1>1, <1>3, <1>4, <2>1, OtherSound
<1>. QED  BY <1>8, <1>9, <1>10, <1>11 DEF ExecutorInv

\* A call that fails, without effect, with it or with its effect still to come: the session
\* no longer counts as live, so nothing is claimed of what it knows.
LEMMA FailedStep ==
  ASSUME ExecutorInv, NEW e \in Executors, NEW c \in CallRow, NEW f \in ExecutorRow,
         Failed(e, c, f), UNCHANGED outside, Able(e) => CallSound(c, db, Around),
         SameSession(f, ex[e]), Shape(f), Outward(f, db, Around),
         ex[e].ever \/ (f.ctl = NoController /\ f.pc \in {"idle", "hold"})
  PROVE  ExecutorInv'
<1>1. /\ Types /\ Rows /\ db \in DbRow /\ ex \in [Executors -> ExecutorRow] /\ Session(e)
      /\ Around \in World /\ Covers(db.journal, db.epoch, Around) /\ e \notin {Nobody, Abandoned}
      /\ (lock = e => ex[e].conn = "open") /\ lock \in Executors \union {Nobody, Abandoned}
      /\ late \in CallRow /\ (late # NoCall => lock = Abandoned)
  BY WorldType, ExecutorAssumption DEF ExecutorInv, Types, Rows, Sound, Session
<1>2. Around' = Around /\ Passes(Around, Around')
  BY <1>1, WorldStays
<1>3. f.conn = ex[e].conn /\ f.ever = ex[e].ever /\ f.reacquired = ex[e].reacquired
  BY DEF SameSession
<1>4. PICK t \in ExecutorRow :
        /\ ex' = [ex EXCEPT ![e] = t] /\ Twin(t, f)
        /\ ~t.ever => ~ex[e].ever /\ t.conn = ex[e].conn /\ t.reacquired = ex[e].reacquired
        /\ lock' = e => t.conn = "open" /\ t.reacquired
        /\ lock' # e \/ t.reacquired
  <2>1. f \in ExecutorRow /\ Twin(f, f)
    BY DEF Twin, SameMemory, SameBelief
  <2>2. CASE ex[e].reacquired /\ ex' = [ex EXCEPT ![e] = f] /\ lock' = lock
    BY <1>1, <1>3, <2>1, <2>2
  <2>3. CASE ex[e].conn = "none" /\ ex' = [ex EXCEPT ![e] = f] /\ lock' = lock
    BY <1>1, <1>3, <2>1, <2>3
  <2>4. CASE /\ ex[e].ever /\ lock' = e
             /\ ex' = [ex EXCEPT ![e] = [f EXCEPT !.conn = "open", !.reacquired = TRUE]]
    <3>. DEFINE t == [f EXCEPT !.conn = "open", !.reacquired = TRUE]
    <3>1. t \in ExecutorRow /\ Twin(t, f) /\ t.conn = "open" /\ t.reacquired /\ t.ever = f.ever
      <4>1. t \in ExecutorRow
        BY DEF ExecutorRow
      <4>. QED  BY <4>1 DEF ExecutorRow, Twin, SameMemory, SameBelief
    <3>. HIDE DEF t
    <3>. QED  BY <1>3, <2>4, <3>1 DEF t
  <2>5. CASE /\ ex[e].conn = "open" /\ lock # e /\ lock' = lock
             /\ ex' = [ex EXCEPT ![e] = [f EXCEPT !.conn = "none"]]
    <3>. DEFINE t == [f EXCEPT !.conn = "none"]
    <3>1. t \in ExecutorRow /\ Twin(t, f) /\ t.ever = f.ever
      <4>1. t \in ExecutorRow
        BY DEF ExecutorRow
      <4>. QED  BY <4>1 DEF ExecutorRow, Twin, SameMemory, SameBelief
    <3>2. ex[e].ever
      BY <1>1, <2>5 DEF Session
    <3>. HIDE DEF t
    <3>. QED  BY <1>3, <2>5, <3>1, <3>2 DEF t
  <2>6. CASE /\ lock' \in {Nobody, Abandoned}
             /\ ex' = [ex EXCEPT ![e] = [f EXCEPT !.conn = "none", !.ever = TRUE]]
    <3>. DEFINE t == [f EXCEPT !.conn = "none", !.ever = TRUE]
    <3>1. t \in ExecutorRow /\ Twin(t, f) /\ t.ever
      <4>1. t \in ExecutorRow
        BY DEF ExecutorRow
      <4>. QED  BY <4>1 DEF ExecutorRow, Twin, SameMemory, SameBelief
    <3>. HIDE DEF t
    <3>. QED  BY <1>1, <2>6, <3>1 DEF t
  <2>. QED  BY <2>2, <2>3, <2>4, <2>5, <2>6 DEF Failed
<1>5. /\ \/ db' = db /\ late' = late /\ (lock' = lock \/ (lock' = e /\ lock = Nobody))
         \/ Able(e) /\ db' = db /\ late' = late /\ lock' = Nobody
         \/ Able(e) /\ db' = Effect(c, db) /\ late' = late /\ lock' = Nobody
         \/ Able(e) /\ db' = db /\ late' = c /\ lock' = Abandoned
      /\ Able(e) => lock \in {e, Nobody}
  BY DEF Failed, Able, Connected, FirstLock
<1>6. Able(e) => late = NoCall
  BY <1>1, <1>5, ExecutorAssumption
<1>7. /\ db' \in DbRow /\ db.epoch <= db'.epoch /\ Covers(db'.journal, db'.epoch, Around)
      /\ late' \in CallRow /\ (late' # NoCall => lock' = Abandoned) /\ CallSound(late', db', Around)
      /\ lock' \in Executors \union {Nobody, Abandoned}
      /\ \A x \in Executors \ {e} : lock' = x => lock = x /\ db' = db
  <2>1. db.epoch <= db.epoch /\ CallSound(late, db, Around)
    BY <1>1 DEF DbRow, Rows
  <2>2. CASE db' = db /\ late' = late /\ (lock' = lock \/ (lock' = e /\ lock = Nobody))
    BY <1>1, <2>1, <2>2, ExecutorAssumption
  <2>3. CASE Able(e) /\ db' = db /\ late' = late /\ lock' = Nobody
    BY <1>1, <1>6, <2>1, <2>3, ExecutorAssumption
  <2>4. CASE Able(e) /\ db' = Effect(c, db) /\ late' = late /\ lock' = Nobody
    <3>1. db' \in DbRow /\ db.epoch <= db'.epoch /\ Covers(db'.journal, db'.epoch, Around)
      BY <1>1, <2>4, EffectFacts
    <3>2. CallSound(late', db', Around)
      BY <1>6, <2>4, NoRows DEF CallSound
    <3>. QED  BY <1>1, <1>6, <2>4, <3>1, <3>2, ExecutorAssumption
  <2>5. CASE Able(e) /\ db' = db /\ late' = c /\ lock' = Abandoned
    BY <1>1, <2>1, <2>5, ExecutorAssumption
  <2>. QED  BY <1>5, <2>2, <2>3, <2>4, <2>5
<1>8. ex'[e] = t /\ ex' \in [Executors -> ExecutorRow] /\ \A x \in Executors \ {e} : ex'[x] = ex[x]
  BY <1>1, <1>4
<1>9. Types'
  <2>1. /\ backup' \in DbRow /\ host' \in Nat /\ anchor' \in Nat
        /\ moves' \in Nat /\ restored' \in BOOLEAN
    BY <1>1 DEF Types, outside
  <2>. QED  BY <1>7, <1>8, <2>1 DEF Types
<1>10. Rows'
  <2>1. backup' = backup /\ restored' = restored /\ anchor' = anchor
    BY DEF outside
  <2>2. ~restored => anchor <= db'.epoch
    BY <1>1, <1>7 DEF Rows, Types, DbRow
  <2>. QED  BY <1>1, <1>2, <1>7, <2>1, <2>2 DEF Rows
<1>11. Sound(e)'
  <2>1. Outward(f, db', Around')
    BY <1>1, <1>2, <1>7, OutwardLasts
  <2>2. Shape(t) /\ Outward(t, db', Around')
    BY <1>4, <2>1, TwinSound
  <2>3. Session(e)'
    BY <1>1, <1>3, <1>4, <1>8 DEF Session, Twin, SameMemory, SameBelief
  <2>4. ~Live(e)'
    BY <1>4, <1>8 DEF Live, Connected
  <2>. QED  BY <1>8, <2>2, <2>3, <2>4 DEF Sound
<1>12. ASSUME NEW x \in Executors \ {e} PROVE Sound(x)'
  <2>1. /\ Sound(x) /\ ex'[x] = ex[x] /\ ex[x] \in ExecutorRow
        /\ lock' = x => lock = x /\ Ages(db, db', Around')
    BY <1>1, <1>7, <1>8 DEF ExecutorInv, Ages
  <2>. QED  BY <1>1, <1>2, <1>7, <2>1, OtherSound
<1>. QED  BY <1>9, <1>10, <1>11, <1>12 DEF ExecutorInv

\* A step that calls nothing in the database.
LEMMA LocalStep ==
  ASSUME ExecutorInv, NEW e \in Executors, NEW s \in ExecutorRow, Local(e, s),
         Passes(Around, Around'), UNCHANGED <<backup, moves, restored>>,
         ~restored => anchor' <= db.epoch,
         s.conn = ex[e].conn, s.ever = ex[e].ever, s.reacquired => ex[e].reacquired,
         ex[e].ever \/ (s.ctl = NoController /\ s.pc \in {"idle", "hold"}),
         Shape(s), Outward(s, db, Around'),
         Connected(e) /\ ~s.reacquired => Knows(s, db, Around')
  PROVE  ExecutorInv'
<1>1. /\ Types /\ Rows /\ db \in DbRow /\ ex \in [Executors -> ExecutorRow] /\ Session(e)
      /\ Covers(db.journal, db.epoch, Around) /\ CallSound(late, db, Around) /\ late \in CallRow
      /\ Covers(backup.journal, backup.epoch, Around) /\ backup \in DbRow
  BY DEF ExecutorInv, Types, Rows, Sound
<1>2. db' = db /\ lock' = lock /\ late' = late /\ ex' = [ex EXCEPT ![e] = s]
  BY DEF Local
<1>3. ex'[e] = s /\ ex' \in [Executors -> ExecutorRow] /\ \A x \in Executors \ {e} : ex'[x] = ex[x]
  BY <1>1, <1>2
<1>4. host' \in Nat /\ anchor' \in Nat
  <2>1. Around'.host = host' /\ Around'.anchor = anchor'
    BY DEF Around
  <2>. QED  BY <2>1 DEF Passes, World
<1>5. Types'
  BY <1>1, <1>2, <1>3, <1>4 DEF Types
<1>6. Ages(db, db', Around') /\ db.epoch <= db'.epoch
  BY <1>1, <1>2 DEF Ages, DbRow
<1>7. Rows'
  <2>1. CallSound(late, db', Around')
    BY <1>1, <1>2, <1>6, CallLasts
  <2>2. ASSUME NEW d \in DbRow, Covers(d.journal, d.epoch, Around)
        PROVE  Covers(d.journal, d.epoch, Around')
    <3>1. d.journal \in JournalRow /\ d.epoch \in Nat /\ d.epoch <= d.epoch
      BY DEF DbRow
    <3>. QED  BY <2>2, <3>1, CoversLasts
  <2>3. ~restored' => anchor' <= db'.epoch
    BY <1>2
  <2>4. Covers(db'.journal, db'.epoch, Around') /\ Covers(backup'.journal, backup'.epoch, Around')
    BY <1>1, <1>2, <2>2
  <2>. QED  BY <1>2, <2>1, <2>3, <2>4 DEF Rows
<1>8. Sound(e)'
  <2>1. Session(e)'
    BY <1>1, <1>2, <1>3 DEF Session
  <2>2. Live(e)' => Connected(e) /\ ~s.reacquired
    BY <1>2, <1>3 DEF Live, Connected
  <2>. QED  BY <1>2, <1>3, <2>1, <2>2 DEF Sound
<1>9. ASSUME NEW x \in Executors \ {e} PROVE Sound(x)'
  <2>1. /\ Sound(x) /\ ex'[x] = ex[x] /\ ex[x] \in ExecutorRow /\ lock' = lock /\ db' \in DbRow
    BY <1>1, <1>2, <1>3 DEF ExecutorInv
  <2>. QED  BY <1>1, <1>6, <2>1, OtherSound
<1>. QED  BY <1>5, <1>7, <1>8, <1>9 DEF ExecutorInv

---------------------------------------------------------------------------
(* The calls that establish what may be trusted. *)

\* The parts of the invariant for one executor.
LEMMA Here ==
  ASSUME ExecutorInv, NEW e \in Executors
  PROVE  /\ Types /\ Around \in World /\ db \in DbRow /\ ex[e] \in ExecutorRow
         /\ Covers(db.journal, db.epoch, Around) /\ Around.anchor = anchor
         /\ Around.host = host /\ Around.moves = moves /\ Around.restored = restored
         /\ Sound(e) /\ Shape(ex[e]) /\ Outward(ex[e], db, Around)
         /\ Live(e) => Knows(ex[e], db, Around)
         /\ anchor \in Nat /\ host \in Nat /\ moves \in Nat /\ (~restored => anchor <= db.epoch)
BY WorldType DEF ExecutorInv, Sound, Types, Rows

\* A call that leaves the journal and the epoch alone.
LEMMA PlainCall ==
  ASSUME ExecutorInv, NEW k \in {"hold", "state", "load", "fence"}
  PROVE  /\ Call(k) \in CallRow /\ CallSound(Call(k), db, Around)
         /\ Effect(Call(k), db) \in DbRow
         /\ Ages(db, Effect(Call(k), db), Around) /\ db.epoch <= Effect(Call(k), db).epoch
<1>1. Types /\ Around \in World /\ db \in DbRow /\ Covers(db.journal, db.epoch, Around)
  BY WorldType DEF ExecutorInv, Types, Rows
<1>2. Call(k) \in CallRow /\ Call(k).kind = k
  BY CallRows
<1>3. CallSound(Call(k), db, Around)
  BY <1>2 DEF CallSound
<1>4. LET r == Effect(Call(k), db)
      IN r \in DbRow /\ db.epoch <= r.epoch /\ r.journal = db.journal /\ r.epoch = db.epoch
  BY <1>1, <1>2, <1>3, EffectFacts
<1>. QED  BY <1>2, <1>3, <1>4 DEF Ages

\* Such a call, answered.
LEMMA PlainAnswered ==
  ASSUME ExecutorInv, NEW e \in Executors, NEW k \in {"hold", "state", "load", "fence"},
         NEW s \in ExecutorRow, Answered(e, Call(k), s), UNCHANGED outside,
         Shape(s), Outward(s, db, Around), Knows(s, db, Around)
  PROVE  ExecutorInv'
<1>1. db \in DbRow /\ Around \in World
  BY Here
<1>2. Passes(Around, Around)
  BY <1>1 DEF Passes, World
<1>3. Outward(s, Effect(Call(k), db), Around) /\ Knows(s, Effect(Call(k), db), Around)
  BY <1>1, <1>2, PlainCall, OutwardLasts, KnowledgeLasts
<1>. QED  BY <1>3, PlainCall, AnsweredStep

\* Such a call, failed.
LEMMA PlainFailed ==
  ASSUME ExecutorInv, NEW e \in Executors, NEW k \in {"hold", "state", "load", "fence"},
         NEW f \in ExecutorRow, Failed(e, Call(k), f), UNCHANGED outside,
         SameSession(f, ex[e]), Shape(f), Outward(f, db, Around),
         ex[e].ever \/ (f.ctl = NoController /\ f.pc \in {"idle", "hold"})
  PROVE  ExecutorInv'
BY PlainCall, FailedStep

\* Moves that promise nothing about the journal or a promotion.
Calm == {"idle", "hold", "anchor", "snapshot", "drop", "stop", "reset", "collect", "rejoin", "fence"}

\* Such a move keeps what is known.
LEMMA CalmKnows ==
  ASSUME NEW s, NEW t, NEW d, NEW w, SameBelief(t, s), Open(t) => Open(s),
         s.pc \notin Saving, t.pc \in Calm, Knows(s, d, w)
  PROVE  Knows(t, d, w)
<1>1. t.pc \notin Saving /\ t.pc \notin {"host", "check", "cas", "witness", "intent", "load", "promoted", "rejoined"}
  BY DEF Calm, Saving
<1>2. CASE s.ctl = NoController
  BY <1>1, <1>2 DEF Knows, KnowsNothing, SameBelief
<1>3. CASE s.ctl # NoController
  <2>1. KnowsJournal(t, d, w)
    BY <1>1, <1>3 DEF Knows, KnowsJournal, SameBelief
  <2>2. KnowsEpoch(t, d, w)
    BY <1>1, <1>3 DEF Knows, KnowsEpoch, SameBelief
  <2>3. KnowsGrant(t, w)
    BY <1>3 DEF Knows, KnowsGrant, SameBelief
  <2>. QED  BY <1>3, <2>1, <2>2, <2>3 DEF Knows, SameBelief
<1>. QED  BY <1>2, <1>3

\* The next call of the tick.
LEMMA AtCalm ==
  ASSUME NEW s \in ExecutorRow, NEW p \in Calm \ {"fence", "stop"}, NEW d, NEW w \in World,
         Shape(s), Outward(s, d, w), s.todo = <<>> \/ p = "idle",
         p # "idle" => s.status \notin Terminal,
         s.ctl = NoController => p \in {"idle", "hold", "anchor", "snapshot"},
         p = "hold" => s.ctl = NoController
  PROVE  LET t == At(s, p)
         IN  /\ t \in ExecutorRow /\ Shape(t) /\ Outward(t, d, w)
             /\ SameSession(t, s) /\ SameMemory(t, s) /\ t.pc = p /\ t.anchored = 0
             /\ t.todo = <<>> /\ t.pending = s.pending /\ (Open(t) => Open(s))
             /\ s.pc \notin Saving /\ Knows(s, d, w) => Knows(t, d, w)
<1>. DEFINE t == At(s, p)
<1>1. p \in Steps
  BY DEF Calm, Steps, Resting
<1>2. /\ t \in ExecutorRow /\ SameSession(t, s) /\ SameMemory(t, s)
      /\ t.pc = p /\ t.anchored = 0 /\ t.pending = s.pending /\ t.todo = <<>>
  BY <1>1, AtFields
<1>. HIDE DEF t
<1>3. Place(t)
  BY <1>2 DEF Shape, Place, Calm, Resting, Granting, Starting, SameMemory, SameBelief
<1>4. Grants(t)
  BY <1>2 DEF Shape, Grants, SameMemory, SameBelief
<1>5. Outward(t, d, w)
  BY <1>2 DEF Outward, SameMemory, SameBelief, World, Calm
<1>6. Open(t) => Open(s)
  BY <1>2 DEF Open
<1>7. s.pc \notin Saving /\ Knows(s, d, w) => Knows(t, d, w)
  BY <1>2, <1>6, CalmKnows DEF SameMemory
<1>. QED  BY <1>2, <1>3, <1>4, <1>5, <1>6, <1>7 DEF Shape, t

\* discard_stale_state
LEMMA DiscardFields ==
  ASSUME NEW s \in ExecutorRow, Shape(s), s.todo = <<>>, s.pc \in {"idle", "drop", "reset"},
         NEW d, NEW w, Outward(s, d, w)
  PROVE  LET t == Discard(s)
         IN  /\ t \in ExecutorRow /\ SameSession(t, s) /\ t.ctl = NoController /\ t.pc = s.pc
             /\ t.todo = <<>> /\ t.pending = <<>> /\ t.status = "waiting" /\ t.anchored = s.anchored
             /\ Grants(t) /\ (s.pc = "idle" => Shape(t)) /\ Outward(t, d, w)
<1>. DEFINE none == <<>>
            u == [s EXCEPT !.ctl = NoController, !.journal = NoJournal, !.durable = NoJournal,
                           !.pending = none, !.status = "waiting"]
<1>1. none \in Seq(Nat)
  OBVIOUS
<1>2. Discard(s) = u
  BY DEF Discard
<1>. HIDE DEF none
<1>3. u \in ExecutorRow
  BY <1>1, NoRows DEF ExecutorRow, Statuses
<1>4. /\ SameSession(u, s) /\ u.ctl = NoController /\ u.pc = s.pc /\ u.todo = <<>>
      /\ u.pending = none /\ u.status = "waiting" /\ u.anchored = s.anchored
  BY DEF ExecutorRow, SameSession
<1>. HIDE DEF u
<1>5. u.pending = <<>>
  BY <1>4 DEF none
<1>6. Grants(u)
  BY <1>4, <1>5 DEF Grants
<1>7. s.pc = "idle" => Place(u)
  BY <1>4, <1>5, NoRows DEF Place, Resting, Granting, Starting, Terminal
<1>8. Outward(u, d, w)
  BY <1>4 DEF Outward
<1>. QED  BY <1>2, <1>3, <1>4, <1>5, <1>6, <1>7, <1>8 DEF Shape

\* The tick goes on, or ends, with nothing remembered.
LEMMA DiscardTo ==
  ASSUME NEW s \in ExecutorRow, Shape(s), s.todo = <<>>, s.pc \in {"idle", "drop", "reset"},
         NEW p \in {"idle", "hold", "anchor"}, NEW d, NEW w \in World, Outward(s, d, w)
  PROVE  LET t == At(Discard(s), p)
         IN  /\ t \in ExecutorRow /\ SameSession(t, s) /\ t.ctl = NoController /\ t.pc = p
             /\ Shape(t) /\ Outward(t, d, w) /\ Knows(t, d, w)
<1>. DEFINE u == Discard(s)
            t == At(u, p)
<1>1. /\ u \in ExecutorRow /\ SameSession(u, s) /\ u.ctl = NoController
      /\ u.todo = <<>> /\ u.pending = <<>> /\ u.status = "waiting" /\ Grants(u) /\ Outward(u, d, w)
  BY DiscardFields
<1>. HIDE DEF u
<1>2. p \in Steps
  BY DEF Steps, Resting
<1>3. /\ t \in ExecutorRow /\ SameSession(t, u) /\ SameMemory(t, u)
      /\ t.pc = p /\ t.anchored = 0 /\ t.pending = <<>> /\ t.todo = <<>>
  BY <1>1, <1>2, AtFields
<1>. HIDE DEF t
<1>4. Place(t)
  BY <1>1, <1>3, NoRows DEF Place, Resting, Granting, Starting, SameMemory, SameBelief, Terminal
<1>5. Grants(t)
  BY <1>3 DEF Grants
<1>6. Outward(t, d, w)
  BY <1>1, <1>3 DEF Outward, SameMemory, World
<1>7. Knows(t, d, w)
  BY <1>1, <1>3 DEF Knows, KnowsNothing, SameMemory, SameBelief
<1>. QED  BY <1>1, <1>3, <1>4, <1>5, <1>6, <1>7 DEF Shape, SameSession, SameMemory, SameBelief, u, t

\* The tick ends, with a new status.
LEMMA IdleAs ==
  ASSUME NEW s \in ExecutorRow, NEW x \in Statuses, NEW d, NEW w \in World, Shape(s),
         x \in {"ahead", "inconsistent"} => w.restored, x = "superseded" => w.moves > 0
  PROVE  LET t == [At(s, "idle") EXCEPT !.status = x]
         IN  /\ t \in ExecutorRow /\ SameSession(t, s) /\ SameBelief(t, s) /\ t.status = x
             /\ t.pc = "idle" /\ t.todo = <<>> /\ t.pending = s.pending
             /\ Shape(t) /\ Outward(t, d, w)
             /\ s.pc \notin Saving /\ Knows(s, d, w) => Knows(t, d, w)
<1>. DEFINE u == At(s, "idle")
            t == [u EXCEPT !.status = x]
<1>1. "idle" \in Steps
  BY DEF Steps, Resting
<1>2. /\ u \in ExecutorRow /\ SameSession(u, s) /\ SameMemory(u, s)
      /\ u.pc = "idle" /\ u.anchored = 0 /\ u.pending = s.pending /\ u.todo = <<>>
  BY <1>1, AtFields
<1>. HIDE DEF u
<1>3. t \in ExecutorRow
  BY <1>2 DEF ExecutorRow
<1>4. /\ SameSession(t, s) /\ SameBelief(t, s) /\ t.status = x /\ t.pc = "idle"
      /\ t.anchored = 0 /\ t.pending = s.pending /\ t.todo = <<>>
  BY <1>2 DEF ExecutorRow, SameSession, SameBelief, SameMemory
<1>. HIDE DEF t
<1>5. Place(t)
  BY <1>4 DEF Shape, Place, Resting, Granting, Starting, SameBelief
<1>6. Grants(t)
  BY <1>4 DEF Shape, Grants, SameBelief
<1>7. Outward(t, d, w)
  BY <1>4 DEF Outward, World
<1>8. s.pc \notin Saving /\ Knows(s, d, w) => Knows(t, d, w)
  <2>1. Open(t) => Open(s)
    BY <1>4 DEF Open
  <2>2. t.pc \in Calm
    BY <1>4 DEF Calm
  <2>. QED  BY <1>4, <2>1, <2>2, CalmKnows
<1>. QED  BY <1>3, <1>4, <1>5, <1>6, <1>7, <1>8 DEF Shape, t, u

\* A tick begins, with the cached state dropped if the lock was taken again.
LEMMA TickStartInv ==
  ASSUME ExecutorInv, NEW e \in Executors, TickStart(e)
  PROVE  ExecutorInv'
<1>1. /\ Types /\ Around \in World /\ ex[e] \in ExecutorRow /\ Shape(ex[e]) /\ Sound(e)
      /\ Outward(ex[e], db, Around) /\ (Live(e) => Knows(ex[e], db, Around))
      /\ (~restored => anchor <= db.epoch)
  BY Here
<1>2. ex[e].pc = "idle" /\ ex[e].status \notin Terminal /\ UNCHANGED outside
  BY DEF TickStart
<1>3. /\ Around' = Around /\ Passes(Around, Around')
      /\ UNCHANGED <<anchor, backup, moves, restored>>
  BY <1>1, <1>2, WorldStays DEF outside
<1>4. ex[e].todo = <<>>
  BY <1>1, <1>2 DEF Shape, Place, Resting
<1>5. CASE ex[e].reacquired
  <2>. DEFINE u == [ex[e] EXCEPT !.reacquired = FALSE]
              t == At(Discard(u), "hold")
  <2>1. u \in ExecutorRow
    BY <1>1 DEF ExecutorRow
  <2>2. Twin(u, ex[e]) /\ u.conn = ex[e].conn /\ u.ever = ex[e].ever /\ u.reacquired = FALSE
    BY <1>1, <2>1 DEF Twin, SameMemory, SameBelief, ExecutorRow
  <2>3. Shape(u) /\ Outward(u, db, Around) /\ u.pc = "idle" /\ u.todo = <<>>
    BY <1>1, <1>2, <1>4, <2>2, TwinSound DEF Twin
  <2>. HIDE DEF u
  <2>4. Discard(u).ctl = NoController
    BY <1>1, <2>1, <2>3, DiscardFields
  <2>5. /\ t \in ExecutorRow /\ SameSession(t, u) /\ t.ctl = NoController /\ t.pc = "hold"
        /\ Shape(t) /\ Outward(t, db, Around) /\ Knows(t, db, Around)
    BY <1>1, <2>1, <2>3, DiscardTo
  <2>6. Local(e, t)
    BY <1>5, <2>4 DEF TickStart, u
  <2>7. /\ t.conn = ex[e].conn /\ t.ever = ex[e].ever /\ ~t.reacquired
    BY <2>2, <2>5 DEF SameSession
  <2>. HIDE DEF t
  <2>. QED  BY <1>1, <1>3, <2>5, <2>6, <2>7, LocalStep
<1>6. CASE ~ex[e].reacquired
  <2>. DEFINE p == IF ex[e].ctl = NoController THEN "hold" ELSE "anchor"
              t == At(ex[e], p)
  <2>1. Local(e, t)
    BY <1>6 DEF TickStart
  <2>2. /\ p \in Calm \ {"fence", "stop"} /\ p \in {"idle", "hold", "anchor", "snapshot"}
        /\ (p = "hold" => ex[e].ctl = NoController) /\ "idle" \notin Saving
        /\ (ex[e].ctl = NoController => p = "hold")
    BY DEF Calm, Saving
  <2>. HIDE DEF p
  <2>3. /\ t \in ExecutorRow /\ Shape(t) /\ Outward(t, db, Around) /\ SameSession(t, ex[e])
        /\ SameMemory(t, ex[e]) /\ t.pc = p
        /\ (Knows(ex[e], db, Around) => Knows(t, db, Around))
    BY <1>1, <1>2, <1>4, <2>2, AtCalm
  <2>4. ex[e].ever \/ (t.ctl = NoController /\ t.pc \in {"idle", "hold"})
    BY <1>1, <2>2, <2>3 DEF Sound, Session, SameMemory, SameBelief
  <2>5. Connected(e) /\ ~t.reacquired => Knows(t, db, Around)
    BY <1>1, <1>6, <2>3 DEF Live
  <2>6. t.conn = ex[e].conn /\ t.ever = ex[e].ever /\ t.reacquired = ex[e].reacquired
    BY <2>3 DEF SameSession
  <2>. HIDE DEF t
  <2>. QED  BY <1>1, <1>3, <2>1, <2>3, <2>4, <2>5, <2>6, LocalStep
<1>. QED  BY <1>5, <1>6

\* A terminal executor holds dispatch.
LEMMA TickTerminalInv ==
  ASSUME ExecutorInv, NEW e \in Executors, TickTerminal(e)
  PROVE  ExecutorInv'
<1>1. /\ Types /\ Around \in World /\ ex[e] \in ExecutorRow /\ Shape(ex[e]) /\ Sound(e)
      /\ Outward(ex[e], db, Around) /\ (Live(e) => Knows(ex[e], db, Around))
  BY Here
<1>2. ex[e].pc = "idle" /\ UNCHANGED outside
  BY DEF TickTerminal
<1>3. CASE Answered(e, Call("hold"), ex[e])
  <2>1. Knows(ex[e], db, Around)
    <3>1. CASE Live(e)
      BY <1>1, <3>1
    <3>2. CASE FirstLock(e)
      BY <1>1, <1>2, <3>2 DEF Sound, Session, FirstLock, Knows, KnowsNothing
    <3>. QED  BY <1>3, <3>1, <3>2 DEF Answered, Live
  <2>. QED  BY <1>1, <1>2, <1>3, <2>1, PlainAnswered
<1>4. CASE Failed(e, Call("hold"), ex[e])
  <2>1. SameSession(ex[e], ex[e])
    BY DEF SameSession
  <2>2. ex[e].ever \/ (ex[e].ctl = NoController /\ ex[e].pc \in {"idle", "hold"})
    BY <1>1 DEF Sound, Session
  <2>. QED  BY <1>1, <1>2, <1>4, <2>1, <2>2, PlainFailed
<1>. QED  BY <1>3, <1>4 DEF TickTerminal

\* A replica without a controller holds dispatch first.
LEMMA HoldFirstInv ==
  ASSUME ExecutorInv, NEW e \in Executors, HoldFirst(e)
  PROVE  ExecutorInv'
<1>1. /\ Types /\ Around \in World /\ ex[e] \in ExecutorRow /\ Shape(ex[e]) /\ Sound(e)
      /\ Outward(ex[e], db, Around)
  BY Here
<1>2. ex[e].pc = "hold" /\ UNCHANGED outside
  BY DEF HoldFirst
<1>3. ex[e].todo = <<>> /\ ex[e].ctl = NoController /\ ex[e].status \notin Terminal
  BY <1>1, <1>2 DEF Shape, Place, Resting
<1>4. ASSUME NEW p \in {"idle", "anchor"}
      PROVE  LET t == At(ex[e], p)
             IN  /\ t \in ExecutorRow /\ Shape(t) /\ Outward(t, db, Around)
                 /\ SameSession(t, ex[e]) /\ t.ctl = NoController /\ t.pc = p
                 /\ Knows(t, db, Around)
  <2>. DEFINE t == At(ex[e], p)
  <2>1. p \in Calm \ {"fence", "stop"}
    BY DEF Calm
  <2>2. /\ t \in ExecutorRow /\ Shape(t) /\ Outward(t, db, Around)
        /\ SameSession(t, ex[e]) /\ SameMemory(t, ex[e]) /\ t.pc = p
    BY <1>1, <1>3, <2>1, AtCalm
  <2>. HIDE DEF t
  <2>3. t.ctl = NoController /\ Knows(t, db, Around)
    BY <1>3, <2>2 DEF SameMemory, SameBelief, Knows, KnowsNothing
  <2>. QED  BY <2>2, <2>3 DEF t
<1>5. CASE Answered(e, Call("hold"), At(ex[e], "anchor"))
  BY <1>2, <1>4, <1>5, PlainAnswered
<1>6. CASE Failed(e, Call("hold"), At(ex[e], "idle"))
  BY <1>2, <1>4, <1>6, PlainFailed
<1>. QED  BY <1>5, <1>6 DEF HoldFirst

\* What an unanswered read does.
Unread(s) ==
  IF s.ctl = NoController THEN [At(s, "idle") EXCEPT !.status = "waiting"] ELSE At(s, "drop")

\* An unanswered read drops the controller, or ends a restore.
LEMMA UnreadFields ==
  ASSUME NEW s \in ExecutorRow, NEW d, NEW w \in World, Shape(s), Outward(s, d, w),
         s.todo = <<>>, s.pc \in {"anchor", "snapshot"}
  PROVE  LET t == Unread(s)
         IN  /\ t \in ExecutorRow /\ SameSession(t, s) /\ Shape(t) /\ Outward(t, d, w)
             /\ (Knows(s, d, w) => Knows(t, d, w))
<1>1. s.pc \notin Saving /\ s.status \notin Terminal /\ "waiting" \in Statuses
  BY DEF Saving, Shape, Place, Statuses
<1>2. CASE s.ctl = NoController
  BY <1>1, <1>2, IdleAs DEF Unread
<1>3. CASE s.ctl # NoController
  <2>1. "drop" \in Calm \ {"fence", "stop"}
    BY DEF Calm
  <2>. QED  BY <1>1, <1>3, <2>1, AtCalm DEF Unread
<1>. QED  BY <1>2, <1>3

\* The anchor read may be behind by the time it is used, never ahead.
LEMMA ReadAnchorInv ==
  ASSUME ExecutorInv, NEW e \in Executors, ReadAnchor(e)
  PROVE  ExecutorInv'
<1>1. /\ Types /\ Around \in World /\ ex[e] \in ExecutorRow /\ Shape(ex[e]) /\ Sound(e)
      /\ Outward(ex[e], db, Around) /\ (Live(e) => Knows(ex[e], db, Around))
      /\ (~restored => anchor <= db.epoch) /\ Around.anchor = anchor /\ anchor \in Nat
  BY Here
<1>2. ex[e].pc = "anchor" /\ UNCHANGED outside
  BY DEF ReadAnchor
<1>3. /\ Around' = Around /\ Passes(Around, Around')
      /\ UNCHANGED <<anchor, backup, moves, restored>>
  BY <1>1, <1>2, WorldStays DEF outside
<1>4. ex[e].todo = <<>> /\ ex[e].status \notin Terminal /\ ex[e].ever /\ ex[e].pc \notin Saving
  BY <1>1, <1>2 DEF Shape, Place, Resting, Sound, Session, Saving
<1>5. ASSUME NEW t \in ExecutorRow, Local(e, t), SameSession(t, ex[e]), Shape(t),
             Outward(t, db, Around), Knows(ex[e], db, Around) => Knows(t, db, Around)
      PROVE  ExecutorInv'
  <2>1. Connected(e) /\ ~t.reacquired => Knows(t, db, Around)
    BY <1>1, <1>5 DEF Live, SameSession
  <2>. QED  BY <1>1, <1>3, <1>4, <1>5, <2>1, LocalStep DEF SameSession
<1>6. CASE Local(e, [At(ex[e], "snapshot") EXCEPT !.anchored = anchor])
  <2>. DEFINE u == At(ex[e], "snapshot")
              t == [u EXCEPT !.anchored = anchor]
  <2>1. "snapshot" \in Calm \ {"fence", "stop"}
    BY DEF Calm
  <2>2. /\ u \in ExecutorRow /\ Shape(u) /\ Outward(u, db, Around) /\ SameSession(u, ex[e])
        /\ SameMemory(u, ex[e]) /\ u.pc = "snapshot"
        /\ (Knows(ex[e], db, Around) => Knows(u, db, Around))
    BY <1>1, <1>4, <2>1, AtCalm
  <2>. HIDE DEF u
  <2>3. t \in ExecutorRow
    BY <1>1, <2>2 DEF ExecutorRow
  <2>4. /\ SameSession(t, u) /\ SameMemory(t, u) /\ t.pc = u.pc /\ t.todo = u.todo
        /\ t.pending = u.pending /\ t.anchored = anchor
    BY <2>2 DEF ExecutorRow, SameSession, SameMemory, SameBelief
  <2>. HIDE DEF t
  <2>5. Shape(t)
    BY <2>2, <2>4 DEF Shape, Place, Grants, SameMemory, SameBelief
  <2>6. Outward(t, db, Around)
    BY <1>1, <2>2, <2>4 DEF Outward, SameMemory
  <2>7. Knows(u, db, Around) => Knows(t, db, Around)
    <3>1. (Open(t) => Open(u)) /\ u.pc \notin Saving /\ t.pc \in Calm
      BY <2>2, <2>4 DEF Open, Saving, Calm
    <3>. QED  BY <2>4, <3>1, CalmKnows DEF SameMemory
  <2>8. SameSession(t, ex[e])
    BY <2>2, <2>4 DEF SameSession
  <2>. QED  BY <1>5, <1>6, <2>2, <2>3, <2>5, <2>6, <2>7, <2>8 DEF t, u
<1>7. CASE Local(e, Unread(ex[e]))
  BY <1>1, <1>2, <1>4, <1>5, <1>7, UnreadFields
<1>. QED  BY <1>6, <1>7 DEF ReadAnchor, Unread

\* The next attempt knows what the last one did.
LEMMA OnwardSound ==
  ASSUME NEW s, NEW t, NEW d, NEW w \in World, Onward(t, s), Outward(s, d, w)
  PROVE  /\ t \in ExecutorRow /\ Shape(t) /\ SameSession(t, s) /\ Outward(t, d, w)
         /\ /\ s.ctl # NoController /\ s.durable = d.journal /\ s.journal = s.durable
            /\ s.base <= d.epoch /\ (w.moves = 0 => s.base = d.epoch) /\ s.ctl.max <= d.epoch
            /\ KnowsGrant(s, w) /\ (Open(t) => Open(s))
            => Knows(t, d, w)
<1>1. t.pc \in {"idle", "collect", "fence", "host", "intent"} /\ t.pc \notin Saving
  BY DEF Onward, Saving
<1>2. Outward(t, d, w)
  BY <1>1 DEF Onward, Outward, SameMemory, World
<1>3. ASSUME s.ctl # NoController, s.durable = d.journal, s.journal = s.durable,
             s.base <= d.epoch, w.moves = 0 => s.base = d.epoch, s.ctl.max <= d.epoch,
             KnowsGrant(s, w), Open(t) => Open(s)
      PROVE  Knows(t, d, w)
  <2>1. SameBelief(t, s)
    BY DEF Onward, SameMemory
  <2>2. KnowsJournal(t, d, w)
    BY <1>1, <1>3, <2>1 DEF KnowsJournal, SameBelief, Onward
  <2>3. KnowsEpoch(t, d, w)
    BY <1>1, <1>3, <2>1 DEF KnowsEpoch, SameBelief
  <2>4. KnowsGrant(t, w)
    BY <1>3, <2>1 DEF KnowsGrant, SameBelief
  <2>. QED  BY <1>3, <2>1, <2>2, <2>3, <2>4 DEF Knows, SameBelief
<1>. QED  BY <1>2, <1>3 DEF Onward

\* The snapshot against the anchor: ahead only of a database that was set back.
LEMMA CheckedSound ==
  ASSUME NEW s \in ExecutorRow, NEW d \in DbRow, NEW w \in World, Shape(s), Outward(s, d, w),
         s.pc = "snapshot", Covers(d.journal, d.epoch, w), ~w.restored => w.anchor <= d.epoch,
         Knows(s, d, w)
  PROVE  LET t == Checked(s, d.epoch)
         IN  t \in ExecutorRow /\ Shape(t) /\ Outward(t, d, w) /\ Knows(t, d, w)
<1>1. /\ s.todo = <<>> /\ s.status \notin Terminal /\ s.pc \notin Saving /\ Grants(s)
      /\ s.anchored \in Nat /\ d.epoch \in Nat /\ s.anchored <= w.anchor /\ w.anchor \in Nat
  BY DEF Shape, Place, Resting, Saving, ExecutorRow, DbRow, Outward, World
<1>2. s.anchored > d.epoch => w.restored
  BY <1>1
<1>3. CASE s.ctl # NoController /\ s.anchored > d.epoch
  <2>. DEFINE t == At(s, "stop")
  <2>1. "stop" \in Steps
    BY DEF Steps, Resting
  <2>2. /\ t \in ExecutorRow /\ SameSession(t, s) /\ SameMemory(t, s)
        /\ t.pc = "stop" /\ t.anchored = 0 /\ t.pending = s.pending /\ t.todo = <<>>
    BY <1>1, <2>1, AtFields
  <2>3. Checked(s, d.epoch) = t
    BY <1>3 DEF Checked
  <2>. HIDE DEF t
  <2>4. Place(t) /\ Grants(t)
    BY <1>1, <1>3, <2>2 DEF Shape, Place, Grants, Resting, Granting, Starting, SameMemory, SameBelief
  <2>5. Outward(t, d, w)
    BY <1>2, <1>3, <2>2 DEF Outward, SameMemory, World
  <2>6. (Open(t) => Open(s)) /\ t.pc \in Calm
    BY <2>2 DEF Open, Calm
  <2>7. Knows(t, d, w)
    BY <1>1, <2>2, <2>6, CalmKnows DEF SameMemory
  <2>. QED  BY <2>2, <2>3, <2>4, <2>5, <2>7 DEF Shape
<1>4. CASE s.ctl # NoController /\ ~(s.anchored > d.epoch) /\ s.base # d.epoch
  <2>1. "reset" \in Calm \ {"fence", "stop"}
    BY DEF Calm
  <2>2. Checked(s, d.epoch) = At(s, "reset")
    BY <1>4 DEF Checked
  <2>. QED  BY <1>1, <1>4, <2>1, <2>2, AtCalm
<1>5. CASE s.ctl # NoController /\ ~(s.anchored > d.epoch) /\ s.base = d.epoch
  <2>1. Checked(s, d.epoch) = Retry(s)
    BY <1>5 DEF Checked
  <2>2. s.ctl.phase # "none"
    BY <1>5 DEF Shape, Place
  <2>3. Onward(Retry(s), s) /\ (Open(Retry(s)) => Open(s))
    BY <1>1, <1>5, <2>2, RetryOnward
  <2>4. KnowsJournal(s, d, w) /\ KnowsEpoch(s, d, w) /\ KnowsGrant(s, w)
    BY <1>5 DEF Knows
  <2>. QED  BY <1>1, <1>5, <2>1, <2>3, <2>4, OnwardSound DEF KnowsJournal, KnowsEpoch
<1>6. CASE s.ctl = NoController /\ s.anchored > d.epoch
  <2>. DEFINE t == [At(s, "idle") EXCEPT !.base = d.epoch, !.status = "ahead"]
              v == At(s, "idle")
  <2>1. Checked(s, d.epoch) = t
    BY <1>6 DEF Checked
  <2>2. "idle" \in Calm \ {"fence", "stop"}
    BY DEF Calm
  <2>3. /\ v \in ExecutorRow /\ Shape(v) /\ SameMemory(v, s) /\ v.pc = "idle" /\ v.anchored = 0
        /\ v.pending = s.pending /\ v.todo = <<>>
    BY <1>1, <1>6, <2>2, AtCalm
  <2>4. t = [v EXCEPT !.base = d.epoch, !.status = "ahead"]
    OBVIOUS
  <2>. HIDE DEF v, t
  <2>5. t \in ExecutorRow
    BY <1>1, <2>3, <2>4 DEF ExecutorRow, Statuses, Terminal
  <2>6. /\ t.ctl = NoController /\ t.pc = "idle" /\ t.anchored = 0 /\ t.pending = v.pending
        /\ t.todo = <<>> /\ t.status = "ahead"
    BY <1>6, <2>3, <2>4 DEF ExecutorRow, SameMemory, SameBelief
  <2>7. Shape(t)
    BY <1>6, <2>3, <2>6 DEF Shape, Place, Grants, Resting, Granting, Starting, SameMemory, SameBelief
  <2>8. Outward(t, d, w)
    BY <1>2, <1>6, <2>6 DEF Outward, World
  <2>9. Knows(t, d, w)
    BY <2>6 DEF Knows, KnowsNothing
  <2>. QED  BY <2>1, <2>5, <2>7, <2>8, <2>9
<1>7. CASE s.ctl = NoController /\ ~(s.anchored > d.epoch)
  <2>. DEFINE v == At(s, "load")
              t == [v EXCEPT !.base = d.epoch]
  <2>1. Checked(s, d.epoch) = t
    BY <1>7 DEF Checked
  <2>2. "load" \in Steps
    BY DEF Steps, Resting
  <2>3. /\ v \in ExecutorRow /\ SameMemory(v, s) /\ v.pc = "load" /\ v.anchored = 0
        /\ v.pending = s.pending /\ v.todo = <<>>
    BY <1>1, <2>2, AtFields
  <2>. HIDE DEF v
  <2>4. t \in ExecutorRow
    BY <1>1, <2>3 DEF ExecutorRow
  <2>5. /\ t.ctl = NoController /\ t.pc = "load" /\ t.anchored = 0 /\ t.pending = v.pending
        /\ t.todo = <<>> /\ t.status = s.status /\ t.base = d.epoch
    BY <1>7, <2>3 DEF ExecutorRow, SameMemory, SameBelief
  <2>. HIDE DEF t
  <2>6. Shape(t)
    BY <1>1, <1>7, <2>3, <2>5
       DEF Shape, Place, Grants, Resting, Granting, Starting, SameMemory, SameBelief
  <2>7. Outward(t, d, w)
    BY <2>5 DEF Outward, World
  <2>8. Knows(t, d, w)
    BY <1>1, <2>5 DEF Knows, KnowsNothing
  <2>. QED  BY <2>1, <2>4, <2>6, <2>7, <2>8
<1>. QED  BY <1>3, <1>4, <1>5, <1>6, <1>7

\* The snapshot is read.
LEMMA ReadSnapshotInv ==
  ASSUME ExecutorInv, NEW e \in Executors, ReadSnapshot(e)
  PROVE  ExecutorInv'
<1>1. /\ Types /\ Around \in World /\ ex[e] \in ExecutorRow /\ Shape(ex[e]) /\ db \in DbRow
      /\ Outward(ex[e], db, Around) /\ (Live(e) => Knows(ex[e], db, Around))
      /\ Covers(db.journal, db.epoch, Around) /\ (~Around.restored => Around.anchor <= db.epoch)
  BY Here
<1>2. ex[e].pc = "snapshot" /\ UNCHANGED outside
  BY DEF ReadSnapshot
<1>3. ex[e].ever /\ (Able(e) => Live(e))
  BY <1>2, AbleLive
<1>4. CASE Answered(e, Call("state"), Checked(ex[e], db.epoch))
  <2>1. Live(e)
    BY <1>3, <1>4 DEF Answered, Able
  <2>. QED  BY <1>1, <1>2, <1>4, <2>1, CheckedSound, PlainAnswered
<1>5. CASE Failed(e, Call("state"), Unread(ex[e]))
  <2>1. ex[e].todo = <<>>
    BY <1>1, <1>2 DEF Shape, Place, Resting
  <2>. QED  BY <1>1, <1>2, <1>3, <1>5, <2>1, UnreadFields, PlainFailed
<1>. QED  BY <1>4, <1>5 DEF ReadSnapshot, Unread

\* A preflight that failed holds dispatch and gives up, stops or starts over.
LEMMA HoldAndInv ==
  ASSUME ExecutorInv, NEW e \in Executors, HoldAndDrop(e) \/ HoldAndStop(e) \/ HoldAndReset(e)
  PROVE  ExecutorInv'
<1>1. /\ Types /\ Around \in World /\ ex[e] \in ExecutorRow /\ Shape(ex[e]) /\ db \in DbRow
      /\ Outward(ex[e], db, Around) /\ (Live(e) => Knows(ex[e], db, Around))
  BY Here
<1>2. ex[e].pc \in {"drop", "stop", "reset"} /\ UNCHANGED outside
  BY DEF HoldAndDrop, HoldAndStop, HoldAndReset
<1>3. ex[e].ever /\ (Able(e) => Live(e)) /\ ex[e].todo = <<>> /\ ex[e].pc \notin Saving
  BY <1>1, <1>2, AbleLive DEF Shape, Place, Resting, Saving
<1>4. CASE HoldAndDrop(e) \/ HoldAndReset(e)
  <2>1. PICK p \in {"idle", "hold", "anchor"} :
          \/ Answered(e, Call("hold"), At(Discard(ex[e]), p))
          \/ Failed(e, Call("hold"), At(Discard(ex[e]), p))
    BY <1>4 DEF HoldAndDrop, HoldAndReset
  <2>. DEFINE t == At(Discard(ex[e]), p)
  <2>2. ex[e].pc \in {"idle", "drop", "reset"}
    BY <1>4 DEF HoldAndDrop, HoldAndReset
  <2>3. /\ t \in ExecutorRow /\ SameSession(t, ex[e])
        /\ Shape(t) /\ Outward(t, db, Around) /\ Knows(t, db, Around)
    BY <1>1, <1>3, <2>2, DiscardTo
  <2>. HIDE DEF t
  <2>4. CASE Answered(e, Call("hold"), t)
    BY <1>2, <2>3, <2>4, PlainAnswered
  <2>5. CASE Failed(e, Call("hold"), t)
    BY <1>2, <1>3, <2>3, <2>5, PlainFailed
  <2>. QED  BY <2>1, <2>4, <2>5 DEF t
<1>5. CASE HoldAndStop(e)
  <2>. DEFINE t == [At(ex[e], "idle") EXCEPT !.status = "ahead"]
  <2>1. Around.restored /\ "ahead" \in Statuses
    BY <1>1, <1>5 DEF HoldAndStop, Outward, Statuses, Terminal
  <2>2. /\ t \in ExecutorRow /\ SameSession(t, ex[e]) /\ Shape(t) /\ Outward(t, db, Around)
        /\ (Knows(ex[e], db, Around) => Knows(t, db, Around))
    BY <1>1, <1>3, <2>1, IdleAs
  <2>3. Answered(e, Call("hold"), t) \/ Failed(e, Call("hold"), t)
    BY <1>5 DEF HoldAndStop
  <2>. HIDE DEF t
  <2>4. CASE Answered(e, Call("hold"), t)
    <3>1. Live(e)
      BY <1>3, <2>4 DEF Answered, Able
    <3>. QED  BY <1>1, <1>2, <2>2, <2>4, <3>1, PlainAnswered
  <2>5. CASE Failed(e, Call("hold"), t)
    BY <1>2, <1>3, <2>2, <2>5, PlainFailed
  <2>. QED  BY <2>3, <2>4, <2>5
<1>. QED  BY <1>4, <1>5

\* FailoverController::restore does not outrun the epoch.
LEMMA RestoredController ==
  ASSUME NEW j \in JournalRow, NEW b \in Nat, NEW w \in World, Covers(j, b, w)
  PROVE  LET c == IF j.phase = "none" THEN Steady(b) ELSE RestoreController(Max({j.max, b}), j)
         IN  /\ c \in Controller /\ c.phase # "none" /\ c.max <= b
             /\ c.phase # "promoted" =>
                  /\ w.moves = 0 => b <= c.max + 1
                  /\ j.phase = "promoting" => j.new <= c.max + 1
                  /\ j.phase # "promoted"
<1>. DEFINE c == IF j.phase = "none" THEN Steady(b) ELSE RestoreController(Max({j.max, b}), j)
<1>1. /\ j.max \in Nat /\ j.new \in Nat /\ j.max <= b /\ j.phase \in Phase
      /\ j.reconciled \in BOOLEAN /\ j.rejoined \in BOOLEAN
  BY DEF JournalRow, Covers
<1>2. Max({j.max, b}) = b
  BY <1>1, MaxOfTwo
<1>3. \A n \in Nat : /\ Steady(n) \in Controller /\ Steady(n).phase = "steady" /\ Steady(n).max = n
                     /\ InFencing(Steady(n)) \in Controller
                     /\ InFencing(Steady(n)).phase = "fencing" /\ InFencing(Steady(n)).max = n
  BY DEF Steady, InFencing, Controller, NoTime
<1>4. CASE j.phase \in {"none", "steady"}
  <2>1. c = Steady(b)
    BY <1>2, <1>4 DEF RestoreController
  <2>. HIDE DEF c
  <2>. QED  BY <1>3, <1>4, <2>1 DEF c
<1>5. CASE j.phase = "fencing"
  <2>1. c = InFencing(Steady(b))
    BY <1>2, <1>5 DEF RestoreController
  <2>. HIDE DEF c
  <2>. QED  BY <1>3, <1>5, <2>1 DEF c
<1>6. CASE j.phase = "promoting"
  <2>. DEFINE n == j.new - 1
  <2>1. c = InFencing(Steady(n))
    BY <1>6 DEF RestoreController
  <2>2. n \in Nat /\ j.new = n + 1 /\ n <= b /\ (w.moves = 0 => b <= n + 1)
    BY <1>1, <1>6 DEF Covers
  <2>. HIDE DEF c, n
  <2>. QED  BY <1>3, <1>6, <2>1, <2>2 DEF c
<1>7. CASE j.phase = "promoted"
  <2>. DEFINE n == j.new - 1
              x == InPromoted(Steady(n), j.new)
  <2>1. c = [x EXCEPT !.reconciled = j.reconciled, !.rejoined = j.rejoined]
    BY <1>7 DEF RestoreController
  <2>2. n \in Nat /\ n <= b
    BY <1>1, <1>7 DEF Covers
  <2>. HIDE DEF n, c
  <2>3. x \in Controller /\ x.phase = "promoted" /\ x.max = n
    BY <1>1, <2>2 DEF InPromoted, Steady, Controller, NoTime
  <2>. HIDE DEF x
  <2>4. c \in Controller /\ c.phase = "promoted" /\ c.max = n
    BY <1>1, <2>1, <2>3 DEF Controller
  <2>. QED  BY <2>2, <2>4 DEF c
<1>. QED  BY <1>1, <1>4, <1>5, <1>6, <1>7 DEF Phase

\* The journal against the snapshot: superseded only by an epoch moved by hand,
\* never inconsistent.
LEMMA RestoredSound ==
  ASSUME NEW s \in ExecutorRow, NEW d \in DbRow, NEW w \in World, Shape(s), Outward(s, d, w),
         s.pc = "load", Knows(s, d, w)
  PROVE  LET t == Restored(s, d.journal)
         IN  t \in ExecutorRow /\ Shape(t) /\ Outward(t, d, w) /\ Knows(t, d, w)
<1>. DEFINE j == d.journal
            c == IF j.phase = "none" THEN Steady(s.base)
                 ELSE RestoreController(Max({j.max, s.base}), j)
            v == Verdict(j, s.base)
            u == [s EXCEPT !.ctl = c, !.journal = j, !.durable = j, !.status = v]
<1>1. /\ s.todo = <<>> /\ s.ctl = NoController /\ s.pending = <<>> /\ s.pc \notin Saving
      /\ s.status \notin Terminal
  BY DEF Shape, Place, Resting, Saving
<1>2. /\ s.base <= d.epoch /\ (w.moves = 0 => s.base = d.epoch) /\ Covers(j, s.base, w)
      /\ s.base \in Nat /\ d.epoch \in Nat /\ j \in JournalRow /\ w.moves \in Nat
  BY <1>1 DEF Knows, KnowsNothing, ExecutorRow, DbRow, World
<1>3. Restored(s, j) = IF v = "running" THEN Retry(u) ELSE [At(s, "idle") EXCEPT !.status = v]
  <2>1. CASE v = "running"
    BY <2>1 DEF Restored
  <2>2. CASE v # "running"
    BY <2>2 DEF Restored
  <2>. QED  BY <2>1, <2>2
<1>4. v \in {"running", "superseded"} /\ (v = "superseded" => w.moves > 0)
  BY <1>2 DEF Verdict, Covers, JournalRow, Phase
<1>5. CASE v # "running"
  <2>1. v \in Statuses /\ v \notin {"ahead", "inconsistent"}
    BY <1>4 DEF Statuses, Terminal
  <2>. HIDE DEF v
  <2>. QED  BY <1>1, <1>3, <1>4, <1>5, <2>1, IdleAs
<1>6. CASE v = "running"
  <2>1. /\ c \in Controller /\ c.phase # "none" /\ c.max <= s.base
        /\ c.phase # "promoted" =>
             /\ w.moves = 0 => s.base <= c.max + 1
             /\ j.phase = "promoting" => j.new <= c.max + 1
             /\ j.phase # "promoted"
    BY <1>2, RestoredController
  <2>2. v \in Statuses /\ v \notin Terminal
    BY <1>6 DEF Statuses, Terminal
  <2>. HIDE DEF c, v, j
  <2>3. u \in ExecutorRow
    BY <1>2, <2>1, <2>2 DEF ExecutorRow
  <2>4. /\ u.ctl = c /\ u.journal = j /\ u.durable = j /\ u.status = v /\ u.base = s.base
        /\ u.todo = <<>> /\ u.pending = <<>> /\ u.pc = "load" /\ u.anchored = s.anchored
    BY <1>1 DEF ExecutorRow
  <2>. HIDE DEF u
  <2>5. u.ctl # NoController
    BY <2>1, <2>4, NoRows
  <2>6. Grants(u) /\ ~Open(u)
    BY <2>4 DEF Grants, Open
  <2>7. Onward(Retry(u), u) /\ (Open(Retry(u)) => Open(u))
    BY <2>1, <2>2, <2>3, <2>4, <2>5, <2>6, RetryOnward
  <2>8. Outward(u, d, w)
    BY <1>6, <2>4 DEF Outward
  <2>9. KnowsGrant(u, w)
    BY <2>1, <2>4, <2>6 DEF KnowsGrant
  <2>10. c.max <= d.epoch
    BY <1>2, <2>1 DEF Controller
  <2>. QED  BY <1>2, <1>3, <1>6, <2>4, <2>5, <2>7, <2>8, <2>9, <2>10, OnwardSound DEF j
<1>. QED  BY <1>5, <1>6

\* The journal is loaded.
LEMMA LoadJournalInv ==
  ASSUME ExecutorInv, NEW e \in Executors, LoadJournal(e)
  PROVE  ExecutorInv'
<1>1. /\ Types /\ Around \in World /\ ex[e] \in ExecutorRow /\ Shape(ex[e]) /\ db \in DbRow
      /\ Outward(ex[e], db, Around) /\ (Live(e) => Knows(ex[e], db, Around))
  BY Here
<1>2. ex[e].pc = "load" /\ UNCHANGED outside
  BY DEF LoadJournal
<1>3. ex[e].ever /\ (Able(e) => Live(e))
  BY <1>2, AbleLive
<1>4. CASE Answered(e, Call("load"), Restored(ex[e], db.journal))
  <2>1. Live(e)
    BY <1>3, <1>4 DEF Answered, Able
  <2>. QED  BY <1>1, <1>2, <1>4, <2>1, RestoredSound, PlainAnswered
<1>5. CASE Failed(e, Call("load"), [At(ex[e], "idle") EXCEPT !.status = "waiting"])
  <2>1. "waiting" \in Statuses
    BY DEF Statuses
  <2>. DEFINE t == [At(ex[e], "idle") EXCEPT !.status = "waiting"]
  <2>2. t \in ExecutorRow /\ SameSession(t, ex[e]) /\ Shape(t) /\ Outward(t, db, Around)
    BY <1>1, <2>1, IdleAs
  <2>3. Failed(e, Call("load"), t)
    BY <1>5
  <2>. HIDE DEF t
  <2>. QED  BY <1>2, <1>3, <2>2, <2>3, PlainFailed
<1>. QED  BY <1>4, <1>5 DEF LoadJournal

---------------------------------------------------------------------------
(* Attempts. *)

Attempting == Granting \union {"fence", "fenced"}

\* What holds in the middle of an attempt.
LEMMA Attempted ==
  ASSUME ExecutorInv, NEW e \in Executors, ex[e].pc \in Attempting
  PROVE  /\ Types /\ Around \in World /\ ex[e] \in ExecutorRow /\ Shape(ex[e]) /\ db \in DbRow
         /\ Outward(ex[e], db, Around) /\ Covers(db.journal, db.epoch, Around)
         /\ ex[e].ever /\ ex[e].todo # <<>> /\ ex[e].ctl # NoController /\ ex[e].ctl.phase # "none"
         /\ ex[e].status \notin Terminal /\ Head(ex[e].todo) \in Nat
         /\ (Head(ex[e].todo) # 0 => Open(ex[e]) /\ Head(ex[e].todo) = ex[e].ctl.new
                                     /\ ex[e].ctl.phase = "promoted")
         /\ Able(e) => Live(e) /\ Knows(ex[e], db, Around)
                       /\ KnowsJournal(ex[e], db, Around) /\ KnowsEpoch(ex[e], db, Around)
                       /\ KnowsGrant(ex[e], Around)
<1>1. /\ Types /\ Around \in World /\ ex[e] \in ExecutorRow /\ Shape(ex[e]) /\ db \in DbRow
      /\ Outward(ex[e], db, Around) /\ Covers(db.journal, db.epoch, Around)
      /\ (Live(e) => Knows(ex[e], db, Around))
  BY Here
<1>2. ex[e].pc \notin {"idle", "hold"}
  BY DEF Attempting, Granting
<1>3. ex[e].ever /\ (Able(e) => Live(e))
  BY <1>2, AbleLive
<1>4. /\ ex[e].todo # <<>> /\ ex[e].ctl # NoController /\ ex[e].ctl.phase # "none"
      /\ ex[e].status \notin Terminal
  BY <1>1 DEF Shape, Place, Attempting, Granting, Resting, Starting
<1>5. /\ ex[e].todo \in Seq(Nat)
  BY <1>1 DEF ExecutorRow
<1>6. Head(ex[e].todo) \in Nat /\ 1 \in DOMAIN ex[e].todo /\ Head(ex[e].todo) = ex[e].todo[1]
  BY <1>4, <1>5
<1>7. Head(ex[e].todo) # 0 => Open(ex[e]) /\ Head(ex[e].todo) = ex[e].ctl.new
                              /\ ex[e].ctl.phase = "promoted"
  BY <1>1, <1>6 DEF Open, Shape, Grants
<1>. QED  BY <1>1, <1>3, <1>4, <1>6, <1>7 DEF Knows

\* The action waits for the next tick.
LEMMA Parked ==
  ASSUME ExecutorInv, NEW e \in Executors, ex[e].pc \in Attempting
  PROVE  LET t == Park(ex[e])
         IN  /\ t \in ExecutorRow /\ Shape(t) /\ SameSession(t, ex[e]) /\ Outward(t, db, Around)
             /\ Able(e) /\ ex[e].pc \notin Saving => Knows(t, db, Around)
<1>1. /\ Around \in World /\ ex[e] \in ExecutorRow /\ Shape(ex[e])
      /\ Outward(ex[e], db, Around) /\ ex[e].todo # <<>> /\ ex[e].ctl # NoController
      /\ Able(e) => /\ KnowsJournal(ex[e], db, Around) /\ KnowsEpoch(ex[e], db, Around)
                    /\ KnowsGrant(ex[e], Around)
  BY Attempted
<1>2. Onward(Park(ex[e]), ex[e]) /\ (Open(Park(ex[e])) => Open(ex[e]))
  BY <1>1, ParkOnward
<1>. QED  BY <1>1, <1>2, OnwardSound DEF KnowsJournal, KnowsEpoch

\* A failed call parks the action.
LEMMA ParkFailed ==
  ASSUME ExecutorInv, NEW e \in Executors, ex[e].pc \in Attempting, NEW c \in CallRow,
         Failed(e, c, Park(ex[e])), UNCHANGED outside, Able(e) => CallSound(c, db, Around)
  PROVE  ExecutorInv'
BY Attempted, Parked, FailedStep

\* So does an authority that does not answer.
LEMMA ParkLocal ==
  ASSUME ExecutorInv, NEW e \in Executors, ex[e].pc \in Attempting \ Saving, Local(e, Park(ex[e])),
         Passes(Around, Around'), UNCHANGED <<backup, moves, restored>>,
         ~restored => anchor' <= db.epoch
  PROVE  ExecutorInv'
<1>. DEFINE t == Park(ex[e])
<1>1. /\ t \in ExecutorRow /\ Shape(t) /\ SameSession(t, ex[e]) /\ Outward(t, db, Around)
      /\ Able(e) => Knows(t, db, Around)
  BY Parked
<1>2. ex[e].ever /\ db \in DbRow /\ Local(e, t)
  BY Attempted
<1>. HIDE DEF t
<1>3. db.epoch <= db.epoch /\ Ages(db, db, Around')
  BY <1>2 DEF DbRow, Ages
<1>4. Outward(t, db, Around')
  BY <1>1, <1>2, <1>3, OutwardLasts
<1>5. Connected(e) /\ ~t.reacquired => Knows(t, db, Around')
  <2>1. Connected(e) /\ ~t.reacquired => Able(e)
    BY <1>1 DEF Able, SameSession
  <2>. QED  BY <1>1, <1>2, <1>3, <2>1, KnowledgeLasts
<1>. QED  BY <1>1, <1>2, <1>4, <1>5, LocalStep DEF SameSession

\* The tick goes on to the next call of the same action.
LEMMA AtAttempt ==
  ASSUME NEW s \in ExecutorRow, Shape(s), s.pc \in Attempting, NEW p \in Attempting,
         p \in {"fence", "fenced"} <=> Head(s.todo) = 0, NEW d, NEW w \in World, Outward(s, d, w),
         p \in {"check", "cas", "witness"} => w.host = Head(s.todo),
         p = "witness" => w.restored \/ Head(s.todo) <= d.epoch
  PROVE  LET t == At(s, p)
         IN  /\ t \in ExecutorRow /\ Shape(t) /\ Outward(t, d, w)
             /\ SameSession(t, s) /\ SameMemory(t, s) /\ t.pc = p /\ t.anchored = 0
             /\ t.todo = s.todo /\ t.pending = s.pending /\ (Open(t) <=> Open(s))
<1>. DEFINE t == At(s, p)
<1>1. p \in Steps /\ p # "idle"
  BY DEF Attempting, Granting, Steps
<1>2. /\ t \in ExecutorRow /\ SameSession(t, s) /\ SameMemory(t, s)
      /\ t.pc = p /\ t.anchored = 0 /\ t.pending = s.pending /\ t.todo = s.todo
  BY <1>1, AtFields
<1>. HIDE DEF t
<1>3. /\ s.pc \notin Resting /\ s.pc \notin Starting /\ s.pc # "idle" /\ p \notin Resting
      /\ p \notin {"hold", "load"} /\ p # "stop" /\ (p \in Granting => Head(s.todo) # 0)
  BY DEF Attempting, Granting, Resting, Starting
<1>4. Place(t)
  BY <1>2, <1>3 DEF Shape, Place, SameMemory, SameBelief
<1>5. Grants(t)
  BY <1>2 DEF Shape, Grants, SameMemory, SameBelief
<1>6. Outward(t, d, w)
  BY <1>2, <1>3 DEF Outward, SameMemory, World
<1>7. Open(t) <=> Open(s)
  BY <1>2 DEF Open
<1>. QED  BY <1>2, <1>4, <1>5, <1>6, <1>7 DEF Shape, t

\* A row with another journal in memory.
LEMMA JournalSet ==
  ASSUME NEW s \in ExecutorRow, NEW j \in JournalRow
  PROVE  LET t == [s EXCEPT !.journal = j]
         IN  /\ t \in ExecutorRow /\ SameSession(t, s) /\ t.journal = j
             /\ t.ctl = s.ctl /\ t.durable = s.durable /\ t.base = s.base /\ t.status = s.status
             /\ t.pending = s.pending /\ t.pc = s.pc /\ t.todo = s.todo /\ t.anchored = s.anchored
             /\ (Shape(s) => Shape(t)) /\ (Open(t) <=> Open(s))
             /\ \A d, w : Outward(s, d, w) => Outward(t, d, w)
<1>. DEFINE t == [s EXCEPT !.journal = j]
<1>1. t \in ExecutorRow
  BY DEF ExecutorRow
<1>2. /\ SameSession(t, s) /\ t.journal = j
      /\ t.ctl = s.ctl /\ t.durable = s.durable /\ t.base = s.base /\ t.status = s.status
      /\ t.pending = s.pending /\ t.pc = s.pc /\ t.todo = s.todo /\ t.anchored = s.anchored
  BY DEF ExecutorRow, SameSession
<1>. HIDE DEF t
<1>3. (Place(s) => Place(t)) /\ (Grants(s) => Grants(t)) /\ (Open(t) <=> Open(s))
  BY <1>2 DEF Place, Grants, Open
<1>4. \A d, w : Outward(s, d, w) => Outward(t, d, w)
  BY <1>2 DEF Outward
<1>. QED  BY <1>1, <1>2, <1>3, <1>4 DEF Shape, t

\* A row whose journal is saved.
LEMMA DurableSet ==
  ASSUME NEW s \in ExecutorRow, NEW j \in JournalRow
  PROVE  LET t == [s EXCEPT !.durable = j]
         IN  /\ t \in ExecutorRow /\ SameSession(t, s) /\ t.durable = j
             /\ t.ctl = s.ctl /\ t.journal = s.journal /\ t.base = s.base /\ t.status = s.status
             /\ t.pending = s.pending /\ t.pc = s.pc /\ t.todo = s.todo /\ t.anchored = s.anchored
             /\ (Shape(s) => Shape(t)) /\ (Open(t) <=> Open(s))
             /\ \A d, w : Outward(s, d, w) => Outward(t, d, w)
<1>. DEFINE t == [s EXCEPT !.durable = j]
<1>1. t \in ExecutorRow
  BY DEF ExecutorRow
<1>2. /\ SameSession(t, s) /\ t.durable = j
      /\ t.ctl = s.ctl /\ t.journal = s.journal /\ t.base = s.base /\ t.status = s.status
      /\ t.pending = s.pending /\ t.pc = s.pc /\ t.todo = s.todo /\ t.anchored = s.anchored
  BY DEF ExecutorRow, SameSession
<1>. HIDE DEF t
<1>3. (Place(s) => Place(t)) /\ (Grants(s) => Grants(t)) /\ (Open(t) <=> Open(s))
  BY <1>2 DEF Place, Grants, Open
<1>4. \A d, w : Outward(s, d, w) => Outward(t, d, w)
  BY <1>2 DEF Outward
<1>. QED  BY <1>1, <1>2, <1>3, <1>4 DEF Shape, t

\* The fence that is about to be saved.
LEMMA FencedSound ==
  ASSUME NEW s \in ExecutorRow, NEW d \in DbRow, NEW w \in World, Shape(s), Outward(s, d, w),
         s.pc = "fence", KnowsJournal(s, d, w), KnowsEpoch(s, d, w), KnowsGrant(s, w),
         Covers(d.journal, d.epoch, w)
  PROVE  LET t == At(Fencing(s), "fenced")
         IN  t \in ExecutorRow /\ Shape(t) /\ Outward(t, d, w) /\ Knows(t, d, w)
<1>. DEFINE u == Fencing(s)
            t == At(u, "fenced")
            b == BuildJournal(s, "fencing", 0)
<1>1. /\ s.journal = s.durable /\ s.durable = d.journal /\ s.journal \in JournalRow
      /\ s.ctl.max \in Nat /\ s.ctl.max <= d.epoch /\ d.epoch \in Nat
      /\ s.base <= d.epoch /\ (w.moves = 0 => s.base = d.epoch)
  BY DEF KnowsJournal, KnowsEpoch, Saving, ExecutorRow, DbRow, Controller
<1>2. /\ s.pc \in Attempting /\ "fenced" \in Attempting /\ Head(s.todo) = 0 /\ s.ctl # NoController
      /\ s.todo # <<>>
  BY DEF Attempting, Shape, Place, Starting, Resting
<1>3. b \in JournalRow /\ b.phase = "fencing" /\ b.max = s.ctl.max
  BY <1>1, NoRows DEF BuildJournal, JournalRow, Phase
<1>. HIDE DEF b
<1>4. /\ Forward(s.journal, u.journal) /\ Covers(u.journal, d.epoch, w) /\ u.journal \in JournalRow
      /\ \/ u.journal = s.journal
         \/ u.journal.phase = "fencing" /\ s.journal.phase \in {"none", "steady"}
      /\ u \in ExecutorRow /\ SameSession(u, s) /\ u.ctl = s.ctl /\ u.durable = s.durable
      /\ u.base = s.base /\ u.pc = s.pc /\ u.todo = s.todo
      /\ Shape(u) /\ (Open(u) <=> Open(s)) /\ Outward(u, d, w)
  <2>1. CASE s.journal.phase \in {"none", "steady"}
    <3>1. u = [s EXCEPT !.journal = b]
      BY <2>1 DEF Fencing, b
    <3>. HIDE DEF u
    <3>2. /\ u \in ExecutorRow /\ SameSession(u, s) /\ u.ctl = s.ctl /\ u.durable = s.durable
          /\ u.base = s.base /\ u.pc = s.pc /\ u.todo = s.todo /\ u.journal = b
          /\ Shape(u) /\ (Open(u) <=> Open(s)) /\ Outward(u, d, w)
      BY <1>3, <3>1, JournalSet
    <3>3. Rank(b) = 2 /\ Rank(s.journal) \in {0, 1}
      BY <1>3, <2>1 DEF Rank
    <3>4. Forward(s.journal, b)
      BY <3>3 DEF Forward
    <3>5. Covers(b, d.epoch, w)
      BY <1>1, <1>3 DEF Covers
    <3>. QED  BY <1>3, <2>1, <3>2, <3>4, <3>5
  <2>2. CASE s.journal.phase \notin {"none", "steady"}
    <3>1. u = s
      BY <2>2 DEF Fencing
    <3>2. Forward(s.journal, s.journal) /\ Covers(s.journal, d.epoch, w)
      BY <1>1, ForwardSame
    <3>. QED  BY <1>1, <3>1, <3>2 DEF SameSession
  <2>. QED  BY <2>1, <2>2
<1>. HIDE DEF u
<1>5. /\ t \in ExecutorRow /\ Shape(t) /\ Outward(t, d, w)
      /\ SameSession(t, u) /\ SameMemory(t, u) /\ t.pc = "fenced"
      /\ t.todo = u.todo /\ (Open(t) <=> Open(u))
  BY <1>2, <1>4, AtAttempt
<1>. HIDE DEF t
<1>6. CallSound(SaveCall(t.journal), d, w)
  BY <1>1, <1>4, <1>5, CallRows DEF CallSound, SameMemory, SameBelief
<1>7. KnowsJournal(t, d, w)
  BY <1>1, <1>4, <1>5, <1>6 DEF KnowsJournal, SameMemory, SameBelief, Saving
<1>8. KnowsEpoch(t, d, w)
  BY <1>1, <1>4, <1>5 DEF KnowsEpoch, SameMemory, SameBelief
<1>9. KnowsGrant(t, w)
  BY <1>1, <1>4, <1>5 DEF KnowsGrant, SameMemory, SameBelief
<1>. QED  BY <1>2, <1>4, <1>5, <1>7, <1>8, <1>9 DEF Knows, SameMemory, SameBelief, t, u

\* fence_writer_site.
LEMMA AttemptFenceInv ==
  ASSUME ExecutorInv, NEW e \in Executors, AttemptFence(e)
  PROVE  ExecutorInv'
<1>1. ex[e].pc = "fence" /\ UNCHANGED outside /\ ex[e].pc \in Attempting /\ ex[e].pc \notin Saving
  BY DEF AttemptFence, Attempting, Saving
<1>2. CASE Answered(e, Call("fence"), IF db.row = "missing" THEN Park(ex[e])
                                      ELSE At(Fencing(ex[e]), "fenced"))
  <2>1. Able(e)
    BY <1>2 DEF Answered, Able
  <2>2. CASE db.row = "missing"
    BY <1>1, <1>2, <2>1, <2>2, Parked, PlainAnswered
  <2>3. CASE db.row # "missing"
    <3>. DEFINE t == At(Fencing(ex[e]), "fenced")
    <3>1. t \in ExecutorRow /\ Shape(t) /\ Outward(t, db, Around) /\ Knows(t, db, Around)
      BY <1>1, <2>1, Attempted, FencedSound
    <3>2. Answered(e, Call("fence"), t)
      BY <1>2, <2>3
    <3>. HIDE DEF t
    <3>. QED  BY <1>1, <3>1, <3>2, PlainAnswered
  <2>. QED  BY <2>2, <2>3
<1>3. CASE Failed(e, Call("fence"), Park(ex[e]))
  BY <1>1, <1>3, PlainCall, ParkFailed
<1>. QED  BY <1>2, <1>3 DEF AttemptFence

\* A saved journal is the row.
LEMMA SaveAnswered ==
  ASSUME ExecutorInv, NEW e \in Executors, NEW j \in JournalRow, NEW t \in ExecutorRow,
         Answered(e, SaveCall(j), t), UNCHANGED outside, CallSound(SaveCall(j), db, Around),
         Shape(t), Outward(t, db, Around),
         \A r \in DbRow : r.journal = j /\ r.epoch = db.epoch => Knows(t, r, Around)
  PROVE  ExecutorInv'
<1>. DEFINE r == Effect(SaveCall(j), db)
<1>1. Types /\ Around \in World /\ db \in DbRow /\ Covers(db.journal, db.epoch, Around)
  BY Here
<1>2. SaveCall(j) \in CallRow /\ SaveCall(j).kind = "save" /\ SaveCall(j).journal = j
  BY CallRows
<1>3. r \in DbRow /\ r.journal = j /\ r.epoch = db.epoch /\ db.epoch <= r.epoch
  BY <1>1, <1>2, EffectFacts
<1>. HIDE DEF r
<1>4. Passes(Around, Around)
  BY <1>1 DEF Passes, World
<1>5. Outward(t, r, Around)
  BY <1>1, <1>3, <1>4, OutwardLasts
<1>. QED  BY <1>2, <1>3, <1>5, AnsweredStep DEF r

\* A saved journal ends its action.
LEMMA DoneSaved ==
  ASSUME NEW s \in ExecutorRow, NEW d \in DbRow, NEW w \in World, Shape(s), Outward(s, d, w),
         s.pc \in {"fenced", "promoted"}, s.ctl # NoController
  PROVE  LET t == [Done(s) EXCEPT !.durable = s.journal]
         IN  /\ t \in ExecutorRow /\ Shape(t) /\ Outward(t, d, w)
             /\ KnowsJournal(s, d, w) /\ KnowsEpoch(s, d, w) /\ KnowsGrant(s, w) =>
                  \A r \in DbRow : r.journal = s.journal /\ r.epoch = d.epoch => Knows(t, r, w)
<1>. DEFINE x == Done(s)
            t == [x EXCEPT !.durable = s.journal]
<1>1. /\ s.todo # <<>> /\ s.journal \in JournalRow /\ (s.pc = "promoted" => Head(s.todo) # 0)
      /\ s.pc \in Saving
  BY DEF Shape, Place, Resting, Granting, ExecutorRow, Saving
<1>2. Onward(x, s) /\ (Open(x) => Open(s)) /\ (Head(s.todo) # 0 => ~Open(x))
  BY <1>1, DoneOnward
<1>. HIDE DEF x
<1>3. x \in ExecutorRow /\ Shape(x) /\ Outward(x, d, w) /\ SameMemory(x, s)
      /\ x.pc \in {"idle", "collect", "fence", "host", "intent"}
  BY <1>2, OnwardSound DEF Onward
<1>4. /\ t \in ExecutorRow /\ SameSession(t, x) /\ t.durable = s.journal
      /\ t.ctl = s.ctl /\ t.journal = s.journal /\ t.base = s.base
      /\ t.pc = x.pc /\ t.todo = x.todo
      /\ Shape(t) /\ (Open(t) <=> Open(x)) /\ Outward(t, d, w)
  BY <1>1, <1>3, DurableSet DEF SameMemory, SameBelief
<1>. HIDE DEF t
<1>5. ASSUME KnowsJournal(s, d, w), KnowsEpoch(s, d, w), KnowsGrant(s, w),
             NEW r \in DbRow, r.journal = s.journal, r.epoch = d.epoch
      PROVE  Knows(t, r, w)
  <2>1. t.pc \notin Saving /\ t.pc \notin {"check", "cas", "witness", "promoted", "fenced", "rejoined"}
    BY <1>3, <1>4 DEF Saving
  <2>2. CASE s.pc = "promoted"
    <3>1. ~Open(x) /\ s.ctl.phase = "promoted"
      <4>1. s.todo \in Seq(Nat) /\ s.todo # <<>> /\ Head(s.todo) # 0
        BY <1>1, <2>2 DEF ExecutorRow
      <4>2. 1 \in DOMAIN s.todo /\ s.todo[1] # 0
        BY <4>1
      <4>. QED  BY <1>2, <4>1, <4>2 DEF Shape, Grants
    <3>2. x.pc \notin {"host", "intent"}
      <4>. SUFFICES ASSUME x.pc \in {"host", "intent"} PROVE FALSE
        OBVIOUS
      <4>1. x.todo # <<>> /\ Head(x.todo) # 0 /\ x.todo \in Seq(Nat)
        BY <1>3 DEF Shape, Place, Resting, Granting, ExecutorRow
      <4>2. 1 \in DOMAIN x.todo /\ x.todo[1] # 0
        BY <4>1
      <4>. QED  BY <3>1, <4>2 DEF Open
    <3>3. KnowsJournal(t, r, w)
      BY <1>4, <1>5, <2>1, <3>2 DEF KnowsJournal
    <3>4. KnowsEpoch(t, r, w)
      BY <1>4, <1>5, <2>1 DEF KnowsEpoch
    <3>5. KnowsGrant(t, w)
      BY <1>4, <3>1 DEF KnowsGrant
    <3>. QED  BY <1>4, <3>3, <3>4, <3>5 DEF Knows
  <2>3. CASE s.pc = "fenced"
    <3>1. \/ s.journal = s.durable
          \/ s.journal.phase = "fencing" /\ s.durable.phase \in {"none", "steady"}
      BY <1>5, <2>3 DEF KnowsJournal
    <3>2. \A n : Intended(t, n) <=> Intended(x, n)
      BY <1>3, <1>4, <3>1 DEF Intended, SameMemory, SameBelief
    <3>3. /\ t.pc = "host" => Intended(t, Head(t.todo))
          /\ t.pc = "intent" => ~Intended(t, Head(t.todo))
      BY <1>2, <1>4, <3>2 DEF Onward
    <3>4. KnowsJournal(t, r, w)
      BY <1>4, <1>5, <2>1, <3>3 DEF KnowsJournal
    <3>5. KnowsEpoch(t, r, w)
      BY <1>4, <1>5, <2>1 DEF KnowsEpoch
    <3>6. KnowsGrant(t, w)
      BY <1>2, <1>4, <1>5, <3>1 DEF KnowsGrant
    <3>. QED  BY <1>4, <3>4, <3>5, <3>6 DEF Knows
  <2>. QED  BY <2>2, <2>3
<1>. QED  BY <1>4, <1>5 DEF t, x

\* The saves after a fence and after a completed promotion.
LEMMA SaveDoneInv ==
  ASSUME ExecutorInv, NEW e \in Executors, SaveFence(e) \/ SavePromoted(e)
  PROVE  ExecutorInv'
<1>. DEFINE j == ex[e].journal
            x == Done(ex[e])
            t == [x EXCEPT !.durable = j]
<1>1. /\ ex[e].pc \in {"fenced", "promoted"} /\ UNCHANGED outside
      /\ Answered(e, SaveCall(j), t) \/ Failed(e, SaveCall(j), x)
  BY DEF SaveFence, SavePromoted, Save
<1>2. ex[e].pc \in Attempting /\ ex[e].pc \in Saving
  BY <1>1 DEF Attempting, Granting, Saving
<1>3. /\ Types /\ Around \in World /\ ex[e] \in ExecutorRow /\ Shape(ex[e]) /\ db \in DbRow
      /\ Outward(ex[e], db, Around) /\ ex[e].ever /\ ex[e].todo # <<>> /\ ex[e].ctl # NoController
      /\ Able(e) => /\ KnowsJournal(ex[e], db, Around) /\ KnowsEpoch(ex[e], db, Around)
                    /\ KnowsGrant(ex[e], Around)
  BY <1>2, Attempted
<1>4. j \in JournalRow /\ SaveCall(j) \in CallRow
  BY <1>3, CallRows DEF ExecutorRow
<1>5. Able(e) => CallSound(SaveCall(j), db, Around)
  BY <1>2, <1>3 DEF KnowsJournal
<1>6. x \in ExecutorRow /\ SameSession(x, ex[e]) /\ Shape(x) /\ Outward(x, db, Around)
  <2>1. Onward(x, ex[e])
    BY <1>3, DoneOnward
  <2>. QED  BY <1>3, <2>1, OnwardSound
<1>7. /\ t \in ExecutorRow /\ Shape(t) /\ Outward(t, db, Around)
      /\ Able(e) => \A r \in DbRow : r.journal = j /\ r.epoch = db.epoch => Knows(t, r, Around)
  BY <1>1, <1>3, DoneSaved
<1>. HIDE DEF x, t, j
<1>8. CASE Answered(e, SaveCall(j), t)
  <2>1. Able(e)
    BY <1>8 DEF Answered, Able
  <2>. QED  BY <1>1, <1>4, <1>5, <1>7, <1>8, <2>1, SaveAnswered
<1>9. CASE Failed(e, SaveCall(j), x)
  BY <1>1, <1>3, <1>4, <1>5, <1>6, <1>9, FailedStep
<1>. QED  BY <1>1, <1>8, <1>9

\* The journal of an intent.
LEMMA IntentSound ==
  ASSUME NEW s \in ExecutorRow, NEW d \in DbRow, NEW w \in World, NEW n \in Nat \ {0},
         s.ctl.new = n, Open(s), ~Intended(s, n), s.durable = d.journal,
         KnowsEpoch(s, d, w), KnowsGrant(s, w)
  PROVE  LET j == BuildJournal(s, "promoting", n)
         IN  /\ j \in JournalRow /\ j.phase = "promoting" /\ j.new = n
             /\ CallSound(SaveCall(j), d, w)
<1>. DEFINE j == BuildJournal(s, "promoting", n)
<1>1. /\ s.ctl.max \in Nat /\ d.epoch \in Nat /\ d.journal \in JournalRow /\ s.base \in Nat
      /\ d.journal.new \in Nat /\ d.journal.phase \in Phase
  BY DEF ExecutorRow, DbRow, Controller, JournalRow
<1>2. /\ s.ctl.max <= d.epoch /\ (w.moves = 0 => d.epoch <= n) /\ n <= s.ctl.max + 1
      /\ d.journal.phase # "promoted"
      /\ d.journal.phase = "promoting" => d.journal.new <= n /\ d.journal.new # n
  BY <1>1 DEF KnowsEpoch, KnowsGrant, Intended
<1>3. j \in JournalRow /\ j.phase = "promoting" /\ j.new = n /\ j.max = s.ctl.max
  BY <1>1, NoRows DEF BuildJournal, JournalRow, Phase
<1>. HIDE DEF j
<1>4. Covers(j, d.epoch, w)
  BY <1>1, <1>2, <1>3 DEF Covers
<1>5. Rank(j) = 2 * n + 2 /\ Rank(d.journal) < 2 * n + 2 /\ Rank(d.journal) \in Nat
  BY <1>1, <1>2, <1>3 DEF Rank, Phase
<1>6. Forward(d.journal, j)
  BY <1>5 DEF Forward
<1>. QED  BY <1>3, <1>4, <1>6, CallRows DEF CallSound, j

\* The intent is saved, or the promotion is parked before anything else is touched.
LEMMA SaveIntentInv ==
  ASSUME ExecutorInv, NEW e \in Executors, SaveIntent(e)
  PROVE  ExecutorInv'
<1>. DEFINE n == Head(ex[e].todo)
            j == BuildJournal(ex[e], "promoting", n)
            s == [ex[e] EXCEPT !.journal = j]
            x == At(s, "host")
            t == [x EXCEPT !.durable = j]
<1>1. ex[e].pc = "intent" /\ UNCHANGED outside /\ ex[e].pc \in Attempting
  BY DEF SaveIntent, Attempting, Granting
<1>2. /\ Types /\ Around \in World /\ ex[e] \in ExecutorRow /\ Shape(ex[e]) /\ db \in DbRow
      /\ Outward(ex[e], db, Around) /\ ex[e].ever /\ ex[e].todo # <<>> /\ ex[e].ctl # NoController
      /\ n \in Nat /\ n # 0 /\ Open(ex[e]) /\ n = ex[e].ctl.new /\ ex[e].ctl.phase = "promoted"
      /\ Able(e) => /\ KnowsJournal(ex[e], db, Around) /\ KnowsEpoch(ex[e], db, Around)
                    /\ KnowsGrant(ex[e], Around)
  BY <1>1, Attempted DEF Shape, Place, Granting
<1>3. j \in JournalRow /\ j.phase = "promoting" /\ j.new = n
  <2>1. ex[e].ctl.max \in Nat
    BY <1>2 DEF ExecutorRow, Controller
  <2>. HIDE DEF n
  <2>. QED  BY <1>2, <2>1, NoRows DEF BuildJournal, JournalRow, Phase
<1>4. Able(e) => CallSound(SaveCall(j), db, Around)
  <2>1. Able(e) => ~Intended(ex[e], n) /\ ex[e].durable = db.journal
    BY <1>1, <1>2 DEF KnowsJournal
  <2>. HIDE DEF n
  <2>. QED  BY <1>2, <2>1, IntentSound
<1>. HIDE DEF j
<1>5. /\ s \in ExecutorRow /\ SameSession(s, ex[e]) /\ s.journal = j
      /\ s.ctl = ex[e].ctl /\ s.durable = ex[e].durable /\ s.base = ex[e].base
      /\ s.pending = ex[e].pending /\ s.pc = ex[e].pc /\ s.todo = ex[e].todo
      /\ Shape(s) /\ (Open(s) <=> Open(ex[e])) /\ Outward(s, db, Around)
  BY <1>2, <1>3, JournalSet
<1>6. Answered(e, SaveCall(j), t) \/ Failed(e, SaveCall(j), Park(s))
  BY <1>5 DEF SaveIntent, Save, j
<1>. HIDE DEF s
<1>7. CASE Answered(e, SaveCall(j), t)
  <2>1. Able(e)
    BY <1>7 DEF Answered, Able
  <2>2. "host" \in Attempting
    BY DEF Attempting, Granting
  <2>3. /\ x \in ExecutorRow /\ Shape(x) /\ Outward(x, db, Around)
        /\ SameMemory(x, s) /\ x.pc = "host" /\ x.todo = s.todo /\ (Open(x) <=> Open(s))
    BY <1>1, <1>2, <1>5, <2>2, AtAttempt
  <2>. HIDE DEF x
  <2>4. /\ t \in ExecutorRow /\ t.durable = j /\ t.journal = j
        /\ t.ctl = ex[e].ctl /\ t.base = ex[e].base
        /\ t.pc = "host" /\ t.todo = ex[e].todo /\ Shape(t) /\ Outward(t, db, Around)
    BY <1>3, <1>5, <2>3, DurableSet DEF SameMemory, SameBelief
  <2>. HIDE DEF t
  <2>5. ASSUME NEW r \in DbRow, r.journal = j, r.epoch = db.epoch
        PROVE  Knows(t, r, Around)
    <3>1. KnowsJournal(t, r, Around)
      BY <1>3, <2>4, <2>5 DEF KnowsJournal, Saving, Intended
    <3>2. KnowsEpoch(t, r, Around)
      BY <1>2, <2>1, <2>4, <2>5 DEF KnowsEpoch
    <3>3. n <= n
      BY <1>2
    <3>4. KnowsGrant(t, Around)
      BY <1>2, <1>3, <2>1, <2>4, <3>3 DEF KnowsGrant
    <3>. QED  BY <1>2, <2>4, <3>1, <3>2, <3>4 DEF Knows
  <2>. QED  BY <1>1, <1>3, <1>4, <1>7, <2>1, <2>4, <2>5, SaveAnswered
<1>8. CASE Failed(e, SaveCall(j), Park(s))
  <2>1. Onward(Park(s), s)
    BY <1>2, <1>5, ParkOnward
  <2>2. Park(s) \in ExecutorRow /\ SameSession(Park(s), s) /\ Shape(Park(s)) /\ Outward(Park(s), db, Around)
    BY <1>2, <1>5, <2>1, OnwardSound DEF Onward
  <2>3. SameSession(Park(s), ex[e])
    BY <1>5, <2>2 DEF SameSession
  <2>4. SaveCall(j) \in CallRow
    BY <1>3, CallRows
  <2>. QED  BY <1>1, <1>2, <1>4, <1>8, <2>2, <2>3, <2>4, FailedStep
<1>. QED  BY <1>6, <1>7, <1>8

\* The promotion goes on to the next call outside, and the session knows no less.
LEMMA NextLocal ==
  ASSUME ExecutorInv, NEW e \in Executors, ex[e].pc \in {"host", "check"}, NEW p \in {"check", "cas"},
         Local(e, At(ex[e], p)), Passes(Around, Around'), UNCHANGED <<backup, moves, restored>>,
         ~restored => anchor' <= db.epoch, Around'.host = Head(ex[e].todo)
  PROVE  ExecutorInv'
<1>. DEFINE t == At(ex[e], p)
<1>1. ex[e].pc \in Attempting /\ p \in Attempting /\ ex[e].pc \notin Saving /\ ex[e].pc \in Granting
  BY DEF Attempting, Granting, Saving
<1>2. /\ ex[e] \in ExecutorRow /\ Shape(ex[e]) /\ db \in DbRow /\ Around' \in World
      /\ Outward(ex[e], db, Around) /\ ex[e].ever /\ ex[e].ctl # NoController
      /\ Head(ex[e].todo) # 0 /\ (Able(e) => Knows(ex[e], db, Around))
  BY <1>1, Attempted DEF Shape, Place, Passes
<1>3. db.epoch <= db.epoch /\ Ages(db, db, Around')
  BY <1>2 DEF DbRow, Ages
<1>4. Outward(ex[e], db, Around')
  BY <1>2, <1>3, OutwardLasts
<1>5. /\ t \in ExecutorRow /\ Shape(t) /\ Outward(t, db, Around')
      /\ SameSession(t, ex[e]) /\ SameMemory(t, ex[e]) /\ t.pc = p
      /\ t.todo = ex[e].todo /\ (Open(t) <=> Open(ex[e]))
  BY <1>1, <1>2, <1>4, AtAttempt
<1>. HIDE DEF t
<1>6. ASSUME Able(e) PROVE Knows(t, db, Around')
  <2>1. Knows(ex[e], db, Around')
    BY <1>2, <1>3, <1>6, KnowledgeLasts
  <2>2. KnowsJournal(ex[e], db, Around') /\ KnowsEpoch(ex[e], db, Around') /\ KnowsGrant(ex[e], Around')
    BY <1>2, <2>1 DEF Knows
  <2>3. Intended(t, Head(t.todo)) <=> Intended(ex[e], Head(ex[e].todo))
    BY <1>5 DEF Intended, SameMemory, SameBelief
  <2>4. KnowsJournal(t, db, Around')
    BY <1>1, <1>5, <2>2, <2>3 DEF KnowsJournal, SameMemory, SameBelief, Saving
  <2>5. KnowsEpoch(t, db, Around')
    BY <1>5, <2>2 DEF KnowsEpoch, SameMemory, SameBelief
  <2>6. KnowsGrant(t, Around')
    BY <1>5, <2>2 DEF KnowsGrant, SameMemory, SameBelief
  <2>. QED  BY <1>2, <1>5, <2>4, <2>5, <2>6 DEF Knows, SameMemory, SameBelief
<1>7. Connected(e) /\ ~t.reacquired => Able(e)
  BY <1>5 DEF Able, SameSession
<1>. QED  BY <1>2, <1>5, <1>6, <1>7, LocalStep DEF SameSession, t

\* The host is fenced for this epoch, for another, or not at all.
LEMMA FenceHostInv ==
  ASSUME ExecutorInv, NEW e \in Executors, FenceHost(e)
  PROVE  ExecutorInv'
<1>. DEFINE n == Head(ex[e].todo)
<1>1. /\ ex[e].pc = "host" /\ UNCHANGED <<anchor, backup, moves, restored>>
      /\ host' \in {host, IF host = 0 THEN n ELSE host}
  BY DEF FenceHost
<1>2. ex[e].pc \in Attempting \ Saving
  BY <1>1 DEF Attempting, Granting, Saving
<1>3. n \in Nat /\ Types /\ Around \in World /\ (~restored => anchor <= db.epoch)
  BY <1>2, Attempted, Here
<1>4. Around'.host = host' /\ Passes(Around, Around')
  <2>1. /\ Around.host = host /\ Around.anchor = anchor /\ Around.moves = moves
        /\ Around.restored = restored /\ host \in Nat /\ anchor \in Nat /\ moves \in Nat
    BY <1>3 DEF Around, Types
  <2>2. /\ Around'.host = host' /\ Around'.anchor = anchor /\ Around'.moves = moves
        /\ Around'.restored = restored
    BY <1>1 DEF Around
  <2>3. host' \in Nat /\ (host # 0 => host' = host)
    BY <1>1, <1>3, <2>1
  <2>4. Around' \in World
    BY <1>1, <1>3, <2>1, <2>3 DEF Around, World, Types
  <2>. QED  BY <1>3, <2>1, <2>2, <2>3, <2>4 DEF Passes
<1>5. CASE Local(e, Park(ex[e]))
  BY <1>1, <1>2, <1>3, <1>4, <1>5, ParkLocal
<1>6. CASE Local(e, At(ex[e], "check")) /\ host' = n
  BY <1>1, <1>3, <1>4, <1>6, NextLocal
<1>7. Local(e, Park(ex[e])) \/ (Local(e, At(ex[e], "check")) /\ host' = n)
  <2>1. CASE /\ host' = IF host = 0 THEN n ELSE host
             /\ Local(e, IF host \in {0, n} THEN At(ex[e], "check") ELSE Park(ex[e]))
    BY <2>1
  <2>. QED  BY <2>1 DEF FenceHost
<1>. QED  BY <1>5, <1>6, <1>7

\* The anchor is compared with the epoch to be granted.
LEMMA CheckAnchorInv ==
  ASSUME ExecutorInv, NEW e \in Executors, CheckAnchor(e)
  PROVE  ExecutorInv'
<1>1. /\ ex[e].pc = "check" /\ UNCHANGED outside
      /\ Local(e, Park(ex[e])) \/ Local(e, At(ex[e], "cas"))
  <2>1. CASE Local(e, IF anchor >= Head(ex[e].todo) /\ ex[e].base < Head(ex[e].todo)
                        THEN Park(ex[e]) ELSE At(ex[e], "cas"))
    <3>1. CASE anchor >= Head(ex[e].todo) /\ ex[e].base < Head(ex[e].todo)
      BY <2>1, <3>1 DEF CheckAnchor
    <3>2. CASE ~(anchor >= Head(ex[e].todo) /\ ex[e].base < Head(ex[e].todo))
      BY <2>1, <3>2 DEF CheckAnchor
    <3>. QED  BY <3>1, <3>2
  <2>. QED  BY <2>1 DEF CheckAnchor
<1>2. ex[e].pc \in Attempting \ Saving
  BY <1>1 DEF Attempting, Granting, Saving
<1>3. Types /\ (~restored => anchor <= db.epoch) /\ Outward(ex[e], db, Around)
  BY Here
<1>4. Around' = Around /\ Passes(Around, Around') /\ UNCHANGED <<anchor, backup, moves, restored>>
  BY <1>1, <1>3, WorldStays DEF outside
<1>5. CASE Local(e, Park(ex[e]))
  BY <1>2, <1>3, <1>4, <1>5, ParkLocal
<1>6. CASE Local(e, At(ex[e], "cas"))
  <2>1. Around'.host = Head(ex[e].todo)
    BY <1>1, <1>3, <1>4 DEF Outward
  <2>. QED  BY <1>1, <1>3, <1>4, <1>6, <2>1, NextLocal
<1>. QED  BY <1>1, <1>5, <1>6

\* The elements of two sequences put together.
LEMMA Joined ==
  ASSUME NEW p \in Seq(Nat), NEW u \in Seq(Nat)
  PROVE  LET q == p \o u
         IN  /\ q \in Seq(Nat) /\ DOMAIN q \subseteq Nat /\ Len(p) \in Nat
             /\ DOMAIN p \subseteq Nat /\ DOMAIN u \subseteq Nat
             /\ \A i \in DOMAIN q : \/ i \in DOMAIN p /\ q[i] = p[i]
                                    \/ i - Len(p) \in DOMAIN u /\ q[i] = u[i - Len(p)]
<1>. DEFINE q == p \o u
<1>1. /\ q \in Seq(Nat) /\ Len(q) = Len(p) + Len(u)
      /\ \A i \in 1 .. Len(p) + Len(u) : q[i] = IF i <= Len(p) THEN p[i] ELSE u[i - Len(p)]
  BY ConcatProperties
<1>. HIDE DEF q
<1>2. /\ DOMAIN q = 1 .. Len(q) /\ DOMAIN p = 1 .. Len(p) /\ DOMAIN u = 1 .. Len(u)
      /\ Len(p) \in Nat /\ Len(u) \in Nat
  BY <1>1
<1>3. DOMAIN q \subseteq Nat /\ DOMAIN p \subseteq Nat /\ DOMAIN u \subseteq Nat
  BY <1>2
<1>4. ASSUME NEW i \in DOMAIN q
      PROVE  \/ i \in DOMAIN p /\ q[i] = p[i]
             \/ i - Len(p) \in DOMAIN u /\ q[i] = u[i - Len(p)]
  <2>1. CASE i <= Len(p)
    BY <1>1, <1>2, <2>1
  <2>2. CASE ~(i <= Len(p))
    <3>1. i - Len(p) \in DOMAIN u
      BY <1>1, <1>2, <2>2
    <3>. QED  BY <1>1, <1>2, <2>2, <3>1
  <2>. QED  BY <2>1, <2>2
<1>. QED  BY <1>1, <1>2, <1>3, <1>4 DEF q

\* A higher epoch ends the executor.
LEMMA SupersedeSound ==
  ASSUME NEW s \in ExecutorRow, NEW d, NEW w \in World, Shape(s), s.todo # <<>>, w.moves > 0,
         s.pc \notin Saving, Knows(s, d, w)
  PROVE  LET t == Supersede(s)
         IN  t \in ExecutorRow /\ Shape(t) /\ Outward(t, d, w) /\ Knows(t, d, w)
<1>. DEFINE x == [At(s, "idle") EXCEPT !.status = "superseded"]
            q == IF s.fresh THEN s.pending ELSE s.pending \o s.todo
            t == [x EXCEPT !.pending = q]
<1>1. "superseded" \in Statuses
  BY DEF Statuses, Terminal
<1>2. /\ x \in ExecutorRow /\ SameSession(x, s) /\ SameBelief(x, s) /\ x.status = "superseded"
      /\ x.pc = "idle" /\ x.todo = <<>> /\ x.pending = s.pending
      /\ Shape(x) /\ Outward(x, d, w)
  BY <1>1, IdleAs
<1>3. Supersede(s) = t
  <2>1. At(s, "idle").pending = s.pending
    BY AtFields DEF Steps, Resting
  <2>. QED  BY <2>1 DEF Supersede
<1>4. /\ s.todo \in Seq(Nat) /\ s.pending \in Seq(Nat) /\ Grants(s) /\ s.ctl # NoController
      /\ s.ctl.phase # "none"
  BY DEF ExecutorRow, Shape, Place, Resting, Starting
<1>. HIDE DEF x
<1>5. /\ q \in Seq(Nat)
      /\ \A i \in DOMAIN q :
           \/ i \in DOMAIN s.pending /\ q[i] = s.pending[i]
           \/ i - Len(s.pending) \in DOMAIN s.todo /\ q[i] = s.todo[i - Len(s.pending)]
      /\ DOMAIN q \subseteq Nat /\ Len(s.pending) \in Nat
      /\ DOMAIN s.todo \subseteq Nat /\ DOMAIN s.pending \subseteq Nat
  <2>1. CASE s.fresh
    <3>1. q = s.pending
      BY <2>1
    <3>. HIDE DEF q
    <3>. QED  BY <1>4, <3>1
  <2>2. CASE ~s.fresh
    <3>1. q = s.pending \o s.todo
      BY <2>2
    <3>. HIDE DEF q
    <3>. QED  BY <1>4, <3>1, Joined
  <2>. QED  BY <2>1, <2>2
<1>. HIDE DEF q
<1>6. t \in ExecutorRow
  BY <1>2, <1>5 DEF ExecutorRow
<1>7. /\ SameBelief(t, s) /\ t.status = "superseded" /\ t.pc = "idle" /\ t.todo = <<>>
      /\ t.pending = q /\ t.anchored = x.anchored
  BY <1>2 DEF ExecutorRow, SameBelief
<1>. HIDE DEF t
<1>8. Place(t)
  BY <1>4, <1>7 DEF Place, Resting, Granting, SameBelief
<1>9. Grants(t)
  <2>1. ASSUME NEW i \in DOMAIN q, q[i] # 0
        PROVE  s.ctl.phase = "promoted" /\ q[i] = s.ctl.new
    BY <1>4, <1>5, <2>1 DEF Grants
  <2>2. ASSUME NEW i \in DOMAIN q, NEW k \in DOMAIN q, q[i] # 0, q[k] # 0
        PROVE  i = k
    <3>1. CASE i \in DOMAIN s.pending /\ q[i] = s.pending[i] /\ k \in DOMAIN s.pending /\ q[k] = s.pending[k]
      BY <1>4, <2>2, <3>1 DEF Grants
    <3>. DEFINE a == i - Len(s.pending)
                b == k - Len(s.pending)
    <3>2. CASE a \in DOMAIN s.todo /\ q[i] = s.todo[a] /\ b \in DOMAIN s.todo /\ q[k] = s.todo[b]
      <4>1. a = b
        BY <1>4, <2>2, <3>2 DEF Grants
      <4>2. i \in Nat /\ k \in Nat
        BY <1>5
      <4>. QED  BY <1>5, <4>1, <4>2
    <3>3. CASE i \in DOMAIN s.pending /\ q[i] = s.pending[i] /\ b \in DOMAIN s.todo /\ q[k] = s.todo[b]
      BY <1>4, <2>2, <3>3 DEF Grants
    <3>4. CASE a \in DOMAIN s.todo /\ q[i] = s.todo[a] /\ k \in DOMAIN s.pending /\ q[k] = s.pending[k]
      BY <1>4, <2>2, <3>4 DEF Grants
    <3>. QED  BY <1>5, <3>1, <3>2, <3>3, <3>4
  <2>. QED  BY <1>7, <2>1, <2>2 DEF Grants, SameBelief
<1>10. Open(t) => Open(s)
  BY <1>5, <1>7 DEF Open
<1>11. Outward(t, d, w)
  BY <1>2, <1>7 DEF Outward
<1>12. Knows(t, d, w)
  <2>1. t.pc \in Calm
    BY <1>7 DEF Calm
  <2>. QED  BY <1>7, <1>10, <2>1, CalmKnows
<1>. QED  BY <1>3, <1>6, <1>8, <1>9, <1>11, <1>12 DEF Shape

\* A granted epoch is the base of what follows.
LEMMA GrantedSound ==
  ASSUME NEW s \in ExecutorRow, NEW d \in DbRow, NEW r \in DbRow, NEW w \in World, Shape(s),
         Outward(s, d, w), s.pc = "cas", NEW n \in Nat, n = Head(s.todo), n # 0, Open(s),
         n = s.ctl.new, s.ctl.phase = "promoted", s.ctl # NoController,
         KnowsJournal(s, d, w), KnowsEpoch(s, d, w), KnowsGrant(s, w),
         r.epoch = n, r.journal = d.journal, d.epoch <= n
  PROVE  LET t == [At(s, "witness") EXCEPT !.base = n]
         IN  t \in ExecutorRow /\ Shape(t) /\ Outward(t, r, w) /\ Knows(t, r, w)
<1>. DEFINE x == At(s, "witness")
            t == [x EXCEPT !.base = n]
<1>1. s.pc \in Attempting /\ "witness" \in Attempting
  BY DEF Attempting, Granting
<1>2. Outward(s, r, w) /\ n <= r.epoch /\ w.host = n
  BY DEF Outward, DbRow
<1>3. /\ x \in ExecutorRow /\ Shape(x) /\ Outward(x, r, w) /\ SameMemory(x, s) /\ x.pc = "witness"
      /\ x.todo = s.todo /\ x.pending = s.pending
  BY <1>1, <1>2, AtAttempt
<1>. HIDE DEF x
<1>4. t \in ExecutorRow
  BY <1>3 DEF ExecutorRow
<1>5. /\ t.ctl = s.ctl /\ t.journal = s.journal /\ t.durable = s.durable /\ t.base = n
      /\ t.pc = "witness" /\ t.todo = s.todo /\ t.pending = s.pending /\ t.status = x.status
      /\ t.anchored = x.anchored /\ x.ctl = s.ctl
  BY <1>3 DEF ExecutorRow, SameMemory, SameBelief
<1>. HIDE DEF t
<1>6. Shape(t)
  BY <1>3, <1>5 DEF Shape, Place, Grants
<1>7. Outward(t, r, w)
  BY <1>3, <1>5 DEF Outward
<1>8. KnowsJournal(t, r, w)
  BY <1>5 DEF KnowsJournal, Saving, Intended
<1>9. KnowsEpoch(t, r, w)
  <2>1. s.ctl.max <= n
    BY DEF KnowsEpoch, ExecutorRow, Controller, DbRow
  <2>. QED  BY <1>5, <2>1 DEF KnowsEpoch
<1>10. KnowsGrant(t, w)
  BY <1>5 DEF KnowsGrant
<1>. QED  BY <1>4, <1>5, <1>6, <1>7, <1>8, <1>9, <1>10 DEF Knows, t, x

\* promote_standby.
LEMMA CompareAndSetInv ==
  ASSUME ExecutorInv, NEW e \in Executors, CompareAndSet(e)
  PROVE  ExecutorInv'
<1>. DEFINE n == Head(ex[e].todo)
            c == PromoteCall(n)
            r == Effect(c, db)
<1>1. ex[e].pc = "cas" /\ UNCHANGED outside /\ ex[e].pc \in Attempting /\ ex[e].pc \notin Saving
  BY DEF CompareAndSet, Attempting, Granting, Saving
<1>2. /\ Types /\ Around \in World /\ ex[e] \in ExecutorRow /\ Shape(ex[e]) /\ db \in DbRow
      /\ Outward(ex[e], db, Around) /\ Covers(db.journal, db.epoch, Around)
      /\ ex[e].ever /\ ex[e].todo # <<>> /\ ex[e].ctl # NoController
      /\ n \in Nat /\ n # 0 /\ Open(ex[e]) /\ n = ex[e].ctl.new /\ ex[e].ctl.phase = "promoted"
      /\ Able(e) => /\ KnowsJournal(ex[e], db, Around) /\ KnowsEpoch(ex[e], db, Around)
                    /\ KnowsGrant(ex[e], Around) /\ Knows(ex[e], db, Around)
  BY <1>1, Attempted DEF Shape, Place, Granting
<1>. HIDE DEF n
<1>3. c \in CallRow /\ c.kind = "promote" /\ c.new = n
  BY <1>2, CallRows
<1>4. ASSUME Able(e) PROVE CallSound(c, db, Around)
  <2>1. Intended(ex[e], n) /\ ex[e].durable = db.journal
    BY <1>1, <1>2, <1>4 DEF KnowsJournal, n
  <2>2. Around.host = n
    BY <1>1, <1>2 DEF Outward, n
  <2>. QED  BY <1>2, <1>3, <2>1, <2>2 DEF CallSound, Intended
<1>. HIDE DEF c
<1>5. CASE Answered(e, c, Promoted(ex[e], n))
  <2>1. Able(e)
    BY <1>5 DEF Answered, Able
  <2>2. CallSound(c, db, Around)
    BY <1>4, <2>1
  <2>3. /\ r \in DbRow /\ r.journal = db.journal
        /\ (Promotes(n, db) => r.epoch = n)
    BY <1>2, <1>3, <2>2, EffectFacts
  <2>4. ~Promotes(n, db) => r = db
    BY <1>3 DEF Effect
  <2>. HIDE DEF r
  <2>5. n \in Nat /\ db.epoch \in Nat /\ Around.moves \in Nat
    BY <1>2 DEF DbRow, World
  <2>6. LET t == Promoted(ex[e], n)
        IN  t \in ExecutorRow /\ Shape(t) /\ Outward(t, r, Around) /\ Knows(t, r, Around)
    <3>1. CASE db.epoch > n
      <4>1. Promoted(ex[e], n) = Supersede(ex[e]) /\ ~Promotes(n, db)
        BY <2>5, <3>1 DEF Promoted, Promotes
      <4>2. Around.moves # 0
        BY <1>2, <2>1, <2>5, <3>1 DEF KnowsEpoch, KnowsGrant
      <4>3. Around.moves > 0
        BY <2>5, <4>2
      <4>. QED  BY <1>1, <1>2, <2>1, <2>4, <4>1, <4>3, SupersedeSound
    <3>2. CASE Promotes(n, db)
      <4>1. db.epoch <= n
        BY <3>2 DEF Promotes
      <4>2. Promoted(ex[e], n) = [At(ex[e], "witness") EXCEPT !.base = n]
        BY <2>5, <3>2, <4>1 DEF Promoted
      <4>3. n = Head(ex[e].todo)
        BY DEF n
      <4>. DEFINE t == [At(ex[e], "witness") EXCEPT !.base = n]
      <4>4. r.epoch = n /\ r.journal = db.journal /\ r \in DbRow
        BY <2>3, <3>2
      <4>5. t \in ExecutorRow /\ Shape(t) /\ Outward(t, r, Around) /\ Knows(t, r, Around)
        BY <1>1, <1>2, <2>1, <4>1, <4>3, <4>4, GrantedSound
      <4>. HIDE DEF t
      <4>. QED  BY <4>2, <4>5 DEF t
    <3>3. CASE ~(db.epoch > n) /\ ~Promotes(n, db)
      <4>1. Promoted(ex[e], n) = Park(ex[e])
        BY <3>3 DEF Promoted
      <4>. QED  BY <1>1, <2>1, <2>4, <3>3, <4>1, Parked
    <3>. QED  BY <3>1, <3>2, <3>3
  <2>. QED  BY <1>1, <1>3, <1>5, <2>2, <2>6, AnsweredStep DEF r
<1>6. CASE Failed(e, c, Park(ex[e]))
  BY <1>1, <1>3, <1>4, <1>6, ParkFailed
<1>. QED  BY <1>5, <1>6 DEF CompareAndSet, n, c

\* The completion that is about to be saved.
LEMMA CompletedSound ==
  ASSUME NEW s \in ExecutorRow, NEW n \in Nat \ {0}, n = Head(s.todo), s.pc = "witness", Shape(s),
         NEW d \in DbRow, NEW w \in World, Outward(s, d, w), Covers(d.journal, d.epoch, w),
         s.ctl # NoController
  PROVE  LET t == At(Completed(s, n), "promoted")
         IN  /\ t \in ExecutorRow /\ Shape(t) /\ Outward(t, d, w) /\ SameSession(t, s)
             /\ Knows(s, d, w) => Knows(t, d, w)
<1>. DEFINE u == Completed(s, n)
            t == At(u, "promoted")
            j == [s.journal EXCEPT !.phase = "promoted", !.new = n,
                                   !.reconciled = FALSE, !.rejoined = FALSE]
<1>1. s.journal \in JournalRow /\ s.pc \in Attempting /\ "promoted" \in Attempting /\ d.epoch \in Nat
      /\ d.journal \in JournalRow /\ s.pc \notin Saving
  BY DEF ExecutorRow, Attempting, Granting, DbRow, Saving
<1>2. j \in JournalRow /\ j.phase = "promoted" /\ j.new = n /\ j.max = s.journal.max
  BY <1>1 DEF JournalRow, Phase
<1>. HIDE DEF j
<1>3. /\ u \in ExecutorRow /\ SameSession(u, s) /\ u.journal \in JournalRow
      /\ u.ctl = s.ctl /\ u.durable = s.durable /\ u.base = s.base
      /\ u.pc = s.pc /\ u.todo = s.todo /\ Shape(u) /\ (Open(u) <=> Open(s)) /\ Outward(u, d, w)
      /\ s.journal.phase = "promoting" => u.journal = j
  <2>1. CASE s.journal.phase = "promoted" /\ s.journal.new = n
    <3>1. u = s
      BY <2>1 DEF Completed
    <3>. QED  BY <1>1, <2>1, <3>1 DEF SameSession
  <2>2. CASE ~(s.journal.phase = "promoted" /\ s.journal.new = n)
    <3>1. u = [s EXCEPT !.journal = j]
      BY <2>2 DEF Completed, j
    <3>. HIDE DEF u
    <3>. QED  BY <1>2, <3>1, JournalSet
  <2>. QED  BY <2>1, <2>2
<1>. HIDE DEF u
<1>4. /\ t \in ExecutorRow /\ Shape(t) /\ Outward(t, d, w)
      /\ SameSession(t, u) /\ SameMemory(t, u) /\ t.pc = "promoted"
      /\ t.todo = u.todo /\ (Open(t) <=> Open(u))
  BY <1>1, <1>3, AtAttempt
<1>. HIDE DEF t
<1>5. ASSUME Knows(s, d, w) PROVE Knows(t, d, w)
  <2>1. KnowsJournal(s, d, w) /\ KnowsEpoch(s, d, w) /\ KnowsGrant(s, w)
    BY <1>5 DEF Knows
  <2>2. /\ s.journal = s.durable /\ s.durable = d.journal /\ d.journal.phase = "promoting"
        /\ d.journal.new = n /\ n <= d.epoch
    BY <1>1, <2>1 DEF KnowsJournal, KnowsEpoch, Intended
  <2>3. u.journal = j /\ j.max = d.journal.max /\ d.journal.max <= d.epoch
    BY <1>2, <1>3, <2>2 DEF Covers
  <2>4. Covers(j, d.epoch, w)
    BY <1>2, <2>2, <2>3 DEF Covers
  <2>5. Rank(j) = 2 * n + 3 /\ Rank(d.journal) = 2 * n + 2
    BY <1>2, <2>2 DEF Rank
  <2>6. Forward(d.journal, j)
    BY <2>5 DEF Forward
  <2>7. CallSound(SaveCall(t.journal), d, w)
    BY <1>2, <1>4, <2>3, <2>4, <2>6, CallRows DEF CallSound, SameMemory, SameBelief
  <2>8. KnowsJournal(t, d, w)
    BY <1>2, <1>3, <1>4, <2>2, <2>3, <2>7 DEF KnowsJournal, SameMemory, SameBelief, Saving
  <2>9. KnowsEpoch(t, d, w)
    BY <1>3, <1>4, <2>1 DEF KnowsEpoch, SameMemory, SameBelief
  <2>10. s.ctl.phase = "promoted"
    <3>1. s.todo \in Seq(Nat) /\ s.todo # <<>>
      BY DEF ExecutorRow, Shape, Place, Resting
    <3>2. 1 \in DOMAIN s.todo /\ s.todo[1] # 0
      BY <3>1
    <3>. QED  BY <3>2 DEF Shape, Grants
  <2>11. KnowsGrant(t, w)
    BY <1>3, <1>4, <2>1, <2>10 DEF KnowsGrant, SameMemory, SameBelief
  <2>. QED  BY <1>3, <1>4, <2>8, <2>9, <2>11 DEF Knows, SameMemory, SameBelief
<1>. QED  BY <1>3, <1>4, <1>5 DEF t, u, SameSession

\* The anchor follows what the database has granted.
LEMMA WitnessInv ==
  ASSUME ExecutorInv, NEW e \in Executors, Witness(e)
  PROVE  ExecutorInv'
<1>. DEFINE n == Head(ex[e].todo)
            t == At(Completed(ex[e], n), "promoted")
<1>1. /\ ex[e].pc = "witness" /\ UNCHANGED <<host, backup, moves, restored>>
      /\ anchor' \in {anchor, Max({anchor, n})}
      /\ Local(e, Park(ex[e])) \/ Local(e, t)
  <2>1. CASE Local(e, IF anchor > n THEN Park(ex[e]) ELSE t)
    <3>1. CASE anchor > n
      BY <2>1, <3>1 DEF Witness
    <3>2. CASE ~(anchor > n)
      BY <2>1, <3>2 DEF Witness
    <3>. QED  BY <3>1, <3>2
  <2>. QED  BY <2>1 DEF Witness
<1>2. ex[e].pc \in Attempting \ Saving
  BY <1>1 DEF Attempting, Granting, Saving
<1>3. /\ Types /\ Around \in World /\ (~restored => anchor <= db.epoch) /\ anchor \in Nat
      /\ ex[e] \in ExecutorRow /\ Shape(ex[e]) /\ db \in DbRow /\ Outward(ex[e], db, Around)
      /\ Covers(db.journal, db.epoch, Around) /\ ex[e].ever /\ ex[e].ctl # NoController
      /\ n \in Nat /\ n # 0 /\ (Able(e) => Knows(ex[e], db, Around)) /\ Around.restored = restored
  BY <1>1, <1>2, Attempted, Here DEF Shape, Place, Granting
<1>4. restored \/ n <= db.epoch
  BY <1>1, <1>3 DEF Outward
<1>. HIDE DEF n, t
<1>5. anchor' \in Nat /\ anchor <= anchor' /\ (~restored => anchor' <= db.epoch)
  <2>1. Max({anchor, n}) \in Nat /\ Max({anchor, n}) = IF anchor >= n THEN anchor ELSE n
    BY <1>3, MaxOfTwo
  <2>2. db.epoch \in Nat
    BY <1>3 DEF DbRow
  <2>. QED  BY <1>1, <1>3, <1>4, <2>1, <2>2
<1>6. Passes(Around, Around')
  <2>1. /\ Around.host = host /\ Around.anchor = anchor /\ Around.moves = moves
        /\ Around.restored = restored /\ moves \in Nat
    BY <1>3 DEF Around, Types
  <2>2. /\ Around'.host = host /\ Around'.anchor = anchor' /\ Around'.moves = moves
        /\ Around'.restored = restored
    BY <1>1 DEF Around
  <2>3. Around' \in World
    BY <1>1, <1>3, <1>5 DEF Around, World, Types
  <2>. QED  BY <1>3, <1>5, <2>1, <2>2, <2>3 DEF Passes
<1>7. CASE Local(e, Park(ex[e]))
  BY <1>1, <1>2, <1>5, <1>6, <1>7, ParkLocal
<1>8. CASE Local(e, t)
  <2>1. db.epoch <= db.epoch /\ Ages(db, db, Around') /\ Around' \in World /\ db.epoch \in Nat
        /\ db.journal \in JournalRow
    BY <1>3, <1>6 DEF DbRow, Ages, Passes
  <2>2. Outward(ex[e], db, Around') /\ (Able(e) => Knows(ex[e], db, Around'))
    BY <1>3, <1>6, <2>1, OutwardLasts, KnowledgeLasts
  <2>3. Covers(db.journal, db.epoch, Around')
    BY <1>3, <1>6, <2>1, CoversLasts
  <2>4. n = Head(ex[e].todo) /\ t = At(Completed(ex[e], n), "promoted")
    BY DEF n, t
  <2>5. /\ t \in ExecutorRow /\ Shape(t) /\ Outward(t, db, Around') /\ SameSession(t, ex[e])
        /\ Knows(ex[e], db, Around') => Knows(t, db, Around')
    BY <1>1, <1>3, <2>1, <2>2, <2>3, <2>4, CompletedSound
  <2>6. Connected(e) /\ ~t.reacquired => Able(e)
    BY <2>5 DEF Able, SameSession
  <2>. QED  BY <1>1, <1>3, <1>5, <1>6, <1>8, <2>2, <2>5, <2>6, LocalStep DEF SameSession
<1>. QED  BY <1>1, <1>7, <1>8

---------------------------------------------------------------------------
(* A round, its decision, and the operator's word. *)

\* A controller that has observed a round.
LEMMA ObservedRow ==
  ASSUME NEW s \in ExecutorRow, s.pc = "collect", Shape(s), NEW d \in DbRow, NEW w \in World,
         Outward(s, d, w), NEW r, ObservedAs(s.ctl, r, d.epoch)
  PROVE  LET t == [s EXCEPT !.ctl = r.ctl]
         IN  /\ t \in ExecutorRow /\ SameSession(t, s) /\ Shape(t) /\ Outward(t, d, w)
             /\ t.ctl = r.ctl /\ t.journal = s.journal /\ t.durable = s.durable /\ t.base = s.base
             /\ t.status \notin Terminal /\ t.pc = "collect" /\ t.todo = <<>> /\ Grants(t)
             /\ (Open(t) <=> Open(s)) /\ (Open(s) => s.ctl.phase = "promoted")
<1>. DEFINE t == [s EXCEPT !.ctl = r.ctl]
<1>1. r.ctl \in Controller /\ r.ctl.phase # "none" /\ r.ctl # NoController
  BY NoRows DEF ObservedAs
<1>2. t \in ExecutorRow
  BY <1>1 DEF ExecutorRow
<1>3. /\ SameSession(t, s) /\ t.ctl = r.ctl /\ t.journal = s.journal /\ t.durable = s.durable
      /\ t.base = s.base /\ t.status = s.status /\ t.pc = "collect" /\ t.todo = s.todo
      /\ t.pending = s.pending /\ t.anchored = s.anchored
  BY DEF ExecutorRow, SameSession
<1>. HIDE DEF t
<1>4. s.todo = <<>> /\ s.status \notin Terminal
  BY DEF Shape, Place, Resting
<1>5. s.ctl.phase = "promoted" => r.ctl.phase = "promoted" /\ r.ctl.new = s.ctl.new
  BY DEF ObservedAs
<1>6. Grants(t)
  BY <1>3, <1>5 DEF Shape, Grants
<1>7. Place(t)
  BY <1>1, <1>3, <1>4 DEF Place, Resting, Granting
<1>8. Outward(t, d, w)
  BY <1>3 DEF Outward
<1>9. (Open(t) <=> Open(s)) /\ (Open(s) => s.ctl.phase = "promoted")
  BY <1>3, <1>4 DEF Open, Shape, Grants
<1>. QED  BY <1>2, <1>3, <1>4, <1>6, <1>7, <1>8, <1>9 DEF Shape, t

\* What the session knows of its promotion after a round.
LEMMA ObservedGrant ==
  ASSUME NEW s \in ExecutorRow, NEW t \in ExecutorRow, NEW k \in Nat, NEW w \in World, NEW r,
         ObservedAs(s.ctl, r, k), t.ctl = r.ctl, t.journal = s.journal, t.durable = s.durable,
         t.base = s.base, Open(s) => s.ctl.phase = "promoted",
         Open(t) => Open(s) \/ r.decision = "promote", KnowsGrant(s, w)
  PROVE  KnowsGrant(t, w)
<1>1. /\ s.ctl.max \in Nat /\ t.ctl.max \in Nat /\ s.ctl.new \in Nat /\ t.ctl.new \in Nat
      /\ s.base \in Nat /\ s.durable.new \in Nat /\ s.ctl.max <= t.ctl.max
  BY DEF ExecutorRow, Controller, JournalRow, ObservedAs
<1>2. CASE r.decision = "promote"
  <2>1. s.ctl.phase # "promoted" /\ t.ctl.phase = "promoted" /\ t.ctl.new = t.ctl.max + 1
    BY <1>2 DEF ObservedAs
  <2>2. /\ w.moves = 0 => s.base <= s.ctl.max + 1
        /\ s.durable.phase = "promoting" => s.durable.new <= s.ctl.max + 1
        /\ s.durable.phase # "promoted"
    BY <2>1 DEF KnowsGrant
  <2>3. /\ w.moves = 0 => t.base <= t.ctl.new
        /\ t.durable.phase = "promoting" => t.durable.new <= t.ctl.new
        /\ t.durable.phase # "promoted" /\ t.ctl.new <= t.ctl.max + 1
    BY <1>1, <2>1, <2>2
  <2>. QED  BY <2>1, <2>3 DEF KnowsGrant
<1>3. CASE r.decision # "promote" /\ s.ctl.phase = "promoted"
  <2>1. t.ctl.phase = "promoted" /\ t.ctl.new = s.ctl.new
    BY <1>3 DEF ObservedAs
  <2>2. ASSUME Open(t)
        PROVE  /\ w.moves = 0 => t.base <= t.ctl.new
               /\ t.durable.phase = "promoting" => t.durable.new <= t.ctl.new
               /\ t.durable.phase # "promoted" /\ t.ctl.new <= t.ctl.max + 1
    <3>1. /\ w.moves = 0 => s.base <= s.ctl.new
          /\ s.durable.phase = "promoting" => s.durable.new <= s.ctl.new
          /\ s.durable.phase # "promoted" /\ s.ctl.new <= s.ctl.max + 1
      BY <1>3, <2>2 DEF KnowsGrant
    <3>. QED  BY <1>1, <2>1, <3>1
  <2>. QED  BY <2>1, <2>2 DEF KnowsGrant
<1>4. CASE r.decision # "promote" /\ s.ctl.phase # "promoted"
  <2>1. ~Open(t)
    BY <1>4
  <2>2. /\ w.moves = 0 => s.base <= s.ctl.max + 1
        /\ s.durable.phase = "promoting" => s.durable.new <= s.ctl.max + 1
        /\ s.durable.phase # "promoted" /\ s.journal.phase # "promoted"
    BY <1>4 DEF KnowsGrant
  <2>3. /\ w.moves = 0 => t.base <= t.ctl.max + 1
        /\ t.durable.phase = "promoting" => t.durable.new <= t.ctl.max + 1
        /\ t.durable.phase # "promoted" /\ t.journal.phase # "promoted"
    BY <1>1, <2>2
  <2>. QED  BY <2>1, <2>3 DEF KnowsGrant
<1>. QED  BY <1>2, <1>3, <1>4

\* A decision that has to be carried out.
LEMMA AttemptDecided ==
  ASSUME NEW s \in ExecutorRow, s.pc = "collect", Shape(s), NEW d \in DbRow, NEW w \in World,
         Outward(s, d, w), NEW r, ObservedAs(s.ctl, r, d.epoch), s.ctl # NoController,
         NEW a \in Nat, \/ a = 0 /\ r.decision = "fence"
                        \/ a = r.ctl.new /\ r.decision = "promote"
  PROVE  LET t == Attempt([s EXCEPT !.ctl = r.ctl], a)
         IN  /\ t \in ExecutorRow /\ SameSession(t, s) /\ Shape(t) /\ Outward(t, d, w)
             /\ Knows(s, d, w) => Knows(t, d, w)
<1>. DEFINE u == [s EXCEPT !.ctl = r.ctl]
            t == Attempt(u, a)
<1>1. /\ u \in ExecutorRow /\ SameSession(u, s) /\ Shape(u) /\ Outward(u, d, w)
      /\ u.ctl = r.ctl /\ u.journal = s.journal /\ u.durable = s.durable /\ u.base = s.base
      /\ u.status \notin Terminal /\ u.pc = "collect" /\ u.todo = <<>> /\ Grants(u)
      /\ (Open(u) <=> Open(s)) /\ (Open(s) => s.ctl.phase = "promoted")
  BY ObservedRow
<1>. HIDE DEF u
<1>2. /\ u.ctl.phase # "none" /\ u.ctl # NoController /\ s.ctl.phase # "promoted"
      /\ r.decision = "promote" => u.ctl.phase = "promoted"
  BY <1>1, NoRows DEF ObservedAs
<1>3. Onward(t, u) /\ (Open(t) => Open(u) \/ a # 0)
  BY <1>1, <1>2, AttemptOnward
<1>. HIDE DEF t
<1>4. t \in ExecutorRow /\ Shape(t) /\ SameSession(t, u) /\ Outward(t, d, w) /\ SameBelief(t, u)
  BY <1>1, <1>3, OnwardSound DEF Onward, SameMemory
<1>5. ASSUME Knows(s, d, w) PROVE Knows(t, d, w)
  <2>1. KnowsJournal(s, d, w) /\ KnowsEpoch(s, d, w) /\ KnowsGrant(s, w)
    BY <1>5 DEF Knows
  <2>2. KnowsGrant(t, w)
    <3>1. d.epoch \in Nat
      BY DEF DbRow
    <3>2. Open(t) => Open(s) \/ r.decision = "promote"
      BY <1>1, <1>3
    <3>3. t.ctl = r.ctl /\ t.journal = s.journal /\ t.durable = s.durable /\ t.base = s.base
      BY <1>1, <1>4 DEF SameBelief
    <3>. QED  BY <1>1, <1>4, <2>1, <3>1, <3>2, <3>3, ObservedGrant
  <2>3. t.pc \in {"idle", "collect", "fence", "host", "intent"} /\ t.pc \notin Saving
    BY <1>3 DEF Onward, Saving
  <2>4. KnowsJournal(t, d, w)
    BY <1>1, <1>3, <1>4, <2>1, <2>3 DEF KnowsJournal, SameBelief, Onward, Saving
  <2>5. KnowsEpoch(t, d, w)
    BY <1>1, <1>4, <2>1, <2>3 DEF KnowsEpoch, SameBelief, ObservedAs, DbRow
  <2>. QED  BY <1>2, <1>4, <2>2, <2>4, <2>5 DEF Knows, SameBelief
<1>. QED  BY <1>1, <1>4, <1>5 DEF SameSession, t, u

\* A decision that ends the tick, or that leads to the anchor.
LEMMA RestDecided ==
  ASSUME NEW s \in ExecutorRow, s.pc = "collect", Shape(s), NEW d \in DbRow, NEW w \in World,
         Outward(s, d, w), NEW r, ObservedAs(s.ctl, r, d.epoch), s.ctl # NoController,
         r.decision # "promote", NEW p \in {"idle", "rejoin"}
  PROVE  LET t == At([s EXCEPT !.ctl = r.ctl], p)
         IN  /\ t \in ExecutorRow /\ SameSession(t, s) /\ Shape(t) /\ Outward(t, d, w)
             /\ Knows(s, d, w) => Knows(t, d, w)
<1>. DEFINE u == [s EXCEPT !.ctl = r.ctl]
            t == At(u, p)
<1>1. /\ u \in ExecutorRow /\ SameSession(u, s) /\ Shape(u) /\ Outward(u, d, w)
      /\ u.ctl = r.ctl /\ u.journal = s.journal /\ u.durable = s.durable /\ u.base = s.base
      /\ u.status \notin Terminal /\ u.pc = "collect" /\ u.todo = <<>>
      /\ (Open(u) <=> Open(s)) /\ (Open(s) => s.ctl.phase = "promoted")
  BY ObservedRow
<1>. HIDE DEF u
<1>2. p \in Calm \ {"fence", "stop"} /\ u.ctl # NoController /\ u.pc \notin Saving /\ s.pc \notin Saving
  BY <1>1, NoRows DEF Calm, ObservedAs, Saving
<1>3. /\ t \in ExecutorRow /\ Shape(t) /\ Outward(t, d, w) /\ SameSession(t, u)
      /\ (Knows(u, d, w) => Knows(t, d, w))
  BY <1>1, <1>2, AtCalm
<1>4. ASSUME Knows(s, d, w) PROVE Knows(u, d, w)
  <2>1. KnowsJournal(s, d, w) /\ KnowsEpoch(s, d, w) /\ KnowsGrant(s, w)
    BY <1>4 DEF Knows
  <2>2. d.epoch \in Nat
    BY DEF DbRow
  <2>3. KnowsGrant(u, w)
    BY <1>1, <2>1, <2>2, ObservedGrant
  <2>4. KnowsJournal(u, d, w)
    BY <1>1, <2>1 DEF KnowsJournal
  <2>5. KnowsEpoch(u, d, w)
    BY <1>1, <2>1, <2>2 DEF KnowsEpoch, ObservedAs
  <2>. QED  BY <1>2, <2>3, <2>4, <2>5 DEF Knows
<1>. QED  BY <1>1, <1>3, <1>4 DEF SameSession, t, u

\* A round is observed.
LEMMA CollectInv ==
  ASSUME ExecutorInv, NEW e \in Executors, Collect(e)
  PROVE  ExecutorInv'
<1>1. /\ Types /\ Around \in World /\ ex[e] \in ExecutorRow /\ Shape(ex[e]) /\ db \in DbRow
      /\ Outward(ex[e], db, Around) /\ (Live(e) => Knows(ex[e], db, Around))
      /\ (~restored => anchor <= db.epoch)
  BY Here
<1>2. ex[e].pc = "collect" /\ UNCHANGED outside
  BY DEF Collect
<1>3. ex[e].ctl \in Controller /\ ex[e].ctl # NoController /\ ex[e].ctl.phase # "none"
  BY <1>1, <1>2 DEF ExecutorRow, Shape, Place, Starting
<1>4. PICK view \in Views : Local(e, Decided(ex[e], Observe(ex[e].ctl, Reports(view), 1)))
  BY DEF Collect
<1>. DEFINE r == Observe(ex[e].ctl, Reports(view), 1)
            t == Decided(ex[e], r)
<1>5. ObservedAs(ex[e].ctl, r, db.epoch)
  BY <1>1, <1>3, ObserveResult
<1>6. Local(e, t)
  BY <1>4
<1>. HIDE DEF r
<1>7. /\ t \in ExecutorRow /\ SameSession(t, ex[e]) /\ Shape(t) /\ Outward(t, db, Around)
      /\ Knows(ex[e], db, Around) => Knows(t, db, Around)
  <2>1. CASE r.decision = "fence"
    <3>1. t = Attempt([ex[e] EXCEPT !.ctl = r.ctl], 0)
      BY <2>1 DEF Decided
    <3>. QED  BY <1>1, <1>2, <1>3, <1>5, <2>1, <3>1, AttemptDecided
  <2>2. CASE r.decision = "promote"
    <3>1. t = Attempt([ex[e] EXCEPT !.ctl = r.ctl], r.ctl.new)
      BY <2>2 DEF Decided
    <3>2. r.ctl.new \in Nat
      BY <1>5 DEF ObservedAs, Controller
    <3>. QED  BY <1>1, <1>2, <1>3, <1>5, <2>2, <3>1, <3>2, AttemptDecided
  <2>3. CASE r.decision = "rejoin"
    <3>1. t = At([ex[e] EXCEPT !.ctl = r.ctl], "rejoin")
      BY <2>3 DEF Decided
    <3>. QED  BY <1>1, <1>2, <1>3, <1>5, <2>3, <3>1, RestDecided
  <2>4. CASE r.decision \notin {"fence", "promote", "rejoin"}
    <3>1. t = At([ex[e] EXCEPT !.ctl = r.ctl], "idle")
      BY <2>4 DEF Decided
    <3>. QED  BY <1>1, <1>2, <1>3, <1>5, <2>4, <3>1, RestDecided
  <2>. QED  BY <2>1, <2>2, <2>3, <2>4
<1>. HIDE DEF t
<1>8. ex[e].ever
  BY <1>2, AbleLive
<1>9. Around' = Around /\ Passes(Around, Around') /\ UNCHANGED <<anchor, backup, moves, restored>>
  BY <1>1, <1>2, WorldStays DEF outside
<1>10. Connected(e) /\ ~t.reacquired => Live(e)
  BY <1>7 DEF Live, SameSession
<1>. QED  BY <1>1, <1>6, <1>7, <1>8, <1>9, <1>10, LocalStep DEF SameSession

\* A mark on a completed promotion: what is saved stays that promotion.
LEMMA MarkSound ==
  ASSUME NEW j \in JournalRow, NEW k \in JournalRow, j.phase = "promoted", k.phase = "promoted",
         k.new = j.new, k.max = j.max, j.reconciled => k.reconciled, j.rejoined => k.rejoined,
         NEW d \in DbRow, d.journal = j, NEW w, Covers(j, d.epoch, w)
  PROVE  CallSound(SaveCall(k), d, w)
<1>1. j.new \in Nat
  BY DEF JournalRow
<1>2. Rank(j) = 2 * j.new + 3 /\ Rank(k) = 2 * j.new + 3
  BY DEF Rank
<1>3. Forward(j, k)
  BY <1>1, <1>2 DEF Forward
<1>4. Covers(k, d.epoch, w)
  BY DEF Covers
<1>. QED  BY <1>3, <1>4, CallRows DEF CallSound

\* The former writer's return is recorded.
LEMMA RejoinedSound ==
  ASSUME NEW s \in ExecutorRow, s.pc = "rejoin", Shape(s), NEW d \in DbRow, NEW w \in World,
         Outward(s, d, w), s.journal.phase = "promoted", Covers(d.journal, d.epoch, w)
  PROVE  LET t == [At(s, "rejoined") EXCEPT !.journal.rejoined = TRUE]
         IN  /\ t \in ExecutorRow /\ SameSession(t, s) /\ Shape(t) /\ Outward(t, d, w)
             /\ Knows(s, d, w) => Knows(t, d, w)
<1>. DEFINE x == At(s, "rejoined")
            j == [s.journal EXCEPT !.rejoined = TRUE]
            t == [x EXCEPT !.journal = j]
<1>1. /\ "rejoined" \in Steps /\ s.journal \in JournalRow /\ s.pc \notin Saving
      /\ s.todo = <<>> /\ s.status \notin Terminal /\ s.ctl # NoController
  BY DEF Steps, Resting, ExecutorRow, Saving, Shape, Place, Starting
<1>2. /\ x \in ExecutorRow /\ SameSession(x, s) /\ SameMemory(x, s)
      /\ x.pc = "rejoined" /\ x.anchored = 0 /\ x.pending = s.pending /\ x.todo = <<>>
  BY <1>1, AtFields
<1>3. [At(s, "rejoined") EXCEPT !.journal.rejoined = TRUE] = t
  BY <1>2 DEF SameMemory, SameBelief, ExecutorRow
<1>. HIDE DEF x
<1>4. /\ j \in JournalRow /\ j.phase = "promoted" /\ j.new = s.journal.new /\ j.max = s.journal.max
      /\ j.reconciled = s.journal.reconciled /\ j.rejoined
  BY <1>1 DEF JournalRow
<1>. HIDE DEF j
<1>5. Shape(x) /\ Outward(x, d, w)
  <2>1. Place(x)
    BY <1>1, <1>2 DEF Shape, Place, Resting, Granting, Starting, SameMemory, SameBelief
  <2>2. Grants(x)
    BY <1>2 DEF Shape, Grants, SameMemory, SameBelief
  <2>3. Outward(x, d, w)
    BY <1>2 DEF Outward, SameMemory, World
  <2>. QED  BY <2>1, <2>2, <2>3 DEF Shape
<1>6. /\ t \in ExecutorRow /\ SameSession(t, x) /\ t.journal = j
      /\ t.ctl = s.ctl /\ t.durable = s.durable /\ t.base = s.base
      /\ t.pending = s.pending /\ t.pc = "rejoined" /\ t.todo = <<>>
      /\ Shape(t) /\ Outward(t, d, w)
  BY <1>2, <1>4, <1>5, JournalSet DEF SameMemory, SameBelief
<1>. HIDE DEF t
<1>7. ASSUME Knows(s, d, w) PROVE Knows(t, d, w)
  <2>1. KnowsJournal(s, d, w) /\ KnowsEpoch(s, d, w) /\ KnowsGrant(s, w)
    BY <1>1, <1>7 DEF Knows
  <2>2. s.journal = s.durable /\ s.durable = d.journal
    BY <1>1, <2>1 DEF KnowsJournal
  <2>3. CallSound(SaveCall(j), d, w)
    BY <1>1, <1>4, <2>2, MarkSound
  <2>4. KnowsJournal(t, d, w)
    BY <1>4, <1>6, <2>2, <2>3 DEF KnowsJournal, Saving
  <2>5. KnowsEpoch(t, d, w)
    BY <1>6, <2>1 DEF KnowsEpoch
  <2>6. Open(t) => Open(s)
    BY <1>6 DEF Open
  <2>7. KnowsGrant(t, w)
    BY <1>6, <2>1, <2>2, <2>6 DEF KnowsGrant
  <2>. QED  BY <1>1, <1>6, <2>4, <2>5, <2>7 DEF Knows
<1>. QED  BY <1>2, <1>3, <1>6, <1>7 DEF SameSession

\* The anchor confirms a rejoin.
LEMMA RejoinInv ==
  ASSUME ExecutorInv, NEW e \in Executors, Rejoin(e)
  PROVE  ExecutorInv'
<1>. DEFINE y == [At(ex[e], "rejoined") EXCEPT !.journal.rejoined = TRUE]
            z == At(ex[e], "idle")
<1>1. /\ Types /\ Around \in World /\ ex[e] \in ExecutorRow /\ Shape(ex[e]) /\ db \in DbRow
      /\ Outward(ex[e], db, Around) /\ (Live(e) => Knows(ex[e], db, Around))
      /\ (~restored => anchor <= db.epoch) /\ Covers(db.journal, db.epoch, Around)
  BY Here
<1>2. /\ ex[e].pc = "rejoin" /\ UNCHANGED outside
      /\ Local(e, z) \/ (Local(e, y) /\ ex[e].journal.phase = "promoted")
  BY DEF Rejoin
<1>3. PICK t \in ExecutorRow :
        /\ Local(e, t) /\ SameSession(t, ex[e]) /\ Shape(t) /\ Outward(t, db, Around)
        /\ Knows(ex[e], db, Around) => Knows(t, db, Around)
  <2>1. CASE Local(e, z)
    <3>1. /\ "idle" \in Calm \ {"fence", "stop"} /\ ex[e].pc \notin Saving
      BY <1>2 DEF Calm, Saving
    <3>. QED  BY <1>1, <2>1, <3>1, AtCalm
  <2>2. CASE Local(e, y) /\ ex[e].journal.phase = "promoted"
    <3>1. /\ y \in ExecutorRow /\ SameSession(y, ex[e]) /\ Shape(y) /\ Outward(y, db, Around)
          /\ Knows(ex[e], db, Around) => Knows(y, db, Around)
      BY <1>1, <1>2, <2>2, RejoinedSound
    <3>. HIDE DEF y
    <3>. QED  BY <2>2, <3>1
  <2>. QED  BY <1>2, <2>1, <2>2
<1>4. ex[e].ever
  BY <1>2, AbleLive
<1>5. Around' = Around /\ Passes(Around, Around') /\ UNCHANGED <<anchor, backup, moves, restored>>
  BY <1>1, <1>2, WorldStays DEF outside
<1>6. Connected(e) /\ ~t.reacquired => Live(e)
  BY <1>3 DEF Live, SameSession
<1>. QED  BY <1>1, <1>3, <1>4, <1>5, <1>6, LocalStep DEF SameSession

\* A rejoin is saved.
LEMMA SaveRejoinInv ==
  ASSUME ExecutorInv, NEW e \in Executors, SaveRejoin(e)
  PROVE  ExecutorInv'
<1>. DEFINE j == ex[e].journal
            x == At(ex[e], "idle")
            t == [x EXCEPT !.durable = j]
<1>1. /\ Types /\ Around \in World /\ ex[e] \in ExecutorRow /\ Shape(ex[e]) /\ db \in DbRow
      /\ Outward(ex[e], db, Around) /\ (Live(e) => Knows(ex[e], db, Around))
  BY Here
<1>2. /\ ex[e].pc = "rejoined" /\ UNCHANGED outside
      /\ Answered(e, SaveCall(j), t) \/ Failed(e, SaveCall(j), x)
  BY DEF SaveRejoin, Save
<1>3. /\ ex[e].ever /\ (Able(e) => Live(e)) /\ ex[e].ctl # NoController /\ j \in JournalRow
      /\ ex[e].pc \in Saving
  BY <1>1, <1>2, AbleLive DEF Shape, Place, Starting, ExecutorRow, Saving
<1>4. "idle" \in Calm \ {"fence", "stop"}
  BY DEF Calm
<1>5. /\ x \in ExecutorRow /\ Shape(x) /\ Outward(x, db, Around)
      /\ SameSession(x, ex[e]) /\ SameMemory(x, ex[e]) /\ x.pc = "idle" /\ (Open(x) => Open(ex[e]))
  BY <1>1, <1>4, AtCalm
<1>6. Able(e) => /\ KnowsJournal(ex[e], db, Around) /\ KnowsEpoch(ex[e], db, Around)
                 /\ KnowsGrant(ex[e], Around)
  BY <1>1, <1>3 DEF Knows
<1>7. Able(e) => CallSound(SaveCall(j), db, Around)
  BY <1>3, <1>6 DEF KnowsJournal
<1>. HIDE DEF x
<1>8. /\ t \in ExecutorRow /\ t.durable = j /\ t.journal = j /\ t.ctl = ex[e].ctl
      /\ t.base = ex[e].base /\ t.pc = "idle" /\ (Open(t) => Open(ex[e]))
      /\ Shape(t) /\ Outward(t, db, Around)
  BY <1>3, <1>5, DurableSet DEF SameMemory, SameBelief
<1>. HIDE DEF t
<1>9. CASE Answered(e, SaveCall(j), t)
  <2>1. Able(e)
    BY <1>9 DEF Answered, Able
  <2>2. ASSUME NEW r \in DbRow, r.journal = j, r.epoch = db.epoch
        PROVE  Knows(t, r, Around)
    <3>1. ex[e].durable.phase = "promoted" /\ j.phase = "promoted"
      BY <1>2, <1>6, <2>1 DEF KnowsJournal
    <3>2. ex[e].ctl.phase = "promoted" /\ ~Open(ex[e])
      BY <1>6, <2>1, <3>1 DEF KnowsGrant
    <3>3. KnowsGrant(t, Around)
      BY <1>8, <3>2 DEF KnowsGrant
    <3>4. KnowsEpoch(t, r, Around)
      BY <1>6, <1>8, <2>1, <2>2 DEF KnowsEpoch
    <3>5. KnowsJournal(t, r, Around)
      BY <1>8, <2>2 DEF KnowsJournal, Saving
    <3>. QED  BY <1>3, <1>8, <3>3, <3>4, <3>5 DEF Knows
  <2>. QED  BY <1>2, <1>3, <1>7, <1>8, <1>9, <2>1, <2>2, SaveAnswered
<1>10. CASE Failed(e, SaveCall(j), x)
  <2>1. SaveCall(j) \in CallRow
    BY <1>3, CallRows
  <2>. QED  BY <1>2, <1>3, <1>5, <1>7, <1>10, <2>1, FailedStep
<1>. QED  BY <1>2, <1>9, <1>10

\* The operator's word, taken between two ticks.
LEMMA ReconciledRow ==
  ASSUME NEW s \in ExecutorRow, s.pc = "idle", Shape(s), NEW d \in DbRow, NEW w \in World,
         Outward(s, d, w), s.pending = <<>>, s.ctl.phase = "promoted"
  PROVE  LET t == [s EXCEPT !.ctl.reconciled = TRUE]
         IN  /\ t \in ExecutorRow /\ SameSession(t, s) /\ Shape(t) /\ Outward(t, d, w)
             /\ t.ctl.phase = "promoted" /\ t.ctl.max = s.ctl.max /\ t.ctl # NoController
             /\ t.journal = s.journal /\ t.durable = s.durable /\ t.base = s.base /\ t.pc = "idle"
             /\ ~Open(t) /\ (Knows(s, d, w) => Knows(t, d, w))
<1>. DEFINE c == [s.ctl EXCEPT !.reconciled = TRUE]
            t == [s EXCEPT !.ctl = c]
<1>1. s.ctl \in Controller /\ s.todo = <<>> /\ s.ctl # NoController
  BY NoRows DEF ExecutorRow, Shape, Place, Resting
<1>2. /\ c \in Controller /\ c.phase = "promoted" /\ c.new = s.ctl.new /\ c.max = s.ctl.max
      /\ c # NoController
  BY <1>1, NoRows DEF Controller
<1>3. [s EXCEPT !.ctl.reconciled = TRUE] = t
  OBVIOUS
<1>. HIDE DEF c
<1>4. t \in ExecutorRow
  BY <1>2 DEF ExecutorRow
<1>5. /\ SameSession(t, s) /\ t.ctl = c /\ t.journal = s.journal /\ t.durable = s.durable
      /\ t.base = s.base /\ t.status = s.status /\ t.pc = "idle" /\ t.todo = s.todo
      /\ t.pending = s.pending /\ t.anchored = s.anchored
  BY DEF ExecutorRow, SameSession
<1>. HIDE DEF t
<1>6. Grants(t) /\ ~Open(t)
  BY <1>1, <1>5 DEF Grants, Open
<1>7. Place(t)
  BY <1>1, <1>2, <1>5 DEF Place, Resting, Granting
<1>8. Outward(t, d, w)
  BY <1>5 DEF Outward
<1>9. ASSUME Knows(s, d, w) PROVE Knows(t, d, w)
  <2>1. KnowsJournal(s, d, w) /\ KnowsEpoch(s, d, w)
    BY <1>1, <1>9 DEF Knows
  <2>2. KnowsJournal(t, d, w)
    BY <1>5, <2>1 DEF KnowsJournal
  <2>3. KnowsEpoch(t, d, w)
    BY <1>2, <1>5, <2>1 DEF KnowsEpoch
  <2>4. KnowsGrant(t, w)
    BY <1>2, <1>5, <1>6 DEF KnowsGrant
  <2>. QED  BY <1>2, <1>5, <2>2, <2>3, <2>4 DEF Knows
<1>. QED  BY <1>2, <1>3, <1>4, <1>5, <1>6, <1>7, <1>8, <1>9 DEF Shape

\* reconcile_complete.
LEMMA ReconcileCompleteInv ==
  ASSUME ExecutorInv, NEW e \in Executors, ReconcileComplete(e)
  PROVE  ExecutorInv'
<1>1. /\ Types /\ Around \in World /\ ex[e] \in ExecutorRow /\ Shape(ex[e]) /\ db \in DbRow
      /\ Outward(ex[e], db, Around) /\ (Live(e) => Knows(ex[e], db, Around))
      /\ (~restored => anchor <= db.epoch) /\ Covers(db.journal, db.epoch, Around) /\ Sound(e)
  BY Here
<1>2. ex[e].pc = "idle" /\ UNCHANGED outside /\ ex[e].pc \notin Saving
  BY DEF ReconcileComplete, Saving
<1>3. Around' = Around /\ Passes(Around, Around') /\ UNCHANGED <<anchor, backup, moves, restored>>
  BY <1>1, <1>2, WorldStays DEF outside
<1>4. CASE ex[e].reacquired
  <2>. DEFINE u == [ex[e] EXCEPT !.reacquired = FALSE]
              t == Discard(u)
  <2>1. u \in ExecutorRow
    BY <1>1 DEF ExecutorRow
  <2>2. Twin(u, ex[e]) /\ u.conn = ex[e].conn /\ u.ever = ex[e].ever /\ u.reacquired = FALSE
    BY <1>1, <2>1 DEF Twin, SameMemory, SameBelief, ExecutorRow
  <2>3. Shape(u) /\ Outward(u, db, Around) /\ u.pc = "idle" /\ u.todo = <<>>
    <3>1. ex[e].todo = <<>>
      BY <1>1, <1>2 DEF Shape, Place, Resting
    <3>. QED  BY <1>1, <1>2, <2>2, <3>1, TwinSound DEF Twin
  <2>. HIDE DEF u
  <2>4. /\ t \in ExecutorRow /\ SameSession(t, u) /\ t.ctl = NoController /\ t.pc = "idle"
        /\ Shape(t) /\ Outward(t, db, Around)
    BY <1>1, <2>1, <2>3, DiscardFields
  <2>5. Local(e, t)
    <3>1. Local(e, Discard([ex[e] EXCEPT !.reacquired = FALSE]))
      BY <1>4 DEF ReconcileComplete
    <3>. QED  BY <3>1 DEF u
  <2>. HIDE DEF t
  <2>6. t.conn = ex[e].conn /\ t.ever = ex[e].ever /\ ~t.reacquired /\ Knows(t, db, Around)
    BY <2>2, <2>4 DEF SameSession, Knows, KnowsNothing
  <2>. QED  BY <1>1, <1>3, <2>4, <2>5, <2>6, LocalStep
<1>5. CASE ~ex[e].reacquired
  <2>. DEFINE s == [ex[e] EXCEPT !.ctl.reconciled = TRUE]
              j == [s.journal EXCEPT !.reconciled = TRUE]
              t == [s EXCEPT !.journal = j]
              x == [t EXCEPT !.durable = j]
  <2>1. ex[e].pending = <<>> /\ ex[e].ctl.phase = "promoted"
    BY <1>5 DEF ReconcileComplete
  <2>2. /\ s \in ExecutorRow /\ SameSession(s, ex[e]) /\ Shape(s) /\ Outward(s, db, Around)
        /\ s.ctl.phase = "promoted" /\ s.ctl.max = ex[e].ctl.max /\ s.ctl # NoController
        /\ s.journal = ex[e].journal /\ s.durable = ex[e].durable /\ s.base = ex[e].base
        /\ s.pc = "idle" /\ ~Open(s) /\ (Knows(ex[e], db, Around) => Knows(s, db, Around))
    BY <1>1, <1>2, <2>1, ReconciledRow
  <2>3. ex[e].ctl # NoController
    BY <2>1, NoRows
  <2>4. ex[e].ever /\ (Able(e) => Live(e))
    BY <2>3, AbleLive
  <2>5. \/ s.journal.phase # "promoted" /\ Local(e, s)
        \/ s.journal.phase = "promoted" /\ Answered(e, SaveCall(t.journal), [t EXCEPT !.durable = t.journal])
        \/ s.journal.phase = "promoted" /\ Failed(e, SaveCall(t.journal), t)
    BY <1>5 DEF ReconcileComplete, Save
  <2>. HIDE DEF s
  <2>6. CASE s.journal.phase # "promoted" /\ Local(e, s)
    <3>1. Connected(e) /\ ~s.reacquired => Live(e)
      BY <2>2 DEF Live, SameSession
    <3>. QED  BY <1>1, <1>3, <2>2, <2>4, <2>6, <3>1, LocalStep DEF SameSession
  <2>7. CASE s.journal.phase = "promoted"
    <3>1. s.journal \in JournalRow
      BY <2>2 DEF ExecutorRow
    <3>2. /\ j \in JournalRow /\ j.phase = "promoted" /\ j.new = s.journal.new
          /\ j.max = s.journal.max /\ j.reconciled /\ j.rejoined = s.journal.rejoined
      BY <2>7, <3>1 DEF JournalRow
    <3>. HIDE DEF j
    <3>3. /\ t \in ExecutorRow /\ SameSession(t, s) /\ t.journal = j /\ t.ctl = s.ctl
          /\ t.durable = s.durable /\ t.base = s.base /\ t.pc = "idle"
          /\ Shape(t) /\ ~Open(t) /\ Outward(t, db, Around)
      BY <2>2, <3>2, JournalSet
    <3>4. Answered(e, SaveCall(j), x) \/ Failed(e, SaveCall(j), t)
      BY <2>5, <2>7, <3>3
    <3>. HIDE DEF t
    <3>5. /\ x \in ExecutorRow /\ x.durable = j /\ x.journal = j /\ x.ctl = s.ctl
          /\ x.base = s.base /\ x.pc = "idle" /\ Shape(x) /\ ~Open(x) /\ Outward(x, db, Around)
      BY <3>2, <3>3, DurableSet
    <3>. HIDE DEF x
    <3>6. Able(e) => KnowsJournal(ex[e], db, Around) /\ KnowsEpoch(ex[e], db, Around)
      BY <1>1, <2>3, <2>4 DEF Knows
    <3>7. ASSUME Able(e) PROVE CallSound(SaveCall(j), db, Around)
      <4>1. s.journal = db.journal
        BY <1>2, <2>2, <3>6, <3>7 DEF KnowsJournal
      <4>. QED  BY <1>1, <2>7, <3>1, <3>2, <4>1, MarkSound
    <3>8. CASE Answered(e, SaveCall(j), x)
      <4>1. Able(e)
        BY <3>8 DEF Answered, Able
      <4>2. ASSUME NEW r \in DbRow, r.journal = j, r.epoch = db.epoch
            PROVE  Knows(x, r, Around)
        <5>1. KnowsJournal(x, r, Around)
          BY <3>5, <4>2 DEF KnowsJournal, Saving
        <5>2. KnowsEpoch(x, r, Around)
          BY <2>2, <3>5, <3>6, <4>1, <4>2 DEF KnowsEpoch
        <5>3. KnowsGrant(x, Around)
          BY <2>2, <3>5 DEF KnowsGrant
        <5>. QED  BY <2>2, <3>5, <5>1, <5>2, <5>3 DEF Knows
      <4>. QED  BY <1>2, <3>2, <3>5, <3>7, <3>8, <4>1, <4>2, SaveAnswered
    <3>9. CASE Failed(e, SaveCall(j), t)
      <4>1. SaveCall(j) \in CallRow /\ SameSession(t, ex[e])
        BY <2>2, <3>2, <3>3, CallRows DEF SameSession
      <4>. QED  BY <1>2, <2>4, <3>3, <3>7, <3>9, <4>1, FailedStep
    <3>. QED  BY <3>4, <3>8, <3>9
  <2>. QED  BY <2>5, <2>6, <2>7
<1>. QED  BY <1>4, <1>5

---------------------------------------------------------------------------
(* Everyone else. *)

\* Every executor with its record is left alone: it is enough that what a live
\* session knows has only aged.
LEMMA OthersSound ==
  ASSUME ExecutorInv, ex' = ex, db' \in DbRow, Passes(Around, Around'),
         \A x \in Executors : lock' = x => lock = x /\ Ages(db, db', Around'),
         Around'.restored \/ db.epoch <= db'.epoch
  PROVE  \A x \in Executors : Sound(x)'
<1>. SUFFICES ASSUME NEW x \in Executors PROVE Sound(x)'
  OBVIOUS
<1>1. Sound(x) /\ ex'[x] = ex[x] /\ ex[x] \in ExecutorRow /\ db \in DbRow
  BY Here
<1>. QED  BY <1>1, OtherSound

\* The server ends a session.
LEMMA SessionDiesInv ==
  ASSUME ExecutorInv, NEW e \in Executors, SessionDies(e)
  PROVE  ExecutorInv'
<1>1. /\ Types /\ Rows /\ db \in DbRow /\ db.epoch <= db.epoch
  BY DEF ExecutorInv, Types, DbRow
<1>2. lock = e /\ lock' = Nobody /\ UNCHANGED <<db, late, ex, outside>>
  BY DEF SessionDies
<1>3. Around' = Around /\ Passes(Around, Around') /\ UNCHANGED <<host, anchor, backup, moves, restored>>
  BY <1>1, <1>2, WorldStays DEF outside
<1>4. Types' /\ Rows'
  <2>1. Types'
    BY <1>1, <1>2, <1>3, ExecutorAssumption DEF Types
  <2>. QED  BY <1>1, <1>2, <1>3, <2>1 DEF Rows
<1>5. \A x \in Executors : Sound(x)'
  BY <1>1, <1>2, <1>3, OthersSound, ExecutorAssumption
<1>. QED  BY <1>4, <1>5 DEF ExecutorInv

\* What an abandoned session still does is sound, as nobody has written since.
LEMMA LateCallInv ==
  ASSUME ExecutorInv, LateCall
  PROVE  ExecutorInv'
<1>1. /\ Types /\ Rows /\ db \in DbRow /\ db.epoch <= db.epoch /\ db.epoch \in Nat
      /\ late \in CallRow /\ Around \in World
      /\ CallSound(late, db, Around) /\ Covers(db.journal, db.epoch, Around)
  BY WorldType DEF ExecutorInv, Types, DbRow, Rows
<1>2. lock' = Nobody /\ late' = NoCall /\ db' \in {db, Effect(late, db)} /\ UNCHANGED <<ex, outside>>
  BY DEF LateCall
<1>3. Around' = Around /\ Passes(Around, Around') /\ UNCHANGED <<host, anchor, backup, moves, restored>>
  BY <1>1, <1>2, WorldStays DEF outside
<1>4. db' \in DbRow /\ db.epoch <= db'.epoch /\ Covers(db'.journal, db'.epoch, Around)
  <2>1. LET r == Effect(late, db)
        IN  r \in DbRow /\ db.epoch <= r.epoch /\ Covers(r.journal, r.epoch, Around)
    BY <1>1, EffectFacts
  <2>. QED  BY <1>1, <1>2, <2>1
<1>5. Types'
  BY <1>1, <1>2, <1>3, <1>4, NoRows DEF Types
<1>6. Rows'
  <2>1. CallSound(late', db', Around)
    BY <1>2, NoRows DEF CallSound
  <2>2. ~restored => anchor <= db'.epoch
    BY <1>1, <1>4 DEF Rows, Types, DbRow
  <2>. QED  BY <1>1, <1>3, <1>4, <2>1, <2>2 DEF Rows
<1>7. \A x \in Executors : Sound(x)'
  BY <1>2, <1>3, <1>4, OthersSound, ExecutorAssumption
<1>. QED  BY <1>5, <1>6, <1>7 DEF ExecutorInv

\* A replica before its first tick.
LEMMA StartedSound ==
  ASSUME NEW d, NEW w \in World
  PROVE  /\ Started \in ExecutorRow /\ Shape(Started) /\ Outward(Started, d, w)
         /\ Started.ctl = NoController /\ Started.pc = "idle" /\ ~Started.reacquired
         /\ Started.conn = "none" /\ ~Started.ever
<1>. DEFINE none == <<>>
            s == [conn |-> "none", ever |-> FALSE, reacquired |-> FALSE,
                  ctl |-> NoController, journal |-> NoJournal, durable |-> NoJournal, base |-> 0,
                  pending |-> none, status |-> "waiting",
                  pc |-> "idle", todo |-> none, fresh |-> FALSE, anchored |-> 0]
<1>1. Started = s
  BY DEF Started
<1>2. none \in Seq(Nat)
  OBVIOUS
<1>. HIDE DEF none
<1>3. s \in ExecutorRow
  BY <1>2, NoRows DEF ExecutorRow, Statuses, Steps, Resting
<1>4. /\ s.ctl = NoController /\ s.pc = "idle" /\ ~s.reacquired /\ s.conn = "none" /\ ~s.ever
      /\ s.pending = none /\ s.todo = none /\ s.status = "waiting" /\ s.anchored = 0
  OBVIOUS
<1>. HIDE DEF s
<1>5. s.pending = <<>> /\ s.todo = <<>>
  BY <1>4 DEF none
<1>6. Grants(s)
  BY <1>5 DEF Grants
<1>7. Place(s)
  BY <1>4, <1>5, NoRows DEF Place, Resting, Granting, Starting, Terminal
<1>8. Outward(s, d, w)
  BY <1>4 DEF Outward, World
<1>. QED  BY <1>1, <1>3, <1>4, <1>6, <1>7, <1>8 DEF Shape

\* A hold pauses dispatch and nothing else.
LEMMA HoldEffect ==
  ASSUME NEW d \in DbRow
  PROVE  LET r == Effect(Call("hold"), d)
         IN  r \in DbRow /\ r.epoch = d.epoch /\ r.journal = d.journal
<1>1. Effect(Call("hold"), d) = [d EXCEPT !.dispatch = FALSE]
  BY CallRows DEF Effect
<1>. QED  BY <1>1 DEF DbRow

\* A replica restarts and holds dispatch.
LEMMA CrashInv ==
  ASSUME ExecutorInv, NEW e \in Executors, Crash(e)
  PROVE  ExecutorInv'
<1>1. /\ Types /\ Rows /\ db \in DbRow /\ Around \in World
      /\ ex \in [Executors -> ExecutorRow] /\ e \notin {Nobody, Abandoned}
  BY WorldType, ExecutorAssumption DEF ExecutorInv, Types, DbRow
<1>2. /\ ex' = [ex EXCEPT ![e] = Started] /\ UNCHANGED <<late, outside>>
      /\ lock' = IF lock = e THEN Nobody ELSE lock
      /\ db' = Effect(Call("hold"), db)
  BY DEF Crash
<1>10. /\ db' \in DbRow /\ db'.epoch = db.epoch /\ db'.journal = db.journal
       /\ db.epoch \in Nat /\ db.epoch <= db'.epoch
  <2>1. db' \in DbRow /\ db'.epoch = db.epoch /\ db'.journal = db.journal
    BY <1>1, <1>2, HoldEffect
  <2>. QED  BY <1>1, <2>1 DEF DbRow
<1>3. Around' = Around /\ Passes(Around, Around') /\ UNCHANGED <<host, anchor, backup, moves, restored>>
  BY <1>1, <1>2, WorldStays DEF outside
<1>4. /\ Started \in ExecutorRow /\ Shape(Started) /\ Outward(Started, db', Around)
      /\ Started.ctl = NoController /\ Started.pc = "idle" /\ ~Started.reacquired
      /\ Started.conn = "none"
  BY <1>1, StartedSound
<1>5. /\ ex'[e] = Started /\ ex' \in [Executors -> ExecutorRow] /\ lock' # e
      /\ \A x \in Executors \ {e} : ex'[x] = ex[x] /\ (lock' = x => lock = x)
  BY <1>1, <1>2, <1>4, ExecutorAssumption
<1>6. Types'
  <2>1. lock' \in Executors \union {Nobody, Abandoned} /\ (late' # NoCall => lock' = Abandoned)
    BY <1>1, <1>2 DEF Types
  <2>. QED  BY <1>1, <1>2, <1>3, <1>5, <1>10, <2>1 DEF Types
<1>7. Rows'
  <2>1. CallSound(late', db', Around')
    BY <1>1, <1>2, <1>3, <1>10 DEF Rows, CallSound
  <2>. QED  BY <1>1, <1>3, <1>10, <2>1 DEF Rows
<1>8. Sound(e)'
  <2>1. Session(e)' /\ ~Live(e)'
    BY <1>4, <1>5 DEF Session, Live, Connected
  <2>. QED  BY <1>2, <1>3, <1>4, <1>5, <2>1 DEF Sound
<1>9. ASSUME NEW x \in Executors \ {e} PROVE Sound(x)'
  <2>1. /\ Sound(x) /\ ex'[x] = ex[x] /\ ex[x] \in ExecutorRow
        /\ (lock' = x => lock = x) /\ Ages(db, db', Around')
    BY <1>1, <1>5, <1>10 DEF ExecutorInv, Ages
  <2>. QED  BY <1>1, <1>3, <1>10, <2>1, OtherSound
<1>. QED  BY <1>6, <1>7, <1>8, <1>9 DEF ExecutorInv

\* An operator leaves the journal alone, and an epoch moved by hand is counted.
LEMMA OperatorsInv ==
  ASSUME ExecutorInv, Operators
  PROVE  ExecutorInv'
<1>1. /\ Types /\ Rows /\ db \in DbRow /\ db.epoch \in Nat /\ Around \in World /\ moves \in Nat
      /\ Covers(db.journal, db.epoch, Around) /\ Covers(backup.journal, backup.epoch, Around)
      /\ backup \in DbRow /\ db.journal \in JournalRow
      /\ backup.epoch \in Nat /\ backup.journal \in JournalRow
      /\ late \in CallRow /\ CallSound(late, db, Around) /\ (~restored => anchor <= db.epoch)
  BY WorldType DEF ExecutorInv, Types, Rows, DbRow
<1>2. /\ UNCHANGED <<host, anchor, lock, late, ex, backup, restored>>
      /\ db' \in DbRow /\ db'.journal = db.journal /\ moves' \in Nat /\ moves <= moves'
      /\ db'.epoch \in Nat /\ db.epoch <= db'.epoch /\ (moves' = 0 => db'.epoch = db.epoch)
  <2>1. CASE OperatorMovesEpoch
    <3>. DEFINE n == db.epoch + 1
    <3>1. /\ db' = [db EXCEPT !.epoch = n, !.dispatch = FALSE] /\ moves' = moves + 1
          /\ UNCHANGED <<host, anchor, lock, late, ex, backup, restored>>
      BY <2>1 DEF OperatorMovesEpoch
    <3>2. n \in Nat /\ db.epoch <= n
      BY <1>1
    <3>. HIDE DEF n
    <3>3. db' \in DbRow /\ db'.journal = db.journal /\ db'.epoch = n
      BY <1>1, <3>1, <3>2 DEF DbRow
    <3>. QED  BY <1>1, <3>1, <3>2, <3>3
  <2>2. CASE OperatorResumes
    <3>1. /\ db' = [db EXCEPT !.dispatch = TRUE]
          /\ UNCHANGED <<host, anchor, lock, late, ex, backup, moves, restored>>
      BY <2>2 DEF OperatorResumes
    <3>2. db' \in DbRow /\ db'.journal = db.journal /\ db'.epoch = db.epoch
      BY <1>1, <3>1 DEF DbRow
    <3>. QED  BY <1>1, <3>1, <3>2
  <2>3. ASSUME NEW row \in {"open", "fenced", "missing"}, OperatorSetsRow(row)
        PROVE  <1>2!:
    <3>1. /\ db' = [db EXCEPT !.row = row]
          /\ UNCHANGED <<host, anchor, lock, late, ex, backup, moves, restored>>
      BY <2>3 DEF OperatorSetsRow
    <3>2. db' \in DbRow /\ db'.journal = db.journal /\ db'.epoch = db.epoch
      BY <1>1, <3>1 DEF DbRow
    <3>. QED  BY <1>1, <3>1, <3>2
  <2>. QED  BY <2>1, <2>2, <2>3 DEF Operators
<1>3. Passes(Around, Around') /\ Around'.moves = moves'
  <2>1. Around' = [host |-> host, anchor |-> anchor, moves |-> moves', restored |-> restored]
    BY <1>2 DEF Around
  <2>2. Around' \in World /\ anchor <= anchor
    BY <1>1, <1>2, <2>1 DEF World, Types
  <2>. QED  BY <1>1, <1>2, <2>1, <2>2 DEF Passes, Around
<1>4. Ages(db, db', Around')
  BY <1>2, <1>3 DEF Ages
<1>5. Types'
  BY <1>1, <1>2 DEF Types
<1>6. Rows'
  <2>1. CallSound(late', db', Around')
    BY <1>1, <1>2, <1>3, <1>4, CallLasts
  <2>2. Covers(db'.journal, db'.epoch, Around')
    BY <1>1, <1>2, <1>3, CoversLasts
  <2>3. Covers(backup'.journal, backup'.epoch, Around')
    <3>1. backup.epoch <= backup.epoch
      BY <1>1
    <3>. QED  BY <1>1, <1>2, <1>3, <3>1, CoversLasts
  <2>4. ~restored => anchor <= db'.epoch
    BY <1>1, <1>2 DEF Types
  <2>. QED  BY <1>2, <2>1, <2>2, <2>3, <2>4 DEF Rows
<1>7. \A x \in Executors : Sound(x)'
  BY <1>2, <1>3, <1>4, OthersSound
<1>. QED  BY <1>5, <1>6, <1>7 DEF ExecutorInv

\* A copy is as good as the database was.
LEMMA BackupInv ==
  ASSUME ExecutorInv, Backup
  PROVE  ExecutorInv'
<1>1. Types /\ Rows /\ db \in DbRow /\ Around \in World /\ db.epoch <= db.epoch
  BY WorldType DEF ExecutorInv, Types, DbRow
<1>2. backup' = db /\ UNCHANGED <<db, host, anchor, lock, late, ex, moves, restored>>
  BY DEF Backup
<1>3. Around' = Around /\ Passes(Around, Around)
  BY <1>1, <1>2 DEF Around, Passes, World
<1>4. Types'
  BY <1>1, <1>2 DEF Types
<1>5. Rows'
  BY <1>1, <1>2, <1>3 DEF Rows
<1>6. Ages(db, db', Around')
  BY <1>1, <1>2 DEF Ages
<1>7. \A x \in Executors : Sound(x)'
  BY <1>1, <1>2, <1>3, <1>6, OthersSound
<1>. QED  BY <1>4, <1>5, <1>7 DEF ExecutorInv

\* After a restore no session lives.
LEMMA RestoreBackupInv ==
  ASSUME ExecutorInv, RestoreBackup
  PROVE  ExecutorInv'
<1>1. /\ Types /\ Rows /\ Around \in World /\ moves \in Nat /\ backup \in DbRow
      /\ Covers(backup.journal, backup.epoch, Around)
      /\ backup.epoch \in Nat /\ backup.epoch <= backup.epoch /\ backup.journal \in JournalRow
  BY WorldType DEF ExecutorInv, Types, Rows, DbRow
<1>2. /\ db' = backup /\ restored' = TRUE /\ lock' = Nobody /\ late' = NoCall
      /\ UNCHANGED <<host, anchor, ex, backup, moves>>
  BY DEF RestoreBackup
<1>3. Passes(Around, Around') /\ Around'.restored
  <2>1. Around' = [host |-> host, anchor |-> anchor, moves |-> moves, restored |-> TRUE]
    BY <1>2 DEF Around
  <2>2. Around' \in World /\ anchor <= anchor /\ moves <= moves
    BY <1>1, <2>1 DEF World, Types
  <2>. QED  BY <1>1, <2>1, <2>2 DEF Passes, Around
<1>4. Types'
  BY <1>1, <1>2, NoRows DEF Types
<1>5. Rows'
  <2>1. Covers(backup.journal, backup.epoch, Around')
    BY <1>1, <1>3, CoversLasts
  <2>2. CallSound(late', db', Around')
    BY <1>2, NoRows DEF CallSound
  <2>. QED  BY <1>2, <2>1, <2>2 DEF Rows
<1>6. \A x \in Executors : Sound(x)'
  BY <1>1, <1>2, <1>3, OthersSound, ExecutorAssumption
<1>. QED  BY <1>4, <1>5, <1>6 DEF ExecutorInv

---------------------------------------------------------------------------
(* What changes the database. *)

\* The database keeps its rows, or carries out a sound call.
Wrote ==
  db' = db \/ \E c \in CallRow : CallSound(c, db, Around) /\ db' = Effect(c, db)

\* A call writes only while its session can carry it out.
LEMMA CallWrites ==
  ASSUME NEW e, NEW c \in CallRow, NEW s, NEW f, Answered(e, c, s) \/ Failed(e, c, f),
         Able(e) => CallSound(c, db, Around)
  PROVE  Wrote
<1>1. db' = db \/ (Able(e) /\ db' = Effect(c, db))
  BY DEF Answered, Failed, Able
<1>. QED  BY <1>1 DEF Wrote

\* Every write of an executor is a sound call, whichever replica makes it and
\* whatever has happened since the tick began.
LEMMA ExecutorWrites ==
  ASSUME ExecutorInv, NEW e \in Executors, ExecutorStep(e) \/ ReconcileComplete(e)
  PROVE  Wrote
<1>1. /\ ex[e] \in ExecutorRow /\ Shape(ex[e]) /\ db \in DbRow
      /\ Outward(ex[e], db, Around) /\ Covers(db.journal, db.epoch, Around)
  BY Here
<1>2. ASSUME NEW k \in {"hold", "state", "load", "fence"}, NEW s, NEW f,
             Answered(e, Call(k), s) \/ Failed(e, Call(k), f)
      PROVE  Wrote
  BY <1>2, PlainCall, CallWrites
<1>3. ASSUME NEW s, Local(e, s) PROVE Wrote
  BY <1>3 DEF Local, Wrote
<1>4. CASE SaveFence(e) \/ SavePromoted(e) \/ SaveRejoin(e)
  <2>. DEFINE j == ex[e].journal
  <2>1. ex[e].pc \in Saving
    BY <1>4 DEF SaveFence, SavePromoted, SaveRejoin, Saving
  <2>2. ex[e].pc \notin {"idle", "hold"} /\ ex[e].ctl # NoController
    BY <1>1, <2>1 DEF Saving, Shape, Place, Starting
  <2>3. Able(e) => KnowsJournal(ex[e], db, Around)
    BY <2>2, AbleLive, Here DEF Knows
  <2>4. SaveCall(j) \in CallRow /\ (Able(e) => CallSound(SaveCall(j), db, Around))
    BY <1>1, <2>1, <2>3, CallRows DEF KnowsJournal, ExecutorRow
  <2>5. \E s, f : Answered(e, SaveCall(j), s) \/ Failed(e, SaveCall(j), f)
    BY <1>4 DEF SaveFence, SavePromoted, SaveRejoin, Save
  <2>. QED  BY <2>4, <2>5, CallWrites
<1>5. CASE SaveIntent(e)
  <2>. DEFINE n == Head(ex[e].todo)
              j == BuildJournal(ex[e], "promoting", n)
              s == [ex[e] EXCEPT !.journal = j]
  <2>1. ex[e].pc = "intent" /\ ex[e].pc \in Attempting
    BY <1>5 DEF SaveIntent, Attempting, Granting
  <2>2. /\ n \in Nat /\ n # 0 /\ Open(ex[e]) /\ n = ex[e].ctl.new
        /\ Around \in World /\ ex[e].ctl.max \in Nat
        /\ Able(e) => /\ KnowsJournal(ex[e], db, Around) /\ KnowsEpoch(ex[e], db, Around)
                      /\ KnowsGrant(ex[e], Around)
    BY <1>1, <2>1, Attempted DEF Shape, Place, Granting, ExecutorRow, Controller
  <2>3. Able(e) => ~Intended(ex[e], n) /\ ex[e].durable = db.journal
    BY <2>1, <2>2 DEF KnowsJournal
  <2>4. s.journal = j
    BY <1>1 DEF ExecutorRow
  <2>5. \E x, f : Answered(e, SaveCall(j), x) \/ Failed(e, SaveCall(j), f)
    BY <1>5, <2>4 DEF SaveIntent, Save
  <2>. HIDE DEF n
  <2>6. j \in JournalRow
    BY <2>2, NoRows DEF BuildJournal, JournalRow, Phase
  <2>7. Able(e) => CallSound(SaveCall(j), db, Around)
    BY <1>1, <2>2, <2>3, IntentSound
  <2>. HIDE DEF j
  <2>. QED  BY <2>5, <2>6, <2>7, CallRows, CallWrites
<1>6. CASE CompareAndSet(e)
  <2>. DEFINE n == Head(ex[e].todo)
  <2>1. ex[e].pc = "cas" /\ ex[e].pc \in Attempting
    BY <1>6 DEF CompareAndSet, Attempting, Granting
  <2>2. /\ n \in Nat /\ n # 0 /\ Around.host = n
        /\ Able(e) => KnowsJournal(ex[e], db, Around)
    BY <1>1, <2>1, Attempted DEF Shape, Place, Granting, Outward
  <2>3. Able(e) => db.journal.phase = "promoting" /\ db.journal.new = n
    BY <2>1, <2>2 DEF KnowsJournal, Intended
  <2>4. /\ PromoteCall(n) \in CallRow /\ PromoteCall(n).kind = "promote" /\ PromoteCall(n).new = n
    BY <2>2, CallRows
  <2>5. Able(e) => CallSound(PromoteCall(n), db, Around)
    BY <2>2, <2>3, <2>4 DEF CallSound
  <2>6. \E s, f : Answered(e, PromoteCall(n), s) \/ Failed(e, PromoteCall(n), f)
    BY <1>6 DEF CompareAndSet
  <2>. HIDE DEF n
  <2>. QED  BY <2>4, <2>5, <2>6, CallWrites
<1>7. CASE ReconcileComplete(e)
  <2>. DEFINE s == [ex[e] EXCEPT !.ctl.reconciled = TRUE]
              j == [ex[e].journal EXCEPT !.reconciled = TRUE]
              t == [s EXCEPT !.journal.reconciled = TRUE]
  <2>1. ex[e].pc = "idle" /\ ex[e].journal \in JournalRow
    BY <1>1, <1>7 DEF ReconcileComplete, ExecutorRow
  <2>2. s.journal = ex[e].journal /\ t.journal = j
    BY <1>1 DEF ExecutorRow
  <2>3. \/ Local(e, Discard([ex[e] EXCEPT !.reacquired = FALSE]))
        \/ Local(e, s)
        \/ /\ ex[e].ctl.phase = "promoted" /\ s.journal.phase = "promoted"
           /\ Save(e, t, t, t)
    BY <1>7 DEF ReconcileComplete
  <2>4. CASE ex[e].ctl.phase = "promoted" /\ s.journal.phase = "promoted" /\ Save(e, t, t, t)
    <3>1. ex[e].ctl # NoController /\ ex[e].pc \notin Saving
      BY <2>1, <2>4, NoRows DEF Saving
    <3>2. Able(e) => ex[e].journal = db.journal
      BY <3>1, AbleLive, Here DEF Knows, KnowsJournal
    <3>3. /\ j \in JournalRow /\ j.phase = "promoted" /\ j.new = ex[e].journal.new
          /\ j.max = ex[e].journal.max /\ j.reconciled /\ j.rejoined = ex[e].journal.rejoined
      BY <2>1, <2>2, <2>4 DEF JournalRow
    <3>4. \E x, f : Answered(e, SaveCall(j), x) \/ Failed(e, SaveCall(j), f)
      BY <2>2, <2>4 DEF Save
    <3>. HIDE DEF j
    <3>5. Able(e) => CallSound(SaveCall(j), db, Around)
      BY <1>1, <2>1, <2>2, <2>4, <3>2, <3>3, MarkSound
    <3>. QED  BY <3>3, <3>4, <3>5, CallRows, CallWrites
  <2>. QED  BY <1>3, <2>3, <2>4
<1>8. CASE TickTerminal(e) \/ HoldFirst(e) \/ ReadSnapshot(e) \/ HoldAndDrop(e) \/ HoldAndStop(e)
           \/ HoldAndReset(e) \/ LoadJournal(e) \/ AttemptFence(e)
  <2>1. \E k \in {"hold", "state", "load", "fence"} : \E s, f :
          Answered(e, Call(k), s) \/ Failed(e, Call(k), f)
    <3>1. CASE TickTerminal(e) \/ HoldFirst(e) \/ HoldAndDrop(e) \/ HoldAndStop(e) \/ HoldAndReset(e)
      BY <3>1 DEF TickTerminal, HoldFirst, HoldAndDrop, HoldAndStop, HoldAndReset
    <3>2. CASE ReadSnapshot(e)
      BY <3>2 DEF ReadSnapshot
    <3>3. CASE LoadJournal(e)
      BY <3>3 DEF LoadJournal
    <3>4. CASE AttemptFence(e)
      BY <3>4 DEF AttemptFence
    <3>. QED  BY <1>8, <3>1, <3>2, <3>3, <3>4
  <2>. QED  BY <1>2, <2>1
<1>9. CASE TickStart(e) \/ ReadAnchor(e) \/ FenceHost(e) \/ CheckAnchor(e) \/ Witness(e)
           \/ Collect(e) \/ Rejoin(e)
  <2>1. db' = db
    BY <1>9 DEF TickStart, ReadAnchor, FenceHost, CheckAnchor, Witness, Collect, Rejoin, Local
  <2>. QED  BY <2>1 DEF Wrote
<1>. QED  BY <1>4, <1>5, <1>6, <1>7, <1>8, <1>9 DEF ExecutorStep

---------------------------------------------------------------------------
(* Theorems. *)

\* The initial state.
LEMMA InitSound ==
  ASSUME ExecutorInit
  PROVE  ExecutorInv
<1>1. /\ db = [epoch |-> 1, dispatch |-> TRUE, row |-> "open", journal |-> NoJournal]
      /\ host = 0 /\ anchor = 1 /\ lock = Nobody /\ late = NoCall
      /\ ex = [e \in Executors |-> Started] /\ backup = db /\ moves = 0 /\ restored = FALSE
  BY DEF ExecutorInit
<1>2. db \in DbRow /\ db.epoch = 1 /\ db.journal = NoJournal
  BY <1>1, NoRows DEF DbRow
<1>3. Around \in World
  BY <1>1 DEF Around, World
<1>4. /\ Started \in ExecutorRow /\ Shape(Started) /\ Outward(Started, db, Around)
      /\ Started.ctl = NoController /\ Started.pc = "idle" /\ ~Started.reacquired
      /\ Started.conn = "none" /\ ~Started.ever
  BY <1>3, StartedSound
<1>5. ex \in [Executors -> ExecutorRow] /\ \A e \in Executors : ex[e] = Started
  BY <1>1, <1>4
<1>6. Types
  BY <1>1, <1>2, <1>5, NoRows DEF Types
<1>7. Rows
  <2>1. Covers(NoJournal, 1, Around)
    BY NoRows DEF Covers
  <2>2. CallSound(late, db, Around)
    BY <1>1, NoRows DEF CallSound
  <2>. QED  BY <1>1, <1>2, <2>1, <2>2 DEF Rows
<1>8. ASSUME NEW e \in Executors PROVE Sound(e)
  <2>1. Session(e) /\ ~Live(e)
    BY <1>1, <1>4, <1>5, ExecutorAssumption DEF Session, Live, Connected
  <2>. QED  BY <1>4, <1>5, <2>1 DEF Sound
<1>. QED  BY <1>6, <1>7, <1>8 DEF ExecutorInv

\* Every step.
LEMMA NextSound ==
  ASSUME ExecutorInv, [ExecutorNext]_vars
  PROVE  ExecutorInv'
<1>1. CASE UNCHANGED vars
  <2>1. /\ UNCHANGED <<db, host, anchor, lock, late, ex, backup, moves, restored>>
        /\ UNCHANGED Around
    BY <1>1 DEF vars, Around
  <2>2. Types' /\ Rows'
    BY <2>1 DEF ExecutorInv, Types, Rows
  <2>3. \A x \in Executors : Sound(x)'
    BY <2>1 DEF ExecutorInv, Sound, Session, Live, Connected
  <2>. QED  BY <2>2, <2>3 DEF ExecutorInv
<1>2. ASSUME NEW e \in Executors, ExecutorStep(e) \/ ReconcileComplete(e)
      PROVE  ExecutorInv'
  BY <1>2, TickStartInv, TickTerminalInv, HoldFirstInv, ReadAnchorInv, ReadSnapshotInv,
     HoldAndInv, LoadJournalInv, AttemptFenceInv, SaveDoneInv, SaveIntentInv, FenceHostInv,
     CheckAnchorInv, CompareAndSetInv, WitnessInv, CollectInv, RejoinInv, SaveRejoinInv,
     ReconcileCompleteInv DEF ExecutorStep
<1>3. CASE Environment
  BY <1>3, SessionDiesInv, CrashInv, LateCallInv, BackupInv, RestoreBackupInv DEF Environment
<1>4. CASE Operators
  BY <1>4, OperatorsInv
<1>. QED  BY <1>1, <1>2, <1>3, <1>4 DEF ExecutorNext

\* The strengthening is an invariant of executors that contend, lose sessions,
\* leave calls behind and are restarted, under operators who intervene.
THEOREM ExecutorInvariant == ExecutorSpec => []ExecutorInv
<1>1. ExecutorInit => ExecutorInv
  BY InitSound
<1>2. ExecutorInv /\ [ExecutorNext]_vars => ExecutorInv'
  BY NextSound
<1>. QED  BY <1>1, <1>2, PTL DEF ExecutorSpec

\* Whatever is retried, decided again or reloaded, an executor has at most one
\* promotion to carry out, and its controller has decided it.
THEOREM OneOpenPromotion == ExecutorSpec => []OnePromotionOpen
<1>1. ExecutorInv => OnePromotionOpen
  <2>. SUFFICES ASSUME ExecutorInv, NEW e \in Executors,
                       NEW i \in DOMAIN (ex[e].pending \o ex[e].todo),
                       NEW j \in DOMAIN (ex[e].pending \o ex[e].todo),
                       (ex[e].pending \o ex[e].todo)[i] # 0
                PROVE  /\ (ex[e].pending \o ex[e].todo)[j] # 0 => j = i
                       /\ ex[e].ctl.phase = "promoted"
                       /\ (ex[e].pending \o ex[e].todo)[i] = ex[e].ctl.new
    BY DEF OnePromotionOpen
  <2>. DEFINE p == ex[e].pending
              u == ex[e].todo
              q == p \o u
  <2>1. p \in Seq(Nat) /\ u \in Seq(Nat) /\ Grants(ex[e])
    BY Here DEF ExecutorRow, Sound, Shape
  <2>2. /\ DOMAIN q \subseteq Nat /\ Len(p) \in Nat /\ DOMAIN p \subseteq Nat /\ DOMAIN u \subseteq Nat
        /\ \A k \in DOMAIN q : \/ k \in DOMAIN p /\ q[k] = p[k]
                               \/ k - Len(p) \in DOMAIN u /\ q[k] = u[k - Len(p)]
    BY <2>1, Joined
  <2>3. i \in DOMAIN q /\ j \in DOMAIN q /\ q[i] # 0
    OBVIOUS
  <2>. HIDE DEF q
  <2>4. ex[e].ctl.phase = "promoted" /\ q[i] = ex[e].ctl.new
    BY <2>1, <2>2, <2>3 DEF Grants
  <2>5. ASSUME q[j] # 0 PROVE j = i
    <3>1. CASE i \in DOMAIN p /\ q[i] = p[i]
      BY <2>1, <2>2, <2>3, <2>5, <3>1 DEF Grants
    <3>2. CASE i - Len(p) \in DOMAIN u /\ q[i] = u[i - Len(p)]
      <4>1. CASE j \in DOMAIN p /\ q[j] = p[j]
        BY <2>1, <2>3, <2>5, <3>2, <4>1 DEF Grants
      <4>2. CASE j - Len(p) \in DOMAIN u /\ q[j] = u[j - Len(p)]
        <5>1. i - Len(p) = j - Len(p)
          BY <2>1, <2>3, <2>5, <3>2, <4>2 DEF Grants
        <5>2. i \in Nat /\ j \in Nat
          BY <2>2, <2>3
        <5>. QED  BY <2>2, <5>1, <5>2
      <4>. QED  BY <2>2, <2>3, <4>1, <4>2
    <3>. QED  BY <2>2, <2>3, <3>1, <3>2
  <2>. QED  BY <2>4, <2>5 DEF q
<1>. QED  BY <1>1, ExecutorInvariant, PTL

\* The rows and the executors keep their shapes; a tick under way is never that of
\* a terminal executor, what is pending belongs to a controller, and at most one
\* promotion is open.
THEOREM ExecutorTypes == ExecutorSpec => []ExecutorTypeOK
<1>1. ExecutorInv /\ OnePromotionOpen => ExecutorTypeOK
  <2>. SUFFICES ASSUME ExecutorInv, OnePromotionOpen PROVE ExecutorTypeOK
    OBVIOUS
  <2>1. /\ db \in DbRow /\ lock \in Executors \union {Nobody, Abandoned}
        /\ (late # NoCall => lock = Abandoned)
    BY DEF ExecutorInv, Types
  <2>2. db.row \in {"open", "fenced", "missing"} /\ db.dispatch \in BOOLEAN
    BY <2>1 DEF DbRow
  <2>3. ASSUME NEW e \in Executors
        PROVE  /\ ex[e].status \in Statuses
               /\ ex[e].pc # "idle" => ex[e].status \notin Terminal
               /\ ex[e].pending # <<>> => ex[e].ctl # NoController
               /\ ex[e].reacquired => ex[e].ever
               /\ lock = e => ex[e].ever
    <3>1. ex[e] \in ExecutorRow /\ Place(ex[e]) /\ Session(e)
      BY Here DEF Sound, Shape
    <3>2. ex[e].status \in Statuses
      BY <3>1 DEF ExecutorRow
    <3>. QED  BY <3>1, <3>2 DEF Place, Session
  <2>. QED  BY <2>1, <2>2, <2>3 DEF ExecutorTypeOK
<1>. QED  BY <1>1, ExecutorInvariant, OneOpenPromotion, PTL

\* The copy of the journal that a live session takes for durable is the row.
THEOREM CurrentCache == ExecutorSpec => []CacheIsCurrent
<1>1. ExecutorInv => CacheIsCurrent
  BY DEF ExecutorInv, Sound, Live, Knows, KnowsJournal, CacheIsCurrent
<1>. QED  BY <1>1, ExecutorInvariant, PTL

\* What the anchor witnesses has been granted by a database that was not set back.
THEOREM FollowingAnchor == ExecutorSpec => []AnchorFollows
<1>1. ExecutorInv => AnchorFollows
  BY DEF ExecutorInv, Rows, AnchorFollows
<1>. QED  BY <1>1, ExecutorInvariant, PTL

\* No replica stops for good over a lost answer or another replica.
THEOREM OnlyTrueTerminals == ExecutorSpec => []NoFalseTerminal
<1>1. ExecutorInv => NoFalseTerminal
  <2>. SUFFICES ASSUME ExecutorInv, NEW e \in Executors
                PROVE  /\ ex[e].status \in {"ahead", "inconsistent"} => restored
                       /\ ex[e].status = "superseded" => moves > 0
    BY DEF NoFalseTerminal
  <2>. QED  BY Here DEF Outward
<1>. QED  BY <1>1, ExecutorInvariant, PTL

\* An epoch is raised only for a promotion that was intended in the row, fenced
\* outside and not witnessed, over a fenced writer, with dispatch paused.
THEOREM EpochRaisedInOrder == ExecutorSpec => EpochRaised
<1>. DEFINE Raised ==
       db'.epoch > db.epoch /\ moves' = moves /\ restored' = restored =>
         /\ db.journal.phase = "promoting" /\ db.journal.new = db'.epoch
         /\ host = db'.epoch /\ (restored \/ anchor < db'.epoch)
         /\ db.row = "fenced" /\ ~db'.dispatch
<1>1. ASSUME ExecutorInv, [ExecutorNext]_vars PROVE [Raised]_vars
  <2>. SUFFICES ASSUME db'.epoch > db.epoch, moves' = moves, restored' = restored, ExecutorNext
                PROVE  Raised
    BY <1>1
  <2>1. /\ Types /\ Around \in World /\ db \in DbRow /\ db.epoch \in Nat /\ anchor \in Nat
        /\ Covers(db.journal, db.epoch, Around) /\ CallSound(late, db, Around) /\ late \in CallRow
        /\ (~restored => anchor <= db.epoch) /\ Around.host = host
    BY <1>1, WorldType DEF ExecutorInv, Types, Rows, DbRow
  <2>2. CASE Wrote
    <3>1. db' # db
      BY <2>1
    <3>2. PICK c \in CallRow : CallSound(c, db, Around) /\ db' = Effect(c, db)
      BY <2>2, <3>1 DEF Wrote
    <3>3. /\ db.journal.phase = "promoting" /\ db.journal.new = db'.epoch
          /\ Around.host = db'.epoch /\ db.row = "fenced" /\ ~db'.dispatch /\ db' \in DbRow
      BY <2>1, <3>2, EffectFacts
    <3>4. db'.epoch \in Nat
      BY <3>3 DEF DbRow
    <3>. QED  BY <2>1, <3>3, <3>4
  <2>3. CASE Operators
    <3>1. db'.epoch = db.epoch
      BY <2>1, <2>3 DEF Operators, OperatorMovesEpoch, OperatorResumes, OperatorSetsRow, DbRow, Types
    <3>. QED  BY <2>1, <3>1
  <2>4. CASE Environment
    <3>1. db' = db \/ LateCall \/ db' = Effect(Call("hold"), db)
      BY <2>4 DEF Environment, SessionDies, Crash, Backup, RestoreBackup
    <3>2. Call("hold") \in CallRow /\ CallSound(Call("hold"), db, Around)
      BY CallRows DEF CallSound
    <3>3. Wrote
      BY <2>1, <3>1, <3>2 DEF LateCall, Wrote
    <3>. QED  BY <2>2, <3>3
  <2>5. ASSUME NEW e \in Executors, ExecutorStep(e) \/ ReconcileComplete(e)
        PROVE  Wrote
    BY <1>1, <2>5, ExecutorWrites
  <2>. QED  BY <2>2, <2>3, <2>4, <2>5 DEF ExecutorNext
<1>. QED  BY <1>1, ExecutorInvariant, PTL DEF ExecutorSpec, EpochRaised

\* The journal row never moves backward but with the whole database.
THEOREM JournalMovesForward == ExecutorSpec => JournalForward
<1>. DEFINE Moved ==
       restored' = restored =>
         /\ Rank(db'.journal) >= Rank(db.journal)
         /\ Rank(db'.journal) = Rank(db.journal) =>
              /\ db.journal.reconciled => db'.journal.reconciled
              /\ db.journal.rejoined => db'.journal.rejoined
<1>1. ASSUME ExecutorInv, [ExecutorNext]_vars PROVE [Moved]_vars
  <2>. SUFFICES ASSUME restored' = restored, ExecutorNext PROVE Moved
    BY <1>1
  <2>1. /\ Types /\ Around \in World /\ db \in DbRow /\ db.journal \in JournalRow
        /\ Covers(db.journal, db.epoch, Around) /\ CallSound(late, db, Around) /\ late \in CallRow
    BY <1>1, WorldType DEF ExecutorInv, Types, Rows, DbRow
  <2>2. ASSUME Forward(db.journal, db'.journal) PROVE Moved
    BY <2>2 DEF Forward
  <2>3. CASE Wrote
    <3>1. CASE db' = db
      BY <2>1, <2>2, <3>1, ForwardSame
    <3>2. CASE \E c \in CallRow : CallSound(c, db, Around) /\ db' = Effect(c, db)
      BY <2>1, <2>2, <3>2, EffectFacts
    <3>. QED  BY <2>3, <3>1, <3>2 DEF Wrote
  <2>4. CASE Operators
    <3>1. db'.journal = db.journal
      BY <2>1, <2>4 DEF Operators, OperatorMovesEpoch, OperatorResumes, OperatorSetsRow, DbRow
    <3>. QED  BY <2>1, <2>2, <3>1, ForwardSame
  <2>5. CASE Environment
    <3>1. db' = db \/ LateCall \/ db' = Effect(Call("hold"), db)
      BY <2>5 DEF Environment, SessionDies, Crash, Backup, RestoreBackup
    <3>2. Call("hold") \in CallRow /\ CallSound(Call("hold"), db, Around)
      BY CallRows DEF CallSound
    <3>3. Wrote
      BY <2>1, <3>1, <3>2 DEF LateCall, Wrote
    <3>. QED  BY <2>3, <3>3
  <2>6. ASSUME NEW e \in Executors, ExecutorStep(e) \/ ReconcileComplete(e)
        PROVE  Wrote
    BY <1>1, <2>6, ExecutorWrites
  <2>. QED  BY <2>3, <2>4, <2>5, <2>6 DEF ExecutorNext
<1>. QED  BY <1>1, ExecutorInvariant, PTL DEF ExecutorSpec, JournalForward

=============================================================================
