-------------------------- MODULE ObservationStore --------------------------
(***************************************************************************)
(* The durable store of member observations, the loop that records into it *)
(* and the controller that reads it.  One journal file and one checkpoint  *)
(* file for each member; reports are appended, a stale prefix is compacted *)
(* away in two atomic writes, and each check is served the fresh reports   *)
(* that no earlier check of this process was served.                       *)
(*                                                                         *)
(* Every write can fail, which fails the store until it is opened again,   *)
(* and the process can die between any two writes or inside an append.     *)
(***************************************************************************)
EXTENDS FailoverQuorum, Sequences

CONSTANTS
  RetainedFloor,    \* records a compaction always keeps
  Journaled,        \* the phases the executor's durable journal may hold
  Sights,           \* per member: what it may see (writer, facts), and how many
                    \* ticks late (lag) the store may be given its report
  MaxRecords,       \* per member: bound on its reports
  MaxFaults,        \* bound on failed writes and deaths of the process
  MaxTime           \* bound on the clock

ASSUME StoreAssumption == RetainedFloor \in Nat \ {0} /\ MaxRecords \in [Members -> Nat] /\ MaxTime \in Nat

\* A member abstains on an epoch that no row can hold, so none is ever reported.
ASSUME SightAssumption ==
  Sights \in [Members -> SUBSET [writer : 0..MaxStoredEpoch, facts : SUBSET Fact, lag : Nat]]

ASSUME JournaledAssumption ==
  \A p \in Journaled :
    \/ p.phase \in {"steady", "fencing"}
    \/ p.phase = "promoting" /\ p.new \in Nat \ {0}
    \/ /\ p.phase = "promoted" /\ p.new \in Nat \ {0}
       /\ p.reconciled \in BOOLEAN /\ p.rejoined \in BOOLEAN

VARIABLES
  disk,      \* per member: the journal file, its first sequence and records
  torn,      \* the members whose journal file ends inside a record
  mark,      \* per member: the checkpoint file; last = 0 while there is none
  held,      \* per member: the journal in memory
  mode,      \* "down", "opening", "open", "failed" or "refused"
  loaded,    \* while opening: the members whose journal has been loaded
  writing,   \* the write of a compaction that comes next, if any
  served,    \* per member: the last sequence handed to the controller
  ctl,       \* the controller
  now,       \* the clock
  faults,    \* failed writes and deaths so far
  log,       \* history, per member: every report ever made durable
  counted    \* history: the reports of each check of the present streak

storeVars == <<disk, torn, mark, held, mode, loaded, writing, served, ctl, now, faults, log, counted>>

Journal(first, recs) == [first |-> first, recs |-> recs]
EmptyJournal == Journal(1, <<>>)
NoMark       == [last |-> 0, head |-> <<>>]
Idle         == [member |-> "none", step |-> "none"]

\* The executor starts from whatever its journal holds, with no streak; the
\* authority it reads is at epoch 1.
StartingControllers == {RestoreController(1, p) : p \in Journaled}

ObservationInit ==
  /\ disk   = [m \in Members |-> EmptyJournal] /\ torn = {}
  /\ mark   = [m \in Members |-> NoMark]
  /\ held   = [m \in Members |-> EmptyJournal]
  /\ mode   = "open" /\ loaded = Members /\ writing = Idle
  /\ served = [m \in Members |-> 0]
  /\ ctl   \in StartingControllers
  /\ now    = 2 /\ faults = 0
  /\ log    = [m \in Members |-> <<>>]
  /\ counted = <<>>

---------------------------------------------------------------------------
(* Compaction. *)

\* Variant: every record that has aged out counts, wherever it stands.
AgedAnywhere(recs) ==
  LET newest == Max({recs[i].at : i \in DOMAIN recs})
  IN  Cardinality({i \in DOMAIN recs : ~Fresh(recs[i].at, newest)})

\* The leading records that have aged out, seen from the newest observation of
\* the journal, less the tail that is always kept.
Aged(recs) ==
  LET newest == Max({recs[i].at : i \in DOMAIN recs})
  IN  Max({n \in 0..Len(recs) : \A i \in 1..n : ~Fresh(recs[i].at, newest)})

Compactable(recs) ==
  IF Len(recs) <= RetainedFloor THEN 0 ELSE Min({Aged(recs), Len(recs) - RetainedFloor})

Drop(j, n) == Journal(j.first + n, SubSeq(j.recs, n + 1, Len(j.recs)))

\* What follows once the journal j of member m is in memory: the first write of
\* a compaction, if one is due.
NextWrite(m, j) ==
  IF Compactable(j.recs) = 0 THEN Idle ELSE [member |-> m, step |-> "journal"]

\* The journal is rewritten first ...
RewriteJournal(m) ==
  /\ writing = [member |-> m, step |-> "journal"]
  /\ disk' = [disk EXCEPT ![m] = Drop(held[m], Compactable(held[m].recs))]
  /\ writing' = [writing EXCEPT !.step = "checkpoint"]
  /\ UNCHANGED <<torn, mark, held, mode, loaded, served, ctl, now, faults, log, counted>>

\* ... and the checkpoint that names what was dropped second.
WriteCheckpoint(m) ==
  LET kept == Drop(held[m], Compactable(held[m].recs))
  IN  /\ writing = [member |-> m, step |-> "checkpoint"]
      /\ mark' = [mark EXCEPT ![m] = [last |-> kept.first - 1, head |-> <<Head(kept.recs)>>]]
      /\ held' = [held EXCEPT ![m] = kept]
      /\ writing' = Idle
      /\ UNCHANGED <<disk, torn, mode, loaded, served, ctl, now, faults, log, counted>>

Fault == faults < MaxFaults /\ faults' = faults + 1

\* A failed write poisons an open store; while opening, it ends the attempt.
WriteFails ==
  /\ writing # Idle /\ Fault
  /\ writing' = Idle
  /\ mode' = IF mode = "opening" THEN "down" ELSE "failed"
  /\ UNCHANGED <<disk, torn, mark, held, loaded, served, ctl, now, log, counted>>

---------------------------------------------------------------------------
(* Recording: ReportLoop::run_round and ConsensusStore::record.  A failed  *)
(* store takes nothing more, as does the loop that met the failure.        *)

Ready == mode = "open" /\ writing = Idle

ReportMade(m, sight) == Observation(m, now - sight.lag, sight.writer, sight.facts)

Record(m, sight) ==
  LET r == ReportMade(m, sight)
      j == Journal(held[m].first, Append(held[m].recs, r))
  IN  /\ Ready /\ Len(log[m]) < MaxRecords[m]
      /\ disk' = [disk EXCEPT ![m].recs = Append(@, r)]
      /\ held' = [held EXCEPT ![m] = j]
      /\ log'  = [log EXCEPT ![m] = Append(@, r)]
      /\ writing' = NextWrite(m, j)
      /\ UNCHANGED <<torn, mark, mode, loaded, served, ctl, now, faults, counted>>

\* The append fails with nothing, part or all of the record on disk.
RecordFails(m, sight) ==
  LET r == ReportMade(m, sight)
  IN  /\ Ready /\ Len(log[m]) < MaxRecords[m] /\ Fault
      /\ \/ UNCHANGED <<disk, torn, log>>
         \/ torn' = torn \union {m} /\ UNCHANGED <<disk, log>>
         \/ /\ disk' = [disk EXCEPT ![m].recs = Append(@, r)]
            /\ log' = [log EXCEPT ![m] = Append(@, r)]
            /\ UNCHANGED torn
      /\ mode' = "failed"
      /\ UNCHANGED <<mark, held, loaded, writing, served, ctl, now, counted>>

---------------------------------------------------------------------------
(* Opening: ConsensusStore::open loads one journal after the other.        *)

\* open_journal.  A journal above its checkpoint's continuation is the crash
\* window of a compaction; one that starts above 1 without a checkpoint is not.
Loadable(m) ==
  /\ m \notin torn
  /\ IF mark[m].last = 0
       THEN disk[m].first = 1
       ELSE /\ disk[m].first > mark[m].last
            /\ disk[m].first = mark[m].last + 1 => mark[m].head = <<Head(disk[m].recs)>>

Restart ==
  /\ mode \in {"down", "refused"}
  /\ mode' = "opening" /\ loaded' = {}
  /\ held' = [m \in Members |-> EmptyJournal]
  /\ UNCHANGED <<disk, torn, mark, writing, served, ctl, now, faults, log, counted>>

OpenJournal(m) ==
  /\ mode = "opening" /\ writing = Idle /\ m \notin loaded
  /\ Loadable(m)
  /\ LET j == Journal(disk[m].first, disk[m].recs)
     IN  held' = [held EXCEPT ![m] = j] /\ writing' = NextWrite(m, j)
  /\ loaded' = loaded \union {m}
  /\ UNCHANGED <<disk, torn, mark, mode, served, ctl, now, faults, log, counted>>

OpenRefused(m) ==
  /\ mode = "opening" /\ writing = Idle /\ m \notin loaded
  /\ ~Loadable(m)
  /\ mode' = "refused"
  /\ UNCHANGED <<disk, torn, mark, held, loaded, writing, served, ctl, now, faults, log, counted>>

\* The executor starts on the opened store: nothing served, no streak.
Opened ==
  /\ mode = "opening" /\ writing = Idle /\ loaded = Members
  /\ mode' = "open"
  /\ served' = [m \in Members |-> 0]
  /\ ctl' \in StartingControllers /\ counted' = <<>>
  /\ UNCHANGED <<disk, torn, mark, held, loaded, writing, now, faults, log>>

\* The process dies, perhaps in the middle of an append.
Die ==
  /\ mode \in {"open", "opening", "failed"} /\ Fault
  /\ \/ UNCHANGED torn
     \/ \E m \in Members : Ready /\ Len(log[m]) < MaxRecords[m] /\ torn' = torn \union {m}
  /\ mode' = "down" /\ writing' = Idle
  /\ UNCHANGED <<disk, mark, held, loaded, served, ctl, now, log, counted>>

---------------------------------------------------------------------------
(* Checks: SharedStoreSource::collect and the controller's round.          *)

\* Variant: the last report served is served again.
UnservedOrLast(m) ==
  {s \in held[m].first .. held[m].first + Len(held[m].recs) - 1 :
     s >= served[m] /\ Fresh(held[m].recs[s - held[m].first + 1].at, now)}

\* ConsensusStore::unserved_round, as the sequences of a member.
Unserved(m) ==
  {s \in held[m].first .. held[m].first + Len(held[m].recs) - 1 :
     s > served[m] /\ Fresh(held[m].recs[s - held[m].first + 1].at, now)}

Handed == UNION {{m} \X Unserved(m) : m \in Members}

ReportOf(e) == held[e[1]].recs[e[2] - held[e[1]].first + 1]

\* The streak that the controller counts, as history: a check that the controller
\* counts joins it, a round that changes neither phase nor count leaves it, and every
\* other round ends it.
Counts(c) ==
  \/ c.phase = "suspecting"
  \/ c.phase = "fencing" /\ ctl.phase # "fencing"
  \/ c.phase = "promoted" /\ c.streak > ctl.streak

StreakAfter(c, evidence) ==
  IF Counts(c) THEN Append(counted, evidence)
  ELSE IF c.phase = ctl.phase /\ c.streak = ctl.streak THEN counted
  ELSE <<>>

Collect ==
  LET handed == IF mode = "open" THEN Handed ELSE {}
      after  == Observe(ctl, {ReportOf(e) : e \in handed}, now)
  IN  /\ mode \in {"open", "failed"} /\ writing = Idle
      /\ served' = [m \in Members |-> Max({served[m]} \union {e[2] : e \in {x \in handed : x[1] = m}})]
      /\ ctl' = after.ctl
      /\ counted' = StreakAfter(after.ctl, handed)
      /\ UNCHANGED <<disk, torn, mark, held, mode, loaded, writing, now, faults, log>>

\* reconcile_complete, an operator's word that the promotion was reconciled: offered
\* by the crate, not called by the server's own loop.
Reconcile ==
  /\ mode = "open" /\ ctl.phase = "promoted" /\ ~ctl.reconciled
  /\ ctl' = [ctl EXCEPT !.reconciled = TRUE]
  /\ UNCHANGED <<disk, torn, mark, held, mode, loaded, writing, served, now, faults, log, counted>>

ClockTick ==
  /\ now < MaxTime
  /\ now' = now + 1
  /\ UNCHANGED <<disk, torn, mark, held, mode, loaded, writing, served, ctl, faults, log, counted>>

ObservationNext ==
  \/ \E m \in Members :
       \/ RewriteJournal(m) \/ WriteCheckpoint(m)
       \/ OpenJournal(m) \/ OpenRefused(m)
       \/ \E sight \in Sights[m] : Record(m, sight) \/ RecordFails(m, sight)
  \/ WriteFails \/ Restart \/ Opened \/ Die \/ Collect \/ Reconcile \/ ClockTick

ObservationSpec == ObservationInit /\ [][ObservationNext]_storeVars

---------------------------------------------------------------------------
(* Properties. *)

\* The members that contributed to a check.
Contributors(evidence) == {e[1] : e \in evidence}

\* A streak is made of distinct checks: each counted one rests on reports of a
\* majority that no other check of the streak has counted, and no suspicion counts
\* a check in which a member saw the writer alive.  Re-served records, sequence
\* arithmetic across compactions, restarts and lost rounds must not break this.
StreakOfNewReports ==
  /\ ctl.phase = "suspecting" => Len(counted) = ctl.fails
  /\ ctl.phase = "fencing"    => Len(counted) \in {0, FailedChecks}
  /\ ctl.phase = "promoted"   => Len(counted) = ctl.streak
  /\ \A i \in DOMAIN counted : Cardinality(Contributors(counted[i])) >= Majority
  /\ \A i, j \in DOMAIN counted : i # j => counted[i] \intersect counted[j] = {}
  /\ ctl.phase \in {"suspecting", "fencing"} =>
       \A i \in DOMAIN counted : \A e \in counted[i] : log[e[1]][e[2]].writer = 0

\* Compaction, failed writes and reopening lose no evidence: a durable report that
\* is still fresh is in memory under its own sequence whenever the store is open.
NothingFreshDropped ==
  Ready => \A m \in Members : \A s \in DOMAIN log[m] :
    Fresh(log[m][s].at, now) =>
      /\ s >= held[m].first
      /\ s - held[m].first + 1 <= Len(held[m].recs)
      /\ held[m].recs[s - held[m].first + 1] = log[m][s]

\* As the store's documentation has it, a crash between the two writes of a
\* compaction leaves a state that loads: without a torn record, opening succeeds.
CrashLeavesLoadable ==
  mode = "refused" => torn # {}

=============================================================================
