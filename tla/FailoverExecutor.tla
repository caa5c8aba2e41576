-------------------------- MODULE FailoverExecutor --------------------------
(***************************************************************************)
(* The failover executors of several server replicas, the writer database  *)
(* they contend for and the independent authority outside of it, in the    *)
(* configuration with an external authority (without one no promotion      *)
(* passes the host fence).                                                 *)
(*                                                                         *)
(* A tick is a sequence of calls, and each call is one step: a call of the *)
(* database needs the advisory lock of its session, may fail with or       *)
(* without effect, and may be carried out by an abandoned session after    *)
(* its caller has given up; a call of the external authority may go        *)
(* unanswered with or without effect.  Between two calls sessions die,     *)
(* replicas restart, and operators move the epoch, reverse the fence,      *)
(* resume dispatch or restore the database from a backup.                  *)
(*                                                                         *)
(* The waiting time after a refused lock only delays a tick and is left    *)
(* out; fence_writer_site, a read and a conditional update under the lock, *)
(* is one step; the standby's site row is taken to exist.                  *)
(***************************************************************************)
EXTENDS FailoverQuorum, Sequences

CONSTANTS
  Executors,   \* the replicas
  Nobody,      \* no holder of the lock
  Abandoned,   \* the lock is held by a session whose client has given up
  Views,       \* what the members may report: partial functions from Members to
               \* records of alive and facts
  MaxDeeds,    \* bound on what operators do
  MaxFaults,   \* bound on lost connections and unanswered calls
  MaxPending   \* bound on the decisions taken while others are still pending

ASSUME ExecutorAssumption ==
  /\ Nobody \notin Executors /\ Abandoned \notin Executors /\ Nobody # Abandoned
  /\ MaxDeeds \in Nat /\ MaxFaults \in Nat /\ MaxPending \in Nat \ {0}

VARIABLES
  db,        \* deployment_authority, the writer's site row, failover_controller_state
  host,      \* external: the token under which the old host is fenced, 0 for none
  anchor,    \* external: the highest witnessed epoch
  lock,      \* who holds the advisory lock
  late,      \* the call that an abandoned session still carries out
  ex,        \* the executors
  faults,    \* faults so far
  deeds,     \* interventions of operators so far
  backup,    \* a copy of db
  moves,     \* history: how often an operator has moved the epoch
  restored   \* history: the database has been restored from the backup

vars == <<db, host, anchor, lock, late, ex, faults, deeds, backup, moves, restored>>

---------------------------------------------------------------------------
(* The rows and the calls on them. *)

NoJournal == [phase |-> "none", max |-> 0, new |-> 0, reconciled |-> FALSE, rejoined |-> FALSE]

Call(kind)      == [kind |-> kind, new |-> 0, journal |-> NoJournal]
PromoteCall(n)  == [Call("promote") EXCEPT !.new = n]
SaveCall(j)     == [Call("save") EXCEPT !.journal = j]
NoCall          == Call("none")

\* Variant: the writer's row is not looked at.
PromotesUnfenced(n, d) == d.epoch <= n

Promotes(n, d) == d.epoch <= n /\ d.row = "fenced"

\* What a call makes of the database; load_state and load_controller_state read.
Effect(c, d) ==
  CASE c.kind = "hold"    -> [d EXCEPT !.dispatch = FALSE]
    [] c.kind = "fence"   -> IF d.row = "open" THEN [d EXCEPT !.row = "fenced"] ELSE d
    [] c.kind = "promote" -> IF Promotes(c.new, d)
                               THEN [d EXCEPT !.epoch = c.new, !.dispatch = FALSE] ELSE d
    [] c.kind = "save"    -> [d EXCEPT !.journal = c.journal]
    [] OTHER              -> d

NoController == [Steady(0) EXCEPT !.phase = "none"]

\* A replica's executor before its first tick.
Started ==
  [conn |-> "none", ever |-> FALSE, reacquired |-> FALSE,
   ctl |-> NoController, journal |-> NoJournal, durable |-> NoJournal, base |-> 0,
   pending |-> <<>>, status |-> "waiting",
   pc |-> "idle", todo |-> <<>>, fresh |-> FALSE, anchored |-> 0]

ExecutorInit ==
  /\ db = [epoch |-> 1, dispatch |-> TRUE, row |-> "open", journal |-> NoJournal]
  /\ host = 0 /\ anchor = 1
  /\ lock = Nobody /\ late = NoCall
  /\ ex = [e \in Executors |-> Started]
  /\ faults = 0 /\ deeds = 0
  /\ backup = db /\ moves = 0 /\ restored = FALSE

Terminal == {"inconsistent", "superseded", "ahead"}

Fault == faults < MaxFaults /\ faults' = faults + 1

---------------------------------------------------------------------------
(* One call of the database port: PgWriterAuthority::call_bounded with the *)
(* singleton guard.  The session holds the lock as long as it lives; a     *)
(* replica that takes it again runs nothing until it has dropped what it   *)
(* remembers.                                                              *)

Connected(e) == ex[e].conn = "open" /\ lock = e
FirstLock(e) == ex[e].conn = "none" /\ ~ex[e].ever /\ lock = Nobody

\* The call is carried out and answered; s is the executor afterwards.
Answered(e, c, s) ==
  /\ ~ex[e].reacquired
  /\ Connected(e) \/ FirstLock(e)
  /\ db' = Effect(c, db)
  /\ lock' = e
  /\ ex' = [ex EXCEPT ![e] = [s EXCEPT !.conn = "open", !.ever = TRUE]]
  /\ UNCHANGED <<late, faults>>

\* A call fails, and what the guard then knows.
Failed(e, c, s) ==
  \/ \* stale until the owner has reloaded
     /\ ex[e].reacquired
     /\ ex' = [ex EXCEPT ![e] = s]
     /\ UNCHANGED <<db, lock, late, faults>>
  \/ \* no session: refused by another's lock
     /\ ~ex[e].reacquired /\ ex[e].conn = "none" /\ lock # Nobody
     /\ ex' = [ex EXCEPT ![e] = s]
     /\ UNCHANGED <<db, lock, late, faults>>
  \/ \* no session: the connection cannot be opened
     /\ ~ex[e].reacquired /\ ex[e].conn = "none" /\ Fault
     /\ ex' = [ex EXCEPT ![e] = s]
     /\ UNCHANGED <<db, lock, late>>
  \/ \* the lock is taken again, which fails the call that paid for it
     /\ ~ex[e].reacquired /\ ex[e].conn = "none" /\ ex[e].ever /\ lock = Nobody
     /\ lock' = e
     /\ ex' = [ex EXCEPT ![e] = [s EXCEPT !.conn = "open", !.reacquired = TRUE]]
     /\ UNCHANGED <<db, late, faults>>
  \/ \* the session is found dead
     /\ ~ex[e].reacquired /\ ex[e].conn = "open" /\ lock # e
     /\ ex' = [ex EXCEPT ![e] = [s EXCEPT !.conn = "none"]]
     /\ UNCHANGED <<db, lock, late, faults>>
  \/ \* the answer is lost: the call had no effect, had it, or will have it
     /\ ~ex[e].reacquired /\ (Connected(e) \/ FirstLock(e)) /\ Fault
     /\ \/ db' = db /\ lock' = Nobody /\ late' = late
        \/ db' = Effect(c, db) /\ lock' = Nobody /\ late' = late
        \/ db' = db /\ lock' = Abandoned /\ late' = c
     /\ ex' = [ex EXCEPT ![e] = [s EXCEPT !.conn = "none", !.ever = TRUE]]

\* A step that calls nothing in the database.
Local(e, s) ==
  /\ ex' = [ex EXCEPT ![e] = s]
  /\ UNCHANGED <<db, lock, late>>

outside == <<host, anchor, deeds, backup, moves, restored>>

---------------------------------------------------------------------------
(* The cached state. *)

\* Variant: pending actions survive.
DiscardController(s) ==
  [s EXCEPT !.ctl = NoController, !.journal = NoJournal, !.durable = NoJournal,
            !.status = "waiting"]

\* discard_stale_state
Discard(s) ==
  [s EXCEPT !.ctl = NoController, !.journal = NoJournal, !.durable = NoJournal,
            !.pending = <<>>, !.status = "waiting"]

\* The next call of the tick; the anchor is kept for the snapshot only, and the
\* other locals until the tick ends.
At(s, pc) == [s EXCEPT !.pc = pc, !.anchored = 0,
                       !.todo = IF pc = "idle" THEN <<>> ELSE @,
                       !.fresh = IF pc = "idle" THEN FALSE ELSE @]

BuildJournal(s, phase, new) ==
  [NoJournal EXCEPT !.phase = phase, !.max = s.ctl.max, !.new = new]

Intended(s, n) == s.durable.phase = "promoting" /\ s.durable.new = n

\* Where the attempt of the next action starts, or what follows the last one.
\* A fence is the action 0, a promotion the action that names its epoch.
Proceed(s) ==
  IF s.todo = <<>>
    THEN At(s, IF s.fresh THEN "idle" ELSE "collect")
    ELSE At(s, IF Head(s.todo) = 0 THEN "fence"
               ELSE IF Intended(s, Head(s.todo)) THEN "host" ELSE "intent")

Done(s) == Proceed([s EXCEPT !.todo = Tail(@)])

\* The action stays pending and is retried as it is.
Park(s) == Proceed([s EXCEPT !.pending = Append(@, Head(s.todo)), !.todo = Tail(@)])

\* Variant: the list is read and not taken.
RetryCopies(s) == Proceed([s EXCEPT !.todo = s.pending, !.fresh = FALSE])

\* The loop over pending actions.
Retry(s) == Proceed([s EXCEPT !.todo = s.pending, !.pending = <<>>, !.fresh = FALSE])

\* The attempt of a fresh decision.
Attempt(s, action) == Proceed([s EXCEPT !.todo = <<action>>, !.fresh = TRUE])

\* A higher epoch ends the executor; the loop keeps what it has not attempted.
Supersede(s) ==
  [At(s, "idle") EXCEPT !.status = "superseded",
     !.pending = IF s.fresh THEN @ ELSE @ \o s.todo]

---------------------------------------------------------------------------
(* A tick: first the calls that establish what may be trusted. *)

\* Variant: the lock was lost in between, and the cached state is kept.
TickStartCached(e) ==
  /\ ex[e].pc = "idle" /\ ex[e].status \notin Terminal
  /\ Local(e, At([ex[e] EXCEPT !.reacquired = FALSE],
                 IF ex[e].ctl = NoController THEN "hold" ELSE "anchor"))
  /\ UNCHANGED <<faults, outside>>

TickStart(e) ==
  LET s == IF ex[e].reacquired THEN Discard([ex[e] EXCEPT !.reacquired = FALSE]) ELSE ex[e]
  IN  /\ ex[e].pc = "idle" /\ ex[e].status \notin Terminal
      /\ Local(e, At(s, IF s.ctl = NoController THEN "hold" ELSE "anchor"))
      /\ UNCHANGED <<faults, outside>>

\* A terminal executor only holds dispatch.
TickTerminal(e) ==
  /\ ex[e].pc = "idle" /\ ex[e].status \in Terminal
  /\ Answered(e, Call("hold"), ex[e]) \/ Failed(e, Call("hold"), ex[e])
  /\ UNCHANGED outside

\* live_external_preflight without a controller.
HoldFirst(e) ==
  /\ ex[e].pc = "hold"
  /\ \/ Answered(e, Call("hold"), At(ex[e], "anchor"))
     \/ Failed(e, Call("hold"), At(ex[e], "idle"))
  /\ UNCHANGED outside

\* The anchor is read before the snapshot, by the preflight and by restore.
ReadAnchor(e) ==
  /\ ex[e].pc = "anchor"
  /\ \/ /\ Local(e, [At(ex[e], "snapshot") EXCEPT !.anchored = anchor])
        /\ UNCHANGED faults
     \/ /\ Fault
        /\ Local(e, IF ex[e].ctl = NoController THEN [At(ex[e], "idle") EXCEPT !.status = "waiting"]
                                                ELSE At(ex[e], "drop"))
  /\ UNCHANGED outside

\* The snapshot against the anchor.  With a controller this is the preflight,
\* without one it is restore.
Checked(s, epoch) ==
  IF s.ctl # NoController
    THEN IF s.anchored > epoch THEN At(s, "stop")
         ELSE IF s.base # epoch THEN At(s, "reset") ELSE Retry(s)
    ELSE IF s.anchored > epoch
           THEN [At(s, "idle") EXCEPT !.base = epoch, !.status = "ahead"]
           ELSE [At(s, "load") EXCEPT !.base = epoch]

ReadSnapshot(e) ==
  /\ ex[e].pc = "snapshot"
  /\ \/ Answered(e, Call("state"), Checked(ex[e], db.epoch))
     \/ Failed(e, Call("state"),
               IF ex[e].ctl = NoController THEN [At(ex[e], "idle") EXCEPT !.status = "waiting"]
                                           ELSE At(ex[e], "drop"))
  /\ UNCHANGED outside

\* A preflight that met no answer, an anchor ahead or a foreign epoch holds
\* dispatch, whatever becomes of that call, and then gives up, stops for good or
\* starts over from the database.
HoldAndDrop(e) ==
  /\ ex[e].pc = "drop"
  /\ \/ Answered(e, Call("hold"), At(Discard(ex[e]), "idle"))
     \/ Failed(e, Call("hold"), At(Discard(ex[e]), "idle"))
  /\ UNCHANGED outside

HoldAndStop(e) ==
  /\ ex[e].pc = "stop"
  /\ LET s == [At(ex[e], "idle") EXCEPT !.status = "ahead"]
     IN  Answered(e, Call("hold"), s) \/ Failed(e, Call("hold"), s)
  /\ UNCHANGED outside

HoldAndReset(e) ==
  /\ ex[e].pc = "reset"
  /\ \/ Answered(e, Call("hold"), At(Discard(ex[e]), "anchor"))
     \/ Failed(e, Call("hold"), At(Discard(ex[e]), "idle"))
  /\ UNCHANGED outside

\* Variant: an intent is expected to have been carried out.
VerdictDone(j, epoch) ==
  CASE j.phase \in {"promoting", "promoted"} /\ epoch < j.new -> "inconsistent"
    [] j.phase = "promoting" /\ epoch > j.new -> "superseded"
    [] j.phase \in {"steady", "fencing"} /\ epoch < j.max -> "inconsistent"
    [] OTHER -> "running"

\* restore: the journal against the snapshot.
Verdict(j, epoch) ==
  CASE j.phase = "promoting" /\ epoch < j.new - 1 -> "inconsistent"
    [] j.phase = "promoting" /\ epoch > j.new     -> "superseded"
    [] j.phase = "promoted" /\ epoch < j.new      -> "inconsistent"
    [] j.phase \in {"steady", "fencing"} /\ epoch < j.max -> "inconsistent"
    [] OTHER -> "running"

Restored(s, j) ==
  LET c == IF j.phase = "none" THEN Steady(s.base) ELSE RestoreController(Max({j.max, s.base}), j)
      v == Verdict(j, s.base)
  IN  IF v = "running"
        THEN Retry([s EXCEPT !.ctl = c, !.journal = j, !.durable = j, !.status = v])
        ELSE [At(s, "idle") EXCEPT !.status = v]

LoadJournal(e) ==
  /\ ex[e].pc = "load"
  /\ \/ Answered(e, Call("load"), Restored(ex[e], db.journal))
     \/ Failed(e, Call("load"), [At(ex[e], "idle") EXCEPT !.status = "waiting"])
  /\ UNCHANGED outside

---------------------------------------------------------------------------
(* Attempts. *)

\* save_journal, with what follows either way.
Save(e, s, saved, unsaved) ==
  \/ Answered(e, SaveCall(s.journal), [saved EXCEPT !.durable = s.journal])
  \/ Failed(e, SaveCall(s.journal), unsaved)

\* A fence is journaled unless the journal is already past it.
Fencing(s) ==
  IF s.journal.phase \in {"none", "steady"}
    THEN [s EXCEPT !.journal = BuildJournal(s, "fencing", 0)] ELSE s

AttemptFence(e) ==
  /\ ex[e].pc = "fence"
  /\ \/ Answered(e, Call("fence"), IF db.row = "missing" THEN Park(ex[e])
                                                         ELSE At(Fencing(ex[e]), "fenced"))
     \/ Failed(e, Call("fence"), Park(ex[e]))
  /\ UNCHANGED outside

SaveFence(e) ==
  /\ ex[e].pc = "fenced"
  /\ Save(e, ex[e], Done(ex[e]), Done(ex[e]))
  /\ UNCHANGED outside

\* The intent is durable before anything else is touched.
SaveIntent(e) ==
  LET s == [ex[e] EXCEPT !.journal = BuildJournal(ex[e], "promoting", Head(ex[e].todo))]
  IN  /\ ex[e].pc = "intent"
      /\ Save(e, s, At(s, "host"), Park(s))
      /\ UNCHANGED outside

\* fence_status and, on a host that is not fenced, fence_host.
FenceHost(e) ==
  LET n == Head(ex[e].todo)
  IN  /\ ex[e].pc = "host"
      /\ \/ /\ host' = IF host = 0 THEN n ELSE host
            /\ Local(e, IF host \in {0, n} THEN At(ex[e], "check") ELSE Park(ex[e]))
            /\ UNCHANGED faults
         \/ /\ Fault
            /\ host' \in {host, IF host = 0 THEN n ELSE host}
            /\ Local(e, Park(ex[e]))
      /\ UNCHANGED <<anchor, deeds, backup, moves, restored>>

\* Variant: the promotion is witnessed before it is granted.
CheckAnchorAndWitness(e) ==
  LET n == Head(ex[e].todo)
  IN  /\ ex[e].pc = "check"
      /\ anchor' = Max({anchor, n})
      /\ Local(e, IF anchor >= n /\ ex[e].base < n THEN Park(ex[e]) ELSE At(ex[e], "cas"))
      /\ UNCHANGED <<faults, host, deeds, backup, moves, restored>>

\* A witnessed epoch is not granted again, except to finish what the database
\* already serves.
CheckAnchor(e) ==
  LET n == Head(ex[e].todo)
  IN  /\ ex[e].pc = "check"
      /\ \/ /\ Local(e, IF anchor >= n /\ ex[e].base < n THEN Park(ex[e]) ELSE At(ex[e], "cas"))
            /\ UNCHANGED faults
         \/ Fault /\ Local(e, Park(ex[e]))
      /\ UNCHANGED outside

\* promote_standby
Promoted(s, n) ==
  CASE db.epoch > n      -> Supersede(s)
    [] Promotes(n, db)   -> [At(s, "witness") EXCEPT !.base = n]
    [] OTHER             -> Park(s)

CompareAndSet(e) ==
  LET n == Head(ex[e].todo)
  IN  /\ ex[e].pc = "cas"
      /\ \/ Answered(e, PromoteCall(n), Promoted(ex[e], n))
         \/ Failed(e, PromoteCall(n), Park(ex[e]))
      /\ UNCHANGED outside

\* record_promotion, then the completion in the journal.
Completed(s, n) ==
  IF s.journal.phase = "promoted" /\ s.journal.new = n THEN s
  ELSE [s EXCEPT !.journal = [@ EXCEPT !.phase = "promoted", !.new = n,
                                       !.reconciled = FALSE, !.rejoined = FALSE]]

Witness(e) ==
  LET n == Head(ex[e].todo)
  IN  /\ ex[e].pc = "witness"
      /\ \/ /\ anchor' = Max({anchor, n})
            /\ Local(e, IF anchor > n THEN Park(ex[e]) ELSE At(Completed(ex[e], n), "promoted"))
            /\ UNCHANGED faults
         \/ /\ Fault
            /\ anchor' \in {anchor, Max({anchor, n})}
            /\ Local(e, Park(ex[e]))
      /\ UNCHANGED <<host, deeds, backup, moves, restored>>

SavePromoted(e) ==
  /\ ex[e].pc = "promoted"
  /\ Save(e, ex[e], Done(ex[e]), Done(ex[e]))
  /\ UNCHANGED outside

---------------------------------------------------------------------------
(* A round, its decision, and the operator's word. *)

Reports(view) ==
  {Observation(m, 1, IF view[m].alive THEN db.epoch ELSE 0, view[m].facts) : m \in DOMAIN view}

Decided(s, r) ==
  LET t == [s EXCEPT !.ctl = r.ctl]
  IN  CASE r.decision = "fence"   -> Attempt(t, 0)
        [] r.decision = "promote" -> Attempt(t, r.ctl.new)
        [] r.decision = "rejoin"  -> At(t, "rejoin")
        [] OTHER                  -> At(t, "idle")

Collect(e) ==
  /\ ex[e].pc = "collect"
  /\ \E view \in Views :
       LET r == Observe(ex[e].ctl, Reports(view), 1)
       IN  /\ r.decision \in {"fence", "promote"} => Len(ex[e].pending) < MaxPending
           /\ Local(e, Decided(ex[e], r))
  /\ UNCHANGED <<faults, outside>>

\* A rejoin is recorded once, and only when the anchor confirms the promotion.
Rejoin(e) ==
  LET j == ex[e].journal
  IN  /\ ex[e].pc = "rejoin"
      /\ \/ /\ Local(e, IF j.phase = "promoted" /\ anchor >= j.new /\ ~j.rejoined
                          THEN [At(ex[e], "rejoined") EXCEPT !.journal.rejoined = TRUE]
                          ELSE At(ex[e], "idle"))
            /\ UNCHANGED faults
         \/ Fault /\ Local(e, At(ex[e], "idle"))
      /\ UNCHANGED outside

SaveRejoin(e) ==
  /\ ex[e].pc = "rejoined"
  /\ Save(e, ex[e], At(ex[e], "idle"), At(ex[e], "idle"))
  /\ UNCHANGED outside

\* reconcile_complete between two ticks: refused on a lock taken again, which
\* drops the cached state, and while an action is pending.  The crate offers it to
\* the operator's tooling; the server's own loop does not call it.
ReconcileComplete(e) ==
  LET s == [ex[e] EXCEPT !.ctl.reconciled = TRUE]
  IN  /\ ex[e].pc = "idle"
      /\ IF ex[e].reacquired
           THEN Local(e, Discard([ex[e] EXCEPT !.reacquired = FALSE])) /\ UNCHANGED faults
           ELSE /\ ex[e].pending = <<>>
                /\ ex[e].ctl.phase = "promoted" /\ ~ex[e].ctl.reconciled
                /\ IF s.journal.phase = "promoted"
                     THEN LET t == [s EXCEPT !.journal.reconciled = TRUE] IN Save(e, t, t, t)
                     ELSE Local(e, s) /\ UNCHANGED faults
      /\ UNCHANGED outside

---------------------------------------------------------------------------
(* Everyone else. *)

\* The server ends a session, and its lock with it; the client does not know.
SessionDies(e) ==
  /\ lock = e /\ Fault
  /\ lock' = Nobody
  /\ UNCHANGED <<db, late, ex, outside>>

\* The abandoned session finishes, or is rolled back.
LateCall ==
  /\ lock = Abandoned
  /\ db' \in {db, Effect(late, db)}
  /\ lock' = Nobody /\ late' = NoCall
  /\ UNCHANGED <<ex, faults, outside>>

\* A replica restarts with nothing in memory.  It holds dispatch before anything
\* else runs (hold_before_external_start), on a connection of its own that needs no
\* lock; a start that cannot is aborted, and the replica stays dead until one can.
Crash(e) ==
  /\ ex[e] # Started /\ Fault
  /\ ex' = [ex EXCEPT ![e] = Started]
  /\ lock' = IF lock = e THEN Nobody ELSE lock
  /\ db' = Effect(Call("hold"), db)
  /\ UNCHANGED <<late, outside>>

Deed == deeds < MaxDeeds /\ deeds' = deeds + 1

\* The manual procedure moves the epoch with dispatch held.
OperatorMovesEpoch ==
  /\ Deed
  /\ db' = [db EXCEPT !.epoch = @ + 1, !.dispatch = FALSE]
  /\ moves' = moves + 1
  /\ UNCHANGED <<host, anchor, lock, late, ex, faults, backup, restored>>

\* A site row is fenced, opened again, removed or put back by hand.
OperatorSetsRow(row) ==
  /\ db.row # row /\ Deed
  /\ db' = [db EXCEPT !.row = row]
  /\ UNCHANGED <<host, anchor, lock, late, ex, faults, backup, moves, restored>>

OperatorResumes ==
  /\ ~db.dispatch /\ Deed
  /\ db' = [db EXCEPT !.dispatch = TRUE]
  /\ UNCHANGED <<host, anchor, lock, late, ex, faults, backup, moves, restored>>

Backup ==
  /\ backup # db /\ Deed
  /\ backup' = db
  /\ UNCHANGED <<db, host, anchor, lock, late, ex, faults, moves, restored>>

\* The database comes back as it was; every session is gone.
RestoreBackup ==
  /\ ~restored /\ backup # db
  /\ db' = backup /\ restored' = TRUE
  /\ lock' = Nobody /\ late' = NoCall
  /\ UNCHANGED <<host, anchor, ex, faults, deeds, backup, moves>>

ExecutorStep(e) ==
  \/ TickStart(e) \/ TickTerminal(e) \/ HoldFirst(e) \/ ReadAnchor(e) \/ ReadSnapshot(e)
  \/ HoldAndDrop(e) \/ HoldAndStop(e) \/ HoldAndReset(e) \/ LoadJournal(e)
  \/ AttemptFence(e) \/ SaveFence(e) \/ SaveIntent(e) \/ FenceHost(e) \/ CheckAnchor(e)
  \/ CompareAndSet(e) \/ Witness(e) \/ SavePromoted(e)
  \/ Collect(e) \/ Rejoin(e) \/ SaveRejoin(e)

Operators ==
  \/ OperatorMovesEpoch \/ OperatorResumes
  \/ \E row \in {"open", "fenced", "missing"} : OperatorSetsRow(row)

Environment ==
  \/ \E e \in Executors : SessionDies(e) \/ Crash(e)
  \/ LateCall \/ Backup \/ RestoreBackup

ExecutorNext ==
  \/ \E e \in Executors : ExecutorStep(e) \/ ReconcileComplete(e)
  \/ Operators \/ Environment

ExecutorSpec == ExecutorInit /\ [][ExecutorNext]_vars

---------------------------------------------------------------------------
(* Properties. *)

Statuses == {"waiting", "running"} \union Terminal

\* What an executor still has to carry out holds at most one promotion, the one its
\* controller has decided: no failed call, retried list, second round or reloaded
\* controller leaves another epoch to be granted behind it.
OnePromotionOpen ==
  \A e \in Executors :
    LET open == ex[e].pending \o ex[e].todo
        promotions == {i \in DOMAIN open : open[i] # 0}
    IN  \A i \in promotions :
          /\ promotions = {i}
          /\ ex[e].ctl.phase = "promoted" /\ open[i] = ex[e].ctl.new

\* The shapes of the rows and of an executor; a tick under way is never terminal,
\* only an executor with a controller has actions to retry, and of these at most one
\* is a promotion.
ExecutorTypeOK ==
  /\ db.row \in {"open", "fenced", "missing"} /\ db.dispatch \in BOOLEAN
  /\ lock \in Executors \union {Nobody, Abandoned}
  /\ late # NoCall => lock = Abandoned
  /\ \A e \in Executors :
       /\ ex[e].status \in Statuses
       /\ ex[e].pc # "idle" => ex[e].status \notin Terminal
       /\ ex[e].pending # <<>> => ex[e].ctl # NoController
       /\ ex[e].reacquired => ex[e].ever
       /\ lock = e => ex[e].ever
  /\ OnePromotionOpen

\* Apart from the manual procedure and a restored backup, an epoch is raised only
\* for a promotion whose intent is in the journal row, whose host fence is confirmed
\* outside, which the anchor has not witnessed (but for a replica that repeats what a
\* restore has just undone) and whose writer row is fenced; and it pauses dispatch.
\* Lost answers, late commits, a second replica and a restart must not find a way
\* around one of these.
EpochRaised ==
  [][db'.epoch > db.epoch /\ moves' = moves /\ restored' = restored =>
       /\ db.journal.phase = "promoting" /\ db.journal.new = db'.epoch
       /\ host = db'.epoch /\ (restored \/ anchor < db'.epoch)
       /\ db.row = "fenced" /\ ~db'.dispatch]_vars

\* The journal row, which a restarted or a second executor resumes from, never
\* moves backward: a promotion is not forgotten for a fence, a completed one is not
\* intended again, and what was reconciled or rejoined stays so.
Rank(j) == CASE j.phase = "none"      -> 0
             [] j.phase = "steady"    -> 1
             [] j.phase = "fencing"   -> 2
             [] j.phase = "promoting" -> 2 * j.new + 2
             [] j.phase = "promoted"  -> 2 * j.new + 3

JournalForward ==
  [][restored' = restored =>
       /\ Rank(db'.journal) >= Rank(db.journal)
       /\ Rank(db'.journal) = Rank(db.journal) =>
            /\ db.journal.reconciled => db'.journal.reconciled
            /\ db.journal.rejoined => db'.journal.rejoined]_vars

\* An executor stops for good only over a disagreement that is really there: an
\* anchor or a journal ahead of the database after a restore, an epoch moved by
\* hand past a promotion.  Two replicas, or an answer that was lost, are no reason.
NoFalseTerminal ==
  \A e \in Executors :
    /\ ex[e].status \in {"ahead", "inconsistent"} => restored
    /\ ex[e].status = "superseded" => moves > 0

\* The anchor never leads a database that was not set back: what it witnesses has
\* been granted.
AnchorFollows == ~restored => anchor <= db.epoch

\* Between a replica's calls nobody else writes the journal: as long as its session
\* is the one that holds the lock and it has not lost it in between, the copy that
\* it takes for durable is the row.
CacheIsCurrent ==
  \A e \in Executors :
    Connected(e) /\ ~ex[e].reacquired /\ ex[e].ctl # NoController =>
      ex[e].durable = db.journal

---------------------------------------------------------------------------
(* The terminal hold. *)

\* The loop ticks for ever, and an abandoned session comes to its end.
ExecutorFairness ==
  WF_vars(LateCall) /\ \A e \in Executors : WF_vars(ExecutorStep(e))

HeldNext == (\E e \in Executors : ExecutorStep(e)) \/ Environment \/ OperatorResumes

HeldSpec == ExecutorInit /\ [][HeldNext]_vars /\ ExecutorFairness

\* As the protocol has it, an anchor ahead of the writer's snapshot latches a
\* terminal hold: as operators resume dispatch and connections are lost a bounded
\* number of times, dispatch ends up held.
TerminalHolds ==
  (\E e \in Executors : ex[e].status = "ahead") ~> ~db.dispatch

=============================================================================
