----------------------------- MODULE MCExecutor -----------------------------
(***************************************************************************)
(* Two replicas of the failover executor for TLC.                          *)
(***************************************************************************)
EXTENDS FailoverExecutor, TLC

Everyone(alive, facts) == [m \in Members |-> [alive |-> alive, facts |-> facts]]

\* What a round may tell: nothing, a healthy writer, a dead one, a dead one that is
\* fenced and replaced by a ready standby, a former writer that has come back.
SomeViews ==
  {<<>>, Everyone(TRUE, {}), Everyone(FALSE, {}), Everyone(FALSE, {"fenced", "stop", "ready"}),
   Everyone(FALSE, {"former"})}

\* Replicas are alike.
Replicas == Permutations(Executors)

=============================================================================
