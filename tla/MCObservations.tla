--------------------------- MODULE MCObservations ---------------------------
(***************************************************************************)
(* Small instances of the observation store for TLC: three members, one of *)
(* which reports late and may see the writer alive, one that is silent.    *)
(***************************************************************************)
EXTENDS ObservationStore

Dead(lag) == [writer |-> 0, facts |-> Fact, lag |-> lag]
Alive     == [writer |-> 1, facts |-> {"former"}, lag |-> 0]

SomeSights  == [m \in Members |-> IF m = "a" THEN {Dead(0), Dead(1), Alive} ELSE {Dead(0)}]
SomeRecords == [m \in Members |-> CASE m = "a" -> 3 [] m = "b" -> 3 [] OTHER -> 0]

\* A fresh executor, and one restarted after a promotion.
SomeJournaled ==
  {[phase |-> "steady"],
   [phase |-> "promoted", new |-> 2, reconciled |-> FALSE, rejoined |-> FALSE]}

=============================================================================
