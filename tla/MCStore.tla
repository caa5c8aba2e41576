------------------------------ MODULE MCStore ------------------------------
(***************************************************************************)
(* Small instances of the delivery store for TLC.  The whole of StoreNext  *)
(* is explored for one message; the runs with more messages or keys leave  *)
(* out the callers they ask nothing about.                                 *)
(***************************************************************************)
EXTENDS DeliveryStore, TLC

\* Ids are opaque to every transaction: they are only compared for equality.
Interchangeable == Permutations(Messages) \union Permutations(Attempts)
                     \union Permutations(EventIds) \union Permutations(Keys)
                     \union Permutations(Devices)

\* Radio evidence, sweeps and retention against each other; no withdrawals, no
\* operator.  Every message comes with a key of its own, named like the message.
EvidenceNext ==
  \/ \E m \in Messages \intersect Keys, r \in Request : AcceptCreate(m, m, r, FALSE)
  \/ Hub \/ Recovery \/ Retention
  \/ \E m \in Messages : GrantExpires(m) \/ MessageExpires(m)

EvidenceSpec == StoreInit /\ [][EvidenceNext]_storeVars

\* Admission, metering and the ends of a message before its grant; no radio.
AdmissionNext ==
  \/ Tenant \/ Recovery \/ Retention \/ Passage
  \/ \E m \in Messages : Claimable(m) /\ ClaimDue(m, 1)

AdmissionSpec == StoreInit /\ [][AdmissionNext]_storeVars

=============================================================================
