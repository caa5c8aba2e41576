-------------------------- MODULE StoreRefinement --------------------------
(***************************************************************************)
(* The delivery store implements the domain Authority while idempotency    *)
(* keys last: the refinement mapping, and the specification as a property. *)
(* "PostgreSQL transactions in M1 must enforce the same invariants"        *)
(* (crates/domain/src/lib.rs:2).                                           *)
(***************************************************************************)
EXTENDS MCStore

\* Acceptance, the hub, the sweeps and withdrawals, across failovers and revoked
\* devices; retention and key expiry, which the Authority does not have, are left out.
RefinementNext ==
  \/ \E k \in Keys, m \in Messages, r \in Request : Accept(k, m, r)
  \/ Hub \/ Recovery \/ Operator
  \/ \E m \in Messages : GrantExpires(m) \/ MessageExpires(m) \/ Cancel(m)
  \/ \E r \in Recipients : Suppress(r)

RefinementSpec == StoreInit /\ [][RefinementNext]_storeVars

\* A claim without a grant is a lease on a queued message; the Authority calls
\* a message claimed from its grant on.
MappedMessages ==
  [m \in Messages |-> IF state[m] = "claimed" /\ ~job[m].granted THEN "queued" ELSE state[m]]

MappedGrants ==
  [m \in Messages |->
     IF fence[m].attempt = "none"
     THEN [attempt |-> "none", device |-> "none", epoch |-> 0, deployment |-> 0]
     ELSE [attempt |-> fence[m].attempt, device |-> request[m].device,
           epoch |-> fence[m].epoch, deployment |-> fence[m].deployment]]

MappedIdempotency ==
  [k \in Keys |-> [request |-> idem[k].request, message |-> idem[k].message]]

Abstract == INSTANCE Authority WITH
  Requests         <- Request,
  writer_available <- TRUE,
  dispatch_enabled <- authority.dispatch,
  deployment_epoch <- authority.epoch,
  sessions         <- [d \in Devices |-> [epoch |-> session[d].epoch, live |-> session[d].live]],
  messages         <- MappedMessages,
  grants           <- MappedGrants,
  idempotency      <- MappedIdempotency

\* Every transaction of the store is a call of the Authority or changes nothing
\* it knows of: what was accepted, the sessions, who holds which grant and the
\* evidence each message has seen.
ImplementsAuthority == Abstract!Spec

=============================================================================
