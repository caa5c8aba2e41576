----------------------------- MODULE Authority -----------------------------
(***************************************************************************)
(* The deterministic stand-in for transactions against one writer,         *)
(* crates/domain/src/lib.rs, struct Authority: what the delivery store     *)
(* promises about acceptance, sessions, grants and evidence, without jobs, *)
(* leases of claims, attempts, quotas or suppressions.                     *)
(***************************************************************************)
EXTENDS MessageStates, Integers

CONSTANTS Devices, Keys, Requests,
          NoRequest,      \* the request of a free key
          MaxEpoch,       \* bound: sessions of one device
          MaxDeployment   \* bound: deployment epochs

VARIABLES
  writer_available, dispatch_enabled, deployment_epoch,
  sessions,     \* by device: its connection epoch and whether the lease runs
  messages,     \* by message id: its state, "absent" before acceptance
  grants,       \* by message id
  idempotency   \* by key: the request and the message it created

vars == <<writer_available, dispatch_enabled, deployment_epoch,
          sessions, messages, grants, idempotency>>

NoGrant   == [attempt |-> "none", device |-> "none", epoch |-> 0, deployment |-> 0]
NoBinding == [request |-> NoRequest, message |-> "absent"]

Init ==
  /\ writer_available = TRUE /\ dispatch_enabled = TRUE /\ deployment_epoch = 1
  /\ sessions = [d \in Devices |-> [epoch |-> 0, live |-> FALSE]]
  /\ messages = [m \in Messages |-> "absent"]
  /\ grants = [m \in Messages |-> NoGrant]
  /\ idempotency = [k \in Keys |-> NoBinding]

\* accept: a known key replays or conflicts and changes nothing.
Accept(k, r, m) ==
  /\ writer_available
  /\ idempotency[k] = NoBinding /\ messages[m] = "absent"
  /\ idempotency' = [idempotency EXCEPT ![k] = [request |-> r, message |-> m]]
  /\ messages' = [messages EXCEPT ![m] = "queued"]
  /\ UNCHANGED <<writer_available, dispatch_enabled, deployment_epoch, sessions, grants>>

Connect(d) ==
  /\ writer_available
  /\ sessions[d].epoch < MaxEpoch
  /\ sessions' = [sessions EXCEPT ![d] = [epoch |-> @.epoch + 1, live |-> TRUE]]
  /\ UNCHANGED <<writer_available, dispatch_enabled, deployment_epoch,
                 messages, grants, idempotency>>

Busy(d) == \E m \in Messages : /\ grants[m].device = d
                               /\ messages[m] \in {"claimed", "submitting", "unknown"}

\* grant, by the holder of session epoch e of device d.
Grant(d, e, m, a) ==
  /\ writer_available /\ dispatch_enabled
  /\ sessions[d].epoch = e /\ sessions[d].live
  /\ grants[m] = NoGrant /\ ~Busy(d) /\ messages[m] = "queued"
  /\ grants' = [grants EXCEPT ![m] = [attempt |-> a, device |-> d, epoch |-> e,
                                      deployment |-> deployment_epoch]]
  /\ messages' = [messages EXCEPT ![m] = "claimed"]
  /\ UNCHANGED <<writer_available, dispatch_enabled, deployment_epoch, sessions, idempotency>>

\* event: the calls one transaction makes, with one evidence, on the messages ms.
Event(ms, evidence) ==
  /\ writer_available
  /\ \A m \in ms : /\ messages[m] # "absent"
                   /\ Apply(messages[m], evidence) # InvalidTransition
                   /\ evidence \in {"cancel", "expire"} => grants[m] = NoGrant
  /\ messages' = [m \in Messages |-> IF m \in ms THEN Apply(messages[m], evidence)
                                                 ELSE messages[m]]
  /\ grants' = [m \in Messages |-> IF m \in ms /\ evidence = "proven_no_submit"
                                   THEN NoGrant ELSE grants[m]]
  /\ UNCHANGED <<writer_available, dispatch_enabled, deployment_epoch, sessions, idempotency>>

\* Time: the current session of a device runs out.
LeaseEnds(d) ==
  /\ sessions[d].live
  /\ sessions' = [sessions EXCEPT ![d].live = FALSE]
  /\ UNCHANGED <<writer_available, dispatch_enabled, deployment_epoch,
                 messages, grants, idempotency>>

\* The public fields, which the operator of the deployment sets.
Operate ==
  /\ writer_available' \in BOOLEAN /\ dispatch_enabled' \in BOOLEAN
  /\ deployment_epoch' \in deployment_epoch..MaxDeployment
  /\ UNCHANGED <<sessions, messages, grants, idempotency>>

Next ==
  \/ \E k \in Keys, r \in Requests, m \in Messages : Accept(k, r, m)
  \/ \E d \in Devices : Connect(d) \/ LeaseEnds(d)
  \/ \E d \in Devices, e \in 1..MaxEpoch, m \in Messages, a \in Attempts : Grant(d, e, m, a)
  \/ \E ms \in (SUBSET Messages) \ {{}}, evidence \in Evidence : Event(ms, evidence)
  \/ Operate

Spec == Init /\ [][Next]_vars

=============================================================================
