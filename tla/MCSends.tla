------------------------------ MODULE MCSends ------------------------------
(***************************************************************************)
(* The sends of one phone under five kinds of disturbance, one of which a  *)
(* behaviour picks at its start: what would multiply without interacting   *)
(* is kept apart, everything is explored under the same constants.         *)
(***************************************************************************)
EXTENDS MCGateway

\* part: which disturbance this behaviour meets.
VARIABLE part

Part == {"losses", "expiry", "callbacks", "retry", "withdrawal"}

\* Messages and keys are opaque ids: the first one left is accepted, and a second
\* message of a retry once the first was called.
MessageOrder == SetToSeq(Messages)
KeyOrder     == SetToSeq(Keys)

RadioCalled == \E a \in Attempts : radio[a] > 0

Accepts ==
  \E i \in DOMAIN MessageOrder, r \in Request :
    /\ \A j \in 1..(i - 1) : request[MessageOrder[j]] # NoRequest
    /\ i > 1 => part = "retry" /\ RadioCalled
    /\ AcceptCreate(KeyOrder[i], MessageOrder[i], r, FALSE)

\* The one connection of a part that loses none.
OnlyStart == session[Phone].epoch = 0 /\ Start

\* Lost connections, restarts of either side, expiring grants and rejections, one
\* frame at a time.
LossNext ==
  \/ \E e \in Epochs : Server(e)
  \/ PhoneStep(SentOk) \/ LinkStep
  \/ Alone(Accepts \/ \E m \in Messages : ReconcileSilentAttempt(m) \/ GrantExpires(m))

\* The hub's task on a connection that it does not give up.
ServerWorks(e) ==
  \/ ServerReceive(e) \/ ServerRecord(e) \/ ServerAnswer(e)
  \/ ServerClaim(e) \/ ServerGrant(e) \/ ServerConfirm(e) \/ ServerRefuse(e)

\* One connection on which grant, claim and session run out under the phone's hands,
\* with more than one frame under way.
ExpiryNext ==
  \/ \E e \in Epochs : ServerWorks(e)
  \/ PhoneStep(SentOk) \/ OnlyStart
  \/ Alone(Accepts \/ GrantOthers \/ \E m \in Messages : ClaimLapses(m))

\* Callbacks and their evidence on one connection that lasts; time passes for the
\* sweeps.
CallbackNext ==
  \/ \E e \in Epochs : ServerWorks(e) \/ ServerRelease(e)
  \/ PhoneStep(AllReports) \/ OwnerStep \/ OnlyStart \/ Crash
  \/ Alone(Accepts \/ \E m \in Messages : ReconcileSilentAttempt(m) \/ ReconcileDeliveryTimeout(m))

\* Two messages: the second, accepted once the first was called, is granted on a
\* new connection after the owner has approved another test for the failure.
RetryNext ==
  \/ \E e \in Epochs : ServerWorks(e) \/ ServerRelease(e)
  \/ PhoneStep(SentEither) \/ OwnerStep \/ OnlyStart \/ (RadioCalled /\ Start) \/ Disconnect
  \/ Alone(Accepts)

\* What may end a message under the phone's hands.
Causes ==
  (IF expired' # {} THEN {"deadline"} ELSE {}) \union
  (IF suppressed' # {} THEN {"stop"} ELSE {}) \union
  (IF authority' # [epoch |-> 1, dispatch |-> TRUE, open |-> TRUE] THEN {"operator"} ELSE {})

\* One connection, and everyone who may end a message under the phone's hands:
\* cancellation, withdrawal, expiry, sweeps, retention and a held dispatch, of which
\* deadline, STOP and operator come one at a time.
WithdrawalNext ==
  /\ \/ \E e \in Epochs : ServerWorks(e)
     \/ PhoneStep(SentOk) \/ OnlyStart \/ Crash
     \/ Alone(\/ Accepts
              \/ \E m \in Messages : \/ Cancel(m) \/ MessageExpires(m) \/ ClaimLapses(m)
                                     \/ GrantExpires(m) \/ RedactMessage(m)
              \/ \E r \in Recipients : Suppress(r)
              \/ Recovery \/ ChangeAuthority
              \/ \E v \in events : PruneEvent(v))
  /\ Cardinality(Causes) <= 1

\* How far each part goes.  Attempts are opaque ids: they are taken in one order.
AttemptOrder == SetToSeq(Attempts)
Taken == { ToSet(s) : s \in Prefixes(AttemptOrder) }
InFlight == IF part = "expiry" THEN MaxFlight ELSE 1

Within ==
  /\ { a \in Attempts : attempt'[a].status # "none" } \in Taken
  /\ \A e \in Epochs : Len(up'[e]) <= InFlight
  /\ Len(SelectSeq(down', LAMBDA f : f.type # "close")) <= 1

SendsInit == GatewayInit /\ part \in Part

SendsNext ==
  /\ \/ part = "losses" /\ LossNext
     \/ part = "expiry" /\ ExpiryNext
     \/ part = "callbacks" /\ CallbackNext
     \/ part = "retry" /\ RetryNext
     \/ part = "withdrawal" /\ WithdrawalNext
  /\ Within
  /\ UNCHANGED part

SendsSpec == SendsInit /\ [][SendsNext]_<<vars, part>>

=============================================================================
