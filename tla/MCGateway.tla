----------------------------- MODULE MCGateway -----------------------------
(***************************************************************************)
(* Small instances of the phone and its hub for TLC.                       *)
(***************************************************************************)
EXTENDS Gateway, TLC

\* Event ids are drawn once for each attempt and kind of evidence.
GatewayEventIds == PhoneEvent

\* What the platform may report on a call.
SentOk     == {<<"sent", "ok">>}
SentEither == {<<"sent", "ok">>, <<"sent", "failed">>}
AllReports == SentEither \union ({"delivery"} \X {"unverified", "received", "failed"})

\* Acceptance of a message, and a step of others that only the store sees.
Alone(step) == step /\ UNCHANGED <<journalVars, phoneVars, hubVars>>
Accepted == \E k \in Keys, m \in Messages, r \in Request : AcceptCreate(k, m, r, FALSE)

\* The others who write the store between acceptance and the callbacks: the
\* sweeps, and the deadlines of grant and session.
GrantOthers ==
  \/ \E m \in Messages : ReconcileSilentAttempt(m) \/ GrantExpires(m)
  \/ EndLease(Phone, session[Phone].epoch)

\* Grants, losses and restarts on every side.
GrantRaceNext ==
  (\E e \in Epochs : Server(e)) \/ PhoneStep(Reports) \/ LinkStep \/ Alone(Accepted \/ GrantOthers)
GrantRaceSpec == GatewayInit /\ [][GrantRaceNext]_vars

(***************************************************************************)
(* Progress.  Both executors run what is queued on them, the hub's task    *)
(* finishes what it has begun and reads what it is sent, and a phone whose *)
(* peer is gone misses its heartbeat.  Nothing makes the network, the      *)
(* platform's reports or the owner fair, and an idle connection may last.  *)
(***************************************************************************)
PeerGone == phone.conn # 0 /\ task[phone.conn].pc = "done" /\ down = <<>>

ServerTurn(e) ==
  \/ ServerReceive(e) \/ ServerRecord(e) \/ ServerRefuse(e) \/ ServerAnswer(e)
  \/ ServerGrant(e) \/ ServerConfirm(e) \/ ServerRelease(e)
  \/ task[e].pc \in {"claimed", "granted"} /\ ServerGiveUp(e)

Progress ==
  /\ \A e \in Epochs : WF_vars(ServerTurn(e))
  /\ WF_vars(Pump) /\ WF_vars(PhoneAck) /\ WF_vars(PhoneGrant) /\ WF_vars(PhoneClose)
  /\ WF_vars(Quarantine) /\ WF_vars(ReserveGrant)
  /\ WF_vars(SendRefused \/ SendConsumes) /\ WF_vars(SendFinishes)
  /\ WF_vars(PeerGone /\ Disconnect)

LiveNext ==
  \/ \E e \in Epochs : Server(e)
  \/ PhoneStep(Reports) \/ LinkStep
  \/ Alone(Accepted \/ \E m \in Messages : ReconcileSilentAttempt(m) \/ GrantExpires(m))
LiveSpec == GatewayInit /\ [][LiveNext]_vars /\ Progress

\* Evidence is not stuck in the outbox: once a connection lasts, the journal ends
\* with every event acknowledged, retracted or quarantined, whatever older
\* connections, lapsed grants and restarts left behind.
EvidenceSettles ==
  <>[](phone.conn # 0) => <>[](\A e \in PhoneEvent : status[e] # "pending")

=============================================================================
