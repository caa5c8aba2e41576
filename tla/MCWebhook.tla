----------------------------- MODULE MCWebhook -----------------------------
(***************************************************************************)
(* Three small worlds, one of which a behaviour picks at its start: the    *)
(* history of one delivery under everything that can happen to it, two     *)
(* endpoints taking turns, one with a secret that may not open, and two    *)
(* lanes at one endpoint.                                                  *)
(***************************************************************************)
EXTENDS WebhookOutbox

CONSTANTS
  MaxQueued  \* bound: deliveries queued at a time of turns or of lanes

VARIABLE part

Part == {"history", "turns", "lanes"}

\* Idle lanes are alike: the first of them claims.
Lanes == SetToSeq(Workers)
InOrder == \A i \in 2..Len(Lanes) :
  ~(worker[Lanes[i]] = Idle /\ worker'[Lanes[i]] # Idle /\ worker[Lanes[i - 1]] = Idle)

\* Events are alike too: they are stored in order.
EventOrder == SetToSeq(Events)
InSequence == ingested' \in { ToSet(s) : s \in Prefixes(EventOrder) }

\* One endpoint is used, and one event is stored.
InHistory ==
  /\ InOrder /\ Cardinality(ingested') <= 1
  /\ \A e \in Endpoints \ Broken : ~endpoint'[e].enabled
  /\ \A e \in Endpoints : endpoint'[e].failing # "long"

\* The owner enables and resumes endpoints, and nothing is pruned.
Working ==
  \/ \E v \in Events, a \in Accounts : Ingest(v, a)
  \/ \E w \in Workers : Lane(w) \/ Abandon(w)
  \/ \E d \in Deliveries : Recover(d)
  \/ \E e \in Endpoints : (endpoint[e].paused \/ ~endpoint[e].enabled) /\ Enable(e)
  \/ Time

FewSends ==
  /\ Cardinality({ d \in Deliveries : post'[d].secret > 0 }) <= MaxQueued
  /\ \A w \in Workers :
       /\ ~(worker'[w].pc = "away" /\ worker'[w].plan = "policy_rejected")
       /\ ~(worker[w].pc = "away" /\ worker'[w] = Idle /\ post' # post)

InTurns == FewSends /\ \A i \in 2..Len(Lanes) : worker'[Lanes[i]] = Idle

InLanes == /\ FewSends /\ InOrder
           /\ \A e \in Broken : ~endpoint'[e].enabled
           /\ \A e \in Endpoints : endpoint'[e].failing # "long"

Parted ==
  /\ \/ part = "history" /\ WebhookNext /\ InHistory
     \/ part = "turns" /\ Working /\ InTurns
     \/ part = "lanes" /\ Working /\ InLanes
  /\ InSequence
  /\ UNCHANGED part

PartedInit ==
  /\ WebhookInit /\ part \in Part
  /\ \A e \in Endpoints : part # "turns" \/ e \in Broken => home[e] = Head(turn.accounts)

PartedSpec == PartedInit /\ [][Parted]_<<vars, part>> /\ WebhookFairness(Lanes[1])

=============================================================================
