--------------------------- MODULE MessageStates ---------------------------
(***************************************************************************)
(* The delivery states of one message and the evidence that moves it from  *)
(* one to the next: crates/domain/src/lib.rs, MessageState, Evidence and   *)
(* MessageState::apply.  States carry the names the database stores.       *)
(***************************************************************************)

CONSTANTS
  Messages,   \* message ids
  Attempts    \* attempt ids: one for each execution grant

MessageState ==
  { "accepted", "queued", "claimed", "submitting", "submitted", "delivered",
    "delivery_unknown", "unknown", "failed", "cancelled", "expired" }

Evidence ==
  { "enqueue", "claim", "durable_submit_intent", "proven_no_submit",
    "sent_callback_ok", "sent_callback_failed", "partial_sent_callbacks",
    "delivery_callback_ok", "delivery_timeout", "crash_without_callback",
    "grant_timeout", "sent_callback_timeout", "callback_conflict",
    "cancel", "expire" }

\* The evidence a device may report over its stream, and its callbacks that name a
\* segment of the message.
RadioEvidence == { "durable_submit_intent", "proven_no_submit", "sent_callback_ok",
                   "sent_callback_failed", "delivery_callback_ok", "delivery_timeout",
                   "crash_without_callback", "callback_conflict" }
SentCallback  == {"sent_callback_ok", "sent_callback_failed"}

\* The result of apply for a pair the table does not list.
InvalidTransition == "invalid_transition"

(***************************************************************************)
(* The transition table of MessageState::apply.                            *)
(***************************************************************************)
Apply(state, evidence) ==
  CASE evidence = "enqueue" /\ state = "accepted" -> "queued"
    [] evidence = "claim" /\ state = "queued" -> "claimed"
    [] evidence = "durable_submit_intent" /\ state = "claimed" -> "submitting"
    [] evidence = "proven_no_submit"
         /\ state \in {"claimed", "submitting", "unknown"} -> "queued"
    [] evidence = "sent_callback_ok"
         /\ state \in {"submitting", "unknown"} -> "submitted"
    [] evidence = "sent_callback_failed"
         /\ state \in {"submitting", "unknown"} -> "failed"
    [] evidence \in {"partial_sent_callbacks", "crash_without_callback",
                     "sent_callback_timeout"}
         /\ state = "submitting" -> "unknown"
    [] evidence = "grant_timeout" /\ state = "claimed" -> "unknown"
    [] evidence = "delivery_callback_ok"
         /\ state \in {"submitted", "delivery_unknown"} -> "delivered"
    [] evidence = "delivery_timeout" /\ state = "submitted" -> "delivery_unknown"
    [] evidence = "callback_conflict"
         /\ state \in {"queued", "claimed", "submitting", "submitted", "delivered",
                       "delivery_unknown", "unknown", "failed"} -> "unknown"
    [] evidence = "cancel" /\ state \in {"accepted", "queued", "claimed"} -> "cancelled"
    [] evidence = "expire" /\ state \in {"accepted", "queued", "claimed"} -> "expired"
    [] OTHER -> InvalidTransition

=============================================================================
