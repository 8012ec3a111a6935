---------------------------- MODULE PaymentEvents ----------------------------
(***************************************************************************)
(* The status of a payment (crates/kova-types/src/payment.rs) driven by    *)
(* the events of that payment, whose id is the key of their messages, as   *)
(* KafkaClients delivers them: each topic in order, the topics in any.     *)
(* kova-payments, which is to do this, has no code yet; all that is        *)
(* assumed of it is that an event without a transition changes nothing.    *)
(***************************************************************************)
EXTENDS KafkaClients

VARIABLE status

paymentVars == <<vars, status>>

\* The PaymentEvents that the messages of each kova.payment topic tell of: a
\* PaymentValidatedEvent by its validation_passed, a PaymentFraudCheckedEvent by
\* its decision (Allow, Block or Review), the others by being there.  That a
\* payment has begun, or was handed to the rail, is no message that drives it.
Tells == [
  initiated     |-> {},
  validated     |-> {"ValidationPassed", "ValidationFailed"},
  fraud_checked |-> {"FraudApproved", "FraudBlocked", "FraudReview"},
  fx_converted  |-> {"FxConverted"},
  settled       |-> {"RailSettled"},
  failed        |-> {"RailFailed"},
  refunded      |-> {"RefundRequested"},
  expired       |-> {"Expired"}]

PaymentTopics == DOMAIN Tells

\* The topic of each of these events.
PaymentTopicOf ==
  [e \in UNION {Tells[t] : t \in PaymentTopics} |->
     CHOOSE t \in PaymentTopics : e \in Tells[t]]

TransitionsWithShortcut == {
  <<"Initiated", "ValidationPassed", "Validating">>,
  <<"Validating", "FraudApproved", "FraudCheck">>,
  <<"FraudCheck", "FraudApproved", "FxConversion">>,
  <<"Validating", "FxConverted", "SettlementSubmitted">>,
  <<"FxConversion", "FxConverted", "SettlementSubmitted">>,
  <<"SettlementSubmitted", "RailSettled", "Settled">>}

\* PaymentStatus::transition.
Transitions == {
  <<"Initiated", "ValidationPassed", "Validating">>,
  <<"Initiated", "ValidationFailed", "Failed">>,
  <<"Initiated", "Expired", "Expired">>,
  <<"Validating", "FraudApproved", "FraudCheck">>,
  <<"Validating", "FraudBlocked", "Failed">>,
  <<"Validating", "Expired", "Expired">>,
  <<"FraudCheck", "FraudReview", "FraudCheck">>,
  <<"FraudCheck", "FraudApproved", "FxConversion">>,
  <<"FraudCheck", "FraudBlocked", "Failed">>,
  <<"FraudCheck", "SubmittedToRail", "SettlementSubmitted">>,
  <<"FraudCheck", "Expired", "Expired">>,
  <<"FxConversion", "FxConverted", "SettlementSubmitted">>,
  <<"FxConversion", "Expired", "Expired">>,
  <<"SettlementSubmitted", "RailSettled", "Settled">>,
  <<"SettlementSubmitted", "RailFailed", "Failed">>,
  <<"Settled", "RefundRequested", "Refunded">>}

\* The status after an event, the old one where transition returns
\* InvalidTransitionError.
Successors(s, e) ==
  LET after == {t[3] : t \in {u \in Transitions : u[1] = s /\ u[2] = e}}
  IN  IF after = {} THEN {s} ELSE after

PaymentInit == Init /\ status = "Initiated"

\* A payment's event is processed.
Process(m) ==
  /\ Handle(m)
  /\ status' \in Successors(status, EventAt(inHand[m][1], inHand[m][2]))

PaymentNext ==
  \/ Deliver /\ UNCHANGED status
  \/ \E m \in Members : Process(m)

PaymentSpec == PaymentInit /\ [][PaymentNext]_paymentVars

(***************************************************************************)
(* The worker goes on publishing, the broker answers, and the loop of      *)
(* every member goes on.                                                   *)
(***************************************************************************)
PaymentFairness ==
  /\ WF_paymentVars((Publish \/ Delivered) /\ UNCHANGED status)
  /\ \A m \in Members :
       /\ WF_paymentVars((\E t \in Topics : Receive(m, t) \/ SkipUnreadable(m, t))
                           /\ UNCHANGED status)
       /\ WF_paymentVars(Process(m))
       /\ WF_paymentVars(CommitOffset(m) /\ UNCHANGED status)

PaymentFairSpec == PaymentSpec /\ PaymentFairness

-----------------------------------------------------------------------------
(* Properties. *)

Seen(e) == \E row \in DOMAIN script : script[row] = e /\ applied[row] > 0

\* "All other combinations are invalid" (payment.rs:166): whatever is lost in the
\* order of the topics, processed twice or unreadable, a payment is not settled
\* before its input was validated, fraud control has approved it and the rail has
\* confirmed.
SettledWasApproved ==
  status \in {"Settled", "Refunded"} =>
    Seen("ValidationPassed") /\ Seen("FraudApproved") /\ Seen("RailSettled")

\* Every event of the payment is published and processed in the end, unless it
\* cannot be read.
EverythingIsProcessed == <>(\A row \in DOMAIN script : IsProcessed(row))
=============================================================================
