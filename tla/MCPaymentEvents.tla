---------------------------- MODULE MCPaymentEvents ----------------------------
(* Payments of three to five events, in the topics of events/payment.rs. *)
EXTENDS PaymentEvents, TLC

(* A payment that is settled, and the decisions of fraud control on another. *)
Settled == <<"ValidationPassed", "FraudApproved", "FraudApproved", "FxConverted", "RailSettled">>
Decided == <<"FraudReview", "garbled", "FraudApproved">>

MCScripts == {Settled, Decided}

MCMaxFaults == [s \in MCScripts |-> IF s = Settled THEN 1 ELSE 3]

\* Something that is not a PaymentFraudCheckedEvent is in the way of those.
MCTopicOf == PaymentTopicOf @@ ("garbled" :> "fraud_checked")
=============================================================================
