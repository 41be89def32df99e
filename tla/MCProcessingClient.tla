-------------------------- MODULE MCProcessingClient --------------------------
\* One worker logs in and one has a configured token; amounts with a fraction
\* below and above ten cents, ids that need every group of a UUID, and payment
\* types in several spellings.
EXTENDS ProcessingClient

CONSTANTS p1, p2, p3

MCSaved ==
  [p \in {p1, p2, p3} |->
     CASE p = p1 ->
            [sender |-> 1, recipient |-> 11, amount |-> 1005, payment_type |-> "SINGLE"]
       [] p = p2 ->
            [sender |-> 15, recipient |-> 6, amount |-> 70, payment_type |-> "withdrawal"]
       [] OTHER ->
            [sender |-> 11, recipient |-> 0, amount |-> 1050, payment_type |-> "Payment"]]

MCToUpper ==
  [t \in {"SINGLE", "withdrawal", "Payment"} |->
     CASE t = "withdrawal" -> "WITHDRAWAL"
       [] t = "Payment" -> "PAYMENT"
       [] OTHER -> t]
=============================================================================
