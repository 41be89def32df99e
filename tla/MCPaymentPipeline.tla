-------------------------- MODULE MCPaymentPipeline --------------------------
\* One client pays, one banker decides, two workers share the queue.
EXTENDS PaymentPipeline, TLC

CONSTANTS client, banker

\* Only the client may pay; the recipient is the client or the banker.
MCBalance == [u \in {client, banker} |-> IF u = client THEN 1 ELSE 0]
Symmetry == Permutations(Payment) \cup Permutations(Worker)

=============================================================================
