------------------------- MODULE MCStoreTransactions -------------------------
\* A client and a banker, who also pays, in three sessions at once.
EXTENDS StoreTransactions

CONSTANTS client, banker

MCBalance == [u \in {client, banker} |-> 1]
=============================================================================
