-------------------------- MODULE MCConnectionPool --------------------------
(* Two listings by bankers, one by a client, the handler with the most calls *)
(* and the one that has two plans.                                           *)
EXTENDS ConnectionPool

CONSTANTS b1, b2, c1, a1, n1

MCRoute == [r \in Request |->
  CASE r \in {b1, b2, c1} -> "listPayments"
    [] r = a1 -> "adminClientHistory"
    [] r = n1 -> "register"]
=============================================================================
