----------------------------- MODULE MCReporting -----------------------------
\* A client pays anyone, a banker and a blocked admin decide.
EXTENDS Reporting

CONSTANTS client, banker, admin

MCBalance == [u \in {client, banker, admin} |-> IF u = banker THEN 0 ELSE 1]
=============================================================================
