--------------------------- MODULE MCRegistration ---------------------------
(* Few emails and requests: enough for an admin, a banker the admin          *)
(* appoints, and a third request that tries again.                           *)
EXTENDS Registration
=============================================================================
