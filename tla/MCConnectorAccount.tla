------------------------- MODULE MCConnectorAccount -------------------------
(***************************************************************************)
(* A small instance of ConnectorAccount: two accounts of the provider, two *)
(* commands at once.                                                       *)
(***************************************************************************)
EXTENDS ConnectorAccount

CONSTANTS a1, a2, t1, q1, k1, k2
=============================================================================
