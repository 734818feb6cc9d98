--------------------------- MODULE MCIntegrations ---------------------------
(* Small instances of Integrations.                                        *)
EXTENDS Integrations

CONSTANTS a1, a2, w1, w2
=============================================================================
