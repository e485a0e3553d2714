------------------------------- MODULE MCVrow -------------------------------
(* Payloads that convert and, in the failure runs, one that does not. *)
EXTENDS Vrow

CONSTANTS good1, good2, bad
OnePayload == {good1}
WithBad == {good1, bad}
=============================================================================
