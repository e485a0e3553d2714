-------------------------------- MODULE Pipe --------------------------------
(* What the queue and the vrows of the scheduler share: the payloads that   *)
(* go through both (vrow_payload), and the bitmaps.                         *)
EXTENDS SyncMap, FiniteSets

CONSTANTS
    Payloads,       \* the payloads clients push
    NoPayload       \* the contents of a zeroed bucket or bank

ASSUME PayloadAssumption == NoPayload \notin Payloads
=============================================================================
