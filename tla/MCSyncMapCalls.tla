--------------------------- MODULE MCSyncMapCalls ---------------------------
(* A map of two 2-bit words: ranges within a word, across the boundary and *)
(* up to the end of the map. *)
EXTENDS SyncMapCalls

CONSTANTS t1, t2
MCRanges == {<<0, 2>>, <<1, 4>>}
MCThreads == {t1, t2}
=============================================================================
