------------------------- MODULE MCIdempotencyCache -------------------------
(* The cache alone, with one key more than it can hold. *)
EXTENDS IdempotencyCache
CONSTANTS k1, k2, k3, k4, ra, rb
MCKeys == {k1, k2, k3, k4}
MCResponses == {ra, rb}
=============================================================================
