------------------------ MODULE MCRateLimitSemaphore ------------------------
(* Five callers of one model, with maxima on both sides of the default. *)
EXTENDS RateLimitSemaphore

CONSTANTS r1, r2, r3, r4, r5

MCRequests == {r1, r2, r3, r4, r5}
MCLimits   == {1, 2, 4}
MCSizes    == {0, 2}
=============================================================================
