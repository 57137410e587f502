------------------------- MODULE MCAccountSemaphore -------------------------
(* Five callers of one key, with caps an operator may change while requests are
   in flight. *)
EXTENDS AccountSemaphore

CONSTANTS r1, r2, r3, r4, r5

MCRequests == {r1, r2, r3, r4, r5}
MCCaps     == {1, 2, 3}
=============================================================================
