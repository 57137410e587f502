------------------------ MODULE MCBreakerPersistence ------------------------
(* Three requests, three breakers for the same name and five statements under way. *)
EXTENDS BreakerPersistence

CONSTANTS r1, r2, r3

MCRequests == {r1, r2, r3}
=============================================================================
