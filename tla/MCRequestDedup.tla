--------------------------- MODULE MCRequestDedup ---------------------------
(* Three calls with one hash and two with others, in a map of two entries. *)
EXTENDS RequestDedup

CONSTANTS r1, r2, r3, r4, r5

MCCalls == {r1, r2, r3, r4, r5}
MCHash == [r \in MCCalls |->
              CASE r = r4 -> 2
                [] r = r5 -> 3
                [] OTHER -> 1]
=============================================================================
