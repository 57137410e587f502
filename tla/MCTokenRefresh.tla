--------------------------- MODULE MCTokenRefresh ---------------------------
(* Refreshes of two sibling connections. *)
EXTENDS TokenRefresh

CONSTANTS p1, p2, c1, c2

MCCallers      == {p1, p2}
MCSiblings     == {c1, c2}

(* The first connection is rotated twice, so that a result may be overtaken; the
   second one shares its lane. *)
MCMaxToken     == [c \in MCSiblings |-> IF c = c1 THEN 2 ELSE 1]

(* The path with the guard and the retries, and the one that nests the lane. *)
MCPaths        == [c \in MCSiblings |-> IF c = c1 THEN {"reactive", "quota"} ELSE {"reactive"}]
MCNestedPaths  == [c \in MCSiblings |-> {"check", "quota"}]

(* The second sibling is one of Codex; the failed requests of one connection alone,
   not of Codex, for the disagreements. *)
MCNullOnDead   == {c2}
MCReactive     == [c \in MCSiblings |-> IF c = c1 THEN {"reactive"} ELSE {}]

(* Neither of these looks ahead; checkAndRefreshToken() does. *)
MCExpiries     == {"long", "over"}

(* Every failure but that of the read that confirms a deactivation, on which the
   code deactivates by design. *)
MCDbFailures   == {"stale", "reread", "write"}
=============================================================================
