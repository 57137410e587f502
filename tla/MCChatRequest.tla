--------------------------- MODULE MCChatRequest ---------------------------
(* Two requests, one or two connections, a breaker that opens at two failures. *)
EXTENDS ChatRequest

CONSTANTS r1, r2, a1, a2

MCOneRequest == {r1}
MCRequests   == {r1, r2}
MCOneAccount == {a1}
MCAccounts   == {a1, a2}

MCOpt ==
    [failureThreshold |-> 2, degradationThreshold |-> 1, halfOpenRequests |-> 1,
     resetTimeout |-> 1, cooldownByKind |-> [k \in {} |-> 0], kindLimit |-> [k \in {} |-> 0]]
=============================================================================
