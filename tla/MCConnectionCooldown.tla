------------------------ MODULE MCConnectionCooldown ------------------------
(* Calls on one connection row. *)
EXTENDS ConnectionCooldown

CONSTANTS c1, c2

MCTwo      == {c1, c2}

(* One kind for each way through markAccountUnavailable(): "hint" and "uncooled"
   differ from "cool" and "terminal" in one field of the row, "scope" and "mode"
   from "combo" in the status and the level; "refuse" leaves where a row that is cooling already does. *)
MCKinds == {"bypass", "model", "cool", "combo", "terminal", "ban"}
=============================================================================
