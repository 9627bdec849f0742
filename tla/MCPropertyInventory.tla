------------------------- MODULE MCPropertyInventory -------------------------
(* A small instance of PropertyInventory: one order of each source. *)
EXTENDS PropertyInventory, TLC

CONSTANTS staff, line, agency

\* Nothing orders the nights.
Nights == Permutations(Night)

OneOfEach == (staff :> "os") @@ (line :> "line") @@ (agency :> "external")
=============================================================================
