--------------------------- MODULE MCPropertyStore ---------------------------
(* Small instances of PropertyStore. *)
EXTENDS PropertyStore, MCPropertyRequests, TLC

\* The two payments ask for the same.
Symmetry == Permutations(Client) \cup Permutations({pay, again})
=============================================================================
