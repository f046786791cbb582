--------------------------- MODULE MCClientsTable ---------------------------
(* ClientsTable on every file of up to MaxEntries entries.                 *)
EXTENDS ClientsTable, TLC

CONSTANTS a, b, x, y

Symmetry == Permutations({a, b}) \union Permutations({x, y})
=============================================================================
