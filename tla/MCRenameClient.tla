--------------------------- MODULE MCRenameClient ---------------------------
(* RenameClient on small instances.                                        *)
EXTENDS RenameClient, TLC

CONSTANTS r1, r2, p1, p2, a, b, x, y

Symmetry ==
  Permutations(Requests) \union Permutations(Panels)
    \union Permutations(Clients) \union Permutations(Names)
=============================================================================
