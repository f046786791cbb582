----------------------------- MODULE MCDashboard -----------------------------
(* Dashboard with two sources, of which one has two peers and the other    *)
(* none.                                                                   *)
EXTENDS Dashboard, TLC

CONSTANTS s1, s2, ada, Ada

MCSourceOf == [k \in {1, 2} |-> s1]

(* The names differ by case only, and the keys come after them. *)
MCRank == 1 :> 11 @@ 2 :> 12 @@ ada :> 5 @@ Ada :> 5
=============================================================================
