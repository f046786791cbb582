---------------------------- MODULE MCDeployment ----------------------------
(* Deployment with two hosts that are alike and two tokens that are alike. *)
EXTENDS Deployment, TLC

CONSTANTS v1, v2, x, s, t, default, work

Symmetry == Permutations({v1, v2}) \union Permutations({s, t})

(* No action but those of the tunnel reads the socket, and none of them    *)
(* changes another variable by what it finds there: the states that differ *)
(* only in it have the same behaviours otherwise.                          *)
WithoutSocket ==
  <<published, collectors, tag, panel, saved, legacy, run, history>>
=============================================================================
