---------------------------- MODULE MCTrafficPanel ----------------------------
(* TrafficPanel with a peer, two buttons and two rectangles, one of which  *)
(* has no length.  Dates end less than a week from now.                    *)
EXTENDS TrafficPanel, TLC

CONSTANTS s1, p1, day, week

Relative(sign, amount, unit) ==
  [form |-> "relative", sign |-> sign, amount |-> amount, unit |-> unit]

Now == [form |-> "now"]
At(t) == [form |-> "absolute", at |-> t]

MCInputs ==
  {Relative("-", 24, "h"), Relative("", 1, "w"), Now, At(600000000)}
MCAreas == {[from |-> 0, to |-> 86400000], [from |-> 5, to |-> 5]}
MCTimes == {86400000}
=============================================================================
