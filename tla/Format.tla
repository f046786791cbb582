-------------------------------- MODULE Format --------------------------------
(***************************************************************************)
(* What the browser makes of numbers and times (web/src/lib/format.ts).    *)
(* Times are in milliseconds.                                              *)
(***************************************************************************)
EXTENDS Integers

(* Math.round and toFixed for what is not negative: halves go up. *)
RoundDiv(n, d) == (2 * n + d) \div (2 * d)

-----------------------------------------------------------------------------
(* Amounts of bytes, with one decimal: a number of tenths of a unit.       *)

UnitLength == <<1, 1024, 1024 * 1024, 1024 * 1024 * 1024,
                1024 * 1024 * 1024 * 1024>>

(* The value is divided as long as it reaches 1024 and a unit is left. *)
UnitOf(bytes) ==
  CHOOSE u \in 1..5 : /\ u = 1 \/ bytes >= UnitLength[u]
                      /\ u = 5 \/ bytes < UnitLength[u + 1]

FormatBytes(bytes) ==
  LET u == UnitOf(bytes)
  IN  [tenths |-> RoundDiv(10 * bytes, UnitLength[u]), unit |-> u]

-----------------------------------------------------------------------------
(* Handshakes.  The collector sends a time long before 1970 for a peer     *)
(* that never had one.                                                     *)

GetPeerStatus(handshake, now) ==
  IF now - handshake < 60000 THEN "online" ELSE "offline"

Seconds(handshake, now) ==
  IF now <= handshake THEN 0 ELSE RoundDiv(now - handshake, 1000)

Minutes(seconds) == RoundDiv(seconds, 60)
Hours(seconds) == RoundDiv(Minutes(seconds), 60)
Days(seconds) == RoundDiv(Hours(seconds), 24)

(* Every unit is rounded from the one before it. *)
Ago(seconds) ==
  IF seconds < 60 THEN [unit |-> "s", n |-> seconds]
  ELSE IF Minutes(seconds) < 60 THEN [unit |-> "m", n |-> Minutes(seconds)]
  ELSE IF Hours(seconds) < 48 THEN [unit |-> "h", n |-> Hours(seconds)]
  ELSE [unit |-> "d", n |-> Days(seconds)]

FormatRelativeHandshake(handshake, now) ==
  IF handshake <= 0 THEN [unit |-> "never", n |-> 0]
                    ELSE Ago(Seconds(handshake, now))
=============================================================================
