----------------------- MODULE TrafficCollectorProofs -----------------------
(***************************************************************************)
(* Theorems of TrafficCollector: its types, that no traffic is counted     *)
(* twice, and that it implements TrafficLedger, for every number of        *)
(* sources and peers and every value of the bounds.                        *)
(***************************************************************************)
EXTENDS TrafficCollector, DataTheorems, TLAPS

-----------------------------------------------------------------------------
(* Facts about the arithmetic of a sample.                                 *)

(* What is added for a counter is never more than its new value. *)
LEMMA DeltaNat ==
  ASSUME NEW a \in Nat, NEW b \in Nat
  PROVE  Delta(a, b) \in Nat /\ Delta(a, b) <= b
BY DEF Delta

(* A counter that did not move adds nothing. *)
LEMMA DeltaSelf == ASSUME NEW a \in Nat PROVE Delta(a, a) = 0
BY DEF Delta

(* A counter read before anything was carried adds nothing. *)
LEMMA DeltaOfZero == ASSUME NEW a \in Nat PROVE Delta(a, 0) = 0
BY DEF Delta

(* One more unit on the counter is at most one more unit of delta. *)
LEMMA DeltaStep ==
  ASSUME NEW a \in Nat, NEW b \in Nat
  PROVE  Delta(a, b + 1) <= Delta(a, b) + 1
BY DEF Delta

(* A sample is an amount of traffic. *)
LEMMA DeltasAmount ==
  ASSUME NEW known, NEW a \in Amount, NEW b \in Amount
  PROVE  Deltas(known, a, b) \in Amount
BY DeltaNat DEF Deltas, Amount

LEMMA ZeroAmount == Zero \in Amount
BY DEF Zero, Amount

-----------------------------------------------------------------------------
(* Types.                                                                  *)

(* After a source comes another one, or the pause. *)
LEMMA NextSourceType ==
  ASSUME TypeOK, NextSource
  PROVE  cur' \in Sources /\ pc' \in {"dumping", "waiting"}
BY ConstantsAssumption DEF TypeOK, NextSource, Sources

(* What a round remembers of a peer has its type. *)
LEMMA RememberType ==
  ASSUME TypeOK, NEW p \in Peers, Remember(p)
  PROVE  /\ <<cur, p>> \in Keys
         /\ listed' \in SUBSET Peers
         /\ seen' \in SUBSET Keys
         /\ lastState' \in [Keys -> Amount]
BY DEF TypeOK, Remember, Keys

(* The row a scan picked for a logged key is a row of that key. *)
LEMMA ScanType ==
  ASSUME TypeOK, NEW latest \in Scans, NEW k \in Logged
  PROVE  /\ k \in Keys
         /\ latest[k] \in LatestRows(k)
         /\ latest[k] \in DOMAIN rows
         /\ rows[latest[k]] \in Row
         /\ rows[latest[k]].key = k
         /\ rows[latest[k]].total \in Amount
<1>1. k \in Keys /\ latest[k] \in LatestRows(k)
  BY DEF Scans, Logged
<1>2. latest[k] \in DOMAIN rows /\ rows[latest[k]].key = k
  BY <1>1 DEF LatestRows, RowsOf
<1>3. rows[latest[k]] \in Row
  BY <1>2 DEF TypeOK
<1> QED
  BY <1>1, <1>2, <1>3 DEF Row

LEMMA TypeInit == Init => TypeOK
BY ZeroAmount, ConstantsAssumption DEF Init, TypeOK, Sources

LEMMA TypeNext == TypeOK /\ [Next]_vars => TypeOK'
<1> SUFFICES ASSUME TypeOK, [Next]_vars PROVE TypeOK'
  OBVIOUS
<1> USE DEF kernelVars, dumpVars, memoryVars, dbVars, historyVars
<1>1. ASSUME NEW k \in Keys, AddPeer(k) PROVE TypeOK'
  BY <1>1 DEF TypeOK, AddPeer
<1>2. ASSUME NEW k \in Keys, RemovePeer(k) PROVE TypeOK'
  BY <1>2, ZeroAmount DEF TypeOK, RemovePeer, Fault
<1>3. ASSUME NEW k \in Keys, NEW d \in Directions, Carry(k, d) PROVE TypeOK'
  <2>1. [counter[k] EXCEPT ![d] = @ + 1] \in Amount
    BY DEF TypeOK, Amount
  <2>2. [carried[k] EXCEPT ![d] = @ + 1] \in Amount
    BY DEF TypeOK, Amount
  <2> QED
    BY <1>3, <2>1, <2>2 DEF TypeOK, Carry
<1>4. ASSUME NEW s \in Sources, RestartSource(s) PROVE TypeOK'
  BY <1>4, ZeroAmount DEF TypeOK, RestartSource, Fault
<1>5. ASSUME NEW t \in 0..now, ClockStepsBack(t) PROVE TypeOK'
  BY <1>5 DEF TypeOK, ClockStepsBack
<1>6. ASSUME NEW latest \in Scans, NEW lost \in SUBSET Logged,
             StartProcess(latest, lost)
      PROVE  TypeOK'
  <2>1. seen' \in SUBSET Keys /\ misled' \in SUBSET Keys /\ gap' \in SUBSET Keys
    BY <1>6 DEF TypeOK, StartProcess, Logged
  <2>2. lastState' \in [Keys -> Amount]
    <3>1. seen' \subseteq Logged
      BY <1>6 DEF StartProcess
    <3> QED
      BY <1>6, <3>1, ScanType, ZeroAmount DEF StartProcess
  <2>3. faults' \in Nat /\ cur' \in Sources
    BY <1>6, ConstantsAssumption DEF TypeOK, StartProcess, Fault, Sources
  <2> QED
    BY <1>6, <2>1, <2>2, <2>3 DEF TypeOK, StartProcess
<1>7. CASE Tick
  BY <1>7, ConstantsAssumption DEF TypeOK, Tick, Sources
<1>8. CASE DumpOk
  <2>1. dump' \in [Peers -> Amount]
    BY <1>8, ZeroAmount DEF TypeOK, DumpOk, ParseDump, Keys
  <2> QED
    BY <1>8, <2>1 DEF TypeOK, DumpOk, ParseDump
<1>9. CASE DumpFails
  BY <1>9, NextSourceType DEF TypeOK, DumpFails
<1>10. ASSUME NEW p \in Peers, RecordSample(p) PROVE TypeOK'
  <2> DEFINE k == <<cur, p>>
             delta == Deltas(k \in seen, lastState[k], dump[p])
             row == [key |-> k, total |-> dump[p], delta |-> delta, at |-> now]
  <2>1. /\ k \in Keys
        /\ listed' \in SUBSET Peers
        /\ seen' \in SUBSET Keys
        /\ lastState' \in [Keys -> Amount]
    BY <1>10, RememberType DEF RecordSample
  <2>2. delta \in Amount
    <3>1. lastState[k] \in Amount /\ dump[p] \in Amount
      BY <2>1 DEF TypeOK
    <3> QED
      BY <3>1, DeltasAmount
  <2>3. row \in Row
    BY <2>1, <2>2 DEF TypeOK, Row
  <2>4. rows' \in Seq(Row)
    <3>1. rows' = Append(rows, row)
      BY <1>10 DEF RecordSample
    <3> HIDE DEF row
    <3> QED
      BY <2>3, <3>1 DEF TypeOK
  <2> QED
    BY <1>10, <2>1, <2>4 DEF TypeOK, RecordSample
<1>11. ASSUME NEW p \in Peers, RecordFails(p) PROVE TypeOK'
  <2>1. /\ <<cur, p>> \in Keys
        /\ listed' \in SUBSET Peers
        /\ seen' \in SUBSET Keys
        /\ lastState' \in [Keys -> Amount]
    BY <1>11, RememberType DEF RecordFails
  <2>2. gap' \in SUBSET Keys
    BY <1>11, <2>1 DEF TypeOK, RecordFails
  <2>3. faults' \in Nat
    BY <1>11 DEF TypeOK, RecordFails, Fault
  <2> QED
    BY <1>11, <2>1, <2>2, <2>3 DEF TypeOK, RecordFails
<1>12. CASE EndSource
  BY <1>12, NextSourceType DEF TypeOK, EndSource
<1>13. CASE Crash
  BY <1>13, ZeroAmount, ConstantsAssumption DEF TypeOK, Crash, Fault, Sources
<1>14. CASE UNCHANGED vars
  BY <1>14 DEF TypeOK, vars
<1> QED
  BY <1>1, <1>2, <1>3, <1>4, <1>5, <1>6, <1>7, <1>8, <1>9, <1>10, <1>11,
     <1>12, <1>13, <1>14 DEF Next, Environment, Start, Collect

(* TYPE CORRECTNESS.  Every reachable state of the collector is well       *)
(* typed, whatever the environment and the faults do (traffic.go:12-22).   *)
THEOREM TypeCorrect == Spec => []TypeOK
BY TypeInit, TypeNext, PTL DEF Spec

-----------------------------------------------------------------------------
(* What the stored rows of a peer add up to.                               *)

(* The rows of a key are finitely many, and their deltas are numbers. *)
LEMMA RowsAreTyped ==
  ASSUME TypeOK, NEW k \in Keys, NEW d \in Directions
  PROVE  /\ RowsOf(k) \subseteq 1..Len(rows) /\ IsFiniteSet(RowsOf(k))
         /\ [i \in RowsOf(k) |-> rows[i].delta[d]] \in [RowsOf(k) -> Nat]
<1>1. rows \in Seq(Row) /\ Len(rows) \in Nat /\ DOMAIN rows = 1..Len(rows)
  BY DEF TypeOK
<1>2. RowsOf(k) \subseteq 1..Len(rows)
  BY <1>1 DEF RowsOf
<1>3. IsFiniteSet(1..Len(rows))
  BY <1>1, FS_Interval
<1>4. IsFiniteSet(RowsOf(k))
  BY <1>2, <1>3, FS_Subset
<1>5. \A i \in RowsOf(k) : rows[i].delta[d] \in Nat
  <2>1. \A i \in RowsOf(k) : rows[i] \in Row
    BY <1>1, <1>2
  <2> QED BY <2>1 DEF Row, Amount
<1> QED BY <1>2, <1>4, <1>5

(* The rows of a peer add up to an amount. *)
LEMMA RecordedType == ASSUME TypeOK PROVE recorded \in [Keys -> Amount]
<1>1. ASSUME NEW k \in Keys, NEW d \in Directions
      PROVE  SumFunction([i \in RowsOf(k) |-> rows[i].delta[d]]) \in Nat
  <2> DEFINE column == [i \in RowsOf(k) |-> rows[i].delta[d]]
  <2>1. IsFiniteSet(RowsOf(k)) /\ column \in [RowsOf(k) -> Nat]
    BY RowsAreTyped
  <2> HIDE DEF column
  <2>2. SumFunction(column) \in Nat
    BY <2>1, TotalIsNat
  <2> QED BY <2>2 DEF column
<1> QED BY <1>1 DEF recorded, Amount

(* Before the first row nothing is recorded. *)
LEMMA RecordedInit == ASSUME Init PROVE recorded = [k \in Keys |-> Zero]
<1>1. ASSUME NEW k \in Keys, NEW d \in Directions
      PROVE  SumFunction([i \in RowsOf(k) |-> rows[i].delta[d]]) = 0
  <2> DEFINE column == [i \in RowsOf(k) |-> rows[i].delta[d]]
  <2>1. DOMAIN column = {}
    BY DEF Init, RowsOf
  <2> HIDE DEF column
  <2>2. SumFunction(column) = 0
    BY <2>1, TotalOfNone
  <2> QED BY <2>2 DEF column
<1> QED BY <1>1 DEF recorded, Zero

(* Nothing but an INSERT changes what the rows add up to. *)
LEMMA RecordedSame == ASSUME UNCHANGED rows PROVE UNCHANGED recorded
BY DEF recorded, RowsOf

(* An INSERT adds its deltas to its own peer, and to no other. *)
LEMMA RecordedAppend ==
  ASSUME TypeOK, NEW row \in Row, rows' = Append(rows, row),
         NEW k \in Keys, NEW d \in Directions
  PROVE  recorded'[k][d] = IF k = row.key THEN recorded[k][d] + row.delta[d]
                                          ELSE recorded[k][d]
<1> DEFINE n == Len(rows)
           before == [i \in RowsOf(k) |-> rows[i].delta[d]]
           after == [i \in RowsOf(k)' |-> rows'[i].delta[d]]
<1>1. rows \in Seq(Row) /\ n \in Nat
  BY DEF TypeOK
<1>2. /\ DOMAIN rows = 1..n /\ DOMAIN rows' = 1..(n + 1)
      /\ \A i \in 1..n : rows'[i] = rows[i]
      /\ rows'[n + 1] = row
  BY <1>1
<1>3. recorded[k][d] = SumFunction(before) /\ recorded'[k][d] = SumFunction(after)
  BY DEF recorded
<1>4. /\ RowsOf(k) \subseteq 1..n
      /\ RowsOf(k)' = IF k = row.key THEN RowsOf(k) \union {n + 1} ELSE RowsOf(k)
  BY <1>1, <1>2 DEF RowsOf
<1>5. IsFiniteSet(RowsOf(k)) /\ before \in [RowsOf(k) -> Nat]
  BY RowsAreTyped
<1>6. \A i \in RowsOf(k) : after[i] = before[i]
  BY <1>2, <1>4
<1>7. row.delta[d] \in Nat
  BY DEF Row, Amount
<1>8. CASE k = row.key
  <2>1. after[n + 1] = row.delta[d] /\ n + 1 \notin RowsOf(k)
    BY <1>1, <1>2, <1>4, <1>8
  <2>2. after \in [RowsOf(k) \union {n + 1} -> Nat]
    BY <1>4, <1>5, <1>6, <1>7, <1>8, <2>1
  <2> DEFINE S == RowsOf(k)
             x == n + 1
  <2> HIDE DEF after, before
  <2>3. SumFunction(after) = after[x] + SumFunction(before)
    <3>1. /\ IsFiniteSet(S) /\ x \notin S
          /\ before \in [S -> Nat] /\ after \in [S \union {x} -> Nat]
          /\ \A i \in S : after[i] = before[i]
      BY <1>5, <1>6, <2>1, <2>2
    <3> HIDE DEF S, x
    <3> QED BY ONLY <3>1, TotalWith
  <2>4. SumFunction(before) \in Nat
    BY <1>5, TotalIsNat
  <2> QED BY <1>3, <1>7, <1>8, <2>1, <2>3, <2>4
<1>9. CASE k # row.key
  <2>1. after = before
    BY <1>4, <1>6, <1>9
  <2> QED BY <1>3, <1>9, <2>1
<1> QED BY <1>8, <1>9

(* A sample moves its deltas to what is recorded of its own peer. *)
LEMMA RecordedSample ==
  ASSUME TypeOK, NEW p \in Peers, RecordSample(p)
  PROVE  LET k == <<cur, p>>
             delta == Deltas(k \in seen, lastState[k], dump[p])
         IN recorded' =
              [recorded EXCEPT ![k] = [d \in Directions |-> @[d] + delta[d]]]
<1> DEFINE k0 == <<cur, p>>
           delta == Deltas(k0 \in seen, lastState[k0], dump[p])
           row == [key |-> k0, total |-> dump[p], delta |-> delta, at |-> now]
<1>1. k0 \in Keys
  BY RememberType DEF RecordSample
<1>2. lastState[k0] \in Amount /\ dump[p] \in Amount /\ now \in Nat
  BY <1>1 DEF TypeOK
<1>3. delta \in Amount
  BY <1>2, DeltasAmount
<1>4. row \in Row /\ row.key = k0 /\ row.delta = delta
  BY <1>1, <1>2, <1>3 DEF Row
<1>5. rows' = Append(rows, row)
  BY DEF RecordSample
<1> HIDE DEF row, delta
<1>6. \A k \in Keys, d \in Directions :
        recorded'[k][d] = IF k = row.key THEN recorded[k][d] + row.delta[d]
                                         ELSE recorded[k][d]
  BY <1>4, <1>5, RecordedAppend
<1>7. /\ recorded \in [Keys -> Amount]
      /\ recorded' = [k \in Keys |-> [d \in Directions |-> recorded'[k][d]]]
  BY RecordedType DEF recorded
<1>8. \A k \in Keys :
        recorded'[k] = IF k = k0 THEN [d \in Directions |-> recorded[k0][d] + delta[d]]
                                 ELSE recorded[k]
  <2> SUFFICES ASSUME NEW k \in Keys
               PROVE  recorded'[k] = IF k = k0
                                     THEN [d \in Directions |-> recorded[k0][d] + delta[d]]
                                     ELSE recorded[k]
    OBVIOUS
  <2>1. recorded'[k] = [d \in Directions |-> recorded'[k][d]]
    BY <1>7
  <2>2. recorded[k] = [d \in Directions |-> recorded[k][d]]
    BY <1>7 DEF Amount
  <2> HIDE DEF k0
  <2>3. CASE k = k0
    BY <1>4, <1>6, <2>1, <2>3
  <2>4. CASE k # k0
    BY <1>4, <1>6, <2>1, <2>2, <2>4
  <2> QED BY <2>3, <2>4
<1>9. recorded' = [recorded EXCEPT ![k0] = [d \in Directions |-> @[d] + delta[d]]]
  <2> HIDE DEF k0
  <2> QED BY <1>1, <1>7, <1>8
<1> QED BY <1>9 DEF delta

-----------------------------------------------------------------------------
(* No traffic is counted twice.                                            *)

(* The steps that touch neither a counter nor a delta nor lastState.       *)
LEMMA SafeFrame ==
  ASSUME SafeDeltas,
         UNCHANGED <<counter, carried, rows, misled, seen, lastState>>,
         pc' = "recording" => UNCHANGED <<pc, cur, listed, dump>>
  PROVE  SafeDeltas'
<1> SUFFICES ASSUME NEW k \in Keys \ misled, NEW d \in Directions
             PROVE  SafeBases(k, d)' /\ SafeDump(k, d)'
  BY DEF SafeDeltas
<1>1. SafeBases(k, d) /\ SafeDump(k, d)
  BY DEF SafeDeltas
<1>2. recorded' = recorded
  BY RecordedSame
<1>3. SafeBases(k, d)'
  BY <1>1, <1>2 DEF SafeBases, RowsOf, IsLast
<1>4. SafeDump(k, d)'
  BY <1>1, <1>2 DEF SafeDump
<1> QED
  BY <1>3, <1>4

(* Where a state stands for key k: the numbers of one direction. *)
LEMMA Numbers ==
  ASSUME TypeOK, NEW k \in Keys, NEW d \in Directions
  PROVE  /\ counter[k][d] \in Nat
         /\ carried[k][d] \in Nat
         /\ recorded[k][d] \in Nat
         /\ lastState[k][d] \in Nat
         /\ \A p \in Peers : dump[p][d] \in Nat
         /\ \A i \in DOMAIN rows : rows[i].total[d] \in Nat
<1>1. \A i \in DOMAIN rows : rows[i] \in Row
  BY DEF TypeOK
<1>2. recorded \in [Keys -> Amount]
  BY RecordedType
<1> QED
  BY <1>1, <1>2 DEF TypeOK, Amount, Row

(* A reset only shrinks what may still be counted. *)
LEMMA SafeReset ==
  ASSUME TypeOK, SafeDeltas,
         \A k \in Keys, d \in Directions : counter'[k][d] \in {0, counter[k][d]},
         UNCHANGED <<carried, pc, dumpVars, memoryVars, dbVars, misled>>
  PROVE  SafeDeltas'
<1> USE DEF dumpVars, memoryVars, dbVars
<1> SUFFICES ASSUME NEW k \in Keys \ misled, NEW d \in Directions
             PROVE  SafeBases(k, d)' /\ SafeDump(k, d)'
  BY DEF SafeDeltas
<1>1. SafeBases(k, d) /\ SafeDump(k, d)
  BY DEF SafeDeltas
<1>2. ASSUME NEW b \in Nat
      PROVE  /\ Delta(b, counter'[k][d]) \in Nat
             /\ Delta(b, counter'[k][d]) <= Delta(b, counter[k][d])
  <2>1. counter[k][d] \in Nat
    BY Numbers
  <2>2. Delta(b, counter[k][d]) \in Nat
    BY <2>1, DeltaNat
  <2>3. CASE counter'[k][d] = 0
    <3>1. Delta(b, counter'[k][d]) = 0
      BY <2>3, DeltaOfZero
    <3> QED
      BY <2>2, <3>1
  <2>4. CASE counter'[k][d] = counter[k][d]
    BY <2>2, <2>4
  <2> QED
    BY <2>3, <2>4
<1>0. recorded' = recorded
  BY RecordedSame
<1>3. SafeBases(k, d)'
  <2>1. \A i \in RowsOf(k) : rows[i].total[d] \in Nat
    BY Numbers DEF RowsOf
  <2>2. \A b \in Nat : Delta(b, counter[k][d]) \in Nat
    BY Numbers, DeltaNat
  <2>3. /\ recorded[k][d] \in Nat /\ carried[k][d] \in Nat
        /\ lastState[k][d] \in Nat
    BY Numbers
  <2>4. RowsOf(k)' = RowsOf(k) /\ \A i : IsLast(i, k)' <=> IsLast(i, k)
    BY DEF RowsOf, IsLast
  <2> QED
    BY <1>0, <1>1, <1>2, <2>1, <2>2, <2>3, <2>4 DEF SafeBases
<1>4. SafeDump(k, d)'
  <2> SUFFICES ASSUME pc = "recording", NEW p \in listed, k = <<cur, p>>
               PROVE  LET rest == Delta(dump[p][d], counter'[k][d])
                      IN /\ recorded[k][d] + rest <= carried[k][d]
                         /\ k \in seen =>
                              recorded[k][d] + Delta(lastState[k][d], dump[p][d]) + rest
                                <= carried[k][d]
    BY <1>0 DEF SafeDump
  <2>1. /\ recorded[k][d] \in Nat /\ carried[k][d] \in Nat
        /\ dump[p][d] \in Nat /\ Delta(lastState[k][d], dump[p][d]) \in Nat
        /\ Delta(dump[p][d], counter[k][d]) \in Nat
    BY Numbers, DeltaNat DEF TypeOK
  <2> QED
    BY <1>1, <1>2, <2>1 DEF SafeDump
<1> QED
  BY <1>3, <1>4

(* A unit carried raises both sides by at most one. *)
LEMMA SafeCarry ==
  ASSUME TypeOK, SafeDeltas, NEW k0 \in Keys, NEW d0 \in Directions, Carry(k0, d0)
  PROVE  SafeDeltas'
<1> USE DEF dumpVars, memoryVars, dbVars, historyVars
<1> SUFFICES ASSUME NEW k \in Keys \ misled, NEW d \in Directions
             PROVE  SafeBases(k, d)' /\ SafeDump(k, d)'
  BY DEF SafeDeltas, Carry
<1>1. SafeBases(k, d) /\ SafeDump(k, d)
  BY DEF SafeDeltas
<1>2. UNCHANGED <<pc, cur, listed, dump, seen, lastState, rows, recorded>>
  BY RecordedSame DEF Carry
<1>3. \/ /\ counter'[k][d] = counter[k][d] + 1
         /\ carried'[k][d] = carried[k][d] + 1
      \/ /\ counter'[k][d] = counter[k][d]
         /\ carried'[k][d] = carried[k][d]
  <2>1. CASE k = k0 /\ d = d0
    BY <2>1 DEF Carry, TypeOK, Amount
  <2>2. CASE ~(k = k0 /\ d = d0)
    BY <2>2 DEF Carry, TypeOK, Amount
  <2> QED
    BY <2>1, <2>2
<1>4. ASSUME NEW b \in Nat, NEW x \in Nat,
             x + Delta(b, counter[k][d]) <= carried[k][d]
      PROVE  x + Delta(b, counter'[k][d]) <= carried'[k][d]
  <2>1. /\ counter[k][d] \in Nat /\ counter[k][d] + 1 \in Nat
        /\ carried[k][d] \in Nat
    BY Numbers
  <2>2. Delta(b, counter[k][d] + 1) <= Delta(b, counter[k][d]) + 1
    BY <2>1, DeltaStep
  <2>3. Delta(b, counter[k][d]) \in Nat /\ Delta(b, counter[k][d] + 1) \in Nat
    BY <2>1, DeltaNat
  <2>4. CASE counter'[k][d] = counter[k][d] /\ carried'[k][d] = carried[k][d]
    BY <1>4, <2>4
  <2>5. CASE /\ counter'[k][d] = counter[k][d] + 1
             /\ carried'[k][d] = carried[k][d] + 1
    <3>1. x + Delta(b, counter[k][d] + 1) <= carried[k][d] + 1
      BY <1>4, <2>1, <2>2, <2>3
    <3> QED
      BY <2>5, <3>1
  <2> QED
    BY <1>3, <2>4, <2>5
<1>5. SafeBases(k, d)'
  <2>1. \A i \in RowsOf(k) : rows[i].total[d] \in Nat
    BY Numbers DEF RowsOf
  <2>2. /\ recorded[k][d] \in Nat /\ carried[k][d] \in Nat
        /\ lastState[k][d] \in Nat
    BY Numbers
  <2>3. RowsOf(k)' = RowsOf(k) /\ \A i : IsLast(i, k)' <=> IsLast(i, k)
    BY <1>2 DEF RowsOf, IsLast
  <2> QED
    BY <1>1, <1>2, <1>3, <1>4, <2>1, <2>2, <2>3 DEF SafeBases
<1>6. SafeDump(k, d)'
  <2> SUFFICES ASSUME pc = "recording", NEW p \in listed, k = <<cur, p>>
               PROVE  LET rest == Delta(dump[p][d], counter'[k][d])
                      IN /\ recorded[k][d] + rest <= carried'[k][d]
                         /\ k \in seen =>
                              recorded[k][d] + Delta(lastState[k][d], dump[p][d]) + rest
                                <= carried'[k][d]
    BY <1>2 DEF SafeDump
  <2>1. /\ recorded[k][d] \in Nat /\ dump[p][d] \in Nat
        /\ Delta(lastState[k][d], dump[p][d]) \in Nat
    BY Numbers, DeltaNat DEF TypeOK
  <2>2. recorded[k][d] + Delta(lastState[k][d], dump[p][d]) \in Nat
    BY <2>1
  <2> QED
    BY <1>1, <1>4, <2>1, <2>2 DEF SafeDump
<1> QED
  BY <1>5, <1>6

(* A start takes up the last row of every peer it is not misled about. *)
LEMMA SafeStart ==
  ASSUME TypeOK, SafeDeltas, NEW latest \in Scans, NEW lost \in SUBSET Logged,
         StartProcess(latest, lost)
  PROVE  SafeDeltas'
<1> USE DEF kernelVars, dbVars
<1> SUFFICES ASSUME NEW k \in Keys \ misled', NEW d \in Directions
             PROVE  SafeBases(k, d)' /\ SafeDump(k, d)'
  BY DEF SafeDeltas
<1>1. k \in Keys \ misled
  BY DEF StartProcess
<1>2. SafeBases(k, d)
  BY <1>1 DEF SafeDeltas
<1>3. UNCHANGED <<rows, recorded, carried, counter>>
  BY RecordedSame DEF StartProcess
<1>4. k \in seen' => IsLast(latest[k], k) /\ lastState'[k] = rows[latest[k]].total
  BY DEF StartProcess
<1>5. SafeBases(k, d)'
  <2>1. RowsOf(k)' = RowsOf(k) /\ \A i : IsLast(i, k)' <=> IsLast(i, k)
    BY <1>3 DEF RowsOf, IsLast
  <2>2. k \in seen' =>
          recorded[k][d] + Delta(lastState'[k][d], counter[k][d]) <= carried[k][d]
    BY <1>2, <1>4 DEF SafeBases, IsLast
  <2> QED
    BY <1>2, <1>3, <2>1, <2>2 DEF SafeBases
<1>6. SafeDump(k, d)'
  BY DEF SafeDump, StartProcess
<1> QED
  BY <1>5, <1>6

(* A fresh dump equals the counters, so it adds nothing to any base. *)
LEMMA SafeDumpOk ==
  ASSUME TypeOK, SafeDeltas, DumpOk
  PROVE  SafeDeltas'
<1> USE DEF kernelVars, memoryVars, dbVars, historyVars
<1> SUFFICES ASSUME NEW k \in Keys \ misled, NEW d \in Directions
             PROVE  SafeBases(k, d)' /\ SafeDump(k, d)'
  BY DEF SafeDeltas, DumpOk
<1>1. SafeBases(k, d)
  BY DEF SafeDeltas
<1>2. UNCHANGED <<cur, rows, recorded, carried, counter, seen, lastState>>
  BY RecordedSame DEF DumpOk
<1>3. SafeBases(k, d)'
  BY <1>1, <1>2 DEF SafeBases, RowsOf, IsLast
<1>4. SafeDump(k, d)'
  <2> SUFFICES ASSUME NEW p \in listed', k = <<cur, p>>
               PROVE  LET rest == Delta(dump'[p][d], counter[k][d])
                      IN /\ recorded[k][d] + rest <= carried[k][d]
                         /\ k \in seen =>
                              recorded[k][d] + Delta(lastState[k][d], dump'[p][d]) + rest
                                <= carried[k][d]
    BY <1>2 DEF SafeDump
  <2>1. dump'[p] = counter[k] /\ p \in Peers
    BY DEF DumpOk, ParseDump
  <2>2. counter[k][d] \in Nat /\ recorded[k][d] \in Nat /\ lastState[k][d] \in Nat
    BY Numbers
  <2>3. Delta(dump'[p][d], counter[k][d]) = 0
    BY <2>1, <2>2, DeltaSelf
  <2>4. Delta(lastState[k][d], counter[k][d]) \in Nat
    BY <2>2, DeltaNat
  <2>5. /\ recorded[k][d] <= carried[k][d]
        /\ k \in seen =>
             recorded[k][d] + Delta(lastState[k][d], counter[k][d]) <= carried[k][d]
    BY <1>1 DEF SafeBases
  <2> QED
    BY <2>1, <2>2, <2>3, <2>4, <2>5
<1> QED
  BY <1>3, <1>4

(* Appending a row for k0 makes it the last row of k0 and of nothing else. *)
LEMMA LastOfAppend ==
  ASSUME TypeOK, NEW row, rows' = Append(rows, row), NEW k, NEW i
  PROVE  /\ row.key = k => (IsLast(i, k)' => i = Len(rows) + 1)
         /\ row.key # k => (IsLast(i, k)' => IsLast(i, k) /\ rows'[i] = rows[i])
         /\ rows'[Len(rows) + 1] = row
<1>1. /\ Len(rows) \in Nat
      /\ DOMAIN rows = 1..Len(rows)
      /\ DOMAIN rows' = 1..(Len(rows) + 1)
      /\ \A j \in 1..Len(rows) : rows'[j] = rows[j]
      /\ rows'[Len(rows) + 1] = row
  BY DEF TypeOK
<1>2. ASSUME row.key = k, IsLast(i, k)' PROVE i = Len(rows) + 1
  <2>1. Len(rows) + 1 \in RowsOf(k)'
    BY <1>1, <1>2 DEF RowsOf
  <2>2. i \in DOMAIN rows' /\ Len(rows) + 1 <= i
    BY <1>2, <2>1 DEF IsLast, RowsOf
  <2> QED
    BY <1>1, <2>2
<1>3. ASSUME row.key # k, IsLast(i, k)' PROVE IsLast(i, k) /\ rows'[i] = rows[i]
  <2>1. i \in DOMAIN rows' /\ rows'[i].key = k
    BY <1>3 DEF IsLast, RowsOf
  <2>2. i \in 1..Len(rows)
    BY <1>1, <1>3, <2>1
  <2>3. RowsOf(k) \subseteq RowsOf(k)'
    BY <1>1 DEF RowsOf
  <2>4. \A j \in RowsOf(k)' : j <= i
    BY <1>3 DEF IsLast
  <2> QED
    BY <1>1, <2>1, <2>2, <2>3, <2>4 DEF IsLast, RowsOf
<1> QED
  BY <1>1, <1>2, <1>3

(* What Remember does to the peer it handles and to all others. *)
LEMMA RememberEffect ==
  ASSUME TypeOK, NEW p \in Peers, Remember(p), NEW k \in Keys
  PROVE  /\ k = <<cur, p>> => lastState'[k] = dump[p] /\ k \in seen'
         /\ k # <<cur, p>> => lastState'[k] = lastState[k] /\ (k \in seen' <=> k \in seen)
         /\ \A q \in listed' : q \in listed /\ q # p
         /\ pc = "recording" /\ p \in listed
BY DEF TypeOK, Remember

(* Recording a sample spends exactly the room SafeDump kept for it. *)
LEMMA SafeRecordSample ==
  ASSUME TypeOK, SafeDeltas, NEW p0 \in Peers, RecordSample(p0)
  PROVE  SafeDeltas'
<1> USE DEF kernelVars, historyVars
<1> DEFINE k0 == <<cur, p0>>
           delta == Deltas(k0 \in seen, lastState[k0], dump[p0])
           row == [key |-> k0, total |-> dump[p0], delta |-> delta, at |-> now]
<1> SUFFICES ASSUME NEW k \in Keys \ misled, NEW d \in Directions
             PROVE  SafeBases(k, d)' /\ SafeDump(k, d)'
  BY DEF SafeDeltas, RecordSample
<1>1. SafeBases(k, d) /\ SafeDump(k, d)
  BY DEF SafeDeltas
<1>2. /\ UNCHANGED <<carried, counter, cur, pc, dump>>
      /\ Remember(p0)
      /\ rows' = Append(rows, row)
      /\ row.key = k0 /\ row.total = dump[p0]
  BY DEF RecordSample
<1>3. /\ k = k0 => \A i : IsLast(i, k)' => rows'[i].total = dump[p0]
      /\ k # k0 => \A i : IsLast(i, k)' => IsLast(i, k) /\ rows'[i] = rows[i]
  <2> HIDE DEF row, k0
  <2> QED
    BY <1>2, LastOfAppend
<1>4. /\ recorded'[k][d] = IF k = k0 THEN recorded[k][d] + delta[d] ELSE recorded[k][d]
      /\ delta[d] = IF k0 \in seen THEN Delta(lastState[k0][d], dump[p0][d]) ELSE 0
  <2>1. recorded' = [recorded EXCEPT ![k0] = [e \in Directions |-> @[e] + delta[e]]]
    BY RecordedSample
  <2>2. recorded \in [Keys -> Amount]
    BY RecordedType
  <2>3. recorded'[k][d] = IF k = k0 THEN recorded[k][d] + delta[d] ELSE recorded[k][d]
    <3> HIDE DEF k0, delta
    <3> QED BY <2>1, <2>2 DEF Amount
  <2> QED BY <2>3 DEF Deltas
<1>5. /\ recorded[k][d] \in Nat /\ carried[k][d] \in Nat
      /\ Delta(dump[p0][d], counter[k][d]) \in Nat
  BY Numbers, DeltaNat
<1>6. CASE k = k0
  <2>1. p0 \in listed /\ pc = "recording" /\ lastState'[k] = dump[p0]
    BY <1>2, <1>6, RememberEffect
  <2>2. recorded'[k][d] + Delta(dump[p0][d], counter[k][d]) <= carried[k][d]
    <3>1. CASE k \in seen
      BY <1>1, <1>4, <1>6, <2>1, <3>1 DEF SafeDump
    <3>2. CASE k \notin seen
      BY <1>1, <1>4, <1>5, <1>6, <2>1, <3>2 DEF SafeDump
    <3> QED
      BY <3>1, <3>2
  <2>3. recorded'[k][d] \in Nat
    <3>1. lastState[k][d] \in Nat /\ dump[p0][d] \in Nat
      BY Numbers
    <3>2. Delta(lastState[k][d], dump[p0][d]) \in Nat
      BY <3>1, DeltaNat
    <3> QED
      BY <1>4, <1>5, <1>6, <3>2
  <2>4. recorded'[k][d] <= carried[k][d]
    BY <1>5, <2>2, <2>3
  <2>5. SafeBases(k, d)'
    BY <1>2, <1>3, <1>6, <2>1, <2>2, <2>4 DEF SafeBases, IsLast
  <2>6. \A q \in listed' : k # <<cur, q>>
    BY <1>2, <1>6, RememberEffect
  <2>7. SafeDump(k, d)'
    BY <1>2, <2>6 DEF SafeDump
  <2> QED
    BY <2>5, <2>7
<1>7. CASE k # k0
  <2>1. /\ lastState'[k] = lastState[k] /\ (k \in seen' <=> k \in seen)
        /\ \A q \in listed' : q \in listed
    BY <1>2, <1>7, RememberEffect
  <2>2. recorded'[k][d] = recorded[k][d]
    BY <1>4, <1>7
  <2>3. SafeBases(k, d)'
    BY <1>1, <1>2, <1>3, <1>7, <2>1, <2>2 DEF SafeBases, IsLast
  <2>4. SafeDump(k, d)'
    BY <1>1, <1>2, <2>1, <2>2 DEF SafeDump
  <2> QED
    BY <2>3, <2>4
<1> QED
  BY <1>6, <1>7

(* A failed insert moves lastState on without spending that room. *)
LEMMA SafeRecordFails ==
  ASSUME TypeOK, SafeDeltas, NEW p0 \in Peers, RecordFails(p0)
  PROVE  SafeDeltas'
<1> USE DEF kernelVars, dbVars
<1> DEFINE k0 == <<cur, p0>>
<1> SUFFICES ASSUME NEW k \in Keys \ misled, NEW d \in Directions
             PROVE  SafeBases(k, d)' /\ SafeDump(k, d)'
  BY DEF SafeDeltas, RecordFails
<1>1. SafeBases(k, d) /\ SafeDump(k, d)
  BY DEF SafeDeltas
<1>2. /\ UNCHANGED <<carried, counter, recorded, rows, cur, pc, dump>>
      /\ Remember(p0)
  BY RecordedSame DEF RecordFails
<1>3. RowsOf(k)' = RowsOf(k) /\ \A i : IsLast(i, k)' <=> IsLast(i, k)
  BY <1>2 DEF RowsOf, IsLast
<1>4. /\ k = k0 => /\ lastState'[k] = dump[p0]
                   /\ pc = "recording" /\ p0 \in listed
                   /\ \A q \in listed' : k # <<cur, q>>
      /\ k # k0 => lastState'[k] = lastState[k] /\ (k \in seen' <=> k \in seen)
      /\ \A q \in listed' : q \in listed
  BY <1>2, RememberEffect
<1>5. SafeBases(k, d)'
  <2>1. CASE k = k0
    <3>1. recorded[k][d] + Delta(dump[p0][d], counter[k][d]) <= carried[k][d]
      BY <1>1, <1>4, <2>1 DEF SafeDump
    <3> QED
      BY <1>1, <1>2, <1>3, <1>4, <2>1, <3>1 DEF SafeBases
  <2>2. CASE k # k0
    BY <1>1, <1>2, <1>3, <1>4, <2>2 DEF SafeBases
  <2> QED
    BY <2>1, <2>2
<1>6. SafeDump(k, d)'
  BY <1>1, <1>2, <1>4 DEF SafeDump
<1> QED
  BY <1>5, <1>6

LEMMA SafeInit == Init => SafeDeltas
<1> SUFFICES ASSUME Init, NEW k \in Keys, NEW d \in Directions
             PROVE  SafeBases(k, d) /\ SafeDump(k, d)
  BY DEF SafeDeltas
<1>1. recorded[k][d] = 0
  BY RecordedInit DEF Zero
<1> QED
  BY <1>1 DEF Init, SafeBases, SafeDump, RowsOf, Zero

LEMMA SafeNext == TypeOK /\ SafeDeltas /\ [Next]_vars => SafeDeltas'
<1> SUFFICES ASSUME TypeOK, SafeDeltas, [Next]_vars PROVE SafeDeltas'
  OBVIOUS
<1> USE DEF kernelVars, dumpVars, memoryVars, dbVars, historyVars
<1>1. ASSUME NEW k \in Keys, AddPeer(k) PROVE SafeDeltas'
  BY <1>1, SafeFrame DEF AddPeer
<1>2. ASSUME NEW k0 \in Keys, RemovePeer(k0) PROVE SafeDeltas'
  <2>1. \A k \in Keys, d \in Directions : counter'[k][d] \in {0, counter[k][d]}
    BY <1>2 DEF TypeOK, RemovePeer, Zero
  <2> QED
    BY <1>2, <2>1, SafeReset DEF RemovePeer
<1>3. ASSUME NEW k \in Keys, NEW d \in Directions, Carry(k, d) PROVE SafeDeltas'
  BY <1>3, SafeCarry
<1>4. ASSUME NEW s \in Sources, RestartSource(s) PROVE SafeDeltas'
  <2>1. \A k \in Keys, d \in Directions : counter'[k][d] \in {0, counter[k][d]}
    BY <1>4 DEF TypeOK, RestartSource, Zero
  <2> QED
    BY <1>4, <2>1, SafeReset DEF RestartSource
<1>5. ASSUME NEW t \in 0..now, ClockStepsBack(t) PROVE SafeDeltas'
  BY <1>5, SafeFrame DEF ClockStepsBack
<1>6. ASSUME NEW latest \in Scans, NEW lost \in SUBSET Logged,
             StartProcess(latest, lost)
      PROVE  SafeDeltas'
  BY <1>6, SafeStart
<1>7. CASE Tick
  BY <1>7, SafeFrame DEF Tick
<1>8. CASE DumpOk
  BY <1>8, SafeDumpOk
<1>9. CASE DumpFails
  BY <1>9, SafeFrame DEF DumpFails, NextSource
<1>10. ASSUME NEW p \in Peers, RecordSample(p) PROVE SafeDeltas'
  BY <1>10, SafeRecordSample
<1>11. ASSUME NEW p \in Peers, RecordFails(p) PROVE SafeDeltas'
  BY <1>11, SafeRecordFails
<1>12. CASE EndSource
  BY <1>12, SafeFrame DEF EndSource, NextSource
<1>13. CASE Crash
  <2> SUFFICES ASSUME NEW k \in Keys \ misled, NEW d \in Directions
               PROVE  SafeBases(k, d)' /\ SafeDump(k, d)'
    BY <1>13 DEF SafeDeltas, Crash
  <2>1. SafeBases(k, d) /\ recorded' = recorded
    BY <1>13, RecordedSame DEF SafeDeltas, Crash
  <2> QED
    BY <1>13, <2>1 DEF Crash, SafeBases, SafeDump, RowsOf, IsLast
<1>14. CASE UNCHANGED vars
  BY <1>14, SafeFrame DEF vars
<1> QED
  BY <1>1, <1>2, <1>3, <1>4, <1>5, <1>6, <1>7, <1>8, <1>9, <1>10, <1>11,
     <1>12, <1>13, <1>14 DEF Next, Environment, Start, Collect

LEMMA SafeImplies == SafeDeltas => NoOvercount
BY DEF SafeDeltas, SafeBases, NoOvercount

(* NO TRAFFIC IS COUNTED TWICE, for any number of sources, peers and       *)
(* faults: the stored deltas of a peer never exceed what its interface     *)
(* carried (traffic.go:24-38, 81-110, sqlite.go:27-59).                    *)
THEOREM NeverOvercounts == Spec => []NoOvercount
BY TypeInit, TypeNext, SafeInit, SafeNext, SafeImplies, PTL DEF Spec

-----------------------------------------------------------------------------
(* Only a clock set back misleads a start.                                 *)

(* While the clock never went back, later rows carry later times. *)
ClockOrder ==
  steps = 0 =>
    /\ \A i, j \in DOMAIN rows : i < j => rows[i].at < rows[j].at
    /\ \A i \in DOMAIN rows : rows[i].at < now
    /\ misled = {}

LEMMA ClockOrderInit == Init => ClockOrder
BY DEF Init, ClockOrder

LEMMA ClockOrderNext == TypeOK /\ ClockOrder /\ [Next]_vars => ClockOrder'
<1> SUFFICES ASSUME TypeOK, ClockOrder, [Next]_vars PROVE ClockOrder'
  OBVIOUS
<1> USE DEF kernelVars, dumpVars, memoryVars, dbVars, historyVars
<1>1. CASE UNCHANGED <<rows, now, steps, misled>>
  BY <1>1 DEF ClockOrder
<1>2. ASSUME NEW t \in 0..now, ClockStepsBack(t) PROVE ClockOrder'
  BY <1>2 DEF ClockStepsBack, ClockOrder, TypeOK
<1>3. ASSUME NEW latest \in Scans, NEW lost \in SUBSET Logged,
             StartProcess(latest, lost)
      PROVE  ClockOrder'
  <2>1. UNCHANGED <<rows, now, steps>>
    BY <1>3 DEF StartProcess
  <2>2. ASSUME steps = 0, NEW k \in seen' PROVE IsLast(latest[k], k)
    <3>1. k \in Logged
      BY <1>3 DEF StartProcess
    <3>2. latest[k] \in RowsOf(k) /\ \A j \in RowsOf(k) : rows[j].at <= rows[latest[k]].at
      BY <3>1, ScanType DEF LatestRows
    <3>3. \A i \in RowsOf(k) : i \in DOMAIN rows /\ i \in Nat /\ rows[i].at \in Nat
      <4>1. \A i \in DOMAIN rows : i \in Nat /\ rows[i] \in Row
        BY DEF TypeOK
      <4> QED
        BY <4>1 DEF RowsOf, Row
    <3>4. ASSUME NEW j \in RowsOf(k), ~(j <= latest[k]) PROVE FALSE
      <4>1. rows[latest[k]].at < rows[j].at
        BY <2>2, <3>2, <3>3, <3>4 DEF ClockOrder
      <4> QED
        BY <3>2, <3>3, <4>1
    <3> QED
      BY <3>2, <3>4 DEF IsLast
  <2> QED
    BY <1>3, <2>1, <2>2 DEF StartProcess, ClockOrder
<1>4. ASSUME NEW p \in Peers, RecordSample(p) PROVE ClockOrder'
  <2> SUFFICES ASSUME steps = 0
               PROVE  /\ \A i, j \in DOMAIN rows' : i < j => rows'[i].at < rows'[j].at
                      /\ \A i \in DOMAIN rows' : rows'[i].at < now'
                      /\ misled' = {}
    BY <1>4 DEF RecordSample, ClockOrder
  <2> DEFINE row == [key |-> <<cur, p>>, total |-> dump[p],
                     delta |-> Deltas(<<cur, p>> \in seen, lastState[<<cur, p>>], dump[p]),
                     at |-> now]
  <2>1. rows' = Append(rows, row) /\ row.at = now /\ now' = now + 1 /\ misled' = misled
    BY <1>4 DEF RecordSample
  <2>2. /\ Len(rows) \in Nat
        /\ DOMAIN rows' = 1..(Len(rows) + 1)
        /\ \A j \in 1..Len(rows) : rows'[j] = rows[j] /\ j \in DOMAIN rows
        /\ rows'[Len(rows) + 1] = row
    <3> HIDE DEF row
    <3> QED
      BY <2>1 DEF TypeOK
  <2>3. now \in Nat /\ \A j \in 1..Len(rows) : rows[j].at \in Nat
    <3>1. \A j \in DOMAIN rows : rows[j] \in Row
      BY DEF TypeOK
    <3> QED
      BY <2>2, <3>1 DEF TypeOK, Row
  <2>4. /\ \A i, j \in 1..Len(rows) : i < j => rows[i].at < rows[j].at
        /\ \A i \in 1..Len(rows) : rows[i].at < now
        /\ misled = {}
    BY <2>2 DEF ClockOrder
  <2> HIDE DEF row
  <2> QED
    BY <2>1, <2>2, <2>3, <2>4
<1> QED
  BY <1>1, <1>2, <1>3, <1>4
     DEF Next, Environment, Start, Collect, vars, AddPeer, RemovePeer, Carry,
         RestartSource, Tick, DumpOk, DumpFails, RecordFails, EndSource, Crash

(* ONLY A CLOCK SET BACK MISLEADS A START: MAX(collected_at) finds the row *)
(* inserted last for every peer while time.Now() never goes back           *)
(* (sqlite.go:27-39, traffic.go:110).                                      *)
THEOREM ClockIsTheOnlyHazard == Spec => []OnlyClockMisleads
<1>1. ClockOrder => OnlyClockMisleads
  BY DEF ClockOrder, OnlyClockMisleads
<1> QED
  BY <1>1, TypeInit, TypeNext, ClockOrderInit, ClockOrderNext, PTL DEF Spec

-----------------------------------------------------------------------------
(* Rows form a chain, and memory agrees with the database.                 *)

Coherent == RowsChain /\ MemoryMatchesDb

(* Steps that leave the rows alone and forget, keep or restore lastState. *)
LEMMA CoherentFrame ==
  ASSUME Coherent, UNCHANGED <<rows, gap, misled>>,
         pc' = "down" \/ (pc # "down" /\ UNCHANGED <<seen, lastState>>)
  PROVE  Coherent'
BY DEF Coherent, RowsChain, Chained, MemoryMatchesDb, Logged, RowsOf, IsLast

(* A start takes its memory from the rows the last process left. *)
LEMMA CoherentStart ==
  ASSUME TypeOK, Coherent, NEW latest \in Scans, NEW lost \in SUBSET Logged,
         StartProcess(latest, lost)
  PROVE  Coherent'
<1> USE DEF dbVars
<1>1. rows' = rows /\ gap \subseteq gap' /\ misled \subseteq misled'
  BY DEF StartProcess
<1>2. RowsChain'
  BY <1>1 DEF Coherent, RowsChain, Chained, RowsOf
<1>3. ASSUME NEW k \in Keys \ (gap' \union misled')
      PROVE  /\ k \in seen' <=> k \in Logged'
             /\ \A i \in RowsOf(k)' : IsLast(i, k)' => lastState'[k] = rows'[i].total
  <2>1. k \in seen' <=> k \in Logged
    BY <1>3 DEF StartProcess
  <2>2. RowsOf(k)' = RowsOf(k) /\ (k \in Logged' <=> k \in Logged)
    BY <1>1 DEF RowsOf, Logged
  <2>3. ASSUME NEW i \in RowsOf(k), IsLast(i, k) PROVE lastState'[k] = rows[i].total
    <3>1. k \in seen'
      BY <1>3, <2>1 DEF Logged
    <3>2. lastState'[k] = rows[latest[k]].total /\ IsLast(latest[k], k)
      BY <1>3, <3>1 DEF StartProcess
    <3>3. i \in Nat /\ latest[k] \in Nat /\ i <= latest[k] /\ latest[k] <= i
      BY <2>3, <3>2 DEF TypeOK, IsLast, RowsOf
    <3> QED
      BY <3>2, <3>3
  <2>4. \A i : IsLast(i, k)' <=> IsLast(i, k)
    BY <2>2 DEF IsLast
  <2> QED
    BY <1>1, <2>1, <2>2, <2>3, <2>4
<1> QED
  BY <1>2, <1>3 DEF Coherent, MemoryMatchesDb

(* A sample that was not stored leaves a gap its key is marked with. *)
LEMMA CoherentRecordFails ==
  ASSUME TypeOK, Coherent, NEW p \in Peers, RecordFails(p)
  PROVE  Coherent'
<1> USE DEF dbVars
<1>1. rows' = rows /\ gap' = gap \union {<<cur, p>>} /\ misled' = misled /\ pc' = pc
  BY DEF RecordFails
<1>2. \A k \in Keys : k # <<cur, p>> =>
        lastState'[k] = lastState[k] /\ (k \in seen' <=> k \in seen)
  BY RememberEffect DEF RecordFails
<1>3. RowsChain'
  BY <1>1 DEF Coherent, RowsChain, Chained, RowsOf
<1>4. MemoryMatchesDb'
  <2>1. \A k \in Keys : /\ k \in Logged' <=> k \in Logged
                        /\ RowsOf(k)' = RowsOf(k)
                        /\ \A i : IsLast(i, k)' <=> IsLast(i, k)
    BY <1>1 DEF Logged, RowsOf, IsLast
  <2> SUFFICES ASSUME pc # "down", NEW k \in Keys \ (gap' \union misled)
               PROVE  /\ k \in seen' <=> k \in Logged
                      /\ \A i \in RowsOf(k) : IsLast(i, k) => lastState'[k] = rows[i].total
    BY <1>1, <2>1 DEF MemoryMatchesDb
  <2>2. k # <<cur, p>> /\ k \in Keys \ (gap \union misled)
    BY <1>1
  <2> QED
    BY <1>2, <2>2 DEF Coherent, MemoryMatchesDb
<1> QED
  BY <1>3, <1>4 DEF Coherent

(* The new row is measured against the row before it, because that is what *)
(* lastState holds.                                                        *)
LEMMA CoherentRecordSample ==
  ASSUME TypeOK, Coherent, NEW p0 \in Peers, RecordSample(p0)
  PROVE  Coherent'
<1> USE DEF kernelVars, historyVars
<1> SUFFICES ASSUME NEW k0, k0 = <<cur, p0>> PROVE Coherent'
  OBVIOUS
<1> DEFINE delta == Deltas(k0 \in seen, lastState[k0], dump[p0])
           row == [key |-> k0, total |-> dump[p0], delta |-> delta, at |-> now]
           new == Len(rows) + 1
<1>1. /\ UNCHANGED <<pc, gap, misled>> /\ pc # "down"
      /\ Remember(p0)
      /\ rows' = Append(rows, row)
      /\ row.key = k0 /\ row.total = dump[p0] /\ row.delta = delta
      /\ k0 \in Keys
  BY RememberType DEF RecordSample, Remember
<1>2. /\ Len(rows) \in Nat
      /\ DOMAIN rows = 1..Len(rows)
      /\ DOMAIN rows' = 1..new
      /\ \A j \in 1..Len(rows) : rows'[j] = rows[j]
      /\ rows'[new] = row
  <2> HIDE DEF row
  <2> QED
    BY <1>1 DEF TypeOK
<1>3. \A k : RowsOf(k)' = RowsOf(k) \union (IF k = k0 THEN {new} ELSE {})
  <2> HIDE DEF row
  <2> QED
    BY <1>1, <1>2 DEF RowsOf
<1>4. \A k : RowsOf(k) \subseteq 1..Len(rows)
  BY <1>2 DEF RowsOf
<1>5. RowsChain'
  <2> SUFFICES ASSUME NEW i \in DOMAIN rows', rows'[i].key \notin gap \union misled
               PROVE  Chained(i)'
    BY <1>1 DEF RowsChain
  <2>1. CASE i # new
    <3>1. i \in DOMAIN rows /\ rows'[i] = rows[i]
      BY <1>2, <2>1
    <3>2. Chained(i)
      BY <3>1 DEF Coherent, RowsChain
    <3>3. {j \in RowsOf(rows[i].key)' : j < i} = {j \in RowsOf(rows[i].key) : j < i}
      BY <1>2, <1>3, <2>1
    <3>4. \A j \in RowsOf(rows[i].key) : rows'[j] = rows[j]
      BY <1>2, <1>4
    <3> QED
      BY <3>1, <3>2, <3>3, <3>4 DEF Chained
  <2>2. CASE i = new
    <3>1. rows'[i] = row /\ k0 \in Keys \ (gap \union misled)
      BY <1>1, <1>2, <2>2
    <3>2. /\ k0 \in seen <=> k0 \in Logged
          /\ \A j \in RowsOf(k0) : IsLast(j, k0) => lastState[k0] = rows[j].total
      BY <1>1, <3>1 DEF Coherent, MemoryMatchesDb
    <3>3. {j \in RowsOf(k0)' : j < i} = RowsOf(k0)
      <4>1. \A j \in RowsOf(k0) : j \in Nat /\ j < new
        BY <1>2, <1>4
      <4>2. RowsOf(k0)' = RowsOf(k0) \union {new} /\ ~(new < new)
        BY <1>2, <1>3
      <4> HIDE DEF new
      <4> QED
        BY <2>2, <4>1, <4>2
    <3>4. RowsOf(k0) = {} => delta = Zero
      BY <3>2 DEF Logged, Deltas, Zero
    <3>5. ASSUME NEW j \in RowsOf(k0), \A m \in RowsOf(k0) : m <= j,
                 NEW d \in Directions
          PROVE  LET now_ == dump[p0][d]
                     old == rows[j].total[d]
                 IN delta[d] = IF now_ < old THEN now_ ELSE now_ - old
      <4>1. IsLast(j, k0) /\ k0 \in Logged
        BY <1>1, <3>5 DEF IsLast, Logged
      <4>2. k0 \in seen /\ lastState[k0] = rows[j].total
        BY <3>2, <4>1
      <4>3. delta[d] = Delta(rows[j].total[d], dump[p0][d])
        BY <4>2 DEF Deltas
      <4>4. dump[p0][d] \in Nat /\ rows[j].total[d] \in Nat
        BY <1>1, <4>2, Numbers
      <4> QED
        BY <4>3, <4>4 DEF Delta
    <3>6. \A j \in RowsOf(k0) : rows'[j] = rows[j]
      BY <1>2, <1>4
    <3>7. rows'[i].key = k0 /\ rows'[i].delta = delta /\ rows'[i].total = dump[p0]
      BY <3>1
    <3> HIDE DEF delta, row, new
    <3> QED
      BY <3>3, <3>4, <3>5, <3>6, <3>7 DEF Chained
  <2> QED
    BY <2>1, <2>2
<1>6. MemoryMatchesDb'
  <2> SUFFICES ASSUME NEW k \in Keys \ (gap \union misled)
               PROVE  /\ k \in seen' <=> k \in Logged'
                      /\ \A i \in RowsOf(k)' : IsLast(i, k)' => lastState'[k] = rows'[i].total
    BY <1>1 DEF MemoryMatchesDb
  <2>1. /\ k = k0 => \A i : IsLast(i, k)' => rows'[i].total = dump[p0]
        /\ k # k0 => \A i : IsLast(i, k)' => IsLast(i, k) /\ rows'[i] = rows[i]
    <3> HIDE DEF row
    <3> QED
      BY <1>1, LastOfAppend
  <2>2. CASE k = k0
    BY <1>1, <1>3, <2>1, <2>2, RememberEffect DEF Logged
  <2>3. CASE k # k0
    <3>1. RowsOf(k)' = RowsOf(k) /\ (k \in Logged' <=> k \in Logged)
      BY <1>3, <2>3 DEF Logged
    <3>2. lastState'[k] = lastState[k] /\ (k \in seen' <=> k \in seen)
      BY <1>1, <2>3, RememberEffect
    <3>3. /\ k \in seen <=> k \in Logged
          /\ \A i \in RowsOf(k) : IsLast(i, k) => lastState[k] = rows[i].total
      BY <1>1 DEF Coherent, MemoryMatchesDb
    <3> QED
      BY <2>1, <2>3, <3>1, <3>2, <3>3
  <2> QED
    BY <2>2, <2>3
<1> QED
  BY <1>5, <1>6 DEF Coherent

LEMMA CoherentInit == Init => Coherent
BY DEF Init, Coherent, RowsChain, MemoryMatchesDb

LEMMA CoherentNext == TypeOK /\ Coherent /\ [Next]_vars => Coherent'
<1> SUFFICES ASSUME TypeOK, Coherent, [Next]_vars PROVE Coherent'
  OBVIOUS
<1> USE DEF kernelVars, dumpVars, memoryVars, dbVars, historyVars
<1>1. ASSUME NEW k \in Keys, AddPeer(k) PROVE Coherent'
  BY <1>1, CoherentFrame DEF AddPeer
<1>2. ASSUME NEW k \in Keys, RemovePeer(k) PROVE Coherent'
  BY <1>2, CoherentFrame DEF RemovePeer
<1>3. ASSUME NEW k \in Keys, NEW d \in Directions, Carry(k, d) PROVE Coherent'
  BY <1>3, CoherentFrame DEF Carry
<1>4. ASSUME NEW s \in Sources, RestartSource(s) PROVE Coherent'
  BY <1>4, CoherentFrame DEF RestartSource
<1>5. ASSUME NEW t \in 0..now, ClockStepsBack(t) PROVE Coherent'
  BY <1>5, CoherentFrame DEF ClockStepsBack
<1>6. ASSUME NEW latest \in Scans, NEW lost \in SUBSET Logged,
             StartProcess(latest, lost)
      PROVE  Coherent'
  BY <1>6, CoherentStart
<1>7. CASE Tick
  BY <1>7, CoherentFrame DEF Tick
<1>8. CASE DumpOk
  BY <1>8, CoherentFrame DEF DumpOk
<1>9. CASE DumpFails
  BY <1>9, CoherentFrame DEF DumpFails
<1>10. ASSUME NEW p \in Peers, RecordSample(p) PROVE Coherent'
  BY <1>10, CoherentRecordSample
<1>11. ASSUME NEW p \in Peers, RecordFails(p) PROVE Coherent'
  BY <1>11, CoherentRecordFails
<1>12. CASE EndSource
  BY <1>12, CoherentFrame DEF EndSource
<1>13. CASE Crash
  BY <1>13, CoherentFrame DEF Crash
<1>14. CASE UNCHANGED vars
  BY <1>14, CoherentFrame DEF vars
<1> QED
  BY <1>1, <1>2, <1>3, <1>4, <1>5, <1>6, <1>7, <1>8, <1>9, <1>10, <1>11,
     <1>12, <1>13, <1>14 DEF Next, Environment, Start, Collect

(* ROWS FORM A CHAIN, across crashes and restarts, for every peer none of  *)
(* whose inserts or loads failed (traffic.go:24-38, 76-110).               *)
THEOREM ChainHolds == Spec => []RowsChain
<1>1. Coherent => RowsChain
  BY DEF Coherent
<1> QED
  BY <1>1, TypeInit, TypeNext, CoherentInit, CoherentNext, PTL DEF Spec

(* MEMORY AGREES WITH THE DATABASE while the process runs, for the same    *)
(* peers (traffic.go:99-110 against sqlite.go:27-59).                      *)
THEOREM MemoryIsCoherent == Spec => []MemoryMatchesDb
<1>1. Coherent => MemoryMatchesDb
  BY DEF Coherent
<1> QED
  BY <1>1, TypeInit, TypeNext, CoherentInit, CoherentNext, PTL DEF Spec

-----------------------------------------------------------------------------
(* The collector implements the ledger, while the clock is never set back. *)

StepsBounded == steps \in Nat /\ steps <= MaxClockSteps

(* The clock is set back at most MaxClockSteps times. *)
LEMMA StepsBoundedNext == StepsBounded /\ [Next]_vars => StepsBounded'
<1> SUFFICES ASSUME StepsBounded, [Next]_vars PROVE StepsBounded'
  OBVIOUS
<1> USE DEF kernelVars, dumpVars, memoryVars, dbVars, historyVars
<1>1. CASE UNCHANGED steps
  BY <1>1 DEF StepsBounded
<1>2. ASSUME NEW t \in 0..now, ClockStepsBack(t) PROVE StepsBounded'
  BY <1>2, ConstantsAssumption DEF ClockStepsBack, StepsBounded
<1> QED
  BY <1>1, <1>2
     DEF Next, Environment, Start, Collect, vars, AddPeer, RemovePeer, Carry,
         RestartSource, StartProcess, Tick, DumpOk, DumpFails, RecordSample,
         RecordFails, EndSource, Crash

(* A sample of a peer the collector is not misled about is one the ledger  *)
(* accepts.                                                                *)
LEMMA SampleIsRecord ==
  ASSUME TypeOK, SafeDeltas, misled = {}, NEW p \in Peers, RecordSample(p)
  PROVE  \E k \in Keys : \E a \in Ledger!Unrecorded(k) : Ledger!Record(k, a)
<1> USE DEF kernelVars, historyVars
<1> DEFINE k == <<cur, p>>
           delta == Deltas(k \in seen, lastState[k], dump[p])
<1>1. /\ k \in Keys /\ p \in listed /\ pc = "recording"
      /\ recorded' = [recorded EXCEPT ![k] = [d \in Directions |-> @[d] + delta[d]]]
      /\ carried' = carried
  BY RememberType, RecordedSample DEF RecordSample, Remember
<1>2. delta \in [Directions -> Nat]
  <2>1. lastState[k] \in Amount /\ dump[p] \in Amount
    BY <1>1 DEF TypeOK
  <2> QED
    BY <2>1, DeltasAmount DEF Amount
<1>3. ASSUME NEW d \in Directions
      PROVE  /\ recorded[k][d] + delta[d] <= carried[k][d]
             /\ recorded[k][d] \in Nat /\ carried[k][d] \in Nat
  <2>1. /\ recorded[k][d] \in Nat /\ carried[k][d] \in Nat /\ counter[k][d] \in Nat
        /\ lastState[k][d] \in Nat /\ dump[p][d] \in Nat
    BY <1>1, Numbers
  <2>2. /\ Delta(dump[p][d], counter[k][d]) \in Nat
        /\ Delta(lastState[k][d], dump[p][d]) \in Nat
    BY <2>1, DeltaNat
  <2>3. SafeBases(k, d) /\ SafeDump(k, d)
    BY <1>1 DEF SafeDeltas
  <2>4. CASE k \in seen
    <3>1. delta[d] = Delta(lastState[k][d], dump[p][d])
      BY <2>4 DEF Deltas
    <3>2. recorded[k][d] + Delta(lastState[k][d], dump[p][d])
            + Delta(dump[p][d], counter[k][d]) <= carried[k][d]
      BY <1>1, <2>3, <2>4 DEF SafeDump
    <3> HIDE DEF delta, k
    <3> QED
      BY <2>1, <2>2, <3>1, <3>2
  <2>5. CASE k \notin seen
    <3>1. delta[d] = 0
      BY <2>5 DEF Deltas
    <3>2. recorded[k][d] <= carried[k][d]
      BY <2>3 DEF SafeBases
    <3> HIDE DEF delta, k
    <3> QED
      BY <2>1, <3>1, <3>2
  <2> QED
    BY <2>4, <2>5
<1> HIDE DEF delta, k
<1>4. delta \in [Directions -> UNION {0..carried[k][d] : d \in Directions}]
  <2>1. \A d \in Directions : delta[d] \in 0..carried[k][d]
    BY <1>2, <1>3
  <2>2. \A d \in Directions :
          delta[d] \in UNION {0..carried[k][e] : e \in Directions}
    BY <2>1
  <2> QED
    BY <1>2, <2>2
<1>5. delta \in Ledger!Unrecorded(k)
  BY <1>3, <1>4 DEF Ledger!Unrecorded
<1>6. Ledger!Record(k, delta)
  BY <1>1, <1>3 DEF Ledger!Record
<1> QED
  BY <1>1, <1>5, <1>6

(* A step of a collector that is not misled is a step of the ledger. *)
LEMMA StepImplementsLedger ==
  ASSUME TypeOK, SafeDeltas, misled = {}, [Next]_vars
  PROVE  [Ledger!Next]_Ledger!vars
<1> USE DEF kernelVars, dumpVars, memoryVars, dbVars, historyVars
<1>1. CASE UNCHANGED <<carried, rows>>
  BY <1>1, RecordedSame DEF Ledger!vars
<1>2. ASSUME NEW k \in Keys, NEW d \in Directions, Carry(k, d)
      PROVE  Ledger!Next
  BY <1>2, RecordedSame DEF Carry, Ledger!Next, Ledger!Carry
<1>3. ASSUME NEW p \in Peers, RecordSample(p) PROVE Ledger!Next
  BY <1>3, SampleIsRecord DEF Ledger!Next
<1> QED
  BY <1>1, <1>2, <1>3
     DEF Next, Environment, Start, Collect, vars, AddPeer, RemovePeer,
         RestartSource, ClockStepsBack, StartProcess, Tick, DumpOk, DumpFails,
         RecordFails, EndSource, Crash

(* A COLLECTOR THAT IS NOT MISLED KEEPS THE LEDGER.  However often the     *)
(* clock is set back and the process crashes, as long as no start took up  *)
(* a peer from another row than its last one, every step of the collector  *)
(* moves bytes from unrecorded to recorded or leaves both alone            *)
(* (traffic.go:74-115, sqlite.go:28-60).                                  *)
THEOREM LedgerUnlessMisled ==
  Spec => Ledger!Init /\ [][misled = {} => [Ledger!Next]_Ledger!vars]_vars
<1>1. Init => Ledger!Init
  BY RecordedInit DEF Init, Ledger!Init, Ledger!Nothing, Zero
<1>2. TypeOK /\ SafeDeltas /\ [Next]_vars
        => (misled = {} => [Ledger!Next]_Ledger!vars)
  BY StepImplementsLedger
<1> QED
  BY <1>1, <1>2, TypeInit, TypeNext, SafeInit, SafeNext, PTL DEF Spec

(* THE COLLECTOR IMPLEMENTS THE LEDGER.  While the clock is never set back *)
(* the collector only ever moves bytes from unrecorded to recorded, whole  *)
(* samples at a time, and never takes one back (traffic.go:74-115).        *)
THEOREM CollectorImplementsLedger ==
  ASSUME MaxClockSteps = 0
  PROVE  Spec => ImplementsLedger
<1>1. Init => Ledger!Init
  BY RecordedInit DEF Init, Ledger!Init, Ledger!Nothing, Zero
<1>2. StepsBounded => steps = 0
  BY DEF StepsBounded
<1>3. Init => StepsBounded
  BY ConstantsAssumption DEF Init, StepsBounded
<1>4. ClockOrder /\ steps = 0 => misled = {}
  BY DEF ClockOrder
<1>5. TypeOK /\ SafeDeltas /\ misled = {} /\ [Next]_vars => [Ledger!Next]_Ledger!vars
  BY StepImplementsLedger
<1> QED
  BY <1>1, <1>2, <1>3, <1>4, <1>5, TypeInit, TypeNext, SafeInit, SafeNext,
     ClockOrderInit, ClockOrderNext, StepsBoundedNext, PTL
     DEF Spec, ImplementsLedger, Ledger!Spec
=============================================================================
