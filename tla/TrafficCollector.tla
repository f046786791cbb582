-------------------------- MODULE TrafficCollector --------------------------
(***************************************************************************)
(* The collector process on the VPS (internal/collector/traffic.go), the   *)
(* part of the database it uses (internal/db/sqlite.go) and the WireGuard  *)
(* containers it samples.                                                  *)
(*                                                                         *)
(* Once a minute the collector dumps every source, turns the cumulative    *)
(* counters of every peer into deltas against its in-memory lastState, and *)
(* inserts one peer_samples row per peer.  lastState is rebuilt from the   *)
(* newest row of every peer when the process starts.  The hard part is     *)
(* that four things change on their own: the kernel counters (traffic,     *)
(* and resets when a container restarts or a peer is added again), the     *)
(* process (crashes between any two statements), the database (an insert   *)
(* or the initial load may fail, and the code only logs it) and the wall   *)
(* clock that orders the rows.                                             *)
(***************************************************************************)
EXTENDS Integers, Sequences, FiniteSets, FiniteSetsExt

CONSTANTS
  NumSources,     \* sources of the environment, in configuration order
  Peers,          \* public keys
  Directions,     \* the counters of a peer: rx and tx in the code
  MaxCarried,     \* bound: units of traffic per counter
  MaxRows,        \* bound: rows in peer_samples
  MaxFaults,      \* bound: crashes, resets, failed inserts, failed loads
  MaxClockSteps   \* bound: times the wall clock is set back

ASSUME ConstantsAssumption ==
  /\ NumSources \in Nat \ {0}
  /\ {MaxCarried, MaxRows, MaxFaults, MaxClockSteps} \subseteq Nat

Sources == 1..NumSources
Keys == Sources \X Peers            \* info.ID + "|" + p.PublicKey
Amount == [Directions -> Nat]
Zero == [d \in Directions |-> 0]
Row == [key : Keys, total : Amount, delta : Amount, at : Nat]

VARIABLES
  \* the WireGuard interfaces inside the containers
  configured,     \* keys of the peers the interfaces know
  counter,        \* transfer counters of the interfaces
  \* the collector process
  pc,             \* where its goroutine stands
  cur,            \* the source collectSource works on
  listed,         \* peers of the parsed dump not yet handled
  dump,           \* the counters the dump reported
  seen,           \* keys present in the lastState map
  lastState,      \* its values, the zero value for an absent key
  \* the database file and the wall clock
  rows,           \* peer_samples in insertion order
  now,            \* what time.Now() returns
  \* history, read by no action of the collector
  carried,        \* traffic the interfaces really moved
  gap,            \* keys that lost an insert or a load
  misled,         \* keys a start took up from a row that was not the last one
  steps,          \* times the clock was set back
  faults          \* faults so far

kernelVars == <<configured, counter, carried>>
dumpVars == <<cur, listed, dump>>
memoryVars == <<seen, lastState>>
dbVars == <<rows, now>>
historyVars == <<gap, misled, steps, faults>>
vars == <<kernelVars, pc, dumpVars, memoryVars, dbVars, historyVars>>

Init ==
  /\ configured \in SUBSET Keys
  /\ counter = [k \in Keys |-> Zero]
  /\ carried = [k \in Keys |-> Zero]
  /\ pc = "down"
  /\ cur = 1
  /\ listed = {}
  /\ dump = [p \in Peers |-> Zero]
  /\ seen = {}
  /\ lastState = [k \in Keys |-> Zero]
  /\ rows = <<>>
  /\ now = 0
  /\ gap = {}
  /\ misled = {}
  /\ steps = 0
  /\ faults = 0

Fault == faults < MaxFaults /\ faults' = faults + 1

-----------------------------------------------------------------------------
(* The arithmetic of a sample, and the query that rebuilds lastState.      *)

(* Mutants: equal counters taken for a reset; a reset not noticed.         *)
DeltaEqualIsReset(previous, current) ==
  IF current > previous THEN current - previous ELSE current
DeltaIgnoresReset(previous, current) == current - previous

(* A counter that went down was reset and counts from zero again.          *)
Delta(previous, current) ==
  IF current >= previous THEN current - previous ELSE current

(* Mutant: the first sight of a peer counts its whole counter. *)
DeltasCountFirstSight(known, previous, current) ==
  [d \in Directions |->
     IF known THEN Delta(previous[d], current[d]) ELSE current[d]]

(* The deltas of one sample; the first sight of a peer counts nothing.     *)
Deltas(known, previous, current) ==
  [d \in Directions |->
     IF known THEN Delta(previous[d], current[d]) ELSE 0]

RowsOf(k) == {i \in DOMAIN rows : rows[i].key = k}

(* The rx_delta / tx_delta columns of every peer added up, as the traffic  *)
(* endpoint does for whoever asks.                                         *)
recorded ==
  [k \in Keys |->
     [d \in Directions |-> SumFunction([i \in RowsOf(k) |-> rows[i].delta[d]])]]

Logged == {k \in Keys : RowsOf(k) # {}}

(* Mutant: the query takes the oldest row. *)
OldestRows(k) ==
  {i \in RowsOf(k) : \A j \in RowsOf(k) : rows[j].at >= rows[i].at}

(* LatestPeerTotals joins on MAX(collected_at).  Rows of one peer with the *)
(* same time all match, and the scan keeps whichever comes last.           *)
LatestRows(k) ==
  {i \in RowsOf(k) : \A j \in RowsOf(k) : rows[j].at <= rows[i].at}

(* The row inserted last, which is the newest one unless the clock lied.   *)
IsLast(i, k) == i \in RowsOf(k) /\ \A j \in RowsOf(k) : j <= i

(* Mutant: the loop over the sources stops one short. *)
NextSourceStopsShort ==
  IF cur < NumSources - 1
  THEN pc' = "dumping" /\ cur' = cur + 1
  ELSE pc' = "waiting" /\ UNCHANGED cur

NextSource ==
  IF cur < NumSources
  THEN pc' = "dumping" /\ cur' = cur + 1
  ELSE pc' = "waiting" /\ UNCHANGED cur

-----------------------------------------------------------------------------
(* The interfaces and the clock.                                           *)

AddPeer(k) ==
  /\ k \notin configured
  /\ configured' = configured \union {k}
  /\ UNCHANGED <<counter, carried, pc, dumpVars, memoryVars, dbVars, historyVars>>

(* A removed peer that is added again starts with fresh counters.          *)
RemovePeer(k) ==
  /\ k \in configured
  /\ Fault
  /\ configured' = configured \ {k}
  /\ counter' = [counter EXCEPT ![k] = Zero]
  /\ UNCHANGED <<carried, pc, dumpVars, memoryVars, dbVars, gap, misled, steps>>

Carry(k, d) ==
  /\ k \in configured
  /\ carried[k][d] < MaxCarried
  /\ counter' = [counter EXCEPT ![k][d] = @ + 1]
  /\ carried' = [carried EXCEPT ![k][d] = @ + 1]
  /\ UNCHANGED <<configured, pc, dumpVars, memoryVars, dbVars, historyVars>>

(* The container of a source restarts and its interface is created anew.   *)
RestartSource(s) ==
  /\ Fault
  /\ counter' = [k \in Keys |-> IF k[1] = s THEN Zero ELSE counter[k]]
  /\ UNCHANGED <<configured, carried, pc, dumpVars, memoryVars, dbVars, gap, misled, steps>>

(* The wall clock is corrected backwards (NTP, an administrator).          *)
ClockStepsBack(t) ==
  /\ t < now
  /\ steps < MaxClockSteps
  /\ now' = t
  /\ steps' = steps + 1
  /\ UNCHANGED <<kernelVars, pc, dumpVars, memoryVars, rows, gap, misled, faults>>

-----------------------------------------------------------------------------
(* The collector process.                                                  *)

(* Mutant: New starts with an empty lastState. *)
StartWithoutLoad(latest, lost) ==
  /\ pc = "down"
  /\ lost = {}
  /\ seen' = {}
  /\ lastState' = [k \in Keys |-> Zero]
  /\ pc' = "dumping"
  /\ cur' = 1
  /\ UNCHANGED <<kernelVars, listed, dump, dbVars, historyVars>>

(* collector.New.  latest is the row the scan kept for each logged key;    *)
(* lost are the keys missing from the map when LatestPeerTotals failed:    *)
(* New logs the error and goes on with what it got.                        *)
StartProcess(latest, lost) ==
  /\ pc = "down"
  /\ IF lost = {} THEN UNCHANGED faults ELSE Fault
  /\ seen' = Logged \ lost
  /\ lastState' = [k \in Keys |->
                     IF k \in seen' THEN rows[latest[k]].total ELSE Zero]
  /\ gap' = gap \union lost
  /\ misled' = misled \union {k \in seen' : ~IsLast(latest[k], k)}
  /\ pc' = "dumping"
  /\ cur' = 1
  /\ UNCHANGED <<kernelVars, listed, dump, dbVars, steps>>

(* The ticker fires and collect starts over with the first source.         *)
Tick ==
  /\ pc = "waiting"
  /\ pc' = "dumping"
  /\ cur' = 1
  /\ UNCHANGED <<kernelVars, listed, dump, memoryVars, dbVars, historyVars>>

(* The peers ParseDump may make of the dump of a source.  It passes over   *)
(* any line it takes for a short one, so the list may lack peers whose     *)
(* counters run on.  Its zero for a field that is no number is not taken:  *)
(* wg prints the 64-bit counters as decimals, and ParseUint reads all of   *)
(* them.                                                                   *)
ParseDump(s) == SUBSET {p \in Peers : <<s, p>> \in configured}

(* `wg show all dump` answers in time: one consistent copy of the counters *)
(* of the peers that are listed.                                           *)
DumpOk ==
  /\ pc = "dumping"
  /\ listed' \in ParseDump(cur)
  /\ Len(rows) + Cardinality(listed') <= MaxRows
  /\ dump' = [p \in Peers |-> IF p \in listed' THEN counter[<<cur, p>>] ELSE Zero]
  /\ pc' = "recording"
  /\ UNCHANGED <<kernelVars, cur, memoryVars, dbVars, historyVars>>

(* The container is gone, or the 10 s of the context have passed.          *)
DumpFails ==
  /\ pc = "dumping"
  /\ NextSource
  /\ UNCHANGED <<kernelVars, listed, dump, memoryVars, dbVars, historyVars>>

(* Mutant: lastState is only set for peers it does not know yet. *)
RememberFirstOnly(p) ==
  /\ pc = "recording"
  /\ p \in listed
  /\ seen' = seen \union {<<cur, p>>}
  /\ lastState' = [lastState EXCEPT ![<<cur, p>>] =
                     IF <<cur, p>> \in seen THEN @ ELSE dump[p]]
  /\ listed' = listed \ {p}

(* lastState moves on before the INSERT, whatever becomes of the INSERT.   *)
Remember(p) ==
  /\ pc = "recording"
  /\ p \in listed
  /\ seen' = seen \union {<<cur, p>>}
  /\ lastState' = [lastState EXCEPT ![<<cur, p>>] = dump[p]]
  /\ listed' = listed \ {p}

(* One turn of the loop over the peers. *)
RecordSample(p) ==
  LET k == <<cur, p>>
      delta == Deltas(k \in seen, lastState[k], dump[p])
  IN /\ Remember(p)
     /\ rows' = Append(rows, [key |-> k, total |-> dump[p], delta |-> delta, at |-> now])
     /\ now' = now + 1
     /\ UNCHANGED <<kernelVars, pc, cur, dump, historyVars>>

(* The INSERT fails (disk full, file locked); the error is logged and the  *)
(* loop goes on.                                                           *)
RecordFails(p) ==
  /\ Remember(p)
  /\ Fault
  /\ gap' = gap \union {<<cur, p>>}
  /\ UNCHANGED <<kernelVars, pc, cur, dump, dbVars, misled, steps>>

EndSource ==
  /\ pc = "recording"
  /\ listed = {}
  /\ NextSource
  /\ UNCHANGED <<kernelVars, listed, dump, memoryVars, dbVars, historyVars>>

(* The process dies between any two of its steps; the file survives.       *)
Crash ==
  /\ pc # "down"
  /\ Fault
  /\ pc' = "down"
  /\ cur' = 1
  /\ listed' = {}
  /\ dump' = [p \in Peers |-> Zero]
  /\ seen' = {}
  /\ lastState' = [k \in Keys |-> Zero]
  /\ UNCHANGED <<kernelVars, dbVars, gap, misled, steps>>

-----------------------------------------------------------------------------
Environment ==
  \/ \E k \in Keys : AddPeer(k) \/ RemovePeer(k)
  \/ \E k \in Keys, d \in Directions : Carry(k, d)
  \/ \E s \in Sources : RestartSource(s)
  \/ \E t \in 0..now : ClockStepsBack(t)

(* The scan keeps one of the newest rows of every logged key.              *)
Scans == {f \in [Logged -> DOMAIN rows] : \A k \in Logged : f[k] \in LatestRows(k)}

Start ==
  \E latest \in Scans : \E lost \in SUBSET Logged : StartProcess(latest, lost)

Collect ==
  \/ Tick \/ DumpOk \/ DumpFails \/ EndSource
  \/ \E p \in Peers : RecordSample(p) \/ RecordFails(p)

Next == Environment \/ Start \/ Collect \/ Crash

Spec == Init /\ [][Next]_vars

(* Docker restarts the container, every dump ends by its deadline and the  *)
(* ticker keeps firing: the process never stops by itself.                 *)
FairSpec == Spec /\ WF_vars(Start) /\ WF_vars(Collect)
-----------------------------------------------------------------------------
(* Properties.                                                             *)

(* TYPE INVARIANT.  Every variable of the collector and its surroundings   *)
(* has its type (traffic.go:12-22, the columns of migrations.go).          *)
TypeOK ==
  /\ configured \in SUBSET Keys
  /\ counter \in [Keys -> Amount]
  /\ carried \in [Keys -> Amount]
  /\ pc \in {"down", "waiting", "dumping", "recording"}
  /\ cur \in Sources
  /\ listed \in SUBSET Peers
  /\ dump \in [Peers -> Amount]
  /\ seen \in SUBSET Keys
  /\ lastState \in [Keys -> Amount]
  /\ rows \in Seq(Row)
  /\ now \in Nat
  /\ gap \in SUBSET Keys
  /\ misled \in SUBSET Keys
  /\ steps \in Nat
  /\ faults \in Nat

(* NO TRAFFIC IS COUNTED TWICE.  Whatever crashes, container restarts,     *)
(* re-added peers, failed inserts, failed loads and clock corrections      *)
(* happen, the stored deltas of a peer never add up to more than its       *)
(* interface carried, unless a start took the peer up from a row that was  *)
(* not its last (collectSource's three cases for a delta against the       *)
(* state New rebuilds, traffic.go:24-38, 81-102).                          *)
NoOvercount ==
  \A k \in Keys \ misled, d \in Directions : recorded[k][d] <= carried[k][d]

(* The inductive form of NoOvercount.  Everything the next sample of k may *)
(* be measured against (the last row, which a start takes up; the value in *)
(* memory; the dump being recorded) still leaves room for the delta up to  *)
(* the current counter.                                                    *)
SafeBases(k, d) ==
  LET fits(base) == recorded[k][d] + Delta(base[d], counter[k][d]) <= carried[k][d]
  IN /\ recorded[k][d] <= carried[k][d]
     /\ \A i \in RowsOf(k) : IsLast(i, k) => fits(rows[i].total)
     /\ k \in seen => fits(lastState[k])

SafeDump(k, d) ==
  pc = "recording" =>
    \A p \in listed : k = <<cur, p>> =>
      LET rest == Delta(dump[p][d], counter[k][d])
      IN /\ recorded[k][d] + rest <= carried[k][d]
         /\ k \in seen =>
              recorded[k][d] + Delta(lastState[k][d], dump[p][d]) + rest <= carried[k][d]

SafeDeltas ==
  \A k \in Keys \ misled, d \in Directions : SafeBases(k, d) /\ SafeDump(k, d)

(* ONLY A CLOCK SET BACK MISLEADS A START.  MAX(collected_at) finds the    *)
(* row inserted last for every peer, so that the exception in NoOvercount  *)
(* is empty, as long as the wall clock never went back (sqlite.go:27-39,   *)
(* traffic.go:110).                                                        *)
OnlyClockMisleads == steps = 0 => misled = {}

(* ROWS FORM A CHAIN.  For a peer no insert or load of which failed, every *)
(* stored delta is measured against the total of the row stored before it, *)
(* also when the process crashed and started again between the two, and    *)
(* only the very first row of the peer has delta zero by lack of a base.   *)
(* This is what makes lastState a cache of the database that survives      *)
(* restarts (traffic.go:26-32, 76-102).                                    *)
Chained(i) ==
  LET before == {j \in RowsOf(rows[i].key) : j < i}
  IN /\ before = {} => rows[i].delta = Zero
     /\ \A j \in before :
          (\A m \in before : m <= j) =>
             \A d \in Directions :
               LET new == rows[i].total[d]
                   old == rows[j].total[d]
               IN rows[i].delta[d] = IF new < old THEN new ELSE new - old

RowsChain ==
  \A i \in DOMAIN rows : rows[i].key \notin gap \union misled => Chained(i)

(* MEMORY AGREES WITH THE DATABASE.  While the process runs, lastState     *)
(* knows exactly the logged peers, with the totals of their last rows, for *)
(* every peer no insert or load of which failed (traffic.go:99-110 against *)
(* sqlite.go:27-59).                                                       *)
MemoryMatchesDb ==
  pc # "down" =>
    \A k \in Keys \ (gap \union misled) :
      /\ k \in seen <=> k \in Logged
      /\ \A i \in RowsOf(k) : IsLast(i, k) => lastState[k] = rows[i].total

(* NO SOURCE IS STARVED.  A source whose container is gone, or whose dumps *)
(* time out, or whose inserts fail, never keeps the collector from coming  *)
(* round to every source again and again (traffic.go:41-54, 59-66).        *)
SourceNotStarved ==
  \A s \in Sources : []<>(pc = "dumping" /\ cur = s)

(* THE COLLECTOR IMPLEMENTS THE LEDGER.  Seen from outside, every step is  *)
(* a byte carried, a sample that records no more than is unrecorded, or    *)
(* nothing at all, while the clock is never set back (MaxClockSteps = 0).  *)
Ledger == INSTANCE TrafficLedger
ImplementsLedger == Ledger!Spec

=============================================================================
