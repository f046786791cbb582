# A TLA+ model of Amnezia Panel

Amnezia Panel is two programs from one Go binary and a set of shell scripts. A
**collector** runs in a container on the VPS next to the AmneziaVPN containers,
samples their WireGuard counters into SQLite and serves them over HTTP. A
**panel** runs in a container on the user's machine, serves the web interface,
forwards its reads to the collector through an SSH tunnel, and renames clients
by rewriting a file of the VPN container over SSH. The **scripts** install both,
keep connection profiles, and start and update everything.

These modules model that system for TLC, and prove with TLAPS all that is checked
but liveness. `PROJECT.json` holds the machine-readable side: components, runs,
mutants, the lines every definition stands for, findings, hazards and theorems.

## Inventory

| Component | State it keeps | Operations | Talks to | Hard part |
| --- | --- | --- | --- | --- |
| traffic collector (`internal/collector`) | `lastState` per source and peer | one collection a minute: dump, compare, insert | VPN containers (Docker API), sample store | crashes, failed inserts, counters that restart, a clock that moves |
| sample store (`internal/db`) | table `peer_samples` | migrate, insert, `LatestPeerTotals`, `trafficSamples` | collector and every HTTP request, over one connection | who reads what between two inserts; the schema migration |
| traffic query (`web/handlers.go`) | none | `GET /api/traffic` | sample store | parameters that are missing, wrong or overflow; buckets out of a map |
| peer list (`web/handlers.go`, `wg/parser.go`) | none | `GET /api/peers` | VPN containers | two reads that need not agree, one of which may fail unnoticed |
| VPN sources (`wg/config.go`, `wg/collector.go`) | configuration | parse, dump, read clients | Docker API | a text format parsed leniently |
| clientsTable (`wg/clients_table.go`) | a JSON file it shares with AmneziaVPN | read, rewrite with one new name | - | two formats, fields it does not know, duplicate ids |
| client administration (`internal/admin`, `web/admin.go`) | the operation lock | `RenameClient` | remote files | concurrent requests; every error path |
| remote files (`admin/ssh_docker_files.go`) | a remote temporary file | read, atomic write | `ssh`, `docker exec` | a remote job that survives its client |
| installer (`scripts/installer`) | profiles, containers, the tunnel | `run_install` | Docker on both sides, `ssh` | stopping half-way; what a rerun finds |
| command `amnezia-panel` (`profile.sh`) | the same | start, `use`, `update` | the same | a socket and a container shared by all profiles; a profile written half |
| releases (`.github/workflows/release.yml`) | the two published images | push the panel's, then the collector's | whoever pulls | an update between the two pushes |
| update check (`web/update.go`) | the local image tag | pull and compare | Docker | moves the tag under the scripts |
| proxy, bearer token (`web/proxy.go`, `web/auth.go`) | none | forward, compare tokens | tunnel | tokens on two machines must agree |
| web interface (`web/src`) | selections, the form, the rectangle on the chart, react-query's cache | poll, select, rename, select a range | panel | answers that arrive after the user moved on; a selection kept in three places |
| Docker client, debug page, static files | none | I/O | Docker, `/proc` | - |

What makes each of them correct, in a sentence: the collector never stores more
traffic than there was and chains its rows; a query's totals are the stored
samples of its window, and stay so once it is over but for a sample that waited;
a rename changes one name and is honest about it; the
lock is always let go; a script that ends leaves the panel of its profile, with
tokens that agree and images the user agreed to; the browser sends a rename to
the client the user chose, does not show names from before a confirmed one, and
shows the traffic of the range and the peer that are selected, at last in any case.

## Modules

| Module | Models | Notes |
| --- | --- | --- |
| `TrafficLedger` | the abstract collector | bytes move from unrecorded to recorded, each once |
| `TrafficCollector` | `internal/collector`, the inserts and `LatestPeerTotals` | implements `TrafficLedger` |
| `TrafficCollectorProofs` | - | seven theorems |
| `TrafficQuery` | `GET /api/traffic` beside the inserts of the collector | operators for the handler, in a state machine of one request |
| `TrafficQueryProofs` | - | six theorems |
| `ClientsTable` | `clients_table.go` | reader against rewriter |
| `ClientsTableProofs` | - | four theorems |
| `RenameRegister` | the abstract rename | an atomic register of names with honest answers |
| `RenameClient` | `internal/admin`, `web/admin.go` | implements `RenameRegister`; its table is abstracted by what `ClientsTable` shows of a rewrite |
| `RenameClientProofs` | - | six theorems |
| `Deployment` | installer, command, uninstaller, update check, releases | both images, both containers, the tunnel, the profiles |
| `DeploymentProofs` | - | six theorems |
| `Dashboard` | `App.tsx` and `GET /api/peers` | list, selection, form, and the answers under way |
| `DashboardProofs` | - | five theorems about `Dashboard`, five about `Format` |
| `TrafficPanel` | `App.tsx`, `TrafficChart.tsx`, `api/peers.ts` | the ranges of the traffic history and its two queries |
| `TrafficPanelProofs` | - | three theorems |
| `Format` | `lib/format.ts` | pure operators, only proved about |
| `DataTheorems` | - | lemmas on sums, folds, extrema and ordered sequences the other proofs share |

Each `MC...` module extends its module with the values TLC needs. Operators
called "Mutant" in a comment are plausible mistakes in the definition after
them; no specification uses them. They are there to show that each property
notices something.

### TrafficCollector

`rows` is the table in the order of insertion; `seen` and `lastState` are the
keys and the values of the map of that name; `dump` and `listed` the parsed dump
and the peers of it that are still to be handled, `pc` and `cur` where `Run`
stands. `Tick` is the ticker, `DumpOk` and `DumpFails` the dump and its parse, which may
pass over any of the peers (`ParseDump`: a line it takes for a short one, while the
counters of the peer run on), `RecordSample` the body of the
loop for one peer in the order the code has it: the delta, `lastState`, the
insert. `RecordFails` is the same with an insert that fails, after which
`lastState` is ahead of the table. `EndSource` goes to the next source.
`StartProcess` is `New`, with a load that succeeds, fails, or is cut off by a
row that does not scan. `Crash` loses all of the process and none of the rows.
The outside world: the interface carries traffic (`Carry`), its counters start
again when its container restarts (`RestartSource`), peers come and go, and the
wall clock may be set back (`ClockStepsBack`), which matters because the newest
row is found by `MAX(collected_at)`. Two inserts never see the same time unless
the clock went back between them (the code takes nanoseconds). Counters do not
wrap: 64 bits of bytes are out of reach.

History variables hold what the interface really carried (`carried`), the peers of
which an insert or a load failed (`gap`), and those a start took up from a row that
was not the last one (`misled`), so that properties can name their exceptions.
`recorded` is no variable: it sums the rows of a peer.

### TrafficQuery

Time is a number of the smallest unit; `Second`, `Minute`, `Hour` are lengths in
it, and a duration wraps beyond `MaxDuration`, so that the overflow of
`time.Duration(seconds) * time.Second` is one of the small instances. The
handler is a composition of operators with the names of the Go functions:
`ParseDuration`, `ParseWindow`, `DefaultBucket`, `Selected` (the `WHERE` clause
and the loop's check against the end of the window), `Bucket`, `Point`, `Sort`.
The order in which a Go map yields the buckets is any order.

A time has the zone its value is written in. SQLite has no times: the driver stores
and compares their text, which is that of the zone, so `NotBefore` compares what a
start reads as and not when it is; the end is compared by the handler, as a time.
Stored times are in the server's zone, UTC.

The state machine around the handler has the one database connection as the order of
its steps. A sample is stamped (`Stamp`) before its insert has the connection
(`Store`), and a request takes the time (`Ask`) before its query has it (`Reply`), so
the two may cross. One request is asked; `asked` also remembers, as history, how many
rows its query came upon and which sample waited then. A clock that goes back is not
part of this module, nor are times beyond the range of `time.Time`.

### ClientsTable

One variable, the content of the file, in either format. An entry is its id, its
name, and whether its other fields are known, unknown or of a wrong type.
`ParseClientsTable` is the typed reader, `Documents`, `RenameClient` and
`Marshal` the raw rewriter; a legacy file is written back in the current format,
in any order. The typed reader of Go matches the keys of an entry whatever their
case and the raw map does not; AmneziaVPN writes them in one case, and a file with
others is not part of the model.

### RenameClient

One process per request (`pc`), one lock per panel, and one remote shell job per
request: `cat` to a temporary file (`JobReceives`), `mv` (`JobMoves`). The job is
not part of the request. `Disconnect` ends a request whose ssh client was killed
(a cancelled request) or lost its connection, and leaves the job running. The
connection may also be gone at the job's end first (`RemoteEndLost`): the request
then waits until the keepalive gives up, while the job no longer has anything to read.
A job whose input ends early moves a truncated file into place (`JobIsCut`), in either case.
`EditExternally` is AmneziaVPN, `PanelCrash` the panel's container. `odd` stands
for tables on which `ClientsTable` shows that a rewrite is not seen by the
reader.

### Deployment

`run` is the script that runs: what it was asked for and what it found. Its steps
follow the scripts: `Pull`, `Answer`, `RemoveCollector`, `StartCollector`,
`RemovePanel`, `KeepTunnel` or `OpenTunnel`, `Discard` (the conditions under which
the command recreates the panel), `StartPanel`, `SaveProfile`. `Stop` may happen
before each of them (`set -e`, or the user). Images are version numbers; `tag` is
the version behind the local tag and `published` those the registry hands out. A
release pushes the panel's image (`PublishPanel`) and only then builds and pushes the
collector's (`PublishCollector`); anything may be pulled in between. `outrun` says, as
history, that a collector's image was pulled in such a gap. No script repairs what an
update in the gap leaves behind, because only the panel's image is compared
(`profile.sh:515`). Releases do not go back.

`save_profile` truncates the profile and appends to it, so it is four steps here: what
comes before the token, the token, the host, and the copy `profile.env`. A script that
stops between them leaves a profile from which the command stops (`set -u`) until the
host is there, and for which the installer makes a new token until the token is
there. The four lines after the host's are written with it, and the `cp` is one step.

The dialogue is reduced to its outcome: a profile's name, a host when no profile says
it, and a port. The port stored in a profile is left out, because the user may choose
any port at every start.

### Dashboard

`lists` is react-query's cache of peer lists, `fetch` the request under way per
source, in the steps of the handler: the dump and the clients are read one after
the other, and the second may fail. `picked` is `selectedKey`; `EffectiveKey`
falls back to the first row as the code does. `draft` is the peer for which the
rename form was opened. Names and keys carry a rank, so that the order by
lower-case name with ties broken by key is the real one. The behaviour of
react-query is assumed from how the code uses it (see the module's header).
Reloading the page and the debug tab's data are not modelled.

### TrafficPanel

Three pieces of state say which range is selected, and nothing but the handlers
keeps them together: `selection` with `lastPreset` in the page, `draft` and
`custom` in the form (what its fields meant when one was edited last), and `area`
with `lastApplied` in the chart, the second of which is a `useRef` the page knows
nothing of. `data` is what the two queries show, as the query whose answer it is;
`fetches` are the queries under way. An action of the user computes the queries
of the next state, and `Observe` gives them the answer that was kept for their key,
or starts a fetch. `Poll`, `Refresh`, `Deliver` and `Fail` are the queries' own
steps. `Redrawn` is the effect that draws the chart anew, which forgets the
rectangle. `ParseRangeInput` keeps the one thing that matters of `Date`: that it
has an end. The source and the peer on display change at any moment (`Show`);
`Dashboard` says which they are.

### Format

`FormatBytes`, `GetPeerStatus` and `FormatRelativeHandshake`, as arithmetic on
integers. What they promise is proved for all values, so there is no run.

## Runs

| Run | Question | Answer |
| --- | --- | --- |
| `collector_safety` | Do crashes, counter restarts, failed inserts, failed loads or a clock set back make the collector count twice or lose its place? | No, except for rows that a clock set back makes look older than they are; `OnlyClockMisleads` says that nothing else does |
| `collector_ledger` | Seen from outside, does traffic only go from unrecorded to recorded, and does every source get its turn? | Yes, if the clock does not go back |
| `query` | Is an answered window usable, does an answer for a window that is over lack at most the sample that waited for its insert, does the chart add up, run forward and stand where its samples are? | Yes. A number of seconds that wraps to a short positive length is answered as that length |
| `query_zone` | Are the totals those of the samples stored between the two times of the request? | **No**, see findings |
| `clients_table` | Do reader and rewriter agree? | Yes; with a client listed twice the rename is not seen, which the service reports |
| `rename` | With two panels, connections lost at either end, crashes and other writers: is the lock let go, is no rename lost while a panel is alone, is an answered request finished, and is each rename atomic until then? | Yes, as far as the properties say: a request that lost touch with its job settles nothing, and its job may write late or cut the table |
| `deployment` | With scripts that stop anywhere, also while they save a profile, and images published one after the other and pulled at any moment: does a script that ends leave the panel of its profile, do tokens agree, does accepting an update change both containers and declining neither, and when does a collector fall behind? | Yes, but for a collector pulled between the two pushes of a release, and for a token once the command ran on a `profile.env` the profile no longer agrees with; a collector falls behind in such a gap or after an unannounced start |
| `deploy_tunnel` | Does the command end with the tunnel of its profile? | **No**, see findings |
| `dashboard` | Do renames go where the user chose, and does the screen keep a confirmed name? | Yes |
| `dashboard_form` | Does the form rename the client it was opened for? | **No**, see findings |
| `panel` | Does the panel show the traffic of what is selected, is a rectangle on the chart the range selected, and is what the user settles on shown in the end? | Yes; the rectangle of the range applied last is ignored once a button or the form has replaced it |
| `panel_crash` | Does the page survive every input of the form? | **No**, see findings |

### Bounds

* `TrafficCollector`: up to two sources or two peers, two units of traffic, three
  rows, a few faults (crash, failed insert, failed load, failed dump) and one
  clock step. Three rows let an older one win over two newer ones; two faults
  let a crash follow a restart of the container or a failed insert.
* `TrafficQuery`: two samples of two peers and two sources at three times, a second of
  two units, durations of sixteen bits, and zones two units to either side. Two
  samples share a bucket or do not, and one of them can wait while the other is found;
  the ranges include one on each side of both kinds of wrap-around and one for most
  default buckets.
* `ClientsTable`: every file of up to three entries, two ids and two names. A
  duplicate needs two entries, and the third is the one that must not change.
* `RenameClient`: two panels, two requests and two faults. A lost update needs two
  writers, on one panel or on two; a fault of each of two kinds can meet.
* `Deployment`: two profiles on two hosts, one port, two tokens, two versions of each
  image and one script that stops while it saves a profile. One profile is `default`,
  which stands for the profile saved last; a second host is what a collector that was
  left behind needs; two versions are a release and its gap. A panel on another port
  is recreated like one of another profile, and only the theorem covers it. The host
  of the tunnel is left out of the view TLC compares states by: no other variable
  depends on it. `deploy_tunnel` needs no new versions and no view.
* `Dashboard`: two peers, a source with and one without peers, two names that
  differ by case, one change by others. Two rows are enough to change places.
* `TrafficPanel`: one source, one peer that comes and goes, two buttons, two
  rectangles (one of them empty), four inputs of the form, and two fetches under
  way, so that the answers of two selections overtake each other. A Date ends
  5.8 days after 1970 and the clock stands at one day, so that "1w" leaves its
  range and 24 hours do not.

### Fairness

* The collector's `Collect` steps are weakly fair: they are the code of one
  goroutine, every dump has a timeout of ten seconds (`traffic.go:56-61`), the ticker
  fires again and again, and Docker restarts the process (`--restart
  unless-stopped`, `remote.sh`). Crashes, restarts of containers and traffic are not fair.
* `TrafficPanel`: the two queries on display are polled (weakly fair: every 30
  seconds while the page is visible, `App.tsx:98`, `105`), every other fetch ends (weakly
  fair: the proxy and the server have time limits), and a query that is fetched again and again is
  answered at last (strongly fair: the collector is not down for ever). Nothing
  the user does is fair, and nothing is promised while he keeps changing his mind:
  `SettledIsShown` is about a selection that stays.
* The other modules state safety only. That every rename ends is not stated: there is no
  limit to the time a remote command may take while its connection is up
  (`service.go:80`; the keepalive notices a dead connection only), and such a request
  would hold the lock for as long.

The runs that allow the system to stop say so: the query is asked once, a table
may have nothing to rename, all requests may be answered, a user may have
nothing left to do within the bounds, and a page that has crashed stays blank.

## Proofs

All theorems hold for every value of the constants that satisfies the named
assumptions of the modules. These type the constants, keep the null values apart
from what they are compared with, and say nothing about the bounds.

The theorems state every invariant and every action property that a passing run
checks, `PROJECT.json` lists them.

`TrafficCollectorProofs`: type correctness; `NoOvercount`; `OnlyClockMisleads`;
`RowsChain`; `MemoryMatchesDb`; and the refinement of `TrafficLedger`,
the last one under the assumption that the clock takes no step back
(`MaxClockSteps = 0`). Without that assumption every step of a collector whose
starts all took up the last row of a peer is still a step of the ledger
(`LedgerUnlessMisled`). `NoOvercount` is not inductive: that a delta may be stored
depends on the total it is measured against. The inductive invariant `SafeDeltas`
says, of every total the next sample can be measured against (the peer's last row,
which a start takes up; the value in `lastState`; the dump that is being recorded),
that it leaves room for the delta up to the present counter. A restart of the
interface, an insert and a failed insert then disturb one conjunct each. `RowsChain`
and `MemoryMatchesDb` are inductive only together. What is recorded is a sum over any number of rows, which
gains one term with one more row (`TotalWith`).

`RenameClientProofs`: type correctness; `LockDiscipline`;
`AnswerSettles`; `WriteIsFresh`; and the refinement of `RenameRegister`: for any number of panels, crashes
and lost connections, of every step before and after which no job is orphaned and
no request has shared the table with another writer (`UndisturbedImplementsRegister`, which
the run checks), and of every behaviour of one panel without faults
(`RenameImplementsRegister`, which only the proof covers). The
argument rests on the lock: a request at work holds it, so while nobody was
disconnected there is at most one live job per panel, and what it writes is the
table it read. A panel that crashes loses one request at most, which the register
sees answered with an error. `JobInv` says for each stage of a request which stages
its job can be in; without it none of the others is preserved by a step of the job.

`ClientsTableProofs`: type correctness; `ShownClientCanBeRenamed`; `RenamesCommute`;
`RenameKeepsEverything`; all of them for files of any length. The state has one
variable and the properties are nearly invariants of a single state; the work is in
the operators. `WithIds` is a loop (`FoldLeft`) and its entries are those of the file
at certain places, in order (`Picks`); a rename changes one of them and no id
(`RenameKeepsIds`), so that it may be done before that loop or after it
(`WithIdsOfRename`), before the rewrite of a legacy file in any order or after it,
and before another rename or after it. What the reader sees is a function of the
last entry of each id, and what the rewriter changes is the first.

`TrafficQueryProofs`: type correctness; `WindowIsUsable`; `ClosedWindowSettles`;
`PointsAddUp`; `PointsSpanTheirSamples`; and that a bucket
starts near its samples (`BucketIsNear`). `WindowIsUsable` is a fact about the parsing of a
request and a duration that wraps (`WrapFits`). `ClosedWindowSettles` is that of the
crossing steps: its inductive invariant remembers, of an answer, that its totals sum the
rows its query came upon, and of every row stored since, that it is the sample that
waited then or was stamped later, no earlier than the request. For the chart it
remembers that the points are those of the rows found (`Charted`). That they add up is
summing by bucket and then over the buckets, which counts every sample once; that
they come in order is that the sort inserts a point after all those not later,
round by round, for any order of the map.

`DeploymentProofs`: type correctness; `TokensAgree`; `CollectorBehindForTwoReasons`;
`PanelFitsRun`; `DeclineKeeps`; `AcceptUpdatesBoth`. A script changes things in
a fixed order and may stop between any two, so each property of what it leaves
needs to know, for each stage of the script, what is done and what has not been
touched: `RunInv` says it of the script itself, `ProfilesWritten` of the profiles (they
name themselves, and name no host before they have a token), `TokenInv` of the tokens
(a script that runs agrees with what its profile stores, as far as that is written, and
so do the panel and the collector it leaves), `ImageInv` of the images (no image is from
the future, what was found is still there until the script removes it, and an accepted
update has the image announced or one that is outrun), and `BehindInv` of the pair a
panel and its collector make while a script runs.

`DashboardProofs`: type correctness; `RenameStaysInSource`; `PickedPeerIsRenamed`;
`ConfirmedNameStays`; `OrderIsStable`. `ConfirmedNameStays` is the hard one: lists that
were read before a rename was confirmed are still under way afterwards, and
`ConfirmedInv` says of every list that can arrive from then on which name it holds. It
is preserved because the confirmation cancels the fetch under way (`Invalidate`).
`OrderIsStable` follows from `OrderInv`: every list, shown or under way, ascends by
name and then key, which is a strict order because keys differ
(`BeforeIsStrict`), and a set has one ascending sequence only.

The same module proves of `Format`: an amount is shown to within half of its last
digit; an age to within half of its unit and of every smaller one, though each unit is
rounded from the one before it; an older handshake never reads as more recent; online
peers read as seconds or a minute, and offline ones never as seconds.

`TrafficPanelProofs`: type correctness; `PanelShowsSelection`, from the fact that
the key of a query names everything it asks for (`KeyIsWhole`);
`RectangleIsSelected`, whose invariant `ChartInv` says that the chart's own memory of
the range it applied last is the selection until a button or the form supersedes it.

`DataTheorems`: what the recursive operators of the community modules compute. The
library's induction theorems take an operator as a parameter, which the installed
provers cannot instantiate, so induction is done there over a set: the set of the
numbers that have a property contains 0 and the successor of each of its members,
so it contains all (`NatInductive`), and likewise for the subsets of a finite set
(`SubsetInductive`). From these come the equations of `SumFunction` and of `FoldLeft`,
that summing by key and then over the keys sums everything once (`TotalByKey`), and that a finite set has at
most one sequence in a strict order.

Only model-checked:

* liveness, which is outside the prover: `SourceNotStarved`, `SettledIsShown`;
* the violations (`TotalsMatchSamples`, `TunnelFollowsProfile`, `OpenedPeerIsRenamed`, `PageStaysUp`).

The proofs assume of the configuration that it names a source, without which the
collector does not start (`config.go:70`). Two sources with the same id are one to the
table and to the query, as they are to the code; the collector's model takes ids for
distinct, as the installer writes them (`remote.sh:143-159`), and says nothing of a
hand-written configuration that gives one protocol to two containers.

## Findings

* `query_zone`: a start written with an offset of its own, as RFC3339 has it, is kept
  with that offset and compared with the stored times by its text (`handlers.go:178`,
  `sqlite.go:80-83`): `12:00+02:00` counts from 12:00 UTC and not from 10:00. The web
  client sends UTC only.
* `deploy_tunnel`: the control socket is one for all profiles, and `ssh -O check`
  asks the master behind it whatever host it leads to. `amnezia-panel use B` while
  the tunnel of A is alive keeps A's tunnel (`profile.sh:535-542`).
* `dashboard_form`: the rename form is filled in for the peer selected when it
  opens, and renames the one selected when it is submitted. While the user has
  clicked no row that is the first of a list whose order changes when a client is
  renamed elsewhere or the clients could not be read once (`App.tsx:76, 515-524`).
* `panel_crash`: a relative time beyond the range of `Date`, as `-999999999d`, is an
  Invalid Date that only the branch of the absolute times is tested for; formatting it
  throws while the page renders, nothing catches that, and the page goes blank
  (`App.tsx:401, 406`).

The models also show some things no document speaks of, which are therefore no
findings:

* A command that recreates the panel without an update of its own starts what the
  tag stands for, which the panel's hourly check may have moved (`profile.sh:604`,
  `update.go:73`): a newer panel starts unasked and the collector stays behind. This
  is what `unannounced` stands for.
* A connection that is lost while a table is written may leave a truncated table, also
  while the request still waits; later renames refuse it (`ssh_docker_files.go:45`).
* What `ssh` prints on stderr becomes part of the file that is read
  (`ssh_docker_files.go:69`); a read that does not parse ends the rename before
  anything is written.
* "now" and relative times of the form mean the time of the last edit, not that of
  Apply (`App.tsx:56`).
* After a rectangle has been replaced by a button or the form, drawing the same one
  again does nothing (`TrafficChart.tsx:151`).
* Refreshing while no peer is selected fetches the peer's traffic with an empty key,
  which the collector answers with that of the whole source (`App.tsx:345`,
  `handlers.go:101-105`).
* A pull that fails half-way ends with status 200, which the update check takes for a
  success; it then finds the image "up to date" (`update.go:73`).

## Not modelled

* The text of a dump (of `ParseDump` only which peers it returns is modelled), the Docker API client, the debug page, the
  static files, and the building of ssh command lines: formatting and I/O.
* The single database connection as a resource (that users wait for it is in
  `TrafficQuery`): every user reads its rows to the end before it does anything else and none needs a second connection, so there is nothing but
  a queue. The migration runs once, before anything else, in one goroutine, and
  each of its statements can be repeated.
* The forwarding chain from browser to collector, which keeps nothing; the update
  check's banner; the drawing of the chart.
* The installation of Docker on the VPS and the discovery of containers: their
  only effect here is that a script stops.
* The data race on `DockerSource.Docker` (`wg/collector.go:71-77`): both writers
  store equal clients.

## Plan

In the order of importance; what exists is marked.

1. Collector, ledger, their proofs (done). The collector loses and counts bytes:
   it is what the panel is for.
2. Rename, register, clientsTable, and their proofs (done): the only operation
   that changes the VPN's data.
3. Traffic query, deployment, dashboard, and their proofs (done).
4. Ranges of the traffic history: buttons, form and chart against what is fetched
   and shown, and their proofs (done).
5. Chain: browser, proxy (30 s), tunnel, token, collector (10 s), with an abstract
   "an answer is the collector's own or an error".
6. The update check's answer and banner, and the debug page.
7. A refinement of a combined panel-and-table specification by `RenameClient` with
   `ClientsTable` inside.
