----------------------------- MODULE TrafficPanel -----------------------------
(***************************************************************************)
(* The traffic history in the browser: the range the user selects with the *)
(* buttons, the form or the chart (web/src/app/App.tsx,                    *)
(* features/traffic/TrafficChart.tsx), and the two queries that fetch the  *)
(* traffic of the peer and of the whole source for it (api/peers.ts).      *)
(*                                                                         *)
(* Which peer is shown is Dashboard's subject; here the source and the     *)
(* peer change at any moment.  What the collector answers to a request is  *)
(* TrafficQuery's; here an answer is the query it answers.                 *)
(*                                                                         *)
(* Of react-query it is assumed that the answers are kept by the key of    *)
(* their query, that a key which comes on display shows what is kept for   *)
(* it or is fetched, that one fetch per key is under way at a time, that a *)
(* failed fetch keeps what is shown, and that refetch() fetches a query    *)
(* that is not enabled as well.  Of echarts it is assumed that             *)
(* setOption(option, true) forgets the rectangle drawn on the chart.       *)
(* Effects run before the next event.                                      *)
(***************************************************************************)
EXTENDS Integers, FiniteSets

CONSTANTS
  Sources, Peers,  \* what traffic is fetched of
  Presets,         \* ranges that have a button
  FirstPreset,     \* the one selected at first
  Areas,           \* ranges a rectangle on the chart can span
  Inputs,          \* what the user types into the form
  Times,           \* times of the browser's clock, in milliseconds
  MaxDate,         \* a Date is at most so far from 1970, in milliseconds
  Invalid,         \* the Invalid Date
  Throws,          \* the outcome of a function that throws
  None,
  MaxFetches       \* bound: fetches under way

Ranges == {r \in [from : Int, to : Int] : r.from < r.to}

(* What the form holds at first. *)
DefaultDraft ==
  [from |-> [form |-> "relative", sign |-> "-", amount |-> 24, unit |-> "h"],
   to   |-> [form |-> "now"]]

ASSUME DateAssumption ==
  MaxDate \in Nat /\ MaxDate >= 86400000 /\ Times \subseteq 0..MaxDate

ASSUME TrafficPanelAssumption ==
  /\ FirstPreset \in Presets
  /\ Areas \subseteq [from : Int, to : Int]
  /\ Inputs \subseteq
       [form : {"now", "other"}] \union [form : {"absolute"}, at : Int]
         \union [form : {"relative"}, sign : {"-", "+", ""}, amount : Nat,
                 unit : {"m", "h", "d", "w"}]
  /\ DefaultDraft \in [from : Inputs, to : Inputs]
  /\ Invalid \notin Int /\ None \notin Int \union {Invalid}
  /\ None \notin Ranges \union Areas \union {Throws}
  /\ Throws \notin Ranges
  /\ None \notin Peers
  /\ None \notin [kind : {"traffic", "traffic-total"}, source : Sources,
                  peer : Peers \union {None},
                  request : [range : Presets] \union Ranges]
  /\ MaxFetches \in Nat

VARIABLES
  up,           \* the page is on display; an exception in render removes it
  tab,          \* the tab on display
  source, peer, \* the source and the peer on display
  selection,    \* rangeSelection
  lastPreset,   \* lastPresetRange
  editor,       \* rangeEditor
  draft,        \* customDraft, the fields of the form
  custom,       \* customSelection, what they meant when one was edited last
  data,         \* what the two queries show
  fetches,      \* the queries whose answer is under way
  area,         \* the rectangle on the chart
  lastApplied,  \* lastAppliedRangeRef of the chart
  \* history
  superseded    \* since lastApplied was applied, the user has chosen another
                \* range with a button or the form

form == <<editor, draft, custom>>
shown == <<source, peer, selection>>
chart == <<area, lastApplied, superseded>>
queries == <<data, fetches>>
vars == <<up, tab, shown, lastPreset, form, chart, queries>>

-----------------------------------------------------------------------------
(* The fields of the form.                                                 *)

Multipliers ==
  [m |-> 60 * 1000, h |-> 60 * 60 * 1000,
   d |-> 24 * 60 * 60 * 1000, w |-> 7 * 24 * 60 * 60 * 1000]

Sign(input) == IF input.sign = "+" THEN 1 ELSE -1
Offset(input) == Sign(input) * input.amount * Multipliers[input.unit]
DateAt(t) == IF t \in -MaxDate..MaxDate THEN t ELSE Invalid

(* A relative time may leave the range of Date, which is only tested for   *)
(* an absolute one.                                                        *)
ParseRangeInput(input, t) ==
  IF input.form = "now" THEN t
  ELSE IF input.form = "relative" THEN DateAt(t + Offset(input))
  ELSE IF input.form = "absolute" /\ DateAt(input.at) # Invalid THEN input.at
  ELSE None

(* Mutant: a range that is empty is accepted. *)
ParseEmptyRange(d, t) ==
  LET from == ParseRangeInput(d.from, t)
      to   == ParseRangeInput(d.to, t)
  IN  IF None \in {from, to} THEN None
      ELSE IF Invalid \in {from, to} THEN Throws
      ELSE IF from > to THEN None ELSE [from |-> from, to |-> to]

(* The comparison with an Invalid Date is false, and its toISOString       *)
(* throws.                                                                 *)
ParseCustomRange(d, t) ==
  LET from == ParseRangeInput(d.from, t)
      to   == ParseRangeInput(d.to, t)
  IN  IF None \in {from, to} THEN None
      ELSE IF Invalid \in {from, to} THEN Throws
      ELSE IF from >= to THEN None ELSE [from |-> from, to |-> to]

-----------------------------------------------------------------------------
(* Selections and the queries that follow from them.                       *)

Preset(p) == [type |-> "preset", value |-> p]
Selected(type, range) == [type |-> type, from |-> range.from, to |-> range.to]

TrafficRequest(sel) ==
  IF sel.type = "preset" THEN [range |-> sel.value]
                         ELSE [from |-> sel.from, to |-> sel.to]

Kinds == {"traffic", "traffic-total"}

(* The query of the whole source names no peer. *)
Query(kind, s, p, sel) ==
  [kind |-> kind, source |-> s,
   peer |-> IF kind = "traffic" THEN p ELSE None,
   request |-> TrafficRequest(sel)]

Current(kind) == Query(kind, source, peer, selection)
Enabled(q) == q.kind = "traffic-total" \/ q.peer # None

(* Mutant: the range is left out of the key. *)
KeyWithoutRange(q) == <<q.kind, q.source, q.peer>>

QueryKey(q) == <<q.kind, q.source, q.peer, q.request>>

(* What a query shows: the query whose answer it has, and whether it is    *)
(* loading its first one.                                                  *)
Nothing == [asked |-> None, loading |-> FALSE]
Loading == [asked |-> None, loading |-> TRUE]
Answer(q) == [asked |-> q, loading |-> FALSE]

(* What a query that comes on display may show: an answer that was kept,   *)
(* or none yet.                                                            *)
FirstViews(q) ==
  {Answer(q), IF Enabled(q) \/ q \in fetches THEN Loading ELSE Nothing}

-----------------------------------------------------------------------------
(* The queries of the next state's source, peer and selection come on      *)
(* display.                                                                *)
Coming(kind) == Query(kind, source', peer', selection')

Views(kind) ==
  IF QueryKey(Coming(kind)) = QueryKey(Current(kind))
  THEN {data[kind]} ELSE FirstViews(Coming(kind))

Observe ==
  \E ofPeer \in Views("traffic"), ofAll \in Views("traffic-total") :
    /\ data' = [k \in Kinds |-> IF k = "traffic" THEN ofPeer ELSE ofAll]
    /\ fetches' = fetches \union
         {Coming(k) : k \in {kind \in Kinds : data'[kind].loading}}

(* The chart is drawn anew when it has other points or begins or ends to   *)
(* load.                                                                   *)
Redrawn(drawn) ==
  LET before == data["traffic"]
      after  == data'["traffic"]
  IN  IF before.asked = after.asked /\ before.loading = after.loading
      THEN drawn ELSE None

Room == Cardinality(fetches) < MaxFetches

Init ==
  /\ up = TRUE /\ tab = "traffic"
  /\ source \in Sources /\ peer = None
  /\ selection = Preset(FirstPreset) /\ lastPreset = selection
  /\ editor = "closed"
  /\ draft = DefaultDraft
  /\ custom \in {ParseCustomRange(draft, t) : t \in Times}
  /\ data = [k \in Kinds |-> IF k = "traffic" THEN Nothing ELSE Loading]
  /\ fetches = {Query("traffic-total", source, peer, selection)}
  /\ area = None /\ lastApplied = None /\ superseded = FALSE

-----------------------------------------------------------------------------
(* The range is selected.                                                  *)

OnTraffic == up /\ tab = "traffic"

(* A button, or the form: the chart is not told. *)
Choose(sel) ==
  /\ selection' = sel
  /\ editor' = "closed"
  /\ UNCHANGED <<source, peer>>
  /\ Observe
  /\ area' = Redrawn(area)
  /\ superseded' = (lastApplied # None)
  /\ UNCHANGED <<up, tab, draft, custom, lastApplied>>

ChoosePreset(p) ==
  /\ OnTraffic /\ Room
  /\ lastPreset' = Preset(p)
  /\ Choose(Preset(p))

ToggleEditor ==
  /\ OnTraffic
  /\ editor' = IF editor = "custom" THEN "closed" ELSE "custom"
  /\ UNCHANGED <<up, tab, shown, lastPreset, draft, custom, chart,
                 queries>>

(* The fields are parsed as they are edited, in render, and not again.      *)
Edit(field, input, t) ==
  /\ OnTraffic /\ editor = "custom"
  /\ draft' = [draft EXCEPT ![field] = input]
  /\ LET parsed == ParseCustomRange(draft', t)
     IN  \/ /\ parsed = Throws
            /\ up' = FALSE
            /\ UNCHANGED custom
         \/ /\ parsed # Throws
            /\ custom' = parsed
            /\ UNCHANGED up
  /\ UNCHANGED <<tab, shown, lastPreset, editor, chart, queries>>

ApplyCustom ==
  /\ OnTraffic /\ Room
  /\ editor = "custom" /\ custom # None
  /\ Choose(Selected("custom", custom))
  /\ UNCHANGED lastPreset

(* A rectangle was drawn on the chart.  The range applied last is ignored, *)
(* and so is one without length.                                           *)
Brush(a) ==
  /\ OnTraffic /\ Room
  /\ \/ /\ a \in Ranges /\ a # lastApplied
        /\ lastApplied' = a
        /\ selection' = Selected("chart", a)
        /\ editor' = "closed"
        /\ superseded' = FALSE
     \/ /\ a \notin Ranges \/ a = lastApplied
        /\ UNCHANGED <<lastApplied, selection, editor, superseded>>
  /\ UNCHANGED <<source, peer>>
  /\ Observe
  /\ area' = Redrawn(a)
  /\ UNCHANGED <<up, tab, lastPreset, draft, custom>>

(* A click beside the rectangle removes it; brushEnd then has no area. *)
RemoveArea ==
  /\ OnTraffic /\ area # None
  /\ area' = None
  /\ UNCHANGED <<up, tab, shown, lastPreset, form, lastApplied,
                 superseded, queries>>

(* Mutant: the chart still holds the range for the one applied last. *)
ClearAreaOnly == area' = None /\ superseded' = FALSE /\ UNCHANGED lastApplied

(* The signal clears the chart, and so does its toolbox. *)
ClearChart == area' = None /\ superseded' = FALSE /\ lastApplied' = None

(* The button Clear range, and the chart's Clear selection. *)
ClearSelection ==
  /\ OnTraffic /\ Room
  /\ selection' = lastPreset
  /\ editor' = "closed"
  /\ ClearChart
  /\ UNCHANGED <<source, peer>>
  /\ Observe
  /\ UNCHANGED <<up, tab, lastPreset, draft, custom>>

(* The chart is part of the tab Traffic and forgets its state with it. *)
OpenTab(t) ==
  /\ up /\ t # tab
  /\ tab' = t
  /\ area' = None /\ lastApplied' = None /\ superseded' = FALSE
  /\ UNCHANGED <<up, shown, lastPreset, form, queries>>

(* Another source or peer comes on display, by a click or with a new list. *)
Show(s, p) ==
  /\ up /\ Room
  /\ <<s, p>> # <<source, peer>>
  /\ source' = s /\ peer' = p
  /\ UNCHANGED selection
  /\ Observe
  /\ area' = Redrawn(area)
  /\ UNCHANGED <<up, tab, lastPreset, form, lastApplied, superseded>>

-----------------------------------------------------------------------------
(* The queries.                                                            *)

(* A fetch of a query that has no answer shows as loading. *)
Started(kind) == [data[kind] EXCEPT !.loading = (data[kind].asked = None)]

(* Mutant: a query whose first fetch failed is not polled. *)
PollOnlyAnswered(kind) ==
  /\ up /\ Enabled(Current(kind))
  /\ data[kind].asked # None
  /\ Current(kind) \notin fetches /\ Room
  /\ fetches' = fetches \union {Current(kind)}
  /\ data' = [data EXCEPT ![kind] = Started(kind)]
  /\ area' = Redrawn(area)
  /\ UNCHANGED <<up, tab, shown, lastPreset, form, lastApplied,
                 superseded>>

Poll(kind) ==
  /\ up /\ Enabled(Current(kind))
  /\ Current(kind) \notin fetches /\ Room
  /\ fetches' = fetches \union {Current(kind)}
  /\ data' = [data EXCEPT ![kind] = Started(kind)]
  /\ area' = Redrawn(area)
  /\ UNCHANGED <<up, tab, shown, lastPreset, form, lastApplied,
                 superseded>>

(* refreshAll: both queries are fetched, enabled or not. *)
Refresh ==
  /\ up /\ Room
  /\ fetches' = fetches \union {Current(k) : k \in Kinds}
  /\ data' = [k \in Kinds |-> Started(k)]
  /\ area' = Redrawn(area)
  /\ UNCHANGED <<up, tab, shown, lastPreset, form, lastApplied,
                 superseded>>

OnDisplay(q) == QueryKey(q) = QueryKey(Current(q.kind))

(* An answer arrives and is kept; it shows if its key is on display.  The  *)
(* points may be those that were there.                                    *)
Deliver(q) ==
  /\ up /\ q \in fetches
  /\ fetches' = fetches \ {q}
  /\ data' = IF OnDisplay(q) THEN [data EXCEPT ![q.kind] = Answer(q)] ELSE data
  /\ \/ area' = Redrawn(area)
     \/ q.kind = "traffic" /\ OnDisplay(q) /\ area' = None
  /\ UNCHANGED <<up, tab, shown, lastPreset, form, lastApplied,
                 superseded>>

(* The fetch and its retry failed. *)
Fail(q) ==
  /\ up /\ q \in fetches
  /\ fetches' = fetches \ {q}
  /\ data' = IF OnDisplay(q)
             THEN [data EXCEPT ![q.kind].loading = FALSE] ELSE data
  /\ area' = Redrawn(area)
  /\ UNCHANGED <<up, tab, shown, lastPreset, form, lastApplied,
                 superseded>>

Next ==
  \/ \E p \in Presets : ChoosePreset(p)
  \/ ToggleEditor \/ ApplyCustom
  \/ \E field \in {"from", "to"}, input \in Inputs, t \in Times :
       Edit(field, input, t)
  \/ \E a \in Areas : Brush(a)
  \/ RemoveArea \/ ClearSelection
  \/ \E t \in {"traffic", "debug"} : OpenTab(t)
  \/ \E s \in Sources, p \in Peers \union {None} : Show(s, p)
  \/ \E k \in Kinds : Poll(k)
  \/ Refresh
  \/ \E q \in fetches : Deliver(q) \/ Fail(q)

Spec == Init /\ [][Next]_vars

(* The queries on display are polled, a fetch ends, and one that is tried  *)
(* again and again is answered at last.                                    *)
DeliverCurrent(kind) == Deliver(Current(kind))
EndOther == \E q \in fetches \ {Current(k) : k \in Kinds} :
              Deliver(q) \/ Fail(q)

Fairness ==
  /\ \A k \in Kinds : WF_vars(Poll(k)) /\ SF_vars(DeliverCurrent(k))
  /\ WF_vars(EndOther)

FairSpec == Spec /\ Fairness

-----------------------------------------------------------------------------
Requests == [range : Presets] \union Ranges
QueryType == [kind : Kinds, source : Sources, peer : Peers \union {None},
              request : Requests]
ViewType == [asked : QueryType \union {None}, loading : BOOLEAN]
Selection ==
  [type : {"preset"}, value : Presets]
    \union {sel \in [type : {"chart", "custom"}, from : Int, to : Int] :
              sel.from < sel.to}

(* TYPE INVARIANT.  Every component has its type; above all, no range that *)
(* is applied or waits in the form is empty or upside down, which the      *)
(* handler would refuse (App.tsx:367-383, TrafficChart.tsx:216-227).       *)
TypeOK ==
  /\ up \in BOOLEAN /\ tab \in {"traffic", "debug"}
  /\ source \in Sources /\ peer \in Peers \union {None}
  /\ selection \in Selection
  /\ lastPreset \in [type : {"preset"}, value : Presets]
  /\ editor \in {"closed", "custom"}
  /\ draft \in [from : Inputs, to : Inputs]
  /\ custom \in Ranges \union {None}
  /\ data \in [Kinds -> ViewType]
  /\ fetches \subseteq QueryType
  /\ area \in Areas \union {None} /\ lastApplied \in Ranges \union {None}
  /\ superseded \in BOOLEAN

(* THE PANEL SHOWS WHAT IS SELECTED.  The traffic of the peer, that of the *)
(* source and the chart are answers to the source, the peer and the range  *)
(* on display, whichever answers arrive while the user selects others, and *)
(* both numbers are of the same range (App.tsx:83-106, 193-195, 299-309).  *)
PanelShowsSelection ==
  \A k \in Kinds : data[k].asked \in {Current(k), None}

(* A RECTANGLE ON THE CHART IS THE RANGE SELECTED, however it was drawn,   *)
(* cleared and drawn again.  The exception is the range applied last, when *)
(* a button or the form has replaced it since: the chart ignores it        *)
(* (TrafficChart.tsx:146-155, 178-187, App.tsx:141-145, 229-234, 313-322). *)
RectangleIsSelected ==
  area # None /\ area \in Ranges =>
    \/ selection = Selected("chart", area)
    \/ area = lastApplied /\ superseded

(* WHAT IS SELECTED IS SHOWN AT LAST.  When the user has settled on a      *)
(* source, a peer and a range, their traffic is shown in the end, even if  *)
(* the first fetches fail (App.tsx:94-106, main.tsx:7-15).                 *)
SettledIsShown ==
  <>[][UNCHANGED shown]_vars =>
    []<>(up => \A k \in Kinds :
                 Enabled(Current(k)) => data[k].asked = Current(k))

(* THE PAGE STAYS.  A time that is none disables the button Apply and      *)
(* nothing else: parseRangeInput tests for an Invalid Date and returns     *)
(* null (App.tsx:404-407).  The code does not test a relative time, and    *)
(* formatting it throws in render (App.tsx:368-376, 401).                  *)
PageStaysUp == up
=============================================================================
