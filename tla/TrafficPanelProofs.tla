-------------------------- MODULE TrafficPanelProofs --------------------------
(***************************************************************************)
(* Theorems of TrafficPanel, for any sources, peers, ranges and inputs, in *)
(* whatever order the user acts and answers arrive.                        *)
(***************************************************************************)
EXTENDS TrafficPanel, TLAPS

-----------------------------------------------------------------------------
(* Selections, queries and keys.                                           *)

(* The request of a selection is one the server knows. *)
LEMMA RequestType ==
  ASSUME NEW sel \in Selection
  PROVE  TrafficRequest(sel) \in Requests
<1>1. CASE sel \in [type : {"preset"}, value : Presets]
  BY <1>1 DEF TrafficRequest, Requests
<1>2. CASE /\ sel \in [type : {"chart", "custom"}, from : Int, to : Int]
           /\ sel.from < sel.to
  <2>1. sel.type # "preset"
    BY <1>2
  <2>2. [from |-> sel.from, to |-> sel.to] \in Ranges
    BY <1>2 DEF Ranges
  <2> QED BY <2>1, <2>2 DEF TrafficRequest, Requests
<1> QED BY <1>1, <1>2 DEF Selection

(* A range chosen in the chart or the form is a selection. *)
LEMMA SelectedType ==
  ASSUME NEW r \in Ranges, NEW type \in {"chart", "custom"}
  PROVE  Selected(type, r) \in Selection
BY DEF Selected, Selection, Ranges

(* A preset is one, too. *)
LEMMA PresetType ==
  ASSUME NEW p \in Presets
  PROVE  /\ Preset(p) \in [type : {"preset"}, value : Presets]
         /\ Preset(p) \in Selection
BY DEF Preset, Selection

(* The key of a query, and the kind it keeps. *)
LEMMA QueryIsTyped ==
  ASSUME NEW k \in Kinds, NEW s \in Sources, NEW p \in Peers \union {None},
         NEW sel \in Selection
  PROVE  Query(k, s, p, sel) \in QueryType /\ Query(k, s, p, sel).kind = k
BY RequestType DEF Query, QueryType

(* The key names everything that a query asks for. *)
LEMMA KeyIsWhole ==
  ASSUME NEW q \in QueryType, NEW r \in QueryType, QueryKey(q) = QueryKey(r)
  PROVE  q = r
BY DEF QueryKey, QueryType

(* The query of what is shown now. *)
LEMMA CurrentIsTyped ==
  ASSUME TypeOK, NEW k \in Kinds
  PROVE  Current(k) \in QueryType /\ Current(k).kind = k
BY QueryIsTyped DEF TypeOK, Current

(* The three values the next selection is made of. *)
ShownType == /\ source \in Sources /\ peer \in Peers \union {None}
             /\ selection \in Selection

(* The query of what is shown after the step. *)
LEMMA ComingIsTyped ==
  ASSUME ShownType', NEW k \in Kinds
  PROVE  Coming(k) \in QueryType /\ Coming(k).kind = k
BY QueryIsTyped DEF ShownType, Coming

-----------------------------------------------------------------------------
(* What comes on display.                                                  *)

(* What the observer of a query may show. *)
LEMMA ViewsAreTyped ==
  ASSUME TypeOK, ShownType', NEW k \in Kinds, NEW view \in Views(k)
  PROVE  view \in ViewType
<1>1. Coming(k) \in QueryType
  BY ComingIsTyped
<1>2. CASE view = data[k]
  <2>1. data \in [Kinds -> ViewType]
    BY DEF TypeOK
  <2> QED BY <1>2, <2>1
<1>3. CASE view \in FirstViews(Coming(k))
  <2>1. Answer(Coming(k)) \in ViewType
    BY <1>1 DEF Answer, ViewType
  <2>2. Nothing \in ViewType /\ Loading \in ViewType
    BY DEF Nothing, Loading, ViewType
  <2> QED BY <1>3, <2>1, <2>2 DEF FirstViews
<1> QED BY <1>2, <1>3 DEF Views

(* Whatever it shows was asked for by the query shown, or is nothing. *)
LEMMA ViewsShowComing ==
  ASSUME TypeOK, ShownType', PanelShowsSelection, NEW k \in Kinds,
         NEW view \in Views(k)
  PROVE  view.asked \in {Coming(k), None}
<1>1. Coming(k) \in QueryType /\ Current(k) \in QueryType
  BY ComingIsTyped, CurrentIsTyped
<1>2. CASE QueryKey(Coming(k)) = QueryKey(Current(k))
  <2>1. Coming(k) = Current(k)
    BY <1>1, <1>2, KeyIsWhole
  <2>2. view = data[k]
    BY <1>2 DEF Views
  <2> QED BY <2>1, <2>2 DEF PanelShowsSelection
<1>3. CASE QueryKey(Coming(k)) # QueryKey(Current(k))
  <2>1. view \in FirstViews(Coming(k))
    BY <1>3 DEF Views
  <2> QED BY <2>1 DEF FirstViews, Answer, Nothing, Loading
<1> QED BY <1>2, <1>3

(* Redrawing keeps the types of the data and the open requests. *)
LEMMA ObserveIsTyped ==
  ASSUME TypeOK, ShownType', Observe
  PROVE  data' \in [Kinds -> ViewType] /\ fetches' \subseteq QueryType
<1>1. PICK ofPeer \in Views("traffic"), ofAll \in Views("traffic-total") :
        /\ data' = [k \in Kinds |-> IF k = "traffic" THEN ofPeer ELSE ofAll]
        /\ fetches' = fetches \union
             {Coming(k) : k \in {kind \in Kinds : data'[kind].loading}}
  BY DEF Observe
<1>2. ofPeer \in ViewType /\ ofAll \in ViewType
  BY ViewsAreTyped DEF Kinds
<1>3. \A k \in Kinds : Coming(k) \in QueryType
  BY ComingIsTyped
<1>4. fetches \subseteq QueryType
  BY DEF TypeOK
<1> QED BY <1>1, <1>2, <1>3, <1>4

(* After redrawing, nothing on the page belongs to another selection. *)
LEMMA ObserveShows ==
  ASSUME TypeOK, ShownType', PanelShowsSelection, Observe
  PROVE  PanelShowsSelection'
<1>1. PICK ofPeer \in Views("traffic"), ofAll \in Views("traffic-total") :
        data' = [k \in Kinds |-> IF k = "traffic" THEN ofPeer ELSE ofAll]
  BY DEF Observe
<1>2. /\ ofPeer.asked \in {Coming("traffic"), None}
      /\ ofAll.asked \in {Coming("traffic-total"), None}
  BY ViewsShowComing DEF Kinds
<1>3. \A k \in Kinds : data'[k].asked \in {Coming(k), None}
  BY <1>1, <1>2 DEF Kinds
<1> QED BY <1>3 DEF PanelShowsSelection, Current, Coming

(* Redrawing keeps a selection drawn in the chart, or clears it. *)
LEMMA RedrawnKeepsOrClears ==
  ASSUME NEW drawn
  PROVE  Redrawn(drawn) \in {drawn, None}
BY DEF Redrawn

-----------------------------------------------------------------------------
(* Types.                                                                  *)

(* What the form holds at first means a range at any time. *)
LEMMA DefaultDraftIsRange ==
  ASSUME NEW t \in Times
  PROVE  ParseCustomRange(DefaultDraft, t) \in Ranges
<1>1. /\ t \in Int /\ t >= 0 /\ t <= MaxDate
      /\ MaxDate \in Int /\ MaxDate >= 86400000
  BY DateAssumption
<1>2. ParseRangeInput(DefaultDraft.to, t) = t
  BY DEF ParseRangeInput, DefaultDraft
<1>3. ParseRangeInput(DefaultDraft.from, t) = t - 86400000
  <2>1. Offset(DefaultDraft.from) = -86400000
    BY DEF Offset, Sign, Multipliers, DefaultDraft
  <2>2. t + Offset(DefaultDraft.from) = t - 86400000
    BY <1>1, <2>1
  <2>3. t - 86400000 \in -MaxDate..MaxDate
    BY <1>1
  <2> QED BY <2>2, <2>3 DEF ParseRangeInput, DateAt, DefaultDraft
<1>4. None \notin {t, t - 86400000} /\ Invalid \notin {t, t - 86400000}
  <2>1. t \in Int /\ t - 86400000 \in Int
    BY <1>1
  <2>2. None \notin Int /\ Invalid \notin Int
    BY TrafficPanelAssumption
  <2> QED BY <2>1, <2>2
<1>5. ParseCustomRange(DefaultDraft, t) = [from |-> t - 86400000, to |-> t]
  BY <1>1, <1>2, <1>3, <1>4 DEF ParseCustomRange
<1> QED BY <1>1, <1>5 DEF Ranges

(* A time that a field means is a number, the Invalid Date or none. *)
LEMMA ParsedInput ==
  ASSUME NEW input \in Inputs, NEW t \in Times
  PROVE  ParseRangeInput(input, t) \in Int \union {Invalid, None}
<1>1. t \in Int /\ -MaxDate..MaxDate \subseteq Int
  BY DateAssumption
<1>2. \A x : DateAt(x) \in Int \union {Invalid}
  BY <1>1 DEF DateAt
<1>3. input.form = "absolute" => input.at \in Int
  BY TrafficPanelAssumption
<1> QED BY <1>1, <1>2, <1>3 DEF ParseRangeInput

(* The form yields a range, no range, or an exception. *)
LEMMA ParsedRange ==
  ASSUME NEW d \in [from : Inputs, to : Inputs], NEW t \in Times
  PROVE  ParseCustomRange(d, t) \in Ranges \union {None, Throws}
<1> DEFINE from == ParseRangeInput(d.from, t)
           to   == ParseRangeInput(d.to, t)
<1>1. from \in Int \union {Invalid, None} /\ to \in Int \union {Invalid, None}
  BY ParsedInput
<1>2. CASE None \in {from, to} \/ Invalid \in {from, to}
  BY <1>2 DEF ParseCustomRange
<1>3. CASE None \notin {from, to} /\ Invalid \notin {from, to}
  <2>1. from \in Int /\ to \in Int
    BY <1>1, <1>3
  <2>2. from < to => [from |-> from, to |-> to] \in Ranges
    BY <2>1 DEF Ranges
  <2> QED BY <1>3, <2>1, <2>2 DEF ParseCustomRange
<1> QED BY <1>2, <1>3

LEMMA TypeInit == Init => TypeOK
<1> SUFFICES ASSUME Init PROVE TypeOK
  OBVIOUS
<1>1. /\ selection \in Selection /\ lastPreset \in [type : {"preset"}, value : Presets]
      /\ lastPreset = selection
  BY PresetType, TrafficPanelAssumption DEF Init
<1>2. custom \in Ranges \union {None}
  BY DefaultDraftIsRange DEF Init
<1>3. data \in [Kinds -> ViewType]
  BY DEF Init, Nothing, Loading, ViewType
<1>4. fetches \subseteq QueryType
  BY <1>1, QueryIsTyped DEF Init, Kinds
<1>5. draft \in [from : Inputs, to : Inputs]
  BY TrafficPanelAssumption DEF Init
<1> QED BY <1>1, <1>2, <1>3, <1>4, <1>5 DEF Init, TypeOK

(* A step that leaves the types of what is shown, of the queries, of the   *)
(* form and of the chart as they are.                                      *)
FormType == /\ editor \in {"closed", "custom"}
            /\ draft \in [from : Inputs, to : Inputs]
            /\ custom \in Ranges \union {None}
ChartType == /\ area \in Areas \union {None}
             /\ lastApplied \in Ranges \union {None}
             /\ superseded \in BOOLEAN
QueriesType == data \in [Kinds -> ViewType] /\ fetches \subseteq QueryType
PresetTyped == lastPreset \in [type : {"preset"}, value : Presets]
PageType == up \in BOOLEAN /\ tab \in {"traffic", "debug"}

(* The type invariant in parts, so that a step needs only some. *)
LEMMA TypeParts ==
  /\ TypeOK => /\ PageType /\ ShownType /\ PresetTyped
               /\ FormType /\ QueriesType /\ ChartType
  /\ PageType' /\ ShownType' /\ PresetTyped' /\ FormType' /\ QueriesType'
       /\ ChartType' => TypeOK'
BY DEF TypeOK, PageType, ShownType, PresetTyped, FormType, QueriesType,
       ChartType

(* The types of all parts, and of those that a step leaves alone. *)
LEMMA Kept ==
  ASSUME TypeOK
  PROVE  /\ UNCHANGED <<up, tab>> => PageType'
         /\ UNCHANGED shown => ShownType'
         /\ UNCHANGED lastPreset => PresetTyped'
         /\ UNCHANGED form => FormType'
         /\ UNCHANGED queries => QueriesType'
         /\ UNCHANGED chart => ChartType'
BY TypeParts DEF PageType, ShownType, PresetTyped, FormType, QueriesType,
       ChartType, shown, form, queries, chart

(* Redrawing keeps the types of the queries. *)
LEMMA ObservedQueries ==
  ASSUME TypeOK, ShownType', Observe
  PROVE  QueriesType'
BY ObserveIsTyped DEF QueriesType

(* A view that starts or ends to load. *)
LEMMA StartedIsTyped ==
  ASSUME TypeOK, NEW k \in Kinds
  PROVE  /\ Started(k) \in ViewType
         /\ Started(k).asked = data[k].asked
<1>1. data[k] \in ViewType
  BY DEF TypeOK
<1> QED BY <1>1 DEF Started, ViewType

(* So does choosing a selection. *)
LEMMA ChooseType ==
  ASSUME TypeOK, NEW sel \in Selection, Choose(sel), PresetTyped'
  PROVE  TypeOK'
<1>1. ShownType'
  BY DEF TypeOK, Choose, ShownType
<1>2. QueriesType'
  BY <1>1, ObservedQueries DEF Choose
<1>3. ChartType'
  BY RedrawnKeepsOrClears DEF Choose, TypeOK, ChartType
<1>4. FormType' /\ PageType'
  BY DEF Choose, TypeOK, FormType, PageType
<1> QED BY <1>1, <1>2, <1>3, <1>4, TypeParts

LEMMA TypeNext == TypeOK /\ [Next]_vars => TypeOK'
<1> SUFFICES ASSUME TypeOK, [Next]_vars PROVE TypeOK'
  OBVIOUS
<1> USE DEF form, shown, chart, queries
<1>1. ASSUME NEW p \in Presets, ChoosePreset(p) PROVE TypeOK'
  <2>1. PresetTyped'
    BY <1>1, PresetType DEF ChoosePreset, PresetTyped
  <2> QED BY <1>1, <2>1, PresetType, ChooseType DEF ChoosePreset
<1>2. CASE ToggleEditor
  BY <1>2 DEF ToggleEditor, TypeOK
<1>3. CASE ApplyCustom
  <2>1. PresetTyped'
    BY <1>3 DEF ApplyCustom, TypeOK, PresetTyped
  <2>2. Selected("custom", custom) \in Selection
    BY <1>3, SelectedType DEF ApplyCustom, TypeOK
  <2> QED BY <1>3, <2>1, <2>2, ChooseType DEF ApplyCustom
<1>4. ASSUME NEW field \in {"from", "to"}, NEW input \in Inputs,
             NEW t \in Times, Edit(field, input, t)
      PROVE  TypeOK'
  <2>1. draft' \in [from : Inputs, to : Inputs]
    BY <1>4 DEF Edit, TypeOK
  <2>2. custom' \in Ranges \union {None} /\ up' \in BOOLEAN
    BY <1>4, <2>1, ParsedRange DEF Edit, TypeOK
  <2>3. FormType' /\ PageType'
    BY <1>4, <2>1, <2>2 DEF Edit, TypeOK, FormType, PageType
  <2> QED BY <1>4, <2>3, Kept, TypeParts DEF Edit
<1>5. ASSUME NEW a \in Areas, Brush(a) PROVE TypeOK'
  <2>1. ShownType' /\ lastApplied' \in Ranges \union {None}
        /\ superseded' \in BOOLEAN /\ editor' \in {"closed", "custom"}
    <3>1. CASE /\ a \in Ranges /\ lastApplied' = a
               /\ selection' = Selected("chart", a)
               /\ editor' = "closed" /\ superseded' = FALSE
      BY <1>5, <3>1, SelectedType DEF Brush, TypeOK, ShownType
    <3>2. CASE UNCHANGED <<lastApplied, selection, editor, superseded>>
      BY <1>5, <3>2 DEF Brush, TypeOK, ShownType
    <3> QED BY <1>5, <3>1, <3>2 DEF Brush
  <2>2. QueriesType'
    BY <1>5, <2>1, ObservedQueries DEF Brush
  <2>3. ChartType'
    BY <1>5, <2>1, RedrawnKeepsOrClears DEF Brush, ChartType
  <2>4. FormType' /\ PageType' /\ PresetTyped'
    BY <1>5, <2>1 DEF Brush, TypeOK, FormType, PageType, PresetTyped
  <2> QED BY <2>1, <2>2, <2>3, <2>4, TypeParts
<1>6. CASE RemoveArea
  BY <1>6 DEF RemoveArea, TypeOK
<1>7. CASE ClearSelection
  <2>1. ShownType'
    BY <1>7 DEF ClearSelection, TypeOK, ShownType, Selection
  <2>2. QueriesType'
    BY <1>7, <2>1, ObservedQueries DEF ClearSelection
  <2>3. ChartType' /\ FormType' /\ PageType' /\ PresetTyped'
    BY <1>7 DEF ClearSelection, ClearChart, TypeOK, ChartType, FormType,
                PageType, PresetTyped
  <2> QED BY <2>1, <2>2, <2>3, TypeParts
<1>8. ASSUME NEW t \in {"traffic", "debug"}, OpenTab(t) PROVE TypeOK'
  BY <1>8 DEF OpenTab, TypeOK
<1>9. ASSUME NEW s \in Sources, NEW p \in Peers \union {None}, Show(s, p)
      PROVE  TypeOK'
  <2>1. ShownType'
    BY <1>9 DEF Show, TypeOK, ShownType
  <2>2. QueriesType'
    BY <1>9, <2>1, ObservedQueries DEF Show
  <2>3. ChartType'
    BY <1>9, RedrawnKeepsOrClears DEF Show, TypeOK, ChartType
  <2> QED BY <1>9, <2>1, <2>2, <2>3, Kept, TypeParts DEF Show
<1>10. ASSUME NEW k \in Kinds, Poll(k) PROVE TypeOK'
  <2>1. QueriesType'
    BY <1>10, CurrentIsTyped, StartedIsTyped DEF Poll, TypeOK, QueriesType
  <2>2. ChartType'
    BY <1>10, RedrawnKeepsOrClears DEF Poll, TypeOK, ChartType
  <2> QED BY <1>10, <2>1, <2>2, Kept, TypeParts DEF Poll
<1>11. CASE Refresh
  <2>1. QueriesType'
    BY <1>11, CurrentIsTyped, StartedIsTyped DEF Refresh, TypeOK, QueriesType
  <2>2. ChartType'
    BY <1>11, RedrawnKeepsOrClears DEF Refresh, TypeOK, ChartType
  <2> QED BY <1>11, <2>1, <2>2, Kept, TypeParts DEF Refresh
<1>12. ASSUME NEW q \in fetches, Deliver(q) PROVE TypeOK'
  <2>1. q \in QueryType
    BY DEF TypeOK
  <2>2. Answer(q) \in ViewType
    BY <2>1 DEF Answer, ViewType
  <2>3. QueriesType'
    BY <1>12, <2>2 DEF Deliver, TypeOK, QueriesType
  <2>4. ChartType'
    BY <1>12, RedrawnKeepsOrClears DEF Deliver, TypeOK, ChartType
  <2> QED BY <1>12, <2>3, <2>4, Kept, TypeParts DEF Deliver
<1>13. ASSUME NEW q \in fetches, Fail(q) PROVE TypeOK'
  <2>1. q \in QueryType /\ q.kind \in Kinds /\ data[q.kind] \in ViewType
    BY DEF TypeOK, QueryType
  <2>2. [data[q.kind] EXCEPT !.loading = FALSE] \in ViewType
    BY <2>1 DEF ViewType
  <2>3. QueriesType'
    BY <1>13, <2>1, <2>2 DEF Fail, TypeOK, QueriesType
  <2>4. ChartType'
    BY <1>13, RedrawnKeepsOrClears DEF Fail, TypeOK, ChartType
  <2> QED BY <1>13, <2>3, <2>4, Kept, TypeParts DEF Fail
<1>14. CASE UNCHANGED vars
  BY <1>14 DEF vars, TypeOK
<1> QED
  BY <1>1, <1>2, <1>3, <1>4, <1>5, <1>6, <1>7, <1>8, <1>9, <1>10, <1>11,
     <1>12, <1>13, <1>14 DEF Next

(* TYPE CORRECTNESS of every reachable state; above all, no range that is  *)
(* applied or waits in the form is empty or upside down (App.tsx:367-383,  *)
(* TrafficChart.tsx:216-227).                                              *)
THEOREM TypeCorrect == Spec => []TypeOK
BY TypeInit, TypeNext, PTL DEF Spec

-----------------------------------------------------------------------------
(* What the panel shows.                                                   *)

(* A step that changes what is asked for observes what comes on display;   *)
(* one that does not, only has to keep or to answer it.                    *)
LEMMA ShowsNext == TypeOK /\ PanelShowsSelection /\ [Next]_vars
                     => PanelShowsSelection'
<1> SUFFICES ASSUME TypeOK, PanelShowsSelection, [Next]_vars
             PROVE  PanelShowsSelection'
  OBVIOUS
<1>1. TypeOK'
  BY TypeNext
<1>2. ShownType'
  BY <1>1, TypeParts DEF TypeOK, ShownType
<1>3. ASSUME Observe PROVE PanelShowsSelection'
  BY <1>2, <1>3, ObserveShows
<1>4. ASSUME UNCHANGED shown,
             \A k \in Kinds : data'[k].asked \in {data[k].asked, Current(k)}
      PROVE  PanelShowsSelection'
  <2>1. \A k \in Kinds : Current(k)' = Current(k)
    BY <1>4 DEF Current, shown
  <2> QED BY <1>4, <2>1 DEF PanelShowsSelection
<1>5. ASSUME UNCHANGED shown, UNCHANGED data PROVE PanelShowsSelection'
  BY <1>4, <1>5
<1>6. ASSUME NEW p \in Presets, ChoosePreset(p) PROVE PanelShowsSelection'
  BY <1>3, <1>6 DEF ChoosePreset, Choose
<1>7. CASE ToggleEditor
  BY <1>5, <1>7 DEF ToggleEditor, queries
<1>8. CASE ApplyCustom
  BY <1>3, <1>8 DEF ApplyCustom, Choose
<1>9. ASSUME NEW field \in {"from", "to"}, NEW input \in Inputs,
             NEW t \in Times, Edit(field, input, t)
      PROVE  PanelShowsSelection'
  BY <1>5, <1>9 DEF Edit, queries
<1>10. ASSUME NEW a \in Areas, Brush(a) PROVE PanelShowsSelection'
  BY <1>3, <1>10 DEF Brush
<1>11. CASE RemoveArea
  BY <1>5, <1>11 DEF RemoveArea, queries
<1>12. CASE ClearSelection
  BY <1>3, <1>12 DEF ClearSelection
<1>13. ASSUME NEW t \in {"traffic", "debug"}, OpenTab(t)
       PROVE  PanelShowsSelection'
  BY <1>5, <1>13 DEF OpenTab, queries
<1>14. ASSUME NEW s \in Sources, NEW p \in Peers \union {None}, Show(s, p)
       PROVE  PanelShowsSelection'
  BY <1>3, <1>14 DEF Show
<1>15. ASSUME NEW k \in Kinds, Poll(k) PROVE PanelShowsSelection'
  <2>1. Started(k).asked = data[k].asked /\ data \in [Kinds -> ViewType]
    BY StartedIsTyped DEF TypeOK
  <2>2. \A j \in Kinds : data'[j].asked = data[j].asked
    BY <1>15, <2>1 DEF Poll
  <2> QED BY <1>4, <1>15, <2>2 DEF Poll
<1>16. CASE Refresh
  <2>1. \A k \in Kinds : data'[k].asked = data[k].asked
    BY <1>16, StartedIsTyped DEF Refresh
  <2> QED BY <1>4, <1>16, <2>1 DEF Refresh
<1>17. ASSUME NEW q \in fetches, Deliver(q) PROVE PanelShowsSelection'
  <2>1. q \in QueryType /\ q.kind \in Kinds /\ data \in [Kinds -> ViewType]
    BY DEF TypeOK, QueryType
  <2>2. OnDisplay(q) => Answer(q).asked = Current(q.kind)
    BY <2>1, CurrentIsTyped, KeyIsWhole DEF OnDisplay, Answer
  <2>3. \A k \in Kinds : data'[k].asked \in {data[k].asked, Current(k)}
    BY <1>17, <2>1, <2>2 DEF Deliver
  <2> QED BY <1>4, <1>17, <2>3 DEF Deliver
<1>18. ASSUME NEW q \in fetches, Fail(q) PROVE PanelShowsSelection'
  <2>1. data \in [Kinds -> ViewType] /\ q.kind \in Kinds
    BY DEF TypeOK, QueryType
  <2>2. \A k \in Kinds : data[k] \in ViewType
    BY <2>1
  <2>3. \A k \in Kinds : data'[k].asked = data[k].asked
    BY <1>18, <2>1, <2>2 DEF Fail, ViewType
  <2> QED BY <1>4, <1>18, <2>3 DEF Fail
<1>19. CASE UNCHANGED vars
  BY <1>5, <1>19 DEF vars, queries
<1> QED
  BY <1>6, <1>7, <1>8, <1>9, <1>10, <1>11, <1>12, <1>13, <1>14, <1>15,
     <1>16, <1>17, <1>18, <1>19 DEF Next

(* THE PANEL SHOWS WHAT IS SELECTED: an answer that arrives after the user *)
(* has selected something else never comes on display as if it were that   *)
(* (App.tsx:83-106, 193-195).                                              *)
THEOREM PanelCorrect == Spec => []PanelShowsSelection
<1>1. Init => PanelShowsSelection
  BY DEF Init, Nothing, Loading, PanelShowsSelection, Kinds
<1> QED BY <1>1, TypeInit, TypeNext, ShowsNext, PTL DEF Spec

-----------------------------------------------------------------------------
(* The rectangle on the chart.                                             *)

(* A rectangle that spans a range is the range applied last, and that is   *)
(* the selection until a button or the form replaces it.                   *)
ChartInv ==
  /\ area \in Ranges => area = lastApplied
  /\ lastApplied # None /\ ~superseded => selection = Selected("chart", lastApplied)

LEMMA ChartNext == ChartInv /\ [Next]_vars => ChartInv'
<1> SUFFICES ASSUME ChartInv, [Next]_vars PROVE ChartInv'
  OBVIOUS
<1>0. None \notin Ranges
  BY TrafficPanelAssumption
<1>1. ASSUME area' \in {area, None}, UNCHANGED <<lastApplied, superseded>>,
             UNCHANGED selection
      PROVE  ChartInv'
  BY <1>0, <1>1 DEF ChartInv
<1>2. ASSUME NEW sel, Choose(sel) PROVE ChartInv'
  <2>1. area' \in {area, None}
    BY <1>2, RedrawnKeepsOrClears DEF Choose
  <2>2. lastApplied' = lastApplied /\ superseded' = (lastApplied # None)
    BY <1>2 DEF Choose
  <2> QED BY <1>0, <2>1, <2>2 DEF ChartInv
<1>3. ASSUME ClearChart PROVE ChartInv'
  BY <1>0, <1>3 DEF ClearChart, ChartInv
<1>4. ASSUME NEW p \in Presets, ChoosePreset(p) PROVE ChartInv'
  BY <1>2, <1>4 DEF ChoosePreset
<1>5. CASE ToggleEditor
  BY <1>1, <1>5 DEF ToggleEditor, chart, shown
<1>6. CASE ApplyCustom
  BY <1>2, <1>6 DEF ApplyCustom
<1>7. ASSUME NEW field \in {"from", "to"}, NEW input \in Inputs,
             NEW t \in Times, Edit(field, input, t)
      PROVE  ChartInv'
  BY <1>1, <1>7 DEF Edit, chart, shown
<1>8. ASSUME NEW a \in Areas, Brush(a) PROVE ChartInv'
  <2>1. area' \in {a, None}
    BY <1>8, RedrawnKeepsOrClears DEF Brush
  <2>2. CASE /\ a \in Ranges /\ lastApplied' = a
             /\ selection' = Selected("chart", a) /\ superseded' = FALSE
    BY <1>0, <2>1, <2>2 DEF ChartInv, Selected
  <2>3. CASE /\ a \notin Ranges \/ a = lastApplied
             /\ UNCHANGED <<lastApplied, selection, editor, superseded>>
    BY <1>0, <2>1, <2>3 DEF ChartInv
  <2> QED BY <1>8, <2>2, <2>3 DEF Brush
<1>9. CASE RemoveArea
  BY <1>1, <1>9 DEF RemoveArea, shown
<1>10. CASE ClearSelection
  BY <1>3, <1>10 DEF ClearSelection
<1>11. ASSUME NEW t \in {"traffic", "debug"}, OpenTab(t) PROVE ChartInv'
  BY <1>0, <1>11 DEF OpenTab, ChartInv
<1>12. ASSUME NEW s \in Sources, NEW p \in Peers \union {None}, Show(s, p)
       PROVE  ChartInv'
  BY <1>1, <1>12, RedrawnKeepsOrClears DEF Show
<1>13. ASSUME NEW k \in Kinds, Poll(k) PROVE ChartInv'
  BY <1>1, <1>13, RedrawnKeepsOrClears DEF Poll, shown
<1>14. CASE Refresh
  BY <1>1, <1>14, RedrawnKeepsOrClears DEF Refresh, shown
<1>15. ASSUME NEW q \in fetches, Deliver(q) PROVE ChartInv'
  BY <1>1, <1>15, RedrawnKeepsOrClears DEF Deliver, shown
<1>16. ASSUME NEW q \in fetches, Fail(q) PROVE ChartInv'
  BY <1>1, <1>16, RedrawnKeepsOrClears DEF Fail, shown
<1>17. CASE UNCHANGED vars
  BY <1>1, <1>17 DEF vars, chart, shown
<1> QED
  BY <1>4, <1>5, <1>6, <1>7, <1>8, <1>9, <1>10, <1>11, <1>12, <1>13, <1>14,
     <1>15, <1>16, <1>17 DEF Next

(* A RECTANGLE ON THE CHART IS THE RANGE SELECTED, or the one applied last *)
(* that has been replaced since (TrafficChart.tsx:146-155, 178-187).       *)
THEOREM ChartCorrect == Spec => []RectangleIsSelected
<1>1. Init => ChartInv
  BY TrafficPanelAssumption DEF Init, ChartInv
<1>2. ChartInv => RectangleIsSelected
  BY TrafficPanelAssumption DEF ChartInv, RectangleIsSelected
<1> QED BY <1>1, <1>2, ChartNext, PTL DEF Spec
=============================================================================
