--------------------------- MODULE DashboardProofs ----------------------------
(***************************************************************************)
(* Theorems of Dashboard, for any sources, peers and names, and any number *)
(* of changes by other applications; and of Format: what can be trusted of *)
(* the rounded numbers of its list.                                        *)
(***************************************************************************)
EXTENDS Dashboard, Format, DataTheorems, FiniteSetTheorems, TLAPS

-----------------------------------------------------------------------------
(* The handler's list.                                                     *)

(* The join has one peer for each key of the dump. *)
LEMMA EnrichType ==
  ASSUME names \in [Keys -> Names \union {Nameless}],
         NEW keys \in SUBSET Keys, NEW readable \in BOOLEAN
  PROVE  /\ Enrich(keys, readable) \subseteq Peer
         /\ IsFiniteSet(Enrich(keys, readable))
         /\ {p.key : p \in Enrich(keys, readable)} = keys
         /\ \A p, q \in Enrich(keys, readable) : p.key = q.key => p = q
<1> DEFINE Named(k) == [key |-> k,
                        name |-> IF readable THEN names[k] ELSE Nameless]
           peers == Enrich(keys, readable)
           join == [k \in keys |-> Named(k)]
<1>1. peers = {Named(k) : k \in keys}
  BY DEF Enrich
<1>2. \A k \in keys : Named(k) \in Peer /\ Named(k).key = k
  BY DEF Peer
<1> HIDE DEF Named, peers
<1>3. IsFiniteSet(keys)
  BY DashboardAssumption, FS_Subset
<1>4. join \in Surjection(keys, peers)
  BY <1>1 DEF Surjection
<1>5. IsFiniteSet(peers)
  BY <1>3, <1>4, FS_Surjection
<1>6. /\ peers \subseteq Peer /\ {p.key : p \in peers} = keys
      /\ \A p, q \in peers : p.key = q.key => p = q
  BY <1>1, <1>2
<1> QED BY <1>5, <1>6 DEF peers

(* A list has each of its peers once. *)
LEMMA SortedType ==
  ASSUME NEW peers, peers \subseteq Peer, IsFiniteSet(peers),
         \A p, q \in peers : p.key = q.key => p = q,
         NEW list \in Sorted(peers)
  PROVE  /\ list \in Seq(Peer) /\ Range(list) \subseteq peers
         /\ Listed(list) \subseteq {p.key : p \in peers}
         /\ Cardinality(Listed(list)) = Len(list)
<1> DEFINE n == Cardinality(peers)
           keyAt == [i \in 1..n |-> list[i].key]
<1>1. n \in Nat
  BY FS_CardinalityType
<1>2. /\ list \in [1..n -> peers]
      /\ \A i, j \in 1..n : i # j => list[i] # list[j]
  BY DEF Sorted, SetToSeqs
<1> HIDE DEF n
<1>3. DOMAIN list = 1..n /\ \A i \in 1..n : list[i] \in peers
  BY <1>2
<1>4. list \in [1..n -> Peer]
  BY <1>2, <1>3
<1>5. list \in Seq(Peer) /\ Len(list) = n
  <2>1. list \in Seq(Peer)
    BY <1>1, <1>4
  <2> QED BY <1>1, <1>3, <2>1
<1>6. keyAt \in Injection(1..n, Listed(list))
  <2>1. \A i, j \in 1..n : list[i].key = list[j].key => i = j
    BY <1>2, <1>3
  <2>2. \A i \in 1..n : list[i].key \in Listed(list)
    BY <1>3 DEF Listed
  <2> QED BY <2>1, <2>2 DEF Injection, IsInjective
<1>7. keyAt \in Surjection(1..n, Listed(list))
  BY <1>3 DEF Surjection, Listed
<1>8. IsFiniteSet(1..n) /\ Cardinality(1..n) = n
  <2>1. 1 \in Int /\ n \in Int /\ (1 > n => n = 0)
    BY <1>1
  <2> QED BY <2>1, FS_Interval
<1>9. Cardinality(Listed(list)) = n
  BY <1>6, <1>7, <1>8, FS_Surjection
<1>10. Range(list) \subseteq peers /\ Listed(list) \subseteq {p.key : p \in peers}
  BY <1>3 DEF Range, Listed
<1> QED BY <1>5, <1>9, <1>10
-----------------------------------------------------------------------------
(* Types.                                                                  *)

(* The type of a fetch. *)
FetchType == [step : {"idle", "sent", "dumped", "answered"},
              keys : SUBSET Keys, list : Seq(Peer)]

(* What is on display are peers of the source on display. *)
LEMMA ShownType ==
  ASSUME TypeOK
  PROVE  /\ Source \in Sources /\ Shown \in Seq(Peer)
         /\ Listed(Shown) \subseteq KeysOf(Source)
<1>1. Source \in Sources
  BY DashboardAssumption DEF TypeOK, Source
<1>2. CASE lists[Source] = None
  BY <1>1, <1>2 DEF Shown, Listed
<1>3. CASE lists[Source] # None
  BY <1>1, <1>3 DEF Shown, TypeOK
<1> QED BY <1>1, <1>2, <1>3

(* The selected peer, if there is one, has a key. *)
LEMMA EffectiveType ==
  ASSUME TypeOK PROVE EffectiveKey \in Keys \union {None}
<1>1. Shown \in Seq(Peer)
  BY ShownType
<1>2. Shown # <<>> => Shown[1] \in Peer
  BY <1>1
<1> QED BY <1>2 DEF EffectiveKey, FirstPeer, TypeOK, Peer

(* A fetch without an answer has no list. *)
LEMMA SentType == /\ Idle \in FetchType /\ Sent \in FetchType
                  /\ Idle.list = <<>> /\ Sent.list = <<>>
                  /\ Idle.keys = {} /\ Sent.keys = {}
                  /\ Idle.step = "idle" /\ Sent.step = "sent"
                  /\ Listed(<<>>) = {} /\ Cardinality({}) = Len(<<>>)
<1>1. <<>> \in Seq(Peer) /\ Listed(<<>>) = {} /\ Len(<<>>) = 0
  BY DEF Listed
<1>2. Cardinality({}) = 0
  BY FS_EmptySet
<1> QED BY <1>1, <1>2 DEF Idle, Sent, FetchType

(* The source on display is fetched anew, or its first fetch goes on. *)
LEMMA Fetching ==
  ASSUME TypeOK
  PROVE  /\ Refetched \in [Sources -> FetchType]
         /\ \A s \in Sources : Refetched[s] \in {fetch[s], Sent}
         /\ lists[Source] # None => Refetched[Source] = Sent
<1>1. Source \in Sources
  BY ShownType
<1> QED BY <1>1, SentType DEF Refetched, TypeOK, FetchType

(* The parts of the type invariant. *)
Tidy(s, list) == /\ Listed(list) \subseteq KeysOf(s)
                 /\ Cardinality(Listed(list)) = Len(list)

(* The conjuncts of TypeOK about lists. *)
ListsType ==
  /\ lists \in [Sources -> {None} \union Seq(Peer)]
  /\ fetch \in [Sources -> FetchType]
  /\ \A s \in Sources : /\ fetch[s].keys \subseteq KeysOf(s)
                        /\ Tidy(s, fetch[s].list)
                        /\ lists[s] # None => Tidy(s, lists[s])

(* The conjuncts of TypeOK about everything else. *)
RestType ==
  /\ configured \in SUBSET Keys
  /\ names \in [Keys -> Names \union {Nameless}]
  /\ changes \in 0..MaxChanges
  /\ source \in Sources \union {None} /\ picked \in Keys \union {None}
  /\ draft \in Keys \union {None} /\ moved \in BOOLEAN
  /\ mutation \in [source : Sources, key : Keys, name : Names,
                   step : {"sent", "applied"}] \union {None}
  /\ confirmed \in [Keys -> Names \union {None}]

(* Together they are TypeOK. *)
LEMMA TypeParts ==
  /\ TypeOK => ListsType /\ RestType
  /\ ListsType' /\ RestType' => TypeOK'
<1>1. TypeOK => ListsType
  <2> SUFFICES ASSUME TypeOK PROVE ListsType
    OBVIOUS
  <2>1. \A s \in Sources : fetch[s].list # None
    <3>1. \A s \in Sources : fetch[s].list \in Seq(Peer)
      BY DEF TypeOK
    <3>2. None \notin Seq(Peer)
      BY DashboardAssumption DEF Peer
    <3> QED BY <3>1, <3>2
  <2>2. \A s \in Sources : Tidy(s, fetch[s].list)
    BY <2>1 DEF TypeOK, Tidy
  <2>3. \A s \in Sources : lists[s] # None => Tidy(s, lists[s])
    BY DEF TypeOK, Tidy
  <2> QED BY <2>2, <2>3 DEF TypeOK, ListsType, FetchType
<1>2. ListsType' /\ RestType' => TypeOK'
  BY DEF ListsType, RestType, TypeOK, FetchType, Tidy
<1>3. TypeOK => RestType
  BY DEF TypeOK, RestType
<1> QED BY <1>1, <1>2, <1>3

(* A step that only starts or drops fetches keeps the types of the lists. *)
LEMMA ListsStep ==
  ASSUME TypeOK, fetch' \in [Sources -> FetchType],
         \A s \in Sources : fetch'[s] \in {fetch[s], Sent, Idle},
         UNCHANGED lists
  PROVE  ListsType'
BY TypeParts, SentType DEF ListsType, Tidy

(* The types hold at the start. *)
LEMMA TypeInit == Init => TypeOK
<1> SUFFICES ASSUME Init PROVE TypeOK
  OBVIOUS
<1>1. MaxChanges \in Nat
  BY DashboardAssumption
<1>2. /\ lists \in [Sources -> {None} \union Seq(Peer)]
      /\ fetch \in [Sources -> FetchType]
  BY SentType DEF Init
<1>3. \A s \in Sources : fetch[s] = Idle /\ lists[s] = None
  BY DEF Init
<1>4. \A s \in Sources :
        /\ fetch[s].keys \subseteq KeysOf(s)
        /\ \A list \in {fetch[s].list, lists[s]} \ {None} :
             /\ Listed(list) \subseteq KeysOf(s)
             /\ Cardinality(Listed(list)) = Len(list)
  BY <1>3, SentType
<1>5. changes \in 0..MaxChanges
  BY <1>1 DEF Init
<1> QED BY <1>2, <1>4, <1>5 DEF Init, TypeOK, FetchType

(* Every step keeps them. *)
LEMMA TypeNext == TypeOK /\ [Next]_vars => TypeOK'
<1> SUFFICES ASSUME TypeOK, [Next]_vars PROVE TypeOK'
  OBVIOUS
<1>1. ASSUME NEW s \in Sources, SelectSource(s) PROVE TypeOK'
  BY <1>1 DEF SelectSource, TypeOK, vps, form, Moving, CloseForm
<1>2. ASSUME NEW k \in Keys, Pick(k) PROVE TypeOK'
  <2>1. Listed(Shown) \subseteq Keys
    BY ShownType DEF KeysOf
  <2> QED BY <1>2, <2>1 DEF Pick, TypeOK, vps, Moving
<1>3. CASE TogglePencil
  <2>1. draft' \in Keys \union {None}
    BY <1>3, EffectiveType DEF TogglePencil, CloseForm
  <2>2. moved' \in BOOLEAN
    BY <1>3 DEF TogglePencil, CloseForm
  <2> QED BY <1>3, <2>1, <2>2 DEF TogglePencil, TypeOK, vps
<1>4. CASE OpenDebugTab
  BY <1>4 DEF OpenDebugTab, TypeOK, vps, form, Moving, CloseForm
<1>5. ASSUME NEW n \in Names, Submit(n) PROVE TypeOK'
  <2>1. Source \in Sources /\ EffectiveKey \in Keys
    BY <1>5, ShownType DEF Submit, CanRename, KeysOf
  <2>2. mutation' \in [source : Sources, key : Keys, name : Names,
                      step : {"sent", "applied"}]
    BY <1>5, <2>1 DEF Submit
  <2> QED BY <1>5, <2>2 DEF Submit, TypeOK, vps, CloseForm
<1>6. CASE Refresh
  BY <1>6, Fetching, ListsStep, TypeParts DEF Refresh, TypeOK, RestType, vps, form
<1>7. CASE Poll
  <2>1. Source \in Sources
    BY ShownType
  <2>2. /\ fetch' \in [Sources -> FetchType]
        /\ \A s \in Sources : fetch'[s] \in {fetch[s], Sent}
    BY <1>7, <2>1, SentType, TypeParts DEF Poll, ListsType
  <2> QED BY <1>7, <2>2, ListsStep, TypeParts
          DEF Poll, TypeOK, RestType, vps, form
<1>8. ASSUME NEW s \in Sources, Dump(s) PROVE TypeOK'
  <2> DEFINE dumped == [fetch[s] EXCEPT !.step = "dumped",
                                       !.keys = configured \intersect KeysOf(s)]
  <2>1. fetch[s] \in FetchType /\ fetch \in [Sources -> FetchType]
    BY TypeParts DEF ListsType
  <2>2. dumped \in FetchType /\ dumped.keys \subseteq KeysOf(s)
        /\ dumped.list = fetch[s].list
    BY <2>1 DEF FetchType, KeysOf
  <2>3. fetch' = [fetch EXCEPT ![s] = dumped] /\ UNCHANGED lists
    BY <1>8 DEF Dump
  <2> HIDE DEF dumped
  <2>4. ListsType'
    BY <2>1, <2>2, <2>3, TypeParts DEF ListsType
  <2> QED BY <1>8, <2>4, TypeParts DEF Dump, TypeOK, RestType, vps, form
<1>9. ASSUME NEW s \in Sources, Clients(s) PROVE TypeOK'
  <2>1. PICK readable \in BOOLEAN :
          \E list \in Sorted(Enrich(fetch[s].keys, readable)) :
            fetch' = [fetch EXCEPT ![s] = [Idle EXCEPT !.step = "answered",
                                                      !.list = list]]
    BY <1>9 DEF Clients
  <2>2. PICK list \in Sorted(Enrich(fetch[s].keys, readable)) :
          fetch' = [fetch EXCEPT ![s] = [Idle EXCEPT !.step = "answered",
                                                    !.list = list]]
    BY <2>1
  <2>3. fetch[s].keys \in SUBSET Keys /\ fetch[s].keys \subseteq KeysOf(s)
        /\ fetch \in [Sources -> FetchType]
    BY TypeParts DEF ListsType, FetchType
  <2> DEFINE peers == Enrich(fetch[s].keys, readable)
  <2>4. /\ peers \subseteq Peer /\ IsFiniteSet(peers)
        /\ {p.key : p \in peers} = fetch[s].keys
        /\ \A p, q \in peers : p.key = q.key => p = q
    BY <2>3, EnrichType DEF TypeOK
  <2>5. list \in Seq(Peer) /\ Tidy(s, list)
    <3>1. list \in Sorted(peers)
      BY <2>2
    <3> HIDE DEF peers
    <3>2. /\ list \in Seq(Peer) /\ Listed(list) \subseteq {p.key : p \in peers}
          /\ Cardinality(Listed(list)) = Len(list)
      BY <2>4, <3>1, SortedType
    <3> QED BY <2>3, <2>4, <3>2 DEF Tidy
  <2> DEFINE answered == [Idle EXCEPT !.step = "answered", !.list = list]
  <2>6. answered \in FetchType /\ answered.list = list /\ answered.keys = {}
    BY <2>5 DEF Idle, FetchType
  <2>7. fetch' = [fetch EXCEPT ![s] = answered] /\ UNCHANGED lists
    BY <1>9, <2>2 DEF Clients
  <2> HIDE DEF answered
  <2>8. ListsType'
    BY <2>3, <2>5, <2>6, <2>7, TypeParts DEF ListsType
  <2> QED BY <1>9, <2>8, TypeParts DEF Clients, TypeOK, RestType, vps, form
<1>10. ASSUME NEW s \in Sources, Deliver(s) PROVE TypeOK'
  <2>1. lists \in [Sources -> {None} \union Seq(Peer)]
        /\ fetch \in [Sources -> FetchType]
    BY TypeParts DEF ListsType
  <2>2. \A t \in Sources :
          /\ fetch'[t] = IF t = s THEN Idle ELSE fetch[t]
          /\ lists'[t] = IF t = s THEN fetch[s].list ELSE lists[t]
    BY <1>10, <2>1 DEF Deliver
  <2>3. fetch[s].list \in Seq(Peer) /\ Tidy(s, fetch[s].list)
    BY TypeParts DEF ListsType, FetchType
  <2>4. /\ lists' \in [Sources -> {None} \union Seq(Peer)]
        /\ fetch' \in [Sources -> FetchType]
    BY <1>10, <2>1, <2>3, SentType DEF Deliver
  <2>5. ListsType'
    BY <2>2, <2>3, <2>4, SentType, TypeParts DEF ListsType, Tidy
  <2> QED BY <1>10, <2>5, TypeParts DEF Deliver, TypeOK, RestType, vps, form
<1>11. ASSUME NEW s \in Sources, FetchFails(s) PROVE TypeOK'
  <2>1. /\ fetch' \in [Sources -> FetchType]
        /\ \A t \in Sources : fetch'[t] \in {fetch[t], Idle}
    BY <1>11, SentType, TypeParts DEF FetchFails, ListsType
  <2> QED BY <1>11, <2>1, ListsStep, TypeParts
          DEF FetchFails, TypeOK, RestType, vps, form
<1>12. CASE ApplyRename
  <2>1. mutation \in [source : Sources, key : Keys, name : Names,
                     step : {"sent", "applied"}]
    BY <1>12 DEF ApplyRename, Renaming, TypeOK
  <2> QED BY <1>12, <2>1 DEF ApplyRename, TypeOK, form
<1>13. CASE RenameSucceeds
  <2>1. confirmed' \in [Keys -> Names \union {None}]
    BY <1>13 DEF RenameSucceeds, Renaming, TypeOK
  <2>2. ListsType'
    BY <1>13, Fetching, ListsStep DEF RenameSucceeds, Invalidate
  <2> QED BY <1>13, <2>1, <2>2, TypeParts
          DEF RenameSucceeds, TypeOK, RestType, vps, form
<1>14. CASE RenameFails
  BY <1>14 DEF RenameFails, TypeOK, vps, form, Moving, CloseForm
<1>15. ASSUME NEW k \in Keys, ChangeElsewhere(k) PROVE TypeOK'
  <2>1. changes' \in 0..MaxChanges
    <3>1. changes \in 0..MaxChanges /\ MaxChanges \in Nat
      BY DashboardAssumption DEF TypeOK
    <3>2. changes < MaxChanges
      BY <1>15 DEF ChangeElsewhere
    <3>3. changes' = changes + 1
      BY <1>15 DEF ChangeElsewhere
    <3> QED BY <3>1, <3>2, <3>3
  <2>2. configured' \in SUBSET Keys
    BY <1>15 DEF ChangeElsewhere, TypeOK
  <2>3. names' \in [Keys -> Names \union {Nameless}]
    <3>1. PICK n \in Names \union {Nameless} : names' = [names EXCEPT ![k] = n]
      BY <1>15 DEF ChangeElsewhere
    <3> QED BY <3>1 DEF TypeOK
  <2>4. confirmed' \in [Keys -> Names \union {None}]
    BY <1>15 DEF ChangeElsewhere, TypeOK
  <2> QED BY <1>15, <2>1, <2>2, <2>3, <2>4 DEF ChangeElsewhere, TypeOK, form
<1>16. CASE UNCHANGED vars
  BY <1>16 DEF vars, TypeOK, vps, form
<1> QED
  BY <1>1, <1>2, <1>3, <1>4, <1>5, <1>6, <1>7, <1>8, <1>9, <1>10, <1>11,
     <1>12, <1>13, <1>14, <1>15, <1>16 DEF Next, User

-----------------------------------------------------------------------------
(* Renames.                                                               *)

(* A rename was submitted from a list of the source it goes to. *)
RenameInv == Renaming => /\ SourceOf[mutation.key] = mutation.source
                         /\ lists[mutation.source] # None

(* The form was opened for the peer that is picked. *)
DraftInv == draft # None /\ ~moved /\ picked # None => draft = picked

(* What a confirmed rename wrote is there, and in a list on its way back. *)
ConfirmedInv ==
  \A k \in Keys : confirmed[k] # None =>
    LET answer == fetch[SourceOf[k]]
    IN  /\ names[k] = confirmed[k]
        /\ answer.step = "answered" =>
             \A p \in Range(answer.list) :
               p.key = k => p.name \in {confirmed[k], Nameless}

(* A form is submitted from a list of its source, and a list stays one. *)
LEMMA RenameNext == TypeOK /\ RenameInv /\ [Next]_vars => RenameInv'
<1> SUFFICES ASSUME TypeOK, RenameInv, [Next]_vars PROVE RenameInv'
  OBVIOUS
<1>1. ASSUME NEW s \in Sources, SelectSource(s) PROVE RenameInv'
  BY <1>1 DEF SelectSource, vps, form, RenameInv, Renaming
<1>2. ASSUME NEW k \in Keys, Pick(k) PROVE RenameInv'
  BY <1>2 DEF Pick, vps, form, RenameInv, Renaming
<1>3. CASE TogglePencil
  BY <1>3 DEF TogglePencil, vps, form, RenameInv, Renaming
<1>4. CASE OpenDebugTab
  BY <1>4 DEF OpenDebugTab, vps, form, RenameInv, Renaming
<1>5. ASSUME NEW n \in Names, Submit(n) PROVE RenameInv'
  <2>1. Source \in Sources /\ EffectiveKey \in KeysOf(Source)
    BY <1>5, ShownType DEF Submit, CanRename
  <2>2. lists[Source] # None
    BY <1>5 DEF Submit, CanRename, Shown, Listed
  <2>3. mutation' = [source |-> Source, key |-> EffectiveKey, name |-> n,
                    step |-> "sent"] /\ UNCHANGED lists
    BY <1>5 DEF Submit
  <2> QED BY <2>1, <2>2, <2>3 DEF RenameInv, KeysOf
<1>6. CASE Refresh
  BY <1>6 DEF Refresh, vps, form, RenameInv, Renaming
<1>7. CASE Poll
  BY <1>7 DEF Poll, vps, form, RenameInv, Renaming
<1>8. ASSUME NEW s \in Sources, Dump(s) PROVE RenameInv'
  BY <1>8 DEF Dump, vps, form, RenameInv, Renaming
<1>9. ASSUME NEW s \in Sources, Clients(s) PROVE RenameInv'
  BY <1>9 DEF Clients, vps, form, RenameInv, Renaming
<1>10. ASSUME NEW s \in Sources, Deliver(s) PROVE RenameInv'
  <2>1. fetch[s].list # None
    <3>1. None \notin Seq(Peer)
      BY DashboardAssumption DEF Peer
    <3> QED BY <3>1 DEF TypeOK
  <2>2. lists' = [lists EXCEPT ![s] = fetch[s].list] /\ UNCHANGED mutation
    BY <1>10 DEF Deliver
  <2>3. Renaming => mutation.source \in Sources
    BY DEF TypeOK, Renaming
  <2>4. lists \in [Sources -> {None} \union Seq(Peer)]
    BY DEF TypeOK
  <2> QED BY <2>1, <2>2, <2>3, <2>4 DEF RenameInv, Renaming
<1>11. ASSUME NEW s \in Sources, FetchFails(s) PROVE RenameInv'
  BY <1>11 DEF FetchFails, vps, form, RenameInv, Renaming
<1>12. CASE ApplyRename
  <2>1. mutation \in [source : Sources, key : Keys, name : Names,
                     step : {"sent", "applied"}]
    BY <1>12 DEF ApplyRename, Renaming, TypeOK
  <2> QED BY <1>12, <2>1 DEF ApplyRename, RenameInv, Renaming
<1>13. CASE RenameSucceeds
  BY <1>13 DEF RenameSucceeds, RenameInv, Renaming
<1>14. CASE RenameFails
  BY <1>14 DEF RenameFails, RenameInv, Renaming
<1>15. ASSUME NEW k \in Keys, ChangeElsewhere(k) PROVE RenameInv'
  BY <1>15 DEF ChangeElsewhere, vps, form, RenameInv, Renaming
<1>16. CASE UNCHANGED vars
  BY <1>16 DEF vars, RenameInv, Renaming
<1> QED
  BY <1>1, <1>2, <1>3, <1>4, <1>5, <1>6, <1>7, <1>8, <1>9, <1>10, <1>11,
     <1>12, <1>13, <1>14, <1>15, <1>16 DEF Next, User

(* Whatever moves the selection sets moved or closes the form. *)
LEMMA DraftNext == DraftInv /\ [Next]_vars => DraftInv'
<1> SUFFICES ASSUME DraftInv, [Next]_vars PROVE DraftInv'
  OBVIOUS
<1>1. ASSUME NEW s \in Sources, SelectSource(s) PROVE DraftInv'
  BY <1>1 DEF SelectSource, Moving, DraftInv
<1>2. ASSUME NEW k \in Keys, Pick(k) PROVE DraftInv'
  BY <1>2 DEF Pick, Moving, DraftInv
<1>3. CASE TogglePencil
  BY <1>3 DEF TogglePencil, CloseForm, EffectiveKey, DraftInv
<1>4. CASE OpenDebugTab
  BY <1>4 DEF OpenDebugTab, CloseForm, DraftInv
<1>5. ASSUME NEW n \in Names, Submit(n) PROVE DraftInv'
  BY <1>5 DEF Submit, CloseForm, DraftInv
<1>6. CASE Refresh
  BY <1>6 DEF Refresh, vps, form, DraftInv
<1>7. CASE Poll
  BY <1>7 DEF Poll, vps, form, DraftInv
<1>8. ASSUME NEW s \in Sources, Dump(s) PROVE DraftInv'
  BY <1>8 DEF Dump, vps, form, DraftInv
<1>9. ASSUME NEW s \in Sources, Clients(s) PROVE DraftInv'
  BY <1>9 DEF Clients, vps, form, DraftInv
<1>10. ASSUME NEW s \in Sources, Deliver(s) PROVE DraftInv'
  BY <1>10 DEF Deliver, vps, form, DraftInv
<1>11. ASSUME NEW s \in Sources, FetchFails(s) PROVE DraftInv'
  BY <1>11 DEF FetchFails, vps, form, DraftInv
<1>12. CASE ApplyRename
  BY <1>12 DEF ApplyRename, vps, form, DraftInv
<1>13. CASE RenameSucceeds
  BY <1>13 DEF RenameSucceeds, vps, form, DraftInv
<1>14. CASE RenameFails
  BY <1>14 DEF RenameFails, vps, form, DraftInv
<1>15. ASSUME NEW k \in Keys, ChangeElsewhere(k) PROVE DraftInv'
  BY <1>15 DEF ChangeElsewhere, vps, form, DraftInv
<1>16. CASE UNCHANGED vars
  BY <1>16 DEF vars, form, DraftInv
<1> QED
  BY <1>1, <1>2, <1>3, <1>4, <1>5, <1>6, <1>7, <1>8, <1>9, <1>10, <1>11,
     <1>12, <1>13, <1>14, <1>15, <1>16 DEF Next, User

(* The success drops the answers that may be older, and later dumps are    *)
(* read after the rename.                                                  *)
LEMMA ConfirmedNext ==
  TypeOK /\ RenameInv /\ ConfirmedInv /\ [Next]_vars => ConfirmedInv'
<1> SUFFICES ASSUME TypeOK, RenameInv, ConfirmedInv, [Next]_vars
             PROVE  ConfirmedInv'
  OBVIOUS
<1> USE DEF ConfirmedInv
<1>0. /\ \A k \in Keys : SourceOf[k] \in Sources
      /\ Idle.step # "answered" /\ Sent.step # "answered"
  BY DashboardAssumption, SentType
<1>1. ASSUME NEW s \in Sources, SelectSource(s) PROVE ConfirmedInv'
  BY <1>1, <1>0 DEF SelectSource, vps
<1>2. ASSUME NEW k \in Keys, Pick(k) PROVE ConfirmedInv'
  BY <1>2, <1>0 DEF Pick, vps
<1>3. CASE TogglePencil
  BY <1>3, <1>0 DEF TogglePencil, vps
<1>4. CASE OpenDebugTab
  BY <1>4, <1>0 DEF OpenDebugTab, vps
<1>5. ASSUME NEW n \in Names, Submit(n) PROVE ConfirmedInv'
  BY <1>5, <1>0 DEF Submit, vps
<1>6. CASE Refresh
  <2>1. \A t \in Sources : fetch'[t] \in {fetch[t], Sent}
    BY <1>6, Fetching DEF Refresh
  <2> QED BY <1>6, <1>0, <2>1 DEF Refresh, vps
<1>7. CASE Poll
  <2>1. Source \in Sources
    BY ShownType
  <2>2. \A t \in Sources : fetch'[t] \in {fetch[t], Sent}
    BY <1>7, <2>1 DEF Poll, TypeOK
  <2> QED BY <1>7, <1>0, <2>2 DEF Poll, vps
<1>8. ASSUME NEW s \in Sources, Dump(s) PROVE ConfirmedInv'
  <2>1. \A t \in Sources : fetch'[t] = fetch[t] \/ fetch'[t].step = "dumped"
    BY <1>8 DEF Dump, TypeOK
  <2> QED BY <1>8, <1>0, <2>1 DEF Dump, vps
<1>9. ASSUME NEW s \in Sources, Clients(s) PROVE ConfirmedInv'
  <2>1. PICK readable \in BOOLEAN :
          \E list \in Sorted(Enrich(fetch[s].keys, readable)) :
            fetch' = [fetch EXCEPT ![s] = [Idle EXCEPT !.step = "answered",
                                                      !.list = list]]
    BY <1>9 DEF Clients
  <2>2. PICK list \in Sorted(Enrich(fetch[s].keys, readable)) :
          fetch' = [fetch EXCEPT ![s] = [Idle EXCEPT !.step = "answered",
                                                    !.list = list]]
    BY <2>1
  <2>3. Range(list) \subseteq Enrich(fetch[s].keys, readable)
    <3> DEFINE peers == Enrich(fetch[s].keys, readable)
    <3>1. fetch[s].keys \in SUBSET Keys
      BY DEF TypeOK
    <3>2. /\ peers \subseteq Peer /\ IsFiniteSet(peers)
          /\ \A p, q \in peers : p.key = q.key => p = q
      BY <3>1, EnrichType DEF TypeOK
    <3>3. list \in Sorted(peers)
      BY <2>2
    <3> HIDE DEF peers
    <3>4. Range(list) \subseteq peers
      BY <3>2, <3>3, SortedType
    <3> QED BY <3>4 DEF peers
  <2>4. \A p \in Range(list) : p.name \in {names[p.key], Nameless}
    BY <2>3 DEF Enrich
  <2>5. \A t \in Sources : \/ fetch'[t] = fetch[t]
                           \/ t = s /\ fetch'[t].list = list
    BY <2>2 DEF TypeOK, Idle
  <2> QED BY <1>9, <1>0, <2>4, <2>5 DEF Clients, vps
<1>10. ASSUME NEW s \in Sources, Deliver(s) PROVE ConfirmedInv'
  <2>1. \A t \in Sources : fetch'[t] \in {fetch[t], Idle}
    BY <1>10 DEF Deliver, TypeOK
  <2> QED BY <1>10, <1>0, <2>1 DEF Deliver, vps
<1>11. ASSUME NEW s \in Sources, FetchFails(s) PROVE ConfirmedInv'
  <2>1. \A t \in Sources : fetch'[t] \in {fetch[t], Idle}
    BY <1>11 DEF FetchFails, TypeOK
  <2> QED BY <1>11, <1>0, <2>1 DEF FetchFails, vps
<1>12. CASE ApplyRename
  <2>1. mutation.key \in Keys
    BY <1>12 DEF ApplyRename, Renaming, TypeOK
  <2>2. \A k \in Keys :
          \/ confirmed'[k] = None
          \/ confirmed'[k] = confirmed[k] /\ names'[k] = names[k]
    BY <1>12, <2>1 DEF ApplyRename, TypeOK
  <2> QED BY <1>12, <1>0, <2>2 DEF ApplyRename
<1>13. CASE RenameSucceeds
  <2>1. /\ mutation.source \in Sources /\ mutation.key \in Keys
        /\ lists[mutation.source] # None
        /\ SourceOf[mutation.key] = mutation.source
    BY <1>13 DEF RenameSucceeds, RenameInv, Renaming, TypeOK
  <2>2. \A t \in Sources : fetch'[t] \in {fetch[t], Sent}
    BY <1>13, Fetching DEF RenameSucceeds, Invalidate
  <2>3. CASE Source = mutation.source /\ names[mutation.key] = mutation.name
    <3>1. fetch'[SourceOf[mutation.key]] = Sent
      BY <1>13, <2>1, <2>3, Fetching DEF RenameSucceeds, Invalidate
    <3>2. \A k \in Keys : confirmed'[k] =
            IF k = mutation.key THEN mutation.name ELSE confirmed[k]
      BY <1>13, <2>3 DEF RenameSucceeds, TypeOK
    <3>3. UNCHANGED names
      BY <1>13 DEF RenameSucceeds, vps
    <3> QED BY <1>0, <2>2, <2>3, <3>1, <3>2, <3>3
  <2>4. CASE UNCHANGED confirmed
    BY <1>13, <1>0, <2>2, <2>4 DEF RenameSucceeds, vps
  <2> QED BY <1>13, <2>3, <2>4 DEF RenameSucceeds
<1>14. CASE RenameFails
  BY <1>14, <1>0 DEF RenameFails, vps
<1>15. ASSUME NEW k \in Keys, ChangeElsewhere(k) PROVE ConfirmedInv'
  <2>1. \A j \in Keys : \/ confirmed'[j] = None
                        \/ /\ confirmed'[j] = confirmed[j]
                           /\ names'[j] = names[j]
    <3>1. PICK n \in Names \union {Nameless} : names' = [names EXCEPT ![k] = n]
      BY <1>15 DEF ChangeElsewhere
    <3>2. confirmed' = [confirmed EXCEPT ![k] = None]
      BY <1>15 DEF ChangeElsewhere
    <3> QED BY <3>1, <3>2 DEF TypeOK
  <2> QED BY <1>15, <1>0, <2>1 DEF ChangeElsewhere
<1>16. CASE UNCHANGED vars
  BY <1>16, <1>0 DEF vars, vps
<1> QED
  BY <1>1, <1>2, <1>3, <1>4, <1>5, <1>6, <1>7, <1>8, <1>9, <1>10, <1>11,
     <1>12, <1>13, <1>14, <1>15, <1>16 DEF Next, User

-----------------------------------------------------------------------------
(* The order of the lists.                                                 *)

(* The order of the handler's list, on all peers. *)
Before == {e \in Peer \X Peer : Less(e[1], e[2])}

(* Two peers of different keys come in one order and not in the other. *)
LEMMA BeforeIsStrict ==
  ASSUME NEW p \in Peer, NEW q \in Peer
  PROVE  /\ <<p, q>> \in Before <=> Less(p, q)
         /\ ~(<<p, q>> \in Before /\ <<q, p>> \in Before)
         /\ p.key # q.key => Less(p, q) \/ Less(q, p)
<1>1. <<p, q>> \in Before <=> Less(p, q)
  <2>1. <<p, q>> \in Peer \X Peer /\ <<p, q>>[1] = p /\ <<p, q>>[2] = q
    OBVIOUS
  <2> QED BY <2>1 DEF Before
<1>2. <<q, p>> \in Before <=> Less(q, p)
  <2>1. <<q, p>> \in Peer \X Peer /\ <<q, p>>[1] = q /\ <<q, p>>[2] = p
    OBVIOUS
  <2> QED BY <2>1 DEF Before
<1>3. /\ p.key \in Nat /\ q.key \in Nat
      /\ SortName(p) \in Nat /\ SortName(q) \in Nat
  BY DashboardAssumption DEF Peer, SortName
<1>4. ~(Less(p, q) /\ Less(q, p))
  BY <1>3 DEF Less
<1>5. p.key # q.key => Less(p, q) \/ Less(q, p)
  BY <1>3 DEF Less
<1> QED BY <1>1, <1>2, <1>4, <1>5

(* The list of the handler is in this order. *)
LEMMA SortedAscends ==
  ASSUME NEW peers, peers \subseteq Peer, IsFiniteSet(peers),
         \A p, q \in peers : p.key = q.key => p = q,
         NEW list \in Sorted(peers)
  PROVE  Ascends(Before, list)
<1> DEFINE n == Cardinality(peers)
<1>1. /\ list \in [1..n -> peers]
      /\ \A i, j \in 1..n : i # j => list[i] # list[j]
      /\ \A i, j \in DOMAIN list : i < j => ~Less(list[j], list[i])
  BY DEF Sorted, SetToSeqs
<1>2. n \in Nat
  BY FS_CardinalityType
<1> HIDE DEF n
<1>3. DOMAIN list = 1..n /\ \A i \in 1..n : list[i] \in peers
  BY <1>1
<1>4. ASSUME NEW i \in 1..n, NEW j \in 1..n, i < j
      PROVE  <<list[i], list[j]>> \in Before
  <2>1. list[i] \in Peer /\ list[j] \in Peer /\ list[i].key # list[j].key
    BY <1>1, <1>2, <1>3, <1>4
  <2>2. ~Less(list[j], list[i])
    BY <1>1, <1>3, <1>4
  <2> QED BY <2>1, <2>2, BeforeIsStrict
<1> QED BY <1>3, <1>4 DEF Ascends

(* Every list, cached or on its way, is in this order. *)
OrderInv ==
  \A s \in Sources : /\ Ascends(Before, fetch[s].list)
                     /\ lists[s] # None => Ascends(Before, lists[s])

(* What a step makes of the lists. *)
ListsMoved(t) ==
  /\ lists'[t] \in {lists[t], fetch[t].list}
  /\ \/ fetch'[t].list \in {fetch[t].list, <<>>}
     \/ \E keys \in SUBSET Keys, readable \in BOOLEAN :
          fetch'[t].list \in Sorted(Enrich(keys, readable))

(* A cached list is only ever replaced by the one on its way, and that one *)
(* comes from the handler.                                                 *)
LEMMA ListsMove ==
  ASSUME TypeOK, [Next]_vars, NEW t \in Sources
  PROVE  ListsMoved(t)
<1>0. ListsType
  BY TypeParts
<1>1. ASSUME UNCHANGED <<lists, fetch>> PROVE ListsMoved(t)
  BY <1>1 DEF ListsMoved
<1>2. ASSUME UNCHANGED lists,
             \A s \in Sources : fetch'[s] \in {fetch[s], Sent, Idle}
      PROVE  ListsMoved(t)
  BY <1>2, SentType DEF ListsMoved
<1>3. CASE Refresh
  BY <1>2, <1>3, Fetching DEF Refresh
<1>4. CASE Poll
  <2>1. Source \in Sources
    BY ShownType
  <2>2. \A s \in Sources : fetch'[s] \in {fetch[s], Sent}
    BY <1>0, <1>4, <2>1 DEF Poll, ListsType
  <2> QED BY <1>2, <1>4, <2>2 DEF Poll
<1>5. ASSUME NEW s \in Sources, Dump(s) PROVE ListsMoved(t)
  <2>1. fetch'[t].list = fetch[t].list
    BY <1>0, <1>5 DEF Dump, ListsType, FetchType
  <2> QED BY <1>5, <2>1 DEF Dump, ListsMoved
<1>6. ASSUME NEW s \in Sources, Clients(s) PROVE ListsMoved(t)
  <2>1. PICK readable \in BOOLEAN :
          \E list \in Sorted(Enrich(fetch[s].keys, readable)) :
            fetch' = [fetch EXCEPT ![s] = [Idle EXCEPT !.step = "answered",
                                                      !.list = list]]
    BY <1>6 DEF Clients
  <2>2. PICK list \in Sorted(Enrich(fetch[s].keys, readable)) :
          fetch' = [fetch EXCEPT ![s] = [Idle EXCEPT !.step = "answered",
                                                    !.list = list]]
    BY <2>1
  <2>3. fetch'[t] = fetch[t] \/ fetch'[t].list = list
    BY <1>0, <2>2 DEF ListsType, Idle
  <2>4. fetch[s].keys \in SUBSET Keys
    BY <1>0 DEF ListsType, FetchType
  <2>5. fetch'[t].list = fetch[t].list
          \/ fetch'[t].list \in Sorted(Enrich(fetch[s].keys, readable))
    BY <2>2, <2>3
  <2> QED BY <1>6, <2>1, <2>4, <2>5 DEF Clients, ListsMoved
<1>7. ASSUME NEW s \in Sources, Deliver(s) PROVE ListsMoved(t)
  <2>1. fetch'[t] \in {fetch[t], Idle}
    BY <1>0, <1>7 DEF Deliver, ListsType
  <2>2. lists'[t] \in {lists[t], fetch[t].list}
    BY <1>0, <1>7 DEF Deliver, ListsType
  <2> QED BY <2>1, <2>2, SentType DEF ListsMoved
<1>8. ASSUME NEW s \in Sources, FetchFails(s) PROVE ListsMoved(t)
  <2>1. \A r \in Sources : fetch'[r] \in {fetch[r], Idle}
    BY <1>0, <1>8 DEF FetchFails, ListsType
  <2> QED BY <1>2, <1>8, <2>1 DEF FetchFails
<1>9. CASE RenameSucceeds
  BY <1>2, <1>9, Fetching DEF RenameSucceeds, Invalidate
<1>10. ASSUME \/ \E s \in Sources : SelectSource(s)
              \/ \E k \in Keys : Pick(k) \/ ChangeElsewhere(k)
              \/ TogglePencil \/ OpenDebugTab
              \/ \E n \in Names : Submit(n)
              \/ ApplyRename \/ RenameFails \/ UNCHANGED vars
       PROVE  ListsMoved(t)
  <2>1. UNCHANGED lists /\ UNCHANGED fetch
    BY <1>10 DEF SelectSource, Pick, TogglePencil, OpenDebugTab, Submit,
                 ApplyRename, RenameFails, ChangeElsewhere, vars
  <2> QED BY <1>1, <2>1
<1> QED
  BY <1>3, <1>4, <1>5, <1>6, <1>7, <1>8, <1>9, <1>10 DEF Next, User

(* So every list stays in order. *)
LEMMA OrderNext == TypeOK /\ OrderInv /\ [Next]_vars => OrderInv'
<1> SUFFICES ASSUME TypeOK, OrderInv, [Next]_vars, NEW t \in Sources
             PROVE  /\ Ascends(Before, fetch'[t].list)
                    /\ lists'[t] # None => Ascends(Before, lists'[t])
  BY DEF OrderInv
<1>1. lists'[t] # None => Ascends(Before, lists'[t])
  <2>1. lists'[t] \in {lists[t], fetch[t].list}
    BY ListsMove DEF ListsMoved
  <2> QED BY <2>1 DEF OrderInv
<1>2. CASE fetch'[t].list \in {fetch[t].list, <<>>}
  <2>1. Ascends(Before, <<>>)
    BY DEF Ascends
  <2> QED BY <1>1, <1>2, <2>1 DEF OrderInv
<1>3. CASE \E keys \in SUBSET Keys, readable \in BOOLEAN :
             fetch'[t].list \in Sorted(Enrich(keys, readable))
  <2>1. PICK keys \in SUBSET Keys, readable \in BOOLEAN :
          fetch'[t].list \in Sorted(Enrich(keys, readable))
    BY <1>3
  <2> DEFINE peers == Enrich(keys, readable)
             list == fetch'[t].list
  <2>2. /\ peers \subseteq Peer /\ IsFiniteSet(peers)
        /\ \A p, q \in peers : p.key = q.key => p = q
    BY EnrichType DEF TypeOK
  <2>3. list \in Sorted(peers)
    BY <2>1
  <2> HIDE DEF peers, list
  <2>4. Ascends(Before, list)
    BY <2>2, <2>3, SortedAscends
  <2> QED BY <1>1, <2>4 DEF list
<1> QED BY <1>2, <1>3, ListsMove DEF ListsMoved

-----------------------------------------------------------------------------
(* Theorems.                                                              *)

(* The inductive invariant. *)
IInv == TypeOK /\ RenameInv /\ DraftInv /\ ConfirmedInv /\ OrderInv

(* It holds at the start. *)
LEMMA InvInit == Init => IInv
<1> SUFFICES ASSUME Init PROVE IInv
  OBVIOUS
<1>1. RenameInv /\ DraftInv
  BY DEF Init, RenameInv, DraftInv, Renaming
<1>2. ConfirmedInv
  BY DEF Init, ConfirmedInv
<1>3. OrderInv
  BY SentType DEF Init, OrderInv, Ascends
<1> QED BY <1>1, <1>2, <1>3, TypeInit DEF IInv

(* It holds for ever. *)
LEMMA Invariant == Spec => []IInv
<1>1. IInv /\ [Next]_vars => IInv'
  BY TypeNext, RenameNext, DraftNext, ConfirmedNext, OrderNext DEF IInv
<1> QED BY <1>1, InvInit, PTL DEF Spec

(* TYPE CORRECTNESS of every reachable state: a list has the peers of its  *)
(* own source, each of them once (handlers.go:264-309).                    *)
THEOREM TypeCorrect == Spec => []TypeOK
<1>1. IInv => TypeOK
  BY DEF IInv
<1> QED BY <1>1, Invariant, PTL

(* A RENAME GOES TO THE CONTAINER OF ITS PEER, whatever lists arrive while *)
(* the user changes the source (App.tsx:64-76, 206-214).                   *)
THEOREM RenameCorrect == Spec => []RenameStaysInSource
<1>1. IInv => RenameStaysInSource
  BY DEF IInv, RenameInv, RenameStaysInSource
<1> QED BY <1>1, Invariant, PTL

(* AN EXPLICIT CHOICE IS KEPT until the form is submitted                  *)
(* (App.tsx:75-83, 482-542).                                               *)
THEOREM PickedCorrect == Spec => PickedPeerIsRenamed
<1> DEFINE Kept == ~Renaming /\ Renaming' /\ picked # None /\ ~moved =>
                     mutation'.key = draft
<1>1. ASSUME IInv, [Next]_vars PROVE Kept
  <2>1. ASSUME NEW n \in Names, Submit(n), picked # None, ~moved
        PROVE  mutation'.key = draft
    BY <1>1, <2>1 DEF Submit, EffectiveKey, IInv, DraftInv
  <2>2. ASSUME ~Renaming, Renaming' PROVE \E n \in Names : Submit(n)
    <3>1. mutation' # mutation
      BY <2>2 DEF Renaming
    <3> QED BY <1>1, <2>2, <3>1
            DEF Next, User, SelectSource, Pick, TogglePencil, OpenDebugTab,
                Refresh, Poll, Dump, Clients, Deliver, FetchFails,
                ApplyRename, RenameSucceeds, RenameFails, ChangeElsewhere,
                Renaming, vars
  <2> QED BY <2>1, <2>2
<1>2. IInv /\ [Next]_vars => [Kept]_vars
  BY <1>1
<1> QED BY <1>2, Invariant, PTL DEF Spec, PickedPeerIsRenamed

(* A CONFIRMED RENAME IS NOT TAKEN BACK ON THE SCREEN by a list that was   *)
(* on its way (App.tsx:68-73, 124-129).                                    *)
THEOREM ConfirmedCorrect == Spec => ConfirmedNameStays
<1> DEFINE Stays ==
      \A s \in Sources : lists'[s] # lists[s] =>
        \A p \in Range(lists'[s]) :
          confirmed[p.key] # None => p.name \in {confirmed[p.key], Nameless}
<1>1. ASSUME IInv, [Next]_vars PROVE Stays
  <2> SUFFICES ASSUME NEW s \in Sources, lists'[s] # lists[s]
               PROVE  \A p \in Range(lists'[s]) : confirmed[p.key] # None =>
                        p.name \in {confirmed[p.key], Nameless}
    OBVIOUS
  <2>1. PICK t \in Sources : Deliver(t)
    BY <1>1 DEF Next, User, SelectSource, Pick, TogglePencil, OpenDebugTab,
                Submit, Refresh, Poll, Dump, Clients, FetchFails,
                ApplyRename, RenameSucceeds, RenameFails, ChangeElsewhere,
                vars
  <2>2. t = s /\ lists'[s] = fetch[s].list /\ fetch[s].step = "answered"
    BY <1>1, <2>1 DEF Deliver, IInv, TypeOK
  <2>3. fetch[s].list \in Seq(Peer) /\ Listed(fetch[s].list) \subseteq KeysOf(s)
    BY <1>1, TypeParts DEF IInv, ListsType, FetchType, Tidy
  <2>4. \A p \in Range(fetch[s].list) : p.key \in Keys /\ SourceOf[p.key] = s
    BY <2>3 DEF Range, Listed, KeysOf
  <2> QED BY <1>1, <2>2, <2>4 DEF IInv, ConfirmedInv
<1>2. IInv /\ [Next]_vars => [Stays]_vars
  BY <1>1
<1> QED BY <1>2, Invariant, PTL DEF Spec, ConfirmedNameStays

(* THE ORDER OF THE LIST IS ITS CONTENT'S: Less orders any two peers of    *)
(* one dump, so one order is left for the peers of a list and rows do not  *)
(* jump between polls (handlers.go:280-309).                               *)
THEOREM OrderCorrect == Spec => OrderIsStable
<1> DEFINE Stable ==
      \A s \in Sources :
        lists[s] # None /\ Range(lists'[s]) = Range(lists[s]) =>
          lists'[s] = lists[s]
<1>1. ASSUME IInv, [Next]_vars PROVE Stable
  <2> SUFFICES ASSUME NEW s \in Sources, lists[s] # None,
                      Range(lists'[s]) = Range(lists[s])
               PROVE  lists'[s] = lists[s]
    OBVIOUS
  <2>1. lists'[s] \in {lists[s], fetch[s].list}
    BY <1>1, ListsMove DEF ListsMoved, IInv
  <2>2. CASE lists'[s] = fetch[s].list
    <3> DEFINE p == fetch[s].list
               q == lists[s]
    <3>1. p \in Seq(Peer) /\ q \in Seq(Peer)
      BY <1>1, TypeParts DEF IInv, ListsType, FetchType
    <3>2. Ascends(Before, p) /\ Ascends(Before, q)
      BY <1>1 DEF IInv, OrderInv
    <3>3. Range(p) = Range(q)
      BY <2>2
    <3>4. \A a, b \in Peer : ~(<<a, b>> \in Before /\ <<b, a>> \in Before)
      BY BeforeIsStrict
    <3> HIDE DEF p, q
    <3>5. p = q
      BY <3>1, <3>2, <3>3, <3>4, AscendingUnique
    <3> QED BY <2>2, <3>5 DEF p, q
  <2> QED BY <2>1, <2>2
<1>2. IInv /\ [Next]_vars => [Stable]_vars
  BY <1>1
<1> QED BY <1>2, Invariant, PTL DEF Spec, OrderIsStable

-----------------------------------------------------------------------------
(* The numbers on the screen (Format).                                     *)

(* The length of a unit of time, in milliseconds. *)
Millis == [s |-> 1000, m |-> 60 * 1000, h |-> 60 * 60 * 1000,
           d |-> 24 * 60 * 60 * 1000]

(* An age as it is shown, in milliseconds. *)
ShownAge(text) == text.n * Millis[text.unit]

(* How far it may be from the real one: half of its unit and of every      *)
(* smaller one.                                                            *)
Slack == [s |-> 500, m |-> 30500, h |-> 1830500, d |-> 45030500]

-----------------------------------------------------------------------------
(* Rounding is to the nearest, for the divisors of this module. *)
LEMMA Rounding ==
  ASSUME NEW n \in Nat
  PROVE  /\ RoundDiv(n, 24) \in Nat
         /\ 2 * n < 48 * RoundDiv(n, 24) + 24
         /\ 48 * RoundDiv(n, 24) <= 2 * n + 24
         /\ RoundDiv(n, 60) \in Nat
         /\ 2 * n < 120 * RoundDiv(n, 60) + 60
         /\ 120 * RoundDiv(n, 60) <= 2 * n + 60
         /\ RoundDiv(n, 1000) \in Nat
         /\ 2 * n < 2000 * RoundDiv(n, 1000) + 1000
         /\ 2000 * RoundDiv(n, 1000) <= 2 * n + 1000
BY DEF RoundDiv

(* Each unit of an age is within half of itself of the one before. *)
UnitsAreClose(s) ==
  /\ Minutes(s) \in Nat /\ Hours(s) \in Nat /\ Days(s) \in Nat
  /\ 2 * s < 120 * Minutes(s) + 60 /\ 120 * Minutes(s) <= 2 * s + 60
  /\ 2 * Minutes(s) < 120 * Hours(s) + 60
  /\ 120 * Hours(s) <= 2 * Minutes(s) + 60
  /\ 2 * Hours(s) < 48 * Days(s) + 24 /\ 48 * Days(s) <= 2 * Hours(s) + 24

(* The divisions of an age are all roundings. *)
LEMMA Units ==
  ASSUME NEW s \in Nat
  PROVE  UnitsAreClose(s)
<1>1. /\ Minutes(s) \in Nat
      /\ 2 * s < 120 * Minutes(s) + 60 /\ 120 * Minutes(s) <= 2 * s + 60
  BY Rounding DEF Minutes
<1>2. /\ Hours(s) \in Nat
      /\ 2 * Minutes(s) < 120 * Hours(s) + 60
      /\ 120 * Hours(s) <= 2 * Minutes(s) + 60
  BY <1>1 DEF Hours, RoundDiv
<1>3. /\ Days(s) \in Nat
      /\ 2 * Hours(s) < 48 * Days(s) + 24 /\ 48 * Days(s) <= 2 * Hours(s) + 24
  BY <1>2 DEF Days, RoundDiv
<1> QED BY <1>1, <1>2, <1>3 DEF UnitsAreClose

(* The four cases of an age. *)
LEMMA AgoCases ==
  ASSUME NEW s \in Nat
  PROVE  \/ s < 60 /\ Ago(s) = [unit |-> "s", n |-> s]
         \/ /\ s >= 60 /\ Minutes(s) < 60
            /\ Ago(s) = [unit |-> "m", n |-> Minutes(s)]
         \/ /\ Minutes(s) >= 60 /\ Hours(s) < 48
            /\ Ago(s) = [unit |-> "h", n |-> Hours(s)]
         \/ /\ Minutes(s) >= 60 /\ Hours(s) >= 48
            /\ Ago(s) = [unit |-> "d", n |-> Days(s)]
<1>1. /\ Minutes(s) \in Nat /\ Hours(s) \in Nat
      /\ Minutes(s) >= 60 => s >= 60
      /\ Minutes(s) < 60 => Hours(s) < 48
  BY Units DEF UnitsAreClose
<1>2. CASE s < 60
  BY <1>2 DEF Ago
<1>3. CASE s >= 60 /\ Minutes(s) < 60
  BY <1>3 DEF Ago
<1>4. CASE s >= 60 /\ Minutes(s) >= 60 /\ Hours(s) < 48
  BY <1>1, <1>4 DEF Ago
<1>5. CASE s >= 60 /\ Minutes(s) >= 60 /\ Hours(s) >= 48
  BY <1>1, <1>5 DEF Ago
<1> QED BY <1>1, <1>2, <1>3, <1>4, <1>5

(* The numbers in Millis and Slack. *)
LEMMA Lengths ==
  /\ Millis["s"] = 1000 /\ Millis["m"] = 60000
  /\ Millis["h"] = 3600000 /\ Millis["d"] = 86400000
  /\ Slack["s"] = 500 /\ Slack["m"] = 30500
  /\ Slack["h"] = 1830500 /\ Slack["d"] = 45030500
BY DEF Millis, Slack

(* The four cases of an age in milliseconds, and how far it may be off. *)
IsShown(s, age, slack) ==
  \/ s < 60 /\ age = 1000 * s /\ slack = 500
  \/ s >= 60 /\ Minutes(s) < 60 /\ age = 60000 * Minutes(s) /\ slack = 30500
  \/ /\ Minutes(s) >= 60 /\ Hours(s) < 48
     /\ age = 3600000 * Hours(s) /\ slack = 1830500
  \/ /\ Minutes(s) >= 60 /\ Hours(s) >= 48
     /\ age = 86400000 * Days(s) /\ slack = 45030500

(* Every age is shown in one of these cases. *)
LEMMA AgeOf ==
  ASSUME NEW s \in Nat
  PROVE  IsShown(s, ShownAge(Ago(s)), Slack[Ago(s).unit])
<1>1. Minutes(s) \in Nat /\ Hours(s) \in Nat /\ Days(s) \in Nat
  BY Units DEF UnitsAreClose
<1>2. CASE s < 60 /\ Ago(s) = [unit |-> "s", n |-> s]
  <2>1. Ago(s).n = s /\ Ago(s).unit = "s"
    BY <1>2
  <2>2. ShownAge(Ago(s)) = 1000 * s
    BY <2>1, <1>1, Lengths DEF ShownAge
  <2> QED BY <1>2, <2>1, <2>2, Lengths DEF IsShown
<1>3. CASE s >= 60 /\ Minutes(s) < 60 /\ Ago(s) = [unit |-> "m", n |-> Minutes(s)]
  <2>1. Ago(s).n = Minutes(s) /\ Ago(s).unit = "m"
    BY <1>3
  <2>2. ShownAge(Ago(s)) = 60000 * Minutes(s)
    BY <2>1, <1>1, Lengths DEF ShownAge
  <2> QED BY <1>3, <2>1, <2>2, Lengths DEF IsShown
<1>4. CASE Minutes(s) >= 60 /\ Hours(s) < 48 /\ Ago(s) = [unit |-> "h", n |-> Hours(s)]
  <2>1. Ago(s).n = Hours(s) /\ Ago(s).unit = "h"
    BY <1>4
  <2>2. ShownAge(Ago(s)) = 3600000 * Hours(s)
    BY <2>1, <1>1, Lengths DEF ShownAge
  <2> QED BY <1>4, <2>1, <2>2, Lengths DEF IsShown
<1>5. CASE Minutes(s) >= 60 /\ Hours(s) >= 48 /\ Ago(s) = [unit |-> "d", n |-> Days(s)]
  <2>1. Ago(s).n = Days(s) /\ Ago(s).unit = "d"
    BY <1>5
  <2>2. ShownAge(Ago(s)) = 86400000 * Days(s)
    BY <2>1, <1>1, Lengths DEF ShownAge
  <2> QED BY <1>5, <2>1, <2>2, Lengths DEF IsShown
<1> QED BY <1>2, <1>3, <1>4, <1>5, AgoCases DEF IsShown

(* A unit of bytes is the one the loop ends with. *)
LEMMA UnitFits ==
  ASSUME NEW bytes \in Nat
  PROVE  /\ UnitOf(bytes) \in 1..5
         /\ UnitOf(bytes) = 1 \/ bytes >= UnitLength[UnitOf(bytes)]
         /\ UnitOf(bytes) = 5 \/ bytes < UnitLength[UnitOf(bytes) + 1]
<1> DEFINE P(u) == /\ u = 1 \/ bytes >= UnitLength[u]
                   /\ u = 5 \/ bytes < UnitLength[u + 1]
<1>1. \E u \in 1..5 : P(u)
  <2>1. CASE bytes < 1024
    <3>1. P(1) BY <2>1 DEF UnitLength
    <3> QED BY <3>1
  <2>2. CASE bytes >= 1024 /\ bytes < 1024 * 1024
    <3>1. P(2) BY <2>2 DEF UnitLength
    <3> QED BY <3>1
  <2>3. CASE bytes >= 1024 * 1024 /\ bytes < 1024 * 1024 * 1024
    <3>1. P(3) BY <2>3 DEF UnitLength
    <3> QED BY <3>1
  <2>4. CASE /\ bytes >= 1024 * 1024 * 1024
             /\ bytes < 1024 * 1024 * 1024 * 1024
    <3>1. P(4) BY <2>4 DEF UnitLength
    <3> QED BY <3>1
  <2>5. CASE bytes >= 1024 * 1024 * 1024 * 1024
    <3>1. P(5) BY <2>5 DEF UnitLength
    <3> QED BY <3>1
  <2> QED BY <2>1, <2>2, <2>3, <2>4, <2>5
<1>2. UnitOf(bytes) = CHOOSE u \in 1..5 : P(u)
  BY DEF UnitOf
<1> QED BY <1>1, <1>2

-----------------------------------------------------------------------------
(* AN AMOUNT IS WHAT IT SAYS, to half of the last digit: the loop that     *)
(* divides loses nothing (format.ts:8-13).                                 *)
THEOREM AmountIsClose ==
  ASSUME NEW bytes \in Nat
  PROVE  LET shown == FormatBytes(bytes)
             length == UnitLength[shown.unit]
         IN  /\ 20 * bytes <= 2 * length * shown.tenths + length
             /\ 2 * length * shown.tenths <= 20 * bytes + length
<1>1. UnitOf(bytes) \in 1..5 BY UnitFits
<1>2. CASE UnitOf(bytes) = 1
  BY <1>2 DEF FormatBytes, RoundDiv, UnitLength
<1>3. CASE UnitOf(bytes) = 2
  BY <1>3 DEF FormatBytes, RoundDiv, UnitLength
<1>4. CASE UnitOf(bytes) = 3
  BY <1>4 DEF FormatBytes, RoundDiv, UnitLength
<1>5. CASE UnitOf(bytes) = 4
  BY <1>5 DEF FormatBytes, RoundDiv, UnitLength
<1>6. CASE UnitOf(bytes) = 5
  BY <1>6 DEF FormatBytes, RoundDiv, UnitLength
<1> QED BY <1>1, <1>2, <1>3, <1>4, <1>5, <1>6

(* A PEER THAT IS OFFLINE IS NOT SHOWN IN SECONDS, though its status and   *)
(* its last handshake are computed apart (format.ts:21-47).                *)
THEOREM OfflineIsNotSeconds ==
  ASSUME NEW handshake \in Int, NEW now \in Int,
         GetPeerStatus(handshake, now) = "offline"
  PROVE  FormatRelativeHandshake(handshake, now).unit # "s"
<1> DEFINE s == Seconds(handshake, now)
<1>1. now - handshake >= 60000
  BY DEF GetPeerStatus
<1>2. s \in Nat /\ s >= 60
  BY <1>1, Rounding DEF Seconds
<1>3. Ago(s).unit # "s"
  BY <1>2, AgoCases
<1> QED BY <1>3 DEF FormatRelativeHandshake

(* A PEER THAT IS ONLINE READS AS RECENT: in seconds or, when rounded up,  *)
(* as one minute (format.ts:21-47).                                        *)
THEOREM OnlineIsRecent ==
  ASSUME NEW handshake \in Nat \ {0}, NEW now \in Int,
         GetPeerStatus(handshake, now) = "online"
  PROVE  \/ FormatRelativeHandshake(handshake, now).unit = "s"
         \/ FormatRelativeHandshake(handshake, now) = [unit |-> "m", n |-> 1]
<1> DEFINE s == Seconds(handshake, now)
<1>1. now - handshake < 60000
  BY DEF GetPeerStatus
<1>2. s \in Nat /\ s <= 60
  BY <1>1 DEF Seconds, RoundDiv
<1> HIDE DEF s
<1>3. /\ Minutes(s) \in Nat /\ Hours(s) \in Nat
      /\ 2 * s < 120 * Minutes(s) + 60 /\ 120 * Minutes(s) <= 2 * s + 60
  BY <1>2, Units DEF UnitsAreClose
<1>4. Minutes(s) <= 1 /\ (s >= 60 => Minutes(s) = 1)
  BY <1>2, <1>3
<1>5. Ago(s).unit = "s" \/ Ago(s) = [unit |-> "m", n |-> 1]
  BY <1>2, <1>3, <1>4 DEF Ago
<1> QED BY <1>5 DEF FormatRelativeHandshake, s

(* AN AGE IS CLOSE TO THE REAL ONE. Rounding unit after unit is off by no  *)
(* more than half of each of them (format.ts:36-46).                       *)
THEOREM AgeIsClose ==
  ASSUME NEW handshake \in Nat \ {0}, NEW now \in Nat, now >= handshake
  PROVE  LET text == FormatRelativeHandshake(handshake, now)
         IN  /\ ShownAge(text) <= now - handshake + Slack[text.unit]
             /\ now - handshake <= ShownAge(text) + Slack[text.unit]
<1> DEFINE s == Seconds(handshake, now)
<1>1. /\ s \in Nat
      /\ 1000 * s <= now - handshake + 500 /\ now - handshake <= 1000 * s + 500
  <2>1. CASE now = handshake BY <2>1 DEF Seconds
  <2>2. CASE now > handshake BY <2>2, Rounding DEF Seconds
  <2> QED BY <2>1, <2>2
<1> HIDE DEF s
<1>2. /\ ShownAge(Ago(s)) <= now - handshake + Slack[Ago(s).unit]
      /\ now - handshake <= ShownAge(Ago(s)) + Slack[Ago(s).unit]
  <2>1. UnitsAreClose(s) /\ IsShown(s, ShownAge(Ago(s)), Slack[Ago(s).unit])
    BY <1>1, Units, AgeOf
  <2> QED BY <1>1, <2>1 DEF UnitsAreClose, IsShown
<1> QED BY <1>2 DEF FormatRelativeHandshake, s

(* THE OLDER HANDSHAKE NEVER READS AS THE MORE RECENT ONE, in whatever     *)
(* units the two are shown (format.ts:36-46).                              *)
THEOREM OlderReadsOlder ==
  ASSUME NEW older \in Nat \ {0}, NEW newer \in Nat \ {0}, NEW now \in Nat,
         older <= newer
  PROVE  ShownAge(FormatRelativeHandshake(newer, now)) <=
           ShownAge(FormatRelativeHandshake(older, now))
<1> DEFINE a == Seconds(newer, now)
           b == Seconds(older, now)
<1>1. a \in Nat /\ b \in Nat
  BY DEF Seconds, RoundDiv
<1>2. a <= b
  BY DEF Seconds, RoundDiv
<1> HIDE DEF a, b
<1>3. UnitsAreClose(a) /\ UnitsAreClose(b)
  BY <1>1, Units
<1>4. /\ IsShown(a, ShownAge(Ago(a)), Slack[Ago(a).unit])
      /\ IsShown(b, ShownAge(Ago(b)), Slack[Ago(b).unit])
  BY <1>1, AgeOf
<1>5. Minutes(a) <= Minutes(b) /\ Hours(a) <= Hours(b) /\ Days(a) <= Days(b)
  BY <1>1, <1>2, <1>3 DEF UnitsAreClose
<1>6. ShownAge(Ago(a)) <= ShownAge(Ago(b))
  BY <1>1, <1>2, <1>3, <1>4, <1>5 DEF UnitsAreClose, IsShown
<1> QED BY <1>6 DEF FormatRelativeHandshake, a, b
=============================================================================
