------------------------------ MODULE Dashboard ------------------------------
(***************************************************************************)
(* The list of peers in the browser (web/src/app/App.tsx) and the handler  *)
(* it polls, GET /api/peers (internal/web/handlers.go).                    *)
(*                                                                         *)
(* The handler takes a dump of the VPN interface and, in a second command, *)
(* the clientsTable, joins the two and sorts by name.  The browser keeps   *)
(* the last list of every source in react-query's cache, polls the source  *)
(* it shows, and lets the user pick a peer and rename it in a form.  As    *)
(* long as the user has picked nothing, the first peer of the list counts  *)
(* as picked, whichever that is after the next poll.                       *)
(*                                                                         *)
(* Of react-query it is assumed that one fetch per source is under way at  *)
(* a time, that a refresh or an invalidation drops the answer of the fetch *)
(* under way for the source on display, and that a failed fetch keeps the  *)
(* list.  The time between polls is arbitrary here.  What a rename does on *)
(* the VPS is RenameClient's subject.                                      *)
(***************************************************************************)
EXTENDS Naturals, Sequences, FiniteSets, SequencesExt

CONSTANTS
  Keys,         \* public keys, as numbers in their order
  SourceOf,     \* the source of every key
  Sources,      \* sources
  FirstSource,  \* the one listed first
  Names,        \* names of clients
  Rank,         \* the lower-case form of keys and names, as a number
  Nameless,     \* the name of a peer the clientsTable does not list
  None,
  MaxChanges    \* bound: changes other applications make

ASSUME DashboardAssumption ==
  /\ Keys \subseteq Nat /\ IsFiniteSet(Keys)
  /\ SourceOf \in [Keys -> Sources] /\ FirstSource \in Sources
  /\ Rank \in [Keys \union Names -> Nat]
  /\ Nameless \notin Names /\ None \notin Keys \union Sources
  /\ None \notin Names \union {Nameless}
  /\ None \notin Seq([key : Keys, name : Names \union {Nameless}])
  /\ MaxChanges \in Nat

VARIABLES
  \* on the VPS
  configured,  \* the peers of the interfaces
  names,       \* the name of every client in the clientsTables
  changes,     \* number of changes by other applications
  \* in the browser
  source,      \* the source the user selected
  picked,      \* the peer the user picked
  lists,       \* react-query's cache: the last list of every source
  fetch,       \* the fetch under way for every source
  draft,       \* the peer for which the open rename form was filled in
  mutation,    \* the rename under way
  \* history
  moved,       \* the user changed the selection since the form was opened
  confirmed    \* the new name, once the answer of a rename arrived while its
               \* source was on display

vps == <<configured, names, changes>>
form == <<draft, moved>>
vars == <<vps, source, picked, lists, fetch, form, mutation, confirmed>>

Peer == [key : Keys, name : Names \union {Nameless}]
KeysOf(s) == {k \in Keys : SourceOf[k] = s}

(* A fetch: the request is on its way, the dump was taken, or the answer   *)
(* is on its way back.                                                     *)
Idle == [step |-> "idle", keys |-> {}, list |-> <<>>]
Sent == [Idle EXCEPT !.step = "sent"]

-----------------------------------------------------------------------------
(* The handler Peers.                                                      *)

SortName(p) == Rank[IF p.name = Nameless THEN p.key ELSE p.name]

(* Mutant: peers of the same name stay in the order of the dump. *)
LessByName(p, q) == SortName(p) < SortName(q)

Less(p, q) ==
  \/ SortName(p) < SortName(q)
  \/ SortName(p) = SortName(q) /\ p.key < q.key

(* What a stable sort makes of the peers, whatever their order was. *)
Sorted(peers) ==
  {list \in SetToSeqs(peers) :
     \A i, j \in DOMAIN list : i < j => ~Less(list[j], list[i])}

(* enrichPeers; without the clients every peer is nameless. *)
Enrich(keys, readable) ==
  {[key |-> k, name |-> IF readable THEN names[k] ELSE Nameless] : k \in keys}

-----------------------------------------------------------------------------
(* What the browser shows.                                                 *)

Source == IF source = None THEN FirstSource ELSE source
Listed(list) == {list[i].key : i \in DOMAIN list}

(* Mutant: until a source has a list, the one of the first source stays.   *)
ShownMeanwhile ==
  LET lists0 == IF lists[Source] = None THEN lists[FirstSource]
                ELSE lists[Source]
  IN  IF lists0 = None THEN <<>> ELSE lists0

Shown == IF lists[Source] = None THEN <<>> ELSE lists[Source]

(* The first peer of the list.  Mutant: it counts as picked, always. *)
FirstPeer == IF Shown = <<>> THEN None ELSE Shown[1].key

EffectiveKey == IF picked # None THEN picked ELSE FirstPeer

CanRename == EffectiveKey \in Listed(Shown)
Renaming == mutation # None

-----------------------------------------------------------------------------
Init ==
  /\ configured \in SUBSET Keys
  /\ names \in [Keys -> Names \union {Nameless}]
  /\ changes = 0
  /\ source = None /\ picked = None
  /\ lists = [s \in Sources |-> None]
  /\ fetch = [s \in Sources |-> Idle]
  /\ draft = None
  /\ mutation = None
  /\ moved = FALSE
  /\ confirmed = [k \in Keys |-> None]

(* The user.                                                               *)

Moving == moved' = (draft # None)

SelectSource(s) ==
  /\ source' = s
  /\ picked' = None
  /\ Moving
  /\ UNCHANGED <<vps, lists, fetch, draft, mutation, confirmed>>

Pick(k) ==
  /\ k \in Listed(Shown)
  /\ picked' = k
  /\ Moving
  /\ UNCHANGED <<vps, source, lists, fetch, draft, mutation, confirmed>>

CloseForm == draft' = None /\ moved' = FALSE

(* The pencil opens the form, or closes it, and Cancel closes it. *)
TogglePencil ==
  /\ CanRename /\ ~Renaming
  /\ IF draft = None THEN draft' = EffectiveKey /\ moved' = FALSE
                     ELSE CloseForm
  /\ UNCHANGED <<vps, source, picked, lists, fetch, mutation, confirmed>>

(* The form is part of the tab Traffic and forgotten with it. *)
OpenDebugTab ==
  /\ draft # None
  /\ CloseForm
  /\ UNCHANGED <<vps, source, picked, lists, fetch, mutation, confirmed>>

(* The form renames the peer that is selected when it is submitted. *)
Submit(name) ==
  /\ draft # None
  /\ CanRename /\ ~Renaming
  /\ mutation' = [source |-> Source, key |-> EffectiveKey, name |-> name,
                  step |-> "sent"]
  /\ CloseForm
  /\ UNCHANGED <<vps, source, picked, lists, fetch, confirmed>>

(* The browser polls the source on display (and fetches it when it comes   *)
(* on display), unless it is being fetched.                                *)
Poll ==
  /\ fetch[Source] = Idle
  /\ fetch' = [fetch EXCEPT ![Source] = Sent]
  /\ UNCHANGED <<vps, source, picked, lists, form, mutation, confirmed>>

(* refetch() drops the fetch under way, except the very first. *)
Refetched == [fetch EXCEPT ![Source] = IF lists[Source] = None /\ @ # Idle
                                       THEN @ ELSE Sent]
Refresh ==
  /\ fetch' = Refetched
  /\ UNCHANGED <<vps, source, picked, lists, form, mutation, confirmed>>

-----------------------------------------------------------------------------
(* A fetch.                                                                *)

Dump(s) ==
  /\ fetch[s].step = "sent"
  /\ fetch' = [fetch EXCEPT ![s].step = "dumped",
                            ![s].keys = configured \intersect KeysOf(s)]
  /\ UNCHANGED <<vps, source, picked, lists, form, mutation, confirmed>>

(* The clientsTable is read, or cannot be. *)
Clients(s) ==
  /\ fetch[s].step = "dumped"
  /\ \E readable \in BOOLEAN :
       \E list \in Sorted(Enrich(fetch[s].keys, readable)) :
         fetch' = [fetch EXCEPT ![s] = [Idle EXCEPT !.step = "answered",
                                                    !.list = list]]
  /\ UNCHANGED <<vps, source, picked, lists, form, mutation, confirmed>>

(* Mutant: the list is appended to the one that is there. *)
DeliverAppended(s) ==
  /\ fetch[s].step = "answered"
  /\ lists' = [lists EXCEPT ![s] =
       (IF @ = None THEN <<>> ELSE @) \o fetch[s].list]
  /\ fetch' = [fetch EXCEPT ![s] = Idle]
  /\ UNCHANGED <<vps, source, picked, form, mutation, confirmed>>

Deliver(s) ==
  /\ fetch[s].step = "answered"
  /\ lists' = [lists EXCEPT ![s] = fetch[s].list]
  /\ fetch' = [fetch EXCEPT ![s] = Idle]
  /\ UNCHANGED <<vps, source, picked, form, mutation, confirmed>>

FetchFails(s) ==
  /\ fetch[s] # Idle
  /\ fetch' = [fetch EXCEPT ![s] = Idle]
  /\ UNCHANGED <<vps, source, picked, lists, form, mutation, confirmed>>

-----------------------------------------------------------------------------
(* A rename.                                                               *)

(* The VPS has the new name: RenameClient's JobMoves. *)
ApplyRename ==
  /\ Renaming /\ mutation.step = "sent"
  /\ names[mutation.key] # Nameless
  /\ names' = [names EXCEPT ![mutation.key] = mutation.name]
  /\ mutation' = [mutation EXCEPT !.step = "applied"]
  /\ confirmed' = [confirmed EXCEPT ![mutation.key] = None]
  /\ UNCHANGED <<configured, changes, source, picked, lists, fetch, form>>

(* Mutant: a fetch that is under way is taken for the new one. *)
InvalidateLazily ==
  [fetch EXCEPT ![Source] = IF @ = Idle THEN Sent ELSE @]

(* invalidateQueries: the source on display is fetched anew. *)
Invalidate == Refetched

RenameSucceeds ==
  /\ Renaming /\ mutation.step = "applied"
  /\ mutation' = None
  /\ fetch' = Invalidate
  /\ confirmed' =
       IF Source = mutation.source /\ names[mutation.key] = mutation.name
       THEN [confirmed EXCEPT ![mutation.key] = mutation.name]
       ELSE confirmed
  /\ UNCHANGED <<vps, source, picked, lists, form>>

(* The answer is an error, or is lost; the rename may have taken effect. *)
RenameFails ==
  /\ Renaming
  /\ mutation' = None
  /\ UNCHANGED <<vps, source, picked, lists, fetch, form, confirmed>>

-----------------------------------------------------------------------------
(* AmneziaVPN, or another panel: a peer comes with a name or without, goes *)
(* with its name, or gets another one.                                     *)
ChangeElsewhere(k) ==
  /\ changes < MaxChanges
  /\ changes' = changes + 1
  /\ \/ /\ k \notin configured
        /\ configured' = configured \union {k}
        /\ \E n \in Names \union {Nameless} : names' = [names EXCEPT ![k] = n]
     \/ /\ k \in configured
        /\ configured' = configured \ {k}
        /\ names' = [names EXCEPT ![k] = Nameless]
     \/ /\ names[k] # Nameless
        /\ \E n \in Names : names' = [names EXCEPT ![k] = n]
        /\ UNCHANGED configured
  /\ confirmed' = [confirmed EXCEPT ![k] = None]
  /\ UNCHANGED <<source, picked, lists, fetch, form, mutation>>

User ==
  \/ \E s \in Sources : SelectSource(s)
  \/ \E k \in Keys : Pick(k)
  \/ TogglePencil \/ OpenDebugTab
  \/ \E n \in Names : Submit(n)
  \/ Refresh

Next ==
  \/ User
  \/ Poll
  \/ \E s \in Sources : Dump(s) \/ Clients(s) \/ Deliver(s) \/ FetchFails(s)
  \/ ApplyRename \/ RenameSucceeds \/ RenameFails
  \/ \E k \in Keys : ChangeElsewhere(k)

Spec == Init /\ [][Next]_vars

-----------------------------------------------------------------------------
(* TYPE INVARIANT.  Every component has its type, and a list has the peers *)
(* of its own source, each of them once.                                   *)
TypeOK ==
  /\ configured \in SUBSET Keys
  /\ names \in [Keys -> Names \union {Nameless}]
  /\ changes \in 0..MaxChanges
  /\ source \in Sources \union {None} /\ picked \in Keys \union {None}
  /\ lists \in [Sources -> {None} \union Seq(Peer)]
  /\ fetch \in [Sources -> [step : {"idle", "sent", "dumped", "answered"},
                           keys : SUBSET Keys, list : Seq(Peer)]]
  /\ \A s \in Sources :
       /\ fetch[s].keys \subseteq KeysOf(s)
       /\ \A list \in {fetch[s].list, lists[s]} \ {None} :
            /\ Listed(list) \subseteq KeysOf(s)
            /\ Cardinality(Listed(list)) = Len(list)
  /\ draft \in Keys \union {None} /\ moved \in BOOLEAN
  /\ mutation \in [source : Sources, key : Keys, name : Names,
                   step : {"sent", "applied"}] \union {None}
  /\ confirmed \in [Keys -> Names \union {None}]

(* A RENAME GOES TO THE CONTAINER OF ITS PEER.  The container comes from   *)
(* the source on display and the peer from a list that was fetched         *)
(* earlier, possibly while another source was (App.tsx:64-76, 206-214).    *)
RenameStaysInSource == Renaming => SourceOf[mutation.key] = mutation.source

(* AN EXPLICIT CHOICE IS KEPT.  If the user picked a peer and then opened  *)
(* the form, the rename goes to that peer or nowhere, whatever lists       *)
(* arrived while the form was open (App.tsx:75-83, 482-542).               *)
PickedPeerIsRenamed ==
  [][~Renaming /\ Renaming' /\ picked # None /\ ~moved =>
       mutation'.key = draft]_vars

(* THE ORDER OF THE LIST IS ITS CONTENT'S.  Two lists of the same peers    *)
(* with the same names are the same, so rows do not jump between polls     *)
(* (handlers.go:280-309).                                                  *)
OrderIsStable ==
  [][\A s \in Sources :
       lists[s] # None /\ Range(lists'[s]) = Range(lists[s]) =>
         lists'[s] = lists[s]]_vars

(* A CONFIRMED RENAME IS NOT TAKEN BACK ON THE SCREEN.  After the success  *)
(* of a rename has arrived while its source was on display, no list that   *)
(* arrives later shows an older name, until somebody renames the client    *)
(* again (App.tsx:68-73, 124-129).                                         *)
ConfirmedNameStays ==
  [][\A s \in Sources : lists'[s] # lists[s] =>
       \A p \in Range(lists'[s]) :
         confirmed[p.key] # None => p.name \in {confirmed[p.key], Nameless}]_vars

(* THE FORM RENAMES THE PEER IT WAS OPENED FOR, as the button that opens   *)
(* it says: "Rename selected client" (App.tsx:503).  The code renames the  *)
(* peer that comes first when the form is submitted if the user had picked *)
(* none (App.tsx:75-76, 515-524).                                          *)
OpenedPeerIsRenamed ==
  [][~Renaming /\ Renaming' /\ ~moved => mutation'.key = draft]_vars
=============================================================================
