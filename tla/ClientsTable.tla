---------------------------- MODULE ClientsTable ----------------------------
(***************************************************************************)
(* The clientsTable file of an Amnezia container, as the panel reads it    *)
(* (ParseClientsTable) and rewrites it (RenameClientInClientsTable); all   *)
(* of internal/wg/clients_table.go.                                        *)
(*                                                                         *)
(* The file has two formats.  The current one is an array of entries, in   *)
(* which nothing stops a client id from appearing twice; the legacy one is *)
(* an object keyed by client id.  The reader decodes into typed structs    *)
(* and keeps the LAST entry of an id.  The writer works on raw JSON, so    *)
(* that fields it does not know survive, renames the FIRST entry of an id, *)
(* and always writes the current format.  The properties say when the two  *)
(* sides agree nevertheless.                                               *)
(***************************************************************************)
EXTENDS Integers, Sequences, FiniteSets, SequencesExt

CONSTANTS
  Ids,         \* client ids
  Names,       \* client names
  NoId,        \* an empty or missing clientId
  BadId,       \* an entry that is no object, or whose clientId or userData
               \* has the wrong JSON type
  BadName,     \* a clientName that is not a string
  MaxEntries   \* bound: entries of the file

ASSUME ClientsAssumption ==
  /\ NoId \notin Ids /\ BadId \notin Ids \union {NoId}
  /\ BadName \notin Names
  /\ MaxEntries \in Nat

(* rest stands for all the other fields: only known ones, some unknown     *)
(* ones, or a known one that is not a string.                              *)
Entry == [id : Ids \union {NoId, BadId},
          name : Names \union {BadName},
          rest : {"known", "unknown", "mistyped"}]

EntrySeqs == BoundedSeq(Entry, MaxEntries)

Distinct(es) == \A i, j \in DOMAIN es : es[i].id = es[j].id => i = j

(* A file that is no JSON document at all, or has no bytes, has no entries.*)
Content ==
  [kind : {"current"}, entries : EntrySeqs]
    \union [kind : {"legacy"}, entries : {es \in EntrySeqs : Distinct(es)}]
    \union [kind : {"empty", "broken"}, entries : {<<>>}]

VARIABLE table   \* what the file contains

-----------------------------------------------------------------------------
(* Reading.                                                                *)

Listed(es) == {es[i].id : i \in DOMAIN es} \ {NoId}
IndicesOf(es, id) == {i \in DOMAIN es : es[i].id = id}

(* json.Unmarshal into the typed structs rejects the whole file when one   *)
(* field of one entry has the wrong type.                                  *)
Typed(e) == e.id # BadId /\ e.name # BadName /\ e.rest # "mistyped"

(* ParseClientsTable, kept to the name a reader gets for every client. *)
ParseClientsTable(c) ==
  [ok |-> c.kind # "broken" /\ \A i \in DOMAIN c.entries : Typed(c.entries[i]),
   clients |-> [id \in Listed(c.entries) |->
                  c.entries[Max(IndicesOf(c.entries, id))].name]]

-----------------------------------------------------------------------------
(* Rewriting.                                                              *)

HasId(e) == e.id # NoId

(* The loop over the entries of the current format: those without an id    *)
(* are dropped.                                                            *)
KeepIfId(kept, e) == IF HasId(e) THEN Append(kept, e) ELSE kept
WithIds(es) == FoldLeft(KeepIfId, <<>>, es)

(* Every order in which the range over a Go map may produce the entries. *)
AnyOrder(es) == SetToSeqs(Range(es))

(* ParseClientsTableDocument: the documents it may return, none when it    *)
(* returns an error.  Entries without an id are dropped from the current   *)
(* format only.                                                            *)
Documents(c) ==
  IF c.kind = "broken" \/ BadId \in Listed(c.entries) THEN {}
  ELSE IF c.kind = "legacy" THEN AnyOrder(c.entries)
  ELSE {WithIds(c.entries)}

(* Mutants: the last entry is renamed; the entry is moved to the end; a    *)
(* new entry is added.                                                     *)
RenameLast(es, id, name) ==
  [es EXCEPT ![Max(IndicesOf(es, id))].name = name]
RenameMoves(es, id, name) ==
  LET i == Min(IndicesOf(es, id))
  IN Append(RemoveAt(es, i), [es[i] EXCEPT !.name = name])
RenameAppends(es, id, name) ==
  Append(es, [es[Min(IndicesOf(es, id))] EXCEPT !.name = name])

(* ClientsTableDocument.RenameClient on a document that has the client. *)
RenameClient(es, id, name) ==
  [es EXCEPT ![Min(IndicesOf(es, id))].name = name]

(* Mutant: only the fields the structs declare are written. *)
MarshalKnownOnly(es) ==
  [kind |-> "current", entries |-> [i \in DOMAIN es |-> [es[i] EXCEPT !.rest = "known"]]]

(* ClientsTableDocument.MarshalJSON. *)
Marshal(es) == [kind |-> "current", entries |-> es]

(* RenameClientInClientsTable: the files it may produce, none when the     *)
(* file cannot be parsed or the client is not in it.                       *)
RenameClientInClientsTable(c, id, name) ==
  {Marshal(RenameClient(doc, id, name)) :
     doc \in {d \in Documents(c) : id \in Listed(d)}}

-----------------------------------------------------------------------------
(* The file under a series of renames by the panel, from any content the   *)
(* applications that share it may have left.                               *)

Init == table \in Content

Rename(id, name) == table' \in RenameClientInClientsTable(table, id, name)

Next == \E id \in Ids, name \in Names : Rename(id, name)

Spec == Init /\ [][Next]_table

-----------------------------------------------------------------------------
(* Properties.                                                             *)

(* TYPE INVARIANT.  A rename yields a well-formed table of no more entries *)
(* (clients_table.go:104-138).                                             *)
TypeOK == table \in Content

(* A CLIENT THE PANEL SHOWS CAN BE RENAMED, AND NOTHING ELSE CHANGES FOR A *)
(* READER.  If the reader accepts the file and lists the client, the       *)
(* rewrite succeeds, and the reader sees the same clients with the same    *)
(* names but for the new one; when the id appears twice, first-entry       *)
(* writing meets last-entry reading and the reader sees no change, which   *)
(* is what the service reports as a failed verification                    *)
(* (clients_table.go:37-61 against 63-138, service.go:84-94).              *)
ShownClientCanBeRenamed ==
  LET before == ParseClientsTable(table)
  IN before.ok =>
       \A id \in DOMAIN before.clients, name \in Names :
         LET files == RenameClientInClientsTable(table, id, name)
             once == Cardinality(IndicesOf(table.entries, id)) = 1
         IN /\ files # {}
            /\ \A f \in files :
                 ParseClientsTable(f) =
                   [ok |-> TRUE,
                    clients |-> IF once THEN [before.clients EXCEPT ![id] = name]
                                ELSE before.clients]

(* RENAMES OF DIFFERENT CLIENTS COMMUTE.  Whatever the two orders of two   *)
(* renames can produce is the same, also for tables the reader rejects     *)
(* (clients_table.go:63-126).                                              *)
After(files, id, name) ==
  UNION {RenameClientInClientsTable(f, id, name) : f \in files}

RenamesCommute ==
  \A a, b \in Ids, x, y \in Names :
    a # b => After(After({table}, a, x), b, y) = After(After({table}, b, y), a, x)

(* NO DATA OF ANOTHER APPLICATION IS LOST.  A rename keeps every entry     *)
(* that has an id, with all its other fields, known or not, in the same    *)
(* order unless the format changes, and gives at most one a new name       *)
(* (clients_table.go:88-99, 193-223).                                      *)
Kept(es) == [i \in DOMAIN es |-> [id |-> es[i].id, rest |-> es[i].rest]]

KeepsEverything ==
  LET old == WithIds(table.entries)
      new == WithIds(table'.entries)
  IN /\ IF table.kind = "current" THEN Kept(new) = Kept(old)
        ELSE Len(new) = Len(old) /\ Range(Kept(new)) = Range(Kept(old))
     /\ Cardinality(Range(new) \ Range(old)) <= 1

RenameKeepsEverything == [][KeepsEverything]_table

=============================================================================
