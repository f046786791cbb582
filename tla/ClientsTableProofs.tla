-------------------------- MODULE ClientsTableProofs --------------------------
(***************************************************************************)
(* Theorems of ClientsTable, for files of any length, over any clients and *)
(* names.                                                                  *)
(***************************************************************************)
EXTENDS ClientsTable, DataTheorems, TLAPS

-----------------------------------------------------------------------------
(* The loop that drops the entries without an id.                          *)

(* The loop as FoldLeft defines it. *)
LEMMA WithIdsDef ==
  ASSUME NEW es
  PROVE  WithIds(es) =
           (CHOOSE it : it = [s \in SUBSET DOMAIN es |->
              IF s = {} THEN <<>>
              ELSE KeepIfId(it[s \ {Max(s)}], es[Max(s)])])[DOMAIN es]
BY DEF WithIds, FoldLeft, MapThenFoldSet

(* A round of it yields entries. *)
LEMMA KeepType ==
  ASSUME NEW kept \in Seq(Entry), NEW e \in Entry
  PROVE  KeepIfId(kept, e) \in Seq(Entry)
BY DEF KeepIfId

(* What the loop holds after k rounds. *)
LEMMA WithIdsRounds ==
  ASSUME NEW es \in Seq(Entry)
  PROVE  \E pre \in [0..Len(es) -> Seq(Entry)] :
           /\ pre[0] = <<>>
           /\ \A k \in 1..Len(es) : pre[k] = KeepIfId(pre[k - 1], es[k])
           /\ pre[Len(es)] = WithIds(es)
<1> DEFINE n == Len(es)
           V == Seq(Entry)
           op == [p \in (1..n) \X V |-> KeepIfId(p[2], es[p[1]])]
           Body(it) == [s \in SUBSET (1..n) |->
                         IF s = {} THEN <<>>
                         ELSE KeepIfId(it[s \ {Max(s)}], es[Max(s)])]
<1>1. n \in Nat /\ DOMAIN es = 1..n /\ \A i \in 1..n : es[i] \in Entry
  OBVIOUS
<1>2. <<>> \in V
  OBVIOUS
<1> HIDE DEF n, V
<1>3. op \in [(1..n) \X V -> V]
  <2>1. \A p \in (1..n) \X V : KeepIfId(p[2], es[p[1]]) \in V
    <3>1. \A p \in (1..n) \X V : p[2] \in V /\ es[p[1]] \in Entry
      BY <1>1
    <3> QED BY <3>1, KeepType DEF V
  <2> QED BY <2>1
<1>4. \A i \in 1..n, v \in V : op[<<i, v>>] = KeepIfId(v, es[i])
  OBVIOUS
<1> HIDE DEF op
<1>5. PICK it \in [SUBSET (1..n) -> V] : IsFoldLeft(it, n, <<>>, op)
  BY <1>1, <1>2, <1>3, FoldLeftExists
<1>6. \A s \in SUBSET (1..n) : s # {} => Max(s) \in 1..n
  BY <1>1, MaxOfSome
<1>7. \A s \in SUBSET (1..n) :
        it[s] = IF s = {} THEN <<>>
                ELSE KeepIfId(it[s \ {Max(s)}], es[Max(s)])
  BY <1>4, <1>5, <1>6 DEF IsFoldLeft
<1>8. it = Body(it)
  BY <1>7
<1> DEFINE loop == CHOOSE g : g = Body(g)
<1>9. loop = Body(loop)
  BY <1>8
<1>10. WithIds(es) = loop[1..n]
  BY <1>1, WithIdsDef
<1> HIDE DEF loop
<1>11. /\ loop[{}] = <<>>
       /\ \A s \in SUBSET (1..n) : s # {} =>
            loop[s] = KeepIfId(loop[s \ {Max(s)}], es[Max(s)])
  BY <1>9
<1>12. Loops(loop, n, V, <<>>, op)
  BY <1>1, <1>2, <1>3, <1>4, <1>6, <1>11 DEF Loops
<1>13. PICK pre : Rounds(pre, n, V, <<>>, op, loop[1..n])
  BY <1>12, FoldLeftRounds
<1>14. \A k \in 1..n : pre[k] = KeepIfId(pre[k - 1], es[k])
  <2>1. \A k \in 1..n : k - 1 \in 0..n
    BY <1>1
  <2> QED BY <1>4, <1>13, <2>1 DEF Rounds
<1> QED BY <1>10, <1>13, <1>14 DEF Rounds, n, V

(* It keeps the entries of an id in their order. *)
Places(es) == {i \in DOMAIN es : HasId(es[i])}

(* pi are the places in es of the entries in kept, in their order. *)
Picks(pi, es, kept) ==
  /\ pi \in Seq(Nat) /\ Increases(pi) /\ Range(pi) = Places(es)
  /\ Len(pi) <= Len(es)
  /\ kept \in Seq(Entry) /\ Len(kept) = Len(pi)
  /\ \A j \in 1..Len(pi) : kept[j] = es[pi[j]]

(* The loop keeps those that have an id. *)
LEMMA WithIdsPicks ==
  ASSUME NEW es \in Seq(Entry)
  PROVE  \E pi : Picks(pi, es, WithIds(es))
<1> DEFINE n == Len(es)
<1>1. n \in Nat /\ DOMAIN es = 1..n /\ \A i \in 1..n : es[i] \in Entry
  OBVIOUS
<1>2. PICK pre \in [0..n -> Seq(Entry)] :
        /\ pre[0] = <<>>
        /\ \A k \in 1..n : pre[k] = KeepIfId(pre[k - 1], es[k])
        /\ pre[n] = WithIds(es)
  BY WithIdsRounds
<1> DEFINE First(k) == {i \in 1..k : HasId(es[i])}
           Good(pi, k) ==
             /\ pi \in Seq(Nat) /\ Increases(pi) /\ Range(pi) = First(k)
             /\ Len(pre[k]) = Len(pi) /\ Len(pi) <= k
             /\ \A j \in 1..Len(pi) : pre[k][j] = es[pi[j]]
           T == {k \in Nat : k <= n => \E pi : Good(pi, k)}
<1>3. 0 \in T
  <2>1. Good(<<>>, 0)
    <3>1. <<>> \in Seq(Nat) /\ Len(<<>>) = 0 /\ pre[0] = <<>>
      BY <1>2
    <3>2. DOMAIN <<>> = {} /\ First(0) = {}
      OBVIOUS
    <3>3. Increases(<<>>) /\ Range(<<>>) = First(0)
      BY <3>2 DEF Increases, Range
    <3> QED BY <3>1, <3>3
  <2> HIDE DEF Good
  <2> QED BY <2>1
<1>4. ASSUME NEW k \in Nat, k \in T PROVE k + 1 \in T
  <2> SUFFICES ASSUME k + 1 <= n PROVE \E pi : Good(pi, k + 1)
    OBVIOUS
  <2>1. k + 1 \in 1..n /\ k <= n /\ k \in 0..n
    BY <1>1
  <2>2. PICK pi : Good(pi, k)
    BY <1>4, <2>1
  <2> DEFINE e == es[k + 1]
  <2>3. /\ pre[k] \in Seq(Entry)
        /\ pre[k + 1] = IF HasId(e) THEN Append(pre[k], e) ELSE pre[k]
    <3>1. pre[k + 1] = KeepIfId(pre[(k + 1) - 1], e) /\ (k + 1) - 1 = k
      BY <1>2, <2>1
    <3> QED BY <1>2, <2>1, <3>1 DEF KeepIfId
  <2>4. CASE ~HasId(e)
    <3>1. First(k + 1) = First(k)
      BY <2>4
    <3>2. pre[k + 1] = pre[k]
      BY <2>3, <2>4
    <3>3. Good(pi, k + 1)
      BY <2>2, <3>1, <3>2
    <3> QED BY <3>3
  <2>5. CASE HasId(e)
    <3> DEFINE m == Len(pi)
               next == Append(pi, k + 1)
    <3>1. First(k + 1) = First(k) \union {k + 1}
      BY <2>5
    <3>2. pi \in Seq(Nat) /\ m \in Nat /\ DOMAIN pi = 1..m
      BY <2>2
    <3>3. /\ next \in Seq(Nat) /\ Len(next) = m + 1 /\ DOMAIN next = 1..(m + 1)
          /\ \A j \in 1..m : next[j] = pi[j]
          /\ next[m + 1] = k + 1
          /\ Range(next) = Range(pi) \union {k + 1}
      <4>1. k + 1 \in Nat
        OBVIOUS
      <4> QED BY <3>2, <4>1, AppendGrows
    <3> HIDE DEF next, m
    <3>4. \A j \in 1..m : pi[j] \in 1..k
      <4>1. \A j \in 1..m : pi[j] \in Range(pi)
        BY <3>2 DEF Range
      <4> QED BY <2>2, <4>1
    <3>5. Increases(next)
      <4>1. Increases(pi)
        BY <2>2
      <4>2. ASSUME NEW i \in 1..(m + 1), NEW j \in 1..(m + 1), i < j
            PROVE  next[i] < next[j]
        <5>1. i \in 1..m
          BY <3>2, <4>2
        <5>2. CASE j \in 1..m
          BY <3>2, <3>3, <4>1, <4>2, <5>1, <5>2 DEF Increases
        <5>3. CASE j = m + 1
          BY <3>2, <3>3, <3>4, <5>1, <5>3
        <5> QED BY <3>2, <5>2, <5>3
      <4> QED BY <3>3, <4>2 DEF Increases
    <3>6. Range(next) = First(k + 1)
      <4>1. Range(pi) = First(k)
        BY <2>2
      <4> QED BY <3>1, <3>3, <4>1
    <3>7. /\ Len(pre[k + 1]) = m + 1
          /\ \A j \in 1..m : pre[k + 1][j] = pre[k][j]
          /\ pre[k + 1][m + 1] = e
      <4>1. Len(pre[k]) = m
        BY <2>2 DEF m
      <4>2. pre[k + 1] = Append(pre[k], e)
        BY <2>3, <2>5
      <4> HIDE DEF e
      <4> QED BY <2>3, <3>2, <4>1, <4>2
    <3>8. \A j \in 1..(m + 1) : pre[k + 1][j] = es[next[j]]
      <4>1. \A j \in 1..m : pre[k][j] = es[pi[j]]
        BY <2>2 DEF m
      <4>2. \A j \in 1..m : pre[k + 1][j] = es[next[j]]
        BY <3>3, <3>7, <4>1
      <4>3. pre[k + 1][m + 1] = es[next[m + 1]]
        BY <3>3, <3>7
      <4> QED BY <3>2, <4>2, <4>3
    <3>9. Good(next, k + 1)
      <4>1. m <= k
        BY <2>2 DEF m
      <4> QED BY <3>2, <3>3, <3>5, <3>6, <3>7, <3>8, <4>1
    <3> QED BY <3>9
  <2> QED BY <2>4, <2>5
<1> HIDE DEF T
<1>5. Nat \subseteq T
  BY <1>3, <1>4, NatInductive
<1>6. PICK pi : Good(pi, n)
  <2>1. n \in T /\ n <= n
    BY <1>1, <1>5
  <2> HIDE DEF Good
  <2> QED BY <2>1 DEF T
<1>7. First(n) = Places(es)
  BY <1>1 DEF Places
<1>8. pre[n] \in Seq(Entry)
  <2>1. n \in 0..n
    BY <1>1
  <2> QED BY <1>2, <2>1
<1>9. Picks(pi, es, pre[n])
  BY <1>6, <1>7, <1>8 DEF Picks
<1> QED BY <1>2, <1>9

-----------------------------------------------------------------------------
(* Entries and the one a rename changes.                                   *)

(* The fields of an entry, and what a new name makes of it. *)
LEMMA EntryType ==
  ASSUME NEW e \in Entry
  PROVE  /\ e.id \in Ids \union {NoId, BadId}
         /\ e = [id |-> e.id, name |-> e.name, rest |-> e.rest]
         /\ \A name \in Names :
              /\ [e EXCEPT !.name = name] =
                   [id |-> e.id, name |-> name, rest |-> e.rest]
              /\ [e EXCEPT !.name = name] \in Entry
BY DEF Entry

(* A sequence of entries as a function. *)
LEMMA EntriesType ==
  ASSUME NEW es \in Seq(Entry)
  PROVE  /\ Len(es) \in Nat /\ DOMAIN es = 1..Len(es)
         /\ es = [i \in 1..Len(es) |-> es[i]]
         /\ \A i \in 1..Len(es) : es[i] \in Entry
OBVIOUS

(* Where the entries of an id are. *)
LEMMA IndicesType ==
  ASSUME NEW es \in Seq(Entry), NEW id
  PROVE  /\ IndicesOf(es, id) \in SUBSET (1..Len(es))
         /\ IndicesOf(es, id) \in SUBSET Nat
         /\ id \in Listed(es) <=> id # NoId /\ IndicesOf(es, id) # {}
         /\ \A i : i \in IndicesOf(es, id) <=> i \in 1..Len(es) /\ es[i].id = id
<1>1. DOMAIN es = 1..Len(es) /\ \A i \in 1..Len(es) : i \in Nat
  BY EntriesType
<1> QED BY <1>1 DEF IndicesOf, Listed

(* The first and the last entry of an id. *)
LEMMA FirstAndLast ==
  ASSUME NEW es \in Seq(Entry), NEW id \in Listed(es)
  PROVE  LET f == Min(IndicesOf(es, id))
             l == Max(IndicesOf(es, id))
         IN  /\ f \in 1..Len(es) /\ es[f].id = id
             /\ l \in 1..Len(es) /\ es[l].id = id
             /\ \A i \in 1..Len(es) : es[i].id = id => f <= i /\ i <= l
<1> DEFINE I == IndicesOf(es, id)
<1>1. /\ I \in SUBSET (1..Len(es)) /\ I \in SUBSET Nat /\ I # {}
      /\ \A i : i \in I <=> i \in 1..Len(es) /\ es[i].id = id
  BY IndicesType
<1>2. Len(es) \in Nat
  BY EntriesType
<1> HIDE DEF I
<1>3. Min(I) \in I /\ \A k \in I : Min(I) <= k
  BY <1>1, MinOfSome
<1>4. Max(I) \in I /\ \A k \in I : k <= Max(I)
  BY <1>1, <1>2, MaxOfSome
<1> QED BY <1>1, <1>3, <1>4 DEF I

(* They are the only ones that are where they are. *)
LEMMA FirstIs ==
  ASSUME NEW es \in Seq(Entry), NEW id \in Listed(es),
         NEW i \in 1..Len(es), es[i].id = id,
         \A j \in 1..Len(es) : es[j].id = id => i <= j
  PROVE  Min(IndicesOf(es, id)) = i
<1> DEFINE f == Min(IndicesOf(es, id))
<1>1. f \in 1..Len(es) /\ es[f].id = id /\ f <= i
  BY FirstAndLast
<1> HIDE DEF f
<1>2. i <= f
  BY <1>1
<1>3. f = i
  BY <1>1, <1>2
<1> QED BY <1>3 DEF f

(* The same of the last entry. *)
LEMMA LastIs ==
  ASSUME NEW es \in Seq(Entry), NEW id \in Listed(es),
         NEW i \in 1..Len(es), es[i].id = id,
         \A j \in 1..Len(es) : es[j].id = id => j <= i
  PROVE  Max(IndicesOf(es, id)) = i
<1> DEFINE l == Max(IndicesOf(es, id))
<1>1. l \in 1..Len(es) /\ es[l].id = id /\ i <= l
  BY FirstAndLast
<1> HIDE DEF l
<1>2. l <= i
  BY <1>1
<1>3. l = i
  BY <1>1, <1>2
<1> QED BY <1>3 DEF l

(* What a rename of entry f leaves of a document. *)
Renames(rs, es, f, name) ==
  /\ rs \in Seq(Entry) /\ Len(rs) = Len(es)
  /\ rs[f] = [es[f] EXCEPT !.name = name]
  /\ \A i \in 1..Len(es) : i # f => rs[i] = es[i]
  /\ \A i \in 1..Len(es) : rs[i].id = es[i].id /\ rs[i].rest = es[i].rest

(* RenameClient renames the first entry of the id. *)
LEMMA RenameClientIs ==
  ASSUME NEW es \in Seq(Entry), NEW id \in Listed(es), NEW name \in Names
  PROVE  Renames(RenameClient(es, id, name), es, Min(IndicesOf(es, id)), name)
<1> DEFINE f == Min(IndicesOf(es, id))
           rs == RenameClient(es, id, name)
           e == [es[f] EXCEPT !.name = name]
           n == Len(es)
<1>1. f \in 1..n
  BY FirstAndLast
<1>2. /\ n \in Nat /\ DOMAIN es = 1..n /\ \A i \in 1..n : es[i] \in Entry
  BY EntriesType
<1>3. e \in Entry /\ e.id = es[f].id /\ e.rest = es[f].rest
  BY <1>1, <1>2, EntryType
<1>4. rs = [i \in 1..n |-> IF i = f THEN e ELSE es[i]]
  BY <1>1, <1>2 DEF RenameClient
<1> HIDE DEF f, rs, e, n
<1>5. rs \in [1..n -> Entry] /\ rs[f] = e /\ \A i \in 1..n : i # f => rs[i] = es[i]
  BY <1>1, <1>2, <1>3, <1>4
<1>6. rs \in Seq(Entry) /\ Len(rs) = n
  BY <1>2, <1>5
<1>7. \A i \in 1..n : rs[i].id = es[i].id /\ rs[i].rest = es[i].rest
  BY <1>3, <1>5
<1> QED BY <1>5, <1>6, <1>7 DEF Renames, f, rs, e, n

(* It leaves every id where it is. *)
LEMMA RenameKeepsIds ==
  ASSUME NEW es \in Seq(Entry), NEW id \in Listed(es), NEW name \in Names
  PROVE  /\ Listed(RenameClient(es, id, name)) = Listed(es)
         /\ \A k : IndicesOf(RenameClient(es, id, name), k) = IndicesOf(es, k)
         /\ Places(RenameClient(es, id, name)) = Places(es)
<1> DEFINE rs == RenameClient(es, id, name)
<1>1. /\ rs \in Seq(Entry) /\ Len(rs) = Len(es)
      /\ \A i \in 1..Len(es) : rs[i].id = es[i].id
  <2>1. Renames(rs, es, Min(IndicesOf(es, id)), name)
    BY RenameClientIs
  <2> HIDE DEF rs
  <2> QED BY <2>1 DEF Renames
<1> HIDE DEF rs
<1>2. DOMAIN rs = 1..Len(es) /\ DOMAIN es = 1..Len(es)
  BY <1>1, EntriesType
<1>3. Listed(rs) = Listed(es)
  BY <1>1, <1>2 DEF Listed
<1>4. \A k : IndicesOf(rs, k) = IndicesOf(es, k)
  BY <1>1, <1>2 DEF IndicesOf
<1>5. Places(rs) = Places(es)
  BY <1>1, <1>2 DEF Places, HasId
<1> QED BY <1>3, <1>4, <1>5 DEF rs

(* Dropping the entries without an id commutes with a rename. *)
LEMMA PicksOnce ==
  ASSUME NEW es, NEW pi, NEW kept, Picks(pi, es, kept),
         NEW ds, NEW qi, NEW left, Picks(qi, ds, left),
         Places(es) = Places(ds)
  PROVE  pi = qi
BY IncreasingUnique DEF Picks

(* Where a kept entry was. *)
LEMMA PicksPlace ==
  ASSUME NEW es \in Seq(Entry), NEW pi, NEW kept, Picks(pi, es, kept)
  PROVE  /\ \A j \in 1..Len(kept) :
              /\ pi[j] \in 1..Len(es) /\ kept[j] = es[pi[j]] /\ HasId(kept[j])
         /\ \A i \in 1..Len(es) :
              HasId(es[i]) => \E j \in 1..Len(kept) : pi[j] = i
         /\ \A i, j \in 1..Len(kept) : i < j <=> pi[i] < pi[j]
<1>1. /\ pi \in Seq(Nat) /\ Increases(pi) /\ Range(pi) = Places(es)
      /\ Len(kept) = Len(pi)
      /\ \A j \in 1..Len(pi) : kept[j] = es[pi[j]]
  BY DEF Picks
<1>2. /\ DOMAIN pi = 1..Len(pi) /\ Len(pi) \in Nat
      /\ \A j \in 1..Len(pi) : pi[j] \in Nat
  BY <1>1
<1>3. DOMAIN es = 1..Len(es)
  BY EntriesType
<1>4. \A j \in 1..Len(pi) : pi[j] \in 1..Len(es) /\ HasId(es[pi[j]])
  BY <1>1, <1>2, <1>3 DEF Range, Places
<1>5. \A i \in 1..Len(es) : HasId(es[i]) => \E j \in 1..Len(pi) : pi[j] = i
  BY <1>1, <1>2, <1>3 DEF Range, Places
<1>6. ASSUME NEW i \in 1..Len(pi), NEW j \in 1..Len(pi)
      PROVE  i < j <=> pi[i] < pi[j]
  <2>1. \A a, b \in 1..Len(pi) : a < b => pi[a] < pi[b]
    BY <1>1, <1>2 DEF Increases
  <2>2. i < j \/ i = j \/ j < i
    BY <1>2
  <2> QED BY <1>2, <2>1, <2>2
<1> QED BY <1>1, <1>4, <1>5, <1>6

(* First entries stay first, last entries last. *)
LEMMA PicksEnds ==
  ASSUME NEW es \in Seq(Entry), NEW pi, NEW kept, Picks(pi, es, kept)
  PROVE  /\ Listed(kept) = Listed(es)
         /\ \A id \in Listed(es) :
              /\ pi[Min(IndicesOf(kept, id))] = Min(IndicesOf(es, id))
              /\ pi[Max(IndicesOf(kept, id))] = Max(IndicesOf(es, id))
<1>1. kept \in Seq(Entry)
  BY DEF Picks
<1>2. /\ \A j \in 1..Len(kept) :
           /\ pi[j] \in 1..Len(es) /\ kept[j] = es[pi[j]] /\ HasId(kept[j])
      /\ \A i \in 1..Len(es) :
           HasId(es[i]) => \E j \in 1..Len(kept) : pi[j] = i
      /\ \A i, j \in 1..Len(kept) : i < j <=> pi[i] < pi[j]
  BY PicksPlace
<1>3. /\ DOMAIN es = 1..Len(es) /\ DOMAIN kept = 1..Len(kept)
      /\ Len(es) \in Nat /\ Len(kept) \in Nat
  BY <1>1, EntriesType
<1>4. Listed(kept) = Listed(es)
  <2>1. \A id \in Listed(kept) : id \in Listed(es)
    BY <1>2, <1>3 DEF Listed
  <2>2. ASSUME NEW id \in Listed(es) PROVE id \in Listed(kept)
    <3>1. PICK i \in 1..Len(es) : es[i].id = id /\ id # NoId
      BY <1>3 DEF Listed
    <3>2. PICK j \in 1..Len(kept) : pi[j] = i
      BY <1>2, <3>1 DEF HasId
    <3> QED BY <1>2, <1>3, <3>1, <3>2 DEF Listed
  <2> QED BY <2>1, <2>2
<1>5. ASSUME NEW id \in Listed(es)
      PROVE  /\ pi[Min(IndicesOf(kept, id))] = Min(IndicesOf(es, id))
             /\ pi[Max(IndicesOf(kept, id))] = Max(IndicesOf(es, id))
  <2>1. id # NoId
    BY DEF Listed
  <2> DEFINE f == Min(IndicesOf(kept, id))
             l == Max(IndicesOf(kept, id))
  <2>2. /\ f \in 1..Len(kept) /\ kept[f].id = id
        /\ l \in 1..Len(kept) /\ kept[l].id = id
        /\ \A j \in 1..Len(kept) : kept[j].id = id => f <= j /\ j <= l
    BY <1>1, <1>4, FirstAndLast
  <2> HIDE DEF f, l
  <2>3. ASSUME NEW i \in 1..Len(es), es[i].id = id
        PROVE  pi[f] <= i /\ i <= pi[l]
    <3>1. PICK j \in 1..Len(kept) : pi[j] = i
      BY <1>2, <2>1, <2>3 DEF HasId
    <3>2. kept[j].id = id
      BY <1>2, <2>3, <3>1
    <3>3. f <= j /\ j <= l
      BY <2>2, <3>2
    <3>4. ~(j < f) /\ ~(l < j)
      BY <1>3, <2>2, <3>3
    <3>5. ~(pi[j] < pi[f]) /\ ~(pi[l] < pi[j])
      BY <1>2, <2>2, <3>4
    <3>6. pi[f] \in Nat /\ pi[l] \in Nat /\ i \in Nat
      BY <1>2, <1>3, <2>2
    <3> QED BY <3>1, <3>5, <3>6
  <2>4. pi[f] \in 1..Len(es) /\ pi[l] \in 1..Len(es)
        /\ es[pi[f]].id = id /\ es[pi[l]].id = id
    BY <1>2, <2>2
  <2>5. Min(IndicesOf(es, id)) = pi[f]
    BY <2>3, <2>4, FirstIs
  <2>6. Max(IndicesOf(es, id)) = pi[l]
    BY <2>3, <2>4, LastIs
  <2> QED BY <2>5, <2>6 DEF f, l
<1> QED BY <1>4, <1>5

(* Renaming before the loop and after it gives the same. *)
LEMMA WithIdsOfRename ==
  ASSUME NEW es \in Seq(Entry), NEW id \in Listed(es), NEW name \in Names
  PROVE  /\ WithIds(RenameClient(es, id, name)) = RenameClient(WithIds(es), id, name)
         /\ WithIds(es) \in Seq(Entry) /\ id \in Listed(WithIds(es))
<1> DEFINE rs == RenameClient(es, id, name)
           kept == WithIds(es)
           left == WithIds(rs)
           f == Min(IndicesOf(es, id))
           g == Min(IndicesOf(kept, id))
           ks == RenameClient(kept, id, name)
<1>1. Renames(rs, es, f, name)
  BY RenameClientIs
<1>2. Places(rs) = Places(es)
  BY RenameKeepsIds
<1>3. PICK pi : Picks(pi, es, kept)
  BY WithIdsPicks
<1>4. rs \in Seq(Entry)
  BY <1>1 DEF Renames
<1>5. PICK qi : Picks(qi, rs, left)
  BY <1>4, WithIdsPicks
<1>6. pi = qi
  BY <1>2, <1>3, <1>5, PicksOnce
<1>7. kept \in Seq(Entry) /\ left \in Seq(Entry) /\ Len(left) = Len(kept)
      /\ Len(pi) = Len(kept)
  BY <1>3, <1>5, <1>6 DEF Picks
<1>8. Listed(kept) = Listed(es) /\ pi[g] = f
  BY <1>3, PicksEnds
<1>9. Renames(ks, kept, g, name)
  BY <1>7, <1>8, RenameClientIs
<1>10. /\ f \in 1..Len(es) /\ g \in 1..Len(kept)
  BY <1>7, <1>8, FirstAndLast
<1> HIDE DEF rs, kept, left, f, g, ks
<1>11. /\ \A j \in 1..Len(kept) : pi[j] \in 1..Len(es) /\ kept[j] = es[pi[j]]
       /\ \A i, j \in 1..Len(kept) : i < j <=> pi[i] < pi[j]
  BY <1>3, PicksPlace
<1>12. \A j \in 1..Len(kept) : left[j] = rs[pi[j]]
  BY <1>5, <1>6, <1>7 DEF Picks
<1>13. ASSUME NEW j \in 1..Len(kept) PROVE left[j] = ks[j]
  <2>1. CASE j = g
    BY <1>1, <1>8, <1>9, <1>10, <1>11, <1>12, <2>1 DEF Renames
  <2>2. CASE j # g
    <3>1. j < g \/ g < j
      BY <1>7, <1>10, <2>2
    <3>2. pi[j] < pi[g] \/ pi[g] < pi[j]
      BY <1>10, <1>11, <3>1
    <3>3. pi[j] # f
      BY <1>8, <1>10, <1>11, <3>2
    <3> QED BY <1>1, <1>9, <1>11, <1>12, <2>2, <3>3 DEF Renames
  <2> QED BY <2>1, <2>2
<1>14. ks \in Seq(Entry) /\ Len(ks) = Len(kept)
  BY <1>9 DEF Renames
<1>15. left = ks
  BY <1>7, <1>13, <1>14
<1> QED BY <1>7, <1>8, <1>15 DEF rs, kept, left, ks

(* Renames of two entries can be swapped. *)
LEMMA RenamesSwap ==
  ASSUME NEW es \in Seq(Entry), NEW a \in Listed(es), NEW b \in Listed(es),
         a # b, NEW x \in Names, NEW y \in Names
  PROVE  RenameClient(RenameClient(es, a, x), b, y)
           = RenameClient(RenameClient(es, b, y), a, x)
<1> DEFINE ea == RenameClient(es, a, x)
           eb == RenameClient(es, b, y)
           ab == RenameClient(ea, b, y)
           ba == RenameClient(eb, a, x)
           f == Min(IndicesOf(es, a))
           g == Min(IndicesOf(es, b))
<1>1. Renames(ea, es, f, x) /\ Renames(eb, es, g, y)
  BY RenameClientIs
<1>2. ea \in Seq(Entry) /\ eb \in Seq(Entry)
  <2> HIDE DEF ea, eb
  <2> QED BY <1>1 DEF Renames
<1>3. /\ b \in Listed(ea) /\ Min(IndicesOf(ea, b)) = g
      /\ a \in Listed(eb) /\ Min(IndicesOf(eb, a)) = f
  BY RenameKeepsIds
<1>4. Renames(ab, ea, g, y)
  <2>1. Renames(ab, ea, Min(IndicesOf(ea, b)), y)
    BY <1>2, <1>3, RenameClientIs
  <2> QED BY <1>3, <2>1
<1>5. Renames(ba, eb, f, x)
  <2>1. Renames(ba, eb, Min(IndicesOf(eb, a)), x)
    BY <1>2, <1>3, RenameClientIs
  <2> QED BY <1>3, <2>1
<1>6. /\ f \in 1..Len(es) /\ es[f].id = a
      /\ g \in 1..Len(es) /\ es[g].id = b
  BY FirstAndLast
<1> HIDE DEF ea, eb, ab, ba, f, g
<1>7. f # g
  BY <1>6
<1>8. \A i \in 1..Len(es) : ab[i] = ba[i]
  <2>1. ASSUME NEW i \in 1..Len(es), i # f, i # g PROVE ab[i] = ba[i]
    BY <1>1, <1>4, <1>5, <2>1 DEF Renames
  <2>2. ab[f] = ba[f]
    BY <1>1, <1>4, <1>5, <1>6, <1>7 DEF Renames
  <2>3. ab[g] = ba[g]
    BY <1>1, <1>4, <1>5, <1>6, <1>7 DEF Renames
  <2> QED BY <2>1, <2>2, <2>3
<1>9. /\ ab \in Seq(Entry) /\ Len(ab) = Len(es)
      /\ ba \in Seq(Entry) /\ Len(ba) = Len(es)
  BY <1>1, <1>4, <1>5 DEF Renames
<1> HIDE DEF Renames
<1>10. ab = ba
  BY <1>8, <1>9
<1> QED BY <1>10 DEF ea, eb, ab, ba

-----------------------------------------------------------------------------
(* The documents of a file.                                                *)

(* The entries of a file are any, up to a number of them. *)
LEMMA BoundedDef ==
  \A es : es \in EntrySeqs <=> es \in Seq(Entry) /\ Len(es) <= MaxEntries
<1>1. ASSUME NEW es \in Seq(Entry), Len(es) <= MaxEntries
      PROVE  es \in EntrySeqs
  <2>1. Len(es) \in 0..MaxEntries /\ es \in [1..Len(es) -> Entry]
    BY <1>1, ClientsAssumption
  <2> QED BY <2>1 DEF EntrySeqs, BoundedSeq, SeqOf
<1>2. ASSUME NEW es \in EntrySeqs
      PROVE  es \in Seq(Entry) /\ Len(es) <= MaxEntries
  <2>1. PICK m \in 0..MaxEntries : es \in [1..m -> Entry]
    BY DEF EntrySeqs, BoundedSeq, SeqOf
  <2> QED BY <2>1, ClientsAssumption
<1> QED BY <1>1, <1>2

(* A file of distinct ids has as many entries as its length says. *)
LEMMA DistinctIsBijection ==
  ASSUME NEW es \in Seq(Entry), Distinct(es)
  PROVE  /\ IsFiniteSet(Range(es)) /\ Cardinality(Range(es)) = Len(es)
         /\ es \in AnyOrder(es)
<1> DEFINE n == Len(es)
<1>1. n \in Nat /\ DOMAIN es = 1..n
  BY EntriesType
<1>2. es \in [1..n -> Range(es)] /\ \A i, j \in 1..n : i # j => es[i] # es[j]
  <2>1. \A i \in 1..n : es[i] \in Range(es)
    BY <1>1 DEF Range
  <2>2. es = [i \in 1..n |-> es[i]]
    BY EntriesType
  <2>3. \A i, j \in 1..n : i # j => es[i] # es[j]
    BY <1>1 DEF Distinct
  <2> HIDE DEF n
  <2> QED BY <2>1, <2>2, <2>3
<1>3. es \in Surjection(1..n, Range(es)) /\ es \in Injection(1..n, Range(es))
  BY <1>1, <1>2 DEF Surjection, Injection, IsInjective, Range
<1>4. IsFiniteSet(1..n) /\ Cardinality(1..n) = n
  <2>1. 1 \in Int /\ n \in Int /\ (1 > n => n = 0)
    BY <1>1
  <2> HIDE DEF n
  <2> QED BY <2>1, FS_Interval
<1>5. IsFiniteSet(Range(es)) /\ Cardinality(Range(es)) = Cardinality(1..n)
  BY <1>3, <1>4, FS_Surjection
<1>6. Cardinality(Range(es)) = n
  BY <1>4, <1>5
<1>7. es \in AnyOrder(es)
  BY <1>2, <1>6 DEF AnyOrder, SetToSeqs
<1> QED BY <1>5, <1>6, <1>7

(* The range over the map yields every entry once, in some order. *)
LEMMA AnyOrderIs ==
  ASSUME NEW es \in Seq(Entry), Distinct(es), NEW doc \in AnyOrder(es)
  PROVE  /\ doc \in Seq(Entry) /\ Len(doc) = Len(es)
         /\ Range(doc) = Range(es) /\ Distinct(doc)
<1> DEFINE S == Range(es)
<1>1. IsFiniteSet(S) /\ Cardinality(S) = Len(es)
  BY DistinctIsBijection
<1>2. /\ doc \in [1..Cardinality(S) -> S]
      /\ \A i, j \in 1..Cardinality(S) : i # j => doc[i] # doc[j]
  BY DEF AnyOrder, SetToSeqs
<1> HIDE DEF S
<1>3. doc \in Seq(S) /\ Len(doc) = Cardinality(S) /\ Range(doc) = S
  BY <1>1, <1>2, Arranged
<1>4. /\ Len(es) \in Nat /\ DOMAIN es = 1..Len(es)
      /\ \A i \in 1..Len(es) : es[i] \in Entry
  BY EntriesType
<1>5. \A e \in S : e \in Entry
  BY <1>4 DEF S, Range
<1>6. doc \in Seq(Entry)
  BY <1>1, <1>2, <1>4, <1>5
<1>7. Distinct(doc)
  <2>1. ASSUME NEW i \in 1..Len(es), NEW j \in 1..Len(es), doc[i].id = doc[j].id
        PROVE  i = j
    <3>1. doc[i] \in S /\ doc[j] \in S
      BY <1>1, <1>2
    <3>2. PICK p \in 1..Len(es), q \in 1..Len(es) : doc[i] = es[p] /\ doc[j] = es[q]
      BY <1>4, <3>1 DEF S, Range
    <3>3. p = q
      BY <1>4, <2>1, <3>2 DEF Distinct
    <3> QED BY <1>1, <1>2, <3>2, <3>3
  <2>2. DOMAIN doc = 1..Len(es)
    BY <1>1, <1>2
  <2> QED BY <2>1, <2>2 DEF Distinct
<1> QED BY <1>1, <1>3, <1>6, <1>7 DEF S

(* A client has one entry when its first is its last. *)
LEMMA OnceIs ==
  ASSUME NEW es \in Seq(Entry), NEW id \in Listed(es)
  PROVE  Cardinality(IndicesOf(es, id)) = 1
           <=> Min(IndicesOf(es, id)) = Max(IndicesOf(es, id))
<1> DEFINE I == IndicesOf(es, id)
           f == Min(I)
           l == Max(I)
<1>1. /\ I \in SUBSET (1..Len(es))
      /\ \A i : i \in I <=> i \in 1..Len(es) /\ es[i].id = id
  BY IndicesType
<1>2. Len(es) \in Nat
  BY EntriesType
<1>3. /\ f \in 1..Len(es) /\ es[f].id = id
      /\ l \in 1..Len(es) /\ es[l].id = id
      /\ \A i \in 1..Len(es) : es[i].id = id => f <= i /\ i <= l
  BY FirstAndLast
<1> HIDE DEF f, l, I
<1>4. IsFiniteSet(I)
  <2>1. IsFiniteSet(1..Len(es))
    BY <1>2, FS_Interval
  <2> QED BY <1>1, <2>1, FS_Subset
<1>5. Cardinality(I) = 1 <=> \E x : I = {x}
  BY <1>4, FS_Singleton
<1>6. (\E x : I = {x}) <=> f = l
  <2>1. ASSUME NEW x, I = {x} PROVE f = l
    BY <1>1, <1>3, <2>1
  <2>2. ASSUME f = l PROVE I = {f}
    <3>1. \A i \in I : i = f
      BY <1>1, <1>2, <1>3, <2>2
    <3> QED BY <1>1, <1>3, <3>1
  <2> QED BY <2>1, <2>2
<1> QED BY <1>5, <1>6 DEF I, f, l

(* What a document has in common with the entries it comes from. *)
Follows(doc, es) ==
  /\ doc \in Seq(Entry) /\ Len(doc) <= Len(es)
  /\ Listed(doc) = Listed(es)
  /\ \A i \in 1..Len(doc) : \E j \in 1..Len(es) : doc[i] = es[j]
  /\ \A id \in Listed(es) :
       /\ doc[Max(IndicesOf(doc, id))] = es[Max(IndicesOf(es, id))]
       /\ Min(IndicesOf(doc, id)) = Max(IndicesOf(doc, id))
            <=> Min(IndicesOf(es, id)) = Max(IndicesOf(es, id))

(* The document of the current format follows its file. *)
LEMMA WithIdsFollow ==
  ASSUME NEW es \in Seq(Entry)
  PROVE  Follows(WithIds(es), es)
<1> DEFINE kept == WithIds(es)
<1>1. PICK pi : Picks(pi, es, kept)
  BY WithIdsPicks
<1> HIDE DEF kept
<1>2. kept \in Seq(Entry) /\ Len(kept) <= Len(es)
  BY <1>1 DEF Picks
<1>3. /\ \A j \in 1..Len(kept) : pi[j] \in 1..Len(es) /\ kept[j] = es[pi[j]]
      /\ \A i, j \in 1..Len(kept) : i < j <=> pi[i] < pi[j]
  BY <1>1, PicksPlace
<1>4. /\ Listed(kept) = Listed(es)
      /\ \A id \in Listed(es) :
           /\ pi[Min(IndicesOf(kept, id))] = Min(IndicesOf(es, id))
           /\ pi[Max(IndicesOf(kept, id))] = Max(IndicesOf(es, id))
  BY <1>1, PicksEnds
<1>5. ASSUME NEW id \in Listed(es)
      PROVE  /\ kept[Max(IndicesOf(kept, id))] = es[Max(IndicesOf(es, id))]
             /\ Min(IndicesOf(kept, id)) = Max(IndicesOf(kept, id))
                  <=> Min(IndicesOf(es, id)) = Max(IndicesOf(es, id))
  <2> DEFINE f == Min(IndicesOf(kept, id))
             l == Max(IndicesOf(kept, id))
  <2>1. f \in 1..Len(kept) /\ l \in 1..Len(kept) /\ f <= l
    BY <1>2, <1>4, FirstAndLast
  <2>2. pi[f] = Min(IndicesOf(es, id)) /\ pi[l] = Max(IndicesOf(es, id))
    BY <1>4
  <2> HIDE DEF f, l
  <2>3. kept[l] = es[pi[l]]
    BY <1>3, <2>1
  <2>4. Len(kept) \in Nat /\ Len(es) \in Nat
    BY <1>2, EntriesType
  <2>5. f = l <=> pi[f] = pi[l]
    <3>1. pi[f] \in Nat /\ pi[l] \in Nat
      BY <1>3, <2>1, <2>4
    <3>2. f < l <=> pi[f] < pi[l]
      BY <1>3, <2>1
    <3> QED BY <2>1, <2>4, <3>1, <3>2
  <2> QED BY <2>2, <2>3, <2>5 DEF f, l
<1> QED BY <1>2, <1>3, <1>4, <1>5 DEF Follows, kept

(* So does that of the legacy format. *)
LEMMA AnyOrderFollows ==
  ASSUME NEW es \in Seq(Entry), Distinct(es), NEW doc \in AnyOrder(es)
  PROVE  Follows(doc, es)
<1>1. /\ doc \in Seq(Entry) /\ Len(doc) = Len(es)
      /\ Range(doc) = Range(es) /\ Distinct(doc)
  BY AnyOrderIs
<1>2. /\ Len(es) \in Nat /\ DOMAIN es = 1..Len(es) /\ DOMAIN doc = 1..Len(es)
  BY <1>1, EntriesType
<1>3. /\ \A i \in 1..Len(es) : \E j \in 1..Len(es) : doc[i] = es[j]
      /\ \A i \in 1..Len(es) : \E j \in 1..Len(es) : es[i] = doc[j]
  BY <1>1, <1>2 DEF Range
<1>4. Listed(doc) = Listed(es)
  <2>1. ASSUME NEW id \in Listed(doc) PROVE id \in Listed(es)
    <3>1. PICK i \in 1..Len(es) : doc[i].id = id /\ id # NoId
      BY <1>2 DEF Listed
    <3>2. PICK j \in 1..Len(es) : doc[i] = es[j]
      BY <1>3
    <3> QED BY <1>2, <3>1, <3>2 DEF Listed
  <2>2. ASSUME NEW id \in Listed(es) PROVE id \in Listed(doc)
    <3>1. PICK i \in 1..Len(es) : es[i].id = id /\ id # NoId
      BY <1>2 DEF Listed
    <3>2. PICK j \in 1..Len(es) : es[i] = doc[j]
      BY <1>3
    <3> QED BY <1>2, <3>1, <3>2 DEF Listed
  <2> QED BY <2>1, <2>2
<1>5. ASSUME NEW id \in Listed(es)
      PROVE  /\ doc[Max(IndicesOf(doc, id))] = es[Max(IndicesOf(es, id))]
             /\ Min(IndicesOf(doc, id)) = Max(IndicesOf(doc, id))
             /\ Min(IndicesOf(es, id)) = Max(IndicesOf(es, id))
  <2> DEFINE f == Min(IndicesOf(doc, id))
             l == Max(IndicesOf(doc, id))
             g == Min(IndicesOf(es, id))
             m == Max(IndicesOf(es, id))
  <2>1. /\ f \in 1..Len(es) /\ doc[f].id = id
        /\ l \in 1..Len(es) /\ doc[l].id = id
    BY <1>1, <1>4, FirstAndLast
  <2>2. /\ g \in 1..Len(es) /\ es[g].id = id
        /\ m \in 1..Len(es) /\ es[m].id = id
    BY FirstAndLast
  <2> HIDE DEF f, l, g, m
  <2>3. f = l /\ g = m
    BY <1>1, <1>2, <2>1, <2>2 DEF Distinct
  <2>4. doc[l] = es[m]
    <3>1. PICK j \in 1..Len(es) : doc[l] = es[j]
      BY <1>3, <2>1
    <3>2. j = m
      BY <1>2, <2>1, <2>2, <3>1 DEF Distinct
    <3> QED BY <3>1, <3>2
  <2> QED BY <2>3, <2>4 DEF f, l, g, m
<1> QED BY <1>1, <1>2, <1>3, <1>4, <1>5 DEF Follows

(* The two fields of a file. *)
LEMMA ContentType ==
  ASSUME NEW c \in Content
  PROVE  /\ c.kind \in {"current", "legacy", "empty", "broken"}
         /\ c.entries \in Seq(Entry) /\ Len(c.entries) <= MaxEntries
         /\ c.kind = "legacy" => Distinct(c.entries)
         /\ c = [kind |-> c.kind, entries |-> c.entries]
<1>1. CASE c \in [kind : {"current"}, entries : EntrySeqs]
  BY <1>1, BoundedDef
<1>2. CASE c \in [kind : {"legacy"}, entries : {es \in EntrySeqs : Distinct(es)}]
  BY <1>2, BoundedDef
<1>3. CASE c \in [kind : {"empty", "broken"}, entries : {<<>>}]
  <2>1. <<>> \in Seq(Entry) /\ Len(<<>>) = 0 /\ 0 <= MaxEntries
    BY ClientsAssumption
  <2> QED BY <1>3, <2>1
<1> QED BY <1>1, <1>2, <1>3 DEF Content

(* What the writer parses follows the file. *)
LEMMA DocumentsFollow ==
  ASSUME NEW c \in Content, NEW doc \in Documents(c)
  PROVE  /\ Follows(doc, c.entries) /\ BadId \notin Listed(c.entries)
         /\ c.kind = "legacy" => doc \in AnyOrder(c.entries)
         /\ c.kind # "legacy" => doc = WithIds(c.entries)
<1>1. c.entries \in Seq(Entry) /\ (c.kind = "legacy" => Distinct(c.entries))
  BY ContentType
<1>2. CASE c.kind = "legacy"
  BY <1>1, <1>2, AnyOrderFollows DEF Documents
<1>3. CASE c.kind # "legacy"
  BY <1>1, <1>3, WithIdsFollow DEF Documents
<1> QED BY <1>2, <1>3

(* A rewrite, of a file and as a step. *)
LEMMA RewriteIs ==
  ASSUME NEW c \in Content, NEW id, NEW name,
         NEW f \in RenameClientInClientsTable(c, id, name)
  PROVE  \E doc \in Documents(c) :
           /\ id \in Listed(doc) /\ id \in Listed(c.entries)
           /\ Follows(doc, c.entries)
           /\ f = Marshal(RenameClient(doc, id, name))
<1>1. PICK doc \in Documents(c) :
        id \in Listed(doc) /\ f = Marshal(RenameClient(doc, id, name))
  BY DEF RenameClientInClientsTable
<1>2. Follows(doc, c.entries)
  BY DocumentsFollow
<1>3. id \in Listed(c.entries)
  BY <1>1, <1>2 DEF Follows
<1> QED BY <1>1, <1>2, <1>3

(* It writes a file of the current format, with no more entries. *)
LEMMA RewriteType ==
  ASSUME NEW c \in Content, NEW id, NEW name \in Names,
         NEW f \in RenameClientInClientsTable(c, id, name)
  PROVE  f \in Content
<1>1. PICK doc \in Documents(c) :
        /\ id \in Listed(doc) /\ Follows(doc, c.entries)
        /\ f = Marshal(RenameClient(doc, id, name))
  BY RewriteIs
<1>2. doc \in Seq(Entry) /\ Len(doc) <= MaxEntries
  <2>1. Len(c.entries) <= MaxEntries /\ c.entries \in Seq(Entry)
    BY ContentType
  <2>2. doc \in Seq(Entry) /\ Len(doc) <= Len(c.entries)
    BY <1>1 DEF Follows
  <2>3. Len(doc) \in Nat /\ Len(c.entries) \in Nat
    BY <2>1, <2>2
  <2> QED BY <2>1, <2>2, <2>3, ClientsAssumption
<1> DEFINE rs == RenameClient(doc, id, name)
<1>3. rs \in Seq(Entry) /\ Len(rs) = Len(doc)
  <2>1. Renames(rs, doc, Min(IndicesOf(doc, id)), name)
    BY <1>1, <1>2, RenameClientIs
  <2> HIDE DEF rs
  <2> QED BY <2>1 DEF Renames
<1>4. f = Marshal(rs)
  BY <1>1
<1> HIDE DEF rs
<1>5. rs \in EntrySeqs
  BY <1>2, <1>3, BoundedDef
<1> QED BY <1>4, <1>5 DEF Marshal, Content

-----------------------------------------------------------------------------
(* The theorems.                                                           *)

(* Every rename of a well-formed table yields one of no more entries. *)
THEOREM TableTyped == Spec => []TypeOK
<1>1. Init => TypeOK
  BY DEF Init, TypeOK
<1>2. TypeOK /\ [Next]_table => TypeOK'
  <2> SUFFICES ASSUME TypeOK, [Next]_table PROVE TypeOK'
    OBVIOUS
  <2>1. ASSUME NEW id \in Ids, NEW name \in Names, Rename(id, name)
        PROVE  TypeOK'
    <3>1. table' \in Content
      BY <2>1, RewriteType DEF TypeOK, Rename
    <3> QED BY <3>1 DEF TypeOK
  <2>2. CASE UNCHANGED table
    BY <2>2 DEF TypeOK
  <2> QED BY <2>1, <2>2 DEF Next
<1> QED BY <1>1, <1>2, PTL DEF Spec

(* What the reader makes of a file it accepts. *)
LEMMA ReadingOf ==
  ASSUME NEW c
  PROVE  /\ ParseClientsTable(c).ok <=> /\ c.kind # "broken"
                                      /\ \A i \in DOMAIN c.entries : Typed(c.entries[i])
         /\ DOMAIN ParseClientsTable(c).clients = Listed(c.entries)
         /\ \A id \in Listed(c.entries) :
              ParseClientsTable(c).clients[id]
                = c.entries[Max(IndicesOf(c.entries, id))].name
BY DEF ParseClientsTable

(* A file the reader accepts can be rewritten for every client of it. *)
LEMMA ShownIsRewritten ==
  ASSUME NEW c \in Content, ParseClientsTable(c).ok,
         NEW id \in Listed(c.entries), NEW name
  PROVE  RenameClientInClientsTable(c, id, name) # {}
<1>1. /\ c.entries \in Seq(Entry)
      /\ c.kind = "legacy" => Distinct(c.entries)
  BY ContentType
<1>2. c.kind # "broken" /\ \A i \in DOMAIN c.entries : Typed(c.entries[i])
  BY DEF ParseClientsTable
<1>3. BadId \notin Listed(c.entries)
  BY <1>2 DEF Listed, Typed
<1>4. \E doc : doc \in Documents(c)
  <2>1. CASE c.kind = "legacy"
    BY <1>1, <1>2, <1>3, <2>1, DistinctIsBijection DEF Documents
  <2>2. CASE c.kind # "legacy"
    BY <1>2, <1>3, <2>2 DEF Documents
  <2> QED BY <2>1, <2>2
<1>5. PICK doc \in Documents(c) : TRUE
  BY <1>4
<1>6. id \in Listed(doc)
  BY DocumentsFollow DEF Follows
<1> QED BY <1>6 DEF RenameClientInClientsTable

(* What the reader makes of the rewritten file. *)
LEMMA RewriteIsRead ==
  ASSUME NEW c \in Content, ParseClientsTable(c).ok,
         NEW id \in Listed(c.entries), NEW name \in Names,
         NEW f \in RenameClientInClientsTable(c, id, name)
  PROVE  /\ ParseClientsTable(f).ok
         /\ Listed(f.entries) = Listed(c.entries)
         /\ \A k \in Listed(c.entries) :
              ParseClientsTable(f).clients[k] =
                IF k = id /\ Cardinality(IndicesOf(c.entries, id)) = 1
                THEN name ELSE ParseClientsTable(c).clients[k]
<1> DEFINE es == c.entries
<1>1. es \in Seq(Entry)
  BY ContentType
<1>2. PICK doc \in Documents(c) :
        /\ id \in Listed(doc) /\ Follows(doc, es)
        /\ f = Marshal(RenameClient(doc, id, name))
  BY RewriteIs
<1> DEFINE rs == RenameClient(doc, id, name)
           g == Min(IndicesOf(doc, id))
<1>3. doc \in Seq(Entry) /\ Listed(doc) = Listed(es)
  BY <1>2 DEF Follows
<1>4. Renames(rs, doc, g, name)
  BY <1>2, <1>3, RenameClientIs
<1>5. /\ Listed(rs) = Listed(doc)
      /\ \A k : IndicesOf(rs, k) = IndicesOf(doc, k)
  BY <1>2, <1>3, RenameKeepsIds
<1>6. f.kind = "current" /\ f.entries = rs
  BY <1>2 DEF Marshal
<1>7. g \in 1..Len(doc) /\ doc[g].id = id
  BY <1>2, <1>3, FirstAndLast
<1> HIDE DEF rs, g, es
<1>8. /\ rs \in Seq(Entry) /\ Len(rs) = Len(doc)
      /\ rs[g] = [doc[g] EXCEPT !.name = name]
      /\ \A i \in 1..Len(doc) : i # g => rs[i] = doc[i]
  BY <1>4 DEF Renames
<1>9. /\ DOMAIN rs = 1..Len(doc) /\ DOMAIN es = 1..Len(es)
      /\ \A i \in 1..Len(doc) : doc[i] \in Entry
  BY <1>1, <1>3, <1>8, EntriesType
<1>10. /\ rs[g].name = name /\ rs[g].id = doc[g].id /\ rs[g].rest = doc[g].rest
  <2>1. /\ doc[g] = [id |-> doc[g].id, name |-> doc[g].name, rest |-> doc[g].rest]
        /\ [doc[g] EXCEPT !.name = name] =
             [id |-> doc[g].id, name |-> name, rest |-> doc[g].rest]
    BY <1>7, <1>9, EntryType
  <2> QED BY <1>8, <2>1
<1>11. ParseClientsTable(f).ok
  <2>1. \A i \in 1..Len(es) : Typed(es[i])
    BY <1>9 DEF ParseClientsTable, es
  <2>2. \A i \in 1..Len(doc) : Typed(doc[i])
    BY <1>2, <2>1 DEF Follows
  <2>3. name # BadName
    BY ClientsAssumption
  <2>4. Typed(rs[g])
    BY <1>7, <1>10, <2>2, <2>3 DEF Typed
  <2>5. \A i \in 1..Len(doc) : Typed(rs[i])
    BY <1>8, <2>2, <2>4
  <2> QED BY <1>6, <1>9, <2>5, ReadingOf
<1>12. ASSUME NEW k \in Listed(es)
       PROVE  ParseClientsTable(f).clients[k] =
                IF k = id /\ Cardinality(IndicesOf(es, id)) = 1
                THEN name ELSE ParseClientsTable(c).clients[k]
  <2> DEFINE l == Max(IndicesOf(doc, k))
  <2>1. l \in 1..Len(doc) /\ doc[l].id = k
    BY <1>3, FirstAndLast
  <2>2. ParseClientsTable(f).clients[k] = rs[l].name
    <3>1. k \in Listed(f.entries)
      BY <1>3, <1>5, <1>6
    <3>2. IndicesOf(f.entries, k) = IndicesOf(doc, k)
      BY <1>5, <1>6
    <3> QED BY <1>6, <3>1, <3>2, ReadingOf
  <2>3. ParseClientsTable(c).clients[k] = es[Max(IndicesOf(es, k))].name
    BY ReadingOf DEF es
  <2>4. doc[l] = es[Max(IndicesOf(es, k))]
    BY <1>2 DEF Follows
  <2>5. k = id /\ Cardinality(IndicesOf(es, id)) = 1 <=> l = g
    <3>1. Cardinality(IndicesOf(es, k)) = 1
            <=> Min(IndicesOf(es, k)) = Max(IndicesOf(es, k))
      BY <1>1, OnceIs
    <3>2. Min(IndicesOf(doc, k)) = l
            <=> Min(IndicesOf(es, k)) = Max(IndicesOf(es, k))
      BY <1>2 DEF Follows
    <3>3. k = id => g = Min(IndicesOf(doc, k))
      BY DEF g
    <3> HIDE DEF l
    <3>4. l = g => k = id
      BY <1>7, <2>1
    <3> QED BY <3>1, <3>2, <3>3, <3>4
  <2> HIDE DEF l
  <2>6. CASE l = g
    BY <1>10, <2>2, <2>5, <2>6
  <2>7. CASE l # g
    BY <1>8, <2>1, <2>2, <2>3, <2>4, <2>5, <2>7
  <2> QED BY <2>6, <2>7
<1> QED BY <1>3, <1>5, <1>6, <1>11, <1>12 DEF es

(* The reader and the writer agree: a client the reader shows can be       *)
(* renamed, and a rename of a client listed once shows its new name and    *)
(* nothing else new.                                                       *)
LEMMA TypedIsRenamable == TypeOK => ShownClientCanBeRenamed
<1> SUFFICES ASSUME TypeOK, ParseClientsTable(table).ok,
                    NEW id \in Listed(table.entries), NEW name \in Names
             PROVE  LET files == RenameClientInClientsTable(table, id, name)
                        before == ParseClientsTable(table)
                        once == Cardinality(IndicesOf(table.entries, id)) = 1
                    IN /\ files # {}
                       /\ \A f \in files :
                            ParseClientsTable(f) =
                              [ok |-> TRUE,
                               clients |-> IF once THEN [before.clients EXCEPT ![id] = name]
                                           ELSE before.clients]
  BY ReadingOf DEF ShownClientCanBeRenamed
<1>1. table \in Content
  BY DEF TypeOK
<1>2. RenameClientInClientsTable(table, id, name) # {}
  BY <1>1, ShownIsRewritten
<1>3. ASSUME NEW f \in RenameClientInClientsTable(table, id, name)
      PROVE  ParseClientsTable(f) =
               [ok |-> TRUE,
                clients |->
                  IF Cardinality(IndicesOf(table.entries, id)) = 1
                  THEN [ParseClientsTable(table).clients EXCEPT ![id] = name]
                  ELSE ParseClientsTable(table).clients]
  <2> DEFINE L == Listed(table.entries)
             old == ParseClientsTable(table).clients
             new == ParseClientsTable(f).clients
             once == Cardinality(IndicesOf(table.entries, id)) = 1
  <2>1. /\ ParseClientsTable(f).ok /\ Listed(f.entries) = L
        /\ \A k \in L : new[k] = IF k = id /\ once THEN name ELSE old[k]
    BY <1>1, <1>3, RewriteIsRead
  <2>2. old = [k \in L |-> old[k]] /\ new = [k \in L |-> new[k]]
    BY <2>1 DEF ParseClientsTable
  <2>3. ParseClientsTable(f) = [ok |-> TRUE, clients |-> new]
    BY <2>1 DEF ParseClientsTable
  <2>4. new = IF once THEN [old EXCEPT ![id] = name] ELSE old
    <3> HIDE DEF L, old, new, once
    <3>1. id \in L
      BY DEF L
    <3> QED BY <2>1, <2>2, <3>1
  <2> HIDE DEF new
  <2> QED BY <2>3, <2>4
<1> QED BY <1>2, <1>3

(* WHAT IS SHOWN CAN BE RENAMED. For a file of any length that the reader  *)
(* accepts, a rename of a client it lists succeeds, and the reader then    *)
(* finds the same clients and names but for the new one; if the client has *)
(* several entries it finds no change (clients_table.go:37-61, 63-138).    *)
THEOREM ShownIsRenamable == Spec => []ShownClientCanBeRenamed
BY TableTyped, TypedIsRenamable, PTL

-----------------------------------------------------------------------------
(* Two renames in a row.                                                   *)

(* The second rename finds the first one's document, without the entries   *)
(* that have no id.                                                        *)
LEMMA SecondRename ==
  ASSUME NEW c \in Content, NEW doc \in Documents(c),
         NEW a \in Listed(doc), NEW x \in Names, NEW b, NEW y, NEW z
  PROVE  z \in RenameClientInClientsTable(Marshal(RenameClient(doc, a, x)), b, y)
           <=> /\ b \in Listed(doc)
               /\ z = Marshal(RenameClient(RenameClient(WithIds(doc), a, x), b, y))
<1> DEFINE rs == RenameClient(doc, a, x)
           f == Marshal(rs)
           W == WithIds(doc)
           ws == RenameClient(W, a, x)
<1>1. doc \in Seq(Entry) /\ BadId \notin Listed(doc)
  BY DocumentsFollow DEF Follows
<1>2. Listed(rs) = Listed(doc)
  BY <1>1, RenameKeepsIds
<1>3. WithIds(rs) = ws /\ W \in Seq(Entry) /\ a \in Listed(W)
  BY <1>1, WithIdsOfRename
<1>4. Listed(W) = Listed(doc)
  BY <1>1, WithIdsFollow DEF Follows
<1>5. Listed(ws) = Listed(doc)
  BY <1>3, <1>4, RenameKeepsIds
<1> HIDE DEF rs, W, ws
<1>6. f.kind = "current" /\ f.entries = rs
  BY DEF Marshal
<1> HIDE DEF f
<1>7. Documents(f) = {ws}
  BY <1>1, <1>2, <1>3, <1>6 DEF Documents
<1>8. z \in RenameClientInClientsTable(f, b, y)
        <=> b \in Listed(ws) /\ z = Marshal(RenameClient(ws, b, y))
  BY <1>7 DEF RenameClientInClientsTable
<1> QED BY <1>5, <1>8 DEF rs, f, W, ws

(* So two renames leave a document in which both were made. *)
LEMMA AfterTwo ==
  ASSUME NEW c \in Content, NEW a, NEW b, NEW x \in Names, NEW y, NEW z
  PROVE  z \in After(After({c}, a, x), b, y)
           <=> \E doc \in Documents(c) :
                 /\ a \in Listed(doc) /\ b \in Listed(doc)
                 /\ z = Marshal(RenameClient(RenameClient(WithIds(doc), a, x), b, y))
<1>1. z \in After(After({c}, a, x), b, y)
        <=> \E f \in RenameClientInClientsTable(c, a, x) :
              z \in RenameClientInClientsTable(f, b, y)
  BY DEF After
<1>2. \A f : f \in RenameClientInClientsTable(c, a, x)
        <=> \E doc \in Documents(c) :
              a \in Listed(doc) /\ f = Marshal(RenameClient(doc, a, x))
  BY DEF RenameClientInClientsTable
<1>3. z \in After(After({c}, a, x), b, y)
        <=> \E doc \in Documents(c) :
              /\ a \in Listed(doc)
              /\ z \in RenameClientInClientsTable(
                         Marshal(RenameClient(doc, a, x)), b, y)
  BY <1>1, <1>2
<1>4. \A doc \in Documents(c) : a \in Listed(doc) =>
        (z \in RenameClientInClientsTable(Marshal(RenameClient(doc, a, x)), b, y)
           <=> /\ b \in Listed(doc)
               /\ z = Marshal(RenameClient(RenameClient(WithIds(doc), a, x), b, y)))
  BY SecondRename
<1> QED BY <1>3, <1>4

(* In either order they leave the same ones. *)
LEMMA TypedCommute == TypeOK => RenamesCommute
<1> SUFFICES ASSUME TypeOK, NEW a \in Ids, NEW b \in Ids,
                    NEW x \in Names, NEW y \in Names, a # b
             PROVE  After(After({table}, a, x), b, y)
                      = After(After({table}, b, y), a, x)
  BY DEF RenamesCommute
<1> DEFINE One(doc) == Marshal(RenameClient(RenameClient(WithIds(doc), a, x), b, y))
           Other(doc) == Marshal(RenameClient(RenameClient(WithIds(doc), b, y), a, x))
<1>1. table \in Content
  BY DEF TypeOK
<1>2. ASSUME NEW doc \in Documents(table), a \in Listed(doc), b \in Listed(doc)
      PROVE  One(doc) = Other(doc)
  <2>1. doc \in Seq(Entry)
    BY <1>1, DocumentsFollow DEF Follows
  <2>2. /\ WithIds(doc) \in Seq(Entry)
        /\ a \in Listed(WithIds(doc)) /\ b \in Listed(WithIds(doc))
    BY <1>2, <2>1, WithIdsFollow DEF Follows
  <2> QED BY <2>2, RenamesSwap
<1>3. \A z : z \in After(After({table}, a, x), b, y)
        <=> \E doc \in Documents(table) :
              a \in Listed(doc) /\ b \in Listed(doc) /\ z = One(doc)
  BY <1>1, AfterTwo
<1>4. \A z : z \in After(After({table}, b, y), a, x)
        <=> \E doc \in Documents(table) :
              b \in Listed(doc) /\ a \in Listed(doc) /\ z = Other(doc)
  BY <1>1, AfterTwo
<1> HIDE DEF One, Other
<1>5. \A z : z \in After(After({table}, a, x), b, y)
               <=> z \in After(After({table}, b, y), a, x)
  <2> DEFINE ab == After(After({table}, a, x), b, y)
             ba == After(After({table}, b, y), a, x)
             D == {doc \in Documents(table) : a \in Listed(doc) /\ b \in Listed(doc)}
  <2>1. \A z : z \in ab <=> \E doc \in D : z = One(doc)
    BY <1>3
  <2>2. \A z : z \in ba <=> \E doc \in D : z = Other(doc)
    BY <1>4
  <2>3. \A doc \in D : One(doc) = Other(doc)
    BY <1>2
  <2> HIDE DEF ab, ba, D
  <2>4. \A z : z \in ab <=> z \in ba
    BY <2>1, <2>2, <2>3
  <2> QED BY <2>4 DEF ab, ba
<1> QED BY <1>5

(* Two renames of different clients give the same in either order, for a   *)
(* table of either format, with any number of entries for an id, entries   *)
(* without one, and every order the map may be ranged over in.             *)
THEOREM RenamesInAnyOrder == Spec => []RenamesCommute
BY TableTyped, TypedCommute, PTL

-----------------------------------------------------------------------------
(* What a rename keeps.                                                    *)

(* The loop leaves a document alone in which every entry has an id. *)
LEMMA AllKept ==
  ASSUME NEW es \in Seq(Entry), \A i \in 1..Len(es) : HasId(es[i])
  PROVE  WithIds(es) = es
<1> DEFINE n == Len(es)
           id == [i \in 1..n |-> i]
           kept == WithIds(es)
<1>1. PICK pi : Picks(pi, es, kept)
  BY WithIdsPicks
<1>2. n \in Nat /\ DOMAIN es = 1..n
  BY EntriesType
<1> HIDE DEF n, kept
<1>3. id \in Seq(Nat) /\ DOMAIN id = 1..n /\ Len(id) = n
  BY <1>2
<1>4. Increases(id)
  BY <1>3 DEF Increases
<1>5. Range(id) = Places(es)
  <2>1. Range(id) = 1..n
    BY <1>3 DEF Range
  <2>2. Places(es) = 1..n
    BY <1>2 DEF Places, n
  <2> QED BY <2>1, <2>2
<1>6. pi = id
  <2>1. pi \in Seq(Nat) /\ Increases(pi) /\ Range(pi) = Places(es)
    BY <1>1 DEF Picks
  <2> HIDE DEF id
  <2> QED BY <1>3, <1>4, <1>5, <2>1, IncreasingUnique
<1>7. /\ kept \in Seq(Entry) /\ Len(kept) = n
      /\ \A j \in 1..n : kept[j] = es[j]
  BY <1>1, <1>3, <1>6 DEF Picks
<1>8. kept = es
  BY <1>2, <1>7 DEF n
<1> QED BY <1>8 DEF kept

(* It keeps what has an id and nothing else. *)
LEMMA WithIdsHaveIds ==
  ASSUME NEW es \in Seq(Entry)
  PROVE  /\ WithIds(es) \in Seq(Entry)
         /\ \A i \in 1..Len(WithIds(es)) : HasId(WithIds(es)[i])
         /\ Range(WithIds(es)) = {e \in Range(es) : HasId(e)}
         /\ Distinct(es) => Distinct(WithIds(es))
<1> DEFINE kept == WithIds(es)
<1>1. PICK pi : Picks(pi, es, kept)
  BY WithIdsPicks
<1> HIDE DEF kept
<1>2. kept \in Seq(Entry)
  BY <1>1 DEF Picks
<1>3. /\ \A j \in 1..Len(kept) :
           /\ pi[j] \in 1..Len(es) /\ kept[j] = es[pi[j]] /\ HasId(kept[j])
      /\ \A i \in 1..Len(es) :
           HasId(es[i]) => \E j \in 1..Len(kept) : pi[j] = i
      /\ \A i, j \in 1..Len(kept) : i < j <=> pi[i] < pi[j]
  BY <1>1, PicksPlace
<1>4. /\ DOMAIN es = 1..Len(es) /\ DOMAIN kept = 1..Len(kept)
      /\ Len(es) \in Nat /\ Len(kept) \in Nat
  BY <1>2, EntriesType
<1>5. Range(kept) = {e \in Range(es) : HasId(e)}
  <2>1. ASSUME NEW e \in Range(kept) PROVE e \in Range(es) /\ HasId(e)
    <3>1. PICK j \in 1..Len(kept) : e = kept[j]
      BY <1>4 DEF Range
    <3> QED BY <1>3, <1>4, <3>1 DEF Range
  <2>2. ASSUME NEW e \in Range(es), HasId(e) PROVE e \in Range(kept)
    <3>1. PICK i \in 1..Len(es) : e = es[i]
      BY <1>4 DEF Range
    <3>2. PICK j \in 1..Len(kept) : pi[j] = i
      BY <1>3, <2>2, <3>1
    <3> QED BY <1>3, <1>4, <3>1, <3>2 DEF Range
  <2> QED BY <2>1, <2>2
<1>6. ASSUME Distinct(es), NEW i \in 1..Len(kept), NEW j \in 1..Len(kept),
             kept[i].id = kept[j].id
      PROVE  i = j
  <2>1. pi[i] = pi[j]
    BY <1>3, <1>4, <1>6 DEF Distinct
  <2>2. pi[i] \in Nat /\ ~(pi[i] < pi[j]) /\ ~(pi[j] < pi[i])
    <3>1. pi[i] \in Nat
      BY <1>3, <1>4
    <3> QED BY <2>1, <3>1
  <2>3. ~(i < j) /\ ~(j < i)
    BY <1>3, <2>2
  <2> QED BY <1>4, <2>3
<1>7. Distinct(es) => Distinct(kept)
  BY <1>4, <1>6 DEF Distinct
<1> QED BY <1>2, <1>3, <1>5, <1>7 DEF kept

(* What RenameKeepsEverything looks at of an entry is its id and the       *)
(* fields a rename does not touch.                                         *)
LEMMA KeptType ==
  ASSUME NEW es \in Seq(Entry)
  PROVE  Range(Kept(es)) = {[id |-> e.id, rest |-> e.rest] : e \in Range(es)}
BY DEF Kept, Range

(* A rename changes none of it, and no second entry. *)
LEMMA RenameKept ==
  ASSUME NEW es \in Seq(Entry), NEW id \in Listed(es), NEW name \in Names
  PROVE  LET rs == RenameClient(es, id, name)
         IN  /\ Kept(rs) = Kept(es) /\ Len(rs) = Len(es)
             /\ Cardinality(Range(rs) \ Range(es)) <= 1
<1> DEFINE rs == RenameClient(es, id, name)
           g == Min(IndicesOf(es, id))
           Fresh == Range(rs) \ Range(es)
<1>1. Renames(rs, es, g, name)
  BY RenameClientIs
<1> HIDE DEF rs, g
<1>2. /\ rs \in Seq(Entry) /\ Len(rs) = Len(es)
      /\ \A i \in 1..Len(es) : i # g => rs[i] = es[i]
      /\ \A i \in 1..Len(es) : rs[i].id = es[i].id /\ rs[i].rest = es[i].rest
  BY <1>1 DEF Renames
<1>3. DOMAIN rs = 1..Len(es) /\ DOMAIN es = 1..Len(es)
  BY <1>2, EntriesType
<1>4. Kept(rs) = Kept(es)
  BY <1>2, <1>3 DEF Kept
<1>5. Fresh \in SUBSET {rs[g]}
  BY <1>2, <1>3 DEF Range
<1>6. Cardinality(Fresh) <= 1
  <2>1. IsFiniteSet({rs[g]}) /\ Cardinality({rs[g]}) = 1
    BY FS_Singleton
  <2> HIDE DEF Fresh
  <2> QED BY <1>5, <2>1, FS_Subset
<1> QED BY <1>2, <1>4, <1>6 DEF rs

(* Nor does the rewrite, of either format. *)
LEMMA StepKeepsEverything ==
  ASSUME TypeOK, NEW id \in Ids, NEW name \in Names, Rename(id, name)
  PROVE  KeepsEverything
<1> DEFINE es == table.entries
           old == WithIds(es)
           new == WithIds(table'.entries)
<1>1. table \in Content
  BY DEF TypeOK
<1>2. es \in Seq(Entry) /\ (table.kind = "legacy" => Distinct(es))
  BY <1>1, ContentType
<1>3. PICK doc \in Documents(table) :
        /\ id \in Listed(doc) /\ Follows(doc, es)
        /\ table' = Marshal(RenameClient(doc, id, name))
  BY <1>1, RewriteIs DEF Rename
<1> DEFINE W == WithIds(doc)
<1>4. doc \in Seq(Entry)
  BY <1>3 DEF Follows
<1>5. table'.entries = RenameClient(doc, id, name)
  BY <1>3 DEF Marshal
<1>6. /\ WithIds(RenameClient(doc, id, name)) = RenameClient(W, id, name)
      /\ W \in Seq(Entry) /\ id \in Listed(W)
  BY <1>3, <1>4, WithIdsOfRename
<1>7. new = RenameClient(W, id, name)
  BY <1>5, <1>6
<1>8. /\ Kept(new) = Kept(W) /\ Len(new) = Len(W)
      /\ Cardinality(Range(new) \ Range(W)) <= 1
  <2> HIDE DEF new, W
  <2> QED BY <1>6, <1>7, RenameKept
<1>9. CASE table.kind # "legacy"
  <2>1. doc = old
    BY <1>1, <1>9, DocumentsFollow
  <2>2. W = old
    BY <1>2, <1>4, <2>1, WithIdsHaveIds, AllKept
  <2> QED BY <1>8, <2>2 DEF KeepsEverything
<1>10. CASE table.kind = "legacy"
  <2>1. /\ Range(doc) = Range(es) /\ Distinct(doc)
    BY <1>1, <1>2, <1>10, DocumentsFollow, AnyOrderIs
  <2>2. /\ old \in Seq(Entry) /\ Distinct(old) /\ Distinct(W)
        /\ Range(W) = Range(old)
    BY <1>2, <1>4, <1>10, <2>1, WithIdsHaveIds
  <2>3. Len(W) = Len(old)
    <3> HIDE DEF W, old
    <3>1. Cardinality(Range(W)) = Len(W)
      BY <1>6, <2>2, DistinctIsBijection
    <3>2. Cardinality(Range(old)) = Len(old)
      BY <2>2, DistinctIsBijection
    <3> QED BY <2>2, <3>1, <3>2
  <2>4. Range(Kept(W)) = Range(Kept(old))
    <3> HIDE DEF W, old
    <3> QED BY <1>6, <2>2, KeptType
  <2> HIDE DEF W
  <2> QED BY <1>8, <1>10, <2>2, <2>3, <2>4 DEF KeepsEverything
<1> QED BY <1>9, <1>10

(* No rename loses an entry with an id, or any field of it, or changes its *)
(* place unless the format changes, and none changes two entries.          *)
THEOREM KeepsAll == Spec => RenameKeepsEverything
<1>1. TypeOK /\ [Next]_table => [KeepsEverything]_table
  BY StepKeepsEverything DEF Next
<1> QED BY <1>1, TableTyped, PTL DEF Spec, RenameKeepsEverything
=============================================================================
