---------------------------- MODULE DataTheorems ----------------------------
(***************************************************************************)
(* Facts about the community modules' operators that the proofs of several *)
(* components rest on: sums over finite sets (SumFunction of Functions),   *)
(* what FoldLeft computes round by round, the greatest and least of a set  *)
(* of numbers, and sequences determined by their elements and their order. *)
(*                                                                         *)
(* Each of them is an induction over data.  The library states induction   *)
(* with an operator as parameter, which the installed provers cannot       *)
(* instantiate; here it is first-order instead, over a set: the set T of   *)
(* the numbers with a property holds 0 and with each number the next one,  *)
(* so it holds them all (NatInductive), and likewise for the subsets of a  *)
(* finite set (SubsetInductive).  The functions that CHOOSE defines by     *)
(* recursion in the community modules are first shown to exist             *)
(* (FoldExists, FoldLeftExists) and then known by their equations.         *)
(*                                                                         *)
(* Hypotheses and conclusions that a prover would have to match as a whole *)
(* have a name of their own (Inductive, IsFold, Loops, ByKey...): a user   *)
(* of a lemma shows the named predicate first and unfolds it afterwards.   *)
(***************************************************************************)
EXTENDS Integers, Sequences, FiniteSets, FiniteSetsExt, FiniteSetTheorems,
        WellFoundedInduction, TLAPS

-----------------------------------------------------------------------------
(* Induction. *)

(* A set of natural numbers that is not empty has a least one. *)
LEMMA Least ==
  ASSUME NEW T \in SUBSET Nat, T # {}
  PROVE  \E m \in T : \A k \in T : m <= k
<1> DEFINE R == OpToRel(<, Nat)
<1>1. IsWellFoundedOn(R, Nat)
  BY NatLessThanWellFounded
<1>2. \A a, b \in Nat : a < b => <<a, b>> \in R
  BY DEF OpToRel
<1> HIDE DEF R
<1>3. PICK m \in T : \A k \in T : <<k, m>> \notin R
  BY <1>1, WFMin
<1>4. ASSUME NEW k \in T PROVE m <= k
  <2>1. k \in Nat /\ m \in Nat /\ ~(k < m)
    BY <1>2, <1>3
  <2> QED BY <2>1
<1> QED BY <1>4

(* What holds of 0, and with each number of the next, holds of them all. *)
LEMMA NatInductive ==
  ASSUME NEW T, 0 \in T, \A n \in Nat : n \in T => n + 1 \in T
  PROVE  Nat \subseteq T
<1> SUFFICES ASSUME Nat \ T # {} PROVE FALSE
  OBVIOUS
<1>1. PICK m \in Nat \ T : \A k \in Nat \ T : m <= k
  BY Least
<1>2. m - 1 \in Nat /\ m - 1 \notin T
  BY <1>1
<1> QED BY <1>1, <1>2

(* A finite set without one of its elements is smaller by one. *)
LEMMA OneFewer ==
  ASSUME NEW s, IsFiniteSet(s), NEW x, x \in s
  PROVE  Cardinality(s \ {x}) = Cardinality(s) - 1
BY FS_RemoveElement

(* C has every subset of S of which it has all those with one element      *)
(* less.                                                                   *)
Inductive(S, C) ==
  \A s \in SUBSET S : (\A x \in s : s \ {x} \in C) => s \in C

(* Then it has all the subsets of S, if S is finite. *)
LEMMA SubsetInductive ==
  ASSUME NEW S, IsFiniteSet(S), NEW C, Inductive(S, C)
  PROVE  SUBSET S \subseteq C
<1> DEFINE N == {n \in Nat : \A s \in SUBSET S : Cardinality(s) = n => s \in C}
<1>0. \A s \in SUBSET S : IsFiniteSet(s) /\ Cardinality(s) \in Nat
  BY FS_Subset, FS_CardinalityType
<1>1. 0 \in N
  BY <1>0, FS_EmptySet DEF Inductive
<1>2. ASSUME NEW n \in Nat, n \in N PROVE n + 1 \in N
  <2> SUFFICES ASSUME NEW s \in SUBSET S, Cardinality(s) = n + 1
               PROVE  s \in C
    OBVIOUS
  <2>1. ASSUME NEW x \in s PROVE s \ {x} \in C
    <3>1. Cardinality(s \ {x}) = Cardinality(s) - 1
      BY <1>0, OneFewer
    <3>2. Cardinality(s \ {x}) = n
      BY <3>1
    <3> QED BY <1>2, <3>2
  <2> QED BY <2>1 DEF Inductive
<1> HIDE DEF N
<1>3. Nat \subseteq N
  BY <1>1, <1>2, NatInductive
<1> QED BY <1>0, <1>3 DEF N

-----------------------------------------------------------------------------
(* Sums over finite sets. *)

(* A sum over a set, with the definitions of the library unfolded. *)
LEMMA SumDef ==
  ASSUME NEW f, NEW I
  PROVE  SumFunctionOnSet(f, I) =
           (CHOOSE it : it = [s \in SUBSET I |->
              IF s = {} THEN 0
              ELSE f[CHOOSE x \in s : TRUE]
                     + it[s \ {CHOOSE x \in s : TRUE}]])[I]
BY DEF SumFunctionOnSet, FoldFunctionOnSet, MapThenFoldSet

-----------------------------------------------------------------------------
(* Functions on the subsets of a set.                                      *)

(* ch names an element of every subset but the empty one. *)
Chooses(ch, S) == /\ ch \in [(SUBSET S) \ {{}} -> S]
                  /\ \A s \in (SUBSET S) \ {{}} : ch[s] \in s

(* it takes out element after element, in the order in which ch names them. *)
IsFold(it, S, base, op, ch) ==
  \A s \in SUBSET S :
    it[s] = IF s = {} THEN base ELSE op[<<ch[s], it[s \ {ch[s]}]>>]

(* A function on the subsets of a finite set may be defined by recursion. *)
LEMMA FoldExists ==
  ASSUME NEW S, IsFiniteSet(S), NEW V, NEW base \in V,
         NEW op, op \in [S \X V -> V], NEW ch, Chooses(ch, S)
  PROVE  \E it \in [SUBSET S -> V] : IsFold(it, S, base, op, ch)
<1> USE DEF Chooses, IsFold
<1> DEFINE Rec(it, s) == IF s = {} THEN base
                         ELSE op[<<ch[s], it[s \ {ch[s]}]>>]
           N == {n \in Nat : \E it \in [SUBSET S -> V] : \A s \in SUBSET S :
                   Cardinality(s) <= n => it[s] = Rec(it, s)}
<1>0. \A s \in SUBSET S : IsFiniteSet(s) /\ Cardinality(s) \in Nat
  BY FS_Subset, FS_CardinalityType
<1>1. 0 \in N
  <2>1. [s \in SUBSET S |-> base] \in [SUBSET S -> V]
    OBVIOUS
  <2>2. \A s \in SUBSET S : Cardinality(s) <= 0 => s = {}
    BY <1>0, FS_EmptySet
  <2> QED BY <2>1, <2>2
<1>2. ASSUME NEW n \in Nat, n \in N PROVE n + 1 \in N
  <2>1. PICK it \in [SUBSET S -> V] : \A s \in SUBSET S :
          Cardinality(s) <= n => it[s] = Rec(it, s)
    BY <1>2
  <2> DEFINE next == [s \in SUBSET S |-> Rec(it, s)]
  <2>2. next \in [SUBSET S -> V]
    <3>1. ASSUME NEW s \in SUBSET S PROVE Rec(it, s) \in V
      <4>1. CASE s = {}
        BY <4>1
      <4>2. CASE s # {}
        <5>1. ch[s] \in S /\ s \ {ch[s]} \in SUBSET S
          BY <4>2
        <5>2. <<ch[s], it[s \ {ch[s]}]>> \in S \X V
          BY <5>1, <2>1
        <5> QED BY <4>2, <5>2
      <4> QED BY <4>1, <4>2
    <3> HIDE DEF Rec
    <3> QED BY <3>1
  <2>3. ASSUME NEW s \in SUBSET S, Cardinality(s) <= n + 1
        PROVE  next[s] = Rec(next, s)
    <3>1. CASE s = {}
      BY <3>1
    <3>2. CASE s # {}
      <4> DEFINE r == s \ {ch[s]}
      <4>0. ch[s] \in s /\ IsFiniteSet(s)
        BY <1>0, <3>2
      <4>5. Cardinality(r) = Cardinality(s) - 1
        BY <4>0, OneFewer
      <4>1. r \in SUBSET S /\ Cardinality(r) <= n
        BY <1>0, <2>3, <4>5
      <4>2. it[r] = Rec(it, r)
        BY <2>1, <4>1
      <4>3. next[r] = Rec(it, r)
        BY <4>1
      <4>4. next[s] = Rec(it, s)
        OBVIOUS
      <4> QED BY <3>2, <4>2, <4>3, <4>4
    <3> QED BY <3>1, <3>2
  <2> HIDE DEF next, Rec
  <2> QED BY <2>2, <2>3
<1> HIDE DEF N
<1>3. Nat \subseteq N
  BY <1>1, <1>2, NatInductive
<1>4. Cardinality(S) \in N
  BY <1>0, <1>3
<1>5. PICK it \in [SUBSET S -> V] : \A s \in SUBSET S :
        Cardinality(s) <= Cardinality(S) => it[s] = Rec(it, s)
  BY <1>4 DEF N
<1>6. \A s \in SUBSET S : Cardinality(s) <= Cardinality(S)
  BY FS_Subset
<1> QED BY <1>5, <1>6

(* The sum of natural numbers, by the equations that define it. *)
IsSum(it, f, S) ==
  /\ it \in [SUBSET S -> Nat]
  /\ it[{}] = 0
  /\ \A s \in (SUBSET S) \ {{}} :
       it[s] = f[CHOOSE x \in s : TRUE] + it[s \ {CHOOSE x \in s : TRUE}]

(* The sum is given by such a function. *)
LEMMA SumWellDefined ==
  ASSUME NEW S, IsFiniteSet(S), NEW f, \A i \in S : f[i] \in Nat
  PROVE  \E it : IsSum(it, f, S) /\ SumFunctionOnSet(f, S) = it[S]
<1> DEFINE One(s) == CHOOSE x \in s : TRUE
           op == [p \in S \X Nat |-> f[p[1]] + p[2]]
           ch == [s \in (SUBSET S) \ {{}} |-> One(s)]
           Body(it) == [s \in SUBSET S |->
                         IF s = {} THEN 0 ELSE f[One(s)] + it[s \ {One(s)}]]
<1>1. \A s \in (SUBSET S) \ {{}} : One(s) \in s
  OBVIOUS
<1>2. SumFunctionOnSet(f, S) = (CHOOSE it : it = Body(it))[S]
  BY SumDef
<1> HIDE DEF One
<1>3. op \in [S \X Nat -> Nat]
  OBVIOUS
<1>4. /\ ch \in [(SUBSET S) \ {{}} -> S]
      /\ \A s \in (SUBSET S) \ {{}} : ch[s] \in s
  BY <1>1
<1>5. \A s \in (SUBSET S) \ {{}}, n \in Nat : op[<<ch[s], n>>] = f[One(s)] + n
  BY <1>1
<1>6. \A s \in (SUBSET S) \ {{}} : ch[s] = One(s)
  OBVIOUS
<1> HIDE DEF op, ch
<1>7. PICK it \in [SUBSET S -> Nat] : IsFold(it, S, 0, op, ch)
  BY <1>3, <1>4, FoldExists DEF Chooses
<1>8. \A s \in SUBSET S : it[s] = IF s = {} THEN 0
                                 ELSE f[One(s)] + it[s \ {One(s)}]
  BY <1>5, <1>6, <1>7 DEF IsFold
<1>9. it = Body(it)
  BY <1>8
<1> DEFINE sum == CHOOSE g : g = Body(g)
<1>10. sum = Body(sum)
  BY <1>9
<1> HIDE DEF sum
<1>11. /\ DOMAIN sum = SUBSET S /\ sum[{}] = 0
       /\ \A s \in (SUBSET S) \ {{}} : sum[s] = f[One(s)] + sum[s \ {One(s)}]
  BY <1>10
<1> DEFINE C == {s \in SUBSET S : sum[s] = it[s]}
<1>12. SUBSET S \subseteq C
  <2>1. {} \in C
    BY <1>8, <1>11
  <2>2. \A s \in (SUBSET S) \ {{}} : s \ {One(s)} \in C => s \in C
    BY <1>8, <1>11
  <2>3. \A s \in SUBSET S : s # {} => One(s) \in s
    BY <1>1
  <2> HIDE DEF C
  <2>4. Inductive(S, C)
    BY <2>1, <2>2, <2>3 DEF Inductive
  <2> QED BY <2>4, SubsetInductive
<1>13. sum = it
  BY <1>7, <1>10, <1>12
<1>14. IsSum(it, f, S)
  BY <1>8 DEF IsSum, One
<1> QED BY <1>2, <1>13, <1>14 DEF sum

(* Nothing sums to zero. *)
LEMMA SumOfNone ==
  ASSUME NEW f
  PROVE  SumFunctionOnSet(f, {}) = 0
<1>1. PICK it : IsSum(it, f, {}) /\ SumFunctionOnSet(f, {}) = it[{}]
  BY FS_EmptySet, SumWellDefined
<1> QED BY <1>1 DEF IsSum

(* A sum of natural numbers is one. *)
LEMMA SumIsNat ==
  ASSUME NEW S, IsFiniteSet(S), NEW f, \A i \in S : f[i] \in Nat
  PROVE  SumFunctionOnSet(f, S) \in Nat
<1>1. PICK it : IsSum(it, f, S) /\ SumFunctionOnSet(f, S) = it[S]
  BY SumWellDefined
<1> QED BY <1>1 DEF IsSum

(* The recursion does not depend on the set it started from. *)
LEMMA SumOfSubset ==
  ASSUME NEW S, IsFiniteSet(S), NEW f, \A i \in S : f[i] \in Nat,
         NEW it, IsSum(it, f, S), NEW T \in SUBSET S
  PROVE  SumFunctionOnSet(f, T) = it[T]
<1>1. IsFiniteSet(T)
  BY FS_Subset
<1>2. PICK sub : IsSum(sub, f, T) /\ SumFunctionOnSet(f, T) = sub[T]
  BY <1>1, SumWellDefined
<1> DEFINE C == {s \in SUBSET T : sub[s] = it[s]}
<1>3. Inductive(T, C)
  <2>1. {} \in C
    BY <1>2 DEF IsSum
  <2>2. ASSUME NEW s \in SUBSET T, s # {}, \A x \in s : s \ {x} \in C
        PROVE  s \in C
    <3> DEFINE x == CHOOSE y \in s : TRUE
    <3>1. x \in s
      BY <2>2
    <3>2. sub[s] = f[x] + sub[s \ {x}] /\ it[s] = f[x] + it[s \ {x}]
      BY <1>2, <2>2 DEF IsSum
    <3> HIDE DEF x
    <3> QED BY <2>2, <3>1, <3>2
  <2> HIDE DEF C
  <2> QED BY <2>1, <2>2 DEF Inductive
<1> HIDE DEF C
<1>4. T \in C
  BY <1>1, <1>3, SubsetInductive
<1> QED BY <1>2, <1>4 DEF C

(* One element may be taken out first. *)
LEMMA SumWithout ==
  ASSUME NEW S, IsFiniteSet(S), NEW f, \A i \in S : f[i] \in Nat,
         NEW x \in S
  PROVE  SumFunctionOnSet(f, S) = f[x] + SumFunctionOnSet(f, S \ {x})
<1>1. PICK it : IsSum(it, f, S)
  BY SumWellDefined
<1> DEFINE C == {s \in SUBSET S : \A z \in s : it[s] = f[z] + it[s \ {z}]}
<1>2. ASSUME NEW s \in SUBSET S, \A z \in s : s \ {z} \in C, NEW z \in s
      PROVE  it[s] = f[z] + it[s \ {z}]
  <2> DEFINE y == CHOOSE v \in s : TRUE
             both == (s \ {y}) \ {z}
  <2>1. y \in s /\ it[s] = f[y] + it[s \ {y}]
    BY <1>1 DEF IsSum
  <2> HIDE DEF y
  <2>2. CASE z = y
    BY <2>1, <2>2
  <2>3. CASE z # y
    <3>1. it[s \ {y}] = f[z] + it[both]
      BY <1>2, <2>1, <2>3
    <3>2. it[s \ {z}] = f[y] + it[both]
      <4>1. (s \ {z}) \ {y} = both
        OBVIOUS
      <4> QED BY <1>2, <2>1, <2>3, <4>1
    <3>3. it[both] \in Nat /\ f[y] \in Nat /\ f[z] \in Nat
      BY <1>1, <2>1 DEF IsSum
    <3> HIDE DEF both
    <3> QED BY <2>1, <3>1, <3>2, <3>3
  <2> QED BY <2>2, <2>3
<1>3. \A s \in SUBSET S : (\A z \in s : s \ {z} \in C) => s \in C
  BY <1>2
<1>4. Inductive(S, C)
  <2> HIDE DEF C
  <2> QED BY <1>3 DEF Inductive
<1> HIDE DEF C
<1>5. S \in C
  BY <1>4, SubsetInductive
<1>6. it[S] = f[x] + it[S \ {x}]
  BY <1>5 DEF C
<1> QED BY <1>1, <1>6, SumOfSubset

(* A sum depends on the values summed alone. *)
LEMMA SumEqual ==
  ASSUME NEW S, IsFiniteSet(S), NEW f, NEW g,
         \A i \in S : f[i] \in Nat /\ f[i] = g[i]
  PROVE  SumFunctionOnSet(f, S) = SumFunctionOnSet(g, S)
<1> DEFINE C == {s \in SUBSET S :
                  SumFunctionOnSet(f, s) = SumFunctionOnSet(g, s)}
<1>1. ASSUME NEW s \in SUBSET S, \A x \in s : s \ {x} \in C
      PROVE  s \in C
  <2>1. CASE s = {}
    BY <2>1, SumOfNone
  <2>2. CASE s # {}
    <3>1. PICK x \in s : TRUE
      BY <2>2
    <3>2. IsFiniteSet(s)
      BY FS_Subset
    <3>3. SumFunctionOnSet(f, s) = f[x] + SumFunctionOnSet(f, s \ {x})
      BY <3>2, SumWithout
    <3>4. SumFunctionOnSet(g, s) = g[x] + SumFunctionOnSet(g, s \ {x})
      BY <3>2, SumWithout
    <3>5. SumFunctionOnSet(f, s \ {x}) = SumFunctionOnSet(g, s \ {x})
      BY <1>1
    <3>6. f[x] = g[x]
      OBVIOUS
    <3> QED BY <3>3, <3>4, <3>5, <3>6
  <2> QED BY <2>1, <2>2
<1> HIDE DEF C
<1>2. Inductive(S, C)
  BY <1>1 DEF Inductive
<1>3. S \in C
  BY <1>2, SubsetInductive
<1> QED BY <1>3 DEF C

-----------------------------------------------------------------------------
(* Sums of all the values of a function.                                   *)

(* A function without arguments sums to zero. *)
LEMMA TotalOfNone ==
  ASSUME NEW f, DOMAIN f = {}
  PROVE  SumFunction(f) = 0
BY SumOfNone DEF SumFunction

(* A total of natural numbers is one. *)
LEMMA TotalIsNat ==
  ASSUME NEW S, IsFiniteSet(S), NEW f \in [S -> Nat]
  PROVE  SumFunction(f) \in Nat
BY SumIsNat DEF SumFunction

(* One more value. *)
LEMMA TotalWith ==
  ASSUME NEW S, IsFiniteSet(S), NEW x, x \notin S,
         NEW f \in [S -> Nat], NEW g \in [S \union {x} -> Nat],
         \A i \in S : g[i] = f[i]
  PROVE  SumFunction(g) = g[x] + SumFunction(f)
<1> DEFINE T == S \union {x}
<1>1. IsFiniteSet(T)
  BY FS_AddElement
<1>2. x \in T /\ T \ {x} = S /\ DOMAIN g = T /\ DOMAIN f = S
  OBVIOUS
<1>3. \A i \in T : g[i] \in Nat
  OBVIOUS
<1> HIDE DEF T
<1>4. SumFunctionOnSet(g, T) = g[x] + SumFunctionOnSet(g, S)
  BY <1>1, <1>2, <1>3, SumWithout
<1>5. \A i \in S : f[i] \in Nat /\ f[i] = g[i]
  OBVIOUS
<1>6. SumFunctionOnSet(f, S) = SumFunctionOnSet(g, S)
  BY <1>5, SumEqual
<1> QED BY <1>2, <1>4, <1>6 DEF SumFunction

(* h has, for every key, the total of the values of f that have this key.  *)
ByKey(h, K, f, S, key) ==
  /\ IsFiniteSet(S) /\ f \in [S -> Nat]
  /\ IsFiniteSet(K) /\ key \in [S -> K]
  /\ h \in [K -> Nat]
  /\ \A k \in K : h[k] = SumFunction([i \in {j \in S : key[j] = k} |-> f[i]])

(* Summing by key and then over the keys sums everything once. *)
LEMMA TotalByKey ==
  ASSUME NEW h, NEW K, NEW f, NEW S, NEW key, ByKey(h, K, f, S, key)
  PROVE  SumFunction(h) = SumFunction(f)
<1> SUFFICES ASSUME IsFiniteSet(S), f \in [S -> Nat],
                    IsFiniteSet(K), key \in [S -> K], h \in [K -> Nat],
                    \A k \in K : h[k] =
                      SumFunction([i \in {j \in S : key[j] = k} |-> f[i]])
             PROVE  SumFunction(h) = SumFunction(f)
  BY DEF ByKey
<1> DEFINE Of(s, k) == {j \in s : key[j] = k}
           Sums(s) == [k \in K |-> SumFunctionOnSet(f, Of(s, k))]
           C == {s \in SUBSET S :
                  SumFunctionOnSet(Sums(s), K) = SumFunctionOnSet(f, s)}
<1>0. \A s \in SUBSET S : IsFiniteSet(s)
  BY FS_Subset
<1>1. \A s \in SUBSET S, k \in K : SumFunctionOnSet(f, Of(s, k)) \in Nat
  <2>1. \A s \in SUBSET S, k \in K : /\ Of(s, k) \in SUBSET S
                                    /\ \A i \in Of(s, k) : f[i] \in Nat
    OBVIOUS
  <2> HIDE DEF Of
  <2> QED BY <1>0, <2>1, SumIsNat
<1>2. ASSUME NEW s \in SUBSET S, \A x \in s : s \ {x} \in C
      PROVE  s \in C
  <2>1. CASE s = {}
    <3>1. \A k \in K : Sums(s)[k] = 0
      <4>1. \A k \in K : Of(s, k) = {}
        BY <2>1
      <4> HIDE DEF Of
      <4> QED BY <4>1, SumOfNone
    <3> DEFINE zero == [k \in K |-> 0]
    <3>2. SumFunctionOnSet(zero, K) = 0
      <4> DEFINE D == {t \in SUBSET K : SumFunctionOnSet(zero, t) = 0}
      <4>1. ASSUME NEW t \in SUBSET K, \A x \in t : t \ {x} \in D
            PROVE  t \in D
        <5>1. CASE t = {}
          BY <5>1, SumOfNone
        <5>2. CASE t # {}
          <6>1. PICK x \in t : TRUE
            BY <5>2
          <6>2. IsFiniteSet(t) /\ \A i \in t : zero[i] \in Nat /\ zero[i] = 0
            BY FS_Subset
          <6> HIDE DEF zero
          <6>3. SumFunctionOnSet(zero, t)
                  = zero[x] + SumFunctionOnSet(zero, t \ {x})
            BY <6>2, SumWithout
          <6> QED BY <4>1, <6>2, <6>3
        <5> QED BY <5>1, <5>2
      <4> HIDE DEF D
      <4>2. Inductive(K, D)
        BY <4>1 DEF Inductive
      <4>3. K \in D
        BY <4>2, SubsetInductive
      <4> QED BY <4>3 DEF D
    <3>3. \A k \in K : zero[k] \in Nat /\ zero[k] = Sums(s)[k]
      BY <3>1
    <3> HIDE DEF zero, Sums
    <3>4. SumFunctionOnSet(zero, K) = SumFunctionOnSet(Sums(s), K)
      BY <3>3, SumEqual
    <3> QED BY <2>1, <3>2, <3>4, SumOfNone
  <2>2. CASE s # {}
    <3>1. PICK x \in s : TRUE
      BY <2>2
    <3> DEFINE r == s \ {x}
               kx == key[x]
               before == Sums(r)
               after == Sums(s)
    <3>2. kx \in K /\ r \in SUBSET S /\ f[x] \in Nat
      OBVIOUS
    <3>3. after[kx] = f[x] + before[kx]
      <4>1. x \in Of(s, kx) /\ Of(s, kx) \ {x} = Of(r, kx)
        OBVIOUS
      <4>2. Of(s, kx) \in SUBSET S /\ \A i \in Of(s, kx) : f[i] \in Nat
        OBVIOUS
      <4>3. after[kx] = SumFunctionOnSet(f, Of(s, kx))
        BY <3>2
      <4>4. before[kx] = SumFunctionOnSet(f, Of(r, kx))
        BY <3>2
      <4> HIDE DEF Of, before, after
      <4>5. SumFunctionOnSet(f, Of(s, kx))
              = f[x] + SumFunctionOnSet(f, Of(s, kx) \ {x})
        BY <1>0, <4>1, <4>2, SumWithout
      <4> QED BY <4>1, <4>3, <4>4, <4>5
    <3>4. \A k \in K \ {kx} : after[k] = before[k]
      <4>1. \A k \in K \ {kx} : Of(s, k) = Of(r, k)
        OBVIOUS
      <4> HIDE DEF Of
      <4> QED BY <4>1
    <3>5. \A k \in K : after[k] \in Nat /\ before[k] \in Nat
      <4> HIDE DEF Of
      <4> QED BY <1>1, <3>2
    <3>6. r \in C
      BY <1>2
    <3>7. SumFunctionOnSet(before, K) = SumFunctionOnSet(f, r)
      BY <3>6
    <3> HIDE DEF before, after, C, Of
    <3>8. SumFunctionOnSet(after, K)
            = after[kx] + SumFunctionOnSet(after, K \ {kx})
      BY <3>2, <3>5, SumWithout
    <3>9. SumFunctionOnSet(before, K)
            = before[kx] + SumFunctionOnSet(before, K \ {kx})
      BY <3>2, <3>5, SumWithout
    <3>10. IsFiniteSet(K \ {kx})
      BY FS_RemoveElement
    <3>11. /\ SumFunctionOnSet(after, K \ {kx})
               = SumFunctionOnSet(before, K \ {kx})
           /\ SumFunctionOnSet(before, K \ {kx}) \in Nat
      <4>1. \A k \in K \ {kx} : before[k] \in Nat /\ before[k] = after[k]
        BY <3>4, <3>5
      <4> QED BY <3>10, <4>1, SumEqual, SumIsNat
    <3>12. SumFunctionOnSet(f, s) = f[x] + SumFunctionOnSet(f, r)
      <4>1. \A i \in s : f[i] \in Nat
        OBVIOUS
      <4> QED BY <1>0, <4>1, SumWithout
    <3>13. SumFunctionOnSet(after, K) = SumFunctionOnSet(f, s)
      BY <3>2, <3>3, <3>5, <3>7, <3>8, <3>9, <3>11, <3>12
    <3> QED BY <3>13 DEF C, after
  <2> QED BY <2>1, <2>2
<1>3. Inductive(S, C)
  <2> HIDE DEF C
  <2> QED BY <1>2 DEF Inductive
<1>4. S \in C
  <2> HIDE DEF C
  <2> QED BY <1>3, SubsetInductive
<1>5. SumFunctionOnSet(Sums(S), K) = SumFunctionOnSet(f, S)
  BY <1>4
<1>6. \A k \in K : Sums(S)[k] \in Nat /\ Sums(S)[k] = h[k]
  <2>1. ASSUME NEW k \in K
        PROVE  h[k] = SumFunctionOnSet(f, Of(S, k))
    <3> DEFINE part == [i \in Of(S, k) |-> f[i]]
    <3>1. h[k] = SumFunction(part)
      OBVIOUS
    <3>2. \A i \in Of(S, k) : part[i] \in Nat /\ part[i] = f[i]
      OBVIOUS
    <3>3. DOMAIN part = Of(S, k) /\ Of(S, k) \in SUBSET S
      OBVIOUS
    <3> HIDE DEF part, Of
    <3>4. SumFunctionOnSet(part, Of(S, k)) = SumFunctionOnSet(f, Of(S, k))
      BY <1>0, <3>2, <3>3, SumEqual
    <3> QED BY <3>1, <3>3, <3>4 DEF SumFunction
  <2> HIDE DEF Of
  <2> QED BY <1>1, <2>1
<1> DEFINE sums == Sums(S)
<1> HIDE DEF sums
<1>7. SumFunctionOnSet(sums, K) = SumFunctionOnSet(h, K)
  BY <1>6, SumEqual DEF sums
<1> QED BY <1>5, <1>7 DEF SumFunction, sums

-----------------------------------------------------------------------------
(* The greatest and the least of a set of numbers. *)

(* The greatest of some of the first numbers. *)
LEMMA Greatest ==
  ASSUME NEW n \in Nat, NEW T \in SUBSET (1..n), T # {}
  PROVE  \E m \in T : \A k \in T : k <= m
<1> DEFINE D == {d \in Nat : n - d \in T}
<1>1. PICK m \in D : \A d \in D : m <= d
  <2>1. PICK k \in T : TRUE
    OBVIOUS
  <2>2. n - k \in D
    BY <2>1
  <2> QED BY <2>2, Least
<1>2. ASSUME NEW k \in T PROVE k <= n - m
  <2>1. n - k \in D
    OBVIOUS
  <2> QED BY <1>1, <2>1
<1> QED BY <1>1, <1>2

(* Max finds it. *)
LEMMA MaxOfSome ==
  ASSUME NEW n \in Nat, NEW T \in SUBSET (1..n), T # {}
  PROVE  Max(T) \in T /\ \A k \in T : k <= Max(T)
<1>1. \E m \in T : \A k \in T : m >= k
  <2>1. \A k \in T : k \in Nat
    OBVIOUS
  <2> QED BY <2>1, Greatest
<1>2. Max(T) = CHOOSE m \in T : \A k \in T : m >= k
  BY DEF Max
<1>3. Max(T) \in T /\ \A k \in T : Max(T) >= k
  BY <1>1, <1>2
<1>4. \A k \in T : k \in Nat
  OBVIOUS
<1> QED BY <1>3, <1>4

(* Of the first k numbers it is k, and without it the first k - 1 remain. *)
LEMMA MaxOfFirst ==
  ASSUME NEW n \in Nat, NEW k \in 1..n
  PROVE  Max(1..k) = k /\ (1..k) \ {k} = 1..(k-1)
<1>1. Max(1..k) \in 1..k /\ \A j \in 1..k : j <= Max(1..k)
  <2>1. k \in Nat /\ 1..k \in SUBSET (1..k) /\ 1..k # {}
    OBVIOUS
  <2> QED BY <2>1, MaxOfSome
<1> QED BY <1>1

-----------------------------------------------------------------------------
(* FoldLeft. *)

(* What FoldLeft computes from the elements of a sequence, one by one.     *)
IsFoldLeft(it, n, base, op) ==
  \A s \in SUBSET (1..n) :
    it[s] = IF s = {} THEN base ELSE op[<<Max(s), it[s \ {Max(s)}]>>]

(* Such a function exists. *)
LEMMA FoldLeftExists ==
  ASSUME NEW n \in Nat, NEW V, NEW base \in V,
         NEW op, op \in [(1..n) \X V -> V]
  PROVE  \E it \in [SUBSET (1..n) -> V] : IsFoldLeft(it, n, base, op)
<1> DEFINE S == 1..n
           ch == [s \in (SUBSET S) \ {{}} |-> Max(s)]
<1>1. IsFiniteSet(S)
  BY FS_Interval
<1>2. \A s \in (SUBSET S) \ {{}} : Max(s) \in s
  BY MaxOfSome
<1>3. Chooses(ch, S)
  BY <1>2 DEF Chooses
<1>4. \A s \in (SUBSET S) \ {{}} : ch[s] = Max(s)
  OBVIOUS
<1> HIDE DEF ch, S
<1>5. op \in [S \X V -> V]
  BY DEF S
<1>6. PICK it \in [SUBSET S -> V] : IsFold(it, S, base, op, ch)
  BY <1>1, <1>3, <1>5, FoldExists
<1>7. \A s \in SUBSET S : it[s] = IF s = {} THEN base
                                  ELSE op[<<Max(s), it[s \ {Max(s)}]>>]
  BY <1>4, <1>6 DEF IsFold
<1> QED BY <1>7 DEF S, IsFoldLeft

(* What is known of the function FoldLeft chooses, and the values it goes  *)
(* through.                                                                *)
Loops(loop, n, V, base, op) ==
  /\ n \in Nat /\ base \in V /\ op \in [(1..n) \X V -> V]
  /\ loop[{}] = base
  /\ \A s \in SUBSET (1..n) : s # {} /\ loop[s \ {Max(s)}] \in V =>
       loop[s] = op[<<Max(s), loop[s \ {Max(s)}]>>]

(* pre has the value after every round. *)
Rounds(pre, n, V, base, op, last) ==
  /\ pre \in [0..n -> V]
  /\ pre[0] = base /\ pre[n] = last
  /\ \A k \in 1..n : pre[k] = op[<<k, pre[k - 1]>>]

(* The value after n elements is reached in n rounds from base. *)
LEMMA FoldLeftRounds ==
  ASSUME NEW n, NEW V, NEW base, NEW op, NEW loop,
         Loops(loop, n, V, base, op)
  PROVE  \E pre : Rounds(pre, n, V, base, op, loop[1..n])
<1>0. n \in Nat /\ base \in V /\ op \in [(1..n) \X V -> V]
  BY DEF Loops
<1> DEFINE pre == [k \in 0..n |-> loop[1..k]]
           T == {k \in Nat : k <= n =>
                   /\ pre[k] \in V
                   /\ k > 0 => pre[k] = op[<<k, pre[k - 1]>>]}
<1>1. pre[0] = base
  <2>1. 1..0 = {} /\ 0 \in 0..n
    BY <1>0
  <2> QED BY <2>1 DEF Loops
<1>2. 0 \in T
  <2> HIDE DEF pre
  <2> QED BY <1>0, <1>1
<1>3. ASSUME NEW k \in Nat, k \in T PROVE k + 1 \in T
  <2> SUFFICES ASSUME k + 1 <= n
               PROVE  /\ pre[k + 1] \in V
                      /\ pre[k + 1] = op[<<k + 1, pre[k]>>]
    <3>1. (k + 1) - 1 = k
      OBVIOUS
    <3> HIDE DEF pre
    <3> QED BY <3>1
  <2>1. k + 1 \in 1..n /\ (k + 1) - 1 = k /\ k \in 0..n /\ k + 1 \in 0..n
    BY <1>0
  <2>2. pre[k] \in V
    <3> HIDE DEF pre
    <3> QED BY <1>3, <2>1
  <2> DEFINE s == 1..(k + 1)
  <2>3. Max(s) = k + 1 /\ s \ {Max(s)} = 1..k
    <3>1. Max(1..(k+1)) = k + 1 /\ (1..(k+1)) \ {k + 1} = 1..((k+1)-1)
      BY <2>1, MaxOfFirst
    <3> QED BY <2>1, <3>1
  <2>4. s \in SUBSET (1..n) /\ s # {}
    <3>1. k + 1 \in s /\ \A i \in s : i \in 1..n
      BY <1>0, <2>1
    <3> QED BY <3>1
  <2>5. pre[k] = loop[1..k] /\ pre[k + 1] = loop[s]
    BY <2>1
  <2> HIDE DEF s, pre
  <2>6. pre[k + 1] = op[<<k + 1, pre[k]>>]
    BY <2>2, <2>3, <2>4, <2>5 DEF Loops
  <2> QED BY <1>0, <1>3, <2>1, <2>2, <2>6
<1> HIDE DEF T
<1>4. Nat \subseteq T
  BY <1>2, <1>3, NatInductive
<1>5. \A k \in 0..n : k \in T
  BY <1>4
<1>6. pre \in [0..n -> V]
  <2>1. \A k \in 0..n : k \in Nat /\ k <= n
    OBVIOUS
  <2> HIDE DEF pre
  <2>2. \A k \in 0..n : pre[k] \in V
    BY <1>5, <2>1 DEF T
  <2>3. pre = [k \in 0..n |-> pre[k]]
    BY DEF pre
  <2> QED BY <2>2, <2>3
<1>7. pre[n] = loop[1..n]
  BY <1>0
<1> HIDE DEF pre
<1>8. \A k \in 1..n : pre[k] = op[<<k, pre[k - 1]>>]
  <2>1. \A k \in 1..n : k \in 0..n /\ k <= n /\ k > 0
    BY <1>0
  <2> QED BY <1>5, <2>1 DEF T
<1> QED BY <1>1, <1>6, <1>7, <1>8 DEF Rounds

-----------------------------------------------------------------------------
(* Sequences in an order. *)

(* Every element comes before, by R, all those that follow it. *)
Ascends(R, p) == \A i, j \in DOMAIN p : i < j => <<p[i], p[j]>> \in R

(* Of two such sequences of the same elements the one starts with the      *)
(* other.                                                                  *)
LEMMA AscendingPrefix ==
  ASSUME NEW S, NEW p \in Seq(S), NEW q \in Seq(S), Range(p) = Range(q),
         NEW R, \A a, b \in S : ~(<<a, b>> \in R /\ <<b, a>> \in R),
         Ascends(R, p), Ascends(R, q)
  PROVE  \A k \in 1..Len(p) : k <= Len(q) /\ p[k] = q[k]
<1> DEFINE Bad == {k \in 1..Len(p) : ~(k <= Len(q) /\ p[k] = q[k])}
<1>1. /\ DOMAIN p = 1..Len(p) /\ DOMAIN q = 1..Len(q)
      /\ Len(p) \in Nat /\ Len(q) \in Nat
      /\ \A i \in 1..Len(p) : p[i] \in S /\ \E j \in 1..Len(q) : p[i] = q[j]
      /\ \A i \in 1..Len(q) : q[i] \in S /\ \E j \in 1..Len(p) : q[i] = p[j]
  <2>1. /\ DOMAIN p = 1..Len(p) /\ DOMAIN q = 1..Len(q)
        /\ Len(p) \in Nat /\ Len(q) \in Nat
        /\ \A i \in 1..Len(p) : p[i] \in S
        /\ \A i \in 1..Len(q) : q[i] \in S
    OBVIOUS
  <2> QED BY <2>1 DEF Range
<1> SUFFICES ASSUME Bad # {} PROVE FALSE
  OBVIOUS
<1>2. Bad \in SUBSET Nat
  BY <1>1
<1>3. PICK m \in Bad : \A k \in Bad : m <= k
  BY <1>2, Least
<1>4. m \in 1..Len(p) /\ \A k \in 1..(m-1) : k <= Len(q) /\ p[k] = q[k]
  <2>1. m \in 1..Len(p)
    OBVIOUS
  <2>2. ASSUME NEW k \in 1..(m-1) PROVE k <= Len(q) /\ p[k] = q[k]
    <3>1. k \in 1..Len(p) /\ ~(m <= k)
      BY <1>1, <2>1
    <3>2. k \notin Bad
      BY <1>3, <3>1
    <3> QED BY <3>1, <3>2
  <2> QED BY <2>1, <2>2
<1>5. PICK j \in 1..Len(q) : p[m] = q[j]
  BY <1>1, <1>4
<1>6. j >= m
  <2> SUFFICES ASSUME j < m PROVE FALSE
    BY <1>1, <1>4
  <2>1. p[j] = p[m] /\ j \in 1..Len(p)
    BY <1>1, <1>4, <1>5
  <2> QED BY <1>1, <1>4, <2>1 DEF Ascends
<1>7. m <= Len(q) /\ j # m
  <2>1. m <= Len(q)
    BY <1>1, <1>4, <1>6
  <2>2. ~(m <= Len(q) /\ p[m] = q[m])
    OBVIOUS
  <2> QED BY <1>5, <2>1, <2>2
<1>8. <<q[m], p[m]>> \in R
  <2>1. m \in 1..Len(q) /\ m < j
    BY <1>1, <1>4, <1>6, <1>7
  <2> QED BY <1>1, <1>5, <2>1 DEF Ascends
<1>9. PICK i \in 1..Len(p) : q[m] = p[i]
  <2>1. m \in 1..Len(q)
    BY <1>1, <1>4, <1>7
  <2> QED BY <1>1, <2>1
<1>10. CASE i < m
  <2>1. i <= Len(q) /\ p[i] = q[i]
    BY <1>1, <1>4, <1>9, <1>10
  <2>2. i \in 1..Len(q) /\ m \in 1..Len(q) /\ i < m
    BY <1>1, <1>4, <1>7, <1>9, <1>10, <2>1
  <2>3. <<q[i], q[m]>> \in R
    BY <1>1, <2>2 DEF Ascends
  <2>4. q[i] = q[m]
    BY <1>9, <2>1
  <2> QED BY <1>1, <2>2, <2>3, <2>4
<1>11. CASE i = m
  BY <1>3, <1>7, <1>9, <1>11
<1>12. CASE i > m
  <2>1. <<p[m], p[i]>> \in R
    BY <1>1, <1>4, <1>9, <1>12 DEF Ascends
  <2> QED BY <1>1, <1>4, <1>8, <1>9, <2>1
<1>13. i < m \/ i = m \/ i > m
  BY <1>1, <1>4, <1>9
<1> QED BY <1>10, <1>11, <1>12, <1>13

(* A sequence is determined by its elements and a strict order it is in. *)
LEMMA AscendingUnique ==
  ASSUME NEW S, NEW p \in Seq(S), NEW q \in Seq(S), Range(p) = Range(q),
         NEW R, \A a, b \in S : ~(<<a, b>> \in R /\ <<b, a>> \in R),
         Ascends(R, p), Ascends(R, q)
  PROVE  p = q
<1>1. \A k \in 1..Len(p) : k <= Len(q) /\ p[k] = q[k]
  BY AscendingPrefix
<1>2. \A k \in 1..Len(q) : k <= Len(p) /\ q[k] = p[k]
  BY AscendingPrefix
<1>3. Len(p) \in Nat /\ Len(q) \in Nat
  OBVIOUS
<1>4. Len(p) = Len(q)
  <2>1. Len(p) # 0 => Len(p) \in 1..Len(p)
    BY <1>3
  <2>2. Len(q) # 0 => Len(q) \in 1..Len(q)
    BY <1>3
  <2> QED BY <1>1, <1>2, <1>3, <2>1, <2>2
<1> QED BY <1>1, <1>3, <1>4

(* A sequence that has every element of a set once has nothing else. *)
LEMMA Arranged ==
  ASSUME NEW S, IsFiniteSet(S), NEW f \in [1..Cardinality(S) -> S],
         \A i, j \in 1..Cardinality(S) : i # j => f[i] # f[j]
  PROVE  f \in Seq(S) /\ Len(f) = Cardinality(S) /\ Range(f) = S
<1> DEFINE n == Cardinality(S)
<1>1. n \in Nat
  BY FS_CardinalityType
<1>2. f \in Injection(1..n, S)
  BY DEF Injection, IsInjective
<1>3. IsFiniteSet(1..n) /\ Cardinality(1..n) = n
  <2>1. 1 \in Int /\ n \in Int /\ (1 > n => n = 0)
    BY <1>1
  <2> HIDE DEF n
  <2> QED BY <2>1, FS_Interval
<1>4. f \in Surjection(1..n, S)
  <2> HIDE DEF n
  <2>1. Cardinality(1..n) = Cardinality(S)
    BY <1>3 DEF n
  <2> QED BY <1>2, <2>1, FS_Injection
<1>5. Range(f) = S
  BY <1>4 DEF Surjection, Range
<1>6. f \in Seq(S) /\ Len(f) = n
  <2> HIDE DEF n
  <2>1. f \in [1..n -> S]
    BY DEF n
  <2> QED BY <1>1, <2>1
<1> QED BY <1>5, <1>6

(* Increasing numbers, the case of <. *)
Increases(p) == \A i, j \in DOMAIN p : i < j => p[i] < p[j]

(* Increasing numbers are determined by which they are. *)
LEMMA IncreasingUnique ==
  ASSUME NEW p \in Seq(Nat), NEW q \in Seq(Nat), Range(p) = Range(q),
         Increases(p), Increases(q)
  PROVE  p = q
<1> DEFINE R == {e \in Nat \X Nat : e[1] < e[2]}
<1>1. ASSUME NEW a \in Nat, NEW b \in Nat PROVE <<a, b>> \in R <=> a < b
  <2>1. <<a, b>> \in Nat \X Nat /\ <<a, b>>[1] = a /\ <<a, b>>[2] = b
    OBVIOUS
  <2> QED BY <2>1
<1>2. /\ \A i \in DOMAIN p : p[i] \in Nat
      /\ \A i \in DOMAIN q : q[i] \in Nat
  OBVIOUS
<1> HIDE DEF R
<1>3. Ascends(R, p) /\ Ascends(R, q)
  BY <1>1, <1>2 DEF Ascends, Increases
<1>4. \A a, b \in Nat : ~(<<a, b>> \in R /\ <<b, a>> \in R)
  <2>1. \A a, b \in Nat : <<a, b>> \in R => a < b
    BY <1>1
  <2>2. ASSUME NEW a \in Nat, NEW b \in Nat, <<a, b>> \in R, <<b, a>> \in R
        PROVE  FALSE
    <3>1. a < b /\ b < a
      BY <2>1, <2>2
    <3> QED BY <3>1
  <2> QED BY <2>2
<1> QED BY <1>3, <1>4, AscendingUnique

(* Min finds the least of a set of natural numbers. *)
LEMMA MinOfSome ==
  ASSUME NEW T \in SUBSET Nat, T # {}
  PROVE  Min(T) \in T /\ \A k \in T : Min(T) <= k
<1>1. \E m \in T : \A k \in T : m <= k
  BY Least
<1> QED BY <1>1 DEF Min

(* What Append makes of a sequence. *)
LEMMA AppendGrows ==
  ASSUME NEW S, NEW p \in Seq(S), NEW x \in S
  PROVE  /\ Append(p, x) \in Seq(S) /\ Len(Append(p, x)) = Len(p) + 1
         /\ Len(p) \in Nat /\ DOMAIN p = 1..Len(p)
         /\ DOMAIN Append(p, x) = 1..(Len(p) + 1)
         /\ \A i \in 1..Len(p) : Append(p, x)[i] = p[i]
         /\ Append(p, x)[Len(p) + 1] = x
         /\ Range(Append(p, x)) = Range(p) \union {x}
<1> DEFINE q == Append(p, x)
<1>1. /\ q \in Seq(S) /\ Len(q) = Len(p) + 1
      /\ Len(p) \in Nat /\ DOMAIN p = 1..Len(p) /\ DOMAIN q = 1..(Len(p) + 1)
      /\ \A i \in 1..Len(p) : q[i] = p[i]
      /\ q[Len(p) + 1] = x
  OBVIOUS
<1> HIDE DEF q
<1>2. Range(q) = Range(p) \union {x}
  <2>1. \A y \in Range(q) : y \in Range(p) \union {x}
    <3>1. ASSUME NEW i \in 1..(Len(p) + 1) PROVE q[i] \in Range(p) \union {x}
      <4>1. i \in 1..Len(p) \/ i = Len(p) + 1
        BY <1>1
      <4> QED BY <1>1, <4>1 DEF Range
    <3> QED BY <1>1, <3>1 DEF Range
  <2>2. \A y \in Range(p) : y \in Range(q)
    <3>1. \A i \in 1..Len(p) : i \in DOMAIN q /\ q[i] = p[i]
      BY <1>1
    <3> QED BY <1>1, <3>1 DEF Range
  <2>3. x \in Range(q)
    <3>1. Len(p) + 1 \in DOMAIN q
      BY <1>1
    <3> QED BY <1>1, <3>1 DEF Range
  <2> QED BY <2>1, <2>2, <2>3
<1> QED BY <1>1, <1>2 DEF q

(* Some of the first numbers, closed downwards, are themselves the first.  *)
LEMMA FirstNumbers ==
  ASSUME NEW n \in Nat, NEW T \in SUBSET (1..n),
         \A i, j \in 1..n : i < j /\ j \in T => i \in T
  PROVE  Cardinality(T) \in 0..n /\ T = 1..Cardinality(T)
<1>1. ASSUME NEW m \in 0..n, T = 1..m PROVE Cardinality(T) = m
  <2>1. 1 \in Int /\ m \in Int /\ (1 > m => m = 0)
    BY <1>1
  <2> QED BY <1>1, <2>1, FS_Interval
<1>2. CASE T = {}
  <2>1. T = 1..0
    BY <1>2
  <2> QED BY <1>1, <2>1
<1>3. CASE T # {}
  <2>1. Max(T) \in T /\ \A k \in T : k <= Max(T)
    BY <1>3, MaxOfSome
  <2> DEFINE m == Max(T)
  <2>2. m \in 1..n /\ m \in T /\ \A k \in T : k \in 1..n /\ k <= m
    BY <2>1
  <2> HIDE DEF m
  <2>3. ASSUME NEW i \in 1..m PROVE i \in T
    <3>1. i \in 1..n /\ (i < m \/ i = m)
      BY <2>2
    <3> QED BY <2>2, <3>1
  <2>4. T = 1..m
    <3>1. \A k \in T : k \in 1..m
      BY <2>2
    <3>2. T \subseteq 1..m /\ 1..m \subseteq T
      BY <2>3, <3>1
    <3> QED BY <3>2
  <2>5. m \in 0..n
    BY <2>2
  <2>6. Cardinality(T) = m
    BY <1>1, <2>4, <2>5
  <2> QED BY <2>4, <2>5, <2>6
<1> QED BY <1>2, <1>3
=============================================================================
