-------------------------- MODULE GroupUpdateProofs --------------------------
(***************************************************************************)
(* What the comparison of a downloaded list with the stored profiles       *)
(* computes, for every list, and the updates of a group for any number of  *)
(* runs, lists and overrides.                                              *)
(***************************************************************************)
EXTENDS GroupUpdate, FiniteSetTheorems, WellFoundedInduction, TLAPS

-----------------------------------------------------------------------------
(* Induction over the naturals, stated with a set in the place of the       *)
(* predicate.                                                               *)

LEMMA LeastNumber ==
  ASSUME NEW T \in SUBSET Nat, T # {}
  PROVE  \E m \in T : \A k \in T : m <= k
<1> DEFINE R == OpToRel(<, Nat)
<1>1. IsWellFoundedOn(R, Nat)
  BY NatLessThanWellFounded
<1>2. \A x, y \in Nat : x < y => <<x, y>> \in R
  BY DEF OpToRel
<1> HIDE DEF R
<1>3. PICK x \in T : \A y \in T : ~ (<<y, x>> \in R)
  BY <1>1, WFMin
<1>4. ASSUME NEW k \in T PROVE x <= k
  <2>1. x \in Nat /\ k \in Nat /\ ~ (k < x)
    BY <1>2, <1>3
  <2> QED
    BY <2>1
<1> QED
  BY <1>4

LEMMA UpTo ==
  ASSUME NEW N \in Nat, NEW T, 0 \in T, \A n \in 1..N : n - 1 \in T => n \in T
  PROVE  \A n \in 0..N : n \in T
<1> SUFFICES ASSUME (0..N) \ T # {} PROVE FALSE
  OBVIOUS
<1>0. (0..N) \ T \in SUBSET Nat
  OBVIOUS
<1>1. PICK m \in (0..N) \ T : \A k \in (0..N) \ T : m <= k
  BY <1>0, LeastNumber
<1>2. m \in 1..N /\ m - 1 \in 0..N
  BY <1>1
<1>3. m - 1 \in T
  BY <1>1, <1>2
<1> QED
  BY <1>1, <1>2, <1>3

\* f holds the first n values of the iteration of G from base.
Iterate(f, S, base, G, n) ==
  f \in [0..n -> S] /\ f[0] = base /\ \A m \in 1..n : f[m] = G[f[m - 1]][m]

\* A function that is defined by its predecessor exists.
LEMMA Iterates ==
  ASSUME NEW S, NEW base \in S, NEW N \in Nat, NEW G \in [S -> [1..N -> S]]
  PROVE  \E f : Iterate(f, S, base, G, N)
<1> DEFINE T == {n \in 0..N : \E f : Iterate(f, S, base, G, n)}
<1>1. 0 \in T
  <2>1. Iterate([m \in 0..0 |-> base], S, base, G, 0)
    BY DEF Iterate
  <2> QED
    BY <2>1
<1>2. ASSUME NEW k \in 1..N, k - 1 \in T PROVE k \in T
  <2>0. PICK n \in 0..N : n = k - 1 /\ k = n + 1
    BY <1>2
  <2>1. PICK f : Iterate(f, S, base, G, n)
    BY <1>2, <2>0
  <2> DEFINE v == G[f[n]][n + 1]
             g == [m \in 0..(n + 1) |-> IF m <= n THEN f[m] ELSE v]
  <2>2. f \in [0..n -> S] /\ f[n] \in S /\ v \in S /\ f[0] = base
    BY <2>0, <2>1 DEF Iterate
  <2>3. g \in [0..(n + 1) -> S] /\ g[0] = base
    <3> HIDE DEF v
    <3> QED
      BY <2>0, <2>2
  <2>4. (\A m \in 0..n : g[m] = f[m]) /\ g[n + 1] = v
    BY <2>0
  <2> HIDE DEF g
  <2>5. ASSUME NEW m \in 1..(n + 1) PROVE g[m] = G[g[m - 1]][m]
    <3>1. CASE m \in 1..n
      <4>1. m \in 0..n /\ m - 1 \in 0..n
        BY <3>1
      <4>2. f[m] = G[f[m - 1]][m]
        BY <2>1, <3>1 DEF Iterate
      <4> QED
        BY <2>4, <4>1, <4>2
    <3>2. CASE m = n + 1
      BY <2>0, <2>4, <3>2
    <3> QED
      BY <3>1, <3>2
  <2>6. Iterate(g, S, base, G, n + 1)
    BY <2>3, <2>5 DEF Iterate
  <2> QED
    BY <2>0, <2>6
<1>3. N \in T
  <2> HIDE DEF T
  <2>1. (\A k \in 1..N : k - 1 \in T => k \in T) /\ N \in 0..N
    BY <1>2
  <2> QED
    BY <1>1, <2>1, UpTo
<1> QED
  BY <1>3

-----------------------------------------------------------------------------
(* The renaming loop. *)

LEMMA WithoutType ==
  ASSUME NEW s \in Seq(Nat), NEW k \in Nat
  PROVE  Without(s, k)[Len(s)] \in Seq(Nat)
<1> DEFINE Keep(d, x) == IF x < k THEN d ELSE Append(d, x)
           G == [d \in Seq(Nat) |-> [n \in 1..Len(s) |-> Keep(d, s[n])]]
           W == Without(s, k)
<1>0. Len(s) \in Nat /\ <<>> \in Seq(Nat) /\ \A n \in 1..Len(s) : s[n] \in Nat
  OBVIOUS
<1>1. G \in [Seq(Nat) -> [1..Len(s) -> Seq(Nat)]]
  BY <1>0
<1>2. PICK f : Iterate(f, Seq(Nat), <<>>, G, Len(s))
  <2> HIDE DEF G
  <2> QED
    BY <1>0, <1>1, Iterates
<1>3. f = [n \in 0..Len(s) |-> IF n = 0 THEN <<>> ELSE Keep(f[n - 1], s[n])]
  <2>1. ASSUME NEW n \in 1..Len(s) PROVE f[n] = Keep(f[n - 1], s[n])
    <3>1. f[n - 1] \in Seq(Nat)
      BY <1>2 DEF Iterate
    <3> QED
      BY <1>2, <3>1 DEF Iterate
  <2> HIDE DEF Keep
  <2> QED
    BY <1>2, <2>1 DEF Iterate
<1>4. W = [n \in 0..Len(s) |-> IF n = 0 THEN <<>> ELSE Keep(W[n - 1], s[n])]
  BY <1>3, Zenon DEF Without
<1> DEFINE T == {n \in 0..Len(s) : W[n] \in Seq(Nat)}
<1> HIDE DEF W
<1>5. 0 \in T
  BY <1>0, <1>4
<1>6. ASSUME NEW n \in 1..Len(s), n - 1 \in T PROVE n \in T
  <2>0. n \in 0..Len(s) /\ n # 0 /\ W[n - 1] \in Seq(Nat) /\ s[n] \in Nat
    BY <1>0, <1>6
  <2>1. Keep(W[n - 1], s[n]) \in Seq(Nat)
    BY <2>0
  <2> HIDE DEF Keep
  <2>2. W[n] = Keep(W[n - 1], s[n])
    BY <1>4, <2>0
  <2> QED
    BY <2>0, <2>1, <2>2
<1>7. Len(s) \in T
  <2> HIDE DEF T
  <2>1. (\A n \in 1..Len(s) : n - 1 \in T => n \in T) /\ Len(s) \in 0..Len(s)
    BY <1>0, <1>6
  <2> QED
    BY <1>0, <1>5, <2>1, UpTo
<1> QED
  BY <1>7 DEF W

LEMMA RenamedType ==
  ASSUME NEW name \in Name, NEW k \in Nat
  PROVE  /\ Renamed(name, k) \in Name
         /\ k # 0 => \E s \in Seq(Nat) : Renamed(name, k).suffixes = Append(s, k)
<1>0. name.suffixes \in Seq(Nat)
  BY DEF Name
<1> DEFINE s == Without(name.suffixes, k)[Len(name.suffixes)]
<1>1. s \in Seq(Nat)
  BY <1>0, WithoutType
<1>2. k # 0 => Renamed(name, k) = [name EXCEPT !.suffixes = Append(s, k)]
  BY DEF Renamed
<1>3. k = 0 => Renamed(name, k) = name
  BY DEF Renamed
<1> HIDE DEF s
<1>4. Append(s, k) \in Seq(Nat)
  BY <1>1
<1> QED
  BY <1>1, <1>2, <1>3, <1>4 DEF Name

\* Different turns make different names.
LEMMA RenamedDiffer ==
  ASSUME NEW name \in Name, NEW j \in Nat \ {0}, NEW k \in Nat \ {0},
         Renamed(name, j) = Renamed(name, k)
  PROVE  j = k
<1>1. PICK s \in Seq(Nat) : Renamed(name, j).suffixes = Append(s, j)
  BY RenamedType
<1>2. PICK t \in Seq(Nat) : Renamed(name, k).suffixes = Append(t, k)
  BY RenamedType
<1>3. Append(s, j) = Append(t, k)
  BY <1>1, <1>2
<1>4. Len(Append(s, j)) = Len(s) + 1 /\ Append(s, j)[Len(s) + 1] = j
  OBVIOUS
<1>5. Len(Append(t, k)) = Len(t) + 1 /\ Append(t, k)[Len(t) + 1] = k
  OBVIOUS
<1> QED
  BY <1>3, <1>4, <1>5

\* The loop ends, with a name that is not taken: there are more turns than
\* names.
LEMMA FreshNameIsFree ==
  ASSUME NEW name \in Name, NEW list \in Seq(Profile)
  PROVE  FreshName(name, list) \in Name /\ FreshName(name, list) \notin Names(list)
<1> DEFINE free == {k \in 0..(Len(list) + 1) : Renamed(name, k) \notin Names(list)}
           S == 1..(Len(list) + 1)
           D == 1..Len(list)
<1>0. Len(list) \in Nat /\ DOMAIN list = D
  OBVIOUS
<1>1. IsFiniteSet(S) /\ Cardinality(S) = Len(list) + 1 /\ IsFiniteSet(D) /\ Cardinality(D) = Len(list)
  <2>1. Cardinality(D) = IF 1 > Len(list) THEN 0 ELSE Len(list) - 1 + 1
    BY <1>0, FS_Interval
  <2>2. Cardinality(S) = IF 1 > Len(list) + 1 THEN 0 ELSE Len(list) + 1 - 1 + 1
    BY <1>0, FS_Interval
  <2> QED
    BY <1>0, <2>1, <2>2, FS_Interval
<1>2. free # {}
  <2> SUFFICES ASSUME \A k \in S : Renamed(name, k) \in Names(list) PROVE FALSE
    BY <1>0
  <2> DEFINE f == [k \in S |-> CHOOSE i \in D : list[i].name = Renamed(name, k)]
  <2>1. ASSUME NEW k \in S PROVE f[k] \in D /\ list[f[k]].name = Renamed(name, k)
    <3>1. \E i \in D : list[i].name = Renamed(name, k)
      BY <1>0 DEF Names
    <3> QED
      BY <3>1
  <2>2. f \in [S -> D]
    BY <2>1
  <2> HIDE DEF f
  <2>3. Cardinality(D) < Cardinality(S)
    BY <1>0, <1>1
  <2> HIDE DEF S, D
  <2>4. PICK j \in S, k \in S : j # k /\ f[j] = f[k]
    BY <1>1, <2>2, <2>3, FS_PigeonHole
  <2>5. Renamed(name, j) = Renamed(name, k) /\ j \in Nat \ {0} /\ k \in Nat \ {0}
    BY <1>0, <2>1, <2>4 DEF S
  <2> QED
    BY <2>4, <2>5, RenamedDiffer
<1> DEFINE m == CHOOSE k \in free : \A i \in free : k <= i
<1>3. m \in free
  <2>1. free \in SUBSET Nat
    BY <1>0
  <2> HIDE DEF free
  <2>2. \E k \in free : \A i \in free : k <= i
    BY <1>2, <2>1, LeastNumber
  <2> QED
    BY <2>2
<1>4. FreshName(name, list) = Renamed(name, m)
  BY DEF FreshName
<1> HIDE DEF m
<1>5. m \in Nat
  BY <1>0, <1>3
<1> QED
  BY <1>3, <1>4, <1>5, RenamedType

-----------------------------------------------------------------------------
(* The loops over the downloaded profiles. *)

Distinct(list) == \A i, k \in DOMAIN list : list[i].name = list[k].name => i = k

LEMMA Appended ==
  ASSUME NEW S, NEW d \in Seq(S), NEW x \in S
  PROVE  /\ Append(d, x) \in Seq(S) /\ Len(Append(d, x)) = Len(d) + 1
         /\ DOMAIN d = 1..Len(d) /\ DOMAIN Append(d, x) = 1..(Len(d) + 1) /\ Len(d) \in Nat
         /\ (\A i \in 1..Len(d) : Append(d, x)[i] = d[i]) /\ Append(d, x)[Len(d) + 1] = x
  OBVIOUS

LEMMA AddUniqueType ==
  ASSUME NEW d \in Seq(Profile), NEW p \in Profile
  PROVE  \E q \in Profile : /\ AddUnique(d, p) = Append(d, q)
                            /\ q.body = p.body /\ q.name \notin Names(d)
<1> DEFINE q == [p EXCEPT !.name = FreshName(p.name, d)]
<1>1. p.name \in Name
  BY DEF Profile
<1>2. FreshName(p.name, d) \in Name /\ FreshName(p.name, d) \notin Names(d)
  BY <1>1, FreshNameIsFree
<1>3. q \in Profile /\ q.body = p.body /\ q.name \notin Names(d)
  BY <1>2 DEF Profile
<1>4. AddUnique(d, p) = Append(d, q)
  BY DEF AddUnique
<1> HIDE DEF q
<1> QED
  BY <1>3, <1>4

LEMMA ProxiesMapDef ==
  ASSUME NEW list \in Seq(Profile)
  PROVE  ProxiesMap(list) =
           [n \in 0..Len(list) |-> IF n = 0 THEN <<>> ELSE AddUnique(ProxiesMap(list)[n - 1], list[n])]
<1> DEFINE G == [d \in Seq(Profile) |-> [n \in 1..Len(list) |-> AddUnique(d, list[n])]]
<1>0. Len(list) \in Nat /\ <<>> \in Seq(Profile) /\ \A n \in 1..Len(list) : list[n] \in Profile
  OBVIOUS
<1>1. G \in [Seq(Profile) -> [1..Len(list) -> Seq(Profile)]]
  <2>1. ASSUME NEW d \in Seq(Profile), NEW p \in Profile PROVE AddUnique(d, p) \in Seq(Profile)
    <3>1. PICK q \in Profile : AddUnique(d, p) = Append(d, q)
      BY AddUniqueType
    <3> QED
      BY <3>1, Appended
  <2> QED
    BY <1>0, <2>1
<1>2. PICK f : Iterate(f, Seq(Profile), <<>>, G, Len(list))
  <2> HIDE DEF G
  <2> QED
    BY <1>0, <1>1, Iterates
<1>3. f = [n \in 0..Len(list) |-> IF n = 0 THEN <<>> ELSE AddUnique(f[n - 1], list[n])]
  <2>1. ASSUME NEW n \in 1..Len(list) PROVE f[n] = AddUnique(f[n - 1], list[n])
    <3>1. f[n - 1] \in Seq(Profile)
      BY <1>2 DEF Iterate
    <3> QED
      BY <1>2, <3>1 DEF Iterate
  <2> QED
    BY <1>2, <2>1 DEF Iterate
<1> QED
  BY <1>3, Zenon DEF ProxiesMap

\* What the first n turns of the loop over the downloaded profiles have made.
UniqueUpTo(u, list, n) ==
  /\ u \in Seq(Profile) /\ Len(u) = n /\ Distinct(u)
  /\ \A i \in 1..n : u[i].body = list[i].body

LEMMA UniqueTurn ==
  ASSUME NEW list \in Seq(Profile), NEW n \in 1..Len(list), NEW u,
         UniqueUpTo(u, list, n - 1)
  PROVE  UniqueUpTo(AddUnique(u, list[n]), list, n)
<1>0. /\ list[n] \in Profile /\ u \in Seq(Profile) /\ Len(u) = n - 1 /\ n \in Nat
      /\ Distinct(u) /\ \A i \in 1..(n - 1) : u[i].body = list[i].body
  BY DEF UniqueUpTo
<1>1. PICK q \in Profile : /\ AddUnique(u, list[n]) = Append(u, q)
                           /\ q.body = list[n].body /\ q.name \notin Names(u)
  BY <1>0, AddUniqueType
<1> DEFINE v == Append(u, q)
<1>2. /\ v \in Seq(Profile) /\ Len(v) = n /\ DOMAIN u = 1..(n - 1) /\ DOMAIN v = 1..n
      /\ (\A i \in 1..(n - 1) : v[i] = u[i]) /\ v[n] = q
  BY <1>0, Appended
<1> HIDE DEF v
<1>3. Distinct(v)
  <2> SUFFICES ASSUME NEW i \in 1..n, NEW k \in 1..n, v[i].name = v[k].name PROVE i = k
    BY <1>2 DEF Distinct
  <2>1. \A j \in 1..(n - 1) : v[j].name # q.name
    BY <1>1, <1>2 DEF Names
  <2>2. \A j \in 1..n : j \in 1..(n - 1) \/ j = n
    BY <1>0
  <2> QED
    BY <1>0, <1>2, <2>1, <2>2 DEF Distinct
<1>4. \A i \in 1..n : v[i].body = list[i].body
  <2>1. \A j \in 1..n : j \in 1..(n - 1) \/ j = n
    BY <1>0
  <2> QED
    BY <1>0, <1>1, <1>2, <2>1
<1> QED
  BY <1>1, <1>2, <1>3, <1>4 DEF UniqueUpTo, v

\* The renaming of RawUpdater.doUpdate (129-141), for every downloaded list:
\* every profile is kept, in its place and with its contents, and no two have
\* the same name, although a new name may itself be taken.
THEOREM UniqueNamesCorrect ==
  ASSUME NEW list \in Seq(Profile)
  PROVE  /\ UniqueNames(list) \in Seq(Profile) /\ Len(UniqueNames(list)) = Len(list)
         /\ Distinct(UniqueNames(list))
         /\ \A i \in 1..Len(list) : UniqueNames(list)[i].body = list[i].body
<1> DEFINE M == ProxiesMap(list)
           T == {n \in 0..Len(list) : UniqueUpTo(M[n], list, n)}
<1>0. Len(list) \in Nat
  OBVIOUS
<1>m. M = [n \in 0..Len(list) |-> IF n = 0 THEN <<>> ELSE AddUnique(M[n - 1], list[n])]
  BY ProxiesMapDef
<1> HIDE DEF M
<1>1. 0 \in T
  <2>1. M[0] = <<>>
    BY <1>0, <1>m
  <2>2. UniqueUpTo(<<>>, list, 0)
    BY DEF UniqueUpTo, Distinct
  <2> QED
    BY <1>0, <2>1, <2>2
<1>2. ASSUME NEW n \in 1..Len(list), n - 1 \in T PROVE n \in T
  <2>1. n \in 0..Len(list) /\ n # 0
    BY <1>0
  <2>2. M[n] = AddUnique(M[n - 1], list[n])
    BY <1>m, <2>1
  <2>3. UniqueUpTo(M[n - 1], list, n - 1)
    BY <1>2
  <2> QED
    BY <2>1, <2>2, <2>3, UniqueTurn
<1>3. Len(list) \in T
  <2> HIDE DEF T
  <2>1. (\A n \in 1..Len(list) : n - 1 \in T => n \in T) /\ Len(list) \in 0..Len(list)
    BY <1>0, <1>2
  <2> QED
    BY <1>0, <1>1, <2>1, UpTo
<1>4. UniqueUpTo(UniqueNames(list), list, Len(list))
  BY <1>3 DEF UniqueNames, M
<1> QED
  BY <1>4 DEF UniqueUpTo

LEMMA UniqueProxiesDef ==
  ASSUME NEW list \in Seq(Profile)
  PROVE  UniqueProxies(list) =
           [n \in 0..Len(list) |-> IF n = 0 THEN <<>> ELSE AddDistinct(UniqueProxies(list)[n - 1], list[n])]
<1> DEFINE G == [d \in Seq(Profile) |-> [n \in 1..Len(list) |-> AddDistinct(d, list[n])]]
<1>0. Len(list) \in Nat /\ <<>> \in Seq(Profile) /\ \A n \in 1..Len(list) : list[n] \in Profile
  OBVIOUS
<1>1. G \in [Seq(Profile) -> [1..Len(list) -> Seq(Profile)]]
  <2>1. \A d \in Seq(Profile), p \in Profile : AddDistinct(d, p) \in Seq(Profile)
    BY Appended DEF AddDistinct
  <2> QED
    BY <1>0, <2>1
<1>2. PICK f : Iterate(f, Seq(Profile), <<>>, G, Len(list))
  <2> HIDE DEF G
  <2> QED
    BY <1>0, <1>1, Iterates
<1>3. f = [n \in 0..Len(list) |-> IF n = 0 THEN <<>> ELSE AddDistinct(f[n - 1], list[n])]
  <2>1. ASSUME NEW n \in 1..Len(list) PROVE f[n] = AddDistinct(f[n - 1], list[n])
    <3>1. f[n - 1] \in Seq(Profile)
      BY <1>2 DEF Iterate
    <3> QED
      BY <1>2, <3>1 DEF Iterate
  <2> QED
    BY <1>2, <2>1 DEF Iterate
<1> QED
  BY <1>3, Zenon DEF UniqueProxies

\* What the first n turns of the deduplication have kept.
DistinctUpTo(u, list, n) ==
  /\ u \in Seq(Profile)
  /\ \A i \in DOMAIN u : \E j \in 1..n : u[i] = list[j]
  /\ \A i, k \in DOMAIN u : u[i].body = u[k].body => i = k
  /\ \A j \in 1..n : \E i \in DOMAIN u : u[i].body = list[j].body

LEMMA DistinctTurn ==
  ASSUME NEW list \in Seq(Profile), NEW n \in 1..Len(list), NEW u,
         DistinctUpTo(u, list, n - 1)
  PROVE  DistinctUpTo(AddDistinct(u, list[n]), list, n)
<1> DEFINE p == list[n]
<1>d. /\ \A i \in DOMAIN u : \E j \in 1..(n - 1) : u[i] = list[j]
      /\ \A i, k \in DOMAIN u : u[i].body = u[k].body => i = k
      /\ \A j \in 1..(n - 1) : \E i \in DOMAIN u : u[i].body = list[j].body
  BY DEF DistinctUpTo
<1>0. /\ p \in Profile /\ u \in Seq(Profile) /\ n \in Nat
      /\ \A j \in 1..n : j \in 1..(n - 1) \/ j = n
      /\ \A j \in 1..(n - 1) : j \in 1..n
      /\ n \in 1..n
  BY DEF DistinctUpTo
<1>1. CASE \E i \in DOMAIN u : u[i].body = p.body
  <2>1. AddDistinct(u, p) = u
    BY <1>1 DEF AddDistinct
  <2>2. \A i \in DOMAIN u : \E j \in 1..n : u[i] = list[j]
    BY <1>0, <1>d
  <2>3. ASSUME NEW j \in 1..n PROVE \E i \in DOMAIN u : u[i].body = list[j].body
    BY <1>0, <1>1, <1>d
  <2> QED
    BY <1>0, <1>d, <2>1, <2>2, <2>3 DEF DistinctUpTo
<1>2. CASE ~ \E i \in DOMAIN u : u[i].body = p.body
  <2> DEFINE v == Append(u, p)
  <2>1. AddDistinct(u, p) = v
    BY <1>2 DEF AddDistinct
  <2>2. /\ v \in Seq(Profile) /\ Len(u) \in Nat /\ DOMAIN u = 1..Len(u) /\ DOMAIN v = 1..(Len(u) + 1)
        /\ (\A i \in 1..Len(u) : v[i] = u[i]) /\ v[Len(u) + 1] = p
    BY <1>0, Appended
  <2>3. \A i \in DOMAIN v : i \in DOMAIN u \/ i = Len(u) + 1
    BY <2>2
  <2>4. DOMAIN u \subseteq DOMAIN v /\ Len(u) + 1 \in DOMAIN v /\ (\A i \in DOMAIN u : v[i] = u[i])
    BY <2>2
  <2> HIDE DEF v
  <2>5. \A i \in DOMAIN v : \E j \in 1..n : v[i] = list[j]
    <3>1. ASSUME NEW i \in DOMAIN u PROVE \E j \in 1..n : v[i] = list[j]
      <4>1. PICK j \in 1..(n - 1) : u[i] = list[j]
        BY <1>d
      <4>2. v[i] = list[j] /\ j \in 1..n
        BY <1>0, <2>4, <4>1
      <4> QED
        BY <4>2
    <3>2. v[Len(u) + 1] = list[n]
      BY <2>2
    <3> QED
      BY <1>0, <2>3, <3>1, <3>2
  <2>6. \A i, k \in DOMAIN v : v[i].body = v[k].body => i = k
    <3>1. ASSUME NEW i \in DOMAIN u PROVE v[i].body # p.body
      BY <1>2, <2>4
    <3>2. ASSUME NEW i \in DOMAIN u, NEW k \in DOMAIN u, v[i].body = v[k].body PROVE i = k
      <4>1. v[i] = u[i] /\ v[k] = u[k]
        BY <2>4
      <4> QED
        BY <1>d, <3>2, <4>1
    <3>3. v[Len(u) + 1].body = p.body
      BY <2>2
    <3> HIDE DEF p
    <3> QED
      BY <2>3, <3>1, <3>2, <3>3
  <2>7. \A j \in 1..n : \E i \in DOMAIN v : v[i].body = list[j].body
    <3>1. ASSUME NEW j \in 1..(n - 1) PROVE \E i \in DOMAIN v : v[i].body = list[j].body
      <4>1. PICK i \in DOMAIN u : u[i].body = list[j].body
        BY <1>d
      <4>2. i \in DOMAIN v /\ v[i] = u[i]
        BY <2>4
      <4> QED
        BY <4>1, <4>2
    <3>2. v[Len(u) + 1].body = list[n].body
      BY <2>2
    <3> QED
      BY <1>0, <2>4, <3>1, <3>2
  <2> QED
    BY <2>1, <2>2, <2>5, <2>6, <2>7 DEF DistinctUpTo
<1> QED
  BY <1>1, <1>2

\* The deduplication (149-166), for every list: what is kept are profiles of the
\* list, every contents is kept, and each once; names that differ still do.
THEOREM DeduplicatedCorrect ==
  ASSUME NEW list \in Seq(Profile)
  PROVE  LET u == Deduplicated(list)
         IN  /\ u \in Seq(Profile) /\ (Distinct(list) => Distinct(u))
             /\ \A i \in DOMAIN u : \E j \in DOMAIN list : u[i] = list[j]
             /\ \A i, k \in DOMAIN u : u[i].body = u[k].body => i = k
             /\ \A j \in DOMAIN list : \E i \in DOMAIN u : u[i].body = list[j].body
<1> DEFINE M == UniqueProxies(list)
           T == {n \in 0..Len(list) : DistinctUpTo(M[n], list, n)}
<1>0. Len(list) \in Nat /\ DOMAIN list = 1..Len(list)
  OBVIOUS
<1>m. M = [n \in 0..Len(list) |-> IF n = 0 THEN <<>> ELSE AddDistinct(M[n - 1], list[n])]
  BY UniqueProxiesDef
<1> HIDE DEF M
<1>1. 0 \in T
  <2>1. M[0] = <<>>
    BY <1>0, <1>m
  <2>2. DistinctUpTo(<<>>, list, 0)
    BY DEF DistinctUpTo
  <2> QED
    BY <1>0, <2>1, <2>2
<1>2. ASSUME NEW n \in 1..Len(list), n - 1 \in T PROVE n \in T
  <2>1. n \in 0..Len(list) /\ n # 0
    BY <1>0
  <2>2. M[n] = AddDistinct(M[n - 1], list[n])
    BY <1>m, <2>1
  <2>3. DistinctUpTo(M[n - 1], list, n - 1)
    BY <1>2
  <2> QED
    BY <2>1, <2>2, <2>3, DistinctTurn
<1>3. Len(list) \in T
  <2> HIDE DEF T
  <2>1. (\A n \in 1..Len(list) : n - 1 \in T => n \in T) /\ Len(list) \in 0..Len(list)
    BY <1>0, <1>2
  <2> QED
    BY <1>0, <1>1, <2>1, UpTo
<1>4. DistinctUpTo(Deduplicated(list), list, Len(list))
  BY <1>3 DEF Deduplicated, M
<1> DEFINE u == Deduplicated(list)
<1>5. DistinctUpTo(u, list, Len(list))
  BY <1>4
<1> HIDE DEF u
<1>6. ASSUME Distinct(list) PROVE Distinct(u)
  <2> SUFFICES ASSUME NEW i \in DOMAIN u, NEW k \in DOMAIN u, u[i].name = u[k].name PROVE i = k
    BY DEF Distinct
  <2>1. PICK j \in 1..Len(list) : u[i] = list[j]
    BY <1>5 DEF DistinctUpTo
  <2>2. PICK l \in 1..Len(list) : u[k] = list[l]
    BY <1>5 DEF DistinctUpTo
  <2>3. j = l
    BY <1>0, <1>6, <2>1, <2>2 DEF Distinct
  <2> QED
    BY <1>5, <2>1, <2>2, <2>3 DEF DistinctUpTo
<1>7. /\ u \in Seq(Profile) /\ (Distinct(list) => Distinct(u))
      /\ \A i \in DOMAIN u : \E j \in DOMAIN list : u[i] = list[j]
      /\ \A i, k \in DOMAIN u : u[i].body = u[k].body => i = k
      /\ \A j \in DOMAIN list : \E i \in DOMAIN u : u[i].body = list[j].body
  BY <1>0, <1>5, <1>6 DEF DistinctUpTo
<1> QED
  BY <1>7 DEF u

\* What the lookups find.
Found(list) == [DOMAIN list -> IPs \cup {"none"}]

LEMMA RewrittenType ==
  ASSUME NEW p \in Profile, NEW ip \in IPs PROVE Rewritten(p, ip) \in Profile
<1>1. /\ p.name \in Name /\ p.body \in Body /\ p.body.address \in STRING
      /\ p.body.sni \in STRING /\ p.body.rest \in STRING
  BY DEF Profile, Body
<1>2. ip \in STRING /\ <<>> \in Seq(Nat)
  <2>1. ip \in STRING
    BY AddressAssumption, Zenon
  <2>2. <<>> \in Seq(Nat)
    OBVIOUS
  <2> QED
    BY <2>1, <2>2
<1>3. AddressName(ip) \in Name
  BY <1>2 DEF AddressName, Name
<1>4. PICK sni \in STRING : sni = IF p.body.sni = "" THEN p.body.address ELSE p.body.sni
  BY <1>1
<1>5. PICK name \in Name :
        name = IF p.name = AddressName(p.body.address) THEN AddressName(ip) ELSE p.name
  BY <1>1, <1>3
<1>6. Rewritten(p, ip) = [name |-> name, body |-> [p.body EXCEPT !.address = ip, !.sni = sni]]
  BY <1>4, <1>5 DEF Rewritten
<1>7. [p.body EXCEPT !.address = ip, !.sni = sni] \in Body
  BY <1>1, <1>2 DEF Body
<1> QED
  BY <1>6, <1>7 DEF Profile

\* forceResolve keeps every profile in its place; names that differ still do,
\* unless two of them merge.
LEMMA ResolvedType ==
  ASSUME NEW list \in Seq(Profile), NEW found \in Found(list)
  PROVE  /\ Resolved(list, found) \in Seq(Profile)
         /\ Distinct(list) /\ ~ Merges(list, found) => Distinct(Resolved(list, found))
<1> DEFINE R == Resolved(list, found)
<1>0. DOMAIN list = 1..Len(list) /\ Len(list) \in Nat /\ \A i \in DOMAIN list : list[i] \in Profile
  OBVIOUS
<1>1. R = [i \in DOMAIN list |-> IF found[i] = "none" THEN list[i] ELSE Rewritten(list[i], found[i])]
  BY DEF Resolved
<1>2. \A i \in DOMAIN list :
        (IF found[i] = "none" THEN list[i] ELSE Rewritten(list[i], found[i])) \in Profile
  BY <1>0, RewrittenType DEF Found
<1> HIDE DEF R
<1>3. R \in [1..Len(list) -> Profile] /\ DOMAIN R = DOMAIN list
  BY <1>0, <1>1, <1>2
<1>4. R \in Seq(Profile)
  BY <1>0, <1>3
<1>5. ASSUME Distinct(list), ~ Merges(list, found) PROVE Distinct(R)
  BY <1>3, <1>5 DEF Distinct, Merges, R
<1> QED
  BY <1>4, <1>5 DEF R

\* Whatever is downloaded and found, the names of the list that is compared
\* differ, unless two of them have merged.
LEMMA PreparedDistinct ==
  ASSUME NEW raw \in Seq(Profile), NEW found \in Found(raw), NEW deduplication \in BOOLEAN
  PROVE  /\ Prepared(raw, found, deduplication) \in Seq(Profile)
         /\ ~ Merges(UniqueNames(raw), found) => Distinct(Prepared(raw, found, deduplication))
<1>1. /\ UniqueNames(raw) \in Seq(Profile) /\ Distinct(UniqueNames(raw))
      /\ Len(UniqueNames(raw)) = Len(raw)
  BY UniqueNamesCorrect
<1>2. PICK list \in Seq(Profile) : list = UniqueNames(raw) /\ DOMAIN list = DOMAIN raw
  BY <1>1
<1>3. found \in Found(list)
  BY <1>2 DEF Found
<1>4. PICK resolved \in Seq(Profile) :
        /\ resolved = Resolved(list, found)
        /\ ~ Merges(list, found) => Distinct(resolved)
  BY <1>1, <1>2, <1>3, ResolvedType
<1>5. Prepared(raw, found, deduplication) = IF deduplication THEN Deduplicated(resolved) ELSE resolved
  BY <1>2, <1>4 DEF Prepared
<1>6. /\ Deduplicated(resolved) \in Seq(Profile)
      /\ Distinct(resolved) => Distinct(Deduplicated(resolved))
  BY DeduplicatedCorrect
<1> QED
  BY <1>2, <1>4, <1>5, <1>6

LEMMA NotFoundMerges ==
  ASSUME NEW raw \in Seq(Profile)
  PROVE  NotFound(raw) \in Found(raw) /\ ~ Merges(UniqueNames(raw), NotFound(raw))
<1>1. UniqueNames(raw) \in Seq(Profile) /\ Len(UniqueNames(raw)) = Len(raw)
  BY UniqueNamesCorrect
<1>2. PICK list \in Seq(Profile) : list = UniqueNames(raw) /\ DOMAIN list = DOMAIN raw
  BY <1>1
<1>3. NotFound(raw) \in Found(raw) /\ \A i \in DOMAIN raw : NotFound(raw)[i] = "none"
  BY DEF NotFound, Found
<1>4. \A i \in DOMAIN list : Resolved(list, NotFound(raw))[i] = list[i]
  BY <1>2, <1>3 DEF Resolved
<1>5. ~ Merges(list, NotFound(raw))
  BY <1>4 DEF Merges
<1> QED
  BY <1>2, <1>3, <1>5

LEMMA AddNamedType ==
  ASSUME NEW d \in Seq(Profile), NEW p \in Profile
  PROVE  /\ AddNamed(d, p) \in Seq(Profile)
         /\ p.name \in Names(d) =>
              /\ DOMAIN AddNamed(d, p) = DOMAIN d
              /\ \A i \in DOMAIN d : AddNamed(d, p)[i] = IF d[i].name = p.name THEN p ELSE d[i]
         /\ p.name \notin Names(d) => AddNamed(d, p) = Append(d, p)
<1>0. DOMAIN d = 1..Len(d) /\ Len(d) \in Nat /\ \A i \in DOMAIN d : d[i] \in Profile
  OBVIOUS
<1>1. CASE p.name \in Names(d)
  <2>1. AddNamed(d, p) = [i \in DOMAIN d |-> IF d[i].name = p.name THEN p ELSE d[i]]
    BY <1>1 DEF AddNamed
  <2>2. AddNamed(d, p) \in [1..Len(d) -> Profile]
    BY <1>0, <2>1
  <2>3. AddNamed(d, p) \in Seq(Profile)
    BY <1>0, <2>2
  <2> QED
    BY <1>1, <2>1, <2>3
<1>2. CASE p.name \notin Names(d)
  BY <1>2, Appended DEF AddNamed
<1> QED
  BY <1>1, <1>2

LEMMA NamedProxiesDef ==
  ASSUME NEW list \in Seq(Profile)
  PROVE  NamedProxies(list) =
           [n \in 0..Len(list) |-> IF n = 0 THEN <<>> ELSE AddNamed(NamedProxies(list)[n - 1], list[n])]
<1> DEFINE G == [d \in Seq(Profile) |-> [n \in 1..Len(list) |-> AddNamed(d, list[n])]]
<1>0. Len(list) \in Nat /\ <<>> \in Seq(Profile) /\ \A n \in 1..Len(list) : list[n] \in Profile
  OBVIOUS
<1>1. G \in [Seq(Profile) -> [1..Len(list) -> Seq(Profile)]]
  BY <1>0, AddNamedType
<1>2. PICK f : Iterate(f, Seq(Profile), <<>>, G, Len(list))
  <2> HIDE DEF G
  <2> QED
    BY <1>0, <1>1, Iterates
<1>3. f = [n \in 0..Len(list) |-> IF n = 0 THEN <<>> ELSE AddNamed(f[n - 1], list[n])]
  <2>1. ASSUME NEW n \in 1..Len(list) PROVE f[n] = AddNamed(f[n - 1], list[n])
    <3>1. f[n - 1] \in Seq(Profile)
      BY <1>2 DEF Iterate
    <3> QED
      BY <1>2, <3>1 DEF Iterate
  <2> QED
    BY <1>2, <2>1 DEF Iterate
<1> QED
  BY <1>3, Zenon DEF NamedProxies

\* What the first n profiles have made of the name map.
NamedUpTo(m, list, n) ==
  /\ m \in Seq(Profile) /\ Distinct(m)
  /\ \A i \in DOMAIN m : \E j \in 1..n : m[i] = list[j]
  /\ \A j \in 1..n : \E i \in DOMAIN m : m[i].name = list[j].name
  /\ Distinct(list) => Len(m) = n /\ \A i \in 1..n : m[i] = list[i]

LEMMA NamedTurn ==
  ASSUME NEW list \in Seq(Profile), NEW n \in 1..Len(list), NEW m, NamedUpTo(m, list, n - 1)
  PROVE  NamedUpTo(AddNamed(m, list[n]), list, n)
<1> DEFINE p == list[n]
<1>0. /\ p \in Profile /\ m \in Seq(Profile) /\ n \in Nat /\ n \in 1..n /\ n \in DOMAIN list
      /\ \A j \in 1..n : j \in 1..(n - 1) \/ j = n
      /\ \A j \in 1..(n - 1) : j \in 1..n /\ j # n /\ j \in DOMAIN list
  BY DEF NamedUpTo
<1>d. /\ Distinct(m) /\ DOMAIN m = 1..Len(m) /\ Len(m) \in Nat
      /\ \A i \in DOMAIN m : \E j \in 1..(n - 1) : m[i] = list[j]
      /\ \A j \in 1..(n - 1) : \E i \in DOMAIN m : m[i].name = list[j].name
      /\ Distinct(list) => Len(m) = n - 1 /\ \A i \in 1..(n - 1) : m[i] = list[i]
  BY DEF NamedUpTo
<1>1. PICK v : v = AddNamed(m, p)
  OBVIOUS
<1>2. CASE p.name \in Names(m)
  <2>1. /\ v \in Seq(Profile) /\ DOMAIN v = DOMAIN m
        /\ \A i \in DOMAIN m : v[i] = IF m[i].name = p.name THEN p ELSE m[i]
    BY <1>0, <1>1, <1>2, AddNamedType
  <2>2. \A i \in DOMAIN m : v[i].name = m[i].name
    BY <2>1
  <2>3. Distinct(v)
    BY <1>d, <2>1, <2>2 DEF Distinct
  <2>4. PICK k \in DOMAIN m : m[k].name = p.name
    BY <1>2 DEF Names
  <2>5. ~ Distinct(list)
    <3>1. PICK j \in 1..(n - 1) : m[k] = list[j]
      BY <1>d
    <3> QED
      BY <1>0, <2>4, <3>1 DEF Distinct
  <2>6. ASSUME NEW i \in DOMAIN v PROVE \E j \in 1..n : v[i] = list[j]
    BY <1>0, <1>d, <2>1
  <2>7. ASSUME NEW j \in 1..n PROVE \E i \in DOMAIN v : v[i].name = list[j].name
    BY <1>0, <1>d, <2>1, <2>2, <2>4
  <2> QED
    BY <1>1, <2>1, <2>3, <2>5, <2>6, <2>7 DEF NamedUpTo
<1>3. CASE p.name \notin Names(m)
  <2>1. v = Append(m, p)
    BY <1>0, <1>1, <1>3, AddNamedType
  <2>2. /\ v \in Seq(Profile) /\ Len(v) = Len(m) + 1 /\ DOMAIN v = 1..(Len(m) + 1)
        /\ (\A i \in 1..Len(m) : v[i] = m[i]) /\ v[Len(m) + 1] = p
    BY <1>0, <2>1, Appended
  <2>3. /\ \A i \in DOMAIN v : i \in DOMAIN m \/ i = Len(m) + 1
        /\ DOMAIN m \subseteq DOMAIN v /\ Len(m) + 1 \in DOMAIN v
        /\ \A i \in DOMAIN m : v[i] = m[i] /\ m[i].name # p.name
    <3>1. \A i \in DOMAIN m : m[i].name # p.name
      BY <1>3 DEF Names
    <3>2. Len(m) \in Nat /\ DOMAIN m = 1..Len(m)
      BY <1>d
    <3> HIDE DEF p
    <3> QED
      BY <2>2, <3>1, <3>2
  <2>4. Distinct(v)
    <3> SUFFICES ASSUME NEW i \in DOMAIN v, NEW k \in DOMAIN v, v[i].name = v[k].name PROVE i = k
      BY DEF Distinct
    <3>1. CASE i \in DOMAIN m /\ k \in DOMAIN m
      BY <1>d, <2>3, <3>1 DEF Distinct
    <3>2. i \in DOMAIN m <=> k \in DOMAIN m
      BY <2>2, <2>3
    <3> QED
      BY <2>3, <3>1, <3>2
  <2>5. ASSUME NEW i \in DOMAIN v PROVE \E j \in 1..n : v[i] = list[j]
    <3>1. CASE i \in DOMAIN m
      <4>1. PICK j \in 1..(n - 1) : m[i] = list[j]
        BY <1>d, <3>1
      <4> QED
        BY <1>0, <2>3, <3>1, <4>1
    <3>2. CASE i = Len(m) + 1
      BY <1>0, <2>2, <3>2
    <3> QED
      BY <2>3, <3>1, <3>2
  <2>6. ASSUME NEW j \in 1..n PROVE \E i \in DOMAIN v : v[i].name = list[j].name
    <3>1. CASE j = n
      BY <2>2, <2>3, <3>1
    <3>2. CASE j \in 1..(n - 1)
      <4>1. PICK i \in DOMAIN m : m[i].name = list[j].name
        BY <1>d, <3>2
      <4> QED
        BY <2>3, <4>1
    <3> QED
      BY <1>0, <3>1, <3>2
  <2>7. ASSUME Distinct(list) PROVE Len(v) = n /\ \A i \in 1..n : v[i] = list[i]
    BY <1>0, <1>d, <2>2, <2>7
  <2> QED
    BY <1>1, <2>2, <2>4, <2>5, <2>6, <2>7 DEF NamedUpTo
<1> QED
  BY <1>2, <1>3

\* The map that doUpdate compares by (173-175), for every list: each name once,
\* with one of its profiles, and the list itself if its names differ.
THEOREM NameMapCorrect ==
  ASSUME NEW list \in Seq(Profile)
  PROVE  /\ NameMap(list) \in Seq(Profile) /\ Distinct(NameMap(list))
         /\ Names(NameMap(list)) = Names(list)
         /\ ToSet(NameMap(list)) \subseteq ToSet(list)
         /\ Distinct(list) => NameMap(list) = list
<1> DEFINE M == NamedProxies(list)
           T == {n \in 0..Len(list) : NamedUpTo(M[n], list, n)}
<1>0. Len(list) \in Nat /\ DOMAIN list = 1..Len(list)
  OBVIOUS
<1>m. M = [n \in 0..Len(list) |-> IF n = 0 THEN <<>> ELSE AddNamed(M[n - 1], list[n])]
  BY NamedProxiesDef
<1> HIDE DEF M
<1>1. 0 \in T
  <2>1. M[0] = <<>>
    BY <1>0, <1>m
  <2>2. NamedUpTo(<<>>, list, 0)
    BY DEF NamedUpTo, Distinct
  <2> QED
    BY <1>0, <2>1, <2>2
<1>2. ASSUME NEW n \in 1..Len(list), n - 1 \in T PROVE n \in T
  <2>1. n \in 0..Len(list) /\ n # 0
    BY <1>0
  <2>2. M[n] = AddNamed(M[n - 1], list[n])
    BY <1>m, <2>1
  <2>3. NamedUpTo(M[n - 1], list, n - 1)
    BY <1>2
  <2> QED
    BY <2>1, <2>2, <2>3, NamedTurn
<1>3. Len(list) \in T
  <2> HIDE DEF T
  <2>1. (\A n \in 1..Len(list) : n - 1 \in T => n \in T) /\ Len(list) \in 0..Len(list)
    BY <1>0, <1>2
  <2> QED
    BY <1>0, <1>1, <2>1, UpTo
<1>4. PICK m : m = NameMap(list) /\ NamedUpTo(m, list, Len(list))
  BY <1>3 DEF NameMap, M
<1>5. /\ m \in Seq(Profile) /\ Distinct(m)
      /\ \A i \in DOMAIN m : \E j \in DOMAIN list : m[i] = list[j]
      /\ \A j \in DOMAIN list : \E i \in DOMAIN m : m[i].name = list[j].name
      /\ Distinct(list) => Len(m) = Len(list) /\ \A i \in 1..Len(list) : m[i] = list[i]
  BY <1>0, <1>4 DEF NamedUpTo
<1>6. Names(m) = Names(list)
  <2>1. \A x \in Names(m) : x \in Names(list)
    BY <1>5 DEF Names
  <2>2. \A x \in Names(list) : x \in Names(m)
    BY <1>5 DEF Names
  <2> QED
    BY <2>1, <2>2
<1>7. ToSet(m) \subseteq ToSet(list)
  BY <1>5 DEF ToSet
<1>8. Distinct(list) => m = list
  BY <1>0, <1>5
<1> QED
  BY <1>4, <1>5, <1>6, <1>7, <1>8

-----------------------------------------------------------------------------
(* The comparison and the transaction. *)

Row == [id : Nat, name : Name, body : Body, custom : {"none", "mine"}, order : Nat]

OneId(rows) == \A e, f \in rows : e.id = f.id => e = f
OneName(rows) == \A e, f \in rows : e.name = f.name => e = f

Table(rows, last) == rows \subseteq Row /\ OneId(rows) /\ \A e \in rows : e.id <= last

\* The rows are the profiles of the list, each once.
Stores(rows, list) ==
  /\ OneName(rows)
  /\ \A e \in rows : \E i \in DOMAIN list : e.name = list[i].name /\ e.body = list[i].body
  /\ \A i \in DOMAIN list : \E e \in rows : e.name = list[i].name /\ e.body = list[i].body

\* The rows an update has read, and those it finds in the transaction: they may
\* differ in their overrides.
Same(e, f) == e.id = f.id /\ e.name = f.name /\ e.body = f.body /\ e.order = f.order
SameRows(old, rows) ==
  /\ old \subseteq Row /\ OneId(old)
  /\ \A e \in old : \E f \in rows : Same(e, f)
  /\ \A f \in rows : \E e \in old : Same(e, f)

\* The new rows get ids of their own, after the last one.
LEMMA NewIds ==
  ASSUME NEW A, IsFiniteSet(A), \A p \in A : p.order \in Nat,
         \A p, q \in A : p.order = q.order => p = q,
         NEW p \in A, NEW q \in A
  PROVE  LET Below(x) == {y \in A : y.order <= x.order}
         IN  /\ Cardinality(Below(p)) \in Nat \ {0} /\ Cardinality(Below(p)) <= Cardinality(A)
             /\ Cardinality(Below(p)) = Cardinality(Below(q)) => p = q
<1> DEFINE Below(x) == {y \in A : y.order <= x.order}
<1>1. ASSUME NEW x \in A
      PROVE  /\ IsFiniteSet(Below(x)) /\ Cardinality(Below(x)) \in Nat \ {0}
             /\ Cardinality(Below(x)) <= Cardinality(A) /\ x \in Below(x)
  <2>1. Below(x) \in SUBSET A /\ x \in Below(x)
    OBVIOUS
  <2> HIDE DEF Below
  <2>2. IsFiniteSet(Below(x)) /\ Cardinality(Below(x)) <= Cardinality(A)
    BY <2>1, FS_Subset
  <2>3. Cardinality(Below(x)) # 0
    BY <2>1, <2>2, FS_EmptySet
  <2> QED
    BY <2>1, <2>2, <2>3, FS_CardinalityType
<1>2. ASSUME NEW x \in A, NEW y \in A, x.order < y.order
      PROVE  Cardinality(Below(x)) # Cardinality(Below(y))
  <2>1. Below(x) \in SUBSET Below(y)
    BY <1>2
  <2>2. y \in Below(y) /\ y \notin Below(x)
    BY <1>2
  <2> HIDE DEF Below
  <2>3. IsFiniteSet(Below(y))
    BY <1>1
  <2> QED
    BY <2>1, <2>2, <2>3, FS_Subset
<1>3. Cardinality(Below(p)) = Cardinality(Below(q)) => p = q
  <2> HIDE DEF Below
  <2>1. p.order < q.order \/ q.order < p.order \/ p = q
    OBVIOUS
  <2> QED
    BY <1>2, <2>1
<1> QED
  BY <1>1, <1>3

\* What doUpdate decides on the rows it has read.
LEMMA PlanFacts ==
  ASSUME NEW list \in Seq(Profile), Distinct(list), NEW old, old \subseteq Row,
         OneId(old), OneName(old)
  PROVE  LET p == Plan(old, list)
         IN  /\ \A u \in p.update : \E e \in old, i \in DOMAIN list :
                  /\ e.name = list[i].name /\ u = Updated(e, list[i], i)
             /\ \A e \in old, i \in DOMAIN list : e.name = list[i].name =>
                  Updated(e, list[i], i) \in p.update \/ e.body = list[i].body
             /\ \A e : e \in p.delete <=> e \in old /\ \A i \in DOMAIN list : list[i].name # e.name
             /\ \A q : q \in p.add <=>
                  \E i \in DOMAIN list : /\ q = [name |-> list[i].name, body |-> list[i].body, order |-> i]
                                         /\ \A e \in old : e.name # list[i].name
<1> DEFINE p == Plan(old, list)
<1>0. DOMAIN list = 1..Len(list) /\ (\A i \in DOMAIN list : list[i] \in Profile /\ i \in Nat)
  OBVIOUS
<1>1. ASSUME NEW i \in DOMAIN list
      PROVE  ToReplace(old, list[i]) = {e \in old : e.name = list[i].name}
  <2>1. \A e, f \in old : e.name = list[i].name /\ f.name = list[i].name => f.order <= e.order
    <3> SUFFICES ASSUME NEW e \in old, NEW f \in old, e.name = f.name PROVE f.order <= e.order
      OBVIOUS
    <3>1. e = f /\ e.order \in Nat
      BY DEF OneName, Row
    <3> QED
      BY <3>1
  <2> QED
    BY <2>1 DEF ToReplace
<1>2. p.update = (UNION {{Updated(e, list[i], i) : e \in ToReplace(old, list[i])} : i \in DOMAIN list}) \ old
  BY DEF Plan
<1>3. p.delete = {e \in old : e.name \notin Names(list)}
  BY DEF Plan, ToDelete
<1>4. p.add = {[name |-> list[i].name, body |-> list[i].body, order |-> i] :
                 i \in {i \in DOMAIN list : ToReplace(old, list[i]) = {}}}
  BY DEF Plan
<1> HIDE DEF p
<1>5. ASSUME NEW u \in p.update
      PROVE  \E e \in old, i \in DOMAIN list : e.name = list[i].name /\ u = Updated(e, list[i], i)
  <2>1. PICK i \in DOMAIN list : u \in {Updated(e, list[i], i) : e \in ToReplace(old, list[i])}
    BY <1>2
  <2> QED
    BY <1>1, <2>1
<1>6. ASSUME NEW e \in old, NEW i \in DOMAIN list, e.name = list[i].name
      PROVE  Updated(e, list[i], i) \in p.update \/ e.body = list[i].body
  <2>1. e \in ToReplace(old, list[i])
    BY <1>1, <1>6
  <2>2. Updated(e, list[i], i) \in p.update \/ Updated(e, list[i], i) \in old
    BY <1>2, <2>1
  <2>3. CASE Updated(e, list[i], i) \in old
    <3>1. Updated(e, list[i], i).id = e.id /\ Updated(e, list[i], i).body = list[i].body
      BY DEF Updated, Row
    <3>2. Updated(e, list[i], i) = e
      BY <2>3, <3>1 DEF OneId
    <3> QED
      BY <3>1, <3>2
  <2> QED
    BY <2>2, <2>3
<1>7. \A e : e \in p.delete <=> e \in old /\ \A i \in DOMAIN list : list[i].name # e.name
  BY <1>3 DEF Names
<1>8. \A q : q \in p.add <=>
        \E i \in DOMAIN list : /\ q = [name |-> list[i].name, body |-> list[i].body, order |-> i]
                               /\ \A e \in old : e.name # list[i].name
  <2>1. \A i \in DOMAIN list : ToReplace(old, list[i]) = {} <=> \A e \in old : e.name # list[i].name
    BY <1>1
  <2> QED
    BY <1>4, <2>1
<1> QED
  BY <1>5, <1>6, <1>7, <1>8 DEF p

LEMMA UpdatedRow ==
  ASSUME NEW e \in Row, NEW p \in Profile, NEW i \in Nat
  PROVE  LET u == Updated(e, p, i)
         IN  /\ u \in Row /\ u.id = e.id /\ u.name = e.name /\ u.body = p.body
             /\ u.custom = e.custom
<1> DEFINE o == IF e.body # p.body THEN e.order ELSE i
<1>1. Updated(e, p, i) = [e EXCEPT !.body = p.body, !.order = o]
  BY DEF Updated
<1>2. o \in Nat /\ p.body \in Body
  BY DEF Row, Profile
<1> HIDE DEF o
<1> QED
  BY <1>1, <1>2 DEF Row

\* There are no more new rows than profiles in the list.
LEMMA AddFinite ==
  ASSUME NEW list \in Seq(Profile), NEW A,
         \A q \in A : \E i \in DOMAIN list : q = [name |-> list[i].name, body |-> list[i].body, order |-> i]
  PROVE  /\ IsFiniteSet(A) /\ Cardinality(A) \in Nat /\ Cardinality(A) <= Len(list)
         /\ \A p \in A : p.order \in Nat
         /\ \A p, q \in A : p.order = q.order => p = q
<1>0. DOMAIN list = 1..Len(list) /\ Len(list) \in Nat
  OBVIOUS
<1>1. \A q \in A : q.order \in 1..Len(list) /\ q = [name |-> list[q.order].name, body |-> list[q.order].body, order |-> q.order]
  BY <1>0
<1> DEFINE f == [q \in A |-> q.order]
<1>2. f \in Injection(A, 1..Len(list))
  <2>1. f \in [A -> 1..Len(list)]
    BY <1>1
  <2>2. ASSUME NEW a \in A, NEW b \in A, f[a] = f[b] PROVE a = b
    BY <1>1, <2>2
  <2> QED
    BY <2>1, <2>2 DEF Injection, IsInjective
<1>3. IsFiniteSet(1..Len(list)) /\ Cardinality(1..Len(list)) = Len(list)
  <2>1. Cardinality(1..Len(list)) = IF 1 > Len(list) THEN 0 ELSE Len(list) - 1 + 1
    BY <1>0, FS_Interval
  <2> QED
    BY <1>0, <2>1, FS_Interval
<1> HIDE DEF f
<1>4. IsFiniteSet(A) /\ Cardinality(A) <= Len(list)
  BY <1>2, <1>3, FS_Injection
<1> QED
  BY <1>1, <1>4, FS_CardinalityType

\* The transaction stores the list that was compared, whether or not overrides
\* have been saved since the rows were read, and keeps what it has read.
LEMMA CommitStores ==
  ASSUME NEW list \in Seq(Profile), Distinct(list), NEW last \in Nat,
         NEW rows, Table(rows, last), OneName(rows), NEW old, SameRows(old, rows)
  PROVE  LET p == Plan(old, list)
             new == Commit(rows, p, last)
         IN  /\ Cardinality(p.add) \in Nat /\ Cardinality(p.add) <= Len(list)
             /\ Table(new, last + Cardinality(p.add)) /\ Stores(new, list)
             /\ old = rows =>
                  \A e \in rows, i \in DOMAIN list : e.name = list[i].name =>
                    \E f \in new : f.id = e.id /\ f.name = e.name /\ f.custom = e.custom
<1> DEFINE p == Plan(old, list)
           new == Commit(rows, p, last)
           Id(q) == last + Cardinality({y \in p.add : y.order <= q.order})
           Added(q) == [id |-> Id(q), name |-> q.name, body |-> q.body, custom |-> "none", order |-> q.order]
<1>0. /\ DOMAIN list = 1..Len(list) /\ Len(list) \in Nat
      /\ \A i \in DOMAIN list : i \in Nat /\ list[i] \in Profile /\ list[i].name \in Name /\ list[i].body \in Body
  <2>1. /\ DOMAIN list = 1..Len(list) /\ Len(list) \in Nat
        /\ \A i \in DOMAIN list : i \in Nat /\ list[i] \in Profile
    OBVIOUS
  <2>2. \A q \in Profile : q.name \in Name /\ q.body \in Body
    BY DEF Profile
  <2> QED
    BY <2>1, <2>2
<1>s. /\ old \subseteq Row /\ OneId(old) /\ rows \subseteq Row /\ OneId(rows)
      /\ \A e \in old : \E f \in rows : Same(e, f)
      /\ \A f \in rows : \E e \in old : Same(e, f)
      /\ \A e \in rows : e.id \in Nat /\ e.id <= last
  BY DEF SameRows, Table, Row
<1>n. OneName(old)
  <2> SUFFICES ASSUME NEW e \in old, NEW f \in old, e.name = f.name PROVE e = f
    BY DEF OneName
  <2>1. PICK x \in rows : Same(e, x)
    BY <1>s
  <2>2. PICK y \in rows : Same(f, y)
    BY <1>s
  <2>3. x = y
    BY <2>1, <2>2 DEF Same, OneName
  <2> QED
    BY <1>s, <2>1, <2>2, <2>3 DEF Same, OneId
<1>p. /\ \A u \in p.update : \E e \in old, i \in DOMAIN list :
           e.name = list[i].name /\ u = Updated(e, list[i], i)
      /\ \A e \in old, i \in DOMAIN list : e.name = list[i].name =>
           Updated(e, list[i], i) \in p.update \/ e.body = list[i].body
      /\ \A e : e \in p.delete <=> e \in old /\ \A i \in DOMAIN list : list[i].name # e.name
      /\ \A q : q \in p.add <=>
           \E i \in DOMAIN list : /\ q = [name |-> list[i].name, body |-> list[i].body, order |-> i]
                                  /\ \A e \in old : e.name # list[i].name
  BY <1>s, <1>n, PlanFacts
<1>c. \A g : g \in new <=>
        \/ g \in rows /\ (\A u \in p.update : u.id # g.id) /\ (\A d \in p.delete : d.id # g.id)
        \/ g \in p.update /\ \E f \in rows : f.id = g.id
        \/ \E q \in p.add : g = Added(q)
  BY DEF Commit
<1> HIDE DEF new, p
\* The rows that are written.
<1>u. ASSUME NEW u \in p.update
      PROVE  \E e \in old, i \in DOMAIN list :
               /\ u = Updated(e, list[i], i) /\ u \in Row /\ u.id = e.id /\ u.name = e.name
               /\ e.name = list[i].name /\ u.body = list[i].body /\ u.custom = e.custom
  <2>1. PICK e \in old, i \in DOMAIN list : e.name = list[i].name /\ u = Updated(e, list[i], i)
    BY <1>p
  <2>2. /\ u \in Row /\ u.id = e.id /\ u.name = e.name /\ u.body = list[i].body
        /\ u.custom = e.custom
    BY <1>0, <1>s, <2>1, UpdatedRow
  <2> QED
    BY <2>1, <2>2
<1>v. ASSUME NEW u \in p.update, NEW v \in p.update, u.id = v.id \/ u.name = v.name PROVE u = v
  <2>1. PICK e \in old, i \in DOMAIN list :
          u = Updated(e, list[i], i) /\ u.id = e.id /\ u.name = e.name /\ e.name = list[i].name
    BY <1>u
  <2>2. PICK f \in old, k \in DOMAIN list :
          v = Updated(f, list[k], k) /\ v.id = f.id /\ v.name = f.name /\ f.name = list[k].name
    BY <1>u
  <2>3. e = f
    BY <1>s, <1>n, <1>v, <2>1, <2>2 DEF OneId, OneName
  <2>4. i = k
    BY <2>1, <2>2, <2>3 DEF Distinct
  <2> QED
    BY <2>1, <2>2, <2>3, <2>4
\* A row that is left alone is in the list as it is, and no other is written.
<1>k. ASSUME NEW g \in rows, \A u \in p.update : u.id # g.id, \A d \in p.delete : d.id # g.id
      PROVE  /\ \E i \in DOMAIN list : g.name = list[i].name /\ g.body = list[i].body
             /\ \A u \in p.update : u.name # g.name
  <2>1. PICK e \in old : Same(e, g)
    BY <1>s
  <2>2. PICK i \in DOMAIN list : list[i].name = e.name
    BY <1>k, <1>p, <2>1 DEF Same
  <2>3. Updated(e, list[i], i).id = e.id
    BY <1>0, <1>s, UpdatedRow
  <2>4. e.body = list[i].body
    BY <1>k, <1>p, <2>1, <2>2, <2>3 DEF Same
  <2>5. ASSUME NEW u \in p.update, u.name = g.name PROVE FALSE
    <3>1. PICK f \in old : u.id = f.id /\ u.name = f.name
      BY <1>u
    <3>2. f = e
      BY <1>n, <2>1, <2>5, <3>1 DEF OneName, Same
    <3> QED
      BY <1>k, <2>1, <3>1, <3>2 DEF Same
  <2> QED
    BY <2>1, <2>2, <2>4, <2>5 DEF Same
\* A row that is added.
<1>f. /\ IsFiniteSet(p.add) /\ Cardinality(p.add) \in Nat /\ Cardinality(p.add) <= Len(list)
      /\ \A q \in p.add : q.order \in Nat
      /\ \A q, r \in p.add : q.order = r.order => q = r
  BY <1>p, AddFinite
<1>i. ASSUME NEW q \in p.add, NEW r \in p.add
      PROVE  /\ Id(q) \in Nat /\ Id(q) > last /\ Id(q) <= last + Cardinality(p.add)
             /\ Id(q) = Id(r) => q = r
  <2> DEFINE Below(x) == {y \in p.add : y.order <= x.order}
  <2>1. /\ Cardinality(Below(q)) \in Nat \ {0} /\ Cardinality(Below(q)) <= Cardinality(p.add)
        /\ Cardinality(Below(q)) = Cardinality(Below(r)) => q = r
    BY <1>f, NewIds
  <2>2. Cardinality(Below(r)) \in Nat
    BY <1>f, NewIds
  <2>3. Id(q) = last + Cardinality(Below(q)) /\ Id(r) = last + Cardinality(Below(r))
    OBVIOUS
  <2> HIDE DEF Below, Id
  <2> QED
    BY <1>f, <2>1, <2>2, <2>3
<1> HIDE DEF Id
<1>a. ASSUME NEW q \in p.add
      PROVE  \E i \in DOMAIN list :
               /\ Added(q).name = list[i].name /\ Added(q).body = list[i].body
               /\ \A e \in old : e.name # list[i].name
               /\ Added(q) \in Row /\ Added(q).id = Id(q)
               /\ q = [name |-> list[i].name, body |-> list[i].body, order |-> i]
  <2>1. PICK i \in DOMAIN list : /\ q = [name |-> list[i].name, body |-> list[i].body, order |-> i]
                                 /\ \A e \in old : e.name # list[i].name
    BY <1>p
  <2>2. Id(q) \in Nat /\ "none" \in {"none", "mine"}
    <3>1. "none" \in {"none", "mine"}
      OBVIOUS
    <3> QED
      BY <1>i, <3>1
  <2>3. Added(q) \in Row
    BY <1>0, <2>1, <2>2 DEF Row
  <2> QED
    BY <2>1, <2>3
<1> HIDE DEF Added
<1>1. Stores(new, list)
  <2>1. ASSUME NEW g \in new PROVE \E i \in DOMAIN list : g.name = list[i].name /\ g.body = list[i].body
    <3>1. CASE g \in rows /\ (\A u \in p.update : u.id # g.id) /\ (\A d \in p.delete : d.id # g.id)
      BY <1>k, <3>1
    <3>2. CASE g \in p.update
      BY <1>u, <3>2
    <3>3. CASE \E q \in p.add : g = Added(q)
      BY <1>a, <3>3
    <3> QED
      BY <1>c, <3>1, <3>2, <3>3
  <2>2. ASSUME NEW i \in DOMAIN list PROVE \E g \in new : g.name = list[i].name /\ g.body = list[i].body
    <3>1. CASE \E e \in old : e.name = list[i].name
      <4>1. PICK e \in old : e.name = list[i].name
        BY <3>1
      <4>2. PICK f \in rows : Same(e, f)
        BY <1>s
      <4>3. CASE Updated(e, list[i], i) \in p.update
        <5>1. /\ Updated(e, list[i], i).id = e.id /\ Updated(e, list[i], i).name = e.name
              /\ Updated(e, list[i], i).body = list[i].body
          BY <1>0, <1>s, UpdatedRow
        <5>2. Updated(e, list[i], i) \in new
          BY <1>c, <4>2, <4>3, <5>1 DEF Same
        <5> QED
          BY <4>1, <5>1, <5>2
      <4>4. CASE Updated(e, list[i], i) \notin p.update
        <5>1. e.body = list[i].body
          BY <1>p, <4>1, <4>4
        <5>2. ASSUME NEW u \in p.update, u.id = f.id PROVE FALSE
          <6>1. PICK x \in old, k \in DOMAIN list :
                  u = Updated(x, list[k], k) /\ u.id = x.id /\ x.name = list[k].name
            BY <1>u
          <6>2. x = e
            BY <1>s, <4>2, <5>2, <6>1 DEF OneId, Same
          <6>3. k = i
            BY <4>1, <6>1, <6>2 DEF Distinct
          <6> QED
            BY <4>4, <6>1, <6>2, <6>3
        <5>3. ASSUME NEW d \in p.delete, d.id = f.id PROVE FALSE
          <6>1. d \in old /\ \A k \in DOMAIN list : list[k].name # d.name
            BY <1>p
          <6>2. d = e
            BY <1>s, <4>2, <5>3, <6>1 DEF OneId, Same
          <6> QED
            BY <4>1, <6>1, <6>2
        <5>4. f \in new
          BY <1>c, <5>2, <5>3
        <5> QED
          BY <4>1, <4>2, <5>1, <5>4 DEF Same
      <4> QED
        BY <4>3, <4>4
    <3>2. CASE \A e \in old : e.name # list[i].name
      <4>1. PICK q : q \in p.add /\ q = [name |-> list[i].name, body |-> list[i].body, order |-> i]
        BY <1>p, <3>2
      <4>2. Added(q).name = q.name /\ Added(q).body = q.body
        BY DEF Added
      <4>3. Added(q) \in new
        BY <1>c, <4>1
      <4> QED
        BY <4>1, <4>2, <4>3
    <3> QED
      BY <3>1, <3>2
  <2>3. ASSUME NEW g \in new, NEW h \in new, g.name = h.name PROVE g = h
    \* An added row has a name that none of the others has.
    <3>1. ASSUME NEW q \in p.add, NEW x \in rows \cup p.update, x.name = Added(q).name PROVE FALSE
      <4>1. PICK i \in DOMAIN list : Added(q).name = list[i].name /\ \A e \in old : e.name # list[i].name
        BY <1>a
      <4>2. \E e \in old : e.name = x.name
        BY <1>s, <1>u DEF Same
      <4> QED
        BY <3>1, <4>1, <4>2
    <3>2. ASSUME NEW q \in p.add, NEW r \in p.add, Added(q).name = Added(r).name PROVE q = r
      <4>1. PICK i \in DOMAIN list : /\ Added(q).name = list[i].name
                                     /\ q = [name |-> list[i].name, body |-> list[i].body, order |-> i]
        BY <1>a
      <4>2. PICK k \in DOMAIN list : /\ Added(r).name = list[k].name
                                     /\ r = [name |-> list[k].name, body |-> list[k].body, order |-> k]
        BY <1>a
      <4>3. i = k
        BY <3>2, <4>1, <4>2 DEF Distinct
      <4> QED
        BY <4>1, <4>2, <4>3
    <3>3. CASE g \in rows /\ (\A u \in p.update : u.id # g.id) /\ (\A d \in p.delete : d.id # g.id)
      BY <1>c, <1>k, <2>3, <3>1, <3>3 DEF OneName
    <3>4. CASE g \in p.update
      BY <1>c, <1>k, <1>v, <2>3, <3>1, <3>4
    <3>5. CASE \E q \in p.add : g = Added(q)
      BY <1>c, <2>3, <3>1, <3>2, <3>5
    <3> QED
      BY <1>c, <3>3, <3>4, <3>5
  <2> QED
    BY <2>1, <2>2, <2>3 DEF Stores, OneName
<1>2. Table(new, last + Cardinality(p.add))
  <2>0. \A x \in rows \cup p.update : x \in Row /\ x.id \in Nat /\ x.id <= last
    <3>1. ASSUME NEW u \in p.update PROVE u \in Row /\ u.id \in Nat /\ u.id <= last
      <4>1. PICK e \in old : u.id = e.id /\ u \in Row
        BY <1>u
      <4> QED
        BY <1>s, <4>1 DEF Same
    <3> QED
      BY <1>s, <3>1
  <2>1. ASSUME NEW g \in new PROVE g \in Row /\ g.id <= last + Cardinality(p.add)
    <3>1. CASE g \in rows \cup p.update
      BY <1>f, <2>0, <3>1
    <3>2. CASE \E q \in p.add : g = Added(q)
      BY <1>a, <1>i, <3>2
    <3> QED
      BY <1>c, <3>1, <3>2
  <2>2. ASSUME NEW g \in new, NEW h \in new, g.id = h.id PROVE g = h
    <3>1. ASSUME NEW q \in p.add, NEW x \in rows \cup p.update, x.id = Added(q).id PROVE FALSE
      BY <1>a, <1>i, <2>0, <3>1
    <3>2. ASSUME NEW q \in p.add, NEW r \in p.add, Added(q).id = Added(r).id PROVE q = r
      BY <1>a, <1>i, <3>2
    <3>3. CASE g \in rows /\ (\A u \in p.update : u.id # g.id)
      BY <1>c, <1>s, <2>2, <3>1, <3>3 DEF OneId
    <3>4. CASE g \in p.update
      BY <1>c, <1>v, <2>2, <3>1, <3>4
    <3>5. CASE \E q \in p.add : g = Added(q)
      BY <1>c, <2>2, <3>1, <3>2, <3>5
    <3> QED
      BY <1>c, <3>3, <3>4, <3>5
  <2> QED
    BY <2>1, <2>2 DEF Table, OneId
<1>3. ASSUME old = rows, NEW e \in rows, NEW i \in DOMAIN list, e.name = list[i].name
      PROVE  \E f \in new : f.id = e.id /\ f.name = e.name /\ f.custom = e.custom
  <2>1. CASE \E u \in p.update : u.id = e.id
    <3>1. PICK u \in p.update : u.id = e.id
      BY <2>1
    <3>2. PICK x \in old : u.id = x.id /\ u.name = x.name /\ u.custom = x.custom
      BY <1>u
    <3>3. x = e
      BY <1>3, <1>s, <3>1, <3>2 DEF OneId
    <3>4. u \in new
      BY <1>c, <3>1
    <3> QED
      BY <3>2, <3>3, <3>4
  <2>2. CASE \A u \in p.update : u.id # e.id
    <3>1. ASSUME NEW d \in p.delete, d.id = e.id PROVE FALSE
      <4>1. d \in old /\ \A k \in DOMAIN list : list[k].name # d.name
        BY <1>p
      <4>2. d = e
        BY <1>3, <1>s, <3>1, <4>1 DEF OneId
      <4> QED
        BY <1>3, <4>1, <4>2
    <3>2. e \in new
      BY <1>c, <2>2, <3>1
    <3> QED
      BY <3>2
  <2> QED
    BY <2>1, <2>2
<1>4. /\ Cardinality(p.add) \in Nat /\ Cardinality(p.add) <= Len(list)
      /\ Table(new, last + Cardinality(p.add)) /\ Stores(new, list)
      /\ old = rows =>
           \A e \in rows, i \in DOMAIN list : e.name = list[i].name =>
             \E f \in new : f.id = e.id /\ f.name = e.name /\ f.custom = e.custom
  BY <1>f, <1>1, <1>2, <1>3
<1> QED
  BY <1>4 DEF p, new

-----------------------------------------------------------------------------
(* The updates. *)

RunType == [pc : Pcs, by : {"user", "worker"}, refused : BOOLEAN, stopped : BOOLEAN,
            ui : {"alive", "gone"}, list : Seq(Profile)]

RunTypes ==
  /\ run \in [Runs -> RunType] /\ plan = [r \in Runs |-> plan[r]]
  /\ updating \in {"free", "reserved"} /\ ui \in {"alive", "gone"}

\* The update that has reserved the group: also when it has failed, until the
\* handler frees it, unless its worker was stopped and the handler will not.
Holding(r) ==
  /\ ~ run[r].refused
  /\ \/ run[r].pc \in {"reload", "confirm", "download", "commit", "committed"}
     \/ run[r].pc = "catch" /\ ~ run[r].stopped

HoldInv ==
  /\ \A q, r \in Runs : Holding(q) /\ Holding(r) => q = r
  /\ \A r \in Runs : Holding(r) => updating = "reserved"

UiInv ==
  /\ ui = "alive"
  /\ \A r \in Runs : run[r].pc \in {"confirm", "download", "commit", "committed", "success", "catch"}
                       => run[r].ui = "alive"

RowsInv ==
  /\ lastId \in Nat /\ Table(db, lastId)
  /\ current \in Seq(Profile) /\ Stores(db, NameMap(current))
  /\ "merged" \notin incidents => Distinct(current)

\* What an update is about to commit was decided on the rows of the group, of
\* which nothing but the overrides may have changed.
Planned(r, old) ==
  /\ SameRows(old, db) /\ plan[r] = Plan(old, NameMap(run[r].list))
  /\ "raced" \notin incidents => old = db

PlanInv ==
  \A r \in Runs : At(r, "commit") /\ ~ run[r].refused =>
    /\ \E old : Planned(r, old)
    /\ "merged" \notin incidents => Distinct(run[r].list)

GroupInv == RunTypes /\ (Undisturbed => HoldInv /\ UiInv /\ RowsInv /\ PlanInv)

LEMMA SameRowsSelf == ASSUME NEW rows, NEW last, Table(rows, last) PROVE SameRows(rows, rows)
  BY DEF Table, SameRows, Same

LEMMA GroupStart == ASSUME Init PROVE GroupInv
<1>1. RunTypes
  <2>1. FALSE \in BOOLEAN /\ <<>> \in Seq(Profile)
    OBVIOUS
  <2>2. Absent \in RunType
    BY <2>1 DEF Absent, RunType, Pcs
  <2> QED
    BY <2>2 DEF Init, RunTypes
<1>2. \A r \in Runs : run[r].pc = "absent"
  BY DEF Init, Absent
<1>3. HoldInv /\ UiInv /\ PlanInv
  BY <1>2 DEF HoldInv, UiInv, PlanInv, Holding, At, Init
<1>4. RowsInv
  <2>1. PICK raw \in Lists, deduplication \in BOOLEAN :
          /\ current = Prepared(raw, NotFound(raw), deduplication)
          /\ db = Commit({}, Plan({}, NameMap(current)), 0) /\ lastId = Len(current)
    BY DEF Init
  <2>2. current \in Seq(Profile) /\ Distinct(current) /\ Len(current) \in Nat
    <3>1. raw \in Seq(Profile)
      BY UpdateAssumption
    <3>2. current \in Seq(Profile) /\ Distinct(current)
      BY <2>1, <3>1, NotFoundMerges, PreparedDistinct
    <3> QED
      BY <3>2
  <2>3. Table({}, 0) /\ OneName({}) /\ SameRows({}, {})
    BY DEF Table, OneId, OneName, SameRows
  <2>4. NameMap(current) = current
    BY <2>2, NameMapCorrect
  <2>5. LET p == Plan({}, current)
        IN  /\ Cardinality(p.add) \in Nat /\ Cardinality(p.add) <= Len(current)
            /\ Table(db, 0 + Cardinality(p.add)) /\ Stores(db, current)
    BY <2>1, <2>2, <2>3, <2>4, CommitStores
  <2>6. PICK n \in Nat : n <= Len(current) /\ Table(db, n)
    BY <2>5
  <2>7. Table(db, Len(current))
    BY <2>2, <2>6 DEF Table, Row
  <2> QED
    BY <2>1, <2>2, <2>4, <2>5, <2>7 DEF RowsInv
<1> QED
  BY <1>1, <1>3, <1>4 DEF GroupInv

\* A plan stays one when no row changes.
LEMMA PlannedStays ==
  ASSUME PlanInv, NEW q \in Runs, run[q].pc = "commit", ~ run[q].refused,
         plan'[q] = plan[q], run'[q].list = run[q].list, db' = db, incidents \subseteq incidents'
  PROVE  /\ \E old : Planned(q, old)'
         /\ "merged" \notin incidents' => Distinct(run'[q].list)
<1>1. (\E old : Planned(q, old)) /\ ("merged" \notin incidents => Distinct(run[q].list))
  BY DEF PlanInv, At
<1>2. PICK old : Planned(q, old)
  BY <1>1
<1>3. Planned(q, old)'
  BY <1>2 DEF Planned
<1> QED
  BY <1>1, <1>3

\* A step of one run that leaves the rows alone and prepares no transaction.
LEMMA QuietRun ==
  ASSUME HoldInv, UiInv, RowsInv, PlanInv, NEW r \in Runs,
         \A q \in Runs : q # r => run'[q] = run[q] /\ plan'[q] = plan[q],
         UNCHANGED <<db, lastId, current, ui, incidents>>,
         Holding(r)' => Holding(r),
         updating' = updating \/ (Holding(r) /\ ~ Holding(r)'),
         run'[r].pc # "commit",
         run'[r].pc \in {"confirm", "download", "commit", "committed", "success", "catch"} => run'[r].ui = "alive"
  PROVE  HoldInv' /\ UiInv' /\ RowsInv' /\ PlanInv'
<1>1. \A q \in Runs : q # r => (Holding(q)' <=> Holding(q))
  BY DEF Holding
<1>2. HoldInv'
  BY <1>1 DEF HoldInv
<1>3. UiInv'
  BY DEF UiInv
<1>4. RowsInv'
  BY DEF RowsInv
<1>5. PlanInv'
  <2>1. ASSUME NEW q \in Runs, run'[q].pc = "commit", ~ run'[q].refused
        PROVE  /\ \E old : Planned(q, old)'
               /\ "merged" \notin incidents' => Distinct(run'[q].list)
    <3>1. run'[q] = run[q] /\ plan'[q] = plan[q]
      BY <2>1
    <3> QED
      BY <2>1, <3>1, PlannedStays
  <2> QED
    BY <2>1 DEF PlanInv, At
<1> QED
  BY <1>2, <1>3, <1>4, <1>5

\* The list that a run has downloaded and prepared.
LEMMA DownloadedList ==
  ASSUME NEW r \in Runs, Download(r)
  PROVE  \E list \in Seq(Profile) :
           /\ run' = [run EXCEPT ![r].pc = "commit", ![r].list = list]
           /\ plan' = [plan EXCEPT ![r] = Plan(db, NameMap(list))]
           /\ "merged" \notin incidents' => Distinct(list)
<1>0. PICK raw \in Lists, deduplication \in BOOLEAN :
        \E found \in IF Cancelled(r) THEN {NotFound(raw)} ELSE Lookups(raw) :
          /\ plan' = [plan EXCEPT ![r] = Plan(db, NameMap(Prepared(raw, found, deduplication)))]
          /\ run' = [run EXCEPT ![r].pc = "commit", ![r].list = Prepared(raw, found, deduplication)]
          /\ Note("merged", Merges(UniqueNames(raw), found))
  BY DEF Download
<1>1. PICK found \in IF Cancelled(r) THEN {NotFound(raw)} ELSE Lookups(raw) :
        /\ plan' = [plan EXCEPT ![r] = Plan(db, NameMap(Prepared(raw, found, deduplication)))]
        /\ run' = [run EXCEPT ![r].pc = "commit", ![r].list = Prepared(raw, found, deduplication)]
        /\ Note("merged", Merges(UniqueNames(raw), found))
  BY <1>0
<1>2. PICK list : list = Prepared(raw, found, deduplication)
  OBVIOUS
<1>3. raw \in Seq(Profile)
  BY UpdateAssumption
<1>4. found \in Found(raw)
  <2>1. NotFound(raw) \in Found(raw)
    BY <1>3, NotFoundMerges
  <2>2. Lookups(raw) \subseteq Found(raw)
    BY DEF Lookups, Found
  <2> QED
    BY <1>1, <2>1, <2>2
<1>5. list \in Seq(Profile) /\ (~ Merges(UniqueNames(raw), found) => Distinct(list))
  BY <1>2, <1>3, <1>4, PreparedDistinct
<1>6. "merged" \notin incidents' => ~ Merges(UniqueNames(raw), found)
  BY <1>1 DEF Note
<1> QED
  BY <1>1, <1>2, <1>5, <1>6

LEMMA RunTypesStep ==
  ASSUME RunTypes, [Next]_vars PROVE RunTypes'
<1>0. /\ run \in [Runs -> RunType] /\ plan = [q \in Runs |-> plan[q]]
      /\ updating \in {"free", "reserved"} /\ ui \in {"alive", "gone"}
  BY DEF RunTypes
<1>e. Absent \in RunType /\ [Absent EXCEPT !.pc = "ended"] \in RunType /\ <<>> \in Seq(Profile)
  <2>1. FALSE \in BOOLEAN /\ <<>> \in Seq(Profile)
    OBVIOUS
  <2> QED
    BY <2>1 DEF Absent, RunType, Pcs
<1>c. /\ "reload" \in Pcs /\ "confirm" \in Pcs /\ "download" \in Pcs /\ "commit" \in Pcs
      /\ "success" \in Pcs /\ "catch" \in Pcs
  BY DEF Pcs
<1>b. (updating = "reserved") \in BOOLEAN
  BY Zenon
<1>1. updating' \in {"free", "reserved"} /\ ui' \in {"alive", "gone"}
  BY <1>0 DEF Next, vars, executeUpdate, Stop, Step, PostReload, Confirmed, Declined, DownloadFails,
     Download, Transaction, Committed, Success, Catch, SaveOverride, UiChanges
<1>p. plan' = plan => plan' = [q \in Runs |-> plan'[q]]
  BY <1>0
<1>2. ASSUME NEW r \in Runs, executeUpdate(r) PROVE run' \in [Runs -> RunType] /\ plan' = plan
  <2>1. PICK b \in BOOLEAN : b = (updating = "reserved")
    BY <1>b
  <2>2. PICK by \in {"user", "worker"} :
          run' = [run EXCEPT ![r].pc = "reload", ![r].by = by, ![r].refused = b] /\ plan' = plan
    BY <1>2, <2>1 DEF executeUpdate
  <2>3. [run[r] EXCEPT !.pc = "reload", !.by = by, !.refused = b] \in RunType
    <3>1. run[r] \in RunType
      BY <1>0
    <3> QED
      BY <1>c, <3>1 DEF RunType
  <2>4. run' = [run EXCEPT ![r] = [run[r] EXCEPT !.pc = "reload", !.by = by, !.refused = b]]
    BY <2>2
  <2> QED
    BY <1>0, <2>2, <2>3, <2>4
<1>3. ASSUME NEW r \in Runs, \/ PostReload(r) \/ Confirmed(r) \/ Declined(r) \/ DownloadFails(r)
                             \/ Committed(r) \/ Success(r) \/ Catch(r)
      PROVE  run' \in [Runs -> RunType] /\ plan' = plan
  <2>1. plan' = plan
    BY <1>3 DEF PostReload, Confirmed, Declined, DownloadFails, Committed, Success, Catch
  <2>2. \/ End(r) \/ (\E pc \in {"confirm", "download"} : run' = [run EXCEPT ![r].pc = pc, ![r].ui = ui])
        \/ Goto(r, "download") \/ Goto(r, "success") \/ Goto(r, "catch")
    BY <1>3 DEF PostReload, Confirmed, Declined, DownloadFails, Committed, Success, Catch
  <2>3. CASE End(r)
    BY <1>0, <1>e, <2>1, <2>3 DEF End
  <2>4. CASE \E pc \in {"confirm", "download"} : run' = [run EXCEPT ![r].pc = pc, ![r].ui = ui]
    <3>1. PICK pc \in {"confirm", "download"} : run' = [run EXCEPT ![r].pc = pc, ![r].ui = ui]
      BY <2>4
    <3>2. [run[r] EXCEPT !.pc = pc, !.ui = ui] \in RunType
      <4>1. run[r] \in RunType /\ ui \in {"alive", "gone"}
        BY <1>0
      <4> QED
        BY <1>c, <3>1, <4>1 DEF RunType
    <3>3. run' = [run EXCEPT ![r] = [run[r] EXCEPT !.pc = pc, !.ui = ui]]
      BY <3>1
    <3> QED
      BY <1>0, <2>1, <3>2, <3>3
  <2>5. CASE Goto(r, "download") \/ Goto(r, "success") \/ Goto(r, "catch")
    <3>1. PICK pc \in Pcs : run' = [run EXCEPT ![r].pc = pc]
      BY <1>c, <2>5 DEF Goto
    <3> QED
      BY <1>0, <2>1, <3>1 DEF RunType
  <2> QED
    BY <2>2, <2>3, <2>4, <2>5
<1>4. ASSUME NEW r \in Runs, Download(r)
      PROVE  run' \in [Runs -> RunType] /\ plan' = [q \in Runs |-> plan'[q]]
  <2>1. PICK list \in Seq(Profile) :
          /\ run' = [run EXCEPT ![r].pc = "commit", ![r].list = list]
          /\ plan' = [plan EXCEPT ![r] = Plan(db, NameMap(list))]
    BY <1>4, DownloadedList
  <2>2. [run[r] EXCEPT !.pc = "commit", !.list = list] \in RunType
    <3>1. run[r] \in RunType
      BY <1>0
    <3> QED
      BY <1>c, <2>1, <3>1 DEF RunType
  <2>3. run' = [run EXCEPT ![r] = [run[r] EXCEPT !.pc = "commit", !.list = list]]
    BY <2>1
  <2>4. run' \in [Runs -> RunType]
    BY <1>0, <2>2, <2>3
  <2> QED
    BY <1>0, <2>1, <2>4
<1>5. ASSUME NEW r \in Runs, Transaction(r)
      PROVE  run' \in [Runs -> RunType] /\ plan' = [q \in Runs |-> plan'[q]]
  <2>1. Leave(r, "catch") \/ Leave(r, "committed")
    BY <1>5 DEF Transaction
  <2>2. PICK pc \in {"catch", "committed"} : /\ run' = [run EXCEPT ![r].pc = pc, ![r].list = <<>>]
                                              /\ plan' = [plan EXCEPT ![r] = NoPlan]
    BY <2>1 DEF Leave
  <2>3. [run[r] EXCEPT !.pc = pc, !.list = <<>>] \in RunType
    <3>1. run[r] \in RunType
      BY <1>0
    <3> QED
      BY <1>e, <2>2, <3>1 DEF RunType, Pcs
  <2>4. run' = [run EXCEPT ![r] = [run[r] EXCEPT !.pc = pc, !.list = <<>>]]
    BY <2>2
  <2>5. run' \in [Runs -> RunType]
    BY <1>0, <2>3, <2>4
  <2>6. plan' = [q \in Runs |-> plan'[q]]
    BY <1>0, <2>2
  <2> QED
    BY <2>5, <2>6
<1>6. ASSUME NEW r \in Runs, Stop(r) PROVE run' \in [Runs -> RunType] /\ plan' = plan
  <2>1. PICK b \in BOOLEAN : b = TRUE
    OBVIOUS
  <2>2. run' = [run EXCEPT ![r].stopped = b] /\ plan' = plan
    BY <1>6, <2>1 DEF Stop
  <2> QED
    BY <1>0, <2>2 DEF RunType
<1>7. ASSUME (\E e \in db : SaveOverride(e)) \/ UiChanges \/ UNCHANGED vars
      PROVE  run' \in [Runs -> RunType] /\ plan' = plan
  <2>1. run' = run /\ plan' = plan
    BY <1>7 DEF SaveOverride, UiChanges, vars
  <2> QED
    BY <1>0, <2>1
<1>8. run' \in [Runs -> RunType] /\ plan' = [q \in Runs |-> plan'[q]]
  <2>1. CASE \E r \in Runs : Download(r) \/ Transaction(r)
    BY <1>4, <1>5, <2>1
  <2>2. CASE ~ \E r \in Runs : Download(r) \/ Transaction(r)
    <3>1. run' \in [Runs -> RunType] /\ plan' = plan
      BY <1>2, <1>3, <1>6, <1>7, <2>2 DEF Next, Step
    <3> QED
      BY <1>p, <3>1
  <2> QED
    BY <2>1, <2>2
<1> QED
  BY <1>1, <1>8 DEF RunTypes

\* The saving of an override changes no row but in its override.
LEMMA SavedRow ==
  ASSUME RowsInv, NEW e \in db, SaveOverride(e)
  PROVE  /\ RowsInv'
         /\ \A old : SameRows(old, db) => SameRows(old, db')
         /\ \A x \in db : \E y \in db' : Same(x, y) /\ y.custom \in {x.custom, "mine"}
<1> DEFINE f == [e EXCEPT !.custom = "mine"]
<1>1. /\ db' = (db \ {e}) \cup {f} /\ UNCHANGED <<lastId, current>>
  BY DEF SaveOverride
<1>2. /\ lastId \in Nat /\ db \subseteq Row /\ OneId(db) /\ \A x \in db : x.id <= lastId
      /\ Stores(db, NameMap(current))
  BY DEF RowsInv, Table
<1>3. f \in Row /\ Same(e, f) /\ f.custom = "mine"
  <2>1. e \in Row
    BY <1>2
  <2>2. "mine" \in {"none", "mine"}
    OBVIOUS
  <2> QED
    BY <2>1, <2>2 DEF Row, Same
<1> HIDE DEF f
<1>4. /\ \A x \in db : \E y \in db' : Same(x, y) /\ y.custom \in {x.custom, "mine"}
      /\ \A y \in db' : \E x \in db : Same(x, y)
  BY <1>1, <1>3 DEF Same
<1>5. db' \subseteq Row /\ \A y \in db' : y.id <= lastId
  BY <1>1, <1>2, <1>3 DEF Same
<1>6. ASSUME NEW x \in db', NEW y \in db', x.id = y.id \/ x.name = y.name PROVE x = y
  <2>1. OneName(db)
    BY <1>2 DEF Stores
  <2> QED
    BY <1>1, <1>2, <1>3, <1>6, <2>1 DEF Same, OneId, OneName
<1>7. Table(db', lastId)
  BY <1>5, <1>6 DEF Table, OneId
<1>8. Stores(db', NameMap(current))
  BY <1>2, <1>4, <1>6 DEF Stores, OneName, Same
<1>9. RowsInv'
  <2>1. "merged" \notin incidents' => "merged" \notin incidents
    BY DEF SaveOverride, Note
  <2>2. current' = current /\ lastId' = lastId
    BY <1>1
  <2> QED
    BY <1>7, <1>8, <2>1, <2>2 DEF RowsInv
<1>10. ASSUME NEW old, SameRows(old, db) PROVE SameRows(old, db')
  <2>1. \A x, y, z : Same(x, y) /\ Same(y, z) => Same(x, z)
    BY DEF Same
  <2> QED
    BY <1>4, <1>5, <1>6, <1>10, <2>1 DEF SameRows, OneId
<1> QED
  BY <1>4, <1>9, <1>10

\* The steps that neither read nor change the rows.
LEMMA QuietSteps ==
  ASSUME RunTypes, HoldInv, UiInv, RowsInv, PlanInv, Undisturbed', NEW r \in Runs,
         \/ PostReload(r) \/ Confirmed(r) \/ Declined(r) \/ DownloadFails(r) \/ Committed(r)
         \/ Success(r) \/ Catch(r) \/ (Transaction(r) /\ Cancelled(r))
  PROVE  HoldInv' /\ UiInv' /\ RowsInv' /\ PlanInv'
<1>0. /\ run \in [Runs -> RunType] /\ plan = [q \in Runs |-> plan[q]] /\ ui = "alive"
      /\ run[r] \in RunType
      /\ run[r].pc \in {"confirm", "download", "commit", "committed", "success", "catch"}
           => run[r].ui = "alive"
  BY DEF RunTypes, UiInv
<1>1. UNCHANGED <<db, lastId, current, ui>>
  BY DEF PostReload, Confirmed, Declined, DownloadFails, Committed, Success, Catch, Transaction
<1>2. \A q \in Runs : q # r => run'[q] = run[q] /\ plan'[q] = plan[q]
  BY <1>0 DEF PostReload, Confirmed, Declined, DownloadFails, Committed, Success, Catch, Transaction,
     Leave, Goto, End
<1>e. ASSUME End(r) PROVE run'[r].pc = "ended"
  BY <1>0, <1>e DEF End, Absent
<1>g. ASSUME NEW pc, Goto(r, pc)
      PROVE  /\ run'[r].pc = pc /\ run'[r].refused = run[r].refused
             /\ run'[r].stopped = run[r].stopped /\ run'[r].ui = run[r].ui
  BY <1>0, <1>g DEF Goto, RunType
<1> DEFINE Quiet == /\ incidents' = incidents /\ (Holding(r)' => Holding(r))
                    /\ updating' = updating \/ (Holding(r) /\ ~ Holding(r)')
                    /\ run'[r].pc # "commit"
                    /\ run'[r].pc \in {"confirm", "download", "commit", "committed", "success", "catch"}
                         => run'[r].ui = "alive"
<1>3. ASSUME PostReload(r) PROVE Quiet
  <2>1. CASE End(r)
    BY <1>3, <1>e, <2>1 DEF PostReload, Holding
  <2>2. CASE \E pc \in {"confirm", "download"} : run' = [run EXCEPT ![r].pc = pc, ![r].ui = ui]
    <3>1. PICK pc \in {"confirm", "download"} : run' = [run EXCEPT ![r].pc = pc, ![r].ui = ui]
      BY <2>2
    <3>2. run'[r].pc = pc /\ run'[r].ui = "alive" /\ run'[r].refused = run[r].refused
      BY <1>0, <3>1 DEF RunType
    <3> QED
      BY <1>3, <3>1, <3>2 DEF PostReload, Holding, At
  <2> QED
    BY <1>3, <2>1, <2>2 DEF PostReload
<1>4. ASSUME Confirmed(r) \/ DownloadFails(r) PROVE Quiet
  BY <1>0, <1>4, <1>g DEF Confirmed, DownloadFails, Holding, At
<1>5. ASSUME Declined(r) PROVE Quiet
  <2>1. incidents' = incidents \cup {j \in {"declined"} : run[r].refused}
    BY <1>5 DEF Declined, Note
  <2>2. ~ run[r].refused
    BY <2>1 DEF Undisturbed
  <2>3. incidents' = incidents
    BY <2>1, <2>2
  <2> QED
    BY <1>5, <1>e, <2>2, <2>3 DEF Declined, Holding, At
<1>6. ASSUME Success(r) PROVE Quiet
  <2>1. CASE End(r)
    BY <1>6, <1>e, <2>1 DEF Success, Holding
  <2>2. CASE Goto(r, "catch") /\ Cancelled(r)
    BY <1>0, <1>6, <1>g, <2>2 DEF Success, Holding, Cancelled, At
  <2> QED
    BY <1>0, <1>6, <2>1, <2>2 DEF Success
<1>7. ASSUME Catch(r) PROVE Quiet
  BY <1>0, <1>7, <1>e DEF Catch, Holding, At, Cancelled
<1>8. ASSUME Committed(r) PROVE Quiet
  <2>1. CASE Cancelled(r)
    BY <1>0, <1>8, <1>g, <2>1 DEF Committed, Holding, At, Cancelled
  <2>2. CASE ~ Cancelled(r)
    BY <1>0, <1>8, <1>g, <2>2 DEF Committed, Holding, At, Cancelled
  <2> QED
    BY <2>1, <2>2
<1>9. ASSUME Transaction(r), Cancelled(r) PROVE Quiet
  <2>1. /\ run' = [run EXCEPT ![r].pc = "catch", ![r].list = <<>>]
        /\ updating' = updating /\ incidents' = incidents /\ run[r].pc = "commit"
    BY <1>9 DEF Transaction, Leave, At
  <2>2. /\ run'[r].pc = "catch" /\ run'[r].ui = run[r].ui
        /\ run'[r].refused = run[r].refused /\ run'[r].stopped = run[r].stopped
    BY <1>0, <2>1 DEF RunType
  <2> QED
    BY <1>0, <1>9, <2>1, <2>2 DEF Holding, Cancelled
<1>10. Quiet
  BY <1>3, <1>4, <1>5, <1>6, <1>7, <1>8, <1>9
<1> QED
  BY <1>1, <1>2, <1>10, QuietRun

\* A worker that is stopped stays where it is, and holds what it held until it
\* comes to the handler.
LEMMA Stopped ==
  ASSUME RunTypes, HoldInv, UiInv, RowsInv, PlanInv, NEW r \in Runs, Stop(r)
  PROVE  HoldInv' /\ UiInv' /\ RowsInv' /\ PlanInv'
<1>0. run \in [Runs -> RunType]
  BY DEF RunTypes
<1>1. /\ run' = [run EXCEPT ![r].stopped = TRUE] /\ incidents' = incidents \cup {"stopped"}
      /\ UNCHANGED <<updating, plan, db, lastId, current, ui>>
  BY DEF Stop, Note
<1>2. \A q \in Runs : /\ run'[q].pc = run[q].pc /\ run'[q].refused = run[q].refused
                      /\ run'[q].ui = run[q].ui /\ run'[q].list = run[q].list
                      /\ run[q].stopped => run'[q].stopped
  <2>1. \A q \in Runs : q # r => run'[q] = run[q]
    BY <1>0, <1>1
  <2>2. /\ run'[r].pc = run[r].pc /\ run'[r].refused = run[r].refused
        /\ run'[r].ui = run[r].ui /\ run'[r].list = run[r].list /\ run'[r].stopped
    BY <1>0, <1>1 DEF RunType
  <2> QED
    BY <2>1, <2>2
<1>3. \A q \in Runs : Holding(q)' => Holding(q)
  BY <1>2 DEF Holding
<1>4. HoldInv'
  BY <1>1, <1>3 DEF HoldInv
<1>5. UiInv'
  BY <1>1, <1>2 DEF UiInv
<1>6. RowsInv'
  BY <1>1 DEF RowsInv
<1>7. ASSUME NEW q \in Runs, run'[q].pc = "commit", ~ run'[q].refused
      PROVE  /\ \E old : Planned(q, old)'
             /\ "merged" \notin incidents' => Distinct(run'[q].list)
  <2>1. /\ run[q].pc = "commit" /\ ~ run[q].refused /\ run'[q].list = run[q].list
        /\ plan'[q] = plan[q] /\ db' = db /\ incidents \subseteq incidents'
    BY <1>1, <1>2, <1>7
  <2> QED
    BY <2>1, PlannedStays
<1>8. PlanInv'
  BY <1>7 DEF PlanInv, At
<1> QED
  BY <1>4, <1>5, <1>6, <1>8

\* A transaction that is carried out stores the list it was decided on.
LEMMA TransactionStores ==
  ASSUME RunTypes, HoldInv, UiInv, RowsInv, PlanInv, NEW r \in Runs, Transaction(r), ~ Cancelled(r)
  PROVE  /\ HoldInv' /\ UiInv' /\ RowsInv' /\ PlanInv'
         /\ "raced" \notin incidents => \A e \in db : e.name \in Names(current') =>
              \E f \in db' : f.id = e.id /\ f.name = e.name /\ f.custom = e.custom
<1>0. /\ run \in [Runs -> RunType] /\ plan = [q \in Runs |-> plan[q]] /\ ui = "alive"
      /\ run[r] \in RunType /\ run[r].list \in Seq(Profile)
      /\ run[r].pc = "commit" /\ run[r].ui = "alive" /\ ~ run[r].refused
  <2>1. run \in [Runs -> RunType] /\ plan = [q \in Runs |-> plan[q]] /\ ui = "alive" /\ run[r].pc = "commit"
    BY DEF RunTypes, UiInv, Transaction, At
  <2>2. run[r] \in RunType /\ run[r].ui = "alive"
    BY <2>1 DEF UiInv
  <2>3. \A x \in RunType : x.list \in Seq(Profile)
    BY DEF RunType
  <2> QED
    BY <2>1, <2>2, <2>3 DEF Cancelled
<1>1. /\ db' = Commit(db, plan[r], lastId) /\ lastId' = lastId + Cardinality(plan[r].add)
      /\ current' = run[r].list /\ updating' = updating
      /\ run' = [run EXCEPT ![r].pc = "committed", ![r].list = <<>>]
      /\ plan' = [plan EXCEPT ![r] = NoPlan] /\ ui' = ui /\ incidents' = incidents
  BY DEF Transaction, Leave
<1>2. /\ run'[r].pc = "committed" /\ run'[r].ui = "alive" /\ ~ run'[r].refused
      /\ \A q \in Runs : q # r => run'[q] = run[q]
  BY <1>0, <1>1 DEF RunType
<1>3. Holding(r) /\ Holding(r)'
  BY <1>0, <1>2 DEF Holding
<1>4. \A q \in Runs : Holding(q)' => Holding(q)
  BY <1>2, <1>3 DEF Holding
<1>5. HoldInv'
  BY <1>1, <1>4 DEF HoldInv
<1>6. PlanInv'
  <2>1. ASSUME NEW q \in Runs, run'[q].pc = "commit", ~ run'[q].refused PROVE FALSE
    <3>1. q # r /\ Holding(q)'
      BY <1>2, <2>1 DEF Holding
    <3> QED
      BY <1>3, <1>4, <3>1 DEF HoldInv
  <2> QED
    BY <2>1 DEF PlanInv, At
<1>7. UiInv'
  BY <1>0, <1>1, <1>2 DEF UiInv
<1>8. PICK old : Planned(r, old)
  BY <1>0 DEF PlanInv, At
<1>9. PICK read \in Seq(Profile) : read = run[r].list
  BY <1>0
<1>10. PICK list : list = NameMap(read)
  OBVIOUS
<1>11. list \in Seq(Profile) /\ Distinct(list) /\ Names(list) = Names(read)
  BY <1>10, NameMapCorrect
<1>12. SameRows(old, db) /\ plan[r] = Plan(old, list) /\ current' = read
  BY <1>1, <1>8, <1>9, <1>10 DEF Planned
<1>13. lastId \in Nat /\ Table(db, lastId) /\ OneName(db)
  BY DEF RowsInv, Stores
<1>14. /\ Cardinality(plan[r].add) \in Nat
       /\ Table(db', lastId + Cardinality(plan[r].add)) /\ Stores(db', list)
       /\ old = db => \A e \in db, i \in DOMAIN list : e.name = list[i].name =>
            \E f \in db' : f.id = e.id /\ f.name = e.name /\ f.custom = e.custom
  BY <1>1, <1>11, <1>12, <1>13, CommitStores
<1>15. RowsInv'
  <2>1. "merged" \notin incidents => Distinct(read)
    BY <1>0, <1>9 DEF PlanInv, At
  <2>2. lastId' \in Nat /\ Table(db', lastId')
    BY <1>1, <1>13, <1>14
  <2>3. current' \in Seq(Profile) /\ Stores(db', NameMap(current'))
    BY <1>10, <1>12, <1>14
  <2>4. "merged" \notin incidents' => Distinct(current')
    BY <1>1, <1>12, <2>1
  <2> QED
    BY <2>2, <2>3, <2>4 DEF RowsInv
<1>16. ASSUME "raced" \notin incidents
       PROVE  \A e \in db : e.name \in Names(current') =>
                \E f \in db' : f.id = e.id /\ f.name = e.name /\ f.custom = e.custom
  <2>1. old = db
    BY <1>8, <1>16 DEF Planned
  <2>2. Names(current') = Names(list)
    BY <1>11, <1>12
  <2> QED
    BY <1>14, <2>1, <2>2 DEF Names
<1> QED
  BY <1>5, <1>6, <1>7, <1>15, <1>16

LEMMA Downloaded ==
  ASSUME RunTypes, HoldInv, UiInv, RowsInv, PlanInv, NEW r \in Runs, Download(r)
  PROVE  HoldInv' /\ UiInv' /\ RowsInv' /\ PlanInv'
<1>0. /\ run \in [Runs -> RunType] /\ plan = [q \in Runs |-> plan[q]] /\ ui = "alive"
      /\ run[r] \in RunType /\ run[r].pc = "download" /\ run[r].ui = "alive"
  BY DEF RunTypes, UiInv, Download, At
<1>1. PICK list \in Seq(Profile) :
        /\ run' = [run EXCEPT ![r].pc = "commit", ![r].list = list]
        /\ plan' = [plan EXCEPT ![r] = Plan(db, NameMap(list))]
        /\ "merged" \notin incidents' => Distinct(list)
  BY DownloadedList
<1>2. UNCHANGED <<updating, db, lastId, current, ui>> /\ incidents \subseteq incidents'
  BY DEF Download, Note
<1>3. "raced" \notin incidents' => "raced" \notin incidents
  BY <1>2
<1>5. /\ run'[r].pc = "commit" /\ run'[r].ui = "alive" /\ run'[r].list = list
      /\ run'[r].refused = run[r].refused /\ plan'[r] = Plan(db, NameMap(list))
      /\ \A q \in Runs : q # r => run'[q] = run[q] /\ plan'[q] = plan[q]
  BY <1>0, <1>1 DEF RunType
<1>6. \A q \in Runs : Holding(q)' <=> Holding(q)
  BY <1>0, <1>5 DEF Holding
<1>7. HoldInv'
  BY <1>2, <1>6 DEF HoldInv
<1>8. UiInv'
  BY <1>2, <1>5 DEF UiInv
<1>9. RowsInv'
  BY <1>2 DEF RowsInv
<1>10. Planned(r, db)'
  BY <1>2, <1>5, SameRowsSelf DEF Planned, RowsInv
<1>11. ASSUME NEW q \in Runs, run'[q].pc = "commit", ~ run'[q].refused
       PROVE  /\ \E old : Planned(q, old)'
              /\ "merged" \notin incidents' => Distinct(run'[q].list)
  <2>1. CASE q = r
    <3>1. \E old : Planned(r, old)'
      <4>1. PICK old : old = db /\ db' = db
        BY <1>2
      <4>2. Planned(r, old)'
        BY <1>2, <1>5, <4>1, SameRowsSelf DEF Planned, RowsInv
      <4> QED
        BY <4>2
    <3> QED
      BY <1>1, <1>5, <2>1, <3>1
  <2>2. CASE q # r
    BY <1>2, <1>5, <1>11, <2>2, PlannedStays
  <2> QED
    BY <2>1, <2>2
<1>12. PlanInv'
  BY <1>11 DEF PlanInv, At
<1> QED
  BY <1>7, <1>8, <1>9, <1>12

LEMMA Started ==
  ASSUME RunTypes, HoldInv, UiInv, RowsInv, PlanInv, NEW r \in Runs, executeUpdate(r)
  PROVE  HoldInv' /\ UiInv' /\ RowsInv' /\ PlanInv'
<1>0. /\ run \in [Runs -> RunType] /\ run[r] \in RunType
      /\ updating \in {"free", "reserved"}
  BY DEF RunTypes
<1>1. PICK by : /\ run' = [run EXCEPT ![r].pc = "reload", ![r].by = by, ![r].refused = (updating = "reserved")]
                /\ updating' = "reserved" /\ UNCHANGED <<plan, db, lastId, current, ui, incidents>>
  BY DEF executeUpdate
<1>2. /\ run'[r].pc = "reload" /\ (run'[r].refused <=> updating = "reserved")
      /\ \A q \in Runs : q # r => run'[q] = run[q]
  BY <1>0, <1>1 DEF RunType
<1>3. /\ Holding(r)' => \A q \in Runs : ~ Holding(q)
      /\ \A q \in Runs : q # r => (Holding(q)' <=> Holding(q))
  BY <1>2 DEF Holding, HoldInv
<1>4. HoldInv'
  BY <1>1, <1>3 DEF HoldInv
<1>5. UiInv' /\ RowsInv'
  BY <1>1, <1>2 DEF UiInv, RowsInv
<1>6. ASSUME NEW q \in Runs, run'[q].pc = "commit", ~ run'[q].refused
      PROVE  /\ \E old : Planned(q, old)'
             /\ "merged" \notin incidents' => Distinct(run'[q].list)
  <2>1. q # r /\ run'[q] = run[q]
    BY <1>2, <1>6
  <2> QED
    BY <1>1, <1>6, <2>1, PlannedStays
<1>7. PlanInv'
  BY <1>6 DEF PlanInv, At
<1> QED
  BY <1>4, <1>5, <1>7

LEMMA Overridden ==
  ASSUME RunTypes, HoldInv, UiInv, RowsInv, PlanInv, NEW e \in db, SaveOverride(e)
  PROVE  HoldInv' /\ UiInv' /\ RowsInv' /\ PlanInv'
<1>1. UNCHANGED <<updating, run, plan, ui>> /\ Note("raced", \E q \in Runs : At(q, "commit"))
  BY DEF SaveOverride
<1>2. HoldInv' /\ UiInv'
  BY <1>1 DEF HoldInv, UiInv, Holding
<1>3. RowsInv' /\ \A old : SameRows(old, db) => SameRows(old, db')
  BY SavedRow
<1>4. ASSUME NEW q \in Runs, run[q].pc = "commit", ~ run[q].refused
      PROVE  /\ \E old : Planned(q, old)'
             /\ "merged" \notin incidents' => Distinct(run'[q].list)
  <2>1. /\ \E old : Planned(q, old)
        /\ "merged" \notin incidents => Distinct(run[q].list)
    BY <1>4 DEF PlanInv, At
  <2>2. "raced" \in incidents' /\ incidents \subseteq incidents'
    BY <1>1, <1>4 DEF Note, At
  <2>3. \A old : Planned(q, old) => Planned(q, old)'
    BY <1>1, <1>3, <2>2 DEF Planned
  <2> QED
    BY <1>1, <2>1, <2>2, <2>3
<1>5. PlanInv'
  BY <1>1, <1>4 DEF PlanInv, At
<1> QED
  BY <1>2, <1>3, <1>5

\* Incidents are never forgotten, and a change of the interface is one.
LEMMA UndisturbedBefore ==
  ASSUME [Next]_vars, Undisturbed' PROVE Undisturbed /\ ~ UiChanges
<1>1. incidents \subseteq incidents'
  BY DEF Next, vars, executeUpdate, Stop, Step, PostReload, Confirmed, Declined, DownloadFails,
     Download, Transaction, Committed, Success, Catch, SaveOverride, UiChanges, Note
<1>2. ~ UiChanges
  BY DEF UiChanges, Note, Undisturbed
<1> QED
  BY <1>1, <1>2 DEF Undisturbed

LEMMA GroupStep ==
  ASSUME GroupInv, [Next]_vars PROVE GroupInv'
<1>1. RunTypes /\ RunTypes'
  BY RunTypesStep DEF GroupInv
<1> SUFFICES ASSUME Undisturbed' PROVE HoldInv' /\ UiInv' /\ RowsInv' /\ PlanInv'
  BY <1>1 DEF GroupInv
<1>2. HoldInv /\ UiInv /\ RowsInv /\ PlanInv /\ ~ UiChanges
  BY UndisturbedBefore DEF GroupInv
<1>3. CASE UNCHANGED vars
  <2>1. HoldInv' /\ UiInv' /\ RowsInv'
    BY <1>2, <1>3 DEF HoldInv, UiInv, RowsInv, Holding, vars
  <2>2. \A q \in Runs : \A old : Planned(q, old) => Planned(q, old)'
    BY <1>3 DEF Planned, vars
  <2>3. run' = run /\ incidents' = incidents
    BY <1>3 DEF vars
  <2>4. PlanInv'
    BY <1>2, <2>2, <2>3 DEF PlanInv, At
  <2> QED
    BY <2>1, <2>4
<1>4. CASE \E r \in Runs : executeUpdate(r)
  BY <1>1, <1>2, <1>4, Started
<1>5. CASE \E r \in Runs : Download(r)
  BY <1>1, <1>2, <1>5, Downloaded
<1>6. CASE \E r \in Runs : Transaction(r) /\ ~ Cancelled(r)
  BY <1>1, <1>2, <1>6, TransactionStores
<1>7. CASE \E r \in Runs : \/ PostReload(r) \/ Confirmed(r) \/ Declined(r) \/ DownloadFails(r)
                           \/ Committed(r) \/ Success(r) \/ Catch(r)
                           \/ (Transaction(r) /\ Cancelled(r))
  BY <1>1, <1>2, <1>7, QuietSteps
<1>8. CASE \E r \in Runs : Stop(r)
  BY <1>1, <1>2, <1>8, Stopped
<1>9. CASE \E e \in db : SaveOverride(e)
  BY <1>1, <1>2, <1>9, Overridden
<1> QED
  BY <1>2, <1>3, <1>4, <1>5, <1>6, <1>7, <1>8, <1>9 DEF Next, Step

LEMMA GroupInvariant == Spec => []GroupInv
  BY GroupStart, GroupStep, PTL DEF Spec

\* A reservation has a holder that will free it, an update that was not refused
\* and has not ended, as long as no worker has been stopped in an update.  Holds
\* whatever the interface does, so that nothing else leaves a group reserved for
\* ever (what ReservationFreed rests on, without any fairness).
ReservedIsHeld ==
  updating = "reserved" => (\E r \in Runs : Holding(r)) \/ "stopped" \in incidents

\* That a run is stopped is an incident.
StopsNoted == "stopped" \notin incidents => \A r \in Runs : ~ run[r].stopped

HeldInv == StopsNoted /\ ReservedIsHeld

LEMMA HeldStep ==
  ASSUME RunTypes, HeldInv, [Next]_vars PROVE HeldInv'
<1>0. run \in [Runs -> RunType] /\ StopsNoted
  BY DEF RunTypes, HeldInv
<1>1. incidents \subseteq incidents'
  BY DEF Next, vars, executeUpdate, Stop, Step, PostReload, Confirmed, Declined, DownloadFails,
     Download, Transaction, Committed, Success, Catch, SaveOverride, UiChanges, Note
<1>2. CASE "stopped" \in incidents'
  BY <1>2 DEF HeldInv, StopsNoted, ReservedIsHeld
<1>3. CASE "stopped" \notin incidents'
  <2>0. /\ "stopped" \notin incidents /\ (\A q \in Runs : ~ run[q].stopped)
        /\ (updating = "reserved" => \E q \in Runs : Holding(q))
    BY <1>1, <1>3 DEF HeldInv, StopsNoted, ReservedIsHeld
  \* What is shown of each step of a run r: the others stay as they are.
  <2>a. ASSUME NEW r \in Runs, \A q \in Runs : q # r => run'[q] = run[q], ~ run'[r].stopped,
               updating' = "free" \/ (updating' = updating /\ (Holding(r) => Holding(r)'))
        PROVE  HeldInv'
    <3>1. StopsNoted'
      BY <2>0, <2>a DEF StopsNoted
    <3>2. ReservedIsHeld'
      BY <2>0, <2>a DEF ReservedIsHeld, Holding
    <3> QED
      BY <3>1, <3>2 DEF HeldInv
  <2>e. ASSUME NEW r \in Runs, End(r)
        PROVE  ~ run'[r].stopped /\ \A q \in Runs : q # r => run'[q] = run[q]
    BY <1>0, <2>e DEF End, Absent
  <2>g. ASSUME NEW r \in Runs, NEW pc, Goto(r, pc)
        PROVE  /\ run'[r].pc = pc /\ ~ run'[r].stopped /\ run'[r].refused = run[r].refused
               /\ \A q \in Runs : q # r => run'[q] = run[q]
    BY <1>0, <2>0, <2>g DEF Goto, RunType
  <2>2. ASSUME NEW r \in Runs, executeUpdate(r) PROVE HeldInv'
    <3>1. PICK b \in BOOLEAN : b = (updating = "reserved")
      BY Zenon
    <3>2. PICK by : run' = [run EXCEPT ![r].pc = "reload", ![r].by = by, ![r].refused = b]
      BY <2>2, <3>1 DEF executeUpdate
    <3>3. /\ run'[r].pc = "reload" /\ run'[r].refused = b /\ ~ run'[r].stopped
          /\ \A q \in Runs : q # r => run'[q] = run[q]
      BY <1>0, <2>0, <3>2 DEF RunType
    <3>4. StopsNoted'
      BY <2>0, <3>3 DEF StopsNoted
    <3>5. CASE updating = "reserved"
      <4>1. PICK q \in Runs : Holding(q)
        BY <2>0, <3>5
      <4>2. q # r
        BY <2>2, <4>1 DEF executeUpdate, At, Holding
      <4>3. ReservedIsHeld'
        BY <3>3, <4>1, <4>2 DEF ReservedIsHeld, Holding
      <4> QED
        BY <3>4, <4>3 DEF HeldInv
    <3>6. CASE updating # "reserved"
      BY <3>1, <3>3, <3>4, <3>6 DEF HeldInv, ReservedIsHeld, Holding
    <3> QED
      BY <3>5, <3>6
  <2>3. ASSUME NEW r \in Runs, PostReload(r) PROVE HeldInv'
    <3>1. CASE Cancelled(r) /\ End(r)
      <4>1. ~ Holding(r) /\ updating' = updating
        BY <2>0, <2>3, <3>1 DEF Cancelled, Holding, PostReload
      <4> QED
        BY <2>a, <2>e, <3>1, <4>1
    <3>2. CASE \E pc \in {"confirm", "download"} : run' = [run EXCEPT ![r].pc = pc, ![r].ui = ui]
      <4>1. PICK pc \in {"confirm", "download"} : run' = [run EXCEPT ![r].pc = pc, ![r].ui = ui]
        BY <3>2
      <4>2. /\ run'[r].pc = pc /\ ~ run'[r].stopped /\ run'[r].refused = run[r].refused
            /\ \A q \in Runs : q # r => run'[q] = run[q]
        BY <1>0, <2>0, <4>1 DEF RunType
      <4>3. updating' = updating /\ (Holding(r) => Holding(r)')
        BY <2>3, <4>1, <4>2 DEF Holding, PostReload
      <4> QED
        BY <2>a, <4>2, <4>3
    <3> QED
      BY <2>3, <3>1, <3>2 DEF PostReload
  <2>4. ASSUME NEW r \in Runs, Confirmed(r) \/ DownloadFails(r) PROVE HeldInv'
    <3>1. PICK pc \in {"download", "catch"} : Goto(r, pc) /\ updating' = updating
      BY <2>4 DEF Confirmed, DownloadFails
    <3>2. Holding(r) => Holding(r)'
      BY <2>g, <3>1 DEF Holding
    <3> QED
      BY <2>a, <2>g, <3>1, <3>2
  <2>5. ASSUME NEW r \in Runs, Download(r) PROVE HeldInv'
    <3>1. PICK list : run' = [run EXCEPT ![r].pc = "commit", ![r].list = list]
      BY <2>5 DEF Download
    <3>2. /\ run'[r].pc = "commit" /\ ~ run'[r].stopped /\ run'[r].refused = run[r].refused
          /\ \A q \in Runs : q # r => run'[q] = run[q]
      BY <1>0, <2>0, <3>1 DEF RunType
    <3>3. updating' = updating /\ (Holding(r) => Holding(r)')
      BY <2>5, <3>2 DEF Holding, Download
    <3> QED
      BY <2>a, <3>2, <3>3
  <2>6. ASSUME NEW r \in Runs, Transaction(r) PROVE HeldInv'
    <3>1. PICK pc \in {"catch", "committed"} : run' = [run EXCEPT ![r].pc = pc, ![r].list = <<>>]
      BY <2>6 DEF Transaction, Leave
    <3>2. /\ run'[r].pc = pc /\ ~ run'[r].stopped /\ run'[r].refused = run[r].refused
          /\ \A q \in Runs : q # r => run'[q] = run[q]
      BY <1>0, <2>0, <3>1 DEF RunType
    <3>3. updating' = updating /\ (Holding(r) => Holding(r)')
      BY <2>6, <3>1, <3>2 DEF Holding, Transaction
    <3> QED
      BY <2>a, <3>2, <3>3
  <2>7. ASSUME NEW r \in Runs, Committed(r) PROVE HeldInv'
    <3>1. CASE Cancelled(r)
      <4>1. Goto(r, "catch") /\ updating' = updating
        BY <2>7, <3>1 DEF Committed
      <4>2. Holding(r) => Holding(r)'
        BY <2>g, <4>1 DEF Holding
      <4> QED
        BY <2>a, <2>g, <4>1, <4>2
    <3>2. CASE ~ Cancelled(r)
      <4>1. Goto(r, "success") /\ updating' = "free"
        BY <2>7, <3>2 DEF Committed
      <4> QED
        BY <2>a, <2>g, <4>1
    <3> QED
      BY <3>1, <3>2
  <2>8. ASSUME NEW r \in Runs, Success(r) PROVE HeldInv'
    <3>1. ~ Holding(r) /\ updating' = updating
      BY <2>8 DEF Success, At, Holding
    <3>2. End(r) \/ Goto(r, "catch")
      BY <2>8 DEF Success
    <3> QED
      BY <2>a, <2>e, <2>g, <3>1, <3>2
  <2>9. ASSUME NEW r \in Runs, Catch(r) PROVE HeldInv'
    <3>1. End(r)
      BY <2>9 DEF Catch
    <3>2. CASE Cancelled(r) /\ run[r].ui = "alive"
      <4>1. ~ Holding(r) /\ updating' = updating
        BY <2>0, <2>9, <3>2 DEF Catch, Cancelled, Holding
      <4> QED
        BY <2>a, <2>e, <3>1, <4>1
    <3>3. CASE ~ (Cancelled(r) /\ run[r].ui = "alive")
      <4>1. updating' = "free"
        BY <2>9, <3>3 DEF Catch
      <4> QED
        BY <2>a, <2>e, <3>1, <4>1
    <3> QED
      BY <3>2, <3>3
  <2>10. ASSUME NEW r \in Runs, Declined(r) PROVE HeldInv'
    <3>1. End(r) /\ updating' = "free"
      BY <2>10 DEF Declined
    <3> QED
      BY <2>a, <2>e, <3>1
  <2>11. ASSUME NEW r \in Runs, Stop(r) PROVE FALSE
    BY <1>3, <2>11 DEF Stop, Note
  <2>12. CASE UNCHANGED <<run, updating>>
    BY <2>0, <2>12 DEF HeldInv, StopsNoted, ReservedIsHeld, Holding
  <2> QED
    BY <2>2, <2>3, <2>4, <2>5, <2>6, <2>7, <2>8, <2>9, <2>10, <2>11, <2>12
       DEF Next, Step, SaveOverride, UiChanges, vars
<1> QED
  BY <1>2, <1>3

\* A reserved group always has an update at work that has not been refused, in
\* whatever order updates are declined, fail or lose their interface: no group
\* is left reserved by an update that is gone.  The exception is a worker that
\* was stopped in an update (SubscriptionUpdater.reconfigureUpdater), which may
\* leave without finishUpdate.
THEOREM ReservedAlwaysHeld == Spec => []ReservedIsHeld
<1>1. Init => HeldInv
  BY DEF Init, HeldInv, ReservedIsHeld, StopsNoted, Absent
<1>2. GroupInv => RunTypes
  BY DEF GroupInv
<1>3. RunTypes /\ HeldInv /\ [Next]_vars => HeldInv'
  BY HeldStep
<1>4. HeldInv => ReservedIsHeld
  BY DEF HeldInv
<1> QED
  BY <1>1, <1>2, <1>3, <1>4, GroupInvariant, PTL DEF Spec

\* Of the updates of a group that have not been refused only one is at work, and
\* it has the group reserved (GroupUpdater.updating), for any number of updates.
THEOREM UpdateAlwaysExclusive == Spec => []Exclusive
<1>1. GroupInv => Exclusive
  BY DEF GroupInv, HoldInv, Holding, Exclusive, Active
<1> QED
  BY <1>1, GroupInvariant, PTL

-----------------------------------------------------------------------------

\* Rows that store a list of distinct names are as many as the list is long.
LEMMA AsManyRows ==
  ASSUME NEW list \in Seq(Profile), Distinct(list), NEW rows, Stores(rows, list)
  PROVE  Cardinality(rows) = Len(list) /\ IsFiniteSet(rows)
<1>0. DOMAIN list = 1..Len(list) /\ Len(list) \in Nat
  OBVIOUS
<1> DEFINE At1(i) == CHOOSE e \in rows : e.name = list[i].name
           b == [i \in 1..Len(list) |-> At1(i)]
<1>1. \A i \in 1..Len(list) : At1(i) \in rows /\ At1(i).name = list[i].name
  BY <1>0 DEF Stores
<1> HIDE DEF At1
<1>2. b \in [1..Len(list) -> rows]
  BY <1>1
<1>3. ASSUME NEW i \in 1..Len(list), NEW k \in 1..Len(list), b[i] = b[k] PROVE i = k
  BY <1>0, <1>1, <1>3 DEF Distinct
<1>4. ASSUME NEW e \in rows PROVE \E i \in 1..Len(list) : b[i] = e
  <2>1. PICK i \in 1..Len(list) : e.name = list[i].name
    BY <1>0 DEF Stores
  <2>2. At1(i) = e
    BY <1>1, <2>1 DEF Stores, OneName
  <2> QED
    BY <2>2
<1> HIDE DEF b
<1>5. b \in Bijection(1..Len(list), rows)
  BY <1>2, <1>3, <1>4 DEF Bijection, Injection, Surjection, IsInjective
<1>6. IsFiniteSet(1..Len(list)) /\ Cardinality(1..Len(list)) = Len(list)
  BY <1>0, FS_Interval
<1>7. ExistsBijection(1..Len(list), rows)
  BY <1>5 DEF ExistsBijection
<1> QED
  BY <1>6, <1>7, FS_Bijection

\* Rows with different names are as many as their names.
LEMMA AsManyNames ==
  ASSUME NEW rows, IsFiniteSet(rows), OneName(rows)
  PROVE  Cardinality({e.name : e \in rows}) = Cardinality(rows)
<1> DEFINE names == {e.name : e \in rows}
           b == [e \in rows |-> e.name]
<1>1. b \in [rows -> names]
  OBVIOUS
<1>2. ASSUME NEW e \in rows, NEW f \in rows, b[e] = b[f] PROVE e = f
  BY <1>2 DEF OneName
<1>3. ASSUME NEW x \in names PROVE \E e \in rows : b[e] = x
  OBVIOUS
<1> HIDE DEF names, b
<1>4. b \in Bijection(rows, names)
  BY <1>1, <1>2, <1>3 DEF Bijection, Injection, Surjection, IsInjective
<1>5. ExistsBijection(rows, names)
  BY <1>4 DEF ExistsBijection
<1>6. Cardinality(names) = Cardinality(rows)
  BY <1>5, FS_Bijection
<1> QED
  BY <1>6 DEF names

\* After a transaction the group holds each name of the list once, and no other;
\* and unless forceResolve has ever given two profiles one name, each profile of
\* the list once, and nothing else (the counts that RawUpdater.doUpdate
\* compares), for every list.  As for ListStored, it is not said of a group that
\* a refused update may have freed under another: one that was declined, or one
\* that may have found the interface gone.
THEOREM ListAlwaysStored == Spec => []ListStored
<1>1. ASSUME GroupInv PROVE ListStored
  <2> SUFFICES ASSUME Undisturbed
               PROVE  /\ {e.name : e \in db} = Names(current) /\ Cardinality(db) = Cardinality(Names(current))
                      /\ "merged" \notin incidents =>
                           /\ Cardinality(db) = Len(current)
                           /\ {<<e.name, e.body>> : e \in db} = {<<p.name, p.body>> : p \in ToSet(current)}
    BY DEF ListStored
  <2>1. PICK list : list = NameMap(current)
    OBVIOUS
  <2>2. /\ current \in Seq(Profile) /\ Stores(db, list)
        /\ "merged" \notin incidents => Distinct(current)
    BY <1>1, <2>1 DEF GroupInv, RowsInv
  <2>3. /\ list \in Seq(Profile) /\ Distinct(list) /\ Names(list) = Names(current)
        /\ Distinct(current) => list = current
    BY <2>1, <2>2, NameMapCorrect
  <2>4. Cardinality(db) = Len(list) /\ IsFiniteSet(db)
    BY <2>2, <2>3, AsManyRows
  <2>5. {e.name : e \in db} = Names(list)
    BY <2>2 DEF Stores, Names
  <2>6. Cardinality({e.name : e \in db}) = Cardinality(db)
    BY <2>2, <2>4, AsManyNames DEF Stores
  <2>7. ToSet(list) = {list[i] : i \in DOMAIN list}
    BY DEF ToSet
  <2>8. {<<e.name, e.body>> : e \in db} = {<<p.name, p.body>> : p \in ToSet(list)}
    BY <2>2, <2>7 DEF Stores
  <2> QED
    BY <2>2, <2>3, <2>4, <2>5, <2>6, <2>8
<1> QED
  BY <1>1, GroupInvariant, PTL

\* A stored profile that is still in the list keeps its row and its override in
\* every step of every update, unless the override was saved between the reading
\* of the rows and the transaction.
THEOREM StoredAlwaysKept == Spec => StoredIsKept
<1> DEFINE Kept == Undisturbed' /\ "raced" \notin incidents' =>
              \A e \in db : e.name \in Names(current') =>
                \E f \in db' : f.id = e.id /\ f.name = e.name /\ f.custom \in {e.custom, "mine"}
<1>1. ASSUME GroupInv, [Next]_vars PROVE Kept
  <2> SUFFICES ASSUME Undisturbed', "raced" \notin incidents', NEW e \in db, e.name \in Names(current')
               PROVE  \E f \in db' : f.id = e.id /\ f.name = e.name /\ f.custom \in {e.custom, "mine"}
    OBVIOUS
  <2>1. RunTypes /\ HoldInv /\ UiInv /\ RowsInv /\ PlanInv
    BY <1>1, UndisturbedBefore DEF GroupInv
  <2>2. CASE \E r \in Runs : Transaction(r) /\ ~ Cancelled(r)
    <3>1. PICK r \in Runs : Transaction(r) /\ ~ Cancelled(r)
      BY <2>2
    <3>2. "raced" \notin incidents
      BY <3>1 DEF Transaction
    <3>3. \E f \in db' : f.id = e.id /\ f.name = e.name /\ f.custom = e.custom
      BY <2>1, <3>1, <3>2, TransactionStores
    <3> QED
      BY <3>3
  <2>3. CASE \E g \in db : SaveOverride(g)
    <3>1. PICK y \in db' : Same(e, y) /\ y.custom \in {e.custom, "mine"}
      BY <2>1, <2>3, SavedRow
    <3> QED
      BY <3>1 DEF Same
  <2>4. CASE /\ ~ \E r \in Runs : Transaction(r) /\ ~ Cancelled(r)
             /\ ~ \E g \in db : SaveOverride(g)
    <3>1. db' = db
      BY <1>1, <2>4 DEF Next, vars, executeUpdate, Stop, Step, PostReload, Confirmed, Declined,
         DownloadFails, Download, Transaction, Committed, Success, Catch, UiChanges
    <3> QED
      BY <3>1
  <2> QED
    BY <2>2, <2>3, <2>4
<1>2. GroupInv /\ [Next]_vars => [Kept]_vars
  BY <1>1
<1> HIDE DEF Kept
<1>3. Spec => [][Kept]_vars
  BY <1>2, GroupInvariant, PTL DEF Spec
<1> QED
  BY <1>3 DEF Kept, StoredIsKept
=============================================================================
