------------------------ MODULE TrafficLooperProofs ------------------------
(***************************************************************************)
(* The accounting of traffic, for any number of sessions, profiles, tags   *)
(* and bytes: every counted byte reaches one looper, and the database is   *)
(* never credited with more than was carried.                              *)
(***************************************************************************)
EXTENDS TrafficLooper, WellFoundedInduction, TLAPS

-----------------------------------------------------------------------------
(* Sums over the instances.  Induction is stated with a set in the place of *)
(* the predicate.                                                           *)

LEMMA Induction ==
  ASSUME NEW T, 0 \in T, \A n \in 1..Sessions : n - 1 \in T => n \in T
  PROVE  \A n \in 0..Sessions : n \in T
<1> SUFFICES ASSUME (0..Sessions) \ T # {} PROVE FALSE
  OBVIOUS
<1> DEFINE R == OpToRel(<, Nat)
           Rest == (0..Sessions) \ T
<1>1. IsWellFoundedOn(R, Nat)
  BY NatLessThanWellFounded
<1>2. \A x, y \in Nat : x < y => <<x, y>> \in R
  BY DEF OpToRel
<1>3. Rest \in SUBSET Nat /\ Rest # {}
  BY TrafficAssumption
<1> HIDE DEF R
<1>4. PICK m \in Rest : \A k \in Rest : ~ (<<k, m>> \in R)
  BY <1>1, <1>3, WFMin
<1>5. m \in 1..Sessions /\ m - 1 \in 0..Sessions /\ m - 1 < m
  BY <1>4, TrafficAssumption
<1>6. m - 1 \notin Rest
  BY <1>2, <1>3, <1>4, <1>5
<1> QED
  BY <1>4, <1>5, <1>6

Terms == [Instances -> Int]

\* g holds the sums of the first values of f, up to the n-th.
Accumulates(g, f, n) ==
  g \in [0..n -> Int] /\ g[0] = 0 /\ \A m \in 1..n : g[m] = g[m - 1] + f[m]

LEMMA SumsExist ==
  ASSUME NEW f \in Terms
  PROVE  \E g : Accumulates(g, f, Sessions)
<1> DEFINE T == {n \in 0..Sessions : \E g : Accumulates(g, f, n)}
<1>1. 0 \in T
  <2>1. Accumulates([m \in 0..0 |-> 0], f, 0)
    BY DEF Accumulates
  <2> QED
    BY <2>1, TrafficAssumption
<1>2. ASSUME NEW n \in 1..Sessions, n - 1 \in T PROVE n \in T
  <2>1. PICK g : Accumulates(g, f, n - 1)
    BY <1>2
  <2>2. n - 1 \in 0..(n - 1) /\ f[n] \in Int /\ n \in Nat /\ n - 1 \in Nat
    BY TrafficAssumption DEF Terms, Instances
  <2> DEFINE v == g[n - 1] + f[n]
             h == [m \in 0..n |-> IF m <= n - 1 THEN g[m] ELSE v]
  <2>3. v \in Int
    BY <2>1, <2>2 DEF Accumulates
  <2>4. h \in [0..n -> Int] /\ h[0] = 0
    <3> HIDE DEF v
    <3> QED
      BY <2>1, <2>2, <2>3 DEF Accumulates
  <2>5. (\A m \in 0..(n - 1) : h[m] = g[m]) /\ h[n] = v
    BY <2>2
  <2> HIDE DEF h
  <2>6. ASSUME NEW m \in 1..n PROVE h[m] = h[m - 1] + f[m]
    <3>1. CASE m = n
      BY <2>2, <2>5, <3>1
    <3>2. CASE m # n
      <4>1. m \in 1..(n - 1) /\ m \in 0..(n - 1) /\ m - 1 \in 0..(n - 1)
        BY <2>2, <3>2
      <4> QED
        BY <2>1, <2>5, <4>1 DEF Accumulates
    <3> QED
      BY <3>1, <3>2
  <2>7. Accumulates(h, f, n)
    BY <2>4, <2>6 DEF Accumulates
  <2> QED
    BY <2>7
<1>3. Sessions \in T
  <2> HIDE DEF T
  <2>1. (\A n \in 1..Sessions : n - 1 \in T => n \in T) /\ Sessions \in 0..Sessions
    BY <1>2, TrafficAssumption
  <2> QED
    BY <1>1, <2>1, Induction
<1> QED
  BY <1>3

\* The recursive definition has the meaning it is read with.
LEMMA Sums ==
  ASSUME NEW f \in Terms
  PROVE  /\ PartialSums(f) \in [0..Sessions -> Int]
         /\ PartialSums(f)[0] = 0
         /\ \A n \in 1..Sessions : PartialSums(f)[n] = PartialSums(f)[n - 1] + f[n]
         /\ Sum(f) = PartialSums(f)[Sessions]
         /\ Sum(f) \in Int
<1> DEFINE P == PartialSums(f)
<1>1. PICK g : Accumulates(g, f, Sessions)
  BY SumsExist
<1>2. g = [n \in 0..Sessions |-> IF n = 0 THEN 0 ELSE g[n - 1] + f[n]]
  BY <1>1, TrafficAssumption DEF Accumulates
<1>3. P = [n \in 0..Sessions |-> IF n = 0 THEN 0 ELSE P[n - 1] + f[n]]
  BY <1>2, Zenon DEF PartialSums
<1> HIDE DEF P
<1>4. P[0] = 0 /\ \A n \in 1..Sessions : P[n] = P[n - 1] + f[n]
  BY <1>3, TrafficAssumption
<1> DEFINE T == {n \in 0..Sessions : P[n] \in Int}
<1>5. 0 \in T
  BY <1>4, TrafficAssumption
<1>6. ASSUME NEW n \in 1..Sessions, n - 1 \in T PROVE n \in T
  <2>1. f[n] \in Int /\ P[n - 1] \in Int /\ n \in 0..Sessions
    BY <1>6, TrafficAssumption DEF Terms, Instances
  <2> QED
    BY <1>4, <2>1
<1>7. \A n \in 0..Sessions : n \in T
  <2> HIDE DEF T
  <2>1. \A n \in 1..Sessions : n - 1 \in T => n \in T
    BY <1>6
  <2> QED
    BY <1>5, <2>1, Induction
<1>8. P \in [0..Sessions -> Int]
  BY <1>3, <1>7
<1>9. P[Sessions] \in Int
  BY <1>7, TrafficAssumption
<1> QED
  BY <1>4, <1>8, <1>9 DEF P, Sum

\* A sum grows with its terms.
LEMMA SumMonotone ==
  ASSUME NEW f \in Terms, NEW g \in Terms, \A i \in Instances : f[i] <= g[i]
  PROVE  Sum(f) <= Sum(g)
<1> DEFINE P == PartialSums(f)
           Q == PartialSums(g)
           T == {n \in 0..Sessions : P[n] <= Q[n]}
<1>1. /\ P \in [0..Sessions -> Int] /\ P[0] = 0 /\ Sum(f) = P[Sessions]
      /\ \A n \in 1..Sessions : P[n] = P[n - 1] + f[n]
  BY Sums
<1>2. /\ Q \in [0..Sessions -> Int] /\ Q[0] = 0 /\ Sum(g) = Q[Sessions]
      /\ \A n \in 1..Sessions : Q[n] = Q[n - 1] + g[n]
  BY Sums
<1> HIDE DEF P, Q
<1>3. 0 \in T
  BY <1>1, <1>2, TrafficAssumption
<1>4. ASSUME NEW n \in 1..Sessions, n - 1 \in T PROVE n \in T
  <2>1. n \in 0..Sessions /\ n - 1 \in 0..Sessions /\ f[n] \in Int /\ g[n] \in Int
        /\ f[n] <= g[n]
    BY TrafficAssumption DEF Terms, Instances
  <2>2. P[n - 1] \in Int /\ Q[n - 1] \in Int /\ P[n - 1] <= Q[n - 1]
    BY <1>1, <1>2, <1>4, <2>1
  <2>3. P[n] = P[n - 1] + f[n] /\ Q[n] = Q[n - 1] + g[n]
    BY <1>1, <1>2
  <2>4. P[n] <= Q[n]
    BY <2>1, <2>2, <2>3
  <2> QED
    BY <2>1, <2>4
<1>5. Sessions \in T
  <2> HIDE DEF T
  <2>1. (\A n \in 1..Sessions : n - 1 \in T => n \in T) /\ Sessions \in 0..Sessions
    BY <1>4, TrafficAssumption
  <2> QED
    BY <1>3, <2>1, Induction
<1> QED
  BY <1>1, <1>2, <1>5

\* A sum changes by what its one changed term changes by.
LEMMA SumChange ==
  ASSUME NEW f \in Terms, NEW g \in Terms, NEW i \in Instances,
         \A j \in Instances : j # i => g[j] = f[j]
  PROVE  Sum(g) = Sum(f) + (g[i] - f[i])
<1> DEFINE P == PartialSums(f)
           Q == PartialSums(g)
           Moved(n) == IF n < i THEN 0 ELSE g[i] - f[i]
           T == {n \in 0..Sessions : Q[n] = P[n] + Moved(n)}
<1>0. i \in 1..Sessions /\ f[i] \in Int /\ g[i] \in Int
  BY DEF Terms, Instances
<1>1. /\ P \in [0..Sessions -> Int] /\ P[0] = 0 /\ Sum(f) = P[Sessions]
      /\ \A n \in 1..Sessions : P[n] = P[n - 1] + f[n]
  BY Sums
<1>2. /\ Q \in [0..Sessions -> Int] /\ Q[0] = 0 /\ Sum(g) = Q[Sessions]
      /\ \A n \in 1..Sessions : Q[n] = Q[n - 1] + g[n]
  BY Sums
<1> HIDE DEF P, Q
<1>3. 0 \in T
  BY <1>0, <1>1, <1>2, TrafficAssumption
<1>4. ASSUME NEW n \in 1..Sessions, n - 1 \in T PROVE n \in T
  <2>1. n \in 0..Sessions /\ n - 1 \in 0..Sessions /\ f[n] \in Int /\ g[n] \in Int
    BY TrafficAssumption DEF Terms, Instances
  <2>2. P[n - 1] \in Int /\ Q[n - 1] \in Int /\ Q[n - 1] = P[n - 1] + Moved(n - 1)
    BY <1>1, <1>2, <1>4, <2>1
  <2>3. P[n] = P[n - 1] + f[n] /\ Q[n] = Q[n - 1] + g[n]
    BY <1>1, <1>2
  <2>4. n # i => g[n] = f[n]
    BY DEF Instances
  <2>5. Q[n] = P[n] + Moved(n)
    <3>1. CASE n < i
      BY <1>0, <2>1, <2>2, <2>3, <2>4, <3>1
    <3>2. CASE n = i
      BY <1>0, <2>1, <2>2, <2>3, <3>2
    <3>3. CASE n > i
      BY <1>0, <2>1, <2>2, <2>3, <2>4, <3>3
    <3> QED
      BY <1>0, <2>1, <3>1, <3>2, <3>3
  <2> QED
    BY <2>1, <2>5
<1>5. Sessions \in T
  <2> HIDE DEF T
  <2>1. (\A n \in 1..Sessions : n - 1 \in T => n \in T) /\ Sessions \in 0..Sessions
    BY <1>4, TrafficAssumption
  <2> QED
    BY <1>3, <2>1, Induction
<1>6. ~ (Sessions < i)
  BY <1>0, TrafficAssumption
<1> QED
  BY <1>1, <1>2, <1>5, <1>6

\* A sum of the same number is the number of instances times it, for 0 and 1.
LEMMA SumConstant ==
  ASSUME NEW c \in {0, 1}
  PROVE  Sum([i \in Instances |-> c]) = IF c = 0 THEN 0 ELSE Sessions
<1> DEFINE f == [i \in Instances |-> c]
           P == PartialSums(f)
           T == {n \in 0..Sessions : P[n] = IF c = 0 THEN 0 ELSE n}
<1>0. f \in Terms /\ \A n \in 1..Sessions : f[n] = c
  BY DEF Terms, Instances
<1> HIDE DEF f
<1>1. /\ P \in [0..Sessions -> Int] /\ P[0] = 0 /\ Sum(f) = P[Sessions]
      /\ \A n \in 1..Sessions : P[n] = P[n - 1] + f[n]
  BY <1>0, Sums
<1> HIDE DEF P
<1>2. 0 \in T
  BY <1>1, TrafficAssumption
<1>3. ASSUME NEW n \in 1..Sessions, n - 1 \in T PROVE n \in T
  <2>1. n \in 0..Sessions /\ n - 1 \in 0..Sessions
    BY TrafficAssumption
  <2>2. P[n] = P[n - 1] + c /\ P[n - 1] = IF c = 0 THEN 0 ELSE n - 1
    BY <1>0, <1>1, <1>3
  <2>3. P[n] = IF c = 0 THEN 0 ELSE n
    BY <2>1, <2>2
  <2> QED
    BY <2>1, <2>3
<1>4. Sessions \in T
  <2> HIDE DEF T
  <2>1. (\A n \in 1..Sessions : n - 1 \in T => n \in T) /\ Sessions \in 0..Sessions
    BY <1>3, TrafficAssumption
  <2> QED
    BY <1>2, <2>1, Induction
<1> QED
  BY <1>1, <1>4 DEF f

\* No term of a sum of natural numbers exceeds it.
LEMMA SumTerm ==
  ASSUME NEW f \in Terms, NEW i \in Instances, \A j \in Instances : f[j] >= 0
  PROVE  f[i] <= Sum(f)
<1> DEFINE zero == [j \in Instances |-> 0]
           only == [j \in Instances |-> IF j = i THEN f[i] ELSE 0]
<1>1. zero \in Terms /\ only \in Terms /\ f[i] \in Int
  BY DEF Terms
<1>2. Sum(zero) = 0
  BY SumConstant
<1>3. (\A j \in Instances : j # i => only[j] = zero[j]) /\ only[i] = f[i] /\ zero[i] = 0
  OBVIOUS
<1>4. \A j \in Instances : only[j] <= f[j]
  BY DEF Terms
<1> HIDE DEF zero, only
<1>5. Sum(only) = Sum(zero) + (only[i] - zero[i])
  BY <1>1, <1>3, SumChange
<1>6. Sum(only) <= Sum(f)
  BY <1>1, <1>4, SumMonotone
<1>7. Sum(only) = f[i]
  BY <1>1, <1>2, <1>3, <1>5
<1> QED
  BY <1>6, <1>7

-----------------------------------------------------------------------------
(* The invariant *)

\* The types, without the bounds that follow from the accounting.
Types ==
  /\ proxy \in 0..Sessions
  /\ phase \in [Instances -> {"none", "new", "ready", "launched", "closed"}]
  /\ field \subseteq Instances /\ cancelled \subseteq Instances
  /\ loop \in [Instances -> {"none", "making", "made", "posted", "top", "poll",
                             "delay", "ended"}]
  /\ bound \in [Instances -> 0..Sessions]
  /\ todo \in [Instances -> SUBSET Polled]
  /\ total \in [Instances -> [Ents -> Nat]] /\ base \in [Instances -> [Ents -> Nat]]
  /\ unread \in [Instances -> [Tags -> Nat]]
  /\ carried \in [Instances -> [Tags -> 0..MaxBytes]]
  /\ setCalls \in [Instances -> Nat]
  /\ stored \in [Ents -> Nat] /\ steps \in 0..MaxSteps

\* An instance that is neither new nor closed is data.proxy; its looper is
\* there once it was launched, and one that polls is bound.
LoopersInv ==
  /\ \A i \in Instances : phase[i] \in {"new", "ready", "launched"} => proxy = i
  /\ \A i \in Instances :
       phase[i] \in {"none", "new", "ready"} => loop[i] = "none" /\ bound[i] = 0
  /\ \A i \in Instances : loop[i] = "poll" => bound[i] # 0
  /\ \A i \in Instances : \A e \in Ents : total[i][e] >= base[i][e]

\* The looper of the instance in service, once bound, reads its own core and
\* began with what the database still holds.
OwnBase ==
  \A i \in Instances :
    phase[i] = "launched" /\ bound[i] # 0 => bound[i] = i /\ base[i] = stored

\* What instance j carried for profile e, if it is closed.
ClosedCarried(j, e) == IF phase[j] = "closed" THEN carried[j][TagOf[e]] ELSE 0

\* The database holds no more than what closed instances carried.
StoredBound ==
  \A e \in Exact : stored[e] <= Sum([j \in Instances |-> ClosedCarried(j, e)])

\* The first profile of a tag is one of the tag.
LEMMA LeadOf == \A t \in Polled : Lead(t) \in Ents /\ TagOf[Lead(t)] = t
  BY DEF Lead, Polled

\* The instances are the values of data.proxy other than null.
LEMMA InstanceNumbers ==
  /\ \A i \in Instances : i \in 0..Sessions /\ i # 0
  /\ \A n \in 0..Sessions : n # 0 => n \in Instances
  BY TrafficAssumption DEF Instances

\* What a query does to the totals and to the counters, value by value.
LEMMA QueryEffect ==
  ASSUME Types, NEW i \in Instances, NEW t \in Tags, bound[i] \in Instances, Query(i, t)
  PROVE  /\ total' \in [Instances -> [Ents -> Nat]]
         /\ \A j \in Instances : j # i => total'[j] = total[j]
         /\ \A e \in Ents : total'[i][e] = IF TagOf[e] = t THEN total[i][e] + unread[bound[i]][t]
                                           ELSE total[i][e]
         /\ unread' \in [Instances -> [Tags -> Nat]]
         /\ unread'[bound[i]][t] = 0
         /\ \A b \in Instances : \A u \in Tags :
              b # bound[i] \/ u # t => unread'[b][u] = unread[b][u]
<1> DEFINE d == unread[bound[i]][t]
           X == [e \in Ents |-> IF TagOf[e] = t THEN total[i][e] + d ELSE total[i][e]]
           Y == [unread[bound[i]] EXCEPT ![t] = 0]
<1>1. d \in Nat /\ total[i] \in [Ents -> Nat] /\ unread[bound[i]] \in [Tags -> Nat]
  BY DEF Types
<1>2. total' = [total EXCEPT ![i] = X]
  BY DEF Query
<1>3. unread' = [unread EXCEPT ![bound[i]] = Y]
  BY DEF Query, Types
<1>4. X \in [Ents -> Nat] /\ \A e \in Ents : X[e] = IF TagOf[e] = t THEN total[i][e] + d
                                                  ELSE total[i][e]
  <2> HIDE DEF d
  <2> QED
    BY <1>1
<1>5. Y \in [Tags -> Nat] /\ Y[t] = 0 /\ \A u \in Tags : u # t => Y[u] = unread[bound[i]][u]
  BY <1>1
<1> HIDE DEF X, Y
<1>6. total' \in [Instances -> [Ents -> Nat]] /\ total'[i] = X
      /\ \A j \in Instances : j # i => total'[j] = total[j]
  BY <1>2, <1>4 DEF Types
<1>7. unread' \in [Instances -> [Tags -> Nat]] /\ unread'[bound[i]] = Y
      /\ \A b \in Instances : b # bound[i] => unread'[b] = unread[b]
  BY <1>3, <1>5 DEF Types
<1> QED
  BY <1>4, <1>5, <1>6, <1>7

\* What an update without a query does: the totals of the first profiles and
\* of other tags stay, no total shrinks.
LEMMA NoTimeEffect ==
  ASSUME Types, NEW i \in Instances, NEW t \in Polled, NoTime(i, t)
  PROVE  /\ total' \in [Instances -> [Ents -> Nat]]
         /\ \A j \in Instances : j # i => total'[j] = total[j]
         /\ \A e \in Ents : total'[i][e] >= total[i][e]
         /\ \A e \in Ents : e = Lead(TagOf[e]) => total'[i][e] = total[i][e]
         /\ steps' \in 0..MaxSteps /\ steps' # 0 /\ unread' = unread
<1> DEFINE d == total[i][Lead(t)]
           X == [e \in Ents |-> IF TagOf[e] = t /\ e # Lead(t) THEN total[i][e] + d
                                ELSE total[i][e]]
<1>1. d \in Nat /\ total[i] \in [Ents -> Nat]
  BY LeadOf DEF Types
<1>2. total' = [total EXCEPT ![i] = X]
  BY DEF NoTime
<1>3. X \in [Ents -> Nat]
      /\ (\A e \in Ents : X[e] >= total[i][e])
      /\ (\A e \in Ents : e = Lead(TagOf[e]) => X[e] = total[i][e])
  <2> HIDE DEF d
  <2> QED
    BY <1>1
<1> HIDE DEF X
<1>4. total' \in [Instances -> [Ents -> Nat]] /\ total'[i] = X
      /\ \A j \in Instances : j # i => total'[j] = total[j]
  BY <1>2, <1>3 DEF Types
<1>5. steps' \in 0..MaxSteps /\ steps' # 0 /\ unread' = unread
  BY TrafficAssumption DEF NoTime, Types
<1> QED
  BY <1>3, <1>4, <1>5

\* An update is a query or not, and in both cases reads a bound core.
LEMMA UpdateKinds ==
  ASSUME Types, LoopersInv, NEW i \in Instances, NEW t \in Tags, Update(i, t)
  PROVE  /\ bound[i] \in Instances
         /\ (Query(i, t) /\ steps' = steps) \/ NoTime(i, t)
         /\ t \in Polled /\ todo' \in [Instances -> SUBSET Polled]
         /\ UNCHANGED <<proxy, phase, field, loop, cancelled, bound, base, carried,
                        setCalls, stored>>
<1>1. bound[i] \in 0..Sessions /\ bound[i] # 0
  BY DEF Update, LoopersInv, Types
<1>2. bound[i] \in Instances
  BY <1>1, InstanceNumbers
<1> QED
  BY <1>2 DEF Update, Types

\* What a byte does to the counters.
LEMMA CarryEffect ==
  ASSUME Types, NEW i \in Instances, NEW t \in Tags, Carry(i, t)
  PROVE  /\ carried' \in [Instances -> [Tags -> 0..MaxBytes]]
         /\ unread' \in [Instances -> [Tags -> Nat]]
         /\ carried'[i][t] = carried[i][t] + 1 /\ unread'[i][t] = unread[i][t] + 1
         /\ \A b \in Instances : \A u \in Tags : b # i \/ u # t =>
              carried'[b][u] = carried[b][u] /\ unread'[b][u] = unread[b][u]
<1> DEFINE C == [carried[i] EXCEPT ![t] = carried[i][t] + 1]
           U == [unread[i] EXCEPT ![t] = unread[i][t] + 1]
<1>1. carried[i] \in [Tags -> 0..MaxBytes] /\ unread[i] \in [Tags -> Nat]
  BY DEF Types
<1>2. carried[i][t] + 1 \in 0..MaxBytes /\ unread[i][t] + 1 \in Nat
  BY <1>1, TrafficAssumption DEF Carry
<1>3. carried' = [carried EXCEPT ![i] = C] /\ unread' = [unread EXCEPT ![i] = U]
  BY DEF Carry, Types
<1>4. C \in [Tags -> 0..MaxBytes] /\ C[t] = carried[i][t] + 1
      /\ \A u \in Tags : u # t => C[u] = carried[i][u]
  BY <1>1, <1>2
<1>5. U \in [Tags -> Nat] /\ U[t] = unread[i][t] + 1
      /\ \A u \in Tags : u # t => U[u] = unread[i][u]
  BY <1>1, <1>2
<1> HIDE DEF C, U
<1>6. carried' \in [Instances -> [Tags -> 0..MaxBytes]] /\ carried'[i] = C
      /\ \A b \in Instances : b # i => carried'[b] = carried[b]
  BY <1>3, <1>4 DEF Types
<1>7. unread' \in [Instances -> [Tags -> Nat]] /\ unread'[i] = U
      /\ \A b \in Instances : b # i => unread'[b] = unread[b]
  BY <1>3, <1>5 DEF Types
<1> QED
  BY <1>4, <1>5, <1>6, <1>7

\* Closing an instance whose looper is bound stores that looper's totals.
LEMMA CloseEffect ==
  ASSUME Types, NEW i \in Instances, close(i)
  PROVE  /\ stored' \in [Ents -> Nat]
         /\ stored' = stored \/ (bound[i] # 0 /\ stored' = total[i])
<1>1. total[i] \in [Ents -> Nat] /\ stored \in [Ents -> Nat]
  BY DEF Types
<1>2. CASE i \in field /\ bound[i] # 0
  <2>1. Counted(i) = Ents
    BY <1>2 DEF Counted
  <2>2. stored' = [e \in Ents |-> total[i][e]]
    BY <1>2, <2>1 DEF close
  <2>3. stored' = total[i]
    BY <1>1, <2>2
  <2> QED
    BY <1>1, <1>2, <2>3
<1>3. CASE i \in field /\ bound[i] = 0
  <2>1. Counted(i) = {}
    BY <1>3 DEF Counted
  <2>2. stored' = [e \in Ents |-> stored[e]]
    BY <1>3, <2>1 DEF close
  <2>3. stored' = stored
    BY <1>1, <2>2
  <2> QED
    BY <1>1, <2>3
<1>4. CASE i \notin field
  BY <1>1, <1>4 DEF close
<1> QED
  BY <1>2, <1>3, <1>4

LEMMA TypesStep == Types /\ LoopersInv /\ [Next]_vars => Types'
<1> SUFFICES ASSUME Types, LoopersInv, [Next]_vars PROVE Types'
  OBVIOUS
<1> USE InstanceNumbers DEF Types, Goto, loopVars
<1>1. ASSUME NEW i \in Instances, New(i) PROVE Types'
  BY <1>1 DEF New
<1>2. ASSUME NEW i \in Instances, Load(i) PROVE Types'
  BY <1>2 DEF Load
<1>3. ASSUME NEW i \in Instances, launch(i) PROVE Types'
  BY <1>3 DEF launch
<1>4. ASSUME NEW i \in Instances, close(i) PROVE Types'
  <2>1. stored' \in [Ents -> Nat]
    BY <1>4, CloseEffect
  <2>2. proxy' \in 0..Sessions
    BY <1>4, TrafficAssumption DEF close
  <2>3. field' \subseteq Instances /\ cancelled' \subseteq Instances
    BY <1>4 DEF close
  <2> QED
    BY <1>4, <2>1, <2>2, <2>3 DEF close
<1>5. ASSUME NEW i \in Instances, NEW t \in Tags, Carry(i, t) PROVE Types'
  BY <1>5, CarryEffect DEF Carry
<1>6. ASSUME NEW i \in Instances, Create(i) PROVE Types'
  BY <1>6 DEF Create
<1>7. ASSUME NEW i \in Instances, start(i) \/ Begin(i) \/ Idle(i) \/ Broadcast(i) PROVE Types'
  BY <1>7 DEF start, Begin, Idle, Broadcast
<1>8. ASSUME NEW i \in Instances, Wake(i) PROVE Types'
  BY <1>8 DEF Wake
<1>9. ASSUME NEW i \in Instances, Again(i) PROVE Types'
  BY <1>9 DEF Again
<1>10. ASSUME NEW i \in Instances, Bind(i) PROVE Types'
  <2>1. proxy \in Instances
    BY <1>10 DEF Bind, Loaded
  <2>2. setCalls' \in [Instances -> Nat] /\ bound' \in [Instances -> 0..Sessions]
    BY <1>10, <2>1 DEF Bind
  <2> QED
    BY <1>10, <2>2 DEF Bind
<1>11. ASSUME NEW i \in Instances, NEW t \in Tags, Update(i, t) PROVE Types'
  <2>1. bound[i] \in Instances /\ t \in Polled /\ todo' \in [Instances -> SUBSET Polled]
        /\ UNCHANGED <<proxy, phase, field, loop, cancelled, bound, base, carried,
                       setCalls, stored>>
    BY <1>11, UpdateKinds
  <2>2. CASE Query(i, t) /\ steps' = steps
    BY <2>1, <2>2, QueryEffect
  <2>3. CASE NoTime(i, t)
    BY <2>1, <2>3, NoTimeEffect
  <2> QED
    BY <1>11, <2>2, <2>3, UpdateKinds
<1>12. CASE UNCHANGED vars
  BY <1>12 DEF vars
<1> QED
  BY <1>1, <1>2, <1>3, <1>4, <1>5, <1>6, <1>7, <1>8, <1>9, <1>10, <1>11, <1>12
     DEF Next, Loop

LEMMA LoopersStep ==
  ASSUME Types, LoopersInv, OwnBase, [Next]_vars
  PROVE  LoopersInv' /\ OwnBase'
<1> USE InstanceNumbers DEF Types, LoopersInv, OwnBase, Goto, loopVars
<1>1. ASSUME NEW i \in Instances, New(i) PROVE LoopersInv' /\ OwnBase'
  BY <1>1 DEF New
<1>2. ASSUME NEW i \in Instances, Load(i) PROVE LoopersInv' /\ OwnBase'
  BY <1>2 DEF Load
<1>3. ASSUME NEW i \in Instances, launch(i) PROVE LoopersInv' /\ OwnBase'
  BY <1>3 DEF launch
<1>4. ASSUME NEW i \in Instances, close(i) PROVE LoopersInv' /\ OwnBase'
  <2>1. LoopersInv'
    BY <1>4 DEF close
  <2>2. \A j \in Instances : phase'[j] # "launched"
    BY <1>4 DEF close
  <2> QED
    BY <2>1, <2>2
<1>5. ASSUME NEW i \in Instances, NEW t \in Tags, Carry(i, t) PROVE LoopersInv' /\ OwnBase'
  BY <1>5 DEF Carry
<1>6. ASSUME NEW i \in Instances, Create(i) PROVE LoopersInv' /\ OwnBase'
  BY <1>6 DEF Create
<1>7. ASSUME NEW i \in Instances, start(i) \/ Begin(i) \/ Idle(i) \/ Broadcast(i)
      PROVE  LoopersInv' /\ OwnBase'
  <2>1. loop[i] # "none" /\ UNCHANGED <<proxy, phase, bound, total, base, stored>>
    BY <1>7 DEF start, Begin, Idle, Broadcast
  <2>2. PICK pc \in {"posted", "ended", "top", "delay"} : loop' = [loop EXCEPT ![i] = pc]
    BY <1>7 DEF start, Begin, Idle, Broadcast
  <2> QED
    BY <2>1, <2>2
<1>8. ASSUME NEW i \in Instances, Wake(i) PROVE LoopersInv' /\ OwnBase'
  BY <1>8 DEF Wake
<1>9. ASSUME NEW i \in Instances, Again(i) PROVE LoopersInv' /\ OwnBase'
  BY <1>9 DEF Again
<1>10. ASSUME NEW i \in Instances, Bind(i) PROVE LoopersInv' /\ OwnBase'
  <2>1. proxy \in Instances /\ phase[i] \in {"launched", "closed"}
    BY <1>10 DEF Bind, Loaded
  <2>2. total'[i] = stored /\ base'[i] = stored
        /\ \A j \in Instances : j # i => total'[j] = total[j] /\ base'[j] = base[j]
    BY <1>10 DEF Bind
  <2>3. ASSUME NEW j \in Instances, NEW e \in Ents PROVE total'[j][e] >= base'[j][e]
    <3>1. stored[e] \in Nat /\ total[j][e] >= base[j][e]
      OBVIOUS
    <3>2. CASE j = i
      BY <2>2, <3>1, <3>2
    <3>3. CASE j # i
      BY <2>2, <3>1, <3>3
    <3> QED
      BY <3>2, <3>3
  <2>4. bound'[i] = proxy /\ proxy # 0 /\ loop'[i] = "poll"
        /\ \A j \in Instances : j # i => bound'[j] = bound[j] /\ loop'[j] = loop[j]
    BY <1>10, <2>1 DEF Bind
  <2>5. UNCHANGED <<proxy, phase, stored>>
    BY <1>10 DEF Bind
  <2>6. LoopersInv'
    BY <2>1, <2>3, <2>4, <2>5
  <2>7. OwnBase'
    BY <2>1, <2>2, <2>4, <2>5
  <2> QED
    BY <2>6, <2>7
<1>11. ASSUME NEW i \in Instances, NEW t \in Tags, Update(i, t) PROVE LoopersInv' /\ OwnBase'
  <2>1. bound[i] \in Instances /\ t \in Polled
        /\ UNCHANGED <<proxy, phase, loop, bound, base, stored>>
    BY <1>11, UpdateKinds
  <2>2. \A j \in Instances : \A e \in Ents : total'[j][e] >= base[j][e]
    <3>1. CASE Query(i, t)
      <4> HIDE DEF Types
      <4>1. /\ \A j \in Instances : j # i => total'[j] = total[j]
            /\ \A e \in Ents : total'[i][e] = IF TagOf[e] = t THEN total[i][e] + unread[bound[i]][t]
                                              ELSE total[i][e]
        BY <2>1, <3>1, QueryEffect
      <4>2. unread[bound[i]][t] \in Nat
            /\ \A e \in Ents : total[i][e] \in Nat /\ base[i][e] \in Nat
        BY <2>1 DEF Types
      <4>3. \A e \in Ents : total'[i][e] >= base[i][e]
        BY <4>1, <4>2
      <4> QED
        BY <4>1, <4>3
    <3>2. CASE NoTime(i, t)
      <4> HIDE DEF Types
      <4>1. /\ \A j \in Instances : j # i => total'[j] = total[j]
            /\ \A e \in Ents : total'[i][e] >= total[i][e]
            /\ total' \in [Instances -> [Ents -> Nat]]
        BY <2>1, <3>2, NoTimeEffect
      <4>2. \A e \in Ents : total'[i][e] \in Nat /\ total[i][e] \in Nat /\ base[i][e] \in Nat
        BY <4>1 DEF Types
      <4>3. \A e \in Ents : total'[i][e] >= base[i][e]
        BY <4>1, <4>2
      <4> QED
        BY <4>1, <4>3
    <3> QED
      BY <1>11, <3>1, <3>2, UpdateKinds
  <2> QED
    BY <2>1, <2>2
<1>12. CASE UNCHANGED vars
  BY <1>12 DEF vars
<1> QED
  BY <1>1, <1>2, <1>3, <1>4, <1>5, <1>6, <1>7, <1>8, <1>9, <1>10, <1>11, <1>12
     DEF Next, Loop

-----------------------------------------------------------------------------
(* The accounting *)

AddedBy(b, e) == [i \in Instances |-> Added(i, b, e)]

LEMMA AddedType ==
  ASSUME Types, LoopersInv, NEW b \in Instances, NEW e \in Ents
  PROVE  AddedBy(b, e) \in Terms /\ \A i \in Instances : AddedBy(b, e)[i] >= 0
<1>1. ASSUME NEW i \in Instances PROVE Added(i, b, e) \in Int /\ Added(i, b, e) >= 0
  <2>1. total[i][e] \in Nat /\ base[i][e] \in Nat /\ total[i][e] >= base[i][e]
    BY DEF Types, LoopersInv
  <2> QED
    BY <2>1 DEF Added
<1> QED
  BY <1>1 DEF AddedBy, Terms

\* A step that leaves what the loopers added and the counters as they are
\* keeps the accounting.
LEMMA AccountsKept ==
  ASSUME PolledOnce, UNCHANGED <<carried, unread, steps>>,
         \A i, b \in Instances : \A e \in Ents : Added(i, b, e)' = Added(i, b, e)
  PROVE  PolledOnce'
<1>1. Exact' = Exact
  BY DEF Exact
<1>2. ASSUME NEW b \in Instances, NEW e \in Exact
      PROVE  [i \in Instances |-> Added(i, b, e)'] = [i \in Instances |-> Added(i, b, e)]
  <2>1. e \in Ents
    BY DEF Exact
  <2> QED
    BY <2>1
<1> QED
  BY <1>1, <1>2 DEF PolledOnce

LEMMA CarryAccounts ==
  ASSUME Types, LoopersInv, PolledOnce, NEW i \in Instances, NEW t \in Tags, Carry(i, t)
  PROVE  PolledOnce'
<1>1. Exact' = Exact /\ UNCHANGED <<bound, total, base>>
  BY DEF Exact, Carry, loopVars
<1>2. ASSUME NEW b \in Instances, NEW e \in Exact
      PROVE  carried'[b][TagOf[e]] = unread'[b][TagOf[e]] + Sum(AddedBy(b, e))
  <2>1. e \in Ents /\ TagOf[e] \in Tags
    BY TrafficAssumption DEF Exact
  <2>2. carried[b][TagOf[e]] = unread[b][TagOf[e]] + Sum(AddedBy(b, e))
    BY DEF PolledOnce, AddedBy
  <2>3. Sum(AddedBy(b, e)) \in Int
    BY <2>1, AddedType, Sums
  <2>4. carried[b][TagOf[e]] \in Int /\ unread[b][TagOf[e]] \in Int
    BY <2>1 DEF Types
  <2>5. CASE b = i /\ TagOf[e] = t
    <3>1. carried'[b][TagOf[e]] = carried[b][TagOf[e]] + 1
          /\ unread'[b][TagOf[e]] = unread[b][TagOf[e]] + 1
      BY <2>5, CarryEffect
    <3> QED
      BY <2>2, <2>3, <2>4, <3>1
  <2>6. CASE b # i \/ TagOf[e] # t
    <3>1. carried'[b][TagOf[e]] = carried[b][TagOf[e]]
          /\ unread'[b][TagOf[e]] = unread[b][TagOf[e]]
      BY <2>1, <2>6, CarryEffect
    <3> QED
      BY <2>2, <3>1
  <2> QED
    BY <2>5, <2>6
<1>3. ASSUME NEW b \in Instances, NEW e \in Exact
      PROVE  [j \in Instances |-> Added(j, b, e)'] = AddedBy(b, e)
  BY <1>1 DEF Added, AddedBy
<1> QED
  BY <1>1, <1>2, <1>3 DEF PolledOnce

LEMMA BindAccounts ==
  ASSUME Types, PolledOnce, NEW i \in Instances, Bind(i)
  PROVE  PolledOnce'
<1>1. UNCHANGED <<carried, unread, steps>>
  BY DEF Bind
<1>2. ASSUME NEW j \in Instances, NEW b \in Instances, NEW e \in Ents
      PROVE  Added(j, b, e)' = Added(j, b, e)
  <2>1. CASE j = i
    <3>1. Added(j, b, e) = 0
      BY <2>1, InstanceNumbers DEF Bind, Added
    <3>2. total'[i] = stored /\ base'[i] = stored /\ stored[e] \in Nat
      BY DEF Bind, Types
    <3>3. Added(j, b, e)' = 0
      BY <2>1, <3>2 DEF Added
    <3> QED
      BY <3>1, <3>3
  <2>2. CASE j # i
    BY <2>2 DEF Bind, Added, Types
  <2> QED
    BY <2>1, <2>2
<1> QED
  BY <1>1, <1>2, AccountsKept

LEMMA QueryAccounts ==
  ASSUME Types, LoopersInv, PolledOnce, NEW i \in Instances, NEW t \in Tags,
         Update(i, t), Query(i, t), steps' = steps
  PROVE  PolledOnce'
<1>1. bound[i] \in Instances /\ UNCHANGED <<bound, base, carried>> /\ Exact' = Exact
  BY UpdateKinds DEF Exact
<1>2. /\ total' \in [Instances -> [Ents -> Nat]]
      /\ \A j \in Instances : j # i => total'[j] = total[j]
      /\ \A e \in Ents : total'[i][e] = IF TagOf[e] = t THEN total[i][e] + unread[bound[i]][t]
                                        ELSE total[i][e]
      /\ unread'[bound[i]][t] = 0
      /\ \A b \in Instances : \A u \in Tags :
           b # bound[i] \/ u # t => unread'[b][u] = unread[b][u]
  BY <1>1, QueryEffect
<1>3. ASSUME NEW b \in Instances, NEW e \in Exact
      PROVE  carried'[b][TagOf[e]] = unread'[b][TagOf[e]]
                                       + Sum([j \in Instances |-> Added(j, b, e)'])
  <2> DEFINE g == [j \in Instances |-> Added(j, b, e)']
  <2>1. e \in Ents /\ TagOf[e] \in Tags
    BY TrafficAssumption DEF Exact
  <2>2. carried[b][TagOf[e]] = unread[b][TagOf[e]] + Sum(AddedBy(b, e))
    BY DEF PolledOnce, AddedBy
  <2>3. \A j \in Instances : j # i => g[j] = AddedBy(b, e)[j]
    BY <1>1, <1>2 DEF Added, AddedBy
  <2>4. g[i] = IF bound[i] = b THEN total'[i][e] - base[i][e] ELSE 0
    BY <1>1 DEF Added
  <2>5. AddedBy(b, e)[i] = IF bound[i] = b THEN total[i][e] - base[i][e] ELSE 0
    BY DEF Added, AddedBy
  <2>6. AddedBy(b, e) \in Terms /\ Sum(AddedBy(b, e)) \in Int
    BY <2>1, AddedType, Sums
  <2>7. /\ total[i][e] \in Nat /\ base[i][e] \in Nat /\ unread[b][TagOf[e]] \in Nat
        /\ total'[i][e] \in Nat /\ unread[bound[i]][t] \in Nat
    BY <1>1, <1>2, <2>1 DEF Types
  <2>8. g \in Terms
    <3>1. ASSUME NEW j \in Instances PROVE Added(j, b, e)' \in Int
      <4>1. j # i => Added(j, b, e)' = AddedBy(b, e)[j] /\ AddedBy(b, e)[j] \in Int
        BY <2>3, <2>6 DEF Terms
      <4>2. Added(i, b, e)' = IF bound[i] = b THEN total'[i][e] - base[i][e] ELSE 0
        BY <2>4
      <4> QED
        BY <2>7, <4>1, <4>2
    <3> QED
      BY <3>1 DEF Terms
  <2> HIDE DEF g
  <2>9. Sum(g) = Sum(AddedBy(b, e)) + (g[i] - AddedBy(b, e)[i])
    BY <2>3, <2>6, <2>8, SumChange
  <2>10. CASE b = bound[i] /\ TagOf[e] = t
    <3>1. unread'[b][TagOf[e]] = 0
          /\ g[i] - AddedBy(b, e)[i] = unread[b][TagOf[e]]
      BY <1>2, <2>1, <2>4, <2>5, <2>7, <2>10
    <3> QED
      BY <1>1, <2>2, <2>6, <2>7, <2>9, <3>1 DEF g
  <2>11. CASE b # bound[i] \/ TagOf[e] # t
    <3>1. unread'[b][TagOf[e]] = unread[b][TagOf[e]]
      BY <1>2, <2>1, <2>11
    <3>2. g[i] - AddedBy(b, e)[i] = 0
      BY <1>2, <2>1, <2>4, <2>5, <2>7, <2>11
    <3> QED
      BY <1>1, <2>2, <2>6, <2>9, <3>1, <3>2 DEF g
  <2> QED
    BY <2>10, <2>11
<1> QED
  BY <1>1, <1>3 DEF PolledOnce

LEMMA NoTimeAccounts ==
  ASSUME Types, LoopersInv, PolledOnce, NEW i \in Instances, NEW t \in Tags,
         Update(i, t), NoTime(i, t)
  PROVE  PolledOnce'
<1>1. UNCHANGED <<bound, base, carried>>
  BY UpdateKinds
<1>2. /\ \A j \in Instances : j # i => total'[j] = total[j]
      /\ \A e \in Ents : e = Lead(TagOf[e]) => total'[i][e] = total[i][e]
      /\ steps' # 0 /\ unread' = unread
  BY UpdateKinds, NoTimeEffect
<1>3. ASSUME NEW e \in Exact' PROVE e \in Exact /\ e = Lead(TagOf[e])
  BY <1>2, <1>3 DEF Exact, Lead
<1>4. ASSUME NEW b \in Instances, NEW e \in Exact'
      PROVE  [j \in Instances |-> Added(j, b, e)'] = [j \in Instances |-> Added(j, b, e)]
  <2>1. e \in Ents /\ \A j \in Instances : total'[j][e] = total[j][e]
    BY <1>2, <1>3 DEF Exact
  <2> QED
    BY <1>1, <2>1 DEF Added
<1> QED
  BY <1>1, <1>2, <1>3, <1>4 DEF PolledOnce

LEMMA AccountsStep ==
  Types /\ LoopersInv /\ PolledOnce /\ [Next]_vars => PolledOnce'
<1> SUFFICES ASSUME Types, LoopersInv, PolledOnce, [Next]_vars PROVE PolledOnce'
  OBVIOUS
<1>1. CASE UNCHANGED <<bound, total, base, carried, unread, steps>>
  BY <1>1, AccountsKept DEF Added
<1>2. ASSUME NEW i \in Instances, NEW t \in Tags, Update(i, t) PROVE PolledOnce'
  BY <1>2, UpdateKinds, QueryAccounts, NoTimeAccounts
<1> QED
  BY <1>1, <1>2, CarryAccounts, BindAccounts
     DEF Next, Loop, vars, loopVars, New, Load, launch, close, Create, start, Begin, Idle,
         Again, Broadcast, Wake

\* Only a tag that has items is queried.
LEMMA OthersStep ==
  ASSUME Types, LoopersInv, OthersUntaken, [Next]_vars
  PROVE  OthersUntaken'
<1>1. CASE UNCHANGED <<carried, unread>>
  BY <1>1 DEF OthersUntaken, Polled
<1>2. ASSUME NEW i \in Instances, NEW t \in Tags, Carry(i, t) PROVE OthersUntaken'
  <2>1. ASSUME NEW b \in Instances, NEW u \in Tags \ Polled
        PROVE  unread'[b][u] = carried'[b][u]
    <3>1. unread[b][u] = carried[b][u]
      BY DEF OthersUntaken
    <3>2. CASE b = i /\ u = t
      BY <1>2, <3>1, <3>2, CarryEffect
    <3>3. CASE b # i \/ u # t
      BY <1>2, <3>1, <3>3, CarryEffect
    <3> QED
      BY <3>2, <3>3
  <2> QED
    BY <2>1 DEF OthersUntaken, Polled
<1>3. ASSUME NEW i \in Instances, NEW t \in Tags, Update(i, t) PROVE OthersUntaken'
  <2>1. bound[i] \in Instances /\ t \in Polled /\ carried' = carried
    BY <1>3, UpdateKinds
  <2>2. \A b \in Instances : \A u \in Tags \ Polled : unread'[b][u] = unread[b][u]
    BY <1>3, <2>1, UpdateKinds, QueryEffect, NoTimeEffect
  <2> QED
    BY <2>1, <2>2 DEF OthersUntaken, Polled
<1> QED
  BY <1>1, <1>2, <1>3
     DEF Next, Loop, vars, loopVars, New, Load, launch, close, Create, start, Begin, Idle,
         Bind, Again, Broadcast, Wake

-----------------------------------------------------------------------------
(* The database *)

LEMMA ClosedType ==
  ASSUME Types, NEW e \in Ents
  PROVE  /\ [j \in Instances |-> ClosedCarried(j, e)] \in Terms
         /\ [j \in Instances |-> carried[j][TagOf[e]]] \in Terms
         /\ \A j \in Instances : ClosedCarried(j, e) <= carried[j][TagOf[e]]
<1>1. ASSUME NEW j \in Instances
      PROVE  carried[j][TagOf[e]] \in Nat /\ ClosedCarried(j, e) \in Nat
             /\ ClosedCarried(j, e) <= carried[j][TagOf[e]]
  <2>1. carried[j][TagOf[e]] \in Nat
    BY TrafficAssumption DEF Types
  <2> QED
    BY <2>1 DEF ClosedCarried
<1> QED
  BY <1>1 DEF Terms

\* What closed instances carried is no more than what all carried.
LEMMA ClosedBelowCarried ==
  ASSUME Types, NEW e \in Ents
  PROVE  /\ Sum([j \in Instances |-> ClosedCarried(j, e)]) <= CarriedFor(e)
         /\ Sum([j \in Instances |-> ClosedCarried(j, e)]) \in Int /\ CarriedFor(e) \in Int
<1> DEFINE f == [j \in Instances |-> ClosedCarried(j, e)]
           g == [j \in Instances |-> carried[j][TagOf[e]]]
<1>1. f \in Terms /\ g \in Terms /\ \A j \in Instances : f[j] <= g[j]
  BY ClosedType
<1>2. CarriedFor(e) = Sum(g)
  BY DEF CarriedFor
<1> HIDE DEF f, g
<1>3. Sum(f) <= Sum(g) /\ Sum(f) \in Int /\ Sum(g) \in Int
  BY <1>1, SumMonotone, Sums
<1> QED
  BY <1>2, <1>3 DEF f

\* Closing an instance credits a profile with no more than that instance
\* carried for it.
LEMMA CloseCredit ==
  ASSUME Types, LoopersInv, OwnBase, PolledOnce, NEW i \in Instances, close(i),
         NEW e \in Exact
  PROVE  /\ stored'[e] \in Nat /\ stored'[e] >= stored[e]
         /\ stored'[e] <= stored[e] + carried[i][TagOf[e]]
<1>1. e \in Ents /\ TagOf[e] \in Tags
  BY TrafficAssumption DEF Exact
<1>2. /\ stored[e] \in Nat /\ carried[i][TagOf[e]] \in Nat /\ unread[i][TagOf[e]] \in Nat
      /\ total[i][e] \in Nat /\ base[i][e] \in Nat
  BY <1>1 DEF Types
<1>3. CASE stored' = stored
  BY <1>2, <1>3
<1>4. CASE bound[i] # 0 /\ stored' = total[i]
  <2>1. phase[i] = "launched"
    BY <1>4 DEF close, LoopersInv
  <2>2. bound[i] = i /\ base[i] = stored
    BY <1>4, <2>1 DEF OwnBase
  <2>3. carried[i][TagOf[e]] = unread[i][TagOf[e]] + Sum(AddedBy(i, e))
    BY DEF PolledOnce, AddedBy
  <2>4. AddedBy(i, e) \in Terms /\ \A j \in Instances : AddedBy(i, e)[j] >= 0
    BY <1>1, AddedType
  <2>5. AddedBy(i, e)[i] <= Sum(AddedBy(i, e)) /\ Sum(AddedBy(i, e)) \in Int
    BY <2>4, SumTerm, Sums
  <2>6. AddedBy(i, e)[i] = total[i][e] - stored[e]
    BY <2>2 DEF AddedBy, Added
  <2>7. total[i][e] >= stored[e]
    BY <1>1, <2>2 DEF LoopersInv
  <2> QED
    BY <1>2, <1>4, <2>3, <2>5, <2>6, <2>7
<1> QED
  BY <1>3, <1>4, CloseEffect

LEMMA CloseStored ==
  ASSUME Types, LoopersInv, OwnBase, PolledOnce, StoredBound, NEW i \in Instances, close(i)
  PROVE  StoredBound'
<1>1. Exact' = Exact /\ carried' = carried
  BY DEF Exact, close
<1>2. ASSUME NEW e \in Exact
      PROVE  stored'[e] <= Sum([j \in Instances |-> ClosedCarried(j, e)'])
  <2> DEFINE f == [j \in Instances |-> ClosedCarried(j, e)]
             g == [j \in Instances |-> ClosedCarried(j, e)']
  <2>1. e \in Ents /\ TagOf[e] \in Tags
    BY TrafficAssumption DEF Exact
  <2>2. f \in Terms
    BY <2>1, ClosedType
  <2>3. phase[i] # "closed" /\ phase'[i] = "closed"
        /\ \A j \in Instances : j # i => phase'[j] = phase[j]
    BY DEF close, Types
  <2>4. f[i] = 0 /\ g[i] = carried[i][TagOf[e]]
        /\ \A j \in Instances : j # i => g[j] = f[j]
    BY <1>1, <2>3 DEF ClosedCarried
  <2>5. carried[i][TagOf[e]] \in Nat /\ stored[e] \in Nat
    BY <2>1 DEF Types
  <2>6. g \in Terms
    <3>1. ASSUME NEW j \in Instances PROVE g[j] \in Int
      BY <2>2, <2>4, <2>5 DEF Terms
    <3> QED
      BY <3>1 DEF Terms
  <2>7. stored[e] <= Sum(f)
    BY DEF StoredBound
  <2> HIDE DEF f, g
  <2>8. Sum(g) = Sum(f) + (g[i] - f[i]) /\ Sum(f) \in Int
    BY <2>2, <2>4, <2>6, SumChange, Sums
  <2>9. stored'[e] \in Nat /\ stored'[e] <= stored[e] + carried[i][TagOf[e]]
    BY CloseCredit
  <2>10. stored'[e] <= Sum(g)
    BY <2>4, <2>5, <2>7, <2>8, <2>9
  <2> QED
    BY <2>10 DEF g
<1> QED
  BY <1>1, <1>2 DEF StoredBound

LEMMA StoredKept ==
  ASSUME StoredBound, stored' = stored, Exact' \subseteq Exact,
         \A j \in Instances : \A e \in Ents : ClosedCarried(j, e)' = ClosedCarried(j, e)
  PROVE  StoredBound'
<1>1. ASSUME NEW e \in Exact
      PROVE  [j \in Instances |-> ClosedCarried(j, e)'] = [j \in Instances |-> ClosedCarried(j, e)]
  BY DEF Exact
<1> QED
  BY <1>1 DEF StoredBound

\* Only close writes the database.
LEMMA StoredStep ==
  ASSUME Types, LoopersInv, OwnBase, PolledOnce, StoredBound, [Next]_vars
  PROVE  StoredBound' /\ (stored' = stored \/ \E i \in Instances : close(i))
<1>1. CASE UNCHANGED <<phase, carried, stored, steps>>
  <2>1. Exact' = Exact
    BY <1>1 DEF Exact
  <2> QED
    BY <1>1, <2>1, StoredKept DEF ClosedCarried
<1>2. ASSUME NEW i \in Instances, New(i) \/ Load(i) \/ launch(i)
      PROVE  StoredBound' /\ stored' = stored
  <2>1. Exact' = Exact /\ stored' = stored /\ carried' = carried
    BY <1>2 DEF Exact, New, Load, launch
  <2>2. phase[i] # "closed" /\ phase'[i] # "closed"
        /\ \A j \in Instances : j # i => phase'[j] = phase[j]
    BY <1>2 DEF New, Load, launch, Types
  <2>3. \A j \in Instances : \A e \in Ents : ClosedCarried(j, e)' = ClosedCarried(j, e)
    BY <2>1, <2>2 DEF ClosedCarried
  <2> QED
    BY <2>1, <2>3, StoredKept
<1>3. ASSUME NEW i \in Instances, NEW t \in Tags, Carry(i, t)
      PROVE  StoredBound' /\ stored' = stored
  <2>1. Exact' = Exact /\ stored' = stored /\ phase' = phase /\ phase[i] # "closed"
    BY <1>3 DEF Exact, Carry
  <2>2. \A b \in Instances : \A u \in Tags : b # i => carried'[b][u] = carried[b][u]
    BY <1>3, CarryEffect
  <2>3. \A j \in Instances : \A e \in Ents : ClosedCarried(j, e)' = ClosedCarried(j, e)
    BY <2>1, <2>2, TrafficAssumption DEF ClosedCarried
  <2> QED
    BY <2>1, <2>3, StoredKept
<1>4. ASSUME NEW i \in Instances, NEW t \in Tags, Update(i, t)
      PROVE  StoredBound' /\ stored' = stored
  <2>1. UNCHANGED <<phase, carried, stored>>
    BY <1>4, UpdateKinds
  <2>2. steps' = steps \/ steps' # 0
    BY <1>4, UpdateKinds, NoTimeEffect
  <2>3. Exact' \subseteq Exact
    BY <2>2 DEF Exact, Lead
  <2> QED
    BY <2>1, <2>3, StoredKept DEF ClosedCarried
<1>5. ASSUME NEW i \in Instances, close(i) PROVE StoredBound'
  BY <1>5, CloseStored
<1> QED
  BY <1>1, <1>2, <1>3, <1>4, <1>5
     DEF Next, Loop, vars, loopVars, Create, start, Begin, Idle, Bind, Again, Broadcast, Wake

-----------------------------------------------------------------------------
(* The results *)

TrafficInv == Types /\ LoopersInv /\ OwnBase /\ EveryByteOnce /\ StoredBound

LEMMA InitTraffic == Init => TrafficInv
<1> SUFFICES ASSUME Init PROVE TrafficInv
  OBVIOUS
<1> DEFINE zero == [i \in Instances |-> 0]
<1>0. Sum(zero) = 0
  BY SumConstant
<1>1. Types
  <2>1. Zero \in [Ents -> Nat] /\ NoBytes \in [Tags -> Nat] /\ NoBytes \in [Tags -> 0..MaxBytes]
    BY TrafficAssumption DEF Zero, NoBytes
  <2> QED
    BY <2>1, TrafficAssumption DEF Init, Types
<1>2. LoopersInv /\ OwnBase
  BY DEF Init, LoopersInv, OwnBase, Zero
<1>3. ASSUME NEW e \in Ents PROVE stored[e] <= Sum([j \in Instances |-> ClosedCarried(j, e)])
  <2>1. [j \in Instances |-> ClosedCarried(j, e)] = zero
    BY DEF Init, ClosedCarried
  <2> QED
    BY <1>0, <2>1 DEF Init, Zero
<1>4. ASSUME NEW b \in Instances, NEW e \in Ents
      PROVE  carried[b][TagOf[e]] = unread[b][TagOf[e]] + Sum([i \in Instances |-> Added(i, b, e)])
  <2>1. [i \in Instances |-> Added(i, b, e)] = zero
    BY InstanceNumbers DEF Init, Added
  <2>2. carried[b][TagOf[e]] = 0 /\ unread[b][TagOf[e]] = 0
    BY TrafficAssumption DEF Init, NoBytes
  <2> QED
    BY <1>0, <2>1, <2>2
<1>5. OthersUntaken
  BY DEF Init, OthersUntaken, NoBytes
<1> QED
  BY <1>1, <1>2, <1>3, <1>4, <1>5
     DEF TrafficInv, EveryByteOnce, PolledOnce, StoredBound, Exact

LEMMA TrafficStep == TrafficInv /\ [Next]_vars => TrafficInv'
  BY TypesStep, LoopersStep, AccountsStep, OthersStep, StoredStep DEF TrafficInv, EveryByteOnce

LEMMA TrafficInvHolds == Spec => []TrafficInv
  BY InitTraffic, TrafficStep, PTL DEF Spec

\* Every byte a core counts under a tag that has items reaches exactly one
\* looper, and each of these items once, or waits for a query, whatever loopers
\* poll it (updateAll, QueryStats); no other byte is ever taken.  It holds for
\* any number of sessions, profiles and tags, however the profiles are listed
\* under the tags and whichever tag the item of each of them is left with.
THEOREM EveryByteAlwaysOnce == Spec => []EveryByteOnce
<1>1. TrafficInv => EveryByteOnce
  BY DEF TrafficInv
<1> QED
  BY <1>1, TrafficInvHolds, PTL

\* stop never takes back what is stored and never credits a profile with
\* more than was carried under the tag of its item, whenever its instance is
\* closed.
THEOREM StoredAlwaysSound == Spec => StoredIsSound
<1>1. ASSUME TrafficInv, [Next]_vars, NEW e \in Exact
      PROVE  stored'[e] >= stored[e] /\ stored'[e] <= CarriedFor(e)
  <2>0. e \in Ents /\ stored[e] \in Nat
    BY <1>1 DEF Exact, TrafficInv, Types
  <2>1. CASE stored' = stored
    <3>1. stored[e] <= Sum([j \in Instances |-> ClosedCarried(j, e)])
      BY <1>1 DEF TrafficInv, StoredBound
    <3>2. /\ Sum([j \in Instances |-> ClosedCarried(j, e)]) <= CarriedFor(e)
          /\ Sum([j \in Instances |-> ClosedCarried(j, e)]) \in Int /\ CarriedFor(e) \in Int
      BY <1>1, <2>0, ClosedBelowCarried DEF TrafficInv
    <3> QED
      BY <2>0, <2>1, <3>1, <3>2
  <2>2. ASSUME NEW i \in Instances, close(i)
        PROVE  stored'[e] >= stored[e] /\ stored'[e] <= CarriedFor(e)
    <3> DEFINE f == [j \in Instances |-> ClosedCarried(j, e)]
               g == [j \in Instances |-> IF j = i THEN carried[i][TagOf[e]]
                                         ELSE ClosedCarried(j, e)]
               h == [j \in Instances |-> carried[j][TagOf[e]]]
    <3>1. f \in Terms /\ h \in Terms
          /\ \A j \in Instances : ClosedCarried(j, e) <= h[j]
      BY <1>1, <2>0, ClosedType DEF TrafficInv
    <3>2. h[i] \in Int /\ \A j \in Instances : ClosedCarried(j, e) \in Int
      BY <3>1 DEF Terms
    <3>3. g \in Terms /\ (\A j \in Instances : g[j] <= h[j])
      BY <3>1, <3>2 DEF Terms
    <3>4. f[i] = 0 /\ g[i] = carried[i][TagOf[e]] /\ \A j \in Instances : j # i => g[j] = f[j]
      BY <2>2 DEF close, ClosedCarried
    <3>5. stored[e] <= Sum(f)
      BY <1>1 DEF TrafficInv, StoredBound
    <3>6. CarriedFor(e) = Sum(h)
      BY DEF CarriedFor
    <3>7. carried[i][TagOf[e]] \in Int
      BY <3>2
    <3> HIDE DEF f, g, h
    <3>8. Sum(g) = Sum(f) + (g[i] - f[i]) /\ Sum(g) <= Sum(h)
          /\ Sum(f) \in Int /\ Sum(g) \in Int /\ Sum(h) \in Int
      BY <3>1, <3>3, <3>4, SumChange, SumMonotone, Sums
    <3>9. stored'[e] \in Nat /\ stored'[e] >= stored[e]
          /\ stored'[e] <= stored[e] + carried[i][TagOf[e]]
      BY <1>1, <2>2, CloseCredit DEF TrafficInv, EveryByteOnce
    <3> QED
      BY <2>0, <3>4, <3>5, <3>6, <3>7, <3>8, <3>9
  <2> QED
    BY <1>1, <2>1, <2>2, StoredStep DEF TrafficInv, EveryByteOnce
<1>2. TrafficInv /\ [Next]_vars
        => [\A e \in Exact : stored'[e] >= stored[e] /\ stored'[e] <= CarriedFor(e)]_vars
  BY <1>1
<1> QED
  BY <1>2, TrafficInvHolds, PTL DEF Spec, StoredIsSound

-----------------------------------------------------------------------------
(* The bounds of the types *)

\* Whether looper i reads core b, as a number.
Reads(i, b) == IF bound[i] = b THEN 1 ELSE 0

\* A core is told to count once by every looper bound to it.
CallsInv ==
  \A b \in Instances :
    setCalls[b] = Sum([i \in Instances |-> Reads(i, b)])

LEMMA CallsStep == Types /\ CallsInv /\ [Next]_vars => CallsInv'
<1> SUFFICES ASSUME Types, CallsInv, [Next]_vars PROVE CallsInv'
  OBVIOUS
<1>1. CASE UNCHANGED <<bound, setCalls>>
  BY <1>1 DEF CallsInv, Reads
<1>2. ASSUME NEW i \in Instances, Bind(i) PROVE CallsInv'
  <2>1. proxy \in Instances /\ bound[i] = 0
    BY <1>2, InstanceNumbers DEF Bind, Loaded, Types
  <2>2. bound'[i] = proxy /\ \A j \in Instances : j # i => bound'[j] = bound[j]
    BY <1>2 DEF Bind, Types
  <2>3. setCalls'[proxy] = setCalls[proxy] + 1
        /\ \A b \in Instances : b # proxy => setCalls'[b] = setCalls[b]
    BY <1>2, <2>1 DEF Bind, Types
  <2>4. ASSUME NEW b \in Instances
        PROVE  setCalls'[b] = Sum([j \in Instances |-> Reads(j, b)'])
    <3> DEFINE f == [j \in Instances |-> Reads(j, b)]
               g == [j \in Instances |-> Reads(j, b)']
    <3>1. f \in Terms /\ g \in Terms
      BY DEF Terms, Reads
    <3>2. f[i] = 0 /\ g[i] = IF b = proxy THEN 1 ELSE 0
      BY <2>1, <2>2, InstanceNumbers DEF Reads
    <3>3. \A j \in Instances : j # i => g[j] = f[j]
      BY <2>2 DEF Reads
    <3>4. setCalls[b] = Sum(f) /\ setCalls[b] \in Nat
      BY DEF CallsInv, Types
    <3> HIDE DEF f, g
    <3>5. Sum(g) = Sum(f) + (g[i] - f[i])
      BY <3>1, <3>3, SumChange
    <3>6. setCalls'[b] = Sum(g)
      BY <2>3, <3>2, <3>4, <3>5
    <3> QED
      BY <3>6 DEF g
  <2> QED
    BY <2>4 DEF CallsInv
<1>3. ASSUME NEW i \in Instances, NEW t \in Tags, Update(i, t)
      PROVE  UNCHANGED <<bound, setCalls>>
  BY <1>3 DEF Update
<1> QED
  BY <1>1, <1>2, <1>3
     DEF Next, Loop, vars, loopVars, New, Load, launch, close, Carry, Create, start, Begin,
         Idle, Again, Broadcast, Wake

\* The bounds that the accounting gives: no more is unread than was carried,
\* and no core is told to count by more loopers than there are.
LEMMA TypeBounds == TrafficInv /\ CallsInv => TypeOK
<1> SUFFICES ASSUME TrafficInv, CallsInv PROVE TypeOK
  OBVIOUS
<1>1. ASSUME NEW b \in Instances, NEW t \in Tags PROVE unread[b][t] \in 0..MaxBytes
  <2>1. carried[b][t] \in 0..MaxBytes /\ unread[b][t] \in Nat
    BY DEF TrafficInv, Types
  <2>2. CASE t \in Polled
    <3>1. PICK e \in Exact : TagOf[e] = t
      BY <2>2, LeadOf DEF Exact
    <3>2. e \in Ents
      BY DEF Exact
    <3>3. carried[b][t] = unread[b][t] + Sum(AddedBy(b, e))
      BY <3>1 DEF TrafficInv, EveryByteOnce, PolledOnce, AddedBy
    <3>4. AddedBy(b, e) \in Terms /\ \A j \in Instances : AddedBy(b, e)[j] >= 0
      BY <3>2, AddedType DEF TrafficInv
    <3>5. AddedBy(b, e)[b] <= Sum(AddedBy(b, e)) /\ Sum(AddedBy(b, e)) \in Int
          /\ AddedBy(b, e)[b] \in Int /\ AddedBy(b, e)[b] >= 0
      BY <3>4, SumTerm, Sums DEF Terms
    <3> QED
      BY <2>1, <3>3, <3>5, TrafficAssumption
  <2>3. CASE t \notin Polled
    BY <2>1, <2>3 DEF TrafficInv, EveryByteOnce, OthersUntaken
  <2> QED
    BY <2>2, <2>3
<1>2. ASSUME NEW b \in Instances PROVE setCalls[b] \in 0..Sessions
  <2> DEFINE f == [j \in Instances |-> Reads(j, b)]
             one == [j \in Instances |-> 1]
  <2>1. f \in Terms /\ one \in Terms /\ \A j \in Instances : f[j] <= one[j]
    BY DEF Terms, Reads
  <2>2. Sum(one) = Sessions
    BY SumConstant
  <2>3. setCalls[b] = Sum(f) /\ setCalls[b] \in Nat
    BY DEF CallsInv, TrafficInv, Types
  <2> HIDE DEF f, one
  <2>4. Sum(f) <= Sum(one)
    BY <2>1, SumMonotone
  <2> QED
    BY <2>2, <2>3, <2>4, TrafficAssumption
<1>3. unread \in [Instances -> [Tags -> 0..MaxBytes]]
  BY <1>1 DEF TrafficInv, Types
<1>4. setCalls \in [Instances -> 0..Sessions]
  BY <1>2 DEF TrafficInv, Types
<1> QED
  BY <1>3, <1>4 DEF TypeOK, TrafficInv, Types, LoopersInv

\* Type correctness, with the bounds that the accounting implies: a core never
\* holds more unread bytes than it carried, and is told to count at most once
\* per looper.
THEOREM TrafficTypeCorrect == Spec => []TypeOK
<1>1. Init => CallsInv
  <2> SUFFICES ASSUME Init, NEW b \in Instances
               PROVE  setCalls[b] = Sum([i \in Instances |-> Reads(i, b)])
    BY DEF CallsInv
  <2>1. [i \in Instances |-> Reads(i, b)] = [i \in Instances |-> 0]
    BY InstanceNumbers DEF Init, Reads
  <2>2. Sum([i \in Instances |-> 0]) = 0
    BY SumConstant
  <2> QED
    BY <2>1, <2>2 DEF Init
<1>2. TrafficInv /\ CallsInv /\ [Next]_vars => CallsInv'
  BY CallsStep DEF TrafficInv
<1> QED
  BY <1>1, <1>2, TypeBounds, TrafficInvHolds, PTL DEF Spec
=============================================================================
