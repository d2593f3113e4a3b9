---------------------------- MODULE SpoolProofs ----------------------------
(***************************************************************************)
(* Theorems about Spool.tla for every set of daemons and batches and every *)
(* value of the limits.                                                    *)
(***************************************************************************)
EXTENDS SpoolFifo, Integers, FiniteSetTheorems, SequenceTheorems,
        WellFoundedInduction, TLAPS

(***************************************************************************)
(* Facts about finite sets.                                                *)
(*                                                                         *)
(* Sums, as MapThenSumSet of FiniteSetsExt computes them: a fold that      *)
(* takes out one element after the other.  The recursion is well founded,  *)
(* so the fold exists, and the order does not matter.                      *)
(*                                                                         *)
(* Lists: the elements of a set in the order of a number they carry.       *)
(*                                                                         *)
(* Inductions are arguments about a least set that fails.                  *)
(***************************************************************************)
Taken(S) == CHOOSE x \in S : TRUE

IsSum(g, f, S) ==
  g = [s \in SUBSET S |-> IF s = {} THEN 0 ELSE f[Taken(s)] + g[s \ {Taken(s)}]]

(* The sum of f over S. *)
Total(f, S) == (CHOOSE g : IsSum(g, f, S))[S]

-----------------------------------------------------------------------------
LEMMA LeastSet ==
  ASSUME NEW S, IsFiniteSet(S), NEW F \in SUBSET (SUBSET S), F # {}
  PROVE  \E T \in F : \A U \in F : ~(U \subseteq T /\ U # T)
<1> DEFINE R == StrictSubsetOrdering(S)
<1>1. FiniteSubsetsOf(S) = SUBSET S BY FS_FiniteSubsetsOfFinite
<1>2. PICK T \in F : \A U \in F : ~(<<U, T>> \in R)
  <2>1. IsWellFoundedOn(R, SUBSET S) BY <1>1, FS_StrictSubsetOrderingWellFounded
  <2> HIDE DEF R
  <2> QED BY <2>1, WFMin
<1>3. ASSUME NEW U \in F, U \subseteq T, U # T PROVE FALSE
  <2>1. <<U, T>> \in R BY <1>3 DEF StrictSubsetOrdering
  <2> QED BY <1>2, <2>1
<1> QED BY <1>3

LEMMA TakenIsIn == ASSUME NEW S, S # {} PROVE Taken(S) \in S
  BY DEF Taken

LEMMA SumParts ==
  ASSUME NEW S, NEW f, NEW g, IsSum(g, f, S), NEW T \in SUBSET S
  PROVE  /\ T = {} => g[T] = 0
         /\ T # {} => g[T] = f[Taken(T)] + g[T \ {Taken(T)}]
  BY DEF IsSum

(* Two sums of the same numbers agree on what both cover. *)
LEMMA SumUnique ==
  ASSUME NEW S, IsFiniteSet(S), NEW f, NEW T \in SUBSET S,
         NEW g, IsSum(g, f, S), NEW h, IsSum(h, f, T)
  PROVE  g[T] = h[T]
<1> DEFINE Bad == {s \in SUBSET T : g[s] # h[s]}
<1> SUFFICES ASSUME Bad # {} PROVE FALSE
  OBVIOUS
<1>1. Bad \in SUBSET (SUBSET S) OBVIOUS
<1>2. PICK s \in Bad : \A u \in Bad : ~(u \subseteq s /\ u # s)
  <2> HIDE DEF Bad
  <2> QED BY <1>1, LeastSet
<1>3. s \in SUBSET T /\ s \in SUBSET S /\ g[s] # h[s] OBVIOUS
<1>4. s # {} BY <1>3, SumParts
<1> DEFINE u == s \ {Taken(s)}
<1>5. u \in SUBSET T /\ u \subseteq s /\ u # s BY <1>3, <1>4, TakenIsIn
<1>6. g[u] = h[u] BY <1>2, <1>5
<1>7. g[s] = f[Taken(s)] + g[u] /\ h[s] = f[Taken(s)] + h[u] BY <1>3, <1>4, SumParts
<1> QED BY <1>3, <1>6, <1>7

LEMMA SumExists ==
  ASSUME NEW S, IsFiniteSet(S), NEW f
  PROVE  \E g : IsSum(g, f, S)
<1> DEFINE Bad == {T \in SUBSET S : \A g : ~IsSum(g, f, T)}
<1> SUFFICES ASSUME Bad # {} PROVE FALSE
  OBVIOUS
<1>1. Bad \in SUBSET (SUBSET S) OBVIOUS
<1>2. PICK T \in Bad : \A u \in Bad : ~(u \subseteq T /\ u # T)
  <2> HIDE DEF Bad
  <2> QED BY <1>1, LeastSet
<1> DEFINE h == [s \in SUBSET T |-> IF s = {} THEN 0
                                    ELSE f[Taken(s)] + Total(f, s \ {Taken(s)})]
<1>3. ASSUME NEW u \in SUBSET T, u # T
      PROVE  h[u] = Total(f, u)
  <2>1. \E g : IsSum(g, f, u) BY <1>2, <1>3
  <2> DEFINE g == CHOOSE k : IsSum(k, f, u)
  <2>2. IsSum(g, f, u) BY <2>1
  <2>3. Total(f, u) = g[u] BY DEF Total
  <2>4. CASE u = {} BY <2>2, <2>3, <2>4, SumParts
  <2>5. CASE u # {}
    <3> DEFINE v == u \ {Taken(u)}
    <3>1. v \in SUBSET u /\ v # T /\ v \in SUBSET T /\ v \in SUBSET S BY <1>3, <2>5, TakenIsIn
    <3>2. \E k : IsSum(k, f, v) BY <1>2, <3>1
    <3> DEFINE k == CHOOSE j : IsSum(j, f, v)
    <3>3. IsSum(k, f, v) BY <3>2
    <3>4. Total(f, v) = k[v] BY DEF Total
    <3>5. IsFiniteSet(u)
      <4>1. u \subseteq S BY <1>3
      <4> QED BY <4>1, FS_Subset
    <3>6. g[v] = k[v]
      <4> HIDE DEF g, k, v
      <4> QED BY <2>2, <3>1, <3>3, <3>5, SumUnique
    <3>7. g[u] = f[Taken(u)] + g[v]
      <4> HIDE DEF g
      <4> QED BY <2>2, <2>5, SumParts
    <3>8. h[u] = f[Taken(u)] + Total(f, v) BY <2>5
    <3> HIDE DEF h, g, k, v
    <3> QED BY <2>3, <3>4, <3>6, <3>7, <3>8
  <2> QED BY <2>4, <2>5
<1>4. ASSUME NEW s \in SUBSET T
      PROVE  h[s] = IF s = {} THEN 0 ELSE f[Taken(s)] + h[s \ {Taken(s)}]
  <2>1. CASE s = {} BY <2>1
  <2>2. CASE s # {}
    <3>1. s \ {Taken(s)} \in SUBSET T /\ s \ {Taken(s)} # T BY <2>2, TakenIsIn
    <3>2. h[s \ {Taken(s)}] = Total(f, s \ {Taken(s)})
      <4> HIDE DEF h
      <4> QED BY <1>3, <3>1
    <3> QED BY <2>2, <3>2
  <2> QED BY <2>1, <2>2
<1>5. h = [s \in SUBSET T |-> h[s]] OBVIOUS
<1>6. IsSum(h, f, T)
  <2> HIDE DEF h
  <2> QED BY <1>4, <1>5 DEF IsSum
<1> QED BY <1>2, <1>6

-----------------------------------------------------------------------------
(* What the fold computes: nothing of the empty set, and of any other set   *)
(* the element it takes first and the rest.                                *)
LEMMA TotalStep ==
  ASSUME NEW S, IsFiniteSet(S), NEW f
  PROVE  /\ S = {} => Total(f, S) = 0
         /\ S # {} => Total(f, S) = f[Taken(S)] + Total(f, S \ {Taken(S)})
<1> DEFINE g == CHOOSE k : IsSum(k, f, S)
           T == S \ {Taken(S)}
           h == CHOOSE k : IsSum(k, f, T)
<1>1. IsFiniteSet(T) /\ T \in SUBSET S BY FS_Subset
<1>2. IsSum(g, f, S) BY SumExists
<1>3. IsSum(h, f, T)
  <2>1. \E k : IsSum(k, f, T)
    <3> HIDE DEF T
    <3> QED BY <1>1, SumExists
  <2> QED BY <2>1
<1>4. Total(f, S) = g[S] /\ Total(f, T) = h[T] BY DEF Total
<1>5. g[T] = h[T]
  <2> HIDE DEF g, h, T
  <2> QED BY <1>1, <1>2, <1>3, SumUnique
<1>6. /\ S = {} => g[S] = 0
      /\ S # {} => g[S] = f[Taken(S)] + g[T]
  <2> HIDE DEF g
  <2> QED BY <1>2, SumParts
<1> HIDE DEF g, h
<1> QED BY <1>4, <1>5, <1>6

LEMMA TotalType ==
  ASSUME NEW S, IsFiniteSet(S), NEW f, \A x \in S : f[x] \in Nat
  PROVE  Total(f, S) \in Nat
<1> DEFINE Bad == {T \in SUBSET S : Total(f, T) \notin Nat}
<1> SUFFICES ASSUME Bad # {} PROVE FALSE
  OBVIOUS
<1>1. Bad \in SUBSET (SUBSET S) OBVIOUS
<1>2. PICK T \in Bad : \A u \in Bad : ~(u \subseteq T /\ u # T)
  <2> HIDE DEF Bad
  <2> QED BY <1>1, LeastSet
<1>3. T \in SUBSET S /\ IsFiniteSet(T) /\ Total(f, T) \notin Nat BY FS_Subset
<1>4. T # {}
  <2> SUFFICES ASSUME T = {} PROVE FALSE OBVIOUS
  <2>1. Total(f, T) = 0 BY <1>3, TotalStep
  <2> QED BY <1>3, <2>1
<1>5. Taken(T) \in T BY <1>4, TakenIsIn
<1>6. Total(f, T \ {Taken(T)}) \in Nat BY <1>2, <1>5
<1>7. Total(f, T) = f[Taken(T)] + Total(f, T \ {Taken(T)}) BY <1>3, <1>4, TotalStep
<1>8. Total(f, T) \in Nat BY <1>3, <1>5, <1>6, <1>7
<1> QED BY <1>2, <1>8

(* Any element may be taken out first. *)
LEMMA TotalRemove ==
  ASSUME NEW S, IsFiniteSet(S), NEW f, \A x \in S : f[x] \in Nat, NEW e \in S
  PROVE  Total(f, S) = f[e] + Total(f, S \ {e})
<1> DEFINE Bad == {T \in SUBSET S : \E x \in T : Total(f, T) # f[x] + Total(f, T \ {x})}
<1> SUFFICES ASSUME Bad # {} PROVE FALSE
  OBVIOUS
<1>1. Bad \in SUBSET (SUBSET S) OBVIOUS
<1>2. PICK T \in Bad : \A u \in Bad : ~(u \subseteq T /\ u # T)
  <2> HIDE DEF Bad
  <2> QED BY <1>1, LeastSet
<1>3. PICK x \in T : Total(f, T) # f[x] + Total(f, T \ {x}) BY <1>2
<1>4. T \in SUBSET S /\ IsFiniteSet(T) BY FS_Subset
<1> PICK y : y = Taken(T) OBVIOUS
<1>5. y \in T /\ Total(f, T) = f[y] + Total(f, T \ {y}) BY <1>3, <1>4, TakenIsIn, TotalStep
<1>6. x # y BY <1>3, <1>5
<1>7. Total(f, T \ {y}) = f[x] + Total(f, (T \ {y}) \ {x})
  <2>1. T \ {y} \in SUBSET S /\ T \ {y} \subseteq T /\ T \ {y} # T /\ x \in T \ {y}
    BY <1>4, <1>5, <1>6
  <2> QED BY <1>2, <2>1
<1>8. Total(f, T \ {x}) = f[y] + Total(f, (T \ {x}) \ {y})
  <2>1. T \ {x} \in SUBSET S /\ T \ {x} \subseteq T /\ T \ {x} # T /\ y \in T \ {x}
    BY <1>3, <1>4, <1>5, <1>6
  <2> QED BY <1>2, <2>1
<1>9. (T \ {y}) \ {x} = (T \ {x}) \ {y} OBVIOUS
<1>10. Total(f, (T \ {x}) \ {y}) \in Nat /\ f[x] \in Nat /\ f[y] \in Nat
  <2>1. IsFiniteSet((T \ {x}) \ {y}) BY <1>4, FS_Subset
  <2>2. \A z \in (T \ {x}) \ {y} : f[z] \in Nat BY <1>4
  <2> QED BY <1>4, <1>5, <2>1, <2>2, TotalType
<1> PICK rest : rest = Total(f, (T \ {x}) \ {y}) OBVIOUS
<1>11. /\ Total(f, T) = f[y] + (f[x] + rest)
       /\ f[x] + Total(f, T \ {x}) = f[x] + (f[y] + rest)
  <2> HIDE DEF Bad
  <2> QED BY <1>5, <1>7, <1>8, <1>9
<1>12. \A k, m, n \in Nat : k + (m + n) = m + (k + n) OBVIOUS
<1>13. Total(f, T) = f[x] + Total(f, T \ {x})
  <2> HIDE DEF Bad
  <2> QED BY <1>10, <1>11, <1>12
<1> QED BY <1>3, <1>13

(* Only the numbers of the elements count. *)
LEMMA TotalSame ==
  ASSUME NEW S, IsFiniteSet(S), NEW f, NEW g, \A x \in S : f[x] = g[x]
  PROVE  Total(f, S) = Total(g, S)
<1> DEFINE Bad == {T \in SUBSET S : Total(f, T) # Total(g, T)}
<1> SUFFICES ASSUME Bad # {} PROVE FALSE
  OBVIOUS
<1>1. Bad \in SUBSET (SUBSET S) OBVIOUS
<1>2. PICK T \in Bad : \A u \in Bad : ~(u \subseteq T /\ u # T)
  <2> HIDE DEF Bad
  <2> QED BY <1>1, LeastSet
<1>3. T \in SUBSET S /\ IsFiniteSet(T) /\ Total(f, T) # Total(g, T) BY FS_Subset
<1>4. T # {} BY <1>3, TotalStep
<1>5. Taken(T) \in T BY <1>4, TakenIsIn
<1>6. Total(f, T \ {Taken(T)}) = Total(g, T \ {Taken(T)}) BY <1>2, <1>5
<1>7. /\ Total(f, T) = f[Taken(T)] + Total(f, T \ {Taken(T)})
      /\ Total(g, T) = g[Taken(T)] + Total(g, T \ {Taken(T)})
  BY <1>3, <1>4, TotalStep
<1>8. f[Taken(T)] = g[Taken(T)] BY <1>3, <1>5
<1> HIDE DEF Bad
<1> QED BY <1>3, <1>6, <1>7, <1>8

(* Less is not more. *)
LEMMA TotalSubset ==
  ASSUME NEW S, IsFiniteSet(S), NEW f, \A x \in S : f[x] \in Nat, NEW T \in SUBSET S
  PROVE  Total(f, T) <= Total(f, S)
<1> DEFINE Bad == {U \in SUBSET S : T \subseteq U /\ ~(Total(f, T) <= Total(f, U))}
<1> SUFFICES ASSUME Bad # {} PROVE FALSE
  OBVIOUS
<1>1. Bad \in SUBSET (SUBSET S) OBVIOUS
<1>2. PICK U \in Bad : \A u \in Bad : ~(u \subseteq U /\ u # U)
  <2> HIDE DEF Bad
  <2> QED BY <1>1, LeastSet
<1>3. /\ U \in SUBSET S /\ T \subseteq U /\ IsFiniteSet(U) /\ IsFiniteSet(T)
      /\ ~(Total(f, T) <= Total(f, U))
  BY FS_Subset
<1>4. Total(f, T) \in Nat /\ Total(f, U) \in Nat
  <2>1. (\A x \in T : f[x] \in Nat) /\ (\A x \in U : f[x] \in Nat) BY <1>3
  <2> QED BY <1>3, <2>1, TotalType
<1>5. U # T BY <1>3, <1>4
<1>6. PICK x \in U : x \notin T BY <1>3, <1>5
<1>7. /\ U \ {x} \in SUBSET S /\ T \subseteq U \ {x} /\ U \ {x} # U /\ U \ {x} \subseteq U
      /\ IsFiniteSet(U \ {x})
  BY <1>3, <1>6, FS_Subset
<1>8. Total(f, T) <= Total(f, U \ {x}) BY <1>2, <1>7
<1>9. Total(f, U) = f[x] + Total(f, U \ {x})
  <2>1. \A y \in U : f[y] \in Nat BY <1>3
  <2> HIDE DEF Bad
  <2> QED BY <1>3, <1>6, <2>1, TotalRemove
<1>10. Total(f, U \ {x}) \in Nat /\ f[x] \in Nat
  <2>1. \A y \in U \ {x} : f[y] \in Nat BY <1>7
  <2> QED BY <1>3, <1>6, <1>7, <2>1, TotalType
<1> HIDE DEF Bad
<1> QED BY <1>3, <1>4, <1>8, <1>9, <1>10

-----------------------------------------------------------------------------
(* The elements of S that carry less than x, and S as a list in the order   *)
(* of these numbers: the place of an element is how many carry less.        *)
Below(f, S, x) == {c \in S : f[c] < f[x]}

Listed(f, S) ==
  [i \in 1..Cardinality(S) |-> CHOOSE x \in S : Cardinality(Below(f, S, x)) = i - 1]

(* q has the elements of S, each once, in the order of their numbers.      *)
InOrder(q, f, S) ==
  /\ q \in Seq(S)
  /\ \A x \in S : \E i \in 1..Len(q) : q[i] = x
  /\ \A i, j \in 1..Len(q) : i < j => f[q[i]] < f[q[j]]

(* The first k elements of a list are k. *)
LEMMA PrefixCount ==
  ASSUME NEW S, NEW f, \A x \in S : f[x] \in Int, NEW q, InOrder(q, f, S),
         NEW k \in 0..Len(q)
  PROVE  Cardinality({q[j] : j \in 1..k}) = k
<1> DEFINE P == {q[j] : j \in 1..k}
           g == [j \in 1..k |-> q[j]]
<1>1. \A i, j \in 1..Len(q) : i # j => q[i] # q[j]
  <2> SUFFICES ASSUME NEW i \in 1..Len(q), NEW j \in 1..Len(q), i # j PROVE q[i] # q[j]
    OBVIOUS
  <2>1. q[i] \in S /\ q[j] \in S BY DEF InOrder
  <2>2. f[q[i]] < f[q[j]] \/ f[q[j]] < f[q[i]] BY DEF InOrder
  <2> QED BY <2>1, <2>2
<1>2. \A j \in 1..k : j \in 1..Len(q) BY DEF InOrder
<1>3. g \in [1..k -> P] OBVIOUS
<1>4. \A i, j \in 1..k : g[i] = g[j] => i = j BY <1>1, <1>2
<1>5. \A y \in P : \E j \in 1..k : g[j] = y OBVIOUS
<1>6. g \in Bijection(1..k, P)
  <2> HIDE DEF g, P
  <2> QED BY <1>3, <1>4, <1>5 DEF Bijection, Injection, Surjection, IsInjective
<1>7. k \in Nat BY DEF InOrder
<1>8. IsFiniteSet(1..k) /\ Cardinality(1..k) = k
  <2>1. 1 \in Int /\ k \in Int BY <1>7
  <2>2. IsFiniteSet(1..k) /\ Cardinality(1..k) = IF 1 > k THEN 0 ELSE k - 1 + 1
    BY <2>1, FS_Interval
  <2> QED BY <1>7, <2>2
<1>9. ExistsBijection(1..k, P)
  <2> HIDE DEF g, P
  <2> QED BY <1>6 DEF ExistsBijection
<1>10. Cardinality(P) = k
  <2> HIDE DEF P
  <2> QED BY <1>8, <1>9, FS_Bijection
<1> QED BY <1>10

(* There is one such list. *)
LEMMA ListedUnique ==
  ASSUME NEW S, NEW f, \A x \in S : f[x] \in Int, NEW q, InOrder(q, f, S)
  PROVE  Listed(f, S) = q /\ Cardinality(S) = Len(q)
<1>1. q \in Seq(S) /\ Len(q) \in Nat /\ q = [i \in 1..Len(q) |-> q[i]]
  BY LenProperties DEF InOrder
<1>2. Cardinality(S) = Len(q)
  <2>1. S = {q[j] : j \in 1..Len(q)} BY <1>1 DEF InOrder
  <2>2. Len(q) \in 0..Len(q) BY <1>1
  <2> QED BY <2>1, <2>2, PrefixCount
<1>3. ASSUME NEW i \in 1..Len(q)
      PROVE  Cardinality(Below(f, S, q[i])) = i - 1
  <2>0. \A j \in 1..Len(q) : q[j] \in S BY <1>1
  <2>1. Below(f, S, q[i]) \subseteq {q[j] : j \in 1..(i - 1)}
    <3> SUFFICES ASSUME NEW x \in S, f[x] < f[q[i]] PROVE \E j \in 1..(i - 1) : x = q[j]
      BY DEF Below
    <3>1. PICK j \in 1..Len(q) : q[j] = x BY DEF InOrder
    <3>2. ~(i < j) /\ i # j
      <4>1. i < j => f[q[i]] < f[x] BY <3>1 DEF InOrder
      <4> QED BY <2>0, <3>1, <4>1
    <3>3. j \in 1..(i - 1) BY <1>1, <3>2
    <3> QED BY <3>1, <3>3
  <2>2. {q[j] : j \in 1..(i - 1)} \subseteq Below(f, S, q[i])
    <3> SUFFICES ASSUME NEW j \in 1..(i - 1) PROVE q[j] \in S /\ f[q[j]] < f[q[i]]
      BY DEF Below
    <3>1. j \in 1..Len(q) /\ j < i BY <1>1
    <3> QED BY <2>0, <3>1 DEF InOrder
  <2>3. i - 1 \in 0..Len(q) BY <1>1
  <2>4. Below(f, S, q[i]) = {q[j] : j \in 1..(i - 1)} BY <2>1, <2>2
  <2> QED BY <2>3, <2>4, PrefixCount
<1>4. ASSUME NEW i \in 1..Len(q)
      PROVE  (CHOOSE x \in S : Cardinality(Below(f, S, x)) = i - 1) = q[i]
  <2>1. q[i] \in S BY <1>1
  <2>2. ASSUME NEW x \in S, Cardinality(Below(f, S, x)) = i - 1 PROVE x = q[i]
    <3>1. PICK j \in 1..Len(q) : q[j] = x BY DEF InOrder
    <3>2. Cardinality(Below(f, S, x)) = j - 1 BY <1>3, <3>1
    <3> QED BY <1>1, <2>2, <3>1, <3>2
  <2> QED BY <1>3, <2>1, <2>2
<1> QED BY <1>1, <1>2, <1>4 DEF Listed

(* A new largest element goes to the end. *)
LEMMA OrderAppend ==
  ASSUME NEW S, NEW f, NEW q, InOrder(q, f, S), NEW m, \A x \in S : f[x] < f[m]
  PROVE  InOrder(Append(q, m), f, S \cup {m})
<1> DEFINE T == S \cup {m}
           r == Append(q, m)
<1>1. q \in Seq(S) /\ Len(q) \in Nat /\ \A i \in 1..Len(q) : q[i] \in S
  BY LenProperties DEF InOrder
<1>2. q \in Seq(T) /\ m \in T BY <1>1
<1>3. /\ r \in Seq(T) /\ Len(r) = Len(q) + 1
      /\ \A i \in 1..Len(q) : r[i] = q[i]
      /\ r[Len(q) + 1] = m
  BY <1>2, AppendProperties
<1>4. \A x \in T : \E i \in 1..Len(r) : r[i] = x
  <2>1. \A x \in S : \E i \in 1..Len(q) : q[i] = x BY DEF InOrder
  <2> HIDE DEF r
  <2> QED BY SMTT(30), <1>1, <1>3, <2>1
<1>5. ASSUME NEW i \in 1..Len(r), NEW j \in 1..Len(r), i < j PROVE f[r[i]] < f[r[j]]
  <2> HIDE DEF r
  <2>1. i \in 1..Len(q) BY <1>1, <1>3, <1>5
  <2>2. CASE j \in 1..Len(q) BY <1>3, <1>5, <2>1, <2>2 DEF InOrder
  <2>3. CASE j = Len(q) + 1 BY <1>1, <1>3, <2>1, <2>3
  <2> QED BY <1>1, <1>3, <2>2, <2>3
<1>6. InOrder(r, f, T)
  <2> HIDE DEF r, T
  <2> QED BY <1>3, <1>4, <1>5 DEF InOrder
<1> QED BY <1>6

(* Numbers that differ make a list possible. *)
LEMMA ListExists ==
  ASSUME NEW S, IsFiniteSet(S), NEW f, \A x \in S : f[x] \in Int,
         \A x, y \in S : f[x] = f[y] => x = y
  PROVE  \E q : InOrder(q, f, S)
<1> DEFINE Bad == {T \in SUBSET S : ~\E q : InOrder(q, f, T)}
<1> SUFFICES ASSUME Bad # {} PROVE FALSE
  OBVIOUS
<1>1. Bad \in SUBSET (SUBSET S) OBVIOUS
<1>2. PICK T \in Bad : \A u \in Bad : ~(u \subseteq T /\ u # T)
  <2> HIDE DEF Bad
  <2> QED BY <1>1, LeastSet
<1>3. T \in SUBSET S /\ ~\E q : InOrder(q, f, T) OBVIOUS
<1>4. T # {}
  <2>1. InOrder(<<>>, f, {}) BY DEF InOrder
  <2> QED BY <1>3, <2>1
<1> DEFINE Above(x) == {y \in T : f[x] < f[y]}
           F == {Above(x) : x \in T}
<1>5. \E m \in T : \A x \in T : ~(Above(x) \subseteq Above(m) /\ Above(x) # Above(m))
  <2>1. F \in SUBSET (SUBSET T) /\ F # {}
    <3>1. \A x \in T : Above(x) \in SUBSET T OBVIOUS
    <3>2. PICK x \in T : TRUE BY <1>4
    <3> HIDE DEF Above, Bad
    <3>3. F \in SUBSET (SUBSET T) BY <3>1
    <3>4. Above(x) \in F BY <3>2
    <3> QED BY <3>3, <3>4
  <2>2. IsFiniteSet(T) BY <1>3, FS_Subset
  <2>3. PICK A \in F : \A u \in F : ~(u \subseteq A /\ u # A)
    <3> HIDE DEF F
    <3> QED BY <2>1, <2>2, LeastSet
  <2>4. PICK m \in T : A = Above(m) BY <2>3
  <2>5. \A x \in T : Above(x) \in F OBVIOUS
  <2> HIDE DEF F, Above
  <2> QED BY <2>3, <2>4, <2>5
<1>51. PICK m \in T : \A x \in T : ~(Above(x) \subseteq Above(m) /\ Above(x) # Above(m))
  BY <1>5
<1>6. \A x \in T \ {m} : f[x] < f[m]
  <2> SUFFICES ASSUME NEW x \in T, x # m, ~(f[x] < f[m]) PROVE FALSE
    OBVIOUS
  <2>1. f[x] \in Int /\ f[m] \in Int /\ f[x] # f[m] BY <1>3
  <2>2. f[m] < f[x] BY <2>1
  <2>3. x \in Above(m) /\ x \notin Above(x) BY <2>1, <2>2
  <2>4. \A y \in Above(x) : y \in Above(m)
    <3> SUFFICES ASSUME NEW y \in T, f[x] < f[y] PROVE f[m] < f[y] OBVIOUS
    <3>1. f[y] \in Int BY <1>3
    <3> QED BY <2>1, <2>2, <3>1
  <2> HIDE DEF Above
  <2> QED BY <1>51, <2>3, <2>4
<1>7. T \ {m} \in SUBSET S /\ T \ {m} \subseteq T /\ T \ {m} # T BY <1>3
<1>8. PICK q : InOrder(q, f, T \ {m}) BY <1>2, <1>7
<1>9. InOrder(Append(q, m), f, (T \ {m}) \cup {m})
  <2> HIDE DEF Above, Bad
  <2> QED BY <1>6, <1>8, OrderAppend
<1>10. (T \ {m}) \cup {m} = T OBVIOUS
<1> HIDE DEF Bad
<1> QED BY <1>3, <1>9, <1>10

LEMMA ListedInOrder ==
  ASSUME NEW S, IsFiniteSet(S), NEW f, \A x \in S : f[x] \in Int,
         \A x, y \in S : f[x] = f[y] => x = y
  PROVE  InOrder(Listed(f, S), f, S) /\ Len(Listed(f, S)) = Cardinality(S)
  BY ListExists, ListedUnique

(* Without its i-th element a list lists the others. *)
Without(q, i) == SubSeq(q, 1, i - 1) \o SubSeq(q, i + 1, Len(q))

LEMMA OrderWithout ==
  ASSUME NEW S, NEW f, \A x \in S : f[x] \in Int, NEW q, InOrder(q, f, S),
         NEW i \in 1..Len(q)
  PROVE  InOrder(Without(q, i), f, S \ {q[i]})
<1> DEFINE T == S \ {q[i]}
           a == SubSeq(q, 1, i - 1)
           b == SubSeq(q, i + 1, Len(q))
           r == Without(q, i)
<1>1. Len(q) \in Nat /\ \A j \in 1..Len(q) : q[j] \in S
  BY LenProperties DEF InOrder
<1>2. \A j \in 1..Len(q) : j # i => q[j] \in T
  <2> SUFFICES ASSUME NEW j \in 1..Len(q), j # i PROVE q[j] # q[i]
    BY <1>1
  <2>1. f[q[i]] < f[q[j]] \/ f[q[j]] < f[q[i]] BY DEF InOrder
  <2>2. f[q[i]] \in Int /\ f[q[j]] \in Int BY <1>1
  <2> QED BY <2>1, <2>2
<1>3. /\ a \in Seq(T) /\ Len(a) = i - 1
      /\ \A j \in 1..(i - 1) : a[j] = q[j]
  <2>1. \A j \in 1..(i - 1) : q[j] \in T BY <1>1, <1>2
  <2>2. 1 \in Int /\ i - 1 \in Int BY <1>1
  <2>3. /\ a \in Seq(T) /\ Len(a) = IF 1 <= i - 1 THEN (i - 1) - 1 + 1 ELSE 0
        /\ \A j \in 1 .. (i - 1) - 1 + 1 : a[j] = q[1 + j - 1]
    <3> HIDE DEF T
    <3> QED BY <2>1, <2>2, SubSeqProperties
  <2> HIDE DEF a
  <2> QED BY <1>1, <2>3
<1>4. /\ b \in Seq(T) /\ Len(b) = Len(q) - i
      /\ \A j \in 1..(Len(q) - i) : b[j] = q[i + j]
  <2>1. \A j \in (i + 1)..Len(q) : q[j] \in T BY <1>1, <1>2
  <2>2. i + 1 \in Int /\ Len(q) \in Int BY <1>1
  <2>3. /\ b \in Seq(T) /\ Len(b) = IF i + 1 <= Len(q) THEN Len(q) - (i + 1) + 1 ELSE 0
        /\ \A j \in 1 .. Len(q) - (i + 1) + 1 : b[j] = q[(i + 1) + j - 1]
    <3> HIDE DEF T
    <3> QED BY <2>1, <2>2, SubSeqProperties
  <2> HIDE DEF b
  <2> QED BY <1>1, <2>3
<1>5. /\ r \in Seq(T) /\ Len(r) = Len(q) - 1
      /\ \A j \in 1..Len(r) : r[j] = IF j < i THEN q[j] ELSE q[j + 1]
  <2>1. r = a \o b BY DEF Without
  <2> HIDE DEF T, a, b, r
  <2>2. /\ a \o b \in Seq(T) /\ Len(a \o b) = Len(a) + Len(b)
        /\ \A j \in 1 .. Len(a) + Len(b) : (a \o b)[j] =
             IF j <= Len(a) THEN a[j] ELSE b[j - Len(a)]
    BY <1>3, <1>4, ConcatProperties
  <2>3. Len(a) + Len(b) = Len(q) - 1 BY <1>1, <1>3, <1>4
  <2>4. ASSUME NEW j \in 1..(Len(q) - 1)
        PROVE  r[j] = IF j < i THEN q[j] ELSE q[j + 1]
    <3>1. CASE j < i BY <1>1, <1>3, <2>1, <2>2, <2>3, <2>4, <3>1
    <3>2. CASE ~(j < i)
      <4>1. r[j] = b[j - (i - 1)] BY <1>1, <1>3, <2>1, <2>2, <2>3, <2>4, <3>2
      <4>2. j - (i - 1) \in 1..(Len(q) - i) /\ i + (j - (i - 1)) = j + 1
        BY <1>1, <2>4, <3>2
      <4>3. b[j - (i - 1)] = q[i + (j - (i - 1))] BY <1>4, <4>2
      <4> QED BY <3>2, <4>1, <4>2, <4>3
    <3> QED BY <3>1, <3>2
  <2> QED BY <2>1, <2>2, <2>3, <2>4
<1> HIDE DEF a, b, r
<1>6. ASSUME NEW x \in T PROVE \E j \in 1..Len(r) : r[j] = x
  <2>1. PICK k \in 1..Len(q) : q[k] = x BY DEF InOrder
  <2>2. k # i BY <2>1
  <2>3. CASE k < i
    <3>1. k \in 1..Len(r) BY <1>1, <1>5, <2>3
    <3> QED BY <1>5, <2>1, <2>3, <3>1
  <2>4. CASE i < k
    <3>1. k - 1 \in 1..Len(r) /\ ~(k - 1 < i) /\ (k - 1) + 1 = k BY <1>1, <1>5, <2>4
    <3> QED BY <1>5, <2>1, <3>1
  <2> QED BY <1>1, <2>2, <2>3, <2>4
<1>7. ASSUME NEW j \in 1..Len(r), NEW k \in 1..Len(r), j < k PROVE f[r[j]] < f[r[k]]
  <2> DEFINE jj == IF j < i THEN j ELSE j + 1
             kk == IF k < i THEN k ELSE k + 1
  <2>1. jj \in 1..Len(q) /\ kk \in 1..Len(q) /\ jj < kk BY <1>1, <1>5, <1>7
  <2>2. r[j] = q[jj] /\ r[k] = q[kk] BY <1>5
  <2> HIDE DEF jj, kk
  <2> QED BY <2>1, <2>2 DEF InOrder
<1>8. InOrder(r, f, T)
  <2> HIDE DEF T
  <2> QED BY <1>5, <1>6, <1>7 DEF InOrder
<1> QED BY <1>8 DEF r

(* The list depends on the numbers of its elements only.                   *)
LEMMA ListedSame ==
  ASSUME NEW S, NEW f, NEW g, \A x \in S : f[x] = g[x]
  PROVE  Listed(f, S) = Listed(g, S)
<1>1. \A x \in S : Below(f, S, x) = Below(g, S, x) BY DEF Below
<1>2. \A i \in 1..Cardinality(S) :
        (CHOOSE x \in S : Cardinality(Below(f, S, x)) = i - 1)
          = CHOOSE x \in S : Cardinality(Below(g, S, x)) = i - 1
  BY <1>1
<1> QED BY <1>2 DEF Listed

(* Without its first element too. *)
LEMMA OrderTail ==
  ASSUME NEW S, NEW f, \A x \in S : f[x] \in Int, NEW q, InOrder(q, f, S), q # <<>>
  PROVE  InOrder(Tail(q), f, S \ {Head(q)}) /\ Head(q) = q[1] /\ 1 \in 1..Len(q)
<1> DEFINE r == Tail(q)
           T == S \ {q[1]}
<1>1. q \in Seq(S) /\ Len(q) \in Nat /\ Len(q) # 0 /\ \A j \in 1..Len(q) : q[j] \in S
  BY LenProperties, EmptySeq DEF InOrder
<1>2. /\ r \in Seq(S) /\ Len(r) = Len(q) - 1 /\ Head(q) = q[1]
      /\ \A j \in 1..Len(r) : r[j] = q[j + 1]
  BY <1>1, HeadTailProperties DEF InOrder
<1>3. 1 \in 1..Len(q) BY <1>1
<1> HIDE DEF r
<1>4. ASSUME NEW j \in 1..Len(r) PROVE j + 1 \in 1..Len(q) /\ r[j] = q[j + 1] /\ r[j] \in T
  <2>1. j + 1 \in 1..Len(q) /\ 1 < j + 1 BY <1>1, <1>2
  <2>2. f[q[1]] < f[q[j + 1]] BY <1>3, <2>1 DEF InOrder
  <2>3. f[q[1]] \in Int /\ f[q[j + 1]] \in Int BY <1>1, <1>3, <2>1
  <2>4. q[1] # q[j + 1] BY <2>2, <2>3
  <2> QED BY <1>1, <1>2, <2>1, <2>4
<1>5. r \in Seq(T)
  <2>1. r = [j \in 1..Len(r) |-> r[j]] /\ Len(r) \in Nat BY <1>1, <1>2, LenProperties
  <2>2. [j \in 1..Len(r) |-> r[j]] \in [1..Len(r) -> T] BY <1>4
  <2> HIDE DEF T
  <2> QED BY <2>1, <2>2
<1>6. ASSUME NEW x \in T PROVE \E j \in 1..Len(r) : r[j] = x
  <2>1. PICK k \in 1..Len(q) : q[k] = x BY DEF InOrder
  <2>2. k - 1 \in 1..Len(r) /\ (k - 1) + 1 = k BY <1>1, <1>2, <2>1
  <2> QED BY <1>2, <2>1, <2>2
<1>7. ASSUME NEW j \in 1..Len(r), NEW k \in 1..Len(r), j < k PROVE f[r[j]] < f[r[k]]
  <2>1. j + 1 < k + 1 /\ j + 1 \in 1..Len(q) /\ k + 1 \in 1..Len(q)
    BY <1>1, <1>2, <1>4, <1>7
  <2>2. f[q[j + 1]] < f[q[k + 1]] BY <2>1 DEF InOrder
  <2>3. r[j] = q[j + 1] /\ r[k] = q[k + 1] BY <1>4
  <2> HIDE DEF T
  <2> QED BY <2>2, <2>3
<1>8. InOrder(r, f, T)
  <2> HIDE DEF T
  <2> QED BY <1>5, <1>6, <1>7 DEF InOrder
<1> QED BY <1>2, <1>3, <1>8 DEF r

-----------------------------------------------------------------------------
(* What a daemon has in hand at each of its program points. *)
Working(d) == pc[d] \in {"open", "ingest", "finish", "fail"}
Enqueuing(d) == pc[d] \in EnqueuePCs

JobInv ==
  \A d \in Daemons :
    /\ Enqueuing(d) \/ Working(d) => batch[d] \in Batches
    /\ pc[d] \in {"drop", "unlink"} => victim[d] \in Batches
    /\ pc[d] = "claim" => todo[d] # {}

(* The id an Enqueue reserved has no row and is no other Enqueue's; the    *)
(* rows a daemon holds on to for processing or dropping were once queued.  *)
ReserveInv ==
  \A d \in Daemons :
    /\ Enqueuing(d) => status[batch[d]] = "none"
    /\ Enqueuing(d) => \A e \in Daemons \ {d} : Enqueuing(e) => batch[e] # batch[d]
    /\ pc[d] = "insert" => batch[d] \in files
    /\ Working(d) => status[batch[d]] \notin {"none", "queued"}
    /\ \A b \in todo[d] : status[b] # "none"
    /\ pc[d] = "drop" => status[victim[d]] # "none"
    /\ pc[d] = "unlink" => status[victim[d]] \notin {"none", "queued"}

FileInv == TypeOK /\ JobInv /\ ReserveInv /\ QueuedHasFile

(* Capacity is taken by a row or by an admitted batch on its way to one. *)
CapacityInv ==
  MaxQueued > 0 =>
    Cardinality(Held) + Cardinality(Admitted) <= MaxQueued + Cardinality(Daemons) - 1

(* The daemons that may still commit the events of a batch. *)
Pending(b) ==
  {d \in Daemons : b \in todo[d] \/ (batch[d] = b /\ pc[d] \in {"open", "ingest"})}

OnceFor(b) ==
  IF status[b] \in {"none", "queued"}
  THEN ingested[b] = 0
  ELSE ingested[b] + Cardinality(Pending(b)) <= Cardinality(Daemons)

OnceInv ==
  /\ \A d \in Daemons : Working(d) => batch[d] \notin todo[d]
  /\ \A b \in Batches : OnceFor(b)

(* A daemon that is alone: what it works on is in the state it put it in. *)
SoleInv ==
  \A d \in Daemons :
    /\ Working(d) => status[batch[d]] = "processing"
    /\ \A b \in todo[d] : status[b] = "queued"
    /\ pc[d] \notin ProcessPCs => todo[d] = {}
-----------------------------------------------------------------------------
(* ORDER BY created_at LIMIT 1 returns a row of a non-empty result: the    *)
(* rows with the fewest older rows (by inclusion) exist, and are oldest.   *)
LEMMA OldestInSet ==
  ASSUME stamp \in [Batches -> Nat], NEW S \in SUBSET Batches, S # {}
  PROVE  Oldest(S) \in S /\ \A c \in S : stamp[Oldest(S)] <= stamp[c]
<1> DEFINE Older(b) == {c \in S : stamp[c] < stamp[b]}
           F == {Older(b) : b \in S}
           R == StrictSubsetOrdering(Batches)
<1>1. F \subseteq FiniteSubsetsOf(Batches) /\ F # {}
  <2>1. IsFiniteSet(Batches)
    BY SpoolAssumption DEF SpoolAssumption
  <2>2. FiniteSubsetsOf(Batches) = SUBSET Batches
    BY <2>1, FS_FiniteSubsetsOfFinite
  <2>3. \A b \in S : Older(b) \in SUBSET Batches
    OBVIOUS
  <2> HIDE DEF Older
  <2> QED
    BY <2>2, <2>3
<1>2. PICK X \in F : \A Y \in F : ~(<<Y, X>> \in R)
  <2> HIDE DEF F, R
  <2> QED BY <1>1, FS_StrictSubsetOrderingWellFounded, WFMin DEF R
<1>3. PICK b \in S : X = Older(b)
  BY <1>2
<1>4. ASSUME NEW c \in S, ~(stamp[b] <= stamp[c])
      PROVE  FALSE
  <2>1. stamp[c] < stamp[b]
    BY <1>4
  <2>2. Older(c) \subseteq Older(b) /\ c \in Older(b) /\ c \notin Older(c)
    BY <2>1
  <2>3. <<Older(c), Older(b)>> \in R
    BY <2>2 DEF StrictSubsetOrdering
  <2> QED
    BY <1>2, <1>3, <2>3
<1>5. \E x \in S : \A c \in S : stamp[x] <= stamp[c]
  BY <1>4
<1> QED
  BY <1>5 DEF Oldest

(* The number of bytes copied is a number. *)
LEMMA CopiedType ==
  ASSUME NEW n \in Nat
  PROVE  Copied(n) \in Nat
<1> DEFINE limits == {MaxBatchBytes, MaxQueuedBytes} \ {0}
<1>1. CASE limits = {}
  BY <1>1 DEF Copied, PositiveByteLimit
<1>2. CASE limits # {}
  <2>1. \E x \in limits : \A y \in limits : x =< y
    BY <1>2, SpoolAssumption DEF SpoolAssumption
  <2>2. Min(limits) \in limits
    BY <2>1 DEF Min
  <2>3. PositiveByteLimit \in Nat
    BY <1>2, <2>2, SpoolAssumption DEF PositiveByteLimit, SpoolAssumption
  <2> QED
    BY <2>3 DEF Copied
<1> QED
  BY <1>1, <1>2

-----------------------------------------------------------------------------
(* The set of queued rows, a set of rows to process: their oldest is a row. *)
LEMMA VictimType ==
  ASSUME TypeOK, Queued # {}
  PROVE  Oldest(Queued) \in Queued /\ Queued \subseteq Batches
BY OldestInSet DEF TypeOK, Queued

LEMMA ClaimType ==
  ASSUME TypeOK, JobInv, NEW d \in Daemons, pc[d] = "claim"
  PROVE  Oldest(todo[d]) \in todo[d] /\ Oldest(todo[d]) \in Batches
BY OldestInSet DEF TypeOK, JobInv

(* Process finds work whenever a row is queued: the oldest one at least. *)
LEMMA SelectType ==
  ASSUME TypeOK, Queued # {}
  PROVE  SelectQueued # {} /\ SelectQueued \subseteq Queued
<1> DEFINE b == Oldest(Queued)
           Older == {c \in Queued : stamp[c] < stamp[b]}
<1>1. b \in Queued /\ \A c \in Queued : stamp[b] <= stamp[c]
  BY OldestInSet DEF TypeOK, Queued
<1>2. Older = {}
  <2>1. b \in Batches /\ stamp \in [Batches -> Nat] /\ Queued \subseteq Batches
    BY <1>1 DEF TypeOK, Queued
  <2>2. ASSUME NEW c \in Queued PROVE ~(stamp[c] < stamp[b])
    <3> HIDE DEF b
    <3> QED BY <1>1, <2>1
  <2> QED
    BY <2>2
<1>3. Cardinality(Older) < ProcessLimit
  BY <1>2, FS_EmptySet, SpoolAssumption DEF SpoolAssumption
<1> QED
  BY <1>1, <1>3 DEF SelectQueued

(* Every action preserves the types and keeps what its successors rely on  *)
(* in the daemon's hands.                                                  *)
LEMMA TypeStep ==
  ASSUME TypeOK, JobInv, [Next]_vars
  PROVE  TypeOK' /\ JobInv'
<1> USE SpoolAssumption DEF SpoolAssumption, TypeOK, JobInv, Enqueuing, Working,
      EnqueuePCs, ProcessPCs, Statuses, rows, history, Goto
<1>1. CASE UNCHANGED vars
  BY <1>1 DEF vars, jobs
<1>2. ASSUME NEW d \in Daemons, Enqueue(d) \/ Process(d) \/ Crash(d)
      PROVE  TypeOK' /\ JobInv'
  <2>1. CASE EnqueueBegin(d)
    BY <2>1 DEF EnqueueBegin
  <2>2. CASE Admit(d)
    BY <2>2 DEF Admit
  <2>3. CASE Reject(d)
    BY <2>3 DEF Reject, Abandon, EnqueueReturns
  <2>4. CASE MakeRoom(d)
    BY <2>4 DEF MakeRoom
  <2>5. CASE SelectVictim(d)
    BY <2>5, VictimType DEF SelectVictim
  <2>6. CASE NoVictim(d)
    BY <2>6 DEF NoVictim, Abandon, EnqueueReturns
  <2>7. CASE DropVictim(d)
    BY <2>7 DEF DropVictim
  <2>8. CASE UnlinkVictim(d)
    BY <2>8 DEF UnlinkVictim
  <2>9. CASE CopySource(d)
    BY <2>9, CopiedType DEF CopySource
  <2>10. CASE InsertRow(d)
    BY <2>10 DEF InsertRow, EnqueueReturns
  <2>11. CASE EnqueueFails(d)
    BY <2>11 DEF EnqueueFails, Abandon, EnqueueReturns, Fault
  <2>12. CASE ProcessBegin(d)
    BY <2>12, SelectType DEF ProcessBegin, Queued
  <2>13. CASE ProcessNothing(d)
    BY <2>13 DEF ProcessNothing, vars, jobs
  <2>14. CASE Claim(d)
    BY <2>14, ClaimType DEF Claim
  <2>15. CASE ClaimFails(d)
    BY <2>15, ClaimType DEF ClaimFails, NextItem, Fault
  <2>16. CASE OpenFile(d)
    BY <2>16 DEF OpenFile
  <2>17. CASE Ingest(d)
    BY <2>17 DEF Ingest
  <2>18. CASE IngestFails(d)
    BY <2>18 DEF IngestFails
  <2>19. CASE MarkProcessed(d)
    BY <2>19 DEF MarkProcessed, NextItem
  <2>20. CASE MarkFailed(d)
    BY <2>20 DEF MarkFailed, NextItem
  <2>21. CASE MarkFails(d)
    BY <2>21 DEF MarkFails, NextItem, Fault
  <2>22. CASE Crash(d)
    BY <2>22 DEF Crash, Fault
  <2> QED
    BY <1>2, <2>1, <2>2, <2>3, <2>4, <2>5, <2>6, <2>7, <2>8, <2>9, <2>10, <2>11, <2>12,
       <2>13, <2>14, <2>15, <2>16, <2>17, <2>18, <2>19, <2>20, <2>21, <2>22
       DEF Enqueue, Process
<1> QED
  BY <1>1, <1>2 DEF Next

(* An id in the hands of an Enqueue has no row, so neither the removal of   *)
(* its file nor that of a dropped row touches the file of a queued row.    *)
LEMMA ReserveStep ==
  ASSUME FileInv, TypeOK', JobInv', [Next]_vars
  PROVE  ReserveInv' /\ QueuedHasFile'
<1> USE DEF FileInv
<1> USE SpoolAssumption DEF SpoolAssumption, TypeOK, JobInv, ReserveInv, QueuedHasFile,
      Queued, Enqueuing, Working, EnqueuePCs, ProcessPCs, Statuses, rows, history, Goto
<1>1. CASE UNCHANGED vars
  BY <1>1 DEF vars, jobs
<1>2. ASSUME NEW d \in Daemons, Enqueue(d) \/ Process(d) \/ Crash(d)
      PROVE  ReserveInv' /\ QueuedHasFile'
  <2>1. CASE EnqueueBegin(d)
    BY <2>1 DEF EnqueueBegin, Fresh
  <2>2. CASE Admit(d)
    BY <2>2 DEF Admit
  <2>3. CASE Reject(d)
    BY <2>3 DEF Reject, Abandon, EnqueueReturns
  <2>4. CASE MakeRoom(d)
    BY <2>4 DEF MakeRoom
  <2>5. CASE SelectVictim(d)
    <3>1. PICK v \in Batches : status[v] = "queued" /\ victim' = [victim EXCEPT ![d] = v]
      BY <2>5, VictimType DEF SelectVictim
    <3>2. /\ pc[d] = "evict" /\ pc' = [pc EXCEPT ![d] = "drop"]
          /\ UNCHANGED <<status, files, batch, todo>>
      BY <2>5 DEF SelectVictim
    <3> QED
      BY <3>1, <3>2
  <2>6. CASE NoVictim(d)
    BY <2>6 DEF NoVictim, Abandon, EnqueueReturns
  <2>7. CASE DropVictim(d)
    BY <2>7 DEF DropVictim
  <2>8. CASE UnlinkVictim(d)
    BY <2>8 DEF UnlinkVictim
  <2>9. CASE CopySource(d)
    BY <2>9 DEF CopySource
  <2>10. CASE InsertRow(d)
    BY <2>10 DEF InsertRow, EnqueueReturns
  <2>11. CASE EnqueueFails(d)
    BY <2>11 DEF EnqueueFails, Abandon, EnqueueReturns, Fault
  <2>12. CASE ProcessBegin(d)
    BY <2>12, SelectType DEF ProcessBegin
  <2>13. CASE ProcessNothing(d)
    BY <2>13 DEF ProcessNothing, vars, jobs
  <2>14. CASE Claim(d)
    BY <2>14, ClaimType DEF Claim
  <2>15. CASE ClaimFails(d)
    BY <2>15, ClaimType DEF ClaimFails, NextItem, Fault
  <2>16. CASE OpenFile(d)
    BY <2>16 DEF OpenFile
  <2>17. CASE Ingest(d)
    BY <2>17 DEF Ingest
  <2>18. CASE IngestFails(d)
    BY <2>18 DEF IngestFails
  <2>19. CASE MarkProcessed(d)
    BY <2>19 DEF MarkProcessed, NextItem
  <2>20. CASE MarkFailed(d)
    BY <2>20 DEF MarkFailed, NextItem
  <2>21. CASE MarkFails(d)
    BY <2>21 DEF MarkFails, NextItem, Fault
  <2>22. CASE Crash(d)
    BY <2>22 DEF Crash, Fault
  <2> QED
    BY <1>2, <2>1, <2>2, <2>3, <2>4, <2>5, <2>6, <2>7, <2>8, <2>9, <2>10, <2>11, <2>12,
       <2>13, <2>14, <2>15, <2>16, <2>17, <2>18, <2>19, <2>20, <2>21, <2>22
       DEF Enqueue, Process
<1> QED
  BY <1>1, <1>2 DEF Next

LEMMA FileInvariant == Spec => []FileInv
<1>1. Init => FileInv
  BY SpoolAssumption DEF SpoolAssumption, Init, FileInv, TypeOK, JobInv, ReserveInv,
     QueuedHasFile, Queued, Enqueuing, Working, EnqueuePCs, ProcessPCs, Statuses
<1>2. FileInv /\ [Next]_vars => FileInv'
  BY TypeStep, ReserveStep DEF FileInv
<1> QED
  BY <1>1, <1>2, PTL DEF Spec

(* The state of the spool keeps its types: no statement order, crash or    *)
(* second daemon produces a row or a job the code has no case for.         *)
THEOREM TypeCorrect == Spec => []TypeOK
<1>1. FileInv => TypeOK
  BY DEF FileInv
<1> QED
  BY <1>1, FileInvariant, PTL

(* A queued row always has its file, however many daemons share the data   *)
(* dir and wherever they crash.                                            *)
THEOREM QueuedFileExists == Spec => []QueuedHasFile
<1>1. FileInv => QueuedHasFile
  BY DEF FileInv
<1> QED
  BY <1>1, FileInvariant, PTL

-----------------------------------------------------------------------------
(* The sets whose sizes are compared are finite, now and after a step.     *)
LEMMA Finiteness ==
  /\ Held \subseteq Batches /\ Admitted \subseteq Daemons
  /\ IsFiniteSet(Held) /\ Cardinality(Held) \in Nat
  /\ IsFiniteSet(Admitted) /\ Cardinality(Admitted) \in Nat
  /\ IsFiniteSet(Daemons) /\ Cardinality(Daemons) \in Nat
<1>1. Held \subseteq Batches /\ Admitted \subseteq Daemons
  BY DEF Held, Admitted
<1>2. IsFiniteSet(Batches) /\ IsFiniteSet(Daemons)
  BY SpoolAssumption DEF SpoolAssumption
<1> QED
  BY <1>1, <1>2, FS_Subset, FS_CardinalityType

(* A step that takes no capacity keeps the bound. *)
LEMMA NoneTaken ==
  ASSUME CapacityInv, Held' \subseteq Held, Admitted' \subseteq Admitted
  PROVE  CapacityInv'
<1>1. /\ Cardinality(Held') \in Nat /\ Cardinality(Held') <= Cardinality(Held)
      /\ Cardinality(Admitted') \in Nat
      /\ Cardinality(Admitted') <= Cardinality(Admitted)
  BY Finiteness, FS_Subset, FS_CardinalityType
<1> QED
  BY <1>1, Finiteness, SpoolAssumption DEF CapacityInv, SpoolAssumption

(* Capacity changes hands in three steps only: Admit reserves it after     *)
(* WithinCount saw room for one more, InsertRow turns a reservation into a *)
(* row, and everything else leaves it or gives it back.                    *)
LEMMA CapacityStep ==
  ASSUME FileInv, FileInv', CapacityInv, [Next]_vars
  PROVE  CapacityInv'
<1> USE DEF FileInv, TypeOK, JobInv, ReserveInv, Enqueuing, Working, EnqueuePCs,
      ProcessPCs, rows, history, Goto
<1>1. CASE UNCHANGED vars
  BY <1>1, NoneTaken DEF vars, jobs, Held, Admitted
<1>2. ASSUME NEW d \in Daemons, Admit(d)
      PROVE  CapacityInv'
  <2>1. MaxQueued > 0 => Cardinality(Held) < MaxQueued
    BY <1>2 DEF Admit, Within, WithinCount
  <2>2. Held' = Held
    BY <1>2 DEF Admit, Held
  <2>3. Cardinality(Admitted') \in Nat /\ Cardinality(Admitted') <= Cardinality(Daemons)
    <3>1. Admitted' \subseteq Daemons
      BY DEF Admitted
    <3> QED
      BY <3>1, Finiteness, FS_Subset, FS_CardinalityType
  <2> QED
    BY <2>1, <2>2, <2>3, Finiteness, SpoolAssumption DEF CapacityInv, SpoolAssumption
<1>3. ASSUME NEW d \in Daemons, InsertRow(d)
      PROVE  CapacityInv'
  <2>1. Held' = Held \cup {batch[d]}
    BY <1>3 DEF InsertRow, EnqueueReturns, Held
  <2>2. d \in Admitted /\ Admitted' = Admitted \ {d}
    BY <1>3 DEF InsertRow, EnqueueReturns, Admitted
  <2>3. Cardinality(Held') <= Cardinality(Held) + 1 /\ Cardinality(Held') \in Nat
    <3>1. Cardinality(Held \cup {batch[d]}) =
            IF batch[d] \in Held THEN Cardinality(Held) ELSE Cardinality(Held) + 1
      BY Finiteness, FS_AddElement
    <3> QED
      BY <2>1, <3>1, Finiteness
  <2>4. Cardinality(Admitted') = Cardinality(Admitted) - 1
    BY <2>2, Finiteness, FS_RemoveElement
  <2> QED
    BY <2>3, <2>4, Finiteness, SpoolAssumption DEF CapacityInv, SpoolAssumption
<1>4. ASSUME NEW d \in Daemons, Enqueue(d) \/ Process(d) \/ Crash(d),
             ~Admit(d), ~InsertRow(d)
      PROVE  CapacityInv'
  <2> SUFFICES Held' \subseteq Held /\ Admitted' \subseteq Admitted
    BY NoneTaken
  <2> USE DEF Held, Admitted
  <2>1. CASE EnqueueBegin(d)
    BY <2>1 DEF EnqueueBegin, Fresh
  <2>2. CASE Reject(d)
    BY <2>2 DEF Reject, Abandon, EnqueueReturns
  <2>3. CASE MakeRoom(d)
    BY <2>3 DEF MakeRoom
  <2>4. CASE SelectVictim(d)
    BY <2>4 DEF SelectVictim
  <2>5. CASE NoVictim(d)
    BY <2>5 DEF NoVictim, Abandon, EnqueueReturns
  <2>6. CASE DropVictim(d)
    BY <2>6 DEF DropVictim
  <2>7. CASE UnlinkVictim(d)
    BY <2>7 DEF UnlinkVictim
  <2>8. CASE CopySource(d)
    BY <2>8 DEF CopySource
  <2>9. CASE EnqueueFails(d)
    BY <2>9 DEF EnqueueFails, Abandon, EnqueueReturns, Fault
  <2>10. CASE ProcessBegin(d)
    BY <2>10 DEF ProcessBegin
  <2>11. CASE ProcessNothing(d)
    BY <2>11 DEF ProcessNothing, vars, jobs
  <2>12. CASE Claim(d)
    BY <2>12 DEF Claim
  <2>13. CASE ClaimFails(d)
    BY <2>13 DEF ClaimFails, NextItem, Fault
  <2>14. CASE OpenFile(d)
    BY <2>14 DEF OpenFile
  <2>15. CASE Ingest(d)
    BY <2>15 DEF Ingest
  <2>16. CASE IngestFails(d)
    BY <2>16 DEF IngestFails
  <2>17. CASE MarkProcessed(d)
    BY <2>17 DEF MarkProcessed, NextItem
  <2>18. CASE MarkFailed(d)
    BY <2>18 DEF MarkFailed, NextItem
  <2>19. CASE MarkFails(d)
    BY <2>19 DEF MarkFails, NextItem, Fault
  <2>20. CASE Crash(d)
    BY <2>20 DEF Crash, Fault
  <2> QED
    BY <1>4, <2>1, <2>2, <2>3, <2>4, <2>5, <2>6, <2>7, <2>8, <2>9, <2>10, <2>11, <2>12,
       <2>13, <2>14, <2>15, <2>16, <2>17, <2>18, <2>19, <2>20
       DEF Enqueue, Process
<1> QED
  BY <1>1, <1>2, <1>3, <1>4 DEF Next

(* No capacity is taken at the start. *)
LEMMA CapacityInit == Init => CapacityInv
<1> SUFFICES ASSUME Init PROVE CapacityInv
  OBVIOUS
<1>1. Held = {} /\ Admitted = {}
  BY DEF Init, Held, Admitted
<1>2. Cardinality(Daemons) # 0
  BY Finiteness, FS_EmptySet, SpoolAssumption DEF SpoolAssumption
<1> QED
  BY <1>1, <1>2, FS_EmptySet, Finiteness, SpoolAssumption
  DEF CapacityInv, SpoolAssumption

(* At every moment the batches that hold capacity are at most the limit    *)
(* plus one per further daemon; a single daemon keeps the limit exactly.   *)
THEOREM CountBounded == Spec => []CountBound
<1>1. Init => CapacityInv
  BY CapacityInit
<1>2. FileInv /\ FileInv' /\ CapacityInv /\ [Next]_vars => CapacityInv'
  BY CapacityStep
<1>3. CapacityInv => CountBound
  BY Finiteness, SpoolAssumption DEF CapacityInv, CountBound, SpoolAssumption
<1> QED
  BY <1>1, <1>2, <1>3, FileInvariant, PTL DEF Spec

-----------------------------------------------------------------------------
LEMMA PendingFinite ==
  ASSUME NEW b
  PROVE  /\ Pending(b) \subseteq Daemons /\ IsFiniteSet(Pending(b))
         /\ Cardinality(Pending(b)) \in Nat
         /\ Cardinality(Pending(b)) <= Cardinality(Daemons)
<1>1. Pending(b) \subseteq Daemons
  BY DEF Pending
<1> QED
  BY <1>1, Finiteness, FS_Subset, FS_CardinalityType

(* A step that commits nothing of b and lets no further daemon get at b,   *)
(* unless b is still queued, keeps the count.                              *)
LEMMA NoCommit ==
  ASSUME TypeOK, NEW b \in Batches, OnceFor(b),
         ingested'[b] = ingested[b],
         status'[b] \in {"none", "queued"} => status[b] \in {"none", "queued"},
         status[b] \notin {"none", "queued"} => Pending(b)' \subseteq Pending(b)
  PROVE  OnceFor(b)'
<1>1. CASE status'[b] \in {"none", "queued"}
  BY <1>1 DEF OnceFor
<1>2. CASE status'[b] \notin {"none", "queued"} /\ status[b] \in {"none", "queued"}
  <2>1. Cardinality(Pending(b)') <= Cardinality(Daemons) /\ Cardinality(Pending(b)') \in Nat
    <3>1. Pending(b)' \subseteq Daemons
      BY DEF Pending
    <3> QED
      BY <3>1, Finiteness, FS_Subset, FS_CardinalityType
  <2> QED
    BY <1>2, <2>1, Finiteness DEF OnceFor
<1>3. CASE status'[b] \notin {"none", "queued"} /\ status[b] \notin {"none", "queued"}
  <2>1. Cardinality(Pending(b)') <= Cardinality(Pending(b)) /\ Cardinality(Pending(b)') \in Nat
    BY <1>3, PendingFinite, FS_Subset, FS_CardinalityType
  <2> QED
    BY <1>3, <2>1, PendingFinite, Finiteness DEF OnceFor, TypeOK
<1> QED
  BY <1>1, <1>2, <1>3

(* Claim and NextItem never leave the batch in hand among the items to do. *)
LEMMA HandStep ==
  ASSUME FileInv, \A d \in Daemons : Working(d) => batch[d] \notin todo[d], [Next]_vars
  PROVE  (\A d \in Daemons : Working(d) => batch[d] \notin todo[d])'
<1> USE DEF FileInv, TypeOK, JobInv, ReserveInv, Enqueuing, Working, EnqueuePCs,
      ProcessPCs, rows, history, Goto
<1>1. CASE UNCHANGED vars
  BY <1>1 DEF vars, jobs
<1>2. ASSUME NEW d \in Daemons, Enqueue(d) \/ Process(d) \/ Crash(d)
      PROVE  (\A e \in Daemons : Working(e) => batch[e] \notin todo[e])'
  <2>1. CASE EnqueueBegin(d)
    BY <2>1 DEF EnqueueBegin, Fresh
  <2>2. CASE Admit(d)
    BY <2>2 DEF Admit
  <2>3. CASE Reject(d)
    BY <2>3 DEF Reject, Abandon, EnqueueReturns
  <2>4. CASE MakeRoom(d)
    BY <2>4 DEF MakeRoom
  <2>5. CASE SelectVictim(d)
    BY <2>5 DEF SelectVictim
  <2>6. CASE NoVictim(d)
    BY <2>6 DEF NoVictim, Abandon, EnqueueReturns
  <2>7. CASE DropVictim(d)
    BY <2>7 DEF DropVictim
  <2>8. CASE UnlinkVictim(d)
    BY <2>8 DEF UnlinkVictim
  <2>9. CASE CopySource(d)
    BY <2>9 DEF CopySource
  <2>10. CASE InsertRow(d)
    BY <2>10 DEF InsertRow, EnqueueReturns
  <2>11. CASE EnqueueFails(d)
    BY <2>11 DEF EnqueueFails, Abandon, EnqueueReturns, Fault
  <2>12. CASE ProcessBegin(d)
    BY <2>12 DEF ProcessBegin
  <2>13. CASE ProcessNothing(d)
    BY <2>13 DEF ProcessNothing, vars, jobs
  <2>14. CASE Claim(d)
    BY <2>14 DEF Claim
  <2>15. CASE ClaimFails(d)
    BY <2>15 DEF ClaimFails, NextItem, Fault
  <2>16. CASE OpenFile(d)
    BY <2>16 DEF OpenFile
  <2>17. CASE Ingest(d)
    BY <2>17 DEF Ingest
  <2>18. CASE IngestFails(d)
    BY <2>18 DEF IngestFails
  <2>19. CASE MarkProcessed(d)
    BY <2>19 DEF MarkProcessed, NextItem
  <2>20. CASE MarkFailed(d)
    BY <2>20 DEF MarkFailed, NextItem
  <2>21. CASE MarkFails(d)
    BY <2>21 DEF MarkFails, NextItem, Fault
  <2>22. CASE Crash(d)
    BY <2>22 DEF Crash, Fault
  <2> QED
    BY <1>2, <2>1, <2>2, <2>3, <2>4, <2>5, <2>6, <2>7, <2>8, <2>9, <2>10, <2>11, <2>12,
       <2>13, <2>14, <2>15, <2>16, <2>17, <2>18, <2>19, <2>20, <2>21, <2>22
       DEF Enqueue, Process
<1> QED
  BY <1>1, <1>2 DEF Next

(* Only Ingest commits: it spends the daemon's chance to ingest the batch, *)
(* and a daemon gets a chance only while the batch is queued, when nothing *)
(* of it is committed.                                                     *)
LEMMA OnceStep ==
  ASSUME FileInv, FileInv', OnceInv, [Next]_vars, NEW b \in Batches
  PROVE  OnceFor(b)'
<1> USE DEF FileInv, TypeOK, JobInv, ReserveInv, Enqueuing, Working, EnqueuePCs,
      ProcessPCs, rows, history, Goto
<1>1. CASE UNCHANGED vars
  BY <1>1, NoCommit DEF vars, jobs, OnceInv, Pending
<1>2. ASSUME NEW d \in Daemons, Ingest(d), batch[d] = b
      PROVE  OnceFor(b)'
  <2>1. /\ d \in Pending(b) /\ Pending(b)' = Pending(b) \ {d}
        /\ status[b] \notin {"none", "queued"} /\ status' = status
        /\ ingested'[b] = ingested[b] + 1
    BY <1>2 DEF Ingest, Pending, OnceInv
  <2>2. Cardinality(Pending(b)') = Cardinality(Pending(b)) - 1
    BY ZenonT(60), <2>1, PendingFinite, FS_RemoveElement
  <2> QED
    BY <2>1, <2>2, PendingFinite, Finiteness DEF OnceFor, OnceInv
<1>3. ASSUME NEW d \in Daemons, Enqueue(d) \/ Process(d) \/ Crash(d),
             ~(Ingest(d) /\ batch[d] = b)
      PROVE  OnceFor(b)'
  <2> SUFFICES
        /\ ingested'[b] = ingested[b]
        /\ status'[b] \in {"none", "queued"} => status[b] \in {"none", "queued"}
        /\ status[b] \notin {"none", "queued"} => Pending(b)' \subseteq Pending(b)
    BY NoCommit DEF OnceInv
  <2> USE <1>3 DEF Pending
  <2>1. CASE EnqueueBegin(d)
    BY <2>1 DEF EnqueueBegin, Fresh
  <2>2. CASE Admit(d)
    BY <2>2 DEF Admit
  <2>3. CASE Reject(d)
    BY <2>3 DEF Reject, Abandon, EnqueueReturns
  <2>4. CASE MakeRoom(d)
    BY <2>4 DEF MakeRoom
  <2>5. CASE SelectVictim(d)
    BY <2>5 DEF SelectVictim
  <2>6. CASE NoVictim(d)
    BY <2>6 DEF NoVictim, Abandon, EnqueueReturns
  <2>7. CASE DropVictim(d)
    BY <2>7 DEF DropVictim
  <2>8. CASE UnlinkVictim(d)
    BY <2>8 DEF UnlinkVictim
  <2>9. CASE CopySource(d)
    BY <2>9 DEF CopySource
  <2>10. CASE InsertRow(d)
    BY <2>10 DEF InsertRow, EnqueueReturns
  <2>11. CASE EnqueueFails(d)
    BY <2>11 DEF EnqueueFails, Abandon, EnqueueReturns, Fault
  <2>12. CASE ProcessBegin(d)
    BY <2>12, SelectType DEF ProcessBegin, Queued
  <2>13. CASE ProcessNothing(d)
    BY <2>13 DEF ProcessNothing, vars, jobs
  <2>14. CASE Claim(d)
    BY <2>14, ClaimType DEF Claim
  <2>15. CASE ClaimFails(d)
    BY <2>15, ClaimType DEF ClaimFails, NextItem, Fault
  <2>16. CASE OpenFile(d)
    BY <2>16 DEF OpenFile
  <2>17. CASE Ingest(d)
    BY <2>17 DEF Ingest
  <2>18. CASE IngestFails(d)
    BY <2>18 DEF IngestFails
  <2>19. CASE MarkProcessed(d)
    BY <2>19 DEF MarkProcessed, NextItem
  <2>20. CASE MarkFailed(d)
    BY <2>20 DEF MarkFailed, NextItem
  <2>21. CASE MarkFails(d)
    BY <2>21 DEF MarkFails, NextItem, Fault
  <2>22. CASE Crash(d)
    BY <2>22 DEF Crash, Fault
  <2> QED
    BY <1>3, <2>1, <2>2, <2>3, <2>4, <2>5, <2>6, <2>7, <2>8, <2>9, <2>10, <2>11, <2>12,
       <2>13, <2>14, <2>15, <2>16, <2>17, <2>18, <2>19, <2>20, <2>21, <2>22
       DEF Enqueue, Process
<1> QED
  BY <1>1, <1>2, <1>3 DEF Next

LEMMA OnceInvariant == Spec => [](FileInv /\ OnceInv)
<1>1. Init => OnceInv
  BY DEF Init, OnceInv, OnceFor, Working
<1>2. FileInv /\ FileInv' /\ OnceInv /\ [Next]_vars => OnceInv'
  BY HandStep, OnceStep DEF OnceInv
<1> QED
  BY <1>1, <1>2, FileInvariant, PTL DEF Spec

(* No daemon commits the events of a batch twice, crashes included.        *)
THEOREM IngestedBounded == Spec => []IngestedOncePerDaemon
<1>1. FileInv /\ OnceInv => IngestedOncePerDaemon
  <2> SUFFICES ASSUME FileInv, OnceInv, NEW b \in Batches
               PROVE  ingested[b] <= Cardinality(Daemons)
    BY DEF IngestedOncePerDaemon
  <2> QED
    BY PendingFinite, Finiteness DEF OnceInv, OnceFor, FileInv, TypeOK
<1> QED
  BY <1>1, OnceInvariant, PTL

-----------------------------------------------------------------------------
(* With one daemon on the data dir, writeMu makes the conditional UPDATEs  *)
(* effective: the batch in hand is 'processing', the items still to do are *)
(* 'queued'.                                                               *)
LEMMA SoleStep ==
  ASSUME NEW sole, Daemons = {sole}, FileInv, SoleInv,
         \A d \in Daemons : Working(d) => batch[d] \notin todo[d], [Next]_vars
  PROVE  SoleInv'
<1> USE DEF FileInv, TypeOK, JobInv, ReserveInv, SoleInv, Enqueuing, Working,
      EnqueuePCs, ProcessPCs, rows, history, Goto
<1>1. CASE UNCHANGED vars
  BY <1>1 DEF vars, jobs
<1>2. ASSUME NEW d \in Daemons, Enqueue(d) \/ Process(d) \/ Crash(d)
      PROVE  SoleInv'
  <2>1. CASE EnqueueBegin(d)
    BY <2>1 DEF EnqueueBegin, Fresh
  <2>2. CASE Admit(d)
    BY <2>2 DEF Admit
  <2>3. CASE Reject(d)
    BY <2>3 DEF Reject, Abandon, EnqueueReturns
  <2>4. CASE MakeRoom(d)
    BY <2>4 DEF MakeRoom
  <2>5. CASE SelectVictim(d)
    BY <2>5 DEF SelectVictim
  <2>6. CASE NoVictim(d)
    BY <2>6 DEF NoVictim, Abandon, EnqueueReturns
  <2>7. CASE DropVictim(d)
    BY <2>7 DEF DropVictim
  <2>8. CASE UnlinkVictim(d)
    BY <2>8 DEF UnlinkVictim
  <2>9. CASE CopySource(d)
    BY <2>9 DEF CopySource
  <2>10. CASE InsertRow(d)
    BY <2>10 DEF InsertRow, EnqueueReturns
  <2>11. CASE EnqueueFails(d)
    BY <2>11 DEF EnqueueFails, Abandon, EnqueueReturns, Fault
  <2>12. CASE ProcessBegin(d)
    BY <2>12, SelectType DEF ProcessBegin, Queued
  <2>13. CASE ProcessNothing(d)
    BY <2>13 DEF ProcessNothing, vars, jobs
  <2>14. CASE Claim(d)
    BY <2>14, ClaimType DEF Claim
  <2>15. CASE ClaimFails(d)
    BY <2>15, ClaimType DEF ClaimFails, NextItem, Fault
  <2>16. CASE OpenFile(d)
    BY <2>16 DEF OpenFile
  <2>17. CASE Ingest(d)
    BY <2>17 DEF Ingest
  <2>18. CASE IngestFails(d)
    BY <2>18 DEF IngestFails
  <2>19. CASE MarkProcessed(d)
    BY <2>19 DEF MarkProcessed, NextItem
  <2>20. CASE MarkFailed(d)
    BY <2>20 DEF MarkFailed, NextItem
  <2>21. CASE MarkFails(d)
    BY <2>21 DEF MarkFails, NextItem, Fault
  <2>22. CASE Crash(d)
    BY <2>22 DEF Crash, Fault
  <2> QED
    BY <1>2, <2>1, <2>2, <2>3, <2>4, <2>5, <2>6, <2>7, <2>8, <2>9, <2>10, <2>11, <2>12,
       <2>13, <2>14, <2>15, <2>16, <2>17, <2>18, <2>19, <2>20, <2>21, <2>22
       DEF Enqueue, Process
<1> QED
  BY <1>1, <1>2 DEF Next

LEMMA SoleInvariant ==
  ASSUME NEW sole, Daemons = {sole}
  PROVE  Spec => [](FileInv /\ OnceInv /\ SoleInv)
<1>1. Init => SoleInv
  BY DEF Init, SoleInv, Working, ProcessPCs
<1>2. FileInv /\ OnceInv /\ SoleInv /\ [Next]_vars => SoleInv'
  BY SoleStep DEF OnceInv
<1> QED
  BY <1>1, <1>2, OnceInvariant, PTL DEF Spec

(* No UPDATE of a daemon that is alone reaches a row that is processed,    *)
(* failed or dropped, although the last UPDATE has no status in its WHERE. *)
THEOREM SettledRowsStay ==
  ASSUME NEW sole, Daemons = {sole}
  PROVE  Spec => SettledForever
<1> DEFINE Stays == \A b \in Batches : status[b] \in Terminal => status'[b] = status[b]
<1>1. FileInv /\ SoleInv /\ [Next]_vars => [Stays]_vars
  <2> SUFFICES ASSUME FileInv, SoleInv, [Next]_vars PROVE [Stays]_vars
    OBVIOUS
  <2> USE DEF FileInv, TypeOK, JobInv, ReserveInv, SoleInv, Enqueuing, Working,
        EnqueuePCs, ProcessPCs, Terminal, rows, history, Goto
  <2>1. ASSUME NEW d \in Daemons, Enqueue(d) \/ Process(d) \/ Crash(d)
        PROVE  Stays
    <3>1. CASE EnqueueBegin(d)
      BY <3>1 DEF EnqueueBegin, Fresh
    <3>2. CASE Admit(d)
      BY <3>2 DEF Admit
    <3>3. CASE Reject(d)
      BY <3>3 DEF Reject, Abandon, EnqueueReturns
    <3>4. CASE MakeRoom(d)
      BY <3>4 DEF MakeRoom
    <3>5. CASE SelectVictim(d)
      BY <3>5 DEF SelectVictim
    <3>6. CASE NoVictim(d)
      BY <3>6 DEF NoVictim, Abandon, EnqueueReturns
    <3>7. CASE DropVictim(d)
      BY <3>7 DEF DropVictim
    <3>8. CASE UnlinkVictim(d)
      BY <3>8 DEF UnlinkVictim
    <3>9. CASE CopySource(d)
      BY <3>9 DEF CopySource
    <3>10. CASE InsertRow(d)
      BY <3>10 DEF InsertRow, EnqueueReturns
    <3>11. CASE EnqueueFails(d)
      BY <3>11 DEF EnqueueFails, Abandon, EnqueueReturns, Fault
    <3>12. CASE ProcessBegin(d)
      BY <3>12 DEF ProcessBegin
    <3>13. CASE ProcessNothing(d)
      BY <3>13 DEF ProcessNothing, vars, jobs
    <3>14. CASE Claim(d)
      BY <3>14 DEF Claim
    <3>15. CASE ClaimFails(d)
      BY <3>15 DEF ClaimFails, NextItem, Fault
    <3>16. CASE OpenFile(d)
      BY <3>16 DEF OpenFile
    <3>17. CASE Ingest(d)
      BY <3>17 DEF Ingest
    <3>18. CASE IngestFails(d)
      BY <3>18 DEF IngestFails
    <3>19. CASE MarkProcessed(d)
      BY <3>19 DEF MarkProcessed, NextItem
    <3>20. CASE MarkFailed(d)
      BY <3>20 DEF MarkFailed, NextItem
    <3>21. CASE MarkFails(d)
      BY <3>21 DEF MarkFails, NextItem, Fault
    <3>22. CASE Crash(d)
      BY <3>22 DEF Crash, Fault
    <3> QED
      BY <2>1, <3>1, <3>2, <3>3, <3>4, <3>5, <3>6, <3>7, <3>8, <3>9, <3>10, <3>11, <3>12,
         <3>13, <3>14, <3>15, <3>16, <3>17, <3>18, <3>19, <3>20, <3>21, <3>22
         DEF Enqueue, Process
  <2> QED
    BY <2>1 DEF Next
<1> QED
  BY <1>1, SoleInvariant, PTL DEF Spec, SettledForever

-----------------------------------------------------------------------------
(* What is in a daemon's hands beside the queue: a file without a row is   *)
(* that of the batch it is storing, the file of a dropped row that of its  *)
(* victim, and a row that is processing is the one it works on.            *)
Storing(d, b) == Enqueuing(d) /\ batch[d] = b
Dropping(d, b) == pc[d] = "unlink" /\ victim[d] = b
Handling(d, b) == Working(d) /\ batch[d] = b

StrandedInv ==
  \A b \in Batches \ abandoned :
    /\ b \in files /\ status[b] = "none" => \E d \in Daemons : Storing(d, b)
    /\ b \in files /\ status[b] = "dropped" => \E d \in Daemons : Dropping(d, b)
    /\ status[b] = "processing" => \E d \in Daemons : Handling(d, b)

(* A daemon lets nothing go but with its file, by its last UPDATE or as    *)
(* abandoned, and what newly needs a hand is in its own.                   *)
LEMMA HandsStep ==
  ASSUME FileInv, NEW d \in Daemons, Enqueue(d) \/ Process(d) \/ Crash(d),
         NEW b \in Batches
  PROVE  /\ Storing(d, b) => Storing(d, b)' \/ b \notin files' \/ status'[b] # "none"
                              \/ b \in abandoned'
         /\ Dropping(d, b) => Dropping(d, b)' \/ b \notin files' \/ b \in abandoned'
         /\ Handling(d, b) => Handling(d, b)' \/ status'[b] # "processing"
                              \/ b \in abandoned'
         /\ b \in files' \ files => Storing(d, b)' /\ status'[b] = "none"
         /\ status'[b] = "dropped" => status[b] = "dropped" \/ Dropping(d, b)'
         /\ status'[b] = "processing" => status[b] = "processing" \/ Handling(d, b)'
         /\ status'[b] = "none" => status[b] = "none"
         /\ b \in abandoned => b \in abandoned'
         /\ \A e \in Daemons \ {d} :
              pc'[e] = pc[e] /\ batch'[e] = batch[e] /\ victim'[e] = victim[e]
<1> USE SpoolAssumption
    DEF FileInv, TypeOK, JobInv, ReserveInv, Enqueuing, Working, EnqueuePCs, ProcessPCs,
        rows, history, Goto, Storing, Dropping, Handling, SpoolAssumption
<1>1. CASE EnqueueBegin(d)
  BY <1>1 DEF EnqueueBegin, Fresh
<1>2. CASE Admit(d)
  BY <1>2 DEF Admit
<1>3. CASE Reject(d)
  BY <1>3 DEF Reject, Abandon, EnqueueReturns
<1>4. CASE MakeRoom(d)
  BY <1>4 DEF MakeRoom
<1>5. CASE SelectVictim(d)
  BY <1>5 DEF SelectVictim
<1>6. CASE NoVictim(d)
  BY <1>6 DEF NoVictim, Abandon, EnqueueReturns
<1>7. CASE DropVictim(d)
  BY <1>7 DEF DropVictim
<1>8. CASE UnlinkVictim(d)
  BY <1>8 DEF UnlinkVictim
<1>9. CASE CopySource(d)
  BY <1>9 DEF CopySource
<1>10. CASE InsertRow(d)
  BY <1>10 DEF InsertRow, EnqueueReturns
<1>11. CASE EnqueueFails(d)
  BY <1>11 DEF EnqueueFails, Abandon, EnqueueReturns, Fault
<1>12. CASE ProcessBegin(d)
  BY <1>12 DEF ProcessBegin
<1>13. CASE ProcessNothing(d)
  BY <1>13 DEF ProcessNothing, vars, jobs
<1>14. CASE Claim(d)
  BY <1>14, ClaimType DEF Claim
<1>15. CASE ClaimFails(d)
  BY <1>15, ClaimType DEF ClaimFails, NextItem, Fault
<1>16. CASE OpenFile(d)
  BY <1>16 DEF OpenFile
<1>17. CASE Ingest(d)
  BY <1>17 DEF Ingest
<1>18. CASE IngestFails(d)
  BY <1>18 DEF IngestFails
<1>19. CASE MarkProcessed(d)
  BY <1>19 DEF MarkProcessed, NextItem
<1>20. CASE MarkFailed(d)
  BY <1>20 DEF MarkFailed, NextItem
<1>21. CASE MarkFails(d)
  BY <1>21 DEF MarkFails, NextItem, Fault
<1>22. CASE Crash(d)
  BY <1>22 DEF Crash, Fault
<1> QED
  BY <1>1, <1>2, <1>3, <1>4, <1>5, <1>6, <1>7, <1>8, <1>9, <1>10, <1>11, <1>12, <1>13,
     <1>14, <1>15, <1>16, <1>17, <1>18, <1>19, <1>20, <1>21, <1>22
     DEF Enqueue, Process

(* Nothing is left behind but where a crash or a failing UPDATE cut an     *)
(* operation short, with any number of daemons on the data dir.            *)
THEOREM NothingIsStranded == Spec => []NothingStranded
<1>1. Init => StrandedInv
  BY DEF Init, StrandedInv
<1>2. FileInv /\ StrandedInv /\ [Next]_vars => StrandedInv'
  <2> SUFFICES ASSUME FileInv, StrandedInv, [Next]_vars PROVE StrandedInv'
    OBVIOUS
  <2>1. CASE UNCHANGED vars
    BY <2>1 DEF vars, jobs, rows, history, StrandedInv, Storing, Dropping, Handling, Enqueuing,
       Working
  <2>2. ASSUME NEW d \in Daemons, Enqueue(d) \/ Process(d) \/ Crash(d),
               NEW b \in Batches, b \notin abandoned'
        PROVE  /\ b \in files' /\ status'[b] = "none" => \E e \in Daemons : Storing(e, b)'
               /\ b \in files' /\ status'[b] = "dropped" => \E e \in Daemons : Dropping(e, b)'
               /\ status'[b] = "processing" => \E e \in Daemons : Handling(e, b)'
    <3>1. \A e \in Daemons \ {d} :
            /\ Storing(e, b) => Storing(e, b)'
            /\ Dropping(e, b) => Dropping(e, b)'
            /\ Handling(e, b) => Handling(e, b)'
      BY <2>2, HandsStep DEF Storing, Dropping, Handling, Enqueuing, Working
    <3>2. b \notin abandoned BY <2>2, HandsStep
    <3>3. CASE b \in files' /\ status'[b] = "none"
      <4>1. Storing(d, b)' \/ \E e \in Daemons : Storing(e, b)
        BY <2>2, <3>2, <3>3, HandsStep DEF StrandedInv
      <4> QED BY <2>2, <3>1, <3>3, <4>1, HandsStep
    <3>4. CASE b \in files' /\ status'[b] = "dropped"
      <4>1. Dropping(d, b)' \/ \E e \in Daemons : Dropping(e, b)
        BY <2>2, <3>2, <3>4, HandsStep DEF StrandedInv
      <4> QED BY <2>2, <3>1, <3>4, <4>1, HandsStep
    <3>5. CASE status'[b] = "processing"
      <4>1. Handling(d, b)' \/ \E e \in Daemons : Handling(e, b)
        BY <2>2, <3>2, <3>5, HandsStep DEF StrandedInv
      <4> QED BY <2>2, <3>1, <3>5, <4>1, HandsStep
    <3> QED BY <3>3, <3>4, <3>5
  <2> QED
    BY <2>1, <2>2 DEF Next, StrandedInv
<1>3. FileInv /\ StrandedInv => NothingStranded
  <2> SUFFICES ASSUME FileInv, StrandedInv PROVE NothingStranded
    OBVIOUS
  <2>1. files \subseteq Batches BY DEF FileInv, TypeOK
  <2> QED
    BY <2>1 DEF StrandedInv, NothingStranded, Storing, Dropping, Handling, Working,
       ProcessPCs
<1> QED
  BY <1>1, <1>2, <1>3, FileInvariant, PTL DEF Spec

-----------------------------------------------------------------------------
(* The bytes held are a sum over the rows that hold capacity. *)
LEMMA HeldTotal ==
  /\ HeldBytes = Total(size, Held)
  /\ HeldBytes' = Total(size', Held')
<1>1. HeldBytes = Total(size, Held)
  BY DEF HeldBytes, MapThenSumSet, MapThenFoldSet, Total, IsSum, Taken
<1>2. HeldBytes' = Total(size', Held')
  BY DEF HeldBytes, MapThenSumSet, MapThenFoldSet, Total, IsSum, Taken
<1> QED
  BY <1>1, <1>2

LEMMA HeldType ==
  ASSUME TypeOK
  PROVE  HeldBytes \in Nat
<1>1. \A b \in Held : size[b] \in Nat
  BY DEF TypeOK, Held
<1> QED
  BY <1>1, HeldTotal, Finiteness, TotalType

(* A size that the limits allow. *)
Fits(n) == ~TooLarge(n) /\ (MaxQueuedBytes > 0 => n <= MaxQueuedBytes)

LEMMA FitsAdmitted ==
  ASSUME TypeOK, NEW n \in Nat, ~TooLarge(n), Within(n)
  PROVE  Fits(n)
  BY HeldType, SpoolAssumption DEF Fits, Within, WithinBytes, SpoolAssumption

(* A copy that was cut off is one byte too long for a limit. *)
LEMMA CopiedWhole ==
  ASSUME NEW n \in Nat, Fits(Copied(n))
  PROVE  Copied(n) = n
<1> DEFINE limits == {MaxBatchBytes, MaxQueuedBytes} \ {0}
<1>1. CASE limits = {}
  BY <1>1 DEF Copied, PositiveByteLimit
<1>2. CASE limits # {}
  <2>1. \E x \in limits : \A y \in limits : x =< y
    BY <1>2, SpoolAssumption DEF SpoolAssumption
  <2>2. Min(limits) \in limits
    BY <2>1 DEF Min
  <2>3. PositiveByteLimit = Min(limits)
    BY <1>2 DEF PositiveByteLimit
  <2>4. ~(Copied(n) = PositiveByteLimit + 1)
    BY <1>2, <2>2, <2>3, SpoolAssumption DEF Fits, TooLarge, SpoolAssumption
  <2> QED
    BY <2>4 DEF Copied
<1> QED
  BY <1>1, <1>2

(* Until the INSERT the number of bytes in hand is what was copied, and    *)
(* after the last check of the limits it is what the source held.          *)
WholeInv ==
  /\ StoredWhole
  /\ \A d \in Daemons :
       /\ Enqueuing(d) /\ batch[d] \in files => incoming[d] = Copied(length[batch[d]])
       /\ pc[d] \in {"copy", "insert"} => Fits(incoming[d])

(* What a daemon does to the sizes and to the bytes it has in hand.        *)
LEMMA SizeStep ==
  ASSUME FileInv, WholeInv, NEW d \in Daemons, Enqueue(d) \/ Process(d) \/ Crash(d)
  PROVE  /\ \A e \in Daemons \ {d} :
              pc'[e] = pc[e] /\ batch'[e] = batch[e] /\ incoming'[e] = incoming[e]
         /\ \A b \in Batches :
              /\ b \in files' \ files \/ length'[b] # length[b] =>
                   pc[d] = "copy" /\ b = batch[d]
              /\ status[b] # "none" => size'[b] = size[b] /\ length'[b] = length[b]
              /\ status'[b] # "none" =>
                   \/ status[b] # "none"
                   \/ /\ pc[d] = "insert" /\ b = batch[d]
                      /\ size'[b] = incoming[d] /\ length'[b] = length[b]
         /\ Enqueuing(d)' /\ batch'[d] \in files' =>
              incoming'[d] = Copied(length'[batch'[d]])
         /\ pc'[d] \in {"copy", "insert"} => Fits(incoming'[d])
<1> USE SpoolAssumption
    DEF FileInv, TypeOK, JobInv, ReserveInv, WholeInv, Enqueuing, Working, EnqueuePCs,
        ProcessPCs, rows, history, Goto, SpoolAssumption
<1>1. CASE EnqueueBegin(d)
  BY <1>1 DEF EnqueueBegin, Fresh
<1>2. CASE Admit(d)
  BY <1>2, FitsAdmitted DEF Admit
<1>3. CASE Reject(d)
  BY <1>3 DEF Reject, Abandon, EnqueueReturns
<1>4. CASE MakeRoom(d)
  BY <1>4 DEF MakeRoom
<1>5. CASE SelectVictim(d)
  BY <1>5 DEF SelectVictim
<1>6. CASE NoVictim(d)
  BY <1>6 DEF NoVictim, Abandon, EnqueueReturns
<1>7. CASE DropVictim(d)
  BY <1>7 DEF DropVictim
<1>8. CASE UnlinkVictim(d)
  BY <1>8 DEF UnlinkVictim
<1>9. CASE CopySource(d)
  BY <1>9 DEF CopySource
<1>10. CASE InsertRow(d)
  BY <1>10 DEF InsertRow, EnqueueReturns
<1>11. CASE EnqueueFails(d)
  BY <1>11 DEF EnqueueFails, Abandon, EnqueueReturns, Fault
<1>12. CASE ProcessBegin(d)
  BY <1>12 DEF ProcessBegin
<1>13. CASE ProcessNothing(d)
  BY <1>13 DEF ProcessNothing, vars, jobs
<1>14. CASE Claim(d)
  BY <1>14, ClaimType DEF Claim
<1>15. CASE ClaimFails(d)
  BY <1>15, ClaimType DEF ClaimFails, NextItem, Fault
<1>16. CASE OpenFile(d)
  BY <1>16 DEF OpenFile
<1>17. CASE Ingest(d)
  BY <1>17 DEF Ingest
<1>18. CASE IngestFails(d)
  BY <1>18 DEF IngestFails
<1>19. CASE MarkProcessed(d)
  BY <1>19 DEF MarkProcessed, NextItem
<1>20. CASE MarkFailed(d)
  BY <1>20 DEF MarkFailed, NextItem
<1>21. CASE MarkFails(d)
  BY <1>21 DEF MarkFails, NextItem, Fault
<1>22. CASE Crash(d)
  BY <1>22 DEF Crash, Fault
<1> QED
  BY <1>1, <1>2, <1>3, <1>4, <1>5, <1>6, <1>7, <1>8, <1>9, <1>10, <1>11, <1>12, <1>13,
     <1>14, <1>15, <1>16, <1>17, <1>18, <1>19, <1>20, <1>21, <1>22
     DEF Enqueue, Process

(* What is queued is the whole source, with any number of daemons, a        *)
(* source that changes while it is copied and any limits.                  *)
THEOREM QueuedIsWhole == Spec => []StoredWhole
<1>1. Init => WholeInv
  BY DEF Init, WholeInv, StoredWhole, Enqueuing, EnqueuePCs
<1>2. FileInv /\ FileInv' /\ WholeInv /\ [Next]_vars => WholeInv'
  <2> SUFFICES ASSUME FileInv, FileInv', WholeInv, [Next]_vars PROVE WholeInv'
    OBVIOUS
  <2>1. CASE UNCHANGED vars
    BY <2>1 DEF vars, jobs, rows, history, WholeInv, StoredWhole, Enqueuing, Fits
  <2>2. ASSUME NEW d \in Daemons, Enqueue(d) \/ Process(d) \/ Crash(d)
        PROVE  WholeInv'
    <3>1. \A b \in Batches : status'[b] # "none" => size'[b] = length'[b]
      <4> SUFFICES ASSUME NEW b \in Batches, status'[b] # "none"
                   PROVE  size'[b] = length'[b]
        OBVIOUS
      <4>1. CASE status[b] # "none"
        BY <2>2, <4>1, SizeStep DEF WholeInv, StoredWhole
      <4>2. CASE status[b] = "none"
        <5>1. /\ pc[d] = "insert" /\ b = batch[d]
              /\ size'[b] = incoming[d] /\ length'[b] = length[b]
          BY <2>2, <4>2, SizeStep
        <5>2. incoming[d] = Copied(length[b]) /\ Fits(incoming[d])
          BY <5>1 DEF FileInv, ReserveInv, WholeInv, Enqueuing, EnqueuePCs
        <5>3. length[b] \in Nat
          BY DEF FileInv, TypeOK
        <5> QED
          BY <5>1, <5>2, <5>3, CopiedWhole
      <4> QED
        BY <4>1, <4>2
    <3>2. ASSUME NEW e \in Daemons, e # d
          PROVE  /\ Enqueuing(e)' /\ batch'[e] \in files' =>
                      incoming'[e] = Copied(length'[batch'[e]])
                 /\ pc'[e] \in {"copy", "insert"} => Fits(incoming'[e])
      <4>1. pc'[e] = pc[e] /\ batch'[e] = batch[e] /\ incoming'[e] = incoming[e]
        BY <2>2, <3>2, SizeStep
      <4>2. ASSUME Enqueuing(e)
            PROVE  /\ batch[e] \in files' => batch[e] \in files
                   /\ length'[batch[e]] = length[batch[e]]
        <5>1. batch[e] \in Batches
          BY <4>2 DEF FileInv, JobInv
        <5>2. pc[d] = "copy" => batch[e] # batch[d]
          BY <3>2, <4>2 DEF FileInv, ReserveInv, Enqueuing, EnqueuePCs
        <5> QED
          BY <2>2, <5>1, <5>2, SizeStep
      <4> QED
        BY <4>1, <4>2 DEF WholeInv, Enqueuing
    <3> QED
      BY <2>2, <3>1, <3>2, SizeStep DEF WholeInv, StoredWhole
  <2> QED
    BY <2>1, <2>2 DEF Next
<1>3. WholeInv => StoredWhole
  BY DEF WholeInv
<1> QED
  BY <1>1, <1>2, <1>3, FileInvariant, PTL DEF Spec

-----------------------------------------------------------------------------
(* The bytes of a daemon that is alone: what it admitted and has not yet   *)
(* inserted fits beside the rows, as nobody else adds one meanwhile.       *)
BytesInv ==
  MaxQueuedBytes > 0 =>
    /\ HeldBytes <= MaxQueuedBytes
    /\ \A d \in Daemons :
         pc[d] \in {"copy", "insert"} => HeldBytes + incoming[d] <= MaxQueuedBytes

(* The rows that hold capacity, and their sizes, change for the worse only *)
(* by the INSERT of an admitted batch.                                     *)
LEMMA BytesStep ==
  ASSUME FileInv, NEW d \in Daemons, Enqueue(d) \/ Process(d) \/ Crash(d)
  PROVE  /\ \A b \in Held' : \/ b \in Held /\ size'[b] = size[b]
                             \/ pc[d] = "insert" /\ b = batch[d] /\ size'[b] = incoming[d]
         /\ pc[d] = "insert" => batch[d] \in Batches \ Held
         /\ pc[d] = "insert" => pc'[d] = "idle"
         /\ pc'[d] \in {"copy", "insert"} =>
              \/ pc[d] = "admit" /\ Within(incoming[d]) /\ incoming'[d] = incoming[d]
              \/ pc[d] = "copy" /\ incoming'[d] = incoming[d]
<1> USE SpoolAssumption
    DEF FileInv, TypeOK, JobInv, ReserveInv, Enqueuing, Working, EnqueuePCs, ProcessPCs,
        rows, history, Goto, Held, SpoolAssumption
<1>1. CASE EnqueueBegin(d)
  BY <1>1 DEF EnqueueBegin, Fresh
<1>2. CASE Admit(d)
  BY <1>2 DEF Admit
<1>3. CASE Reject(d)
  BY <1>3 DEF Reject, Abandon, EnqueueReturns
<1>4. CASE MakeRoom(d)
  BY <1>4 DEF MakeRoom
<1>5. CASE SelectVictim(d)
  BY <1>5 DEF SelectVictim
<1>6. CASE NoVictim(d)
  BY <1>6 DEF NoVictim, Abandon, EnqueueReturns
<1>7. CASE DropVictim(d)
  BY <1>7 DEF DropVictim
<1>8. CASE UnlinkVictim(d)
  BY <1>8 DEF UnlinkVictim
<1>9. CASE CopySource(d)
  BY <1>9 DEF CopySource
<1>10. CASE InsertRow(d)
  BY <1>10 DEF InsertRow, EnqueueReturns
<1>11. CASE EnqueueFails(d)
  BY <1>11 DEF EnqueueFails, Abandon, EnqueueReturns, Fault
<1>12. CASE ProcessBegin(d)
  BY <1>12, SelectType DEF ProcessBegin
<1>13. CASE ProcessNothing(d)
  BY <1>13 DEF ProcessNothing, vars, jobs
<1>14. CASE Claim(d)
  BY <1>14, ClaimType DEF Claim
<1>15. CASE ClaimFails(d)
  BY <1>15, ClaimType DEF ClaimFails, NextItem, Fault
<1>16. CASE OpenFile(d)
  BY <1>16 DEF OpenFile
<1>17. CASE Ingest(d)
  BY <1>17 DEF Ingest
<1>18. CASE IngestFails(d)
  BY <1>18 DEF IngestFails
<1>19. CASE MarkProcessed(d)
  BY <1>19 DEF MarkProcessed, NextItem
<1>20. CASE MarkFailed(d)
  BY <1>20 DEF MarkFailed, NextItem
<1>21. CASE MarkFails(d)
  BY <1>21 DEF MarkFails, NextItem, Fault
<1>22. CASE Crash(d)
  BY <1>22 DEF Crash, Fault
<1> QED
  BY <1>1, <1>2, <1>3, <1>4, <1>5, <1>6, <1>7, <1>8, <1>9, <1>10, <1>11, <1>12, <1>13,
     <1>14, <1>15, <1>16, <1>17, <1>18, <1>19, <1>20, <1>21, <1>22
     DEF Enqueue, Process

(* A daemon that is alone keeps --spool-max-bytes, although the size it    *)
(* checks first is a Stat taken before the copy.                           *)
THEOREM BytesBounded ==
  ASSUME NEW sole, Daemons = {sole}
  PROVE  Spec => []BytesBound
<1>1. Init => BytesInv
  <2> SUFFICES ASSUME Init PROVE BytesInv
    OBVIOUS
  <2>1. Held = {}
    BY DEF Init, Held
  <2>2. HeldBytes = 0
    BY <2>1, HeldTotal, Finiteness, TotalStep
  <2> QED
    BY <2>2, SpoolAssumption DEF Init, BytesInv, SpoolAssumption
<1>2. FileInv /\ FileInv' /\ BytesInv /\ [Next]_vars => BytesInv'
  <2> SUFFICES ASSUME FileInv, FileInv', BytesInv, [Next]_vars, MaxQueuedBytes > 0
               PROVE  BytesInv'
    BY DEF BytesInv
  <2>t. TypeOK /\ TypeOK' /\ HeldBytes \in Nat
    BY HeldType DEF FileInv
  <2>1. CASE UNCHANGED vars
    <3>1. HeldBytes' = HeldBytes
      BY <2>1, HeldTotal DEF vars, rows, Held
    <3> QED
      BY <2>1, <3>1 DEF vars, jobs, BytesInv
  <2>2. ASSUME Enqueue(sole) \/ Process(sole) \/ Crash(sole)
        PROVE  BytesInv'
    <3> USE SpoolAssumption DEF SpoolAssumption
    <3>f. IsFiniteSet(Batches) /\ (Held \subseteq Batches) /\ (Held' \subseteq Batches)
      BY DEF Held
    <3>s. (\A b \in Batches : size[b] \in Nat) /\ (\A b \in Batches : size'[b] \in Nat)
      BY <2>t DEF TypeOK
    <3>i. incoming[sole] \in Nat /\ incoming'[sole] \in Nat
      BY <2>t DEF TypeOK
    <3>1. CASE pc[sole] = "insert"
      <4> PICK b : b = batch[sole] OBVIOUS
      <4>1. b \in Batches \ Held /\ pc'[sole] = "idle"
        BY <2>2, <3>1, BytesStep
      <4> DEFINE S == Held' \ {b}
      <4>2. S \subseteq Held /\ \A c \in S : size'[c] = size[c]
        BY <2>2, BytesStep
      <4>3. IsFiniteSet(S) /\ IsFiniteSet(Held') /\ IsFiniteSet(Held)
        BY <3>f, FS_Subset
      <4>4. Total(size', S) = Total(size, S)
        <5> HIDE DEF S
        <5> QED
          BY <4>2, <4>3, TotalSame
      <4>5. Total(size, S) <= Total(size, Held)
        <5> HIDE DEF S
        <5> QED
          BY <3>f, <3>s, <4>2, <4>3, TotalSubset
      <4>6. Total(size', Held') <= incoming[sole] + Total(size', S)
        <5>0. Total(size', S) \in Nat
          <6>1. \A c \in S : size'[c] \in Nat
            BY <3>f, <3>s
          <6> HIDE DEF S
          <6> QED
            BY <4>3, <6>1, TotalType
        <5>1. CASE b \in Held'
          <6>1. size'[b] = incoming[sole]
            BY <2>2, <4>1, <5>1, BytesStep
          <6>2. Total(size', Held') = size'[b] + Total(size', S)
            BY <3>f, <3>s, <4>3, <5>1, TotalRemove
          <6> HIDE DEF S
          <6> QED
            BY <5>0, <3>i, <6>1, <6>2
        <5>2. CASE b \notin Held'
          <6>1. S = Held'
            BY <5>2
          <6> HIDE DEF S
          <6> QED
            BY <5>0, <3>i, <6>1
        <5> QED
          BY <5>1, <5>2
      <4>7. HeldBytes + incoming[sole] <= MaxQueuedBytes
        BY <3>1 DEF BytesInv
      <4>8. HeldBytes' <= MaxQueuedBytes
        <5>1. HeldBytes = Total(size, Held) /\ HeldBytes' = Total(size', Held')
          BY HeldTotal
        <5>2. Total(size, S) \in Nat /\ HeldBytes' \in Nat
          <6>1. \A c \in S : size[c] \in Nat
            BY <3>f, <3>s, <4>2
          <6>2. \A c \in Held' : size'[c] \in Nat
            BY <3>f, <3>s
          <6>3. Total(size, S) \in Nat
            <7> HIDE DEF S
            <7> QED
              BY <4>3, <6>1, TotalType
          <6>4. Total(size', Held') \in Nat
            BY <4>3, <6>2, TotalType
          <6> QED
            BY <5>1, <6>3, <6>4
        <5> HIDE DEF S
        <5> QED
          BY <2>t, <3>i, <4>4, <4>5, <4>6, <4>7, <5>1, <5>2
      <4> QED
        BY <4>1, <4>8 DEF BytesInv
    <3>2. CASE pc[sole] # "insert"
      <4>1. (Held' \subseteq Held) /\ \A b \in Held' : size'[b] = size[b]
        BY <2>2, <3>2, BytesStep
      <4>2. IsFiniteSet(Held) /\ IsFiniteSet(Held')
        BY <3>f, FS_Subset
      <4>3. Total(size', Held') = Total(size, Held')
        BY <4>1, <4>2, TotalSame
      <4>4. Total(size, Held') <= Total(size, Held)
        BY <3>f, <3>s, <4>1, <4>2, TotalSubset
      <4>5. HeldBytes' <= HeldBytes
        BY <4>3, <4>4, HeldTotal
      <4>6. HeldBytes' \in Nat
        <5>1. \A c \in Held' : size'[c] \in Nat
          BY <3>f, <3>s
        <5> QED
          BY <4>2, <5>1, HeldTotal, TotalType
      <4>7. pc'[sole] \in {"copy", "insert"} => HeldBytes' + incoming'[sole] <= MaxQueuedBytes
        <5>1. CASE pc[sole] = "copy" /\ incoming'[sole] = incoming[sole]
          BY <2>t, <3>i, <4>5, <4>6, <5>1 DEF BytesInv
        <5>2. CASE Within(incoming[sole]) /\ incoming'[sole] = incoming[sole]
          BY <2>t, <3>i, <4>5, <4>6, <5>2 DEF Within, WithinBytes
        <5> QED
          BY <2>2, <5>1, <5>2, BytesStep
      <4>8. HeldBytes' <= MaxQueuedBytes
        BY <2>t, <4>5, <4>6 DEF BytesInv
      <4> QED
        BY <4>7, <4>8 DEF BytesInv
    <3> QED
      BY <3>1, <3>2
  <2> QED
    BY <2>1, <2>2 DEF Next
<1>3. BytesInv => BytesBound
  BY DEF BytesInv, BytesBound
<1> QED
  BY <1>1, <1>2, <1>3, FileInvariant, PTL DEF Spec

-----------------------------------------------------------------------------
(* The order of the rows, for a daemon that is alone: the stamps of rows   *)
(* differ, the batch about to get a row has the latest, the row about to   *)
(* be dropped the earliest, and a row older than an item still to process  *)
(* is one itself or was passed by.                                         *)
Rows == {b \in Batches : status[b] # "none"}

OrderInv ==
  /\ \A b \in Rows : 0 < stamp[b] /\ stamp[b] <= clock
  /\ \A b, c \in Rows : stamp[b] = stamp[c] => b = c
  /\ \A d \in Daemons :
       /\ pc[d] = "insert" =>
            /\ 0 < stamp[batch[d]] /\ stamp[batch[d]] <= clock
            /\ \A c \in Rows : stamp[c] < stamp[batch[d]]
       /\ pc[d] = "drop" =>
            victim[d] \in Queued /\ \A c \in Queued : stamp[victim[d]] <= stamp[c]
       /\ \A b \in todo[d], c \in Queued :
            stamp[c] < stamp[b] => c \in todo[d] \cup skipped

(* The rows Process selects are a prefix of the queue. *)
LEMMA SelectPrefix ==
  ASSUME TypeOK, NEW b \in SelectQueued, NEW c \in Queued, stamp[c] < stamp[b]
  PROVE  c \in SelectQueued
<1> DEFINE Older(x) == {y \in Queued : stamp[y] < stamp[x]}
<1>1. (Queued \subseteq Batches) /\ b \in Queued /\ Cardinality(Older(b)) < ProcessLimit
  BY DEF SelectQueued, Queued
<1>2. Older(c) \subseteq Older(b)
  BY <1>1 DEF TypeOK
<1>3. IsFiniteSet(Older(b)) /\ IsFiniteSet(Older(c))
  <2>1. IsFiniteSet(Batches) BY SpoolAssumption DEF SpoolAssumption
  <2>2. (Older(b) \subseteq Batches) /\ (Older(c) \subseteq Batches) BY <1>1
  <2> HIDE DEF Older
  <2> QED BY <2>1, <2>2, FS_Subset
<1>4. /\ Cardinality(Older(c)) <= Cardinality(Older(b))
      /\ Cardinality(Older(b)) \in Nat /\ Cardinality(Older(c)) \in Nat
  <2> HIDE DEF Older
  <2> QED BY <1>2, <1>3, FS_Subset, FS_CardinalityType
<1>5. Cardinality(Older(c)) < ProcessLimit
  <2> HIDE DEF Older
  <2> QED BY <1>1, <1>4, SpoolAssumption DEF SpoolAssumption
<1> QED
  BY <1>5 DEF SelectQueued

(* What a step does to the stamps, the queue and the items to process.     *)
LEMMA StampStep ==
  ASSUME FileInv, NEW d \in Daemons, Enqueue(d) \/ Process(d) \/ Crash(d)
  PROVE  /\ clock <= clock' /\ skipped \subseteq skipped'
         /\ \A b \in Batches : status[b] # "none" =>
              status'[b] # "none" /\ stamp'[b] = stamp[b]
         /\ \A b \in Batches : status'[b] # "none" =>
              \/ status[b] # "none" /\ (status'[b] = "queued" => status[b] = "queued")
              \/ pc[d] = "insert" /\ b = batch[d] /\ stamp'[b] = stamp[b]
         /\ pc[d] = "insert" => todo'[d] \in {todo[d], {}} /\ pc'[d] = "idle"
         /\ pc'[d] = "insert" => clock' = clock + 1 /\ stamp'[batch'[d]] = clock'
         /\ pc'[d] = "drop" =>
              /\ Queued # {} /\ victim'[d] = Oldest(Queued)
              /\ UNCHANGED <<status, stamp>>
         /\ \/ pc[d] = "idle" /\ todo'[d] = SelectQueued /\ UNCHANGED <<status, stamp>>
            \/ /\ todo'[d] \subseteq todo[d]
               /\ \A c \in todo[d] \ todo'[d] :
                    todo'[d] = {} \/ c \in skipped' \/ status'[c] # "queued"
<1> USE SpoolAssumption
    DEF FileInv, TypeOK, JobInv, ReserveInv, Enqueuing, Working, EnqueuePCs, ProcessPCs,
        rows, history, Goto, SpoolAssumption
<1>1. CASE EnqueueBegin(d)
  BY <1>1 DEF EnqueueBegin, Fresh
<1>2. CASE Admit(d)
  BY <1>2 DEF Admit
<1>3. CASE Reject(d)
  BY <1>3 DEF Reject, Abandon, EnqueueReturns
<1>4. CASE MakeRoom(d)
  BY <1>4 DEF MakeRoom
<1>5. CASE SelectVictim(d)
  BY <1>5 DEF SelectVictim
<1>6. CASE NoVictim(d)
  BY <1>6 DEF NoVictim, Abandon, EnqueueReturns
<1>7. CASE DropVictim(d)
  BY <1>7 DEF DropVictim
<1>8. CASE UnlinkVictim(d)
  BY <1>8 DEF UnlinkVictim
<1>9. CASE CopySource(d)
  BY <1>9 DEF CopySource
<1>10. CASE InsertRow(d)
  BY <1>10 DEF InsertRow, EnqueueReturns
<1>11. CASE EnqueueFails(d)
  BY <1>11 DEF EnqueueFails, Abandon, EnqueueReturns, Fault
<1>12. CASE ProcessBegin(d)
  BY <1>12, SelectType DEF ProcessBegin
<1>13. CASE ProcessNothing(d)
  BY <1>13 DEF ProcessNothing, vars, jobs
<1>14. CASE Claim(d)
  BY <1>14, ClaimType DEF Claim
<1>15. CASE ClaimFails(d)
  BY <1>15, ClaimType DEF ClaimFails, NextItem, Fault
<1>16. CASE OpenFile(d)
  BY <1>16 DEF OpenFile
<1>17. CASE Ingest(d)
  BY <1>17 DEF Ingest
<1>18. CASE IngestFails(d)
  BY <1>18 DEF IngestFails
<1>19. CASE MarkProcessed(d)
  BY <1>19 DEF MarkProcessed, NextItem
<1>20. CASE MarkFailed(d)
  BY <1>20 DEF MarkFailed, NextItem
<1>21. CASE MarkFails(d)
  BY <1>21 DEF MarkFails, NextItem, Fault
<1>22. CASE Crash(d)
  BY <1>22 DEF Crash, Fault
<1> QED
  BY <1>1, <1>2, <1>3, <1>4, <1>5, <1>6, <1>7, <1>8, <1>9, <1>10, <1>11, <1>12, <1>13,
     <1>14, <1>15, <1>16, <1>17, <1>18, <1>19, <1>20, <1>21, <1>22
     DEF Enqueue, Process

LEMMA OrderStep ==
  ASSUME NEW sole, Daemons = {sole}, FileInv, FileInv', SoleInv, OrderInv, [Next]_vars
  PROVE  OrderInv'
<1>1. CASE UNCHANGED vars
  BY <1>1 DEF vars, jobs, rows, history, OrderInv, Rows, Queued
<1>2. ASSUME Enqueue(sole) \/ Process(sole) \/ Crash(sole)
      PROVE  OrderInv'
  <2>t. TypeOK /\ TypeOK' BY DEF FileInv
  <2>n. /\ clock \in Nat /\ clock' \in Nat /\ stamp \in [Batches -> Nat]
        /\ stamp' \in [Batches -> Nat]
    BY <2>t DEF TypeOK
  <2>r. (Rows \subseteq Batches) /\ (Rows' \subseteq Batches) /\ (Rows \subseteq Rows')
    BY <1>2, StampStep DEF Rows
  <2>s. ASSUME NEW b \in Rows'
        PROVE  \/ b \in Rows /\ stamp'[b] = stamp[b]
               \/ pc[sole] = "insert" /\ b = batch[sole] /\ stamp'[b] = stamp[b]
    BY <1>2, <2>r, StampStep DEF Rows
  <2>1. ASSUME NEW b \in Rows' PROVE 0 < stamp'[b] /\ stamp'[b] <= clock'
    <3>1. CASE b \in Rows /\ stamp'[b] = stamp[b]
      <4>1. 0 < stamp[b] /\ stamp[b] <= clock BY <3>1 DEF OrderInv
      <4>2. clock <= clock' BY <1>2, StampStep
      <4>3. stamp[b] \in Nat BY <2>n, <2>r, <3>1
      <4> QED BY <2>n, <3>1, <4>1, <4>2, <4>3
    <3>2. CASE pc[sole] = "insert" /\ b = batch[sole] /\ stamp'[b] = stamp[b]
      <4>1. batch[sole] \in Batches BY <3>2 DEF FileInv, JobInv, Enqueuing, EnqueuePCs
      <4>2. stamp[b] <= clock /\ 0 < stamp[b] BY <3>2 DEF OrderInv
      <4>3. clock <= clock' BY <1>2, StampStep
      <4> QED BY <2>n, <3>2, <4>1, <4>2, <4>3
    <3> QED BY <2>s, <3>1, <3>2
  <2>2. ASSUME NEW b \in Rows', NEW c \in Rows', stamp'[b] = stamp'[c] PROVE b = c
    <3>1. \A x \in Rows : pc[sole] = "insert" => stamp[x] < stamp[batch[sole]]
      BY DEF OrderInv
    <3>2. (b \in Rows /\ c \in Rows /\ stamp[b] = stamp[c]) => b = c
      BY DEF OrderInv
    <3>3. stamp[b] \in Nat /\ stamp[c] \in Nat BY <2>n, <2>r
    <3> QED BY <2>2, <2>s, <3>1, <3>2, <3>3
  <2>3. ASSUME pc'[sole] = "insert"
        PROVE  /\ 0 < stamp'[batch'[sole]] /\ stamp'[batch'[sole]] <= clock'
               /\ \A c \in Rows' : stamp'[c] < stamp'[batch'[sole]]
    <3>1. clock' = clock + 1 /\ stamp'[batch'[sole]] = clock' BY <1>2, <2>3, StampStep
    <3>2. ASSUME NEW c \in Rows' PROVE stamp'[c] < clock'
      <4>1. pc[sole] # "insert" BY <1>2, <2>3, StampStep
      <4>2. c \in Rows /\ stamp'[c] = stamp[c] BY <2>s, <4>1
      <4>3. stamp[c] <= clock /\ stamp[c] \in Nat BY <2>n, <2>r, <4>2 DEF OrderInv
      <4> QED BY <2>n, <3>1, <4>2, <4>3
    <3> QED BY <2>n, <3>1, <3>2
  <2>4. ASSUME pc'[sole] = "drop"
        PROVE  victim'[sole] \in Queued' /\ \A c \in Queued' : stamp'[victim'[sole]] <= stamp'[c]
    <3>1. Queued # {} /\ victim'[sole] = Oldest(Queued) /\ status' = status /\ stamp' = stamp
      BY <1>2, <2>4, StampStep
    <3>2. Queued' = Queued BY <3>1 DEF Queued
    <3>3. Queued \subseteq Batches BY DEF Queued
    <3>4. Oldest(Queued) \in Queued /\ \A c \in Queued : stamp[Oldest(Queued)] <= stamp[c]
      BY <2>n, <3>1, <3>3, OldestInSet
    <3> QED BY <3>1, <3>2, <3>4
  <2>5. ASSUME NEW b \in todo'[sole], NEW c \in Queued', stamp'[c] < stamp'[b]
        PROVE  c \in todo'[sole] \cup skipped'
    <3>1. CASE todo'[sole] = SelectQueued /\ status' = status /\ stamp' = stamp
      <4>1. Queued' = Queued BY <3>1 DEF Queued
      <4> QED BY <2>t, <2>5, <3>1, <4>1, SelectPrefix
    <3>2. CASE /\ todo'[sole] \subseteq todo[sole]
               /\ \A x \in todo[sole] \ todo'[sole] :
                    todo'[sole] = {} \/ x \in skipped' \/ status'[x] # "queued"
      <4>1. b \in todo[sole] /\ todo'[sole] # {} BY <2>5, <3>2
      <4>2. todo[sole] \subseteq Rows BY <2>t DEF TypeOK, SoleInv, Rows
      <4>3. pc[sole] # "insert" BY <4>1 DEF SoleInv, ProcessPCs
      <4>4. c \in Rows' /\ status'[c] = "queued" /\ c \in Batches BY DEF Rows, Queued
      <4>5. c \in Rows /\ status[c] = "queued"
        <5>1. c \in Rows BY <2>s, <4>3, <4>4
        <5> QED BY <1>2, <4>3, <4>4, <5>1, StampStep DEF Rows
      <4>6. stamp'[c] = stamp[c] /\ stamp'[b] = stamp[b]
        BY <1>2, <2>r, <4>1, <4>2, <4>5, StampStep DEF Rows
      <4>7. c \in todo[sole] \cup skipped
        <5>1. c \in Queued BY <4>4, <4>5 DEF Queued
        <5> QED BY <2>5, <4>1, <4>6, <5>1 DEF OrderInv
      <4>8. skipped \subseteq skipped' BY <1>2, StampStep
      <4> QED BY <3>2, <4>1, <4>4, <4>7, <4>8
    <3> QED BY <1>2, <3>1, <3>2, StampStep
  <2> QED BY <2>1, <2>2, <2>3, <2>4, <2>5 DEF OrderInv
<1> QED
  BY <1>1, <1>2 DEF Next

LEMMA OrderInvariant ==
  ASSUME NEW sole, Daemons = {sole}
  PROVE  Spec => [](FileInv /\ OnceInv /\ SoleInv /\ CapacityInv /\ OrderInv)
<1>1. Init => OrderInv
  BY DEF Init, OrderInv, Rows, Queued
<1>2. FileInv /\ FileInv' /\ SoleInv /\ OrderInv /\ [Next]_vars => OrderInv'
  BY OrderStep
<1>3. Spec => [](FileInv /\ OnceInv /\ SoleInv)
  BY SoleInvariant
<1>4. Init => CapacityInv
  BY CapacityInit
<1>5. FileInv /\ FileInv' /\ CapacityInv /\ [Next]_vars => CapacityInv'
  BY CapacityStep
<1> QED
  BY <1>1, <1>2, <1>3, <1>4, <1>5, PTL DEF Spec

-----------------------------------------------------------------------------
(* The refinement mapping: the queue of BoundedFifo is the list of the     *)
(* queued rows in the order of their stamps.                               *)
LEMMA QueueListed ==
  QueueInOrder = Listed(stamp, Queued) /\ QueueInOrder' = Listed(stamp', Queued')
<1>1. QueueInOrder = Listed(stamp, Queued)
  BY DEF QueueInOrder, Listed, Below
<1>2. QueueInOrder' = Listed(stamp', Queued')
  BY DEF QueueInOrder, Listed, Below
<1> QED
  BY <1>1, <1>2

LEMMA QueueFacts ==
  ASSUME TypeOK, OrderInv
  PROVE  /\ InOrder(QueueInOrder, stamp, Queued)
         /\ Len(QueueInOrder) = Cardinality(Queued)
         /\ (Queued \subseteq Batches) /\ IsFiniteSet(Queued)
         /\ \A b \in Queued : stamp[b] \in Int
<1>1. (Queued \subseteq Batches) /\ (Queued \subseteq Rows)
  BY DEF Queued, Rows
<1>2. IsFiniteSet(Queued)
  BY <1>1, FS_Subset, SpoolAssumption DEF SpoolAssumption
<1>3. \A b \in Queued : stamp[b] \in Int
  BY <1>1 DEF TypeOK
<1>4. \A b, c \in Queued : stamp[b] = stamp[c] => b = c
  BY <1>1 DEF OrderInv
<1> QED
  BY <1>1, <1>2, <1>3, <1>4, QueueListed, ListedInOrder

(* The place of a row in the queue. *)
LEMMA QueuePlace ==
  ASSUME TypeOK, OrderInv
  PROVE  /\ DOMAIN QueueInOrder = 1..Len(QueueInOrder) /\ Len(QueueInOrder) \in Nat
         /\ \A i \in 1..Len(QueueInOrder) : QueueInOrder[i] \in Queued
         /\ \A b \in Queued : \E i \in 1..Len(QueueInOrder) : QueueInOrder[i] = b
         /\ Fifo!Waiting = Queued
<1>1. QueueInOrder \in Seq(Queued)
  BY QueueFacts DEF InOrder
<1>2. /\ DOMAIN QueueInOrder = 1..Len(QueueInOrder) /\ Len(QueueInOrder) \in Nat
      /\ \A i \in 1..Len(QueueInOrder) : QueueInOrder[i] \in Queued
  BY <1>1, LenProperties
<1>3. \A b \in Queued : \E i \in 1..Len(QueueInOrder) : QueueInOrder[i] = b
  BY QueueFacts DEF InOrder
<1> QED
  BY <1>2, <1>3 DEF Fifo!Waiting

(* A step after which the rows are as before is a stutter of the queue.    *)
LEMMA QuietStep ==
  ASSUME UNCHANGED <<status, ingested, skipped>>,
         \A b \in Batches : status[b] # "none" => stamp'[b] = stamp[b]
  PROVE  UNCHANGED Fifo!fifoVars
<1>1. Queued' = Queued /\ \A b \in Queued : stamp[b] = stamp'[b]
  BY DEF Queued
<1>2. QueueInOrder' = QueueInOrder
  BY <1>1, QueueListed, ListedSame
<1> QED
  BY <1>2 DEF Fifo!fifoVars

(* The cardinality BoundedFifo speaks of is that of this module. *)
LEMMA FifoCardinality ==
  ASSUME NEW S
  PROVE  Fifo!Cardinality(S) = Cardinality(S)
  BY DEF Fifo!Cardinality, Cardinality

(* The statements that change the queue, each as an action of the          *)
(* abstract queue.                                                         *)
LEMMA InsertAccepts ==
  ASSUME NEW sole, Daemons = {sole}, FileInv, OnceInv, CapacityInv, OrderInv,
         InsertRow(sole)
  PROVE  \E x \in Batches : Fifo!Accept(x)
<1> PICK b : b = batch[sole]
  OBVIOUS
<1>t. TypeOK
  BY DEF FileInv
<1>1. /\ b \in Batches /\ status[b] = "none" /\ pc[sole] = "insert"
      /\ status' = [status EXCEPT ![b] = "queued"] /\ stamp' = stamp
      /\ ingested' = ingested /\ skipped' = skipped
  BY DEF FileInv, JobInv, ReserveInv, Enqueuing, EnqueuePCs, InsertRow, history
<1>2. ingested[b] = 0
  BY <1>1 DEF OnceInv, OnceFor
<1>3. Queued' = Queued \cup {b} /\ b \notin Queued
  BY <1>1, <1>t DEF Queued, TypeOK
<1>4. \A c \in Queued : stamp[c] < stamp[b]
  BY <1>1 DEF OrderInv, Rows, Queued
<1>5. QueueInOrder' = Append(QueueInOrder, b)
  <2>1. InOrder(Append(QueueInOrder, b), stamp, Queued \cup {b})
    BY <1>4, <1>t, QueueFacts, OrderAppend
  <2>2. \A c \in Queued \cup {b} : stamp[c] \in Int
    BY <1>1, <1>t DEF TypeOK, Queued
  <2> QED
    BY <1>1, <1>3, <2>1, <2>2, QueueListed, ListedUnique
<1> DEFINE H == {c \in Batches : status[c] = "processing"}
<1>6. MaxQueued > 0 => Len(QueueInOrder) + Cardinality(H) < MaxQueued
  <2> SUFFICES ASSUME MaxQueued > 0
               PROVE  Len(QueueInOrder) + Cardinality(H) < MaxQueued
    OBVIOUS
  <2>1. Admitted = {sole}
    BY <1>1 DEF Admitted
  <2>2. Cardinality(Admitted) = 1 /\ Cardinality(Daemons) = 1
    BY <2>1, FS_Singleton
  <2>3. Held = Queued \cup H /\ Queued \cap H = {}
    BY DEF Held, Queued
  <2>4. IsFiniteSet(H) /\ IsFiniteSet(Queued)
    <3>1. (H \subseteq Batches) /\ (Queued \subseteq Batches)
      BY DEF Queued
    <3> QED
      BY <3>1, FS_Subset, SpoolAssumption DEF SpoolAssumption
  <2>5. Cardinality(Held) = Cardinality(Queued) + Cardinality(H)
    <3>1. Cardinality(Queued \cup H) =
            Cardinality(Queued) + Cardinality(H) - Cardinality(Queued \cap H)
      BY <2>4, FS_Union
    <3>2. Cardinality(Queued \cap H) = 0
      BY <2>3, FS_EmptySet
    <3>3. Cardinality(Queued) \in Nat /\ Cardinality(H) \in Nat
      BY <2>4, FS_CardinalityType
    <3> HIDE DEF H
    <3> QED
      BY <2>3, <3>1, <3>2, <3>3
  <2>6. Cardinality(Held) + Cardinality(Admitted) <= MaxQueued + Cardinality(Daemons) - 1
    BY DEF CapacityInv
  <2>7. Cardinality(Queued) \in Nat /\ Cardinality(H) \in Nat
    BY <2>4, FS_CardinalityType
  <2>8. Len(QueueInOrder) = Cardinality(Queued)
    BY <1>t, QueueFacts
  <2> HIDE DEF H
  <2> QED
    BY <2>2, <2>5, <2>6, <2>7, <2>8, SpoolAssumption DEF SpoolAssumption
<1>7. H' = H /\ {c \in Batches : status'[c] = "dropped"} = {c \in Batches : status[c] = "dropped"}
  BY <1>1, <1>t DEF TypeOK
<1>8. b \notin Queued \cup H \cup {c \in Batches : status[c] = "dropped"}
  BY <1>1 DEF Queued
<1>9. Fifo!Waiting = Queued
  BY <1>t, QueuePlace
<1>10. Fifo!Cardinality(H) = Cardinality(H)
  BY FifoCardinality
<1>11. Fifo!Accept(b)
  BY <1>1, <1>2, <1>5, <1>6, <1>7, <1>8, <1>9, <1>10 DEF Fifo!Accept
<1> QED
  BY <1>1, <1>11

LEMMA DropEvicts ==
  ASSUME NEW sole, Daemons = {sole}, FileInv, OrderInv, DropVictim(sole)
  PROVE  Fifo!Evict
<1> PICK v : v = victim[sole]
  OBVIOUS
<1>t. TypeOK
  BY DEF FileInv
<1>1. /\ v \in Queued /\ (\A c \in Queued : stamp[v] <= stamp[c])
      /\ status' = [status EXCEPT ![v] = "dropped"]
      /\ UNCHANGED <<stamp, ingested, skipped>>
  <2>1. pc[sole] = "drop"
    BY DEF DropVictim
  <2>2. v \in Queued /\ \A c \in Queued : stamp[v] <= stamp[c]
    BY <2>1 DEF OrderInv
  <2> QED
    BY <1>t, <2>2 DEF DropVictim, history, TypeOK, Queued
<1>2. v \in Batches /\ status[v] = "queued"
  BY <1>1 DEF Queued
<1> DEFINE q == QueueInOrder
<1>3. /\ InOrder(q, stamp, Queued) /\ (\A c \in Queued : stamp[c] \in Int)
      /\ Len(q) \in Nat /\ (\A i \in 1..Len(q) : q[i] \in Queued)
      /\ \A b \in Queued : \E i \in 1..Len(q) : q[i] = b
  BY <1>t, QueueFacts, QueuePlace
<1>4. PICK k \in 1..Len(q) : q[k] = v
  BY <1>1, <1>3
<1>5. q # <<>>
  BY <1>4
<1> HIDE DEF q
<1>6. InOrder(Tail(q), stamp, Queued \ {Head(q)}) /\ Head(q) = q[1] /\ 1 \in 1..Len(q)
  BY <1>3, <1>5, OrderTail
<1>7. q[1] = v
  <2>1. k # 1 => 1 < k
    BY <1>3
  <2>2. 1 < k => stamp[q[1]] < stamp[v]
    BY <1>3, <1>4, <1>6 DEF InOrder
  <2>3. stamp[v] <= stamp[q[1]] /\ stamp[v] \in Int /\ stamp[q[1]] \in Int
    BY <1>1, <1>3, <1>6
  <2> QED
    BY <1>4, <2>1, <2>2, <2>3
<1>8. Queued' = Queued \ {v}
  BY <1>1, <1>2, <1>t DEF Queued, TypeOK
<1>9. QueueInOrder' = Tail(q)
  BY <1>1, <1>3, <1>6, <1>7, <1>8, QueueListed, ListedUnique
<1>10. /\ {c \in Batches : status'[c] = "processing"} = {c \in Batches : status[c] = "processing"}
       /\ {c \in Batches : status'[c] = "dropped"} =
            {c \in Batches : status[c] = "dropped"} \cup {v}
  BY <1>1, <1>2, <1>t DEF TypeOK
<1> QED
  BY <1>1, <1>5, <1>6, <1>7, <1>9, <1>10 DEF Fifo!Evict, q

LEMMA ClaimTakes ==
  ASSUME NEW sole, Daemons = {sole}, FileInv, SoleInv, OrderInv, Claim(sole)
  PROVE  \E i \in DOMAIN QueueInOrder : Fifo!Take(i)
<1> PICK b : b = Oldest(todo[sole])
  OBVIOUS
<1>t. TypeOK
  BY DEF FileInv
<1>1. /\ pc[sole] = "claim" /\ b \in todo[sole] /\ (\A c \in todo[sole] : stamp[b] <= stamp[c])
      /\ b \in Batches
  <2>1. pc[sole] = "claim" /\ todo[sole] # {} /\ todo[sole] \subseteq Batches
    BY <1>t DEF Claim, FileInv, JobInv, TypeOK
  <2>2. b \in todo[sole] /\ \A c \in todo[sole] : stamp[b] <= stamp[c]
    BY <1>t, <2>1, OldestInSet DEF TypeOK
  <2> QED
    BY <2>1, <2>2
<1>2. status[b] = "queued" /\ b \in Queued
  BY <1>1 DEF SoleInv, Queued
<1>3. /\ status' = [status EXCEPT ![b] = "processing"]
      /\ UNCHANGED <<stamp, ingested, skipped>>
  BY <1>1, <1>2, <1>t DEF Claim, history, TypeOK
<1> DEFINE q == QueueInOrder
<1>4. /\ InOrder(q, stamp, Queued) /\ (\A c \in Queued : stamp[c] \in Int)
      /\ DOMAIN q = 1..Len(q) /\ Len(q) \in Nat /\ (\A i \in 1..Len(q) : q[i] \in Queued)
      /\ \A c \in Queued : \E i \in 1..Len(q) : q[i] = c
  BY <1>t, QueueFacts, QueuePlace
<1> HIDE DEF q
<1>5. PICK i \in 1..Len(q) : q[i] = b
  BY <1>2, <1>4
<1>6. ASSUME NEW j \in 1..(i - 1)
      PROVE  q[j] \in skipped
  <2>1. j \in 1..Len(q) /\ j < i
    BY <1>4
  <2>2. stamp[q[j]] < stamp[b] /\ q[j] \in Queued
    BY <1>4, <1>5, <2>1 DEF InOrder
  <2>3. q[j] \in todo[sole] \cup skipped
    BY <1>1, <2>2 DEF OrderInv
  <2>4. stamp[b] \in Int /\ stamp[q[j]] \in Int
    BY <1>2, <1>4, <2>2
  <2> QED
    BY <1>1, <2>2, <2>3, <2>4
<1>7. Queued' = Queued \ {b}
  BY <1>1, <1>2, <1>3, <1>t DEF Queued, TypeOK
<1>8. QueueInOrder' = Without(q, i)
  <2>1. InOrder(Without(q, i), stamp, Queued \ {b})
    BY <1>4, <1>5, OrderWithout
  <2> QED
    BY <1>3, <1>4, <1>7, <2>1, QueueListed, ListedUnique
<1>9. /\ {c \in Batches : status'[c] = "processing"} =
           {c \in Batches : status[c] = "processing"} \cup {b}
      /\ {c \in Batches : status'[c] = "dropped"} = {c \in Batches : status[c] = "dropped"}
  BY <1>1, <1>2, <1>3, <1>t DEF TypeOK
<1>10. Fifo!Take(i)
  BY <1>3, <1>5, <1>6, <1>8, <1>9 DEF Fifo!Take, Without, q
<1> QED
  BY <1>4, <1>10 DEF q

LEMMA ClaimFailurePasses ==
  ASSUME NEW sole, Daemons = {sole}, FileInv, SoleInv, OrderInv, ClaimFails(sole)
  PROVE  \E x \in Batches : Fifo!Pass(x)
<1> PICK b : b = Oldest(todo[sole])
  OBVIOUS
<1>t. TypeOK
  BY DEF FileInv
<1>1. b \in todo[sole] /\ b \in Batches
  BY <1>t, ClaimType DEF ClaimFails, FileInv
<1>2. b \in Queued /\ Fifo!Waiting = Queued
  BY <1>1, <1>t, QueuePlace DEF SoleInv, Queued
<1>3. skipped' = skipped \cup {b} /\ UNCHANGED <<status, stamp, ingested>>
  BY DEF ClaimFails, Fault, rows
<1>4. QueueInOrder' = QueueInOrder
  BY <1>3, QueueListed DEF Queued
<1>5. Fifo!Pass(b)
  BY <1>2, <1>3, <1>4 DEF Fifo!Pass
<1> QED
  BY <1>1, <1>5

LEMMA IngestDelivers ==
  ASSUME NEW sole, Daemons = {sole}, FileInv, OnceInv, SoleInv, Ingest(sole)
  PROVE  \E x \in Batches : Fifo!Deliver(x)
<1> PICK b : b = batch[sole]
  OBVIOUS
<1>t. TypeOK
  BY DEF FileInv
<1>1. pc[sole] = "ingest" /\ b \in Batches /\ status[b] = "processing"
  BY DEF Ingest, FileInv, JobInv, SoleInv, Working
<1>2. /\ ingested' = [ingested EXCEPT ![b] = ingested[b] + 1]
      /\ UNCHANGED <<status, stamp, skipped>>
  BY DEF Ingest, rows, history
<1>3. ingested[b] = 0
  <2>1. ingested[b] + Cardinality(Pending(b)) <= Cardinality(Daemons)
    BY <1>1 DEF OnceInv, OnceFor
  <2>2. Pending(b) = {sole}
    BY <1>1 DEF Pending
  <2>3. Cardinality(Daemons) = 1 /\ Cardinality(Pending(b)) = 1
    BY <2>2, FS_Singleton
  <2>4. ingested[b] \in Nat
    BY <1>1, <1>t DEF TypeOK
  <2> QED
    BY <2>1, <2>3, <2>4
<1>4. ingested' = [ingested EXCEPT ![b] = 1]
  BY <1>2, <1>3
<1>5. QueueInOrder' = QueueInOrder
  BY <1>2, QueueListed DEF Queued
<1>6. Fifo!Deliver(b)
  BY <1>1, <1>2, <1>3, <1>4, <1>5 DEF Fifo!Deliver
<1> QED
  BY <1>1, <1>6

LEMMA MarkReleases ==
  ASSUME NEW sole, Daemons = {sole}, FileInv, SoleInv,
         MarkProcessed(sole) \/ MarkFailed(sole)
  PROVE  \E x \in Batches : Fifo!Release(x)
<1> PICK b : b = batch[sole]
  OBVIOUS
<1>t. TypeOK
  BY DEF FileInv
<1>1. b \in Batches /\ status[b] = "processing"
  BY DEF MarkProcessed, MarkFailed, FileInv, JobInv, SoleInv, Working
<1>2. PICK s \in {"processed", "failed"} :
        status' = [status EXCEPT ![b] = s] /\ UNCHANGED <<stamp, ingested, skipped>>
  BY DEF MarkProcessed, MarkFailed, history
<1>3. Queued' = Queued
  BY <1>1, <1>2, <1>t DEF Queued, TypeOK
<1>4. QueueInOrder' = QueueInOrder
  BY <1>2, <1>3, QueueListed
<1>5. /\ {c \in Batches : status'[c] = "processing"} =
           {c \in Batches : status[c] = "processing"} \ {b}
      /\ {c \in Batches : status'[c] = "dropped"} = {c \in Batches : status[c] = "dropped"}
  BY <1>1, <1>2, <1>t DEF TypeOK
<1>6. Fifo!Release(b)
  BY <1>1, <1>2, <1>4, <1>5 DEF Fifo!Release
<1> QED
  BY <1>1, <1>6

(* Every statement of a daemon that is alone is an action of the bounded   *)
(* queue, or leaves it as it is.                                           *)
LEMMA FifoStep ==
  ASSUME NEW sole, Daemons = {sole}, FileInv, OnceInv, SoleInv, CapacityInv, OrderInv,
         [Next]_vars
  PROVE  [Fifo!FifoNext]_(Fifo!fifoVars)
<1>t. TypeOK
  BY DEF FileInv
<1>1. CASE UNCHANGED vars
  BY <1>1, QuietStep DEF vars, rows, history
<1>2. ASSUME Enqueue(sole) \/ Process(sole) \/ Crash(sole)
      PROVE  Fifo!FifoNext \/ UNCHANGED Fifo!fifoVars
  <2>1. CASE InsertRow(sole)
    BY <2>1, InsertAccepts DEF Fifo!FifoNext
  <2>2. CASE DropVictim(sole)
    BY <2>2, DropEvicts DEF Fifo!FifoNext
  <2>3. CASE Claim(sole)
    BY <2>3, ClaimTakes DEF Fifo!FifoNext
  <2>4. CASE ClaimFails(sole)
    BY <2>4, ClaimFailurePasses DEF Fifo!FifoNext
  <2>5. CASE Ingest(sole)
    BY <2>5, IngestDelivers DEF Fifo!FifoNext
  <2>6. CASE MarkProcessed(sole) \/ MarkFailed(sole)
    BY <2>6, MarkReleases DEF Fifo!FifoNext
  <2>7. CASE /\ ~InsertRow(sole) /\ ~DropVictim(sole) /\ ~Claim(sole) /\ ~ClaimFails(sole)
             /\ ~Ingest(sole) /\ ~MarkProcessed(sole) /\ ~MarkFailed(sole)
    <3>1. /\ UNCHANGED <<status, ingested, skipped>>
          /\ \A b \in Batches : status[b] # "none" => stamp'[b] = stamp[b]
      <4> USE DEF FileInv, TypeOK, JobInv, ReserveInv, Enqueuing, EnqueuePCs, rows, history,
            Goto
      <4>1. CASE EnqueueBegin(sole)
        BY <4>1 DEF EnqueueBegin
      <4>2. CASE Admit(sole)
        BY <4>2 DEF Admit
      <4>3. CASE Reject(sole)
        BY <4>3 DEF Reject, Abandon
      <4>4. CASE MakeRoom(sole)
        BY <4>4 DEF MakeRoom
      <4>5. CASE SelectVictim(sole)
        BY <4>5 DEF SelectVictim
      <4>6. CASE NoVictim(sole)
        BY <4>6 DEF NoVictim, Abandon
      <4>7. CASE UnlinkVictim(sole)
        BY <4>7 DEF UnlinkVictim
      <4>8. CASE CopySource(sole)
        BY <4>8 DEF CopySource
      <4>9. CASE EnqueueFails(sole)
        BY <4>9 DEF EnqueueFails, Abandon, Fault
      <4>10. CASE ProcessBegin(sole)
        BY <4>10 DEF ProcessBegin
      <4>11. CASE ProcessNothing(sole)
        BY <4>11 DEF ProcessNothing, vars
      <4>12. CASE OpenFile(sole)
        BY <4>12 DEF OpenFile
      <4>13. CASE IngestFails(sole)
        BY <4>13 DEF IngestFails
      <4>14. CASE MarkFails(sole)
        BY <4>14 DEF MarkFails, Fault
      <4>15. CASE Crash(sole)
        BY <4>15 DEF Crash, Fault
      <4> QED
        BY <1>2, <2>7, <4>1, <4>2, <4>3, <4>4, <4>5, <4>6, <4>7, <4>8, <4>9, <4>10, <4>11,
           <4>12, <4>13, <4>14, <4>15 DEF Enqueue, Process
    <3> QED
      BY <3>1, QuietStep
  <2> QED
    BY <2>1, <2>2, <2>3, <2>4, <2>5, <2>6, <2>7
<1> QED
  BY <1>1, <1>2 DEF Next

(* The spool of a daemon that is alone, with its crashes, failing          *)
(* statements and drop policy, implements the bounded queue: it accepts    *)
(* only with room, evicts only the oldest, hands out in order but for what *)
(* a failing claim passed by, and delivers at most once.                   *)
THEOREM SpoolImplementsFifo ==
  ASSUME NEW sole, Daemons = {sole}
  PROVE  Spec => ImplementsFifo
<1>1. Init => Fifo!FifoInit
  <2> SUFFICES ASSUME Init PROVE Fifo!FifoInit
    OBVIOUS
  <2>1. /\ Queued = {} /\ {b \in Batches : status[b] = "processing"} = {}
        /\ {b \in Batches : status[b] = "dropped"} = {}
        /\ skipped = {} /\ ingested = [b \in Batches |-> 0]
    BY DEF Init, Queued
  <2>2. InOrder(<<>>, stamp, {})
    BY DEF InOrder
  <2>3. QueueInOrder = <<>>
    BY <2>1, <2>2, QueueListed, ListedUnique
  <2> QED
    BY <2>1, <2>3 DEF Fifo!FifoInit
<1>2. FileInv /\ OnceInv /\ SoleInv /\ CapacityInv /\ OrderInv /\ [Next]_vars
        => [Fifo!FifoNext]_(Fifo!fifoVars)
  BY FifoStep
<1>3. Spec => [](FileInv /\ OnceInv /\ SoleInv /\ CapacityInv /\ OrderInv)
  BY OrderInvariant
<1> QED
  BY <1>1, <1>2, <1>3, PTL DEF Spec, ImplementsFifo, Fifo!FifoSpec
=============================================================================
