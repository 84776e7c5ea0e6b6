------------------------- MODULE OrderDemandProofs -------------------------
(***************************************************************************)
(* Theorems about order lines and plans, for any orders, lines, plans and  *)
(* open requests.                                                          *)
(*                                                                         *)
(* The books are sums, and the sum of the community modules is a fold over *)
(* an arbitrary order.  The first section shows that the order does not    *)
(* matter: there is a function that adds up in every order (Additive), and *)
(* the fold is it.  Induction is by a smallest counterexample, which the   *)
(* theorem WFMin gives for finite sets and for the naturals.               *)
(***************************************************************************)
EXTENDS OrderDemand, NaturalsInduction, FiniteSetTheorems, TLAPS

-----------------------------------------------------------------------------
(* Sums                                                                     *)

\* A nonempty set of subsets of a finite set has a smallest one.
LEMMA Smallest ==
  ASSUME NEW S, IsFiniteSet(S), NEW H \in SUBSET (SUBSET S), H # {}
  PROVE  \E s \in H : \A t \in H : t \subseteq s => t = s
<1>1. IsWellFoundedOn(StrictSubsetOrdering(S), SUBSET S)
  BY FS_StrictSubsetOrderingWellFounded, FS_FiniteSubsetsOfFinite
<1>2. PICK s \in H : \A t \in H : <<t, s>> \notin StrictSubsetOrdering(S)
  BY <1>1, WFMin
<1>3. QED
  BY <1>2, Zenon DEF StrictSubsetOrdering

\* A adds up the terms of f over every subset of S, in every order.
Additive(f, A, S) ==
  /\ A \in [SUBSET S -> Int]
  /\ A[{}] = 0
  /\ \A s \in SUBSET S : \A x \in s : A[s] = f[x] + A[s \ {x}]

\* Such a function exists: one that adds up over all elements but x is
\* extended to x.
LEMMA AdditiveExists ==
  ASSUME NEW f, NEW S, IsFiniteSet(S), \A x \in S : f[x] \in Int
  PROVE  \E A : Additive(f, A, S)
<1> DEFINE H == {s \in SUBSET S : ~ \E A : Additive(f, A, s)}
<1>1. SUFFICES ASSUME H # {} PROVE FALSE
  OBVIOUS
<1>2. PICK s \in H : \A t \in H : t \subseteq s => t = s
  <2>1. H \in SUBSET (SUBSET S)
    OBVIOUS
  <2> HIDE DEF H
  <2>2. QED
    BY <1>1, <2>1, Smallest
<1>3. s # {}
  <2>1. Additive(f, [t \in SUBSET {} |-> 0], {})
    BY DEF Additive
  <2>2. QED
    BY <2>1
<1>4. PICK x \in s : TRUE
  BY <1>3
<1>5. PICK A : Additive(f, A, s \ {x})
  BY <1>2
<1> DEFINE B == [t \in SUBSET s |-> IF x \in t THEN f[x] + A[t \ {x}] ELSE A[t]]
<1>6. ASSUME NEW t \in SUBSET s, NEW y \in t
      PROVE  B[t] = f[y] + B[t \ {y}]
  <2>1. CASE y = x
    BY <2>1
  <2>2. CASE y # x /\ x \in t
    <3>1. A[(t \ {x}) \ {y}] = A[(t \ {y}) \ {x}]
      <4>1. (t \ {x}) \ {y} = (t \ {y}) \ {x}
        OBVIOUS
      <4>2. QED
        BY <4>1, Zenon
    <3>2. A[t \ {x}] = f[y] + A[(t \ {x}) \ {y}]
      BY <1>5, <2>2 DEF Additive
    <3>3. A[(t \ {x}) \ {y}] \in Int
      BY <1>5, <2>2 DEF Additive
    <3>4. f[x] \in Int /\ f[y] \in Int
      BY <1>2
    <3>5. B[t] = f[x] + A[t \ {x}] /\ B[t \ {y}] = f[x] + A[(t \ {y}) \ {x}]
      BY <2>2
    <3> HIDE DEF B
    <3>6. QED
      BY <3>1, <3>2, <3>3, <3>4, <3>5
  <2>3. CASE x \notin t
    BY <1>5, <2>3 DEF Additive
  <2>4. QED
    BY <2>1, <2>2, <2>3
<1>7. B \in [SUBSET s -> Int] /\ B[{}] = 0
  <2>1. ASSUME NEW t \in SUBSET s PROVE B[t] \in Int
    <3>1. A[t \ {x}] \in Int /\ (x \notin t => A[t] \in Int)
      BY <1>5 DEF Additive
    <3>2. f[x] \in Int
      BY <1>2
    <3>3. QED
      BY <3>1, <3>2
  <2>2. QED
    BY <2>1, <1>5 DEF Additive
<1>8. Additive(f, B, s)
  <2> HIDE DEF B
  <2>1. QED
    BY <1>6, <1>7 DEF Additive
<1>9. QED
  BY <1>8

\* The recursion the sum is defined by: it takes the elements in an order of
\* its own.
Unfolds(f, S, a) == a = [s \in SUBSET S |->
   IF s = {} THEN 0 ELSE f[CHOOSE x \in s : TRUE] + a[s \ {CHOOSE x \in s : TRUE}]]
Iter(f, S) == CHOOSE iter : Unfolds(f, S, iter)

\* The sum is what any such function says.
LEMMA SumIs ==
  ASSUME NEW f, NEW S, IsFiniteSet(S), NEW A, Additive(f, A, S)
  PROVE  Sum(f, S) = A[S]
<1> DEFINE I == Iter(f, S)
<1>1. Sum(f, S) = I[S]
  BY DEF Sum, MapThenSumSet, MapThenFoldSet, Iter, Unfolds
<1>2. Unfolds(f, S, A)
  <2>1. ASSUME NEW s \in SUBSET S, s # {}
        PROVE  A[s] = f[CHOOSE x \in s : TRUE] + A[s \ {CHOOSE x \in s : TRUE}]
    BY <2>1 DEF Additive
  <2>2. QED
    BY <2>1 DEF Additive, Unfolds
<1>3. Unfolds(f, S, I)
  BY <1>2 DEF Iter
<1>4. I[{}] = 0 /\ \A s \in SUBSET S : s # {} => \E x \in s : I[s] = f[x] + I[s \ {x}]
  <2> HIDE DEF I
  <2>1. \A s \in SUBSET S : s # {} => I[s] = f[CHOOSE x \in s : TRUE] + I[s \ {CHOOSE x \in s : TRUE}]
    BY <1>3 DEF Unfolds
  <2>2. I[{}] = 0
    BY <1>3 DEF Unfolds
  <2>3. \A s \in SUBSET S : s # {} => (CHOOSE x \in s : TRUE) \in s
    OBVIOUS
  <2>4. QED
    BY <2>1, <2>2, <2>3
<1> HIDE DEF I
<1> DEFINE H == {s \in SUBSET S : I[s] # A[s]}
<1>5. ASSUME H # {} PROVE FALSE
  <2>1. PICK s \in H : \A t \in H : t \subseteq s => t = s
    <3>1. H \in SUBSET (SUBSET S)
      OBVIOUS
    <3> HIDE DEF H
    <3>2. QED
      BY <1>5, <3>1, Smallest
  <2>2. s # {}
    BY <1>4 DEF Additive
  <2>3. PICK x \in s : I[s] = f[x] + I[s \ {x}]
    BY <1>4, <2>2
  <2>4. I[s \ {x}] = A[s \ {x}]
    BY <2>1
  <2>5. QED
    BY <2>3, <2>4 DEF Additive
<1>6. QED
  BY <1>1, <1>5

\* Any element may be taken out of a sum first.
LEMMA SumStep ==
  ASSUME NEW f, NEW S, IsFiniteSet(S), \A x \in S : f[x] \in Int
  PROVE  /\ Sum(f, S) \in Int
         /\ S = {} => Sum(f, S) = 0
         /\ \A x \in S : Sum(f, S) = f[x] + Sum(f, S \ {x})
<1>1. PICK A : Additive(f, A, S)
  BY AdditiveExists
<1>2. Sum(f, S) = A[S]
  BY <1>1, SumIs
<1>3. ASSUME NEW x \in S PROVE Sum(f, S) = f[x] + Sum(f, S \ {x})
  <2> DEFINE T == S \ {x}
             B == [t \in SUBSET T |-> A[t]]
  <2>1. Additive(f, B, T)
    BY <1>1 DEF Additive
  <2>2. IsFiniteSet(T)
    BY FS_Subset
  <2>3. Sum(f, T) = B[T]
    BY <2>1, <2>2, SumIs
  <2>4. QED
    BY <1>1, <1>2, <2>3 DEF Additive
<1>4. QED
  BY <1>1, <1>2, <1>3 DEF Additive
\* Two sums, term by term.
LEMMA SumCompare ==
  ASSUME NEW f, NEW g, NEW S, IsFiniteSet(S), NEW c \in Nat, NEW n \in Int,
         \A x \in S : f[x] \in Int /\ g[x] \in Int /\ f[x] * c <= n * g[x]
  PROVE  Sum(f, S) * c <= n * Sum(g, S)
<1> DEFINE H == {s \in SUBSET S : ~ Sum(f, s) * c <= n * Sum(g, s)}
<1>1. ASSUME H # {} PROVE FALSE
  <2>1. PICK s \in H : \A t \in H : t \subseteq s => t = s
    <3>1. H \in SUBSET (SUBSET S)
      OBVIOUS
    <3> HIDE DEF H
    <3>2. QED
      BY <1>1, <3>1, Smallest
  <2>2. IsFiniteSet(s)
    BY <2>1, FS_Subset
  <2>3. s # {}
    BY <2>1, <2>2, SumStep
  <2>4. PICK x \in s : TRUE
    BY <2>3
  <2>5. Sum(f, s) = f[x] + Sum(f, s \ {x}) /\ Sum(g, s) = g[x] + Sum(g, s \ {x})
    BY <2>2, SumStep
  <2>6. Sum(f, s \ {x}) * c <= n * Sum(g, s \ {x})
    BY <2>1, <2>4
  <2>7. Sum(f, s \ {x}) \in Int /\ Sum(g, s \ {x}) \in Int
    <3>1. IsFiniteSet(s \ {x})
      BY <2>2, FS_Subset
    <3>2. QED
      BY <3>1, SumStep
  <2> DEFINE F == Sum(f, s \ {x})  G == Sum(g, s \ {x})
  <2>8. f[x] \in Int /\ g[x] \in Int /\ f[x] * c <= n * g[x] /\ F \in Int /\ G \in Int /\ F * c <= n * G
    BY <2>6, <2>7
  <2>9. (f[x] + F) * c <= n * (g[x] + G)
    <3> HIDE DEF F, G
    <3>1. QED
      BY <2>8
  <2>10. QED
    BY <2>1, <2>5, <2>9
<1>2. QED
  BY <1>1

\* A sum grows with its terms.
LEMMA SumMonotone ==
  ASSUME NEW f, NEW g, NEW S, IsFiniteSet(S),
         \A x \in S : f[x] \in Int /\ g[x] \in Int /\ f[x] <= g[x]
  PROVE  Sum(f, S) <= Sum(g, S)
<1>1. Sum(f, S) \in Int /\ Sum(g, S) \in Int
  BY SumStep
<1>2. Sum(f, S) * 1 <= 1 * Sum(g, S)
  <2>1. \A x \in S : f[x] \in Int /\ g[x] \in Int /\ f[x] * 1 <= 1 * g[x]
    OBVIOUS
  <2>2. QED
    BY <2>1, SumCompare
<1>3. QED
  BY <1>1, <1>2

LEMMA SumEqual ==
  ASSUME NEW f, NEW g, NEW S, IsFiniteSet(S), \A x \in S : f[x] \in Int /\ f[x] = g[x]
  PROVE  Sum(f, S) = Sum(g, S)
<1>1. Sum(f, S) \in Int /\ Sum(g, S) \in Int
  BY SumStep
<1>2. Sum(f, S) <= Sum(g, S) /\ Sum(g, S) <= Sum(f, S)
  BY SumMonotone
<1>3. QED
  BY <1>1, <1>2

LEMMA SumZero ==
  ASSUME NEW f, NEW S, IsFiniteSet(S), \A x \in S : f[x] \in Int /\ f[x] = 0
  PROVE  Sum(f, S) = 0
<1>1. Sum(f, S) \in Int
  BY SumStep
<1>2. Sum(f, S) * 1 <= 0 * Sum(f, S)
  <2>1. \A x \in S : f[x] \in Int /\ f[x] * 1 <= 0 * f[x]
    OBVIOUS
  <2>2. QED
    BY <2>1, SumCompare
<1>3. Sum(f, S) * 0 <= 1 * Sum(f, S)
  <2>1. \A x \in S : f[x] \in Int /\ f[x] * 0 <= 1 * f[x]
    OBVIOUS
  <2>2. QED
    BY <2>1, SumCompare
<1>4. QED
  BY <1>1, <1>2, <1>3

\* One term changes.
LEMMA SumChange ==
  ASSUME NEW f, NEW g, NEW S, IsFiniteSet(S), NEW x \in S,
         \A y \in S : f[y] \in Int /\ g[y] \in Int /\ (y # x => f[y] = g[y])
  PROVE  Sum(g, S) - g[x] = Sum(f, S) - f[x]
<1>1. IsFiniteSet(S \ {x})
  BY FS_Subset
<1>2. Sum(f, S \ {x}) = Sum(g, S \ {x})
  BY <1>1, SumEqual
<1>3. Sum(f, S) = f[x] + Sum(f, S \ {x}) /\ Sum(g, S) = g[x] + Sum(g, S \ {x})
  BY SumStep
<1>4. Sum(f, S \ {x}) \in Int
  BY <1>1, SumStep
<1>5. QED
  BY <1>2, <1>3, <1>4

\* The sum of a sum of functions.
LEMMA SumPlus ==
  ASSUME NEW f, NEW g, NEW h, NEW S, IsFiniteSet(S),
         \A x \in S : f[x] \in Int /\ g[x] \in Int /\ h[x] = f[x] + g[x]
  PROVE  Sum(h, S) = Sum(f, S) + Sum(g, S)
<1>1. PICK A : Additive(f, A, S)
  BY AdditiveExists
<1>2. PICK B : Additive(g, B, S)
  BY AdditiveExists
<1> DEFINE C == [s \in SUBSET S |-> A[s] + B[s]]
<1>3. Additive(h, C, S)
  <2>1. ASSUME NEW s \in SUBSET S, NEW x \in s PROVE C[s] = h[x] + C[s \ {x}]
    <3>1. A[s] = f[x] + A[s \ {x}] /\ B[s] = g[x] + B[s \ {x}]
      BY <1>1, <1>2 DEF Additive
    <3>2. A[s \ {x}] \in Int /\ B[s \ {x}] \in Int
      BY <1>1, <1>2 DEF Additive
    <3>3. QED
      BY <3>1, <3>2
  <2>2. C \in [SUBSET S -> Int] /\ C[{}] = 0
    BY <1>1, <1>2 DEF Additive
  <2> HIDE DEF C
  <2>3. QED
    BY <2>1, <2>2 DEF Additive
<1>4. Sum(h, S) = C[S] /\ Sum(f, S) = A[S] /\ Sum(g, S) = B[S]
  BY <1>1, <1>2, <1>3, SumIs
<1>5. QED
  BY <1>4

\* The larger and the smaller of two.
LEMMA MinMax ==
  ASSUME NEW a \in Int, NEW b \in Int
  PROVE  /\ Max({a, b}) = (IF a >= b THEN a ELSE b)
         /\ Min({a, b}) = (IF a <= b THEN a ELSE b)
<1>1. \E x \in {a, b} : \A y \in {a, b} : x >= y
  OBVIOUS
<1>2. Max({a, b}) \in {a, b} /\ \A y \in {a, b} : Max({a, b}) >= y
  BY <1>1 DEF Max
<1>3. \E x \in {a, b} : \A y \in {a, b} : x =< y
  OBVIOUS
<1>4. Min({a, b}) \in {a, b} /\ \A y \in {a, b} : Min({a, b}) =< y
  BY <1>3 DEF Min
<1>5. QED
  BY <1>2, <1>4

\* A nonempty set of naturals has a least one.
LEMMA Least ==
  ASSUME NEW T, T \subseteq Nat, T # {}
  PROVE  \E n \in T : \A m \in T : n <= m
<1>1. IsWellFoundedOn(OpToRel(<,Nat), Nat)
  BY NatLessThanWellFounded
<1>2. PICK x \in T : \A y \in T : <<y, x>> \notin OpToRel(<,Nat)
  BY <1>1, WFMin
<1>3. \A y \in T : ~(y < x)
  BY <1>2, Zenon DEF OpToRel
<1>4. QED
  BY <1>3

\* A finite set of naturals has an upper bound.
LEMMA Bounded ==
  ASSUME NEW S, IsFiniteSet(S), \A x \in S : x \in Nat
  PROVE  \E n \in Nat : \A x \in S : x < n
<1> DEFINE H == {s \in SUBSET S : ~ \E n \in Nat : \A x \in s : x < n}
<1>1. ASSUME H # {} PROVE FALSE
  <2>1. PICK s \in H : \A t \in H : t \subseteq s => t = s
    <3>1. H \in SUBSET (SUBSET S)
      OBVIOUS
    <3> HIDE DEF H
    <3>2. QED
      BY <1>1, <3>1, Smallest
  <2>2. PICK x \in s : TRUE
    OBVIOUS
  <2>3. PICK n \in Nat : \A y \in s \ {x} : y < n
    <3>1. s \ {x} \in SUBSET S /\ ~(s \ {x} = s)
      BY <2>1, <2>2
    <3>2. s \ {x} \notin H
      BY <2>1, <3>1
    <3>3. QED
      BY <3>1, <3>2
  <2>4. \A y \in s : y < n + x + 1
    BY <2>3
  <2>5. n + x + 1 \in Nat
    OBVIOUS
  <2>6. QED
    BY <2>4, <2>5
<1>2. QED
  BY <1>1

\* Room is filled in ascending order, each place with what those before it
\* leave: no more than there is to place.
LEMMA PrefixFill ==
  ASSUME NEW S, IsFiniteSet(S), \A x \in S : x \in Nat, NEW room, NEW extra, NEW left \in Int,
         \A l \in S : room[l] \in Nat,
         \A l \in S : extra[l] = Min({room[l], Max({0, left - Sum(room, {m \in S : m < l})})})
  PROVE  Sum(extra, S) <= Max({0, left})
<1> DEFINE P(k) == {m \in S : m < k}
<1>1. \A k \in Nat : IsFiniteSet(P(k))
  BY FS_Subset
<1>2. \A l \in S : extra[l] \in Nat /\ extra[l] <= room[l]
              /\ (extra[l] = 0 \/ extra[l] <= left - Sum(room, P(l)))
  <2>1. SUFFICES ASSUME NEW l \in S
                 PROVE  extra[l] \in Nat /\ extra[l] <= room[l]
                          /\ (extra[l] = 0 \/ extra[l] <= left - Sum(room, P(l)))
    OBVIOUS
  <2>2. Sum(room, P(l)) \in Int
    <3>1. IsFiniteSet(P(l)) /\ \A x \in P(l) : room[x] \in Int
      <4>1. \A x \in S : room[x] \in Int
        OBVIOUS
      <4>2. QED
        BY <1>1, <4>1
    <3> HIDE DEF P
    <3>2. QED
      BY <3>1, SumStep
  <2> DEFINE d == left - Sum(room, P(l))  e == Max({0, d})
  <2>3. d \in Int
    BY <2>2
  <2>4. extra[l] = Min({room[l], e}) /\ room[l] \in Nat
    OBVIOUS
  <2>5. e = IF 0 >= d THEN 0 ELSE d
    <3> HIDE DEF d
    <3>1. QED
      BY <2>3, MinMax
  <2>6. extra[l] \in Nat /\ extra[l] <= room[l] /\ (extra[l] = 0 \/ extra[l] <= d)
    <3> HIDE DEF d, e
    <3>1. e \in Nat
      BY <2>3, <2>5
    <3>2. Min({room[l], e}) = IF room[l] <= e THEN room[l] ELSE e
      <4>1. room[l] \in Int /\ e \in Int
        BY <2>4, <3>1
      <4>2. QED
        BY <4>1, MinMax
    <3>3. QED
      BY <2>3, <2>4, <2>5, <3>1, <3>2
  <2>7. QED
    BY <2>6
<1>3. \A l \in S : extra[l] \in Int /\ room[l] \in Int /\ extra[l] <= room[l]
  <2>1. SUFFICES ASSUME NEW l \in S PROVE extra[l] \in Int /\ room[l] \in Int /\ extra[l] <= room[l]
    OBVIOUS
  <2>2. extra[l] \in Nat /\ extra[l] <= room[l] /\ room[l] \in Nat
    BY <1>2
  <2>3. QED
    BY <2>2
<1> DEFINE top == IF 0 >= left THEN 0 ELSE left
           T == {k \in Nat : ~ Sum(extra, P(k)) <= top}
<1>4. ASSUME T # {} PROVE FALSE
  <2>1. PICK k \in T : \A j \in T : k <= j
    <3>1. T \subseteq Nat
      OBVIOUS
    <3> HIDE DEF T
    <3>2. QED
      BY <1>4, <3>1, Least
  <2>2. k # 0
    <3>1. P(0) = {}
      OBVIOUS
    <3>2. Sum(extra, P(0)) = 0
      <4>1. IsFiniteSet(P(0)) /\ \A x \in P(0) : extra[x] \in Int
        BY <1>1, <3>1
      <4> HIDE DEF P
      <4>2. QED
        BY <3>1, <4>1, SumStep
    <3>3. QED
      BY <2>1, <3>2
  <2> DEFINE j == k - 1
  <2>3. j \in Nat /\ j \notin T /\ Sum(extra, P(j)) <= top
    BY <2>1, <2>2
  <2>4. CASE j \notin S
    <3>1. P(k) = P(j)
      BY <2>3, <2>4
    <3> HIDE DEF P
    <3>2. QED
      BY <2>1, <2>3, <3>1
  <2>5. CASE j \in S
    <3>1. P(k) \ {j} = P(j) /\ j \in P(k) /\ IsFiniteSet(P(k)) /\ IsFiniteSet(P(j))
      BY <1>1, <2>3, <2>5
    <3>2. \A x \in P(k) : extra[x] \in Int
      BY <1>3
    <3>3. \A x \in P(j) : extra[x] \in Int /\ room[x] \in Int /\ extra[x] <= room[x]
      BY <1>3
    <3>4. extra[j] \in Nat /\ (extra[j] = 0 \/ extra[j] <= left - Sum(room, P(j)))
      BY <1>2, <2>5
    <3> HIDE DEF P, j
    <3>5. Sum(extra, P(k)) = extra[j] + Sum(extra, P(j))
      BY <3>1, <3>2, SumStep
    <3>6. Sum(extra, P(j)) <= Sum(room, P(j))
      BY <3>1, <3>3, SumMonotone
    <3>7. Sum(extra, P(j)) \in Int /\ Sum(room, P(j)) \in Int
      BY <3>1, <3>3, SumStep
    <3>8. Sum(extra, P(k)) <= top
      BY <2>3, <3>4, <3>5, <3>6, <3>7
    <3>9. QED
      BY <2>1, <3>8
  <2>6. QED
    BY <2>4, <2>5
<1>5. PICK n \in Nat : \A x \in S : x < n
  BY Bounded
<1>6. P(n) = S
  BY <1>5
<1>7. Sum(extra, S) <= top
  <2>1. Sum(extra, P(n)) <= top
    BY <1>4
  <2> HIDE DEF P
  <2>2. QED
    BY <1>6, <2>1
<1>8. QED
  BY <1>7, MinMax

-----------------------------------------------------------------------------
(* The inductive invariant                                                  *)

PlanOps == {"add", "remove", "confirm", "cancel"}

\* The row locks: of a line, of an order, of a plan, of a work order, and of
\* the rows that a removal deletes.
LocksExclude ==
  \A q, r \in Requests : q # r =>
    /\ req[q].held \cap req[r].held = {}
    /\ \A o \in Orders : req[q].derived[o] = Nothing \/ req[r].derived[o] = Nothing
    /\ req[q].op \in PlanOps /\ req[r].op \in PlanOps => req[q].plan # req[r].plan
    /\ req[q].op = "move" /\ req[q].at = "written" /\ req[r].op = "move" /\ req[r].at = "written" =>
         req[q].plan # req[r].plan
    /\ req[q].op = "remove" /\ req[r].op = "remove" /\ req[q].from = req[r].from =>
         req[q].line # req[r].line /\ ~(req[q].at = "written" /\ req[q].last)

\* What a request has before it writes.
Unwritten(q) ==
  /\ req[q].held = {} /\ req[q].todo = {}
  /\ \A l \in Lines : req[q].add[l] = 0 /\ req[q].made[l] = 0
  /\ \A o \in Orders : req[q].derived[o] = Nothing

Stage(q) ==
  /\ req[q].at = "free" <=> req[q].op = Nothing
  /\ req[q].at = "free" => Unwritten(q)
  /\ req[q].at = "begun" =>
       /\ req[q].op \in {"add", "remove", "cancel", "move"}
       /\ req[q].op # "cancel" => Unwritten(q)
       /\ req[q].held = {} /\ (\A l \in Lines : req[q].made[l] = 0)
       /\ \A o \in Orders : req[q].derived[o] = Nothing
  /\ req[q].op \in PlanOps \cup {"move"} => req[q].plan \in Plans
  /\ req[q].op \in {"add", "remove"} => req[q].line \in Lines
  /\ req[q].op = "remove" => req[q].from \in Plans
  /\ req[q].op = "move" => req[q].to \in WorkOrderStatus

\* What the locks of a request keep true until it commits: of its plan and
\* its row ...
PlanStands(q) ==
  /\ req[q].op \in PlanOps => plan[req[q].plan] # "CANCELLED"
  /\ req[q].op = "add" => demand[req[q].plan][req[q].line] = 0 /\ req[q].qty > 0
  /\ req[q].op = "remove" => demand[req[q].from][req[q].line] > 0

\* ... of what it adds to the lines: a cancellation gives back what it read,
\* and the rows it read stand unless one strays ...
AddsRight(q, l) ==
  /\ req[q].op = "cancel" => req[q].add[l] <= 0 /\ (l \in strayed \/ req[q].add[l] = -demand[req[q].plan][l])
  /\ req[q].op = "add" /\ req[q].at = "written" => req[q].add[l] = IF l = req[q].line THEN req[q].qty ELSE 0
  /\ req[q].op = "remove" /\ req[q].at = "written" =>
       req[q].add[l] = IF l = req[q].line THEN -demand[req[q].from][l] ELSE 0
  /\ req[q].op \notin {"add", "remove", "cancel"} => req[q].add[l] = 0

LineStands(q, l) ==
  /\ AddsRight(q, l)
  /\ line[l].planned + req[q].add[l] <= Ordered[l]
  /\ line[l].produced + req[q].made[l] <= Ordered[l]
  /\ req[q].add[l] # 0 \/ req[q].made[l] # 0 =>
       /\ req[q].at = "written" => l \in req[q].held
       /\ OrderOf[l] \in req[q].todo \/ req[q].derived[OrderOf[l]] # Nothing

LinesStand(q) == \A l \in Lines : LineStands(q, l)

\* ... of the output it hands over ...
OutputStands(q) ==
  (\E l \in Lines : req[q].made[l] # 0) =>
    /\ req[q].op = "move" /\ req[q].to = "COMPLETED"
    /\ Sum(req[q].made, Lines) <= output[req[q].plan]

\* ... and of the status it derived.
Follows(o, rows, s) ==
  /\ AllPlanned(o, rows) => s # "RECEIVED"
  /\ AllProduced(o, rows) => s \notin {"RECEIVED", "PLANNED", "IN_PRODUCTION"}

StatusStands(q) ==
  \A o \in Orders : req[q].derived[o] # Nothing => Follows(o, LineAfter(q), req[q].derived[o])

Requesting(q) == Stage(q) /\ PlanStands(q) /\ LinesStand(q) /\ OutputStands(q) /\ StatusStands(q)

\* What was handed over is the output of the work orders that are completed.
HandedOver ==
  overtaken \/ Sum([l \in Lines |-> line[l].produced], Lines)
                 <= Sum([p \in Plans |-> IF wo[p] = "COMPLETED" THEN output[p] ELSE 0], Plans)

IInv ==
  /\ TypeOK /\ LocksExclude
  /\ \A q \in Requests : Requesting(q)
  /\ BooksAgree /\ HandedOver /\ StatusFollows

Transactions ==
  [at : {"free", "begun", "written"}, op : Ops \cup {Nothing},
   plan : Plans \cup {Nothing}, line : Lines \cup {Nothing},
   qty : Nat, from : Plans \cup {Nothing}, last : BOOLEAN,
   to : WorkOrderStatus \cup {Nothing},
   held : SUBSET Lines, add : [Lines -> Int], made : [Lines -> Nat],
   todo : SUBSET Orders, derived : [Orders -> OrderStatus \cup {Nothing}]]

LEMMA Constants ==
  /\ IsFiniteSet(Lines) /\ IsFiniteSet(Plans)
  /\ \A l \in Lines : l \in Nat /\ Ordered[l] \in Nat \ {0} /\ OrderOf[l] \in Orders
BY LinesAssumption, OrderOfAssumption, OrderedAssumption

\* What was handed over is no more than what was put out.
LEMMA BooksFollow ==
  ASSUME NEW rows, NEW orders, NEW out,
         \A l \in Lines : rows[l].produced \in Nat, \A p \in Plans : out[p] \in Nat,
         Sum([l \in Lines |-> rows[l].produced], Lines)
           <= Sum([p \in Plans |-> IF orders[p] = "COMPLETED" THEN out[p] ELSE 0], Plans)
  PROVE  Sum([l \in Lines |-> rows[l].produced], Lines) <= Sum(out, Plans)
<1> DEFINE was == [l \in Lines |-> rows[l].produced]
           done == [p \in Plans |-> IF orders[p] = "COMPLETED" THEN out[p] ELSE 0]
<1>1. \A l \in Lines : was[l] \in Int
  OBVIOUS
<1>2. \A p \in Plans : done[p] \in Int /\ out[p] \in Int /\ done[p] <= out[p]
  OBVIOUS
<1>3. Sum(was, Lines) <= Sum(done, Plans)
  OBVIOUS
<1> HIDE DEF was, done
<1>4. Sum(done, Plans) <= Sum(out, Plans)
  BY <1>2, Constants, SumMonotone
<1>5. Sum(was, Lines) \in Int /\ Sum(done, Plans) \in Int /\ Sum(out, Plans) \in Int
  BY <1>1, <1>2, Constants, SumStep
<1>6. QED
  BY <1>3, <1>4, <1>5 DEF was

\* What a plan hands over fits the lines, and is no more than it put out.
LEMMA SharesFit ==
  ASSUME NEW p \in Plans, NEW n \in Nat, demand[p] \in [Lines -> Nat],
         \A l \in Lines : line[l].produced \in Nat /\ line[l].produced <= Ordered[l]
  PROVE  /\ Shares(p, n) \in [Lines -> Nat]
         /\ \A l \in Lines : /\ line[l].produced + Shares(p, n)[l] <= Ordered[l]
                             /\ Shares(p, n)[l] # 0 => l \in Served(p)
         /\ Sum(Shares(p, n), Lines) <= n
<1> DEFINE d == demand[p]
           total == Sum(demand[p], Lines)
           remaining == [l \in Lines |-> Max({0, Ordered[l] - line[l].produced})]
           prorata == [l \in Lines |-> IF total = 0 THEN 0
                                       ELSE Min({(n * demand[p][l]) \div total, remaining[l]})]
           leftover == Min({n, total}) - Sum(prorata, Lines)
           room == [l \in Lines |-> IF l \in Served(p) THEN remaining[l] - prorata[l] ELSE 0]
           extra == [l \in Lines |-> Min({room[l], Max({0, leftover - Sum(room, {m \in Lines : m < l})})})]
<1>1. Shares(p, n) = [l \in Lines |-> prorata[l] + extra[l]]
  BY DEF Shares
<1>2. total \in Nat
  <2>1. \A l \in Lines : d[l] \in Int /\ d[l] >= 0
    OBVIOUS
  <2>2. total \in Int /\ Sum([l \in Lines |-> 0], Lines) = 0
    BY <2>1, Constants, SumStep, SumZero
  <2>3. Sum([l \in Lines |-> 0], Lines) <= total
    BY <2>1, Constants, SumMonotone
  <2>4. QED
    BY <2>2, <2>3
<1>3. \A l \in Lines : remaining[l] = Ordered[l] - line[l].produced /\ remaining[l] \in Nat
  <2>1. SUFFICES ASSUME NEW l \in Lines
                 PROVE  remaining[l] = Ordered[l] - line[l].produced /\ remaining[l] \in Nat
    OBVIOUS
  <2>2. Ordered[l] - line[l].produced \in Nat
    BY Constants
  <2>3. 0 \in Int /\ Ordered[l] - line[l].produced \in Int
    BY <2>2
  <2>4. QED
    BY <2>2, <2>3, MinMax
<1> HIDE DEF total, remaining
<1>4. ASSUME NEW l \in Lines
      PROVE  /\ prorata[l] \in Nat /\ prorata[l] <= remaining[l]
             /\ prorata[l] * total <= n * d[l]
             /\ d[l] = 0 => prorata[l] = 0
  <2>1. CASE total = 0
    BY <2>1, <1>3
  <2>2. CASE total # 0
    <3> DEFINE part == (n * d[l]) \div total
    <3>1. d[l] \in Nat /\ n * d[l] \in Nat
      OBVIOUS
    <3>2. part \in Nat /\ part * total <= n * d[l] /\ (d[l] = 0 => part = 0)
      <4>1. \A a \in Nat, t \in Nat \ {0} : (a \div t) \in Nat /\ (a \div t) * t <= a /\ (a = 0 => a \div t = 0)
        OBVIOUS
      <4>2. n * d[l] \in Nat /\ (d[l] = 0 => n * d[l] = 0)
        BY <3>1
      <4>3. QED
        BY <4>1, <4>2, <2>2, <1>2
    <3>3. prorata[l] = Min({part, remaining[l]})
      BY <2>2
    <3>4. part \in Int /\ remaining[l] \in Int /\ remaining[l] >= 0
      BY <3>2, <1>3
    <3> HIDE DEF part, prorata
    <3>5. prorata[l] = IF part <= remaining[l] THEN part ELSE remaining[l]
      BY <3>3, <3>4, MinMax
    <3>6. prorata[l] \in Nat /\ prorata[l] <= part /\ prorata[l] <= remaining[l]
      BY <3>2, <3>4, <3>5
    <3>7. prorata[l] * total <= part * total
      BY <3>2, <3>6, <1>2
    <3>8. QED
      BY <3>2, <3>6, <3>7, <1>2, <3>1
  <2>3. QED
    BY <2>1, <2>2
<1> HIDE DEF prorata
<1>5. Sum(prorata, Lines) \in Int /\ Sum(prorata, Lines) <= n
  <2>1. \A l \in Lines : prorata[l] \in Int /\ d[l] \in Int /\ prorata[l] * total <= n * d[l]
    BY <1>4
  <2>2. Sum(prorata, Lines) * total <= n * total
    <3>1. total = Sum(d, Lines)
      BY DEF total
    <3>2. Sum(prorata, Lines) * total <= n * Sum(d, Lines)
      <4> HIDE DEF d
      <4>1. n \in Int
        OBVIOUS
      <4>2. QED
        BY <2>1, <1>2, <4>1, Constants, SumCompare
    <3>3. QED
      BY <3>1, <3>2
  <2>3. Sum(prorata, Lines) \in Int
    BY <2>1, Constants, SumStep
  <2>4. CASE total = 0
    <3>1. \A l \in Lines : prorata[l] = 0
      BY <2>4 DEF prorata
    <3>2. Sum(prorata, Lines) = 0
      BY <3>1, Constants, SumZero
    <3>3. QED
      BY <3>2
  <2>5. CASE total > 0
    BY <2>2, <2>3, <2>5, <1>2
  <2>6. QED
    BY <2>4, <2>5, <1>2
<1>6. leftover \in Int /\ leftover + Sum(prorata, Lines) <= n
  <2>1. Min({n, total}) \in Int /\ Min({n, total}) <= n
    <3>1. n \in Int /\ total \in Int
      BY <1>2
    <3>2. Min({n, total}) = IF n <= total THEN n ELSE total
      BY <3>1, MinMax
    <3>3. QED
      BY <3>1, <3>2
  <2>2. QED
    BY <2>1, <1>5
<1> HIDE DEF leftover
<1>7. \A l \in Lines : room[l] \in Nat /\ prorata[l] + room[l] <= remaining[l]
                        /\ (l \notin Served(p) => room[l] = 0)
  BY <1>3, <1>4
<1> HIDE DEF room
<1>8. ASSUME NEW l \in Lines
      PROVE  extra[l] \in Nat /\ extra[l] <= room[l]
  <2> DEFINE b == Sum(room, {m \in Lines : m < l})  e == Max({0, leftover - b})
  <2>1. b \in Int
    <3>1. IsFiniteSet({m \in Lines : m < l})
      BY Constants, FS_Subset
    <3>2. \A m \in {m \in Lines : m < l} : room[m] \in Int
      BY <1>7
    <3>3. QED
      BY <3>1, <3>2, SumStep
  <2>2. extra[l] = Min({room[l], e})
    OBVIOUS
  <2> HIDE DEF b
  <2>3. e \in Int /\ e >= 0
    <3>1. leftover - b \in Int
      BY <2>1, <1>6
    <3>2. QED
      BY <3>1, MinMax
  <2> HIDE DEF e, extra
  <2>4. room[l] \in Int /\ room[l] >= 0
    BY <1>7
  <2>5. extra[l] = IF room[l] <= e THEN room[l] ELSE e
    BY <2>2, <2>3, <2>4, MinMax
  <2>6. QED
    BY <2>3, <2>4, <2>5
<1>9. Sum(extra, Lines) <= Max({0, leftover})
  <2>1. \A l \in Lines : room[l] \in Nat
    BY <1>7
  <2>2. \A l \in Lines : l \in Nat
    BY Constants
  <2>3. \A l \in Lines : extra[l] = Min({room[l], Max({0, leftover - Sum(room, {m \in Lines : m < l})})})
    OBVIOUS
  <2> HIDE DEF extra
  <2>4. QED
    BY <2>1, <2>2, <2>3, <1>6, Constants, PrefixFill
<1> HIDE DEF extra
<1>10. Sum(Shares(p, n), Lines) = Sum(prorata, Lines) + Sum(extra, Lines)
  <2>1. \A l \in Lines : prorata[l] \in Int /\ extra[l] \in Int /\ Shares(p, n)[l] = prorata[l] + extra[l]
    BY <1>1, <1>4, <1>8
  <2>2. QED
    BY <2>1, Constants, SumPlus
<1>11. Sum(Shares(p, n), Lines) <= n
  <2>1. Sum(extra, Lines) \in Int
    BY <1>8, Constants, SumStep
  <2>2. Max({0, leftover}) = IF 0 >= leftover THEN 0 ELSE leftover
    BY <1>6, MinMax
  <2>3. QED
    BY <2>1, <2>2, <1>5, <1>6, <1>9, <1>10
<1>12. Shares(p, n) \in [Lines -> Nat]
  BY <1>1, <1>4, <1>8
<1>13. ASSUME NEW l \in Lines
       PROVE  /\ line[l].produced + Shares(p, n)[l] <= Ordered[l]
              /\ Shares(p, n)[l] # 0 => l \in Served(p)
  <2>1. Shares(p, n)[l] = prorata[l] + extra[l]
    BY <1>1
  <2>2. prorata[l] \in Nat /\ extra[l] \in Nat /\ room[l] \in Nat /\ extra[l] <= room[l]
        /\ prorata[l] + room[l] <= remaining[l] /\ remaining[l] = Ordered[l] - line[l].produced
    BY <1>3, <1>4, <1>7, <1>8
  <2>3. l \notin Served(p) => prorata[l] = 0 /\ room[l] = 0
    <3>1. d[l] \in Nat /\ (l \notin Served(p) => d[l] = 0)
      BY DEF Served
    <3>2. QED
      BY <3>1, <1>4, <1>7
  <2>4. QED
    BY <2>1, <2>2, <2>3, Constants
<1>14. QED
  BY <1>11, <1>12, <1>13

\* A derived status is a status, and says what the lines say.
LEMMA DerivedFollows ==
  ASSUME NEW q \in Requests, NEW o \in Orders, status[o] \in OrderStatus
  PROVE  Derived(q, o) \in OrderStatus /\ Follows(o, LineAfter(q), Derived(q, o))
<1> DEFINE planned == AllPlanned(o, LineAfter(q))
           produced == AllProduced(o, LineAfter(q))
           running == InProduction(o, WorkOrderAfter(q), DemandAfter(q))
           candidate == IF produced THEN 4 ELSE IF running THEN 3 ELSE IF planned THEN 2 ELSE 1
           s == status[o]
           set == s = "CANCELLED" \/ s \in ManualLogisticsStatuses
<1>1. Derived(q, o) = IF set THEN s ELSE derivedOrder[Max({candidate, Position(s)})]
  BY DEF Derived, DeriveCustomerOrderStatus
<1>2. candidate \in 1..4 /\ (produced => candidate = 4) /\ (planned => candidate >= 2)
  OBVIOUS
<1>3. ManualLogisticsStatuses \subseteq {"READY_TO_SHIP", "SHIPPED", "COMPLETED"}
  BY ManualAssumption
<1>4. /\ derivedOrder[1] = "RECEIVED" /\ derivedOrder[2] = "PLANNED"
      /\ derivedOrder[3] = "IN_PRODUCTION" /\ derivedOrder[4] = "PRODUCED"
  BY DEF derivedOrder
<1>5. \A i \in 1..4 : derivedOrder[i] \in OrderStatus
  BY DEF OrderStatus
<1>6. CASE set
  <2>1. Derived(q, o) = s
    BY <1>1, <1>6
  <2>2. s \notin {"RECEIVED", "PLANNED", "IN_PRODUCTION"}
    BY <1>3, <1>6
  <2>3. QED
    BY <2>1, <2>2 DEF Follows
<1>7. CASE ~set
  <2>1. \E i \in 1..4 : derivedOrder[i] = s
    BY <1>7 DEF OrderStatus
  <2>2. Position(s) \in 1..4
    BY <2>1 DEF Position
  <2> DEFINE k == Max({candidate, Position(s)})
  <2> HIDE DEF candidate, set, planned, produced, s
  <2>3. k = IF candidate >= Position(s) THEN candidate ELSE Position(s)
    <3>1. candidate \in Int /\ Position(s) \in Int
      BY <1>2, <2>2
    <3>2. QED
      BY <3>1, MinMax
  <2> HIDE DEF k
  <2>4. k \in 1..4 /\ (produced => k = 4) /\ (planned => k >= 2)
    BY <1>2, <2>2, <2>3
  <2>5. Derived(q, o) = derivedOrder[k]
    BY <1>1, <1>7 DEF k
  <2>6. (produced => Derived(q, o) = "PRODUCED") /\ (planned => Derived(q, o) # "RECEIVED")
    <3>1. k = 1 \/ k = 2 \/ k = 3 \/ k = 4
      BY <2>4
    <3>2. QED
      BY <3>1, <2>4, <2>5, <1>4
  <2>7. QED
    BY <2>4, <2>5, <2>6, <1>5 DEF Follows, planned, produced
<1>8. QED
  BY <1>6, <1>7

-----------------------------------------------------------------------------
\* A slot without a request.
LEMMA FreeIsTyped ==
  /\ Free \in Transactions
  /\ Free.at = "free" /\ Free.op = Nothing /\ Free.held = {} /\ Free.todo = {}
  /\ \A l \in Lines : Free.add[l] = 0 /\ Free.made[l] = 0
  /\ \A o \in Orders : Free.derived[o] = Nothing
BY DEF Free, Transactions

LEMMA InitEstablishes == Init => IInv
<1> SUFFICES ASSUME Init PROVE IInv
  OBVIOUS
<1>1. \A q \in Requests : req[q] = Free
  BY DEF Init
<1>2. TypeOK
  <2>1. req \in [Requests -> Transactions]
    BY FreeIsTyped DEF Init
  <2>2. status \in [Orders -> OrderStatus]
    <3>1. "RECEIVED" \in OrderStatus
      BY DEF OrderStatus, derivedOrder
    <3>2. QED
      BY <3>1 DEF Init
  <2>3. line \in [Lines -> [planned : Int, produced : Nat]] /\ \A l \in Lines : line[l].planned <= Ordered[l]
    BY Constants DEF Init
  <2>4. wo \in [Plans -> WorkOrderStatus] /\ output \in [Plans -> 0..MaxOutput]
        /\ plan \in [Plans -> {"DRAFT", "CONFIRMED", "CANCELLED"}]
    BY BoundsAssumption DEF Init, WorkOrderStatus
  <2>5. demand \in [Plans -> [Lines -> Nat]] /\ overtaken \in BOOLEAN /\ strayed \in SUBSET Lines
    BY DEF Init
  <2>6. QED
    BY <2>1, <2>2, <2>3, <2>4, <2>5 DEF TypeOK, Transactions
<1>3. LocksExclude
  BY <1>1, FreeIsTyped, NothingAssumption DEF LocksExclude, PlanOps, Ops
<1>4. \A q \in Requests : Requesting(q)
  <2>1. \A l \in Lines : line[l].planned = 0 /\ line[l].produced = 0
    BY DEF Init
  <2>2. QED
    BY <1>1, <2>1, FreeIsTyped, Constants, NothingAssumption
       DEF Requesting, Stage, Unwritten, PlanStands, LinesStand, LineStands, AddsRight, OutputStands, StatusStands, PlanOps, Ops
<1>5. BooksAgree /\ HandedOver
  <2> DEFINE made == [l \in Lines |-> line[l].produced]
             done == [p \in Plans |-> IF wo[p] = "COMPLETED" THEN output[p] ELSE 0]
  <2>1. Sum(made, Lines) = 0
    <3>1. \A l \in Lines : made[l] = 0
      BY DEF Init
    <3>2. QED
      BY <3>1, Constants, SumZero
  <2>2. Sum(output, Plans) = 0
    <3>1. \A p \in Plans : output[p] = 0
      BY DEF Init
    <3>2. QED
      BY <3>1, Constants, SumZero
  <2>3. Sum(done, Plans) = 0
    <3>1. \A p \in Plans : done[p] = 0
      BY DEF Init
    <3>2. QED
      BY <3>1, Constants, SumZero
  <2>4. ASSUME NEW l \in Lines
        PROVE  line[l].planned = Sum([p \in Plans |-> demand[p][l]], {p \in Plans : plan[p] # "CANCELLED"})
    <3>1. IsFiniteSet({p \in Plans : plan[p] # "CANCELLED"})
      BY Constants, FS_Subset
    <3>2. \A p \in {p \in Plans : plan[p] # "CANCELLED"} : [r \in Plans |-> demand[r][l]][p] = 0
      BY DEF Init
    <3>3. QED
      BY <3>1, <3>2, SumZero DEF Init
  <2>5. QED
    BY <2>1, <2>2, <2>3, <2>4, Constants DEF Init, BooksAgree, HandedOver
<1>6. StatusFollows
  BY Constants DEF Init, StatusFollows, AllPlanned, AllProduced, LinesOf
<1>7. QED
  BY <1>2, <1>3, <1>4, <1>5, <1>6 DEF IInv

\* A request is judged by its own state and by rows that its locks keep.
LEMMA OthersStand ==
  ASSUME NEW r \in Requests, Requesting(r), req'[r] = req[r],
         UNCHANGED <<line, plan, demand, output, strayed>>
  PROVE  Requesting(r)'
<1>1. Stage(r)' /\ PlanStands(r)'
  BY DEF Requesting, Stage, Unwritten, PlanStands
<1>2. LinesStand(r)'
  BY DEF Requesting, LinesStand, LineStands, AddsRight
<1>3. OutputStands(r)'
  BY DEF Requesting, OutputStands
<1>4. StatusStands(r)'
  <2>1. LineAfter(r)' = LineAfter(r)
    BY DEF LineAfter
  <2>2. QED
    BY <2>1 DEF Requesting, StatusStands, Follows, AllPlanned, AllProduced, LinesOf
<1>5. QED
  BY <1>1, <1>2, <1>3, <1>4 DEF Requesting

\* A step of one request that leaves the tables alone.
LEMMA RequestStep ==
  ASSUME IInv, NEW q \in Requests, NEW r \in Transactions,
         req' = [req EXCEPT ![q] = r], UNCHANGED table, Requesting(q)', LocksExclude'
  PROVE  IInv'
<1>1. TypeOK'
  BY DEF IInv, TypeOK, table, history, Transactions
<1>2. ASSUME NEW s \in Requests PROVE Requesting(s)'
  <2>1. CASE s = q
    BY <2>1
  <2>2. CASE s # q
    BY <2>2, OthersStand DEF IInv, TypeOK, table, history
  <2>3. QED
    BY <2>1, <2>2
<1>3. (BooksAgree /\ HandedOver /\ StatusFollows)'
  BY DEF IInv, table, history, BooksAgree, HandedOver, StatusFollows, AllPlanned, AllProduced, LinesOf
<1>4. QED
  BY <1>1, <1>2, <1>3 DEF IInv

\* The locks a step takes are free, and those of the others stay.
LEMMA LocksTaken ==
  ASSUME LocksExclude, NEW q \in Requests,
         \A r \in Requests : r # q =>
           /\ req'[r] = req[r]
           /\ req'[q].held \cap req[r].held = {}
           /\ \A o \in Orders : req'[q].derived[o] = Nothing \/ req[r].derived[o] = Nothing
           /\ req'[q].op \in PlanOps /\ req[r].op \in PlanOps => req'[q].plan # req[r].plan
           /\ req'[q].op = "move" /\ req'[q].at = "written" /\ req[r].op = "move" /\ req[r].at = "written" =>
                req'[q].plan # req[r].plan
           /\ req'[q].op = "remove" /\ req[r].op = "remove" /\ req'[q].from = req[r].from =>
                /\ req'[q].line # req[r].line
                /\ ~(req'[q].at = "written" /\ req'[q].last) /\ ~(req[r].at = "written" /\ req[r].last)
  PROVE  LocksExclude'
BY DEF LocksExclude

\* Before it writes, a request asks nothing of the lines.
LEMMA UnwrittenStands ==
  ASSUME NEW q \in Requests, Unwritten(q)', req'[q].at # "written", req'[q].op # "cancel",
         \A l \in Lines : /\ line'[l].planned \in Int /\ line'[l].planned <= Ordered[l]
                          /\ line'[l].produced \in Int /\ line'[l].produced <= Ordered[l]
  PROVE  LinesStand(q)' /\ OutputStands(q)' /\ StatusStands(q)'
<1>1. LinesStand(q)'
  BY DEF LinesStand, LineStands, AddsRight, Unwritten
<1>2. QED
  BY <1>1 DEF Unwritten, OutputStands, StatusStands

LEMMA LinesAreTyped ==
  ASSUME IInv, NEW l \in Lines
  PROVE  /\ line[l].planned \in Int /\ line[l].planned <= Ordered[l]
         /\ line[l].produced \in Nat /\ line[l].produced <= Ordered[l]
         /\ Ordered[l] \in Nat
BY Constants DEF IInv, TypeOK, BooksAgree

LEMMA RequestIsTyped ==
  ASSUME IInv, NEW q \in Requests
  PROVE  req[q] \in Transactions /\ Requesting(q)
BY DEF IInv, TypeOK, Transactions

\* What a request begins with.
LEMMA RequestFields ==
  ASSUME NEW op \in Ops, NEW p \in Plans \cup {Nothing}
  PROVE  /\ Request(op, p) \in Transactions
         /\ Request(op, p).at = "begun" /\ Request(op, p).op = op /\ Request(op, p).plan = p
         /\ Request(op, p).held = {} /\ Request(op, p).todo = {} /\ Request(op, p).qty = 0
         /\ \A l \in Lines : Request(op, p).add[l] = 0 /\ Request(op, p).made[l] = 0
         /\ \A o \in Orders : Request(op, p).derived[o] = Nothing
<1>1. Free \in Transactions /\ Free.qty = 0
  BY FreeIsTyped DEF Free
<1>2. QED
  BY <1>1, FreeIsTyped DEF Request, Transactions

LEMMA BeginAddPreserves ==
  ASSUME IInv, NEW q \in Requests, BeginAdd(q)
  PROVE  IInv'
<1>1. PICK p \in Plans, l \in Lines :
        \E n \in 1..Outstanding(l) :
          /\ PlanIsFree(p) /\ plan[p] = "DRAFT" /\ demand[p][l] = 0
          /\ Opens(q, [Request("add", p) EXCEPT !.line = l, !.qty = n])
  BY DEF BeginAdd
<1>2. PICK n \in 1..Outstanding(l) :
          /\ PlanIsFree(p) /\ plan[p] = "DRAFT" /\ demand[p][l] = 0
          /\ Opens(q, [Request("add", p) EXCEPT !.line = l, !.qty = n])
  BY <1>1
<1> DEFINE b == Request("add", p)
           r == [b EXCEPT !.line = l, !.qty = n]
<1>3. n \in Nat /\ n > 0
  BY LinesAreTyped DEF Outstanding
<1>4. b \in Transactions /\ b.at = "begun" /\ b.op = "add" /\ b.plan = p
      /\ b.held = {} /\ b.todo = {}
      /\ (\A m \in Lines : b.add[m] = 0 /\ b.made[m] = 0) /\ \A o \in Orders : b.derived[o] = Nothing
  BY RequestFields DEF Ops
<1>5. req' = [req EXCEPT ![q] = r] /\ req[q] = Free /\ UNCHANGED table
  BY <1>2 DEF Opens, MayOpen, BeginAdd
<1> HIDE DEF b
<1>6. r \in Transactions /\ r.at = "begun" /\ r.op = "add" /\ r.plan = p /\ r.line = l /\ r.qty = n
      /\ r.held = {} /\ r.todo = {}
      /\ (\A m \in Lines : r.add[m] = 0 /\ r.made[m] = 0) /\ \A o \in Orders : r.derived[o] = Nothing
  BY <1>3, <1>4 DEF Transactions
<1> HIDE DEF r
<1>7. req'[q] = r /\ \A s \in Requests : s # q => req'[s] = req[s]
  BY <1>5 DEF IInv, TypeOK
<1>8. Requesting(q)'
  <2>1. Stage(q)' /\ Unwritten(q)'
    BY <1>6, <1>7, NothingAssumption DEF Stage, Unwritten, Ops
  <2>2. PlanStands(q)'
    BY <1>2, <1>3, <1>5, <1>6, <1>7 DEF PlanStands, PlanOps, table
  <2>3. LinesStand(q)' /\ OutputStands(q)' /\ StatusStands(q)'
    BY <1>5, <1>6, <1>7, <2>1, UnwrittenStands, LinesAreTyped DEF table
  <2>4. QED
    BY <2>1, <2>2, <2>3 DEF Requesting
<1>9. LocksExclude'
  BY <1>2, <1>6, <1>7, LocksTaken DEF IInv, PlanIsFree, PlanOps
<1>10. QED
  BY <1>5, <1>6, <1>8, <1>9, RequestStep

LEMMA BeginRemovePreserves ==
  ASSUME IInv, NEW q \in Requests, BeginRemove(q)
  PROVE  IInv'
<1>1. PICK p \in Plans, f \in Plans, l \in Lines :
        /\ PlanIsFree(p) /\ plan[p] = "DRAFT" /\ l \in Served(f)
        /\ RowIsFree(f, l) /\ PlanLineIsKept(f)
        /\ Opens(q, [Request("remove", p) EXCEPT !.from = f, !.line = l, !.last = (Served(f) = {l})])
  BY DEF BeginRemove, Served
<1> DEFINE b == Request("remove", p)
           only == Served(f) = {l}
           r == [b EXCEPT !.from = f, !.line = l, !.last = only]
<1>2. demand[f][l] > 0 /\ only \in BOOLEAN
  BY <1>1 DEF Served
<1>3. b \in Transactions /\ b.at = "begun" /\ b.op = "remove" /\ b.plan = p
      /\ b.held = {} /\ b.todo = {}
      /\ (\A m \in Lines : b.add[m] = 0 /\ b.made[m] = 0) /\ \A o \in Orders : b.derived[o] = Nothing
  BY RequestFields DEF Ops
<1>4. req' = [req EXCEPT ![q] = r] /\ req[q] = Free /\ UNCHANGED table
  BY <1>1 DEF Opens, MayOpen, BeginRemove
<1> HIDE DEF b, only
<1>5. r \in Transactions /\ r.at = "begun" /\ r.op = "remove" /\ r.plan = p /\ r.from = f /\ r.line = l
      /\ r.held = {} /\ r.todo = {}
      /\ (\A m \in Lines : r.add[m] = 0 /\ r.made[m] = 0) /\ \A o \in Orders : r.derived[o] = Nothing
  BY <1>2, <1>3 DEF Transactions
<1> HIDE DEF r
<1>6. req'[q] = r /\ \A t \in Requests : t # q => req'[t] = req[t]
  BY <1>4 DEF IInv, TypeOK
<1>7. Requesting(q)'
  <2>1. Stage(q)' /\ Unwritten(q)'
    BY <1>2, <1>5, <1>6, NothingAssumption DEF Stage, Unwritten, Ops
  <2>2. PlanStands(q)'
    BY <1>1, <1>2, <1>4, <1>5, <1>6 DEF PlanStands, PlanOps, table
  <2>3. LinesStand(q)' /\ OutputStands(q)' /\ StatusStands(q)'
    BY <1>4, <1>5, <1>6, <2>1, UnwrittenStands, LinesAreTyped DEF table
  <2>4. QED
    BY <2>1, <2>2, <2>3 DEF Requesting
<1>8. LocksExclude'
  <2>1. \A t \in Requests : req[t].op \in PlanOps => req[t].plan # p
    BY <1>1 DEF PlanIsFree, PlanOps
  <2>2. \A t \in Requests : req[t].op = "remove" /\ req[t].from = f =>
          req[t].line # l /\ ~(req[t].at = "written" /\ req[t].last)
    BY <1>1 DEF RowIsFree, PlanLineIsKept, Removes
  <2>3. QED
    BY <1>5, <1>6, <2>1, <2>2, LocksTaken DEF IInv
<1>9. QED
  BY <1>4, <1>5, <1>7, <1>8, RequestStep

\* What a cancellation gives back is what the rows say when it begins.
LEMMA BeginCancelPreserves ==
  ASSUME IInv, NEW q \in Requests, BeginCancel(q)
  PROVE  IInv'
<1>1. PICK p \in Plans :
        /\ PlanIsFree(p) /\ plan[p] # "CANCELLED"
        /\ Opens(q, [Request("cancel", p) EXCEPT
             !.add = [l \in Lines |-> -demand[p][l]], !.todo = OrdersOf(Served(p))])
  BY DEF BeginCancel
<1> DEFINE b == Request("cancel", p)
           less == [l \in Lines |-> -demand[p][l]]
           O == OrdersOf(Served(p))
           r == [b EXCEPT !.add = less, !.todo = O]
<1>2. b \in Transactions /\ b.at = "begun" /\ b.op = "cancel" /\ b.plan = p /\ b.held = {}
      /\ (\A m \in Lines : b.made[m] = 0) /\ \A o \in Orders : b.derived[o] = Nothing
  BY RequestFields DEF Ops
<1>3. \A l \in Lines : demand[p][l] \in Nat /\ less[l] = -demand[p][l] /\ (demand[p][l] # 0 => OrderOf[l] \in O)
  BY DEF IInv, TypeOK, OrdersOf, Served
<1>4. less \in [Lines -> Int] /\ O \in SUBSET Orders
  <2>1. O \in SUBSET Orders
    BY Constants DEF OrdersOf, Served
  <2>2. QED
    BY <1>3, <2>1
<1>5. req' = [req EXCEPT ![q] = r] /\ UNCHANGED table
  BY <1>1 DEF Opens
<1> HIDE DEF b, less, O
<1>6. r \in Transactions /\ r.at = "begun" /\ r.op = "cancel" /\ r.plan = p /\ r.held = {}
      /\ r.add = less /\ r.todo = O
      /\ (\A m \in Lines : r.made[m] = 0) /\ \A o \in Orders : r.derived[o] = Nothing
  BY <1>2, <1>4 DEF Transactions
<1> HIDE DEF r
<1>7. req'[q] = r /\ \A t \in Requests : t # q => req'[t] = req[t]
  BY <1>5 DEF IInv, TypeOK
<1>8. Requesting(q)'
  <2>1. Stage(q)'
    BY <1>6, <1>7, NothingAssumption DEF Stage, PlanOps, Ops
  <2>2. PlanStands(q)'
    BY <1>1, <1>5, <1>6, <1>7 DEF PlanStands, PlanOps, table
  <2>3. OutputStands(q)' /\ StatusStands(q)'
    BY <1>6, <1>7 DEF OutputStands, StatusStands
  <2>4. LinesStand(q)'
    <3>1. SUFFICES ASSUME NEW m \in Lines PROVE LineStands(q, m)'
      BY DEF LinesStand
    <3>2. /\ line'[m] = line[m] /\ demand'[p][m] = demand[p][m]
          /\ req'[q].add[m] = -demand[p][m] /\ req'[q].made[m] = 0 /\ demand[p][m] \in Nat
      BY <1>3, <1>5, <1>6, <1>7 DEF table
    <3>3. AddsRight(q, m)'
      BY <1>6, <1>7, <3>2 DEF AddsRight
    <3>4. req'[q].add[m] # 0 => OrderOf[m] \in req'[q].todo
      BY <1>3, <1>6, <1>7, <3>2
    <3>5. line[m].planned \in Int /\ line[m].planned <= Ordered[m]
          /\ line[m].produced \in Nat /\ line[m].produced <= Ordered[m] /\ Ordered[m] \in Nat
      BY LinesAreTyped
    <3>6. QED
      BY <1>6, <1>7, <3>2, <3>3, <3>4, <3>5 DEF LineStands
  <2>5. QED
    BY <2>1, <2>2, <2>3, <2>4 DEF Requesting
<1>9. LocksExclude'
  BY <1>1, <1>6, <1>7, LocksTaken DEF IInv, PlanIsFree, PlanOps
<1>10. QED
  BY <1>5, <1>6, <1>8, <1>9, RequestStep

LEMMA BeginMovePreserves ==
  ASSUME IInv, NEW q \in Requests, BeginMove(q)
  PROVE  IInv'
<1>1. PICK p \in Plans : \E s \in legalTransitions[wo[p]] : Opens(q, [Request("move", p) EXCEPT !.to = s])
  BY DEF BeginMove
<1>2. PICK s \in legalTransitions[wo[p]] : Opens(q, [Request("move", p) EXCEPT !.to = s])
  BY <1>1
<1>3. s \in WorkOrderStatus
  BY DEF IInv, TypeOK, legalTransitions, WorkOrderStatus
<1> DEFINE b == Request("move", p)
           r == [b EXCEPT !.to = s]
<1>4. b \in Transactions /\ b.at = "begun" /\ b.op = "move" /\ b.plan = p
      /\ b.held = {} /\ b.todo = {}
      /\ (\A m \in Lines : b.add[m] = 0 /\ b.made[m] = 0) /\ \A o \in Orders : b.derived[o] = Nothing
  BY RequestFields DEF Ops
<1>5. req' = [req EXCEPT ![q] = r] /\ req[q] = Free /\ UNCHANGED table
  BY <1>2 DEF Opens, MayOpen, BeginMove
<1> HIDE DEF b
<1>6. r \in Transactions /\ r.at = "begun" /\ r.op = "move" /\ r.plan = p /\ r.to = s
      /\ r.held = {} /\ r.todo = {}
      /\ (\A m \in Lines : r.add[m] = 0 /\ r.made[m] = 0) /\ \A o \in Orders : r.derived[o] = Nothing
  BY <1>3, <1>4 DEF Transactions
<1> HIDE DEF r
<1>7. req'[q] = r /\ \A t \in Requests : t # q => req'[t] = req[t]
  BY <1>5 DEF IInv, TypeOK
<1>8. Requesting(q)'
  <2>1. Stage(q)' /\ Unwritten(q)' /\ PlanStands(q)'
    BY <1>3, <1>6, <1>7, NothingAssumption DEF Stage, Unwritten, PlanStands, PlanOps, Ops
  <2>2. LinesStand(q)' /\ OutputStands(q)' /\ StatusStands(q)'
    BY <1>5, <1>6, <1>7, <2>1, UnwrittenStands, LinesAreTyped DEF table
  <2>3. QED
    BY <2>1, <2>2 DEF Requesting
<1>9. LocksExclude'
  BY <1>6, <1>7, LocksTaken DEF IInv, PlanOps
<1>10. QED
  BY <1>5, <1>6, <1>8, <1>9, RequestStep

LEMMA RollbackPreserves ==
  ASSUME IInv, NEW q \in Requests, Rollback(q)
  PROVE  IInv'
<1>1. req' = [req EXCEPT ![q] = Free] /\ UNCHANGED table
  BY DEF Rollback
<1>2. req'[q] = Free /\ \A t \in Requests : t # q => req'[t] = req[t]
  BY <1>1 DEF IInv, TypeOK
<1>3. Requesting(q)'
  <2>1. Stage(q)' /\ Unwritten(q)' /\ PlanStands(q)'
    BY <1>2, FreeIsTyped, NothingAssumption DEF Stage, Unwritten, PlanStands, PlanOps, Ops
  <2>2. LinesStand(q)' /\ OutputStands(q)' /\ StatusStands(q)'
    BY <1>1, <1>2, <2>1, FreeIsTyped, NothingAssumption, UnwrittenStands, LinesAreTyped DEF table, Ops
  <2>3. QED
    BY <2>1, <2>2 DEF Requesting
<1>4. LocksExclude'
  BY <1>2, FreeIsTyped, NothingAssumption, LocksTaken DEF IInv, PlanOps, Ops
<1>5. QED
  BY <1>1, <1>3, <1>4, FreeIsTyped, RequestStep

\* A refresh by itself writes no line.
LEMMA BeginRefreshPreserves ==
  ASSUME IInv, NEW q \in Requests, BeginRefresh(q)
  PROVE  IInv'
<1>1. PICK O \in SUBSET Orders : Opens(q, [Request("refresh", Nothing) EXCEPT !.at = "written", !.todo = O])
  <2>1. \A p \in Plans : OrdersOf(Served(p)) \in SUBSET Orders
    BY Constants DEF OrdersOf, Served
  <2>2. QED
    BY <2>1 DEF BeginRefresh
<1> DEFINE b == Request("refresh", Nothing)
           r == [b EXCEPT !.at = "written", !.todo = O]
<1>2. b \in Transactions /\ b.op = "refresh" /\ b.held = {}
      /\ (\A m \in Lines : b.add[m] = 0 /\ b.made[m] = 0) /\ \A o \in Orders : b.derived[o] = Nothing
  BY RequestFields DEF Ops
<1>3. req' = [req EXCEPT ![q] = r] /\ UNCHANGED table
  BY <1>1 DEF Opens
<1> HIDE DEF b
<1>4. r \in Transactions /\ r.at = "written" /\ r.op = "refresh" /\ r.held = {}
      /\ (\A m \in Lines : r.add[m] = 0 /\ r.made[m] = 0) /\ \A o \in Orders : r.derived[o] = Nothing
  BY <1>2 DEF Transactions
<1> HIDE DEF r
<1>5. req'[q] = r /\ \A t \in Requests : t # q => req'[t] = req[t]
  BY <1>3 DEF IInv, TypeOK
<1>6. Requesting(q)'
  <2>1. Stage(q)' /\ PlanStands(q)' /\ OutputStands(q)' /\ StatusStands(q)'
    BY <1>4, <1>5, NothingAssumption DEF Stage, PlanStands, OutputStands, StatusStands, PlanOps, Ops
  <2>2. \A l \in Lines : AddsRight(q, l)'
    BY <1>4, <1>5 DEF AddsRight
  <2>3. LinesStand(q)'
    BY <1>3, <1>4, <1>5, <2>2, LinesAreTyped DEF LinesStand, LineStands, table
  <2>4. QED
    BY <2>1, <2>3 DEF Requesting
<1>7. LocksExclude'
  BY <1>4, <1>5, LocksTaken DEF IInv, PlanOps
<1>8. QED
  BY <1>3, <1>4, <1>6, <1>7, RequestStep

\* A request that writes the lines: what it is then.
LEMMA WritesFields ==
  ASSUME IInv, NEW q \in Requests, NEW r \in Transactions, NEW L \in SUBSET Lines, Writes(q, L, r)
  PROVE  \E w \in Transactions :
           /\ req' = [req EXCEPT ![q] = w] /\ req'[q] = w
           /\ \A t \in Requests : t # q => req'[t] = req[t]
           /\ w.at = "written" /\ w.held = L
           /\ w.op = r.op /\ w.plan = r.plan /\ w.line = r.line /\ w.qty = r.qty /\ w.to = r.to /\ w.from = r.from /\ w.last = r.last
           /\ w.add = r.add /\ w.made = r.made /\ w.todo = r.todo /\ w.derived = r.derived
           /\ \A t \in Requests : L \cap req[t].held = {}
           /\ UNCHANGED table
<1> DEFINE w == [r EXCEPT !.at = "written", !.held = L]
<1>1. w \in Transactions
  BY DEF Transactions
<1>2. req' = [req EXCEPT ![q] = w] /\ UNCHANGED table
  BY DEF Writes
<1>3. /\ w.at = "written" /\ w.held = L
      /\ w.op = r.op /\ w.plan = r.plan /\ w.line = r.line /\ w.qty = r.qty /\ w.to = r.to /\ w.from = r.from /\ w.last = r.last
      /\ w.add = r.add /\ w.made = r.made /\ w.todo = r.todo /\ w.derived = r.derived
  BY DEF Transactions
<1>4. \A t \in Requests : L \cap req[t].held = {}
  BY DEF Writes, LineIsFree
<1> HIDE DEF w
<1>5. req'[q] = w /\ \A t \in Requests : t # q => req'[t] = req[t]
  BY <1>2 DEF IInv, TypeOK
<1>6. QED
  BY <1>1, <1>2, <1>3, <1>4, <1>5

\* One that writes a single line.
LEMMA OfIs ==
  ASSUME NEW l \in Lines, NEW n \in Int
  PROVE  Of(l, n) \in [Lines -> Int] /\ \A m \in Lines : Of(l, n)[m] = IF m = l THEN n ELSE 0
BY DEF Of

LEMMA WriteAddPreserves ==
  ASSUME IInv, NEW q \in Requests, WriteAdd(q)
  PROVE  IInv'
<1> DEFINE l == req[q].line  n == req[q].qty
           r == [req[q] EXCEPT !.add = Of(l, n), !.todo = {OrderOf[l]}]
<1>1. /\ req[q].at = "begun" /\ req[q].op = "add" /\ n <= Outstanding(l)
      /\ Writes(q, {l}, r)
  BY DEF WriteAdd
<1>2. req[q] \in Transactions /\ Requesting(q)
  BY RequestIsTyped
<1>3. l \in Lines /\ n \in Nat /\ Unwritten(q) /\ req[q].plan \in Plans
  BY <1>1, <1>2 DEF Requesting, Stage, Transactions, PlanOps
<1> HIDE DEF l, n
<1>4. Of(l, n) \in [Lines -> Int] /\ (\A m \in Lines : Of(l, n)[m] = IF m = l THEN n ELSE 0) /\ OrderOf[l] \in Orders
  BY <1>3, OfIs, Constants
<1>5. /\ r \in Transactions /\ r.op = "add" /\ r.plan = req[q].plan /\ r.line = req[q].line /\ r.qty = n
      /\ r.add = Of(l, n) /\ r.made = req[q].made /\ r.todo = {OrderOf[l]} /\ r.derived = req[q].derived
  BY <1>1, <1>2, <1>4 DEF Transactions, n
<1> HIDE DEF r
<1>6. PICK w \in Transactions :
           /\ req' = [req EXCEPT ![q] = w] /\ req'[q] = w
           /\ \A t \in Requests : t # q => req'[t] = req[t]
           /\ w.at = "written" /\ w.held = {l} /\ w.op = "add" /\ w.plan = req[q].plan /\ w.line = l /\ w.qty = n
           /\ w.add = Of(l, n) /\ w.made = req[q].made /\ w.todo = {OrderOf[l]} /\ w.derived = req[q].derived
           /\ \A t \in Requests : {l} \cap req[t].held = {}
           /\ UNCHANGED table
  BY <1>1, <1>3, <1>5, WritesFields DEF l
<1>7. Requesting(q)'
  <2>1. Stage(q)' /\ PlanStands(q)'
    BY <1>1, <1>2, <1>3, <1>6, NothingAssumption DEF Requesting, Stage, PlanStands, PlanOps, Ops, table, l, n
  <2>2. OutputStands(q)' /\ StatusStands(q)'
    BY <1>3, <1>6 DEF OutputStands, StatusStands, Unwritten
  <2>3. LinesStand(q)'
    <3>1. SUFFICES ASSUME NEW m \in Lines PROVE LineStands(q, m)'
      BY DEF LinesStand
    <3>2. req'[q].add[m] = (IF m = l THEN n ELSE 0) /\ req'[q].made[m] = 0
      BY <1>3, <1>4, <1>6 DEF Unwritten
    <3>3. AddsRight(q, m)'
      BY <1>6, <3>2 DEF AddsRight
    <3>4. line'[m] = line[m]
      BY <1>6 DEF table
    <3>5. line[l].planned + n <= Ordered[l]
      BY <1>1, <1>3, LinesAreTyped DEF Outstanding
    <3>6. line[m].planned \in Int /\ line[m].planned <= Ordered[m]
          /\ line[m].produced \in Nat /\ line[m].produced <= Ordered[m]
      BY LinesAreTyped
    <3>7. QED
      BY <1>6, <3>2, <3>3, <3>4, <3>5, <3>6 DEF LineStands
  <2>4. QED
    BY <2>1, <2>2, <2>3 DEF Requesting
<1>8. LocksExclude'
  BY <1>1, <1>3, <1>6, LocksTaken DEF IInv, LocksExclude, Unwritten, PlanOps
<1>9. QED
  BY <1>6, <1>7, <1>8, RequestStep

LEMMA WriteRemovePreserves ==
  ASSUME IInv, NEW q \in Requests, WriteRemove(q)
  PROVE  IInv'
<1> DEFINE l == req[q].line  f == req[q].from  d == demand[f][l]
           r == [req[q] EXCEPT !.add = Of(l, -d), !.todo = {OrderOf[l]}]
<1>1. /\ req[q].at = "begun" /\ req[q].op = "remove"
      /\ req[q].last => \A t \in Requests \ {q} : ~Removes(t, f)
      /\ PlanLineIsFree(f) /\ Writes(q, {l}, r)
  BY DEF WriteRemove
<1>2. req[q] \in Transactions /\ Requesting(q)
  BY RequestIsTyped
<1>3. l \in Lines /\ f \in Plans /\ Unwritten(q) /\ req[q].plan \in Plans
  BY <1>1, <1>2 DEF Requesting, Stage, PlanOps
<1>4. d \in Nat /\ d > 0
  BY <1>1, <1>2, <1>3 DEF IInv, TypeOK, Requesting, PlanStands
<1> HIDE DEF l, f, d
<1>5. Of(l, -d) \in [Lines -> Int] /\ (\A m \in Lines : Of(l, -d)[m] = IF m = l THEN -d ELSE 0) /\ OrderOf[l] \in Orders
  <2>1. -d \in Int
    BY <1>4
  <2>2. QED
    BY <1>3, <2>1, OfIs, Constants
<1>6. /\ r \in Transactions /\ r.op = "remove" /\ r.plan = req[q].plan /\ r.line = l /\ r.from = f /\ r.last = req[q].last
      /\ r.add = Of(l, -d) /\ r.made = req[q].made /\ r.todo = {OrderOf[l]} /\ r.derived = req[q].derived
  BY <1>1, <1>2, <1>5 DEF Transactions, l, f
<1> HIDE DEF r
<1>7. PICK w \in Transactions :
           /\ req' = [req EXCEPT ![q] = w] /\ req'[q] = w
           /\ \A t \in Requests : t # q => req'[t] = req[t]
           /\ w.at = "written" /\ w.held = {l} /\ w.op = "remove" /\ w.plan = req[q].plan /\ w.line = l
           /\ w.from = f /\ w.last = req[q].last
           /\ w.add = Of(l, -d) /\ w.made = req[q].made /\ w.todo = {OrderOf[l]} /\ w.derived = req[q].derived
           /\ \A t \in Requests : {l} \cap req[t].held = {}
           /\ UNCHANGED table
  BY <1>1, <1>3, <1>6, WritesFields
<1>8. Requesting(q)'
  <2>1. Stage(q)'
    BY <1>3, <1>7, NothingAssumption DEF Stage, PlanOps, Ops
  <2>2. PlanStands(q)'
    BY <1>1, <1>2, <1>7 DEF Requesting, PlanStands, PlanOps, table, l, f
  <2>3. OutputStands(q)' /\ StatusStands(q)'
    BY <1>3, <1>7 DEF OutputStands, StatusStands, Unwritten
  <2>4. LinesStand(q)'
    <3>1. SUFFICES ASSUME NEW m \in Lines PROVE LineStands(q, m)'
      BY DEF LinesStand
    <3>2. req'[q].add[m] = (IF m = l THEN -d ELSE 0) /\ req'[q].made[m] = 0
      BY <1>3, <1>5, <1>7 DEF Unwritten
    <3>3. AddsRight(q, m)'
      <4>1. demand'[f][l] = d
        BY <1>7 DEF table, d
      <4>2. QED
        BY <1>7, <3>2, <4>1 DEF AddsRight
    <3>4. line'[m] = line[m]
      BY <1>7 DEF table
    <3>5. line[m].planned \in Int /\ line[m].planned <= Ordered[m]
          /\ line[m].produced \in Nat /\ line[m].produced <= Ordered[m]
          /\ Ordered[m] \in Nat
      BY LinesAreTyped
    <3>6. QED
      BY <1>4, <1>7, <3>2, <3>3, <3>4, <3>5 DEF LineStands
  <2>5. QED
    BY <2>1, <2>2, <2>3, <2>4 DEF Requesting
<1>9. LocksExclude'
  <2>1. \A t \in Requests : t # q /\ req[t].op = "remove" /\ req[t].from = f =>
          req[t].line # l /\ req[t].at # "written" /\ ~req[q].last
    BY <1>1 DEF IInv, LocksExclude, Removes, PlanLineIsFree, l, f
  <2>2. \A t \in Requests : t # q /\ req[t].op \in PlanOps => req[t].plan # req[q].plan
    BY <1>1 DEF IInv, LocksExclude, PlanOps
  <2>3. QED
    BY <1>3, <1>7, <2>1, <2>2, LocksTaken DEF IInv, Unwritten
<1>10. QED
  BY <1>7, <1>8, <1>9, RequestStep

LEMMA ConfirmPlanPreserves ==
  ASSUME IInv, NEW q \in Requests, NEW p \in Plans, ConfirmPlan(q, p)
  PROVE  IInv'
<1> DEFINE b == Request("confirm", p)
           r == [b EXCEPT !.todo = OrdersOf(Served(p))]
<1>1. PlanIsFree(p) /\ plan[p] = "DRAFT" /\ Writes(q, {}, r)
  BY DEF ConfirmPlan
<1>2. b \in Transactions /\ b.op = "confirm" /\ b.plan = p
      /\ (\A m \in Lines : b.add[m] = 0 /\ b.made[m] = 0) /\ \A o \in Orders : b.derived[o] = Nothing
  BY RequestFields DEF Ops
<1> HIDE DEF b
<1>3. /\ r \in Transactions /\ r.op = "confirm" /\ r.plan = p
      /\ r.add = b.add /\ r.made = b.made /\ r.derived = b.derived
  <2>1. OrdersOf(Served(p)) \in SUBSET Orders
    BY Constants DEF OrdersOf, Served
  <2>2. QED
    BY <1>2, <2>1 DEF Transactions
<1> HIDE DEF r
<1>4. PICK w \in Transactions :
           /\ req' = [req EXCEPT ![q] = w] /\ req'[q] = w
           /\ \A t \in Requests : t # q => req'[t] = req[t]
           /\ w.at = "written" /\ w.held = {} /\ w.op = "confirm" /\ w.plan = p
           /\ w.add = b.add /\ w.made = b.made /\ w.derived = b.derived
           /\ UNCHANGED table
  BY <1>1, <1>3, WritesFields
<1>5. Requesting(q)'
  <2>1. Stage(q)' /\ PlanStands(q)'
    BY <1>1, <1>4, NothingAssumption DEF Stage, PlanStands, PlanOps, Ops, table
  <2>2. OutputStands(q)' /\ StatusStands(q)'
    BY <1>2, <1>4 DEF OutputStands, StatusStands
  <2>3. \A l \in Lines : AddsRight(q, l)'
    BY <1>2, <1>4 DEF AddsRight
  <2>4. LinesStand(q)'
    BY <1>2, <1>4, <2>3, LinesAreTyped DEF LinesStand, LineStands, table
  <2>5. QED
    BY <2>1, <2>2, <2>4 DEF Requesting
<1>6. LocksExclude'
  BY <1>1, <1>2, <1>4, LocksTaken DEF IInv, PlanIsFree, PlanOps
<1>7. QED
  BY <1>4, <1>5, <1>6, RequestStep

LEMMA WriteCancelPreserves ==
  ASSUME IInv, NEW q \in Requests, WriteCancel(q)
  PROVE  IInv'
<1> DEFINE L == {l \in Lines : req[q].add[l] # 0}
<1>1. req[q].at = "begun" /\ req[q].op = "cancel" /\ Writes(q, L, req[q])
  BY DEF WriteCancel
<1>2. req[q] \in Transactions /\ Requesting(q) /\ L \in SUBSET Lines
  BY RequestIsTyped
<1>3. /\ \A l \in Lines : req[q].made[l] = 0
      /\ \A o \in Orders : req[q].derived[o] = Nothing
      /\ req[q].plan \in Plans
  BY <1>1, <1>2 DEF Requesting, Stage, PlanOps
<1>4. \A l \in Lines : req[q].add[l] # 0 => l \in L
  OBVIOUS
<1> HIDE DEF L
<1>5. PICK w \in Transactions :
           /\ req' = [req EXCEPT ![q] = w] /\ req'[q] = w
           /\ \A t \in Requests : t # q => req'[t] = req[t]
           /\ w.at = "written" /\ w.held = L /\ w.op = "cancel" /\ w.plan = req[q].plan
           /\ w.add = req[q].add /\ w.made = req[q].made /\ w.todo = req[q].todo /\ w.derived = req[q].derived
           /\ \A t \in Requests : L \cap req[t].held = {}
           /\ UNCHANGED table
  BY <1>1, <1>2, WritesFields
<1>6. Requesting(q)'
  <2>1. Stage(q)' /\ PlanStands(q)'
    BY <1>1, <1>2, <1>3, <1>5, NothingAssumption DEF Requesting, Stage, PlanStands, PlanOps, Ops, table
  <2>2. OutputStands(q)' /\ StatusStands(q)'
    BY <1>3, <1>5 DEF OutputStands, StatusStands
  <2>3. LinesStand(q)'
    <3>1. SUFFICES ASSUME NEW m \in Lines PROVE LineStands(q, m)'
      BY DEF LinesStand
    <3>2. LineStands(q, m)
      BY <1>2 DEF Requesting, LinesStand
    <3>3. AddsRight(q, m)'
      BY <1>1, <1>5, <3>2 DEF LineStands, AddsRight, table, history
    <3>4. line'[m] = line[m] /\ req[q].derived[OrderOf[m]] = Nothing
      BY <1>3, <1>5, Constants DEF table
    <3>5. QED
      BY <1>3, <1>4, <1>5, <3>2, <3>3, <3>4 DEF LineStands
  <2>4. QED
    BY <2>1, <2>2, <2>3 DEF Requesting
<1>7. LocksExclude'
  <2>1. \A t \in Requests : t # q /\ req[t].op \in PlanOps => req[t].plan # req[q].plan
    BY <1>1 DEF IInv, LocksExclude, PlanOps
  <2>2. QED
    BY <1>3, <1>5, <2>1, LocksTaken DEF IInv
<1>8. QED
  BY <1>5, <1>6, <1>7, RequestStep

LEMMA WriteMovePreserves ==
  ASSUME IInv, NEW q \in Requests, WriteMove(q)
  PROVE  IInv'
<1> DEFINE p == req[q].plan
           made == Shares(p, output[p])
           O == OrdersOf({l \in Lines : made[l] > 0})
           r == [req[q] EXCEPT !.made = made, !.todo = O]
<1>1. /\ req[q].at = "begun" /\ req[q].op = "move" /\ WorkOrderIsFree(p)
      /\ \/ req[q].to = "COMPLETED" /\ output[p] > 0 /\ Writes(q, Served(p), r)
         \/ Writes(q, {}, req[q])
  BY DEF WriteMove
<1>2. req[q] \in Transactions /\ Requesting(q)
  BY RequestIsTyped
<1>3. p \in Plans /\ Unwritten(q)
  BY <1>1, <1>2 DEF Requesting, Stage, PlanOps
<1>4. output[p] \in Nat /\ demand[p] \in [Lines -> Nat]
  BY <1>3, BoundsAssumption DEF IInv, TypeOK
<1>5. /\ made \in [Lines -> Nat] /\ Sum(made, Lines) <= output[p]
      /\ \A l \in Lines : line[l].produced + made[l] <= Ordered[l] /\ (made[l] # 0 => l \in Served(p))
  BY <1>3, <1>4, LinesAreTyped, SharesFit
<1>6. O \in SUBSET Orders /\ (\A l \in Lines : made[l] # 0 => OrderOf[l] \in O) /\ Served(p) \in SUBSET Lines
  BY <1>5, Constants DEF OrdersOf, Served
<1> HIDE DEF p, made, O
<1>7. /\ r \in Transactions /\ r.op = "move" /\ r.plan = req[q].plan /\ r.to = req[q].to
      /\ r.add = req[q].add /\ r.made = made /\ r.todo = O /\ r.derived = req[q].derived
  BY <1>1, <1>2, <1>5, <1>6 DEF Transactions
<1> HIDE DEF r
<1>8. PICK w \in Transactions :
           /\ req' = [req EXCEPT ![q] = w] /\ req'[q] = w
           /\ \A t \in Requests : t # q => req'[t] = req[t]
           /\ w.at = "written" /\ w.op = "move" /\ w.plan = req[q].plan /\ w.to = req[q].to
           /\ w.add = req[q].add /\ w.derived = req[q].derived
           /\ \A t \in Requests : w.held \cap req[t].held = {}
           /\ UNCHANGED table
           /\ \/ w.made = req[q].made
              \/ w.made = made /\ w.held = Served(p) /\ w.todo = O /\ w.to = "COMPLETED"
  <2>1. CASE Writes(q, {}, req[q])
    BY <1>1, <1>2, <2>1, WritesFields
  <2>2. CASE req[q].to = "COMPLETED" /\ Writes(q, Served(p), r)
    BY <1>1, <1>6, <1>7, <2>2, WritesFields
  <2>3. QED
    BY <1>1, <2>1, <2>2
<1>9. Requesting(q)'
  <2>1. Stage(q)' /\ PlanStands(q)'
    BY <1>1, <1>2, <1>8, NothingAssumption DEF Requesting, Stage, PlanStands, PlanOps, Ops
  <2>2. StatusStands(q)'
    BY <1>3, <1>8 DEF StatusStands, Unwritten
  <2>3. OutputStands(q)'
    <3>1. output' = output
      BY <1>8 DEF table
    <3>2. QED
      BY <1>3, <1>5, <1>8, <3>1 DEF OutputStands, Unwritten, p
  <2>4. \A l \in Lines : line'[l] = line[l] /\ req'[q].add[l] = 0
    BY <1>3, <1>8 DEF table, Unwritten
  <2>5. \A l \in Lines : AddsRight(q, l)'
    BY <1>8, <2>4 DEF AddsRight
  <2>6. LinesStand(q)'
    <3>1. SUFFICES ASSUME NEW m \in Lines PROVE LineStands(q, m)'
      BY DEF LinesStand
    <3>2. line[m].planned \in Int /\ line[m].planned <= Ordered[m]
          /\ line[m].produced \in Nat /\ line[m].produced <= Ordered[m]
          /\ Ordered[m] \in Nat
      BY LinesAreTyped
    <3>3. req[q].made[m] = 0
      BY <1>3 DEF Unwritten
    <3>4. QED
      BY <1>5, <1>6, <1>8, <2>4, <2>5, <3>2, <3>3 DEF LineStands
  <2>7. QED
    BY <2>1, <2>2, <2>3, <2>6 DEF Requesting
<1>10. LocksExclude'
  BY <1>1, <1>3, <1>8, LocksTaken DEF IInv, WorkOrderIsFree, Unwritten, PlanOps, p
<1>11. QED
  BY <1>8, <1>9, <1>10, RequestStep

LEMMA RefreshPreserves ==
  ASSUME IInv, NEW q \in Requests, NEW o \in Orders, RefreshStatusIn(q, o)
  PROVE  IInv'
<1> DEFINE d == Derived(q, o)
           r == [req[q] EXCEPT !.todo = @ \ {o}, !.derived[o] = d]
<1>1. /\ req[q].at = "written" /\ o \in req[q].todo /\ OrderIsFree(o) /\ UNCHANGED table
      /\ req' = [req EXCEPT ![q] = r]
  BY DEF RefreshStatusIn
<1>2. req[q] \in Transactions /\ Requesting(q)
  BY RequestIsTyped
<1>3. d \in OrderStatus /\ Follows(o, LineAfter(q), d) /\ d # Nothing
  BY DerivedFollows, NothingAssumption DEF IInv, TypeOK
<1> HIDE DEF d
<1>4. /\ r \in Transactions /\ r.at = "written" /\ r.op = req[q].op /\ r.plan = req[q].plan
      /\ r.line = req[q].line /\ r.qty = req[q].qty /\ r.to = req[q].to /\ r.held = req[q].held
      /\ r.from = req[q].from /\ r.last = req[q].last
      /\ r.add = req[q].add /\ r.made = req[q].made /\ r.todo = req[q].todo \ {o}
      /\ \A s \in Orders : r.derived[s] = IF s = o THEN d ELSE req[q].derived[s]
  BY <1>1, <1>2, <1>3 DEF Transactions
<1> HIDE DEF r
<1>5. req'[q] = r /\ \A t \in Requests : t # q => req'[t] = req[t]
  BY <1>1 DEF IInv, TypeOK
<1>6. Requesting(q)'
  <2>1. Stage(q)' /\ PlanStands(q)'
    BY <1>1, <1>2, <1>4, <1>5 DEF Requesting, Stage, PlanStands, table
  <2>2. OutputStands(q)'
    BY <1>1, <1>2, <1>4, <1>5 DEF Requesting, OutputStands, table
  <2>3. ASSUME NEW l \in Lines PROVE AddsRight(q, l)'
    BY <1>1, <1>2, <1>4, <1>5 DEF Requesting, LinesStand, LineStands, AddsRight, table, history
  <2>4. LinesStand(q)'
    BY <1>1, <1>2, <1>3, <1>4, <1>5, <2>3, Constants DEF Requesting, LinesStand, LineStands, table
  <2>5. LineAfter(q)' = LineAfter(q)
    <3>1. req'[q].add = req[q].add /\ req'[q].made = req[q].made /\ line' = line
      BY <1>1, <1>4, <1>5 DEF table
    <3>2. QED
      BY <3>1 DEF LineAfter
  <2>6. StatusStands(q)'
    BY <1>2, <1>3, <1>4, <1>5, <2>5 DEF Requesting, StatusStands, Follows, AllPlanned, AllProduced, LinesOf
  <2>7. QED
    BY <2>1, <2>2, <2>4, <2>6 DEF Requesting
<1>7. LocksExclude'
  BY <1>1, <1>4, <1>5, LocksTaken DEF IInv, LocksExclude, OrderIsFree
<1>8. QED
  BY <1>1, <1>4, <1>6, <1>7, RequestStep

-----------------------------------------------------------------------------
(* Commit                                                                   *)

\* What a commit does to a line.
LEMMA CommitLines ==
  ASSUME IInv, NEW q \in Requests, Commit(q), NEW l \in Lines
  PROVE  /\ line'[l].planned = line[l].planned + req[q].add[l]
         /\ line'[l].produced = line[l].produced + req[q].made[l]
         /\ line'[l].produced \in Nat /\ line'[l].produced <= Ordered[l]
         /\ line'[l].planned \in Int /\ line'[l].planned <= Ordered[l]
         /\ req[q].add[l] = 0 /\ req[q].made[l] = 0 => line'[l] = line[l]
         /\ line'[l] \in [planned : Int, produced : Nat]
<1>1. line \in [Lines -> [planned : Int, produced : Nat]]
  BY DEF IInv, TypeOK
<1>2. line'[l] = [line[l] EXCEPT !.planned = @ + req[q].add[l], !.produced = @ + req[q].made[l]]
  BY DEF Commit, LineAfter
<1>3. req[q] \in Transactions /\ LinesStand(q)
  BY RequestIsTyped DEF Requesting
<1>4. req[q].add[l] \in Int /\ req[q].made[l] \in Nat
  BY <1>3 DEF Transactions
<1>5. /\ line[l].planned + req[q].add[l] <= Ordered[l]
      /\ line[l].produced + req[q].made[l] <= Ordered[l]
  BY <1>3 DEF LinesStand, LineStands
<1>6. line[l] \in [planned : Int, produced : Nat]
  BY <1>1
<1>7. line'[l].planned = line[l].planned + req[q].add[l] /\ line'[l].produced = line[l].produced + req[q].made[l]
  BY <1>2, <1>6
<1>8. line'[l] = [planned |-> line[l].planned + req[q].add[l], produced |-> line[l].produced + req[q].made[l]]
  BY <1>2, <1>6
<1>9. req[q].add[l] = 0 /\ req[q].made[l] = 0 => line'[l] = line[l]
  <2>1. /\ line[l] = [planned |-> line[l].planned, produced |-> line[l].produced]
        /\ line'[l] = [planned |-> line[l].planned + req[q].add[l], produced |-> line[l].produced + req[q].made[l]]
    BY <1>2, <1>6
  <2>2. line[l].planned + 0 = line[l].planned /\ line[l].produced + 0 = line[l].produced
    BY <1>6
  <2>3. QED
    BY <2>1, <2>2
<1>10. line'[l] \in [planned : Int, produced : Nat]
  <2>1. line[l].planned + req[q].add[l] \in Int /\ line[l].produced + req[q].made[l] \in Nat
    BY <1>4, <1>6
  <2>2. QED
    BY <1>8, <2>1
<1>11. QED
  BY <1>4, <1>5, <1>6, <1>7, <1>9, <1>10

LEMMA CommitIsTyped ==
  ASSUME IInv, NEW q \in Requests, Commit(q)
  PROVE  /\ line' \in [Lines -> [planned : Int, produced : Nat]]
         /\ status' \in [Orders -> OrderStatus]
         /\ plan' \in [Plans -> {"DRAFT", "CONFIRMED", "CANCELLED"}]
         /\ demand' \in [Plans -> [Lines -> Nat]]
         /\ wo' \in [Plans -> WorkOrderStatus] /\ output' \in [Plans -> 0..MaxOutput]
         /\ req' \in [Requests -> Transactions]
         /\ req'[q] = Free /\ \A t \in Requests : t # q => req'[t] = req[t]
         /\ overtaken' \in BOOLEAN /\ strayed' \in SUBSET Lines
<1>1. TypeOK /\ Stage(q) /\ req[q] \in Transactions
  BY RequestIsTyped DEF IInv, Requesting
<1>2. line' \in [Lines -> [planned : Int, produced : Nat]]
  <2>1. \A l \in Lines : line'[l] \in [planned : Int, produced : Nat]
    BY CommitLines
  <2>2. line' = [l \in Lines |-> line'[l]]
    BY DEF Commit, LineAfter
  <2>3. QED
    BY <2>1, <2>2
<1>3. status' \in [Orders -> OrderStatus]
  BY <1>1 DEF Commit, TypeOK, Transactions
<1>4. plan' \in [Plans -> {"DRAFT", "CONFIRMED", "CANCELLED"}]
  BY <1>1 DEF Commit, PlanAfter, TypeOK
<1>5. demand' \in [Plans -> [Lines -> Nat]]
  <2>1. CASE req[q].op = "add"
    <3> DEFINE p == req[q].plan  l == req[q].line  n == req[q].qty
    <3>1. p \in Plans /\ l \in Lines /\ n \in Nat
      BY <1>1, <2>1 DEF Stage, PlanOps, Transactions
    <3>2. demand' = [demand EXCEPT ![p][l] = n]
      BY <2>1 DEF Commit, DemandAfter
    <3>3. demand \in [Plans -> [Lines -> Nat]]
      BY <1>1 DEF TypeOK
    <3> HIDE DEF p, l, n
    <3>4. QED
      BY <3>1, <3>2, <3>3
  <2>2. CASE req[q].op # "add"
    BY <1>1, <2>2 DEF Commit, DemandAfter, TypeOK
  <2>3. QED
    BY <2>1, <2>2
<1>6. wo' \in [Plans -> WorkOrderStatus] /\ output' \in [Plans -> 0..MaxOutput]
  BY <1>1 DEF Commit, WorkOrderAfter, TypeOK, Stage
<1>7. overtaken' \in BOOLEAN /\ strayed' \in SUBSET Lines
  BY <1>1 DEF Commit, TypeOK, Overtaken, Strayed
<1>8. req \in [Requests -> Transactions] /\ req' = [req EXCEPT ![q] = Free]
  BY <1>1 DEF Commit, TypeOK, Transactions
<1>9. QED
  BY <1>2, <1>3, <1>4, <1>5, <1>6, <1>7, <1>8, FreeIsTyped

\* A removal takes its row and, with the plan line, the rows that stray.
LEMMA CommitChangesDemand ==
  ASSUME IInv, NEW q \in Requests, Commit(q), NEW p \in Plans, NEW l \in Lines
  PROVE  /\ req[q].op = "add" => demand' = [demand EXCEPT ![req[q].plan][req[q].line] = req[q].qty]
         /\ req[q].op # "add" => demand'[p][l] = IF NoRow(q, p, l) THEN 0 ELSE demand[p][l]
         /\ req[q].op # "remove" => ~NoRow(q, p, l)
         /\ l \notin strayed' => l \notin strayed /\ l \notin Strayed(q)
BY DEF Commit, DemandAfter, NoRow, Removes

\* The plans that count lose or gain what the line loses or gains.
LEMMA CommitKeepsPlanned ==
  ASSUME IInv, NEW q \in Requests, Commit(q), NEW l \in Lines, l \notin strayed'
  PROVE  line'[l].planned = Sum([p \in Plans |-> demand[p][l]], {p \in Plans : plan[p] # "CANCELLED"})'
<1> DEFINE F == [p \in Plans |-> demand[p][l]]
           G == [p \in Plans |-> demand'[p][l]]
           S == {p \in Plans : plan[p] # "CANCELLED"}
           T == {p \in Plans : plan'[p] # "CANCELLED"}
           x == req[q].plan
           a == req[q].add[l]
<1>1. l \notin strayed /\ l \notin Strayed(q)
      /\ line[l].planned = Sum(F, S) /\ line'[l].planned = line[l].planned + a
  BY CommitLines, Zenon DEF IInv, BooksAgree, Commit
<1>2. Stage(q) /\ PlanStands(q) /\ AddsRight(q, l) /\ req[q].at = "written" /\ TypeOK /\ a \in Int
  BY RequestIsTyped DEF IInv, Requesting, LinesStand, LineStands, Commit, Transactions
<1>3. IsFiniteSet(S) /\ S \subseteq Plans
  BY Constants, FS_Subset
<1>4. (\A p \in S : F[p] \in Int /\ G[p] \in Int) /\ \A p \in Plans : F[p] \in Int /\ G[p] \in Int
  BY CommitIsTyped, <1>2 DEF TypeOK
<1>5. Sum(F, S) \in Int
  <2> HIDE DEF F, S
  <2>1. QED
    BY <1>3, <1>4, SumStep
<1>6. ASSUME NEW y \in S, T = S, \A p \in S : p # y => F[p] = G[p], G[y] = F[y] + a
      PROVE  line'[l].planned = Sum(G, T)
  <2> HIDE DEF F, G, S, T, a
  <2>1. Sum(G, S) - G[y] = Sum(F, S) - F[y]
    BY <1>3, <1>4, <1>6, SumChange
  <2>2. Sum(G, S) \in Int /\ F[y] \in Int
    BY <1>3, <1>4, <1>6, SumStep
  <2>3. QED
    BY <1>1, <1>2, <1>5, <1>6, <2>1, <2>2
<1>7. CASE req[q].op = "add"
  <2>1. x \in S /\ T = S
    BY <1>2, <1>7 DEF Stage, PlanStands, PlanOps, Commit, PlanAfter
  <2>2. demand' = [demand EXCEPT ![x][req[q].line] = req[q].qty] /\ x \in Plans /\ demand \in [Plans -> [Lines -> Nat]]
        /\ req[q].line \in Lines
    BY <1>2, <1>7, <2>1 DEF Commit, DemandAfter, TypeOK, Stage
  <2>3. \A p \in S : p # x => F[p] = G[p]
    BY <2>2
  <2>4. G[x] = F[x] + a
    <3>1. G[x] = IF l = req[q].line THEN req[q].qty ELSE F[x]
      BY <2>2
    <3>2. a = IF l = req[q].line THEN req[q].qty ELSE 0
      BY <1>2, <1>7 DEF AddsRight
    <3>3. F[x] \in Nat /\ req[q].qty \in Nat /\ (l = req[q].line => F[x] = 0)
      BY <1>2, <1>7, <2>2, RequestIsTyped DEF Transactions, PlanStands
    <3>4. QED
      BY <3>1, <3>2, <3>3
  <2>5. QED
    BY <1>6, <2>1, <2>3, <2>4 DEF G, T
<1>8. CASE req[q].op = "remove"
  <2> DEFINE f == req[q].from
  <2>1. T = S /\ f \in Plans /\ req[q].line \in Lines
    BY <1>2, <1>8 DEF Stage, Commit, PlanAfter, TypeOK
  <2>2. \A p \in Plans : G[p] = IF NoRow(q, p, l) THEN 0 ELSE F[p]
    BY <1>8, CommitChangesDemand
  <2>3. \A p \in Plans : p # f => G[p] = F[p]
    BY <2>2 DEF NoRow, Removes
  <2>4. CASE l = req[q].line
    <3>1. F[f] > 0 /\ NoRow(q, f, l) /\ a = -F[f]
      BY <1>2, <1>8, <2>1, <2>4 DEF PlanStands, NoRow, Removes, AddsRight
    <3>2. f \in S
      BY <1>1, <2>1, <2>4, <3>1 DEF Strayed
    <3>3. G[f] = F[f] + a
      BY <1>4, <2>1, <2>2, <3>1
    <3>4. QED
      BY <1>6, <2>1, <2>3, <3>2, <3>3 DEF G, T
  <2>5. CASE l # req[q].line
    <3>1. a = 0
      BY <1>2, <1>8, <2>5 DEF AddsRight
    <3>2. F[f] \in Nat /\ (NoRow(q, f, l) => F[f] = 0)
      BY <1>1, <1>2, <2>1, <2>5 DEF Strayed, TypeOK
    <3>3. \A p \in Plans : G[p] = F[p]
      BY <2>1, <2>2, <2>3, <3>2
    <3>4. Sum(F, S) = Sum(G, S)
      <4> HIDE DEF F, G, S
      <4>1. \A p \in S : F[p] \in Int /\ F[p] = G[p]
        BY <1>3, <1>4, <3>3
      <4>2. QED
        BY <1>3, <4>1, SumEqual
    <3> HIDE DEF F, G, S, T, a
    <3>5. line'[l].planned = Sum(G, T)
      BY <1>1, <1>5, <2>1, <3>1, <3>4
    <3>6. QED
      BY <3>5 DEF G, T
  <2>6. QED
    BY <2>4, <2>5
<1>9. CASE req[q].op \notin {"add", "remove"}
  <2>1. G = F
    <3>1. \A p \in Plans : G[p] = F[p]
      BY <1>9, CommitChangesDemand
    <3>2. QED
      BY <3>1
  <2>2. CASE req[q].op = "cancel"
    <3>1. x \in S /\ T = S \ {x}
      BY <1>2, <2>2 DEF Stage, PlanStands, PlanOps, Commit, PlanAfter, TypeOK
    <3>2. a = -F[x] /\ F[x] \in Int
      BY <1>1, <1>2, <1>4, <2>2, <3>1 DEF AddsRight
    <3> HIDE DEF F, G, S, T, x, a
    <3>3. Sum(F, S) = F[x] + Sum(F, S \ {x})
      BY <1>3, <1>4, <3>1, SumStep
    <3>4. Sum(F, S \ {x}) \in Int
      <4>1. IsFiniteSet(S \ {x}) /\ \A p \in S \ {x} : F[p] \in Int
        BY <1>3, <1>4, FS_Subset
      <4>2. QED
        BY <4>1, SumStep
    <3>5. Sum(G, T) = Sum(F, S) + a
      BY <2>1, <3>1, <3>2, <3>3, <3>4
    <3>6. QED
      BY <1>1, <3>5 DEF G, T
  <2>3. CASE req[q].op # "cancel"
    <3>1. a = 0
      BY <1>2, <1>9, <2>3 DEF AddsRight
    <3>2. T = S
      BY <1>2, <1>9, <2>3 DEF Commit, PlanAfter, Stage, PlanStands, PlanOps, TypeOK
    <3> HIDE DEF F, G, S, T, x, a
    <3>3. Sum(G, T) = Sum(F, S) + a
      BY <1>5, <2>1, <3>1, <3>2
    <3>4. QED
      BY <1>1, <3>3 DEF G, T
  <2>4. QED
    BY <2>2, <2>3
<1>10. QED
  BY <1>7, <1>8, <1>9

\* Output that was handed over belongs to a work order that is completed now.
LEMMA CommitKeepsHandedOver ==
  ASSUME IInv, NEW q \in Requests, Commit(q)
  PROVE  HandedOver'
<1> DEFINE was == [l \in Lines |-> line[l].produced]
           is == [l \in Lines |-> line'[l].produced]
           made == req[q].made
           done == [p \in Plans |-> IF wo[p] = "COMPLETED" THEN output[p] ELSE 0]
           done2 == [p \in Plans |-> IF wo'[p] = "COMPLETED" THEN output[p] ELSE 0]
           x == req[q].plan
<1>1. SUFFICES ASSUME ~overtaken' PROVE Sum(is, Lines) <= Sum(done2, Plans)
  BY DEF HandedOver, Commit
<1>2. Sum(was, Lines) <= Sum(done, Plans) /\ ~Overtaken(q)
  BY <1>1 DEF IInv, HandedOver, Commit
<1>3. TypeOK /\ req[q] \in Transactions /\ Stage(q) /\ OutputStands(q) /\ req[q].at = "written"
  BY RequestIsTyped DEF IInv, Requesting, Commit
<1>4. \A l \in Lines : was[l] \in Int /\ made[l] \in Int /\ is[l] = was[l] + made[l]
  BY <1>3, LinesAreTyped, CommitLines DEF Transactions
<1>5. Sum(is, Lines) = Sum(was, Lines) + Sum(made, Lines)
  <2> HIDE DEF is, was, made
  <2>1. QED
    BY <1>4, Constants, SumPlus
<1>6. Sum(was, Lines) \in Int /\ Sum(made, Lines) \in Int
  <2> HIDE DEF is, was, made
  <2>1. QED
    BY <1>4, Constants, SumStep
<1>7. \A p \in Plans : output[p] \in Nat
  BY <1>3, BoundsAssumption DEF TypeOK
<1>8. \A p \in Plans : done[p] \in Int /\ done2[p] \in Int
  BY <1>7
<1>9. Sum(done, Plans) \in Int /\ Sum(done2, Plans) \in Int
  <2> HIDE DEF done, done2
  <2>1. QED
    BY <1>8, Constants, SumStep
<1>10. req[q].op = "move" => x \in Plans /\ wo[x] # "COMPLETED" /\ wo' = [wo EXCEPT ![x] = req[q].to]
  BY <1>2, <1>3 DEF Stage, PlanOps, Overtaken, legalTransitions, Commit, WorkOrderAfter, TypeOK
<1>11. req[q].op # "move" => wo' = wo
  BY DEF Commit, WorkOrderAfter
<1>12. CASE \A l \in Lines : made[l] = 0
  <2>1. Sum(made, Lines) = 0
    <3> HIDE DEF made
    <3>1. QED
      BY <1>4, <1>12, Constants, SumZero
  <2>2. \A p \in Plans : done[p] <= done2[p]
    BY <1>3, <1>7, <1>10, <1>11 DEF TypeOK
  <2> HIDE DEF done, done2, was, is, made
  <2>3. Sum(done, Plans) <= Sum(done2, Plans)
    BY <1>8, <2>2, Constants, SumMonotone
  <2>4. QED
    BY <1>2, <1>5, <1>6, <1>9, <2>1, <2>3
<1>13. CASE \E l \in Lines : made[l] # 0
  <2>1. req[q].op = "move" /\ req[q].to = "COMPLETED" /\ Sum(made, Lines) <= output[x]
    BY <1>3, <1>13 DEF OutputStands
  <2>2. x \in Plans /\ wo \in [Plans -> WorkOrderStatus]
    BY <1>3, <1>10, <2>1 DEF TypeOK
  <2>3. done[x] = 0 /\ done2[x] = output[x] /\ \A p \in Plans : p # x => done[p] = done2[p]
    BY <1>10, <2>1, <2>2
  <2> HIDE DEF done, done2, was, is, made, x
  <2>4. Sum(done2, Plans) - done2[x] = Sum(done, Plans) - done[x]
    BY <1>8, <2>2, <2>3, Constants, SumChange
  <2>5. QED
    BY <1>2, <1>5, <1>6, <1>7, <1>9, <2>1, <2>2, <2>3, <2>4
<1>14. QED
  BY <1>12, <1>13

\* What the locks of the other requests protect is not touched.
LEMMA CommitSparesOthers ==
  ASSUME IInv, NEW q \in Requests, Commit(q), NEW t \in Requests, t # q
  PROVE  Requesting(t)'
<1>1. req'[t] = req[t]
  BY CommitIsTyped
<1>2. Requesting(t) /\ Requesting(q) /\ req[t] \in Transactions /\ TypeOK
  BY RequestIsTyped DEF IInv
<1>3. /\ req[q].held \cap req[t].held = {}
      /\ \A o \in Orders : req[q].derived[o] = Nothing \/ req[t].derived[o] = Nothing
      /\ req[q].op \in PlanOps /\ req[t].op \in PlanOps => req[q].plan # req[t].plan
  BY DEF IInv, LocksExclude
<1>4. req[t].op \in PlanOps => req[t].plan \in Plans /\ plan'[req[t].plan] = plan[req[t].plan]
  BY <1>2, <1>3 DEF Requesting, Stage, Commit, PlanAfter, PlanOps, TypeOK
<1>6. req[t].op = "add" => demand'[req[t].plan][req[t].line] = 0
  <2>1. SUFFICES ASSUME req[t].op = "add" PROVE demand'[req[t].plan][req[t].line] = 0
    OBVIOUS
  <2>2. /\ req[t].plan \in Plans /\ req[t].line \in Lines /\ demand[req[t].plan][req[t].line] = 0
        /\ req[q].op = "add" => req[q].plan # req[t].plan
    BY <1>2, <1>3, <1>4, <2>1 DEF Requesting, Stage, PlanStands, PlanOps
  <2>3. CASE req[q].op = "add"
    <3>1. demand' = [demand EXCEPT ![req[q].plan][req[q].line] = req[q].qty] /\ demand \in [Plans -> [Lines -> Nat]]
      BY <1>2, <2>2, <2>3, CommitChangesDemand DEF TypeOK
    <3>2. QED
      BY <2>2, <2>3, <3>1
  <2>4. CASE req[q].op # "add"
    BY <2>2, <2>4, CommitChangesDemand
  <2>5. QED
    BY <2>3, <2>4
<1>7. req[t].op = "remove" => /\ req[t].from \in Plans /\ req[t].line \in Lines
                              /\ demand'[req[t].from][req[t].line] = demand[req[t].from][req[t].line]
  <2>1. SUFFICES ASSUME req[t].op = "remove"
                 PROVE  /\ req[t].from \in Plans /\ req[t].line \in Lines
                        /\ demand'[req[t].from][req[t].line] = demand[req[t].from][req[t].line]
    OBVIOUS
  <2> DEFINE f == req[t].from  m == req[t].line
  <2>2. f \in Plans /\ m \in Lines /\ demand[f][m] > 0
    BY <1>2, <2>1 DEF Requesting, Stage, PlanStands
  <2>3. CASE req[q].op = "add"
    <3>1. demand' = [demand EXCEPT ![req[q].plan][req[q].line] = req[q].qty] /\ demand \in [Plans -> [Lines -> Nat]]
      BY <1>2, <2>2, <2>3, CommitChangesDemand DEF TypeOK
    <3>2. demand[req[q].plan][req[q].line] = 0 /\ req[q].plan \in Plans /\ req[q].line \in Lines
      BY <1>2, <2>3 DEF Requesting, Stage, PlanStands, PlanOps
    <3>3. ~(req[q].plan = f /\ req[q].line = m)
      BY <2>2, <3>2
    <3>4. QED
      BY <2>2, <3>1, <3>2, <3>3
  <2>4. CASE req[q].op # "add"
    <3>1. ~NoRow(q, f, m)
      BY <2>1 DEF IInv, LocksExclude, NoRow, Removes, Commit
    <3>2. QED
      BY <2>2, <2>4, <3>1, CommitChangesDemand
  <2>5. QED
    BY <2>2, <2>3, <2>4
<1>8. ASSUME req[t].op = "cancel", NEW l \in Lines, l \notin strayed'
      PROVE  l \notin strayed /\ demand'[req[t].plan][l] = demand[req[t].plan][l]
  <2> DEFINE p == req[t].plan
  <2>1. p \in Plans /\ l \notin strayed /\ l \notin Strayed(q) /\ demand[p][l] \in Nat
    <3>1. p \in Plans
      BY <1>4, <1>8 DEF PlanOps
    <3>2. l \notin strayed /\ l \notin Strayed(q)
      BY <1>8, <3>1, CommitChangesDemand
    <3>3. QED
      BY <1>2, <3>1, <3>2 DEF TypeOK
  <2>2. CASE req[q].op = "add"
    <3>1. demand' = [demand EXCEPT ![req[q].plan][req[q].line] = req[q].qty] /\ demand \in [Plans -> [Lines -> Nat]]
      BY <1>2, <2>1, <2>2, CommitChangesDemand DEF TypeOK
    <3>2. req[q].plan # p
      BY <1>3, <1>8, <2>2 DEF PlanOps
    <3>3. QED
      BY <2>1, <3>1, <3>2
  <2>3. CASE req[q].op # "add"
    <3>1. NoRow(q, p, l) => demand[p][l] = 0
      BY <1>8, <2>1 DEF Strayed
    <3>2. demand'[p][l] = IF NoRow(q, p, l) THEN 0 ELSE demand[p][l]
      <4> HIDE DEF p
      <4>1. QED
        BY <2>1, <2>3, CommitChangesDemand
    <3>3. QED
      BY <2>1, <3>1, <3>2
  <2>4. QED
    BY <2>1, <2>2, <2>3
<1>9. Stage(t)' /\ PlanStands(t)' /\ OutputStands(t)'
  <2>1. Stage(t)'
    BY <1>1, <1>2 DEF Requesting, Stage, Unwritten
  <2>2. PlanStands(t)'
    BY <1>1, <1>2, <1>4, <1>6, <1>7 DEF Requesting, PlanStands
  <2>3. output' = output
    BY DEF Commit
  <2>4. OutputStands(t)'
    BY <1>1, <1>2, <2>3 DEF Requesting, OutputStands
  <2>5. QED
    BY <2>1, <2>2, <2>4
<1>10. ASSUME NEW l \in Lines, req[t].at = "written", req[t].add[l] # 0 \/ req[t].made[l] # 0 PROVE line'[l] = line[l]
  <2>1. l \in req[t].held
    BY <1>2, <1>10 DEF Requesting, LinesStand, LineStands
  <2>2. req[q].add[l] = 0 /\ req[q].made[l] = 0
    BY <1>2, <1>3, <2>1 DEF Requesting, LinesStand, LineStands, Commit
  <2>3. QED
    BY <2>2, CommitLines
<1>11. LinesStand(t)'
  <2>1. SUFFICES ASSUME NEW l \in Lines
        PROVE  /\ AddsRight(t, l)'
               /\ line'[l].planned + req[t].add[l] <= Ordered[l]
               /\ line'[l].produced + req[t].made[l] <= Ordered[l]
    BY <1>1, <1>2 DEF Requesting, LinesStand, LineStands
  <2>2. LineStands(t, l) /\ req[t].add[l] \in Int /\ req[t].made[l] \in Nat
    BY <1>2 DEF Requesting, LinesStand, Transactions
  <2>3. AddsRight(t, l)'
    BY <1>1, <1>7, <1>8, <2>2 DEF LineStands, AddsRight
  <2>4. CASE req[t].at = "written" /\ (req[t].add[l] # 0 \/ req[t].made[l] # 0)
    BY <1>10, <2>2, <2>3, <2>4 DEF LineStands
  <2>5. CASE req[t].add[l] <= 0 /\ req[t].made[l] = 0
    <3>1. line'[l].planned \in Int /\ line'[l].planned <= Ordered[l]
          /\ line'[l].produced \in Nat /\ line'[l].produced <= Ordered[l] /\ Ordered[l] \in Nat
      BY CommitLines, Constants
    <3>2. QED
      BY <2>2, <2>3, <2>5, <3>1
  <2>6. req[t].at # "written" => req[t].add[l] <= 0 /\ req[t].made[l] = 0
    <3>1. SUFFICES ASSUME req[t].at # "written" PROVE req[t].add[l] <= 0 /\ req[t].made[l] = 0
      OBVIOUS
    <3>2. Stage(t) /\ req[t].at \in {"free", "begun"}
      BY <1>2, <3>1 DEF Requesting, Transactions
    <3>3. req[t].made[l] = 0 /\ (req[t].op # "cancel" => req[t].add[l] = 0)
      BY <3>2 DEF Stage, Unwritten
    <3>4. req[t].op = "cancel" => req[t].add[l] <= 0
      BY <2>2 DEF LineStands, AddsRight
    <3>5. QED
      BY <2>2, <3>3, <3>4
  <2>7. QED
    BY <2>2, <2>4, <2>5, <2>6
<1>12. StatusStands(t)'
  <2>1. SUFFICES ASSUME NEW o \in Orders, req[t].derived[o] # Nothing
                 PROVE  Follows(o, LineAfter(t)', req[t].derived[o])
    BY <1>1 DEF StatusStands, Follows, AllPlanned, AllProduced
  <2>2. req[q].derived[o] = Nothing
    BY <1>3, <2>1
  <2>3. ASSUME NEW l \in LinesOf(o) PROVE l \in Lines /\ LineAfter(t)'[l] = LineAfter(t)[l]
    <3>1. l \in Lines /\ OrderOf[l] = o
      BY DEF LinesOf
    <3>2. req[q].add[l] = 0 /\ req[q].made[l] = 0
      BY <1>2, <2>2, <3>1 DEF Requesting, LinesStand, LineStands, Commit
    <3>3. line'[l] = line[l]
      BY <3>1, <3>2, CommitLines
    <3>4. QED
      BY <1>1, <3>1, <3>3 DEF LineAfter
  <2>4. Follows(o, LineAfter(t), req[t].derived[o])
    BY <1>2, <2>1 DEF Requesting, StatusStands
  <2>5. QED
    BY <2>3, <2>4 DEF Follows, AllPlanned, AllProduced
<1>13. QED
  BY <1>9, <1>11, <1>12 DEF Requesting

LEMMA CommitPreserves ==
  ASSUME IInv, NEW q \in Requests, Commit(q)
  PROVE  IInv'
<1>1. req'[q] = Free /\ \A t \in Requests : t # q => req'[t] = req[t]
  BY CommitIsTyped
<1>2. TypeOK'
  BY CommitIsTyped, CommitLines DEF TypeOK, Transactions
<1>3. LocksExclude'
  BY <1>1, FreeIsTyped, NothingAssumption, LocksTaken DEF IInv, PlanOps, Ops
<1>4. Requesting(q)'
  <2>1. Stage(q)' /\ Unwritten(q)' /\ PlanStands(q)'
    BY <1>1, FreeIsTyped, NothingAssumption DEF Stage, Unwritten, PlanStands, PlanOps, Ops
  <2>2. LinesStand(q)' /\ OutputStands(q)' /\ StatusStands(q)'
    BY <1>1, <2>1, FreeIsTyped, NothingAssumption, UnwrittenStands, CommitLines DEF Ops
  <2>3. QED
    BY <2>1, <2>2 DEF Requesting
<1>5. HandedOver'
  BY CommitKeepsHandedOver
<1>6. BooksAgree'
  <2>1. ASSUME NEW l \in Lines
        PROVE  (l \in strayed \/ line[l].planned
                  = Sum([p \in Plans |-> demand[p][l]], {p \in Plans : plan[p] # "CANCELLED"}))'
               /\ line'[l].produced <= Ordered[l]
    BY CommitLines, CommitKeepsPlanned
  <2>2. (overtaken \/ Sum([l \in Lines |-> line[l].produced], Lines) <= Sum(output, Plans))'
    <3>1. \A l \in Lines : line'[l].produced \in Nat
      BY CommitLines
    <3>2. \A p \in Plans : output'[p] \in Nat
      BY CommitIsTyped, BoundsAssumption
    <3>3. QED
      BY <1>5, <3>1, <3>2, BooksFollow DEF HandedOver
  <2>3. QED
    BY <2>1, <2>2 DEF BooksAgree
<1>7. StatusFollows'
  <2>1. SUFFICES ASSUME NEW o \in Orders PROVE Follows(o, line', status'[o])
    BY DEF StatusFollows, Follows, AllPlanned, AllProduced
  <2>2. Requesting(q) /\ Follows(o, line, status[o])
    BY RequestIsTyped DEF IInv, StatusFollows, Follows
  <2>3. CASE req[q].derived[o] # Nothing
    <3>1. status'[o] = req[q].derived[o] /\ line' = LineAfter(q)
      BY <2>3 DEF Commit
    <3>2. QED
      BY <2>2, <2>3, <3>1 DEF Requesting, StatusStands
  <2>4. CASE req[q].derived[o] = Nothing
    <3>1. status'[o] = status[o]
      BY <2>4 DEF Commit
    <3>2. ASSUME NEW l \in LinesOf(o) PROVE line'[l] = line[l]
      <4>1. l \in Lines /\ OrderOf[l] = o
        BY DEF LinesOf
      <4>2. req[q].add[l] = 0 /\ req[q].made[l] = 0
        BY <2>2, <2>4, <4>1 DEF Requesting, LinesStand, LineStands, Commit
      <4>3. QED
        BY <4>1, <4>2, CommitLines
    <3>3. QED
      BY <2>2, <3>1, <3>2 DEF Follows, AllPlanned, AllProduced
  <2>5. QED
    BY <2>3, <2>4
<1>8. \A t \in Requests : Requesting(t)'
  BY <1>4, CommitSparesOthers
<1>9. QED
  BY <1>2, <1>3, <1>5, <1>6, <1>7, <1>8 DEF IInv

-----------------------------------------------------------------------------
(* Requests of one step                                                     *)

LEMMA GenerateForPlanPreserves ==
  ASSUME IInv, NEW p \in Plans, GenerateForPlan(p)
  PROVE  IInv'
<1>1. /\ wo[p] = "NONE" /\ wo' = [wo EXCEPT ![p] = "DRAFT"]
      /\ UNCHANGED <<line, status, plan, demand, output, req, history>>
  BY DEF GenerateForPlan
<1>2. TypeOK'
  BY <1>1 DEF IInv, TypeOK, WorkOrderStatus, history
<1>3. \A q \in Requests : Requesting(q)'
  BY <1>1, OthersStand DEF IInv, history
<1>4. [r \in Plans |-> IF wo'[r] = "COMPLETED" THEN output[r] ELSE 0]
        = [r \in Plans |-> IF wo[r] = "COMPLETED" THEN output[r] ELSE 0]
  BY <1>1 DEF IInv, TypeOK
<1>5. HandedOver'
  BY <1>1, <1>4 DEF IInv, HandedOver, history
<1>6. LocksExclude' /\ BooksAgree' /\ StatusFollows'
  <2>1. LocksExclude'
    BY <1>1 DEF IInv, LocksExclude
  <2>2. BooksAgree'
    BY <1>1 DEF IInv, BooksAgree, history
  <2>3. StatusFollows'
    BY <1>1 DEF IInv, StatusFollows, AllPlanned, AllProduced
  <2>4. QED
    BY <2>1, <2>2, <2>3
<1>7. QED
  BY <1>2, <1>3, <1>5, <1>6 DEF IInv

LEMMA RecordOutputPreserves ==
  ASSUME IInv, NEW p \in Plans, RecordOutput(p)
  PROVE  IInv'
<1>1. /\ WorkOrderIsFree(p) /\ output[p] < MaxOutput /\ output' = [output EXCEPT ![p] = @ + 1]
      /\ UNCHANGED <<line, status, plan, demand, wo, req, history>>
  BY DEF RecordOutput
<1>2. TypeOK'
  BY <1>1, BoundsAssumption DEF IInv, TypeOK, history
<1>3. \A r \in Plans : output[r] \in Nat /\ output'[r] \in Nat /\ output[r] <= output'[r] /\ (r # p => output'[r] = output[r])
  BY <1>1, BoundsAssumption DEF IInv, TypeOK
<1>4. ASSUME NEW q \in Requests PROVE Requesting(q)'
  <2>1. Requesting(q) /\ req[q] \in Transactions
    BY RequestIsTyped
  <2>2. Stage(q)' /\ PlanStands(q)' /\ LinesStand(q)'
    BY <1>1, <2>1 DEF Requesting, Stage, Unwritten, PlanStands, LinesStand, LineStands, AddsRight, history
  <2>3. StatusStands(q)'
    BY <1>1, <2>1 DEF Requesting, StatusStands, Follows, AllPlanned, AllProduced, LineAfter
  <2>4. OutputStands(q)'
    <3>1. SUFFICES ASSUME \E l \in Lines : req[q].made[l] # 0
                   PROVE  req[q].op = "move" /\ req[q].to = "COMPLETED"
                            /\ Sum(req[q].made, Lines) <= output'[req[q].plan]
      BY <1>1 DEF OutputStands
    <3>2. /\ req[q].op = "move" /\ req[q].to = "COMPLETED"
          /\ Sum(req[q].made, Lines) <= output[req[q].plan] /\ req[q].plan \in Plans
      BY <2>1, <3>1 DEF Requesting, OutputStands, Stage, PlanOps
    <3>3. \A l \in Lines : req[q].made[l] \in Int
      BY <2>1 DEF Transactions
    <3>4. Sum(req[q].made, Lines) \in Int
      BY <3>3, Constants, SumStep
    <3>5. QED
      BY <1>3, <3>2, <3>4
  <2>5. QED
    BY <2>2, <2>3, <2>4 DEF Requesting
<1> DEFINE was == [l \in Lines |-> line[l].produced]
           done == [r \in Plans |-> IF wo[r] = "COMPLETED" THEN output[r] ELSE 0]
           done2 == [r \in Plans |-> IF wo[r] = "COMPLETED" THEN output'[r] ELSE 0]
<1>5. HandedOver'
  <2>1. SUFFICES ASSUME ~overtaken PROVE Sum(was, Lines) <= Sum(done2, Plans)
    BY <1>1 DEF HandedOver, history
  <2>2. Sum(was, Lines) <= Sum(done, Plans)
    BY <2>1 DEF IInv, HandedOver
  <2>3. \A r \in Plans : done[r] \in Int /\ done2[r] \in Int /\ done[r] <= done2[r]
    BY <1>3
  <2>4. \A l \in Lines : was[l] \in Int
    BY LinesAreTyped
  <2> HIDE DEF was, done, done2
  <2>5. Sum(done, Plans) <= Sum(done2, Plans)
    BY <2>3, Constants, SumMonotone
  <2>6. Sum(was, Lines) \in Int /\ Sum(done, Plans) \in Int /\ Sum(done2, Plans) \in Int
    BY <2>3, <2>4, Constants, SumStep
  <2>7. QED
    BY <2>2, <2>5, <2>6
<1>6. BooksAgree'
  <2>1. (overtaken \/ Sum([l \in Lines |-> line[l].produced], Lines) <= Sum(output, Plans))'
    <3>1. \A l \in Lines : line'[l].produced \in Nat
      BY <1>1, LinesAreTyped
    <3>2. QED
      BY <1>3, <1>5, <3>1, BooksFollow DEF HandedOver
  <2>2. QED
    BY <1>1, <2>1 DEF IInv, BooksAgree, history
<1>7. LocksExclude' /\ StatusFollows'
  <2>1. LocksExclude'
    BY <1>1 DEF IInv, LocksExclude
  <2>2. StatusFollows'
    BY <1>1 DEF IInv, StatusFollows, AllPlanned, AllProduced
  <2>3. QED
    BY <2>1, <2>2
<1>8. QED
  BY <1>2, <1>4, <1>5, <1>6, <1>7 DEF IInv

LEMMA SetsStatusPreserves ==
  ASSUME IInv, NEW o \in Orders, NEW s \in ManualLogisticsStatuses \cup {"CANCELLED"}, SetsStatus(o, s)
  PROVE  IInv'
<1>1. /\ status' = [status EXCEPT ![o] = s]
      /\ UNCHANGED <<line, plan, demand, wo, output, req, history>>
  BY DEF SetsStatus
<1>2. s \in OrderStatus /\ s \notin {"RECEIVED", "PLANNED", "IN_PRODUCTION"}
  BY ManualAssumption DEF OrderStatus
<1>3. TypeOK'
  BY <1>1, <1>2 DEF IInv, TypeOK, history
<1>4. \A q \in Requests : Requesting(q)'
  BY <1>1, OthersStand DEF IInv, history
<1>5. LocksExclude' /\ BooksAgree' /\ HandedOver'
  <2>1. LocksExclude'
    BY <1>1 DEF IInv, LocksExclude
  <2>2. BooksAgree'
    BY <1>1 DEF IInv, BooksAgree, history
  <2>3. HandedOver'
    BY <1>1 DEF IInv, HandedOver, history
  <2>4. QED
    BY <2>1, <2>2, <2>3
<1>6. StatusFollows'
  BY <1>1, <1>2 DEF IInv, TypeOK, StatusFollows, AllPlanned, AllProduced
<1>7. QED
  BY <1>3, <1>4, <1>5, <1>6 DEF IInv

LEMMA NextPreserves == IInv /\ [Next]_vars => IInv'
<1> SUFFICES ASSUME IInv, [Next]_vars PROVE IInv'
  OBVIOUS
<1>1. ASSUME NEW q \in Requests,
             BeginAdd(q) \/ WriteAdd(q) \/ BeginMove(q) \/ WriteMove(q) \/ BeginRefresh(q)
      PROVE  IInv'
  BY <1>1, BeginAddPreserves, WriteAddPreserves, BeginMovePreserves, WriteMovePreserves, BeginRefreshPreserves
<1>2. ASSUME NEW q \in Requests,
             BeginRemove(q) \/ WriteRemove(q) \/ BeginCancel(q) \/ WriteCancel(q) \/ \E p \in Plans : ConfirmPlan(q, p)
      PROVE  IInv'
  BY <1>2, BeginRemovePreserves, WriteRemovePreserves, BeginCancelPreserves, WriteCancelPreserves, ConfirmPlanPreserves
<1>3. ASSUME NEW q \in Requests, NEW o \in Orders, RefreshStatusIn(q, o) PROVE IInv'
  BY <1>3, RefreshPreserves
<1>4. ASSUME NEW q \in Requests, Commit(q) \/ Rollback(q) PROVE IInv'
  BY <1>4, CommitPreserves, RollbackPreserves
<1>5. ASSUME NEW p \in Plans, GenerateForPlan(p) \/ RecordOutput(p) PROVE IInv'
  BY <1>5, GenerateForPlanPreserves, RecordOutputPreserves
<1>6. ASSUME NEW o \in Orders, CancelOrder(o) \/ SetLogisticsStatus(o) PROVE IInv'
  BY <1>6, SetsStatusPreserves DEF CancelOrder, SetLogisticsStatus
<1>7. CASE UNCHANGED vars
  <2>1. UNCHANGED <<line, status, plan, demand, wo, output, req, overtaken, strayed>>
    BY <1>7 DEF vars, history
  <2>2. \A q \in Requests : Requesting(q)'
    BY <2>1, OthersStand DEF IInv
  <2>3. TypeOK'
    BY <2>1 DEF IInv, TypeOK
  <2>4. LocksExclude'
    BY <2>1 DEF IInv, LocksExclude
  <2>5. BooksAgree'
    BY <2>1 DEF IInv, BooksAgree
  <2>6. HandedOver'
    BY <2>1 DEF IInv, HandedOver
  <2>7. StatusFollows'
    BY <2>1 DEF IInv, StatusFollows, AllPlanned, AllProduced
  <2>8. QED
    BY <2>2, <2>3, <2>4, <2>5, <2>6, <2>7 DEF IInv
<1>8. QED
  BY <1>1, <1>2, <1>3, <1>4, <1>5, <1>6, <1>7 DEF Next

\* The invariant the other three are parts of: the types, the row locks, what
\* each open request holds and will write, the books and the statuses.
THEOREM DemandInvariant == Spec => []IInv
BY InitEstablishes, NextPreserves, PTL DEF Spec

\* Every row and every open request is well typed; above all a line is never
\* planned above what was ordered.
THEOREM TypeCorrect == Spec => []TypeOK
BY DemandInvariant, PTL DEF IInv

\* However requests overlap, and whichever plan's URL a row of demand is
\* removed through, the planned quantity of a line is what the plans that are
\* not cancelled ask for, unless its row was removed from a plan that is
\* cancelled or about to be, or went unseen with its plan line; no more is
\* produced than was ordered, and no more than was put out unless a work order
\* was moved by two requests.
THEOREM TheBooksAgree == Spec => []BooksAgree
BY DemandInvariant, PTL DEF IInv

\* An order whose last line was planned, or produced, has moved on.
THEOREM TheStatusFollows == Spec => []StatusFollows
BY DemandInvariant, PTL DEF IInv
=============================================================================
