---------------------------- MODULE StockProofs ----------------------------
(***************************************************************************)
(* Theorems about the stock of a material, for any work orders,            *)
(* reservations, keys, quantities and number of requests.                  *)
(*                                                                         *)
(* What is reserved is a sum over the open reservations.  The first        *)
(* section shows that the fold of the community modules adds up a finite   *)
(* set in whatever order (Additive), by a smallest counterexample.         *)
(***************************************************************************)
EXTENDS Stock, FiniteSetTheorems, TLAPS

SumOf(f, S) == MapThenSumSet(LAMBDA x : f[x].qty, S)

-----------------------------------------------------------------------------
(* Sums of quantities                                                       *)

\* A nonempty set of subsets of a finite set has a smallest one.
LEMMA Smallest ==
  ASSUME NEW S, IsFiniteSet(S), NEW H \in SUBSET (SUBSET S), H # {}
  PROVE  \E s \in H : \A t \in H : t \subseteq s => t = s
<1>1. IsWellFoundedOn(StrictSubsetOrdering(S), SUBSET S)
  BY FS_StrictSubsetOrderingWellFounded, FS_FiniteSubsetsOfFinite
<1>2. PICK s \in H : \A t \in H : <<t, s>> \notin StrictSubsetOrdering(S)
  BY <1>1, WFMin
<1>3. QED
  BY <1>2, Zenon DEF StrictSubsetOrdering

\* A adds up the terms of f over every subset of S, in every order.
Additive(f, A, S) ==
  /\ A \in [SUBSET S -> Int]
  /\ A[{}] = 0
  /\ \A s \in SUBSET S : \A x \in s : A[s] = f[x].qty + A[s \ {x}]

\* Such a function exists: one that adds up over all elements but x is
\* extended to x.
LEMMA AdditiveExists ==
  ASSUME NEW f, NEW S, IsFiniteSet(S), \A x \in S : f[x].qty \in Int
  PROVE  \E A : Additive(f, A, S)
<1> DEFINE H == {s \in SUBSET S : ~ \E A : Additive(f, A, s)}
<1>1. SUFFICES ASSUME H # {} PROVE FALSE
  OBVIOUS
<1>2. PICK s \in H : \A t \in H : t \subseteq s => t = s
  <2>1. H \in SUBSET (SUBSET S)
    OBVIOUS
  <2> HIDE DEF H
  <2>2. QED
    BY <1>1, <2>1, Smallest
<1>3. s # {}
  <2>1. Additive(f, [t \in SUBSET {} |-> 0], {})
    BY DEF Additive
  <2>2. QED
    BY <2>1
<1>4. PICK x \in s : TRUE
  BY <1>3
<1>5. PICK A : Additive(f, A, s \ {x})
  BY <1>2
<1> DEFINE B == [t \in SUBSET s |-> IF x \in t THEN f[x].qty + A[t \ {x}] ELSE A[t]]
<1>6. ASSUME NEW t \in SUBSET s, NEW y \in t
      PROVE  B[t] = f[y].qty + B[t \ {y}]
  <2>1. CASE y = x
    BY <2>1
  <2>2. CASE y # x /\ x \in t
    <3>1. A[(t \ {x}) \ {y}] = A[(t \ {y}) \ {x}]
      <4>1. (t \ {x}) \ {y} = (t \ {y}) \ {x}
        OBVIOUS
      <4>2. QED
        BY <4>1, Zenon
    <3>2. A[t \ {x}] = f[y].qty + A[(t \ {x}) \ {y}]
      BY <1>5, <2>2 DEF Additive
    <3>3. A[(t \ {x}) \ {y}] \in Int
      BY <1>5, <2>2 DEF Additive
    <3>4. f[x].qty \in Int /\ f[y].qty \in Int
      BY <1>2
    <3>5. B[t] = f[x].qty + A[t \ {x}] /\ B[t \ {y}] = f[x].qty + A[(t \ {y}) \ {x}]
      BY <2>2
    <3> HIDE DEF B
    <3>6. QED
      BY <3>1, <3>2, <3>3, <3>4, <3>5
  <2>3. CASE x \notin t
    BY <1>5, <2>3 DEF Additive
  <2>4. QED
    BY <2>1, <2>2, <2>3
<1>7. B \in [SUBSET s -> Int] /\ B[{}] = 0
  <2>1. ASSUME NEW t \in SUBSET s PROVE B[t] \in Int
    <3>1. A[t \ {x}] \in Int /\ (x \notin t => A[t] \in Int)
      BY <1>5 DEF Additive
    <3>2. f[x].qty \in Int
      BY <1>2
    <3>3. QED
      BY <3>1, <3>2
  <2>2. QED
    BY <2>1, <1>5 DEF Additive
<1>8. Additive(f, B, s)
  <2> HIDE DEF B
  <2>1. QED
    BY <1>6, <1>7 DEF Additive
<1>9. QED
  BY <1>8

\* The recursion the sum is defined by: it takes the elements in an order of
\* its own.
Unfolds(f, S, a) == a = [s \in SUBSET S |->
   IF s = {} THEN 0 ELSE f[CHOOSE x \in s : TRUE].qty + a[s \ {CHOOSE x \in s : TRUE}]]
Iter(f, S) == CHOOSE iter : Unfolds(f, S, iter)

\* The sum is what any such function says.
LEMMA SumIsAdditive ==
  ASSUME NEW f, NEW S, IsFiniteSet(S), NEW A, Additive(f, A, S)
  PROVE  SumOf(f, S) = A[S]
<1> DEFINE I == Iter(f, S)
<1>1. SumOf(f, S) = I[S]
  BY DEF SumOf, MapThenSumSet, MapThenFoldSet, Iter, Unfolds
<1>2. Unfolds(f, S, A)
  <2>1. ASSUME NEW s \in SUBSET S, s # {}
        PROVE  A[s] = f[CHOOSE x \in s : TRUE].qty + A[s \ {CHOOSE x \in s : TRUE}]
    BY <2>1 DEF Additive
  <2>2. QED
    BY <2>1 DEF Additive, Unfolds
<1>3. Unfolds(f, S, I)
  BY <1>2 DEF Iter
<1>4. I[{}] = 0 /\ \A s \in SUBSET S : s # {} => \E x \in s : I[s] = f[x].qty + I[s \ {x}]
  <2> HIDE DEF I
  <2>1. \A s \in SUBSET S : s # {} => I[s] = f[CHOOSE x \in s : TRUE].qty + I[s \ {CHOOSE x \in s : TRUE}]
    BY <1>3 DEF Unfolds
  <2>2. I[{}] = 0
    BY <1>3 DEF Unfolds
  <2>3. \A s \in SUBSET S : s # {} => (CHOOSE x \in s : TRUE) \in s
    OBVIOUS
  <2>4. QED
    BY <2>1, <2>2, <2>3
<1> HIDE DEF I
<1> DEFINE H == {s \in SUBSET S : I[s] # A[s]}
<1>5. ASSUME H # {} PROVE FALSE
  <2>1. PICK s \in H : \A t \in H : t \subseteq s => t = s
    <3>1. H \in SUBSET (SUBSET S)
      OBVIOUS
    <3> HIDE DEF H
    <3>2. QED
      BY <1>5, <3>1, Smallest
  <2>2. s # {}
    BY <1>4 DEF Additive
  <2>3. PICK x \in s : I[s] = f[x].qty + I[s \ {x}]
    BY <1>4, <2>2
  <2>4. I[s \ {x}] = A[s \ {x}]
    BY <2>1
  <2>5. QED
    BY <2>3, <2>4 DEF Additive
<1>6. QED
  BY <1>1, <1>5

\* One function adds up every part of a finite set.
LEMMA SumsAreAdditive ==
  ASSUME NEW f, NEW S, IsFiniteSet(S), \A x \in S : f[x].qty \in Int
  PROVE  \E A : Additive(f, A, S) /\ \A T \in SUBSET S : SumOf(f, T) = A[T]
<1>1. PICK A : Additive(f, A, S)
  BY AdditiveExists
<1>2. ASSUME NEW T \in SUBSET S PROVE SumOf(f, T) = A[T]
  <2> DEFINE B == [t \in SUBSET T |-> A[t]]
  <2>1. Additive(f, B, T)
    BY <1>1 DEF Additive
  <2>2. IsFiniteSet(T)
    BY FS_Subset
  <2>3. SumOf(f, T) = B[T]
    BY <2>1, <2>2, SumIsAdditive
  <2>4. QED
    BY <2>3
<1>3. QED
  BY <1>1, <1>2

\* Rows with the same quantities have the same sum.
LEMMA SumEqual ==
  ASSUME NEW f, NEW g, NEW S, IsFiniteSet(S), \A x \in S : f[x].qty \in Int /\ f[x].qty = g[x].qty
  PROVE  SumOf(f, S) = SumOf(g, S)
<1>1. PICK A : Additive(f, A, S)
  BY AdditiveExists
<1>2. Additive(g, A, S)
  BY <1>1 DEF Additive
<1>3. QED
  BY <1>1, <1>2, SumIsAdditive

LEMMA SumOfNone ==
  ASSUME NEW f
  PROVE  SumOf(f, {}) = 0
<1>1. IsFiniteSet({})
  BY FS_EmptySet
<1>2. Additive(f, [t \in SUBSET {} |-> 0], {})
  BY DEF Additive
<1>3. QED
  BY <1>1, <1>2, SumIsAdditive

\* A set is as much as a part of it and what remains.
LEMMA SumSplits ==
  ASSUME NEW f, NEW S, IsFiniteSet(S), NEW T \in SUBSET S, \A x \in S : f[x].qty \in Nat
  PROVE  /\ SumOf(f, S) \in Nat /\ SumOf(f, T) \in Nat /\ SumOf(f, S \ T) \in Nat
         /\ SumOf(f, S) = SumOf(f, T) + SumOf(f, S \ T)
<1>1. PICK A : Additive(f, A, S) /\ \A R \in SUBSET S : SumOf(f, R) = A[R]
  BY SumsAreAdditive
<1> DEFINE H == {t \in SUBSET S : ~ (A[t] \in Nat /\ A[S] = A[t] + A[S \ t])}
<1>2. ASSUME H # {} PROVE FALSE
  <2>1. PICK t \in H : \A r \in H : r \subseteq t => r = t
    <3>1. H \in SUBSET (SUBSET S)
      OBVIOUS
    <3> HIDE DEF H
    <3>2. QED
      BY <1>2, <3>1, Smallest
  <2>2. t # {}
    <3>1. A[{}] = 0 /\ A[S] \in Int
      BY <1>1 DEF Additive
    <3>2. S \ {} = S
      OBVIOUS
    <3>3. QED
      BY <3>1, <3>2
  <2>3. PICK x \in t : TRUE
    BY <2>2
  <2> DEFINE u == t \ {x}
  <2>4. A[u] \in Nat /\ A[S] = A[u] + A[S \ u]
    <3>1. u \in SUBSET S /\ u \subseteq t /\ u # t
      BY <2>1, <2>3
    <3>2. u \notin H
      BY <2>1, <3>1
    <3> HIDE DEF u
    <3>3. QED
      BY <3>1, <3>2
  <2>5. A[t] = f[x].qty + A[u]
    BY <1>1 DEF Additive
  <2>6. A[S \ u] = f[x].qty + A[S \ t]
    <3>1. (S \ u) \ {x} = S \ t /\ x \in S \ u /\ S \ u \in SUBSET S
      OBVIOUS
    <3>2. A[S \ u] = f[x].qty + A[(S \ u) \ {x}]
      BY <1>1, <3>1 DEF Additive
    <3>3. QED
      BY <3>1, <3>2
  <2>7. f[x].qty \in Nat /\ A[S \ t] \in Int
    BY <1>1 DEF Additive
  <2> HIDE DEF u
  <2>8. A[t] \in Nat /\ A[S] = A[t] + A[S \ t]
    BY <2>4, <2>5, <2>6, <2>7
  <2>9. QED
    BY <2>1, <2>8
<1>3. \A t \in SUBSET S : A[t] \in Nat /\ A[S] = A[t] + A[S \ t]
  BY <1>2
<1>4. QED
  BY <1>1, <1>3

\* One more row.
LEMMA SumOfOne ==
  ASSUME NEW f, NEW x, f[x].qty \in Nat
  PROVE  SumOf(f, {x}) = f[x].qty
<1>1. IsFiniteSet({x})
  BY FS_Singleton
<1>2. PICK A : Additive(f, A, {x}) /\ \A R \in SUBSET {x} : SumOf(f, R) = A[R]
  BY <1>1, SumsAreAdditive
<1>3. A[{x}] = f[x].qty + A[{x} \ {x}] /\ A[{x}] = SumOf(f, {x})
  BY <1>2 DEF Additive
<1>4. {x} \ {x} = {} /\ A[{}] = 0
  BY <1>2 DEF Additive
<1>5. QED
  BY <1>3, <1>4

\* The larger and the smaller of two.
LEMMA SmallerOfTwo ==
  ASSUME NEW a \in Int, NEW b \in Int
  PROVE  Min({a, b}) = (IF a <= b THEN a ELSE b)
<1>1. \E x \in {a, b} : \A y \in {a, b} : x =< y
  OBVIOUS
<1>2. Min({a, b}) \in {a, b} /\ \A y \in {a, b} : Min({a, b}) =< y
  BY <1>1 DEF Min
<1>3. QED
  BY <1>2

-----------------------------------------------------------------------------
(* The invariant                                                            *)

Transactions ==
  [at : {"free", "begun", "ready"}, op : Ops \cup {Nothing},
   qty : 0..MaxStock, key : Keys \cup {Nothing},
   wo : WorkOrders \cup {Nothing}, res : Reservations \cup {Nothing},
   seen : Int, after : Rows \cup {Nothing}, full : SUBSET Reservations, taken : Nat]

Histories == [oversold : BOOLEAN, torn : BOOLEAN, overwritten : BOOLEAN]

\* What an open request remembers of what it read.
Remembers(r) ==
  r.at # "free" =>
    /\ r.op = "consume" => r.qty <= r.seen
    /\ r.op \in {"consume", "override", "return"} => r.key \in Keys
    /\ r.op = "release" => r.res \in Reservations
    /\ r.op = "settings" /\ r.at = "ready" => r.after \in Rows

IInv ==
  /\ TypeOK
  /\ \A q \in Requests : Remembers(req[q])
  /\ NotOversold /\ ReservedAgrees

\* The open reservations among the rows f.
Open(f) == {r \in Reservations : f[r].status = "RESERVED"}

\* ReservedAgrees of a row, reservations and a history.
Settled(row, f, past) ==
  past.torn \/ past.overwritten \/ row.reserved = SumOf(f, Open(f))

LEMMA SettledAgrees ==
  /\ ReservedAgrees <=> Settled(stock, resv, history)
  /\ ReservedAgrees' <=> Settled(stock', resv', history')
BY DEF ReservedAgrees, Settled, Sum, SumOf, Open, MapThenSumSet, MapThenFoldSet

\* What a reservation row can be.
ResvRows == [status : {"NONE", "RESERVED", "CONSUMED", "RELEASED"},
             wo : WorkOrders \cup {Nothing}, qty : 0..MaxStock]

LEMMA Quantity == \A n \in 0..MaxStock : n \in Nat
BY BoundsAssumption

LEMMA OpenIsFinite ==
  ASSUME NEW R \in SUBSET Reservations
  PROVE  IsFiniteSet(R)
BY ReservationsAssumption, FS_Subset

\* What a set of reservations adds up to is a quantity.
LEMMA SumIsNat ==
  ASSUME NEW f \in [Reservations -> ResvRows], NEW R \in SUBSET Reservations
  PROVE  SumOf(f, R) \in Nat
<1>1. \A x \in R : f[x].qty \in Nat
  BY Quantity DEF ResvRows
<1>2. IsFiniteSet(R)
  BY OpenIsFinite
<1>3. QED
  BY <1>1, <1>2, SumSplits

-----------------------------------------------------------------------------
(* The steps that read                                                      *)

LEMMA FreeIsTyped == Free \in Transactions /\ Remembers(Free)
BY BoundsAssumption DEF Free, Transactions, Remembers

LEMMA RequestsTyped ==
  ASSUME IInv, NEW q \in Requests, NEW r \in Transactions, Remembers(r),
         req' = [req EXCEPT ![q] = r]
  PROVE  req' \in [Requests -> Transactions] /\ \A p \in Requests : Remembers(req'[p])
<1>1. req \in [Requests -> Transactions] /\ \A p \in Requests : Remembers(req[p])
  BY DEF IInv, TypeOK, Transactions
<1>2. QED
  BY <1>1

LEMMA ReadKeeps ==
  ASSUME IInv, NEW q \in Requests, NEW r \in Transactions, Remembers(r), Reads(q, r)
  PROVE  IInv'
<1>1. req' \in [Requests -> Transactions] /\ \A p \in Requests : Remembers(req'[p])
  BY RequestsTyped DEF Reads
<1>2. UNCHANGED <<stock, moves, balance, resv, consumed, history>>
  BY DEF Reads, table
<1>3. TypeOK'
  BY <1>1, <1>2 DEF IInv, TypeOK, Transactions
<1>4. (\A p \in Requests : Remembers(req[p]))'
  BY <1>1
<1>5. NotOversold'
  BY <1>2 DEF IInv, NotOversold
<1>6. ReservedAgrees'
  <2>1. Settled(stock, resv, history)
    BY SettledAgrees DEF IInv
  <2>2. Settled(stock', resv', history')
    BY <1>2, <2>1
  <2>3. QED
    BY <2>2, SettledAgrees
<1>7. QED
  BY <1>3, <1>4, <1>5, <1>6 DEF IInv

\* A request that has just begun is typed, whichever of its fields it fills.
LEMMA FreshIsTyped ==
  ASSUME NEW op \in Ops, NEW n \in 0..MaxStock
  PROVE  /\ Fresh(op, n) \in Transactions
         /\ Fresh(op, n).op = op /\ Fresh(op, n).qty = n /\ Fresh(op, n).at = After(op)
<1>1. After(op) \in {"begun", "ready"}
  BY DEF After
<1>2. Free \in Transactions
  BY FreeIsTyped
<1>3. Fresh(op, n) \in Transactions
  BY <1>1, <1>2 DEF Fresh, Transactions
<1>4. Fresh(op, n).op = op /\ Fresh(op, n).qty = n /\ Fresh(op, n).at = After(op)
  BY DEF Fresh, Free
<1>5. QED
  BY <1>3, <1>4

LEMMA BeginKeeps ==
  ASSUME IInv, NEW q \in Requests,
         BeginSupply(q) \/ BeginAdjust(q) \/ BeginReserve(q) \/ BeginConsumption(q) \/ BeginRelease(q)
  PROVE  IInv'
<1> USE DEF After
<1>1. stock.onHand \in Int /\ stock.incoming \in Int
  BY DEF IInv, TypeOK, Rows
<1>2. \A n \in Quantities : n \in 0..MaxStock
  BY BoundsAssumption DEF Quantities
<1>3. 0 \in 0..MaxStock
  BY BoundsAssumption
<1>4. CASE BeginSupply(q)
  <2>1. PICK op \in {"incoming", "receive"}, n \in Quantities :
          Reads(q, [Fresh(op, n) EXCEPT !.seen = IF op = "receive" THEN stock.incoming ELSE 0])
    BY <1>4 DEF BeginSupply
  <2> DEFINE r == [Fresh(op, n) EXCEPT !.seen = IF op = "receive" THEN stock.incoming ELSE 0]
  <2>2. r \in Transactions /\ r.op = op
    BY <1>1, <1>2, FreshIsTyped DEF Ops, Transactions
  <2>3. Remembers(r)
    BY <2>2 DEF Remembers
  <2>4. QED
    BY <2>1, <2>2, <2>3, ReadKeeps
<1>5. CASE BeginAdjust(q)
  <2>1. ASSUME NEW n \in 0..MaxStock, Reads(q, [Fresh("adjust", n) EXCEPT !.seen = stock.onHand])
        PROVE  IInv'
    <3> DEFINE r == [Fresh("adjust", n) EXCEPT !.seen = stock.onHand]
    <3>1. r \in Transactions /\ r.op = "adjust"
      BY <1>1, FreshIsTyped DEF Ops, Transactions
    <3>2. Remembers(r)
      BY <3>1 DEF Remembers
    <3>3. QED
      BY <2>1, <3>1, <3>2, ReadKeeps
  <2>2. ASSUME Reads(q, Fresh("settings", 0)) PROVE IInv'
    <3>1. Fresh("settings", 0) \in Transactions /\ Remembers(Fresh("settings", 0))
      BY <1>3, FreshIsTyped DEF Ops, Remembers
    <3>2. QED
      BY <2>2, <3>1, ReadKeeps
  <2>3. QED
    BY <1>5, <2>1, <2>2 DEF BeginAdjust
<1>6. CASE BeginReserve(q)
  <2>1. PICK w \in WorkOrders, n \in Quantities : Reads(q, [Fresh("reserve", n) EXCEPT !.wo = w])
    BY <1>6 DEF BeginReserve
  <2> DEFINE r == [Fresh("reserve", n) EXCEPT !.wo = w]
  <2>2. r \in Transactions /\ r.op = "reserve"
    BY <1>2, FreshIsTyped DEF Ops, Transactions
  <2>3. Remembers(r)
    BY <2>2 DEF Remembers
  <2>4. QED
    BY <2>1, <2>2, <2>3, ReadKeeps
<1>7. CASE BeginConsumption(q)
  <2>1. PICK op \in {"consume", "override", "return"}, n \in Quantities, k \in Keys, w \in WorkOrders :
          /\ Issuable(op, n)
          /\ Reads(q, [Fresh(op, n) EXCEPT !.key = k, !.wo = w,
                                           !.seen = IF op = "consume" THEN stock.onHand ELSE 0])
    BY <1>7 DEF BeginConsumption
  <2> DEFINE r == [Fresh(op, n) EXCEPT !.key = k, !.wo = w,
                                       !.seen = IF op = "consume" THEN stock.onHand ELSE 0]
  <2> DEFINE figure == IF op = "consume" THEN stock.onHand ELSE 0
  <2>2. /\ r \in Transactions /\ r.op = op /\ r.qty = n /\ r.key = k
        /\ r.seen = figure
    <3>1. op \in Ops /\ n \in 0..MaxStock /\ figure \in Int
      BY <1>1, <1>2 DEF Ops
    <3>2. Fresh(op, n) \in Transactions /\ Fresh(op, n).op = op /\ Fresh(op, n).qty = n
      BY <3>1, FreshIsTyped
    <3> HIDE DEF figure
    <3>3. r = [Fresh(op, n) EXCEPT !.key = k, !.wo = w, !.seen = figure]
      BY DEF figure
    <3> HIDE DEF r
    <3>4. QED
      BY <3>1, <3>2, <3>3 DEF Transactions
  <2>3. Remembers(r)
    <3> HIDE DEF r
    <3>1. QED
      BY <2>1, <2>2 DEF Remembers, Issuable
  <2>4. QED
    BY <2>1, <2>2, <2>3, ReadKeeps
<1>8. CASE BeginRelease(q)
  <2>1. PICK s \in Reservations : Reads(q, [Fresh("release", 0) EXCEPT !.res = s])
    BY <1>8 DEF BeginRelease
  <2> DEFINE r == [Fresh("release", 0) EXCEPT !.res = s]
  <2>2. r \in Transactions /\ r.op = "release" /\ r.res = s
    BY <1>3, FreshIsTyped DEF Ops, Transactions
  <2>3. Remembers(r)
    BY <2>2 DEF Remembers
  <2>4. QED
    BY <2>1, <2>2, <2>3, ReadKeeps
<1>9. QED
  BY <1>4, <1>5, <1>6, <1>7, <1>8

LEMMA CheckKeeps ==
  ASSUME IInv, NEW q \in Requests, CheckReserve(q) \/ CheckSettings(q) \/ CheckIssue(q)
  PROVE  IInv'
<1>1. req[q] \in Transactions /\ Remembers(req[q]) /\ stock \in Rows
  BY DEF IInv, TypeOK, Transactions
<1>2. CASE CheckReserve(q)
  <2> DEFINE r == [req[q] EXCEPT !.at = "ready"]
  <2>1. r \in Transactions /\ r.op = "reserve"
    BY <1>1, <1>2 DEF CheckReserve, Transactions
  <2>2. Remembers(r)
    BY <2>1 DEF Remembers
  <2>3. QED
    BY <1>2, <2>1, <2>2, ReadKeeps DEF CheckReserve
<1>3. CASE CheckSettings(q)
  <2> DEFINE r == [req[q] EXCEPT !.at = "ready", !.after = stock]
  <2>1. r \in Transactions /\ r.op = "settings" /\ r.after = stock
    BY <1>1, <1>3 DEF CheckSettings, Transactions
  <2>2. Remembers(r)
    BY <1>1, <2>1 DEF Remembers
  <2>3. QED
    BY <1>3, <2>1, <2>2, ReadKeeps DEF CheckSettings
<1>4. CASE CheckIssue(q)
  <2> DEFINE all == Full(req[q].wo, req[q].qty)
             part == Min({req[q].qty, Sum(Held(req[q].wo))})
             r == [req[q] EXCEPT !.at = "ready", !.full = all, !.taken = part]
  <2>1. Reads(q, r)
    BY <1>4 DEF CheckIssue
  <2>2. all \in SUBSET Reservations
    BY DEF Full, Held
  <2>3. part \in Nat
    <3>1. resv \in [Reservations -> ResvRows] /\ Held(req[q].wo) \in SUBSET Reservations
      BY DEF IInv, TypeOK, ResvRows, Held
    <3>2. SumOf(resv, Held(req[q].wo)) \in Nat
      BY <3>1, SumIsNat
    <3>3. Sum(Held(req[q].wo)) \in Nat
      BY <3>2 DEF Sum, SumOf
    <3>4. req[q].qty \in Nat
      BY <1>1, Quantity DEF Transactions
    <3>5. req[q].qty \in Int /\ Sum(Held(req[q].wo)) \in Int
      BY <3>3, <3>4
    <3>6. QED
      BY <3>3, <3>4, <3>5, SmallerOfTwo
  <2> HIDE DEF all, part
  <2>4. r \in Transactions
    BY <1>1, <2>2, <2>3 DEF Transactions
  <2>5. r.op = req[q].op /\ r.qty = req[q].qty /\ r.key = req[q].key /\ r.seen = req[q].seen
        /\ r.op \in {"consume", "override"} /\ req[q].at # "free"
    BY <1>1, <1>4 DEF Transactions, CheckIssue
  <2> HIDE DEF r
  <2>6. Remembers(r)
    BY <1>1, <2>5 DEF Remembers
  <2>7. QED
    BY <2>1, <2>4, <2>6, ReadKeeps
<1>5. QED
  BY <1>2, <1>3, <1>4

-----------------------------------------------------------------------------
(* The steps that commit                                                    *)

\* A movement adds to the row what it finds there.
LEMMA MovementMoves ==
  ASSUME IInv, NEW on \in Int, NEW res \in Int, NEW inc \in Int, ApplyMovement(on, res, inc)
  PROVE  /\ stock' \in Rows /\ moves' \in 0..MaxMoves /\ balance' \in Int
         /\ stock'.onHand = stock.onHand + on /\ stock'.reserved = stock.reserved + res
<1>1. /\ stock.onHand \in Int /\ stock.reserved \in Int /\ stock.incoming \in Int
      /\ moves \in 0..MaxMoves
  BY DEF IInv, TypeOK, Rows
<1>2. stock' \in Rows /\ balance' \in Int
  BY <1>1 DEF ApplyMovement, Rows
<1>3. moves' \in 0..MaxMoves
  BY <1>1, BoundsAssumption DEF ApplyMovement
<1>4. stock'.onHand = stock.onHand + on /\ stock'.reserved = stock.reserved + res
  BY DEF ApplyMovement
<1>5. QED
  BY <1>2, <1>3, <1>4

\* A commit keeps the invariant if what it takes off the stock is there and
\* what it takes off the reserved quantity was reserved, or if it says that
\* they were not.
LEMMA CommitKeeps ==
  ASSUME IInv, NEW q \in Requests, NEW on \in Int, NEW res \in Int, NEW inc \in Int,
         ApplyMovement(on, res, inc), Ends(q),
         resv' \in [Reservations -> ResvRows], consumed' \subseteq Keys,
         history' \in Histories,
         history'.overwritten = history.overwritten,
         history.oversold => history'.oversold,
         history.torn => history'.torn,
         on < 0 => history'.oversold \/ stock.onHand + on >= 0,
         history'.torn \/ SumOf(resv', Open(resv')) = SumOf(resv, Open(resv)) + res
  PROVE  IInv'
<1>1. /\ stock' \in Rows /\ moves' \in 0..MaxMoves /\ balance' \in Int
      /\ stock'.onHand = stock.onHand + on /\ stock'.reserved = stock.reserved + res
  BY MovementMoves
<1>2. req' \in [Requests -> Transactions] /\ \A p \in Requests : Remembers(req'[p])
  BY RequestsTyped, FreeIsTyped DEF Ends
<1>3. stock.onHand \in Int /\ stock.reserved \in Int /\ NotOversold
  BY DEF IInv, TypeOK, Rows
<1>4. TypeOK'
  BY <1>1, <1>2 DEF TypeOK, Transactions, ResvRows, Histories
<1>5. (\A p \in Requests : Remembers(req[p]))'
  BY <1>2
<1>6. NotOversold'
  BY <1>1, <1>3 DEF NotOversold
<1>7. Settled(stock, resv, history)
  BY SettledAgrees DEF IInv
<1>8. Settled(stock', resv', history')
  BY <1>1, <1>7 DEF Settled
<1>9. QED
  BY <1>4, <1>5, <1>6, <1>8, SettledAgrees DEF IInv

\* What a commit finds.
LEMMA CommitFinds ==
  ASSUME IInv, NEW q \in Requests
  PROVE  /\ req[q] \in Transactions /\ Remembers(req[q])
         /\ req[q].qty \in Nat /\ req[q].seen \in Int /\ req[q].taken \in Nat
         /\ stock.onHand \in Int /\ history \in Histories
         /\ resv \in [Reservations -> ResvRows] /\ consumed \subseteq Keys
         /\ SumOf(resv, Open(resv)) \in Nat
<1>1. req[q] \in Transactions /\ Remembers(req[q]) /\ history \in Histories
  BY DEF IInv, TypeOK, Transactions, Histories
<1>2. req[q].qty \in Nat /\ req[q].seen \in Int /\ req[q].taken \in Nat
  BY <1>1, Quantity DEF Transactions
<1>3. resv \in [Reservations -> ResvRows] /\ consumed \subseteq Keys /\ stock.onHand \in Int
  BY DEF IInv, TypeOK, ResvRows, Rows
<1>4. SumOf(resv, Open(resv)) \in Nat
  BY <1>3, SumIsNat DEF Open
<1>5. QED
  BY <1>1, <1>2, <1>3, <1>4

LEMMA SupplyKeeps ==
  ASSUME IInv, NEW q \in Requests, CommitSupply(q)
  PROVE  IInv'
<1>1. /\ req[q].qty \in Nat /\ req[q].seen \in Int /\ stock.onHand \in Int /\ history \in Histories
      /\ resv \in [Reservations -> ResvRows] /\ consumed \subseteq Keys
      /\ SumOf(resv, Open(resv)) \in Nat
  BY CommitFinds
<1>2. Ends(q) /\ UNCHANGED <<resv, consumed, history>>
  BY DEF CommitSupply
<1>3. ASSUME NEW on \in Nat, NEW inc \in Int, ApplyMovement(on, 0, inc) PROVE IInv'
  BY <1>1, <1>2, <1>3, CommitKeeps
<1>4. CASE ApplyMovement(0, 0, req[q].qty)
  BY <1>1, <1>3, <1>4
<1>5. CASE ApplyMovement(req[q].qty, 0, -Min({req[q].qty, req[q].seen}))
  <2> DEFINE least == Min({req[q].qty, req[q].seen})
  <2>1. req[q].qty \in Int
    BY <1>1
  <2>2. least \in Int
    BY <1>1, <2>1, SmallerOfTwo
  <2> HIDE DEF least
  <2>3. ApplyMovement(req[q].qty, 0, -least)
    BY <1>5 DEF least
  <2>4. -least \in Int
    BY <2>2
  <2>5. QED
    BY <1>1, <1>3, <2>3, <2>4
<1>6. QED
  BY <1>4, <1>5 DEF CommitSupply

LEMMA AdjustKeeps ==
  ASSUME IInv, NEW q \in Requests, CommitAdjust(q)
  PROVE  IInv'
<1>1. /\ req[q].qty \in Nat /\ req[q].seen \in Int /\ stock.onHand \in Int /\ history \in Histories
      /\ resv \in [Reservations -> ResvRows] /\ consumed \subseteq Keys
      /\ SumOf(resv, Open(resv)) \in Nat
  BY CommitFinds
<1> DEFINE on == req[q].qty - req[q].seen
<1>2. /\ history' \in Histories /\ history'.overwritten = history.overwritten
      /\ history.torn => history'.torn
      /\ history.oversold \/ stock.onHand # req[q].seen => history'.oversold
  BY <1>1 DEF CommitAdjust, Histories
<1>3. ApplyMovement(on, 0, 0) /\ Ends(q) /\ UNCHANGED <<resv, consumed>>
  BY DEF CommitAdjust
<1>4. on \in Int /\ (history'.oversold \/ stock.onHand + on >= 0)
  <2>1. ~history'.oversold => stock.onHand = req[q].seen
    BY <1>2
  <2>2. QED
    BY <1>1, <2>1
<1> HIDE DEF on
<1>5. /\ SumOf(resv', Open(resv')) = SumOf(resv, Open(resv)) + 0
      /\ resv' \in [Reservations -> ResvRows] /\ consumed' \subseteq Keys
      /\ (history.oversold => history'.oversold) /\ (history.torn => history'.torn)
  BY <1>1, <1>2, <1>3
<1>6. QED
  BY <1>2, <1>3, <1>4, <1>5, CommitKeeps

LEMMA SettingsKeep ==
  ASSUME IInv, NEW q \in Requests, CommitSettings(q)
  PROVE  IInv'
<1>1. history \in Histories /\ Remembers(req[q])
  BY CommitFinds
<1>2. stock' \in Rows /\ stock' = req[q].after
  BY <1>1 DEF CommitSettings, Ready, Remembers
<1>3. /\ history' \in Histories /\ history'.oversold = history.oversold
      /\ history'.torn = history.torn
      /\ history'.overwritten = (history.overwritten \/ stock # req[q].after)
  BY <1>1 DEF CommitSettings, Histories
<1>4. req' \in [Requests -> Transactions] /\ \A p \in Requests : Remembers(req'[p])
  BY RequestsTyped, FreeIsTyped DEF CommitSettings, Ends
<1>5. UNCHANGED <<moves, balance, resv, consumed>>
  BY DEF CommitSettings
<1>6. ~history'.overwritten => stock' = stock /\ ~history.overwritten
  BY <1>2, <1>3
<1>7. TypeOK'
  BY <1>2, <1>3, <1>4, <1>5 DEF IInv, TypeOK, Transactions, Histories
<1>8. (\A p \in Requests : Remembers(req[p]))'
  BY <1>4
<1>9. NotOversold'
  BY <1>3, <1>6 DEF IInv, NotOversold
<1>10. Settled(stock, resv, history)
  BY SettledAgrees DEF IInv
<1>11. Settled(stock', resv', history')
  BY <1>3, <1>5, <1>6, <1>10 DEF Settled
<1>12. QED
  BY <1>7, <1>8, <1>9, <1>11, SettledAgrees DEF IInv

\* What is reserved grows by the new row.
LEMMA ReserveKeeps ==
  ASSUME IInv, NEW q \in Requests, CommitReserve(q)
  PROVE  IInv'
<1>1. /\ req[q] \in Transactions /\ req[q].qty \in Nat /\ history \in Histories
      /\ resv \in [Reservations -> ResvRows] /\ consumed \subseteq Keys
      /\ SumOf(resv, Open(resv)) \in Nat
  BY CommitFinds
<1>2. PICK r \in Reservations :
        /\ resv[r] = NoResv
        /\ resv' = [resv EXCEPT ![r] = [status |-> "RESERVED", wo |-> req[q].wo, qty |-> req[q].qty]]
  BY DEF CommitReserve
<1>3. ApplyMovement(0, req[q].qty, 0) /\ Ends(q) /\ UNCHANGED <<consumed, history>>
  BY DEF CommitReserve
<1> DEFINE new == [status |-> "RESERVED", wo |-> req[q].wo, qty |-> req[q].qty]
<1>4. new \in ResvRows
  BY <1>1 DEF ResvRows, Transactions
<1>5. resv' \in [Reservations -> ResvRows]
  BY <1>1, <1>2, <1>4
<1>6. Open(resv') = Open(resv) \cup {r} /\ r \notin Open(resv) /\ resv'[r].qty = req[q].qty
  BY <1>1, <1>2 DEF Open, NoResv
<1>7. SumOf(resv', Open(resv)) = SumOf(resv, Open(resv))
  <2>1. \A x \in Open(resv) : resv[x].qty \in Int /\ resv[x].qty = resv'[x].qty
    BY <1>1, <1>2, <1>6, Quantity DEF Open, ResvRows
  <2>2. IsFiniteSet(Open(resv))
    BY OpenIsFinite DEF Open
  <2>3. QED
    BY <2>1, <2>2, SumEqual
<1>8. SumOf(resv', Open(resv')) = SumOf(resv', Open(resv)) + SumOf(resv', {r})
  <2>1. \A x \in Open(resv') : resv'[x].qty \in Nat
    BY <1>5, Quantity DEF Open, ResvRows
  <2>2. IsFiniteSet(Open(resv'))
    BY OpenIsFinite DEF Open
  <2>3. Open(resv) \in SUBSET Open(resv') /\ Open(resv') \ Open(resv) = {r}
    BY <1>6
  <2>4. QED
    BY <2>1, <2>2, <2>3, SumSplits
<1>9. SumOf(resv', {r}) = req[q].qty
  BY <1>1, <1>6, SumOfOne
<1>10. SumOf(resv', Open(resv')) = SumOf(resv, Open(resv)) + req[q].qty
  BY <1>7, <1>8, <1>9
<1>11. req[q].qty \in Int
  BY <1>1
<1>12. QED
  BY <1>1, <1>3, <1>5, <1>10, <1>11, CommitKeeps

\* It shrinks by a part of the open rows that is no longer open.
LEMMA ReservedShrinks ==
  ASSUME NEW f \in [Reservations -> ResvRows], NEW g \in [Reservations -> ResvRows],
         NEW R \in SUBSET Open(f),
         \A x \in Reservations : g[x].qty = f[x].qty,
         Open(g) = Open(f) \ R
  PROVE  SumOf(g, Open(g)) = SumOf(f, Open(f)) + -SumOf(f, R)
<1>1. \A x \in Open(f) : f[x].qty \in Nat
  BY Quantity DEF Open, ResvRows
<1>2. IsFiniteSet(Open(f)) /\ IsFiniteSet(Open(g))
  BY OpenIsFinite DEF Open
<1>3. /\ SumOf(f, Open(f)) \in Nat /\ SumOf(f, R) \in Nat /\ SumOf(f, Open(f) \ R) \in Nat
      /\ SumOf(f, Open(f)) = SumOf(f, R) + SumOf(f, Open(f) \ R)
  <2> DEFINE S == Open(f)
  <2>1. IsFiniteSet(S) /\ R \in SUBSET S /\ \A x \in S : f[x].qty \in Nat
    BY <1>1, <1>2
  <2> HIDE DEF S
  <2>2. SumOf(f, S) \in Nat /\ SumOf(f, R) \in Nat
    BY <2>1, SumSplits
  <2>3. SumOf(f, S \ R) \in Nat
    BY <2>1, SumSplits
  <2>4. SumOf(f, S) = SumOf(f, R) + SumOf(f, S \ R)
    BY <2>1, SumSplits
  <2>5. QED
    BY <2>2, <2>3, <2>4 DEF S
<1>4. \A x \in Open(g) : f[x].qty \in Int /\ f[x].qty = g[x].qty
  BY <1>1 DEF Open
<1>5. SumOf(f, Open(g)) = SumOf(g, Open(g))
  BY <1>2, <1>4, SumEqual
<1>6. QED
  BY <1>3, <1>5

LEMMA ReleaseKeeps ==
  ASSUME IInv, NEW q \in Requests, CommitRelease(q)
  PROVE  IInv'
<1>1. /\ Remembers(req[q]) /\ history \in Histories
      /\ resv \in [Reservations -> ResvRows] /\ consumed \subseteq Keys
  BY CommitFinds
<1>2. PICK r \in Reservations : r = req[q].res
  BY <1>1 DEF CommitRelease, Ready, Remembers
<1>3. /\ resv' = [resv EXCEPT ![r].status = "RELEASED"]
      /\ ApplyMovement(0, -resv[r].qty, 0) /\ Ends(q) /\ UNCHANGED consumed
  BY <1>2 DEF CommitRelease
<1>4. /\ history' \in Histories /\ history'.overwritten = history.overwritten
      /\ history.oversold => history'.oversold
      /\ history.torn \/ resv[r].status # "RESERVED" => history'.torn
  BY <1>1, <1>2 DEF CommitRelease, Histories
<1>5. resv' \in [Reservations -> ResvRows]
  BY <1>1, <1>3 DEF ResvRows
<1>6. resv[r].qty \in Nat
  BY <1>1, Quantity DEF ResvRows
<1>7. ASSUME ~history'.torn
      PROVE  SumOf(resv', Open(resv')) = SumOf(resv, Open(resv)) + -resv[r].qty
  <2>1. r \in Open(resv)
    BY <1>4, <1>7 DEF Open
  <2>2. \A x \in Reservations : resv'[x].qty = resv[x].qty
    BY <1>1, <1>3 DEF ResvRows
  <2>3. Open(resv') = Open(resv) \ {r}
    BY <1>1, <1>3 DEF Open, ResvRows
  <2>4. {r} \in SUBSET Open(resv)
    BY <2>1
  <2>5. SumOf(resv', Open(resv')) = SumOf(resv, Open(resv)) + -SumOf(resv, {r})
    BY <1>1, <1>5, <2>2, <2>3, <2>4, ReservedShrinks
  <2>6. SumOf(resv, {r}) = resv[r].qty
    BY <1>6, SumOfOne
  <2>7. QED
    BY <2>5, <2>6
<1> DEFINE back == -resv[r].qty
<1>8. back \in Int
  BY <1>6
<1>9. consumed' \subseteq Keys /\ (history.torn => history'.torn)
  BY <1>1, <1>3, <1>4
<1>10. ApplyMovement(0, back, 0) /\ Ends(q)
  BY <1>3
<1>11. history'.torn \/ SumOf(resv', Open(resv')) = SumOf(resv, Open(resv)) + back
  BY <1>7
<1> HIDE DEF back
<1>12. QED
  BY <1>4, <1>5, <1>8, <1>9, <1>10, <1>11, CommitKeeps

LEMMA IssueKeeps ==
  ASSUME IInv, NEW q \in Requests, CommitIssue(q)
  PROVE  IInv'
<1>1. /\ req[q] \in Transactions /\ Remembers(req[q]) /\ req[q].qty \in Nat
      /\ req[q].seen \in Int /\ req[q].taken \in Nat
      /\ stock.onHand \in Int /\ history \in Histories
      /\ resv \in [Reservations -> ResvRows] /\ consumed \subseteq Keys
  BY CommitFinds
<1>2. req[q].at = "ready" /\ req[q].op \in {"consume", "override"}
  BY DEF CommitIssue, Ready
<1> DEFINE torn == \/ history.torn \/ req[q].taken # Sum(req[q].full)
                   \/ \E r \in req[q].full : resv[r].status # "RESERVED"
           over == history.oversold \/ req[q].op = "override" \/ stock.onHand # req[q].seen
           used == -req[q].taken
           on == -req[q].qty
<1>3. ApplyMovement(on, used, 0) /\ Ends(q)
  BY DEF CommitIssue
<1>4. consumed' \subseteq Keys
  BY <1>1, <1>2 DEF CommitIssue, Remembers
<1>5. resv' = [r \in Reservations |->
                 IF r \in req[q].full THEN [resv[r] EXCEPT !.status = "CONSUMED"] ELSE resv[r]]
  BY DEF CommitIssue
<1>6. resv' \in [Reservations -> ResvRows] /\ \A r \in Reservations : resv'[r].qty = resv[r].qty
  BY <1>1, <1>5 DEF ResvRows
<1>7. history' = [history EXCEPT !.oversold = over, !.torn = torn]
  BY DEF CommitIssue
<1>8. over \in BOOLEAN /\ torn \in BOOLEAN /\ (history.oversold => over) /\ (history.torn => torn)
  OBVIOUS
<1>9. ~torn => req[q].taken = Sum(req[q].full) /\ \A r \in req[q].full : resv[r].status = "RESERVED"
  OBVIOUS
<1>10. ~over => req[q].op = "consume" /\ stock.onHand = req[q].seen
  BY <1>2
<1> HIDE DEF torn, over
<1>11. /\ history' \in Histories /\ history'.overwritten = history.overwritten
       /\ history'.oversold = over /\ history'.torn = torn
  BY <1>1, <1>7, <1>8 DEF Histories
<1>12. on \in Int /\ used \in Int /\ (~over => stock.onHand + on >= 0)
  BY <1>1, <1>2, <1>10 DEF Remembers
<1>13. ASSUME ~torn
       PROVE  SumOf(resv', Open(resv')) = SumOf(resv, Open(resv)) + used
  <2>1. req[q].taken = SumOf(resv, req[q].full)
    BY <1>9, <1>13 DEF Sum, SumOf
  <2>2. req[q].full \in SUBSET Open(resv)
    BY <1>1, <1>9, <1>13 DEF Open, Transactions
  <2>3. Open(resv') = Open(resv) \ req[q].full
    BY <1>1, <1>5 DEF Open, ResvRows
  <2>4. SumOf(resv', Open(resv')) = SumOf(resv, Open(resv)) + -SumOf(resv, req[q].full)
    BY <1>1, <1>6, <2>2, <2>3, ReservedShrinks
  <2>5. QED
    BY <2>1, <2>4
<1> HIDE DEF on, used
<1>14. QED
  BY <1>3, <1>4, <1>6, <1>8, <1>11, <1>12, <1>13, CommitKeeps

LEMMA ReturnKeeps ==
  ASSUME IInv, NEW q \in Requests, CommitReturn(q)
  PROVE  IInv'
<1>1. /\ Remembers(req[q]) /\ req[q].qty \in Nat /\ stock.onHand \in Int /\ history \in Histories
      /\ resv \in [Reservations -> ResvRows] /\ consumed \subseteq Keys
      /\ SumOf(resv, Open(resv)) \in Nat
  BY CommitFinds
<1>2. ApplyMovement(req[q].qty, 0, 0) /\ Ends(q) /\ UNCHANGED <<resv, history>>
  BY DEF CommitReturn
<1>3. consumed' \subseteq Keys
  BY <1>1 DEF CommitReturn, Ready, Remembers
<1>4. req[q].qty \in Int /\ ~(req[q].qty < 0)
  BY <1>1
<1>5. SumOf(resv', Open(resv')) = SumOf(resv, Open(resv)) + 0
  BY <1>1, <1>2
<1>6. QED
  BY <1>1, <1>2, <1>3, <1>4, <1>5, CommitKeeps

LEMMA RollbackKeeps ==
  ASSUME IInv, NEW q \in Requests, Rollback(q)
  PROVE  IInv'
BY ReadKeeps, FreeIsTyped DEF Rollback, Ends, Reads

-----------------------------------------------------------------------------
(* The theorems                                                             *)

LEMMA InitEstablishes == Init => IInv
<1> SUFFICES ASSUME Init PROVE IInv
  OBVIOUS
<1>1. PICK n \in 0..MaxStock :
        stock = [onHand |-> n, reserved |-> 0, incoming |-> 0] /\ balance = n
  BY DEF Init
<1>2. n \in Nat
  BY Quantity
<1>3. req = [q \in Requests |-> Free] /\ \A q \in Requests : Remembers(req[q])
  BY FreeIsTyped DEF Init
<1>4. req \in [Requests -> Transactions]
  BY <1>3, FreeIsTyped
<1>5. stock \in Rows /\ balance \in Int /\ moves \in 0..MaxMoves /\ consumed \subseteq Keys /\ history \in Histories
  BY <1>1, <1>2, BoundsAssumption DEF Init, Rows, Histories
<1>6. resv \in [Reservations -> ResvRows]
  BY BoundsAssumption DEF Init, NoResv, ResvRows
<1>7. TypeOK
  BY <1>4, <1>5, <1>6 DEF TypeOK, Transactions, ResvRows, Histories
<1>8. NotOversold
  BY <1>1, <1>2 DEF NotOversold
<1>9. Open(resv) = {}
  BY DEF Init, NoResv, Open
<1>10. Settled(stock, resv, history)
  BY <1>1, <1>9, SumOfNone DEF Settled
<1>11. QED
  BY <1>3, <1>7, <1>8, <1>10, SettledAgrees DEF IInv

LEMMA StutterKeeps == IInv /\ UNCHANGED vars => IInv'
<1> SUFFICES ASSUME IInv, UNCHANGED vars PROVE IInv'
  OBVIOUS
<1>1. UNCHANGED <<stock, moves, balance, resv, consumed, req, history>>
  BY DEF vars
<1>2. Settled(stock', resv', history')
  BY <1>1, SettledAgrees DEF IInv
<1>3. TypeOK' /\ (\A q \in Requests : Remembers(req[q]))'
  BY <1>1 DEF IInv, TypeOK
<1>4. NotOversold'
  BY <1>1 DEF IInv, NotOversold
<1>5. QED
  BY <1>2, <1>3, <1>4, SettledAgrees DEF IInv

\* The invariant the others rest on: the types, what a request remembers of
\* what it read, and the two properties.
THEOREM StockInvariant == Spec => []IInv
<1>1. IInv /\ [Next]_vars => IInv'
  BY StutterKeeps, BeginKeeps, CheckKeeps, SupplyKeeps, AdjustKeeps, SettingsKeep, ReserveKeeps,
     ReleaseKeeps, IssueKeeps, ReturnKeeps, RollbackKeeps DEF Next
<1>2. QED
  BY InitEstablishes, <1>1, PTL DEF Spec

\* The row, the ledger, the reservations and the open requests are well typed.
THEOREM TypeCorrect == Spec => []TypeOK
<1>1. IInv => TypeOK
  BY DEF IInv
<1>2. QED
  BY StockInvariant, <1>1, PTL

\* A stock below zero is always the work of an override, of a commit on a
\* figure that had changed, or of settings that overwrote a movement.
THEOREM StockIsThere == Spec => []NotOversold
<1>1. IInv => NotOversold
  BY DEF IInv
<1>2. QED
  BY StockInvariant, <1>1, PTL

\* What the row says is reserved is the sum of the open reservations, unless
\* one was used in part, settled twice at a time, or settings overwrote it.
THEOREM ReservationsAddUp == Spec => []ReservedAgrees
<1>1. IInv => ReservedAgrees
  BY DEF IInv
<1>2. QED
  BY StockInvariant, <1>1, PTL
=============================================================================
