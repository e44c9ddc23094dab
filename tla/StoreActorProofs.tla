-------------------------- MODULE StoreActorProofs ---------------------------
(***************************************************************************)
(* The store actor keeps its types and never holds more than was put on    *)
(* sale, for any stores, products, quantities and sequence of messages.    *)
(* The two are inductive only together: selling a batch subtracts from the *)
(* supply, which stays a natural number because the batch is covered by    *)
(* the stock and the stock by the supply.                                  *)
(*                                                                         *)
(* What is in stock and what is held for purchases is accounted for with   *)
(* sums over finite sets; what is known of such sums is proved first.      *)
(***************************************************************************)
EXTENDS StoreActor, FiniteSetTheorems, TLAPS

\* The inductive invariant, in two parts: a handler that changes transactions
\* and peers, and one that changes stock and supply, disturb one part each.
TypesOfRecords ==
  /\ DOMAIN txs = Node
  /\ \A n \in Node : /\ DOMAIN txs[n] \subseteq TxId
                     /\ \A id \in DOMAIN txs[n] : IsTransaction(txs[n][id])
  /\ DOMAIN peers = Node
  /\ \A n \in Node : /\ DOMAIN peers[n] \subseteq Node \ {n}
                     /\ \A m \in DOMAIN peers[n] : IsStoreInformation(peers[n][m])
  /\ alive \in [Node -> BOOLEAN]

TypesOfUnits ==
  /\ DOMAIN stock = Node /\ \A n \in Node : IsStock(stock[n])
  /\ supply \in [Node -> [Product -> Nat]]
  /\ StockWithinSupply

StoreInv == TypesOfRecords /\ TypesOfUnits

LEMMA InvariantImplies == StoreInv => StoreTypeOK /\ StockWithinSupply
  BY DEF StoreInv, StoreTypeOK, TypesOfRecords, TypesOfUnits

-----------------------------------------------------------------------------
\* Sums over finite sets.

\* Of a non-empty set of subsets of S, one has no proper subset in it.  What
\* follows is proved by taking a smallest counterexample: the provers cannot
\* instantiate an induction theorem.
LEMMA Smallest ==
  ASSUME NEW S, IsFiniteSet(S), NEW F, F \subseteq SUBSET S, F # {}
  PROVE  \E s \in F : \A t \in F : t \subseteq s => t = s
<1>1. F \subseteq FiniteSubsetsOf(S)
  BY FS_FiniteSubsetsOfFinite
<1>2. \E s \in F : \A t \in F : <<t, s>> \notin StrictSubsetOrdering(S)
  BY <1>1, FS_StrictSubsetOrderingWellFounded, WFMin
<1>3. QED
  BY <1>2 DEF StrictSubsetOrdering

First(s) == CHOOSE x \in s : TRUE

\* g[t] is the sum of f over t, for every subset t of s.
Adds(f, s, g) ==
  g = [t \in SUBSET s |-> IF t = {} THEN 0 ELSE f[First(t)] + g[t \ {First(t)}]]

LEMMA SumIs ==
  ASSUME NEW f, NEW s
  PROVE  SumFunctionOnSet(f, s) = (CHOOSE g : Adds(f, s, g))[s]
  BY DEF Adds, First, SumFunctionOnSet, FoldFunctionOnSet, MapThenFoldSet

LEMMA AddsOnce ==
  ASSUME NEW S, IsFiniteSet(S), NEW f, NEW s \in SUBSET S, NEW t \in SUBSET s,
         NEW g, Adds(f, s, g), NEW h, Adds(f, t, h)
  PROVE  h[t] = g[t]
<1> DEFINE F == {u \in SUBSET t : h[u] # g[u]}
<1>0. F \subseteq SUBSET S
  OBVIOUS
<1> HIDE DEF F
<1>1. CASE F = {}
  BY <1>1 DEF F
<1>2. CASE F # {}
  <2>1. PICK u \in F : \A v \in F : v \subseteq u => v = u
    BY <1>0, <1>2, Smallest
  <2> USE DEF F
  <2>2. CASE u = {}
    BY <2>2 DEF Adds
  <2>3. CASE u # {}
    <3>1. First(u) \in u
      BY <2>3 DEF First
    <3>2. u \ {First(u)} \in SUBSET t /\ u \ {First(u)} \notin F
      BY <2>1, <3>1
    <3>3. h[u \ {First(u)}] = g[u \ {First(u)}]
      BY <3>2
    <3>4. h[u] = f[First(u)] + h[u \ {First(u)}] /\ g[u] = f[First(u)] + g[u \ {First(u)}]
      BY <2>3 DEF Adds
    <3>5. QED
      BY <3>3, <3>4
  <2>4. QED
    BY <2>2, <2>3
<1>3. QED
  BY <1>1, <1>2

LEMMA AddsExists ==
  ASSUME NEW S, IsFiniteSet(S), NEW f
  PROVE  \E g : Adds(f, S, g)
<1> DEFINE F == {s \in SUBSET S : ~\E g : Adds(f, s, g)}
<1>0. F \subseteq SUBSET S
  OBVIOUS
<1> HIDE DEF F
<1>1. CASE F = {}
  BY <1>1 DEF F
<1>2. CASE F # {}
  <2>1. PICK s \in F : \A t \in F : t \subseteq s => t = s
    BY <1>0, <1>2, Smallest
  <2> USE DEF F
  <2> DEFINE of(t) == CHOOSE g : Adds(f, t, g)
             sum == [t \in SUBSET s |->
                       IF t = s THEN IF s = {} THEN 0 ELSE f[First(s)] + of(s \ {First(s)})[s \ {First(s)}]
                       ELSE of(t)[t]]
  <2>2. ASSUME NEW t \in SUBSET s, t # s
        PROVE  Adds(f, t, of(t))
    <3>1. t \notin F
      BY <2>1, <2>2
    <3>2. QED
      BY <3>1
  <2>3. ASSUME NEW t \in SUBSET s
        PROVE  sum[t] = IF t = {} THEN 0 ELSE f[First(t)] + sum[t \ {First(t)}]
    <3>1. CASE t = s
      <4>1. CASE s = {}
        BY <3>1, <4>1
      <4>2. CASE s # {}
        <5>1. First(s) \in s
          BY <4>2 DEF First
        <5>2. sum[s \ {First(s)}] = of(s \ {First(s)})[s \ {First(s)}]
          BY <5>1
        <5>3. QED
          BY <3>1, <4>2, <5>2
      <4>3. QED
        BY <4>1, <4>2
    <3>2. CASE t # s
      <4>1. Adds(f, t, of(t)) /\ sum[t] = of(t)[t]
        BY <3>2, <2>2
      <4> HIDE DEF of
      <4>2. CASE t = {}
        BY <4>1, <4>2 DEF Adds
      <4>3. CASE t # {}
        <5> DEFINE u == t \ {First(t)}
        <5>1. First(t) \in t
          BY <4>3 DEF First
        <5>2. u \in SUBSET s /\ u # s /\ u \in SUBSET t
          BY <5>1
        <5>3. Adds(f, u, of(u)) /\ sum[u] = of(u)[u]
          BY <5>2, <2>2
        <5>4. of(u)[u] = of(t)[u]
          <6>1. t \in SUBSET S
            OBVIOUS
          <6>2. QED
            BY <4>1, <5>2, <5>3, <6>1, AddsOnce
        <5>5. of(t)[t] = f[First(t)] + of(t)[u]
          BY <4>1, <4>3 DEF Adds
        <5>6. QED
          BY <4>1, <4>3, <5>3, <5>4, <5>5
      <4>4. QED
        BY <4>2, <4>3
    <3>3. QED
      BY <3>1, <3>2
  <2>4. sum = [t \in SUBSET s |-> sum[t]]
    OBVIOUS
  <2> HIDE DEF sum
  <2>5. Adds(f, s, sum)
    BY <2>3, <2>4 DEF Adds
  <2>6. QED
    BY <2>5
<1>3. QED
  BY <1>1, <1>2

\* A sum over nothing is 0, and otherwise that of an element and the rest.
LEMMA SumUnfolds ==
  ASSUME NEW f, NEW s, IsFiniteSet(s)
  PROVE  SumFunctionOnSet(f, s) =
           IF s = {} THEN 0 ELSE f[First(s)] + SumFunctionOnSet(f, s \ {First(s)})
<1> DEFINE of(t) == CHOOSE g : Adds(f, t, g)
           t == s \ {First(s)}
<1>1. Adds(f, s, of(s))
  BY AddsExists
<1>2. IsFiniteSet(t)
  BY FS_RemoveElement
<1>3. Adds(f, t, of(t))
  BY <1>2, AddsExists
<1>4. SumFunctionOnSet(f, s) = of(s)[s] /\ SumFunctionOnSet(f, t) = of(t)[t]
  BY SumIs
<1> HIDE DEF of
<1>5. of(t)[t] = of(s)[t]
  BY <1>1, <1>3, AddsOnce
<1>6. QED
  BY <1>1, <1>4, <1>5 DEF Adds

LEMMA SumOfNone == ASSUME NEW f PROVE SumFunctionOnSet(f, {}) = 0
  BY SumUnfolds, FS_EmptySet

\* What follows about sums is for natural numbers.
Nats(f, s) == \A x \in s : f[x] \in Nat

LEMMA SumIsNat ==
  ASSUME NEW S, IsFiniteSet(S), NEW f, Nats(f, S)
  PROVE  SumFunctionOnSet(f, S) \in Nat
<1> DEFINE F == {s \in SUBSET S : SumFunctionOnSet(f, s) \notin Nat}
<1>0. F \subseteq SUBSET S
  OBVIOUS
<1> HIDE DEF F
<1>1. CASE F = {}
  BY <1>1 DEF F
<1>2. CASE F # {}
  <2>1. PICK s \in F : \A t \in F : t \subseteq s => t = s
    BY <1>0, <1>2, Smallest
  <2>2. IsFiniteSet(s)
    BY <1>0, FS_Subset
  <2>3. CASE s = {}
    BY <2>3, SumOfNone DEF F
  <2>4. CASE s # {}
    <3>1. First(s) \in s
      BY <2>4 DEF First
    <3>2. SumFunctionOnSet(f, s \ {First(s)}) \in Nat
      BY <1>0, <2>1, <3>1 DEF F
    <3>3. f[First(s)] \in Nat
      BY <1>0, <3>1 DEF Nats
    <3>4. SumFunctionOnSet(f, s) = f[First(s)] + SumFunctionOnSet(f, s \ {First(s)})
      BY <2>2, <2>4, SumUnfolds
    <3>5. QED
      BY <3>2, <3>3, <3>4 DEF F
  <2>5. QED
    BY <2>3, <2>4
<1>3. QED
  BY <1>1, <1>2

\* Any element may be taken out first.
LEMMA SumSplits ==
  ASSUME NEW S, IsFiniteSet(S), NEW f, Nats(f, S)
  PROVE  \A x \in S : SumFunctionOnSet(f, S) = f[x] + SumFunctionOnSet(f, S \ {x})
<1> DEFINE Sum(s) == SumFunctionOnSet(f, s)
           F == {s \in SUBSET S : \E x \in s : Sum(s) # f[x] + Sum(s \ {x})}
<1>0. F \subseteq SUBSET S
  OBVIOUS
<1> HIDE DEF F
<1>1. CASE F = {}
  BY <1>1 DEF F
<1>2. CASE F # {}
  <2>1. PICK s \in F : \A t \in F : t \subseteq s => t = s
    BY <1>0, <1>2, Smallest
  <2>2. PICK x \in s : Sum(s) # f[x] + Sum(s \ {x})
    BY DEF F
  <2> DEFINE y == First(s)
             t == (s \ {x}) \ {y}
  <2>3. y \in s /\ s \in SUBSET S /\ IsFiniteSet(s)
    BY <1>0, <2>2, FS_Subset DEF First
  <2>4. Sum(s) = f[y] + Sum(s \ {y})
    BY <2>2, <2>3, SumUnfolds
  <2> HIDE DEF y
  <2>5. x # y
    BY <2>2, <2>4
  <2>6. ASSUME NEW u \in {x, y}, NEW z \in s \ {u}
        PROVE  Sum(s \ {u}) = f[z] + Sum((s \ {u}) \ {z})
    <3>1. s \ {u} \notin F /\ s \ {u} \in SUBSET S
      BY <2>1, <2>2, <2>3
    <3>2. QED
      BY <3>1 DEF F
  <2>7. Sum(s \ {x}) = f[y] + Sum(t) /\ Sum(s \ {y}) = f[x] + Sum(t)
    <3>1. t = (s \ {y}) \ {x}
      OBVIOUS
    <3>2. QED
      BY <2>3, <2>5, <2>6, <3>1
  <2>8. f[x] \in Nat /\ f[y] \in Nat /\ Sum(t) \in Nat
    <3>1. IsFiniteSet(t) /\ Nats(f, t)
      BY <2>3, FS_Subset DEF Nats
    <3>2. QED
      BY <2>3, <3>1, SumIsNat DEF Nats
  <2> HIDE DEF Sum, t
  <2>9. QED
    BY <2>2, <2>4, <2>7, <2>8
<1>3. QED
  BY <1>1, <1>2

LEMMA SumAdds ==
  ASSUME NEW S, IsFiniteSet(S), NEW x, x \notin S, NEW f, Nats(f, S \cup {x})
  PROVE  SumFunctionOnSet(f, S \cup {x}) = f[x] + SumFunctionOnSet(f, S)
<1>1. IsFiniteSet(S \cup {x}) /\ (S \cup {x}) \ {x} = S
  BY FS_AddElement
<1>2. QED
  BY <1>1, SumSplits

\* A sum depends on the elements only, and grows with each of them.
LEMMA SumMonotonic ==
  ASSUME NEW S, IsFiniteSet(S), NEW f, NEW g, Nats(f, S), Nats(g, S),
         \A x \in S : f[x] <= g[x]
  PROVE  SumFunctionOnSet(f, S) <= SumFunctionOnSet(g, S)
<1> DEFINE F == {s \in SUBSET S : ~ (SumFunctionOnSet(f, s) <= SumFunctionOnSet(g, s))}
<1>0. F \subseteq SUBSET S
  OBVIOUS
<1> HIDE DEF F
<1>1. CASE F = {}
  BY <1>1 DEF F
<1>2. CASE F # {}
  <2>1. PICK s \in F : \A t \in F : t \subseteq s => t = s
    BY <1>0, <1>2, Smallest
  <2>2. s # {}
    BY SumOfNone DEF F
  <2>3. PICK x \in s : TRUE
    BY <2>2
  <2> DEFINE t == s \ {x}
  <2>4. /\ IsFiniteSet(s) /\ IsFiniteSet(t) /\ x \in S /\ s \in SUBSET S
        /\ Nats(f, s) /\ Nats(g, s) /\ Nats(f, t) /\ Nats(g, t)
    BY <1>0, FS_Subset DEF Nats
  <2>5. SumFunctionOnSet(f, t) <= SumFunctionOnSet(g, t)
    <3>1. t \notin F /\ t \in SUBSET S
      BY <2>1, <2>4
    <3>2. QED
      BY <3>1 DEF F
  <2>6. /\ SumFunctionOnSet(f, s) = f[x] + SumFunctionOnSet(f, t)
        /\ SumFunctionOnSet(g, s) = g[x] + SumFunctionOnSet(g, t)
    BY <2>4, SumSplits
  <2>7. /\ SumFunctionOnSet(f, t) \in Nat /\ SumFunctionOnSet(g, t) \in Nat
        /\ f[x] \in Nat /\ g[x] \in Nat /\ f[x] <= g[x]
    BY <2>4, SumIsNat DEF Nats
  <2>8. SumFunctionOnSet(f, s) <= SumFunctionOnSet(g, s)
    BY <2>5, <2>6, <2>7
  <2>9. QED
    BY <2>8 DEF F
<1>3. QED
  BY <1>1, <1>2

LEMMA SumSame ==
  ASSUME NEW S, IsFiniteSet(S), NEW f, NEW g, Nats(f, S), \A x \in S : f[x] = g[x]
  PROVE  SumFunctionOnSet(f, S) = SumFunctionOnSet(g, S)
<1>1. Nats(g, S) /\ \A x \in S : f[x] <= g[x] /\ g[x] <= f[x]
  BY DEF Nats
<1>2. /\ SumFunctionOnSet(f, S) <= SumFunctionOnSet(g, S)
      /\ SumFunctionOnSet(g, S) <= SumFunctionOnSet(f, S)
  BY <1>1, SumMonotonic
<1>3. SumFunctionOnSet(f, S) \in Nat /\ SumFunctionOnSet(g, S) \in Nat
  BY <1>1, SumIsNat
<1>4. QED
  BY <1>2, <1>3

LEMMA SumOfZeros ==
  ASSUME NEW S, IsFiniteSet(S), NEW f, \A x \in S : f[x] = 0
  PROVE  SumFunctionOnSet(f, S) = 0
<1> DEFINE F == {s \in SUBSET S : SumFunctionOnSet(f, s) # 0}
<1>0. F \subseteq SUBSET S
  OBVIOUS
<1> HIDE DEF F
<1>1. CASE F = {}
  BY <1>1 DEF F
<1>2. CASE F # {}
  <2>1. PICK s \in F : \A t \in F : t \subseteq s => t = s
    BY <1>0, <1>2, Smallest
  <2>2. s # {} /\ s \in SUBSET S /\ IsFiniteSet(s)
    BY <1>0, SumOfNone, FS_Subset DEF F
  <2>3. First(s) \in s /\ s \ {First(s)} \notin F /\ s \ {First(s)} \in SUBSET S
    BY <2>1, <2>2 DEF First
  <2>4. SumFunctionOnSet(f, s) = f[First(s)] + SumFunctionOnSet(f, s \ {First(s)})
    BY <2>2, SumUnfolds
  <2>5. SumFunctionOnSet(f, s \ {First(s)}) = 0 /\ f[First(s)] = 0
    BY <2>2, <2>3 DEF F
  <2>6. QED
    BY <2>4, <2>5 DEF F
<1>3. QED
  BY <1>1, <1>2

\* A sum of which at most one element is not 0.
LEMMA SumOfOne ==
  ASSUME NEW S, IsFiniteSet(S), NEW f, NEW x \in S, f[x] \in Nat,
         \A y \in S \ {x} : f[y] = 0
  PROVE  SumFunctionOnSet(f, S) = f[x]
<1>1. Nats(f, S) /\ IsFiniteSet(S \ {x})
  BY FS_RemoveElement DEF Nats
<1>2. SumFunctionOnSet(f, S \ {x}) = 0
  BY <1>1, SumOfZeros
<1>3. SumFunctionOnSet(f, S) = f[x] + SumFunctionOnSet(f, S \ {x})
  BY <1>1, SumSplits
<1>4. QED
  BY <1>2, <1>3

\* What is left out of a sum may as well be 0.
LEMMA SumExtends ==
  ASSUME NEW S, IsFiniteSet(S), NEW T \in SUBSET S, NEW f, Nats(f, S),
         \A x \in S \ T : f[x] = 0
  PROVE  SumFunctionOnSet(f, S) = SumFunctionOnSet(f, T)
<1> DEFINE F == {s \in SUBSET S : SumFunctionOnSet(f, s) # SumFunctionOnSet(f, s \cap T)}
<1>0. F \subseteq SUBSET S
  OBVIOUS
<1> HIDE DEF F
<1>1. CASE F = {}
  <2>1. S \cap T = T
    OBVIOUS
  <2>2. QED
    BY <1>1, <2>1 DEF F
<1>2. CASE F # {}
  <2>1. PICK s \in F : \A t \in F : t \subseteq s => t = s
    BY <1>0, <1>2, Smallest
  <2> DEFINE Sum(t) == SumFunctionOnSet(f, t)
  <2>2. s \in SUBSET S /\ IsFiniteSet(s) /\ IsFiniteSet(s \cap T) /\ Nats(f, s)
        /\ Nats(f, s \cap T)
    BY <1>0, FS_Subset DEF Nats
  <2>3. s # {}
    <3>1. {} \cap T = {}
      OBVIOUS
    <3>2. QED
      BY <3>1 DEF F
  <2>4. PICK x \in s : TRUE
    BY <2>3
  <2>5. Sum(s) = f[x] + Sum(s \ {x})
    BY <2>2, SumSplits
  <2>6. Sum(s \ {x}) = Sum((s \ {x}) \cap T)
    <3>1. s \ {x} \notin F /\ s \ {x} \in SUBSET S
      BY <2>1, <2>2
    <3>2. QED
      BY <3>1 DEF F
  <2>7. CASE x \in T
    <3>1. (s \ {x}) \cap T = (s \cap T) \ {x}
      OBVIOUS
    <3>2. Sum(s \cap T) = f[x] + Sum((s \cap T) \ {x})
      BY <2>2, <2>7, SumSplits
    <3>3. QED
      BY <2>5, <2>6, <3>1, <3>2 DEF F
  <2>8. CASE x \notin T
    <3>1. (s \ {x}) \cap T = s \cap T
      BY <2>8
    <3>2. f[x] = 0 /\ Sum(s \cap T) \in Nat
      BY <2>2, <2>8, SumIsNat
    <3>3. Sum(s) = f[x] + Sum(s \cap T)
      BY <2>5, <2>6, <3>1
    <3> HIDE DEF Sum
    <3>4. Sum(s) = Sum(s \cap T)
      BY <3>2, <3>3
    <3>5. QED
      BY <3>4 DEF F, Sum
  <2>9. QED
    BY <2>7, <2>8
<1>3. QED
  BY <1>1, <1>2

LEMMA SumOfSums ==
  ASSUME NEW S, IsFiniteSet(S), NEW f, NEW g, NEW h, Nats(f, S), Nats(g, S),
         \A x \in S : h[x] = f[x] + g[x]
  PROVE  SumFunctionOnSet(h, S) = SumFunctionOnSet(f, S) + SumFunctionOnSet(g, S)
<1> DEFINE F == {s \in SUBSET S :
                   SumFunctionOnSet(h, s) # SumFunctionOnSet(f, s) + SumFunctionOnSet(g, s)}
<1>0. F \subseteq SUBSET S
  OBVIOUS
<1> HIDE DEF F
<1>1. CASE F = {}
  BY <1>1 DEF F
<1>2. CASE F # {}
  <2>1. PICK s \in F : \A t \in F : t \subseteq s => t = s
    BY <1>0, <1>2, Smallest
  <2>2. s # {}
    BY SumOfNone DEF F
  <2>3. PICK x \in s : TRUE
    BY <2>2
  <2> DEFINE t == s \ {x}
  <2>4. /\ IsFiniteSet(s) /\ IsFiniteSet(t) /\ x \in S /\ s \in SUBSET S
        /\ Nats(f, s) /\ Nats(g, s) /\ Nats(h, s) /\ Nats(f, t) /\ Nats(g, t)
    BY <1>0, FS_Subset DEF Nats
  <2>5. SumFunctionOnSet(h, t) = SumFunctionOnSet(f, t) + SumFunctionOnSet(g, t)
    <3>1. t \notin F /\ t \in SUBSET S
      BY <2>1, <2>4
    <3>2. QED
      BY <3>1 DEF F
  <2>6. /\ SumFunctionOnSet(f, s) = f[x] + SumFunctionOnSet(f, t)
        /\ SumFunctionOnSet(g, s) = g[x] + SumFunctionOnSet(g, t)
        /\ SumFunctionOnSet(h, s) = h[x] + SumFunctionOnSet(h, t)
    BY <2>4, SumSplits
  <2>7. /\ SumFunctionOnSet(f, t) \in Nat /\ SumFunctionOnSet(g, t) \in Nat
        /\ f[x] \in Nat /\ g[x] \in Nat /\ h[x] = f[x] + g[x]
    BY <2>4, SumIsNat DEF Nats
  <2>8. SumFunctionOnSet(h, s) = SumFunctionOnSet(f, s) + SumFunctionOnSet(g, s)
    BY <2>5, <2>6, <2>7
  <2>9. QED
    BY <2>8 DEF F
<1>3. QED
  BY <1>1, <1>2

\* A table adds up to the same by rows and by columns.
LEMMA SumsExchange ==
  ASSUME NEW S, IsFiniteSet(S), NEW T, IsFiniteSet(T), NEW f,
         \A x \in S : Nats(f[x], T)
  PROVE  SumFunctionOnSet([x \in S |-> SumFunctionOnSet(f[x], T)], S) =
         SumFunctionOnSet([y \in T |-> SumFunctionOnSet([x \in S |-> f[x][y]], S)], T)
<1> DEFINE Row == [x \in S |-> SumFunctionOnSet(f[x], T)]
           Column(s) == [y \in T |-> SumFunctionOnSet([x \in S |-> f[x][y]], s)]
           F == {s \in SUBSET S : SumFunctionOnSet(Row, s) # SumFunctionOnSet(Column(s), T)}
<1>0. F \subseteq SUBSET S
  OBVIOUS
<1>a. Nats(Row, S)
  BY SumIsNat DEF Nats
<1>b. ASSUME NEW s \in SUBSET S
      PROVE  Nats(Column(s), T)
  <2>1. IsFiniteSet(s)
    BY FS_Subset
  <2>2. \A y \in T : Nats([x \in S |-> f[x][y]], s)
    BY DEF Nats
  <2>3. QED
    BY <2>1, <2>2, SumIsNat DEF Nats
<1> HIDE DEF F
<1>1. CASE F = {}
  BY <1>1 DEF F
<1>2. CASE F # {}
  <2>1. PICK s \in F : \A t \in F : t \subseteq s => t = s
    BY <1>0, <1>2, Smallest
  <2>2. s # {}
    <3>1. \A y \in T : Column({})[y] = 0
      BY SumOfNone
    <3> HIDE DEF Column
    <3>2. SumFunctionOnSet(Column({}), T) = 0
      BY <3>1, SumOfZeros
    <3>3. QED
      BY <3>2, SumOfNone DEF F
  <2>3. PICK x \in s : TRUE
    BY <2>2
  <2> DEFINE t == s \ {x}
  <2>4. /\ IsFiniteSet(s) /\ IsFiniteSet(t) /\ x \in S /\ s \in SUBSET S /\ t \in SUBSET S
        /\ Nats(Row, s) /\ Nats(Row, t)
    BY <1>0, <1>a, FS_Subset DEF Nats
  <2>5. SumFunctionOnSet(Row, t) = SumFunctionOnSet(Column(t), T)
    <3>1. t \notin F /\ t \in SUBSET S
      BY <2>1, <2>4
    <3>2. QED
      BY <3>1 DEF F
  <2>6. SumFunctionOnSet(Row, s) = SumFunctionOnSet(f[x], T) + SumFunctionOnSet(Row, t)
    <3>1. Row[x] = SumFunctionOnSet(f[x], T)
      BY <2>4
    <3> HIDE DEF Row
    <3>2. QED
      BY <2>4, <3>1, SumSplits
  <2>7. \A y \in T : Column(s)[y] = f[x][y] + Column(t)[y]
    <3> TAKE y \in T
    <3> DEFINE c == [z \in S |-> f[z][y]]
    <3>1. Nats(c, s) /\ c[x] = f[x][y]
      BY <2>4 DEF Nats
    <3> HIDE DEF c
    <3>2. SumFunctionOnSet(c, s) = c[x] + SumFunctionOnSet(c, t)
      BY <2>4, <3>1, SumSplits
    <3>3. QED
      BY <3>1, <3>2 DEF c
  <2>8. Nats(f[x], T) /\ Nats(Column(t), T)
    BY <1>b, <2>4
  <2> HIDE DEF Column, Row
  <2>9. SumFunctionOnSet(Column(s), T) = SumFunctionOnSet(f[x], T) + SumFunctionOnSet(Column(t), T)
    BY <2>7, <2>8, SumOfSums
  <2>10. QED
    BY <2>5, <2>6, <2>9 DEF F
<1>3. QED
  BY <1>1, <1>2

-----------------------------------------------------------------------------
\* Hash maps and quantities.

LEMMA EmptyIsStock == IsStock(Empty) /\ IsPlan(Empty)
  BY DEF IsStock, IsPlan, Empty

LEMMA OneIsStock ==
  ASSUME NEW p \in Product, NEW q \in Nat
  PROVE  IsStock(One(p, q)) /\ DOMAIN One(p, q) = {p} /\ One(p, q)[p] = q
  BY DEF IsStock, One

LEMMA CoversOne ==
  ASSUME NEW s, NEW p \in DOMAIN s, NEW q, q <= s[p]
  PROVE  Covers(s, One(p, q))
  BY DEF Covers, One

LEMMA TakeIsStock ==
  ASSUME NEW s, NEW d, IsStock(s), IsStock(d), Covers(s, d)
  PROVE  /\ IsStock(Take(s, d))
         /\ DOMAIN Take(s, d) = DOMAIN s
         /\ \A p \in DOMAIN s : Take(s, d)[p] <= s[p]
<1>1. \A p \in DOMAIN s : s[p] \in Nat
  BY DEF IsStock
<1>2. \A p \in DOMAIN d : d[p] \in Nat /\ d[p] <= s[p]
  BY DEF IsStock, Covers
<1>3. QED
  BY <1>1, <1>2 DEF IsStock, Take

LEMMA GiveIsStock ==
  ASSUME NEW s, NEW d, IsStock(s), IsStock(d)
  PROVE  IsStock(Give(s, d))
<1>1. \A p \in DOMAIN s : s[p] \in Nat
  BY DEF IsStock
<1>2. \A p \in DOMAIN d : d[p] \in Nat
  BY DEF IsStock
<1>3. QED
  BY <1>1, <1>2 DEF IsStock, Give

LEMMA AnnouncedIsStock ==
  ASSUME NEW s \in Announced
  PROVE  IsStock(s)
  BY QtyAssumption DEF Announced, HashMap, IsStock

LEMMA ShareIsStock ==
  ASSUME NEW plan, IsPlan(plan), NEW m
  PROVE  IsStock(Share(plan, m))
  BY EmptyIsStock DEF IsPlan, Share

-----------------------------------------------------------------------------
\* A plan takes from each store no more than the planner believes it has.

LEMMA PlanFacts ==
  ASSUME StoreTypeOK, NEW n \in Node, NEW p \in Product, NEW q \in Nat,
         NEW plan \in Plans(n, p, q)
  PROVE  /\ IsPlan(plan)
         /\ DOMAIN plan \subseteq DOMAIN peers[n] \cup {n}
         /\ Covers(stock[n], Share(plan, n))
         /\ \A m \in DOMAIN peers[n] : Covers(peers[n][m].stock, Share(plan, m))
<1>1. /\ IsStock(stock[n]) /\ n \notin DOMAIN peers[n] /\ DOMAIN peers[n] \subseteq Node
      /\ \A m \in DOMAIN peers[n] : IsStock(peers[n][m].stock)
  BY DEF StoreTypeOK, IsStoreInformation
<1>2. \A s : Covers(s, Empty)
  BY DEF Covers, Empty
<1>3. CASE CoveredLocally(n, p, q)
  <2>1. plan = One(n, One(p, q))
    BY <1>3 DEF Plans
  <2>2. DOMAIN plan = {n} /\ plan[n] = One(p, q) /\ plan = [m \in DOMAIN plan |-> plan[m]]
    BY <2>1 DEF One
  <2>3. IsPlan(plan)
    <3>1. IsStock(plan[n])
      BY <2>2, OneIsStock
    <3>2. QED
      BY <2>2, <3>1 DEF IsPlan
  <2>4. Covers(stock[n], Share(plan, n))
    BY <2>2, <1>3, CoversOne DEF Share, CoveredLocally
  <2>5. \A m \in DOMAIN peers[n] : Share(plan, m) = Empty
    BY <2>2, <1>1 DEF Share
  <2>6. QED
    BY <2>2, <2>3, <2>4, <2>5, <1>2
<1>4. CASE ~CoveredLocally(n, p, q)
  <2>1. PICK s \in Suppliers(n, p, q) : plan = RemotePlan(n, p, q, s)
    BY <1>4 DEF Plans
  <2>2. Shortfall(n, p, q) \in Nat
    BY <1>1, <1>4 DEF Shortfall, CoveredLocally, IsStock
  <2>3. /\ s \in DOMAIN peers[n] /\ s # n
        /\ Covers(peers[n][s].stock, One(p, Shortfall(n, p, q)))
    BY <2>1, <1>1 DEF Suppliers, Online
  <2>4. /\ DOMAIN plan \subseteq DOMAIN peers[n] \cup {n}
        /\ plan = [m \in DOMAIN plan |-> plan[m]]
        /\ \A m \in DOMAIN plan :
             plan[m] = IF m = s THEN One(p, Shortfall(n, p, q))
                       ELSE IF m = n /\ stock[n][p] # 0 THEN One(p, stock[n][p])
                       ELSE Empty
        /\ n \in DOMAIN plan => p \in DOMAIN stock[n]
    BY <2>1, <1>1 DEF RemotePlan, Online
  <2>5. n \in DOMAIN plan => stock[n][p] \in Nat
    BY <2>4, <1>1 DEF IsStock
  <2>6. \A m \in DOMAIN plan : IsStock(plan[m])
    BY <2>2, <2>4, <2>5, OneIsStock, EmptyIsStock
  <2>7. IsPlan(plan)
    BY <2>4, <2>6, <1>1 DEF IsPlan
  <2>8. Covers(stock[n], Share(plan, n))
    <3>1. CASE n \in DOMAIN plan /\ stock[n][p] # 0
      <4>1. Share(plan, n) = One(p, stock[n][p])
        BY <3>1, <2>3, <2>4 DEF Share
      <4>2. QED
        BY <4>1, <2>4, <2>5, <3>1, CoversOne
    <3>2. CASE ~(n \in DOMAIN plan /\ stock[n][p] # 0)
      BY <3>2, <2>3, <2>4, <1>2 DEF Share
    <3>3. QED
      BY <3>1, <3>2
  <2>9. ASSUME NEW m \in DOMAIN peers[n]
        PROVE  Covers(peers[n][m].stock, Share(plan, m))
    <3>1. Share(plan, m) = Empty \/ (m = s /\ Share(plan, m) = One(p, Shortfall(n, p, q)))
      BY <2>4, <1>1 DEF Share
    <3>2. QED
      BY <3>1, <2>3, <1>2
  <2>10. QED
    BY <2>4, <2>7, <2>8, <2>9
<1>5. QED
  BY <1>3, <1>4

-----------------------------------------------------------------------------
\* Each handler preserves the invariant.

\* The stock of one store may shrink.
LEMMA StockShrinks ==
  ASSUME TypesOfUnits, NEW n \in Node, NEW d, IsStock(d), Covers(stock[n], d),
         stock' = [stock EXCEPT ![n] = Take(@, d)], supply' = supply
  PROVE  TypesOfUnits'
<1>1. /\ DOMAIN stock' = Node /\ stock'[n] = Take(stock[n], d)
      /\ \A m \in Node : m # n => stock'[m] = stock[m]
  BY DEF TypesOfUnits
<1>2. /\ IsStock(stock'[n]) /\ DOMAIN stock'[n] = DOMAIN stock[n]
      /\ \A p \in DOMAIN stock[n] : stock'[n][p] <= stock[n][p]
  BY <1>1, TakeIsStock DEF TypesOfUnits
<1>3. \A p \in DOMAIN stock[n] :
        stock'[n][p] \in Nat /\ stock[n][p] \in Nat /\ supply[n][p] \in Nat
  BY <1>2 DEF IsStock, TypesOfUnits
<1>4. \A p \in DOMAIN stock'[n] : stock'[n][p] <= supply[n][p]
  BY <1>2, <1>3 DEF TypesOfUnits, StockWithinSupply
<1>5. QED
  BY <1>1, <1>2, <1>4 DEF TypesOfUnits, StockWithinSupply

\* A store may record a purchase.
LEMMA Recorded ==
  ASSUME NEW map, DOMAIN map \subseteq TxId,
         \A i \in DOMAIN map : IsTransaction(map[i]),
         NEW id \in TxId, NEW s \in TransactionState, NEW plan, IsPlan(plan)
  PROVE  /\ DOMAIN Insert(map, id, Transaction(s, plan)) \subseteq TxId
         /\ \A i \in DOMAIN Insert(map, id, Transaction(s, plan)) :
              IsTransaction(Insert(map, id, Transaction(s, plan))[i])
<1>1. IsTransaction(Transaction(s, plan))
  BY DEF IsTransaction, Transaction
<1> DEFINE new == Insert(map, id, Transaction(s, plan))
<1>2. DOMAIN new = DOMAIN map \cup {id} /\ new[id] = Transaction(s, plan)
      /\ \A i \in DOMAIN map : i # id => new[i] = map[i]
  BY DEF Insert
<1> HIDE DEF new
<1>3. DOMAIN new \subseteq TxId /\ \A i \in DOMAIN new : IsTransaction(new[i])
  BY <1>1, <1>2
<1>4. QED
  BY <1>3 DEF new

LEMMA MarkedTypes ==
  ASSUME TypesOfRecords, NEW n \in Node, NEW id \in TxId, NEW s \in TransactionState,
         txs' = Marked(n, id, s)
  PROVE  /\ DOMAIN txs' = Node
         /\ \A m \in Node : /\ DOMAIN txs'[m] \subseteq TxId
                            /\ \A i \in DOMAIN txs'[m] : IsTransaction(txs'[m][i])
<1>1. CASE id \notin DOMAIN txs[n]
  BY <1>1 DEF TypesOfRecords, Marked
<1>2. CASE id \in DOMAIN txs[n]
  <2>1. IsPlan(txs[n][id].involved_stock)
    BY <1>2 DEF TypesOfRecords, IsTransaction
  <2>2. /\ DOMAIN txs' = Node
        /\ txs'[n] = Insert(txs[n], id, Transaction(s, txs[n][id].involved_stock))
        /\ \A m \in Node : m # n => txs'[m] = txs[m]
    BY <1>2 DEF TypesOfRecords, Marked
  <2>3. QED
    BY <2>1, <2>2, Recorded DEF TypesOfRecords
<1>3. QED
  BY <1>1, <1>2

LEMMA BeliefType ==
  ASSUME NEW s, IsStock(s), NEW online \in BOOLEAN
  PROVE  IsStoreInformation(StoreInformation(s, online))
  BY DEF IsStoreInformation, StoreInformation

LEMMA RequestTypes ==
  ASSUME StoreInv, NEW n \in Node, NEW id \in TxId, NEW p \in Product, NEW q \in Nat,
         Request(n, id, p, q)
  PROVE  StoreInv'
<1>1. PICK plan \in Plans(n, p, q) :
        /\ stock' = [stock EXCEPT ![n] = Take(@, Share(plan, n))]
        /\ peers' = [peers EXCEPT ![n] = TakeFromPeers(n, plan)]
        /\ txs' = [txs EXCEPT ![n] =
                     Insert(@, id, Transaction("AwaitingConfirmation", plan))]
  BY DEF Request
<1>2. alive' = alive /\ supply' = supply
  BY DEF Request
<1>3. /\ IsPlan(plan) /\ Covers(stock[n], Share(plan, n)) /\ IsStock(Share(plan, n))
      /\ \A m \in DOMAIN peers[n] : Covers(peers[n][m].stock, Share(plan, m))
  BY PlanFacts, ShareIsStock, InvariantImplies
<1>4. TypesOfUnits'
  BY <1>1, <1>2, <1>3, StockShrinks DEF StoreInv
<1>5. /\ DOMAIN txs' = Node
      /\ txs'[n] = Insert(txs[n], id, Transaction("AwaitingConfirmation", plan))
      /\ \A m \in Node : m # n => txs'[m] = txs[m]
  BY <1>1 DEF StoreInv, TypesOfRecords
<1>6. \A m \in Node : /\ DOMAIN txs'[m] \subseteq TxId
                     /\ \A i \in DOMAIN txs'[m] : IsTransaction(txs'[m][i])
  BY <1>3, <1>5, Recorded DEF StoreInv, TypesOfRecords, TransactionState
<1>7. /\ DOMAIN peers' = Node
      /\ peers'[n] = TakeFromPeers(n, plan)
      /\ \A m \in Node : m # n => peers'[m] = peers[m]
  BY <1>1 DEF StoreInv, TypesOfRecords
<1>8. ASSUME NEW m \in DOMAIN peers[n]
      PROVE  IsStoreInformation(TakeFromPeers(n, plan)[m])
  <2>1. IsStock(peers[n][m].stock) /\ peers[n][m].is_online \in BOOLEAN
    BY DEF StoreInv, TypesOfRecords, IsStoreInformation
  <2>2. IsStock(Take(peers[n][m].stock, Share(plan, m)))
    BY <1>3, <2>1, ShareIsStock, TakeIsStock
  <2>3. QED
    BY <2>1, <2>2, BeliefType DEF TakeFromPeers
<1>9. TypesOfRecords'
  BY <1>2, <1>5, <1>6, <1>7, <1>8 DEF StoreInv, TypesOfRecords, TakeFromPeers
<1>10. QED
  BY <1>4, <1>9 DEF StoreInv

LEMMA AskTypes ==
  ASSUME StoreInv, NEW n \in Node, NEW id \in TxId, NEW d, IsStock(d),
         AskAccepted(n, id, d)
  PROVE  StoreInv'
<1>1. TypesOfUnits'
  BY StockShrinks DEF StoreInv, AskAccepted
<1>2. /\ DOMAIN txs' = Node
      /\ txs'[n] = Insert(txs[n], id, Transaction("AwaitingConfirmation", Empty))
      /\ \A m \in Node : m # n => txs'[m] = txs[m]
  BY DEF StoreInv, TypesOfRecords, AskAccepted
<1>3. \A m \in Node : /\ DOMAIN txs'[m] \subseteq TxId
                     /\ \A i \in DOMAIN txs'[m] : IsTransaction(txs'[m][i])
  BY <1>2, Recorded, EmptyIsStock DEF StoreInv, TypesOfRecords, TransactionState
<1>4. TypesOfRecords'
  BY <1>2, <1>3 DEF StoreInv, TypesOfRecords, AskAccepted
<1>5. QED
  BY <1>1, <1>4 DEF StoreInv

LEMMA ConfirmTypes ==
  ASSUME StoreInv, NEW n \in Node, NEW id \in TxId, Confirm(n, id)
  PROVE  StoreInv'
  BY MarkedTypes
  DEF StoreInv, Confirm, TypesOfRecords, TypesOfUnits, StockWithinSupply, TransactionState

LEMMA CommitTypes ==
  ASSUME StoreInv, NEW n \in Node, NEW id \in TxId, Commit(n, id)
  PROVE  StoreInv'
  BY MarkedTypes
  DEF StoreInv, Commit, TypesOfRecords, TypesOfUnits, StockWithinSupply, TransactionState

LEMMA CancelTypes ==
  ASSUME StoreInv, NEW n \in Node, NEW id \in TxId, Cancel(n, id)
  PROVE  StoreInv'
<1>1. CASE CancelKnown(n, id)
  <2> DEFINE plan == txs[n][id].involved_stock
  <2>1. IsPlan(plan)
    BY <1>1 DEF CancelKnown, StoreInv, TypesOfRecords, IsTransaction
  <2>2. ASSUME NEW m \in DOMAIN peers[n]
        PROVE  IsStoreInformation(GiveToPeers(n, plan)[m])
    <3>1. IsStock(peers[n][m].stock) /\ peers[n][m].is_online \in BOOLEAN
      BY DEF StoreInv, TypesOfRecords, IsStoreInformation
    <3>2. IsStock(Give(peers[n][m].stock, Share(plan, m)))
      BY <2>1, <3>1, ShareIsStock, GiveIsStock
    <3>3. QED
      BY <3>1, <3>2, BeliefType DEF GiveToPeers
  <2>3. /\ DOMAIN peers' = Node
        /\ peers'[n] = GiveToPeers(n, plan)
        /\ \A m \in Node : m # n => peers'[m] = peers[m]
    BY <1>1 DEF CancelKnown, StoreInv, TypesOfRecords
  <2>4. /\ DOMAIN peers'[n] \subseteq Node \ {n}
        /\ \A m \in DOMAIN peers'[n] : IsStoreInformation(peers'[n][m])
    BY <2>2, <2>3 DEF GiveToPeers, StoreInv, TypesOfRecords
  <2>5. /\ DOMAIN txs' = Node
        /\ \A m \in Node : /\ DOMAIN txs'[m] \subseteq TxId
                           /\ \A i \in DOMAIN txs'[m] : IsTransaction(txs'[m][i])
    BY <1>1, MarkedTypes DEF CancelKnown, StoreInv, TransactionState
  <2>6. TypesOfRecords'
    BY <1>1, <2>3, <2>4, <2>5 DEF CancelKnown, StoreInv, TypesOfRecords
  <2>7. QED
    BY <1>1, <2>6 DEF CancelKnown, StoreInv, TypesOfUnits, StockWithinSupply
<1>2. CASE CancelUnknown(n, id)
  BY <1>2 DEF CancelUnknown, storeVars, StoreInv, TypesOfRecords, TypesOfUnits,
              StockWithinSupply
<1>3. CASE CancelPanics(n, id)
  BY <1>3 DEF CancelPanics, StoreInv, TypesOfRecords, TypesOfUnits, StockWithinSupply
<1>4. QED
  BY <1>1, <1>2, <1>3 DEF Cancel

\* What a batch sells is in stock, although its orders were checked one by one.
LEMMA BatchIsCovered ==
  ASSUME NEW n \in Node, NEW orders \in LocalOrders, LocalRequest(n, orders)
  PROVE  \E d : /\ IsStock(d) /\ Covers(stock[n], d)
                /\ stock' = [stock EXCEPT ![n] = Take(@, d)]
                /\ supply' = [supply EXCEPT ![n] = Take(@, d)]
<1>1. PICK d \in [{orders[i].product : i \in DOMAIN orders} -> Qty] :
        /\ LastWins(orders, d)
        /\ stock' = [stock EXCEPT ![n] = Take(@, d)]
        /\ supply' = [supply EXCEPT ![n] = Take(@, d)]
  BY DEF LocalRequest
<1>2. \A i \in DOMAIN orders : orders[i] \in Order
  <2>1. orders \in Seq(Order)
    BY LocalOrdersAssumption
  <2>2. QED
    BY <2>1
<1>3. IsStock(d)
  <2>1. DOMAIN d \subseteq Product
    BY <1>1, <1>2 DEF Order
  <2>2. d \in [DOMAIN d -> Nat]
    BY <1>1, QtyAssumption
  <2>3. QED
    BY <2>1, <2>2 DEF IsStock
<1>4. Covers(stock[n], d)
  <2> SUFFICES ASSUME NEW p \in DOMAIN d
               PROVE  p \in DOMAIN stock[n] /\ d[p] <= stock[n][p]
    BY DEF Covers
  <2>1. PICK i \in DOMAIN orders : orders[i].product = p /\ orders[i].qty = d[p]
    BY <1>1 DEF LastWins
  <2>2. Covers(stock[n], One(p, d[p]))
    BY <2>1 DEF LocalRequest, Sellable
  <2>3. QED
    BY <2>2 DEF Covers, One
<1>5. QED
  BY <1>1, <1>3, <1>4

LEMMA LocalRequestTypes ==
  ASSUME StoreInv, NEW n \in Node, NEW orders \in LocalOrders, LocalRequest(n, orders)
  PROVE  StoreInv'
<1>1. PICK d : /\ stock' = [stock EXCEPT ![n] = Take(@, d)]
               /\ supply' = [supply EXCEPT ![n] = Take(@, d)]
               /\ IsStock(d) /\ Covers(stock[n], d)
  BY BatchIsCovered
<1>2. /\ IsStock(stock[n]) /\ supply[n] \in [Product -> Nat]
      /\ \A p \in DOMAIN stock[n] : stock[n][p] <= supply[n][p]
  BY DEF StoreInv, TypesOfUnits, StockWithinSupply
<1>3. /\ IsStock(stock'[n]) /\ stock'[n] = Take(stock[n], d)
      /\ supply'[n] = Take(supply[n], d)
      /\ DOMAIN stock' = Node /\ DOMAIN supply' = Node
      /\ supply' = [m \in Node |-> supply'[m]]
      /\ \A m \in Node : m # n => stock'[m] = stock[m] /\ supply'[m] = supply[m]
  <2>1. IsStock(Take(stock[n], d))
    BY <1>1, <1>2, TakeIsStock
  <2>2. QED
    BY <1>1, <2>1 DEF StoreInv, TypesOfUnits
<1>4. \A p \in DOMAIN d : /\ d[p] \in Nat /\ stock[n][p] \in Nat /\ supply[n][p] \in Nat
                        /\ d[p] <= stock[n][p] /\ stock[n][p] <= supply[n][p]
  BY <1>1, <1>2 DEF Covers, IsStock
<1>5. supply'[n] \in [Product -> Nat]
  BY <1>2, <1>3, <1>4 DEF Take
<1>6. \A p \in DOMAIN stock'[n] : stock'[n][p] <= supply'[n][p]
  <2> SUFFICES ASSUME NEW p \in DOMAIN stock[n]
               PROVE  stock'[n][p] <= supply'[n][p]
    BY <1>3 DEF Take
  <2>1. p \in Product /\ stock[n][p] \in Nat /\ supply[n][p] \in Nat
    BY <1>2 DEF IsStock
  <2>2. QED
    BY <1>2, <1>3, <1>4, <2>1 DEF Take
<1>7. TypesOfUnits'
  BY <1>3, <1>5, <1>6 DEF StoreInv, TypesOfUnits, StockWithinSupply
<1>8. QED
  BY <1>7 DEF LocalRequest, StoreInv, TypesOfRecords

LEMMA AddStockTypes ==
  ASSUME StoreInv, NEW n \in Node, NEW p \in Product, NEW q \in Qty, AddStock(n, p, q)
  PROVE  StoreInv'
<1> DEFINE more == (IF p \in DOMAIN stock[n] THEN stock[n][p] ELSE 0) + q
<1>1. q \in Nat
  BY QtyAssumption
<1>2. /\ IsStock(stock[n]) /\ supply[n] \in [Product -> Nat]
      /\ \A r \in DOMAIN stock[n] : stock[n][r] <= supply[n][r]
  BY DEF StoreInv, TypesOfUnits, StockWithinSupply
<1>3. /\ DOMAIN stock' = Node /\ stock'[n] = Insert(stock[n], p, more)
      /\ \A m \in Node : m # n => stock'[m] = stock[m]
      /\ supply' \in [Node -> [Product -> Nat]]
      /\ supply'[n][p] = supply[n][p] + q
      /\ \A r \in Product : r # p => supply'[n][r] = supply[n][r]
      /\ \A m \in Node : m # n => supply'[m] = supply[m]
  BY <1>1 DEF StoreInv, TypesOfUnits, AddStock
<1>4. more \in Nat /\ more <= supply[n][p] + q
  BY <1>1, <1>2 DEF IsStock
<1> HIDE DEF more
<1>5. IsStock(stock'[n]) /\ \A r \in DOMAIN stock'[n] : stock'[n][r] <= supply'[n][r]
  BY <1>2, <1>3, <1>4 DEF IsStock, Insert
<1>6. TypesOfUnits'
  BY <1>3, <1>5 DEF StoreInv, TypesOfUnits, StockWithinSupply
<1>7. QED
  BY <1>6 DEF AddStock, StoreInv, TypesOfRecords

LEMMA UpdateTypes ==
  ASSUME StoreInv, NEW n \in Node, NEW m \in Node \ {n}, NEW s, IsStock(s),
         Update(n, m, s)
  PROVE  StoreInv'
<1>1. /\ DOMAIN peers' = Node /\ peers'[n] = Insert(peers[n], m, StoreInformation(s, TRUE))
      /\ \A r \in Node : r # n => peers'[r] = peers[r]
  BY DEF StoreInv, TypesOfRecords, Update
<1>2. IsStoreInformation(StoreInformation(s, TRUE))
  BY BeliefType
<1>3. /\ DOMAIN peers'[n] \subseteq Node \ {n}
      /\ \A r \in DOMAIN peers'[n] : IsStoreInformation(peers'[n][r])
  BY <1>1, <1>2 DEF StoreInv, TypesOfRecords, Insert
<1>4. TypesOfRecords'
  BY <1>1, <1>3 DEF StoreInv, TypesOfRecords, Update
<1>5. QED
  BY <1>4 DEF StoreInv, TypesOfUnits, StockWithinSupply, Update

LEMMA ShutdownTypes ==
  ASSUME StoreInv, NEW n \in Node, NEW m \in Node, Shutdown(n, m)
  PROVE  StoreInv'
<1>1. CASE m \notin DOMAIN peers[n]
  BY <1>1 DEF StoreInv, TypesOfRecords, TypesOfUnits, StockWithinSupply, Shutdown
<1>2. CASE m \in DOMAIN peers[n]
  <2>1. /\ DOMAIN peers' = Node
        /\ peers'[n] = Insert(peers[n], m, StoreInformation(peers[n][m].stock, FALSE))
        /\ \A r \in Node : r # n => peers'[r] = peers[r]
    BY <1>2 DEF StoreInv, TypesOfRecords, Shutdown
  <2>2. IsStoreInformation(StoreInformation(peers[n][m].stock, FALSE))
    BY <1>2, BeliefType DEF StoreInv, TypesOfRecords, IsStoreInformation
  <2>3. /\ DOMAIN peers'[n] \subseteq Node \ {n}
        /\ \A r \in DOMAIN peers'[n] : IsStoreInformation(peers'[n][r])
    BY <1>2, <2>1, <2>2 DEF StoreInv, TypesOfRecords, Insert
  <2>4. TypesOfRecords'
    BY <2>1, <2>3 DEF StoreInv, TypesOfRecords, Shutdown
  <2>5. QED
    BY <2>4 DEF StoreInv, TypesOfUnits, StockWithinSupply, Shutdown
<1>3. QED
  BY <1>1, <1>2

LEMMA StoreUnchanged ==
  ASSUME StoreInv, UNCHANGED storeVars
  PROVE  StoreInv'
  BY DEF storeVars, StoreInv, TypesOfRecords, TypesOfUnits, StockWithinSupply

LEMMA StoreInitially == StoreInit => StoreInv
  BY EmptyIsStock
  DEF StoreInit, StoreInv, TypesOfRecords, TypesOfUnits, StockWithinSupply, Empty

LEMMA StoreInductive == StoreInv /\ [StoreNext]_storeVars => StoreInv'
<1> SUFFICES ASSUME StoreInv, [StoreNext]_storeVars PROVE StoreInv'
  OBVIOUS
<1>1. CASE UNCHANGED storeVars
  BY <1>1, StoreUnchanged
<1>2. ASSUME NEW n \in Node, StoreStep(n)
      PROVE  StoreInv'
  <2>1. ASSUME NEW p \in Product, NEW q \in Qty, AddStock(n, p, q)
        PROVE  StoreInv'
    BY <2>1, AddStockTypes
  <2>2. ASSUME NEW orders \in LocalOrders, LocalRequest(n, orders)
        PROVE  StoreInv'
    BY <2>2, LocalRequestTypes
  <2>3. ASSUME NEW m \in Node \ {n}, NEW s \in Announced, Update(n, m, s)
        PROVE  StoreInv'
    BY <2>3, UpdateTypes, AnnouncedIsStock
  <2>4. ASSUME NEW m \in Node \ {n}, Shutdown(n, m)
        PROVE  StoreInv'
    BY <2>4, ShutdownTypes
  <2>5. ASSUME NEW id \in TxId, NEW p \in Product, NEW q \in Qty, Request(n, id, p, q)
        PROVE  StoreInv'
    BY <2>5, RequestTypes, QtyAssumption
  <2>6. ASSUME NEW id \in TxId, NEW d \in Announced, AskAccepted(n, id, d)
        PROVE  StoreInv'
    BY <2>6, AskTypes, AnnouncedIsStock
  <2>7. ASSUME NEW d \in Announced, AskRefused(n, d)
        PROVE  StoreInv'
    BY <2>7, StoreUnchanged DEF AskRefused
  <2>8. ASSUME NEW id \in TxId, Confirm(n, id) \/ Commit(n, id) \/ Cancel(n, id)
        PROVE  StoreInv'
    BY <2>8, ConfirmTypes, CommitTypes, CancelTypes
  <2>9. QED
    BY <1>2, <2>1, <2>2, <2>3, <2>4, <2>5, <2>6, <2>7, <2>8 DEF StoreStep
<1>3. QED
  BY <1>1, <1>2 DEF StoreNext

\* The fields of a store keep their types, and no quantity underflows: the
\* guards of Ask, LocalRequest and the plan cover every subtraction.
THEOREM StoreTypes == StoreSpec => []StoreTypeOK
  BY StoreInitially, StoreInductive, InvariantImplies, PTL DEF StoreSpec

\* A store never holds more of a product than was put on sale and not sold.
THEOREM StoreWithinSupply == StoreSpec => []StockWithinSupply
  BY StoreInitially, StoreInductive, InvariantImplies, PTL DEF StoreSpec

-----------------------------------------------------------------------------
\* No unit is promised twice.  A cancelled purchase gives the store nothing
\* back, so what its own purchases ever took from it is accounted for: of
\* these sums over a growing map that is the inductive one.

OwnShares(map, n, p) ==
  [id \in DOMAIN map |-> Units(Share(map[id].involved_stock, n), p)]

Accounted(n, p) ==
  Units(stock[n], p) + SumFunction(OwnShares(txs[n], n, p)) <= supply[n][p]

FiniteMaps ==
  \A n \in Node : IsFiniteSet(DOMAIN txs[n]) /\ IsFiniteSet(DOMAIN peers[n])

UnitsInv ==
  /\ StoreInv
  /\ FiniteMaps
  /\ \A n \in Node, p \in Product : Accounted(n, p)

LEMMA UnitsAreNat ==
  ASSUME NEW s, IsStock(s), NEW p
  PROVE  Units(s, p) \in Nat
  BY DEF IsStock, Units

\* What is taken from a stock is the difference.
LEMMA UnitsTaken ==
  ASSUME NEW s, NEW d, IsStock(s), IsStock(d), Covers(s, d), NEW p
  PROVE  Units(Take(s, d), p) + Units(d, p) = Units(s, p)
<1>1. \A r \in DOMAIN s : s[r] \in Nat
  BY DEF IsStock
<1>2. \A r \in DOMAIN d : r \in DOMAIN s /\ d[r] \in Nat /\ d[r] <= s[r]
  BY DEF IsStock, Covers
<1>3. QED
  BY <1>1, <1>2 DEF Units, Take

\* A new entry adds its value to the sum of a map.
LEMMA SumOfInsert ==
  ASSUME NEW f, NEW g, IsFiniteSet(DOMAIN f), Nats(f, DOMAIN f),
         NEW key, key \notin DOMAIN f, DOMAIN g = DOMAIN f \cup {key}, g[key] \in Nat,
         \A x \in DOMAIN f : g[x] = f[x]
  PROVE  SumFunction(g) = g[key] + SumFunction(f)
<1>1. Nats(g, DOMAIN f \cup {key})
  BY DEF Nats
<1>2. SumFunctionOnSet(g, DOMAIN f) = SumFunctionOnSet(f, DOMAIN f)
  BY SumSame
<1>3. QED
  BY <1>1, <1>2, SumAdds DEF SumFunction

LEMMA OwnSharesAreNat ==
  ASSUME NEW map, \A id \in DOMAIN map : IsTransaction(map[id]), NEW n \in Node, NEW p
  PROVE  /\ DOMAIN OwnShares(map, n, p) = DOMAIN map
         /\ Nats(OwnShares(map, n, p), DOMAIN map)
<1>1. \A id \in DOMAIN map : IsPlan(map[id].involved_stock)
  BY DEF IsTransaction
<1>2. \A id \in DOMAIN map : Units(Share(map[id].involved_stock, n), p) \in Nat
  BY <1>1, ShareIsStock, UnitsAreNat
<1>3. QED
  BY <1>2 DEF OwnShares, Nats

\* A store records a new purchase and takes d, its share, from its stock.
LEMMA AccountedRecorded ==
  ASSUME UnitsInv, StoreInv', NEW n \in Node, NEW id \in TxId, id \notin DOMAIN txs[n],
         NEW plan, NEW d, IsPlan(plan), IsStock(d), Covers(stock[n], d),
         \A p \in Product : Units(Share(plan, n), p) <= Units(d, p),
         stock' = [stock EXCEPT ![n] = Take(@, d)],
         txs' = [txs EXCEPT ![n] =
                   Insert(@, id, Transaction("AwaitingConfirmation", plan))],
         supply' = supply
  PROVE  /\ \A m \in Node : IsFiniteSet(DOMAIN txs'[m])
         /\ \A m \in Node, p \in Product : Accounted(m, p)'
<1> DEFINE t == Transaction("AwaitingConfirmation", plan)
<1>1. /\ StoreInv /\ IsStock(stock[n]) /\ IsFiniteSet(DOMAIN txs[n])
      /\ stock'[n] = Take(stock[n], d) /\ txs'[n] = Insert(txs[n], id, t)
      /\ \A m \in Node : m # n => stock'[m] = stock[m] /\ txs'[m] = txs[m]
  BY DEF UnitsInv, FiniteMaps, StoreInv, TypesOfRecords, TypesOfUnits
<1>2. /\ DOMAIN txs'[n] = DOMAIN txs[n] \cup {id} /\ txs'[n][id].involved_stock = plan
      /\ \A i \in DOMAIN txs[n] : txs'[n][i] = txs[n][i]
  <2>1. t.involved_stock = plan
    BY DEF Transaction
  <2> HIDE DEF t
  <2>2. QED
    BY <1>1, <2>1 DEF Insert
<1>3. \A m \in Node : IsFiniteSet(DOMAIN txs'[m])
  BY <1>1, <1>2, FS_AddElement DEF UnitsInv, FiniteMaps
<1>4. ASSUME NEW p \in Product
      PROVE  Accounted(n, p)'
  <2> DEFINE f == OwnShares(txs[n], n, p)
             g == OwnShares(txs'[n], n, p)
  <2>1. /\ DOMAIN f = DOMAIN txs[n] /\ Nats(f, DOMAIN f)
        /\ DOMAIN g = DOMAIN txs'[n] /\ Nats(g, DOMAIN g)
    <3>1. /\ \A i \in DOMAIN txs[n] : IsTransaction(txs[n][i])
          /\ \A i \in DOMAIN txs'[n] : IsTransaction(txs'[n][i])
      BY <1>1 DEF StoreInv, TypesOfRecords
    <3>2. QED
      BY <3>1, OwnSharesAreNat
  <2>2. g[id] = Units(Share(plan, n), p) /\ \A i \in DOMAIN txs[n] : g[i] = f[i]
    BY <1>2 DEF OwnShares
  <2>3. Accounted(n, p) <=> Units(stock[n], p) + SumFunction(f) <= supply[n][p]
    BY DEF Accounted
  <2>4. Accounted(n, p)' <=> Units(stock'[n], p) + SumFunction(g) <= supply'[n][p]
    BY DEF Accounted
  <2> HIDE DEF f, g
  <2>5. SumFunction(g) = Units(Share(plan, n), p) + SumFunction(f)
    <3>1. g[id] \in Nat
      BY <1>2, <2>1 DEF Nats
    <3>2. SumFunction(g) = g[id] + SumFunction(f)
      BY <1>1, <1>2, <2>1, <2>2, <3>1, SumOfInsert
    <3>3. QED
      BY <2>2, <3>2
  <2>6. Units(stock'[n], p) + Units(d, p) = Units(stock[n], p)
    BY <1>1, UnitsTaken
  <2>7. /\ Units(stock'[n], p) \in Nat /\ Units(d, p) \in Nat /\ Units(stock[n], p) \in Nat
        /\ Units(Share(plan, n), p) \in Nat /\ SumFunction(f) \in Nat
        /\ supply[n][p] \in Nat
    <3>1. IsStock(stock'[n]) /\ supply[n] \in [Product -> Nat]
      BY <1>1 DEF StoreInv, TypesOfUnits
    <3>2. SumFunctionOnSet(f, DOMAIN f) \in Nat
      BY <1>1, <2>1, SumIsNat
    <3>3. QED
      BY <1>1, <3>1, <3>2, ShareIsStock, UnitsAreNat DEF SumFunction
  <2>8. Units(stock[n], p) + SumFunction(f) <= supply[n][p]
    BY <2>3 DEF UnitsInv
  <2>9. Units(Share(plan, n), p) <= Units(d, p)
    OBVIOUS
  <2>10. QED
    BY <2>4, <2>5, <2>6, <2>7, <2>8, <2>9
<1>5. ASSUME NEW m \in Node, m # n, NEW p \in Product
      PROVE  Accounted(m, p)'
  <2>1. Accounted(m, p)
    BY DEF UnitsInv
  <2>2. QED
    BY <1>1, <1>5, <2>1 DEF Accounted, OwnShares
<1>6. QED
  BY <1>3, <1>4, <1>5

\* The transactions of a store change only in their states.
SharesKept ==
  \A m \in Node :
    /\ DOMAIN txs'[m] = DOMAIN txs[m]
    /\ \A i \in DOMAIN txs[m] : txs'[m][i].involved_stock = txs[m][i].involved_stock

LEMMA SharesMarked ==
  ASSUME StoreInv, NEW n \in Node, NEW id \in TxId, NEW s, txs' = Marked(n, id, s)
  PROVE  SharesKept
<1>1. CASE id \notin DOMAIN txs[n]
  BY <1>1 DEF Marked, SharesKept
<1>2. CASE id \in DOMAIN txs[n]
  <2>1. /\ txs'[n] = Insert(txs[n], id, Transaction(s, txs[n][id].involved_stock))
        /\ \A m \in Node : m # n => txs'[m] = txs[m]
    BY <1>2 DEF StoreInv, TypesOfRecords, Marked
  <2>2. /\ DOMAIN txs'[n] = DOMAIN txs[n]
        /\ \A i \in DOMAIN txs[n] :
             txs'[n][i].involved_stock = txs[n][i].involved_stock
    BY <1>2, <2>1 DEF Insert, Transaction
  <2>3. QED
    BY <2>1, <2>2 DEF SharesKept
<1>3. QED
  BY <1>1, <1>2

\* As many units leave (or enter) the stock as leave (or enter) the supply.
UnitsMove ==
  \A n \in Node, p \in Product :
    \/ Units(stock'[n], p) = Units(stock[n], p) /\ supply'[n][p] = supply[n][p]
    \/ \E d \in Nat : /\ Units(stock'[n], p) + d = Units(stock[n], p)
                      /\ supply'[n][p] + d = supply[n][p]
    \/ \E d \in Nat : /\ Units(stock'[n], p) = Units(stock[n], p) + d
                      /\ supply'[n][p] = supply[n][p] + d

LEMMA AccountedKept ==
  ASSUME UnitsInv, StoreInv', SharesKept, UnitsMove
  PROVE  /\ \A n \in Node : IsFiniteSet(DOMAIN txs'[n])
         /\ \A n \in Node, p \in Product : Accounted(n, p)'
<1>1. \A n \in Node : IsFiniteSet(DOMAIN txs'[n])
  BY DEF SharesKept, UnitsInv, FiniteMaps
<1>2. ASSUME NEW n \in Node, NEW p \in Product
      PROVE  Accounted(n, p)'
  <2> DEFINE sum == SumFunction(OwnShares(txs[n], n, p))
  <2>1. OwnShares(txs'[n], n, p) = OwnShares(txs[n], n, p)
    BY DEF SharesKept, OwnShares
  <2>2. sum \in Nat
    <3>1. \A i \in DOMAIN txs[n] : IsTransaction(txs[n][i])
      BY DEF UnitsInv, StoreInv, TypesOfRecords
    <3>2. IsFiniteSet(DOMAIN txs[n])
      BY DEF UnitsInv, FiniteMaps
    <3>3. QED
      BY <3>1, <3>2, OwnSharesAreNat, SumIsNat DEF SumFunction
  <2>3. Units(stock[n], p) + sum <= supply[n][p]
    BY DEF UnitsInv, Accounted
  <2>4. Accounted(n, p)' <=> Units(stock'[n], p) + sum <= supply'[n][p]
    BY <2>1 DEF Accounted
  <2> HIDE DEF sum
  <2>5. /\ Units(stock[n], p) \in Nat /\ Units(stock'[n], p) \in Nat
        /\ supply[n][p] \in Nat /\ supply'[n][p] \in Nat
    BY UnitsAreNat DEF UnitsInv, StoreInv, TypesOfUnits
  <2>6. QED
    BY <2>2, <2>3, <2>4, <2>5 DEF UnitsMove
<1>3. QED
  BY <1>1, <1>2

\* A store comes to know one peer at a time.
LEMMA PeersStayFinite ==
  ASSUME FiniteMaps,
         \A m \in Node : \E r : DOMAIN peers'[m] \subseteq DOMAIN peers[m] \cup {r}
  PROVE  \A m \in Node : IsFiniteSet(DOMAIN peers'[m])
<1> SUFFICES ASSUME NEW m \in Node
             PROVE  IsFiniteSet(DOMAIN peers'[m])
  OBVIOUS
<1>1. PICK r : DOMAIN peers'[m] \subseteq DOMAIN peers[m] \cup {r}
  OBVIOUS
<1>2. IsFiniteSet(DOMAIN peers[m] \cup {r})
  BY FS_AddElement DEF FiniteMaps
<1>3. QED
  BY <1>1, <1>2, FS_Subset

LEMMA RequestUnits ==
  ASSUME UnitsInv, NEW n \in Node, NEW id \in TxId, NEW p \in Product, NEW q \in Nat,
         id \notin DOMAIN txs[n], Request(n, id, p, q)
  PROVE  UnitsInv'
<1>1. PICK plan \in Plans(n, p, q) :
        /\ stock' = [stock EXCEPT ![n] = Take(@, Share(plan, n))]
        /\ peers' = [peers EXCEPT ![n] = TakeFromPeers(n, plan)]
        /\ txs' = [txs EXCEPT ![n] =
                     Insert(@, id, Transaction("AwaitingConfirmation", plan))]
  BY DEF Request
<1>2. StoreInv /\ StoreInv' /\ supply' = supply
  BY RequestTypes DEF UnitsInv, Request
<1>3. IsPlan(plan) /\ Covers(stock[n], Share(plan, n)) /\ IsStock(Share(plan, n))
  BY <1>2, PlanFacts, ShareIsStock, InvariantImplies
<1>4. \A r \in Product : Units(Share(plan, n), r) <= Units(Share(plan, n), r)
  BY <1>3, UnitsAreNat
<1>5. /\ \A m \in Node : IsFiniteSet(DOMAIN txs'[m])
      /\ \A m \in Node, r \in Product : Accounted(m, r)'
  BY <1>1, <1>2, <1>3, <1>4, AccountedRecorded
<1>6. \A m \in Node : DOMAIN peers'[m] = DOMAIN peers[m]
  BY <1>1, <1>2 DEF TakeFromPeers, StoreInv, TypesOfRecords
<1>7. \A m \in Node : IsFiniteSet(DOMAIN peers'[m])
  BY <1>6 DEF UnitsInv, FiniteMaps
<1>8. QED
  BY <1>2, <1>5, <1>7 DEF UnitsInv, FiniteMaps

LEMMA AskUnits ==
  ASSUME UnitsInv, NEW n \in Node, NEW id \in TxId, NEW d, IsStock(d),
         id \notin DOMAIN txs[n], AskAccepted(n, id, d)
  PROVE  UnitsInv'
<1>1. /\ StoreInv' /\ IsPlan(Empty) /\ Covers(stock[n], d)
      /\ stock' = [stock EXCEPT ![n] = Take(@, d)]
      /\ txs' = [txs EXCEPT ![n] =
                   Insert(@, id, Transaction("AwaitingConfirmation", Empty))]
      /\ supply' = supply /\ peers' = peers
  BY AskTypes, EmptyIsStock DEF UnitsInv, AskAccepted
<1>2. \A r \in Product : Units(Share(Empty, n), r) <= Units(d, r)
  BY UnitsAreNat DEF Share, Empty, Units
<1>3. /\ \A m \in Node : IsFiniteSet(DOMAIN txs'[m])
      /\ \A m \in Node, r \in Product : Accounted(m, r)'
  BY <1>1, <1>2, AccountedRecorded
<1>4. QED
  BY <1>1, <1>3 DEF UnitsInv, FiniteMaps

\* A cancelled purchase leaves the store's own stock as it is.
LEMMA DecisionUnits ==
  ASSUME UnitsInv, NEW n \in Node, NEW id \in TxId,
         Confirm(n, id) \/ Commit(n, id) \/ Cancel(n, id)
  PROVE  UnitsInv'
<1>1. StoreInv /\ StoreInv'
  BY ConfirmTypes, CommitTypes, CancelTypes DEF UnitsInv
<1>2. SharesKept
  <2>1. txs' = txs \/ \E s : txs' = Marked(n, id, s)
    BY DEF Confirm, Commit, Cancel, CancelKnown, CancelUnknown, CancelPanics, storeVars
  <2>2. QED
    BY <1>1, <2>1, SharesMarked DEF SharesKept
<1>3. stock' = stock /\ supply' = supply
  BY DEF Confirm, Commit, Cancel, CancelKnown, CancelUnknown, CancelPanics, storeVars
<1>4. /\ \A m \in Node : IsFiniteSet(DOMAIN txs'[m])
      /\ \A m \in Node, p \in Product : Accounted(m, p)'
  BY <1>1, <1>2, <1>3, AccountedKept DEF UnitsMove
<1>5. \A m \in Node : DOMAIN peers'[m] = DOMAIN peers[m]
  BY <1>1
  DEF Confirm, Commit, Cancel, CancelKnown, CancelUnknown, CancelPanics, storeVars,
      GiveToPeers, StoreInv, TypesOfRecords
<1>6. QED
  BY <1>1, <1>4, <1>5 DEF UnitsInv, FiniteMaps

LEMMA LocalRequestMoves ==
  ASSUME StoreInv, NEW n \in Node, NEW orders \in LocalOrders, LocalRequest(n, orders)
  PROVE  UnitsMove
<1>1. PICK d : /\ IsStock(d) /\ Covers(stock[n], d)
               /\ stock' = [stock EXCEPT ![n] = Take(@, d)]
               /\ supply' = [supply EXCEPT ![n] = Take(@, d)]
  BY BatchIsCovered
<1>2. ASSUME NEW p \in Product
      PROVE  /\ Units(stock'[n], p) + Units(d, p) = Units(stock[n], p)
             /\ supply'[n][p] + Units(d, p) = supply[n][p]
             /\ Units(d, p) \in Nat
  <2>1. /\ stock'[n] = Take(stock[n], d) /\ supply'[n] = Take(supply[n], d)
        /\ IsStock(stock[n]) /\ p \in DOMAIN supply[n]
        /\ supply[n][p] \in Nat
    BY <1>1 DEF StoreInv, TypesOfUnits
  <2>2. Units(d, p) \in Nat
    BY <1>1, UnitsAreNat
  <2>3. supply'[n][p] = supply[n][p] - Units(d, p)
    BY <2>1 DEF Take, Units
  <2>4. QED
    BY <1>1, <2>1, <2>2, <2>3, UnitsTaken
<1>3. \A m \in Node \ {n} : stock'[m] = stock[m] /\ supply'[m] = supply[m]
  BY <1>1 DEF StoreInv, TypesOfUnits
<1>4. QED
  BY <1>2, <1>3 DEF UnitsMove

LEMMA LocalRequestUnits ==
  ASSUME UnitsInv, NEW n \in Node, NEW orders \in LocalOrders, LocalRequest(n, orders)
  PROVE  UnitsInv'
<1>1. StoreInv /\ StoreInv' /\ txs' = txs /\ peers' = peers
  BY LocalRequestTypes DEF UnitsInv, LocalRequest
<1>2. SharesKept
  BY <1>1 DEF SharesKept
<1>3. /\ \A m \in Node : IsFiniteSet(DOMAIN txs'[m])
      /\ \A m \in Node, p \in Product : Accounted(m, p)'
  BY <1>1, <1>2, LocalRequestMoves, AccountedKept
<1>4. QED
  BY <1>1, <1>3 DEF UnitsInv, FiniteMaps

LEMMA AddStockMoves ==
  ASSUME StoreInv, NEW n \in Node, NEW p \in Product, NEW q \in Qty, AddStock(n, p, q)
  PROVE  UnitsMove
<1>1. q \in Nat
  BY QtyAssumption
<1>2. /\ stock'[n] = Insert(stock[n], p, Units(stock[n], p) + q)
      /\ supply'[n][p] = supply[n][p] + q
      /\ \A r \in Product \ {p} : supply'[n][r] = supply[n][r]
      /\ \A m \in Node \ {n} : stock'[m] = stock[m] /\ supply'[m] = supply[m]
  BY DEF AddStock, Units, StoreInv, TypesOfUnits
<1>3. /\ Units(stock'[n], p) = Units(stock[n], p) + q
      /\ \A r \in Product \ {p} : Units(stock'[n], r) = Units(stock[n], r)
  BY <1>2 DEF Insert, Units
<1>4. QED
  BY <1>1, <1>2, <1>3 DEF UnitsMove

LEMMA AddStockUnits ==
  ASSUME UnitsInv, NEW n \in Node, NEW p \in Product, NEW q \in Qty, AddStock(n, p, q)
  PROVE  UnitsInv'
<1>1. StoreInv /\ StoreInv' /\ txs' = txs /\ peers' = peers
  BY AddStockTypes DEF UnitsInv, AddStock
<1>2. SharesKept
  BY <1>1 DEF SharesKept
<1>3. /\ \A m \in Node : IsFiniteSet(DOMAIN txs'[m])
      /\ \A m \in Node, r \in Product : Accounted(m, r)'
  BY <1>1, <1>2, AddStockMoves, AccountedKept
<1>4. QED
  BY <1>1, <1>3 DEF UnitsInv, FiniteMaps

\* What a store believes of another has no part in it.
LEMMA BeliefUnits ==
  ASSUME UnitsInv, StoreInv', UNCHANGED <<stock, txs, supply>>,
         \A m \in Node : \E r : DOMAIN peers'[m] \subseteq DOMAIN peers[m] \cup {r}
  PROVE  UnitsInv'
<1>1. \A m \in Node : IsFiniteSet(DOMAIN peers'[m])
  BY PeersStayFinite DEF UnitsInv
<1>2. QED
  BY <1>1 DEF UnitsInv, FiniteMaps, Accounted

LEMMA UpdateUnits ==
  ASSUME UnitsInv, NEW n \in Node, NEW m \in Node \ {n}, NEW s, IsStock(s), Update(n, m, s)
  PROVE  UnitsInv'
<1>1. StoreInv'
  BY UpdateTypes DEF UnitsInv
<1>2. \A r \in Node : DOMAIN peers'[r] \subseteq DOMAIN peers[r] \cup {m}
  BY DEF Update, Insert, UnitsInv, StoreInv, TypesOfRecords
<1>3. QED
  BY <1>1, <1>2, BeliefUnits DEF Update

LEMMA ShutdownUnits ==
  ASSUME UnitsInv, NEW n \in Node, NEW m \in Node, Shutdown(n, m)
  PROVE  UnitsInv'
<1>1. StoreInv'
  BY ShutdownTypes DEF UnitsInv
<1>2. \A r \in Node : DOMAIN peers'[r] \subseteq DOMAIN peers[r] \cup {m}
  BY DEF Shutdown, Insert, UnitsInv, StoreInv, TypesOfRecords
<1>3. QED
  BY <1>1, <1>2, BeliefUnits DEF Shutdown

LEMMA UnitsUnchanged ==
  ASSUME UnitsInv, UNCHANGED storeVars
  PROVE  UnitsInv'
<1>1. StoreInv'
  BY StoreUnchanged DEF UnitsInv
<1>2. QED
  BY <1>1, BeliefUnits DEF storeVars

LEMMA UnitsInitially == StoreInit => UnitsInv
<1> SUFFICES ASSUME StoreInit PROVE UnitsInv
  OBVIOUS
<1>1. StoreInv
  BY StoreInitially
<1>2. \A n \in Node : DOMAIN txs[n] = {} /\ DOMAIN peers[n] = {}
  BY DEF StoreInit, Empty
<1>3. FiniteMaps
  BY <1>2, FS_EmptySet DEF FiniteMaps
<1>4. ASSUME NEW n \in Node, NEW p \in Product
      PROVE  Accounted(n, p)
  <2>1. DOMAIN OwnShares(txs[n], n, p) = {}
    BY <1>2 DEF OwnShares
  <2>2. SumFunction(OwnShares(txs[n], n, p)) = 0
    BY <2>1, SumOfNone DEF SumFunction
  <2>3. Units(stock[n], p) = 0 /\ supply[n][p] = 0
    BY DEF StoreInit, Empty, Units
  <2>4. QED
    BY <2>2, <2>3 DEF Accounted
<1>5. QED
  BY <1>1, <1>3, <1>4 DEF UnitsInv

LEMMA UnitsInductive == UnitsInv /\ [StoreNext]_storeVars => UnitsInv'
<1> SUFFICES ASSUME UnitsInv, [StoreNext]_storeVars PROVE UnitsInv'
  OBVIOUS
<1>1. CASE UNCHANGED storeVars
  BY <1>1, UnitsUnchanged
<1>2. ASSUME NEW n \in Node, StoreStep(n)
      PROVE  UnitsInv'
  <2>1. ASSUME NEW p \in Product, NEW q \in Qty, AddStock(n, p, q)
        PROVE  UnitsInv'
    BY <2>1, AddStockUnits
  <2>2. ASSUME NEW orders \in LocalOrders, LocalRequest(n, orders)
        PROVE  UnitsInv'
    BY <2>2, LocalRequestUnits
  <2>3. ASSUME NEW m \in Node \ {n}, NEW s \in Announced, Update(n, m, s)
        PROVE  UnitsInv'
    BY <2>3, UpdateUnits, AnnouncedIsStock
  <2>4. ASSUME NEW m \in Node \ {n}, Shutdown(n, m)
        PROVE  UnitsInv'
    BY <2>4, ShutdownUnits
  <2>5. ASSUME NEW id \in TxId, NEW p \in Product, NEW q \in Qty,
               id \notin DOMAIN txs[n], Request(n, id, p, q)
        PROVE  UnitsInv'
    BY <2>5, RequestUnits, QtyAssumption
  <2>6. ASSUME NEW id \in TxId, NEW d \in Announced,
               id \notin DOMAIN txs[n], AskAccepted(n, id, d)
        PROVE  UnitsInv'
    BY <2>6, AskUnits, AnnouncedIsStock
  <2>7. ASSUME NEW d \in Announced, AskRefused(n, d)
        PROVE  UnitsInv'
    BY <2>7, UnitsUnchanged DEF AskRefused
  <2>8. ASSUME NEW id \in TxId, Confirm(n, id) \/ Commit(n, id) \/ Cancel(n, id)
        PROVE  UnitsInv'
    BY <2>8, DecisionUnits
  <2>9. QED
    BY <1>2, <2>1, <2>2, <2>3, <2>4, <2>5, <2>6, <2>7, <2>8 DEF StoreStep
<1>3. QED
  BY <1>1, <1>2 DEF StoreNext

\* The live purchases are some of all.
LEMMA UnitsAreAccounted == UnitsInv => NoUnitPromisedTwice
<1> SUFFICES ASSUME UnitsInv, NEW n \in Node, NEW p \in Product
             PROVE  Units(stock[n], p) + UnitsHeld(n, p) <= supply[n][p]
  BY DEF NoUnitPromisedTwice
<1> DEFINE all == DOMAIN txs[n]
           held == {id \in all : txs[n][id].state # "Cancelled"}
           f == OwnShares(txs[n], n, p)
           g == [id \in held |-> Units(Share(txs[n][id].involved_stock, n), p)]
           h == [id \in all |-> IF id \in held THEN f[id] ELSE 0]
<1>1. StoreInv /\ IsFiniteSet(all) /\ DOMAIN f = all /\ Nats(f, all)
  <2>1. StoreInv /\ \A i \in all : IsTransaction(txs[n][i])
    BY DEF UnitsInv, StoreInv, TypesOfRecords
  <2>2. QED
    BY <2>1, OwnSharesAreNat DEF UnitsInv, FiniteMaps
<1>2. UnitsHeld(n, p) = SumFunctionOnSet(g, held)
  BY DEF UnitsHeld
<1>3. held \in SUBSET all /\ IsFiniteSet(held)
  BY <1>1, FS_Subset
<1>4. \A id \in held : g[id] = h[id]
  BY DEF OwnShares
<1>5. \A id \in all : h[id] = IF id \in held THEN f[id] ELSE 0
  OBVIOUS
<1> HIDE DEF all, held, g, h, f
<1>6. Nats(h, all) /\ Nats(g, held) /\ \A id \in all : h[id] <= f[id]
  BY <1>1, <1>3, <1>4, <1>5 DEF Nats
<1>7. SumFunctionOnSet(g, held) = SumFunctionOnSet(h, held)
  BY <1>3, <1>4, <1>6, SumSame
<1>8. SumFunctionOnSet(h, all) = SumFunctionOnSet(h, held)
  BY <1>1, <1>3, <1>5, <1>6, SumExtends
<1>9. SumFunctionOnSet(h, all) <= SumFunctionOnSet(f, all)
  BY <1>1, <1>6, SumMonotonic
<1>10. Units(stock[n], p) + SumFunctionOnSet(f, all) <= supply[n][p]
  BY <1>1 DEF UnitsInv, Accounted, SumFunction, f, all
<1>11. /\ Units(stock[n], p) \in Nat /\ supply[n][p] \in Nat
       /\ SumFunctionOnSet(h, all) \in Nat /\ SumFunctionOnSet(f, all) \in Nat
  <2>1. IsStock(stock[n]) /\ supply[n] \in [Product -> Nat]
    BY <1>1 DEF StoreInv, TypesOfUnits
  <2>2. QED
    BY <1>1, <1>6, <2>1, UnitsAreNat, SumIsNat
<1>12. QED
  BY <1>2, <1>7, <1>8, <1>9, <1>10, <1>11

\* What a store still has and what its own live purchases hold never exceed
\* what its operator put on sale, in whatever order the confirmations, commits
\* and cancellations come, for any number of purchases.
THEOREM UnitsPromisedOnce == StoreSpec => []NoUnitPromisedTwice
  BY UnitsInitially, UnitsInductive, UnitsAreAccounted, PTL DEF StoreSpec

-----------------------------------------------------------------------------
\* A plan serves the order.

LEMMA OneUnits ==
  ASSUME NEW p, NEW q
  PROVE  Units(One(p, q), p) = q /\ Units(Empty, p) = 0
  BY DEF Units, One, Empty

\* The supplier gives what the store lacks, the store all it has.
LEMMA RemotePlanServes ==
  ASSUME StoreInv, FiniteMaps, NEW n \in Node, NEW p \in Product, NEW q \in Nat,
         ~CoveredLocally(n, p, q), NEW s \in Suppliers(n, p, q),
         NEW plan, plan = RemotePlan(n, p, q, s)
  PROVE  /\ SumFunction([m \in DOMAIN plan |-> Units(plan[m], p)]) = q
         /\ Units(Share(plan, n), p) = Units(stock[n], p)
         /\ DOMAIN plan \subseteq DOMAIN peers[n] \cup {n}
<1> DEFINE D == DOMAIN plan
           f == [m \in D |-> Units(plan[m], p)]
<1>1. /\ IsStock(stock[n]) /\ n \notin DOMAIN peers[n]
      /\ IsFiniteSet(DOMAIN peers[n])
  BY DEF StoreInv, TypesOfRecords, TypesOfUnits, FiniteMaps
<1>2. /\ s \in D /\ s # n
      /\ D \subseteq DOMAIN peers[n] \cup {n}
      /\ n \in D <=> p \in DOMAIN stock[n]
  BY <1>1 DEF RemotePlan, Suppliers, Online
<1>3. IsFiniteSet(D) /\ IsFiniteSet(D \ {s})
  <2>1. IsFiniteSet(DOMAIN peers[n] \cup {n})
    BY <1>1, FS_AddElement
  <2>2. IsFiniteSet(D)
    BY <1>2, <2>1, FS_Subset
  <2>3. QED
    BY <2>2, FS_RemoveElement
<1>4. /\ f[s] = Shortfall(n, p, q)
      /\ n \in D => f[n] = stock[n][p]
      /\ \A m \in D \ {s, n} : f[m] = 0
  BY <1>2, OneUnits DEF RemotePlan
<1>5. p \in DOMAIN stock[n] => stock[n][p] \in Nat
  BY <1>1 DEF IsStock
<1>6. /\ Shortfall(n, p, q) \in Nat
      /\ p \in DOMAIN stock[n] => Shortfall(n, p, q) + stock[n][p] = q
      /\ p \notin DOMAIN stock[n] => Shortfall(n, p, q) = q
  BY <1>5 DEF Shortfall, CoveredLocally
<1>7. Units(Share(plan, n), p) = Units(stock[n], p)
  <2>1. n \in D => Units(plan[n], p) = stock[n][p]
    BY <1>4
  <2>2. QED
    BY <1>2, <2>1, OneUnits DEF Share, Units
<1>8. Nats(f, D)
  BY <1>2, <1>4, <1>5, <1>6 DEF Nats
<1> HIDE DEF f, D
<1>9. SumFunctionOnSet(f, D) = f[s] + SumFunctionOnSet(f, D \ {s})
  BY <1>2, <1>3, <1>8, SumSplits
<1>10. CASE n \in D
  <2>1. n \in D \ {s} /\ f[n] \in Nat /\ \A m \in (D \ {s}) \ {n} : f[m] = 0
    BY <1>2, <1>4, <1>5, <1>10
  <2>2. SumFunctionOnSet(f, D \ {s}) = f[n]
    BY <1>3, <2>1, SumOfOne
  <2>3. SumFunctionOnSet(f, D) = q
    BY <1>2, <1>4, <1>5, <1>6, <1>9, <1>10, <2>2
  <2>4. QED
    BY <1>2, <1>7, <2>3 DEF SumFunction, f, D
<1>11. CASE n \notin D
  <2>1. \A m \in D \ {s} : f[m] = 0
    BY <1>4, <1>11
  <2>2. SumFunctionOnSet(f, D \ {s}) = 0
    BY <1>3, <2>1, SumOfZeros
  <2>3. SumFunctionOnSet(f, D) = q
    BY <1>2, <1>4, <1>6, <1>9, <1>11, <2>2
  <2>4. QED
    BY <1>2, <1>7, <2>3 DEF SumFunction, f, D
<1>12. QED
  BY <1>10, <1>11

LEMMA PlansServe == UnitsInv => PlanServesOrder
<1> SUFFICES ASSUME UnitsInv, NEW n \in Node, NEW p \in Product, NEW q \in Qty,
                    NEW plan \in Plans(n, p, q)
             PROVE  /\ SumFunction([m \in DOMAIN plan |-> Units(plan[m], p)]) = q
                    /\ \A m \in DOMAIN plan \ {n} :
                         /\ Covers(peers[n][m].stock, plan[m])
                         /\ Units(plan[m], p) > 0 =>
                              Units(Share(plan, n), p) = Units(stock[n], p)
  BY DEF PlanServesOrder
<1>1. q \in Nat /\ StoreInv /\ FiniteMaps /\ StoreTypeOK
  BY QtyAssumption, InvariantImplies DEF UnitsInv
<1>2. \A m \in DOMAIN peers[n] : Covers(peers[n][m].stock, Share(plan, m))
  BY <1>1, PlanFacts
<1>3. CASE CoveredLocally(n, p, q)
  <2>1. plan = One(n, One(p, q))
    BY <1>3 DEF Plans
  <2>2. DOMAIN plan = {n} /\ plan[n] = One(p, q)
    BY <2>1 DEF One
  <2> DEFINE f == [m \in DOMAIN plan |-> Units(plan[m], p)]
  <2>3. DOMAIN f = {n} /\ f[n] = q
    BY <2>2, OneUnits
  <2> HIDE DEF f
  <2>4. SumFunctionOnSet(f, {n}) = f[n]
    BY <1>1, <2>3, FS_Singleton, SumOfOne
  <2>5. SumFunction(f) = q
    BY <2>3, <2>4 DEF SumFunction
  <2>6. QED
    BY <2>2, <2>5 DEF f
<1>4. CASE ~CoveredLocally(n, p, q)
  <2>1. PICK s \in Suppliers(n, p, q) : plan = RemotePlan(n, p, q, s)
    BY <1>4 DEF Plans
  <2>2. /\ SumFunction([m \in DOMAIN plan |-> Units(plan[m], p)]) = q
        /\ Units(Share(plan, n), p) = Units(stock[n], p)
        /\ DOMAIN plan \subseteq DOMAIN peers[n] \cup {n}
    BY <1>1, <1>4, <2>1, RemotePlanServes
  <2>3. \A m \in DOMAIN plan \ {n} : Covers(peers[n][m].stock, plan[m])
    BY <1>2, <2>2 DEF Share
  <2>4. QED
    BY <2>2, <2>3
<1>5. QED
  BY <1>3, <1>4

\* A plan is for as many units as were ordered, uses up the store's own stock
\* before any peer's, and asks no peer for more than it is believed to have,
\* for any number of peers, products and quantities.
THEOREM PlansServeOrders == StoreSpec => []PlanServesOrder
  BY UnitsInitially, UnitsInductive, PlansServe, PTL DEF StoreSpec
=============================================================================
