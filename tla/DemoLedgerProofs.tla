-------------------------- MODULE DemoLedgerProofs --------------------------
(***************************************************************************)
(* Facts about sums over finite sets, as the models write them, and about  *)
(* the ledger of the demo: what a payment and a refund do to the sums that *)
(* the operations look at. A sum is of the values of a function, whichever *)
(* element the recursion of the fold takes first. Induction over a finite  *)
(* set is stated with the set of its good subsets in place of a predicate. *)
(***************************************************************************)
EXTENDS DemoCommerce, FiniteSetTheorems, SequenceTheorems, TLAPS

SumOf(F, S) == MapThenSumSet(LAMBDA i : F[i], S)

-----------------------------------------------------------------------------
(* Induction.                                                              *)

LEMMA LeastIndex ==
  ASSUME NEW I \in SUBSET Nat, I # {}
  PROVE  Min(I) \in I /\ \A j \in I : Min(I) <= j
<1>1. PICK i \in I : \A j \in I : ~(<<j, i>> \in OpToRel(<, Nat))
  BY NatLessThanWellFounded, WFMin
<1>2. ASSUME NEW j \in Nat, NEW k \in Nat, ~(<<j, k>> \in OpToRel(<, Nat)) PROVE ~(j < k)
  BY <1>2 DEF OpToRel
<1>3. ASSUME NEW j \in I PROVE ~(j < i)
  BY <1>1, <1>2
<1>4. \A j \in I : i <= j
  BY <1>3
<1> QED
  BY <1>4 DEF Min

\* Every subset is good if each one is good whose proper subsets are.
LEMMA SubsetInduction ==
  ASSUME NEW S, IsFiniteSet(S), NEW Good,
         \A s \in SUBSET S : (\A t \in SUBSET s : t # s => t \in Good) => s \in Good
  PROVE  \A s \in SUBSET S : s \in Good
<1> SUFFICES ASSUME NEW s0 \in SUBSET S, s0 \notin Good PROVE FALSE
  OBVIOUS
<1> DEFINE Bad == {s \in SUBSET S : s \notin Good}
           sizes == {Cardinality(s) : s \in Bad}
<1>1. \A s \in SUBSET S : IsFiniteSet(s) /\ Cardinality(s) \in Nat
  BY FS_Subset, FS_CardinalityType
<1>2. sizes \in SUBSET Nat /\ sizes # {}
  BY <1>1
<1>3. PICK k \in sizes : \A j \in sizes : k <= j
  BY <1>2, LeastIndex
<1>4. PICK s \in Bad : Cardinality(s) = k
  BY <1>3
<1>5. ASSUME NEW t \in SUBSET s, t # s PROVE t \in Good
  <2>1. Cardinality(t) <= Cardinality(s) /\ Cardinality(t) # Cardinality(s)
    BY <1>1, <1>4, <1>5, FS_Subset
  <2>2. t \in SUBSET S /\ Cardinality(t) \in Nat /\ k \in Nat
    BY <1>1, <1>2, <1>4
  <2>3. ~(k <= Cardinality(t))
    BY <1>4, <2>1, <2>2
  <2> QED
    BY <1>3, <2>2, <2>3
<1> QED
  BY <1>4, <1>5

-----------------------------------------------------------------------------
(* The recursion of the fold.                                              *)

Chosen(s) == CHOOSE x \in s : TRUE

Adds(g, F, S) ==
  g = [s \in SUBSET S |-> IF s = {} THEN 0 ELSE F[Chosen(s)] + g[s \ {Chosen(s)}]]

LEMMA ChosenIsIn == ASSUME NEW s, s # {} PROVE Chosen(s) \in s
BY DEF Chosen

LEMMA AddsStep ==
  ASSUME NEW F, NEW S, NEW g, Adds(g, F, S), NEW s \in SUBSET S
  PROVE  g[s] = IF s = {} THEN 0 ELSE F[Chosen(s)] + g[s \ {Chosen(s)}]
BY DEF Adds

\* Two solutions agree where their functions do.
LEMMA AddsAgree ==
  ASSUME NEW S, IsFiniteSet(S), NEW T, S \subseteq T, NEW F, NEW G, \A i \in S : F[i] = G[i],
         NEW g, Adds(g, F, S), NEW h, Adds(h, G, T)
  PROVE  \A s \in SUBSET S : g[s] = h[s]
<1> DEFINE Good == {s \in SUBSET S : g[s] = h[s]}
<1>1. ASSUME NEW s \in SUBSET S, \A t \in SUBSET s : t # s => t \in Good PROVE s \in Good
  <2>1. CASE s = {}
    <3>1. g[s] = 0 /\ h[s] = 0
      BY <2>1, AddsStep
    <3> QED
      BY <3>1
  <2>2. CASE s # {}
    <3>1. Chosen(s) \in s
      BY <2>2, ChosenIsIn
    <3>2. g[s \ {Chosen(s)}] = h[s \ {Chosen(s)}]
      BY <1>1, <3>1
    <3>3. g[s] = F[Chosen(s)] + g[s \ {Chosen(s)}]
      <4>1. g[s] = IF s = {} THEN 0 ELSE F[Chosen(s)] + g[s \ {Chosen(s)}]
        BY Zenon DEF Adds
      <4> QED
        BY <2>2, <4>1
    <3>4. s \in SUBSET T
      OBVIOUS
    <3>5. h[s] = G[Chosen(s)] + h[s \ {Chosen(s)}]
      BY <2>2, <3>4, AddsStep
    <3>6. F[Chosen(s)] = G[Chosen(s)]
      BY <3>1
    <3> QED
      BY <3>2, <3>3, <3>5, <3>6
  <2> QED
    BY <2>1, <2>2
<1> HIDE DEF Good
<1>2. \A s \in SUBSET S : s \in Good
  BY <1>1, SubsetInduction
<1> QED
  BY <1>2 DEF Good

LEMMA SumIsSolution ==
  ASSUME NEW F, NEW S, \E g : Adds(g, F, S)
  PROVE  \E g : Adds(g, F, S) /\ SumOf(F, S) = g[S]
<1>1. SumOf(F, S) = (CHOOSE g : Adds(g, F, S))[S]
  BY DEF SumOf, MapThenSumSet, MapThenFoldSet, Adds, Chosen
<1>2. PICK h : Adds(h, F, S)
  OBVIOUS
<1>3. Adds(CHOOSE g : Adds(g, F, S), F, S)
  BY <1>2, Zenon
<1> QED
  BY <1>1, <1>3

LEMMA SolutionRestricted ==
  ASSUME NEW F, NEW T, NEW S \in SUBSET T, NEW g, Adds(g, F, T)
  PROVE  Adds([s \in SUBSET S |-> g[s]], F, S)
<1> DEFINE h == [s \in SUBSET S |-> g[s]]
<1>1. ASSUME NEW s \in SUBSET S
      PROVE  h[s] = IF s = {} THEN 0 ELSE F[Chosen(s)] + h[s \ {Chosen(s)}]
  <2>1. s \in SUBSET T /\ s \ {Chosen(s)} \in SUBSET S
    OBVIOUS
  <2>2. h[s] = g[s] /\ h[s \ {Chosen(s)}] = g[s \ {Chosen(s)}]
    BY <2>1
  <2> QED
    BY <2>1, <2>2, AddsStep
<1>2. h = [s \in SUBSET S |-> IF s = {} THEN 0 ELSE F[Chosen(s)] + h[s \ {Chosen(s)}]]
  BY <1>1
<1> QED
  BY <1>2 DEF Adds

\* The fold of a finite set has a solution, and a sum is any solution's value.
LEMMA SolutionExists ==
  ASSUME NEW S, IsFiniteSet(S), NEW F
  PROVE  \E g : Adds(g, F, S)
<1> DEFINE Good == {s \in SUBSET S : \E g : Adds(g, F, s)}
<1>1. ASSUME NEW s \in SUBSET S, \A t \in SUBSET s : t # s => t \in Good PROVE s \in Good
  <2> DEFINE h == [t \in SUBSET s |-> IF t = {} THEN 0
                                      ELSE F[Chosen(t)] + SumOf(F, t \ {Chosen(t)})]
  <2>1. ASSUME NEW u \in SUBSET s, u # s PROVE SumOf(F, u) = h[u]
    <3>1. PICK g : Adds(g, F, u) /\ SumOf(F, u) = g[u]
      <4>1. \E g : Adds(g, F, u)
        BY <1>1, <2>1
      <4> QED
        BY <4>1, SumIsSolution
    <3>2. g[u] = IF u = {} THEN 0 ELSE F[Chosen(u)] + g[u \ {Chosen(u)}]
      BY <3>1, AddsStep
    <3>3. CASE u = {}
      BY <3>1, <3>2, <3>3
    <3>4. CASE u # {}
      <4> DEFINE v == u \ {Chosen(u)}
      <4>1. v \in SUBSET u /\ v \in SUBSET s /\ v # s
        BY <2>1, <3>4, ChosenIsIn
      <4>2. PICK k : Adds(k, F, v) /\ SumOf(F, v) = k[v]
        <5>1. \E k : Adds(k, F, v)
          BY <1>1, <4>1
        <5> QED
          BY <5>1, SumIsSolution
      <4>3. IsFiniteSet(v)
        BY <4>1, FS_Subset
      <4>4. k[v] = g[v]
        <5> HIDE DEF v
        <5>1. v \in SUBSET v /\ v \subseteq u /\ \A i \in v : F[i] = F[i]
          BY <4>1
        <5>2. Adds(k, F, v) /\ Adds(g, F, u)
          BY <3>1, <4>2
        <5>3. \A s1 \in SUBSET v : k[s1] = g[s1]
          BY <4>3, <5>1, <5>2, AddsAgree
        <5> QED
          BY <5>1, <5>3
      <4> QED
        BY <3>1, <3>2, <3>4, <4>2, <4>4
    <3> QED
      BY <3>3, <3>4
  <2>2. ASSUME NEW t \in SUBSET s, t # {} PROVE h[t] = F[Chosen(t)] + h[t \ {Chosen(t)}]
    <3>1. t \ {Chosen(t)} \in SUBSET s /\ t \ {Chosen(t)} # s
      BY <2>2, ChosenIsIn
    <3>2. SumOf(F, t \ {Chosen(t)}) = h[t \ {Chosen(t)}]
      <4> HIDE DEF h
      <4> QED
        BY <2>1, <3>1
    <3>3. h[t] = F[Chosen(t)] + SumOf(F, t \ {Chosen(t)})
      BY <2>2
    <3> HIDE DEF h
    <3> QED
      BY <3>2, <3>3
  <2>3. h[{}] = 0 /\ h = [t \in SUBSET s |-> h[t]]
    OBVIOUS
  <2> HIDE DEF h
  <2>4. h = [t \in SUBSET s |-> IF t = {} THEN 0 ELSE F[Chosen(t)] + h[t \ {Chosen(t)}]]
    BY <2>2, <2>3
  <2> QED
    BY <2>4 DEF Adds
<1> HIDE DEF Good
<1>2. S \in Good
  BY <1>1, SubsetInduction
<1> QED
  BY <1>2 DEF Good

LEMMA SolutionIsSum ==
  ASSUME NEW T, IsFiniteSet(T), NEW S \in SUBSET T, NEW F, NEW G, \A i \in S : F[i] = G[i],
         NEW g, Adds(g, F, T)
  PROVE  SumOf(G, S) = g[S]
<1>1. IsFiniteSet(S)
  BY FS_Subset
<1>2. PICK h : Adds(h, G, S) /\ SumOf(G, S) = h[S]
  BY <1>1, SolutionExists, SumIsSolution
<1>3. S \in SUBSET S /\ S \subseteq T /\ \A i \in S : G[i] = F[i]
  OBVIOUS
<1>4. h[S] = g[S]
  BY <1>1, <1>2, <1>3, AddsAgree
<1> QED
  BY <1>2, <1>4

-----------------------------------------------------------------------------
(* Sums.                                                                   *)

LEMMA SumOfNone == ASSUME NEW F PROVE SumOf(F, {}) = 0
<1>1. PICK g : Adds(g, F, {}) /\ SumOf(F, {}) = g[{}]
  BY FS_EmptySet, SolutionExists, SumIsSolution
<1> QED
  BY <1>1, AddsStep

\* Functions that agree on a set have the same sum over it.
LEMMA SumsAgree ==
  ASSUME NEW S, IsFiniteSet(S), NEW F, NEW G, \A i \in S : F[i] = G[i]
  PROVE  SumOf(F, S) = SumOf(G, S)
<1>1. PICK g : Adds(g, F, S) /\ SumOf(F, S) = g[S]
  BY SolutionExists, SumIsSolution
<1>2. SumOf(G, S) = g[S]
  BY <1>1, SolutionIsSum
<1> QED
  BY <1>1, <1>2

LEMMA SumOfChosen ==
  ASSUME NEW S, IsFiniteSet(S), S # {}, NEW F
  PROVE  SumOf(F, S) = F[Chosen(S)] + SumOf(F, S \ {Chosen(S)})
<1>1. PICK g : Adds(g, F, S) /\ SumOf(F, S) = g[S]
  BY SolutionExists, SumIsSolution
<1>2. S \ {Chosen(S)} \in SUBSET S /\ S \in SUBSET S
  OBVIOUS
<1>3. SumOf(F, S \ {Chosen(S)}) = g[S \ {Chosen(S)}]
  BY <1>1, <1>2, SolutionIsSum
<1>4. g[S] = F[Chosen(S)] + g[S \ {Chosen(S)}]
  BY <1>1, <1>2, AddsStep
<1> QED
  BY <1>1, <1>3, <1>4

LEMMA SumIsInteger ==
  ASSUME NEW S, IsFiniteSet(S), NEW F, \A i \in S : F[i] \in Int
  PROVE  SumOf(F, S) \in Int
<1> DEFINE Good == {s \in SUBSET S : SumOf(F, s) \in Int}
<1>1. ASSUME NEW s \in SUBSET S, \A t \in SUBSET s : t # s => t \in Good PROVE s \in Good
  <2>1. CASE s = {}
    BY <2>1, SumOfNone
  <2>2. CASE s # {}
    <3>1. IsFiniteSet(s) /\ Chosen(s) \in s
      BY <2>2, ChosenIsIn, FS_Subset
    <3>2. SumOf(F, s) = F[Chosen(s)] + SumOf(F, s \ {Chosen(s)})
      BY <2>2, <3>1, SumOfChosen
    <3>3. SumOf(F, s \ {Chosen(s)}) \in Int
      BY <1>1, <3>1
    <3> QED
      BY <3>1, <3>2, <3>3
  <2> QED
    BY <2>1, <2>2
<1> HIDE DEF Good
<1>2. S \in Good
  BY <1>1, SubsetInduction
<1> QED
  BY <1>2 DEF Good

\* Any element may be taken out of a sum.
LEMMA SumTakesOut ==
  ASSUME NEW S, IsFiniteSet(S), NEW F, \A i \in S : F[i] \in Int, NEW x \in S
  PROVE  SumOf(F, S) = F[x] + SumOf(F, S \ {x})
<1> DEFINE Good == {s \in SUBSET S : \A y \in s : SumOf(F, s) = F[y] + SumOf(F, s \ {y})}
<1>1. ASSUME NEW s \in SUBSET S, \A t \in SUBSET s : t # s => t \in Good PROVE s \in Good
  <2> SUFFICES ASSUME NEW y \in s PROVE SumOf(F, s) = F[y] + SumOf(F, s \ {y})
    OBVIOUS
  <2> DEFINE z == Chosen(s)
             rest == s \ {y, z}
  <2>1. z \in s
    BY ChosenIsIn
  <2> HIDE DEF z
  <2>2. IsFiniteSet(s) /\ IsFiniteSet(s \ {y}) /\ IsFiniteSet(rest)
    BY FS_Subset
  <2>3. SumOf(F, s) = F[z] + SumOf(F, s \ {z})
    BY <2>2, SumOfChosen DEF z
  <2>4. CASE y = z
    BY <2>3, <2>4
  <2>5. CASE y # z
    <3>1. /\ s \ {z} \in Good /\ y \in s \ {z} /\ (s \ {z}) \ {y} = rest
          /\ s \ {y} \in Good /\ z \in s \ {y} /\ (s \ {y}) \ {z} = rest
      BY <1>1, <2>1, <2>5
    <3>2. SumOf(F, s \ {z}) = F[y] + SumOf(F, rest)
      BY <3>1
    <3>3. SumOf(F, s \ {y}) = F[z] + SumOf(F, rest)
      BY <3>1
    <3>4. \A i \in rest : F[i] \in Int
      OBVIOUS
    <3>5. SumOf(F, rest) \in Int /\ F[y] \in Int /\ F[z] \in Int
      BY <2>1, <2>2, <3>4, SumIsInteger
    <3> QED
      BY <2>3, <3>2, <3>3, <3>5
  <2> QED
    BY <2>4, <2>5
<1>2. \A s \in SUBSET S : (\A t \in SUBSET s : t # s => t \in Good) => s \in Good
  BY <1>1
<1> HIDE DEF Good
<1>3. S \in Good
  BY <1>2, SubsetInduction
<1> QED
  BY <1>3 DEF Good

LEMMA SumTakesIn ==
  ASSUME NEW S, IsFiniteSet(S), NEW F, NEW x, x \notin S, \A i \in S \cup {x} : F[i] \in Int
  PROVE  SumOf(F, S \cup {x}) = SumOf(F, S) + F[x]
<1>1. IsFiniteSet(S \cup {x}) /\ (S \cup {x}) \ {x} = S /\ x \in S \cup {x}
  BY FS_AddElement
<1>2. SumOf(F, S \cup {x}) = F[x] + SumOf(F, S)
  BY <1>1, SumTakesOut
<1>3. SumOf(F, S) \in Int /\ F[x] \in Int
  BY SumIsInteger
<1> QED
  BY <1>2, <1>3

\* A sum changes by as much as the one value that changed.
LEMMA SumFollows ==
  ASSUME NEW S, IsFiniteSet(S), NEW F, NEW G, NEW x \in S,
         \A i \in S : F[i] \in Int /\ G[i] \in Int,
         \A i \in S \ {x} : F[i] = G[i]
  PROVE  SumOf(G, S) = SumOf(F, S) + (G[x] - F[x])
<1>1. IsFiniteSet(S \ {x}) /\ \A i \in S \ {x} : F[i] \in Int
  BY FS_RemoveElement
<1>2. SumOf(F, S) = F[x] + SumOf(F, S \ {x}) /\ SumOf(G, S) = G[x] + SumOf(G, S \ {x})
  BY SumTakesOut
<1>3. SumOf(F, S \ {x}) = SumOf(G, S \ {x})
  BY <1>1, SumsAgree
<1>4. SumOf(F, S \ {x}) \in Int /\ F[x] \in Int /\ G[x] \in Int
  BY <1>1, SumIsInteger
<1> QED
  BY <1>2, <1>3, <1>4

LEMMA SumIsNatural ==
  ASSUME NEW S, IsFiniteSet(S), NEW F, \A i \in S : F[i] \in Nat
  PROVE  SumOf(F, S) \in Nat
<1> DEFINE Good == {s \in SUBSET S : SumOf(F, s) \in Nat}
<1>1. ASSUME NEW s \in SUBSET S, \A t \in SUBSET s : t # s => t \in Good PROVE s \in Good
  <2>1. CASE s = {}
    BY <2>1, SumOfNone
  <2>2. CASE s # {}
    <3>1. IsFiniteSet(s) /\ Chosen(s) \in s
      BY <2>2, ChosenIsIn, FS_Subset
    <3>2. SumOf(F, s) = F[Chosen(s)] + SumOf(F, s \ {Chosen(s)})
      BY <2>2, <3>1, SumOfChosen
    <3>3. SumOf(F, s \ {Chosen(s)}) \in Nat
      BY <1>1, <3>1
    <3> QED
      BY <3>1, <3>2, <3>3
  <2> QED
    BY <2>1, <2>2
<1> HIDE DEF Good
<1>2. S \in Good
  BY <1>1, SubsetInduction
<1> QED
  BY <1>2 DEF Good

\* A sum of natural numbers is at least each of them.
LEMMA SumIsLarger ==
  ASSUME NEW S, IsFiniteSet(S), NEW F, \A i \in S : F[i] \in Nat, NEW x \in S
  PROVE  SumOf(F, S) >= F[x]
<1>1. IsFiniteSet(S \ {x}) /\ \A i \in S \ {x} : F[i] \in Nat
  BY FS_RemoveElement
<1>2. SumOf(F, S \ {x}) \in Nat /\ F[x] \in Nat
  BY <1>1, SumIsNatural
<1>3. SumOf(F, S) = F[x] + SumOf(F, S \ {x})
  BY SumTakesOut
<1> QED
  BY <1>2, <1>3

-----------------------------------------------------------------------------
(* The payments: a payment is never refunded by more than its amount, and  *)
(* what is collected is what is left of the payments.                      *)

PaidTypes == {"APPOINTMENT", "QUOTE", "JOB"}
PaidIds == Appointments \cup Quotes

PaymentRows ==
  [type : PaidTypes, id : PaidIds, kind : {"PAYMENT", "REFUND"}, amount : Nat \ {0}, original : Nat]

RowsIn(p, type, id) == {i \in DOMAIN p : p[i].type = type /\ p[i].id = id}
PaidIn(p, type, id) == {i \in RowsIn(p, type, id) : p[i].kind = "PAYMENT"}
RefundsIn(p, j) == {r \in DOMAIN p : p[r].original = j}

SignedIn(p) == [i \in DOMAIN p |-> Signed(p[i])]
AmountsIn(p) == [i \in DOMAIN p |-> p[i].amount]

CollectedIn(p, type, id) == SumOf(SignedIn(p), RowsIn(p, type, id))
RefundedIn(p, j) == SumOf(AmountsIn(p), RefundsIn(p, j))

\* What is left of each payment.
LeftIn(p) == [j \in DOMAIN p |-> p[j].amount - RefundedIn(p, j)]

\* The original of a row: nothing, or the payment that it refunds.
Traced(p, row) ==
  \/ row.kind = "PAYMENT" /\ row.original = 0
  \/ /\ row.kind = "REFUND" /\ row.original \in DOMAIN p /\ p[row.original].kind = "PAYMENT"
     /\ row.type = p[row.original].type /\ row.id = p[row.original].id

Ledgered(p) ==
  /\ p \in Seq(PaymentRows)
  /\ \A i \in DOMAIN p : Traced(p, p[i])
  /\ \A j \in DOMAIN p : p[j].kind = "PAYMENT" => LeftIn(p)[j] >= 0
  /\ \A type \in PaidTypes, id \in PaidIds :
       /\ CollectedIn(p, type, id) = SumOf(LeftIn(p), PaidIn(p, type, id))
       /\ CollectedIn(p, type, id) <= Price[id]

LEMMA RowsAreFinite ==
  ASSUME NEW p \in Seq(PaymentRows), NEW type, NEW id, NEW j
  PROVE  /\ IsFiniteSet(RowsIn(p, type, id)) /\ IsFiniteSet(PaidIn(p, type, id))
         /\ IsFiniteSet(RefundsIn(p, j))
<1>1. Len(p) \in Nat /\ DOMAIN p = 1 .. Len(p)
  OBVIOUS
<1>2. IsFiniteSet(1 .. Len(p))
  BY <1>1, FS_Interval
<1>3. /\ RowsIn(p, type, id) \subseteq 1 .. Len(p) /\ PaidIn(p, type, id) \subseteq 1 .. Len(p)
      /\ RefundsIn(p, j) \subseteq 1 .. Len(p)
  BY <1>1 DEF RowsIn, PaidIn, RefundsIn
<1> QED
  BY <1>2, <1>3, FS_Subset

\* The amounts are natural numbers and the sums of them integers.
LEMMA AmountsAreNumbers ==
  ASSUME NEW p \in Seq(PaymentRows)
  PROVE  /\ \A i \in DOMAIN p : SignedIn(p)[i] \in Int /\ AmountsIn(p)[i] \in Nat
         /\ \A j : RefundedIn(p, j) \in Nat
         /\ \A j \in DOMAIN p : LeftIn(p)[j] = p[j].amount - RefundedIn(p, j) /\ LeftIn(p)[j] \in Int
         /\ \A type, id : CollectedIn(p, type, id) \in Int
<1>1. ASSUME NEW i \in DOMAIN p PROVE p[i] \in PaymentRows /\ p[i].amount \in Nat
  <2>1. p[i] \in PaymentRows
    OBVIOUS
  <2> QED
    BY <2>1 DEF PaymentRows
<1>2. \A i \in DOMAIN p : SignedIn(p)[i] \in Int /\ AmountsIn(p)[i] \in Nat
  BY <1>1 DEF SignedIn, AmountsIn, Signed
<1>3. ASSUME NEW j PROVE RefundedIn(p, j) \in Nat
  <2>1. IsFiniteSet(RefundsIn(p, j)) /\ \A i \in RefundsIn(p, j) : AmountsIn(p)[i] \in Nat
    BY <1>2, RowsAreFinite DEF RefundsIn
  <2> QED
    BY <2>1, SumIsNatural DEF RefundedIn
<1>4. \A j \in DOMAIN p : LeftIn(p)[j] = p[j].amount - RefundedIn(p, j) /\ LeftIn(p)[j] \in Int
  BY <1>1, <1>3 DEF LeftIn
<1>5. ASSUME NEW type, NEW id PROVE CollectedIn(p, type, id) \in Int
  <2>1. RowsIn(p, type, id) \subseteq DOMAIN p
    BY DEF RowsIn
  <2>2. IsFiniteSet(RowsIn(p, type, id)) /\ \A i \in RowsIn(p, type, id) : SignedIn(p)[i] \in Int
    BY <1>2, <2>1, RowsAreFinite
  <2> QED
    BY <2>2, SumIsInteger DEF CollectedIn
<1> QED
  BY <1>2, <1>3, <1>4, <1>5

\* The sums of the model are these sums.
LEMMA CollectedIsSum ==
  ASSUME NEW s, s.payments \in Seq(PaymentRows), NEW type, NEW id
  PROVE  Collected(s, type, id) = CollectedIn(s.payments, type, id)
<1> DEFINE S == RowsIn(s.payments, type, id)
           F == SignedIn(s.payments)
           Fold(g) == g = [t \in SUBSET S |-> IF t = {} THEN 0
                                 ELSE Signed(s.payments[Chosen(t)]) + g[t \ {Chosen(t)}]]
           h == CHOOSE g : Fold(g)
<1>1. Collected(s, type, id) = h[S]
  BY DEF Collected, MapThenSumSet, MapThenFoldSet, Chosen, RowsIn
<1>2. ASSUME NEW t \in SUBSET S, t # {} PROVE F[Chosen(t)] = Signed(s.payments[Chosen(t)])
  BY <1>2, ChosenIsIn DEF SignedIn, RowsIn
<1>3. IsFiniteSet(S) /\ S \in SUBSET S
  BY RowsAreFinite
<1> HIDE DEF S, F
<1>4. ASSUME NEW g PROVE Fold(g) <=> Adds(g, F, S)
  BY <1>2 DEF Adds
<1>5. \E g : Fold(g)
  BY <1>3, <1>4, SolutionExists
<1>6. Fold(h)
  <2> HIDE DEF Fold
  <2> QED
    BY <1>5, Zenon
<1> HIDE DEF h, Fold
<1>7. Adds(h, F, S)
  BY <1>4, <1>6
<1>8. SumOf(F, S) = h[S]
  BY <1>3, <1>7, SolutionIsSum
<1> QED
  BY <1>1, <1>8 DEF CollectedIn, S, F

LEMMA RefundedIsSum ==
  ASSUME NEW s, s.payments \in Seq(PaymentRows), NEW j
  PROVE  Refunded(s, j) = RefundedIn(s.payments, j)
<1> DEFINE S == RefundsIn(s.payments, j)
           F == AmountsIn(s.payments)
           Fold(g) == g = [t \in SUBSET S |-> IF t = {} THEN 0
                                 ELSE s.payments[Chosen(t)].amount + g[t \ {Chosen(t)}]]
           h == CHOOSE g : Fold(g)
<1>1. Refunded(s, j) = h[S]
  BY DEF Refunded, MapThenSumSet, MapThenFoldSet, Chosen, RefundsIn
<1>2. ASSUME NEW t \in SUBSET S, t # {} PROVE F[Chosen(t)] = s.payments[Chosen(t)].amount
  BY <1>2, ChosenIsIn DEF AmountsIn, RefundsIn
<1>3. IsFiniteSet(S) /\ S \in SUBSET S
  BY RowsAreFinite
<1> HIDE DEF S, F
<1>4. ASSUME NEW g PROVE Fold(g) <=> Adds(g, F, S)
  BY <1>2 DEF Adds
<1>5. \E g : Fold(g)
  BY <1>3, <1>4, SolutionExists
<1>6. Fold(h)
  <2> HIDE DEF Fold
  <2> QED
    BY <1>5, Zenon
<1> HIDE DEF h, Fold
<1>7. Adds(h, F, S)
  BY <1>4, <1>6
<1>8. SumOf(F, S) = h[S]
  BY <1>3, <1>7, SolutionIsSum
<1> QED
  BY <1>1, <1>8 DEF RefundedIn, S, F

-----------------------------------------------------------------------------
\* A row that is added after the others: what it does to the sets of rows.
LEMMA RowAdded ==
  ASSUME NEW p \in Seq(PaymentRows), NEW row \in PaymentRows
  PROVE  LET q == Append(p, row)
             n == Len(p) + 1
         IN  /\ q \in Seq(PaymentRows) /\ n \notin DOMAIN p /\ n # 0 /\ DOMAIN q = DOMAIN p \cup {n}
             /\ q[n] = row /\ \A i \in DOMAIN p : q[i] = p[i]
<1> DEFINE q == Append(p, row)
           n == Len(p) + 1
<1>1. Len(p) \in Nat /\ DOMAIN p = 1 .. Len(p)
  OBVIOUS
<1>2. q \in Seq(PaymentRows) /\ Len(q) = n /\ DOMAIN q = 1 .. n
  BY <1>1, AppendProperties
<1>3. q[n] = row /\ \A i \in 1 .. Len(p) : q[i] = p[i]
  BY <1>1, AppendProperties
<1>4. 1 .. n = 1 .. Len(p) \cup {n} /\ n \notin 1 .. Len(p) /\ n # 0
  BY <1>1
<1> QED
  BY <1>1, <1>2, <1>3, <1>4

\* It is collected for what it names, and for nothing else.
LEMMA CollectedFollows ==
  ASSUME NEW p \in Seq(PaymentRows), NEW row \in PaymentRows, NEW type, NEW id
  PROVE  CollectedIn(Append(p, row), type, id) =
           IF row.type = type /\ row.id = id THEN CollectedIn(p, type, id) + Signed(row)
           ELSE CollectedIn(p, type, id)
<1> DEFINE q == Append(p, row)
           n == Len(p) + 1
           old == RowsIn(p, type, id)
           new == RowsIn(q, type, id)
<1>1. /\ q \in Seq(PaymentRows) /\ n \notin DOMAIN p /\ DOMAIN q = DOMAIN p \cup {n}
      /\ q[n] = row /\ \A i \in DOMAIN p : q[i] = p[i]
  BY RowAdded
<1> HIDE DEF q, n
<1>2. /\ \A i \in DOMAIN q : SignedIn(q)[i] \in Int
      /\ \A i \in DOMAIN p : SignedIn(q)[i] = SignedIn(p)[i] /\ SignedIn(p)[i] \in Int
      /\ SignedIn(q)[n] = Signed(row)
  <2>1. \A i \in DOMAIN q : SignedIn(q)[i] \in Int
    BY <1>1, AmountsAreNumbers
  <2>2. \A i \in DOMAIN p : SignedIn(p)[i] \in Int
    BY AmountsAreNumbers
  <2>3. \A i \in DOMAIN p : SignedIn(q)[i] = SignedIn(p)[i]
    BY <1>1 DEF SignedIn
  <2>4. SignedIn(q)[n] = Signed(row)
    BY <1>1 DEF SignedIn
  <2> QED
    BY <2>1, <2>2, <2>3, <2>4
<1>3. old \subseteq DOMAIN p /\ IsFiniteSet(old) /\ n \notin old
  <2>1. IsFiniteSet(old)
    BY RowsAreFinite
  <2> QED
    BY <1>1, <2>1 DEF RowsIn
<1>4. new = IF row.type = type /\ row.id = id THEN old \cup {n} ELSE old
  BY <1>1 DEF RowsIn
<1> HIDE DEF old, new
<1>5. SumOf(SignedIn(q), old) = SumOf(SignedIn(p), old)
  BY <1>2, <1>3, SumsAgree
<1>6. CASE row.type = type /\ row.id = id
  <2>1. \A i \in old \cup {n} : SignedIn(q)[i] \in Int
    BY <1>1, <1>2, <1>3
  <2>2. SumOf(SignedIn(q), old \cup {n}) = SumOf(SignedIn(q), old) + SignedIn(q)[n]
    BY <1>3, <2>1, SumTakesIn
  <2> QED
    BY <1>2, <1>4, <1>5, <1>6, <2>2 DEF CollectedIn, q, old, new
<1>7. CASE ~(row.type = type /\ row.id = id)
  BY <1>4, <1>5, <1>7 DEF CollectedIn, q, old, new
<1> QED
  BY <1>6, <1>7

\* It counts among the refunds of its original, and of nothing else.
LEMMA RefundedFollows ==
  ASSUME NEW p \in Seq(PaymentRows), NEW row \in PaymentRows, NEW j
  PROVE  RefundedIn(Append(p, row), j) =
           IF row.original = j THEN RefundedIn(p, j) + row.amount ELSE RefundedIn(p, j)
<1> DEFINE q == Append(p, row)
           n == Len(p) + 1
           old == RefundsIn(p, j)
           new == RefundsIn(q, j)
<1>1. /\ q \in Seq(PaymentRows) /\ n \notin DOMAIN p /\ DOMAIN q = DOMAIN p \cup {n}
      /\ q[n] = row /\ \A i \in DOMAIN p : q[i] = p[i]
  BY RowAdded
<1> HIDE DEF q, n
<1>2. /\ \A i \in DOMAIN q : AmountsIn(q)[i] \in Nat
      /\ \A i \in DOMAIN p : AmountsIn(q)[i] = AmountsIn(p)[i]
      /\ AmountsIn(q)[n] = row.amount
  <2>1. \A i \in DOMAIN q : AmountsIn(q)[i] \in Nat
    BY <1>1, AmountsAreNumbers
  <2>2. \A i \in DOMAIN p : AmountsIn(q)[i] = AmountsIn(p)[i]
    BY <1>1 DEF AmountsIn
  <2>3. AmountsIn(q)[n] = row.amount
    BY <1>1 DEF AmountsIn
  <2> QED
    BY <2>1, <2>2, <2>3
<1>3. old \subseteq DOMAIN p /\ IsFiniteSet(old) /\ n \notin old
  <2>1. IsFiniteSet(old)
    BY RowsAreFinite
  <2> QED
    BY <1>1, <2>1 DEF RefundsIn
<1>4. new = IF row.original = j THEN old \cup {n} ELSE old
  BY <1>1 DEF RefundsIn
<1> HIDE DEF old, new
<1>5. SumOf(AmountsIn(q), old) = SumOf(AmountsIn(p), old)
  BY <1>2, <1>3, SumsAgree
<1>6. CASE row.original = j
  <2>1. \A i \in old \cup {n} : AmountsIn(q)[i] \in Int
    BY <1>1, <1>2, <1>3
  <2>2. SumOf(AmountsIn(q), old \cup {n}) = SumOf(AmountsIn(q), old) + AmountsIn(q)[n]
    BY <1>3, <2>1, SumTakesIn
  <2> QED
    BY <1>2, <1>4, <1>5, <1>6, <2>2 DEF RefundedIn, q, old, new
<1>7. CASE row.original # j
  BY <1>4, <1>5, <1>7 DEF RefundedIn, q, old, new
<1> QED
  BY <1>6, <1>7

\* A row that was just added has no refunds.
LEMMA NewRowIsUnrefunded ==
  ASSUME NEW p \in Seq(PaymentRows), \A i \in DOMAIN p : Traced(p, p[i])
  PROVE  RefundedIn(p, Len(p) + 1) = 0
<1>1. \A i \in DOMAIN p : p[i].original # Len(p) + 1
  <2> SUFFICES ASSUME NEW i \in DOMAIN p PROVE p[i].original # Len(p) + 1
    OBVIOUS
  <2>1. p[i].original = 0 \/ p[i].original \in 1 .. Len(p)
    BY DEF Traced
  <2> QED
    BY <2>1
<1>2. RefundsIn(p, Len(p) + 1) = {}
  BY <1>1 DEF RefundsIn
<1> QED
  BY <1>2, SumOfNone DEF RefundedIn

\* A payment within what is due.
LEMMA PaymentLedgered ==
  ASSUME NEW p, Ledgered(p), NEW row \in PaymentRows, row.kind = "PAYMENT", row.original = 0,
         CollectedIn(p, row.type, row.id) + row.amount <= Price[row.id]
  PROVE  Ledgered(Append(p, row))
<1> DEFINE q == Append(p, row)
           n == Len(p) + 1
<1>1. p \in Seq(PaymentRows)
  BY DEF Ledgered
<1>2. /\ q \in Seq(PaymentRows) /\ n \notin DOMAIN p /\ n # 0 /\ DOMAIN q = DOMAIN p \cup {n}
      /\ q[n] = row /\ \A i \in DOMAIN p : q[i] = p[i]
  BY <1>1, RowAdded
<1>3. row.amount \in Nat
  BY DEF PaymentRows
<1>4. \A i \in DOMAIN q : Traced(q, q[i])
  <2>1. ASSUME NEW i \in DOMAIN p PROVE Traced(q, q[i])
    <3>1. Traced(p, p[i]) /\ q[i] = p[i]
      BY <1>2 DEF Ledgered
    <3> QED
      BY <1>2, <3>1 DEF Traced
  <2>2. Traced(q, q[n])
    BY <1>2 DEF Traced
  <2> QED
    BY <1>2, <2>1, <2>2
<1>5. /\ \A j \in DOMAIN p : LeftIn(q)[j] = LeftIn(p)[j]
      /\ LeftIn(q)[n] = row.amount
  <2>1. ASSUME NEW j, j # 0 PROVE RefundedIn(q, j) = RefundedIn(p, j)
    BY <1>1, <2>1, RefundedFollows
  <2>2. RefundedIn(p, n) = 0
    BY <1>1, NewRowIsUnrefunded DEF Ledgered
  <2>3. \A j \in DOMAIN p : j # 0
    BY <1>1
  <2>4. RefundedIn(q, n) = 0 /\ \A j \in DOMAIN p : RefundedIn(q, j) = RefundedIn(p, j)
    BY <1>2, <2>1, <2>2, <2>3
  <2> HIDE DEF q, n
  <2> QED
    BY <1>2, <1>3, <2>4 DEF LeftIn
<1>6. ASSUME NEW j \in DOMAIN q, q[j].kind = "PAYMENT" PROVE LeftIn(q)[j] >= 0
  <2>1. CASE j \in DOMAIN p
    BY <1>2, <1>5, <1>6, <2>1 DEF Ledgered
  <2>2. CASE j = n
    BY <1>3, <1>5, <2>2
  <2> QED
    BY <1>2, <2>1, <2>2
<1>7. ASSUME NEW type \in PaidTypes, NEW id \in PaidIds
      PROVE  /\ CollectedIn(q, type, id) = SumOf(LeftIn(q), PaidIn(q, type, id))
             /\ CollectedIn(q, type, id) <= Price[id]
  <2> DEFINE paid == PaidIn(p, type, id)
  <2>1. paid \subseteq DOMAIN p /\ IsFiniteSet(paid) /\ n \notin paid
    <3>1. IsFiniteSet(paid)
      BY <1>1, RowsAreFinite
    <3> QED
      BY <1>2, <3>1 DEF PaidIn, RowsIn
  <2>2. PaidIn(q, type, id) = IF row.type = type /\ row.id = id THEN paid \cup {n} ELSE paid
    <3> HIDE DEF q, n
    <3> QED
      BY <1>2 DEF PaidIn, RowsIn
  <2>3. CollectedIn(p, type, id) = SumOf(LeftIn(p), paid) /\ CollectedIn(p, type, id) <= Price[id]
    BY DEF Ledgered
  <2>4. \A j \in DOMAIN q : LeftIn(q)[j] \in Int
    BY <1>2, AmountsAreNumbers
  <2>5. CollectedIn(q, type, id) =
           IF row.type = type /\ row.id = id THEN CollectedIn(p, type, id) + Signed(row)
           ELSE CollectedIn(p, type, id)
    BY <1>1, CollectedFollows
  <2>6. Signed(row) = row.amount
    BY DEF Signed
  <2> HIDE DEF paid, q, n
  <2>7. \A j \in paid : LeftIn(q)[j] = LeftIn(p)[j]
    BY <1>5, <2>1
  <2>8. SumOf(LeftIn(q), paid) = SumOf(LeftIn(p), paid)
    BY <2>1, <2>7, SumsAgree
  <2>9. CASE row.type = type /\ row.id = id
    <3>1. \A j \in paid \cup {n} : LeftIn(q)[j] \in Int
      BY <1>2, <2>1, <2>4
    <3>2. SumOf(LeftIn(q), paid \cup {n}) = SumOf(LeftIn(q), paid) + LeftIn(q)[n]
      BY <2>1, <3>1, SumTakesIn
    <3> QED
      BY <1>5, <2>2, <2>3, <2>5, <2>6, <2>8, <2>9, <3>2
  <2>10. CASE ~(row.type = type /\ row.id = id)
    BY <2>2, <2>3, <2>5, <2>8, <2>10
  <2> QED
    BY <2>9, <2>10
<1> HIDE DEF q
<1>8. Ledgered(q)
  BY <1>2, <1>4, <1>6, <1>7 DEF Ledgered
<1> QED
  BY <1>8 DEF q

\* A refund within what is left of its payment.
LEMMA RefundLedgered ==
  ASSUME NEW p, Ledgered(p), NEW row \in PaymentRows, row.kind = "REFUND", Traced(p, row),
         row.amount <= LeftIn(p)[row.original]
  PROVE  Ledgered(Append(p, row))
<1> DEFINE q == Append(p, row)
           n == Len(p) + 1
           k == row.original
<1>1. p \in Seq(PaymentRows)
  BY DEF Ledgered
<1>2. /\ q \in Seq(PaymentRows) /\ n \notin DOMAIN p /\ n # 0 /\ DOMAIN q = DOMAIN p \cup {n}
      /\ q[n] = row /\ \A i \in DOMAIN p : q[i] = p[i]
  BY <1>1, RowAdded
<1>3. /\ row.amount \in Nat /\ k \in DOMAIN p /\ p[k].kind = "PAYMENT"
      /\ row.type = p[k].type /\ row.id = p[k].id
  BY DEF PaymentRows, Traced
<1>4. \A i \in DOMAIN q : Traced(q, q[i])
  <2>1. ASSUME NEW i \in DOMAIN p PROVE Traced(q, q[i])
    <3>1. Traced(p, p[i]) /\ q[i] = p[i]
      BY <1>2 DEF Ledgered
    <3> QED
      BY <1>2, <3>1 DEF Traced
  <2>2. Traced(q, q[n])
    BY <1>2, <1>3 DEF Traced
  <2> QED
    BY <1>2, <2>1, <2>2
<1> HIDE DEF k
<1>5. /\ \A j \in DOMAIN p : LeftIn(p)[j] \in Int
      /\ \A j \in DOMAIN p : LeftIn(q)[j] = IF j = k THEN LeftIn(p)[j] - row.amount ELSE LeftIn(p)[j]
  <2>1. \A j : RefundedIn(q, j) = IF k = j THEN RefundedIn(p, j) + row.amount ELSE RefundedIn(p, j)
    BY <1>1, RefundedFollows DEF k
  <2>2. ASSUME NEW j \in DOMAIN p
        PROVE  /\ p[j].amount \in Int /\ RefundedIn(p, j) \in Int
               /\ LeftIn(p)[j] = p[j].amount - RefundedIn(p, j)
    <3>1. p[j] \in PaymentRows
      BY <1>1
    <3>2. p[j].amount \in Int
      BY <3>1 DEF PaymentRows
    <3> QED
      BY <1>1, <3>2, AmountsAreNumbers
  <2> HIDE DEF q, n
  <2>3. \A j \in DOMAIN p : LeftIn(q)[j] = p[j].amount - RefundedIn(q, j)
    BY <1>2 DEF LeftIn
  <2> QED
    BY <1>3, <2>1, <2>2, <2>3
<1>6. ASSUME NEW j \in DOMAIN q, q[j].kind = "PAYMENT" PROVE LeftIn(q)[j] >= 0
  <2>1. j \in DOMAIN p /\ p[j].kind = "PAYMENT"
    BY <1>2, <1>6
  <2>2. LeftIn(p)[j] >= 0 /\ row.amount <= LeftIn(p)[k]
    BY <2>1 DEF Ledgered, k
  <2> QED
    BY <1>3, <1>5, <2>1, <2>2
<1>7. ASSUME NEW type \in PaidTypes, NEW id \in PaidIds
      PROVE  /\ CollectedIn(q, type, id) = SumOf(LeftIn(q), PaidIn(q, type, id))
             /\ CollectedIn(q, type, id) <= Price[id]
  <2> DEFINE paid == PaidIn(p, type, id)
  <2>1. paid \subseteq DOMAIN p /\ IsFiniteSet(paid)
    <3>1. IsFiniteSet(paid)
      BY <1>1, RowsAreFinite
    <3> QED
      BY <3>1 DEF PaidIn, RowsIn
  <2>2. k \in paid <=> row.type = type /\ row.id = id
    BY <1>3 DEF PaidIn, RowsIn
  <2>3. PaidIn(q, type, id) = paid
    <3> HIDE DEF q, n
    <3> QED
      BY <1>2 DEF PaidIn, RowsIn
  <2>4. CollectedIn(p, type, id) = SumOf(LeftIn(p), paid) /\ CollectedIn(p, type, id) <= Price[id]
    BY DEF Ledgered
  <2>5. CollectedIn(q, type, id) =
           IF row.type = type /\ row.id = id THEN CollectedIn(p, type, id) + Signed(row)
           ELSE CollectedIn(p, type, id)
    BY <1>1, CollectedFollows
  <2>6. Signed(row) = -row.amount /\ CollectedIn(p, type, id) \in Int /\ Price[id] \in Nat
    BY <1>1, AmountsAreNumbers, MoneyAssumption DEF Signed, PaidIds
  <2>7. \A j \in paid : LeftIn(p)[j] \in Int /\ LeftIn(q)[j] \in Int
    <3>1. \A j \in DOMAIN q : LeftIn(q)[j] \in Int
      BY <1>2, AmountsAreNumbers
    <3> QED
      BY <1>2, <1>5, <2>1, <3>1
  <2> HIDE DEF paid, q, n
  <2>8. CASE row.type = type /\ row.id = id
    <3> DEFINE before == LeftIn(p)
               after == LeftIn(q)
    <3>1. /\ IsFiniteSet(paid) /\ k \in paid
          /\ \A j \in paid : before[j] \in Int /\ after[j] \in Int
          /\ \A j \in paid \ {k} : before[j] = after[j]
      BY <1>5, <2>1, <2>2, <2>7, <2>8
    <3> HIDE DEF before, after
    <3>2. SumOf(after, paid) = SumOf(before, paid) + (after[k] - before[k])
      BY <3>1, SumFollows
    <3>3. LeftIn(q)[k] = LeftIn(p)[k] - row.amount /\ LeftIn(p)[k] \in Int
      BY <1>3, <1>5
    <3> QED
      BY <1>3, <2>3, <2>4, <2>5, <2>6, <2>8, <3>2, <3>3 DEF before, after
  <2>9. CASE ~(row.type = type /\ row.id = id)
    <3>1. \A j \in paid : LeftIn(p)[j] = LeftIn(q)[j]
      BY <1>5, <2>1, <2>2, <2>9
    <3>2. SumOf(LeftIn(q), paid) = SumOf(LeftIn(p), paid)
      BY <2>1, <3>1, SumsAgree
    <3> QED
      BY <2>3, <2>4, <2>5, <2>9, <3>2
  <2> QED
    BY <2>8, <2>9
<1> HIDE DEF q
<1>8. Ledgered(q)
  BY <1>2, <1>4, <1>6, <1>7 DEF Ledgered
<1> QED
  BY <1>8 DEF q

LEMMA NothingLedgered == Ledgered(<<>>)
<1>1. DOMAIN <<>> = {}
  OBVIOUS
<1>2. ASSUME NEW type \in PaidTypes, NEW id \in PaidIds
      PROVE  /\ CollectedIn(<<>>, type, id) = SumOf(LeftIn(<<>>), PaidIn(<<>>, type, id))
             /\ CollectedIn(<<>>, type, id) <= Price[id]
  <2>1. RowsIn(<<>>, type, id) = {} /\ PaidIn(<<>>, type, id) = {}
    BY <1>1 DEF RowsIn, PaidIn
  <2>2. Price[id] \in Nat
    BY MoneyAssumption DEF PaidIds
  <2>3. SumOf(SignedIn(<<>>), {}) = 0 /\ SumOf(LeftIn(<<>>), {}) = 0
    BY SumOfNone
  <2>4. CollectedIn(<<>>, type, id) = SumOf(SignedIn(<<>>), {})
    BY <2>1, Zenon DEF CollectedIn
  <2>5. CollectedIn(<<>>, type, id) = SumOf(LeftIn(<<>>), PaidIn(<<>>, type, id))
    BY <2>1, <2>3, <2>4, Zenon
  <2>6. CollectedIn(<<>>, type, id) = 0
    BY <2>3, <2>4, Zenon
  <2> QED
    BY <2>2, <2>5, <2>6
<1>3. <<>> \in Seq(PaymentRows)
  OBVIOUS
<1> QED
  BY <1>1, <1>2, <1>3, Zenon DEF Ledgered

\* What is collected is what is left of the payments, so it is not less than nothing.
LEMMA CollectedBounds ==
  ASSUME NEW p, Ledgered(p), NEW type \in PaidTypes, NEW id \in PaidIds
  PROVE  CollectedIn(p, type, id) \in 0 .. Price[id]
<1> DEFINE paid == PaidIn(p, type, id)
<1>1. p \in Seq(PaymentRows)
  BY DEF Ledgered
<1>2. IsFiniteSet(paid)
  BY <1>1, RowsAreFinite
<1>3. ASSUME NEW j \in paid PROVE LeftIn(p)[j] \in Nat
  <2>1. j \in DOMAIN p /\ p[j].kind = "PAYMENT"
    BY DEF PaidIn, RowsIn
  <2>2. LeftIn(p)[j] \in Int
    BY <1>1, <2>1, AmountsAreNumbers
  <2>3. LeftIn(p)[j] >= 0
    BY <2>1 DEF Ledgered
  <2> QED
    BY <2>2, <2>3
<1>4. CollectedIn(p, type, id) = SumOf(LeftIn(p), paid) /\ CollectedIn(p, type, id) <= Price[id]
  BY DEF Ledgered
<1> HIDE DEF paid
<1>5. SumOf(LeftIn(p), paid) \in Nat
  BY <1>2, <1>3, SumIsNatural
<1>6. Price[id] \in Nat
  BY MoneyAssumption DEF PaidIds
<1> QED
  BY <1>4, <1>5, <1>6
=============================================================================
