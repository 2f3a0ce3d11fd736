-------------------------- MODULE BarBuilderProofs --------------------------
(***************************************************************************)
(* Facts about the operators of BarBuilder that the proofs of its two      *)
(* users rest on: what a sum of the values of a function does, and how the *)
(* keyed rows of a symbol, which build_bars computes over the sorted       *)
(* frame, are read off the frame as it arrived.                            *)
(***************************************************************************)
EXTENDS BarBuilder, OrderLemmas, SequenceTheorems

-----------------------------------------------------------------------------
(* Weights, quotients, ends of rows, signs and buckets. *)

(* The weight of a tick is a natural number. *)
LEMMA WeightNat ==
  ASSUME NEW sp \in BarSpec, NEW t, t.size \in Nat, t.price \in Nat
  PROVE  Weight(sp, t) \in Nat
<1>1. t.size * t.price \in Nat
  OBVIOUS
<1>2. sp.kind \in BarKind
  BY DEF BarSpec
<1>. QED
  BY <1>1, <1>2 DEF Weight, BarKind

(* Dividing naturals by a positive number gives a natural and is monotone.  *)
LEMMA DivNat ==
  ASSUME NEW a \in Nat, NEW d \in Nat \ {0}
  PROVE  /\ a \div d \in Nat
         /\ d * (a \div d) <= a
         /\ a < d * (a \div d) + d
  OBVIOUS

(* The bucket number of a larger total is no smaller. *)
LEMMA DivMonotone ==
  ASSUME NEW a \in Nat, NEW b \in Nat, NEW d \in Nat \ {0}, a <= b
  PROVE  a \div d <= b \div d
<1> DEFINE p == a \div d
           q == b \div d
<1>1. p \in Nat /\ q \in Nat /\ d * p <= a /\ b < d * q + d
  BY DivNat
<1> HIDE DEF p, q
<1>2. CASE p <= q
  BY <1>2 DEF p, q
<1>3. CASE q + 1 <= p
  <2>1. d * (q + 1) <= d * p
    BY <1>1, <1>3
  <2>2. d * (q + 1) = d * q + d
    BY <1>1
  <2>. QED
    BY <1>1, <2>1, <2>2
<1>. QED
  BY <1>1, <1>2, <1>3

(* A nonempty set of row numbers has a least and a greatest element. *)
LEMMA MinOfRows ==
  ASSUME NEW S, S \subseteq Nat, S # {}
  PROVE  Min(S) \in S /\ \A y \in S : Min(S) <= y
<1>1. PICK x \in S : \A y \in S : <<y, x>> \notin OpToRel(<, Nat)
  BY WFMin, NatLessThanWellFounded, Zenon
<1>2. \A y \in S : ~ (y < x)
  BY <1>1, Zenon DEF OpToRel
<1>3. x \in S /\ \A y \in S : x <= y
  BY <1>2
<1>. QED
  BY <1>3 DEF Min

(* A set of rows has a last one. *)
LEMMA MaxOfRows ==
  ASSUME NEW n \in Nat, NEW S, S \subseteq 1..n, S # {}
  PROVE  Max(S) \in S /\ \A y \in S : y <= Max(S)
<1> DEFINE T == {m \in Nat : \E x \in S : m = n - x}
<1>1. T \subseteq Nat /\ T # {}
  <2>1. PICK x \in S : TRUE
    OBVIOUS
  <2>2. n - x \in T
    BY <2>1
  <2>. QED
    BY <2>2
<1>2. Min(T) \in T /\ \A y \in T : Min(T) <= y
  BY <1>1, MinOfRows
<1>3. PICK x \in S : Min(T) = n - x
  BY <1>2
<1>4. \A y \in S : y <= x
  <2> SUFFICES ASSUME NEW y \in S PROVE y <= x
    OBVIOUS
  <2>1. n - x <= n - y
    <3>1. n - y \in T
      OBVIOUS
    <3>. QED
      BY <1>2, <1>3, <3>1
  <2>. QED
    BY <2>1
<1>5. x \in S /\ \A y \in S : x >= y
  BY <1>4
<1>. QED
  BY <1>5 DEF Max

(* A sign is -1, 0 or 1 under every rule. *)
LEMMA SignOfSide ==
  ASSUME NEW sp \in BarSpec, NEW t, t.side \in Side, NEW x \in Side
  PROVE  SignOf(sp, t, x) \in Side
<1>1. sp.sign_rule \in SignRule
  BY DEF BarSpec
<1>. QED
  BY <1>1 DEF SignOf, SignRule, Side

(* A bucket is a natural number, and no bucket is before that of an earlier *)
(* time with a smaller total.                                               *)
LEMMA RawBucketNat ==
  ASSUME NEW sp \in BarSpec, NEW ts \in Nat, NEW prior \in Nat
  PROVE  RawBucket(sp, ts, prior) \in Nat
<1>1. sp.knob \in Nat \ {0}
  BY DEF BarSpec
<1>. QED
  BY <1>1, DivNat DEF RawBucket

(* Before ties are joined, later and heavier never means an earlier bucket. *)
LEMMA RawBucketMonotone ==
  ASSUME NEW sp \in BarSpec,
         NEW ts1 \in Nat, NEW ts2 \in Nat, ts1 <= ts2,
         NEW p1 \in Nat, NEW p2 \in Nat, p1 <= p2
  PROVE  RawBucket(sp, ts1, p1) <= RawBucket(sp, ts2, p2)
<1>1. sp.knob \in Nat \ {0}
  BY DEF BarSpec
<1>. QED
  BY <1>1, DivMonotone DEF RawBucket

-----------------------------------------------------------------------------
(* Sums. *)

(* The recursion of Total, on the subsets of S. *)
Recurs(sum, D, g) ==
  sum[D] = IF D = {} THEN 0
           ELSE g[CHOOSE x \in D : TRUE] + sum[D \ {CHOOSE x \in D : TRUE}]

(* It has a solution on a finite set. *)
LEMMA SumExists ==
  ASSUME NEW S, IsFiniteSet(S), NEW g \in [S -> Int]
  PROVE  \E sum \in [SUBSET S -> Int] : \A D \in SUBSET S : Recurs(sum, D, g)
<1> DEFINE UpTo(n) == {D \in SUBSET S : Cardinality(D) <= n}
           Solved(n) == \E sum \in [UpTo(n) -> Int] : \A D \in UpTo(n) : Recurs(sum, D, g)
           Bad == {n \in Nat : ~ Solved(n)}
<1>1. \A D \in SUBSET S : IsFiniteSet(D) /\ Cardinality(D) \in Nat
  BY FS_Subset, FS_CardinalityType
<1>2. Bad = {}
  <2> SUFFICES ASSUME Bad # {} PROVE FALSE
    OBVIOUS
  <2>1. Bad \subseteq Nat
    OBVIOUS
  <2> HIDE DEF Bad
  <2>2. PICK n \in Bad : \A k \in Bad : n <= k
    BY <2>1, LeastNatural
  <2>3. n \in Nat /\ ~ Solved(n)
    BY <2>2 DEF Bad
  <2>4. CASE n = 0
    <3> PICK sum : sum = [D \in UpTo(0) |-> 0]
      OBVIOUS
    <3>1. \A D \in UpTo(0) : D = {}
      <4> SUFFICES ASSUME NEW D \in SUBSET S, Cardinality(D) <= 0 PROVE D = {}
        OBVIOUS
      <4>1. IsFiniteSet(D) /\ Cardinality(D) = 0
        BY <1>1
      <4> QED BY <4>1, FS_EmptySet
    <3>2. sum \in [UpTo(0) -> Int] /\ \A D \in UpTo(0) : Recurs(sum, D, g)
      BY <3>1 DEF Recurs
    <3> QED BY <3>2, <2>3, <2>4
  <2>5. CASE n # 0
    <3> PICK m : m = n - 1
      OBVIOUS
    <3>1. m \in Nat /\ n = m + 1 /\ m < n
      BY <2>3, <2>5
    <3>2. m \notin Bad
      BY <3>1, <2>2, <2>3
    <3>3. Solved(m)
      BY <3>1, <3>2 DEF Bad
    <3>4. PICK old \in [UpTo(m) -> Int] : \A D \in UpTo(m) : Recurs(old, D, g)
      BY <3>3
    <3> PICK next : next = [D \in UpTo(n) |->
                              IF D \in UpTo(m) THEN old[D]
                              ELSE g[CHOOSE x \in D : TRUE] + old[D \ {CHOOSE x \in D : TRUE}]]
      OBVIOUS
    <3>5. ASSUME NEW D \in UpTo(n), D # {}, NEW x, x = CHOOSE y \in D : TRUE
          PROVE  x \in D /\ g[x] \in Int /\ D \ {x} \in UpTo(m) /\ D \ {x} \in UpTo(n)
      <4>1. x \in D /\ x \in S
        BY <3>5
      <4>2. Cardinality(D \ {x}) = Cardinality(D) - 1
        BY <1>1, <4>1, FS_RemoveElement
      <4>3. Cardinality(D) \in Nat /\ Cardinality(D) <= n
        BY <1>1
      <4> QED BY <4>1, <4>2, <4>3, <3>1
    <3>6. \A D \in UpTo(m) : D \in UpTo(n) /\ next[D] = old[D]
      BY <1>1, <3>1
    <3>7. ASSUME NEW D \in UpTo(n) PROVE next[D] \in Int /\ Recurs(next, D, g)
      <4>1. CASE D = {}
        <5>1. D \in UpTo(m)
          BY <4>1, <3>1, FS_EmptySet
        <5> QED BY <5>1, <4>1, <3>4, <3>6 DEF Recurs
      <4>2. CASE D # {}
        <5> PICK x : x = CHOOSE y \in D : TRUE
          OBVIOUS
        <5>1. /\ x \in D /\ g[x] \in Int /\ D \ {x} \in UpTo(m)
              /\ next[D \ {x}] = old[D \ {x}] /\ old[D \ {x}] \in Int
          BY <4>2, <3>5, <3>6, <3>4
        <5>2. next[D] = g[x] + old[D \ {x}]
          <6>1. CASE D \in UpTo(m)
            <7>1. old[D] = g[x] + old[D \ {x}]
              BY <3>4, <4>2, <6>1 DEF Recurs
            <7> QED BY <7>1, <6>1, <3>6
          <6>2. CASE D \notin UpTo(m)
            BY <6>2
          <6> QED BY <6>1, <6>2
        <5> HIDE DEF UpTo
        <5> QED BY <5>1, <5>2, <4>2 DEF Recurs
      <4> QED BY <4>1, <4>2
    <3>8. next \in [UpTo(n) -> Int]
      BY <3>7
    <3>9. \A D \in UpTo(n) : Recurs(next, D, g)
      BY <3>7
    <3>10. Solved(n)
      BY <3>8, <3>9
    <3> QED BY <3>10, <2>3
  <2> QED BY <2>4, <2>5
<1>3. Cardinality(S) \in Nat /\ UpTo(Cardinality(S)) = SUBSET S
  BY FS_Subset, FS_CardinalityType
<1>4. Solved(Cardinality(S))
  BY <1>2, <1>3
<1> QED BY <1>3, <1>4

(* And only one: two solutions agree where both are given. *)
LEMMA SumIsUnique ==
  ASSUME NEW S, IsFiniteSet(S), NEW f, NEW h, NEW g, NEW k,
         \A x \in S : g[x] = k[x],
         \A D \in SUBSET S : Recurs(f, D, g), \A D \in SUBSET S : Recurs(h, D, k)
  PROVE  f[S] = h[S]
<1> DEFINE Bad == {D \in SUBSET S : f[D] # h[D]}
           Sizes == {Cardinality(D) : D \in Bad}
<1> SUFFICES ASSUME S \in Bad PROVE FALSE
  OBVIOUS
<1>1. Sizes \subseteq Nat /\ Sizes # {}
  BY FS_Subset, FS_CardinalityType
<1> HIDE DEF Sizes
<1>2. PICK n \in Sizes : \A m \in Sizes : n <= m
  BY <1>1, LeastNatural
<1>3. PICK D \in Bad : Cardinality(D) = n
  BY DEF Sizes
<1>4. D \in SUBSET S /\ IsFiniteSet(D) /\ f[D] # h[D] /\ n \in Nat
  BY <1>1, FS_Subset
<1>5. D # {}
  BY <1>4 DEF Recurs
<1> PICK x : x = CHOOSE y \in D : TRUE
  OBVIOUS
<1>6. x \in D /\ g[x] = k[x]
  BY <1>4, <1>5
<1>7. f[D] = g[x] + f[D \ {x}] /\ h[D] = k[x] + h[D \ {x}]
  BY <1>4, <1>5 DEF Recurs
<1>8. f[D \ {x}] # h[D \ {x}]
  BY <1>4, <1>6, <1>7
<1>9. D \ {x} \in Bad
  BY <1>4, <1>8
<1>10. n - 1 \in Sizes
  BY <1>3, <1>4, <1>6, <1>9, FS_RemoveElement DEF Sizes
<1> QED BY <1>2, <1>4, <1>10

(* Total is that solution, at the whole set. *)
LEMMA TotalIsSum ==
  ASSUME NEW S, IsFiniteSet(S), NEW g \in [S -> Int]
  PROVE  \E sum \in [SUBSET S -> Int] :
           Total(g) = sum[S] /\ \A D \in SUBSET S : Recurs(sum, D, g)
<1> DEFINE Body(f) == [D \in SUBSET S |->
                        IF D = {} THEN 0
                        ELSE LET x == CHOOSE x \in D : TRUE IN g[x] + f[D \ {x}]]
<1> PICK rec : rec = CHOOSE f : f = Body(f)
  OBVIOUS
<1>1. PICK sum \in [SUBSET S -> Int] : \A D \in SUBSET S : Recurs(sum, D, g)
  BY SumExists
<1>2. sum = Body(sum)
  BY <1>1 DEF Recurs
<1>3. rec = Body(rec)
  <2> HIDE DEF Body
  <2> QED BY <1>2
<1>4. \A D \in SUBSET S : Recurs(rec, D, g)
  BY <1>3 DEF Recurs
<1>5. rec = sum
  <2>1. ASSUME NEW D \in SUBSET S PROVE rec[D] = sum[D]
    <3>1. IsFiniteSet(D) /\ SUBSET D \subseteq SUBSET S
      BY FS_Subset
    <3>2. \A E \in SUBSET D : Recurs(rec, E, g) /\ Recurs(sum, E, g)
      BY <1>1, <1>4, <3>1
    <3> QED BY ONLY <3>1, <3>2, SumIsUnique
  <2> QED BY <2>1, <1>3
<1>6. Total(g) = rec[S]
  <2>1. DOMAIN g = S
    OBVIOUS
  <2> QED BY <2>1 DEF Total
<1> QED BY <1>1, <1>5, <1>6

(* A function on fewer arguments. *)
Part(g, D) == [x \in D |-> g[x]]

(* A sum is an integer, and nothing when there is nothing to sum. *)
LEMMA TotalType ==
  ASSUME NEW S, IsFiniteSet(S), NEW g \in [S -> Int]
  PROVE  Total(g) \in Int /\ (S = {} => Total(g) = 0)
<1>1. PICK sum \in [SUBSET S -> Int] :
        Total(g) = sum[S] /\ \A D \in SUBSET S : Recurs(sum, D, g)
  BY TotalIsSum
<1>2. S \in SUBSET S
  OBVIOUS
<1> QED BY <1>1, <1>2 DEF Recurs

(* The sum without its first summand, whichever that is. *)
LEMMA TotalFirst ==
  ASSUME NEW S, IsFiniteSet(S), NEW g \in [S -> Int], S # {}
  PROVE  \E x \in S : Total(g) = g[x] + Total(Part(g, S \ {x}))
<1> PICK x : x = CHOOSE y \in S : TRUE
  OBVIOUS
<1> PICK U : U = S \ {x}
  OBVIOUS
<1>1. x \in S /\ IsFiniteSet(U) /\ U \in SUBSET S /\ Part(g, U) \in [U -> Int]
  BY FS_RemoveElement DEF Part
<1>2. PICK f \in [SUBSET S -> Int] :
        Total(g) = f[S] /\ \A D \in SUBSET S : Recurs(f, D, g)
  BY TotalIsSum
<1>3. PICK h \in [SUBSET U -> Int] :
        Total(Part(g, U)) = h[U] /\ \A D \in SUBSET U : Recurs(h, D, Part(g, U))
  <2> PICK p : p = Part(g, U)
    OBVIOUS
  <2>1. IsFiniteSet(U) /\ p \in [U -> Int]
    BY <1>1
  <2>2. \E h \in [SUBSET U -> Int] : Total(p) = h[U] /\ \A D \in SUBSET U : Recurs(h, D, p)
    BY ONLY <2>1, TotalIsSum
  <2> QED BY <2>2
<1>4. f[U] = h[U]
  <2>1. \A y \in U : g[y] = Part(g, U)[y]
    BY DEF Part
  <2>2. \A D \in SUBSET U : Recurs(f, D, g)
    BY <1>1, <1>2
  <2> QED BY ONLY <1>1, <1>3, <2>1, <2>2, SumIsUnique
<1>5. f[S] = g[x] + f[U]
  BY <1>2 DEF Recurs
<1> QED BY <1>1, <1>2, <1>3, <1>4, <1>5

(* The sum without any one of its summands: their order does not matter. *)
LEMMA TotalTakeOut ==
  ASSUME NEW S, IsFiniteSet(S), NEW g \in [S -> Int], NEW x \in S
  PROVE  Total(g) = g[x] + Total(Part(g, S \ {x}))
<1> PICK tot : tot = [D \in SUBSET S |-> Total(Part(g, D))]
  OBVIOUS
<1>1. \A D \in SUBSET S : IsFiniteSet(D) /\ Part(g, D) \in [D -> Int] /\ tot[D] \in Int
  BY FS_Subset, TotalType DEF Part
<1>2. ASSUME NEW D \in SUBSET S, D # {}
      PROVE  \E c \in D : tot[D] = g[c] + tot[D \ {c}]
  <2>1. PICK c \in D :
          Total(Part(g, D)) = Part(g, D)[c] + Total(Part(Part(g, D), D \ {c}))
    <3> PICK p : p = Part(g, D)
      OBVIOUS
    <3>1. IsFiniteSet(D) /\ p \in [D -> Int] /\ D # {}
      BY <1>1, <1>2
    <3>2. \E c \in D : Total(p) = p[c] + Total(Part(p, D \ {c}))
      BY ONLY <3>1, TotalFirst
    <3> QED BY <3>2
  <2>2. Part(Part(g, D), D \ {c}) = Part(g, D \ {c}) /\ Part(g, D)[c] = g[c]
    BY <2>1 DEF Part
  <2>3. D \ {c} \in SUBSET S
    OBVIOUS
  <2> QED BY <2>1, <2>2, <2>3
<1> DEFINE Bad == {D \in SUBSET S : \E y \in D : tot[D] # g[y] + tot[D \ {y}]}
           Sizes == {Cardinality(D) : D \in Bad}
<1>3. Bad = {}
  <2> SUFFICES ASSUME Bad # {} PROVE FALSE
    OBVIOUS
  <2>1. Sizes \subseteq Nat /\ Sizes # {}
    <3>1. \A D \in Bad : Cardinality(D) \in Nat
      BY <1>1, FS_CardinalityType
    <3> HIDE DEF Bad
    <3> QED BY <3>1
  <2> HIDE DEF Sizes
  <2>2. PICK n \in Sizes : \A m \in Sizes : n <= m
    BY <2>1, LeastNatural
  <2>3. PICK D \in Bad : Cardinality(D) = n
    BY DEF Sizes
  <2>4. D \in SUBSET S /\ IsFiniteSet(D) /\ n \in Nat
    BY <1>1, <2>1
  <2>5. PICK y \in D : tot[D] # g[y] + tot[D \ {y}]
    OBVIOUS
  <2>6. PICK c \in D : tot[D] = g[c] + tot[D \ {c}]
    <3>1. D # {} /\ D \in SUBSET S
      BY <2>4, <2>5
    <3> QED BY ONLY <3>1, <1>2
  <2>7. c # y
    BY <2>5, <2>6
  <2>8. ASSUME NEW z \in D PROVE \A w \in D \ {z} : tot[D \ {z}] = g[w] + tot[(D \ {z}) \ {w}]
    <3>1. Cardinality(D \ {z}) = n - 1
      BY <2>3, <2>4, FS_RemoveElement
    <3>2. n - 1 \notin Sizes
      BY <2>1, <2>2, <2>4
    <3>3. D \ {z} \notin Bad
      BY <3>1, <3>2 DEF Sizes
    <3> QED BY <2>4, <3>3
  <2>9. tot[D \ {c}] = g[y] + tot[(D \ {c}) \ {y}] /\ tot[D \ {y}] = g[c] + tot[(D \ {y}) \ {c}]
    BY <2>6, <2>7, <2>8
  <2>10. (D \ {c}) \ {y} = (D \ {y}) \ {c} /\ (D \ {y}) \ {c} \in SUBSET S
    BY <2>4
  <2>11. g[c] \in Int /\ g[y] \in Int /\ tot[(D \ {y}) \ {c}] \in Int
    BY <1>1, <2>4, <2>6, <2>10
  <2> PICK rest : rest = tot[(D \ {y}) \ {c}]
    OBVIOUS
  <2>12. tot[D] = g[c] + (g[y] + rest)
    BY <2>6, <2>9, <2>10
  <2>13. g[y] + tot[D \ {y}] = g[y] + (g[c] + rest)
    BY <2>9
  <2>14. g[c] + (g[y] + rest) = g[y] + (g[c] + rest)
    <3>1. rest \in Int
      BY <2>11
    <3> QED BY ONLY <2>11, <3>1
  <2> QED BY ONLY <2>5, <2>12, <2>13, <2>14
<1>4. S \in SUBSET S /\ S \ {x} \in SUBSET S /\ Part(g, S) = g
  BY DEF Part
<1>5. tot[S] = g[x] + tot[S \ {x}]
  BY <1>3, <1>4
<1> QED BY <1>4, <1>5

(* The sums over the parts of S. *)
SumsUp(t, S, g) ==
  /\ t \in [SUBSET S -> Int]
  /\ t[S] = Total(g) /\ t[{}] = 0
  /\ \A D \in SUBSET S : t[D] = Total(Part(g, D))
  /\ \A D \in SUBSET S : \A x \in S \ D : t[D \cup {x}] = g[x] + t[D]

(* They are there, each from that over a part that is smaller by one. *)
LEMMA SumsOfParts ==
  ASSUME NEW S, IsFiniteSet(S), NEW g \in [S -> Int]
  PROVE  \E t : SumsUp(t, S, g)
<1> PICK t : t = [D \in SUBSET S |-> Total(Part(g, D))]
  OBVIOUS
<1>1. \A D \in SUBSET S : IsFiniteSet(D) /\ Part(g, D) \in [D -> Int]
  BY FS_Subset DEF Part
<1>2. \A D \in SUBSET S : t[D] \in Int /\ (D = {} => t[D] = 0)
  <2> SUFFICES ASSUME NEW D \in SUBSET S PROVE t[D] \in Int /\ (D = {} => t[D] = 0)
    OBVIOUS
  <2>1. Total(Part(g, D)) \in Int /\ (D = {} => Total(Part(g, D)) = 0)
    BY ONLY <1>1, TotalType, D \in SUBSET S
  <2> QED BY <2>1
<1>3. ASSUME NEW D \in SUBSET S, NEW x \in S \ D
      PROVE  t[D \cup {x}] = g[x] + t[D]
  <2> PICK E : E = D \cup {x}
    OBVIOUS
  <2> PICK p : p = Part(g, E)
    OBVIOUS
  <2>1. E \in SUBSET S /\ IsFiniteSet(E) /\ p \in [E -> Int] /\ x \in E
    BY <1>1
  <2>2. Total(p) = p[x] + Total(Part(p, E \ {x}))
    BY ONLY <2>1, TotalTakeOut
  <2>3. Part(p, E \ {x}) = Part(g, D) /\ p[x] = g[x]
    <3>1. E \ {x} = D
      OBVIOUS
    <3> QED BY <3>1 DEF Part
  <2> QED BY <2>1, <2>2, <2>3
<1>4. t[S] = Total(g)
  <2>1. Part(g, S) = g
    BY DEF Part
  <2> QED BY <2>1
<1>5. t \in [SUBSET S -> Int] /\ t[{}] = 0
  BY <1>2
<1>6. SumsUp(t, S, g)
  BY <1>3, <1>4, <1>5 DEF SumsUp
<1> QED BY <1>6

(* Sums add up term by term. *)
LEMMA TotalOfSum ==
  ASSUME NEW S, IsFiniteSet(S), NEW a \in [S -> Int], NEW b \in [S -> Int],
         NEW c, c = [x \in S |-> a[x] + b[x]]
  PROVE  Total(c) = Total(a) + Total(b)
<1>1. c \in [S -> Int]
  OBVIOUS
<1>2. PICK ta \in [SUBSET S -> Int] :
        /\ ta[S] = Total(a) /\ ta[{}] = 0
        /\ \A D \in SUBSET S : \A x \in S \ D : ta[D \cup {x}] = a[x] + ta[D]
  <2>1. \E t : SumsUp(t, S, a)
    BY SumsOfParts
  <2> QED BY <2>1 DEF SumsUp
<1>3. PICK tb \in [SUBSET S -> Int] :
        /\ tb[S] = Total(b) /\ tb[{}] = 0
        /\ \A D \in SUBSET S : \A x \in S \ D : tb[D \cup {x}] = b[x] + tb[D]
  <2>1. \E t : SumsUp(t, S, b)
    BY SumsOfParts
  <2> QED BY <2>1 DEF SumsUp
<1>4. PICK tc \in [SUBSET S -> Int] :
        /\ tc[S] = Total(c) /\ tc[{}] = 0
        /\ \A D \in SUBSET S : \A x \in S \ D : tc[D \cup {x}] = c[x] + tc[D]
  <2>1. \E t : SumsUp(t, S, c)
    BY <1>1, SumsOfParts
  <2> QED BY <2>1 DEF SumsUp
<1> DEFINE Good == {D \in SUBSET S : tc[D] = ta[D] + tb[D]}
<1>5. {} \in Good
  BY <1>2, <1>3, <1>4
<1>6. ASSUME NEW D \in SUBSET S, NEW x \in S \ D, D \in Good
      PROVE  D \cup {x} \in Good
  <2>1. ta[D] \in Int /\ tb[D] \in Int /\ a[x] \in Int /\ b[x] \in Int
    OBVIOUS
  <2>2. /\ tc[D \cup {x}] = (a[x] + b[x]) + tc[D]
        /\ ta[D \cup {x}] = a[x] + ta[D] /\ tb[D \cup {x}] = b[x] + tb[D]
    BY <1>2, <1>3, <1>4
  <2>3. tc[D] = ta[D] + tb[D]
    BY <1>6
  <2>4. D \cup {x} \in SUBSET S
    OBVIOUS
  <2>5. tc[D \cup {x}] = ta[D \cup {x}] + tb[D \cup {x}]
    BY ONLY <2>1, <2>2, <2>3
  <2> QED BY <2>4, <2>5
<1> HIDE DEF Good
<1>7. S \in Good
  BY ONLY IsFiniteSet(S), <1>5, <1>6, GrowToWhole
<1> QED BY <1>7, <1>2, <1>3, <1>4 DEF Good

(* Sums are ordered as their terms are. *)
LEMMA TotalOrdered ==
  ASSUME NEW S, IsFiniteSet(S), NEW a \in [S -> Int], NEW b \in [S -> Int],
         \A x \in S : a[x] <= b[x]
  PROVE  Total(a) <= Total(b)
<1>1. PICK ta \in [SUBSET S -> Int] :
        /\ ta[S] = Total(a) /\ ta[{}] = 0
        /\ \A D \in SUBSET S : \A x \in S \ D : ta[D \cup {x}] = a[x] + ta[D]
  <2>1. \E t : SumsUp(t, S, a)
    BY SumsOfParts
  <2> QED BY <2>1 DEF SumsUp
<1>2. PICK tb \in [SUBSET S -> Int] :
        /\ tb[S] = Total(b) /\ tb[{}] = 0
        /\ \A D \in SUBSET S : \A x \in S \ D : tb[D \cup {x}] = b[x] + tb[D]
  <2>1. \E t : SumsUp(t, S, b)
    BY SumsOfParts
  <2> QED BY <2>1 DEF SumsUp
<1> DEFINE Good == {D \in SUBSET S : ta[D] <= tb[D]}
<1>3. {} \in Good
  BY <1>1, <1>2
<1>4. ASSUME NEW D \in SUBSET S, NEW x \in S \ D, D \in Good
      PROVE  D \cup {x} \in Good
  <2>1. ta[D] \in Int /\ tb[D] \in Int /\ a[x] \in Int /\ b[x] \in Int /\ a[x] <= b[x]
    OBVIOUS
  <2>2. ta[D \cup {x}] = a[x] + ta[D] /\ tb[D \cup {x}] = b[x] + tb[D]
    BY <1>1, <1>2
  <2>3. ta[D] <= tb[D]
    BY <1>4
  <2>4. D \cup {x} \in SUBSET S
    OBVIOUS
  <2>5. ta[D \cup {x}] <= tb[D \cup {x}]
    BY ONLY <2>1, <2>2, <2>3
  <2> QED BY <2>4, <2>5
<1> HIDE DEF Good
<1>5. S \in Good
  BY ONLY IsFiniteSet(S), <1>3, <1>4, GrowToWhole
<1> QED BY <1>5, <1>1, <1>2 DEF Good

(* A factor goes before the sum. *)
LEMMA TotalScaled ==
  ASSUME NEW S, IsFiniteSet(S), NEW a \in [S -> Int], NEW k \in Int,
         NEW c, c = [x \in S |-> k * a[x]]
  PROVE  Total(c) = k * Total(a)
<1>1. c \in [S -> Int]
  OBVIOUS
<1>2. PICK ta \in [SUBSET S -> Int] :
        /\ ta[S] = Total(a) /\ ta[{}] = 0
        /\ \A D \in SUBSET S : \A x \in S \ D : ta[D \cup {x}] = a[x] + ta[D]
  <2>1. \E t : SumsUp(t, S, a)
    BY SumsOfParts
  <2> QED BY <2>1 DEF SumsUp
<1>3. PICK tc \in [SUBSET S -> Int] :
        /\ tc[S] = Total(c) /\ tc[{}] = 0
        /\ \A D \in SUBSET S : \A x \in S \ D : tc[D \cup {x}] = c[x] + tc[D]
  <2>1. \E t : SumsUp(t, S, c)
    BY <1>1, SumsOfParts
  <2> QED BY <2>1 DEF SumsUp
<1> DEFINE Good == {D \in SUBSET S : tc[D] = k * ta[D]}
<1>4. {} \in Good
  BY <1>2, <1>3
<1>5. ASSUME NEW D \in SUBSET S, NEW x \in S \ D, D \in Good
      PROVE  D \cup {x} \in Good
  <2>1. ta[D] \in Int /\ a[x] \in Int
    OBVIOUS
  <2>2. tc[D \cup {x}] = k * a[x] + tc[D] /\ ta[D \cup {x}] = a[x] + ta[D]
    BY <1>2, <1>3
  <2>3. tc[D] = k * ta[D]
    BY <1>5
  <2>4. D \cup {x} \in SUBSET S
    OBVIOUS
  <2>5. k * (a[x] + ta[D]) = k * a[x] + k * ta[D]
    BY ONLY <2>1, k \in Int
  <2>6. tc[D \cup {x}] = k * ta[D \cup {x}]
    BY ONLY <2>2, <2>3, <2>5
  <2> QED BY <2>4, <2>6
<1> HIDE DEF Good
<1>6. S \in Good
  BY ONLY IsFiniteSet(S), <1>4, <1>5, GrowToWhole
<1> QED BY <1>6, <1>2, <1>3 DEF Good

(* Summing ones counts. *)
LEMMA TotalCounts ==
  ASSUME NEW S, IsFiniteSet(S), NEW c, c = [x \in S |-> 1]
  PROVE  Total(c) = Cardinality(S)
<1>1. c \in [S -> Int]
  OBVIOUS
<1>2. PICK tc \in [SUBSET S -> Int] :
        /\ tc[S] = Total(c) /\ tc[{}] = 0
        /\ \A D \in SUBSET S : \A x \in S \ D : tc[D \cup {x}] = c[x] + tc[D]
  <2>1. \E t : SumsUp(t, S, c)
    BY <1>1, SumsOfParts
  <2> QED BY <2>1 DEF SumsUp
<1> DEFINE Good == {D \in SUBSET S : tc[D] = Cardinality(D)}
<1>3. {} \in Good
  BY <1>2, FS_EmptySet
<1>4. ASSUME NEW D \in SUBSET S, NEW x \in S \ D, D \in Good
      PROVE  D \cup {x} \in Good
  <2>1. IsFiniteSet(D) /\ Cardinality(D) \in Nat
    BY FS_Subset, FS_CardinalityType
  <2>2. Cardinality(D \cup {x}) = Cardinality(D) + 1
    BY <2>1, FS_AddElement
  <2>3. tc[D \cup {x}] = 1 + tc[D] /\ tc[D] = Cardinality(D)
    BY <1>2, <1>4
  <2>4. D \cup {x} \in SUBSET S
    OBVIOUS
  <2>5. tc[D \cup {x}] = Cardinality(D \cup {x})
    BY ONLY <2>1, <2>2, <2>3
  <2> QED BY <2>4, <2>5
<1> HIDE DEF Good
<1>5. S \in Good
  BY ONLY IsFiniteSet(S), <1>3, <1>4, GrowToWhole
<1> QED BY <1>5, <1>2 DEF Good

(* Terms that are left out may as well be zero. *)
LEMMA TotalMasked ==
  ASSUME NEW S, IsFiniteSet(S), NEW a \in [S -> Int], NEW M \in SUBSET S,
         NEW c, c = [x \in S |-> IF x \in M THEN a[x] ELSE 0]
  PROVE  Total(c) = Total(Part(a, M))
<1>1. c \in [S -> Int]
  OBVIOUS
<1>2. PICK ta \in [SUBSET S -> Int] :
        /\ ta[S] = Total(a) /\ ta[{}] = 0
        /\ \A D \in SUBSET S : ta[D] = Total(Part(a, D))
        /\ \A D \in SUBSET S : \A x \in S \ D : ta[D \cup {x}] = a[x] + ta[D]
  <2>1. \E t : SumsUp(t, S, a)
    BY SumsOfParts
  <2> QED BY <2>1 DEF SumsUp
<1>3. PICK tc \in [SUBSET S -> Int] :
        /\ tc[S] = Total(c) /\ tc[{}] = 0
        /\ \A D \in SUBSET S : \A x \in S \ D : tc[D \cup {x}] = c[x] + tc[D]
  <2>1. \E t : SumsUp(t, S, c)
    BY <1>1, SumsOfParts
  <2> QED BY <2>1 DEF SumsUp
<1> DEFINE Good == {D \in SUBSET S : tc[D] = ta[D \cap M]}
<1>4. {} \in Good
  BY <1>2, <1>3
<1>5. ASSUME NEW D \in SUBSET S, NEW x \in S \ D, D \in Good
      PROVE  D \cup {x} \in Good
  <2>1. tc[D \cup {x}] = c[x] + tc[D] /\ tc[D] = ta[D \cap M] /\ tc[D] \in Int
    BY <1>3, <1>5
  <2>2. D \cap M \in SUBSET S /\ D \cup {x} \in SUBSET S
    OBVIOUS
  <2>3. CASE x \in M
    <3>1. (D \cup {x}) \cap M = (D \cap M) \cup {x} /\ x \in S \ (D \cap M)
      BY <2>3
    <3>2. ta[(D \cap M) \cup {x}] = a[x] + ta[D \cap M]
      BY <1>2, <2>2, <3>1
    <3>3. c[x] = a[x]
      BY <2>3
    <3> QED BY <2>1, <2>2, <3>1, <3>2, <3>3
  <2>4. CASE x \notin M
    <3>1. (D \cup {x}) \cap M = D \cap M
      BY <2>4
    <3>2. c[x] = 0
      BY <2>4
    <3>3. tc[D \cup {x}] = ta[(D \cup {x}) \cap M]
      <4>1. tc[D \cup {x}] = 0 + tc[D] /\ tc[D] \in Int
        BY <2>1, <3>2
      <4>2. tc[D \cup {x}] = tc[D]
        BY ONLY <4>1
      <4> QED BY <2>1, <3>1, <4>2
    <3> QED BY <2>2, <3>3
  <2> QED BY <2>3, <2>4
<1> HIDE DEF Good
<1>6. S \in Good
  BY ONLY IsFiniteSet(S), <1>4, <1>5, GrowToWhole
<1>7. S \cap M = M
  OBVIOUS
<1> QED BY <1>6, <1>7, <1>2, <1>3 DEF Good

(* e pairs off S with R, and c has the values of a under those names. *)
Pairs(e, S, R) ==
  /\ e \in [S -> R]
  /\ \A x, y \in S : e[x] = e[y] => x = y
  /\ \A z \in R : \E x \in S : e[x] = z

Renamed(c, S, a, e) == c = [x \in S |-> a[e[x]]]

(* Terms may be renamed. *)
LEMMA TotalRenamed ==
  ASSUME NEW S, IsFiniteSet(S), NEW R, NEW e, Pairs(e, S, R),
         NEW a \in [R -> Int], NEW c, Renamed(c, S, a, e)
  PROVE  IsFiniteSet(R) /\ Cardinality(R) = Cardinality(S) /\ Total(c) = Total(a)
<1> USE DEF Pairs, Renamed
<1>1. c \in [S -> Int]
  OBVIOUS
<1>2. IsFiniteSet(R) /\ Cardinality(R) = Cardinality(S)
  <2>1. e \in Injection(S, R) /\ e \in Surjection(S, R)
    BY DEF Injection, IsInjective, Surjection
  <2>2. ExistsBijection(S, R)
    BY <2>1 DEF Bijection, ExistsBijection
  <2> QED BY <2>2, FS_Bijection
<1>3. PICK ta \in [SUBSET R -> Int] :
        /\ ta[R] = Total(a) /\ ta[{}] = 0
        /\ \A D \in SUBSET R : \A x \in R \ D : ta[D \cup {x}] = a[x] + ta[D]
  <2>1. \E t : SumsUp(t, R, a)
    BY <1>2, SumsOfParts
  <2> QED BY <2>1 DEF SumsUp
<1>4. PICK tc \in [SUBSET S -> Int] :
        /\ tc[S] = Total(c) /\ tc[{}] = 0
        /\ \A D \in SUBSET S : \A x \in S \ D : tc[D \cup {x}] = c[x] + tc[D]
  <2>1. \E t : SumsUp(t, S, c)
    BY <1>1, SumsOfParts
  <2> QED BY <2>1 DEF SumsUp
<1> PICK image : image = [D \in SUBSET S |-> {e[x] : x \in D}]
  OBVIOUS
<1> DEFINE Good == {D \in SUBSET S : tc[D] = ta[image[D]]}
<1>5. {} \in Good
  <2>1. image[{}] = {}
    OBVIOUS
  <2> QED BY <2>1, <1>3, <1>4
<1>6. ASSUME NEW D \in SUBSET S, NEW x \in S \ D, D \in Good
      PROVE  D \cup {x} \in Good
  <2>1. tc[D \cup {x}] = c[x] + tc[D] /\ tc[D] = ta[image[D]] /\ c[x] = a[e[x]]
    BY <1>4, <1>6
  <2>2. D \cup {x} \in SUBSET S
    OBVIOUS
  <2>3. image[D \cup {x}] = image[D] \cup {e[x]} /\ image[D] \in SUBSET R
    BY <2>2
  <2>4. e[x] \in R \ image[D]
    OBVIOUS
  <2>5. ta[image[D] \cup {e[x]}] = a[e[x]] + ta[image[D]]
    BY <1>3, <2>3, <2>4
  <2> QED BY <2>1, <2>2, <2>3, <2>5
<1> HIDE DEF Good
<1>7. S \in Good
  BY ONLY IsFiniteSet(S), <1>5, <1>6, GrowToWhole
<1>8. image[S] = R
  OBVIOUS
<1> QED BY <1>2, <1>7, <1>8, <1>3, <1>4 DEF Good

(* A part of a sum of naturals is no more than the whole. *)
LEMMA TotalOfPart ==
  ASSUME NEW S, IsFiniteSet(S), NEW a \in [S -> Int], \A x \in S : a[x] >= 0,
         NEW M \in SUBSET S
  PROVE  0 <= Total(Part(a, M)) /\ Total(Part(a, M)) <= Total(a)
<1> PICK c : c = [x \in S |-> IF x \in M THEN a[x] ELSE 0]
  OBVIOUS
<1> PICK z : z = [x \in S |-> 0]
  OBVIOUS
<1>1. c \in [S -> Int] /\ z \in [S -> Int] /\ \A x \in S : z[x] <= c[x] /\ c[x] <= a[x]
  OBVIOUS
<1>2. Total(c) = Total(Part(a, M))
  BY ONLY IsFiniteSet(S), a \in [S -> Int], M \in SUBSET S,
          c = [x \in S |-> IF x \in M THEN a[x] ELSE 0], TotalMasked
<1>3. Total(z) = 0
  <2>1. Total(z) = 0 * Total(a)
    <3>1. z = [x \in S |-> 0 * a[x]] /\ 0 \in Int
      OBVIOUS
    <3> QED BY ONLY IsFiniteSet(S), a \in [S -> Int], <3>1, TotalScaled
  <2>2. Total(a) \in Int
    BY TotalType
  <2> QED BY <2>1, <2>2
<1>4. Total(z) <= Total(c) /\ Total(c) <= Total(a)
  BY ONLY <1>1, IsFiniteSet(S), a \in [S -> Int], TotalOrdered
<1> QED BY <1>2, <1>3, <1>4

(* c has, for each heap, the sum over what lies on it. *)
HeapTotals(c, B, S, a, heap) ==
  c = [b \in B |-> Total(Part(a, {x \in S : heap[x] = b}))]

(* A sum is the sum of the sums of the heaps it is sorted into. *)
LEMMA TotalOfHeaps ==
  ASSUME NEW S, IsFiniteSet(S), NEW a \in [S -> Int],
         NEW B, IsFiniteSet(B), NEW heap \in [S -> B],
         NEW c, HeapTotals(c, B, S, a, heap)
  PROVE  Total(c) = Total(a)
<1> USE DEF HeapTotals
<1>1. PICK ta \in [SUBSET S -> Int] :
        /\ ta[S] = Total(a) /\ ta[{}] = 0
        /\ \A D \in SUBSET S : ta[D] = Total(Part(a, D))
        /\ \A D \in SUBSET S : \A x \in S \ D : ta[D \cup {x}] = a[x] + ta[D]
  <2>1. \E t : SumsUp(t, S, a)
    BY SumsOfParts
  <2> QED BY <2>1 DEF SumsUp
<1> PICK in : in = [H \in SUBSET B |-> {x \in S : heap[x] \in H}]
  OBVIOUS
<1>2. c \in [B -> Int] /\ \A b \in B : c[b] = ta[in[{b}]]
  <2>1. \A b \in B : in[{b}] = {x \in S : heap[x] = b} /\ in[{b}] \in SUBSET S
    OBVIOUS
  <2>2. \A b \in B : c[b] = ta[in[{b}]]
    BY <1>1, <2>1
  <2> QED BY <2>1, <2>2
<1>3. PICK tc \in [SUBSET B -> Int] :
        /\ tc[B] = Total(c) /\ tc[{}] = 0
        /\ \A D \in SUBSET B : \A x \in B \ D : tc[D \cup {x}] = c[x] + tc[D]
  <2>1. \E t : SumsUp(t, B, c)
    BY <1>2, SumsOfParts
  <2> QED BY <2>1 DEF SumsUp
<1>4. ASSUME NEW D \in SUBSET S, NEW E \in SUBSET S, D \cap E = {}
      PROVE  ta[D \cup E] = ta[D] + ta[E]
  <2> DEFINE Fine == {F \in SUBSET E : ta[D \cup F] = ta[D] + ta[F]}
  <2>1. {} \in Fine
    <3>1. D \cup {} = D
      OBVIOUS
    <3> QED BY <3>1, <1>1
  <2>2. ASSUME NEW F \in SUBSET E, NEW x \in E \ F, F \in Fine
        PROVE  F \cup {x} \in Fine
    <3>1. /\ D \cup F \in SUBSET S /\ x \in S \ (D \cup F) /\ F \in SUBSET S /\ x \in S \ F
          /\ D \cup (F \cup {x}) = (D \cup F) \cup {x} /\ F \cup {x} \in SUBSET E
      BY <1>4
    <3>2. ta[(D \cup F) \cup {x}] = a[x] + ta[D \cup F] /\ ta[F \cup {x}] = a[x] + ta[F]
      BY <1>1, <3>1
    <3>3. ta[D \cup F] = ta[D] + ta[F]
      BY <2>2
    <3>4. a[x] \in Int /\ ta[D] \in Int /\ ta[F] \in Int
      BY <3>1
    <3>5. a[x] + (ta[D] + ta[F]) = ta[D] + (a[x] + ta[F])
      BY ONLY <3>4
    <3>6. ta[D \cup (F \cup {x})] = ta[D] + ta[F \cup {x}]
      BY ONLY <3>1, <3>2, <3>3, <3>5
    <3> QED BY <3>1, <3>6
  <2>3. IsFiniteSet(E)
    BY FS_Subset
  <2> HIDE DEF Fine
  <2>4. E \in Fine
    BY ONLY <2>1, <2>2, <2>3, GrowToWhole
  <2> QED BY <2>4 DEF Fine
<1> DEFINE Good == {H \in SUBSET B : tc[H] = ta[in[H]]}
<1>5. {} \in Good
  <2>1. in[{}] = {}
    OBVIOUS
  <2> QED BY <2>1, <1>1, <1>3
<1>6. ASSUME NEW H \in SUBSET B, NEW b \in B \ H, H \in Good
      PROVE  H \cup {b} \in Good
  <2>1. tc[H \cup {b}] = c[b] + tc[H] /\ tc[H] = ta[in[H]] /\ c[b] = ta[in[{b}]]
    BY <1>2, <1>3, <1>6
  <2>2. H \cup {b} \in SUBSET B /\ {b} \in SUBSET B
    OBVIOUS
  <2>3. /\ in[H \cup {b}] = in[H] \cup in[{b}] /\ in[H] \cap in[{b}] = {}
        /\ in[H] \in SUBSET S /\ in[{b}] \in SUBSET S
    BY <2>2
  <2>4. ta[in[H \cup {b}]] = ta[in[H]] + ta[in[{b}]]
    BY <1>4, <2>3
  <2>5. ta[in[H]] \in Int /\ ta[in[{b}]] \in Int
    BY <2>3
  <2>6. tc[H \cup {b}] = ta[in[H \cup {b}]]
    <3> PICK one, all : one = ta[in[{b}]] /\ all = ta[in[H]]
      OBVIOUS
    <3>1. one \in Int /\ all \in Int
      BY <2>5
    <3>2. one + all = all + one
      BY ONLY <3>1
    <3> QED BY <2>1, <2>4, <3>2
  <2> QED BY <2>2, <2>6
<1> HIDE DEF Good
<1>7. B \in Good
  BY ONLY IsFiniteSet(B), <1>5, <1>6, GrowToWhole
<1>8. in[B] = S
  OBVIOUS
<1> QED BY <1>7, <1>8, <1>1, <1>3 DEF Good

-----------------------------------------------------------------------------
(* The sorted frame.                                                        *)

(* A raw frame: the columns build_bars reads, of any values. *)
IsFrame(fr) ==
  /\ Len(fr) \in Nat /\ fr \in [1..Len(fr) -> {fr[i] : i \in 1..Len(fr)}]
  /\ \A i \in 1..Len(fr) :
       /\ fr[i].sym \in Int /\ fr[i].ts \in Nat
       /\ fr[i].price \in Int /\ fr[i].size \in Int /\ fr[i].side \in Side

(* The frame as far as proofs need it. *)
LEMMA FrameRows ==
  ASSUME NEW fr, IsFrame(fr)
  PROVE  /\ DOMAIN fr = 1..Len(fr) /\ Len(fr) \in Nat
         /\ DOMAIN fr \subseteq Int /\ IsFiniteSet(DOMAIN fr)
         /\ Cardinality(DOMAIN fr) = Len(fr)
         /\ \A i \in DOMAIN fr : fr[i].sym \in Int /\ fr[i].ts \in Int
<1>1. DOMAIN fr = 1..Len(fr) /\ Len(fr) \in Nat
  BY DEF IsFrame
<1>2. IsFiniteSet(1..Len(fr)) /\ Cardinality(1..Len(fr)) = Len(fr)
  BY <1>1, IntervalCount
<1> QED BY <1>1, <1>2 DEF IsFrame

(* Precedes is a strict total order of the rows. *)
LEMMA PrecedesIsOrder ==
  ASSUME NEW fr, IsFrame(fr)
  PROVE  /\ \A i \in DOMAIN fr : ~ Precedes(fr, i, i)
         /\ \A i, j, l \in DOMAIN fr :
              Precedes(fr, i, j) /\ Precedes(fr, j, l) => Precedes(fr, i, l)
         /\ \A i, j \in DOMAIN fr : i # j => Precedes(fr, i, j) \/ Precedes(fr, j, i)
         /\ \A i, j \in DOMAIN fr : Precedes(fr, i, j) => ~ Precedes(fr, j, i)
<1> PICK sym : sym = [i \in DOMAIN fr |-> fr[i].sym]
  OBVIOUS
<1> PICK ts : ts = [i \in DOMAIN fr |-> fr[i].ts]
  OBVIOUS
<1> DEFINE P(j, i) == \/ sym[j] < sym[i]
                      \/ sym[j] = sym[i] /\ ts[j] < ts[i]
                      \/ sym[j] = sym[i] /\ ts[j] = ts[i] /\ j < i
<1>1. \A i \in DOMAIN fr : i \in Int /\ sym[i] \in Int /\ ts[i] \in Int
  BY FrameRows
<1>2. \A i, j \in DOMAIN fr : Precedes(fr, j, i) <=> P(j, i)
  BY DEF Precedes
<1>3. \A i \in DOMAIN fr : ~ P(i, i)
  BY <1>1
<1>4. \A i, j, l \in DOMAIN fr : P(i, j) /\ P(j, l) => P(i, l)
  BY ONLY <1>1
<1>5. \A i, j \in DOMAIN fr : i # j => P(i, j) \/ P(j, i)
  BY ONLY <1>1
<1>6. \A i, j \in DOMAIN fr : P(i, j) => ~ P(j, i)
  BY ONLY <1>1
<1> HIDE DEF P
<1> QED BY ONLY <1>2, <1>3, <1>4, <1>5, <1>6

(* e lists the rows as Precedes orders them. *)
Lists(fr, e) ==
  /\ e \in [DOMAIN fr -> DOMAIN fr]
  /\ \A k, l \in DOMAIN fr : e[k] = e[l] => k = l
  /\ \A i \in DOMAIN fr : \E k \in DOMAIN fr : e[k] = i
  /\ \A k, l \in DOMAIN fr : k < l <=> Precedes(fr, e[k], e[l])

(* Sorting lists them so. *)
LEMMA SortLists ==
  ASSUME NEW fr, IsFrame(fr)
  PROVE  \E e : Lists(fr, e) /\ SortTicks(fr) = [k \in DOMAIN fr |-> fr[e[k]]]
<1> PICK D : D = DOMAIN fr
  OBVIOUS
<1> PICK R : R = {p \in D \X D : Precedes(fr, p[1], p[2])}
  OBVIOUS
<1>1. \A i, j \in D : <<i, j>> \in R <=> Precedes(fr, i, j)
  OBVIOUS
<1>2. /\ IsFiniteSet(D) /\ D = 1..Len(fr) /\ Len(fr) \in Nat /\ Cardinality(D) = Len(fr)
      /\ D \subseteq Int
  BY FrameRows
<1> PICK rank : rank = Ranks(R, D)
  OBVIOUS
<1>3. \A i \in D : rank[i] = Rank(fr, i)
  <2> SUFFICES ASSUME NEW i \in D PROVE rank[i] = Rank(fr, i)
    OBVIOUS
  <2>1. {y \in D : <<y, i>> \in R} = {j \in DOMAIN fr : Precedes(fr, j, i)}
    BY <1>1
  <2> QED BY <2>1 DEF Rank, Ranks
<1>4. /\ \A x \in D : rank[x] \in 0..(Cardinality(D) - 1)
      /\ \A x, y \in D : <<x, y>> \in R => rank[x] < rank[y]
      /\ \A x, y \in D : rank[x] = rank[y] => x = y
      /\ \A p \in 0..(Cardinality(D) - 1) : \E x \in D : rank[x] = p
  <2>1. Orders(R, D)
    BY <1>1, PrecedesIsOrder DEF Orders
  <2>2. rank = Ranks(R, D)
    OBVIOUS
  <2>3. IsFiniteSet(D)
    BY <1>2
  <2> QED BY ONLY <2>1, <2>2, <2>3, RanksOfTotalOrder
<1> PICK e : e = [k \in D |-> CHOOSE i \in DOMAIN fr : Rank(fr, i) = k - 1]
  OBVIOUS
<1>5. \A k \in D : e[k] \in D /\ rank[e[k]] = k - 1
  <2> SUFFICES ASSUME NEW k \in D PROVE e[k] \in D /\ rank[e[k]] = k - 1
    OBVIOUS
  <2>1. k - 1 \in 0..(Cardinality(D) - 1)
    BY <1>2
  <2>2. PICK i \in D : rank[i] = k - 1
    BY ONLY <1>4, <2>1
  <2>3. \E j \in DOMAIN fr : Rank(fr, j) = k - 1
    BY <1>3, <2>2
  <2> QED BY <2>3, <1>3
<1>6. e \in [D -> D]
  BY <1>5
<1>7. \A k, l \in D : e[k] = e[l] => k = l
  <2> SUFFICES ASSUME NEW k \in D, NEW l \in D, e[k] = e[l] PROVE k = l
    OBVIOUS
  <2>1. k - 1 = l - 1 /\ k \in Int /\ l \in Int
    BY <1>2, <1>5
  <2> QED BY ONLY <2>1
<1>8. \A i \in D : \E k \in D : e[k] = i
  <2> SUFFICES ASSUME NEW i \in D PROVE \E k \in D : e[k] = i
    OBVIOUS
  <2> PICK k : k = rank[i] + 1
    OBVIOUS
  <2>1. rank[i] \in 0..(Len(fr) - 1)
    BY <1>2, <1>4
  <2>2. k \in D /\ k - 1 = rank[i]
    BY ONLY <1>2, <2>1, k = rank[i] + 1
  <2>3. e[k] \in D /\ rank[e[k]] = rank[i]
    BY <2>2, <1>5
  <2>4. e[k] = i
    BY ONLY <2>3, <1>4, i \in D
  <2> QED BY <2>2, <2>4
<1>9. \A k, l \in D : k < l <=> Precedes(fr, e[k], e[l])
  <2> SUFFICES ASSUME NEW k \in D, NEW l \in D PROVE k < l <=> Precedes(fr, e[k], e[l])
    OBVIOUS
  <2>1. k \in Int /\ l \in Int /\ e[k] \in D /\ e[l] \in D
        /\ rank[e[k]] = k - 1 /\ rank[e[l]] = l - 1
    BY <1>2, <1>5
  <2>2. Precedes(fr, e[k], e[l]) => k < l
    <3>1. Precedes(fr, e[k], e[l]) => rank[e[k]] < rank[e[l]]
      BY <2>1, <1>1, <1>4
    <3> QED BY ONLY <2>1, <3>1
  <2>3. Precedes(fr, e[l], e[k]) => l < k
    <3>1. Precedes(fr, e[l], e[k]) => rank[e[l]] < rank[e[k]]
      BY <2>1, <1>1, <1>4
    <3> QED BY ONLY <2>1, <3>1
  <2>4. k < l => e[k] # e[l]
    BY <2>1, <1>7
  <2>5. e[k] # e[l] => Precedes(fr, e[k], e[l]) \/ Precedes(fr, e[l], e[k])
    BY <2>1, PrecedesIsOrder
  <2>6. k < l => ~ (l < k)
    BY ONLY <2>1
  <2> QED BY ONLY <2>2, <2>3, <2>4, <2>5, <2>6
<1>10. SortTicks(fr) = [k \in DOMAIN fr |-> fr[e[k]]]
  <2> PICK f : f = [k \in DOMAIN fr |->
                      fr[CHOOSE i \in DOMAIN fr : Rank(fr, i) = k - 1]]
    OBVIOUS
  <2> PICK V : V = {fr[i] : i \in 1..Len(fr)}
    OBVIOUS
  <2>1. f = [k \in DOMAIN fr |-> fr[e[k]]]
    OBVIOUS
  <2>2. f \in [1..Len(fr) -> V]
    <3>1. \A k \in 1..Len(fr) : e[k] \in 1..Len(fr)
      BY ONLY <1>2, <1>5
    <3>2. f = [k \in 1..Len(fr) |-> fr[e[k]]]
      BY <2>1, <1>2
    <3> QED BY ONLY <3>1, <3>2, V = {fr[i] : i \in 1..Len(fr)}
  <2>3. f \in Seq(V) /\ Len(f) = Len(fr)
    BY ONLY <1>2, <2>2, SeqDef, LenProperties
  <2>4. SubSeq(f, 1, Len(f)) = f
    BY ONLY <2>3, SubSeqFull
  <2> QED BY <2>1, <2>3, <2>4 DEF SortTicks
<1>11. Lists(fr, e)
  BY <1>6, <1>7, <1>8, <1>9 DEF Lists
<1> QED BY <1>10, <1>11

-----------------------------------------------------------------------------
(* The columns as the frame arrived.  Each is read off the rows that        *)
(* precede a row, with no regard to where sorting puts them.                *)

Mine(fr, s) == {i \in DOMAIN fr : fr[i].sym = s}

UpTo(fr, i) ==
  {j \in DOMAIN fr : fr[j].sym = fr[i].sym /\ (j = i \/ Precedes(fr, j, i))}

Earlier(fr, i) ==
  {j \in DOMAIN fr : fr[j].sym = fr[i].sym /\ fr[j].ts < fr[i].ts}

IsLatest(fr, S, i) == i \in S /\ \A j \in S : j = i \/ Precedes(fr, j, i)
IsFirst(fr, S, i)  == i \in S /\ \A j \in S : j = i \/ Precedes(fr, i, j)

Latest(fr, S) == CHOOSE i \in S : IsLatest(fr, S, i)
First(fr, S)  == CHOOSE i \in S : IsFirst(fr, S, i)

RawSignAt(fr, i) ==
  LET before == UpTo(fr, i) \ {i}
  IN  IF before = {} THEN 0 ELSE Sgn(fr[i].price - fr[Latest(fr, before)].price)

SignAt(fr, i) ==
  LET moved == {j \in UpTo(fr, i) : RawSignAt(fr, j) # 0}
  IN  IF moved = {} THEN 0 ELSE RawSignAt(fr, Latest(fr, moved))

PriorAt(sp, fr, i) == Total([j \in UpTo(fr, i) \ {i} |-> Weight(sp, fr[j])])

BucketAt(sp, fr, i) ==
  RawBucket(sp, fr[i].ts, Total([j \in Earlier(fr, i) |-> Weight(sp, fr[j])]))

RowAt(sp, fr, i) ==
  [sym       |-> fr[i].sym,
   ts        |-> fr[i].ts,
   price     |-> fr[i].price,
   size      |-> fr[i].size,
   tick_sign |-> SignAt(fr, i),
   sign      |-> SignOf(sp, fr[i], SignAt(fr, i)),
   prior     |-> PriorAt(sp, fr, i),
   bucket    |-> BucketAt(sp, fr, i)]

(* A set of rows has one latest and one first. *)
LEMMA EndsAreUnique ==
  ASSUME NEW fr, IsFrame(fr), NEW S \in SUBSET DOMAIN fr
  PROVE  /\ \A i : IsLatest(fr, S, i) => Latest(fr, S) = i
         /\ \A i : IsFirst(fr, S, i) => First(fr, S) = i
<1>1. \A i, j \in DOMAIN fr : Precedes(fr, i, j) => ~ Precedes(fr, j, i)
  BY PrecedesIsOrder
<1>2. ASSUME NEW i, IsLatest(fr, S, i) PROVE Latest(fr, S) = i
  <2> PICK x : x = Latest(fr, S)
    OBVIOUS
  <2>1. IsLatest(fr, S, x)
    <3>1. i \in S
      BY <1>2 DEF IsLatest
    <3> QED BY <1>2, <3>1 DEF Latest
  <2> QED BY <1>1, <1>2, <2>1 DEF IsLatest
<1>3. ASSUME NEW i, IsFirst(fr, S, i) PROVE First(fr, S) = i
  <2> PICK x : x = First(fr, S)
    OBVIOUS
  <2>1. IsFirst(fr, S, x)
    <3>1. i \in S
      BY <1>3 DEF IsFirst
    <3> QED BY <1>3, <3>1 DEF First
  <2> QED BY <1>1, <1>3, <2>1 DEF IsFirst
<1> QED BY <1>2, <1>3

(* e, from 1..n, lists the rows of S as Precedes orders them. *)
ListsPart(fr, e, n, S) ==
  /\ n \in Nat /\ S \in SUBSET DOMAIN fr
  /\ e \in [1..n -> S]
  /\ \A k, l \in 1..n : e[k] = e[l] => k = l
  /\ \A i \in S : \E k \in 1..n : e[k] = i
  /\ \A k, l \in 1..n : k < l <=> Precedes(fr, e[k], e[l])

(* The rows of the places in K. *)
Image(e, K) == {e[k] : k \in K}

(* The last and the first place of some rows are where their latest and     *)
(* their first stand.                                                       *)
LEMMA EndsOfPlaces ==
  ASSUME NEW fr, IsFrame(fr), NEW n, NEW S, NEW e, ListsPart(fr, e, n, S),
         NEW K \in SUBSET (1..n), K # {}
  PROVE  /\ Max(K) \in K /\ Min(K) \in K
         /\ IsLatest(fr, Image(e, K), e[Max(K)])
         /\ IsFirst(fr, Image(e, K), e[Min(K)])
         /\ Latest(fr, Image(e, K)) = e[Max(K)]
         /\ First(fr, Image(e, K)) = e[Min(K)]
<1>1. n \in Nat /\ S \in SUBSET DOMAIN fr /\ e \in [1..n -> S]
  BY DEF ListsPart
<1>2. Max(K) \in K /\ \A y \in K : y <= Max(K)
  BY ONLY <1>1, K \in SUBSET (1..n), K # {}, MaxOfRows
<1>3. Min(K) \in K /\ \A y \in K : Min(K) <= y
  <2>1. K \subseteq Nat
    BY <1>1
  <2> QED BY ONLY <2>1, K # {}, MinOfRows
<1> PICK hi, lo : hi = Max(K) /\ lo = Min(K)
  OBVIOUS
<1>4. /\ hi \in K /\ lo \in K /\ hi \in 1..n /\ lo \in 1..n
      /\ \A y \in K : y \in 1..n /\ y <= hi /\ lo <= y
  BY <1>2, <1>3
<1>5. \A y \in K : (y = hi \/ y < hi) /\ (y = lo \/ lo < y)
  BY <1>1, <1>4
<1>6. \A k, l \in 1..n : k < l => Precedes(fr, e[k], e[l])
  BY DEF ListsPart
<1>7. IsLatest(fr, Image(e, K), e[hi]) /\ IsFirst(fr, Image(e, K), e[lo])
  BY <1>4, <1>5, <1>6 DEF IsLatest, IsFirst, Image
<1>8. Image(e, K) \in SUBSET DOMAIN fr
  BY <1>1 DEF Image
<1>9. Latest(fr, Image(e, K)) = e[hi] /\ First(fr, Image(e, K)) = e[lo]
  BY <1>7, <1>8, EndsAreUnique
<1> QED BY <1>4, <1>7, <1>9

(* The weight of any row is an integer, and of a row as the contract asks a *)
(* natural number.                                                          *)
LEMMA WeightOfRow ==
  ASSUME NEW sp \in BarSpec, NEW fr, IsFrame(fr), NEW i \in DOMAIN fr
  PROVE  /\ Weight(sp, fr[i]) \in Int
         /\ fr[i].price >= 0 /\ fr[i].size >= 0 => Weight(sp, fr[i]) >= 0
<1> PICK p, z : p = fr[i].price /\ z = fr[i].size
  OBVIOUS
<1>1. p \in Int /\ z \in Int
  BY DEF IsFrame
<1>2. z * p \in Int
  BY ONLY <1>1
<1>3. p >= 0 /\ z >= 0 => z * p >= 0
  <2> SUFFICES ASSUME p >= 0, z >= 0 PROVE z * p >= 0
    OBVIOUS
  <2>1. p \in Nat /\ z \in Nat
    BY <1>1
  <2>2. z * p \in Nat
    BY ONLY <2>1
  <2> QED BY <2>2
<1>4. sp.kind \in BarKind
  BY DEF BarSpec
<1> QED BY <1>1, <1>2, <1>3, <1>4 DEF Weight, BarKind

(* T has the rows of fr, listed by e. *)
IsListing(fr, e, T) == T = [k \in DOMAIN fr |-> fr[e[k]]]

(* The places of the rows a column expression reads at place k hold the     *)
(* rows that precede the k-th.                                              *)
PlacesFit(fr, e, T, k) ==
  /\ ListsPart(fr, e, Len(fr), DOMAIN fr)
  /\ SameSymbol(T, k) \in SUBSET (1..Len(fr)) /\ k \in SameSymbol(T, k)
  /\ Image(e, SameSymbol(T, k)) = UpTo(fr, e[k])
  /\ Image(e, SameSymbol(T, k) \ {k}) = UpTo(fr, e[k]) \ {e[k]}

(* So they do in the sorted frame. *)
LEMMA PlacesUpTo ==
  ASSUME NEW fr, IsFrame(fr), NEW e, Lists(fr, e),
         NEW T, IsListing(fr, e, T), NEW k \in DOMAIN fr
  PROVE  PlacesFit(fr, e, T, k)
<1> PICK D : D = DOMAIN fr
  OBVIOUS
<1>1. D = 1..Len(fr) /\ Len(fr) \in Nat
  BY FrameRows
<1>2. /\ e \in [D -> D]
      /\ \A x, y \in D : e[x] = e[y] => x = y
      /\ \A i \in D : \E x \in D : e[x] = i
      /\ \A x, y \in D : x < y <=> Precedes(fr, e[x], e[y])
  BY DEF Lists
<1>3. ListsPart(fr, e, Len(fr), DOMAIN fr)
  BY <1>1, <1>2 DEF ListsPart
<1>4. \A j \in 1..k : j \in D /\ (j = k \/ j < k)
  BY <1>1
<1>5. \A j \in D : j \in 1..k <=> j = k \/ j < k
  BY <1>1
<1>6. \A j \in D : j \in SameSymbol(T, k) <=> e[j] \in UpTo(fr, e[k])
  <2> SUFFICES ASSUME NEW j \in D
               PROVE  j \in SameSymbol(T, k) <=> e[j] \in UpTo(fr, e[k])
    OBVIOUS
  <2>1. T[j] = fr[e[j]] /\ T[k] = fr[e[k]] /\ e[j] \in DOMAIN fr /\ e[k] \in DOMAIN fr
    BY <1>2 DEF IsListing
  <2>2. j \in 1..k <=> e[j] = e[k] \/ Precedes(fr, e[j], e[k])
    BY <1>2, <1>5
  <2> QED BY <2>1, <2>2 DEF SameSymbol, UpTo
<1>7. SameSymbol(T, k) \subseteq D /\ k \in SameSymbol(T, k)
  <2>1. k \in 1..k
    BY <1>1
  <2> QED BY <1>4, <2>1 DEF SameSymbol
<1>8. Image(e, SameSymbol(T, k)) = UpTo(fr, e[k])
  <2>1. UpTo(fr, e[k]) \subseteq D
    BY DEF UpTo
  <2> QED BY <1>2, <1>6, <1>7, <2>1 DEF Image
<1>9. Image(e, SameSymbol(T, k) \ {k}) = UpTo(fr, e[k]) \ {e[k]}
  <2>1. Image(e, SameSymbol(T, k) \ {k}) = Image(e, SameSymbol(T, k)) \ {e[k]}
    BY <1>2, <1>7 DEF Image
  <2> QED BY <1>8, <2>1
<1> QED BY <1>1, <1>3, <1>7, <1>8, <1>9 DEF PlacesFit

(* Each tick's signs are those of its row as it arrived. *)
LEMMA SignsAsArrived ==
  ASSUME NEW fr, IsFrame(fr), NEW e, Lists(fr, e),
         NEW T, IsListing(fr, e, T), NEW k \in DOMAIN fr
  PROVE  TickSign(T, k) = SignAt(fr, e[k])
<1> PICK D : D = DOMAIN fr
  OBVIOUS
<1>1. D = 1..Len(fr) /\ Len(fr) \in Nat
  BY FrameRows
<1>2. e \in [D -> D] /\ \A x \in D : T[x] = fr[e[x]]
  BY DEF Lists, IsListing
<1>3. ASSUME NEW j \in D PROVE RawTickSign(T, j) = RawSignAt(fr, e[j])
  <2> PICK K : K = SameSymbol(T, j) \ {j}
    OBVIOUS
  <2> PICK U : U = UpTo(fr, e[j]) \ {e[j]}
    OBVIOUS
  <2>1. /\ ListsPart(fr, e, Len(fr), DOMAIN fr)
        /\ K \in SUBSET (1..Len(fr)) /\ Image(e, K) = U
    <3>1. j \in DOMAIN fr
      OBVIOUS
    <3>2. PlacesFit(fr, e, T, j)
      BY ONLY IsFrame(fr), Lists(fr, e), IsListing(fr, e, T), <3>1, PlacesUpTo
    <3> QED BY <3>2 DEF PlacesFit
  <2>2. K = {} <=> U = {}
    BY ONLY <2>1 DEF Image
  <2>3. K # {} => Max(K) \in K /\ Latest(fr, U) = e[Max(K)]
    <3>1. K # {} => Max(K) \in K /\ Latest(fr, Image(e, K)) = e[Max(K)]
      BY ONLY IsFrame(fr), <2>1, EndsOfPlaces
    <3> QED BY <2>1, <3>1
  <2>4. K # {} => T[Max(K)] = fr[Latest(fr, U)]
    <3>1. K \subseteq D
      BY <1>1, <2>1
    <3> QED BY <2>3, <1>2, <3>1
  <2>5. RawTickSign(T, j) = IF K = {} THEN 0 ELSE Sgn(T[j].price - T[Max(K)].price)
    BY DEF RawTickSign
  <2>6. RawSignAt(fr, e[j]) = IF U = {} THEN 0 ELSE Sgn(fr[e[j]].price - fr[Latest(fr, U)].price)
    BY DEF RawSignAt
  <2> QED BY <2>2, <2>4, <2>5, <2>6, <1>2
<1> PICK K : K = {j \in SameSymbol(T, k) : RawTickSign(T, j) # 0}
  OBVIOUS
<1> PICK U : U = {j \in UpTo(fr, e[k]) : RawSignAt(fr, j) # 0}
  OBVIOUS
<1>4. /\ ListsPart(fr, e, Len(fr), DOMAIN fr)
      /\ SameSymbol(T, k) \in SUBSET (1..Len(fr))
      /\ Image(e, SameSymbol(T, k)) = UpTo(fr, e[k])
  <2>1. PlacesFit(fr, e, T, k)
    BY ONLY IsFrame(fr), Lists(fr, e), IsListing(fr, e, T), k \in DOMAIN fr, PlacesUpTo
  <2> QED BY <2>1 DEF PlacesFit
<1>5. K \in SUBSET (1..Len(fr)) /\ K \subseteq D
  BY <1>1, <1>4
<1>6. Image(e, K) = U
  BY <1>1, <1>3, <1>4 DEF Image
<1>7. K = {} <=> U = {}
  BY <1>6 DEF Image
<1>8. K # {} => Max(K) \in K /\ Latest(fr, Image(e, K)) = e[Max(K)]
  BY ONLY IsFrame(fr), <1>4, <1>5, EndsOfPlaces
<1>9. K # {} => RawTickSign(T, Max(K)) = RawSignAt(fr, Latest(fr, U))
  BY <1>3, <1>5, <1>6, <1>8
<1>10. TickSign(T, k) = IF K = {} THEN 0 ELSE RawTickSign(T, Max(K))
  BY DEF TickSign
<1>11. SignAt(fr, e[k]) = IF U = {} THEN 0 ELSE RawSignAt(fr, Latest(fr, U))
  BY DEF SignAt
<1> QED BY <1>7, <1>9, <1>10, <1>11

(* A sum over places is the sum over the rows that stand there. *)
LEMMA TotalOverPlaces ==
  ASSUME NEW fr, NEW e, NEW n, NEW S, ListsPart(fr, e, n, S),
         NEW K \in SUBSET (1..n), NEW I, I = Image(e, K),
         NEW f \in [I -> Int], NEW c, c = [k \in K |-> f[e[k]]]
  PROVE  /\ IsFiniteSet(K) /\ IsFiniteSet(I) /\ Cardinality(I) = Cardinality(K)
         /\ Total(c) = Total(f)
<1> PICK p : p = [k \in K |-> e[k]]
  OBVIOUS
<1>1. n \in Nat /\ \A k, l \in 1..n : e[k] = e[l] => k = l
  BY DEF ListsPart
<1>2. IsFiniteSet(K)
  BY <1>1, IntervalCount, FS_Subset
<1>3. p \in [K -> I] /\ \A z \in I : \E k \in K : p[k] = z
  BY DEF Image
<1>4. \A k, l \in K : p[k] = p[l] => k = l
  BY <1>1
<1>5. Renamed(c, K, f, p) /\ Pairs(p, K, I)
  BY <1>3, <1>4 DEF Renamed, Pairs
<1>6. IsFiniteSet(I) /\ Cardinality(I) = Cardinality(K) /\ Total(c) = Total(f)
  BY ONLY <1>2, <1>5, f \in [I -> Int], TotalRenamed
<1> QED BY <1>2, <1>6

(* Each tick's running total is that of its row as it arrived. *)
LEMMA PriorsAsArrived ==
  ASSUME NEW sp \in BarSpec, NEW fr, IsFrame(fr), NEW e, Lists(fr, e),
         NEW T, IsListing(fr, e, T), NEW k \in DOMAIN fr
  PROVE  Prior(sp, T, k) = PriorAt(sp, fr, e[k])
<1> PICK K : K = SameSymbol(T, k) \ {k}
  OBVIOUS
<1> PICK I : I = UpTo(fr, e[k]) \ {e[k]}
  OBVIOUS
<1>1. ListsPart(fr, e, Len(fr), DOMAIN fr) /\ K \in SUBSET (1..Len(fr)) /\ I = Image(e, K)
  <2>1. PlacesFit(fr, e, T, k)
    BY ONLY IsFrame(fr), Lists(fr, e), IsListing(fr, e, T), k \in DOMAIN fr, PlacesUpTo
  <2> QED BY <2>1 DEF PlacesFit
<1> PICK f : f = [i \in I |-> Weight(sp, fr[i])]
  OBVIOUS
<1> PICK c : c = [j \in K |-> Weight(sp, T[j])]
  OBVIOUS
<1>2. f \in [I -> Int]
  <2>1. I \subseteq DOMAIN fr
    BY DEF UpTo
  <2> QED BY <2>1, WeightOfRow
<1>3. c = [j \in K |-> f[e[j]]]
  <2>1. \A j \in K : j \in DOMAIN fr /\ e[j] \in I
    BY <1>1, FrameRows DEF Image
  <2>2. \A j \in K : T[j] = fr[e[j]]
    BY <2>1 DEF IsListing
  <2> QED BY <2>1, <2>2
<1>4. Total(c) = Total(f)
  BY ONLY <1>1, <1>2, <1>3, TotalOverPlaces
<1> QED BY <1>4 DEF Prior, PriorAt

Ties(fr, i) == {j \in UpTo(fr, i) : fr[j].ts = fr[i].ts}

(* A tie's first row finds what is earlier than all of them. *)
LEMMA FirstOfTie ==
  ASSUME NEW fr, IsFrame(fr), NEW i \in DOMAIN fr, NEW m, IsFirst(fr, Ties(fr, i), m)
  PROVE  /\ m \in DOMAIN fr /\ fr[m].ts = fr[i].ts
         /\ UpTo(fr, m) \ {m} = Earlier(fr, i)
<1>1. m \in DOMAIN fr /\ fr[m].ts = fr[i].ts /\ fr[m].sym = fr[i].sym
      /\ (m = i \/ Precedes(fr, m, i))
  BY DEF IsFirst, UpTo, Ties
<1>2. /\ \A x \in DOMAIN fr : ~ Precedes(fr, x, x)
      /\ \A x, y, z \in DOMAIN fr : Precedes(fr, x, y) /\ Precedes(fr, y, z) => Precedes(fr, x, z)
      /\ \A x, y \in DOMAIN fr : Precedes(fr, x, y) => ~ Precedes(fr, y, x)
  BY PrecedesIsOrder
<1>3. \A x \in DOMAIN fr : fr[x].ts \in Int /\ fr[x].sym \in Int
  BY FrameRows
<1>4. ASSUME NEW j \in UpTo(fr, m), j # m PROVE j \in Earlier(fr, i)
  <2>1. j \in DOMAIN fr /\ fr[j].sym = fr[i].sym /\ Precedes(fr, j, m)
    BY <1>1, <1>4 DEF UpTo
  <2>2. fr[j].ts <= fr[m].ts
    BY <1>1, <1>3, <2>1 DEF Precedes
  <2>3. j \in UpTo(fr, i)
    BY <1>1, <1>2, <2>1 DEF UpTo
  <2>4. fr[j].ts # fr[i].ts
    <3> SUFFICES ASSUME fr[j].ts = fr[i].ts PROVE FALSE
      OBVIOUS
    <3>1. j \in Ties(fr, i)
      BY <2>3 DEF Ties
    <3>2. Precedes(fr, m, j)
      BY <1>4, <3>1 DEF IsFirst
    <3> QED BY <1>1, <1>2, <2>1, <3>2
  <2> QED BY <1>1, <1>3, <2>1, <2>2, <2>4 DEF Earlier
<1>5. ASSUME NEW j \in Earlier(fr, i) PROVE j \in UpTo(fr, m) /\ j # m
  <2>1. j \in DOMAIN fr /\ fr[j].sym = fr[m].sym /\ fr[j].ts < fr[m].ts
    BY <1>1 DEF Earlier
  <2>2. Precedes(fr, j, m)
    BY <2>1 DEF Precedes
  <2> QED BY <1>2, <2>1, <2>2 DEF UpTo
<1> QED BY <1>1, <1>4, <1>5

(* Each tick's bucket is that of its row as it arrived. *)
LEMMA BucketsAsArrived ==
  ASSUME NEW sp \in BarSpec, NEW fr, IsFrame(fr), NEW e, Lists(fr, e),
         NEW T, IsListing(fr, e, T), NEW k \in DOMAIN fr
  PROVE  AssignBucket(sp, T)[k] = BucketAt(sp, fr, e[k])
<1> PICK n : n = Len(fr)
  OBVIOUS
<1>1. DOMAIN T = DOMAIN fr /\ DOMAIN fr = 1..n /\ n \in Nat
  BY FrameRows DEF IsListing
<1>2. PlacesFit(fr, e, T, k)
  BY ONLY IsFrame(fr), Lists(fr, e), IsListing(fr, e, T), k \in DOMAIN fr, PlacesUpTo
<1>3. e \in [DOMAIN fr -> DOMAIN fr]
  BY DEF Lists
<1> PICK K : K = {j \in SameSymbol(T, k) : T[j].ts = T[k].ts}
  OBVIOUS
<1> PICK U : U = {j \in UpTo(fr, e[k]) : fr[j].ts = fr[e[k]].ts}
  OBVIOUS
<1>4. K \in SUBSET (1..n) /\ k \in K
  BY <1>2 DEF PlacesFit
<1>5. Image(e, K) = U
  <2>1. Image(e, SameSymbol(T, k)) = UpTo(fr, e[k])
    BY <1>2 DEF PlacesFit
  <2>2. \A j \in SameSymbol(T, k) : T[j] = fr[e[j]] /\ T[k] = fr[e[k]]
    BY <1>1, <1>2 DEF PlacesFit, IsListing
  <2> QED BY <2>1, <2>2 DEF Image
<1> PICK m : m = Min(K)
  OBVIOUS
<1>6. m \in K /\ IsFirst(fr, U, e[m])
  <2>1. ListsPart(fr, e, n, DOMAIN fr) /\ K # {}
    BY <1>2, <1>4 DEF PlacesFit
  <2>2. Min(K) \in K /\ IsFirst(fr, Image(e, K), e[Min(K)])
    BY ONLY IsFrame(fr), <2>1, <1>4, EndsOfPlaces
  <2> QED BY <2>2, <1>5
<1>7. m \in DOMAIN fr /\ e[k] \in DOMAIN fr
  BY <1>1, <1>3, <1>4, <1>6
<1>8. fr[e[m]].ts = fr[e[k]].ts /\ UpTo(fr, e[m]) \ {e[m]} = Earlier(fr, e[k])
  <2> PICK i, x : i = e[k] /\ x = e[m]
    OBVIOUS
  <2>1. i \in DOMAIN fr /\ IsFirst(fr, Ties(fr, i), x)
    BY <1>6, <1>7 DEF Ties
  <2>2. fr[x].ts = fr[i].ts /\ UpTo(fr, x) \ {x} = Earlier(fr, i)
    BY ONLY IsFrame(fr), <2>1, FirstOfTie
  <2> QED BY <2>2
<1>9. Prior(sp, T, m) = PriorAt(sp, fr, e[m])
  BY ONLY sp \in BarSpec, IsFrame(fr), Lists(fr, e), IsListing(fr, e, T), <1>7, PriorsAsArrived
<1>10. PriorAt(sp, fr, e[m]) = Total([j \in Earlier(fr, e[k]) |-> Weight(sp, fr[j])])
  BY <1>8 DEF PriorAt
<1>11. AssignBucket(sp, T)[k] = RawBucket(sp, T[m].ts, Prior(sp, T, m))
  BY <1>1, <1>7 DEF AssignBucket, AtomicTies
<1>12. T[m] = fr[e[m]]
  BY <1>7 DEF IsListing
<1> QED BY <1>8, <1>9, <1>10, <1>11, <1>12 DEF BucketAt

(* q lists the numbers in M, ascending: each is where SymbolRows looks.     *)
Ascends(q, n, M) ==
  /\ n \in Nat /\ n = Cardinality(M) /\ q \in [1..n -> M]
  /\ \A k, l \in 1..n : k < l <=> q[k] < q[l]
  /\ \A i \in M : \E k \in 1..n : q[k] = i
  /\ \A k \in 1..n : q[k] = CHOOSE i \in M : Place(M, i) = k - 1

(* Any set of row numbers is listed so. *)
LEMMA PlacesInOrder ==
  ASSUME NEW N \in Nat, NEW M \in SUBSET (1..N)
  PROVE  \E q, n : Ascends(q, n, M)
<1>1. IsFiniteSet(M) /\ M \subseteq Int
  <2>1. IsFiniteSet(1..N)
    BY IntervalCount
  <2>2. M \subseteq Int
    OBVIOUS
  <2>3. IsFiniteSet(M)
    BY <2>1, FS_Subset
  <2> QED BY <2>2, <2>3
<1> PICK n : n = Cardinality(M)
  OBVIOUS
<1>2. n \in Nat
  BY <1>1, FS_CardinalityType
<1> PICK place : place = [i \in M |-> Place(M, i)]
  OBVIOUS
<1>0. PICK q : q = [k \in 1..n |-> CHOOSE i \in M : Place(M, i) = k - 1]
  OBVIOUS
<1>3. \A k \in 1..n : q[k] \in M /\ Place(M, q[k]) = k - 1
  <2> SUFFICES ASSUME NEW k \in 1..n PROVE q[k] \in M /\ Place(M, q[k]) = k - 1
    OBVIOUS
  <2>1. k - 1 \in 0..(Cardinality(M) - 1)
    BY <1>2
  <2>2. \E i \in M : Place(M, i) = k - 1
    BY ONLY <1>1, <2>1, PlaceIsTaken
  <2> QED BY <2>2, <1>0
<1>4. \A i \in M : Place(M, i) \in 0..(n - 1)
  BY <1>1, PlacesAreOrdered
<1>5. \A i \in M : \E k \in 1..n : q[k] = i
  <2> SUFFICES ASSUME NEW i \in M PROVE \E k \in 1..n : q[k] = i
    OBVIOUS
  <2> PICK k : k = Place(M, i) + 1
    OBVIOUS
  <2>1. k \in 1..n /\ Place(M, i) = k - 1
    <3> PICK p : p = Place(M, i)
      OBVIOUS
    <3>1. p \in 0..(n - 1) /\ k = p + 1
      BY <1>4
    <3>2. k \in 1..n /\ p = k - 1
      BY ONLY <1>2, <3>1
    <3> QED BY <3>2
  <2>2. q[k] \in M /\ Place(M, q[k]) = Place(M, i)
    BY <1>3, <2>1
  <2>3. q[k] = i
    BY ONLY <1>1, <2>2, i \in M, PlaceTellsKey
  <2> QED BY <2>1, <2>3
<1>6. \A k, l \in 1..n : q[k] < q[l] => k < l
  <2> SUFFICES ASSUME NEW k \in 1..n, NEW l \in 1..n, q[k] < q[l] PROVE k < l
    OBVIOUS
  <2>1. Place(M, q[k]) < Place(M, q[l])
    BY <1>1, <1>3, PlacesAreOrdered
  <2>2. Place(M, q[k]) = k - 1 /\ Place(M, q[l]) = l - 1 /\ k \in Int /\ l \in Int
    BY <1>2, <1>3
  <2> QED BY ONLY <2>1, <2>2
<1>7. \A k, l \in 1..n : k < l => q[k] < q[l]
  <2> SUFFICES ASSUME NEW k \in 1..n, NEW l \in 1..n, k < l PROVE q[k] < q[l]
    OBVIOUS
  <2>1. ~ (q[l] < q[k])
    BY <1>2, <1>6
  <2>2. q[k] # q[l]
    <3>1. Place(M, q[k]) = k - 1 /\ Place(M, q[l]) = l - 1
      BY <1>3
    <3>2. k - 1 # l - 1
      BY <1>2
    <3> QED BY <3>1, <3>2
  <2>3. q[k] \in Int /\ q[l] \in Int
    BY <1>1, <1>3
  <2> QED BY ONLY <2>1, <2>2, <2>3
<1>8. q \in [1..n -> M]
  BY <1>0, <1>3
<1>9. Ascends(q, n, M)
  BY <1>0, <1>2, <1>5, <1>6, <1>7, <1>8 DEF Ascends
<1> QED BY <1>9

(* The rows of a symbol, as they arrived. *)
ReadsOff(sp, fr, s, a, n, rows) ==
  /\ ListsPart(fr, a, n, Mine(fr, s))
  /\ rows = [k \in 1..n |-> RowAt(sp, fr, a[k])]

(* The frame that build_bars groups has the columns of the rows as they     *)
(* arrived, of one symbol, in the order of their times.                     *)
LEMMA RowsAsArrived ==
  ASSUME NEW sp \in BarSpec, NEW fr, IsFrame(fr), NEW s
  PROVE  \E a, n : ReadsOff(sp, fr, s, a, n, SymbolRows(KeyedRows(sp, SortTicks(fr)), s))
<1> PICK T : T = SortTicks(fr)
  OBVIOUS
<1>1. PICK e : Lists(fr, e) /\ IsListing(fr, e, T)
  BY SortLists DEF IsListing
<1> PICK D : D = DOMAIN fr
  OBVIOUS
<1>2. DOMAIN T = D /\ D = 1..Len(fr) /\ Len(fr) \in Nat
  BY <1>1, FrameRows DEF IsListing
<1>3. /\ e \in [D -> D] /\ \A k \in D : T[k] = fr[e[k]]
      /\ \A k, l \in D : e[k] = e[l] => k = l
      /\ \A i \in D : \E k \in D : e[k] = i
      /\ \A k, l \in D : k < l <=> Precedes(fr, e[k], e[l])
  BY <1>1 DEF Lists, IsListing
<1> PICK keyed : keyed = KeyedRows(sp, T)
  OBVIOUS
<1>4. DOMAIN keyed = D
  BY <1>2 DEF KeyedRows
<1>5. \A k \in D : keyed[k] = RowAt(sp, fr, e[k])
  <2> SUFFICES ASSUME NEW k \in DOMAIN fr PROVE keyed[k] = RowAt(sp, fr, e[k])
    OBVIOUS
  <2>1. TickSign(T, k) = SignAt(fr, e[k])
    BY ONLY IsFrame(fr), <1>1, k \in DOMAIN fr, SignsAsArrived
  <2>2. Prior(sp, T, k) = PriorAt(sp, fr, e[k])
    BY ONLY sp \in BarSpec, IsFrame(fr), <1>1, k \in DOMAIN fr, PriorsAsArrived
  <2>3. AssignBucket(sp, T)[k] = BucketAt(sp, fr, e[k])
    BY ONLY sp \in BarSpec, IsFrame(fr), <1>1, k \in DOMAIN fr, BucketsAsArrived
  <2>4. T[k] = fr[e[k]] /\ k \in DOMAIN T
    BY <1>2, <1>3
  <2>5. keyed[k] = [sym       |-> T[k].sym,
                    ts        |-> T[k].ts,
                    price     |-> T[k].price,
                    size      |-> T[k].size,
                    tick_sign |-> TickSign(T, k),
                    sign      |-> SignOf(sp, T[k], TickSign(T, k)),
                    prior     |-> Prior(sp, T, k),
                    bucket    |-> AssignBucket(sp, T)[k]]
    BY <2>4 DEF KeyedRows
  <2> QED BY <2>1, <2>2, <2>3, <2>4, <2>5 DEF RowAt
<1> PICK M : M = {i \in DOMAIN keyed : keyed[i].sym = s}
  OBVIOUS
<1>6. M \in SUBSET (1..Len(fr)) /\ M \subseteq D /\ \A i \in D : i \in M <=> fr[e[i]].sym = s
  BY <1>2, <1>4, <1>5 DEF RowAt
<1>0. PICK q, n : Ascends(q, n, M)
  BY ONLY <1>2, <1>6, PlacesInOrder
<1>7. /\ n \in Nat /\ q \in [1..n -> M]
      /\ \A k, l \in 1..n : k < l <=> q[k] < q[l]
      /\ \A i \in M : \E k \in 1..n : q[k] = i
  BY <1>0 DEF Ascends
<1>8. SymbolRows(keyed, s) = [k \in 1..n |-> keyed[q[k]]]
  <2>1. SymbolRows(keyed, s)
          = [k \in 1..Cardinality(M) |-> keyed[CHOOSE i \in M : Place(M, i) = k - 1]]
    BY ONLY M = {i \in DOMAIN keyed : keyed[i].sym = s} DEF SymbolRows, Place, Below
  <2>2. \A k \in 1..n : q[k] = CHOOSE i \in M : Place(M, i) = k - 1
    BY <1>0 DEF Ascends
  <2>3. n = Cardinality(M)
    BY <1>0 DEF Ascends
  <2>4. \A k \in 1..n : keyed[CHOOSE i \in M : Place(M, i) = k - 1] = keyed[q[k]]
    BY ONLY <2>2
  <2> QED BY ONLY <2>1, <2>3, <2>4
<1> PICK a : a = [k \in 1..n |-> e[q[k]]]
  OBVIOUS
<1>9. SymbolRows(keyed, s) = [k \in 1..n |-> RowAt(sp, fr, a[k])]
  <2>1. \A k \in 1..n : q[k] \in D
    BY <1>6, <1>7
  <2>2. \A k \in 1..n : keyed[q[k]] = RowAt(sp, fr, a[k])
    BY <1>5, <2>1
  <2> QED BY <1>8, <2>2
<1>10. ListsPart(fr, a, n, Mine(fr, s))
  <2> PICK S : S = Mine(fr, s)
    OBVIOUS
  <2>1. S \in SUBSET DOMAIN fr /\ \A i \in D : i \in S <=> fr[i].sym = s
    BY DEF Mine
  <2>2. \A k \in 1..n : q[k] \in M /\ q[k] \in D /\ a[k] = e[q[k]]
    BY <1>6, <1>7
  <2>3. a \in [1..n -> S]
    BY <1>3, <1>6, <2>1, <2>2
  <2>4. \A k, l \in 1..n : k < l <=> Precedes(fr, a[k], a[l])
    BY <1>3, <1>7, <2>2
  <2>5. \A k, l \in 1..n : a[k] = a[l] => k = l
    <3>1. \A k \in 1..n : ~ Precedes(fr, a[k], a[k])
      BY <2>1, <2>3, PrecedesIsOrder
    <3>2. \A k, l \in 1..n : k < l \/ l < k \/ k = l
      BY <1>7
    <3> QED BY <2>4, <3>1, <3>2
  <2>6. \A i \in S : \E k \in 1..n : a[k] = i
    <3> SUFFICES ASSUME NEW i \in S PROVE \E k \in 1..n : a[k] = i
      OBVIOUS
    <3>1. PICK j \in D : e[j] = i
      BY <1>3, <2>1
    <3>2. j \in M
      BY <1>6, <2>1, <3>1
    <3>3. PICK k \in 1..n : q[k] = j
      BY <1>7, <3>2
    <3> QED BY <2>2, <3>1, <3>3
  <2> QED BY <1>7, <2>1, <2>3, <2>4, <2>5, <2>6 DEF ListsPart
<1>11. ReadsOff(sp, fr, s, a, n, SymbolRows(keyed, s))
  BY <1>9, <1>10 DEF ReadsOff
<1> QED BY <1>11

-----------------------------------------------------------------------------
(* The bars as the frame arrived. *)

Heap(sp, fr, s, b) == {i \in Mine(fr, s) : BucketAt(sp, fr, i) = b}

RowsAt(sp, fr, M) == [i \in M |-> RowAt(sp, fr, i)]

AggAt(sp, fr, M) ==
  LET g == RowsAt(sp, fr, M)
  IN  [ts            |-> fr[Latest(fr, M)].ts,
       open          |-> fr[First(fr, M)].price,
       high          |-> High(g),
       low           |-> Low(g),
       close         |-> fr[Latest(fr, M)].price,
       volume        |-> Volume(g),
       vwap          |-> SafeDiv(Notional(g), Volume(g)),
       trade_count   |-> Cardinality(M),
       signed_volume |-> SignedVolume(g),
       buy_volume    |-> BuyVolume(g),
       sell_volume   |-> SellVolume(g),
       signed_dollar |-> SignedDollar(g)]

(* The sign column holds signs. *)
LEMMA SignTypes ==
  ASSUME NEW sp \in BarSpec, NEW fr, IsFrame(fr), NEW i \in DOMAIN fr
  PROVE  SignAt(fr, i) \in Side /\ RowAt(sp, fr, i).sign \in Side
<1>1. \A j : RawSignAt(fr, j) \in Side
  BY DEF RawSignAt, Sgn, Side
<1>2. SignAt(fr, i) \in Side
  BY <1>1 DEF SignAt, Side
<1>3. fr[i].side \in Side
  BY DEF IsFrame
<1>4. SignOf(sp, fr[i], SignAt(fr, i)) \in Side
  BY <1>2, <1>3, SignOfSide
<1> QED BY <1>2, <1>4 DEF RowAt

(* The columns the reduction reads are integers. *)
LEMMA ColumnTypes ==
  ASSUME NEW sp \in BarSpec, NEW fr, IsFrame(fr), NEW i \in DOMAIN fr,
         NEW r, r = RowAt(sp, fr, i)
  PROVE  /\ r.ts = fr[i].ts /\ r.price = fr[i].price /\ r.size = fr[i].size
         /\ r.ts \in Nat /\ r.price \in Int /\ r.size \in Int /\ r.sign \in Side
         /\ r.sign \in Int /\ r.price * r.size \in Int /\ r.sign * r.size \in Int
         /\ r.sign * r.size * r.price \in Int
<1>1. r.sign \in Side
  BY SignTypes
<1>2. r.ts = fr[i].ts /\ r.price = fr[i].price /\ r.size = fr[i].size
  BY DEF RowAt
<1>3. fr[i].ts \in Nat /\ fr[i].price \in Int /\ fr[i].size \in Int
  BY DEF IsFrame
<1>4. r.ts \in Nat /\ r.price \in Int /\ r.size \in Int /\ r.sign \in Int
  BY <1>1, <1>2, <1>3 DEF Side
<1>5. r.price * r.size \in Int /\ r.sign * r.size \in Int /\ r.sign * r.size * r.price \in Int
  BY ONLY <1>4
<1> QED BY <1>1, <1>2, <1>4, <1>5

(* g has the rows of h under other names: a, of the places K. *)
Relabels(fr, g, h, a, n, S, K) ==
  /\ ListsPart(fr, a, n, S) /\ K \in SUBSET (1..n)
  /\ g = [k \in K |-> h[a[k]]]
  /\ DOMAIN h = Image(a, K)
  /\ \A i \in DOMAIN h :
       /\ h[i].size \in Int /\ h[i].sign \in Int
       /\ h[i].price * h[i].size \in Int /\ h[i].sign * h[i].size \in Int
       /\ h[i].sign * h[i].size * h[i].price \in Int

(* What a bar adds up does not depend on the names of its rows. *)
LEMMA SumsRelabelled ==
  ASSUME NEW fr, NEW g, NEW h, NEW a, NEW n, NEW S, NEW K, Relabels(fr, g, h, a, n, S, K)
  PROVE  /\ Volume(g) = Volume(h) /\ Notional(g) = Notional(h)
         /\ SignedVolume(g) = SignedVolume(h) /\ SignedDollar(g) = SignedDollar(h)
         /\ BuyVolume(g) = BuyVolume(h) /\ SellVolume(g) = SellVolume(h)
         /\ TradeCount(g) = Cardinality(DOMAIN h)
<1> PICK I : I = Image(a, K)
  OBVIOUS
<1>1. /\ ListsPart(fr, a, n, S) /\ K \in SUBSET (1..n)
      /\ DOMAIN g = K /\ DOMAIN h = I /\ \A k \in K : a[k] \in I /\ g[k] = h[a[k]]
  BY DEF Relabels, Image
<1>2. /\ \A i \in I : h[i].size \in Int
      /\ \A i \in I : h[i].price * h[i].size \in Int
      /\ \A i \in I : h[i].sign * h[i].size \in Int
      /\ \A i \in I : h[i].sign * h[i].size * h[i].price \in Int
  BY <1>1 DEF Relabels
<1>3. Volume(g) = Volume(h)
  <2> PICK f : f = [i \in I |-> h[i].size]
    OBVIOUS
  <2> PICK c : c = [k \in K |-> g[k].size]
    OBVIOUS
  <2>1. f \in [I -> Int] /\ c = [k \in K |-> f[a[k]]]
    BY <1>1, <1>2
  <2>2. Total(c) = Total(f)
    BY ONLY <1>1, <2>1, I = Image(a, K), TotalOverPlaces
  <2> QED BY <1>1, <2>2 DEF Volume
<1>4. Notional(g) = Notional(h)
  <2> PICK f : f = [i \in I |-> h[i].price * h[i].size]
    OBVIOUS
  <2> PICK c : c = [k \in K |-> g[k].price * g[k].size]
    OBVIOUS
  <2>1. f \in [I -> Int] /\ c = [k \in K |-> f[a[k]]]
    BY <1>1, <1>2
  <2>2. Total(c) = Total(f)
    BY ONLY <1>1, <2>1, I = Image(a, K), TotalOverPlaces
  <2> QED BY <1>1, <2>2 DEF Notional
<1>5. SignedVolume(g) = SignedVolume(h)
  <2> PICK f : f = [i \in I |-> h[i].sign * h[i].size]
    OBVIOUS
  <2> PICK c : c = [k \in K |-> g[k].sign * g[k].size]
    OBVIOUS
  <2>1. f \in [I -> Int] /\ c = [k \in K |-> f[a[k]]]
    BY <1>1, <1>2
  <2>2. Total(c) = Total(f)
    BY ONLY <1>1, <2>1, I = Image(a, K), TotalOverPlaces
  <2> QED BY <1>1, <2>2 DEF SignedVolume
<1>6. SignedDollar(g) = SignedDollar(h)
  <2> PICK f : f = [i \in I |-> h[i].sign * h[i].size * h[i].price]
    OBVIOUS
  <2> PICK c : c = [k \in K |-> g[k].sign * g[k].size * g[k].price]
    OBVIOUS
  <2>1. f \in [I -> Int] /\ c = [k \in K |-> f[a[k]]]
    BY <1>1, <1>2
  <2>2. Total(c) = Total(f)
    BY ONLY <1>1, <2>1, I = Image(a, K), TotalOverPlaces
  <2> QED BY <1>1, <2>2 DEF SignedDollar
<1>7. ASSUME NEW L \in SUBSET K, NEW J, J = Image(a, L), NEW f, f = [i \in J |-> h[i].size],
             NEW c, c = [k \in L |-> g[k].size]
      PROVE  Total(c) = Total(f)
  <2>1. J \subseteq I /\ L \in SUBSET (1..n) /\ \A k \in L : a[k] \in J
    BY <1>1, <1>7 DEF Image
  <2>2. f \in [J -> Int] /\ c = [k \in L |-> f[a[k]]]
    BY <1>1, <1>2, <1>7, <2>1
  <2> QED BY ONLY <1>1, <2>1, <2>2, J = Image(a, L), TotalOverPlaces
<1>8. BuyVolume(g) = BuyVolume(h)
  <2> PICK L, J : L = {k \in K : g[k].sign > 0} /\ J = {i \in I : h[i].sign > 0}
    OBVIOUS
  <2>1. L \in SUBSET K /\ J = Image(a, L)
    BY <1>1 DEF Image
  <2>2. Total([k \in L |-> g[k].size]) = Total([i \in J |-> h[i].size])
    BY <1>7, <2>1
  <2> QED BY <1>1, <2>2 DEF BuyVolume
<1>9. SellVolume(g) = SellVolume(h)
  <2> PICK L, J : L = {k \in K : g[k].sign < 0} /\ J = {i \in I : h[i].sign < 0}
    OBVIOUS
  <2>1. L \in SUBSET K /\ J = Image(a, L)
    BY <1>1 DEF Image
  <2>2. Total([k \in L |-> g[k].size]) = Total([i \in J |-> h[i].size])
    BY <1>7, <2>1
  <2> QED BY <1>1, <2>2 DEF SellVolume
<1>10. TradeCount(g) = Cardinality(DOMAIN h)
  <2> PICK f, c : f = [i \in I |-> 0] /\ c = [k \in K |-> 0]
    OBVIOUS
  <2>1. f \in [I -> Int] /\ c = [k \in K |-> f[a[k]]]
    BY <1>1
  <2>2. Cardinality(I) = Cardinality(K)
    BY ONLY <1>1, <2>1, I = Image(a, K), TotalOverPlaces
  <2> QED BY <1>1, <2>2 DEF TradeCount
<1> QED BY <1>3, <1>4, <1>5, <1>6, <1>8, <1>9, <1>10

(* The bars of rows that read off a frame are those of its heaps. *)
BarsFit(sp, fr, s, rows) ==
  /\ Buckets(rows) = {BucketAt(sp, fr, i) : i \in Mine(fr, s)}
  /\ \A b \in Buckets(rows) :
       /\ Heap(sp, fr, s, b) # {}
       /\ Latest(fr, Heap(sp, fr, s, b)) \in Heap(sp, fr, s, b)
       /\ First(fr, Heap(sp, fr, s, b)) \in Heap(sp, fr, s, b)
       /\ \A i \in Heap(sp, fr, s, b) : fr[i].ts <= fr[Latest(fr, Heap(sp, fr, s, b))].ts
       /\ ObsTs(Group(rows, b)) = fr[Latest(fr, Heap(sp, fr, s, b))].ts
       /\ Volume(Group(rows, b)) = Volume(RowsAt(sp, fr, Heap(sp, fr, s, b)))
       /\ TradeCount(Group(rows, b)) = Cardinality(Heap(sp, fr, s, b))
       /\ Agg(Group(rows, b)) = AggAt(sp, fr, Heap(sp, fr, s, b))

(* The bars of build_bars, bucket by bucket, from the frame as it arrived:  *)
(* they read the rows of their heap and no others.                          *)
LEMMA BarsAsArrived ==
  ASSUME NEW sp \in BarSpec, NEW fr, IsFrame(fr), NEW s
  PROVE  BarsFit(sp, fr, s, SymbolRows(KeyedRows(sp, SortTicks(fr)), s))
<1> PICK rows : rows = SymbolRows(KeyedRows(sp, SortTicks(fr)), s)
  OBVIOUS
<1>1. PICK a, n : ReadsOff(sp, fr, s, a, n, rows)
  BY RowsAsArrived
<1>2. /\ ListsPart(fr, a, n, Mine(fr, s)) /\ a \in [1..n -> Mine(fr, s)]
      /\ \A i \in Mine(fr, s) : \E k \in 1..n : a[k] = i
      /\ DOMAIN rows = 1..n /\ \A k \in 1..n : rows[k] = RowAt(sp, fr, a[k])
  BY <1>1 DEF ReadsOff, ListsPart
<1>3. \A k \in 1..n : rows[k].bucket = BucketAt(sp, fr, a[k])
  BY <1>2 DEF RowAt
<1>4. Buckets(rows) = {BucketAt(sp, fr, i) : i \in Mine(fr, s)}
  <2> PICK M : M = Mine(fr, s)
    OBVIOUS
  <2>1. Buckets(rows) = {rows[k].bucket : k \in 1..n}
    BY <1>2 DEF Buckets
  <2>2. {rows[k].bucket : k \in 1..n} = {BucketAt(sp, fr, i) : i \in M}
    BY <1>2, <1>3
  <2> QED BY <2>1, <2>2
<1>5. ASSUME NEW b \in Buckets(rows), NEW H, H = Heap(sp, fr, s, b)
      PROVE  /\ H # {} /\ Latest(fr, H) \in H /\ First(fr, H) \in H
             /\ \A i \in H : fr[i].ts <= fr[Latest(fr, H)].ts
             /\ ObsTs(Group(rows, b)) = fr[Latest(fr, H)].ts
             /\ Volume(Group(rows, b)) = Volume(RowsAt(sp, fr, H))
             /\ TradeCount(Group(rows, b)) = Cardinality(H)
             /\ Agg(Group(rows, b)) = AggAt(sp, fr, H)
  <2> PICK K : K = Members(rows, b)
    OBVIOUS
  <2> PICK g : g = Group(rows, b)
    OBVIOUS
  <2> PICK h : h = RowsAt(sp, fr, H)
    OBVIOUS
  <2>1. K \in SUBSET (1..n) /\ K # {} /\ \A k \in 1..n : k \in K <=> BucketAt(sp, fr, a[k]) = b
    BY <1>2, <1>3 DEF Members, Buckets
  <2>2. H = Image(a, K) /\ H \subseteq Mine(fr, s) /\ H \subseteq DOMAIN fr
    <3>1. H \subseteq Mine(fr, s) /\ Mine(fr, s) \subseteq DOMAIN fr
      BY <1>5 DEF Heap, Mine
    <3>2. \A i \in Mine(fr, s) : i \in H <=> BucketAt(sp, fr, i) = b
      BY <1>5 DEF Heap
    <3> QED BY <1>2, <2>1, <3>1, <3>2 DEF Image
  <2>3. /\ g = [k \in K |-> h[a[k]]] /\ DOMAIN g = K /\ DOMAIN h = H
        /\ \A i \in H : h[i] = RowAt(sp, fr, i)
        /\ \A k \in K : a[k] \in H /\ g[k] = RowAt(sp, fr, a[k])
    <3>1. DOMAIN h = H /\ \A i \in H : h[i] = RowAt(sp, fr, i)
      BY DEF RowsAt
    <3>2. \A k \in K : a[k] \in H /\ rows[k] = h[a[k]]
      BY <1>2, <2>1, <2>2, <3>1 DEF Image
    <3>3. g = [k \in K |-> rows[k]]
      BY DEF Group
    <3> QED BY <3>1, <3>2, <3>3
  <2>4. \A i \in H : /\ h[i].size \in Int /\ h[i].sign \in Int
                     /\ h[i].price * h[i].size \in Int /\ h[i].sign * h[i].size \in Int
                     /\ h[i].sign * h[i].size * h[i].price \in Int
                     /\ h[i].ts = fr[i].ts /\ h[i].price = fr[i].price
    BY <2>2, <2>3, ColumnTypes
  <2>5. Relabels(fr, g, h, a, n, Mine(fr, s), K)
    BY <1>2, <2>1, <2>2, <2>3, <2>4 DEF Relabels
  <2>6. /\ Volume(g) = Volume(h) /\ Notional(g) = Notional(h)
        /\ SignedVolume(g) = SignedVolume(h) /\ SignedDollar(g) = SignedDollar(h)
        /\ BuyVolume(g) = BuyVolume(h) /\ SellVolume(g) = SellVolume(h)
        /\ TradeCount(g) = Cardinality(H)
    <3>1. DOMAIN h = H
      BY <2>3
    <3> QED BY <2>5, <3>1, SumsRelabelled
  <2>7. /\ Max(K) \in K /\ Min(K) \in K
        /\ IsLatest(fr, H, a[Max(K)])
        /\ Latest(fr, H) = a[Max(K)] /\ First(fr, H) = a[Min(K)]
    <3> PICK S : S = Mine(fr, s)
      OBVIOUS
    <3>1. /\ Max(K) \in K /\ Min(K) \in K
          /\ IsLatest(fr, Image(a, K), a[Max(K)])
          /\ Latest(fr, Image(a, K)) = a[Max(K)] /\ First(fr, Image(a, K)) = a[Min(K)]
      <4>1. ListsPart(fr, a, n, S)
        BY <1>2
      <4>2. K \in SUBSET (1..n) /\ K # {}
        BY <2>1
      <4> QED BY ONLY IsFrame(fr), <4>1, <4>2, EndsOfPlaces
    <3> QED BY <2>2, <3>1
  <2>8. LastRow(g).ts = fr[Latest(fr, H)].ts /\ LastRow(g).price = fr[Latest(fr, H)].price
    BY <2>3, <2>4, <2>7 DEF LastRow
  <2>9. FirstRow(g).price = fr[First(fr, H)].price
    BY <2>3, <2>4, <2>7 DEF FirstRow
  <2>10. {g[k].price : k \in K} = {h[i].price : i \in H}
    <3>1. \A k \in K : a[k] \in H /\ g[k].price = h[a[k]].price
      BY <2>3
    <3>2. \A i \in H : \E k \in K : a[k] = i
      BY <2>2 DEF Image
    <3> QED BY ONLY <3>1, <3>2
  <2>11. High(g) = High(h) /\ Low(g) = Low(h)
    BY <2>3, <2>10 DEF High, Low
  <2>12. H # {} /\ Latest(fr, H) \in H /\ First(fr, H) \in H
    BY <2>3, <2>7
  <2>13. \A i \in H : fr[i].ts <= fr[Latest(fr, H)].ts
    <3> SUFFICES ASSUME NEW i \in H PROVE fr[i].ts <= fr[Latest(fr, H)].ts
      OBVIOUS
    <3> PICK m : m = Latest(fr, H)
      OBVIOUS
    <3>1. i = m \/ Precedes(fr, i, m)
      BY <2>7 DEF IsLatest
    <3>2. fr[i].ts \in Int /\ fr[m].ts \in Int /\ fr[i].sym = fr[m].sym /\ fr[m].sym \in Int
      BY <2>2, <2>12, FrameRows DEF Mine
    <3> QED BY <3>1, <3>2 DEF Precedes
  <2>14. Agg(g) = AggAt(sp, fr, H)
    BY <2>6, <2>8, <2>9, <2>11 DEF Agg, AggAt, ObsTs
  <2> QED BY <2>6, <2>8, <2>12, <2>13, <2>14 DEF ObsTs
<1>6. BarsFit(sp, fr, s, rows)
  BY <1>4, <1>5 DEF BarsFit
<1> QED BY <1>6

-----------------------------------------------------------------------------
(* Frames as the raw-tick contract asks. *)

Accrues(fr) == \A i \in DOMAIN fr : fr[i].price > 0 /\ fr[i].size >= 0

(* The total a bucket is cut on, as the frame arrived. *)
TotalBefore(sp, fr, i) == Total([j \in Earlier(fr, i) |-> Weight(sp, fr[j])])

(* Later rows of a symbol find a total that is no smaller. *)
LEMMA TotalsGrow ==
  ASSUME NEW sp \in BarSpec, NEW fr, IsFrame(fr), Accrues(fr),
         NEW i \in DOMAIN fr, NEW j \in DOMAIN fr,
         fr[i].sym = fr[j].sym, fr[i].ts <= fr[j].ts
  PROVE  TotalBefore(sp, fr, i) \in Nat /\ TotalBefore(sp, fr, i) <= TotalBefore(sp, fr, j)
<1> PICK M, S : M = Earlier(fr, i) /\ S = Earlier(fr, j)
  OBVIOUS
<1> PICK a : a = [x \in S |-> Weight(sp, fr[x])]
  OBVIOUS
<1>1. \A x \in DOMAIN fr : fr[x].ts \in Int
  BY FrameRows
<1>2. M \subseteq S
  BY <1>1 DEF Earlier
<1>3. IsFiniteSet(S) /\ S \subseteq DOMAIN fr
  <2>1. S \subseteq DOMAIN fr /\ IsFiniteSet(DOMAIN fr)
    BY FrameRows DEF Earlier
  <2> QED BY <2>1, FS_Subset
<1>4. a \in [S -> Int] /\ \A x \in S : a[x] >= 0
  <2>1. \A x \in S : fr[x].price \in Int /\ fr[x].price >= 0 /\ fr[x].size >= 0
    <3> SUFFICES ASSUME NEW x \in S
                 PROVE  fr[x].price \in Int /\ fr[x].price >= 0 /\ fr[x].size >= 0
      OBVIOUS
    <3>1. x \in DOMAIN fr /\ x \in 1..Len(fr)
      BY <1>3, FrameRows
    <3>2. fr[x].price \in Int
      BY <3>1 DEF IsFrame
    <3>3. fr[x].price > 0 /\ fr[x].size >= 0
      BY <3>1 DEF Accrues
    <3> QED BY <3>2, <3>3
  <2> QED BY <1>3, <2>1, WeightOfRow
<1>5. 0 <= Total(Part(a, M)) /\ Total(Part(a, M)) <= Total(a)
  BY ONLY <1>2, <1>3, <1>4, TotalOfPart
<1>6. Part(a, M) = [x \in M |-> Weight(sp, fr[x])]
  BY <1>2 DEF Part
<1>7. TotalBefore(sp, fr, i) = Total(Part(a, M)) /\ TotalBefore(sp, fr, j) = Total(a)
  BY <1>6 DEF TotalBefore
<1>8. Total(Part(a, M)) \in Int
  <2> PICK p : p = Part(a, M)
    OBVIOUS
  <2>1. IsFiniteSet(M) /\ p \in [M -> Int]
    BY <1>2, <1>3, <1>4, FS_Subset DEF Part
  <2> QED BY <2>1, TotalType
<1> QED BY <1>5, <1>7, <1>8

(* Buckets follow the times of the rows. *)
LEMMA BucketsFollowTimes ==
  ASSUME NEW sp \in BarSpec, NEW fr, IsFrame(fr), Accrues(fr),
         NEW i \in DOMAIN fr, NEW j \in DOMAIN fr,
         fr[i].sym = fr[j].sym, fr[i].ts <= fr[j].ts
  PROVE  BucketAt(sp, fr, i) \in Nat /\ BucketAt(sp, fr, i) <= BucketAt(sp, fr, j)
<1>1. TotalBefore(sp, fr, i) \in Nat /\ TotalBefore(sp, fr, i) <= TotalBefore(sp, fr, j)
  BY TotalsGrow
<1>2. TotalBefore(sp, fr, j) \in Nat
  <2>1. fr[j].ts <= fr[j].ts
    BY FrameRows
  <2> QED BY <2>1, TotalsGrow
<1>3. fr[i].ts \in Nat /\ fr[j].ts \in Nat
  BY DEF IsFrame
<1>4. /\ RawBucket(sp, fr[i].ts, TotalBefore(sp, fr, i)) \in Nat
      /\ RawBucket(sp, fr[i].ts, TotalBefore(sp, fr, i))
           <= RawBucket(sp, fr[j].ts, TotalBefore(sp, fr, j))
  BY <1>1, <1>2, <1>3, RawBucketNat, RawBucketMonotone
<1> QED BY <1>4 DEF BucketAt, TotalBefore

(* The greatest and the least price of some rows. *)
LEMMA HighAndLow ==
  ASSUME NEW h, IsFiniteSet(DOMAIN h), DOMAIN h # {},
         \A i \in DOMAIN h : h[i].price \in Nat
  PROVE  /\ High(h) \in Nat /\ Low(h) \in Nat
         /\ \A i \in DOMAIN h : Low(h) <= h[i].price /\ h[i].price <= High(h)
<1> PICK D, P : D = DOMAIN h /\ P = {h[i].price : i \in DOMAIN h}
  OBVIOUS
<1>1. P \subseteq Nat /\ P # {}
  OBVIOUS
<1>2. IsFiniteSet(P)
  <2> PICK f : f = [i \in D |-> h[i].price]
    OBVIOUS
  <2>1. f \in Surjection(D, P)
    BY DEF Surjection
  <2> QED BY <2>1, FS_Surjection
<1>3. PICK m \in P : \A x \in P : x <= m
  <2>1. P \subseteq Int
    BY <1>1
  <2> QED BY ONLY <1>1, <1>2, <2>1, GreatestOfFinite
<1>4. Max(P) \in P /\ \A x \in P : x <= Max(P)
  <2>1. \E y \in P : \A x \in P : y >= x
    BY <1>1, <1>3
  <2>2. Max(P) \in P /\ \A x \in P : Max(P) >= x
    BY <2>1 DEF Max
  <2> QED BY <1>1, <2>2
<1>5. Min(P) \in P /\ \A x \in P : Min(P) <= x
  BY <1>1, MinOfRows
<1>6. High(h) = Max(P) /\ Low(h) = Min(P)
  BY DEF High, Low
<1> QED BY <1>1, <1>4, <1>5, <1>6

-----------------------------------------------------------------------------
(* What later rows leave alone. *)

(* new is old with more rows after it. *)
Grows(old, new) ==
  /\ IsFrame(old) /\ IsFrame(new)
  /\ Len(old) <= Len(new) /\ \A i \in 1..Len(old) : old[i] = new[i]

(* No row that joins stands before row i in time. *)
Settled(old, new, i) ==
  /\ i \in DOMAIN old
  /\ \A j \in DOMAIN new \ DOMAIN old : new[j].sym = new[i].sym => new[i].ts <= new[j].ts

(* Some rows have a latest and a first. *)
LEMMA EndsExist ==
  ASSUME NEW fr, IsFrame(fr), NEW S \in SUBSET DOMAIN fr, S # {}
  PROVE  IsLatest(fr, S, Latest(fr, S)) /\ IsFirst(fr, S, First(fr, S))
<1>1. PICK e : Lists(fr, e)
  BY SortLists
<1>2. ListsPart(fr, e, Len(fr), DOMAIN fr)
  <2> PICK D : D = DOMAIN fr
    OBVIOUS
  <2>1. D = 1..Len(fr) /\ Len(fr) \in Nat
    BY FrameRows
  <2>2. /\ e \in [D -> D]
        /\ \A k, l \in D : e[k] = e[l] => k = l
        /\ \A i \in D : \E k \in D : e[k] = i
        /\ \A k, l \in D : k < l <=> Precedes(fr, e[k], e[l])
    BY <1>1 DEF Lists
  <2> QED BY ONLY <2>1, <2>2, D = DOMAIN fr DEF ListsPart
<1> PICK K : K = {k \in 1..Len(fr) : e[k] \in S}
  OBVIOUS
<1>3. K \in SUBSET (1..Len(fr)) /\ Image(e, K) = S /\ K # {}
  BY <1>2 DEF ListsPart, Image
<1>4. /\ IsLatest(fr, Image(e, K), e[Max(K)]) /\ IsFirst(fr, Image(e, K), e[Min(K)])
      /\ Latest(fr, Image(e, K)) = e[Max(K)] /\ First(fr, Image(e, K)) = e[Min(K)]
  BY ONLY IsFrame(fr), <1>2, <1>3, EndsOfPlaces
<1> QED BY <1>3, <1>4

(* Rows of the old frame precede each other as they did. *)
LEMMA OldOrder ==
  ASSUME NEW old, NEW new, Grows(old, new)
  PROVE  /\ DOMAIN old \subseteq DOMAIN new
         /\ \A i \in DOMAIN old : old[i] = new[i]
         /\ \A i \in DOMAIN old : \A j \in DOMAIN new \ DOMAIN old : i < j
         /\ \A i, j \in DOMAIN old : Precedes(new, i, j) <=> Precedes(old, i, j)
         /\ \A S \in SUBSET DOMAIN old : S # {} =>
              /\ Latest(new, S) = Latest(old, S) /\ Latest(old, S) \in S
              /\ First(new, S) = First(old, S) /\ First(old, S) \in S
<1> USE DEF Grows
<1>1. /\ DOMAIN old = 1..Len(old) /\ DOMAIN new = 1..Len(new)
      /\ Len(old) \in Nat /\ Len(new) \in Nat
  BY FrameRows
<1>2. /\ DOMAIN old \subseteq DOMAIN new
      /\ \A i \in DOMAIN old : \A j \in DOMAIN new \ DOMAIN old : i < j
  BY <1>1
<1>3. \A i \in DOMAIN old : old[i] = new[i]
  BY <1>1
<1>4. \A i, j \in DOMAIN old : Precedes(new, i, j) <=> Precedes(old, i, j)
  BY <1>3 DEF Precedes
<1>5. ASSUME NEW S \in SUBSET DOMAIN old, S # {}
      PROVE  /\ Latest(new, S) = Latest(old, S) /\ Latest(old, S) \in S
             /\ First(new, S) = First(old, S) /\ First(old, S) \in S
  <2> PICK x, y : x = Latest(old, S) /\ y = First(old, S)
    OBVIOUS
  <2>1. IsLatest(old, S, x) /\ IsFirst(old, S, y)
    BY <1>5, EndsExist
  <2>2. IsLatest(new, S, x) /\ IsFirst(new, S, y)
    BY <1>4, <2>1 DEF IsLatest, IsFirst
  <2>3. S \in SUBSET DOMAIN new
    BY <1>2
  <2>4. Latest(new, S) = x /\ First(new, S) = y
    BY <2>2, <2>3, EndsAreUnique
  <2> QED BY <2>1, <2>4 DEF IsLatest, IsFirst
<1> QED BY <1>2, <1>3, <1>4, <1>5

(* A settled row reads the rows it read. *)
LEMMA SettledReads ==
  ASSUME NEW old, NEW new, Grows(old, new), NEW i, Settled(old, new, i)
  PROVE  /\ i \in DOMAIN old /\ i \in DOMAIN new /\ old[i] = new[i]
         /\ UpTo(new, i) = UpTo(old, i) /\ Earlier(new, i) = Earlier(old, i)
         /\ UpTo(old, i) \subseteq DOMAIN old
         /\ \A j \in UpTo(old, i) : Settled(old, new, j)
<1>1. /\ DOMAIN old \subseteq DOMAIN new
      /\ \A x \in DOMAIN old : old[x] = new[x]
      /\ \A x \in DOMAIN old : \A j \in DOMAIN new \ DOMAIN old : x < j
      /\ \A x, y \in DOMAIN old : Precedes(new, x, y) <=> Precedes(old, x, y)
  BY OldOrder
<1>2. /\ i \in DOMAIN old /\ i \in DOMAIN new
      /\ \A j \in DOMAIN new \ DOMAIN old : new[j].sym = new[i].sym => new[i].ts <= new[j].ts
  BY <1>1 DEF Settled
<1>3. \A x \in DOMAIN new : x \in Int /\ new[x].ts \in Int /\ new[x].sym \in Int
  BY FrameRows DEF Grows
<1>4. ASSUME NEW j \in DOMAIN new \ DOMAIN old, new[j].sym = new[i].sym
      PROVE  j # i /\ ~ Precedes(new, j, i) /\ ~ (new[j].ts < new[i].ts)
  <2>1. i < j /\ new[i].ts <= new[j].ts
    BY <1>1, <1>2, <1>4
  <2>2. /\ i \in Int /\ j \in Int /\ new[i].ts \in Int /\ new[j].ts \in Int
        /\ new[i].sym \in Int
    BY <1>2, <1>3
  <2> QED BY <1>4, <2>1, <2>2 DEF Precedes
<1>5. ASSUME NEW j \in UpTo(new, i) PROVE j \in UpTo(old, i)
  <2>1. j \in DOMAIN new /\ new[j].sym = new[i].sym /\ (j = i \/ Precedes(new, j, i))
    BY DEF UpTo
  <2>2. j \in DOMAIN old
    BY <1>2, <1>4, <2>1
  <2> QED BY <1>1, <1>2, <2>1, <2>2 DEF UpTo
<1>6. ASSUME NEW j \in UpTo(old, i) PROVE j \in UpTo(new, i) /\ j \in DOMAIN old
  <2>1. j \in DOMAIN old /\ old[j].sym = old[i].sym /\ (j = i \/ Precedes(old, j, i))
    BY DEF UpTo
  <2> QED BY <1>1, <1>2, <2>1 DEF UpTo
<1>7. ASSUME NEW j \in Earlier(new, i) PROVE j \in Earlier(old, i)
  <2>1. j \in DOMAIN new /\ new[j].sym = new[i].sym /\ new[j].ts < new[i].ts
    BY DEF Earlier
  <2>2. j \in DOMAIN old
    BY <1>4, <2>1
  <2> QED BY <1>1, <1>2, <2>1, <2>2 DEF Earlier
<1>8. ASSUME NEW j \in Earlier(old, i) PROVE j \in Earlier(new, i)
  <2>1. j \in DOMAIN old /\ old[j].sym = old[i].sym /\ old[j].ts < old[i].ts
    BY DEF Earlier
  <2> QED BY <1>1, <1>2, <2>1 DEF Earlier
<1>9. ASSUME NEW j \in UpTo(old, i) PROVE Settled(old, new, j)
  <2>1. j \in DOMAIN old /\ old[j].sym = old[i].sym /\ (j = i \/ Precedes(old, j, i))
    BY DEF UpTo
  <2>2. new[j].sym = new[i].sym /\ (j = i \/ Precedes(new, j, i))
    BY <1>1, <1>2, <2>1
  <2>3. new[j].ts <= new[i].ts
    <3>1. new[j].ts \in Int /\ new[i].ts \in Int /\ new[i].sym \in Int
      BY <1>1, <1>2, <1>3, <2>1
    <3> QED BY <2>2, <3>1 DEF Precedes
  <2>4. ASSUME NEW k \in DOMAIN new \ DOMAIN old, new[k].sym = new[j].sym
        PROVE  new[j].ts <= new[k].ts
    <3>1. new[i].ts <= new[k].ts
      BY <1>2, <2>2, <2>4
    <3>2. new[j].ts \in Int /\ new[i].ts \in Int /\ new[k].ts \in Int
      BY <1>1, <1>2, <1>3, <2>1
    <3> QED BY <2>3, <3>1, <3>2
  <2> QED BY <2>1, <2>4 DEF Settled
<1> QED BY <1>1, <1>2, <1>5, <1>6, <1>7, <1>8, <1>9

(* Its columns stay. *)
LEMMA SettledRowsStay ==
  ASSUME NEW old, NEW new, Grows(old, new), NEW i, Settled(old, new, i), NEW sp
  PROVE  RowAt(sp, new, i) = RowAt(sp, old, i) /\ BucketAt(sp, new, i) = BucketAt(sp, old, i)
<1>1. \A x \in DOMAIN old : old[x] = new[x]
  BY OldOrder
<1>2. \A S \in SUBSET DOMAIN old : S # {} =>
        Latest(new, S) = Latest(old, S) /\ Latest(old, S) \in S
  BY OldOrder
<1>3. ASSUME NEW j, Settled(old, new, j) PROVE RawSignAt(new, j) = RawSignAt(old, j)
  <2>1. j \in DOMAIN old /\ UpTo(new, j) = UpTo(old, j) /\ UpTo(old, j) \subseteq DOMAIN old
    BY <1>3, SettledReads
  <2> PICK B : B = UpTo(old, j) \ {j}
    OBVIOUS
  <2>2. B # {} => /\ Latest(new, B) = Latest(old, B)
                  /\ old[Latest(old, B)] = new[Latest(old, B)]
    BY <1>1, <1>2, <2>1
  <2>3. RawSignAt(new, j) = IF B = {} THEN 0 ELSE Sgn(new[j].price - new[Latest(new, B)].price)
    BY <2>1 DEF RawSignAt
  <2>4. RawSignAt(old, j) = IF B = {} THEN 0 ELSE Sgn(old[j].price - old[Latest(old, B)].price)
    BY DEF RawSignAt
  <2> QED BY <1>1, <2>1, <2>2, <2>3, <2>4
<1>4. /\ i \in DOMAIN old /\ old[i] = new[i]
      /\ UpTo(new, i) = UpTo(old, i) /\ Earlier(new, i) = Earlier(old, i)
      /\ UpTo(old, i) \subseteq DOMAIN old
      /\ \A j \in UpTo(old, i) : Settled(old, new, j)
  BY SettledReads
<1>5. SignAt(new, i) = SignAt(old, i)
  <2> PICK M : M = {j \in UpTo(old, i) : RawSignAt(old, j) # 0}
    OBVIOUS
  <2>1. M = {j \in UpTo(new, i) : RawSignAt(new, j) # 0} /\ M \in SUBSET DOMAIN old
    BY <1>3, <1>4
  <2>2. M # {} => /\ Latest(new, M) = Latest(old, M)
                  /\ RawSignAt(new, Latest(old, M)) = RawSignAt(old, Latest(old, M))
    BY <1>2, <1>3, <1>4, <2>1
  <2>3. SignAt(new, i) = IF M = {} THEN 0 ELSE RawSignAt(new, Latest(new, M))
    BY <2>1 DEF SignAt
  <2>4. SignAt(old, i) = IF M = {} THEN 0 ELSE RawSignAt(old, Latest(old, M))
    BY DEF SignAt
  <2> QED BY <2>2, <2>3, <2>4
<1>6. PriorAt(sp, new, i) = PriorAt(sp, old, i)
  <2> PICK U : U = UpTo(old, i) \ {i}
    OBVIOUS
  <2>1. [j \in U |-> Weight(sp, new[j])] = [j \in U |-> Weight(sp, old[j])]
    BY <1>1, <1>4
  <2> QED BY <1>4, <2>1 DEF PriorAt
<1>7. BucketAt(sp, new, i) = BucketAt(sp, old, i)
  <2> PICK U : U = Earlier(old, i)
    OBVIOUS
  <2>1. U \subseteq DOMAIN old
    BY DEF Earlier
  <2>2. [j \in U |-> Weight(sp, new[j])] = [j \in U |-> Weight(sp, old[j])]
    BY <1>1, <2>1
  <2> QED BY <1>4, <2>2 DEF BucketAt
<1> QED BY <1>4, <1>5, <1>6, <1>7 DEF RowAt
=============================================================================
