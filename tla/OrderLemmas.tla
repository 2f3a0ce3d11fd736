---------------------------- MODULE OrderLemmas -----------------------------
(***************************************************************************)
(* What the proofs keep needing of numbers and finite sets: a set of       *)
(* naturals has a least element, which stands in for induction, and a      *)
(* finite set of integers has a greatest and a least.                      *)
(***************************************************************************)
EXTENDS Integers, FiniteSets, FiniteSetTheorems, WellFoundedInduction, TLAPS

(* < on the naturals, as a relation. *)
Smaller == {p \in Nat \X Nat : p[1] < p[2]}

(* It is the one the library calls well founded. *)
LEMMA SmallerIsWellFounded == IsWellFoundedOn(Smaller, Nat)
<1>1. IsWellFoundedOn(OpToRel(<, Nat), Nat)
  BY NatLessThanWellFounded
<1>2. OpToRel(<, Nat) = Smaller
  BY DEF OpToRel, Smaller
<1> QED BY <1>1, <1>2

(* So a set of naturals that is not empty has a least element. *)
LEMMA LeastNatural ==
  ASSUME NEW S, S \subseteq Nat, S # {}
  PROVE  \E x \in S : \A y \in S : x <= y
<1>1. PICK x \in S : \A y \in S : ~ (<<y, x>> \in Smaller)
  BY SmallerIsWellFounded, WFMin
<1>2. ASSUME NEW y \in S PROVE x <= y
  <2>1. ~ (<<y, x>> \in Smaller) /\ x \in Nat /\ y \in Nat
    BY <1>1
  <2>2. ~ (y < x)
    BY <2>1 DEF Smaller
  <2> QED BY <2>1, <2>2
<1> QED BY <1>2

(* From 1 to n there are n. *)
LEMMA IntervalCount ==
  ASSUME NEW n \in Nat
  PROVE  IsFiniteSet(1..n) /\ Cardinality(1..n) = n
<1>1. 1 \in Int /\ n \in Int
  OBVIOUS
<1>2. IsFiniteSet(1..n) /\ Cardinality(1..n) = IF 1 > n THEN 0 ELSE n - 1 + 1
  BY <1>1, FS_Interval
<1> QED BY <1>2

(* A finite set of integers that is not empty has a greatest element. *)
LEMMA GreatestOfFinite ==
  ASSUME NEW S, S \subseteq Int, IsFiniteSet(S), S # {}
  PROVE  \E m \in S : \A x \in S : x <= m
<1> DEFINE Topless(T) == ~ \E m \in T : \A x \in T : x <= m
           Bad == {T \in SUBSET Int : IsFiniteSet(T) /\ T # {} /\ Topless(T)}
           Sizes == {Cardinality(T) : T \in Bad}
<1> SUFFICES ASSUME S \in Bad PROVE FALSE
  OBVIOUS
<1>1. Sizes \subseteq Nat /\ Sizes # {}
  BY FS_CardinalityType
<1> HIDE DEF Sizes
<1>2. PICK n \in Sizes : \A k \in Sizes : n <= k
  BY <1>1, LeastNatural
<1>3. PICK T \in Bad : Cardinality(T) = n
  BY DEF Sizes
<1>4. T \subseteq Int /\ IsFiniteSet(T) /\ T # {} /\ Topless(T)
  OBVIOUS
<1> PICK t : t \in T
  BY <1>4
<1> PICK U : U = T \ {t}
  OBVIOUS
<1>5. /\ IsFiniteSet(U) /\ U \subseteq Int /\ U = T \ {t}
      /\ Cardinality(U) = n - 1 /\ n - 1 \in Int
  <2>1. IsFiniteSet(T \ {t}) /\ Cardinality(T \ {t}) = Cardinality(T) - 1
    BY <1>4, FS_RemoveElement
  <2>2. n \in Nat
    BY <1>1
  <2> QED BY <2>1, <2>2, <1>3, <1>4
<1>6. CASE U = {}
  <2>1. T = {t}
    BY <1>5, <1>6
  <2> QED BY <2>1, <1>4
<1>7. CASE U # {}
  <2>1. U \notin Bad
    <3>1. U \in Bad => n - 1 \in Sizes
      BY <1>5 DEF Sizes
    <3> QED BY <3>1, <1>1, <1>2
  <2>2. PICK m \in U : \A x \in U : x <= m
    BY <2>1, <1>5, <1>7
  <2>3. m \in T /\ m \in Int /\ t \in Int /\ \A x \in T : x = t \/ x \in U
    BY <1>4, <1>5
  <2>4. CASE m <= t
    <3>1. \A x \in T : x <= t
      BY <2>2, <2>3, <2>4, <1>4
    <3> QED BY <3>1, <1>4
  <2>5. CASE t <= m
    <3>1. \A x \in T : x <= m
      BY <2>2, <2>3, <2>5, <1>4
    <3> QED BY <3>1, <2>3, <1>4
  <2> QED BY <2>3, <2>4, <2>5
<1> QED BY <1>6, <1>7

-----------------------------------------------------------------------------
(* The place of a key: how many keys are smaller. *)
Below(K, k) == {j \in K : j < k}
Place(K, k) == Cardinality(Below(K, k))

(* The places of n keys are 0 to n - 1, in the order of the keys. *)
LEMMA PlacesAreOrdered ==
  ASSUME NEW K, K \subseteq Int, IsFiniteSet(K), NEW k \in K
  PROVE  /\ Place(K, k) \in 0..(Cardinality(K) - 1)
         /\ \A j \in K : j < k => Place(K, j) < Place(K, k)
<1>1. IsFiniteSet(Below(K, k)) /\ Cardinality(Below(K, k)) \in Nat
  BY FS_Subset, FS_CardinalityType DEF Below
<1>2. Cardinality(K) \in Nat
  BY FS_CardinalityType
<1>3. /\ Cardinality(Below(K, k)) <= Cardinality(K)
      /\ Cardinality(Below(K, k)) = Cardinality(K) => K = Below(K, k)
  <2>1. Below(K, k) \in SUBSET K
    BY DEF Below
  <2> QED BY <2>1, FS_Subset
<1>4. k \notin Below(K, k)
  BY DEF Below
<1>5. ASSUME NEW j \in K, j < k
      PROVE  Place(K, j) < Place(K, k)
  <2>1. Below(K, j) \in SUBSET Below(K, k)
    <3>1. \A i \in K : i \in Int
      OBVIOUS
    <3>2. \A i \in K : i < j => i < k
      BY <3>1, <1>5
    <3> QED BY <3>2 DEF Below
  <2>2. j \in Below(K, k) /\ j \notin Below(K, j)
    BY <1>5 DEF Below
  <2>3. /\ IsFiniteSet(Below(K, j))
        /\ Cardinality(Below(K, j)) <= Cardinality(Below(K, k))
        /\ Cardinality(Below(K, j)) # Cardinality(Below(K, k))
    BY <1>1, <2>1, <2>2, FS_Subset
  <2>4. Cardinality(Below(K, j)) \in Nat
    BY <2>3, FS_CardinalityType
  <2> QED BY <2>3, <2>4, <1>1 DEF Place
<1> QED BY <1>1, <1>2, <1>3, <1>4, <1>5 DEF Place

(* Two keys are not in one place. *)
LEMMA PlaceTellsKey ==
  ASSUME NEW K, K \subseteq Int, IsFiniteSet(K), NEW j \in K, NEW k \in K,
         Place(K, j) = Place(K, k)
  PROVE  j = k
<1>1. Place(K, j) \in Int /\ Place(K, k) \in Int /\ j \in Int /\ k \in Int
  <2>1. Cardinality(K) \in Nat
    BY FS_CardinalityType
  <2>2. /\ Place(K, j) \in 0..(Cardinality(K) - 1)
        /\ Place(K, k) \in 0..(Cardinality(K) - 1)
    BY PlacesAreOrdered
  <2> QED BY <2>1, <2>2
<1>2. (j < k => Place(K, j) < Place(K, k)) /\ (k < j => Place(K, k) < Place(K, j))
  BY PlacesAreOrdered
<1> QED BY <1>1, <1>2

(* And no place is empty. *)
LEMMA PlaceIsTaken ==
  ASSUME NEW K, K \subseteq Int, IsFiniteSet(K), NEW p \in 0..(Cardinality(K) - 1)
  PROVE  \E k \in K : Place(K, k) = p
<1> PICK n : n = Cardinality(K)
  OBVIOUS
<1> DEFINE places == 0..(n - 1)
           placeOf == [k \in K |-> Place(K, k)]
<1>1. n \in Nat
  BY FS_CardinalityType
<1>2. placeOf \in Injection(K, places)
  <2>1. \A k \in K : Place(K, k) \in places
    BY PlacesAreOrdered
  <2>2. \A j, k \in K : placeOf[j] = placeOf[k] => j = k
    BY PlaceTellsKey
  <2> QED BY <2>1, <2>2 DEF Injection, IsInjective
<1>3. IsFiniteSet(places) /\ Cardinality(places) = n
  <2>1. 0 \in Int /\ n - 1 \in Int
    BY <1>1
  <2>2. IsFiniteSet(0..(n - 1))
        /\ Cardinality(0..(n - 1)) = IF 0 > n - 1 THEN 0 ELSE (n - 1) - 0 + 1
    BY <2>1, FS_Interval
  <2> QED BY <1>1, <2>2
<1> HIDE DEF placeOf, places
<1>4. placeOf \in Surjection(K, places)
  BY <1>2, <1>3, FS_Injection
<1> USE DEF placeOf, places
<1>5. \E k \in K : placeOf[k] = p
  BY <1>4 DEF Surjection
<1> QED BY <1>5

(* An ascending enumeration of all keys has each key in its place. *)
LEMMA AscendingIsInPlace ==
  ASSUME NEW n \in Nat, NEW K, K \subseteq Int, NEW e \in [1..n -> K],
         \A i, j \in 1..n : i < j => e[i] < e[j],
         \A k \in K : \E i \in 1..n : e[i] = k,
         NEW i \in 1..n
  PROVE  Place(K, e[i]) = i - 1
<1> DEFINE first == [j \in 1..(i - 1) |-> e[j]]
<1>1. \A j \in 1..(i - 1) : j \in 1..n /\ j < i
  OBVIOUS
<1>2. \A j \in 1..n : e[j] < e[i] => j \in 1..(i - 1)
  <2> SUFFICES ASSUME NEW j \in 1..n, e[j] < e[i] PROVE j < i
    OBVIOUS
  <2>1. e[i] \in Int /\ e[j] \in Int
    OBVIOUS
  <2>2. CASE i < j
    <3>1. e[i] < e[j]
      BY <2>2
    <3> QED BY <3>1, <2>1
  <2>3. i # j
    BY <2>1
  <2> QED BY <2>2, <2>3
<1>3. first \in Bijection(1..(i - 1), Below(K, e[i]))
  <2>1. \A j \in 1..(i - 1) : e[j] \in Below(K, e[i])
    BY <1>1 DEF Below
  <2>2. \A j, l \in 1..(i - 1) : e[j] = e[l] => j = l
    <3> SUFFICES ASSUME NEW j \in 1..(i - 1), NEW l \in 1..(i - 1), j # l
                 PROVE  e[j] # e[l]
      OBVIOUS
    <3>1. j < l \/ l < j
      OBVIOUS
    <3>2. e[j] \in K /\ e[l] \in K
      BY <1>1
    <3>3. e[j] \in Int /\ e[l] \in Int
      BY <3>2
    <3>4. (j < l => e[j] < e[l]) /\ (l < j => e[l] < e[j])
      BY <1>1
    <3> QED BY <3>1, <3>3, <3>4
  <2>3. \A k \in Below(K, e[i]) : \E j \in 1..(i - 1) : e[j] = k
    BY <1>2 DEF Below
  <2>4. first \in Injection(1..(i - 1), Below(K, e[i]))
    BY <2>1, <2>2 DEF Injection, IsInjective
  <2>5. first \in Surjection(1..(i - 1), Below(K, e[i]))
    BY <2>1, <2>3 DEF Surjection
  <2> QED BY <2>4, <2>5 DEF Bijection
<1>4. IsFiniteSet(1..(i - 1)) /\ Cardinality(1..(i - 1)) = i - 1
  <2>1. i - 1 \in Nat
    OBVIOUS
  <2> QED BY <2>1, IntervalCount
<1> HIDE DEF first
<1>5. Cardinality(Below(K, e[i])) = i - 1
  <2>1. ExistsBijection(1..(i - 1), Below(K, e[i]))
    BY <1>3 DEF ExistsBijection
  <2> QED BY <2>1, <1>4, FS_Bijection
<1> QED BY <1>5 DEF Place

(* What is told apart by its key is as many as its keys, and in the place   *)
(* of its key.                                                              *)
LEMMA KeyedCount ==
  ASSUME NEW S, IsFiniteSet(S), NEW key \in [S -> Int],
         \A x, y \in S : key[x] = key[y] => x = y
  PROVE  /\ IsFiniteSet({key[x] : x \in S})
         /\ Cardinality({key[x] : x \in S}) = Cardinality(S)
         /\ \A x \in S : Cardinality({y \in S : key[y] < key[x]})
                           = Place({key[y] : y \in S}, key[x])
<1>1. ASSUME NEW T \in SUBSET S
      PROVE  IsFiniteSet({key[x] : x \in T}) /\ Cardinality({key[x] : x \in T}) = Cardinality(T)
  <2> DEFINE image == {key[x] : x \in T}
             k == [x \in T |-> key[x]]
  <2>1. k \in Injection(T, image) /\ k \in Surjection(T, image)
    BY DEF Injection, IsInjective, Surjection
  <2>2. IsFiniteSet(T)
    BY FS_Subset
  <2> HIDE DEF image, k
  <2>3. ExistsBijection(T, image)
    BY <2>1 DEF Bijection, ExistsBijection
  <2>4. IsFiniteSet(image) /\ Cardinality(image) = Cardinality(T)
    BY <2>2, <2>3, FS_Bijection
  <2> QED BY <2>4 DEF image
<1>2. ASSUME NEW x \in S
      PROVE  Cardinality({y \in S : key[y] < key[x]}) = Place({key[y] : y \in S}, key[x])
  <2> DEFINE T == {y \in S : key[y] < key[x]}
  <2>1. {key[y] : y \in T} = Below({key[y] : y \in S}, key[x])
    BY DEF Below
  <2>2. Cardinality({key[y] : y \in T}) = Cardinality(T)
    BY <1>1
  <2> QED BY <2>1, <2>2 DEF Place
<1>3. S \in SUBSET S
  OBVIOUS
<1> QED BY <1>1, <1>2, <1>3

-----------------------------------------------------------------------------
(* Growing a subset element by element reaches the whole of a finite set: a *)
(* family of subsets that has the empty one, and with a subset every one    *)
(* that is larger by one element, has the set itself.                       *)
LEMMA GrowToWhole ==
  ASSUME NEW S, IsFiniteSet(S), NEW Good, {} \in Good,
         \A T \in SUBSET S : \A x \in S \ T : T \in Good => T \cup {x} \in Good
  PROVE  S \in Good
<1> DEFINE Bad == {T \in SUBSET S : T \notin Good}
           Sizes == {Cardinality(T) : T \in Bad}
<1> SUFFICES ASSUME S \in Bad PROVE FALSE
  OBVIOUS
<1>1. Sizes \subseteq Nat /\ Sizes # {}
  BY FS_Subset, FS_CardinalityType
<1> HIDE DEF Sizes
<1>2. PICK n \in Sizes : \A k \in Sizes : n <= k
  BY <1>1, LeastNatural
<1>3. PICK T \in Bad : Cardinality(T) = n
  BY DEF Sizes
<1>4. T \in SUBSET S /\ T \notin Good /\ T # {} /\ IsFiniteSet(T)
  BY FS_Subset
<1> PICK x : x \in T
  BY <1>4
<1> PICK U : U = T \ {x}
  OBVIOUS
<1>5. Cardinality(U) = n - 1 /\ n \in Nat
  BY <1>1, <1>3, <1>4, FS_RemoveElement
<1>6. U \in SUBSET S /\ x \in S \ U /\ T = U \cup {x}
  BY <1>4
<1>7. U \notin Good
  BY <1>4, <1>6
<1>8. n - 1 \in Sizes
  BY <1>5, <1>6, <1>7 DEF Sizes
<1> QED BY <1>2, <1>5, <1>8, <1>1

(* R orders S, strictly and totally. *)
Orders(R, S) ==
  /\ \A x \in S : <<x, x>> \notin R
  /\ \A x, y, z \in S : <<x, y>> \in R /\ <<y, z>> \in R => <<x, z>> \in R
  /\ \A x, y \in S : x # y => <<x, y>> \in R \/ <<y, x>> \in R

(* The rank of an element: how many are before it. *)
Ranks(R, S) == [x \in S |-> Cardinality({y \in S : <<y, x>> \in R})]

(* In a finite set that is ordered so, later elements rank higher and every *)
(* rank below the size of the set is taken, once.                           *)
LEMMA RanksOfTotalOrder ==
  ASSUME NEW S, IsFiniteSet(S), NEW R, Orders(R, S), NEW rank, rank = Ranks(R, S)
  PROVE  /\ \A x \in S : rank[x] \in 0..(Cardinality(S) - 1)
         /\ \A x, y \in S : <<x, y>> \in R => rank[x] < rank[y]
         /\ \A x, y \in S : rank[x] = rank[y] => x = y
         /\ \A p \in 0..(Cardinality(S) - 1) : \E x \in S : rank[x] = p
<1> USE DEF Orders, Ranks
<1> PICK before : before = [x \in S |-> {y \in S : <<y, x>> \in R}]
  OBVIOUS
<1> PICK n : n = Cardinality(S)
  OBVIOUS
<1>1. n \in Nat
  BY FS_CardinalityType
<1>2. \A x \in S : /\ IsFiniteSet(before[x]) /\ rank[x] = Cardinality(before[x])
                   /\ rank[x] \in Nat /\ rank[x] < n
  <2> SUFFICES ASSUME NEW x \in S
               PROVE  /\ IsFiniteSet(before[x]) /\ rank[x] = Cardinality(before[x])
                      /\ rank[x] \in Nat /\ rank[x] < n
    OBVIOUS
  <2>1. before[x] \in SUBSET S /\ x \notin before[x]
    OBVIOUS
  <2>2. /\ IsFiniteSet(before[x]) /\ Cardinality(before[x]) <= n
        /\ Cardinality(before[x]) = n => before[x] = S
    BY <2>1, FS_Subset
  <2>3. Cardinality(before[x]) \in Nat
    BY <2>2, FS_CardinalityType
  <2> QED BY <1>1, <2>1, <2>2, <2>3
<1>3. ASSUME NEW x \in S, NEW y \in S, <<x, y>> \in R
      PROVE  rank[x] < rank[y]
  <2>1. before[x] \in SUBSET before[y] /\ x \in before[y] /\ x \notin before[x]
    BY <1>3
  <2>2. /\ Cardinality(before[x]) <= Cardinality(before[y])
        /\ Cardinality(before[x]) = Cardinality(before[y]) => before[x] = before[y]
    <3>1. IsFiniteSet(before[y])
      BY <1>2
    <3> QED BY ONLY <3>1, <2>1, FS_Subset
  <2>3. /\ rank[x] \in Nat /\ rank[y] \in Nat
        /\ rank[x] = Cardinality(before[x]) /\ rank[y] = Cardinality(before[y])
    BY <1>2
  <2> QED BY ONLY <2>1, <2>2, <2>3
<1>4. ASSUME NEW x \in S, NEW y \in S, rank[x] = rank[y]
      PROVE  x = y
  <2>1. rank[x] \in Nat /\ rank[y] \in Nat
    BY <1>2
  <2>2. ~ (rank[x] < rank[y]) /\ ~ (rank[y] < rank[x])
    BY <2>1, <1>4
  <2> QED BY <2>2, <1>3
<1>5. rank \in Injection(S, 0..(n - 1))
  <2>1. \A x \in S : rank[x] \in 0..(n - 1)
    <3> SUFFICES ASSUME NEW x \in S PROVE rank[x] \in 0..(n - 1)
      OBVIOUS
    <3>1. rank[x] \in Nat /\ rank[x] < n
      BY <1>2
    <3> QED BY ONLY <1>1, <3>1
  <2>2. rank \in [S -> 0..(n - 1)]
    BY <2>1
  <2> QED BY <2>2, <1>4 DEF Injection, IsInjective
<1>6. IsFiniteSet(0..(n - 1)) /\ Cardinality(0..(n - 1)) = n
  <2>1. 0 \in Int /\ n - 1 \in Int
    BY <1>1
  <2>2. IsFiniteSet(0..(n - 1))
        /\ Cardinality(0..(n - 1)) = IF 0 > n - 1 THEN 0 ELSE (n - 1) - 0 + 1
    BY ONLY <2>1, FS_Interval
  <2> QED BY <1>1, <2>2
<1>7. rank \in Surjection(S, 0..(n - 1))
  BY ONLY <1>5, <1>6, IsFiniteSet(S), n = Cardinality(S), FS_Injection
<1>8. \A p \in 0..(n - 1) : \E x \in S : rank[x] = p
  BY <1>7 DEF Surjection
<1>9. \A x \in S : rank[x] \in 0..(n - 1)
  BY <1>5 DEF Injection
<1> QED BY <1>3, <1>4, <1>8, <1>9
=============================================================================
