---------------------------- MODULE ServingProofs ----------------------------
(***************************************************************************)
(* What an online engine serves of a feature of bounded memory is what the *)
(* batch computes, for every catalog, set of symbols and sequence of bars, *)
(* and for every parameter the factories accept.                           *)
(*                                                                         *)
(* 1. Rows: what each operation of Polars returns on a row, of the values  *)
(*    of its operands: strict in nulls, and no NaN of none (Obeys).        *)
(* 2. Columns: on the bars of one symbol (Histories) each operation keeps  *)
(*    five facts together (Good): the cells read are of declared roles, no *)
(*    null is taken for anything else, nothing is there before n rows, the *)
(*    value is a function of the last n rows, a number stays what it is    *)
(*    when a missing bar is delivered; and no NaN comes of bars in T.      *)
(* 3. Factories: so each feature of the library is what it declares        *)
(*    (Parity), by one step per operation of its expression.               *)
(* 4. Frames: the rows of a symbol in the frame and in the buffer are      *)
(*    histories that agree on the last min_history bars.                   *)
(* 5. Serving: so ServedInv is inductive, and the invariants of Serving    *)
(*    follow of features that are what they declare.                       *)
(* 6. The library: every time-series feature of bounded memory, at every   *)
(*    parameter its factory accepts; the theorems.                         *)
(* 7. Decaying memory: BufferInv is inductive for features of any memory;  *)
(*    so the burn-in declared is served as nulls.                          *)
(***************************************************************************)
EXTENDS Serving, OrderLemmas, SequenceTheorems

-----------------------------------------------------------------------------
(* 1. Rows. *)

(* The values that rest on cells of C. *)
Numbers(C) == [kind : {"number"}, lvl : Int, log : Int, on : SUBSET C, guess : BOOLEAN]
Values(C) == {NaV, NaN} \cup Numbers(C)

(* A value that, if it is a number, took no null for anything else. *)
Honest(v) == IsNumber(v) => ~ v.guess

(* Null and NaN are values apart, and not numbers. *)
LEMMA NotNumbers ==
  ASSUME NEW C
  PROVE  /\ NaV # NaN /\ NaV \notin Numbers(C) /\ NaN \notin Numbers(C)
         /\ NaV \in Values(C) /\ NaN \in Values(C) /\ Numbers(C) \subseteq Values(C)
BY DEF Values, Numbers, NaV, NaN

(* And a value is one of the three. *)
LEMMA ValueKinds ==
  ASSUME NEW C, NEW v \in Values(C)
  PROVE  /\ IsNull(v) <=> v = NaV
         /\ IsNumber(v) <=> v \in Numbers(C)
         /\ v = NaV \/ v = NaN \/ v \in Numbers(C)
BY DEF Values, Numbers, IsNull, IsNumber, NaV, NaN

(* What a number is made of. *)
LEMMA NumberFields ==
  ASSUME NEW C, NEW v \in Numbers(C)
  PROVE  v.lvl \in Int /\ v.log \in Int /\ v.on \in SUBSET C /\ v.guess \in BOOLEAN
         /\ v.kind = "number"
BY DEF Numbers

(* A number made of a level, a logarithm and numbers. *)
LEMMA FromNumbers ==
  ASSUME NEW C, NEW vs \in SUBSET Numbers(C), NEW l \in Int, NEW g \in Int
  PROVE  /\ From(vs, l, g) \in Numbers(C)
         /\ From(vs, l, g).lvl = l /\ From(vs, l, g).log = g
         /\ (\A v \in vs : Honest(v)) => Honest(From(vs, l, g))
<1>1. Cells(vs) \in SUBSET C
  BY NumberFields DEF Cells
<1>2. Guessed(vs) \in BOOLEAN
  BY DEF Guessed
<1>3. From(vs, l, g) = [kind |-> "number", lvl |-> l, log |-> g, on |-> Cells(vs),
           guess |-> Guessed(vs)]
  BY DEF From, Number
<1>4. From(vs, l, g) \in Numbers(C)
  BY <1>1, <1>2, <1>3 DEF Numbers
<1>5. ASSUME \A v \in vs : Honest(v) PROVE Honest(From(vs, l, g))
  <2>1. \A v \in vs : IsNumber(v)
    BY NumberFields DEF IsNumber
  <2>2. ~ Guessed(vs)
    BY <2>1, <1>5 DEF Guessed, Honest
  <2> QED BY <2>2, <1>3 DEF Honest
<1> QED BY <1>3, <1>4, <1>5

(* Signs are integers, zero for zero alone. *)
LEMMA Signs ==
  ASSUME NEW n \in Int
  PROVE  SignOf(n) \in Int /\ (SignOf(n) = 0 <=> n = 0)
BY DEF SignOf

(* So are the levels of what is computed from two numbers; and a number     *)
(* differs from zero by nothing exactly when it is zero.                    *)
LEMMA LevelsOfTwo ==
  ASSUME NEW C, NEW x \in Numbers(C), NEW y \in Numbers(C)
  PROVE  /\ DifferenceLevel(x, y) \in Int /\ SumLevel(x, y) \in Int
         /\ ProductLevel(x, y) \in Int /\ QuotientLog(x, y) \in Int
         /\ y.lvl = 0 => (DifferenceLevel(x, y) = 0 <=> x.lvl = 0)
<1>1. x.lvl \in Int /\ y.lvl \in Int
  BY NumberFields
<1> QED BY <1>1, Signs DEF DifferenceLevel, SumLevel, ProductLevel, QuotientLog, Level, SignOf

(* A strict operation on values: null if one is, else NaN if one is, else   *)
(* what it makes of numbers.                                                *)
LEMMA StrictValue ==
  ASSUME NEW C, NEW vs \in SUBSET Values(C), NEW v, NEW u, u = Strict(vs, v)
  PROVE  \/ u = NaV /\ NaV \in vs
         \/ u = NaN /\ NaV \notin vs /\ NaN \in vs
         \/ u = v /\ vs \subseteq Numbers(C) /\ NaV \notin vs /\ NaN \notin vs
<1>1. \A w \in vs : (IsNull(w) <=> w = NaV) /\ (w = NaV \/ w = NaN \/ w \in Numbers(C))
  BY ValueKinds
<1>2. NaV # NaN /\ NaV \notin Numbers(C) /\ NaN \notin Numbers(C)
  BY NotNumbers
<1>3. CASE \E w \in vs : IsNull(w)
  BY <1>1, <1>3 DEF Strict
<1>4. CASE ~ (\E w \in vs : IsNull(w)) /\ NaN \in vs
  BY <1>1, <1>2, <1>4 DEF Strict
<1>5. CASE ~ (\E w \in vs : IsNull(w)) /\ NaN \notin vs
  <2>1. vs \subseteq Numbers(C)
    BY <1>1, <1>5
  <2>2. Strict(vs, v) = v
    BY <1>5 DEF Strict
  <2> QED BY <1>2, <2>1, <2>2
<1> QED BY <1>3, <1>4, <1>5

(* What a strict operation may return: no number unless all are, and then   *)
(* one that guesses only if one of them does.                               *)
Strictly(u, vs, C) ==
  /\ u \in Values(C)
  /\ NaV \in vs => u = NaV
  /\ (\A v \in vs : Honest(v)) => Honest(u)

(* And no NaN unless one is.                                                *)
Obeys(u, vs, C) == Strictly(u, vs, C) /\ (NaN \notin vs => u # NaN)

(* The values of no operands. *)
Literal(l) == Number(l, 1, {}, FALSE)

(* A null and a NaN guess nothing, nor does a number of no operands. *)
LEMMA Literals ==
  ASSUME NEW C
  PROVE  /\ Honest(NaV) /\ Honest(NaN)
         /\ \A l \in Int : /\ Literal(l) \in Numbers(C)
                           /\ Honest(Literal(l))
                           /\ Literal(l).lvl = l
BY DEF Literal, Honest, IsNumber, NaV, NaN, Number, Numbers

(* What an operation makes of one value. *)
LEMMA UnaryRow ==
  ASSUME NEW C, NEW op \in UnaryOps, NEW v \in Values(C)
  PROVE  Obeys(Strict({v}, UnaryOf(op, v)), {v}, C)
<1>1. ASSUME v \in Numbers(C)
      PROVE  /\ UnaryOf(op, v) \in Values(C) /\ UnaryOf(op, v) # NaN
             /\ Honest(v) => Honest(UnaryOf(op, v))
  <2>1. v.lvl \in Int /\ v.log \in Int
    BY <1>1, NumberFields
  <2>2. \A l \in Int, g \in Int : /\ From({v}, l, g) \in Numbers(C)
                                  /\ Honest(v) => Honest(From({v}, l, g))
    BY <1>1, FromNumbers
  <2>4. /\ SignOf(v.lvl) \in Int /\ - SignOf(v.lvl) \in Int /\ 1 \in Int
        /\ Truth(v.lvl > 0) \in Int /\ - Truth(v.lvl < 0) \in Int
        /\ (IF v.lvl < 0 THEN -v.lvl ELSE v.lvl) \in Int
    BY <2>1, Signs DEF Truth
  <2>5. UnaryOf(op, v) = NaV \/ \E l \in Int, g \in Int : UnaryOf(op, v) = From({v}, l, g)
    <3>1. CASE op \in {"abs", "neg", "sign", "up", "down"}
      BY <3>1, <2>4 DEF UnaryOf, UnaryLevel, Outside
    <3>2. CASE op \in {"safe_log", "safe_sqrt", "negative"}
      BY <3>2, <2>4, <2>1 DEF UnaryOf, UnaryLevel
    <3> QED BY <3>1, <3>2 DEF UnaryOps
  <2> QED BY <2>2, <2>5, NotNumbers, Literals
<1> PICK u : u = Strict({v}, UnaryOf(op, v))
  OBVIOUS
<1> PICK vs : vs = {v}
  OBVIOUS
<1>2. \/ u = NaV /\ NaV \in vs
      \/ u = NaN /\ NaV \notin vs /\ NaN \in vs
      \/ u = UnaryOf(op, v) /\ vs \subseteq Numbers(C) /\ NaV \notin vs /\ NaN \notin vs
  BY StrictValue
<1> QED BY <1>1, <1>2, NotNumbers, Literals DEF Obeys, Strictly

(* A strict operation that makes of numbers one that guesses only if they   *)
(* do.                                                                      *)
LEMMA StrictObeys ==
  ASSUME NEW C, NEW vs \in SUBSET Values(C), NEW v,
         vs \subseteq Numbers(C) => /\ v \in Values(C) /\ v # NaN
                                    /\ (\A w \in vs : Honest(w)) => Honest(v)
  PROVE  Obeys(Strict(vs, v), vs, C)
<1> PICK u : u = Strict(vs, v)
  OBVIOUS
<1>2. \/ u = NaV /\ NaV \in vs
      \/ u = NaN /\ NaV \notin vs /\ NaN \in vs
      \/ u = v /\ vs \subseteq Numbers(C) /\ NaV \notin vs /\ NaN \notin vs
  BY StrictValue
<1> QED BY <1>2, NotNumbers, Literals DEF Obeys, Strictly

Arithmetic == {"minus", "plus", "times"}
Comparisons == {"above", "equal"}

(* What an operation makes of two values. *)
LEMMA ArithmeticRow ==
  ASSUME NEW C, NEW op \in Arithmetic, NEW x \in Values(C), NEW y \in Values(C)
  PROVE  Obeys(BinaryOf(op, x, y), {x, y}, C)
<1> PICK vs : vs = {x, y}
  OBVIOUS
<1>1. \E l : /\ BinaryOf(op, x, y) = Strict(vs, From(vs, l, 1))
             /\ vs \subseteq Numbers(C) => l \in Int
  <2>1. vs \subseteq Numbers(C) => /\ DifferenceLevel(x, y) \in Int /\ SumLevel(x, y) \in Int
                                   /\ ProductLevel(x, y) \in Int
    BY LevelsOfTwo
  <2>2. CASE op = "minus"
    BY <2>1, <2>2 DEF BinaryOf, Computed, LevelOf
  <2>3. CASE op = "plus"
    BY <2>1, <2>3 DEF BinaryOf, Computed, LevelOf
  <2>4. CASE op = "times"
    BY <2>1, <2>4 DEF BinaryOf, Computed, LevelOf
  <2> QED BY <2>2, <2>3, <2>4 DEF Arithmetic
<1> PICK l : /\ BinaryOf(op, x, y) = Strict(vs, From(vs, l, 1))
             /\ vs \subseteq Numbers(C) => l \in Int
  BY <1>1
<1>2. vs \in SUBSET Values(C)
  OBVIOUS
<1>3. vs \subseteq Numbers(C) => /\ From(vs, l, 1) \in Values(C) /\ From(vs, l, 1) # NaN
                                 /\ (\A w \in vs : Honest(w)) => Honest(From(vs, l, 1))
  BY FromNumbers, NotNumbers
<1>4. Obeys(Strict(vs, From(vs, l, 1)), vs, C)
  BY <1>2, <1>3, StrictObeys
<1> QED BY <1>4

(* A number is what a comparison makes of all but nulls. *)
LEMMA ComparisonRow ==
  ASSUME NEW C, NEW op \in Comparisons, NEW x \in Values(C), NEW y \in Values(C)
  PROVE  Obeys(Compared(op, x, y), {x, y}, C) /\ Compared(op, x, y) # NaN
<1> PICK read : read = {v \in {x, y} : IsNumber(v)}
  OBVIOUS
<1>2. read \in SUBSET Numbers(C)
  BY ValueKinds
<1>3. ASSUME NaV \notin {x, y}
      PROVE  \E l \in Int : Compared(op, x, y) = From(read, l, 1)
  BY <1>3 DEF Compared, Truth
<1>4. CASE NaV \in {x, y}
  <2>1. Compared(op, x, y) = NaV
    BY <1>4 DEF Compared
  <2> QED BY <2>1, <1>4, NotNumbers, Literals DEF Obeys, Strictly
<1>5. CASE NaV \notin {x, y}
  <2> PICK l \in Int : Compared(op, x, y) = From(read, l, 1)
    BY <1>3, <1>5
  <2>1. From(read, l, 1) \in Numbers(C) /\ ((\A v \in read : Honest(v)) => Honest(From(read, l, 1)))
    BY <1>2, FromNumbers
  <2>2. \A v \in read : v \in {x, y}
    OBVIOUS
  <2> QED BY <2>1, <2>2, <1>5, NotNumbers DEF Obeys, Strictly
<1> QED BY <1>4, <1>5

(* A quotient is NaN for a divisor of zero alone. *)
LEMMA QuotientRow ==
  ASSUME NEW C, NEW x \in Values(C), NEW y \in Values(C)
  PROVE  /\ Strictly(BinaryOf("over", x, y), {x, y}, C)
         /\ (y \in Numbers(C) => y.lvl # 0) => Obeys(BinaryOf("over", x, y), {x, y}, C)
         /\ BinaryOf("over", x, y) = NaV => NaV \in {x, y}
<1> PICK vs : vs = {x, y}
  OBVIOUS
<1> PICK q : q = Computed("over", x, y)
  OBVIOUS
<1> PICK u : u = BinaryOf("over", x, y)
  OBVIOUS
<1>1. u = Strict(vs, q)
  BY DEF BinaryOf
<1>2. vs \subseteq Numbers(C) => /\ q \in Values(C)
                                 /\ (\A w \in vs : Honest(w)) => Honest(q)
                                 /\ y.lvl # 0 => q # NaN
                                 /\ q # NaV
  <2> SUFFICES ASSUME vs \subseteq Numbers(C)
               PROVE  /\ q \in Values(C)
                      /\ (\A w \in vs : Honest(w)) => Honest(q)
                      /\ y.lvl # 0 => q # NaN
                      /\ q # NaV
    OBVIOUS
  <2>1. CASE y.lvl = 0
    <3>1. q = NaN
      BY <2>1 DEF Computed
    <3> QED BY <3>1, <2>1, NotNumbers, Literals
  <2>2. CASE y.lvl # 0
    <3>1. x \in Numbers(C) /\ y \in Numbers(C)
      OBVIOUS
    <3>2. SignOf(x.lvl) * SignOf(y.lvl) \in Int /\ QuotientLog(x, y) \in Int
      BY <3>1, LevelsOfTwo DEF ProductLevel
    <3> PICK l \in Int, g \in Int : q = From(vs, l, g)
      BY <2>2, <3>2 DEF Computed, LevelOf, ProductLevel
    <3> QED BY FromNumbers, NotNumbers
  <2> QED BY <2>1, <2>2
<1>3. vs \in SUBSET Values(C)
  OBVIOUS
<1>4. \/ u = NaV /\ NaV \in vs
      \/ u = NaN /\ NaV \notin vs /\ NaN \in vs
      \/ u = q /\ vs \subseteq Numbers(C) /\ NaV \notin vs /\ NaN \notin vs
  BY <1>1, <1>3, StrictValue
<1>6. Strictly(u, vs, C) /\ (u = NaV => NaV \in vs)
  BY <1>2, <1>4, NotNumbers, Literals DEF Strictly
<1>7. (y \in Numbers(C) => y.lvl # 0) => Obeys(u, vs, C)
  BY <1>2, <1>4, <1>6, NotNumbers DEF Obeys
<1> QED BY <1>6, <1>7

(* What a condition chooses: the branch, with the cells of the condition. *)
LEMMA ChosenRow ==
  ASSUME NEW C, NEW c \in Values(C), c # NaN, NEW x \in Values(C), NEW y \in Values(C),
         NEW v, v = IF IsNumber(c) /\ c.lvl = 1 THEN x ELSE y
  PROVE  /\ Chosen(c, x, y) \in Values(C)
         /\ (Chosen(c, x, y) = NaV) <=> (v = NaV)
         /\ (Chosen(c, x, y) = NaN) <=> (v = NaN)
         /\ (c # NaV /\ Honest(c) /\ Honest(v)) => Honest(Chosen(c, x, y))
<1> PICK u : u = Chosen(c, x, y)
  OBVIOUS
<1>1. /\ v \in Values(C) /\ (IsNumber(v) <=> (v \in Numbers(C)))
      /\ IsNumber(c) <=> (c \in Numbers(C))
      /\ IsNull(c) <=> (c = NaV)
      /\ c = NaV \/ c \in Numbers(C)
  BY ValueKinds
<1>2. CASE v \notin Numbers(C)
  <2>1. u = v
    BY <1>1, <1>2 DEF Chosen, Given
  <2>2. Honest(v)
    BY <1>1, <1>2 DEF Honest
  <2> QED BY <2>1, <2>2, <1>1, <1>2
<1>3. CASE v \in Numbers(C) /\ c = NaV
  <2>1. u = [v EXCEPT !.guess = TRUE]
    BY <1>1, <1>3 DEF Chosen, Given
  <2>2. u \in Numbers(C) /\ u.lvl = v.lvl
    BY <2>1, <1>3 DEF Numbers
  <2> QED BY <2>2, <1>3, NotNumbers
<1>4. CASE v \in Numbers(C) /\ c \in Numbers(C)
  <2>0. ~ IsNull(c) /\ IsNumber(v)
    BY <1>1, <1>4, NotNumbers
  <2>1. u = [v EXCEPT !.on = @ \cup c.on, !.guess = @ \/ c.guess]
    BY <2>0, <1>1 DEF Chosen, Given
  <2>2. c.on \in SUBSET C /\ c.guess \in BOOLEAN /\ v.guess \in BOOLEAN /\ v.on \in SUBSET C
    BY <1>4, NumberFields
  <2>3. u = [kind |-> "number", lvl |-> v.lvl, log |-> v.log, on |-> v.on \cup c.on,
             guess |-> v.guess \/ c.guess]
    BY <2>1, <1>4 DEF Numbers
  <2>4. u \in Numbers(C) /\ u.lvl = v.lvl
    BY <2>2, <2>3, <1>4, NumberFields DEF Numbers
  <2>5. Honest(c) /\ Honest(v) => Honest(u)
    BY <2>0, <2>2, <2>3, <1>1, <1>4 DEF Honest
  <2> QED BY <2>4, <2>5, <1>4, NotNumbers
<1> QED BY <1>1, <1>2, <1>3, <1>4

(* Equality with zero decides that. *)
LEMMA ZeroRow ==
  ASSUME NEW C, NEW y \in Values(C), NEW zero, zero = Literal(0),
         NEW c, c = Compared("equal", y, zero)
  PROVE  /\ c \in Values(C) /\ c # NaN
         /\ (c = NaV) <=> (y = NaV)
         /\ y \in Numbers(C) => (c \in Numbers(C) /\ ((c.lvl = 1) <=> (y.lvl = 0)))
         /\ (y = NaN) => (c \in Numbers(C) /\ c.lvl # 1)
         /\ Honest(y) => Honest(c)
<1>1. zero \in Numbers(C) /\ Honest(zero) /\ zero.lvl = 0
  BY Literals
<1>a. zero \in Values(C) /\ NaV # zero /\ NaN # zero
  BY <1>1, NotNumbers
<1>2. Obeys(c, {y, zero}, C) /\ c # NaN
  BY <1>a, ComparisonRow DEF Comparisons
<1>3. c = Compared("equal", y, zero)
  OBVIOUS
<1> PICK d : d = IF y = NaN THEN 1 ELSE DifferenceLevel(y, zero)
  OBVIOUS
<1>4. ASSUME y # NaV
      PROVE  c \in Numbers(C) /\ c.lvl = IF d = 0 THEN 1 ELSE 0
  <2> PICK read : read = {v \in {y, zero} : IsNumber(v)}
    OBVIOUS
  <2>1. read \in SUBSET Numbers(C)
    BY <1>a, ValueKinds
  <2> PICK t \in {0, 1} : t = IF d = 0 THEN 1 ELSE 0
    OBVIOUS
  <2>2. c = From(read, t, 1)
    BY <1>a, <1>3, <1>4 DEF Compared, Difference, Truth
  <2>3. c \in Numbers(C) /\ c.lvl = t
    BY <2>1, <2>2, FromNumbers
  <2> QED BY <2>3
<1>5. y \in Numbers(C) => y # NaN /\ y # NaV /\ ((DifferenceLevel(y, zero) = 0) <=> (y.lvl = 0))
  BY <1>1, LevelsOfTwo, NotNumbers
<1>6. c \in Values(C) /\ (y = NaV => c = NaV) /\ (Honest(y) => Honest(c))
  BY <1>1, <1>2 DEF Obeys, Strictly
<1>7. (c = NaV) => (y = NaV)
  BY <1>4, NotNumbers
<1>8. y \in Numbers(C) => (c \in Numbers(C) /\ ((c.lvl = 1) <=> (y.lvl = 0)))
  BY <1>4, <1>5
<1>9. (y = NaN) => (c \in Numbers(C) /\ c.lvl # 1)
  BY <1>4, NotNumbers
<1> QED BY <1>2, <1>6, <1>7, <1>8, <1>9

(* safe_div is as strict as arithmetic. *)
SafeQuotient(x, y) ==
  Chosen(Compared("equal", y, Literal(0)), NaV, BinaryOf("over", x, y))

(* A guarded quotient is null for a divisor of zero, and no NaN unless an   *)
(* operand is one: safe_div of _math.py.                                    *)
LEMMA SafeDivRow ==
  ASSUME NEW C, NEW x \in Values(C), NEW y \in Values(C)
  PROVE  Obeys(SafeQuotient(x, y), {x, y}, C)
<1> PICK c : c = Compared("equal", y, Literal(0))
  OBVIOUS
<1> PICK q : q = BinaryOf("over", x, y)
  OBVIOUS
<1> PICK u : u = SafeQuotient(x, y)
  OBVIOUS
<1> PICK v : v = IF IsNumber(c) /\ c.lvl = 1 THEN NaV ELSE q
  OBVIOUS
<1>1. u = Chosen(c, NaV, q)
  BY DEF SafeQuotient
<1>2. /\ c \in Values(C) /\ c # NaN
      /\ (c = NaV) <=> (y = NaV)
      /\ y \in Numbers(C) => (c \in Numbers(C) /\ ((c.lvl = 1) <=> (y.lvl = 0)))
      /\ (y = NaN) => (c \in Numbers(C) /\ c.lvl # 1)
      /\ Honest(y) => Honest(c)
  BY ZeroRow
<1>3. /\ Strictly(q, {x, y}, C)
      /\ (y \in Numbers(C) => y.lvl # 0) => Obeys(q, {x, y}, C)
  BY QuotientRow
<1>4. NaV \in Values(C) /\ q \in Values(C)
  BY <1>3, NotNumbers DEF Strictly
<1>5. /\ u \in Values(C)
      /\ (u = NaV) <=> (v = NaV)
      /\ (u = NaN) <=> (v = NaN)
      /\ (c # NaV /\ Honest(c) /\ Honest(v)) => Honest(u)
  BY <1>1, <1>2, <1>4, ChosenRow
<1>6. NaV \in {x, y} => u = NaV
  BY <1>3, <1>5 DEF Strictly
<1>7. (Honest(x) /\ Honest(y)) => Honest(u)
  <2>1. CASE y = NaV
    BY <2>1, <1>6, Literals
  <2>2. CASE y # NaV
    <3>1. Honest(NaV)
      BY Literals
    <3> QED BY <2>2, <3>1, <1>2, <1>3, <1>5 DEF Strictly
  <2> QED BY <2>1, <2>2
<1>8. ASSUME NaN \notin {x, y}
      PROVE  u # NaN
  <2>1. y = NaV \/ y \in Numbers(C)
    BY <1>8, ValueKinds
  <2>2. CASE y = NaV
    BY <2>2, <1>6, NotNumbers
  <2>3. CASE y \in Numbers(C) /\ y.lvl # 0
    <3>1. q # NaN
      BY <2>3, <1>3, <1>8 DEF Obeys
    <3> QED BY <3>1, <1>5, NotNumbers
  <2>4. CASE y \in Numbers(C) /\ y.lvl = 0
    <3>1. IsNumber(c)
      BY <2>4, <1>2, ValueKinds
    <3>2. v = NaV
      BY <2>4, <3>1, <1>2
    <3> QED BY <3>2, <1>5, NotNumbers
  <2> QED BY <2>1, <2>2, <2>3, <2>4
<1> QED BY <1>5, <1>6, <1>7, <1>8 DEF Obeys, Strictly

-----------------------------------------------------------------------------
(* The levels of a window of numbers are finitely many integers: they have  *)
(* a greatest and a least.                                                  *)
LEMMA LevelsOfWindow ==
  ASSUME NEW C, NEW vs \in SUBSET Numbers(C), IsFiniteSet(vs), vs # {}
  PROVE  /\ Levels(vs) \subseteq Int /\ IsFiniteSet(Levels(vs)) /\ Levels(vs) # {}
         /\ Max(Levels(vs)) \in Int /\ Min(Levels(vs)) \in Int
<1> PICK L : L = Levels(vs)
  OBVIOUS
<1>1. L \subseteq Int /\ L # {}
  BY NumberFields DEF Levels
<1>2. IsFiniteSet(L)
  <2> DEFINE level == [v \in vs |-> v.lvl]
  <2>1. level \in Surjection(vs, L)
    BY DEF Levels, Surjection
  <2> HIDE DEF level
  <2> QED BY <2>1, FS_Surjection
<1>3. Max(L) \in Int
  <2>1. \E m \in L : \A x \in L : x <= m
    BY <1>1, <1>2, GreatestOfFinite
  <2>2. \E m \in L : \A x \in L : m >= x
    BY <1>1, <2>1
  <2> QED BY <1>1, <2>2 DEF Max
<1>4. Min(L) \in Int
  <2> DEFINE opposite == [x \in L |-> -x]
             O == {-x : x \in L}
  <2>1. O \subseteq Int /\ O # {}
    BY <1>1
  <2>2. opposite \in Surjection(L, O)
    BY DEF Surjection
  <2>3. IsFiniteSet(O)
    <3> HIDE DEF opposite, O
    <3> QED BY <2>2, <1>2, FS_Surjection
  <2>4. \E m \in O : \A x \in O : x <= m
    <3> HIDE DEF opposite, O
    <3> QED BY <2>1, <2>3, GreatestOfFinite
  <2>5. PICK l \in L : \A x \in L : -x <= -l
    BY <2>4
  <2>6. \A x \in L : l <= x
    BY <2>5, <1>1
  <2>7. \E m \in L : \A x \in L : m <= x
    BY <2>6
  <2> QED BY <1>1, <2>7 DEF Min
<1> QED BY <1>1, <1>2, <1>3, <1>4

(* A full window makes a number of numbers, but for the moment of a flat    *)
(* one.                                                                     *)
LEMMA WindowRow ==
  ASSUME NEW C, NEW how \in RollingOps, NEW vs \in SUBSET Numbers(C),
         IsFiniteSet(vs), vs # {}
  PROVE  /\ WindowOf(how, vs) \in Values(C) /\ WindowOf(how, vs) # NaV
         /\ (\A v \in vs : Honest(v)) => Honest(WindowOf(how, vs))
         /\ how # "moment" => WindowOf(how, vs) # NaN
<1>1. /\ Max(Levels(vs)) \in Int /\ Min(Levels(vs)) \in Int
  BY LevelsOfWindow
<1>2. \/ \E l \in Int : WindowOf(how, vs) = From(vs, l, 1)
      \/ how = "moment" /\ WindowOf(how, vs) = NaN
  <2>1. WindowLevel(how, vs) \in Int
    <3>1. CASE how = "max" \/ how = "min"
      BY <1>1, <3>1 DEF WindowLevel
    <3>2. CASE how \in {"sum", "pctile", "slope", "moment"}
      BY <3>2 DEF WindowLevel, Truth
    <3>3. CASE how \in {"mean", "std", "var", "mad"}
      BY <1>1, <3>3 DEF WindowLevel
    <3> QED BY <3>1, <3>2, <3>3 DEF RollingOps, DispersionOps
  <2> QED BY <2>1 DEF WindowOf
<1>3. CASE \E l \in Int : WindowOf(how, vs) = From(vs, l, 1)
  BY <1>3, FromNumbers, NotNumbers
<1>4. CASE how = "moment" /\ WindowOf(how, vs) = NaN
  BY <1>4, NotNumbers, Literals
<1> QED BY <1>2, <1>3, <1>4

(* The rows of a window. *)
Window(c, w, i) == {c[j] : j \in (i - w + 1)..i}

(* They are finitely many values, and at least one. *)
LEMMA WindowRows ==
  ASSUME NEW C, NEW n \in Nat, NEW c \in [1..n -> Values(C)], NEW i \in 1..n,
         NEW w \in Nat \ {0}, w <= i
  PROVE  /\ Window(c, w, i) \in SUBSET Values(C)
         /\ IsFiniteSet(Window(c, w, i)) /\ Window(c, w, i) # {}
<1>1. \A j \in (i - w + 1)..i : j \in 1..n
  OBVIOUS
<1>2. i \in (i - w + 1)..i
  OBVIOUS
<1>3. IsFiniteSet((i - w + 1)..i)
  <2>1. i - w + 1 \in Int /\ i \in Int
    OBVIOUS
  <2> QED BY <2>1, FS_Interval
<1>4. IsFiniteSet(Window(c, w, i))
  <2> DEFINE row == [j \in (i - w + 1)..i |-> c[j]]
  <2>1. row \in Surjection((i - w + 1)..i, Window(c, w, i))
    BY DEF Window, Surjection
  <2> HIDE DEF row
  <2> QED BY <2>1, <1>3, FS_Surjection
<1> QED BY <1>1, <1>2, <1>4 DEF Window

(* A rolling operation: null before a full window, then strict.             *)
LEMMA RolledRow ==
  ASSUME NEW C, NEW n \in Nat, NEW c \in [1..n -> Values(C)], NEW i \in 1..n,
         NEW w \in Nat \ {0}, NEW how \in RollingOps
  PROVE  /\ i < w => Rolled(how, c, w, i) = NaV
         /\ i >= w => /\ Strictly(Rolled(how, c, w, i), Window(c, w, i), C)
                      /\ how # "moment" => Obeys(Rolled(how, c, w, i), Window(c, w, i), C)
<1>1. CASE i < w
  BY <1>1 DEF Rolled
<1>2. CASE i >= w
  <2> PICK vs : vs = Window(c, w, i)
    OBVIOUS
  <2> PICK v : v = WindowOf(how, vs)
    OBVIOUS
  <2> PICK u : u = Rolled(how, c, w, i)
    OBVIOUS
  <2>1. u = Strict(vs, v)
    BY <1>2 DEF Rolled, Window
  <2>2. vs \in SUBSET Values(C) /\ IsFiniteSet(vs) /\ vs # {}
    BY <1>2, WindowRows
  <2>3. vs \subseteq Numbers(C) => /\ v \in Values(C)
                                   /\ (\A x \in vs : Honest(x)) => Honest(v)
                                   /\ how # "moment" => v # NaN
    BY <2>2, WindowRow
  <2>4. \/ u = NaV /\ NaV \in vs
        \/ u = NaN /\ NaV \notin vs /\ NaN \in vs
        \/ u = v /\ vs \subseteq Numbers(C) /\ NaV \notin vs /\ NaN \notin vs
    <3>1. vs \in SUBSET Values(C)
      BY <2>2
    <3> QED BY ONLY <2>1, <3>1, StrictValue
  <2>5. Strictly(u, vs, C)
    BY <2>3, <2>4, NotNumbers, Literals DEF Strictly
  <2>6. how # "moment" => Obeys(u, vs, C)
    BY <2>3, <2>4, <2>5, NotNumbers DEF Obeys
  <2> QED BY <2>5, <2>6, <1>2
<1> QED BY <1>1, <1>2

(* A covariance, over the windows of two columns.                           *)
LEMMA CovarianceRow ==
  ASSUME NEW C, NEW n \in Nat, NEW c \in [1..n -> Values(C)], NEW d \in [1..n -> Values(C)],
         NEW i \in 1..n, NEW w \in Nat \ {0}
  PROVE  /\ i < w => Covariance(c, d, w, i) = NaV
         /\ i >= w => Obeys(Covariance(c, d, w, i), Window(c, w, i) \cup Window(d, w, i), C)
<1>1. CASE i < w
  BY <1>1 DEF Covariance
<1>2. CASE i >= w
  <2> PICK vs : vs = Window(c, w, i) \cup Window(d, w, i)
    OBVIOUS
  <2> PICK l \in Int : l = IF Flat(Window(c, w, i)) \/ Flat(Window(d, w, i)) THEN 0 ELSE 1
    OBVIOUS
  <2>1. Covariance(c, d, w, i) = Strict(vs, From(vs, l, 1))
    BY <1>2 DEF Covariance, Window
  <2>2. vs \in SUBSET Values(C)
    BY <1>2, WindowRows
  <2>3. vs \subseteq Numbers(C) => /\ From(vs, l, 1) \in Values(C) /\ From(vs, l, 1) # NaN
                                   /\ (\A v \in vs : Honest(v)) => Honest(From(vs, l, 1))
    BY FromNumbers, NotNumbers
  <2>4. Obeys(Strict(vs, From(vs, l, 1)), vs, C)
    BY <2>2, <2>3, StrictObeys
  <2> QED BY <2>1, <2>4, <1>2
<1> QED BY <1>1, <1>2

-----------------------------------------------------------------------------
(* A column is its rows. *)
LEMMA ColumnOf ==
  ASSUME NEW n \in Nat, NEW f, f = [i \in 1..n |-> f[i]]
  PROVE  Column(f) = f
<1> PICK S : S = {f[i] : i \in 1..n}
  OBVIOUS
<1>1. f \in Seq(S) /\ Len(f) = n
  OBVIOUS
<1>2. SubSeq(f, 1, n) = f
  BY <1>1
<1> QED BY <1>1, <1>2 DEF Column

(* The column an expression has on a frame, row by row.                     *)
LEMMA ColRows ==
  ASSUME NEW a \in Frames, NEW r
  PROVE  Col(r)[a] = [i \in 1..Len(a) |-> Cell(a[i], r)]
<1>1. DOMAIN a = 1..Len(a) /\ Len(a) \in Nat
  BY DEF Frames
<1> QED BY <1>1, ColumnOf DEF Col

(* An arithmetic operation, row by row. *)
LEMMA BinaryRows ==
  ASSUME NEW a \in Frames, NEW op, NEW x, NEW y
  PROVE  Binary(op, x, y)[a] = [i \in 1..Len(a) |-> BinaryOf(op, x[a][i], y[a][i])]
<1>1. DOMAIN a = 1..Len(a) /\ Len(a) \in Nat
  BY DEF Frames
<1> QED BY <1>1, ColumnOf DEF Binary

(* A comparison, row by row. *)
LEMMA ComparisonRows ==
  ASSUME NEW a \in Frames, NEW op, NEW x, NEW y
  PROVE  Comparison(op, x, y)[a] = [i \in 1..Len(a) |-> Compared(op, x[a][i], y[a][i])]
<1>1. DOMAIN a = 1..Len(a) /\ Len(a) \in Nat
  BY DEF Frames
<1> QED BY <1>1, ColumnOf DEF Comparison

(* A constant, row by row. *)
LEMMA ConstantRows ==
  ASSUME NEW a \in Frames, NEW v
  PROVE  Constant(v)[a] = [i \in 1..Len(a) |-> v]
<1>1. DOMAIN a = 1..Len(a) /\ Len(a) \in Nat
  BY DEF Frames
<1> QED BY <1>1, ColumnOf DEF Constant

(* A literal, row by row. *)
LEMMA LitRows ==
  ASSUME NEW a \in Frames, NEW l
  PROVE  Lit(l)[a] = [i \in 1..Len(a) |-> Literal(l)]
<1> PICK v : v = Literal(l)
  OBVIOUS
<1>1. Lit(l) = Constant(v)
  BY DEF Lit, Literal
<1> QED BY <1>1, ConstantRows

(* A lag: null where there is no such row, the value of an earlier row      *)
(* elsewhere.                                                               *)
LEMMA ShiftRows ==
  ASSUME NEW a \in Frames, NEW x, NEW n
  PROVE  Shift(x, n)[a] = [i \in 1..Len(a) |-> IF i - n \in 1..Len(a) THEN x[a][i - n] ELSE NaV]
<1>1. DOMAIN a = 1..Len(a) /\ Len(a) \in Nat
  BY DEF Frames
<1> QED BY <1>1, ColumnOf DEF Shift

UnaryValue(op, v) == Strict({v}, UnaryOf(op, v))

(* An operation on one column, row by row. *)
LEMMA UnaryRows ==
  ASSUME NEW a \in Frames, NEW op, NEW x
  PROVE  Unary(op, x)[a] = [i \in 1..Len(a) |-> UnaryValue(op, x[a][i])]
<1>1. DOMAIN a = 1..Len(a) /\ Len(a) \in Nat
  BY DEF Frames
<1> QED BY <1>1, ColumnOf DEF Unary, UnaryValue

(* A rolling operation, row by row. *)
LEMMA RollingRows ==
  ASSUME NEW a \in Frames, NEW how, NEW x, NEW w
  PROVE  Rolling(how, x, w)[a] = [i \in 1..Len(a) |-> Rolled(how, x[a], w, i)]
<1>1. DOMAIN a = 1..Len(a) /\ Len(a) \in Nat
  BY DEF Frames
<1> QED BY <1>1, ColumnOf DEF Rolling

(* A covariance, row by row. *)
LEMMA CovRows ==
  ASSUME NEW a \in Frames, NEW x, NEW y, NEW w
  PROVE  Cov(x, y, w)[a] = [i \in 1..Len(a) |-> Covariance(x[a], y[a], w, i)]
<1>1. DOMAIN a = 1..Len(a) /\ Len(a) \in Nat
  BY DEF Frames
<1> QED BY <1>1, ColumnOf DEF Cov

(* A choice, row by row. *)
LEMMA WhenRows ==
  ASSUME NEW a \in Frames, NEW c, NEW x, NEW y
  PROVE  When(c, x, y)[a] = [i \in 1..Len(a) |-> Chosen(c[a][i], x[a][i], y[a][i])]
<1>1. DOMAIN a = 1..Len(a) /\ Len(a) \in Nat
  BY DEF Frames
<1> QED BY <1>1, ColumnOf DEF When

(* A conjunction, row by row. *)
LEMMA BothRows ==
  ASSUME NEW a \in Frames, NEW x, NEW y
  PROVE  Both(x, y)[a] = [i \in 1..Len(a) |-> Conjunction(x[a][i], y[a][i])]
<1>1. DOMAIN a = 1..Len(a) /\ Len(a) \in Nat
  BY DEF Frames
<1> QED BY <1>1, ColumnOf DEF Both

(* is_not_null, row by row. *)
LEMMA PresentRows ==
  ASSUME NEW a \in Frames, NEW x
  PROVE  Present(x)[a] = [i \in 1..Len(a) |-> Literal(IF IsNull(x[a][i]) THEN 0 ELSE 1)]
<1>1. DOMAIN a = 1..Len(a) /\ Len(a) \in Nat
  BY DEF Frames
<1> QED BY <1>1, ColumnOf DEF Present, Literal, Truth

(* fill_nan, row by row. *)
LEMMA FillNanRows ==
  ASSUME NEW a \in Frames, NEW x
  PROVE  FillNan(x)[a] = [i \in 1..Len(a) |-> IF x[a][i] = NaN THEN NaV ELSE x[a][i]]
<1>1. DOMAIN a = 1..Len(a) /\ Len(a) \in Nat
  BY DEF Frames
<1> QED BY <1>1, ColumnOf DEF FillNan

(* emit_after, row by row: null before a threshold. *)
LEMMA MaskedRows ==
  ASSUME NEW a \in Frames, NEW x, NEW n
  PROVE  Masked(x, n)[a] = [i \in 1..Len(a) |-> IF Age(a, i) < n THEN NaV ELSE x[a][i]]
<1>1. DOMAIN a = 1..Len(a) /\ Len(a) \in Nat
  BY DEF Frames
<1> QED BY <1>1, ColumnOf DEF Masked

-----------------------------------------------------------------------------
(* 2. Columns. *)

(* The bars of one symbol, each of them whole or with no value at all.      *)
Missing(bar) == \A r \in Roles : bar.cells[r] = Null
Whole(bar) == \A r \in Roles : bar.cells[r] # Null
Histories == {a \in Frames : /\ \A i, j \in DOMAIN a : a[i].sym = a[j].sym
                             /\ \A i \in DOMAIN a : Missing(a[i]) \/ Whole(a[i])}

CellsOn(a, R) == {<<a[k].sym, a[k].t, r>> : k \in DOMAIN a, r \in R}

(* The n bars that end at row i of a and at row j of b are the same, or all *)
(* there are from the start of each.                                        *)
Alike(a, i, b, j, n) ==
  /\ i = j \/ (i >= n /\ j >= n)
  /\ \A k \in 0..(n - 1) : k < i /\ k < j => a[i - k] = b[j - k]

(* b is a with some of the missing bars delivered. *)
Fills(a, b) ==
  /\ Len(a) = Len(b)
  /\ \A k \in 1..Len(a) : Missing(a[k]) \/ b[k] = a[k]

(* A history has values on the cells of the declared roles, none of which   *)
(* took a null for something else; the value of a row is null before n rows *)
(* and a function of the n bars that end there; it does not change when a   *)
(* missing bar is delivered, unless it was null; and it is not NaN on the   *)
(* histories of T.                                                          *)
Typed(x, R) ==
  \A a \in Histories : x[a] \in [1..Len(a) -> {v \in Values(CellsOn(a, R)) : Honest(v)}]
Late(x, n) == \A a \in Histories : \A i \in 1..Len(a) : i < n => x[a][i] = NaV
Local(x, n) ==
  \A a, b \in Histories : \A i \in 1..Len(a), j \in 1..Len(b) :
    Alike(a, i, b, j, n) => x[a][i] = x[b][j]
Settled(x) ==
  \A a, b \in Histories : Fills(a, b) =>
    \A i \in 1..Len(a) : x[a][i] # NaV => x[b][i] = x[a][i]
Tame(x, T) == \A a \in T : \A i \in 1..Len(a) : x[a][i] # NaN

Good(x, n, R, T) ==
  Typed(x, R) /\ Late(x, n) /\ Local(x, n) /\ Settled(x) /\ Tame(x, T)

(* The operands of a row: two columns, at some rows at and before it.       *)
Operands(x, y, K, a, i) == {x[a][i - k] : k \in K} \cup {y[a][i - k] : k \in K}

(* A history is a frame; its rows are those of its length.                  *)
LEMMA HistoryIsFrame ==
  ASSUME NEW a \in Histories
  PROVE  /\ a \in Frames /\ Len(a) \in Nat /\ DOMAIN a = 1..Len(a)
         /\ \A i \in 1..Len(a) : a[i] \in Bars /\ (Missing(a[i]) \/ Whole(a[i]))
BY DEF Histories, Frames

(* Column z is made of windows of x and y: from w rows on, strictly and as  *)
(* a function of the rows i - k, k in K; null before.                       *)
Assembly(z, x, y, w, K, R, T) ==
  /\ \A a \in Histories : z[a] = [i \in 1..Len(a) |-> z[a][i]]
  /\ \A a \in Histories : \A i \in 1..Len(a) :
       /\ i < w => z[a][i] = NaV
       /\ i >= w => Strictly(z[a][i], Operands(x, y, K, a, i), CellsOn(a, R))
  /\ \A a, b \in Histories : \A i \in w..Len(a), j \in w..Len(b) :
       (\A k \in K : x[a][i - k] = x[b][j - k] /\ y[a][i - k] = y[b][j - k])
         => z[a][i] = z[b][j]
  /\ \A a \in T : \A i \in w..Len(a) :
       NaN \notin Operands(x, y, K, a, i) => z[a][i] # NaN

(* Then z is as good as they are.                                           *)
LEMMA Assembled ==
  ASSUME NEW R, NEW T, T \subseteq Histories,
         NEW m \in Nat \ {0}, NEW n \in Nat \ {0}, NEW h \in Nat, m <= h, n <= h, h = m \/ h = n,
         NEW x, Good(x, m, R, T), NEW y, Good(y, n, R, T),
         NEW w \in Nat \ {0}, NEW K \in SUBSET (0..(w - 1)), w - 1 \in K,
         NEW z, Assembly(z, x, y, w, K, R, T)
  PROVE  Good(z, h + w - 1, R, T)
<1> USE DEF Assembly
<1>1. \A a \in Histories : Len(a) \in Nat
  BY HistoryIsFrame
<1>2. ASSUME NEW a \in Histories, NEW i \in w..Len(a), NEW v \in Operands(x, y, K, a, i)
      PROVE  v \in Values(CellsOn(a, R)) /\ Honest(v)
  <2>1. \A k \in K : i - k \in 1..Len(a)
    BY <1>1
  <2>2. /\ x[a] \in [1..Len(a) -> {u \in Values(CellsOn(a, R)) : Honest(u)}]
        /\ y[a] \in [1..Len(a) -> {u \in Values(CellsOn(a, R)) : Honest(u)}]
    BY DEF Good, Typed
  <2>3. PICK k \in K : v = x[a][i - k] \/ v = y[a][i - k]
    BY DEF Operands
  <2> PICK j : j = i - k
    OBVIOUS
  <2>4. j \in 1..Len(a) /\ (v = x[a][j] \/ v = y[a][j])
    BY ONLY <2>1, <2>3, j = i - k
  <2> QED BY ONLY <2>2, <2>4
<1>3. Typed(z, R)
  <2>1. ASSUME NEW a \in Histories, NEW i \in 1..Len(a)
        PROVE  z[a][i] \in Values(CellsOn(a, R)) /\ Honest(z[a][i])
    <3>1. CASE i < w
      BY <3>1, NotNumbers, Literals
    <3>2. CASE i >= w
      <4>1. i \in w..Len(a)
        BY <3>2, <1>1
      <4>2. \A v \in Operands(x, y, K, a, i) : Honest(v)
        BY <4>1, <1>2
      <4> QED BY <3>2, <4>2 DEF Strictly
    <3> QED BY <3>1, <3>2, <1>1
  <2>2. \A a \in Histories : z[a] = [i \in 1..Len(a) |-> z[a][i]]
    OBVIOUS
  <2> QED BY ONLY <2>1, <2>2 DEF Typed
<1>4. Late(z, h + w - 1)
  <2> SUFFICES ASSUME NEW a \in Histories, NEW i \in 1..Len(a), i < h + w - 1
               PROVE  z[a][i] = NaV
    BY DEF Late
  <2>1. CASE i < w
    BY <2>1
  <2>2. CASE i >= w
    <3>1. i - (w - 1) \in 1..Len(a) /\ i - (w - 1) < h
      BY <2>2, <1>1
    <3>2. x[a][i - (w - 1)] = NaV \/ y[a][i - (w - 1)] = NaV
      BY <3>1 DEF Good, Late
    <3>3. NaV \in Operands(x, y, K, a, i)
      BY <3>2 DEF Operands
    <3> QED BY <3>3, <2>2 DEF Strictly
  <2> QED BY <2>1, <2>2, <1>1
<1>5. Local(z, h + w - 1)
  <2> SUFFICES ASSUME NEW a \in Histories, NEW b \in Histories,
                      NEW i \in 1..Len(a), NEW j \in 1..Len(b), Alike(a, i, b, j, h + w - 1)
               PROVE  z[a][i] = z[b][j]
    BY DEF Local
  <2>0. Len(a) \in Nat /\ Len(b) \in Nat /\ i \in Nat /\ j \in Nat
    BY <1>1
  <2>1. CASE i < w
    <3>1. i = j
      BY <2>0, <2>1 DEF Alike
    <3> QED BY <3>1, <2>1
  <2>2. CASE i >= w
    <3>1. j >= w
      BY <2>0, <2>2 DEF Alike
    <3>2. ASSUME NEW k \in K
          PROVE  x[a][i - k] = x[b][j - k] /\ y[a][i - k] = y[b][j - k]
      <4>0. k \in 0..(w - 1)
        OBVIOUS
      <4>1. i - k \in 1..Len(a) /\ j - k \in 1..Len(b)
        BY <4>0, <3>1, <2>2, <2>0
      <4>2. \A l \in 0..(h - 1) : l < i - k /\ l < j - k => a[i - k - l] = b[j - k - l]
        <5> SUFFICES ASSUME NEW l \in 0..(h - 1), l < i - k, l < j - k
                     PROVE  a[i - k - l] = b[j - k - l]
          OBVIOUS
        <5> PICK g : g = k + l
          OBVIOUS
        <5>1. g \in 0..(h + w - 1 - 1) /\ g < i /\ g < j
          BY <4>0, <2>0
        <5>2. a[i - g] = b[j - g]
          BY ONLY <5>1, Alike(a, i, b, j, h + w - 1) DEF Alike
        <5>3. i - g = i - k - l /\ j - g = j - k - l
          BY <4>0, <2>0
        <5> QED BY <5>2, <5>3
      <4>3. i - k = j - k \/ (i - k >= h /\ j - k >= h)
        <5>1. i = j \/ (i >= h + w - 1 /\ j >= h + w - 1)
          BY DEF Alike
        <5> QED BY ONLY <5>1, <4>0, <2>0, w \in Nat \ {0}, h \in Nat
      <4>4. Alike(a, i - k, b, j - k, m) /\ Alike(a, i - k, b, j - k, n)
        BY <4>2, <4>3, <2>0, <4>0 DEF Alike
      <4> QED BY <4>1, <4>4 DEF Good, Local
    <3>3. i \in w..Len(a) /\ j \in w..Len(b)
      BY <2>0, <2>2, <3>1
    <3> QED BY <3>2, <3>3
  <2> QED BY <2>1, <2>2, <2>0
<1>6. Settled(z)
  <2> SUFFICES ASSUME NEW a \in Histories, NEW b \in Histories, Fills(a, b),
                      NEW i \in 1..Len(a), z[a][i] # NaV
               PROVE  z[a][i] = z[b][i]
    BY DEF Settled
  <2>1. i >= w /\ i \in w..Len(a) /\ i \in w..Len(b)
    BY <1>1 DEF Fills
  <2>2. NaV \notin Operands(x, y, K, a, i)
    BY <2>1 DEF Strictly
  <2>3. ASSUME NEW k \in K
        PROVE  x[a][i - k] = x[b][i - k] /\ y[a][i - k] = y[b][i - k]
    <3>1. i - k \in 1..Len(a)
      BY <2>1, <1>1
    <3>2. x[a][i - k] # NaV /\ y[a][i - k] # NaV
      BY <2>2 DEF Operands
    <3> QED BY <3>1, <3>2 DEF Good, Settled
  <2> QED BY <2>1, <2>3
<1>7. Tame(z, T)
  <2> SUFFICES ASSUME NEW a \in T, NEW i \in 1..Len(a)
               PROVE  z[a][i] # NaN
    BY DEF Tame
  <2>0. Len(a) \in Nat /\ a \in Histories
    BY <1>1
  <2>1. CASE i < w
    BY <2>0, <2>1, NotNumbers
  <2>2. CASE i >= w
    <3>1. i \in w..Len(a)
      BY <2>0, <2>2
    <3>2. \A k \in K : i - k \in 1..Len(a)
      BY <2>0, <3>1
    <3>3. NaN \notin Operands(x, y, K, a, i)
      BY <3>2 DEF Operands, Good, Tame
    <3> QED BY <3>1, <3>3
  <2> QED BY <2>1, <2>2, <2>0
<1> QED BY <1>3, <1>4, <1>5, <1>6, <1>7 DEF Good

(* A good expression on a history.                                          *)
LEMMA GoodRows ==
  ASSUME NEW R, NEW T, NEW n, NEW x, Good(x, n, R, T), NEW a \in Histories
  PROVE  /\ x[a] \in [1..Len(a) -> Values(CellsOn(a, R))]
         /\ \A i \in 1..Len(a) : x[a][i] \in Values(CellsOn(a, R)) /\ Honest(x[a][i])
         /\ a \in T => \A i \in 1..Len(a) : x[a][i] # NaN
BY DEF Good, Typed, Tame

(* Column z is made of x and y row by row.                                  *)
Pairwise(z, x, y, R, T) ==
  /\ \A a \in Histories : z[a] = [i \in 1..Len(a) |-> z[a][i]]
  /\ \A a \in Histories : \A i \in 1..Len(a) :
       Strictly(z[a][i], {x[a][i], y[a][i]}, CellsOn(a, R))
  /\ \A a, b \in Histories : \A i \in 1..Len(a), j \in 1..Len(b) :
       x[a][i] = x[b][j] /\ y[a][i] = y[b][j] => z[a][i] = z[b][j]
  /\ \A a \in T : \A i \in 1..Len(a) :
       NaN \notin {x[a][i], y[a][i]} => z[a][i] # NaN

(* Then z is as good as they are, with the longer of their memories. *)
LEMMA RowByRow ==
  ASSUME NEW R, NEW T, T \subseteq Histories,
         NEW m \in Nat \ {0}, NEW n \in Nat \ {0}, NEW h \in Nat, m <= h, n <= h,
         h = m \/ h = n,
         NEW x, Good(x, m, R, T), NEW y, Good(y, n, R, T), NEW z, Pairwise(z, x, y, R, T)
  PROVE  Good(z, h, R, T)
<1> PICK K : K = {0}
  OBVIOUS
<1>1. K \in SUBSET (0..(1 - 1)) /\ 1 - 1 \in K /\ 1 \in Nat \ {0}
  OBVIOUS
<1>2. \A a \in Histories : \A i \in 1..Len(a) : Operands(x, y, K, a, i) = {x[a][i], y[a][i]}
  <2> SUFFICES ASSUME NEW a \in Histories, NEW i \in 1..Len(a)
               PROVE  Operands(x, y, K, a, i) = {x[a][i], y[a][i]}
    OBVIOUS
  <2>1. i - 0 = i
    BY HistoryIsFrame
  <2> QED BY <2>1 DEF Operands
<1>3. ASSUME NEW a \in Histories, NEW i \in 1..Len(a)
      PROVE  /\ ~ (i < 1)
             /\ Strictly(z[a][i], Operands(x, y, K, a, i), CellsOn(a, R))
             /\ a \in T => (NaN \notin Operands(x, y, K, a, i) => z[a][i] # NaN)
  <2>1. Operands(x, y, K, a, i) = {x[a][i], y[a][i]} /\ ~ (i < 1)
    BY <1>2, HistoryIsFrame
  <2>2. Strictly(z[a][i], {x[a][i], y[a][i]}, CellsOn(a, R))
    BY DEF Pairwise
  <2>3. a \in T => (NaN \notin {x[a][i], y[a][i]} => z[a][i] # NaN)
    BY DEF Pairwise
  <2> QED BY <2>1, <2>2, <2>3
<1>4. ASSUME NEW a \in Histories, NEW b \in Histories, NEW i \in 1..Len(a), NEW j \in 1..Len(b),
             \A k \in K : x[a][i - k] = x[b][j - k] /\ y[a][i - k] = y[b][j - k]
      PROVE  z[a][i] = z[b][j]
  <2>1. i - 0 = i /\ j - 0 = j /\ 0 \in K
    BY HistoryIsFrame
  <2>2. x[a][i] = x[b][j] /\ y[a][i] = y[b][j]
    BY <2>1, <1>4
  <2> QED BY <2>2 DEF Pairwise
<1>5. Assembly(z, x, y, 1, K, R, T)
  <2>1. \A a \in Histories : z[a] = [i \in 1..Len(a) |-> z[a][i]]
    BY DEF Pairwise
  <2>2. \A a \in Histories : \A i \in 1..Len(a) :
          /\ i < 1 => z[a][i] = NaV
          /\ i >= 1 => Strictly(z[a][i], Operands(x, y, K, a, i), CellsOn(a, R))
    BY <1>3
  <2>3. \A a, b \in Histories : \A i \in 1..Len(a), j \in 1..Len(b) :
          (\A k \in K : x[a][i - k] = x[b][j - k] /\ y[a][i - k] = y[b][j - k])
            => z[a][i] = z[b][j]
    BY <1>4
  <2>4. \A a \in T : \A i \in 1..Len(a) :
          NaN \notin Operands(x, y, K, a, i) => z[a][i] # NaN
    BY <1>3
  <2> QED BY <2>1, <2>2, <2>3, <2>4 DEF Assembly
<1>6. Good(z, h + 1 - 1, R, T)
  BY <1>1, <1>5, Assembled
<1>7. h + 1 - 1 = h
  OBVIOUS
<1> QED BY <1>6, <1>7

(* So the unary and the binary operations are good, and safe_div.           *)
LEMMA UnaryGood ==
  ASSUME NEW R, NEW T, T \subseteq Histories, NEW n \in Nat \ {0}, NEW x, Good(x, n, R, T),
         NEW op \in UnaryOps
  PROVE  Good(Unary(op, x), n, R, T)
<1> PICK z : z = Unary(op, x)
  OBVIOUS
<1>1. ASSUME NEW a \in Histories
      PROVE  z[a] = [i \in 1..Len(a) |-> UnaryValue(op, x[a][i])]
  BY UnaryRows, HistoryIsFrame
<1>2. \A a \in Histories : z[a] = [i \in 1..Len(a) |-> z[a][i]]
  BY <1>1
<1>3. \A a \in Histories : \A i \in 1..Len(a) : z[a][i] = UnaryValue(op, x[a][i])
  BY <1>1
<1>4. ASSUME NEW a \in Histories, NEW i \in 1..Len(a)
      PROVE  Obeys(z[a][i], {x[a][i], x[a][i]}, CellsOn(a, R))
  <2> PICK v : v = x[a][i]
    OBVIOUS
  <2>1. v \in Values(CellsOn(a, R)) /\ z[a][i] = Strict({v}, UnaryOf(op, v))
    BY <1>3, GoodRows DEF UnaryValue
  <2>2. {x[a][i], x[a][i]} = {v}
    OBVIOUS
  <2> QED BY <2>1, <2>2, UnaryRow
<1>5. Pairwise(z, x, x, R, T)
  <2>1. \A a \in Histories : \A i \in 1..Len(a) :
          Strictly(z[a][i], {x[a][i], x[a][i]}, CellsOn(a, R))
    BY <1>4 DEF Obeys
  <2>2. \A a \in T : \A i \in 1..Len(a) :
          NaN \notin {x[a][i], x[a][i]} => z[a][i] # NaN
    BY <1>4 DEF Obeys
  <2>3. \A a, b \in Histories : \A i \in 1..Len(a), j \in 1..Len(b) :
          x[a][i] = x[b][j] /\ x[a][i] = x[b][j] => z[a][i] = z[b][j]
    BY <1>3
  <2> QED BY <1>2, <2>1, <2>2, <2>3 DEF Pairwise
<1>6. Good(z, n, R, T)
  BY <1>5, RowByRow
<1> QED BY <1>6

(* So is an arithmetic operation of two good columns. *)
LEMMA BinaryGood ==
  ASSUME NEW R, NEW T, T \subseteq Histories,
         NEW m \in Nat \ {0}, NEW n \in Nat \ {0}, NEW h \in Nat, m <= h, n <= h,
         h = m \/ h = n,
         NEW x, Good(x, m, R, T), NEW y, Good(y, n, R, T), NEW op \in Arithmetic
  PROVE  Good(Binary(op, x, y), h, R, T)
<1> PICK z : z = Binary(op, x, y)
  OBVIOUS
<1>1. ASSUME NEW a \in Histories
      PROVE  z[a] = [i \in 1..Len(a) |-> BinaryOf(op, x[a][i], y[a][i])]
  BY BinaryRows, HistoryIsFrame
<1>2. \A a \in Histories : z[a] = [i \in 1..Len(a) |-> z[a][i]]
  BY <1>1
<1>3. \A a \in Histories : \A i \in 1..Len(a) : z[a][i] = BinaryOf(op, x[a][i], y[a][i])
  BY <1>1
<1>4. ASSUME NEW a \in Histories, NEW i \in 1..Len(a)
      PROVE  Obeys(z[a][i], {x[a][i], y[a][i]}, CellsOn(a, R))
  <2> PICK u, v : u = x[a][i] /\ v = y[a][i]
    OBVIOUS
  <2>1. u \in Values(CellsOn(a, R)) /\ v \in Values(CellsOn(a, R))
    BY GoodRows
  <2>2. Obeys(BinaryOf(op, u, v), {u, v}, CellsOn(a, R))
    BY <2>1, ArithmeticRow
  <2> QED BY <2>2, <1>3
<1>5. Pairwise(z, x, y, R, T)
  <2>1. \A a \in Histories : \A i \in 1..Len(a) :
          Strictly(z[a][i], {x[a][i], y[a][i]}, CellsOn(a, R))
    BY <1>4 DEF Obeys
  <2>2. \A a \in T : \A i \in 1..Len(a) :
          NaN \notin {x[a][i], y[a][i]} => z[a][i] # NaN
    BY <1>4 DEF Obeys
  <2>3. \A a, b \in Histories : \A i \in 1..Len(a), j \in 1..Len(b) :
          x[a][i] = x[b][j] /\ y[a][i] = y[b][j] => z[a][i] = z[b][j]
    BY <1>3
  <2> QED BY <1>2, <2>1, <2>2, <2>3 DEF Pairwise
<1>6. Good(z, h, R, T)
  BY <1>5, RowByRow
<1> QED BY <1>6

(* And a comparison. *)
LEMMA ComparisonGood ==
  ASSUME NEW R, NEW T, T \subseteq Histories,
         NEW m \in Nat \ {0}, NEW n \in Nat \ {0}, NEW h \in Nat, m <= h, n <= h,
         h = m \/ h = n,
         NEW x, Good(x, m, R, T), NEW y, Good(y, n, R, T), NEW op \in Comparisons
  PROVE  Good(Comparison(op, x, y), h, R, T)
<1> PICK z : z = Comparison(op, x, y)
  OBVIOUS
<1>1. ASSUME NEW a \in Histories
      PROVE  z[a] = [i \in 1..Len(a) |-> Compared(op, x[a][i], y[a][i])]
  BY ComparisonRows, HistoryIsFrame
<1>2. \A a \in Histories : z[a] = [i \in 1..Len(a) |-> z[a][i]]
  BY <1>1
<1>3. \A a \in Histories : \A i \in 1..Len(a) : z[a][i] = Compared(op, x[a][i], y[a][i])
  BY <1>1
<1>4. ASSUME NEW a \in Histories, NEW i \in 1..Len(a)
      PROVE  Obeys(z[a][i], {x[a][i], y[a][i]}, CellsOn(a, R))
  <2> PICK u, v : u = x[a][i] /\ v = y[a][i]
    OBVIOUS
  <2>1. u \in Values(CellsOn(a, R)) /\ v \in Values(CellsOn(a, R))
    BY GoodRows
  <2>2. Obeys(Compared(op, u, v), {u, v}, CellsOn(a, R))
    BY <2>1, ComparisonRow
  <2> QED BY <2>2, <1>3
<1>5. Pairwise(z, x, y, R, T)
  <2>1. \A a \in Histories : \A i \in 1..Len(a) :
          Strictly(z[a][i], {x[a][i], y[a][i]}, CellsOn(a, R))
    BY <1>4 DEF Obeys
  <2>2. \A a \in T : \A i \in 1..Len(a) :
          NaN \notin {x[a][i], y[a][i]} => z[a][i] # NaN
    BY <1>4 DEF Obeys
  <2>3. \A a, b \in Histories : \A i \in 1..Len(a), j \in 1..Len(b) :
          x[a][i] = x[b][j] /\ y[a][i] = y[b][j] => z[a][i] = z[b][j]
    BY <1>3
  <2> QED BY <1>2, <2>1, <2>2, <2>3 DEF Pairwise
<1>6. Good(z, h, R, T)
  BY <1>5, RowByRow
<1> QED BY <1>6

(* A divisor that is not zero on the histories of T.                        *)
Divides(y, R, T) ==
  \A a \in T : \A i \in 1..Len(a) : y[a][i] \in Numbers(CellsOn(a, R)) => y[a][i].lvl # 0

(* So is a bare quotient of one that divides. *)
LEMMA OverGood ==
  ASSUME NEW R, NEW T, T \subseteq Histories,
         NEW m \in Nat \ {0}, NEW n \in Nat \ {0}, NEW h \in Nat, m <= h, n <= h,
         h = m \/ h = n,
         NEW x, Good(x, m, R, T), NEW y, Good(y, n, R, T), Divides(y, R, T)
  PROVE  Good(Over(x, y), h, R, T)
<1> PICK z : z = Over(x, y)
  OBVIOUS
<1>1. ASSUME NEW a \in Histories
      PROVE  z[a] = [i \in 1..Len(a) |-> BinaryOf("over", x[a][i], y[a][i])]
  BY BinaryRows, HistoryIsFrame DEF Over
<1>2. \A a \in Histories : z[a] = [i \in 1..Len(a) |-> z[a][i]]
  BY <1>1
<1>3. \A a \in Histories : \A i \in 1..Len(a) : z[a][i] = BinaryOf("over", x[a][i], y[a][i])
  BY <1>1
<1>4. ASSUME NEW a \in Histories, NEW i \in 1..Len(a)
      PROVE  /\ Strictly(z[a][i], {x[a][i], y[a][i]}, CellsOn(a, R))
             /\ a \in T => Obeys(z[a][i], {x[a][i], y[a][i]}, CellsOn(a, R))
  <2> PICK u, v : u = x[a][i] /\ v = y[a][i]
    OBVIOUS
  <2>1. u \in Values(CellsOn(a, R)) /\ v \in Values(CellsOn(a, R))
    BY GoodRows
  <2>2. /\ Strictly(BinaryOf("over", u, v), {u, v}, CellsOn(a, R))
        /\ (v \in Numbers(CellsOn(a, R)) => v.lvl # 0)
             => Obeys(BinaryOf("over", u, v), {u, v}, CellsOn(a, R))
    BY <2>1, QuotientRow
  <2>3. a \in T => (v \in Numbers(CellsOn(a, R)) => v.lvl # 0)
    BY DEF Divides
  <2>4. Strictly(z[a][i], {x[a][i], y[a][i]}, CellsOn(a, R))
    BY <2>2, <1>3
  <2>5. a \in T => Obeys(z[a][i], {x[a][i], y[a][i]}, CellsOn(a, R))
    BY <2>2, <2>3, <1>3
  <2> QED BY <2>4, <2>5
<1>5. Pairwise(z, x, y, R, T)
  <2>1. \A a \in Histories : \A i \in 1..Len(a) :
          Strictly(z[a][i], {x[a][i], y[a][i]}, CellsOn(a, R))
    BY <1>4
  <2>2. \A a \in T : \A i \in 1..Len(a) :
          NaN \notin {x[a][i], y[a][i]} => z[a][i] # NaN
    BY <1>4 DEF Obeys
  <2>3. \A a, b \in Histories : \A i \in 1..Len(a), j \in 1..Len(b) :
          x[a][i] = x[b][j] /\ y[a][i] = y[b][j] => z[a][i] = z[b][j]
    BY <1>3
  <2> QED BY <1>2, <2>1, <2>2, <2>3 DEF Pairwise
<1>6. Good(z, h, R, T)
  BY <1>5, RowByRow
<1> QED BY <1>6

(* The rows of a guarded division. *)
LEMMA SafeDivRows ==
  ASSUME NEW x, NEW y, NEW a \in Histories
  PROVE  safe_div(x, y)[a] = [i \in 1..Len(a) |-> SafeQuotient(x[a][i], y[a][i])]
<1> PICK z : z = safe_div(x, y)
  OBVIOUS
<1>0. a \in Frames
  BY HistoryIsFrame
<1>1. \A i \in 1..Len(a) : Zero[a][i] = Literal(0) /\ None[a][i] = NaV
  <2>1. Zero[a] = [i \in 1..Len(a) |-> Literal(0)]
    BY <1>0, LitRows DEF Zero
  <2>2. None[a] = [i \in 1..Len(a) |-> NaV]
    BY <1>0, ConstantRows DEF None
  <2> QED BY <2>1, <2>2
<1>2. \A i \in 1..Len(a) : Equal(y, Zero)[a][i] = Compared("equal", y[a][i], Literal(0))
  <2>1. Equal(y, Zero)[a] = [i \in 1..Len(a) |-> Compared("equal", y[a][i], Zero[a][i])]
    BY <1>0, ComparisonRows DEF Equal
  <2> QED BY <2>1, <1>1
<1>3. \A i \in 1..Len(a) : Over(x, y)[a][i] = BinaryOf("over", x[a][i], y[a][i])
  <2>1. Over(x, y)[a] = [i \in 1..Len(a) |-> BinaryOf("over", x[a][i], y[a][i])]
    BY <1>0, BinaryRows DEF Over
  <2> QED BY <2>1
<1>4. z[a] = [i \in 1..Len(a) |-> Chosen(Equal(y, Zero)[a][i], None[a][i], Over(x, y)[a][i])]
  BY <1>0, WhenRows DEF safe_div
<1> QED BY <1>1, <1>2, <1>3, <1>4 DEF SafeQuotient

(* So is a guarded quotient, whatever divides. *)
LEMMA SafeDivGood ==
  ASSUME NEW R, NEW T, T \subseteq Histories,
         NEW m \in Nat \ {0}, NEW n \in Nat \ {0}, NEW h \in Nat, m <= h, n <= h,
         h = m \/ h = n,
         NEW x, Good(x, m, R, T), NEW y, Good(y, n, R, T)
  PROVE  Good(safe_div(x, y), h, R, T)
<1> PICK z : z = safe_div(x, y)
  OBVIOUS
<1>1. ASSUME NEW a \in Histories
      PROVE  z[a] = [i \in 1..Len(a) |-> SafeQuotient(x[a][i], y[a][i])]
  <2>1. safe_div(x, y)[a] = [i \in 1..Len(a) |-> SafeQuotient(x[a][i], y[a][i])]
    BY ONLY <1>1, SafeDivRows
  <2> QED BY ONLY <2>1, z = safe_div(x, y)
<1>2. \A a \in Histories : z[a] = [i \in 1..Len(a) |-> z[a][i]]
  BY <1>1
<1>3. \A a \in Histories : \A i \in 1..Len(a) : z[a][i] = SafeQuotient(x[a][i], y[a][i])
  BY <1>1
<1>4. ASSUME NEW a \in Histories, NEW i \in 1..Len(a)
      PROVE  Obeys(z[a][i], {x[a][i], y[a][i]}, CellsOn(a, R))
  <2> PICK u, v : u = x[a][i] /\ v = y[a][i]
    OBVIOUS
  <2>1. u \in Values(CellsOn(a, R)) /\ v \in Values(CellsOn(a, R))
    BY GoodRows
  <2>2. Obeys(SafeQuotient(u, v), {u, v}, CellsOn(a, R))
    BY <2>1, SafeDivRow
  <2> QED BY <2>2, <1>3
<1>5. Pairwise(z, x, y, R, T)
  <2>1. \A a \in Histories : \A i \in 1..Len(a) :
          Strictly(z[a][i], {x[a][i], y[a][i]}, CellsOn(a, R))
    BY <1>4 DEF Obeys
  <2>2. \A a \in T : \A i \in 1..Len(a) :
          NaN \notin {x[a][i], y[a][i]} => z[a][i] # NaN
    BY <1>4 DEF Obeys
  <2>3. \A a, b \in Histories : \A i \in 1..Len(a), j \in 1..Len(b) :
          x[a][i] = x[b][j] /\ y[a][i] = y[b][j] => z[a][i] = z[b][j]
    BY <1>3
  <2> QED BY <1>2, <2>1, <2>2, <2>3 DEF Pairwise
<1>6. Good(z, h, R, T)
  BY <1>5, RowByRow
<1> QED BY <1>6

-----------------------------------------------------------------------------
(* What is read off a cell. *)
LEMMA CellValue ==
  ASSUME NEW C, NEW bar \in Bars, NEW r \in Roles, <<bar.sym, bar.t, r>> \in C
  PROVE  /\ Missing(bar) => Cell(bar, r) = NaV
         /\ Whole(bar) => Cell(bar, r) \in Numbers(C) /\ Cell(bar, r).lvl = bar.cells[r]
         /\ Cell(bar, r) \in Values(C) /\ Honest(Cell(bar, r)) /\ Cell(bar, r) # NaN
<1>1. bar.cells[r] \in Nat \cup {Null}
  BY DEF Bars
<1>2. CASE bar.cells[r] = Null
  <2>1. Cell(bar, r) = NaV
    BY <1>2 DEF Cell
  <2>2. ~ Whole(bar)
    BY <1>2 DEF Whole
  <2> QED BY <2>1, <2>2, NotNumbers, Literals
<1>3. CASE bar.cells[r] # Null
  <2>1. Cell(bar, r) \in Numbers(C) /\ Honest(Cell(bar, r)) /\ Cell(bar, r).lvl = bar.cells[r]
    BY <1>1, <1>3 DEF Cell, Number, Numbers, Honest, Null
  <2>2. ~ Missing(bar)
    BY <1>3 DEF Missing
  <2> QED BY <2>1, <2>2, NotNumbers
<1> QED BY <1>2, <1>3

(* A column of a declared role remembers one bar. *)
LEMMA ColGood ==
  ASSUME NEW R \in SUBSET Roles, NEW T, T \subseteq Histories, NEW r \in R
  PROVE  Good(Col(r), 1, R, T)
<1> PICK x : x = Col(r)
  OBVIOUS
<1>0. ASSUME NEW a \in Histories
      PROVE  x[a] = [i \in 1..Len(a) |-> Cell(a[i], r)]
  BY ColRows, HistoryIsFrame
<1>1. ASSUME NEW a \in Histories, NEW i \in 1..Len(a)
      PROVE  x[a][i] = Cell(a[i], r)
  BY <1>0
<1>2. ASSUME NEW a \in Histories, NEW i \in 1..Len(a)
      PROVE  /\ x[a][i] \in Values(CellsOn(a, R)) /\ Honest(x[a][i]) /\ x[a][i] # NaN
             /\ Missing(a[i]) => x[a][i] = NaV
  <2> PICK bar : bar = a[i]
    OBVIOUS
  <2> PICK C : C = CellsOn(a, R)
    OBVIOUS
  <2>1. bar \in Bars /\ i \in DOMAIN a /\ r \in Roles
    BY HistoryIsFrame
  <2>2. <<bar.sym, bar.t, r>> \in C
    BY <2>1 DEF CellsOn
  <2>3. /\ Missing(bar) => Cell(bar, r) = NaV
        /\ Cell(bar, r) \in Values(C) /\ Honest(Cell(bar, r)) /\ Cell(bar, r) # NaN
    BY ONLY <2>1, <2>2, CellValue
  <2> QED BY <2>3, <1>1
<1>3. Typed(x, R)
  BY <1>0, <1>2 DEF Typed
<1>4. Late(x, 1)
  BY HistoryIsFrame DEF Late
<1>5. Local(x, 1)
  <2> SUFFICES ASSUME NEW a \in Histories, NEW b \in Histories, NEW i \in 1..Len(a),
       NEW j \in 1..Len(b),
                      Alike(a, i, b, j, 1)
               PROVE  x[a][i] = x[b][j]
    BY DEF Local
  <2>1. 0 \in 0..(1 - 1) /\ 0 < i /\ 0 < j /\ i - 0 = i /\ j - 0 = j
    BY HistoryIsFrame
  <2>2. a[i] = b[j]
    BY <2>1 DEF Alike
  <2> QED BY <2>2, <1>1
<1>6. Settled(x)
  <2> SUFFICES ASSUME NEW a \in Histories, NEW b \in Histories, Fills(a, b), NEW i \in 1..Len(a),
                      x[a][i] # NaV
               PROVE  x[b][i] = x[a][i]
    BY DEF Settled
  <2>1. ~ Missing(a[i]) /\ i \in 1..Len(b)
    BY <1>2 DEF Fills
  <2>2. b[i] = a[i]
    BY <2>1 DEF Fills
  <2> QED BY <1>1, <2>1, <2>2
<1>7. Tame(x, T)
  BY <1>2 DEF Tame
<1> QED BY <1>3, <1>4, <1>5, <1>6, <1>7 DEF Good

(* A column of one value, which is no NaN and guesses nothing. *)
LEMMA ConstantGood ==
  ASSUME NEW R, NEW T, T \subseteq Histories, NEW v, NEW x,
         \A C : v \in Values(C), Honest(v), v # NaN,
         \A a \in Histories : x[a] = [i \in 1..Len(a) |-> v]
  PROVE  Good(x, 1, R, T)
<1>1. ASSUME NEW a \in Histories, NEW i \in 1..Len(a) PROVE x[a][i] = v
  OBVIOUS
<1>2. Typed(x, R)
  BY DEF Typed
<1>3. Late(x, 1)
  BY HistoryIsFrame DEF Late
<1>4. Local(x, 1)
  BY <1>1 DEF Local
<1>5. Settled(x)
  <2> SUFFICES ASSUME NEW a \in Histories, NEW b \in Histories, Fills(a, b), NEW i \in 1..Len(a)
               PROVE  x[b][i] = x[a][i]
    BY DEF Settled
  <2>1. i \in 1..Len(b)
    BY DEF Fills
  <2> QED BY <1>1, <2>1
<1>6. Tame(x, T)
  BY <1>1 DEF Tame
<1> QED BY <1>2, <1>3, <1>4, <1>5, <1>6 DEF Good

(* A literal is one. *)
LEMMA LitGood ==
  ASSUME NEW R, NEW T, T \subseteq Histories, NEW l \in Int
  PROVE  Good(Lit(l), 1, R, T)
<1> PICK v : v = Literal(l)
  OBVIOUS
<1> PICK x : x = Lit(l)
  OBVIOUS
<1>1. \A C : v \in Values(C) /\ v # NaN
  BY Literals, NotNumbers
<1>2. Honest(v)
  BY Literals
<1>3. ASSUME NEW a \in Histories PROVE x[a] = [i \in 1..Len(a) |-> v]
  <2>1. a \in Frames
    BY HistoryIsFrame
  <2>2. Lit(l)[a] = [i \in 1..Len(a) |-> Literal(l)]
    BY <2>1, LitRows
  <2> QED BY <2>2
<1>4. \A C : v \in Values(C)
  BY <1>1
<1>5. v # NaN
  BY <1>1
<1>6. Good(x, 1, R, T)
  BY <1>2, <1>3, <1>4, <1>5, ConstantGood
<1> QED BY <1>6

(* A lag. *)
LEMMA ShiftGood ==
  ASSUME NEW R, NEW T, T \subseteq Histories, NEW n \in Nat \ {0}, NEW x, Good(x, n, R, T),
         NEW s \in Nat
  PROVE  Good(Shift(x, s), n + s, R, T)
<1> PICK z : z = Shift(x, s)
  OBVIOUS
<1> PICK K : K = {s}
  OBVIOUS
<1>0. ASSUME NEW a \in Histories
      PROVE  z[a] = [i \in 1..Len(a) |-> IF i - s \in 1..Len(a) THEN x[a][i - s] ELSE NaV]
  BY ShiftRows, HistoryIsFrame
<1>1. ASSUME NEW a \in Histories, NEW i \in 1..Len(a)
      PROVE  /\ i < s + 1 => z[a][i] = NaV
             /\ i >= s + 1 => z[a][i] = x[a][i - s] /\ i - s \in 1..Len(a)
  <2>1. Len(a) \in Nat
    BY HistoryIsFrame
  <2>2. /\ i < s + 1 => i - s \notin 1..Len(a)
        /\ i >= s + 1 => i - s \in 1..Len(a)
    BY <2>1
  <2>3. z[a][i] = IF i - s \in 1..Len(a) THEN x[a][i - s] ELSE NaV
    BY <1>0
  <2> QED BY <2>2, <2>3
<1>a. ASSUME NEW a \in Histories, NEW i \in (s + 1)..Len(a)
      PROVE  z[a][i] = x[a][i - s] /\ i - s \in 1..Len(a)
  <2>1. Len(a) \in Nat
    BY HistoryIsFrame
  <2>2. i \in 1..Len(a) /\ i >= s + 1
    BY <2>1
  <2> QED BY <1>1, <2>2
<1>2. K \in SUBSET (0..(s + 1 - 1)) /\ s + 1 - 1 \in K /\ s + 1 \in Nat \ {0}
  OBVIOUS
<1>3. \A a \in Histories : \A i \in 1..Len(a) : Operands(x, x, K, a, i) = {x[a][i - s]}
  BY DEF Operands
<1>4. Assembly(z, x, x, s + 1, K, R, T)
  <2>1. \A a \in Histories : z[a] = [i \in 1..Len(a) |-> z[a][i]]
    BY <1>0
  <2>2. ASSUME NEW a \in Histories, NEW i \in 1..Len(a), i >= s + 1
        PROVE  Strictly(z[a][i], Operands(x, x, K, a, i), CellsOn(a, R))
    <3> PICK v : v = x[a][i - s]
      OBVIOUS
    <3>1. v \in Values(CellsOn(a, R)) /\ z[a][i] = v /\ Operands(x, x, K, a, i) = {v}
      BY <2>2, <1>1, <1>3, GoodRows
    <3>2. Strictly(v, {v}, CellsOn(a, R))
      BY <3>1 DEF Strictly
    <3> QED BY <3>1, <3>2
  <2>3. \A a, b \in Histories : \A i \in (s + 1)..Len(a), j \in (s + 1)..Len(b) :
          (\A k \in K : x[a][i - k] = x[b][j - k] /\ x[a][i - k] = x[b][j - k])
            => z[a][i] = z[b][j]
    BY <1>a
  <2>4. \A a \in T : \A i \in (s + 1)..Len(a) :
          NaN \notin Operands(x, x, K, a, i) => z[a][i] # NaN
    BY <1>a DEF Operands
  <2> QED BY <1>1, <2>1, <2>2, <2>3, <2>4 DEF Assembly
<1>5. Good(z, n + (s + 1) - 1, R, T)
  BY <1>2, <1>4, Assembled
<1>6. n + (s + 1) - 1 = n + s
  OBVIOUS
<1> QED BY <1>5, <1>6

(* The rows of a window, counted back from the last.                        *)
Back(c, w, i) == {c[i - k] : k \in 0..(w - 1)}

(* They are the rows of a window. *)
LEMMA WindowBack ==
  ASSUME NEW c, NEW w \in Nat \ {0}, NEW i \in Nat
  PROVE  Window(c, w, i) = Back(c, w, i)
<1>1. ASSUME NEW j \in (i - w + 1)..i
      PROVE  \E k \in 0..(w - 1) : c[j] = c[i - k]
  <2>1. i - j \in 0..(w - 1) /\ i - (i - j) = j
    OBVIOUS
  <2> QED BY <2>1
<1>2. ASSUME NEW k \in 0..(w - 1)
      PROVE  \E j \in (i - w + 1)..i : c[i - k] = c[j]
  <2>1. i - k \in (i - w + 1)..i
    OBVIOUS
  <2> QED BY <2>1
<1> QED BY <1>1, <1>2 DEF Window, Back

(* A rolling operation.  A moment may be NaN.                               *)
RolledOver(how, vs) == Strict(vs, WindowOf(how, vs))

(* It remembers w - 1 rows more than its operand; the moment of a flat      *)
(* window is NaN, and so is good where no NaN is asked about.               *)
LEMMA RollingGood ==
  ASSUME NEW R, NEW T, T \subseteq Histories, NEW n \in Nat \ {0}, NEW x, Good(x, n, R, T),
         NEW w \in Nat \ {0}, NEW how \in RollingOps, how # "moment" \/ T = {}
  PROVE  Good(Rolling(how, x, w), n + w - 1, R, T)
<1> PICK z : z = Rolling(how, x, w)
  OBVIOUS
<1> PICK K : K = 0..(w - 1)
  OBVIOUS
<1>0. ASSUME NEW a \in Histories
      PROVE  z[a] = [i \in 1..Len(a) |-> Rolled(how, x[a], w, i)]
  BY RollingRows, HistoryIsFrame
<1>1. ASSUME NEW a \in Histories, NEW i \in 1..Len(a)
      PROVE  z[a][i] = Rolled(how, x[a], w, i)
  BY <1>0
<1>2. K \in SUBSET (0..(w - 1)) /\ w - 1 \in K
  OBVIOUS
<1>3. ASSUME NEW a \in Histories, NEW i \in 1..Len(a)
      PROVE  Operands(x, x, K, a, i) = Window(x[a], w, i)
  <2>1. i \in Nat
    BY HistoryIsFrame
  <2>2. Window(x[a], w, i) = Back(x[a], w, i)
    BY <2>1, WindowBack
  <2> QED BY <2>2 DEF Operands, Back
<1>4. ASSUME NEW a \in Histories, NEW i \in 1..Len(a)
      PROVE  /\ i < w => Rolled(how, x[a], w, i) = NaV
             /\ i >= w =>
                  /\ Strictly(Rolled(how, x[a], w, i), Window(x[a], w, i), CellsOn(a, R))
                  /\ how # "moment" =>
                       Obeys(Rolled(how, x[a], w, i), Window(x[a], w, i), CellsOn(a, R))
  <2>1. x[a] \in [1..Len(a) -> Values(CellsOn(a, R))] /\ Len(a) \in Nat
    BY GoodRows, HistoryIsFrame
  <2> QED BY <2>1, RolledRow
<1>5. Assembly(z, x, x, w, K, R, T)
  <2>1. \A a \in Histories : z[a] = [i \in 1..Len(a) |-> z[a][i]]
    BY <1>0
  <2>2. ASSUME NEW a \in Histories, NEW i \in 1..Len(a), i < w
        PROVE  z[a][i] = NaV
    BY <2>2, <1>1, <1>4
  <2>3. ASSUME NEW a \in Histories, NEW i \in 1..Len(a), i >= w
        PROVE  Strictly(z[a][i], Operands(x, x, K, a, i), CellsOn(a, R))
    BY <2>3, <1>1, <1>3, <1>4
  <2>4. ASSUME NEW a \in Histories, NEW b \in Histories, NEW i \in w..Len(a), NEW j \in w..Len(b),
               \A k \in K : x[a][i - k] = x[b][j - k] /\ x[a][i - k] = x[b][j - k]
        PROVE  z[a][i] = z[b][j]
    <3>1. i \in 1..Len(a) /\ j \in 1..Len(b) /\ ~ (i < w) /\ ~ (j < w)
      BY HistoryIsFrame
    <3>2. Operands(x, x, K, a, i) = Operands(x, x, K, b, j)
      BY <2>4 DEF Operands
    <3>3. Window(x[a], w, i) = Window(x[b], w, j)
      BY <3>1, <3>2, <1>3
    <3>4. z[a][i] = RolledOver(how, Window(x[a], w, i)) /\ z[b][j] = RolledOver(how, Window(x[b], w, j))
      BY <3>1, <1>1 DEF Rolled, RolledOver, Window
    <3> QED BY <3>3, <3>4
  <2>5. ASSUME NEW a \in T, NEW i \in w..Len(a), NaN \notin Operands(x, x, K, a, i)
        PROVE  z[a][i] # NaN
    <3>1. a \in Histories /\ i \in 1..Len(a) /\ i >= w /\ how # "moment"
      BY HistoryIsFrame
    <3> QED BY <3>1, <2>5, <1>1, <1>3, <1>4 DEF Obeys
  <2> QED BY <2>1, <2>2, <2>3, <2>4, <2>5 DEF Assembly
<1>6. Good(z, n + w - 1, R, T)
  BY <1>2, <1>5, Assembled
<1> QED BY <1>6

(* A covariance.                                                            *)
CovarianceOf(xs, ys) ==
  Strict(xs \cup ys, From(xs \cup ys, IF Flat(xs) \/ Flat(ys) THEN 0 ELSE 1, 1))

(* It remembers w - 1 rows more than the longer of its operands. *)
LEMMA CovGood ==
  ASSUME NEW R, NEW T, T \subseteq Histories,
         NEW m \in Nat \ {0}, NEW n \in Nat \ {0}, NEW h \in Nat, m <= h, n <= h,
         h = m \/ h = n,
         NEW x, Good(x, m, R, T), NEW y, Good(y, n, R, T), NEW w \in Nat \ {0}
  PROVE  Good(Cov(x, y, w), h + w - 1, R, T)
<1> PICK z : z = Cov(x, y, w)
  OBVIOUS
<1> PICK K : K = 0..(w - 1)
  OBVIOUS
<1>0. ASSUME NEW a \in Histories
      PROVE  z[a] = [i \in 1..Len(a) |-> Covariance(x[a], y[a], w, i)]
  BY CovRows, HistoryIsFrame
<1>1. ASSUME NEW a \in Histories, NEW i \in 1..Len(a)
      PROVE  z[a][i] = Covariance(x[a], y[a], w, i)
  BY <1>0
<1>2. K \in SUBSET (0..(w - 1)) /\ w - 1 \in K
  OBVIOUS
<1>3. ASSUME NEW a \in Histories, NEW i \in 1..Len(a)
      PROVE  /\ Operands(x, y, K, a, i) = Window(x[a], w, i) \cup Window(y[a], w, i)
             /\ Window(x[a], w, i) = Back(x[a], w, i)
             /\ Window(y[a], w, i) = Back(y[a], w, i)
  <2>1. i \in Nat
    BY HistoryIsFrame
  <2>2. Window(x[a], w, i) = Back(x[a], w, i) /\ Window(y[a], w, i) = Back(y[a], w, i)
    BY <2>1, WindowBack
  <2> QED BY <2>2 DEF Operands, Back
<1>4. ASSUME NEW a \in Histories, NEW i \in 1..Len(a)
      PROVE  /\ i < w => Covariance(x[a], y[a], w, i) = NaV
             /\ i >= w => Obeys(Covariance(x[a], y[a], w, i),
                                Window(x[a], w, i) \cup Window(y[a], w, i), CellsOn(a, R))
  <2>1. /\ x[a] \in [1..Len(a) -> Values(CellsOn(a, R))] /\ Len(a) \in Nat
        /\ y[a] \in [1..Len(a) -> Values(CellsOn(a, R))]
    BY GoodRows, HistoryIsFrame
  <2> QED BY <2>1, CovarianceRow
<1>5. Assembly(z, x, y, w, K, R, T)
  <2>1. \A a \in Histories : z[a] = [i \in 1..Len(a) |-> z[a][i]]
    BY <1>0
  <2>2. ASSUME NEW a \in Histories, NEW i \in 1..Len(a), i < w
        PROVE  z[a][i] = NaV
    BY <2>2, <1>1, <1>4
  <2>3. ASSUME NEW a \in Histories, NEW i \in 1..Len(a), i >= w
        PROVE  Strictly(z[a][i], Operands(x, y, K, a, i), CellsOn(a, R))
    BY <2>3, <1>1, <1>3, <1>4 DEF Obeys
  <2>4. ASSUME NEW a \in Histories, NEW b \in Histories, NEW i \in w..Len(a), NEW j \in w..Len(b),
               \A k \in K : x[a][i - k] = x[b][j - k] /\ y[a][i - k] = y[b][j - k]
        PROVE  z[a][i] = z[b][j]
    <3>1. i \in 1..Len(a) /\ j \in 1..Len(b) /\ ~ (i < w) /\ ~ (j < w)
      BY HistoryIsFrame
    <3>2. Back(x[a], w, i) = Back(x[b], w, j) /\ Back(y[a], w, i) = Back(y[b], w, j)
      BY <2>4 DEF Back
    <3>3. Window(x[a], w, i) = Window(x[b], w, j) /\ Window(y[a], w, i) = Window(y[b], w, j)
      BY <3>1, <3>2, <1>3
    <3>4. /\ z[a][i] = CovarianceOf(Window(x[a], w, i), Window(y[a], w, i))
          /\ z[b][j] = CovarianceOf(Window(x[b], w, j), Window(y[b], w, j))
      BY <3>1, <1>1 DEF Covariance, CovarianceOf, Window
    <3> QED BY <3>3, <3>4
  <2>5. ASSUME NEW a \in T, NEW i \in w..Len(a), NaN \notin Operands(x, y, K, a, i)
        PROVE  z[a][i] # NaN
    <3>1. a \in Histories /\ i \in 1..Len(a) /\ i >= w
      BY HistoryIsFrame
    <3>2. Obeys(z[a][i], Operands(x, y, K, a, i), CellsOn(a, R))
      BY <3>1, <1>1, <1>3, <1>4
    <3> QED BY <3>2, <2>5 DEF Obeys
  <2> QED BY <2>1, <2>2, <2>3, <2>4, <2>5 DEF Assembly
<1>6. Good(z, h + w - 1, R, T)
  BY <1>2, <1>5, Assembled
<1> QED BY <1>6

(* A column without its NaNs. *)
LEMMA FillNanGood ==
  ASSUME NEW R, NEW T, T \subseteq Histories, NEW n \in Nat \ {0}, NEW x, Good(x, n, R, {})
  PROVE  Good(FillNan(x), n, R, T)
<1> PICK z : z = FillNan(x)
  OBVIOUS
<1>0. ASSUME NEW a \in Histories
      PROVE  z[a] = [i \in 1..Len(a) |-> IF x[a][i] = NaN THEN NaV ELSE x[a][i]]
  BY FillNanRows, HistoryIsFrame
<1>1. ASSUME NEW a \in Histories, NEW i \in 1..Len(a)
      PROVE  z[a][i] = IF x[a][i] = NaN THEN NaV ELSE x[a][i]
  BY <1>0
<1>2. Pairwise(z, x, x, R, {})
  <2>1. \A a \in Histories : z[a] = [i \in 1..Len(a) |-> z[a][i]]
    BY <1>0
  <2>2. ASSUME NEW a \in Histories, NEW i \in 1..Len(a)
        PROVE  Strictly(z[a][i], {x[a][i], x[a][i]}, CellsOn(a, R))
    <3> PICK C : C = CellsOn(a, R)
      OBVIOUS
    <3> PICK u, v : u = z[a][i] /\ v = x[a][i]
      OBVIOUS
    <3>1. v \in Values(C) /\ Honest(v)
      BY GoodRows
    <3>2. u = IF v = NaN THEN NaV ELSE v
      BY <1>1
    <3>3. Strictly(u, {v, v}, C)
      BY <3>1, <3>2, NotNumbers, Literals DEF Strictly
    <3> QED BY <3>3
  <2>3. \A a, b \in Histories : \A i \in 1..Len(a), j \in 1..Len(b) :
          x[a][i] = x[b][j] /\ x[a][i] = x[b][j] => z[a][i] = z[b][j]
    BY <1>1
  <2> QED BY <2>1, <2>2, <2>3 DEF Pairwise
<1>3. Good(z, n, R, {})
  BY <1>2, RowByRow
<1>4. Tame(z, T)
  BY <1>1, NotNumbers DEF Tame
<1> QED BY <1>3, <1>4 DEF Good

(* In a history a bar is as old as its row.                                 *)
LEMMA AgeInHistory ==
  ASSUME NEW a \in Histories, NEW i \in 1..Len(a)
  PROVE  Age(a, i) = i
<1>1. i \in Nat /\ \A j \in 1..i : j \in DOMAIN a
  BY HistoryIsFrame
<1>2. {j \in 1..i : a[j].sym = a[i].sym} = 1..i
  BY <1>1 DEF Histories
<1> QED BY <1>1, <1>2, IntervalCount DEF Age

(* A threshold no shorter than the window. *)
LEMMA MaskedGood ==
  ASSUME NEW R, NEW T, T \subseteq Histories, NEW n \in Nat \ {0}, NEW x, Good(x, n, R, T),
         NEW h \in Nat \ {0}, n <= h
  PROVE  Good(Masked(x, h), h, R, T)
<1> PICK z : z = Masked(x, h)
  OBVIOUS
<1>0. ASSUME NEW a \in Histories
      PROVE  z[a] = [i \in 1..Len(a) |-> IF i < h THEN NaV ELSE x[a][i]]
  <2>1. z[a] = [i \in 1..Len(a) |-> IF Age(a, i) < h THEN NaV ELSE x[a][i]]
    BY MaskedRows, HistoryIsFrame
  <2> QED BY <2>1, AgeInHistory
<1>1. ASSUME NEW a \in Histories, NEW i \in 1..Len(a)
      PROVE  z[a][i] = IF i < h THEN NaV ELSE x[a][i]
  BY <1>0
<1>2. Typed(z, R)
  <2> SUFFICES ASSUME NEW a \in Histories, NEW i \in 1..Len(a)
               PROVE  z[a][i] \in Values(CellsOn(a, R)) /\ Honest(z[a][i])
    BY <1>0 DEF Typed
  <2>1. x[a][i] \in Values(CellsOn(a, R)) /\ Honest(x[a][i])
    BY GoodRows
  <2> QED BY <2>1, <1>1, NotNumbers, Literals
<1>3. Late(z, h)
  BY <1>1 DEF Late
<1>4. Local(z, h)
  <2> SUFFICES ASSUME NEW a \in Histories, NEW b \in Histories,
                      NEW i \in 1..Len(a), NEW j \in 1..Len(b), Alike(a, i, b, j, h)
               PROVE  z[a][i] = z[b][j]
    BY DEF Local
  <2>1. i \in Nat /\ j \in Nat
    BY HistoryIsFrame
  <2>2. Alike(a, i, b, j, n)
    <3>1. \A k \in 0..(n - 1) : k \in 0..(h - 1)
      OBVIOUS
    <3>2. i = j \/ (i >= n /\ j >= n)
      BY <2>1 DEF Alike
    <3> QED BY <3>1, <3>2 DEF Alike
  <2>3. x[a][i] = x[b][j]
    BY <2>2 DEF Good, Local
  <2>4. (i < h) <=> (j < h)
    BY <2>1 DEF Alike
  <2> QED BY <2>3, <2>4, <1>1
<1>5. Settled(z)
  <2> SUFFICES ASSUME NEW a \in Histories, NEW b \in Histories, Fills(a, b),
                      NEW i \in 1..Len(a), z[a][i] # NaV
               PROVE  z[b][i] = z[a][i]
    BY DEF Settled
  <2>1. i \in 1..Len(b)
    BY DEF Fills
  <2>2. ~ (i < h) /\ z[a][i] = x[a][i] /\ z[b][i] = x[b][i]
    BY <1>1, <2>1
  <2> QED BY <2>2 DEF Good, Settled
<1>6. Tame(z, T)
  BY <1>1, NotNumbers DEF Good, Tame
<1> QED BY <1>2, <1>3, <1>4, <1>5, <1>6 DEF Good

(* A condition that is null only where the otherwise branch is.             *)
Otherwise(c, y) ==
  \A a \in Histories : \A i \in 1..Len(a) :
    c[a][i] # NaN /\ (c[a][i] = NaV => y[a][i] = NaV)

Branch(c, v) ==
  IF ~ IsNumber(v) THEN v
  ELSE IF IsNull(c) THEN [v EXCEPT !.guess = TRUE]
  ELSE [v EXCEPT !.on = @ \cup c.on, !.guess = @ \/ c.guess]
Yes(c) == IsNumber(c) /\ c.lvl = 1

(* A choice between two columns: good if a null condition chooses a null,   *)
(* so that no null is taken for a no.                                       *)
LEMMA WhenGood ==
  ASSUME NEW R, NEW T, T \subseteq Histories,
         NEW l \in Nat \ {0}, NEW m \in Nat \ {0}, NEW n \in Nat \ {0},
         NEW h \in Nat, l <= h, m <= h, n <= h, l = h \/ (m = h /\ n = h),
         NEW c, Good(c, l, R, T), NEW x, Good(x, m, R, T), NEW y, Good(y, n, R, T),
         Otherwise(c, y)
  PROVE  Good(When(c, x, y), h, R, T)
<1> PICK z : z = When(c, x, y)
  OBVIOUS
<1>0. ASSUME NEW a \in Histories
      PROVE  z[a] = [i \in 1..Len(a) |-> Chosen(c[a][i], x[a][i], y[a][i])]
  BY WhenRows, HistoryIsFrame
<1>1. ASSUME NEW a \in Histories, NEW i \in 1..Len(a)
      PROVE  z[a][i] = Branch(c[a][i], IF Yes(c[a][i]) THEN x[a][i] ELSE y[a][i])
  <2>1. z[a][i] = Chosen(c[a][i], x[a][i], y[a][i])
    BY <1>0
  <2> QED BY <2>1 DEF Chosen, Given, Branch, Yes
<1>2. ASSUME NEW a \in Histories, NEW i \in 1..Len(a),
             NEW v, v = IF Yes(c[a][i]) THEN x[a][i] ELSE y[a][i]
      PROVE  /\ z[a][i] \in Values(CellsOn(a, R)) /\ Honest(z[a][i])
             /\ (z[a][i] = NaV) <=> (v = NaV)
             /\ (z[a][i] = NaN) <=> (v = NaN)
             /\ c[a][i] = NaV => v = NaV
  <2> PICK C : C = CellsOn(a, R)
    OBVIOUS
  <2> PICK c1, x1, y1, z1 : c1 = c[a][i] /\ x1 = x[a][i] /\ y1 = y[a][i] /\ z1 = z[a][i]
    OBVIOUS
  <2>1. /\ c1 \in Values(C) /\ x1 \in Values(C) /\ y1 \in Values(C)
        /\ Honest(c1) /\ Honest(x1) /\ Honest(y1)
    BY GoodRows
  <2>2. c1 # NaN /\ (c1 = NaV => y1 = NaV)
    BY DEF Otherwise
  <2>3. z1 = Chosen(c1, x1, y1)
    BY <1>0
  <2>4. v = IF IsNumber(c1) /\ c1.lvl = 1 THEN x1 ELSE y1
    BY <1>2 DEF Yes
  <2>5. /\ z1 \in Values(C)
        /\ (z1 = NaV) <=> (v = NaV)
        /\ (z1 = NaN) <=> (v = NaN)
        /\ (c1 # NaV /\ Honest(c1) /\ Honest(v)) => Honest(z1)
    BY ONLY <2>1, <2>2, <2>3, <2>4, ChosenRow
  <2>6. c1 = NaV => v = NaV
    <3>1. c1 = NaV => ~ IsNumber(c1)
      BY DEF NaV, IsNumber
    <3> QED BY <3>1, <2>2, <2>4
  <2>7. Honest(z1)
    BY <2>1, <2>4, <2>5, <2>6, Literals
  <2> QED BY <2>5, <2>6, <2>7
<1>3. Typed(z, R)
  <2> SUFFICES ASSUME NEW a \in Histories, NEW i \in 1..Len(a)
               PROVE  z[a][i] \in Values(CellsOn(a, R)) /\ Honest(z[a][i])
    BY <1>0 DEF Typed
  <2> QED BY <1>2
<1>4. Late(z, h)
  <2> SUFFICES ASSUME NEW a \in Histories, NEW i \in 1..Len(a), i < h
               PROVE  z[a][i] = NaV
    BY DEF Late
  <2> PICK v : v = IF Yes(c[a][i]) THEN x[a][i] ELSE y[a][i]
    OBVIOUS
  <2>1. CASE l = h
    <3>1. c[a][i] = NaV
      BY <2>1 DEF Good, Late
    <3> QED BY <3>1, <1>2
  <2>2. CASE m = h /\ n = h
    <3>1. x[a][i] = NaV /\ y[a][i] = NaV
      BY <2>2 DEF Good, Late
    <3>2. v = NaV
      BY <3>1
    <3> QED BY <3>2, <1>2
  <2> QED BY <2>1, <2>2
<1>5. Local(z, h)
  <2> SUFFICES ASSUME NEW a \in Histories, NEW b \in Histories,
                      NEW i \in 1..Len(a), NEW j \in 1..Len(b), Alike(a, i, b, j, h)
               PROVE  z[a][i] = z[b][j]
    BY DEF Local
  <2>1. ASSUME NEW k \in Nat \ {0}, k <= h PROVE Alike(a, i, b, j, k)
    <3>1. \A g \in 0..(k - 1) : g \in 0..(h - 1)
      BY <2>1
    <3>2. i \in Nat /\ j \in Nat
      BY HistoryIsFrame
    <3>3. i = j \/ (i >= k /\ j >= k)
      BY <2>1, <3>2 DEF Alike
    <3> QED BY <3>1, <3>3 DEF Alike
  <2>2. Alike(a, i, b, j, l) /\ Alike(a, i, b, j, m) /\ Alike(a, i, b, j, n)
    BY <2>1
  <2>3. c[a][i] = c[b][j] /\ x[a][i] = x[b][j] /\ y[a][i] = y[b][j]
    BY <2>2 DEF Good, Local
  <2> QED BY <2>3, <1>1
<1>6. Settled(z)
  <2> SUFFICES ASSUME NEW a \in Histories, NEW b \in Histories, Fills(a, b),
                      NEW i \in 1..Len(a), z[a][i] # NaV
               PROVE  z[b][i] = z[a][i]
    BY DEF Settled
  <2>1. i \in 1..Len(b)
    BY DEF Fills
  <2> PICK v : v = IF Yes(c[a][i]) THEN x[a][i] ELSE y[a][i]
    OBVIOUS
  <2> PICK w : w = IF Yes(c[b][i]) THEN x[b][i] ELSE y[b][i]
    OBVIOUS
  <2>2. v # NaV /\ c[a][i] # NaV
    BY <1>2
  <2>3. c[b][i] = c[a][i]
    BY <2>2 DEF Good, Settled
  <2>4. x[a][i] # NaV => x[b][i] = x[a][i]
    BY DEF Good, Settled
  <2>5. y[a][i] # NaV => y[b][i] = y[a][i]
    BY DEF Good, Settled
  <2>6. w = v
    BY <2>2, <2>3, <2>4, <2>5
  <2>7. z[a][i] = Branch(c[a][i], v)
    BY <1>1
  <2>8. z[b][i] = Branch(c[b][i], w)
    BY <1>1, <2>1
  <2> QED BY <2>3, <2>6, <2>7, <2>8
<1>7. Tame(z, T)
  <2> SUFFICES ASSUME NEW a \in T, NEW i \in 1..Len(a)
               PROVE  z[a][i] # NaN
    BY DEF Tame
  <2> PICK v : v = IF Yes(c[a][i]) THEN x[a][i] ELSE y[a][i]
    OBVIOUS
  <2>1. x[a][i] # NaN /\ y[a][i] # NaN
    BY DEF Good, Tame
  <2> QED BY <2>1, <1>2
<1> QED BY <1>3, <1>4, <1>5, <1>6, <1>7 DEF Good

-----------------------------------------------------------------------------
(* The rules the factories are built by: an expression of n rows of memory  *)
(* on roles R, without NaN on the histories T.                              *)
Windowed(x, n, R, T) ==
  n \in Nat \ {0} /\ R \in SUBSET Roles /\ T \in SUBSET Histories /\ Good(x, n, R, T)

(* A column. *)
LEMMA ColRule ==
  ASSUME NEW R \in SUBSET Roles, NEW T \in SUBSET Histories, NEW r \in R
  PROVE  Windowed(Col(r), 1, R, T)
BY ColGood DEF Windowed

(* A literal. *)
LEMMA LitRule ==
  ASSUME NEW R \in SUBSET Roles, NEW T \in SUBSET Histories, NEW l \in Int
  PROVE  Windowed(Lit(l), 1, R, T)
BY LitGood DEF Windowed

(* A lag adds to the memory. *)
LEMMA ShiftRule ==
  ASSUME NEW R, NEW T, NEW n, NEW x, Windowed(x, n, R, T), NEW s \in Nat, NEW h, h = n + s
  PROVE  Windowed(Shift(x, s), h, R, T)
BY ShiftGood DEF Windowed

(* An operation on one column keeps its memory. *)
LEMMA UnaryRule ==
  ASSUME NEW R, NEW T, NEW n, NEW x, Windowed(x, n, R, T), NEW op \in UnaryOps
  PROVE  Windowed(Unary(op, x), n, R, T)
BY UnaryGood DEF Windowed

(* An operation on two has the longer memory. *)
LEMMA PairRule ==
  ASSUME NEW R, NEW T, NEW m, NEW n, NEW x, NEW y, Windowed(x, m, R, T), Windowed(y, n, R, T),
         NEW h, m <= h, n <= h, h = m \/ h = n
  PROVE  /\ Windowed(Minus(x, y), h, R, T) /\ Windowed(Plus(x, y), h, R, T)
         /\ Windowed(Times(x, y), h, R, T) /\ Windowed(safe_div(x, y), h, R, T)
         /\ Windowed(Above(x, y), h, R, T) /\ Windowed(Equal(x, y), h, R, T)
<1>1. /\ m \in Nat \ {0} /\ n \in Nat \ {0} /\ h \in Nat \ {0} /\ Good(x, m, R, T) /\ Good(y, n, R, T)
      /\ R \in SUBSET Roles /\ T \in SUBSET Histories /\ T \subseteq Histories
  BY DEF Windowed
<1>2. /\ \A op \in Arithmetic : Good(Binary(op, x, y), h, R, T)
      /\ \A op \in Comparisons : Good(Comparison(op, x, y), h, R, T)
  BY <1>1, BinaryGood, ComparisonGood
<1>3. Good(safe_div(x, y), h, R, T)
  BY <1>1, SafeDivGood
<1> QED BY <1>1, <1>2, <1>3 DEF Windowed, Minus, Plus, Times, Above, Equal, Arithmetic, Comparisons

(* So has a bare quotient, where its divisor is not zero. *)
LEMMA OverRule ==
  ASSUME NEW R, NEW T, NEW m, NEW n, NEW x, NEW y, Windowed(x, m, R, T), Windowed(y, n, R, T),
         NEW h, m <= h, n <= h, h = m \/ h = n, Divides(y, R, T)
  PROVE  Windowed(Over(x, y), h, R, T)
BY OverGood DEF Windowed

(* A window of w rows adds w - 1 to the memory. *)
LEMMA RollingRule ==
  ASSUME NEW R, NEW T, NEW n, NEW x, Windowed(x, n, R, T), NEW w \in Nat \ {0},
         NEW how \in RollingOps \ {"moment"}, NEW h, h = n + w - 1
  PROVE  Windowed(Rolling(how, x, w), h, R, T)
BY RollingGood DEF Windowed

(* So does a covariance, to the longer of two. *)
LEMMA CovRule ==
  ASSUME NEW R, NEW T, NEW m, NEW n, NEW x, NEW y, Windowed(x, m, R, T), Windowed(y, n, R, T),
         NEW l, m <= l, n <= l, l = m \/ l = n, NEW w \in Nat \ {0}, NEW h, h = l + w - 1
  PROVE  Windowed(rolling_cov(x, y, w), h, R, T)
BY CovGood DEF Windowed, rolling_cov

(* A threshold no shorter than the memory is a memory. *)
LEMMA MaskedRule ==
  ASSUME NEW R, NEW T, NEW n, NEW x, Windowed(x, n, R, T), NEW h \in Nat \ {0}, n <= h
  PROVE  Windowed(Masked(x, h), h, R, T)
BY MaskedGood DEF Windowed

(* A standardized moment, its NaN taken for a null. *)
LEMMA MomentRule ==
  ASSUME NEW R, NEW T, NEW n, NEW x, Windowed(x, n, R, T), NEW w \in Nat \ {0},
         NEW h, h = n + w - 1
  PROVE  Windowed(FillNan(Rolling("moment", x, w)), h, R, T)
<1>1. /\ n \in Nat \ {0} /\ h \in Nat \ {0} /\ Good(x, n, R, {}) /\ R \in SUBSET Roles
      /\ T \subseteq Histories
  BY DEF Windowed, Good, Tame
<1>2. "moment" \in RollingOps
  BY DEF RollingOps, DispersionOps
<1>3. Good(Rolling("moment", x, w), h, R, {})
  BY <1>1, <1>2, RollingGood
<1> QED BY <1>1, <1>3, FillNanGood DEF Windowed

(* And the helpers of _math.py and _expr.py, and the shorthands.            *)
LEMMA OneRule ==
  ASSUME NEW R, NEW T, NEW n, NEW x, Windowed(x, n, R, T)
  PROVE  /\ Windowed(safe_log(x), n, R, T) /\ Windowed(safe_sqrt(x), n, R, T)
         /\ Windowed(Up(x), n, R, T) /\ Windowed(Down(x), n, R, T) /\ Windowed(Abs(x), n, R, T)
         /\ Windowed(Square(x), n, R, T)
<1>1. n <= n
  BY DEF Windowed
<1>2. Windowed(Times(x, x), n, R, T)
  BY <1>1, PairRule
<1>3. \A op \in UnaryOps : Windowed(Unary(op, x), n, R, T)
  BY UnaryRule
<1> QED BY <1>2, <1>3 DEF safe_log, safe_sqrt, Up, Down, Abs, Square, UnaryOps

(* A guarded logarithm of a guarded quotient. *)
LEMMA LogReturnRule ==
  ASSUME NEW R, NEW T, NEW m, NEW n, NEW x, NEW y, Windowed(x, m, R, T), Windowed(y, n, R, T),
         NEW h, m <= h, n <= h, h = m \/ h = n
  PROVE  Windowed(log_return(x, y), h, R, T)
<1>1. Windowed(safe_div(x, y), h, R, T)
  BY PairRule
<1> QED BY <1>1, OneRule DEF log_return

(* A change over a bar. *)
LEMMA DiffRule ==
  ASSUME NEW R, NEW T, NEW n, NEW x, Windowed(x, n, R, T), NEW h, h = n + 1
  PROVE  Windowed(Diff(x), h, R, T)
<1>1. Windowed(Shift(x, 1), h, R, T)
  BY ShiftRule
<1>2. n <= h /\ h <= h
  BY DEF Windowed
<1> QED BY <1>1, <1>2, PairRule DEF Diff

(* The return of a bar. *)
LEMMA BarReturnRule ==
  ASSUME NEW R \in SUBSET Roles, NEW T \in SUBSET Histories, NEW r \in R
  PROVE  Windowed(bar_return(r), 2, R, T)
<1>1. Windowed(Col(r), 1, R, T)
  BY ColRule
<1>2. Windowed(Shift(Col(r), 1), 2, R, T)
  BY <1>1, ShiftRule
<1> QED BY <1>1, <1>2, LogReturnRule DEF bar_return

(* A mean, a sum, a dispersion and a standard score over a window. *)
LEMMA WindowRule ==
  ASSUME NEW R, NEW T, NEW n, NEW x, Windowed(x, n, R, T), NEW w \in Nat \ {0},
         NEW h, h = n + w - 1
  PROVE  /\ Windowed(mean(x, w), h, R, T) /\ Windowed(sum(x, w), h, R, T)
         /\ Windowed(std(x, w), h, R, T) /\ Windowed(Standard(x, w), h, R, T)
<1>1. \A how \in RollingOps \ {"moment"} : Windowed(Rolling(how, x, w), h, R, T)
  BY RollingRule
<1>2. /\ Windowed(mean(x, w), h, R, T) /\ Windowed(sum(x, w), h, R, T)
      /\ Windowed(std(x, w), h, R, T)
  BY <1>1 DEF mean, sum, std, RollingOps, DispersionOps
<1>3. n <= h /\ h <= h
  BY DEF Windowed
<1>4. Windowed(Minus(x, mean(x, w)), h, R, T)
  BY <1>2, <1>3, PairRule
<1>5. Windowed(Standard(x, w), h, R, T)
  BY <1>2, <1>3, <1>4, PairRule DEF Standard
<1> QED BY <1>2, <1>5

(* A correlation and a slope over a window. *)
LEMMA CorrRule ==
  ASSUME NEW R, NEW T, NEW m, NEW n, NEW x, NEW y, Windowed(x, m, R, T), Windowed(y, n, R, T),
         NEW l, m <= l, n <= l, l = m \/ l = n, NEW w \in Nat \ {0}, NEW h, h = l + w - 1
  PROVE  Windowed(rolling_corr(x, y, w), h, R, T) /\ Windowed(rolling_slope(x, y, w), h, R, T)
<1>1. m \in Nat \ {0} /\ n \in Nat \ {0}
  BY DEF Windowed
<1> PICK a, b : a = m + w - 1 /\ b = n + w - 1
  OBVIOUS
<1>2. a \in Nat \ {0} /\ b \in Nat \ {0} /\ a <= h /\ b <= h /\ (h = a \/ h = b) /\ m <= m /\ n <= n
  BY <1>1
<1>3. Windowed(rolling_cov(x, y, w), h, R, T)
  BY CovRule
<1>4. Windowed(rolling_cov(x, x, w), a, R, T)
  BY <1>2, CovRule
<1>5. Windowed(rolling_cov(y, y, w), b, R, T)
  BY <1>2, CovRule
<1>6. Windowed(Times(rolling_cov(x, x, w), rolling_cov(y, y, w)), h, R, T)
  BY <1>2, <1>4, <1>5, PairRule
<1>7. Windowed(safe_sqrt(Times(rolling_cov(x, x, w), rolling_cov(y, y, w))), h, R, T)
  BY <1>6, OneRule
<1>8. h <= h
  BY <1>1
<1> QED BY <1>2, <1>3, <1>4, <1>7, <1>8, PairRule DEF rolling_corr, rolling_slope

-----------------------------------------------------------------------------
(* 3. Factories. *)

(* The histories without a zero in the columns Z.                           *)
Positive(Z) == {a \in Histories : \A i \in DOMAIN a, r \in Z : a[i].cells[r] # 0}

(* A column without a zero may divide, *)
LEMMA ColDivides ==
  ASSUME NEW R \in SUBSET Roles, NEW Z, NEW T \in SUBSET Positive(Z), NEW r \in R, r \in Z
  PROVE  Divides(Col(r), R, T)
<1> SUFFICES ASSUME NEW a \in T, NEW i \in 1..Len(a), Col(r)[a][i] \in Numbers(CellsOn(a, R))
             PROVE  Col(r)[a][i].lvl # 0
  BY DEF Divides
<1> PICK bar : bar = a[i]
  OBVIOUS
<1> PICK C : C = CellsOn(a, R)
  OBVIOUS
<1>1. a \in Histories /\ bar \in Bars /\ i \in DOMAIN a /\ r \in Roles /\ a \in Frames
  BY HistoryIsFrame DEF Positive
<1>2. Col(r)[a] = [j \in 1..Len(a) |-> Cell(a[j], r)]
  BY <1>1, ColRows
<1>2a. Col(r)[a][i] = Cell(bar, r)
  BY <1>2
<1>3. bar.cells[r] # 0
  BY <1>1 DEF Positive
<1>4. <<bar.sym, bar.t, r>> \in C
  BY <1>1 DEF CellsOn
<1>5. /\ Missing(bar) => Cell(bar, r) = NaV
      /\ Whole(bar) => Cell(bar, r) \in Numbers(C) /\ Cell(bar, r).lvl = bar.cells[r]
  BY ONLY <1>1, <1>4, CellValue
<1>6. Missing(bar) \/ Whole(bar)
  BY <1>1 DEF Histories
<1> QED BY <1>2a, <1>3, <1>5, <1>6, NotNumbers

(* a lag of one too, *)
LEMMA ShiftDivides ==
  ASSUME NEW R, NEW T \in SUBSET Histories, NEW x, Divides(x, R, T), NEW n, Windowed(x, n, R, T),
         NEW s \in Nat
  PROVE  Divides(Shift(x, s), R, T)
<1> SUFFICES ASSUME NEW a \in T, NEW i \in 1..Len(a), Shift(x, s)[a][i] \in Numbers(CellsOn(a, R))
             PROVE  Shift(x, s)[a][i].lvl # 0
  BY DEF Divides
<1>1. a \in Histories /\ a \in Frames /\ Len(a) \in Nat /\ DOMAIN a = 1..Len(a)
  BY HistoryIsFrame
<1> PICK z : z = Shift(x, s)[a]
  OBVIOUS
<1>2. z = [j \in 1..Len(a) |-> IF j - s \in DOMAIN a THEN x[a][j - s] ELSE NaV]
  BY <1>1, ShiftRows
<1>3. z[i] = IF i - s \in DOMAIN a THEN x[a][i - s] ELSE NaV
  BY ONLY <1>2, i \in 1..Len(a)
<1>4. i - s \in 1..Len(a) /\ x[a][i - s] \in Numbers(CellsOn(a, R))
  BY <1>1, <1>3, NotNumbers
<1>5. x[a][i - s].lvl # 0
  BY <1>4 DEF Divides
<1> QED BY <1>3, <1>4, <1>1, <1>5

(* and a literal that is not zero. *)
LEMMA LitDivides ==
  ASSUME NEW R, NEW T \in SUBSET Histories, NEW l \in Int, l # 0
  PROVE  Divides(Lit(l), R, T)
<1> SUFFICES ASSUME NEW a \in T, NEW i \in 1..Len(a) PROVE Lit(l)[a][i].lvl # 0
  BY DEF Divides
<1>1. a \in Histories /\ a \in Frames
  BY HistoryIsFrame
<1>2. Lit(l)[a] = [j \in 1..Len(a) |-> Literal(l)]
  BY <1>1, LitRows
<1> PICK v : v = Literal(l)
  OBVIOUS
<1>3. v.lvl = l /\ Lit(l)[a] = [j \in 1..Len(a) |-> v]
  BY <1>2, Literals
<1> QED BY <1>3

-----------------------------------------------------------------------------
(* A feature of bounded memory is one expression, within a symbol, of no    *)
(* more memory than it declares, on the roles it declares and no other.     *)
Parity(f, T) ==
  /\ f.recurrence = "FINITE" /\ f.signal = << >>
  /\ \E x : /\ \A bars \in Frames : f.build[bars] = Within(x)[bars]
            /\ Windowed(x, f.min_history, f.input_roles, T)

(* What the factories of such features return. *)
LEMMA FiniteParity ==
  ASSUME NEW x, NEW n, NEW R, NEW T, Windowed(x, n, R, T), NEW name
  PROVE  Parity(Finite(name, n, R, grouped(x)), T)
<1> PICK f : f = Finite(name, n, R, grouped(x))
  OBVIOUS
<1>1. /\ f.recurrence = "FINITE" /\ f.signal = << >> /\ f.build = Within(x)
      /\ f.min_history = n /\ f.input_roles = R
  BY DEF Finite, Feature, grouped
<1> QED BY <1>1 DEF Parity

(* A covariance, and what is made of it, of operands one of which has the   *)
(* longer memory.                                                           *)
LEMMA CovLeft ==
  ASSUME NEW R, NEW T, NEW m, NEW n, NEW x, NEW y, Windowed(x, m, R, T), Windowed(y, n, R, T),
         n <= m, NEW w \in Nat \ {0}, NEW h, h = m + w - 1
  PROVE  Windowed(rolling_cov(x, y, w), h, R, T)
<1>1. m <= m /\ n <= m
  BY DEF Windowed
<1> QED BY <1>1, CovRule

(* Likewise. *)
LEMMA CorrLeft ==
  ASSUME NEW R, NEW T, NEW m, NEW n, NEW x, NEW y, Windowed(x, m, R, T), Windowed(y, n, R, T),
         n <= m, NEW w \in Nat \ {0}, NEW h, h = m + w - 1
  PROVE  Windowed(rolling_corr(x, y, w), h, R, T) /\ Windowed(rolling_slope(x, y, w), h, R, T)
<1>1. m <= m /\ n <= m
  BY DEF Windowed
<1> QED BY <1>1, CorrRule

(* A covariance, and what is made of it, of operands one of which has the   *)
(* longer memory.                                                           *)
LEMMA CovRight ==
  ASSUME NEW R, NEW T, NEW m, NEW n, NEW x, NEW y, Windowed(x, m, R, T), Windowed(y, n, R, T),
         m <= n, NEW w \in Nat \ {0}, NEW h, h = n + w - 1
  PROVE  Windowed(rolling_cov(x, y, w), h, R, T)
<1>1. m <= n /\ n <= n
  BY DEF Windowed
<1> QED BY <1>1, CovRule

(* Likewise. *)
LEMMA CorrRight ==
  ASSUME NEW R, NEW T, NEW m, NEW n, NEW x, NEW y, Windowed(x, m, R, T), Windowed(y, n, R, T),
         m <= n, NEW w \in Nat \ {0}, NEW h, h = n + w - 1
  PROVE  Windowed(rolling_corr(x, y, w), h, R, T) /\ Windowed(rolling_slope(x, y, w), h, R, T)
<1>1. m <= n /\ n <= n
  BY DEF Windowed
<1> QED BY <1>1, CorrRule

(* The parameters the factories accept. *)
Windows == Nat \ {0, 1}
Periods == Nat \ {0}

(* ret_log reads the bars and the roles it declares, and no other. *)
LEMMA RetLog ==
  ASSUME NEW T \in SUBSET Histories, NEW period \in Periods
  PROVE  Parity(ret_log(period), T)
<1> PICK R : R = {Close}
  OBVIOUS
<1> PICK h : h = period + 1
  OBVIOUS
<1>0. /\ R \in SUBSET Roles
      /\ T \in SUBSET Histories
      /\ period \in Nat \ {0}
      /\ Close \in R
      /\ h = 1 + period /\ 1 <= h /\ h <= h /\ h \in Nat \ {0}
  BY DEF Roles, Prices, Sizes, Periods
<1>1. Windowed(Col(Close), 1, R, T)
  BY <1>0, ColRule
<1>2. Windowed(Shift(Col(Close), period), h, R, T)
  BY <1>1, <1>0, ShiftRule
<1>3. Windowed(log_return(Col(Close), Shift(Col(Close), period)), h, R, T)
  BY <1>1, <1>2, <1>0, LogReturnRule
<1> QED BY <1>3, <1>0, FiniteParity DEF ret_log

(* ret_simple reads the bars and the roles it declares, and no other. *)
LEMMA RetSimple ==
  ASSUME NEW T \in SUBSET Histories, NEW period \in Periods
  PROVE  Parity(ret_simple(period), T)
<1> PICK R : R = {Close}
  OBVIOUS
<1> PICK h : h = period + 1
  OBVIOUS
<1>0. /\ R \in SUBSET Roles
      /\ T \in SUBSET Histories
      /\ period \in Nat \ {0}
      /\ Close \in R
      /\ h = 1 + period /\ 1 <= h /\ h <= h /\ h \in Nat \ {0}
  BY DEF Roles, Prices, Sizes, Periods
<1>1. Windowed(Col(Close), 1, R, T)
  BY <1>0, ColRule
<1>2. Windowed(Shift(Col(Close), period), h, R, T)
  BY <1>1, <1>0, ShiftRule
<1>3. Windowed(safe_div(Col(Close), Shift(Col(Close), period)), h, R, T)
  BY <1>1, <1>2, <1>0, PairRule
<1> QED BY <1>3, <1>0, FiniteParity DEF ret_simple

(* ret_overnight reads the bars and the roles it declares, and no other. *)
LEMMA RetOvernight ==
  ASSUME NEW T \in SUBSET Histories
  PROVE  Parity(ret_overnight, T)
<1> PICK R : R = {OpenTr, Close}
  OBVIOUS
<1>0. /\ R \in SUBSET Roles
      /\ T \in SUBSET Histories
      /\ OpenTr \in R /\ Close \in R
      /\ 2 = 1 + 1 /\ 1 <= 2 /\ 2 <= 2
  BY DEF Roles, Prices, Sizes
<1>1. Windowed(Col(OpenTr), 1, R, T)
  BY <1>0, ColRule
<1>2. Windowed(Col(Close), 1, R, T)
  BY <1>0, ColRule
<1>3. Windowed(Shift(Col(Close), 1), 2, R, T)
  BY <1>2, <1>0, ShiftRule
<1>4. Windowed(log_return(Col(OpenTr), Shift(Col(Close), 1)), 2, R, T)
  BY <1>1, <1>3, <1>0, LogReturnRule
<1> QED BY <1>4, <1>0, FiniteParity DEF ret_overnight

(* ret_intraday reads the bars and the roles it declares, and no other. *)
LEMMA RetIntraday ==
  ASSUME NEW T \in SUBSET Histories
  PROVE  Parity(ret_intraday, T)
<1> PICK R : R = {OpenTr, Close}
  OBVIOUS
<1>0. /\ R \in SUBSET Roles
      /\ T \in SUBSET Histories
      /\ OpenTr \in R /\ Close \in R
  BY DEF Roles, Prices, Sizes
<1>1. Windowed(Col(Close), 1, R, T)
  BY <1>0, ColRule
<1>2. Windowed(Col(OpenTr), 1, R, T)
  BY <1>0, ColRule
<1>3. Windowed(log_return(Col(Close), Col(OpenTr)), 1, R, T)
  BY <1>1, <1>2, <1>0, LogReturnRule
<1> QED BY <1>3, <1>0, FiniteParity DEF ret_intraday

(* drawdown reads the bars and the roles it declares, and no other. *)
LEMMA Drawdown ==
  ASSUME NEW T \in SUBSET Histories, NEW window \in Windows
  PROVE  Parity(drawdown(window), T)
<1> PICK R : R = {Close}
  OBVIOUS
<1>0. /\ R \in SUBSET Roles
      /\ T \in SUBSET Histories
      /\ window \in Nat \ {0}
      /\ Close \in R
      /\ window = 1 + window - 1 /\ 1 <= window /\ window <= window
  BY DEF Roles, Prices, Sizes, Windows
<1>1. Windowed(Col(Close), 1, R, T)
  BY <1>0, ColRule
<1>2. Windowed(Rolling("max", Col(Close), window), window, R, T)
  BY <1>1, <1>0, RollingRule DEF RollingOps, DispersionOps
<1>3. Windowed(safe_div(Col(Close), Rolling("max", Col(Close), window)), window, R, T)
  BY <1>1, <1>2, <1>0, PairRule
<1> QED BY <1>3, <1>0, FiniteParity DEF drawdown

(* sma reads the bars and the roles it declares, and no other. *)
LEMMA Sma ==
  ASSUME NEW T \in SUBSET Histories, NEW window \in Windows
  PROVE  Parity(sma(window), T)
<1> PICK R : R = {Close}
  OBVIOUS
<1>0. /\ R \in SUBSET Roles
      /\ T \in SUBSET Histories
      /\ window \in Nat \ {0}
      /\ Close \in R
      /\ window = 1 + window - 1
  BY DEF Roles, Prices, Sizes, Windows
<1>1. Windowed(Col(Close), 1, R, T)
  BY <1>0, ColRule
<1>2. Windowed(mean(Col(Close), window), window, R, T)
  BY <1>1, <1>0, WindowRule
<1> QED BY <1>2, <1>0, FiniteParity DEF sma

(* sma_dist reads the bars and the roles it declares, and no other. *)
LEMMA SmaDist ==
  ASSUME NEW T \in SUBSET Histories, NEW window \in Windows
  PROVE  Parity(sma_dist(window), T)
<1> PICK R : R = {Close}
  OBVIOUS
<1>0. /\ R \in SUBSET Roles
      /\ T \in SUBSET Histories
      /\ window \in Nat \ {0}
      /\ Close \in R
      /\ window = 1 + window - 1 /\ 1 <= window /\ window <= window
  BY DEF Roles, Prices, Sizes, Windows
<1>1. Windowed(Col(Close), 1, R, T)
  BY <1>0, ColRule
<1>2. Windowed(mean(Col(Close), window), window, R, T)
  BY <1>1, <1>0, WindowRule
<1>3. Windowed(safe_div(Col(Close), mean(Col(Close), window)), window, R, T)
  BY <1>1, <1>2, <1>0, PairRule
<1> QED BY <1>3, <1>0, FiniteParity DEF sma_dist

(* dist_52w_high reads the bars and the roles it declares, and no other. *)
LEMMA Dist52wHigh ==
  ASSUME NEW T \in SUBSET Histories, NEW window \in Windows
  PROVE  Parity(dist_52w_high(window), T)
<1> PICK R : R = {Close}
  OBVIOUS
<1>0. /\ R \in SUBSET Roles
      /\ T \in SUBSET Histories
      /\ window \in Nat \ {0}
      /\ Close \in R
      /\ window = 1 + window - 1 /\ 1 <= window /\ window <= window
  BY DEF Roles, Prices, Sizes, Windows
<1>1. Windowed(Col(Close), 1, R, T)
  BY <1>0, ColRule
<1>2. Windowed(Rolling("max", Col(Close), window), window, R, T)
  BY <1>1, <1>0, RollingRule DEF RollingOps, DispersionOps
<1>3. Windowed(safe_div(Col(Close), Rolling("max", Col(Close), window)), window, R, T)
  BY <1>1, <1>2, <1>0, PairRule
<1> QED BY <1>3, <1>0, FiniteParity DEF dist_52w_high

(* price_pctile reads the bars and the roles it declares, and no other. *)
LEMMA PricePctile ==
  ASSUME NEW T \in SUBSET Histories, NEW window \in Windows
  PROVE  Parity(price_pctile(window), T)
<1> PICK R : R = {Close}
  OBVIOUS
<1>0. /\ R \in SUBSET Roles
      /\ T \in SUBSET Histories
      /\ window \in Nat \ {0}
      /\ Close \in R
      /\ window = 1 + window - 1
  BY DEF Roles, Prices, Sizes, Windows
<1>1. Windowed(Col(Close), 1, R, T)
  BY <1>0, ColRule
<1>2. Windowed(Rolling("pctile", Col(Close), window), window, R, T)
  BY <1>1, <1>0, RollingRule DEF RollingOps, DispersionOps
<1> QED BY <1>2, <1>0, FiniteParity DEF price_pctile

(* ols_slope reads the bars and the roles it declares, and no other. *)
LEMMA OlsSlope ==
  ASSUME NEW T \in SUBSET Histories, NEW window \in Windows
  PROVE  Parity(ols_slope(window), T)
<1> PICK R : R = {Close}
  OBVIOUS
<1>0. /\ R \in SUBSET Roles
      /\ T \in SUBSET Histories
      /\ window \in Nat \ {0}
      /\ Close \in R
      /\ window = 1 + window - 1
  BY DEF Roles, Prices, Sizes, Windows
<1>1. Windowed(Col(Close), 1, R, T)
  BY <1>0, ColRule
<1>2. Windowed(safe_log(Col(Close)), 1, R, T)
  BY <1>1, <1>0, OneRule
<1>3. Windowed(Rolling("slope", safe_log(Col(Close)), window), window, R, T)
  BY <1>2, <1>0, RollingRule DEF RollingOps, DispersionOps
<1> QED BY <1>3, <1>0, FiniteParity DEF ols_slope

(* roc reads the bars and the roles it declares, and no other. *)
LEMMA Roc ==
  ASSUME NEW T \in SUBSET Histories, NEW window \in Periods
  PROVE  Parity(roc(window), T)
<1> PICK R : R = {Close}
  OBVIOUS
<1> PICK h : h = window + 1
  OBVIOUS
<1>0. /\ R \in SUBSET Roles
      /\ T \in SUBSET Histories
      /\ window \in Nat \ {0}
      /\ Close \in R
      /\ h = 1 + window /\ 1 <= h /\ h <= h /\ h \in Nat \ {0}
  BY DEF Roles, Prices, Sizes, Periods
<1>1. Windowed(Col(Close), 1, R, T)
  BY <1>0, ColRule
<1>2. Windowed(Shift(Col(Close), window), h, R, T)
  BY <1>1, <1>0, ShiftRule
<1>3. Windowed(safe_div(Col(Close), Shift(Col(Close), window)), h, R, T)
  BY <1>1, <1>2, <1>0, PairRule
<1> QED BY <1>3, <1>0, FiniteParity DEF roc

(* mom reads the bars and the roles it declares, and no other: the skipped  *)
(* bars are among the formation.                                            *)
LEMMA Mom ==
  ASSUME NEW T \in SUBSET Histories, NEW formation \in Periods, NEW skip \in 0..formation
  PROVE  Parity(mom(formation, skip), T)
<1> PICK R : R = {Close}
  OBVIOUS
<1> PICK h, k : h = formation + 1 /\ k = skip + 1
  OBVIOUS
<1>0. /\ R \in SUBSET Roles
      /\ T \in SUBSET Histories
      /\ formation \in Nat /\ skip \in Nat
      /\ Close \in R
      /\ h = 1 + formation /\ k = 1 + skip /\ k <= h /\ h <= h
  BY DEF Roles, Prices, Sizes, Periods
<1>1. Windowed(Col(Close), 1, R, T)
  BY <1>0, ColRule
<1>2. Windowed(Shift(Col(Close), skip), k, R, T)
  BY <1>1, <1>0, ShiftRule
<1>3. Windowed(Shift(Col(Close), formation), h, R, T)
  BY <1>1, <1>0, ShiftRule
<1>4. Windowed(log_return(Shift(Col(Close), skip), Shift(Col(Close), formation)), h, R, T)
  BY <1>2, <1>3, <1>0, LogReturnRule
<1> QED BY <1>4, FiniteParity DEF mom

(* williams_r reads the bars and the roles it declares, and no other. *)
LEMMA WilliamsR ==
  ASSUME NEW T \in SUBSET Histories, NEW window \in Windows
  PROVE  Parity(williams_r(window), T)
<1> PICK R : R = {High, Low, CloseSplit}
  OBVIOUS
<1>0. /\ R \in SUBSET Roles
      /\ T \in SUBSET Histories
      /\ window \in Nat \ {0}
      /\ High \in R /\ Low \in R /\ CloseSplit \in R
      /\ window = 1 + window - 1 /\ window <= window /\ 1 <= window
  BY DEF Roles, Prices, Sizes, Windows
<1>1. Windowed(Col(High), 1, R, T)
  BY <1>0, ColRule
<1>2. Windowed(Rolling("max", Col(High), window), window, R, T)
  BY <1>1, <1>0, RollingRule DEF RollingOps, DispersionOps
<1>3. Windowed(Col(Low), 1, R, T)
  BY <1>0, ColRule
<1>4. Windowed(Rolling("min", Col(Low), window), window, R, T)
  BY <1>3, <1>0, RollingRule DEF RollingOps, DispersionOps
<1>5. Windowed(Col(CloseSplit), 1, R, T)
  BY <1>0, ColRule
<1>6. Windowed(Minus(Rolling("max", Col(High), window), Col(CloseSplit)), window, R, T)
  BY <1>2, <1>5, <1>0, PairRule
<1>7. Windowed(Minus(Rolling("max", Col(High), window), Rolling("min", Col(Low), window)),
           window, R, T)
  BY <1>2, <1>4, <1>0, PairRule
<1>8. Windowed(safe_div(Minus(Rolling("max", Col(High), window), Col(CloseSplit)),
           Minus(Rolling("max", Col(High), window), Rolling("min", Col(Low), window))), window,
           R, T)
  BY <1>6, <1>7, <1>0, PairRule
<1> QED BY <1>8, <1>0, FiniteParity DEF williams_r, Oscillator, Highest, Lowest, stoch_k_core

(* stoch_k reads the bars and the roles it declares, and no other. *)
LEMMA StochK ==
  ASSUME NEW T \in SUBSET Histories, NEW window \in Windows
  PROVE  Parity(stoch_k(window), T)
<1> PICK R : R = {High, Low, CloseSplit}
  OBVIOUS
<1>0. /\ R \in SUBSET Roles
      /\ T \in SUBSET Histories
      /\ window \in Nat \ {0}
      /\ High \in R /\ Low \in R /\ CloseSplit \in R
      /\ window = 1 + window - 1 /\ 1 <= window /\ window <= window
  BY DEF Roles, Prices, Sizes, Windows
<1>1. Windowed(Col(High), 1, R, T)
  BY <1>0, ColRule
<1>2. Windowed(Rolling("max", Col(High), window), window, R, T)
  BY <1>1, <1>0, RollingRule DEF RollingOps, DispersionOps
<1>3. Windowed(Col(Low), 1, R, T)
  BY <1>0, ColRule
<1>4. Windowed(Rolling("min", Col(Low), window), window, R, T)
  BY <1>3, <1>0, RollingRule DEF RollingOps, DispersionOps
<1>5. Windowed(Col(CloseSplit), 1, R, T)
  BY <1>0, ColRule
<1>6. Windowed(Minus(Col(CloseSplit), Rolling("min", Col(Low), window)), window, R, T)
  BY <1>5, <1>4, <1>0, PairRule
<1>7. Windowed(Minus(Rolling("max", Col(High), window), Rolling("min", Col(Low), window)),
           window, R, T)
  BY <1>2, <1>4, <1>0, PairRule
<1>8. Windowed(safe_div(Minus(Col(CloseSplit), Rolling("min", Col(Low), window)),
           Minus(Rolling("max", Col(High), window), Rolling("min", Col(Low), window))), window,
           R, T)
  BY <1>6, <1>7, <1>0, PairRule
<1> QED BY <1>8, <1>0, FiniteParity DEF stoch_k, Oscillator, Highest, Lowest, stoch_k_core

(* stoch_d reads the bars and the roles it declares, and no other. *)
LEMMA StochD ==
  ASSUME NEW T \in SUBSET Histories, NEW window \in Windows, NEW smooth \in Periods
  PROVE  Parity(stoch_d(window, smooth), T)
<1> PICK R : R = {High, Low, CloseSplit}
  OBVIOUS
<1> PICK h : h = smooth + window - 1
  OBVIOUS
<1>0. /\ R \in SUBSET Roles
      /\ T \in SUBSET Histories
      /\ window \in Nat \ {0} /\ smooth \in Nat \ {0}
      /\ High \in R /\ Low \in R /\ CloseSplit \in R
      /\ window = 1 + window - 1 /\ 1 <= window /\ window <= window /\ h = window + smooth - 1
      /\ h \in Nat \ {0} /\ h = window + smooth - 1
  BY DEF Roles, Prices, Sizes, Windows, Periods
<1>1. Windowed(Col(High), 1, R, T)
  BY <1>0, ColRule
<1>2. Windowed(Rolling("max", Col(High), window), window, R, T)
  BY <1>1, <1>0, RollingRule DEF RollingOps, DispersionOps
<1>3. Windowed(Col(Low), 1, R, T)
  BY <1>0, ColRule
<1>4. Windowed(Rolling("min", Col(Low), window), window, R, T)
  BY <1>3, <1>0, RollingRule DEF RollingOps, DispersionOps
<1>5. Windowed(Col(CloseSplit), 1, R, T)
  BY <1>0, ColRule
<1>6. Windowed(Minus(Col(CloseSplit), Rolling("min", Col(Low), window)), window, R, T)
  BY <1>5, <1>4, <1>0, PairRule
<1>7. Windowed(Minus(Rolling("max", Col(High), window), Rolling("min", Col(Low), window)),
           window, R, T)
  BY <1>2, <1>4, <1>0, PairRule
<1>8. Windowed(safe_div(Minus(Col(CloseSplit), Rolling("min", Col(Low), window)),
           Minus(Rolling("max", Col(High), window), Rolling("min", Col(Low), window))), window,
           R, T)
  BY <1>6, <1>7, <1>0, PairRule
<1>9. Windowed(mean(safe_div(Minus(Col(CloseSplit), Rolling("min", Col(Low), window)),
           Minus(Rolling("max", Col(High), window), Rolling("min", Col(Low), window))), smooth),
           h, R, T)
  BY <1>8, <1>0, WindowRule
<1> QED BY <1>9, <1>0, FiniteParity DEF stoch_d, Oscillator, Highest, Lowest, stoch_k_core

(* cci reads the bars and the roles it declares, and no other. *)
LEMMA Cci ==
  ASSUME NEW T \in SUBSET Histories, NEW window \in Windows
  PROVE  Parity(cci(window), T)
<1> PICK R : R = {High, Low, CloseSplit}
  OBVIOUS
<1>0. /\ R \in SUBSET Roles
      /\ T \in SUBSET Histories
      /\ window \in Nat \ {0}
      /\ High \in R /\ Low \in R /\ CloseSplit \in R
      /\ window = 1 + window - 1 /\ 1 <= window /\ window <= window
  BY DEF Roles, Prices, Sizes, Windows
<1>1. Windowed(Col(High), 1, R, T)
  BY <1>0, ColRule
<1>2. Windowed(Col(Low), 1, R, T)
  BY <1>0, ColRule
<1>3. Windowed(Col(CloseSplit), 1, R, T)
  BY <1>0, ColRule
<1>4. Windowed(Plus(Col(High), Col(Low)), 1, R, T)
  BY <1>1, <1>2, <1>0, PairRule
<1>5. Windowed(Plus(Plus(Col(High), Col(Low)), Col(CloseSplit)), 1, R, T)
  BY <1>4, <1>3, <1>0, PairRule
<1>6. Windowed(Typical, 1, R, T)
  BY <1>5 DEF Typical
<1>7. Windowed(mean(Typical, window), window, R, T)
  BY <1>6, <1>0, WindowRule
<1>8. Windowed(Minus(Typical, mean(Typical, window)), window, R, T)
  BY <1>6, <1>7, <1>0, PairRule
<1>9. Windowed(Rolling("mad", Typical, window), window, R, T)
  BY <1>6, <1>0, RollingRule DEF RollingOps, DispersionOps
<1>10. Windowed(safe_div(Minus(Typical, mean(Typical, window)), Rolling("mad", Typical,
            window)), window, R, T)
  BY <1>8, <1>9, <1>0, PairRule
<1> QED BY <1>10, <1>0, FiniteParity DEF cci

(* vol_cc reads the bars and the roles it declares, and no other. *)
LEMMA VolCc ==
  ASSUME NEW T \in SUBSET Histories, NEW window \in Windows
  PROVE  Parity(vol_cc(window), T)
<1> PICK R : R = {Close}
  OBVIOUS
<1> PICK h : h = window + 1
  OBVIOUS
<1>0. /\ R \in SUBSET Roles
      /\ T \in SUBSET Histories
      /\ window \in Nat \ {0}
      /\ Close \in R
      /\ h = 2 + window - 1 /\ h \in Nat \ {0}
  BY DEF Roles, Prices, Sizes, Windows
<1>1. Windowed(bar_return(Close), 2, R, T)
  BY <1>0, BarReturnRule
<1>2. Windowed(std(bar_return(Close), window), h, R, T)
  BY <1>1, <1>0, WindowRule
<1> QED BY <1>2, <1>0, FiniteParity DEF vol_cc

(* semivar_down reads the bars and the roles it declares, and no other. *)
LEMMA SemivarDown ==
  ASSUME NEW T \in SUBSET Histories, NEW window \in Windows
  PROVE  Parity(semivar_down(window), T)
<1> PICK R : R = {Close}
  OBVIOUS
<1> PICK h : h = window + 1
  OBVIOUS
<1>0. /\ R \in SUBSET Roles
      /\ T \in SUBSET Histories
      /\ window \in Nat \ {0}
      /\ Close \in R
      /\ h = 2 + window - 1 /\ h \in Nat \ {0}
  BY DEF Roles, Prices, Sizes, Windows
<1>1. Windowed(bar_return(Close), 2, R, T)
  BY <1>0, BarReturnRule
<1>2. Windowed(Down(bar_return(Close)), 2, R, T)
  BY <1>1, <1>0, OneRule
<1>3. Windowed(Square(Down(bar_return(Close))), 2, R, T)
  BY <1>2, <1>0, OneRule
<1>4. Windowed(mean(Square(Down(bar_return(Close))), window), h, R, T)
  BY <1>3, <1>0, WindowRule
<1>5. Windowed(safe_sqrt(mean(Square(Down(bar_return(Close))), window)), h, R, T)
  BY <1>4, <1>0, OneRule
<1> QED BY <1>5, <1>0, FiniteParity DEF semivar_down

(* vol_parkinson reads the bars and the roles it declares, and no other. *)
LEMMA VolParkinson ==
  ASSUME NEW T \in SUBSET Positive({Low}), NEW window \in Windows
  PROVE  Parity(vol_parkinson(window), T)
<1> PICK R : R = {High, Low}
  OBVIOUS
<1>0. /\ R \in SUBSET Roles
      /\ T \in SUBSET Histories
      /\ window \in Nat \ {0}
      /\ High \in R /\ Low \in R
      /\ window = 1 + window - 1 /\ window = window + 0 /\ Low \in {Low}
  BY DEF Roles, Prices, Sizes, Windows, Positive
<1>1. Windowed(Col(High), 1, R, T)
  BY <1>0, ColRule
<1>2. Windowed(Col(Low), 1, R, T)
  BY <1>0, ColRule
<1>3. Divides(Col(Low), R, T)
  BY <1>0, ColDivides
<1>4. Windowed(Over(Col(High), Col(Low)), 1, R, T)
  BY <1>1, <1>2, <1>3, <1>0, OverRule
<1>5. Windowed(safe_log(Over(Col(High), Col(Low))), 1, R, T)
  BY <1>4, <1>0, OneRule
<1>6. Windowed(LogRatio(High, Low), 1, R, T)
  BY <1>5 DEF LogRatio
<1>7. Windowed(Square(LogRatio(High, Low)), 1, R, T)
  BY <1>6, <1>0, OneRule
<1>8. Windowed(mean(Square(LogRatio(High, Low)), window), window, R, T)
  BY <1>7, <1>0, WindowRule
<1>9. Windowed(safe_sqrt(mean(Square(LogRatio(High, Low)), window)), window, R, T)
  BY <1>8, <1>0, OneRule
<1> QED BY <1>9, <1>0, FiniteParity DEF vol_parkinson, RangeFeature, Ohlc

(* vol_gk reads the bars and the roles it declares, and no other. *)
LEMMA VolGk ==
  ASSUME NEW T \in SUBSET Positive({Low, Open}), NEW window \in Windows
  PROVE  Parity(vol_gk(window), T)
<1> PICK R : R = {Open, High, Low, CloseSplit}
  OBVIOUS
<1>0. /\ R \in SUBSET Roles
      /\ T \in SUBSET Histories
      /\ window \in Nat \ {0}
      /\ Open \in R /\ High \in R /\ Low \in R /\ CloseSplit \in R
      /\ window = 1 + window - 1 /\ window = window + 0
      /\ Low \in {Low, Open} /\ Open \in {Low, Open}
  BY DEF Roles, Prices, Sizes, Windows, Positive
<1>1. Windowed(Col(High), 1, R, T)
  BY <1>0, ColRule
<1>2. Windowed(Col(Low), 1, R, T)
  BY <1>0, ColRule
<1>3. Divides(Col(Low), R, T)
  BY <1>0, ColDivides
<1>4. Windowed(Over(Col(High), Col(Low)), 1, R, T)
  BY <1>1, <1>2, <1>3, <1>0, OverRule
<1>5. Windowed(safe_log(Over(Col(High), Col(Low))), 1, R, T)
  BY <1>4, <1>0, OneRule
<1>6. Windowed(LogRatio(High, Low), 1, R, T)
  BY <1>5 DEF LogRatio
<1>7. Windowed(Square(LogRatio(High, Low)), 1, R, T)
  BY <1>6, <1>0, OneRule
<1>8. Windowed(Col(CloseSplit), 1, R, T)
  BY <1>0, ColRule
<1>9. Windowed(Col(Open), 1, R, T)
  BY <1>0, ColRule
<1>10. Divides(Col(Open), R, T)
  BY <1>0, ColDivides
<1>11. Windowed(Over(Col(CloseSplit), Col(Open)), 1, R, T)
  BY <1>8, <1>9, <1>10, <1>0, OverRule
<1>12. Windowed(safe_log(Over(Col(CloseSplit), Col(Open))), 1, R, T)
  BY <1>11, <1>0, OneRule
<1>13. Windowed(LogRatio(CloseSplit, Open), 1, R, T)
  BY <1>12 DEF LogRatio
<1>14. Windowed(Square(LogRatio(CloseSplit, Open)), 1, R, T)
  BY <1>13, <1>0, OneRule
<1>15. Windowed(Minus(Square(LogRatio(High, Low)), Square(LogRatio(CloseSplit, Open))), 1, R, T)
  BY <1>7, <1>14, <1>0, PairRule
<1>16. Windowed(mean(Minus(Square(LogRatio(High, Low)), Square(LogRatio(CloseSplit, Open))),
            window), window, R, T)
  BY <1>15, <1>0, WindowRule
<1>17. Windowed(safe_sqrt(mean(Minus(Square(LogRatio(High, Low)), Square(LogRatio(CloseSplit,
            Open))), window)), window, R, T)
  BY <1>16, <1>0, OneRule
<1> QED BY <1>17, <1>0, FiniteParity DEF vol_gk, RangeFeature, Ohlc

(* vol_rs reads the bars and the roles it declares, and no other. *)
LEMMA VolRs ==
  ASSUME NEW T \in SUBSET Positive({CloseSplit, Open}), NEW window \in Windows
  PROVE  Parity(vol_rs(window), T)
<1> PICK R : R = {Open, High, Low, CloseSplit}
  OBVIOUS
<1>0. /\ R \in SUBSET Roles
      /\ T \in SUBSET Histories
      /\ window \in Nat \ {0}
      /\ Open \in R /\ High \in R /\ Low \in R /\ CloseSplit \in R
      /\ window = 1 + window - 1 /\ window = window + 0
      /\ CloseSplit \in {CloseSplit, Open} /\ Open \in {CloseSplit, Open}
  BY DEF Roles, Prices, Sizes, Windows, Positive
<1>1. Windowed(Col(High), 1, R, T)
  BY <1>0, ColRule
<1>2. Windowed(Col(CloseSplit), 1, R, T)
  BY <1>0, ColRule
<1>3. Divides(Col(CloseSplit), R, T)
  BY <1>0, ColDivides
<1>4. Windowed(Over(Col(High), Col(CloseSplit)), 1, R, T)
  BY <1>1, <1>2, <1>3, <1>0, OverRule
<1>5. Windowed(safe_log(Over(Col(High), Col(CloseSplit))), 1, R, T)
  BY <1>4, <1>0, OneRule
<1>6. Windowed(LogRatio(High, CloseSplit), 1, R, T)
  BY <1>5 DEF LogRatio
<1>7. Windowed(Col(Open), 1, R, T)
  BY <1>0, ColRule
<1>8. Divides(Col(Open), R, T)
  BY <1>0, ColDivides
<1>9. Windowed(Over(Col(High), Col(Open)), 1, R, T)
  BY <1>1, <1>7, <1>8, <1>0, OverRule
<1>10. Windowed(safe_log(Over(Col(High), Col(Open))), 1, R, T)
  BY <1>9, <1>0, OneRule
<1>11. Windowed(LogRatio(High, Open), 1, R, T)
  BY <1>10 DEF LogRatio
<1>12. Windowed(Times(LogRatio(High, CloseSplit), LogRatio(High, Open)), 1, R, T)
  BY <1>6, <1>11, <1>0, PairRule
<1>13. Windowed(Col(Low), 1, R, T)
  BY <1>0, ColRule
<1>14. Windowed(Over(Col(Low), Col(CloseSplit)), 1, R, T)
  BY <1>13, <1>2, <1>3, <1>0, OverRule
<1>15. Windowed(safe_log(Over(Col(Low), Col(CloseSplit))), 1, R, T)
  BY <1>14, <1>0, OneRule
<1>16. Windowed(LogRatio(Low, CloseSplit), 1, R, T)
  BY <1>15 DEF LogRatio
<1>17. Windowed(Over(Col(Low), Col(Open)), 1, R, T)
  BY <1>13, <1>7, <1>8, <1>0, OverRule
<1>18. Windowed(safe_log(Over(Col(Low), Col(Open))), 1, R, T)
  BY <1>17, <1>0, OneRule
<1>19. Windowed(LogRatio(Low, Open), 1, R, T)
  BY <1>18 DEF LogRatio
<1>20. Windowed(Times(LogRatio(Low, CloseSplit), LogRatio(Low, Open)), 1, R, T)
  BY <1>16, <1>19, <1>0, PairRule
<1>21. Windowed(Plus(Times(LogRatio(High, CloseSplit), LogRatio(High, Open)),
            Times(LogRatio(Low, CloseSplit), LogRatio(Low, Open))), 1, R, T)
  BY <1>12, <1>20, <1>0, PairRule
<1>22. Windowed(rs_term, 1, R, T)
  BY <1>21 DEF rs_term
<1>23. Windowed(mean(rs_term, window), window, R, T)
  BY <1>22, <1>0, WindowRule
<1>24. Windowed(safe_sqrt(mean(rs_term, window)), window, R, T)
  BY <1>23, <1>0, OneRule
<1> QED BY <1>24, <1>0, FiniteParity DEF vol_rs, RangeFeature, Ohlc

(* vol_yz reads the bars and the roles it declares, and no other. *)
LEMMA VolYz ==
  ASSUME NEW T \in SUBSET Positive({CloseSplit, Open}), NEW window \in Windows
  PROVE  Parity(vol_yz(window), T)
<1> PICK R : R = {Open, High, Low, CloseSplit}
  OBVIOUS
<1> PICK h : h = window + 1
  OBVIOUS
<1>0. /\ R \in SUBSET Roles
      /\ T \in SUBSET Histories
      /\ window \in Nat \ {0}
      /\ Open \in R /\ High \in R /\ Low \in R /\ CloseSplit \in R
      /\ 2 = 1 + 1 /\ 1 <= 2 /\ 2 <= 2 /\ h = 2 + window - 1
      /\ window = 1 + window - 1 /\ h <= h /\ window <= h /\ h \in Nat \ {0}
      /\ CloseSplit \in {CloseSplit, Open} /\ Open \in {CloseSplit, Open}
  BY DEF Roles, Prices, Sizes, Windows, Positive
<1>1. Windowed(Col(CloseSplit), 1, R, T)
  BY <1>0, ColRule
<1>2. Windowed(Shift(Col(CloseSplit), 1), 2, R, T)
  BY <1>1, <1>0, ShiftRule
<1>3. Windowed(Col(Open), 1, R, T)
  BY <1>0, ColRule
<1>4. Divides(Col(CloseSplit), R, T)
  BY <1>0, ColDivides
<1>5. Divides(Shift(Col(CloseSplit), 1), R, T)
  BY <1>1, <1>4, <1>0, ShiftDivides
<1>6. Windowed(Over(Col(Open), Shift(Col(CloseSplit), 1)), 2, R, T)
  BY <1>3, <1>2, <1>5, <1>0, OverRule
<1>7. Windowed(safe_log(Over(Col(Open), Shift(Col(CloseSplit), 1))), 2, R, T)
  BY <1>6, <1>0, OneRule
<1>8. Windowed(Rolling("var", safe_log(Over(Col(Open), Shift(Col(CloseSplit), 1))), window), h,
           R, T)
  BY <1>7, <1>0, RollingRule DEF RollingOps, DispersionOps
<1>9. Divides(Col(Open), R, T)
  BY <1>0, ColDivides
<1>10. Windowed(Over(Col(CloseSplit), Col(Open)), 1, R, T)
  BY <1>1, <1>3, <1>9, <1>0, OverRule
<1>11. Windowed(safe_log(Over(Col(CloseSplit), Col(Open))), 1, R, T)
  BY <1>10, <1>0, OneRule
<1>12. Windowed(LogRatio(CloseSplit, Open), 1, R, T)
  BY <1>11 DEF LogRatio
<1>13. Windowed(Rolling("var", LogRatio(CloseSplit, Open), window), window, R, T)
  BY <1>12, <1>0, RollingRule DEF RollingOps, DispersionOps
<1>14. Windowed(Plus(Rolling("var", safe_log(Over(Col(Open), Shift(Col(CloseSplit), 1))),
            window), Rolling("var", LogRatio(CloseSplit, Open), window)), h, R, T)
  BY <1>8, <1>13, <1>0, PairRule
<1>15. Windowed(Col(High), 1, R, T)
  BY <1>0, ColRule
<1>16. Windowed(Over(Col(High), Col(CloseSplit)), 1, R, T)
  BY <1>15, <1>1, <1>4, <1>0, OverRule
<1>17. Windowed(safe_log(Over(Col(High), Col(CloseSplit))), 1, R, T)
  BY <1>16, <1>0, OneRule
<1>18. Windowed(LogRatio(High, CloseSplit), 1, R, T)
  BY <1>17 DEF LogRatio
<1>19. Windowed(Over(Col(High), Col(Open)), 1, R, T)
  BY <1>15, <1>3, <1>9, <1>0, OverRule
<1>20. Windowed(safe_log(Over(Col(High), Col(Open))), 1, R, T)
  BY <1>19, <1>0, OneRule
<1>21. Windowed(LogRatio(High, Open), 1, R, T)
  BY <1>20 DEF LogRatio
<1>22. Windowed(Times(LogRatio(High, CloseSplit), LogRatio(High, Open)), 1, R, T)
  BY <1>18, <1>21, <1>0, PairRule
<1>23. Windowed(Col(Low), 1, R, T)
  BY <1>0, ColRule
<1>24. Windowed(Over(Col(Low), Col(CloseSplit)), 1, R, T)
  BY <1>23, <1>1, <1>4, <1>0, OverRule
<1>25. Windowed(safe_log(Over(Col(Low), Col(CloseSplit))), 1, R, T)
  BY <1>24, <1>0, OneRule
<1>26. Windowed(LogRatio(Low, CloseSplit), 1, R, T)
  BY <1>25 DEF LogRatio
<1>27. Windowed(Over(Col(Low), Col(Open)), 1, R, T)
  BY <1>23, <1>3, <1>9, <1>0, OverRule
<1>28. Windowed(safe_log(Over(Col(Low), Col(Open))), 1, R, T)
  BY <1>27, <1>0, OneRule
<1>29. Windowed(LogRatio(Low, Open), 1, R, T)
  BY <1>28 DEF LogRatio
<1>30. Windowed(Times(LogRatio(Low, CloseSplit), LogRatio(Low, Open)), 1, R, T)
  BY <1>26, <1>29, <1>0, PairRule
<1>31. Windowed(Plus(Times(LogRatio(High, CloseSplit), LogRatio(High, Open)),
            Times(LogRatio(Low, CloseSplit), LogRatio(Low, Open))), 1, R, T)
  BY <1>22, <1>30, <1>0, PairRule
<1>32. Windowed(rs_term, 1, R, T)
  BY <1>31 DEF rs_term
<1>33. Windowed(mean(rs_term, window), window, R, T)
  BY <1>32, <1>0, WindowRule
<1>34. Windowed(Plus(Plus(Rolling("var", safe_log(Over(Col(Open), Shift(Col(CloseSplit), 1))),
            window), Rolling("var", LogRatio(CloseSplit, Open), window)), mean(rs_term,
            window)), h, R, T)
  BY <1>14, <1>33, <1>0, PairRule
<1>35. Windowed(safe_sqrt(Plus(Plus(Rolling("var", safe_log(Over(Col(Open),
            Shift(Col(CloseSplit), 1))), window), Rolling("var", LogRatio(CloseSplit, Open),
            window)), mean(rs_term, window))), h, R, T)
  BY <1>34, <1>0, OneRule
<1> QED BY <1>35, <1>0, FiniteParity DEF vol_yz, RangeFeature, Ohlc

(* bb_pctb reads the bars and the roles it declares, and no other. *)
LEMMA BbPctb ==
  ASSUME NEW T \in SUBSET Histories, NEW window \in Windows
  PROVE  Parity(bb_pctb(window), T)
<1> PICK R : R = {CloseSplit}
  OBVIOUS
<1>0. /\ R \in SUBSET Roles
      /\ T \in SUBSET Histories
      /\ window \in Nat \ {0}
      /\ CloseSplit \in R
      /\ window = 1 + window - 1 /\ window <= window /\ 1 <= window
  BY DEF Roles, Prices, Sizes, Windows
<1>1. Windowed(Col(CloseSplit), 1, R, T)
  BY <1>0, ColRule
<1>2. Windowed(mean(Col(CloseSplit), window), window, R, T)
  BY <1>1, <1>0, WindowRule
<1>3. Windowed(std(Col(CloseSplit), window), window, R, T)
  BY <1>1, <1>0, WindowRule
<1>4. Windowed(Minus(mean(Col(CloseSplit), window), std(Col(CloseSplit), window)), window, R, T)
  BY <1>2, <1>3, <1>0, PairRule
<1>5. Windowed(Minus(Col(CloseSplit), Minus(mean(Col(CloseSplit), window), std(Col(CloseSplit),
           window))), window, R, T)
  BY <1>1, <1>4, <1>0, PairRule
<1>6. Windowed(safe_div(Minus(Col(CloseSplit), Minus(mean(Col(CloseSplit), window),
           std(Col(CloseSplit), window))), std(Col(CloseSplit), window)), window, R, T)
  BY <1>5, <1>3, <1>0, PairRule
<1> QED BY <1>6, <1>0, FiniteParity DEF bb_pctb, Mid, Half

(* bb_bw reads the bars and the roles it declares, and no other. *)
LEMMA BbBw ==
  ASSUME NEW T \in SUBSET Histories, NEW window \in Windows
  PROVE  Parity(bb_bw(window), T)
<1> PICK R : R = {CloseSplit}
  OBVIOUS
<1>0. /\ R \in SUBSET Roles
      /\ T \in SUBSET Histories
      /\ window \in Nat \ {0}
      /\ CloseSplit \in R
      /\ window = 1 + window - 1 /\ window <= window
  BY DEF Roles, Prices, Sizes, Windows
<1>1. Windowed(Col(CloseSplit), 1, R, T)
  BY <1>0, ColRule
<1>2. Windowed(std(Col(CloseSplit), window), window, R, T)
  BY <1>1, <1>0, WindowRule
<1>3. Windowed(mean(Col(CloseSplit), window), window, R, T)
  BY <1>1, <1>0, WindowRule
<1>4. Windowed(safe_div(std(Col(CloseSplit), window), mean(Col(CloseSplit), window)), window, R, T)
  BY <1>2, <1>3, <1>0, PairRule
<1> QED BY <1>4, <1>0, FiniteParity DEF bb_bw, Mid, Half

(* vol_z reads the bars and the roles it declares, and no other. *)
LEMMA VolZ ==
  ASSUME NEW T \in SUBSET Histories, NEW window \in Windows
  PROVE  Parity(vol_z(window), T)
<1> PICK R : R = {Volume}
  OBVIOUS
<1>0. /\ R \in SUBSET Roles
      /\ T \in SUBSET Histories
      /\ window \in Nat \ {0}
      /\ Volume \in R
      /\ window = 1 + window - 1
  BY DEF Roles, Prices, Sizes, Windows
<1>1. Windowed(Col(Volume), 1, R, T)
  BY <1>0, ColRule
<1>2. Windowed(Standard(Col(Volume), window), window, R, T)
  BY <1>1, <1>0, WindowRule
<1> QED BY <1>2, <1>0, FiniteParity DEF vol_z

(* rel_volume reads the bars and the roles it declares, and no other. *)
LEMMA RelVolume ==
  ASSUME NEW T \in SUBSET Histories, NEW window \in Windows
  PROVE  Parity(rel_volume(window), T)
<1> PICK R : R = {Volume}
  OBVIOUS
<1>0. /\ R \in SUBSET Roles
      /\ T \in SUBSET Histories
      /\ window \in Nat \ {0}
      /\ Volume \in R
      /\ window = 1 + window - 1 /\ 1 <= window /\ window <= window
  BY DEF Roles, Prices, Sizes, Windows
<1>1. Windowed(Col(Volume), 1, R, T)
  BY <1>0, ColRule
<1>2. Windowed(mean(Col(Volume), window), window, R, T)
  BY <1>1, <1>0, WindowRule
<1>3. Windowed(safe_div(Col(Volume), mean(Col(Volume), window)), window, R, T)
  BY <1>1, <1>2, <1>0, PairRule
<1> QED BY <1>3, <1>0, FiniteParity DEF rel_volume

(* amihud reads the bars and the roles it declares, and no other. *)
LEMMA Amihud ==
  ASSUME NEW T \in SUBSET Histories, NEW window \in Windows
  PROVE  Parity(amihud(window), T)
<1> PICK R : R = {Close, Dvol}
  OBVIOUS
<1> PICK h : h = window + 1
  OBVIOUS
<1>0. /\ R \in SUBSET Roles
      /\ T \in SUBSET Histories
      /\ window \in Nat \ {0}
      /\ Close \in R /\ Dvol \in R
      /\ 2 <= 2 /\ 1 <= 2 /\ h = 2 + window - 1 /\ h \in Nat \ {0}
  BY DEF Roles, Prices, Sizes, Windows
<1>1. Windowed(bar_return(Close), 2, R, T)
  BY <1>0, BarReturnRule
<1>2. Windowed(Abs(bar_return(Close)), 2, R, T)
  BY <1>1, <1>0, OneRule
<1>3. Windowed(Col(Dvol), 1, R, T)
  BY <1>0, ColRule
<1>4. Windowed(safe_div(Abs(bar_return(Close)), Col(Dvol)), 2, R, T)
  BY <1>2, <1>3, <1>0, PairRule
<1>5. Windowed(mean(safe_div(Abs(bar_return(Close)), Col(Dvol)), window), h, R, T)
  BY <1>4, <1>0, WindowRule
<1> QED BY <1>5, <1>0, FiniteParity DEF amihud

(* vwap_dist_close reads the bars and the roles it declares, and no other. *)
LEMMA VwapDistClose ==
  ASSUME NEW T \in SUBSET Histories
  PROVE  Parity(vwap_dist_close, T)
<1> PICK R : R = {CloseSplit, Vwap}
  OBVIOUS
<1>0. /\ R \in SUBSET Roles
      /\ T \in SUBSET Histories
      /\ CloseSplit \in R /\ Vwap \in R
  BY DEF Roles, Prices, Sizes
<1>1. Windowed(Col(CloseSplit), 1, R, T)
  BY <1>0, ColRule
<1>2. Windowed(Col(Vwap), 1, R, T)
  BY <1>0, ColRule
<1>3. Windowed(safe_div(Col(CloseSplit), Col(Vwap)), 1, R, T)
  BY <1>1, <1>2, <1>0, PairRule
<1> QED BY <1>3, <1>0, FiniteParity DEF vwap_dist_close

(* roll_spread reads the bars and the roles it declares, and no other. *)
LEMMA RollSpread ==
  ASSUME NEW T \in SUBSET Histories, NEW window \in Windows
  PROVE  Parity(roll_spread(window), T)
<1> PICK R : R = {Close}
  OBVIOUS
<1> PICK h : h = window + 2
  OBVIOUS
<1>0. /\ R \in SUBSET Roles
      /\ T \in SUBSET Histories
      /\ window \in Nat \ {0}
      /\ Close \in R
      /\ 2 = 1 + 1 /\ 3 = 2 + 1 /\ 2 <= 3 /\ 3 <= 3
      /\ h = 3 + window - 1 /\ h \in Nat \ {0}
  BY DEF Roles, Prices, Sizes, Windows
<1>1. Windowed(Col(Close), 1, R, T)
  BY <1>0, ColRule
<1>2. Windowed(Diff(Col(Close)), 2, R, T)
  BY <1>1, <1>0, DiffRule
<1>3. Windowed(Shift(Diff(Col(Close)), 1), 3, R, T)
  BY <1>2, <1>0, ShiftRule
<1>4. Windowed(rolling_cov(Diff(Col(Close)), Shift(Diff(Col(Close)), 1), window), h, R, T)
  BY <1>2, <1>3, <1>0, CovRight
<1>5. Windowed(Unary("negative", rolling_cov(Diff(Col(Close)), Shift(Diff(Col(Close)), 1),
           window)), h, R, T)
  BY <1>4, <1>0, UnaryRule DEF UnaryOps
<1> QED BY <1>5, <1>0, FiniteParity DEF roll_spread

(* dollar_vol reads the bars and the roles it declares, and no other. *)
LEMMA DollarVol ==
  ASSUME NEW T \in SUBSET Histories
  PROVE  Parity(dollar_vol, T)
<1> PICK R : R = {CloseSplit, Volume}
  OBVIOUS
<1>0. /\ R \in SUBSET Roles
      /\ T \in SUBSET Histories
      /\ CloseSplit \in R /\ Volume \in R
  BY DEF Roles, Prices, Sizes
<1>1. Windowed(Col(CloseSplit), 1, R, T)
  BY <1>0, ColRule
<1>2. Windowed(Col(Volume), 1, R, T)
  BY <1>0, ColRule
<1>3. Windowed(Times(Col(CloseSplit), Col(Volume)), 1, R, T)
  BY <1>1, <1>2, <1>0, PairRule
<1>4. Windowed(DollarVolume, 1, R, T)
  BY <1>3 DEF DollarVolume
<1> QED BY <1>4, <1>0, FiniteParity DEF dollar_vol

(* adv reads the bars and the roles it declares, and no other. *)
LEMMA Adv ==
  ASSUME NEW T \in SUBSET Histories, NEW window \in Windows
  PROVE  Parity(adv(window), T)
<1> PICK R : R = {CloseSplit, Volume}
  OBVIOUS
<1>0. /\ R \in SUBSET Roles
      /\ T \in SUBSET Histories
      /\ window \in Nat \ {0}
      /\ CloseSplit \in R /\ Volume \in R
      /\ window = 1 + window - 1
  BY DEF Roles, Prices, Sizes, Windows
<1>1. Windowed(Col(CloseSplit), 1, R, T)
  BY <1>0, ColRule
<1>2. Windowed(Col(Volume), 1, R, T)
  BY <1>0, ColRule
<1>3. Windowed(Times(Col(CloseSplit), Col(Volume)), 1, R, T)
  BY <1>1, <1>2, <1>0, PairRule
<1>4. Windowed(DollarVolume, 1, R, T)
  BY <1>3 DEF DollarVolume
<1>5. Windowed(mean(DollarVolume, window), window, R, T)
  BY <1>4, <1>0, WindowRule
<1> QED BY <1>5, <1>0, FiniteParity DEF adv

(* signed_vol reads the bars and the roles it declares, and no other. *)
LEMMA SignedVol ==
  ASSUME NEW T \in SUBSET Histories, NEW window \in Windows
  PROVE  Parity(signed_vol(window), T)
<1> PICK R : R = {Close, Volume}
  OBVIOUS
<1> PICK h : h = window + 1
  OBVIOUS
<1>0. /\ R \in SUBSET Roles
      /\ T \in SUBSET Histories
      /\ window \in Nat \ {0}
      /\ Close \in R /\ Volume \in R
      /\ 2 = 1 + 1 /\ 2 <= 2 /\ 1 <= 2 /\ h = 2 + window - 1
      /\ h \in Nat \ {0}
  BY DEF Roles, Prices, Sizes, Windows
<1>1. Windowed(Col(Close), 1, R, T)
  BY <1>0, ColRule
<1>2. Windowed(Diff(Col(Close)), 2, R, T)
  BY <1>1, <1>0, DiffRule
<1>3. Windowed(Unary("sign", Diff(Col(Close))), 2, R, T)
  BY <1>2, <1>0, UnaryRule DEF UnaryOps
<1>4. Windowed(Col(Volume), 1, R, T)
  BY <1>0, ColRule
<1>5. Windowed(Times(Unary("sign", Diff(Col(Close))), Col(Volume)), 2, R, T)
  BY <1>3, <1>4, <1>0, PairRule
<1>6. Windowed(sum(Times(Unary("sign", Diff(Col(Close))), Col(Volume)), window), h, R, T)
  BY <1>5, <1>0, WindowRule
<1> QED BY <1>6, <1>0, FiniteParity DEF signed_vol

(* skew reads the bars and the roles it declares, and no other. *)
LEMMA Skew ==
  ASSUME NEW T \in SUBSET Histories, NEW window \in Windows
  PROVE  Parity(skew(window), T)
<1> PICK R : R = {Close}
  OBVIOUS
<1> PICK h : h = window + 1
  OBVIOUS
<1>0. /\ R \in SUBSET Roles
      /\ T \in SUBSET Histories
      /\ window \in Nat \ {0}
      /\ Close \in R
      /\ h = 2 + window - 1 /\ h \in Nat \ {0}
  BY DEF Roles, Prices, Sizes, Windows
<1>1. Windowed(bar_return(Close), 2, R, T)
  BY <1>0, BarReturnRule
<1>2. Windowed(FillNan(Rolling("moment", bar_return(Close), window)), h, R, T)
  BY <1>1, <1>0, MomentRule
<1> QED BY <1>2, <1>0, FiniteParity DEF skew, DistFeature

(* kurt reads the bars and the roles it declares, and no other. *)
LEMMA Kurt ==
  ASSUME NEW T \in SUBSET Histories, NEW window \in Windows
  PROVE  Parity(kurt(window), T)
<1> PICK R : R = {Close}
  OBVIOUS
<1> PICK h : h = window + 1
  OBVIOUS
<1>0. /\ R \in SUBSET Roles
      /\ T \in SUBSET Histories
      /\ window \in Nat \ {0}
      /\ Close \in R
      /\ h = 2 + window - 1 /\ h \in Nat \ {0}
  BY DEF Roles, Prices, Sizes, Windows
<1>1. Windowed(bar_return(Close), 2, R, T)
  BY <1>0, BarReturnRule
<1>2. Windowed(FillNan(Rolling("moment", bar_return(Close), window)), h, R, T)
  BY <1>1, <1>0, MomentRule
<1> QED BY <1>2, <1>0, FiniteParity DEF kurt, DistFeature

(* downside_dev reads the bars and the roles it declares, and no other. *)
LEMMA DownsideDev ==
  ASSUME NEW T \in SUBSET Histories, NEW window \in Windows
  PROVE  Parity(downside_dev(window), T)
<1> PICK R : R = {Close}
  OBVIOUS
<1> PICK h : h = window + 1
  OBVIOUS
<1>0. /\ R \in SUBSET Roles
      /\ T \in SUBSET Histories
      /\ window \in Nat \ {0}
      /\ Close \in R
      /\ h = 2 + window - 1 /\ h \in Nat \ {0}
  BY DEF Roles, Prices, Sizes, Windows
<1>1. Windowed(bar_return(Close), 2, R, T)
  BY <1>0, BarReturnRule
<1>2. Windowed(Down(bar_return(Close)), 2, R, T)
  BY <1>1, <1>0, OneRule
<1>3. Windowed(Square(Down(bar_return(Close))), 2, R, T)
  BY <1>2, <1>0, OneRule
<1>4. Windowed(mean(Square(Down(bar_return(Close))), window), h, R, T)
  BY <1>3, <1>0, WindowRule
<1>5. Windowed(safe_sqrt(mean(Square(Down(bar_return(Close))), window)), h, R, T)
  BY <1>4, <1>0, OneRule
<1> QED BY <1>5, <1>0, FiniteParity DEF downside_dev, DistFeature

(* up_down_vol_ratio reads the bars and the roles it declares, and no       *)
LEMMA UpDownVolRatio ==
  ASSUME NEW T \in SUBSET Histories, NEW window \in Windows
  PROVE  Parity(up_down_vol_ratio(window), T)
<1> PICK R : R = {Close}
  OBVIOUS
<1> PICK h : h = window + 1
  OBVIOUS
<1>0. /\ R \in SUBSET Roles
      /\ T \in SUBSET Histories
      /\ window \in Nat \ {0}
      /\ Close \in R
      /\ h = 2 + window - 1 /\ h <= h /\ h \in Nat \ {0}
  BY DEF Roles, Prices, Sizes, Windows
<1>1. Windowed(bar_return(Close), 2, R, T)
  BY <1>0, BarReturnRule
<1>2. Windowed(Up(bar_return(Close)), 2, R, T)
  BY <1>1, <1>0, OneRule
<1>3. Windowed(Square(Up(bar_return(Close))), 2, R, T)
  BY <1>2, <1>0, OneRule
<1>4. Windowed(mean(Square(Up(bar_return(Close))), window), h, R, T)
  BY <1>3, <1>0, WindowRule
<1>5. Windowed(safe_sqrt(mean(Square(Up(bar_return(Close))), window)), h, R, T)
  BY <1>4, <1>0, OneRule
<1>6. Windowed(Down(bar_return(Close)), 2, R, T)
  BY <1>1, <1>0, OneRule
<1>7. Windowed(Square(Down(bar_return(Close))), 2, R, T)
  BY <1>6, <1>0, OneRule
<1>8. Windowed(mean(Square(Down(bar_return(Close))), window), h, R, T)
  BY <1>7, <1>0, WindowRule
<1>9. Windowed(safe_sqrt(mean(Square(Down(bar_return(Close))), window)), h, R, T)
  BY <1>8, <1>0, OneRule
<1>10. Windowed(safe_div(safe_sqrt(mean(Square(Up(bar_return(Close))), window)),
            safe_sqrt(mean(Square(Down(bar_return(Close))), window))), h, R, T)
  BY <1>5, <1>9, <1>0, PairRule
<1> QED BY <1>10, <1>0, FiniteParity DEF up_down_vol_ratio, DistFeature

(* zscore_close reads the bars and the roles it declares, and no other. *)
LEMMA ZscoreClose ==
  ASSUME NEW T \in SUBSET Histories, NEW window \in Windows
  PROVE  Parity(zscore_close(window), T)
<1> PICK R : R = {Close}
  OBVIOUS
<1>0. /\ R \in SUBSET Roles
      /\ T \in SUBSET Histories
      /\ window \in Nat \ {0}
      /\ Close \in R
      /\ window = 1 + window - 1
  BY DEF Roles, Prices, Sizes, Windows
<1>1. Windowed(Col(Close), 1, R, T)
  BY <1>0, ColRule
<1>2. Windowed(Standard(Col(Close), window), window, R, T)
  BY <1>1, <1>0, WindowRule
<1> QED BY <1>2, <1>0, FiniteParity DEF zscore_close

(* autocorr reads the bars and the roles it declares, and no other. *)
LEMMA Autocorr ==
  ASSUME NEW T \in SUBSET Histories, NEW lag \in Periods, NEW window \in Windows
  PROVE  Parity(autocorr(lag, window), T)
<1> PICK R : R = {Close}
  OBVIOUS
<1> PICK h : h = lag + 2
  OBVIOUS
<1> PICK k : k = lag + window + 1
  OBVIOUS
<1>0. /\ R \in SUBSET Roles
      /\ T \in SUBSET Histories
      /\ lag \in Nat \ {0} /\ window \in Nat \ {0}
      /\ Close \in R
      /\ h = 2 + lag /\ 2 <= h /\ h <= h /\ k = h + window - 1
      /\ h \in Nat \ {0} /\ k \in Nat \ {0} /\ k = window + lag + 1
  BY DEF Roles, Prices, Sizes, Windows, Periods
<1>1. Windowed(bar_return(Close), 2, R, T)
  BY <1>0, BarReturnRule
<1>2. Windowed(Shift(bar_return(Close), lag), h, R, T)
  BY <1>1, <1>0, ShiftRule
<1>3. Windowed(rolling_corr(bar_return(Close), Shift(bar_return(Close), lag), window), k, R, T)
  BY <1>1, <1>2, <1>0, CorrRight
<1> QED BY <1>3, <1>0, FiniteParity DEF autocorr

(* half_life reads the bars and the roles it declares, and no other. *)
LEMMA HalfLife ==
  ASSUME NEW T \in SUBSET Histories, NEW window \in Windows
  PROVE  Parity(half_life(window), T)
<1> PICK R : R = {Close}
  OBVIOUS
<1> PICK h : h = window + 1
  OBVIOUS
<1>0. /\ R \in SUBSET Roles
      /\ T \in SUBSET Histories
      /\ window \in Nat \ {0}
      /\ Close \in R
      /\ 2 = 1 + 1 /\ 2 <= 2 /\ h = 2 + window - 1 /\ h \in Nat \ {0}
  BY DEF Roles, Prices, Sizes, Windows
<1>1. Windowed(Col(Close), 1, R, T)
  BY <1>0, ColRule
<1>2. Windowed(Shift(Col(Close), 1), 2, R, T)
  BY <1>1, <1>0, ShiftRule
<1>3. Windowed(Diff(Col(Close)), 2, R, T)
  BY <1>1, <1>0, DiffRule
<1>4. Windowed(rolling_slope(Shift(Col(Close), 1), Diff(Col(Close)), window), h, R, T)
  BY <1>2, <1>3, <1>0, CorrLeft
<1>5. Windowed(Unary("negative", rolling_slope(Shift(Col(Close), 1), Diff(Col(Close)), window)),
           h, R, T)
  BY <1>4, <1>0, UnaryRule DEF UnaryOps
<1> QED BY <1>5, <1>0, FiniteParity DEF half_life

(* trade_imbalance reads the bars and the roles it declares, and no other. *)
LEMMA TradeImbalance ==
  ASSUME NEW T \in SUBSET Histories, NEW window \in Windows
  PROVE  Parity(trade_imbalance(window), T)
<1> PICK R : R = {SignedVolume, VolumeRaw}
  OBVIOUS
<1>0. /\ R \in SUBSET Roles
      /\ T \in SUBSET Histories
      /\ window \in Nat \ {0}
      /\ SignedVolume \in R /\ VolumeRaw \in R
      /\ window = 1 + window - 1 /\ window <= window
  BY DEF Roles, Prices, Sizes, Windows
<1>1. Windowed(Col(SignedVolume), 1, R, T)
  BY <1>0, ColRule
<1>2. Windowed(sum(Col(SignedVolume), window), window, R, T)
  BY <1>1, <1>0, WindowRule
<1>3. Windowed(Col(VolumeRaw), 1, R, T)
  BY <1>0, ColRule
<1>4. Windowed(sum(Col(VolumeRaw), window), window, R, T)
  BY <1>3, <1>0, WindowRule
<1>5. Windowed(safe_div(sum(Col(SignedVolume), window), sum(Col(VolumeRaw), window)), window, R, T)
  BY <1>2, <1>4, <1>0, PairRule
<1> QED BY <1>5, <1>0, FiniteParity DEF trade_imbalance

(* vpin reads the bars and the roles it declares, and no other. *)
LEMMA Vpin ==
  ASSUME NEW T \in SUBSET Histories, NEW n_buckets \in Windows
  PROVE  Parity(vpin(n_buckets), T)
<1> PICK R : R = {SignedVolume, VolumeRaw}
  OBVIOUS
<1>0. /\ R \in SUBSET Roles
      /\ T \in SUBSET Histories
      /\ n_buckets \in Nat \ {0}
      /\ SignedVolume \in R /\ VolumeRaw \in R
      /\ n_buckets = 1 + n_buckets - 1
  BY DEF Roles, Prices, Sizes, Windows
<1>1. Windowed(Col(SignedVolume), 1, R, T)
  BY <1>0, ColRule
<1>2. Windowed(Abs(Col(SignedVolume)), 1, R, T)
  BY <1>1, <1>0, OneRule
<1>3. Windowed(Col(VolumeRaw), 1, R, T)
  BY <1>0, ColRule
<1>4. Windowed(safe_div(Abs(Col(SignedVolume)), Col(VolumeRaw)), 1, R, T)
  BY <1>2, <1>3, <1>0, PairRule
<1>5. Windowed(mean(safe_div(Abs(Col(SignedVolume)), Col(VolumeRaw)), n_buckets), n_buckets, R, T)
  BY <1>4, <1>0, WindowRule
<1> QED BY <1>5, <1>0, FiniteParity DEF vpin

(* sign_autocorr reads the bars and the roles it declares, and no other. *)
LEMMA SignAutocorr ==
  ASSUME NEW T \in SUBSET Histories, NEW lag \in Periods, NEW window \in Windows
  PROVE  Parity(sign_autocorr(lag, window), T)
<1> PICK R : R = {SignedVolume, VolumeRaw}
  OBVIOUS
<1> PICK h : h = lag + 1
  OBVIOUS
<1> PICK k : k = lag + window
  OBVIOUS
<1>0. /\ R \in SUBSET Roles
      /\ T \in SUBSET Histories
      /\ lag \in Nat \ {0} /\ window \in Nat \ {0}
      /\ SignedVolume \in R /\ VolumeRaw \in R
      /\ h = 1 + lag /\ 1 <= h /\ h <= h /\ k = h + window - 1
      /\ h \in Nat \ {0} /\ k \in Nat \ {0} /\ k = window + lag
  BY DEF Roles, Prices, Sizes, Windows, Periods
<1>1. Windowed(Col(SignedVolume), 1, R, T)
  BY <1>0, ColRule
<1>2. Windowed(Col(VolumeRaw), 1, R, T)
  BY <1>0, ColRule
<1>3. Windowed(safe_div(Col(SignedVolume), Col(VolumeRaw)), 1, R, T)
  BY <1>1, <1>2, <1>0, PairRule
<1>4. Windowed(Shift(safe_div(Col(SignedVolume), Col(VolumeRaw)), lag), h, R, T)
  BY <1>3, <1>0, ShiftRule
<1>5. Windowed(rolling_corr(safe_div(Col(SignedVolume), Col(VolumeRaw)),
           Shift(safe_div(Col(SignedVolume), Col(VolumeRaw)), lag), window), k, R, T)
  BY <1>3, <1>4, <1>0, CorrRight
<1> QED BY <1>5, <1>0, FiniteParity DEF sign_autocorr

(* rvar reads the bars and the roles it declares, and no other. *)
LEMMA Rvar ==
  ASSUME NEW T \in SUBSET Histories, NEW window \in Windows
  PROVE  Parity(rvar(window), T)
<1> PICK R : R = {CloseRaw}
  OBVIOUS
<1> PICK h : h = window + 1
  OBVIOUS
<1>0. /\ R \in SUBSET Roles
      /\ T \in SUBSET Histories
      /\ window \in Nat \ {0}
      /\ CloseRaw \in R
      /\ h = 2 + window - 1 /\ h \in Nat \ {0}
  BY DEF Roles, Prices, Sizes, Windows
<1>1. Windowed(bar_return(CloseRaw), 2, R, T)
  BY <1>0, BarReturnRule
<1>2. Windowed(Square(bar_return(CloseRaw)), 2, R, T)
  BY <1>1, <1>0, OneRule
<1>3. Windowed(sum(Square(bar_return(CloseRaw)), window), h, R, T)
  BY <1>2, <1>0, WindowRule
<1> QED BY <1>3, <1>0, FiniteParity DEF rvar, RealizedFeature, RealizedVar, BipowerVar, MicroReturn

(* signed_jump reads the bars and the roles it declares, and no other. *)
LEMMA SignedJump ==
  ASSUME NEW T \in SUBSET Histories, NEW window \in Windows
  PROVE  Parity(signed_jump(window), T)
<1> PICK R : R = {CloseRaw}
  OBVIOUS
<1> PICK h : h = window + 1
  OBVIOUS
<1>0. /\ R \in SUBSET Roles
      /\ T \in SUBSET Histories
      /\ window \in Nat \ {0}
      /\ CloseRaw \in R
      /\ 2 <= 2 /\ h = 2 + window - 1 /\ h \in Nat \ {0}
  BY DEF Roles, Prices, Sizes, Windows
<1>1. Windowed(bar_return(CloseRaw), 2, R, T)
  BY <1>0, BarReturnRule
<1>2. Windowed(Abs(bar_return(CloseRaw)), 2, R, T)
  BY <1>1, <1>0, OneRule
<1>3. Windowed(Times(bar_return(CloseRaw), Abs(bar_return(CloseRaw))), 2, R, T)
  BY <1>1, <1>2, <1>0, PairRule
<1>4. Windowed(sum(Times(bar_return(CloseRaw), Abs(bar_return(CloseRaw))), window), h, R, T)
  BY <1>3, <1>0, WindowRule
<1> QED BY <1>4, <1>0, FiniteParity DEF signed_jump, RealizedFeature, RealizedVar, BipowerVar,
     MicroReturn

(* rskew reads the bars and the roles it declares, and no other. *)
LEMMA Rskew ==
  ASSUME NEW T \in SUBSET Histories, NEW window \in Windows
  PROVE  Parity(rskew(window), T)
<1> PICK R : R = {CloseRaw}
  OBVIOUS
<1> PICK h : h = window + 1
  OBVIOUS
<1>0. /\ R \in SUBSET Roles
      /\ T \in SUBSET Histories
      /\ window \in Nat \ {0}
      /\ CloseRaw \in R
      /\ 2 <= 2 /\ h = 2 + window - 1 /\ h <= h /\ h \in Nat \ {0}
  BY DEF Roles, Prices, Sizes, Windows
<1>1. Windowed(bar_return(CloseRaw), 2, R, T)
  BY <1>0, BarReturnRule
<1>2. Windowed(Square(bar_return(CloseRaw)), 2, R, T)
  BY <1>1, <1>0, OneRule
<1>3. Windowed(Times(Square(bar_return(CloseRaw)), bar_return(CloseRaw)), 2, R, T)
  BY <1>2, <1>1, <1>0, PairRule
<1>4. Windowed(sum(Times(Square(bar_return(CloseRaw)), bar_return(CloseRaw)), window), h, R, T)
  BY <1>3, <1>0, WindowRule
<1>5. Windowed(sum(Square(bar_return(CloseRaw)), window), h, R, T)
  BY <1>2, <1>0, WindowRule
<1>6. Windowed(safe_sqrt(sum(Square(bar_return(CloseRaw)), window)), h, R, T)
  BY <1>5, <1>0, OneRule
<1>7. Windowed(Times(sum(Square(bar_return(CloseRaw)), window),
           safe_sqrt(sum(Square(bar_return(CloseRaw)), window))), h, R, T)
  BY <1>5, <1>6, <1>0, PairRule
<1>8. Windowed(safe_div(sum(Times(Square(bar_return(CloseRaw)), bar_return(CloseRaw)), window),
           Times(sum(Square(bar_return(CloseRaw)), window),
           safe_sqrt(sum(Square(bar_return(CloseRaw)), window)))), h, R, T)
  BY <1>4, <1>7, <1>0, PairRule
<1> QED BY <1>8, <1>0, FiniteParity DEF rskew, RealizedFeature, RealizedVar, BipowerVar, MicroReturn

(* rkurt reads the bars and the roles it declares, and no other. *)
LEMMA Rkurt ==
  ASSUME NEW T \in SUBSET Histories, NEW window \in Windows
  PROVE  Parity(rkurt(window), T)
<1> PICK R : R = {CloseRaw}
  OBVIOUS
<1> PICK h : h = window + 1
  OBVIOUS
<1>0. /\ R \in SUBSET Roles
      /\ T \in SUBSET Histories
      /\ window \in Nat \ {0}
      /\ CloseRaw \in R
      /\ h = 2 + window - 1 /\ h <= h /\ h \in Nat \ {0}
  BY DEF Roles, Prices, Sizes, Windows
<1>1. Windowed(bar_return(CloseRaw), 2, R, T)
  BY <1>0, BarReturnRule
<1>2. Windowed(Square(bar_return(CloseRaw)), 2, R, T)
  BY <1>1, <1>0, OneRule
<1>3. Windowed(Square(Square(bar_return(CloseRaw))), 2, R, T)
  BY <1>2, <1>0, OneRule
<1>4. Windowed(sum(Square(Square(bar_return(CloseRaw))), window), h, R, T)
  BY <1>3, <1>0, WindowRule
<1>5. Windowed(sum(Square(bar_return(CloseRaw)), window), h, R, T)
  BY <1>2, <1>0, WindowRule
<1>6. Windowed(Square(sum(Square(bar_return(CloseRaw)), window)), h, R, T)
  BY <1>5, <1>0, OneRule
<1>7. Windowed(safe_div(sum(Square(Square(bar_return(CloseRaw))), window),
           Square(sum(Square(bar_return(CloseRaw)), window))), h, R, T)
  BY <1>4, <1>6, <1>0, PairRule
<1> QED BY <1>7, <1>0, FiniteParity DEF rkurt, RealizedFeature, RealizedVar, BipowerVar, MicroReturn

(* eff_spread reads the bars and the roles it declares, and no other. *)
LEMMA EffSpread ==
  ASSUME NEW T \in SUBSET Histories, NEW window \in Windows
  PROVE  Parity(eff_spread(window), T)
<1> PICK R : R = {CloseRaw, Bid, Ask}
  OBVIOUS
<1>0. /\ R \in SUBSET Roles
      /\ T \in SUBSET Histories
      /\ window \in Nat \ {0}
      /\ CloseRaw \in R /\ Bid \in R /\ Ask \in R
      /\ window = 1 + window - 1
  BY DEF Roles, Prices, Sizes, Windows
<1>1. Windowed(Col(Ask), 1, R, T)
  BY <1>0, ColRule
<1>2. Windowed(Col(Bid), 1, R, T)
  BY <1>0, ColRule
<1>3. Windowed(Plus(Col(Ask), Col(Bid)), 1, R, T)
  BY <1>1, <1>2, <1>0, PairRule
<1>4. Windowed(Col(CloseRaw), 1, R, T)
  BY <1>0, ColRule
<1>5. Windowed(Plus(Col(CloseRaw), Col(CloseRaw)), 1, R, T)
  BY <1>4, <1>0, PairRule
<1>6. Windowed(Minus(Plus(Col(CloseRaw), Col(CloseRaw)), Plus(Col(Ask), Col(Bid))), 1, R, T)
  BY <1>5, <1>3, <1>0, PairRule
<1>7. Windowed(Abs(Minus(Plus(Col(CloseRaw), Col(CloseRaw)), Plus(Col(Ask), Col(Bid)))), 1, R, T)
  BY <1>6, <1>0, OneRule
<1>8. Windowed(safe_div(Abs(Minus(Plus(Col(CloseRaw), Col(CloseRaw)), Plus(Col(Ask),
           Col(Bid)))), Plus(Col(Ask), Col(Bid))), 1, R, T)
  BY <1>7, <1>3, <1>0, PairRule
<1>9. Windowed(mean(safe_div(Abs(Minus(Plus(Col(CloseRaw), Col(CloseRaw)), Plus(Col(Ask),
           Col(Bid)))), Plus(Col(Ask), Col(Bid))), window), window, R, T)
  BY <1>8, <1>0, WindowRule
<1> QED BY <1>9, <1>0, FiniteParity DEF eff_spread

(* amihud_intraday reads the bars and the roles it declares, and no other. *)
LEMMA AmihudIntraday ==
  ASSUME NEW T \in SUBSET Histories, NEW window \in Windows
  PROVE  Parity(amihud_intraday(window), T)
<1> PICK R : R = {CloseRaw, VolumeRaw}
  OBVIOUS
<1> PICK h : h = window + 1
  OBVIOUS
<1>0. /\ R \in SUBSET Roles
      /\ T \in SUBSET Histories
      /\ window \in Nat \ {0}
      /\ CloseRaw \in R /\ VolumeRaw \in R
      /\ 2 <= 2 /\ 1 <= 2 /\ h = 2 + window - 1 /\ h \in Nat \ {0}
  BY DEF Roles, Prices, Sizes, Windows
<1>1. Windowed(bar_return(CloseRaw), 2, R, T)
  BY <1>0, BarReturnRule
<1>2. Windowed(Abs(bar_return(CloseRaw)), 2, R, T)
  BY <1>1, <1>0, OneRule
<1>3. Windowed(Col(CloseRaw), 1, R, T)
  BY <1>0, ColRule
<1>4. Windowed(Col(VolumeRaw), 1, R, T)
  BY <1>0, ColRule
<1>5. Windowed(Times(Col(CloseRaw), Col(VolumeRaw)), 1, R, T)
  BY <1>3, <1>4, <1>0, PairRule
<1>6. Windowed(safe_div(Abs(bar_return(CloseRaw)), Times(Col(CloseRaw), Col(VolumeRaw))), 2, R, T)
  BY <1>2, <1>5, <1>0, PairRule
<1>7. Windowed(mean(safe_div(Abs(bar_return(CloseRaw)), Times(Col(CloseRaw), Col(VolumeRaw))),
           window), h, R, T)
  BY <1>6, <1>0, WindowRule
<1> QED BY <1>7, <1>0, FiniteParity DEF amihud_intraday, RealizedFeature, RealizedVar,
     BipowerVar, MicroReturn

(* kyle_lambda reads the bars and the roles it declares, and no other. *)
LEMMA KyleLambda ==
  ASSUME NEW T \in SUBSET Histories, NEW window \in Windows
  PROVE  Parity(kyle_lambda(window), T)
<1> PICK R : R = {CloseRaw, SignedVolume}
  OBVIOUS
<1> PICK h : h = window + 1
  OBVIOUS
<1>0. /\ R \in SUBSET Roles
      /\ T \in SUBSET Histories
      /\ window \in Nat \ {0}
      /\ CloseRaw \in R /\ SignedVolume \in R
      /\ 2 = 1 + 1 /\ 1 <= 2 /\ 2 <= 2 /\ h = 2 + window - 1
      /\ h \in Nat \ {0}
  BY DEF Roles, Prices, Sizes, Windows
<1>1. Windowed(Col(SignedVolume), 1, R, T)
  BY <1>0, ColRule
<1>2. Windowed(Col(CloseRaw), 1, R, T)
  BY <1>0, ColRule
<1>3. Windowed(Diff(Col(CloseRaw)), 2, R, T)
  BY <1>2, <1>0, DiffRule
<1>4. Windowed(rolling_slope(Col(SignedVolume), Diff(Col(CloseRaw)), window), h, R, T)
  BY <1>1, <1>3, <1>0, CorrRight
<1> QED BY <1>4, <1>0, FiniteParity DEF kyle_lambda

(* depth_imbalance reads the bars and the roles it declares, and no other. *)
LEMMA DepthImbalance ==
  ASSUME NEW T \in SUBSET Histories, NEW window \in Windows
  PROVE  Parity(depth_imbalance(window), T)
<1> PICK R : R = {BidSize, AskSize}
  OBVIOUS
<1>0. /\ R \in SUBSET Roles
      /\ T \in SUBSET Histories
      /\ window \in Nat \ {0}
      /\ BidSize \in R /\ AskSize \in R
      /\ window = 1 + window - 1
  BY DEF Roles, Prices, Sizes, Windows
<1>1. Windowed(Col(BidSize), 1, R, T)
  BY <1>0, ColRule
<1>2. Windowed(Col(AskSize), 1, R, T)
  BY <1>0, ColRule
<1>3. Windowed(Minus(Col(BidSize), Col(AskSize)), 1, R, T)
  BY <1>1, <1>2, <1>0, PairRule
<1>4. Windowed(Plus(Col(BidSize), Col(AskSize)), 1, R, T)
  BY <1>1, <1>2, <1>0, PairRule
<1>5. Windowed(safe_div(Minus(Col(BidSize), Col(AskSize)), Plus(Col(BidSize), Col(AskSize))), 1,
           R, T)
  BY <1>3, <1>4, <1>0, PairRule
<1>6. Windowed(mean(safe_div(Minus(Col(BidSize), Col(AskSize)), Plus(Col(BidSize),
           Col(AskSize))), window), window, R, T)
  BY <1>5, <1>0, WindowRule
<1> QED BY <1>6, <1>0, FiniteParity DEF depth_imbalance, Imbalance

(* book_imbalance reads the bars and the roles it declares, and no other. *)
LEMMA BookImbalance ==
  ASSUME NEW T \in SUBSET Histories
  PROVE  Parity(book_imbalance, T)
<1> PICK R : R = {BidDepth[1], BidDepth[2], AskDepth[1], AskDepth[2]}
  OBVIOUS
<1>0. /\ R \in SUBSET Roles
      /\ T \in SUBSET Histories
      /\ BidDepth[1] \in R /\ BidDepth[2] \in R /\ AskDepth[1] \in R /\ AskDepth[2] \in R
  BY DEF Roles, Prices, Sizes, Depths
<1>1. Windowed(Zero, 1, R, T)
  BY <1>0, LitRule DEF Zero
<1>2. Windowed(Col(BidDepth[1]), 1, R, T)
  BY <1>0, ColRule
<1>3. Windowed(Plus(Zero, Col(BidDepth[1])), 1, R, T)
  BY <1>1, <1>2, <1>0, PairRule
<1>4. Windowed(Col(BidDepth[2]), 1, R, T)
  BY <1>0, ColRule
<1>5. Windowed(Plus(Plus(Zero, Col(BidDepth[1])), Col(BidDepth[2])), 1, R, T)
  BY <1>3, <1>4, <1>0, PairRule
<1>6. Windowed(Col(AskDepth[1]), 1, R, T)
  BY <1>0, ColRule
<1>7. Windowed(Plus(Zero, Col(AskDepth[1])), 1, R, T)
  BY <1>1, <1>6, <1>0, PairRule
<1>8. Windowed(Col(AskDepth[2]), 1, R, T)
  BY <1>0, ColRule
<1>9. Windowed(Plus(Plus(Zero, Col(AskDepth[1])), Col(AskDepth[2])), 1, R, T)
  BY <1>7, <1>8, <1>0, PairRule
<1>10. Windowed(Minus(Plus(Plus(Zero, Col(BidDepth[1])), Col(BidDepth[2])), Plus(Plus(Zero,
            Col(AskDepth[1])), Col(AskDepth[2]))), 1, R, T)
  BY <1>5, <1>9, <1>0, PairRule
<1>11. Windowed(Plus(Plus(Plus(Zero, Col(BidDepth[1])), Col(BidDepth[2])), Plus(Plus(Zero,
            Col(AskDepth[1])), Col(AskDepth[2]))), 1, R, T)
  BY <1>5, <1>9, <1>0, PairRule
<1>12. Windowed(safe_div(Minus(Plus(Plus(Zero, Col(BidDepth[1])), Col(BidDepth[2])),
            Plus(Plus(Zero, Col(AskDepth[1])), Col(AskDepth[2]))), Plus(Plus(Plus(Zero,
            Col(BidDepth[1])), Col(BidDepth[2])), Plus(Plus(Zero, Col(AskDepth[1])),
            Col(AskDepth[2])))), 1, R, T)
  BY <1>10, <1>11, <1>0, PairRule
<1> QED BY <1>12, <1>0, FiniteParity DEF book_imbalance, Imbalance, Depths

(* beta reads the bars and the roles it declares, and no other. *)
LEMMA Beta ==
  ASSUME NEW T \in SUBSET Histories, NEW window \in Windows
  PROVE  Parity(beta(window), T)
<1> PICK R : R = {Close, Market}
  OBVIOUS
<1> PICK h : h = window + 1
  OBVIOUS
<1>0. /\ R \in SUBSET Roles
      /\ T \in SUBSET Histories
      /\ window \in Nat \ {0}
      /\ Close \in R /\ Market \in R
      /\ 2 <= 2 /\ 1 <= 2 /\ h = 2 + window - 1 /\ window = 1 + window - 1
      /\ h <= h /\ window <= h /\ h \in Nat \ {0}
  BY DEF Roles, Prices, Sizes, Windows
<1>1. Windowed(bar_return(Close), 2, R, T)
  BY <1>0, BarReturnRule
<1>2. Windowed(Col(Market), 1, R, T)
  BY <1>0, ColRule
<1>3. Windowed(rolling_cov(bar_return(Close), Col(Market), window), h, R, T)
  BY <1>1, <1>2, <1>0, CovLeft
<1>4. Windowed(rolling_cov(Col(Market), Col(Market), window), window, R, T)
  BY <1>2, <1>0, CovLeft
<1>5. Windowed(safe_div(rolling_cov(bar_return(Close), Col(Market), window),
           rolling_cov(Col(Market), Col(Market), window)), h, R, T)
  BY <1>3, <1>4, <1>0, PairRule
<1> QED BY <1>5, <1>0, FiniteParity DEF beta

(* idio_vol reads the bars and the roles it declares, and no other. *)
LEMMA IdioVol ==
  ASSUME NEW T \in SUBSET Histories, NEW window \in Windows
  PROVE  Parity(idio_vol(window), T)
<1> PICK R : R = {Close, Market}
  OBVIOUS
<1> PICK h : h = window + 1
  OBVIOUS
<1>0. /\ R \in SUBSET Roles
      /\ T \in SUBSET Histories
      /\ window \in Nat \ {0}
      /\ Close \in R /\ Market \in R
      /\ 2 <= 2 /\ h = 2 + window - 1 /\ 1 <= 2 /\ window = 1 + window - 1
      /\ h <= h /\ window <= h /\ h \in Nat \ {0}
  BY DEF Roles, Prices, Sizes, Windows
<1>1. Windowed(bar_return(Close), 2, R, T)
  BY <1>0, BarReturnRule
<1>2. Windowed(Col(Market), 1, R, T)
  BY <1>0, ColRule
<1>3. Windowed(rolling_cov(bar_return(Close), bar_return(Close), window), h, R, T)
  BY <1>1, <1>0, CovLeft
<1>4. Windowed(rolling_cov(bar_return(Close), Col(Market), window), h, R, T)
  BY <1>1, <1>2, <1>0, CovLeft
<1>5. Windowed(Square(rolling_cov(bar_return(Close), Col(Market), window)), h, R, T)
  BY <1>4, <1>0, OneRule
<1>6. Windowed(rolling_cov(Col(Market), Col(Market), window), window, R, T)
  BY <1>2, <1>0, CovLeft
<1>7. Windowed(safe_div(Square(rolling_cov(bar_return(Close), Col(Market), window)),
           rolling_cov(Col(Market), Col(Market), window)), h, R, T)
  BY <1>5, <1>6, <1>0, PairRule
<1>8. Windowed(Minus(rolling_cov(bar_return(Close), bar_return(Close), window),
           safe_div(Square(rolling_cov(bar_return(Close), Col(Market), window)),
           rolling_cov(Col(Market), Col(Market), window))), h, R, T)
  BY <1>3, <1>7, <1>0, PairRule
<1>9. Windowed(safe_sqrt(Minus(rolling_cov(bar_return(Close), bar_return(Close), window),
           safe_div(Square(rolling_cov(bar_return(Close), Col(Market), window)),
           rolling_cov(Col(Market), Col(Market), window)))), h, R, T)
  BY <1>8, <1>0, OneRule
<1> QED BY <1>9, <1>0, FiniteParity DEF idio_vol

(* zscore reads the bars and the roles it declares, and no other. *)
LEMMA Zscore ==
  ASSUME NEW T \in SUBSET Histories, NEW window \in Windows
  PROVE  Parity(zscore(window), T)
<1> PICK R : R = {Close}
  OBVIOUS
<1>0. /\ R \in SUBSET Roles
      /\ T \in SUBSET Histories
      /\ window \in Nat \ {0}
      /\ Close \in R
      /\ window = 1 + window - 1
  BY DEF Roles, Prices, Sizes, Windows
<1>1. Windowed(Col(Close), 1, R, T)
  BY <1>0, ColRule
<1>2. Windowed(Standard(Col(Close), window), window, R, T)
  BY <1>1, <1>0, WindowRule
<1> QED BY <1>2, <1>0, FiniteParity DEF zscore

(* Only what a column has on histories matters.                             *)
LEMMA Replaced ==
  ASSUME NEW R, NEW T, NEW n, NEW x, Windowed(x, n, R, T), NEW z,
         \A a \in Histories : z[a] = x[a]
  PROVE  Windowed(z, n, R, T)
<1>1. Typed(z, R)
  BY DEF Windowed, Good, Typed
<1>2. Late(z, n)
  BY DEF Windowed, Good, Late
<1>3. Local(z, n)
  BY DEF Windowed, Good, Local
<1>4. Settled(z)
  BY DEF Windowed, Good, Settled
<1>5. Tame(z, T)
  BY DEF Windowed, Good, Tame
<1> QED BY <1>1, <1>2, <1>3, <1>4, <1>5 DEF Windowed, Good

(* A row of a column that is windowed. *)
LEMMA RowTyped ==
  ASSUME NEW R, NEW T, NEW n, NEW x, Windowed(x, n, R, T), NEW a \in Histories,
         NEW i \in 1..Len(a)
  PROVE  /\ x[a][i] \in Values(CellsOn(a, R)) /\ Honest(x[a][i])
         /\ a \in T => x[a][i] # NaN
BY GoodRows DEF Windowed

(* when, then, otherwise. *)
LEMMA WhenRule ==
  ASSUME NEW R, NEW T, NEW l, NEW m, NEW n, NEW c, NEW x, NEW y,
         Windowed(c, l, R, T), Windowed(x, m, R, T), Windowed(y, n, R, T),
         m <= l, n <= l, Otherwise(c, y)
  PROVE  Windowed(When(c, x, y), l, R, T)
<1>1. /\ l \in Nat \ {0} /\ m \in Nat \ {0} /\ n \in Nat \ {0} /\ l <= l /\ T \subseteq Histories
      /\ R \in SUBSET Roles /\ T \in SUBSET Histories
  BY DEF Windowed
<1>2. Good(c, l, R, T) /\ Good(x, m, R, T) /\ Good(y, n, R, T)
  BY DEF Windowed
<1>3. Good(When(c, x, y), l, R, T)
  BY <1>1, <1>2, WhenGood
<1> QED BY <1>1, <1>3 DEF Windowed

(* A comparison is null only where an operand is, and is never NaN.         *)
LEMMA TestNull ==
  ASSUME NEW R, NEW T, NEW m, NEW n, NEW x, NEW y, Windowed(x, m, R, T), Windowed(y, n, R, T),
         NEW op \in Comparisons, NEW a \in Histories, NEW i \in 1..Len(a),
         NEW c, c = Comparison(op, x, y)[a][i]
  PROVE  /\ c # NaN /\ c \in Values(CellsOn(a, R))
         /\ (c = NaV) <=> (x[a][i] = NaV \/ y[a][i] = NaV)
         /\ c = Compared(op, x[a][i], y[a][i])
<1> PICK C, u, v : C = CellsOn(a, R) /\ u = x[a][i] /\ v = y[a][i]
  OBVIOUS
<1>1. u \in Values(C) /\ v \in Values(C)
  BY RowTyped
<1>2. a \in Frames
  BY HistoryIsFrame
<1>3. Comparison(op, x, y)[a] = [j \in 1..Len(a) |-> Compared(op, x[a][j], y[a][j])]
  BY <1>2, ComparisonRows
<1>4. c = Compared(op, u, v)
  BY <1>3
<1>5. Obeys(c, {u, v}, C) /\ c # NaN
  BY <1>1, <1>4, ComparisonRow
<1>7. NaV \notin {u, v} => c # NaV
  BY <1>4 DEF Compared, From, Number, NaV
<1> QED BY <1>4, <1>5, <1>7 DEF Obeys, Strictly

(* A difference, a sum, a product is null where an operand is, *)
LEMMA NullPair ==
  ASSUME NEW a \in Histories, NEW i \in 1..Len(a), NEW op \in Arithmetic, NEW x, NEW y,
         x[a][i] = NaV \/ y[a][i] = NaV
  PROVE  Binary(op, x, y)[a][i] = NaV
<1> PICK u, v : u = x[a][i] /\ v = y[a][i]
  OBVIOUS
<1>2. a \in Frames
  BY HistoryIsFrame
<1>3. Binary(op, x, y)[a] = [j \in 1..Len(a) |-> BinaryOf(op, x[a][j], y[a][j])]
  BY <1>2, BinaryRows
<1>4. Binary(op, x, y)[a][i] = BinaryOf(op, u, v)
  BY <1>3
<1>5. IsNull(NaV)
  BY DEF IsNull, NaV
<1>6. BinaryOf(op, u, v) = NaV
  BY <1>5 DEF BinaryOf, Strict
<1> QED BY <1>4, <1>6

(* and so is a quotient that is guarded. *)
LEMMA NullQuotient ==
  ASSUME NEW R, NEW T, NEW m, NEW n, NEW x, NEW y, Windowed(x, m, R, T), Windowed(y, n, R, T),
         NEW a \in Histories, NEW i \in 1..Len(a), x[a][i] = NaV \/ y[a][i] = NaV
  PROVE  safe_div(x, y)[a][i] = NaV
<1> PICK C, u, v : C = CellsOn(a, R) /\ u = x[a][i] /\ v = y[a][i]
  OBVIOUS
<1>1. u \in Values(C) /\ v \in Values(C)
  BY RowTyped
<1>2. safe_div(x, y)[a] = [j \in 1..Len(a) |-> SafeQuotient(x[a][j], y[a][j])]
  BY SafeDivRows
<1>3. safe_div(x, y)[a][i] = SafeQuotient(u, v)
  BY <1>2
<1>4. Obeys(SafeQuotient(u, v), {u, v}, C)
  BY <1>1, SafeDivRow
<1> QED BY <1>3, <1>4 DEF Obeys, Strictly

-----------------------------------------------------------------------------
(* y where c is there, and null where c is null.                            *)
Veil(c, y) ==
  [a \in Histories |-> [i \in 1..Len(a) |-> IF c[a][i] = NaV THEN NaV ELSE y[a][i]]]

(* It is a column like another, *)
LEMMA VeilRule ==
  ASSUME NEW R, NEW T, NEW m, NEW n, NEW c, NEW y, Windowed(c, m, R, T), Windowed(y, n, R, T),
         n <= m
  PROVE  Windowed(Veil(c, y), m, R, T)
<1> PICK z : z = Veil(c, y)
  OBVIOUS
<1>1. /\ m \in Nat \ {0} /\ n \in Nat \ {0} /\ m <= m /\ m \in Nat /\ T \subseteq Histories
      /\ R \in SUBSET Roles /\ T \in SUBSET Histories /\ Good(c, m, R, T) /\ Good(y, n, R, T)
  BY DEF Windowed
<1>2. ASSUME NEW a \in Histories
      PROVE  z[a] = [i \in 1..Len(a) |-> IF c[a][i] = NaV THEN NaV ELSE y[a][i]]
  BY DEF Veil
<1>3. ASSUME NEW a \in Histories, NEW i \in 1..Len(a)
      PROVE  z[a][i] = IF c[a][i] = NaV THEN NaV ELSE y[a][i]
  BY <1>2
<1>4. \A a \in Histories : z[a] = [i \in 1..Len(a) |-> z[a][i]]
  BY <1>2
<1>5. ASSUME NEW a \in Histories, NEW i \in 1..Len(a)
      PROVE  Obeys(z[a][i], {c[a][i], y[a][i]}, CellsOn(a, R))
  <2> PICK C, u, v, w : C = CellsOn(a, R) /\ u = c[a][i] /\ v = y[a][i] /\ w = z[a][i]
    OBVIOUS
  <2>1. u \in Values(C) /\ v \in Values(C)
    BY RowTyped
  <2>2. w = IF u = NaV THEN NaV ELSE v
    BY <1>3
  <2>3. Obeys(w, {u, v}, C)
    BY <2>1, <2>2, NotNumbers, Literals DEF Obeys, Strictly
  <2> QED BY <2>3
<1>6. Pairwise(z, c, y, R, T)
  <2>1. \A a \in Histories : \A i \in 1..Len(a) :
          Strictly(z[a][i], {c[a][i], y[a][i]}, CellsOn(a, R))
    BY <1>5 DEF Obeys
  <2>2. \A a \in T : \A i \in 1..Len(a) :
          NaN \notin {c[a][i], y[a][i]} => z[a][i] # NaN
    BY <1>1, <1>5 DEF Obeys
  <2>3. \A a, b \in Histories : \A i \in 1..Len(a), j \in 1..Len(b) :
          c[a][i] = c[b][j] /\ y[a][i] = y[b][j] => z[a][i] = z[b][j]
    BY <1>3
  <2> QED BY <1>4, <2>1, <2>2, <2>3 DEF Pairwise
<1>7. Good(z, m, R, T)
  BY <1>1, <1>6, RowByRow
<1> QED BY <1>1, <1>7 DEF Windowed

(* and an otherwise branch that is null with its condition. *)
LEMMA VeilIsOtherwise ==
  ASSUME NEW R, NEW T, NEW m, NEW n, NEW x, NEW y, NEW z,
         Windowed(x, m, R, T), Windowed(y, n, R, T), NEW op \in Comparisons
  PROVE  Otherwise(Comparison(op, x, y), Veil(Comparison(op, x, y), z))
<1> PICK c : c = Comparison(op, x, y)
  OBVIOUS
<1> SUFFICES ASSUME NEW a \in Histories, NEW i \in 1..Len(a)
             PROVE  c[a][i] # NaN /\ (c[a][i] = NaV => Veil(c, z)[a][i] = NaV)
  BY DEF Otherwise
<1>1. c[a][i] # NaN
  BY TestNull
<1> QED BY <1>1 DEF Veil

(* No value at all. *)
LEMMA NoneRule ==
  ASSUME NEW R \in SUBSET Roles, NEW T \in SUBSET Histories
  PROVE  Windowed(None, 1, R, T)
<1> PICK x : x = None
  OBVIOUS
<1>1. ASSUME NEW a \in Histories PROVE x[a] = [i \in 1..Len(a) |-> NaV]
  BY HistoryIsFrame, ConstantRows DEF None
<1>2. (\A C : NaV \in Values(C)) /\ Honest(NaV) /\ NaV # NaN
  BY NotNumbers, Literals
<1>3. Good(x, 1, R, T)
  BY <1>1, <1>2, ConstantGood
<1>4. 1 \in Nat \ {0}
  OBVIOUS
<1> QED BY <1>3, <1>4 DEF Windowed

(* A quotient by a difference is null where a comparison of the same two    *)
(* columns is, *)
LEMMA RangeOtherwise ==
  ASSUME NEW R, NEW T, NEW l, NEW m, NEW n, NEW h, NEW x, NEW y, NEW z,
         Windowed(x, m, R, T), Windowed(y, n, R, T), Windowed(z, l, R, T),
         Windowed(Minus(x, y), h, R, T), NEW op \in Comparisons
  PROVE  Otherwise(Comparison(op, x, y), safe_div(z, Minus(x, y)))
<1> PICK c : c = Comparison(op, x, y)
  OBVIOUS
<1> SUFFICES ASSUME NEW a \in Histories, NEW i \in 1..Len(a)
             PROVE  c[a][i] # NaN /\ (c[a][i] = NaV => safe_div(z, Minus(x, y))[a][i] = NaV)
  BY DEF Otherwise
<1>1. c[a][i] # NaN /\ (c[a][i] = NaV => x[a][i] = NaV \/ y[a][i] = NaV)
  BY TestNull
<1>2. c[a][i] = NaV => Minus(x, y)[a][i] = NaV
  BY <1>1, NullPair DEF Minus, Arithmetic
<1>3. c[a][i] = NaV => safe_div(z, Minus(x, y))[a][i] = NaV
  BY <1>2, NullQuotient
<1> QED BY <1>1, <1>3

(* and so is the quotient of a difference. *)
LEMMA SpreadOtherwise ==
  ASSUME NEW R, NEW T, NEW l, NEW m, NEW n, NEW h, NEW x, NEW y, NEW z,
         Windowed(x, m, R, T), Windowed(y, n, R, T), Windowed(z, l, R, T),
         Windowed(Minus(y, x), h, R, T), NEW op \in Comparisons
  PROVE  Otherwise(Comparison(op, x, y), safe_div(Minus(y, x), z))
<1> PICK c : c = Comparison(op, x, y)
  OBVIOUS
<1> SUFFICES ASSUME NEW a \in Histories, NEW i \in 1..Len(a)
             PROVE  c[a][i] # NaN /\ (c[a][i] = NaV => safe_div(Minus(y, x), z)[a][i] = NaV)
  BY DEF Otherwise
<1>1. c[a][i] # NaN /\ (c[a][i] = NaV => x[a][i] = NaV \/ y[a][i] = NaV)
  BY TestNull
<1>2. c[a][i] = NaV => Minus(y, x)[a][i] = NaV
  BY <1>1, NullPair DEF Minus, Arithmetic
<1>3. c[a][i] = NaV => safe_div(Minus(y, x), z)[a][i] = NaV
  BY <1>2, NullQuotient
<1> QED BY <1>1, <1>3

(* x, masked by a comparison of two columns one of which is null only where *)
(* x is: 1 where it holds, 0 where it does not.                             *)
LEMMA MaskRule ==
  ASSUME NEW R, NEW T, NEW k, NEW m, NEW n, NEW h, NEW x, NEW y, NEW z,
         NEW op \in Comparisons, Windowed(x, m, R, T), Windowed(y, n, R, T), Windowed(z, h, R, T),
         k <= h, Windowed(Comparison(op, x, y), k, R, T),
         \A a \in Histories : \A i \in 1..Len(a) :
           x[a][i] = NaV \/ y[a][i] = NaV => z[a][i] = NaV
  PROVE  Windowed(Times(z, When(Comparison(op, x, y), Lit(1), Zero)), h, R, T)
<1> PICK c : c = Comparison(op, x, y)
  OBVIOUS
<1> PICK w : w = When(c, Lit(1), Veil(c, Zero))
  OBVIOUS
<1> PICK v : v = When(c, Lit(1), Zero)
  OBVIOUS
<1>1. R \in SUBSET Roles /\ T \in SUBSET Histories /\ 1 <= k /\ h <= h /\ k \in Nat \ {0}
  BY DEF Windowed
<1>2. Windowed(Lit(1), 1, R, T) /\ Windowed(Zero, 1, R, T)
  BY <1>1, LitRule DEF Zero
<1>3. Windowed(Veil(c, Zero), k, R, T)
  BY <1>1, <1>2, VeilRule
<1>4. Otherwise(c, Veil(c, Zero))
  BY VeilIsOtherwise
<1>5. Windowed(w, k, R, T)
  <2>1. k <= k
    BY <1>1
  <2> QED BY <1>1, <1>2, <1>3, <1>4, <2>1, WhenRule
<1>6. Windowed(Times(z, w), h, R, T)
  BY <1>1, <1>5, PairRule
<1>7. ASSUME NEW a \in Histories PROVE Times(z, v)[a] = Times(z, w)[a]
  <2>1. a \in Frames
    BY HistoryIsFrame
  <2>2. /\ Times(z, v)[a] = [i \in 1..Len(a) |-> BinaryOf("times", z[a][i], v[a][i])]
        /\ Times(z, w)[a] = [i \in 1..Len(a) |-> BinaryOf("times", z[a][i], w[a][i])]
    BY <2>1, BinaryRows DEF Times
  <2>3. /\ v[a] = [i \in 1..Len(a) |-> Chosen(c[a][i], Lit(1)[a][i], Zero[a][i])]
        /\ w[a] = [i \in 1..Len(a) |-> Chosen(c[a][i], Lit(1)[a][i], Veil(c, Zero)[a][i])]
    BY <2>1, WhenRows
  <2>4. ASSUME NEW i \in 1..Len(a)
        PROVE  BinaryOf("times", z[a][i], v[a][i]) = BinaryOf("times", z[a][i], w[a][i])
    <3>1. Veil(c, Zero)[a][i] = IF c[a][i] = NaV THEN NaV ELSE Zero[a][i]
      BY DEF Veil
    <3>2. c[a][i] # NaV => w[a][i] = v[a][i]
      BY <2>3, <3>1
    <3>3. c[a][i] = NaV => z[a][i] = NaV
      BY TestNull
    <3>4. \A u : BinaryOf("times", NaV, u) = NaV
      BY DEF BinaryOf, Strict, IsNull, NaV
    <3> QED BY <3>2, <3>3, <3>4
  <2> QED BY <2>2, <2>4
<1>8. Windowed(Times(z, v), h, R, T)
  BY <1>6, <1>7, Replaced
<1> QED BY <1>8

(* A square is null where what is squared is. *)
LEMMA NullSquare ==
  ASSUME NEW x
  PROVE  \A a \in Histories : \A i \in 1..Len(a) :
           x[a][i] = NaV \/ Zero[a][i] = NaV => Square(x)[a][i] = NaV
<1> SUFFICES ASSUME NEW a \in Histories, NEW i \in 1..Len(a), x[a][i] = NaV \/ Zero[a][i] = NaV
             PROVE  Square(x)[a][i] = NaV
  OBVIOUS
<1>0. a \in Frames
  BY HistoryIsFrame
<1>1. Zero[a] = [j \in 1..Len(a) |-> Literal(0)]
  BY <1>0, LitRows DEF Zero
<1>2. Zero[a][i] # NaV
  BY <1>1 DEF Literal, Number, NaV
<1>3. x[a][i] = NaV
  BY <1>2
<1> QED BY <1>3, NullPair DEF Square, Times, Arithmetic

-----------------------------------------------------------------------------
(* x & y of two literals. *)
LEMMA BothLiterals ==
  ASSUME NEW p \in {0, 1}, NEW q \in {0, 1}
  PROVE  Conjunction(Literal(p), Literal(q)) = Literal(IF p = 1 /\ q = 1 THEN 1 ELSE 0)
<1> PICK x, y : x = Literal(p) /\ y = Literal(q)
  OBVIOUS
<1>1. /\ x.lvl = p /\ y.lvl = q /\ x.on = {} /\ y.on = {} /\ x.guess = FALSE /\ y.guess = FALSE
      /\ x # NaV /\ y # NaV
  BY DEF Literal, Number, NaV
<1>2. Cells({x, y}) = {} /\ Guessed({x, y}) = FALSE
  BY <1>1 DEF Cells, Guessed
<1>3. Conjunction(x, y) = From({x, y}, Truth(x.lvl = 1 /\ y.lvl = 1), 1)
  BY <1>1 DEF Conjunction
<1>4. Truth(x.lvl = 1 /\ y.lvl = 1) = IF p = 1 /\ q = 1 THEN 1 ELSE 0
  BY <1>1 DEF Truth
<1>5. Conjunction(x, y) = Number(IF p = 1 /\ q = 1 THEN 1 ELSE 0, 1, {}, FALSE)
  BY <1>2, <1>3, <1>4 DEF From
<1> QED BY <1>5 DEF Literal

(* What a literal condition chooses. *)
LEMMA LiteralChoice ==
  ASSUME NEW C, NEW v \in Values(C), NEW u
  PROVE  Chosen(Literal(1), v, u) = v /\ Chosen(Literal(0), u, NaV) = NaV
<1>1. /\ Literal(1).lvl = 1 /\ Literal(0).lvl = 0 /\ Literal(1).on = {} /\ Literal(1).guess = FALSE
      /\ IsNumber(Literal(1)) /\ ~ IsNull(Literal(1)) /\ ~ IsNumber(NaV)
  BY DEF Literal, Number, IsNumber, IsNull, NaV
<1>2. Chosen(Literal(0), u, NaV) = NaV
  BY <1>1 DEF Chosen, Given
<1>3. CASE ~ IsNumber(v)
  BY <1>1, <1>2, <1>3 DEF Chosen, Given
<1>4. CASE IsNumber(v)
  <2>1. v \in Numbers(C)
    BY <1>4, ValueKinds
  <2>2. Chosen(Literal(1), v, u) = [v EXCEPT !.on = @ \cup {}, !.guess = @ \/ FALSE]
    BY <1>1, <1>4 DEF Chosen, Given
  <2>3. [v EXCEPT !.on = @ \cup {}, !.guess = @ \/ FALSE] = v
    <3>1. v.on \cup {} = v.on /\ (v.guess \/ FALSE) = v.guess
      BY <2>1 DEF Numbers
    <3> QED BY <2>1, <3>1 DEF Numbers
  <2> QED BY <1>2, <2>2, <2>3
<1> QED BY <1>3, <1>4

(* A flow, null unless both of two columns are there, and else what a       *)
(* comparison of the two chooses.                                           *)
LEMMA FlowRule ==
  ASSUME NEW R, NEW T, NEW k, NEW l, NEW m, NEW n, NEW h, NEW x, NEW y, NEW s, NEW t, NEW p,
         Windowed(x, m, R, T), Windowed(y, n, R, T), Windowed(p, l, R, T),
         NEW op \in Comparisons, Windowed(Comparison(op, x, y), h, R, T), l <= h,
         (x = s /\ y = t) \/ (x = t /\ y = s)
  PROVE  /\ Windowed(When(Both(Present(s), Present(t)), When(Comparison(op, x, y), p, Zero), None), h, R, T)
         /\ \A a \in Histories : \A i \in 1..Len(a) :
              LET z == When(Both(Present(s), Present(t)), When(Comparison(op, x, y), p, Zero),
                   None)[a][i]
              IN  /\ z = NaV => s[a][i] = NaV \/ t[a][i] = NaV \/ p[a][i] = NaV
                  /\ s[a][i] = NaV \/ t[a][i] = NaV => z = NaV
<1> PICK c : c = Comparison(op, x, y)
  OBVIOUS
<1> PICK w : w = When(c, p, Veil(c, Zero))
  OBVIOUS
<1> PICK b : b = Both(Present(s), Present(t))
  OBVIOUS
<1> PICK inner : inner = When(c, p, Zero)
  OBVIOUS
<1> PICK z : z = When(b, inner, None)
  OBVIOUS
<1>1. R \in SUBSET Roles /\ T \in SUBSET Histories /\ 1 <= h /\ h <= h /\ h \in Nat \ {0}
  BY DEF Windowed
<1>2. Windowed(Zero, 1, R, T)
  BY <1>1, LitRule DEF Zero
<1>3. Windowed(Veil(c, Zero), h, R, T)
  BY <1>1, <1>2, VeilRule
<1>4. Otherwise(c, Veil(c, Zero))
  BY VeilIsOtherwise
<1>5. Windowed(w, h, R, T)
  BY <1>1, <1>3, <1>4, WhenRule
<1>6. ASSUME NEW a \in Histories
      PROVE  /\ z[a] = [i \in 1..Len(a) |-> z[a][i]] /\ w[a] = [i \in 1..Len(a) |-> w[a][i]]
             /\ \A i \in 1..Len(a) :
                  /\ z[a][i] = Chosen(b[a][i], inner[a][i], NaV)
                  /\ inner[a][i] = Chosen(c[a][i], p[a][i], Literal(0))
                  /\ w[a][i] = Chosen(c[a][i], p[a][i], Veil(c, Zero)[a][i])
                  /\ Zero[a][i] = Literal(0)
  <2>0. a \in Frames
    BY HistoryIsFrame
  <2>1. None[a] = [i \in 1..Len(a) |-> NaV]
    BY <2>0, ConstantRows DEF None
  <2>2. Zero[a] = [i \in 1..Len(a) |-> Literal(0)]
    BY <2>0, LitRows DEF Zero
  <2>3. \A i \in 1..Len(a) : None[a][i] = NaV /\ Zero[a][i] = Literal(0)
    BY <2>1, <2>2
  <2>4. z[a] = [i \in 1..Len(a) |-> Chosen(b[a][i], inner[a][i], None[a][i])]
    BY <2>0, WhenRows
  <2>5. inner[a] = [i \in 1..Len(a) |-> Chosen(c[a][i], p[a][i], Zero[a][i])]
    BY <2>0, WhenRows
  <2>6. w[a] = [i \in 1..Len(a) |-> Chosen(c[a][i], p[a][i], Veil(c, Zero)[a][i])]
    BY <2>0, WhenRows
  <2>7. \A i \in 1..Len(a) : z[a][i] = Chosen(b[a][i], inner[a][i], NaV)
    BY <2>3, <2>4
  <2>8. \A i \in 1..Len(a) : inner[a][i] = Chosen(c[a][i], p[a][i], Literal(0))
    BY <2>3, <2>5
  <2>9. \A i \in 1..Len(a) : w[a][i] = Chosen(c[a][i], p[a][i], Veil(c, Zero)[a][i])
    BY <2>6
  <2>10. z[a] = [i \in 1..Len(a) |-> z[a][i]] /\ w[a] = [i \in 1..Len(a) |-> w[a][i]]
    BY <2>4, <2>6
  <2> QED BY <2>3, <2>7, <2>8, <2>9, <2>10
<1>7. ASSUME NEW a \in Histories, NEW i \in 1..Len(a)
      PROVE  b[a][i] = Literal(IF s[a][i] = NaV \/ t[a][i] = NaV THEN 0 ELSE 1)
  <2>0. a \in Frames
    BY HistoryIsFrame
  <2> PICK u, v : u = (IF IsNull(s[a][i]) THEN 0 ELSE 1) /\ v = (IF IsNull(t[a][i]) THEN 0 ELSE 1)
    OBVIOUS
  <2>1. /\ Present(s)[a] = [j \in 1..Len(a) |-> Literal(IF IsNull(s[a][j]) THEN 0 ELSE 1)]
        /\ Present(t)[a] = [j \in 1..Len(a) |-> Literal(IF IsNull(t[a][j]) THEN 0 ELSE 1)]
    BY <2>0, PresentRows
  <2>2. Present(s)[a][i] = Literal(u) /\ Present(t)[a][i] = Literal(v)
    BY <2>1
  <2>3. b[a] = [j \in 1..Len(a) |-> Conjunction(Present(s)[a][j], Present(t)[a][j])]
    BY <2>0, BothRows
  <2>4. b[a][i] = Conjunction(Literal(u), Literal(v))
    BY <2>2, <2>3
  <2>5. b[a][i] = Literal(IF u = 1 /\ v = 1 THEN 1 ELSE 0)
    BY <2>4, BothLiterals
  <2>6. s[a][i] \in Values(CellsOn(a, R)) /\ t[a][i] \in Values(CellsOn(a, R))
    BY RowTyped
  <2>7. (IsNull(s[a][i]) <=> (s[a][i] = NaV)) /\ (IsNull(t[a][i]) <=> (t[a][i] = NaV))
    BY <2>6, ValueKinds
  <2>8. (IF u = 1 /\ v = 1 THEN 1 ELSE 0) = IF s[a][i] = NaV \/ t[a][i] = NaV THEN 0 ELSE 1
    BY <2>7
  <2> QED BY <2>5, <2>8
<1>8. ASSUME NEW a \in Histories, NEW i \in 1..Len(a)
      PROVE  /\ z[a][i] = w[a][i]
             /\ z[a][i] = NaV => s[a][i] = NaV \/ t[a][i] = NaV \/ p[a][i] = NaV
             /\ s[a][i] = NaV \/ t[a][i] = NaV => z[a][i] = NaV
  <2>1. z[a][i] = Chosen(b[a][i], inner[a][i], NaV)
    BY <1>6
  <2>2. w[a][i] = Chosen(c[a][i], p[a][i], Veil(c, Zero)[a][i])
    BY <1>6
  <2>3. Veil(c, Zero)[a][i] = IF c[a][i] = NaV THEN NaV ELSE Zero[a][i]
    BY DEF Veil
  <2>4. /\ c[a][i] # NaN /\ c[a][i] \in Values(CellsOn(a, R))
        /\ (c[a][i] = NaV) <=> (s[a][i] = NaV \/ t[a][i] = NaV)
    BY TestNull
  <2>5. CASE s[a][i] = NaV \/ t[a][i] = NaV
    <3>1. b[a][i] = Literal(0)
      BY <1>7, <2>5
    <3>2. z[a][i] = NaV
      <4>1. NaV \in Values({})
        BY NotNumbers
      <4> QED BY <2>1, <3>1, <4>1, LiteralChoice
    <3>3. w[a][i] = NaV
      BY <2>2, <2>3, <2>4, <2>5 DEF Chosen, Given, IsNumber, NaV
    <3> QED BY <2>5, <3>2, <3>3
  <2>6. CASE ~ (s[a][i] = NaV \/ t[a][i] = NaV)
    <3>1. b[a][i] = Literal(1)
      BY <1>7, <2>6
    <3>2. w[a][i] = inner[a][i]
      <4>1. c[a][i] # NaV
        BY <2>4, <2>6
      <4>2. Veil(c, Zero)[a][i] = Literal(0)
        BY <1>6, <2>3, <4>1
      <4>3. inner[a][i] = Chosen(c[a][i], p[a][i], Literal(0))
        BY <1>6
      <4> QED BY ONLY <2>2, <4>2, <4>3
    <3>3. w[a][i] \in Values(CellsOn(a, R))
      BY <1>5, RowTyped
    <3>4. z[a][i] = w[a][i]
      BY <2>1, <3>1, <3>2, <3>3, LiteralChoice
    <3>5. ASSUME p[a][i] # NaV PROVE w[a][i] # NaV
      <4> PICK C, c1, p1, q1 : C = CellsOn(a, R) /\ c1 = c[a][i] /\ p1 = p[a][i] /\ q1 = Literal(0)
        OBVIOUS
      <4>1. p1 \in Values(C)
        BY RowTyped
      <4>2. q1 \in Values(C) /\ q1 # NaV
        BY NotNumbers, Literals
      <4>3. w[a][i] = Chosen(c1, p1, q1)
        BY <1>6, <2>2, <2>3, <2>4, <2>6
      <4>4. c1 \in Values(C) /\ c1 # NaN
        BY <2>4
      <4> PICK v : v = IF IsNumber(c1) /\ c1.lvl = 1 THEN p1 ELSE q1
        OBVIOUS
      <4>5. v # NaV
        BY <3>5, <4>2
      <4>6. (Chosen(c1, p1, q1) = NaV) <=> (v = NaV)
        BY ONLY <4>1, <4>2, <4>4, v = IF IsNumber(c1) /\ c1.lvl = 1 THEN p1 ELSE q1, ChosenRow
      <4> QED BY <4>3, <4>5, <4>6
    <3> QED BY <2>6, <3>4, <3>5
  <2> QED BY <2>5, <2>6
<1>9. ASSUME NEW a \in Histories PROVE z[a] = w[a]
  <2>1. \A i \in 1..Len(a) : z[a][i] = w[a][i]
    BY <1>8
  <2>2. z[a] = [i \in 1..Len(a) |-> z[a][i]]
    BY <1>6
  <2>3. w[a] = [i \in 1..Len(a) |-> w[a][i]]
    BY <1>6
  <2> QED BY ONLY <2>1, <2>2, <2>3
<1>10. Windowed(z, h, R, T)
  BY <1>5, <1>9, Replaced
<1> QED BY <1>8, <1>10

(* What rose against what fell: the row of Saturated. *)
SaturatedOf(u, d) ==
  Chosen(Conjunction(Compared("equal", u, Literal(0)), Compared("equal", d, Literal(0))), NaV,
         Chosen(Compared("equal", d, Literal(0)), Literal(1), BinaryOf("over", u, d)))

(* It is null, a number but never NaN, of two that are null together.       *)
LEMMA SaturatedRow ==
  ASSUME NEW C, NEW u \in Values(C), NEW d \in Values(C), u # NaN, d # NaN,
         (u = NaV) <=> (d = NaV)
  PROVE  Obeys(SaturatedOf(u, d), {u, d}, C)
<1> PICK zero : zero = Literal(0)
  OBVIOUS
<1> PICK one : one = Literal(1)
  OBVIOUS
<1> PICK eu : eu = Compared("equal", u, zero)
  OBVIOUS
<1> PICK ed : ed = Compared("equal", d, zero)
  OBVIOUS
<1> PICK b : b = Conjunction(eu, ed)
  OBVIOUS
<1> PICK q : q = BinaryOf("over", u, d)
  OBVIOUS
<1> PICK s : s = Chosen(ed, one, q)
  OBVIOUS
<1> PICK r : r = Chosen(b, NaV, s)
  OBVIOUS
<1>0. r = SaturatedOf(u, d)
  BY DEF SaturatedOf
<1>1. CASE u = NaV
  <2>1. d = NaV /\ IsNull(NaV) /\ ~ IsNumber(NaV)
    BY <1>1 DEF IsNull, IsNumber, NaV
  <2>2. eu = NaV /\ ed = NaV /\ q = NaV
    BY <1>1, <2>1 DEF BinaryOf, Compared, Strict
  <2>3. b = NaV
    BY <2>2 DEF Conjunction
  <2>4. s = NaV
    BY <2>1, <2>2 DEF Chosen, Given
  <2>5. r = NaV
    BY <2>1, <2>3, <2>4 DEF Chosen, Given
  <2> QED BY <1>0, <2>5, NotNumbers, Literals DEF Obeys, Strictly
<1>2. CASE u # NaV
  <2>1. u \in Numbers(C) /\ d \in Numbers(C)
    BY <1>2, ValueKinds
  <2>2. /\ eu \in Numbers(C) /\ ed \in Numbers(C)
        /\ (ed.lvl = 1) <=> (d.lvl = 0)
        /\ Honest(u) => Honest(eu)
        /\ Honest(d) => Honest(ed)
    <3>1. eu \in Numbers(C) /\ (Honest(u) => Honest(eu))
      BY <2>1, ZeroRow
    <3>2. ed \in Numbers(C) /\ ((ed.lvl = 1) <=> (d.lvl = 0)) /\ (Honest(d) => Honest(ed))
      BY <2>1, ZeroRow
    <3> QED BY <3>1, <3>2
  <2>3. b \in Numbers(C) /\ (Honest(u) /\ Honest(d) => Honest(b))
    <3>1. b = From({eu, ed}, Truth(eu.lvl = 1 /\ ed.lvl = 1), 1)
      BY <2>2, NotNumbers DEF Conjunction
    <3> PICK l : l = Truth(eu.lvl = 1 /\ ed.lvl = 1)
      OBVIOUS
    <3>2. l \in Int /\ 1 \in Int
      BY DEF Truth
    <3>3. {eu, ed} \in SUBSET Numbers(C)
      BY <2>2
    <3>4. b = From({eu, ed}, l, 1)
      BY <3>1
    <3> QED BY <2>2, <3>2, <3>3, <3>4, FromNumbers
  <2>4. /\ q \in Values(C) /\ q # NaV
        /\ d.lvl # 0 => q # NaN
        /\ Honest(u) /\ Honest(d) => Honest(q)
    <3>1. /\ Strictly(q, {u, d}, C)
          /\ (d \in Numbers(C) => d.lvl # 0) => Obeys(q, {u, d}, C)
          /\ q = NaV => NaV \in {u, d}
      BY <2>1, QuotientRow, NotNumbers
    <3> QED BY <3>1, <2>1, NotNumbers DEF Obeys, Strictly
  <2> PICK v : v = IF IsNumber(ed) /\ ed.lvl = 1 THEN one ELSE q
    OBVIOUS
  <2>5. one \in Values(C) /\ one # NaV /\ one # NaN /\ Honest(one)
    BY Literals, NotNumbers
  <2>6. ed \in Values(C) /\ ed # NaN /\ ed # NaV /\ IsNumber(ed)
    BY <2>2, NotNumbers, ValueKinds
  <2>7. v \in Values(C) /\ v # NaV /\ v # NaN /\ (Honest(u) /\ Honest(d) => Honest(v))
    BY <2>2, <2>4, <2>5, <2>6
  <2>8. /\ s \in Values(C) /\ s # NaN
        /\ Honest(u) /\ Honest(d) => Honest(s)
    <3>1. /\ s \in Values(C)
          /\ (s = NaN) <=> (v = NaN)
          /\ (ed # NaV /\ Honest(ed) /\ Honest(v)) => Honest(s)
      BY <2>4, <2>5, <2>6, ChosenRow
    <3> QED BY <3>1, <2>2, <2>6, <2>7
  <2> PICK w : w = IF IsNumber(b) /\ b.lvl = 1 THEN NaV ELSE s
    OBVIOUS
  <2>9. /\ b \in Values(C) /\ b # NaN /\ b # NaV /\ NaV \in Values(C) /\ NaV # NaN
        /\ w # NaN /\ (Honest(u) /\ Honest(d) => Honest(w))
    BY <2>3, <2>8, NotNumbers, Literals
  <2>10. /\ r \in Values(C)
         /\ (r = NaN) <=> (w = NaN)
         /\ (b # NaV /\ Honest(b) /\ Honest(w)) => Honest(r)
    BY <2>8, <2>9, ChosenRow
  <2>11. r # NaN /\ (Honest(u) /\ Honest(d) => Honest(r))
    BY <2>3, <2>9, <2>10
  <2> QED BY <1>0, <2>1, <2>10, <2>11, NotNumbers DEF Obeys, Strictly
<1> QED BY <1>1, <1>2

(* Two columns that are null together and never NaN, one against another.   *)
LEMMA SaturatedRule ==
  ASSUME NEW R, NEW T \in SUBSET Histories, NEW n, NEW x, NEW y,
         Windowed(x, n, R, Histories), Windowed(y, n, R, Histories),
         \A a \in Histories : \A i \in 1..Len(a) : (x[a][i] = NaV) <=> (y[a][i] = NaV)
  PROVE  Windowed(Saturated(x, y), n, R, T)
<1> PICK z : z = Saturated(x, y)
  OBVIOUS
<1>1. ASSUME NEW a \in Histories
      PROVE  /\ z[a] = [i \in 1..Len(a) |-> z[a][i]]
             /\ \A i \in 1..Len(a) : z[a][i] = SaturatedOf(x[a][i], y[a][i])
  <2>0. a \in Frames
    BY HistoryIsFrame
  <2> PICK eu, ed : eu = Equal(x, Zero) /\ ed = Equal(y, Zero)
    OBVIOUS
  <2> PICK b, one, q : b = Both(eu, ed) /\ one = Lit(1) /\ q = Over(x, y)
    OBVIOUS
  <2> PICK s : s = When(ed, one, q)
    OBVIOUS
  <2>1. z = When(b, None, s)
    BY DEF Saturated
  <2>2. None[a] = [i \in 1..Len(a) |-> NaV]
    BY <2>0, ConstantRows DEF None
  <2>3. Zero[a] = [i \in 1..Len(a) |-> Literal(0)]
    BY <2>0, LitRows DEF Zero
  <2>4. \A i \in 1..Len(a) : None[a][i] = NaV /\ Zero[a][i] = Literal(0)
    BY <2>2, <2>3
  <2>5. one[a] = [i \in 1..Len(a) |-> Literal(1)]
    BY <2>0, LitRows
  <2>6. eu[a] = [i \in 1..Len(a) |-> Compared("equal", x[a][i], Zero[a][i])]
    BY <2>0, ComparisonRows DEF Equal
  <2>7. ed[a] = [i \in 1..Len(a) |-> Compared("equal", y[a][i], Zero[a][i])]
    BY <2>0, ComparisonRows DEF Equal
  <2>8. b[a] = [i \in 1..Len(a) |-> Conjunction(eu[a][i], ed[a][i])]
    BY <2>0, BothRows
  <2>9. q[a] = [i \in 1..Len(a) |-> BinaryOf("over", x[a][i], y[a][i])]
    BY <2>0, BinaryRows DEF Over
  <2>10. s[a] = [i \in 1..Len(a) |-> Chosen(ed[a][i], one[a][i], q[a][i])]
    BY <2>0, WhenRows
  <2>11. z[a] = [i \in 1..Len(a) |-> Chosen(b[a][i], None[a][i], s[a][i])]
    BY <2>0, <2>1, WhenRows
  <2>12. z[a] = [i \in 1..Len(a) |-> z[a][i]]
    BY <2>11
  <2>13. ASSUME NEW i \in 1..Len(a)
         PROVE  z[a][i] = SaturatedOf(x[a][i], y[a][i])
    <3>1. z[a][i] = Chosen(b[a][i], NaV, s[a][i])
      BY <2>4, <2>11
    <3>2. s[a][i] = Chosen(ed[a][i], one[a][i], q[a][i])
      BY <2>10
    <3>3. b[a][i] = Conjunction(eu[a][i], ed[a][i])
      BY <2>8
    <3>4. eu[a][i] = Compared("equal", x[a][i], Literal(0))
      BY <2>4, <2>6
    <3>5. ed[a][i] = Compared("equal", y[a][i], Literal(0))
      BY <2>4, <2>7
    <3>6. q[a][i] = BinaryOf("over", x[a][i], y[a][i])
      BY <2>9
    <3>7. one[a][i] = Literal(1)
      BY <2>5
    <3> QED BY ONLY <3>1, <3>2, <3>3, <3>4, <3>5, <3>6, <3>7 DEF SaturatedOf
  <2> QED BY <2>12, <2>13
<1>2. ASSUME NEW a \in Histories, NEW i \in 1..Len(a)
      PROVE  Obeys(z[a][i], {x[a][i], y[a][i]}, CellsOn(a, R))
  <2> PICK u, v : u = x[a][i] /\ v = y[a][i]
    OBVIOUS
  <2>1. u \in Values(CellsOn(a, R)) /\ v \in Values(CellsOn(a, R)) /\ u # NaN /\ v # NaN
    BY RowTyped
  <2>2. (u = NaV) <=> (v = NaV)
    OBVIOUS
  <2>3. Obeys(SaturatedOf(u, v), {u, v}, CellsOn(a, R))
    BY <2>1, <2>2, SaturatedRow
  <2> QED BY <2>3, <1>1
<1>3. Pairwise(z, x, y, R, T)
  <2>1. \A a \in Histories : \A i \in 1..Len(a) :
          Strictly(z[a][i], {x[a][i], y[a][i]}, CellsOn(a, R))
    BY <1>2 DEF Obeys
  <2>2. \A a \in T : \A i \in 1..Len(a) :
          NaN \notin {x[a][i], y[a][i]} => z[a][i] # NaN
    BY <1>2 DEF Obeys
  <2>3. \A a, b \in Histories : \A i \in 1..Len(a), j \in 1..Len(b) :
          x[a][i] = x[b][j] /\ y[a][i] = y[b][j] => z[a][i] = z[b][j]
    <3>1. \A a \in Histories : \A i \in 1..Len(a) : z[a][i] = SaturatedOf(x[a][i], y[a][i])
      BY <1>1
    <3> QED BY ONLY <3>1
  <2>4. \A a \in Histories : z[a] = [i \in 1..Len(a) |-> z[a][i]]
    BY <1>1
  <2> QED BY <2>1, <2>2, <2>3, <2>4 DEF Pairwise
<1>4. /\ n \in Nat \ {0} /\ n \in Nat /\ n <= n /\ R \in SUBSET Roles /\ T \subseteq Histories
      /\ Good(x, n, R, T) /\ Good(y, n, R, T)
  BY DEF Windowed, Good, Tame
<1>5. Good(z, n, R, T)
  BY <1>3, <1>4, RowByRow
<1> QED BY <1>4, <1>5 DEF Windowed

(* A sum is null before a full window, and where a row of its window is.    *)
LEMMA SumNull ==
  ASSUME NEW R, NEW T, NEW n, NEW x, Windowed(x, n, R, T), NEW a \in Histories,
         NEW w \in Nat \ {0}, NEW i \in 1..Len(a)
  PROVE  (sum(x, w)[a][i] = NaV) <=> (i < w \/ NaV \in Window(x[a], w, i))
<1> PICK vs : vs = Window(x[a], w, i)
  OBVIOUS
<1>1. a \in Frames
  BY HistoryIsFrame
<1>2. sum(x, w)[a] = [j \in 1..Len(a) |-> Rolled("sum", x[a], w, j)]
  BY <1>1, RollingRows DEF sum
<1>3. sum(x, w)[a][i] = IF i < w THEN NaV ELSE Strict(vs, WindowOf("sum", vs))
  BY <1>2 DEF Rolled, Window
<1>4. WindowOf("sum", vs) # NaV
  BY DEF WindowOf, WindowLevel, From, Number, NaV
<1>5. i >= w => vs \in SUBSET Values(CellsOn(a, R))
  <2>1. x[a] \in [1..Len(a) -> Values(CellsOn(a, R))] /\ Len(a) \in Nat
    BY GoodRows, HistoryIsFrame DEF Windowed
  <2> PICK m, c : m = Len(a) /\ c = x[a]
    OBVIOUS
  <2>2. i >= w => w <= i
    OBVIOUS
  <2> QED BY <2>1, <2>2, WindowRows
<1>6. i >= w => /\ sum(x, w)[a][i] = Strict(vs, WindowOf("sum", vs))
                /\ (\E v \in vs : IsNull(v)) <=> (NaV \in vs)
  <2>1. i >= w => \A v \in vs : IsNull(v) <=> (v = NaV)
    BY <1>5, ValueKinds
  <2>2. IsNull(NaV)
    BY DEF IsNull, NaV
  <2>3. i >= w => ~ (i < w)
    BY HistoryIsFrame
  <2> QED BY <1>3, <2>1, <2>2, <2>3
<1>7. i < w \/ i >= w
  BY HistoryIsFrame
<1> QED BY <1>3, <1>4, <1>6, <1>7, NotNumbers DEF Strict

(* A product is null only where a factor is. *)
LEMMA TimesNull ==
  ASSUME NEW R, NEW T, NEW m, NEW n, NEW x, NEW y, Windowed(x, m, R, T), Windowed(y, n, R, T),
         NEW a \in Histories, NEW i \in 1..Len(a), Times(x, y)[a][i] = NaV
  PROVE  x[a][i] = NaV \/ y[a][i] = NaV
<1> PICK C, u, v : C = CellsOn(a, R) /\ u = x[a][i] /\ v = y[a][i]
  OBVIOUS
<1>1. {u, v} \in SUBSET Values(C)
  BY RowTyped
<1>2. a \in Frames
  BY HistoryIsFrame
<1>3. Times(x, y)[a] = [j \in 1..Len(a) |-> BinaryOf("times", x[a][j], y[a][j])]
  BY <1>2, BinaryRows DEF Times
<1> PICK f : f = From({u, v}, ProductLevel(u, v), 1)
  OBVIOUS
<1> PICK vs : vs = {u, v}
  OBVIOUS
<1> PICK z : z = NaV
  OBVIOUS
<1>4. z = Strict(vs, f)
  BY <1>3 DEF BinaryOf, Computed, LevelOf
<1>5. z # f
  BY DEF From, Number, NaV
<1>6. vs \in SUBSET Values(C)
  BY <1>1
<1>7. \/ z = NaV /\ NaV \in vs
      \/ z = NaN /\ NaV \notin vs /\ NaN \in vs
      \/ z = f /\ vs \subseteq Numbers(C) /\ NaV \notin vs /\ NaN \notin vs
  BY ONLY <1>4, <1>6, StrictValue
<1>8. NaV \in vs
  BY <1>7, <1>5, NotNumbers
<1> QED BY <1>8

(* A typical price is there where a volume is. *)
LEMMA VolumeNull ==
  ASSUME NEW a \in Histories, NEW i \in 1..Len(a), Col(Volume)[a][i] = NaV
  PROVE  Typical[a][i] = NaV
<1>1. /\ a \in Frames /\ a[i] \in Bars /\ (Missing(a[i]) \/ Whole(a[i]))
      /\ i \in DOMAIN a
  BY HistoryIsFrame
<1>2. Volume \in Roles /\ High \in Roles
  BY DEF Roles, Prices, Sizes
<1>3. Col(Volume)[a] = [j \in 1..Len(a) |-> Cell(a[j], Volume)]
  BY <1>1, ColRows
<1>4. Cell(a[i], Volume) = NaV
  BY <1>3
<1>5. a[i].cells[Volume] = Null
  BY <1>4 DEF Cell, Number, NaV
<1>6. Missing(a[i])
  BY <1>1, <1>2, <1>5 DEF Whole
<1>7. Col(High)[a] = [j \in 1..Len(a) |-> Cell(a[j], High)]
  BY <1>1, ColRows
<1>8. Cell(a[i], High) = NaV
  BY <1>2, <1>6 DEF Missing, Cell
<1>9. Col(High)[a][i] = NaV
  BY <1>7, <1>8
<1>10. Plus(Col(High), Col(Low))[a][i] = NaV
  BY <1>9, NullPair DEF Plus, Arithmetic
<1> QED BY <1>10, NullPair DEF Typical, Plus, Arithmetic

(* mfi reads the bars and the roles it declares, and no other. *)
LEMMA Mfi ==
  ASSUME NEW T \in SUBSET Histories, NEW window \in Windows
  PROVE  Parity(mfi(window), T)
<1> PICK R : R = {High, Low, CloseSplit, Volume}
  OBVIOUS
<1> PICK H : H = Histories
  OBVIOUS
<1> PICK h : h = window + 1
  OBVIOUS
<1> PICK t, s : t = Typical /\ s = Shift(Typical, 1)
  OBVIOUS
<1> PICK flow : flow = Times(t, Col(Volume))
  OBVIOUS
<1> PICK up, down : up = FlowWhen(Above(t, s), t, s, flow) /\ down = FlowWhen(Above(s, t), t, s, flow)
  OBVIOUS
<1>0. /\ R \in SUBSET Roles /\ H \in SUBSET Histories
      /\ window \in Nat \ {0}
      /\ High \in R /\ Low \in R /\ CloseSplit \in R /\ Volume \in R
      /\ h = 2 + window - 1 /\ 1 <= 2 /\ 2 = 1 + 1 /\ 2 <= 2
  BY DEF Roles, Prices, Sizes, Windows
<1>1. Windowed(Col(High), 1, R, H) /\ Windowed(Col(Low), 1, R, H)
  BY <1>0, ColRule
<1>2. Windowed(Col(CloseSplit), 1, R, H) /\ Windowed(Col(Volume), 1, R, H)
  BY <1>0, ColRule
<1>3. Windowed(Plus(Col(High), Col(Low)), 1, R, H)
  BY <1>1, <1>0, PairRule
<1>4. Windowed(t, 1, R, H)
  BY <1>2, <1>3, <1>0, PairRule DEF Typical
<1>5. Windowed(s, 2, R, H)
  BY <1>4, <1>0, ShiftRule
<1>6. Windowed(Times(t, Col(Volume)), 1, R, H)
  BY <1>2, <1>4, <1>0, PairRule
<1>7. Windowed(Above(t, s), 2, R, H) /\ Windowed(Above(s, t), 2, R, H)
  BY <1>4, <1>5, <1>0, PairRule
<1>8. /\ up = When(Both(Present(t), Present(s)), When(Above(t, s), Times(t, Col(Volume)), Zero), None)
      /\ down = When(Both(Present(t), Present(s)), When(Above(s, t), Times(t, Col(Volume)), Zero), None)
  BY DEF FlowWhen
<1>9. /\ Windowed(up, 2, R, H)
      /\ \A a \in Histories : \A i \in 1..Len(a) :
           /\ up[a][i] = NaV => t[a][i] = NaV \/ s[a][i] = NaV \/ Times(t, Col(Volume))[a][i] = NaV
           /\ t[a][i] = NaV \/ s[a][i] = NaV => up[a][i] = NaV
  BY <1>0, <1>4, <1>5, <1>6, <1>7, <1>8, FlowRule DEF Above, Comparisons
<1>10. /\ Windowed(down, 2, R, H)
       /\ \A a \in Histories : \A i \in 1..Len(a) :
            /\ down[a][i] = NaV => t[a][i] = NaV \/ s[a][i] = NaV \/ Times(t, Col(Volume))[a][i] = NaV
            /\ t[a][i] = NaV \/ s[a][i] = NaV => down[a][i] = NaV
  BY <1>0, <1>4, <1>5, <1>6, <1>7, <1>8, FlowRule DEF Above, Comparisons
<1>11. ASSUME NEW a \in Histories, NEW i \in 1..Len(a)
       PROVE  (up[a][i] = NaV) <=> (down[a][i] = NaV)
  <2>1. Times(t, Col(Volume))[a][i] = NaV => t[a][i] = NaV
    <3>1. Times(t, Col(Volume))[a][i] = NaV => t[a][i] = NaV \/ Col(Volume)[a][i] = NaV
      BY <1>2, <1>4, TimesNull
    <3> QED BY <3>1, VolumeNull
  <2> QED BY <2>1, <1>9, <1>10
<1>12. Windowed(sum(up, window), h, R, H) /\ Windowed(sum(down, window), h, R, H)
  BY <1>9, <1>10, <1>0, WindowRule
<1>13. ASSUME NEW a \in Histories, NEW i \in 1..Len(a)
       PROVE  (sum(up, window)[a][i] = NaV) <=> (sum(down, window)[a][i] = NaV)
  <2>1. /\ (sum(up, window)[a][i] = NaV) <=> (i < window \/ NaV \in Window(up[a], window, i))
        /\ (sum(down, window)[a][i] = NaV) <=> (i < window \/ NaV \in Window(down[a], window, i))
    BY <1>0, <1>9, <1>10, SumNull
  <2>2. ~ (i < window) => \A j \in (i - window + 1)..i : j \in 1..Len(a)
    BY <1>0, HistoryIsFrame
  <2>3. ~ (i < window) => ((NaV \in Window(up[a], window, i)) <=> (NaV \in Window(down[a],
       window, i)))
    BY <2>2, <1>11 DEF Window
  <2> QED BY <2>1, <2>3
<1>14. Windowed(Saturated(sum(up, window), sum(down, window)), h, R, T)
  BY <1>12, <1>13, SaturatedRule
<1> QED BY <1>14, <1>0, FiniteParity DEF mfi, MoneyFlows

(* cmf reads the bars and the roles it declares, and no other. *)
LEMMA Cmf ==
  ASSUME NEW T \in SUBSET Histories, NEW window \in Windows
  PROVE  Parity(cmf(window), T)
<1> PICK R : R = {High, Low, CloseSplit, Volume}
  OBVIOUS
<1>0. /\ R \in SUBSET Roles
      /\ T \in SUBSET Histories
      /\ window \in Nat \ {0}
      /\ High \in R /\ Low \in R /\ CloseSplit \in R /\ Volume \in R
      /\ window = 1 + window - 1 /\ window <= window
  BY DEF Roles, Prices, Sizes, Windows
<1>1. Windowed(Col(High), 1, R, T)
  BY <1>0, ColRule
<1>2. Windowed(Col(Low), 1, R, T)
  BY <1>0, ColRule
<1>3. Windowed(Col(CloseSplit), 1, R, T)
  BY <1>0, ColRule
<1>4. Windowed(Col(Volume), 1, R, T)
  BY <1>0, ColRule
<1>5. Windowed(Zero, 1, R, T)
  BY <1>0, LitRule DEF Zero
<1>6. Windowed(Plus(Col(CloseSplit), Col(CloseSplit)), 1, R, T)
  BY <1>3, <1>0, PairRule
<1>7. Windowed(Plus(Col(High), Col(Low)), 1, R, T)
  BY <1>1, <1>2, <1>0, PairRule
<1>8. Windowed(Minus(Plus(Col(CloseSplit), Col(CloseSplit)), Plus(Col(High), Col(Low))), 1, R, T)
  BY <1>6, <1>7, <1>0, PairRule
<1>9. Windowed(Minus(Col(High), Col(Low)), 1, R, T)
  BY <1>1, <1>2, <1>0, PairRule
<1>10. Windowed(safe_div(Minus(Plus(Col(CloseSplit), Col(CloseSplit)), Plus(Col(High),
            Col(Low))), Minus(Col(High), Col(Low))), 1, R, T)
  BY <1>8, <1>9, <1>0, PairRule
<1>11. Windowed(Equal(Col(High), Col(Low)), 1, R, T)
  BY <1>1, <1>2, <1>0, PairRule
<1>12. Otherwise(Equal(Col(High), Col(Low)), safe_div(Minus(Plus(Col(CloseSplit),
            Col(CloseSplit)), Plus(Col(High), Col(Low))), Minus(Col(High), Col(Low))))
  BY <1>1, <1>2, <1>8, <1>9, RangeOtherwise DEF Equal, Comparisons
<1>13. Windowed(When(Equal(Col(High), Col(Low)), Zero, safe_div(Minus(Plus(Col(CloseSplit),
            Col(CloseSplit)), Plus(Col(High), Col(Low))), Minus(Col(High), Col(Low)))), 1, R, T)
  BY <1>11, <1>5, <1>10, <1>12, <1>0, WhenRule
<1>14. Windowed(Times(When(Equal(Col(High), Col(Low)), Zero,
            safe_div(Minus(Plus(Col(CloseSplit), Col(CloseSplit)), Plus(Col(High), Col(Low))),
            Minus(Col(High), Col(Low)))), Col(Volume)), 1, R, T)
  BY <1>13, <1>4, <1>0, PairRule
<1>15. Windowed(sum(Times(When(Equal(Col(High), Col(Low)), Zero,
            safe_div(Minus(Plus(Col(CloseSplit), Col(CloseSplit)), Plus(Col(High), Col(Low))),
            Minus(Col(High), Col(Low)))), Col(Volume)), window), window, R, T)
  BY <1>14, <1>0, WindowRule
<1>16. Windowed(sum(Col(Volume), window), window, R, T)
  BY <1>4, <1>0, WindowRule
<1>17. Windowed(safe_div(sum(Times(When(Equal(Col(High), Col(Low)), Zero,
            safe_div(Minus(Plus(Col(CloseSplit), Col(CloseSplit)), Plus(Col(High), Col(Low))),
            Minus(Col(High), Col(Low)))), Col(Volume)), window), sum(Col(Volume), window)),
            window, R, T)
  BY <1>15, <1>16, <1>0, PairRule
<1> QED BY <1>17, <1>0, FiniteParity DEF cmf

(* quoted_spread reads the bars and the roles it declares, and no other. *)
LEMMA QuotedSpread ==
  ASSUME NEW T \in SUBSET Histories, NEW window \in Windows
  PROVE  Parity(quoted_spread(window), T)
<1> PICK R : R = {Bid, Ask}
  OBVIOUS
<1>0. /\ R \in SUBSET Roles
      /\ T \in SUBSET Histories
      /\ window \in Nat \ {0}
      /\ Bid \in R /\ Ask \in R
      /\ window = 1 + window - 1
  BY DEF Roles, Prices, Sizes, Windows
<1>1. Windowed(Col(Bid), 1, R, T)
  BY <1>0, ColRule
<1>2. Windowed(Col(Ask), 1, R, T)
  BY <1>0, ColRule
<1>3. Windowed(None, 1, R, T)
  BY <1>0, NoneRule
<1>4. Windowed(Minus(Col(Ask), Col(Bid)), 1, R, T)
  BY <1>2, <1>1, <1>0, PairRule
<1>5. Windowed(Plus(Col(Ask), Col(Bid)), 1, R, T)
  BY <1>2, <1>1, <1>0, PairRule
<1>6. Windowed(safe_div(Minus(Col(Ask), Col(Bid)), Plus(Col(Ask), Col(Bid))), 1, R, T)
  BY <1>4, <1>5, <1>0, PairRule
<1>7. Windowed(Above(Col(Bid), Col(Ask)), 1, R, T)
  BY <1>1, <1>2, <1>0, PairRule
<1>8. Otherwise(Above(Col(Bid), Col(Ask)), safe_div(Minus(Col(Ask), Col(Bid)), Plus(Col(Ask),
           Col(Bid))))
  BY <1>1, <1>2, <1>4, <1>5, SpreadOtherwise DEF Above, Comparisons
<1>9. Windowed(When(Above(Col(Bid), Col(Ask)), None, safe_div(Minus(Col(Ask), Col(Bid)),
           Plus(Col(Ask), Col(Bid)))), 1, R, T)
  BY <1>7, <1>3, <1>6, <1>8, <1>0, WhenRule
<1>10. Windowed(mean(When(Above(Col(Bid), Col(Ask)), None, safe_div(Minus(Col(Ask), Col(Bid)),
            Plus(Col(Ask), Col(Bid)))), window), window, R, T)
  BY <1>9, <1>0, WindowRule
<1> QED BY <1>10, <1>0, FiniteParity DEF quoted_spread

(* rsemivar_up reads the bars and the roles it declares, and no other. *)
LEMMA RsemivarUp ==
  ASSUME NEW T \in SUBSET Histories, NEW window \in Windows
  PROVE  Parity(rsemivar_up(window), T)
<1> PICK R : R = {CloseRaw}
  OBVIOUS
<1> PICK h : h = window + 1
  OBVIOUS
<1>0. /\ R \in SUBSET Roles
      /\ T \in SUBSET Histories
      /\ window \in Nat \ {0}
      /\ CloseRaw \in R
      /\ 2 <= 2 /\ 1 <= 2 /\ h = 2 + window - 1 /\ h \in Nat \ {0}
  BY DEF Roles, Prices, Sizes, Windows
<1>1. Windowed(bar_return(CloseRaw), 2, R, T)
  BY <1>0, BarReturnRule
<1>2. Windowed(Square(bar_return(CloseRaw)), 2, R, T)
  BY <1>1, <1>0, OneRule
<1>3. Windowed(Zero, 1, R, T)
  BY <1>0, LitRule DEF Zero
<1>4. Windowed(Above(bar_return(CloseRaw), Zero), 2, R, T)
  BY <1>1, <1>3, <1>0, PairRule
<1>5. \A a \in Histories : \A i \in 1..Len(a) :
         bar_return(CloseRaw)[a][i] = NaV \/ Zero[a][i] = NaV => Square(bar_return(CloseRaw))[a][i] = NaV
  BY NullSquare
<1>6. Windowed(Times(Square(bar_return(CloseRaw)), When(Above(bar_return(CloseRaw), Zero),
           Lit(1), Zero)), 2, R, T)
  BY <1>1, <1>3, <1>2, <1>4, <1>5, <1>0, MaskRule DEF Above, Comparisons
<1>7. Windowed(sum(Times(Square(bar_return(CloseRaw)), When(Above(bar_return(CloseRaw), Zero),
           Lit(1), Zero)), window), h, R, T)
  BY <1>6, <1>0, WindowRule
<1> QED BY <1>7, <1>0, FiniteParity DEF rsemivar_up, RealizedFeature, RealizedVar, BipowerVar,
     MicroReturn, Semivar

(* rsemivar_dn reads the bars and the roles it declares, and no other. *)
LEMMA RsemivarDn ==
  ASSUME NEW T \in SUBSET Histories, NEW window \in Windows
  PROVE  Parity(rsemivar_dn(window), T)
<1> PICK R : R = {CloseRaw}
  OBVIOUS
<1> PICK h : h = window + 1
  OBVIOUS
<1>0. /\ R \in SUBSET Roles
      /\ T \in SUBSET Histories
      /\ window \in Nat \ {0}
      /\ CloseRaw \in R
      /\ 1 <= 2 /\ 2 <= 2 /\ h = 2 + window - 1 /\ h \in Nat \ {0}
  BY DEF Roles, Prices, Sizes, Windows
<1>1. Windowed(bar_return(CloseRaw), 2, R, T)
  BY <1>0, BarReturnRule
<1>2. Windowed(Square(bar_return(CloseRaw)), 2, R, T)
  BY <1>1, <1>0, OneRule
<1>3. Windowed(Zero, 1, R, T)
  BY <1>0, LitRule DEF Zero
<1>4. Windowed(Above(Zero, bar_return(CloseRaw)), 2, R, T)
  BY <1>3, <1>1, <1>0, PairRule
<1>5. \A a \in Histories : \A i \in 1..Len(a) :
         Zero[a][i] = NaV \/ bar_return(CloseRaw)[a][i] = NaV => Square(bar_return(CloseRaw))[a][i] = NaV
  BY NullSquare
<1>6. Windowed(Times(Square(bar_return(CloseRaw)), When(Above(Zero, bar_return(CloseRaw)),
           Lit(1), Zero)), 2, R, T)
  BY <1>3, <1>1, <1>2, <1>4, <1>5, <1>0, MaskRule DEF Above, Comparisons
<1>7. Windowed(sum(Times(Square(bar_return(CloseRaw)), When(Above(Zero, bar_return(CloseRaw)),
           Lit(1), Zero)), window), h, R, T)
  BY <1>6, <1>0, WindowRule
<1> QED BY <1>7, <1>0, FiniteParity DEF rsemivar_dn, RealizedFeature, RealizedVar, BipowerVar,
     MicroReturn, Semivar

(* bipower reads the bars and the roles it declares, and no other. *)
LEMMA Bipower ==
  ASSUME NEW T \in SUBSET Histories, NEW window \in Windows
  PROVE  Parity(bipower(window), T)
<1> PICK R : R = {CloseRaw}
  OBVIOUS
<1> PICK h : h = window - 1
  OBVIOUS
<1> PICK k : k = window + 1
  OBVIOUS
<1>0. /\ R \in SUBSET Roles
      /\ T \in SUBSET Histories
      /\ window \in Nat \ {0}
      /\ CloseRaw \in R
      /\ 3 = 2 + 1 /\ 2 <= 3 /\ 3 <= 3 /\ k = 3 + h - 1
      /\ h = window - 1 /\ h \in Nat \ {0} /\ k \in Nat \ {0}
  BY DEF Roles, Prices, Sizes, Windows
<1>1. Windowed(bar_return(CloseRaw), 2, R, T)
  BY <1>0, BarReturnRule
<1>2. Windowed(Abs(bar_return(CloseRaw)), 2, R, T)
  BY <1>1, <1>0, OneRule
<1>3. Windowed(Shift(Abs(bar_return(CloseRaw)), 1), 3, R, T)
  BY <1>2, <1>0, ShiftRule
<1>4. Windowed(Times(Abs(bar_return(CloseRaw)), Shift(Abs(bar_return(CloseRaw)), 1)), 3, R, T)
  BY <1>2, <1>3, <1>0, PairRule
<1>5. Windowed(sum(Times(Abs(bar_return(CloseRaw)), Shift(Abs(bar_return(CloseRaw)), 1)), h), k,
           R, T)
  BY <1>4, <1>0, WindowRule
<1> QED BY <1>5, <1>0, FiniteParity DEF bipower, RealizedFeature, RealizedVar, BipowerVar,
     MicroReturn

(* jump_rj reads the bars and the roles it declares, and no other. *)
LEMMA JumpRj ==
  ASSUME NEW T \in SUBSET Histories, NEW window \in Windows
  PROVE  Parity(jump_rj(window), T)
<1> PICK R : R = {CloseRaw}
  OBVIOUS
<1> PICK h : h = window + 1
  OBVIOUS
<1> PICK k : k = window - 1
  OBVIOUS
<1>0. /\ R \in SUBSET Roles
      /\ T \in SUBSET Histories
      /\ window \in Nat \ {0}
      /\ CloseRaw \in R
      /\ h = 2 + window - 1 /\ 3 = 2 + 1 /\ 2 <= 3 /\ 3 <= 3
      /\ h = 3 + k - 1 /\ k = window - 1 /\ h <= h /\ h \in Nat \ {0}
      /\ k \in Nat \ {0}
  BY DEF Roles, Prices, Sizes, Windows
<1>1. Windowed(bar_return(CloseRaw), 2, R, T)
  BY <1>0, BarReturnRule
<1>2. Windowed(Square(bar_return(CloseRaw)), 2, R, T)
  BY <1>1, <1>0, OneRule
<1>3. Windowed(sum(Square(bar_return(CloseRaw)), window), h, R, T)
  BY <1>2, <1>0, WindowRule
<1>4. Windowed(Abs(bar_return(CloseRaw)), 2, R, T)
  BY <1>1, <1>0, OneRule
<1>5. Windowed(Shift(Abs(bar_return(CloseRaw)), 1), 3, R, T)
  BY <1>4, <1>0, ShiftRule
<1>6. Windowed(Times(Abs(bar_return(CloseRaw)), Shift(Abs(bar_return(CloseRaw)), 1)), 3, R, T)
  BY <1>4, <1>5, <1>0, PairRule
<1>7. Windowed(sum(Times(Abs(bar_return(CloseRaw)), Shift(Abs(bar_return(CloseRaw)), 1)), k), h,
           R, T)
  BY <1>6, <1>0, WindowRule
<1>8. Windowed(Minus(sum(Square(bar_return(CloseRaw)), window),
           sum(Times(Abs(bar_return(CloseRaw)), Shift(Abs(bar_return(CloseRaw)), 1)), k)), h, R,
           T)
  BY <1>3, <1>7, <1>0, PairRule
<1>9. Windowed(Up(Minus(sum(Square(bar_return(CloseRaw)), window),
           sum(Times(Abs(bar_return(CloseRaw)), Shift(Abs(bar_return(CloseRaw)), 1)), k))), h,
           R, T)
  BY <1>8, <1>0, OneRule
<1>10. Windowed(safe_div(Up(Minus(sum(Square(bar_return(CloseRaw)), window),
            sum(Times(Abs(bar_return(CloseRaw)), Shift(Abs(bar_return(CloseRaw)), 1)), k))),
            sum(Square(bar_return(CloseRaw)), window)), h, R, T)
  BY <1>9, <1>3, <1>0, PairRule
<1> QED BY <1>10, <1>0, FiniteParity DEF jump_rj, RealizedFeature, RealizedVar, BipowerVar,
     MicroReturn

(* var_ratio, whose own bias correction is zero when q is the window.       *)
LEMMA VarRatio ==
  ASSUME NEW T \in SUBSET Histories, NEW window \in Windows, NEW q \in Windows, q <= window,
         q # window \/ T = {}
  PROVE  Parity(var_ratio(q, window), T)
<1> PICK R : R = {Close}
  OBVIOUS
<1> PICK h : h = window + 1
  OBVIOUS
<1> PICK k : k = window + q
  OBVIOUS
<1> PICK p : p = q + 1
  OBVIOUS
<1> PICK nq : nq = window - q + 1
  OBVIOUS
<1>0. /\ R \in SUBSET Roles /\ T \in SUBSET Histories /\ Close \in R
      /\ window \in Nat \ {0} /\ h \in Nat \ {0} /\ k \in Nat \ {0} /\ nq \in Nat \ {0}
      /\ p \in Nat \ {0} /\ q \in Nat
      /\ h = 2 + window - 1 /\ h = p + nq - 1 /\ p = 1 + q
      /\ 1 <= p /\ p <= p /\ h <= h /\ 1 <= h /\ h <= k
  BY DEF Roles, Prices, Windows
<1> PICK r1 : r1 = bar_return(Close)
  OBVIOUS
<1> PICK rq : rq = log_return(Col(Close), Shift(Col(Close), q))
  OBVIOUS
<1> PICK m : m = Lit(Truth(q # window))
  OBVIOUS
<1> PICK qm : qm = sum(r1, window)
  OBVIOUS
<1> PICK var_a : var_a = Minus(sum(Square(r1), window), Square(qm))
  OBVIOUS
<1> PICK c : c = Plus(Minus(sum(Square(rq), nq), Times(qm, sum(rq, nq))), Square(qm))
  OBVIOUS
<1>1. Windowed(r1, 2, R, T)
  BY <1>0, BarReturnRule
<1>2. Windowed(Col(Close), 1, R, T)
  BY <1>0, ColRule
<1>3. Windowed(Shift(Col(Close), q), p, R, T)
  BY <1>0, <1>2, ShiftRule
<1>4. Windowed(rq, p, R, T)
  BY <1>0, <1>2, <1>3, LogReturnRule
<1>5. Windowed(qm, h, R, T)
  BY <1>0, <1>1, WindowRule
<1>6. Windowed(Square(r1), 2, R, T) /\ Windowed(Square(qm), h, R, T) /\ Windowed(Square(rq), p, R, T)
  BY <1>1, <1>4, <1>5, OneRule
<1>7. Windowed(sum(Square(r1), window), h, R, T)
  BY <1>0, <1>6, WindowRule
<1>8. Windowed(var_a, h, R, T)
  BY <1>0, <1>6, <1>7, PairRule
<1>9. Windowed(sum(Square(rq), nq), h, R, T) /\ Windowed(sum(rq, nq), h, R, T)
  BY <1>0, <1>4, <1>6, WindowRule
<1>10. Windowed(Times(qm, sum(rq, nq)), h, R, T)
  BY <1>0, <1>5, <1>9, PairRule
<1>11. Windowed(Minus(sum(Square(rq), nq), Times(qm, sum(rq, nq))), h, R, T)
  BY <1>0, <1>9, <1>10, PairRule
<1>12. Windowed(c, h, R, T)
  BY <1>0, <1>6, <1>11, PairRule
<1> PICK l : l = Truth(q # window)
  OBVIOUS
<1>13. l \in Int /\ (q # window => l # 0)
  BY DEF Truth
<1>14. m = Lit(l)
  OBVIOUS
<1>15. Windowed(m, 1, R, T) /\ Divides(m, R, T)
  <2>1. CASE T = {}
    BY <2>1, <1>0, <1>13, <1>14, LitRule DEF Divides
  <2>2. CASE l # 0
    BY ONLY <2>2, <1>0, <1>13, <1>14, LitRule, LitDivides
  <2> QED BY <2>1, <2>2, <1>13
<1>16. Windowed(Over(c, m), h, R, T)
  BY <1>0, <1>12, <1>15, OverRule
<1>17. Windowed(safe_div(Over(c, m), var_a), h, R, T)
  BY <1>0, <1>8, <1>16, PairRule
<1>18. Windowed(emit_after(safe_div(Over(c, m), var_a), k), k, R, T)
  BY <1>0, <1>17, MaskedRule DEF emit_after
<1> QED BY <1>18, FiniteParity DEF var_ratio, VarianceRatio, VarA, VarC

-----------------------------------------------------------------------------
(* The rows of the extreme of two columns.                                  *)
LEMMA HorizontalRows ==
  ASSUME NEW a \in Frames, NEW how, NEW x, NEW y, NEW xs, xs = <<x, y>>, NEW j \in 1..Len(a)
  PROVE  Horizontal(how, xs)[a][j] = Extreme(how, {x[a][j], y[a][j]})
<1>1. DOMAIN a = 1..Len(a) /\ Len(a) \in Nat
  BY DEF Frames
<1>2. DOMAIN xs = 1..2 /\ xs[1] = x /\ xs[2] = y
  OBVIOUS
<1> DEFINE d == [k \in DOMAIN xs |-> xs[k][a]]
<1>3. d = [k \in 1..2 |-> d[k]] /\ d[1] = x[a] /\ d[2] = y[a]
  BY <1>2
<1> PICK c : c = Column(d)
  OBVIOUS
<1>4. Horizontal(how, xs)[a]
        = Column([i \in DOMAIN a |-> Extreme(how, {c[k][i] : k \in DOMAIN xs})])
  BY DEF Horizontal
<1> HIDE DEF d
<1>5. c = d
  BY <1>3, ColumnOf
<1>6. \A i : {c[k][i] : k \in DOMAIN xs} = {x[a][i], y[a][i]}
  <2>1. DOMAIN xs = {1, 2}
    BY <1>2
  <2> QED BY <2>1, <1>3, <1>5
<1> DEFINE rows == [i \in 1..Len(a) |-> Extreme(how, {c[k][i] : k \in DOMAIN xs})]
<1>7. rows = [i \in 1..Len(a) |-> rows[i]]
  OBVIOUS
<1>8. Horizontal(how, xs)[a] = Column(rows)
  BY <1>1, <1>4
<1>9. rows = [i \in 1..Len(a) |-> Extreme(how, {x[a][i], y[a][i]})]
  BY <1>6
<1> HIDE DEF rows
<1>10. Column(rows) = rows
  BY <1>1, <1>7, ColumnOf
<1>11. Horizontal(how, xs)[a] = rows
  BY <1>8, <1>10
<1> QED BY <1>9, <1>11

(* Where neither bar is missing, the extreme of a column and of its lag is  *)
(* that of a window of two rows.                                            *)
LEMMA ExtremeOfTwo ==
  ASSUME NEW r \in Roles, NEW how \in {"max", "min"}, NEW a \in Histories,
         NEW i \in 2..Len(a), Whole(a[i]), Whole(a[i - 1])
  PROVE  Horizontal(how, <<Col(r), Shift(Col(r), 1)>>)[a][i] = Rolling(how, Col(r), 2)[a][i]
<1>1. /\ a \in Frames /\ Len(a) \in Nat /\ i \in 1..Len(a) /\ i - 1 \in 1..Len(a)
      /\ i \in DOMAIN a /\ i - 1 \in DOMAIN a /\ i \in Nat /\ ~ (i < 2)
  BY HistoryIsFrame
<1> PICK x, y : x = Col(r) /\ y = Shift(Col(r), 1)
  OBVIOUS
<1> PICK u, v : u = x[a][i] /\ v = x[a][i - 1]
  OBVIOUS
<1> PICK C : C = CellsOn(a, Roles)
  OBVIOUS
<1>2. x[a] = [j \in 1..Len(a) |-> Cell(a[j], r)]
  BY <1>1, ColRows
<1>3. u = Cell(a[i], r) /\ v = Cell(a[i - 1], r)
  BY <1>1, <1>2
<1>4. u \in Numbers(C) /\ v \in Numbers(C)
  <2> PICK b, d : b = a[i] /\ d = a[i - 1]
    OBVIOUS
  <2>1. b \in Bars /\ d \in Bars /\ Whole(b) /\ Whole(d)
    BY <1>1, HistoryIsFrame
  <2>2. <<b.sym, b.t, r>> \in C /\ <<d.sym, d.t, r>> \in C
    BY <1>1 DEF CellsOn
  <2>3. Cell(b, r) \in Numbers(C) /\ Cell(d, r) \in Numbers(C)
    BY ONLY <2>1, <2>2, r \in Roles, CellValue
  <2> QED BY <2>3, <1>3
<1>5. y[a][i] = v
  <2>1. y[a] = [j \in 1..Len(a) |-> IF j - 1 \in 1..Len(a) THEN x[a][j - 1] ELSE NaV]
    BY <1>1, ShiftRows
  <2> QED BY <2>1, <1>1
<1> PICK vs : vs = {u, v}
  OBVIOUS
<1>6. vs \subseteq Numbers(C) /\ NaV \notin vs /\ NaN \notin vs /\ vs # {}
  BY <1>4, NotNumbers
<1> PICK w : w = WindowOf(how, vs)
  OBVIOUS
<1>7. Rolling(how, x, 2)[a][i] = w
  <2>1. Rolling(how, x, 2)[a] = [j \in 1..Len(a) |-> Rolled(how, x[a], 2, j)]
    BY <1>1, RollingRows
  <2>2. Rolling(how, x, 2)[a][i] = Rolled(how, x[a], 2, i)
    BY <2>1, <1>1
  <2>3. (i - 2 + 1)..i = {i - 1, i}
    BY <1>1
  <2>4. {x[a][j] : j \in (i - 2 + 1)..i} = vs
    BY <2>3
  <2>5. Rolled(how, x[a], 2, i) = Strict(vs, w)
    BY <2>4, <1>1 DEF Rolled
  <2>6. \A z \in vs : ~ IsNull(z)
    BY <1>6 DEF Numbers, IsNull
  <2>7. Strict(vs, w) = w
    BY <2>6, <1>6 DEF Strict
  <2> QED BY <2>2, <2>5, <2>7
<1>8. Extreme(how, vs) = w
  <2>1. vs \ {NaV} = vs
    BY <1>6
  <2>2. Extreme(how, vs) = [w EXCEPT !.guess = @ \/ FALSE]
    BY <2>1, <1>6 DEF Extreme
  <2>3. \E l : w = From(vs, l, 1)
    BY DEF WindowOf, WindowLevel
  <2>4. PICK l : w = From(vs, l, 1)
    BY <2>3
  <2>5. w = Number(l, 1, Cells(vs), Guessed(vs)) /\ Guessed(vs) \in BOOLEAN
    BY <2>4 DEF From, Guessed
  <2> PICK S : S = [kind : {"number"}, lvl : {l}, log : {1}, on : {Cells(vs)}, guess : BOOLEAN]
    OBVIOUS
  <2>6. w \in S
    BY <2>5 DEF Number
  <2>7. (w.guess \/ FALSE) = w.guess
    BY <2>6
  <2>8. [w EXCEPT !.guess = @ \/ FALSE] = w
    BY <2>6, <2>7
  <2> QED BY <2>2, <2>8
<1>9. Horizontal(how, <<x, y>>)[a][i] = Extreme(how, vs)
  <2> PICK xs : xs = <<x, y>>
    OBVIOUS
  <2>1. Horizontal(how, xs)[a][i] = Extreme(how, {x[a][i], y[a][i]})
    BY <1>1, HorizontalRows
  <2>2. {x[a][i], y[a][i]} = vs
    BY <1>5
  <2> QED BY <2>1, <2>2
<1> QED BY <1>7, <1>8, <1>9

(* The lesser of two lows that are not zero is not zero.                    *)
LEMMA LowestDivides ==
  ASSUME NEW R \in SUBSET Roles, NEW T \in SUBSET Positive({Low}), Low \in R
  PROVE  Divides(Rolling("min", Col(Low), 2), R, T)
<1> PICK x, z : x = Col(Low) /\ z = Rolling("min", Col(Low), 2)
  OBVIOUS
<1> SUFFICES ASSUME NEW a \in T, NEW i \in 1..Len(a), z[a][i] \in Numbers(CellsOn(a, R))
             PROVE  z[a][i].lvl # 0
  BY DEF Divides
<1> PICK C : C = CellsOn(a, R)
  OBVIOUS
<1>1. a \in Histories /\ a \in Frames /\ Len(a) \in Nat
  BY HistoryIsFrame DEF Positive
<1>2. T \in SUBSET Histories
  BY DEF Positive
<1>3. Windowed(x, 1, R, T)
  BY <1>2, ColRule
<1>4. Divides(x, R, T)
  BY ColDivides
<1>5. z[a][i] = Rolled("min", x[a], 2, i)
  <2>1. z[a] = [j \in 1..Len(a) |-> Rolled("min", x[a], 2, j)]
    BY <1>1, RollingRows
  <2> QED BY <2>1
<1>6. ~ (i < 2) /\ i \in 1..Len(a) /\ i - 1 \in 1..Len(a)
  <2>1. i < 2 => z[a][i] = NaV
    BY <1>5 DEF Rolled
  <2>2. ~ (i < 2)
    BY <2>1, NotNumbers
  <2> QED BY <2>2, <1>1
<1> PICK u, v : u = x[a][i] /\ v = x[a][i - 1]
  OBVIOUS
<1> PICK vs : vs = {u, v}
  OBVIOUS
<1>7. z[a][i] = Strict(vs, WindowOf("min", vs))
  <2>1. (i - 2 + 1)..i = {i - 1, i}
    BY <1>6
  <2>2. {x[a][j] : j \in (i - 2 + 1)..i} = vs
    BY <2>1
  <2> QED BY <2>2, <1>5, <1>6 DEF Rolled
<1>8. u \in Values(C) /\ v \in Values(C)
  BY <1>1, <1>3, <1>6, RowTyped
<1>9. u \in Numbers(C) /\ v \in Numbers(C) /\ z[a][i] = WindowOf("min", vs)
  <2>1. vs \in SUBSET Values(C)
    BY <1>8
  <2> PICK y, f : y = z[a][i] /\ f = WindowOf("min", vs)
    OBVIOUS
  <2>2. \/ y = NaV /\ NaV \in vs
        \/ y = NaN /\ NaV \notin vs /\ NaN \in vs
        \/ y = f /\ vs \subseteq Numbers(C) /\ NaV \notin vs /\ NaN \notin vs
    <3>1. y = Strict(vs, f)
      BY <1>7
    <3> QED BY ONLY <2>1, <3>1, StrictValue
  <2>3. y # NaV /\ y # NaN
    BY NotNumbers
  <2> QED BY <2>2, <2>3
<1>10. u.lvl \in Int /\ v.lvl \in Int /\ u.lvl # 0 /\ v.lvl # 0
  BY <1>4, <1>6, <1>9 DEF Divides, Numbers
<1> PICK k, l : k = u.lvl /\ l = v.lvl
  OBVIOUS
<1>11. {w.lvl : w \in vs} = {k, l}
  OBVIOUS
<1>12. Min({k, l}) \in {k, l}
  <2>1. k \in Int /\ l \in Int
    BY <1>10
  <2>2. \E m \in {k, l} : \A j \in {k, l} : m <= j
    BY <2>1
  <2> QED BY <2>2 DEF Min
<1>13. WindowOf("min", vs) = From(vs, Min({k, l}), 1)
  BY <1>11 DEF WindowOf, WindowLevel, Levels
<1>14. WindowOf("min", vs).lvl = Min({k, l})
  BY <1>13 DEF From, Number
<1> QED BY <1>9, <1>10, <1>12, <1>14

(* The rows of an operation, one at a time: of one operand,                 *)
LEMMA UnaryAt ==
  ASSUME NEW a \in Histories, NEW i \in 1..Len(a), NEW op, NEW x
  PROVE  Unary(op, x)[a][i] = UnaryValue(op, x[a][i])
<1>0. a \in Frames
  BY HistoryIsFrame
<1>1. Unary(op, x)[a] = [j \in 1..Len(a) |-> UnaryValue(op, x[a][j])]
  BY <1>0, UnaryRows
<1> QED BY <1>1

(* of two,                                                                  *)
LEMMA BinaryAt ==
  ASSUME NEW a \in Histories, NEW i \in 1..Len(a), NEW op, NEW x, NEW y
  PROVE  /\ Binary(op, x, y)[a][i] = BinaryOf(op, x[a][i], y[a][i])
         /\ Comparison(op, x, y)[a][i] = Compared(op, x[a][i], y[a][i])
<1>0. a \in Frames
  BY HistoryIsFrame
<1>1. /\ Binary(op, x, y)[a] = [j \in 1..Len(a) |-> BinaryOf(op, x[a][j], y[a][j])]
      /\ Comparison(op, x, y)[a] = [j \in 1..Len(a) |-> Compared(op, x[a][j], y[a][j])]
  BY <1>0, BinaryRows, ComparisonRows
<1> QED BY <1>1

(* of a condition and its branches, which are all there is to it,           *)
LEMMA WhenSame ==
  ASSUME NEW a \in Histories, NEW c, NEW x, NEW y, NEW d, NEW u, NEW v,
         \A i \in 1..Len(a) : c[a][i] = d[a][i] /\ x[a][i] = u[a][i] /\ y[a][i] = v[a][i]
  PROVE  When(c, x, y)[a] = When(d, u, v)[a]
<1>0. a \in Frames
  BY HistoryIsFrame
<1>1. When(c, x, y)[a] = [j \in 1..Len(a) |-> Chosen(c[a][j], x[a][j], y[a][j])]
  BY <1>0, WhenRows
<1>2. When(d, u, v)[a] = [j \in 1..Len(a) |-> Chosen(d[a][j], u[a][j], v[a][j])]
  BY <1>0, WhenRows
<1>3. \A j \in 1..Len(a) : Chosen(c[a][j], x[a][j], y[a][j]) = Chosen(d[a][j], u[a][j], v[a][j])
  OBVIOUS
<1> QED BY ONLY <1>1, <1>2, <1>3

(* and of a lag.                                                            *)
LEMMA ShiftAt ==
  ASSUME NEW a \in Histories, NEW i \in 1..Len(a), NEW x, NEW s
  PROVE  Shift(x, s)[a][i] = IF i - s \in 1..Len(a) THEN x[a][i - s] ELSE NaV
<1>0. a \in Frames
  BY HistoryIsFrame
<1>1. Shift(x, s)[a] = [j \in 1..Len(a) |-> IF j - s \in 1..Len(a) THEN x[a][j - s] ELSE NaV]
  BY <1>0, ShiftRows
<1> QED BY ONLY <1>1, i \in 1..Len(a)

(* spread_corwin_schultz: where beta_ is there, so are both bars, and their *)
(* extremes are those of a window of two rows; where it is not, alpha is    *)
(* not either way.                                                          *)
LEMMA SpreadCorwinSchultz ==
  ASSUME NEW T \in SUBSET Positive({Low})
  PROVE  Parity(spread_corwin_schultz, T)
<1> PICK R : R = {High, Low}
  OBVIOUS
<1>0. /\ R \in SUBSET Roles /\ T \in SUBSET Histories /\ T \in SUBSET Positive({Low})
      /\ High \in R /\ Low \in R /\ High \in Roles /\ Low \in Roles /\ Low \in {Low}
      /\ 2 = 1 + 1 /\ 2 = 1 + 2 - 1 /\ 1 <= 2 /\ 2 <= 2 /\ 1 <= 1 /\ 2 \in Nat \ {0} /\ 1 \in Nat
  BY DEF Roles, Prices, Positive
<1> PICK high, low : high = Col(High) /\ low = Col(Low)
  OBVIOUS
<1> PICK hl : hl = Square(LogRatio(High, Low))
  OBVIOUS
<1> PICK past : past = Shift(hl, 1)
  OBVIOUS
<1> PICK beta_ : beta_ = Plus(hl, past)
  OBVIOUS
<1> PICK hi2 : hi2 = Horizontal("max", <<high, Shift(high, 1)>>)
  OBVIOUS
<1> PICK lo2 : lo2 = Horizontal("min", <<low, Shift(low, 1)>>)
  OBVIOUS
<1> PICK high2, low2 : high2 = Rolling("max", high, 2) /\ low2 = Rolling("min", low, 2)
  OBVIOUS
<1> PICK root : root = safe_sqrt(beta_)
  OBVIOUS
<1> PICK g1, g2 : g1 = safe_sqrt(Square(safe_log(Over(hi2, lo2))))
               /\ g2 = safe_sqrt(Square(safe_log(Over(high2, low2))))
  OBVIOUS
<1> PICK alpha, alpha2 : alpha = Minus(root, g1) /\ alpha2 = Minus(root, g2)
  OBVIOUS
<1> PICK z, z2 : z = When(Above(Zero, alpha), Zero, alpha)
              /\ z2 = When(Above(Zero, alpha2), Zero, alpha2)
  OBVIOUS
<1>1. Windowed(high, 1, R, T) /\ Windowed(low, 1, R, T)
  BY <1>0, ColRule
<1>2. Divides(low, R, T)
  BY <1>0, ColDivides
<1>3. Windowed(hl, 1, R, T)
  <2>1. Windowed(Over(high, low), 1, R, T)
    BY <1>0, <1>1, <1>2, OverRule
  <2>2. Windowed(safe_log(Over(high, low)), 1, R, T)
    BY <2>1, OneRule
  <2>3. Windowed(LogRatio(High, Low), 1, R, T)
    BY <2>2 DEF LogRatio
  <2> QED BY <2>3, OneRule
<1>4. Windowed(past, 2, R, T)
  BY <1>0, <1>3, ShiftRule
<1>5. Windowed(beta_, 2, R, T)
  BY <1>0, <1>3, <1>4, PairRule
<1>6. Windowed(root, 2, R, T)
  BY <1>5, OneRule
<1>7. Windowed(high2, 2, R, T) /\ Windowed(low2, 2, R, T)
  <2>1. "max" \in RollingOps \ {"moment"} /\ "min" \in RollingOps \ {"moment"}
    BY DEF RollingOps, DispersionOps
  <2> QED BY <2>1, <1>0, <1>1, RollingRule
<1>8. Divides(low2, R, T)
  BY <1>0, LowestDivides
<1>9. Windowed(g2, 2, R, T)
  <2>1. Windowed(Over(high2, low2), 2, R, T)
    BY <1>0, <1>7, <1>8, OverRule
  <2>2. Windowed(safe_log(Over(high2, low2)), 2, R, T)
    BY <2>1, OneRule
  <2>3. Windowed(Square(safe_log(Over(high2, low2))), 2, R, T)
    BY <2>2, OneRule
  <2> QED BY <2>3, OneRule
<1>10. Windowed(alpha2, 2, R, T)
  BY <1>0, <1>6, <1>9, PairRule
<1>11. Windowed(Zero, 1, R, T)
  BY <1>0, LitRule DEF Zero
<1>12. Windowed(Above(Zero, alpha2), 2, R, T)
  BY <1>0, <1>10, <1>11, PairRule
<1>13. Otherwise(Above(Zero, alpha2), alpha2)
  <2> SUFFICES ASSUME NEW a \in Histories, NEW i \in 1..Len(a)
               PROVE  /\ Above(Zero, alpha2)[a][i] # NaN
                      /\ Above(Zero, alpha2)[a][i] = NaV => alpha2[a][i] = NaV
    BY DEF Otherwise
  <2> PICK c : c = Comparison("above", Zero, alpha2)[a][i]
    OBVIOUS
  <2>1. "above" \in Comparisons
    BY DEF Comparisons
  <2>2. c # NaN /\ ((c = NaV) <=> (Zero[a][i] = NaV \/ alpha2[a][i] = NaV))
    BY <1>10, <1>11, <2>1, TestNull
  <2>3. Zero[a][i] # NaV
    <3>1. a \in Frames
      BY HistoryIsFrame
    <3>2. Zero[a] = [j \in 1..Len(a) |-> Literal(0)]
      BY <3>1, LitRows DEF Zero
    <3>3. Zero[a][i] = Literal(0)
      BY <3>2
    <3> QED BY <3>3 DEF Literal, Number, NaV
  <2> QED BY <2>2, <2>3 DEF Above
<1>14. Windowed(z2, 2, R, T)
  BY <1>0, <1>10, <1>11, <1>12, <1>13, WhenRule
<1>15. ASSUME NEW a \in Histories, NEW i \in 1..Len(a), beta_[a][i] # NaV
       PROVE  i \in 2..Len(a) /\ Whole(a[i]) /\ Whole(a[i - 1])
  <2>1. a \in Frames /\ Len(a) \in Nat
    BY HistoryIsFrame
  <2>2. "plus" \in Arithmetic
    BY DEF Arithmetic
  <2>3. hl[a][i] # NaV /\ past[a][i] # NaV
    BY <2>2, <1>15, NullPair DEF Plus
  <2>4. past[a][i] = IF i - 1 \in 1..Len(a) THEN hl[a][i - 1] ELSE NaV
    BY ShiftAt
  <2>5. i - 1 \in 1..Len(a) /\ hl[a][i - 1] # NaV
    BY <2>3, <2>4
  <2>6. ASSUME NEW j \in 1..Len(a), Missing(a[j]) PROVE hl[a][j] = NaV
    <3>1. a[j] \in Bars
      BY HistoryIsFrame
    <3>2. high[a] = [k \in 1..Len(a) |-> Cell(a[k], High)]
      BY <2>1, ColRows
    <3>3. high[a][j] = NaV
      BY <3>2, <2>6, <1>0 DEF Missing, Cell
    <3> PICK q, lg : q = Over(high, low) /\ lg = LogRatio(High, Low)
      OBVIOUS
    <3>4. q[a][j] = NaV
      <4>1. q[a][j] = BinaryOf("over", NaV, low[a][j])
        BY <3>3, BinaryAt DEF Over
      <4> QED BY <4>1 DEF BinaryOf, Strict, IsNull, NaV
    <3>5. lg[a][j] = NaV
      <4>1. lg = Unary("safe_log", q)
        BY DEF LogRatio, safe_log
      <4>2. lg[a][j] = UnaryValue("safe_log", NaV)
        BY <4>1, <3>4, UnaryAt
      <4> QED BY <4>2 DEF UnaryValue, Strict, IsNull, NaV
    <3>6. "times" \in Arithmetic
      BY DEF Arithmetic
    <3> QED BY <3>5, <3>6, NullPair DEF Square, Times
  <2>7. \A j \in 1..Len(a) : Missing(a[j]) \/ Whole(a[j])
    BY HistoryIsFrame
  <2>8. ~ Missing(a[i]) /\ ~ Missing(a[i - 1])
    BY <2>3, <2>5, <2>6
  <2> QED BY <2>1, <2>5, <2>7, <2>8
<1>16. ASSUME NEW a \in Histories, NEW i \in 1..Len(a) PROVE alpha[a][i] = alpha2[a][i]
  <2>1. a \in Frames
    BY HistoryIsFrame
  <2>2. CASE beta_[a][i] = NaV
    <3>1. root[a][i] = NaV
      <4>1. root[a][i] = UnaryValue("safe_sqrt", NaV)
        BY <2>2, UnaryAt DEF safe_sqrt
      <4> QED BY <4>1 DEF UnaryValue, Strict, IsNull, NaV
    <3>2. "minus" \in Arithmetic
      BY DEF Arithmetic
    <3> QED BY <3>1, <3>2, NullPair DEF Minus
  <2>3. CASE beta_[a][i] # NaV
    <3>1. i \in 2..Len(a) /\ Whole(a[i]) /\ Whole(a[i - 1])
      BY <2>3, <1>15
    <3>2. hi2[a][i] = high2[a][i] /\ lo2[a][i] = low2[a][i]
      BY <3>1, <1>0, ExtremeOfTwo
    <3> PICK q1, q2 : q1 = Over(hi2, lo2) /\ q2 = Over(high2, low2)
      OBVIOUS
    <3>4. ASSUME NEW op, NEW x, NEW y, x[a][i] = y[a][i]
          PROVE  Unary(op, x)[a][i] = Unary(op, y)[a][i]
      BY <3>4, UnaryAt
    <3>5. ASSUME NEW op, NEW x, NEW y, NEW v, NEW w, x[a][i] = y[a][i], v[a][i] = w[a][i]
          PROVE  Binary(op, x, v)[a][i] = Binary(op, y, w)[a][i]
      BY <3>5, BinaryAt
    <3>3. q1[a][i] = q2[a][i]
      BY <3>2, <3>5 DEF Over
    <3> PICK l1, l2 : l1 = safe_log(q1) /\ l2 = safe_log(q2)
      OBVIOUS
    <3>6. l1[a][i] = l2[a][i]
      BY <3>3, <3>4 DEF safe_log
    <3> PICK s1, s2 : s1 = Square(l1) /\ s2 = Square(l2)
      OBVIOUS
    <3>7. s1[a][i] = s2[a][i]
      BY <3>6, <3>5 DEF Square, Times
    <3>8. g1[a][i] = g2[a][i]
      BY <3>7, <3>4 DEF safe_sqrt
    <3> QED BY <3>8, <3>5 DEF Minus
  <2> QED BY <2>2, <2>3
<1>17. ASSUME NEW a \in Histories PROVE z[a] = z2[a]
  <2>1. a \in Frames
    BY HistoryIsFrame
  <2> PICK c, c2 : c = Above(Zero, alpha) /\ c2 = Above(Zero, alpha2)
    OBVIOUS
  <2>2. \A k \in 1..Len(a) : alpha[a][k] = alpha2[a][k]
    BY <1>16
  <2>3. \A k \in 1..Len(a) : c[a][k] = c2[a][k]
    BY <2>2, BinaryAt DEF Above
  <2>4. \A k \in 1..Len(a) : /\ c[a][k] = c2[a][k] /\ Zero[a][k] = Zero[a][k]
                             /\ alpha[a][k] = alpha2[a][k]
    BY <2>2, <2>3
  <2>5. When(c, Zero, alpha)[a] = When(c2, Zero, alpha2)[a]
    BY ONLY <2>4, a \in Histories, WhenSame
  <2> QED BY <2>5
<1>18. Windowed(z, 2, R, T)
  BY <1>14, <1>17, Replaced
<1> QED BY <1>18, FiniteParity DEF spread_corwin_schultz, SpreadAlpha, NotNegative, Hi2, Lo2

-----------------------------------------------------------------------------
(* A row of the weighted lags of frac_diff, from the one before it.         *)
Term(w, f, k) ==
  IF k = 0 THEN Col(Close)
  ELSE IF w[k][1] < 0 THEN Minus(f[k - 1], Shift(Col(Close), k))
  ELSE Plus(f[k - 1], Shift(Col(Close), k))
Terms(w, n, f) == f = [k \in 0..n |-> Term(w, f, k)]

(* There are such sums, however many lags are kept,                         *)
LEMMA TermsExist ==
  ASSUME NEW w, NEW n \in Nat
  PROVE  \E f : Terms(w, n, f)
<1> SUFFICES ASSUME ~ \E f : Terms(w, n, f) PROVE FALSE
  OBVIOUS
<1> PICK S : S = {m \in Nat : ~ \E f : Terms(w, m, f)}
  OBVIOUS
<1>1. PICK m \in S : \A k \in S : m <= k
  BY LeastNatural
<1>2. m \in Nat /\ ~ \E f : Terms(w, m, f)
  BY <1>1
<1>3. m # 0
  <2> DEFINE f == [k \in 0..0 |-> Col(Close)]
  <2>1. \A k \in 0..0 : Term(w, f, k) = Col(Close)
    BY DEF Term
  <2>2. Terms(w, 0, f)
    BY <2>1 DEF Terms
  <2> QED BY <1>2, <2>2
<1>4. m - 1 \in Nat /\ m - 1 \notin S
  BY <1>1, <1>2, <1>3
<1>5. PICK g : Terms(w, m - 1, g)
  BY <1>4
<1> PICK last : last = Term(w, g, m)
  OBVIOUS
<1> DEFINE f == [k \in 0..m |-> IF k = m THEN last ELSE g[k]]
<1>6. \A k \in 0..(m - 1) : f[k] = g[k]
  BY <1>2
<1>7. f[m] = last
  BY <1>2
<1>8. ASSUME NEW k \in 0..(m - 1) PROVE g[k] = Term(w, g, k)
  BY <1>5 DEF Terms
<1> HIDE DEF f
<1>9. ASSUME NEW k \in 0..m PROVE Term(w, f, k) = Term(w, g, k)
  <2>1. k # 0 => k - 1 \in 0..(m - 1)
    BY <1>2
  <2>2. k # 0 => f[k - 1] = g[k - 1]
    BY <2>1, <1>6
  <2> QED BY <2>2 DEF Term
<1>10. ASSUME NEW k \in 0..m PROVE f[k] = Term(w, f, k)
  <2>1. CASE k = m
    BY <2>1, <1>7, <1>9
  <2>2. CASE k # m
    <3>1. k \in 0..(m - 1)
      BY <2>2, <1>2
    <3> QED BY <3>1, <1>6, <1>8, <1>9
  <2> QED BY <2>1, <2>2
<1>11. f = [k \in 0..m |-> f[k]]
  BY DEF f
<1>12. Terms(w, m, f)
  BY <1>10, <1>11 DEF Terms
<1> QED BY <1>2, <1>12

(* each of one row of memory more.                                          *)
LEMMA TermsRule ==
  ASSUME NEW R \in SUBSET Roles, NEW T \in SUBSET Histories, Close \in R,
         NEW w, NEW n \in Nat, NEW f, Terms(w, n, f), NEW k \in 0..n, NEW h, h = k + 1
  PROVE  Windowed(f[k], h, R, T)
<1> SUFFICES ASSUME ~ Windowed(f[k], k + 1, R, T) PROVE FALSE
  OBVIOUS
<1> PICK S : S = {m \in 0..n : ~ Windowed(f[m], m + 1, R, T)}
  OBVIOUS
<1>1. S \subseteq Nat /\ S # {}
  OBVIOUS
<1>2. PICK m \in S : \A j \in S : m <= j
  BY <1>1, LeastNatural
<1> PICK l : l = m + 1
  OBVIOUS
<1>3. m \in 0..n /\ ~ Windowed(f[m], l, R, T)
  BY <1>2
<1>4. f[m] = Term(w, f, m)
  BY <1>3 DEF Terms
<1>5. Windowed(Col(Close), 1, R, T)
  BY ColRule
<1>6. m # 0
  <2>1. m = 0 => f[m] = Col(Close) /\ l = 1
    BY <1>4 DEF Term
  <2> QED BY <2>1, <1>3, <1>5
<1> PICK p : p = m - 1
  OBVIOUS
<1>7. p \in 0..n /\ p \notin S /\ m \in Nat /\ l = 1 + m /\ m <= l /\ l <= l /\ m = p + 1
  BY <1>2, <1>3, <1>6
<1>8. Windowed(f[p], m, R, T)
  BY <1>7
<1> PICK x, y : x = f[p] /\ y = Shift(Col(Close), m)
  OBVIOUS
<1>9. Windowed(y, l, R, T)
  BY <1>5, <1>7, ShiftRule
<1>10. Windowed(Minus(x, y), l, R, T) /\ Windowed(Plus(x, y), l, R, T)
  BY <1>7, <1>8, <1>9, PairRule
<1>11. f[m] = Minus(x, y) \/ f[m] = Plus(x, y)
  BY <1>4, <1>6 DEF Term
<1> QED BY <1>3, <1>10, <1>11

(* The lags kept are as many as the weights ask, and max_lag at most.       *)
LEMMA LagsAreFew ==
  ASSUME NEW d, NEW threshold, NEW max_lag \in Nat
  PROVE  ffd_lags(d, threshold, max_lag) \in 0..max_lag
<1> PICK w : w = ffd_weight(d, max_lag)
  OBVIOUS
<1> DEFINE size(x) == IF x < 0 THEN -x ELSE x
<1> PICK dropped : dropped = {k \in 1..max_lag : size(w[k][1]) * threshold < w[k][2]}
  OBVIOUS
<1>1. ffd_lags(d, threshold, max_lag) = Min(dropped \cup {max_lag + 1}) - 1
  BY DEF ffd_lags
<1> HIDE DEF size
<1> PICK S : S = dropped \cup {max_lag + 1}
  OBVIOUS
<1>2. S \subseteq 1..(max_lag + 1) /\ S # {}
  OBVIOUS
<1>3. S \subseteq Nat
  BY <1>2
<1>4. \E x \in S : \A y \in S : x <= y
  BY <1>2, <1>3, LeastNatural
<1>5. Min(S) \in S
  BY <1>4 DEF Min
<1> QED BY <1>1, <1>2, <1>5

(* frac_diff: the sum over the lags that are kept.                          *)
LEMMA FracDiff ==
  ASSUME NEW T \in SUBSET Histories, NEW d, NEW threshold, NEW max_lag \in Nat
  PROVE  Parity(frac_diff(d, threshold, max_lag), T)
<1> DEFINE w == ffd_weight(d, max_lag)
           n == ffd_lags(d, threshold, max_lag)
           f == CHOOSE g : g = [k \in 0..n |->
                    IF k = 0 THEN Col(Close)
                    ELSE IF w[k][1] < 0 THEN Minus(g[k - 1], Shift(Col(Close), k))
                    ELSE Plus(g[k - 1], Shift(Col(Close), k))]
<1>1. frac_diff(d, threshold, max_lag) = Finite("frac_diff", n + 1, {Close}, grouped(f[n]))
  BY Zenon DEF frac_diff
<1>2. f = CHOOSE g : Terms(w, n, g)
  BY Zenon DEF Terms, Term
<1>3. n \in 0..max_lag
  BY LagsAreFew
<1> HIDE DEF w, n, f
<1>4. Terms(w, n, f)
  BY <1>2, <1>3, TermsExist
<1> PICK R : R = {Close}
  OBVIOUS
<1>5. R \in SUBSET Roles /\ Close \in R /\ n \in Nat /\ n \in 0..n
  BY <1>3 DEF Roles, Prices
<1> PICK h : h = n + 1
  OBVIOUS
<1>6. Windowed(f[n], h, R, T)
  BY <1>4, <1>5, TermsRule
<1> QED BY <1>1, <1>6, FiniteParity

-----------------------------------------------------------------------------
(* 4. Frames. *)

(* The bars at some places of a frame, in their order: as many as there are *)
(* places, each bar in the place of its place.                              *)
LEMMA PickedRows ==
  ASSUME NEW a \in Frames, NEW I \in SUBSET DOMAIN a
  PROVE  /\ IsFiniteSet(I) /\ I \subseteq Int /\ Cardinality(I) \in Nat
         /\ Picked(a, I) \in Frames /\ Len(Picked(a, I)) = Cardinality(I)
         /\ \A i \in I : /\ Place(I, i) + 1 \in 1..Cardinality(I)
                         /\ Picked(a, I)[Place(I, i) + 1] = a[i]
         /\ \A k \in 1..Cardinality(I) :
              \E i \in I : Place(I, i) = k - 1 /\ Picked(a, I)[k] = a[i]
<1>1. DOMAIN a = 1..Len(a) /\ Len(a) \in Nat /\ \A i \in DOMAIN a : a[i] \in Bars
  BY DEF Frames
<1>2. IsFiniteSet(I) /\ I \subseteq Int
  <2>1. IsFiniteSet(1..Len(a))
    BY <1>1, IntervalCount
  <2> QED BY <1>1, <2>1, FS_Subset
<1>3. Cardinality(I) \in Nat
  BY <1>2, FS_CardinalityType
<1> PICK n : n = Cardinality(I)
  OBVIOUS
<1>4. \A k \in 1..n : \E i \in I : Place(I, i) = k - 1
  <2> SUFFICES ASSUME NEW k \in 1..n PROVE \E i \in I : Place(I, i) = k - 1
    OBVIOUS
  <2>1. k - 1 \in 0..(n - 1)
    BY <1>3
  <2> QED BY <1>2, <2>1, PlaceIsTaken
<1>5. Picked(a, I) = [k \in 1..n |-> a[CHOOSE i \in I : Place(I, i) = k - 1]]
  BY DEF Picked, Place, Below
<1>6. ASSUME NEW k \in 1..n, NEW i \in I, Place(I, i) = k - 1
      PROVE  Picked(a, I)[k] = a[i]
  <2>1. \A j \in I : Place(I, j) = k - 1 => j = i
    BY <1>2, <1>6, PlaceTellsKey
  <2>2. (CHOOSE j \in I : Place(I, j) = k - 1) = i
    BY <2>1, <1>6
  <2> QED BY <2>2, <1>5
<1>7. Picked(a, I) \in Frames /\ Len(Picked(a, I)) = n
  <2>1. \A k \in 1..n : a[CHOOSE i \in I : Place(I, i) = k - 1] \in Bars
    BY <1>1, <1>4
  <2>2. Picked(a, I) \in [1..n -> Bars]
    BY <2>1, <1>5
  <2> QED BY <2>2, <1>3 DEF Frames
<1>8. ASSUME NEW i \in I
      PROVE  Place(I, i) + 1 \in 1..n /\ Picked(a, I)[Place(I, i) + 1] = a[i]
  <2>1. Place(I, i) \in 0..(n - 1)
    BY <1>2, PlacesAreOrdered
  <2> PICK k : k = Place(I, i) + 1
    OBVIOUS
  <2>2. k \in 1..n /\ Place(I, i) = k - 1
    BY <2>1, <1>3
  <2> QED BY <2>2, <1>6
<1>9. \A k \in 1..n : \E i \in I : Place(I, i) = k - 1 /\ Picked(a, I)[k] = a[i]
  BY <1>4, <1>6
<1> QED BY <1>2, <1>3, <1>7, <1>8, <1>9

(* Sets apart count together. *)
LEMMA DisjointCount ==
  ASSUME NEW S, IsFiniteSet(S), NEW D, IsFiniteSet(D), S \cap D = {}
  PROVE  Cardinality(S \cup D) = Cardinality(S) + Cardinality(D)
<1>1. Cardinality(S \cup D) = Cardinality(S) + Cardinality(D) - Cardinality({})
  BY FS_Union
<1>2. Cardinality({}) = 0 /\ Cardinality(S) \in Nat /\ Cardinality(D) \in Nat
  BY FS_EmptySet, FS_CardinalityType
<1> QED BY <1>1, <1>2

(* Of places that are all above those that are dropped, each keeps its      *)
(* distance from the end.                                                   *)
LEMMA UpperPlaces ==
  ASSUME NEW I, I \subseteq Int, IsFiniteSet(I), NEW K \in SUBSET I,
         \A i \in K, j \in I \ K : j < i,
         NEW i \in K
  PROVE  Place(I, i) = Cardinality(I) - Cardinality(K) + Place(K, i)
<1> PICK D : D = I \ K
  OBVIOUS
<1>1. IsFiniteSet(K) /\ IsFiniteSet(D) /\ K \cap D = {} /\ I = K \cup D
  BY FS_Subset
<1>2. Cardinality(I) = Cardinality(K) + Cardinality(D)
  <2>1. Cardinality(K \cup D) = Cardinality(K) + Cardinality(D)
    BY <1>1, DisjointCount
  <2> QED BY <2>1, <1>1
<1>3. Below(I, i) = D \cup Below(K, i)
  BY DEF Below
<1>4. IsFiniteSet(Below(K, i)) /\ D \cap Below(K, i) = {}
  <2>1. Below(K, i) \in SUBSET K
    BY DEF Below
  <2> QED BY <2>1, <1>1, FS_Subset
<1>5. Cardinality(D \cup Below(K, i)) = Cardinality(D) + Cardinality(Below(K, i))
  BY <1>1, <1>4, DisjointCount
<1>6. Cardinality(D) \in Nat /\ Cardinality(K) \in Nat /\ Cardinality(Below(K, i)) \in Nat
  BY <1>1, <1>4, FS_CardinalityType
<1> QED BY <1>2, <1>3, <1>5, <1>6 DEF Place

(* And of places that are all below those that are added, from the start.   *)
LEMMA LowerPlaces ==
  ASSUME NEW I, I \subseteq Int, NEW J, I \subseteq J,
         \A i \in I, j \in J \ I : ~ (j < i),
         NEW i \in I
  PROVE  Place(J, i) = Place(I, i)
<1>1. Below(J, i) = Below(I, i)
  BY DEF Below
<1> QED BY <1>1 DEF Place

(* A bar is as old as its place among the bars of its symbol.               *)
LEMMA AgeIsPlace ==
  ASSUME NEW a \in Frames, NEW i \in DOMAIN a
  PROVE  /\ i \in Rows(a, a[i].sym) /\ Rows(a, a[i].sym) \in SUBSET DOMAIN a
         /\ Age(a, i) = Place(Rows(a, a[i].sym), i) + 1
<1> PICK I : I = Rows(a, a[i].sym)
  OBVIOUS
<1>1. DOMAIN a = 1..Len(a) /\ Len(a) \in Nat
  BY DEF Frames
<1>2. i \in I /\ I \in SUBSET DOMAIN a
  BY DEF Rows
<1>3. IsFiniteSet(Below(I, i)) /\ i \notin Below(I, i)
  <2>1. Below(I, i) \in SUBSET (1..Len(a))
    BY <1>1, <1>2 DEF Below
  <2>2. IsFiniteSet(1..Len(a))
    BY <1>1, IntervalCount
  <2> QED BY <2>1, <2>2, <1>1, <1>2, FS_Subset DEF Below
<1>4. {j \in 1..i : a[j].sym = a[i].sym} = Below(I, i) \cup {i}
  BY <1>1, <1>2 DEF Below, Rows
<1>5. Cardinality(Below(I, i) \cup {i}) = Cardinality(Below(I, i)) + 1
  BY <1>3, FS_AddElement
<1> QED BY <1>2, <1>4, <1>5 DEF Age, Place

-----------------------------------------------------------------------------
(* A frame as it is fed: each of its bars is whole or has no value at all.  *)
Feeds == {a \in Frames : \A i \in DOMAIN a : Missing(a[i]) \/ Whole(a[i])}

(* The bars of bar i's symbol. *)
Own(a, i) == Picked(a, Rows(a, a[i].sym))

(* They are a history, and so are those at any places of it.                *)
LEMMA PickedIsHistory ==
  ASSUME NEW a \in Feeds, NEW s, NEW I \in SUBSET Rows(a, s)
  PROVE  Picked(a, I) \in Histories
<1>1. a \in Frames /\ I \in SUBSET DOMAIN a
  BY DEF Feeds, Rows
<1> PICK p : p = Picked(a, I)
  OBVIOUS
<1>2. p \in Frames /\ DOMAIN p = 1..Cardinality(I)
  <2>1. p \in Frames /\ Len(p) = Cardinality(I)
    BY <1>1, PickedRows
  <2> QED BY <2>1 DEF Frames
<1>3. \A k \in DOMAIN p : \E i \in I : p[k] = a[i]
  BY <1>1, <1>2, PickedRows
<1>4. \A i \in I : a[i].sym = s /\ (Missing(a[i]) \/ Whole(a[i]))
  BY DEF Feeds, Rows
<1>5. \A k \in DOMAIN p : p[k].sym = s /\ (Missing(p[k]) \/ Whole(p[k]))
  BY <1>3, <1>4
<1> QED BY <1>2, <1>5 DEF Histories

(* A grouped expression is evaluated on the history of each symbol.         *)
LEMMA WithinRows ==
  ASSUME NEW a \in Frames, NEW x, NEW i \in 1..Len(a)
  PROVE  Within(x)[a][i] = x[Own(a, i)][Age(a, i)]
<1>1. DOMAIN a = 1..Len(a) /\ Len(a) \in Nat
  BY DEF Frames
<1> DEFINE symbols == {a[j].sym : j \in DOMAIN a}
           f == [s \in symbols |-> x[Picked(a, Rows(a, s))]]
           group == Once(f)
<1>2. \A s \in symbols : group[s] = f[s]
  BY DEF Once
<1>3. Within(x)[a] = Column([j \in DOMAIN a |-> group[a[j].sym][Age(a, j)]])
  BY DEF Within
<1>4. \A j \in DOMAIN a : group[a[j].sym] = x[Own(a, j)]
  BY <1>2 DEF Own
<1> HIDE DEF group
<1>5. Within(x)[a] = [j \in 1..Len(a) |-> group[a[j].sym][Age(a, j)]]
  BY <1>1, <1>3, ColumnOf
<1> QED BY <1>1, <1>4, <1>5

(* A bar is the last of those of its symbol up to it.                       *)
LEMMA OwnRow ==
  ASSUME NEW a \in Feeds, NEW i \in DOMAIN a
  PROVE  /\ Own(a, i) \in Histories
         /\ Age(a, i) \in 1..Len(Own(a, i)) /\ Own(a, i)[Age(a, i)] = a[i]
<1>1. a \in Frames
  BY DEF Feeds
<1> PICK I : I = Rows(a, a[i].sym)
  OBVIOUS
<1>2. i \in I /\ I \in SUBSET DOMAIN a /\ Age(a, i) = Place(I, i) + 1
  BY <1>1, AgeIsPlace
<1>3. Own(a, i) = Picked(a, I)
  BY DEF Own
<1> QED BY <1>1, <1>2, <1>3, PickedRows, PickedIsHistory

(* A history is the bars of its symbol. *)
LEMMA OwnHistory ==
  ASSUME NEW a \in Histories, NEW i \in 1..Len(a)
  PROVE  Own(a, i) = a
<1> PICK n : n = Len(a)
  OBVIOUS
<1>1. a \in Frames /\ n \in Nat /\ DOMAIN a = 1..n
  BY HistoryIsFrame
<1>2. Rows(a, a[i].sym) = 1..n
  BY <1>1 DEF Rows, Histories
<1>3. IsFiniteSet(1..n) /\ Cardinality(1..n) = n
  BY <1>1, IntervalCount
<1>4. ASSUME NEW k \in 1..n PROVE Place(1..n, k) = k - 1
  <2> DEFINE e == [j \in 1..n |-> j]
  <2>1. e \in [1..n -> 1..n] /\ 1..n \subseteq Int
    OBVIOUS
  <2>2. \A i1, j1 \in 1..n : i1 < j1 => e[i1] < e[j1]
    OBVIOUS
  <2>3. \A l \in 1..n : \E j \in 1..n : e[j] = l
    OBVIOUS
  <2>4. e[k] = k
    OBVIOUS
  <2> HIDE DEF e
  <2> PICK K : K = 1..n
    OBVIOUS
  <2>5. /\ n \in Nat /\ K \subseteq Int /\ e \in [1..n -> K]
        /\ \A i1, j1 \in 1..n : i1 < j1 => e[i1] < e[j1]
        /\ \A l \in K : \E j \in 1..n : e[j] = l
    BY <1>1, <2>1, <2>2, <2>3
  <2>6. Place(K, e[k]) = k - 1
    BY ONLY <2>5, k \in 1..n, AscendingIsInPlace
  <2> QED BY <2>4, <2>6
<1> PICK p : p = Picked(a, 1..n)
  OBVIOUS
<1>5. p \in Frames /\ Len(p) = n /\ \A k \in 1..n : p[Place(1..n, k) + 1] = a[k]
  BY <1>1, <1>3, PickedRows
<1>6. \A k \in 1..n : p[k] = a[k]
  BY <1>4, <1>5
<1>7. p = a
  BY <1>1, <1>5, <1>6 DEF Frames
<1> QED BY <1>2, <1>7 DEF Own

-----------------------------------------------------------------------------
(* A bar more. *)
LEMMA FrameGrows ==
  ASSUME NEW a \in Frames, NEW b \in Bars
  PROVE  /\ a \o <<b>> \in Frames /\ Len(a) \in Nat /\ Len(a \o <<b>>) = Len(a) + 1
         /\ DOMAIN a = 1..Len(a) /\ DOMAIN (a \o <<b>>) = 1..(Len(a) + 1)
         /\ (a \o <<b>>)[Len(a) + 1] = b
         /\ \A i \in DOMAIN a : (a \o <<b>>)[i] = a[i]
BY DEF Frames

(* It follows the earlier ones of its symbol, and changes none.             *)
LEMMA OwnGrows ==
  ASSUME NEW a \in Feeds, NEW b \in Bars, a \o <<b>> \in Feeds, NEW i \in DOMAIN a, NEW n \in Nat
  PROVE  /\ Age(a \o <<b>>, i) = Age(a, i)
         /\ Alike(Own(a, i), Age(a, i), Own(a \o <<b>>, i), Age(a, i), n)
<1> PICK c : c = a \o <<b>>
  OBVIOUS
<1> PICK N : N = Len(a)
  OBVIOUS
<1>1. /\ a \in Frames /\ c \in Frames /\ N \in Nat /\ DOMAIN a = 1..N /\ DOMAIN c = 1..(N + 1)
      /\ \A j \in DOMAIN a : c[j] = a[j]
  BY FrameGrows DEF Feeds
<1> PICK s : s = a[i].sym
  OBVIOUS
<1> PICK I : I = Rows(a, s)
  OBVIOUS
<1> PICK J : J = Rows(c, s)
  OBVIOUS
<1>2. /\ I \in SUBSET (1..N) /\ I \subseteq J /\ J \in SUBSET (1..(N + 1))
      /\ \A j \in J \ I : j = N + 1
  BY <1>1 DEF Rows
<1>3. \A k \in I : Place(J, k) = Place(I, k)
  <2>1. \A k \in I, j \in J \ I : ~ (j < k)
    BY <1>1, <1>2
  <2>2. I \subseteq Int
    BY <1>2
  <2> QED BY <2>1, <2>2, <1>2, LowerPlaces
<1> PICK m : m = Age(a, i)
  OBVIOUS
<1>4. i \in I /\ m = Place(I, i) + 1 /\ i \in DOMAIN c /\ c[i] = a[i]
  <2>1. i \in I /\ m = Place(I, i) + 1
    BY <1>1, AgeIsPlace
  <2> QED BY <1>1, <2>1
<1>5. Age(c, i) = m
  <2>1. Age(c, i) = Place(Rows(c, c[i].sym), i) + 1
    BY <1>1, <1>4, AgeIsPlace
  <2> QED BY <2>1, <1>3, <1>4
<1> PICK p : p = Own(a, i)
  OBVIOUS
<1> PICK q : q = Own(c, i)
  OBVIOUS
<1>6. p = Picked(a, I) /\ q = Picked(c, J)
  BY <1>4 DEF Own
<1>7. /\ m \in 1..Cardinality(I) /\ Cardinality(I) \in Nat
      /\ \A k \in 1..Cardinality(I) : \E j \in I : Place(I, j) = k - 1 /\ Picked(a, I)[k] = a[j]
      /\ \A j \in J : Picked(c, J)[Place(J, j) + 1] = c[j]
  <2>1. I \in SUBSET DOMAIN a /\ J \in SUBSET DOMAIN c
    BY <1>1, <1>2
  <2> QED BY ONLY <1>1, <1>4, <2>1, PickedRows
<1>8. ASSUME NEW k \in 1..Cardinality(I) PROVE p[k] = q[k]
  <2>1. PICK j \in I : Place(I, j) = k - 1 /\ p[k] = a[j]
    BY <1>6, <1>7
  <2>2. j \in J /\ Place(J, j) = k - 1 /\ c[j] = a[j]
    BY <2>1, <1>1, <1>2, <1>3
  <2>3. q[Place(J, j) + 1] = c[j]
    BY <2>2, <1>6, <1>7
  <2>4. Place(J, j) + 1 = k
    BY <2>2
  <2> QED BY <2>1, <2>2, <2>3, <2>4
<1>9. ASSUME NEW k \in 0..(n - 1), k < m PROVE p[m - k] = q[m - k]
  <2>1. m - k \in 1..Cardinality(I)
    BY <1>7, <1>9
  <2> QED BY <2>1, <1>8
<1>10. Alike(p, m, q, m, n)
  BY <1>9 DEF Alike
<1> QED BY <1>5, <1>10

-----------------------------------------------------------------------------
(* The places of a set from one on. *)
FromPlace(I, i) == {j \in I : j >= i}

(* They are those that are not below it. *)
LEMMA FromPlaceCount ==
  ASSUME NEW I, I \subseteq Int, IsFiniteSet(I), NEW i \in I
  PROVE  Cardinality(FromPlace(I, i)) = Cardinality(I) - Place(I, i)
<1> PICK A, B : A = FromPlace(I, i) /\ B = Below(I, i)
  OBVIOUS
<1>1. A \cap B = {} /\ A \cup B = I /\ A \in SUBSET I /\ B \in SUBSET I
  <2>1. A = {j \in I : j >= i} /\ B = {j \in I : j < i}
    BY DEF FromPlace, Below
  <2>2. i \in Int /\ \A j \in I : j \in Int
    OBVIOUS
  <2>3. \A j \in I : j >= i <=> ~ (j < i)
    BY <2>2
  <2> QED BY <2>1, <2>3
<1>2. IsFiniteSet(A) /\ IsFiniteSet(B)
  BY <1>1, FS_Subset
<1>3. Cardinality(A \cup B) = Cardinality(A) + Cardinality(B)
  BY <1>1, <1>2, DisjointCount
<1>4. Cardinality(A) \in Nat /\ Cardinality(B) \in Nat
  BY <1>2, FS_CardinalityType
<1>5. Cardinality(I) = Cardinality(A) + Cardinality(B)
  BY <1>1, <1>3
<1>6. B = Below(I, i) /\ A = FromPlace(I, i)
  OBVIOUS
<1>7. Cardinality(A) = Cardinality(I) - Cardinality(B)
  BY <1>4, <1>5
<1> QED BY <1>6, <1>7 DEF Place

(* The last n of the places of I, or all when there are fewer: at least n   *)
(* or all, the greatest among them, each at its distance from the end.      *)
LastPlaces(I, n) == {i \in I : Cardinality(FromPlace(I, i)) <= n}

(* They end where the places end, and there are n of them or all. *)
LEMMA LastPlacesAre ==
  ASSUME NEW I, I \subseteq Int, IsFiniteSet(I), NEW n \in Nat \ {0},
         NEW K, K = LastPlaces(I, n), NEW t \in I, \A i \in I : i <= t
  PROVE  /\ K \in SUBSET I /\ IsFiniteSet(K) /\ Cardinality(K) \in Nat /\ Cardinality(I) \in Nat
         /\ t \in K /\ Place(K, t) = Cardinality(K) - 1 /\ Place(I, t) = Cardinality(I) - 1
         /\ Cardinality(K) = Cardinality(I) \/ (Cardinality(K) >= n /\ Cardinality(I) >= n)
         /\ \A i \in K : Place(I, i) = Cardinality(I) - Cardinality(K) + Place(K, i)
<1> PICK m : m = Cardinality(I)
  OBVIOUS
<1> PICK l : l = Cardinality(K)
  OBVIOUS
<1>1. K \in SUBSET I /\ IsFiniteSet(K) /\ l \in Nat /\ m \in Nat /\ l <= m
  <2>1. K \in SUBSET I
    BY DEF LastPlaces
  <2> QED BY <2>1, FS_Subset, FS_CardinalityType
<1>2. \A i \in I : Place(I, i) \in 0..(m - 1) /\ (i \in K <=> m - Place(I, i) <= n)
  BY FromPlaceCount, PlacesAreOrdered DEF LastPlaces
<1>3. Place(I, t) = m - 1 /\ t \in K
  <2>1. FromPlace(I, t) = {t}
    <3>1. t \in Int /\ \A i \in I : i \in Int
      OBVIOUS
    <3>2. \A i \in I : i >= t <=> i = t
      BY <3>1
    <3> QED BY <3>2 DEF FromPlace
  <2>2. Cardinality({t}) = 1
    BY FS_Singleton
  <2>3. 1 = m - Place(I, t)
    BY <2>1, <2>2, FromPlaceCount
  <2>4. Place(I, t) \in Int
    BY <1>2
  <2> QED BY <2>3, <2>4, <1>1, <1>2
<1>4. \A i \in K, j \in I \ K : j < i
  <2> SUFFICES ASSUME NEW i \in K, NEW j \in I, ~ (j < i) PROVE j \in K
    OBVIOUS
  <2>1. i \in I /\ i \in Int /\ j \in Int
    BY <1>1
  <2>2. i = j \/ i < j
    BY <2>1
  <2>3. Place(I, i) <= Place(I, j)
    <3>1. i < j => Place(I, i) < Place(I, j)
      BY <2>1, PlacesAreOrdered
    <3> QED BY <3>1, <2>1, <2>2, <1>2
  <2>4. Place(I, i) \in Int /\ Place(I, j) \in Int /\ m - Place(I, i) <= n
    BY <1>2, <2>1
  <2>5. m - Place(I, j) <= n
    BY <2>3, <2>4, <1>1
  <2> QED BY <2>5, <1>2
<1>5. \A i \in K : Place(I, i) = m - l + Place(K, i)
  BY <1>1, <1>4, UpperPlaces
<1>6. \A i \in K : Place(K, i) \in 0..(l - 1)
  <2>1. K \subseteq Int
    BY <1>1
  <2> QED BY <2>1, <1>1, PlacesAreOrdered
<1>7. Place(K, t) = l - 1
  <2>1. Place(K, t) \in Int /\ Place(I, t) = m - l + Place(K, t)
    BY <1>3, <1>5, <1>6
  <2> QED BY <2>1, <1>1, <1>3
<1>8. l = m \/ (l >= n /\ m >= n)
  <2>1. CASE K = I
    BY <2>1
  <2>2. CASE K # I
    <3>1. PICK j \in I : ~ (m - Place(I, j) <= n)
      BY <2>2, <1>1, <1>2
    <3> PICK q : q = Place(I, j)
      OBVIOUS
    <3>2. q \in 0..(m - 1)
      BY <1>2
    <3>3. m - n \in 0..(m - 1)
      BY <3>1, <3>2, <1>1
    <3>4. PICK i \in I : Place(I, i) = m - n
      BY <3>3, PlaceIsTaken
    <3>5. i \in K
      BY <3>4, <1>1, <1>2
    <3>6. m - n = m - l + Place(K, i) /\ Place(K, i) \in 0..(l - 1)
      BY <3>4, <3>5, <1>5, <1>6
    <3> QED BY <3>6, <1>1
  <2> QED BY <2>1, <2>2
<1> QED BY <1>1, <1>3, <1>5, <1>7, <1>8

(* The buffer of a bar is the last n bars of its symbol: no window of n     *)
(* rows that ends there tells it from all of them.                          *)
LEMMA BufferIsTail ==
  ASSUME NEW a \in Feeds, NEW N \in DOMAIN a, N = Len(a), NEW b, b.sym = a[N].sym,
         NEW n \in Nat \ {0}
  PROVE  /\ Buffered(a, <<b>>, n) \in Histories
         /\ Len(Buffered(a, <<b>>, n)) \in Nat \ {0}
         /\ Age(a, N) = Len(Own(a, N))
         /\ Alike(Buffered(a, <<b>>, n), Len(Buffered(a, <<b>>, n)), Own(a, N), Age(a, N), n)
<1>1. a \in Frames /\ DOMAIN a = 1..N /\ N \in Nat
  BY DEF Feeds, Frames
<1> PICK s : s = a[N].sym
  OBVIOUS
<1> PICK I : I = Rows(a, s)
  OBVIOUS
<1> PICK K : K = Kept(a, <<b>>, n)
  OBVIOUS
<1>2. K = LastPlaces(I, n)
  <2>1. \A i \in DOMAIN a : (\E k \in DOMAIN <<b>> : <<b>>[k].sym = a[i].sym) <=> i \in I
    BY DEF Rows
  <2>2. \A i \in I : Rows(a, a[i].sym) = I
    BY DEF Rows
  <2>3. I \in SUBSET DOMAIN a
    BY DEF Rows
  <2> QED BY <2>1, <2>2, <2>3 DEF Kept, LastPlaces, FromPlace
<1>3. /\ I \in SUBSET DOMAIN a /\ IsFiniteSet(I) /\ I \subseteq Int /\ N \in I
      /\ Age(a, N) = Place(I, N) + 1
  BY <1>1, AgeIsPlace, PickedRows
<1>4. \A i \in I : i <= N
  BY <1>1, <1>3
<1> PICK m, l : m = Cardinality(I) /\ l = Cardinality(K)
  OBVIOUS
<1>5. /\ K \in SUBSET I /\ l \in Nat /\ m \in Nat
      /\ N \in K /\ Place(K, N) = l - 1 /\ Place(I, N) = m - 1
      /\ l = m \/ (l >= n /\ m >= n)
      /\ \A i \in K : Place(I, i) = m - l + Place(K, i)
  BY ONLY <1>2, <1>3, <1>4, n \in Nat \ {0}, m = Cardinality(I), l = Cardinality(K), LastPlacesAre
<1> PICK p, q : p = Picked(a, K) /\ q = Picked(a, I)
  OBVIOUS
<1>6. /\ Buffered(a, <<b>>, n) = p /\ Own(a, N) = q
  BY DEF Buffered, Own
<1>7. /\ K \in SUBSET DOMAIN a
      /\ Len(p) = l /\ \A k \in 1..l : \E i \in K : Place(K, i) = k - 1 /\ p[k] = a[i]
      /\ Len(q) = m /\ \A i \in I : q[Place(I, i) + 1] = a[i]
  <2>1. K \in SUBSET DOMAIN a
    BY <1>3, <1>5
  <2>2. I \in SUBSET DOMAIN a /\ a \in Frames /\ p = Picked(a, K) /\ q = Picked(a, I)
        /\ l = Cardinality(K) /\ m = Cardinality(I)
    BY <1>1, <1>3
  <2>3. Len(p) = l /\ \A k \in 1..l : \E i \in K : Place(K, i) = k - 1 /\ p[k] = a[i]
    BY ONLY <2>1, <2>2, PickedRows
  <2>4. Len(q) = m /\ \A i \in I : q[Place(I, i) + 1] = a[i]
    BY ONLY <2>2, PickedRows
  <2> QED BY <2>1, <2>3, <2>4
<1>8. p \in Histories
  BY <1>5, PickedIsHistory
<1>9. Age(a, N) = m /\ l \in Nat \ {0}
  <2>1. Place(K, N) + 1 \in 1..l
    BY <1>1, <1>5, <1>7, PickedRows
  <2> QED BY <2>1, <1>3, <1>5
<1>10. ASSUME NEW k \in 0..(n - 1), k < l, k < m PROVE p[l - k] = q[m - k]
  <2>1. l - k \in 1..l
    BY <1>5, <1>10
  <2>2. PICK i \in K : Place(K, i) = l - k - 1 /\ p[l - k] = a[i]
    BY <2>1, <1>7
  <2>3. i \in I /\ Place(I, i) = m - l + (l - k - 1)
    BY <2>2, <1>5
  <2>4. Place(I, i) + 1 = m - k
    <3>1. m \in Nat /\ l \in Nat /\ k \in Int
      BY <1>5
    <3>2. (m - l + (l - k - 1)) + 1 = m - k
      BY ONLY <3>1
    <3> QED BY <2>3, <3>2
  <2> QED BY <2>2, <2>3, <2>4, <1>7
<1>11. Alike(p, l, q, m, n)
  BY <1>5, <1>10 DEF Alike
<1> QED BY <1>6, <1>7, <1>8, <1>9, <1>11

-----------------------------------------------------------------------------
(* The expression a time-series feature groups by symbol. *)
Builds(f, x) == \A bars \in Frames : f.build[bars] = Within(x)[bars]

(* A column of n rows. *)
IsColumn(c, n) == c \in [1..n -> {c[i] : i \in 1..n}]

(* A feature whose value at a bar is a function of the last min_history     *)
(* bars of its symbol: the batch over a frame is made of what its           *)
(* expression has on histories.                                             *)
LEMMA BatchRows ==
  ASSUME NEW f, NEW x, Builds(f, x), NEW a \in Frames
  PROVE  /\ \A i \in 1..Len(a) : Batch(f, a)[i] = x[Own(a, i)][Age(a, i)]
         /\ IsColumn(Batch(f, a), Len(a))
<1>1. DOMAIN a = 1..Len(a) /\ Len(a) \in Nat
  BY DEF Frames
<1> PICK c : c = Within(x)[a]
  OBVIOUS
<1>2. \A i \in 1..Len(a) : c[i] = x[Own(a, i)][Age(a, i)]
  BY WithinRows
<1>3. c = [i \in 1..Len(a) |-> c[i]]
  <2> DEFINE symbols == {a[j].sym : j \in DOMAIN a}
             group == Once([s \in symbols |-> x[Picked(a, Rows(a, s))]])
             d == [j \in 1..Len(a) |-> group[a[j].sym][Age(a, j)]]
  <2>1. c = Column(d)
    BY <1>1 DEF Within
  <2>2. d = [j \in 1..Len(a) |-> d[j]]
    OBVIOUS
  <2> HIDE DEF d
  <2>3. Column(d) = d
    BY <1>1, <2>2, ColumnOf
  <2> QED BY <2>1, <2>2, <2>3
<1>4. Batch(f, a) = c
  BY DEF Batch, Builds
<1>5. IsColumn(c, Len(a))
  BY <1>3 DEF IsColumn
<1> QED BY <1>2, <1>4, <1>5

(* A bar that closes changes no value of an earlier one.                    *)
LEMMA BatchGrows ==
  ASSUME NEW f, NEW T, Parity(f, T), NEW a \in Feeds, NEW b \in Bars, a \o <<b>> \in Feeds,
         NEW i \in DOMAIN a
  PROVE  Batch(f, a \o <<b>>)[i] = Batch(f, a)[i]
<1> PICK n : n = f.min_history
  OBVIOUS
<1>1. PICK x : Builds(f, x) /\ Windowed(x, n, f.input_roles, T)
  BY DEF Parity, Builds
<1>2. n \in Nat /\ Local(x, n)
  BY <1>1 DEF Windowed, Good
<1> PICK c : c = a \o <<b>>
  OBVIOUS
<1>3. a \in Frames /\ c \in Frames /\ c \in Feeds /\ DOMAIN a = 1..Len(a) /\ i \in 1..Len(a)
      /\ i \in 1..Len(c) /\ i \in DOMAIN c
  <2>1. a \in Frames /\ c \in Feeds /\ c \in Frames
    BY DEF Feeds
  <2>2. DOMAIN a = 1..Len(a) /\ DOMAIN c = 1..(Len(a) + 1) /\ Len(c) = Len(a) + 1 /\ Len(a) \in Nat
    BY <2>1, FrameGrows
  <2> QED BY <2>1, <2>2
<1> PICK p, q, k : p = Own(a, i) /\ q = Own(c, i) /\ k = Age(a, i)
  OBVIOUS
<1>4. Age(c, i) = k /\ Alike(p, k, q, k, n)
  BY <1>2, OwnGrows
<1>5. p \in Histories /\ q \in Histories /\ k \in 1..Len(p) /\ k \in 1..Len(q)
  BY <1>3, <1>4, OwnRow
<1>6. x[p][k] = x[q][k]
  BY <1>2, <1>4, <1>5 DEF Local
<1>7. Batch(f, a)[i] = x[p][k]
  BY <1>1, <1>3, BatchRows
<1>8. Batch(f, c)[i] = x[q][k]
  <2>1. Batch(f, c)[i] = x[Own(c, i)][Age(c, i)]
    BY ONLY <1>1, <1>3, BatchRows
  <2> QED BY <2>1, <1>4
<1> QED BY <1>6, <1>7, <1>8

(* And its own value is the last over its buffer.                           *)
LEMMA BufferServes ==
  ASSUME NEW f, NEW T, Parity(f, T), NEW a \in Feeds, NEW N \in DOMAIN a, N = Len(a),
         NEW b, b.sym = a[N].sym,
         NEW tail, tail = buffer(f, a, <<b>>)
  PROVE  /\ Len(tail) \in Nat \ {0} /\ tail \in Frames
         /\ Batch(f, tail)[Len(tail)] = Batch(f, a)[N]
         /\ IsColumn(Batch(f, tail), Len(tail))
<1> PICK n : n = f.min_history
  OBVIOUS
<1>1. PICK x : Builds(f, x) /\ Windowed(x, n, f.input_roles, T)
  BY DEF Parity, Builds
<1>2. n \in Nat \ {0} /\ Local(x, n)
  BY <1>1 DEF Windowed, Good
<1>3. tail = Buffered(a, <<b>>, n)
  BY DEF buffer
<1> PICK l, k, q : l = Len(tail) /\ k = Age(a, N) /\ q = Own(a, N)
  OBVIOUS
<1>4. tail \in Histories /\ l \in Nat \ {0} /\ k = Len(q) /\ Alike(tail, l, q, k, n)
  BY <1>2, <1>3, BufferIsTail
<1>5. q \in Histories /\ k \in 1..Len(q) /\ l \in 1..Len(tail) /\ tail \in Frames
      /\ a \in Frames /\ N \in 1..Len(a)
  BY <1>4, OwnRow, HistoryIsFrame DEF Feeds, Frames
<1>6. Own(tail, l) = tail /\ Age(tail, l) = l
  BY <1>4, <1>5, OwnHistory, AgeInHistory
<1>7. x[tail][l] = x[q][k]
  BY <1>2, <1>4, <1>5 DEF Local
<1>8. /\ Batch(f, tail)[l] = x[Own(tail, l)][Age(tail, l)]
      /\ IsColumn(Batch(f, tail), Len(tail))
  BY <1>1, <1>5, BatchRows
<1>9. Batch(f, a)[N] = x[q][k]
  BY <1>1, <1>5, BatchRows
<1>10. Batch(f, tail)[l] = x[tail][l]
  BY <1>6, <1>8
<1> QED BY <1>4, <1>5, <1>7, <1>8, <1>9, <1>10

(* Its last element, as a sequence of its own. *)
LEMMA LastElement ==
  ASSUME NEW l \in Nat \ {0}, NEW S, NEW c \in [1..l -> S]
  PROVE  SubSeq(c, l, l) = <<c[l]>>
<1>1. c \in Seq(S) /\ Len(c) = l
  OBVIOUS
<1> PICK u : u = SubSeq(c, l, l)
  OBVIOUS
<1>2. u \in Seq(S) /\ Len(u) = 1
  BY <1>1
<1>3. u[1] = c[l]
  BY <1>1
<1>4. <<c[l]>> \in Seq(S) /\ Len(<<c[l]>>) = 1 /\ <<c[l]>>[1] = c[l]
  OBVIOUS
<1> PICK v : v = <<c[l]>>
  OBVIOUS
<1>5. \A k \in 1..1 : k = 1
  OBVIOUS
<1>6. u = v
  BY <1>2, <1>3, <1>4, <1>5, SeqEqual
<1> QED BY <1>6

(* So what is served is the last row of a column.                           *)
LEMMA LastOfColumn ==
  ASSUME NEW l \in Nat \ {0}, NEW c, IsColumn(c, l), NEW rows, Len(rows) = 1
  PROVE  SubSeq(c, l - Len(rows) + 1, l) = <<c[l]>>
<1>1. l - Len(rows) + 1 = l
  OBVIOUS
<1>2. SubSeq(c, l, l) = <<c[l]>>
  BY LastElement DEF IsColumn
<1> QED BY <1>1, <1>2

-----------------------------------------------------------------------------
(* A number of the bar's timestamp is the same within a symbol.             *)
LEMMA LitParity ==
  ASSUME NEW T \in SUBSET Histories, NEW name
  PROVE  Parity(Finite(name, 1, {}, Lit(1)), T)
<1> PICK x : x = Lit(1)
  OBVIOUS
<1> PICK f : f = Finite(name, 1, {}, x)
  OBVIOUS
<1>1. /\ f.recurrence = "FINITE" /\ f.signal = << >> /\ f.build = x
      /\ f.min_history = 1 /\ f.input_roles = {}
  BY DEF Finite, Feature
<1>2. Windowed(x, 1, {}, T)
  <2>1. {} \in SUBSET Roles /\ 1 \in Int
    OBVIOUS
  <2> QED BY <2>1, LitRule
<1>3. ASSUME NEW a \in Frames PROVE x[a] = Within(x)[a]
  <2> PICK n, v : n = Len(a) /\ v = Literal(1)
    OBVIOUS
  <2>1. x[a] = [i \in 1..n |-> v]
    <3>1. Lit(1)[a] = [i \in 1..Len(a) |-> Literal(1)]
      BY LitRows
    <3> QED BY <3>1
  <2>2. ASSUME NEW i \in 1..n PROVE Within(x)[a][i] = v
    <3> PICK I : I = Rows(a, a[i].sym)
      OBVIOUS
    <3>1. i \in DOMAIN a
      BY DEF Frames
    <3>2. i \in I /\ I \in SUBSET DOMAIN a /\ Age(a, i) = Place(I, i) + 1
      BY <3>1, AgeIsPlace
    <3>3. /\ Picked(a, I) \in Frames /\ Len(Picked(a, I)) = Cardinality(I)
          /\ Place(I, i) + 1 \in 1..Cardinality(I)
      BY ONLY <3>2, a \in Frames, PickedRows
    <3> PICK p, k : p = Own(a, i) /\ k = Age(a, i)
      OBVIOUS
    <3>4. p \in Frames /\ k \in 1..Len(p)
      BY <3>2, <3>3 DEF Own
    <3>5. x[p] = [j \in 1..Len(p) |-> v]
      <4>1. Lit(1)[p] = [j \in 1..Len(p) |-> Literal(1)]
        BY <3>4, LitRows
      <4> QED BY <4>1
    <3>6. Within(x)[a][i] = x[p][k]
      BY WithinRows
    <3> QED BY <3>4, <3>5, <3>6
  <2>3. Builds([build |-> Within(x)], x)
    BY DEF Builds
  <2>4. IsColumn(Batch([build |-> Within(x)], a), n)
    BY <2>3, BatchRows
  <2>5. IsColumn(Within(x)[a], n)
    BY <2>4 DEF Batch
  <2> QED BY <2>1, <2>2, <2>5 DEF IsColumn
<1>4. \A a \in Frames : f.build[a] = Within(x)[a]
  BY <1>1, <1>3
<1>5. Parity(f, T)
  BY <1>1, <1>2, <1>4 DEF Parity
<1> QED BY <1>5

(* season_dow and season_tom. *)
LEMMA Seasons ==
  ASSUME NEW T \in SUBSET Histories
  PROVE  Parity(season_dow, T) /\ Parity(season_tom, T)
BY LitParity DEF season_dow, season_tom

-----------------------------------------------------------------------------
(* 5. Serving. *)

(* A bar as it is delivered: a gap has no value, another bar has them all.  *)
Delivered(bar) == IF bar.kind = "gap" THEN Missing(bar) ELSE Whole(bar)

Deliveries == {a \in Frames : \A i \in DOMAIN a : Delivered(a[i])}

(* Such bars are whole or missing. *)
LEMMA DeliveriesAreFeeds ==
  ASSUME NEW a \in Deliveries
  PROVE  a \in Frames /\ a \in Feeds
BY DEF Deliveries, Delivered, Feeds

(* A clean bar has a value on each role, above zero.                        *)
LEMMA CleanCellIsPositive ==
  ASSUME NEW s, NEW n \in Nat, NEW r
  PROVE  CleanCell(s, n, r) \in Nat \ {0}
<1>1. n % 2 \in 0..1
  OBVIOUS
<1> PICK p : p = n % 2
  OBVIOUS
<1>2. CleanLevel(s, n) \in Nat /\ CleanLevel(s, n) >= 40
  <2>1. p \in 0..1
    BY <1>1
  <2>2. 40 + 2 * n + 20 * p \in Nat /\ 40 + 2 * n + 20 * p >= 40
    BY <2>1
  <2> PICK q : q = IF s = CHOOSE x \in Symbols : TRUE THEN 0 ELSE 50
    OBVIOUS
  <2>3. q \in {0, 50}
    OBVIOUS
  <2>4. CleanLevel(s, n) = 40 + 2 * n + 20 * p + q
    BY DEF CleanLevel
  <2> QED BY <2>2, <2>3, <2>4
<1>3. Offset(r) \in {8, -8, 4, -2, 2, 0}
  BY DEF Offset
<1> QED BY <1>2, <1>3 DEF CleanCell

(* The last close is a level too, or zero. *)
LEMMA LastCloseIsLevel ==
  ASSUME NEW a \in Deliveries, NEW s
  PROVE  LastClose(a, s) \in Nat
<1> PICK known : known = {i \in DOMAIN a : a[i].sym = s /\ a[i].cells[Close] # Null}
  OBVIOUS
<1>1. a \in Frames /\ DOMAIN a = 1..Len(a) /\ Len(a) \in Nat
  BY DEF Deliveries, Frames
<1>2. Close \in Roles
  BY DEF Prices, Roles
<1>3. \A i \in known : a[i].cells[Close] \in Nat
  <2> SUFFICES ASSUME NEW i \in known PROVE a[i].cells[Close] \in Nat
    OBVIOUS
  <2>1. i \in DOMAIN a /\ a[i].cells[Close] # Null /\ a[i] \in Bars
    BY DEF Deliveries, Frames
  <2>2. a[i].cells[Close] \in Nat \cup {Null}
    BY <2>1, <1>2 DEF Bars
  <2> QED BY <2>1, <2>2
<1>4. LastClose(a, s) = IF known = {} THEN CleanCell(s, 1, Close) ELSE a[Max(known)].cells[Close]
  BY DEF LastClose
<1>5. CASE known = {}
  BY <1>4, <1>5, CleanCellIsPositive
<1>6. CASE known # {}
  <2>1. known \subseteq Int /\ IsFiniteSet(known)
    <3>1. known \in SUBSET (1..Len(a))
      BY <1>1
    <3> QED BY <3>1, <1>1, IntervalCount, FS_Subset
  <2>2. \E m \in known : \A i \in known : i <= m
    BY <2>1, <1>6, GreatestOfFinite
  <2>3. \E m \in known : \A i \in known : m >= i
    <3>1. PICK m \in known : \A i \in known : i <= m
      BY <2>2
    <3>2. \A i \in known : m >= i
      BY <3>1, <2>1
    <3> QED BY <3>2
  <2>4. Max(known) \in known
    BY <2>3 DEF Max
  <2> QED BY <2>4, <1>3, <1>4, <1>6
<1> QED BY <1>5, <1>6

(* What closes is delivered. *)
LEMMA ClosedBar ==
  ASSUME NEW a \in Deliveries, NEW s \in Symbols, NEW kind \in Kinds, NEW t \in Nat,
         NEW b, b = Bar(kind, a, s, t)
  PROVE  /\ b \in Bars /\ Delivered(b) /\ b.kind = kind /\ b.sym = s
         /\ a \o <<b>> \in Deliveries
<1> PICK n : n = Count(a, s) + 1
  OBVIOUS
<1> PICK last : last = LastClose(a, s)
  OBVIOUS
<1>1. n \in Nat /\ last \in Nat /\ a \in Frames
  <2>1. a \in Frames
    BY DEF Deliveries
  <2>2. Rows(a, s) \in SUBSET DOMAIN a
    BY DEF Rows
  <2>3. Cardinality(Rows(a, s)) \in Nat
    BY <2>1, <2>2, PickedRows
  <2> QED BY <2>1, <2>3, LastCloseIsLevel DEF Count
<1>2. \A r : CleanCell(s, n, r) \in Nat \ {0}
  BY <1>1, CleanCellIsPositive
<1> PICK cells : cells = CellsOf(kind, a, s)
  OBVIOUS
<1>3. b = [sym |-> s, t |-> t, kind |-> kind, cells |-> cells]
  BY DEF Bar
<1>4. cells = [r \in Roles |-> cells[r]]
  BY DEF CellsOf
<1>5. ASSUME NEW r \in Roles
      PROVE  /\ kind = "gap" => cells[r] = Null
             /\ kind # "gap" => cells[r] \in Nat
  <2> PICK c : c = CleanCell(s, n, r)
    OBVIOUS
  <2>1. c \in Nat \ {0}
    BY <1>2
  <2>2. cells[r] = IF kind = "gap" THEN Null
                   ELSE IF r \in Zeros(kind) THEN 0
                   ELSE IF kind = "halt" /\ r \in Prices \cup {Bid, Ask} THEN last
                   ELSE c
    BY DEF CellsOf
  <2> QED BY <2>1, <2>2, <1>1
<1>7. Null \notin Nat
  BY DEF Null
<1>8. b \in Bars
  <2>1. \A r \in Roles : cells[r] \in Nat \cup {Null}
    BY <1>5
  <2>2. cells \in [Roles -> Nat \cup {Null}]
    BY <2>1, <1>4
  <2> QED BY <2>2, <1>3 DEF Bars
<1>9. Delivered(b)
  <2>1. b.kind = kind /\ b.cells = cells
    BY <1>3
  <2>2. kind = "gap" => Missing(b)
    BY <2>1, <1>5 DEF Missing
  <2>3. kind # "gap" => Whole(b)
    BY <2>1, <1>5, <1>7 DEF Whole
  <2> QED BY <2>1, <2>2, <2>3 DEF Delivered
<1>10. a \o <<b>> \in Deliveries
  <2> PICK c : c = a \o <<b>>
    OBVIOUS
  <2>1. /\ c \in Frames /\ DOMAIN c = 1..(Len(a) + 1) /\ DOMAIN a = 1..Len(a) /\ Len(a) \in Nat
        /\ c[Len(a) + 1] = b /\ \A i \in DOMAIN a : c[i] = a[i]
    BY <1>1, <1>8, FrameGrows
  <2>2. ASSUME NEW i \in DOMAIN c PROVE Delivered(c[i])
    <3>1. i \in DOMAIN a \/ i = Len(a) + 1
      BY <2>1
    <3>2. \A j \in DOMAIN a : Delivered(a[j])
      BY DEF Deliveries
    <3> QED BY <3>1, <3>2, <2>1, <1>9
  <2> QED BY <2>1, <2>2 DEF Deliveries
<1> QED BY <1>3, <1>8, <1>9, <1>10

-----------------------------------------------------------------------------
(* A sequence is a function on its places. *)
LEMMA SeqIsFunction ==
  ASSUME NEW S, NEW d \in Seq(S)
  PROVE  d \in [1..Len(d) -> S]
OBVIOUS

(* d is c and a value more. *)
Longer(d, c, v) == d = c \o <<v>>

(* A column grows by a row. *)
LEMMA ColumnGrows ==
  ASSUME NEW n \in Nat, NEW c, IsColumn(c, n), NEW v, NEW d, Longer(d, c, v)
  PROVE  /\ IsColumn(d, n + 1) /\ d[n + 1] = v /\ \A i \in 1..n : d[i] = c[i]
<1> PICK S : S = {c[i] : i \in 1..n} \cup {v}
  OBVIOUS
<1> PICK w : w = <<v>>
  OBVIOUS
<1>1. c \in [1..n -> S] /\ w \in Seq(S) /\ Len(w) = 1 /\ w[1] = v
  BY DEF IsColumn
<1>2. c \in Seq(S) /\ Len(c) = n
  BY <1>1
<1>3. d \in Seq(S) /\ Len(d) = n + 1 /\ d[n + 1] = v /\ \A i \in 1..n : d[i] = c[i]
  <2>1. d = c \o w
    BY DEF Longer
  <2> QED BY <2>1, <1>1, <1>2
<1>4. d \in [1..(n + 1) -> S]
  <2>1. d \in [1..Len(d) -> S]
    BY <1>3, SeqIsFunction
  <2> QED BY <2>1, <1>3
<1>5. d = [i \in 1..(n + 1) |-> d[i]]
  BY <1>4
<1> QED BY <1>3, <1>5 DEF IsColumn

(* The inductive invariant: a feature of bounded memory is served, bar by   *)
(* bar of the kinds it is served, what the batch computes from all of them. *)
Served ==
  /\ frame \in Deliveries
  /\ \A i \in DOMAIN frame : frame[i].kind \in KindsOf(feature)
  /\ IsColumn(served, Len(frame))
  /\ \A i \in DOMAIN frame : served[i] = Batch(feature, frame)[i]

ServedInv == served_as \in DOMAIN Catalog /\ (Parity(feature, {}) => Served)

(* At first nothing is. *)
LEMMA InitServed == Init => ServedInv
<1> SUFFICES ASSUME Init PROVE ServedInv
  OBVIOUS
<1>1. served_as \in DOMAIN Catalog /\ frame = << >> /\ served = << >>
  BY DEF Init
<1>2. << >> \in Frames /\ DOMAIN << >> = {} /\ Len(<< >>) = 0
  BY DEF Frames
<1>3. frame \in Deliveries /\ DOMAIN frame = {}
  BY <1>1, <1>2 DEF Deliveries
<1>4. IsColumn(served, Len(frame))
  <2>1. << >> \in [1..0 -> {}] /\ {<< >>[i] : i \in 1..0} = {}
    OBVIOUS
  <2> QED BY <2>1, <1>1, <1>2 DEF IsColumn
<1> QED BY <1>1, <1>3, <1>4 DEF ServedInv, Served

(* A bar that closes is served what the batch computes, then and ever after. *)
LEMMA CloseBarServes ==
  ASSUME Served, served_as \in DOMAIN Catalog, Parity(feature, {}),
         NEW s \in Symbols, CloseBar(feature, s)
  PROVE  Served' /\ served_as' = served_as
<1>1. PICK kind \in KindsOf(feature) : Serve(feature, <<Bar(kind, frame, s, Len(frame) + 1)>>)
  BY DEF CloseBar
<1> PICK f, N, a, t : f = feature /\ N = Len(frame) + 1 /\ a = frame /\ t = Len(frame) + 1
  OBVIOUS
<1>2. a \in Deliveries /\ kind \in Kinds /\ t \in Nat /\ Parity(f, {})
  <2>1. KindsOf(feature) \subseteq Kinds
    BY KindsAreDelivered DEF feature
  <2>2. a \in Deliveries
    BY DEF Served
  <2>3. Len(a) \in Nat
    BY <2>2 DEF Deliveries, Frames
  <2> QED BY <2>1, <2>2, <2>3
<1> PICK b : b = Bar(kind, a, s, t)
  OBVIOUS
<1>3. b \in Bars /\ b.kind = kind /\ b.sym = s /\ a \o <<b>> \in Deliveries
  BY <1>2, ClosedBar
<1> PICK c : c = a \o <<b>>
  OBVIOUS
<1> PICK tail : tail = buffer(f, c, <<b>>)
  OBVIOUS
<1>4. /\ frame' = c /\ served_as' = served_as
      /\ served' = served \o SubSeq(Batch(f, tail), Len(tail) - Len(<<b>>) + 1, Len(tail))
  BY <1>1 DEF Serve
<1>5. /\ a \in Frames /\ c \in Frames /\ a \in Feeds /\ c \in Feeds
      /\ Len(a) \in Nat /\ Len(c) = N /\ N = Len(a) + 1
      /\ DOMAIN a = 1..Len(a) /\ DOMAIN c = 1..N
      /\ c[N] = b /\ \A i \in DOMAIN a : c[i] = a[i]
  <2>1. a \in Frames /\ c \in Frames /\ a \in Feeds /\ c \in Feeds
    BY <1>2, <1>3, DeliveriesAreFeeds
  <2>2. /\ Len(a) \in Nat /\ Len(c) = Len(a) + 1
        /\ DOMAIN a = 1..Len(a) /\ DOMAIN c = 1..(Len(a) + 1)
        /\ c[Len(a) + 1] = b /\ \A i \in DOMAIN a : c[i] = a[i]
    <3>1. c = a \o <<b>> /\ b \in Bars
      BY <1>3
    <3> QED BY ONLY <2>1, <3>1, FrameGrows
  <2>3. N = Len(a) + 1
    OBVIOUS
  <2> QED BY ONLY <2>1, <2>2, <2>3
<1>6. N \in DOMAIN c /\ N = Len(c) /\ b.sym = c[N].sym /\ tail = buffer(f, c, <<b>>)
  BY <1>5
<1>7. /\ Len(tail) \in Nat \ {0} /\ IsColumn(Batch(f, tail), Len(tail))
      /\ Batch(f, tail)[Len(tail)] = Batch(f, c)[N]
  BY ONLY <1>2, <1>5, <1>6, BufferServes
<1> PICK v : v = Batch(f, c)[N]
  OBVIOUS
<1>8. served' = served \o <<v>>
  <2>1. Len(<<b>>) = 1
    OBVIOUS
  <2>2. SubSeq(Batch(f, tail), Len(tail) - Len(<<b>>) + 1, Len(tail)) = <<Batch(f,
       tail)[Len(tail)]>>
    BY ONLY <2>1, <1>7, LastOfColumn
  <2> QED BY <2>2, <1>4, <1>7
<1>9. IsColumn(served', N) /\ served'[N] = v /\ \A i \in 1..Len(a) : served'[i] = served[i]
  <2>1. IsColumn(served, Len(a))
    BY DEF Served
  <2> PICK d : d = served'
    OBVIOUS
  <2> PICK n, e : n = Len(a) /\ e = served
    OBVIOUS
  <2>2. IsColumn(d, n + 1) /\ d[n + 1] = v /\ \A i \in 1..n : d[i] = e[i]
    <3>1. n \in Nat /\ IsColumn(e, n) /\ Longer(d, e, v)
      BY <2>1, <1>5, <1>8 DEF Longer
    <3> QED BY ONLY <3>1, ColumnGrows
  <2> QED BY <2>2, <1>5
<1>10. ASSUME NEW i \in DOMAIN c
       PROVE  c[i].kind \in KindsOf(f) /\ served'[i] = Batch(f, c)[i]
  <2>1. CASE i = N
    BY <2>1, <1>3, <1>5, <1>9
  <2>2. CASE i # N
    <3>1. i \in DOMAIN a
      BY <2>2, <1>5
    <3>2. a[i].kind \in KindsOf(f) /\ served[i] = Batch(f, a)[i]
      BY <3>1 DEF Served
    <3>3. Batch(f, c)[i] = Batch(f, a)[i]
      BY <3>1, <1>2, <1>3, <1>5, BatchGrows
    <3> QED BY <3>1, <3>2, <3>3, <1>5, <1>9
  <2> QED BY <2>1, <2>2
<1>11. feature' = f
  BY <1>4 DEF feature
<1>12. /\ frame' = c /\ c \in Deliveries /\ Len(c) = N /\ IsColumn(served', N)
       /\ \A i \in DOMAIN c : c[i].kind \in KindsOf(f) /\ served'[i] = Batch(f, c)[i]
  BY <1>3, <1>4, <1>5, <1>9, <1>10
<1>13. /\ frame' \in Deliveries /\ IsColumn(served', Len(frame'))
       /\ \A i \in DOMAIN frame' : /\ frame'[i].kind \in KindsOf(f)
                                  /\ served'[i] = Batch(f, frame')[i]
  BY ONLY <1>12
<1>14. Served'
  BY <1>13, <1>11 DEF Served
<1> QED BY <1>4, <1>14

(* And nothing else serves it. *)
LEMMA NextServed == ServedInv /\ [Next]_vars => ServedInv'
<1> SUFFICES ASSUME ServedInv, [Next]_vars PROVE ServedInv'
  OBVIOUS
<1>1. served_as \in DOMAIN Catalog /\ (Parity(feature, {}) => Served)
  BY DEF ServedInv
<1>2. ASSUME served_as' = served_as, Parity(feature, {}) => Served' PROVE ServedInv'
  <2>1. feature' = feature /\ served_as' \in DOMAIN Catalog
    BY <1>1, <1>2 DEF feature
  <2> QED BY <2>1, <1>2 DEF ServedInv
<1>3. ASSUME NEW s \in Symbols, CloseBar(feature, s) PROVE ServedInv'
  <2>1. served_as' = served_as
    BY <1>3 DEF CloseBar, Serve
  <2>2. Parity(feature, {}) => Served'
    BY <1>1, <1>3, CloseBarServes
  <2> QED BY <2>1, <2>2, <1>2
<1>4. CASE CloseSlice(feature)
  <2>1. served_as' = served_as
    BY <1>4 DEF CloseSlice, Serve
  <2>2. ~ Parity(feature, {})
    BY <1>4 DEF CloseSlice, IsCross, Parity
  <2> QED BY <2>1, <2>2, <1>2
<1>5. CASE UNCHANGED vars
  <2>1. served_as' = served_as /\ frame' = frame /\ served' = served
    BY <1>5 DEF vars
  <2>2. feature' = feature
    BY <2>1 DEF feature
  <2>3. Served <=> Served'
    BY <2>1, <2>2 DEF Served
  <2> QED BY <2>1, <2>3, <1>1, <1>2
<1> QED BY <1>3, <1>4, <1>5 DEF Next, Closing

(* What is served of a feature of bounded memory is what the batch computes *)
(* from the frame.                                                          *)
LEMMA AlwaysServed == Spec => []ServedInv
<1>1. Init => ServedInv
  BY InitServed
<1>2. ServedInv /\ [Next]_vars => ServedInv'
  BY NextServed
<1> QED BY <1>1, <1>2, PTL DEF Spec

-----------------------------------------------------------------------------
(* What is served of such a feature, row by row.                            *)
LEMMA ServedRows ==
  ASSUME Served, NEW T, Parity(feature, T), NEW i \in DOMAIN frame
  PROVE  /\ frame \in Frames /\ Own(frame, i) \in Histories
         /\ Age(frame, i) \in 1..Len(Own(frame, i))
         /\ \E x : /\ Builds(feature, x)
                   /\ Windowed(x, feature.min_history, feature.input_roles, T)
                   /\ served[i] = x[Own(frame, i)][Age(frame, i)]
<1> PICK a, f : a = frame /\ f = feature
  OBVIOUS
<1>1. a \in Frames /\ a \in Feeds /\ served[i] = Batch(f, a)[i]
  BY DeliveriesAreFeeds DEF Served
<1>2. PICK x : Builds(f, x) /\ Windowed(x, f.min_history, f.input_roles, T)
  BY DEF Parity, Builds
<1>3. i \in 1..Len(a)
  BY <1>1 DEF Frames
<1>4. Batch(f, a)[i] = x[Own(a, i)][Age(a, i)]
  BY ONLY <1>1, <1>2, <1>3, BatchRows
<1>5. Own(a, i) \in Histories /\ Age(a, i) \in 1..Len(Own(a, i))
  BY <1>1, OwnRow
<1> QED BY <1>1, <1>2, <1>4, <1>5

(* The cells of a history are cells of the frame.                           *)
LEMMA OwnCells ==
  ASSUME NEW a \in Feeds, NEW i \in DOMAIN a, NEW R
  PROVE  CellsOn(Own(a, i), R) \subseteq {<<a[j].sym, a[j].t, r>> : j \in 1..Len(a), r \in R}
<1>1. a \in Frames /\ DOMAIN a = 1..Len(a)
  BY DEF Feeds, Frames
<1> PICK I : I = Rows(a, a[i].sym)
  OBVIOUS
<1>2. I \in SUBSET DOMAIN a
  BY DEF Rows
<1> PICK q : q = Own(a, i)
  OBVIOUS
<1>3. \A k \in DOMAIN q : \E j \in 1..Len(a) : q[k] = a[j]
  <2>1. /\ Picked(a, I) \in Frames /\ Len(Picked(a, I)) = Cardinality(I)
        /\ \A k \in 1..Cardinality(I) : \E j \in I : Place(I, j) = k - 1 /\ Picked(a, I)[k] = a[j]
    BY ONLY <1>1, <1>2, PickedRows
  <2>2. q = Picked(a, I)
    BY DEF Own
  <2>3. DOMAIN q = 1..Cardinality(I)
    BY <2>1, <2>2 DEF Frames
  <2> QED BY <2>1, <2>2, <2>3, <1>1, <1>2
<1> QED BY <1>3 DEF CellsOn

(* One value per bar, on cells of the roles declared.                       *)
LEMMA ServedIsTyped ==
  ASSUME Served, served_as \in DOMAIN Catalog, Parity(feature, {})
  PROVE  TypeOK
<1>1. DOMAIN served = 1..Len(frame) /\ DOMAIN frame = 1..Len(frame) /\ Len(frame) \in Nat
      /\ frame \in Feeds
  BY DeliveriesAreFeeds DEF Served, IsColumn, Deliveries, Frames
<1>2. Len(served) = Len(frame)
  <2>1. served \in [1..Len(frame) -> {served[i] : i \in 1..Len(frame)}]
    BY DEF Served, IsColumn
  <2> QED BY <2>1, <1>1
<1>3. ASSUME NEW i \in DOMAIN served
      PROVE  \/ served[i] \in {NaV, NaN}
             \/ IsNumber(served[i]) /\ served[i].on \subseteq CellsDeclared(feature)
  <2> PICK R : R = feature.input_roles
    OBVIOUS
  <2> PICK q, k : q = Own(frame, i) /\ k = Age(frame, i)
    OBVIOUS
  <2>1. i \in DOMAIN frame
    BY <1>1
  <2>2. q \in Histories /\ k \in 1..Len(q)
    BY <2>1, ServedRows
  <2>3. PICK x : Windowed(x, feature.min_history, R, {}) /\ served[i] = x[q][k]
    BY <2>1, ServedRows
  <2>4. served[i] \in Values(CellsOn(q, R))
    BY <2>2, <2>3, RowTyped
  <2>5. CellsOn(q, R) \subseteq CellsDeclared(feature)
    <3>1. CellsOn(q, R) \subseteq {<<frame[j].sym, frame[j].t, r>> : j \in 1..Len(frame), r \in R}
      BY <1>1, <2>1, OwnCells
    <3> QED BY <3>1, <1>1 DEF CellsDeclared
  <2> PICK v : v = served[i]
    OBVIOUS
  <2>6. v \in {NaV, NaN} \/ (IsNumber(v) /\ v.on \subseteq CellsOn(q, R))
    <3>1. v \in Values(CellsOn(q, R))
      BY <2>4
    <3> QED BY ONLY <3>1, ValueKinds, NumberFields
  <2> QED BY <2>5, <2>6
<1>4. LET declared == CellsDeclared(feature)
      IN  \A i \in DOMAIN served :
            \/ served[i] \in {NaV, NaN}
            \/ IsNumber(served[i]) /\ served[i].on \subseteq declared
  BY <1>3
<1> QED BY <1>2, <1>4 DEF TypeOK

(* The same value. *)
LEMMA ServedIsSame ==
  ASSUME Served, NEW T, Parity(feature, T)
  PROVE  ServedIsBatch
BY DEF Served, Parity, ServedIsBatch, ServedAsBatch, SameValue

(* Null before it is of age. *)
LEMMA ServedIsLate ==
  ASSUME Served, NEW T, Parity(feature, T)
  PROVE  NullBeforeMinHistory
<1> SUFFICES ASSUME NEW i \in DOMAIN frame, Age(frame, i) < feature.min_history
             PROVE  IsNull(served[i])
  BY DEF NullBeforeMinHistory
<1> PICK n, R : n = feature.min_history /\ R = feature.input_roles
  OBVIOUS
<1> PICK q, k : q = Own(frame, i) /\ k = Age(frame, i)
  OBVIOUS
<1>1. q \in Histories /\ k \in 1..Len(q) /\ k < n
  BY ServedRows
<1>2. PICK x : Windowed(x, n, R, T) /\ served[i] = x[q][k]
  BY ServedRows
<1>3. Late(x, n)
  BY <1>2 DEF Windowed, Good
<1>4. x[q][k] = NaV
  BY <1>1, <1>3 DEF Late
<1> QED BY <1>2, <1>4 DEF IsNull, NaV

(* The rows of a symbol are bars of the frame, by their age.                *)
LEMMA OwnByAge ==
  ASSUME NEW a \in Feeds, NEW i \in DOMAIN a, NEW l \in 1..Len(Own(a, i))
  PROVE  \E j \in Rows(a, a[i].sym) : Age(a, j) = l /\ Own(a, i)[l] = a[j]
<1> PICK I : I = Rows(a, a[i].sym)
  OBVIOUS
<1>1. a \in Frames /\ I \in SUBSET DOMAIN a /\ Own(a, i) = Picked(a, I)
  BY DEF Feeds, Rows, Own
<1>2. /\ Cardinality(I) \in Nat /\ Len(Picked(a, I)) = Cardinality(I)
      /\ \A k \in 1..Cardinality(I) : \E j \in I : Place(I, j) = k - 1 /\ Picked(a, I)[k] = a[j]
  BY ONLY <1>1, PickedRows
<1>3. l \in 1..Cardinality(I)
  BY <1>1, <1>2
<1>4. PICK j \in I : Place(I, j) = l - 1 /\ Own(a, i)[l] = a[j]
  BY <1>1, <1>2, <1>3
<1>5. j \in DOMAIN a /\ Rows(a, a[j].sym) = I
  BY <1>4 DEF Rows
<1>6. Age(a, j) = Place(I, j) + 1
  BY <1>1, <1>5, AgeIsPlace
<1>7. Age(a, j) = l
  BY <1>2, <1>3, <1>4, <1>6
<1> QED BY <1>4, <1>7

(* The last bars of a symbol up to row k, n of them or all there are, are a *)
(* history, and the value of row k is its last one's.                       *)
LEMMA LastRows ==
  ASSUME NEW q \in Histories, NEW k \in 1..Len(q), NEW n \in Nat \ {0}
  PROVE  \E h \in Histories :
           /\ Len(h) \in 1..k /\ Len(h) <= n /\ Alike(h, Len(h), q, k, n)
           /\ \A m \in 1..Len(h) : h[m] = q[k - Len(h) + m]
<1>1. q \in Frames /\ Len(q) \in Nat /\ DOMAIN q = 1..Len(q) /\ \A m \in 1..Len(q) : q[m] \in Bars
  BY HistoryIsFrame
<1> PICK l : l = IF k <= n THEN k ELSE n
  OBVIOUS
<1>2. k \in Nat /\ l \in 1..k /\ l \in Nat /\ l <= n /\ (l = k \/ (l >= n /\ k >= n))
  BY <1>1
<1> PICK h : h = [m \in 1..l |-> q[k - l + m]]
  OBVIOUS
<1>3. \A m \in 1..l : k - l + m \in 1..Len(q)
  BY <1>1, <1>2
<1>4. h \in [1..l -> Bars] /\ \A m \in 1..l : h[m] = q[k - l + m]
  BY <1>1, <1>3
<1>5. h \in Frames /\ Len(h) = l /\ DOMAIN h = 1..l
  <2>1. l \in Nat /\ h \in [1..l -> Bars]
    BY <1>2, <1>4
  <2> QED BY ONLY <2>1 DEF Frames
<1>6. h \in Histories
  <2>1. \A m \in DOMAIN h : \E p \in DOMAIN q : h[m] = q[p]
    BY <1>1, <1>3, <1>4, <1>5
  <2>2. \A i, j \in DOMAIN q : q[i].sym = q[j].sym
    BY DEF Histories
  <2>3. \A i \in DOMAIN q : Missing(q[i]) \/ Whole(q[i])
    BY DEF Histories
  <2>4. \A i, j \in DOMAIN h : h[i].sym = h[j].sym
    BY ONLY <2>1, <2>2
  <2>5. \A i \in DOMAIN h : Missing(h[i]) \/ Whole(h[i])
    BY ONLY <2>1, <2>3
  <2> QED BY ONLY <2>4, <2>5, <1>5 DEF Histories
<1>7. Alike(h, l, q, k, n)
  <2>1. ASSUME NEW d \in 0..(n - 1), d < l, d < k PROVE h[l - d] = q[k - d]
    <3>1. l - d \in 1..l /\ k - l + (l - d) = k - d
      BY <1>2, <2>1
    <3> QED BY <3>1, <1>4
  <2> QED BY <2>1, <1>2 DEF Alike
<1> QED BY <1>2, <1>4, <1>5, <1>6, <1>7

(* A NaN comes out of a zero in the columns Z, if without one there is no   *)
(* NaN, and the zero is among the bars the value is a function of.          *)
LEMMA ServedIsTame ==
  ASSUME Served, NEW Z, Parity(feature, Positive(Z)), NEW i \in DOMAIN frame, served[i] = NaN
  PROVE  \E j \in Recent(frame, i, feature.min_history), r \in Z : frame[j].cells[r] = 0
<1> PICK a, n, R, J : /\ a = frame /\ n = feature.min_history /\ R = feature.input_roles
                      /\ J = Recent(a, i, n)
  OBVIOUS
<1> SUFFICES ASSUME \A j \in J, r \in Z : a[j].cells[r] # 0 PROVE FALSE
  OBVIOUS
<1> PICK q, k : q = Own(a, i) /\ k = Age(a, i)
  OBVIOUS
<1>1. a \in Feeds /\ q \in Histories /\ k \in 1..Len(q)
  BY ServedRows, DeliveriesAreFeeds DEF Served
<1>2. PICK x : Windowed(x, n, R, Positive(Z)) /\ served[i] = x[q][k]
  BY ServedRows
<1>3. n \in Nat \ {0} /\ Local(x, n) /\ Tame(x, Positive(Z))
  BY <1>2 DEF Windowed, Good
<1>4. PICK h \in Histories : /\ Len(h) \in 1..k /\ Len(h) <= n /\ Alike(h, Len(h), q, k, n)
                             /\ \A m \in 1..Len(h) : h[m] = q[k - Len(h) + m]
  BY <1>1, <1>3, LastRows
<1> PICK l : l = Len(h)
  OBVIOUS
<1>5. ASSUME NEW m \in 1..l PROVE \E j \in J : h[m] = a[j]
  <2> PICK p : p = k - l + m
    OBVIOUS
  <2>1. Len(q) \in Nat
    BY <1>1, HistoryIsFrame
  <2>2. p \in 1..Len(q) /\ p \in (k - n + 1)..k
    BY <2>1, <1>1, <1>3, <1>4
  <2>3. PICK j \in Rows(a, a[i].sym) : Age(a, j) = p /\ q[p] = a[j]
    BY <2>2, <1>1, OwnByAge
  <2>4. j \in J
    BY <2>2, <2>3 DEF Recent
  <2> QED BY <2>3, <2>4, <1>4
<1>6. h \in Positive(Z)
  <2>1. DOMAIN h = 1..l
    BY HistoryIsFrame
  <2> QED BY <2>1, <1>5 DEF Positive
<1>7. l \in 1..Len(h) /\ x[h][l] = x[q][k]
  <2>1. l \in 1..Len(h)
    BY <1>1, <1>4, HistoryIsFrame
  <2> QED BY <2>1, <1>1, <1>3, <1>4 DEF Local
<1> QED BY <1>2, <1>3, <1>6, <1>7 DEF Tame

-----------------------------------------------------------------------------
(* Had every bar been delivered, each symbol would have a history of the    *)
(* same length, with bars where some were missing.                          *)
LEMMA FilledFills ==
  ASSUME NEW a \in Deliveries, NEW b, b = Filled(a), NEW i \in DOMAIN a
  PROVE  /\ b \in Feeds /\ i \in DOMAIN b /\ Age(b, i) = Age(a, i)
         /\ Fills(Own(a, i), Own(b, i))
<1>1. a \in Frames /\ DOMAIN a = 1..Len(a) /\ Len(a) \in Nat
  BY DEF Deliveries, Frames
<1>2. \A j \in DOMAIN a : a[j] \in Bars /\ Delivered(a[j])
  BY DEF Deliveries, Frames
<1>3. ASSUME NEW j \in DOMAIN a
      PROVE  /\ b[j] \in Bars /\ b[j].sym = a[j].sym /\ (Missing(b[j]) \/ Whole(b[j]))
             /\ Missing(a[j]) \/ b[j] = a[j]
  <2> PICK bar : bar = a[j]
    OBVIOUS
  <2> DEFINE cells == [r \in Roles |-> CleanCell(bar.sym, Age(a, j), r)]
  <2>1. b[j] = IF bar.kind # "gap" THEN bar ELSE [bar EXCEPT !.cells = cells]
    BY DEF Filled
  <2>2. bar \in Bars /\ Delivered(bar)
    BY <1>2
  <2>3. CASE bar.kind # "gap"
    BY <2>1, <2>2, <2>3 DEF Delivered
  <2>4. CASE bar.kind = "gap"
    <3>1. Age(a, j) \in Nat
      <4>1. a \in Feeds
        BY DeliveriesAreFeeds
      <4>2. Age(a, j) \in 1..Len(Own(a, j)) /\ Own(a, j) \in Histories
        BY <4>1, OwnRow
      <4> QED BY <4>2, HistoryIsFrame
    <3>2. \A r \in Roles : cells[r] \in Nat
      BY <3>1, CleanCellIsPositive
    <3>3. cells \in [Roles -> Nat \cup {Null}]
      BY <3>2
    <3>4. \A r \in Roles : cells[r] # Null
      BY <3>2 DEF Null
    <3> HIDE DEF cells
    <3> PICK new : new = [bar EXCEPT !.cells = cells]
      OBVIOUS
    <3>5. new \in Bars /\ new.sym = bar.sym /\ new.cells = cells
      BY <2>2, <3>3 DEF Bars
    <3>6. Whole(new)
      BY <3>4, <3>5 DEF Whole
    <3>7. Missing(bar)
      BY <2>2, <2>4 DEF Delivered
    <3>8. b[j] = new
      BY <2>1, <2>4
    <3> QED BY <3>5, <3>6, <3>7, <3>8
  <2> QED BY <2>3, <2>4
<1>4. DOMAIN b = 1..Len(a) /\ b \in [1..Len(a) -> Bars]
  <2>1. b = [j \in DOMAIN a |-> b[j]]
    BY DEF Filled
  <2> QED BY <2>1, <1>1, <1>3
<1>5. b \in Frames /\ Len(b) = Len(a)
  BY <1>1, <1>4 DEF Frames
<1>6. b \in Feeds
  BY <1>1, <1>3, <1>4, <1>5 DEF Feeds
<1> PICK I : I = Rows(a, a[i].sym)
  OBVIOUS
<1>7. Rows(b, b[i].sym) = I /\ I \in SUBSET DOMAIN a /\ I \in SUBSET DOMAIN b
  BY <1>1, <1>3, <1>4 DEF Rows
<1>8. Age(b, i) = Age(a, i)
  <2>1. Age(b, i) = Place(I, i) + 1
    BY <1>1, <1>4, <1>5, <1>7, AgeIsPlace
  <2>2. Age(a, i) = Place(I, i) + 1
    BY <1>1, AgeIsPlace
  <2> QED BY <2>1, <2>2
<1> PICK p, q, n : p = Picked(a, I) /\ q = Picked(b, I) /\ n = Cardinality(I)
  OBVIOUS
<1>9. /\ Len(p) = n /\ Len(q) = n
      /\ \A k \in 1..n : \E j \in I : Place(I, j) = k - 1 /\ p[k] = a[j]
      /\ \A j \in I : q[Place(I, j) + 1] = b[j]
      /\ n \in Nat
  <2>1. /\ p = Picked(a, I) /\ q = Picked(b, I) /\ n = Cardinality(I)
        /\ a \in Frames /\ b \in Frames /\ I \in SUBSET DOMAIN a /\ I \in SUBSET DOMAIN b
    BY <1>1, <1>5, <1>7
  <2>2. /\ Len(p) = n /\ n \in Nat
        /\ \A k \in 1..n : \E j \in I : Place(I, j) = k - 1 /\ p[k] = a[j]
    BY ONLY <2>1, PickedRows
  <2>3. Len(q) = n /\ \A j \in I : q[Place(I, j) + 1] = b[j]
    BY ONLY <2>1, PickedRows
  <2> QED BY <2>2, <2>3
<1>10. ASSUME NEW k \in 1..n PROVE Missing(p[k]) \/ q[k] = p[k]
  <2>1. PICK j \in I : Place(I, j) = k - 1 /\ p[k] = a[j]
    BY <1>9
  <2>2. Place(I, j) + 1 = k
    BY <2>1, <1>9
  <2>3. q[k] = b[j]
    BY <2>2, <1>9
  <2>4. Missing(a[j]) \/ b[j] = a[j]
    BY <1>3, <1>7
  <2> QED BY <2>1, <2>3, <2>4
<1>11. Fills(p, q)
  BY <1>9, <1>10 DEF Fills
<1>12. p = Own(a, i) /\ q = Own(b, i)
  BY <1>7 DEF Own
<1> QED BY <1>1, <1>4, <1>6, <1>8, <1>11, <1>12

(* No null is taken for something else, and a number rests on what it would *)
(* rest on had every bar been delivered.                                    *)
LEMMA ServedIsHonest ==
  ASSUME Served, NEW T, Parity(feature, T)
  PROVE  NothingImputed
<1> SUFFICES ASSUME NEW i \in DOMAIN frame, IsNumber(served[i])
             PROVE  ~ served[i].guess /\ served[i].on = Batch(feature, Filled(frame))[i].on
  BY DEF NothingImputed, ServedHonestly
<1> PICK f, n, R : f = feature /\ n = feature.min_history /\ R = feature.input_roles
  OBVIOUS
<1> PICK a, b : a = frame /\ b = Filled(frame)
  OBVIOUS
<1> PICK p, q, k, v : p = Own(a, i) /\ q = Own(b, i) /\ k = Age(a, i) /\ v = served[i]
  OBVIOUS
<1>1. a \in Deliveries /\ b = Filled(a) /\ i \in DOMAIN a
  BY DEF Served
<1>2. b \in Feeds /\ i \in DOMAIN b /\ Age(b, i) = k /\ Fills(p, q)
  BY <1>1, FilledFills
<1>3. p \in Histories /\ k \in 1..Len(p)
  BY ServedRows
<1>4. q \in Histories /\ k \in 1..Len(q)
  BY <1>2, OwnRow
<1>5. PICK x : Builds(f, x) /\ Windowed(x, n, R, T) /\ v = x[p][k]
  BY ServedRows
<1>6. v \in Values(CellsOn(p, R)) /\ Honest(v)
  BY <1>3, <1>5, GoodRows DEF Windowed
<1>7. v # NaV /\ ~ v.guess
  BY <1>6 DEF Honest, IsNumber, NaV
<1>8. x[q][k] = v
  BY <1>2, <1>3, <1>4, <1>5, <1>7 DEF Windowed, Good, Settled
<1>9. Batch(f, b)[i] = v
  <2>1. b \in Frames /\ i \in 1..Len(b)
    BY <1>2 DEF Feeds, Frames
  <2>2. Batch(f, b)[i] = x[Own(b, i)][Age(b, i)]
    BY ONLY <2>1, <1>5, BatchRows
  <2> QED BY <2>2, <1>2, <1>8
<1> QED BY <1>7, <1>9

-----------------------------------------------------------------------------
(* 6. The library. *)

(* The time-series features of bounded memory, by the parameters their      *)
(* factories accept.                                                        *)
Plain == {ret_overnight, ret_intraday, vwap_dist_close, dollar_vol, book_imbalance,
          season_dow, season_tom}

OfPeriod(n) == {ret_log(n), ret_simple(n), roc(n)}

OfWindow(w) ==
  {drawdown(w), sma(w), sma_dist(w), dist_52w_high(w), price_pctile(w), ols_slope(w),
   williams_r(w), stoch_k(w), cci(w), vol_cc(w), semivar_down(w), bb_pctb(w), bb_bw(w)}
  \cup {vol_z(w), rel_volume(w), amihud(w), cmf(w), mfi(w), roll_spread(w), adv(w),
        signed_vol(w), skew(w), kurt(w), downside_dev(w), up_down_vol_ratio(w),
        zscore_close(w), half_life(w)}
  \cup {trade_imbalance(w), vpin(w), rvar(w), bipower(w), jump_rj(w), rsemivar_up(w),
        rsemivar_dn(w), signed_jump(w), rskew(w), rkurt(w), quoted_spread(w),
        eff_spread(w), amihud_intraday(w), kyle_lambda(w), depth_imbalance(w),
        beta(w), idio_vol(w), zscore(w)}

OfBoth(n, w) == {stoch_d(w, n), autocorr(n, w), sign_autocorr(n, w)}

Momenta == UNION {{mom(formation, skip) : skip \in 0..formation} : formation \in Periods}
Ratios == UNION {{var_ratio(q, w) : q \in {q \in Windows : q < w}} : w \in Windows}
Differences == {frac_diff(d, threshold, max_lag) : d \in Int \X Periods, threshold \in Periods,
                                                   max_lag \in Periods}

ByPeriod == UNION {OfPeriod(n) : n \in Periods}
ByWindow == UNION {OfWindow(w) : w \in Windows}
ByBoth == UNION {OfBoth(n, w) : n \in Periods, w \in Windows}

(* They divide by nothing that a bar can make zero and nothing guards. *)
Guarded ==
  Plain \cup ByPeriod \cup ByWindow \cup ByBoth \cup Momenta \cup Ratios \cup Differences

(* They divide by a price, and nothing guards it. *)
Bare ==
  {spread_corwin_schultz} \cup {vol_parkinson(w) : w \in Windows}
  \cup {vol_gk(w) : w \in Windows} \cup {vol_rs(w) : w \in Windows}
  \cup {vol_yz(w) : w \in Windows}

(* And one divides by a correction that is zero when q is the window. *)
OfItsWindow == {var_ratio(w, w) : w \in Windows}

Library == Guarded \cup Bare \cup OfItsWindow

(* A feature of a window is a function of the bars it declares.             *)
LEMMA WindowParity ==
  ASSUME NEW T \in SUBSET Histories, NEW w \in Windows, NEW f \in OfWindow(w)
  PROVE  Parity(f, T)
BY Drawdown, Sma, SmaDist, Dist52wHigh, PricePctile, OlsSlope, WilliamsR, StochK, Cci, VolCc,
   SemivarDown, BbPctb, BbBw, VolZ, RelVolume, Amihud, Cmf, Mfi, RollSpread, Adv, SignedVol,
   Skew, Kurt, DownsideDev, UpDownVolRatio, ZscoreClose, HalfLife, TradeImbalance, Vpin, Rvar,
   Bipower, JumpRj, RsemivarUp, RsemivarDn, SignedJump, Rskew, Rkurt, QuotedSpread, EffSpread,
   AmihudIntraday, KyleLambda, DepthImbalance, Beta, IdioVol, Zscore DEF OfWindow

(* Whatever the bars are, such features are tame. *)
LEMMA GuardedParity ==
  ASSUME NEW T \in SUBSET Histories, NEW f \in Guarded
  PROVE  Parity(f, T)
<1>1. CASE f \in Plain
  BY <1>1, RetOvernight, RetIntraday, VwapDistClose, DollarVol, BookImbalance, Seasons DEF Plain
<1>2. CASE f \in ByPeriod
  BY <1>2, RetLog, RetSimple, Roc DEF ByPeriod, OfPeriod
<1>3. CASE f \in ByWindow
  BY <1>3, WindowParity DEF ByWindow
<1>4. CASE f \in ByBoth
  BY <1>4, StochD, Autocorr, SignAutocorr DEF ByBoth, OfBoth
<1>5. CASE f \in Momenta
  BY <1>5, Mom DEF Momenta
<1>6. CASE f \in Ratios
  <2>1. PICK w \in Windows, q \in Windows : q < w /\ f = var_ratio(q, w)
    BY <1>6 DEF Ratios
  <2>2. q <= w /\ q # w
    BY <2>1 DEF Windows
  <2> QED BY <2>1, <2>2, VarRatio
<1>7. CASE f \in Differences
  <2>1. PICK d \in Int \X Periods, threshold \in Periods, max_lag \in Periods :
          f = frac_diff(d, threshold, max_lag)
    BY <1>7 DEF Differences
  <2>2. max_lag \in Nat
    BY DEF Periods
  <2>3. Parity(frac_diff(d, threshold, max_lag), T)
    BY <2>2, FracDiff
  <2> QED BY <2>1, <2>3
<1> QED BY <1>1, <1>2, <1>3, <1>4, <1>5, <1>6, <1>7 DEF Guarded

(* So is one that divides bare, where no bar has a zero it divides by.      *)
LEMMA BareParity ==
  ASSUME NEW f \in Bare, NEW T \in SUBSET Positive(DividesBareBy(f))
  PROVE  Parity(f, T)
<1>1. CASE f = spread_corwin_schultz
  <2>1. DividesBareBy(f) = {Low}
    BY <1>1 DEF DividesBareBy, spread_corwin_schultz, Finite, Feature
  <2> QED BY <2>1, <1>1, SpreadCorwinSchultz
<1>2. ASSUME NEW w \in Windows, f = vol_parkinson(w) PROVE Parity(f, T)
  <2>1. DividesBareBy(f) = {Low}
    BY <1>2 DEF DividesBareBy, vol_parkinson, RangeFeature, Finite, Feature
  <2> QED BY <2>1, <1>2, VolParkinson
<1>3. ASSUME NEW w \in Windows, f = vol_gk(w) PROVE Parity(f, T)
  <2>1. DividesBareBy(f) = {Low, Open}
    BY <1>3 DEF DividesBareBy, vol_gk, RangeFeature, Finite, Feature
  <2> QED BY <2>1, <1>3, VolGk
<1>4. ASSUME NEW w \in Windows, f = vol_rs(w) PROVE Parity(f, T)
  <2>1. DividesBareBy(f) = {CloseSplit, Open}
    BY <1>4 DEF DividesBareBy, vol_rs, RangeFeature, Finite, Feature
  <2> QED BY <2>1, <1>4, VolRs
<1>5. ASSUME NEW w \in Windows, f = vol_yz(w) PROVE Parity(f, T)
  <2>1. DividesBareBy(f) = {CloseSplit, Open}
    BY <1>5 DEF DividesBareBy, vol_yz, RangeFeature, Finite, Feature
  <2> QED BY <2>1, <1>5, VolYz
<1> QED BY <1>1, <1>2, <1>3, <1>4, <1>5 DEF Bare

(* Each feature of the library is of bounded memory, as it declares.        *)
LEMMA LibraryParity ==
  ASSUME NEW f \in Library
  PROVE  Parity(f, {})
<1>1. {} \in SUBSET Histories /\ {} \in SUBSET Positive(DividesBareBy(f))
  OBVIOUS
<1>2. CASE f \in OfItsWindow
  <2>1. PICK w \in Windows : f = var_ratio(w, w)
    BY <1>2 DEF OfItsWindow
  <2>2. w <= w
    BY DEF Windows
  <2> QED BY <1>1, <2>1, <2>2, VarRatio
<1> QED BY <1>1, <1>2, GuardedParity, BareParity DEF Library

-----------------------------------------------------------------------------
(* A bar that closes is served what the batch computes, whatever the        *)
(* catalog, the symbols and the bars: any feature of the library, at any    *)
(* parameters, is served from the last min_history bars of a symbol the     *)
(* value compute gives it over the whole frame, and keeps it.               *)
THEOREM LibraryIsServedAsBatch == Spec => [](feature \in Library => ServedIsBatch)
<1>1. ServedInv => (feature \in Library => ServedIsBatch)
  BY LibraryParity, ServedIsSame DEF ServedInv
<1> QED BY <1>1, AlwaysServed, PTL

(* One value per bar, each a null, a NaN or a number on cells of the frame, *)
(* in the columns of the roles the feature declares: schema validation of   *)
(* those roles covers what the expression reads.                            *)
THEOREM LibraryIsTyped == Spec => [](feature \in Library => TypeOK)
<1>1. ServedInv => (feature \in Library => TypeOK)
  BY LibraryParity, ServedIsTyped DEF ServedInv
<1> QED BY <1>1, AlwaysServed, PTL

(* min_history is not less than it takes: no feature of the library has a   *)
(* value before that many bars of a symbol.                                 *)
THEOREM LibraryIsNullBefore == Spec => [](feature \in Library => NullBeforeMinHistory)
<1>1. ServedInv => (feature \in Library => NullBeforeMinHistory)
  BY LibraryParity, ServedIsLate DEF ServedInv
<1> QED BY <1>1, AlwaysServed, PTL

(* Nothing is imputed: a number of a feature of the library took no null    *)
(* for anything else, and rests on the cells it would rest on had the       *)
(* vendor delivered every bar.                                              *)
THEOREM LibraryImputesNothing == Spec => [](feature \in Library => NothingImputed)
<1>1. ServedInv => (feature \in Library => NothingImputed)
  BY LibraryParity, ServedIsHonest DEF ServedInv
<1> QED BY <1>1, AlwaysServed, PTL

(* A feature of the library that guards what it divides by is never         *)
(* infinite nor NaN, whatever is zero; one that divides bare is only while  *)
(* a zero of a price it divides by is among its last min_history bars.  The *)
(* variance ratio of a lag that is its window is out of the property.       *)
THEOREM LibraryIsFinite == Spec => [](feature \in Library => NeverInfinite)
<1>1. ASSUME ServedInv, feature \in Library, ~ DividesByZero(feature)
      PROVE  \A i \in DOMAIN served : served[i] = NaN =>
               \E j \in Recent(frame, i, feature.min_history), r \in DividesBareBy(feature) :
                 frame[j].cells[r] = 0
  <2>1. Served
    BY <1>1, LibraryParity DEF ServedInv
  <2>2. DOMAIN served = DOMAIN frame
    BY <2>1 DEF Served, IsColumn, Deliveries, Frames
  <2> PICK Z : Z = DividesBareBy(feature)
    OBVIOUS
  <2>3. feature \notin OfItsWindow
    BY <1>1 DEF OfItsWindow, DividesByZero, var_ratio, Finite, Feature
  <2>4. Positive(Z) \in SUBSET Histories /\ Positive(Z) \in SUBSET Positive(Z)
    BY DEF Positive
  <2>5. Parity(feature, Positive(Z))
    BY <1>1, <2>3, <2>4, GuardedParity, BareParity DEF Library
  <2> QED BY <2>1, <2>2, <2>5, ServedIsTame
<1>2. ServedInv => (feature \in Library => NeverInfinite)
  BY <1>1 DEF NeverInfinite, FiniteButFor
<1> QED BY <1>2, AlwaysServed, PTL

-----------------------------------------------------------------------------
(* 7. Features of any memory.  What is served of one of decaying memory is  *)
(* not what the batch computes, but it is its value over a history that     *)
(* ends at the bar; so a feature gated by emit_after stays null.            *)
(* A time-series feature of any memory: a column of the frame, from        *)
(* min_history rows on.                                                    *)
Columnar(f) ==
  /\ f.signal = << >> /\ f.min_history \in Nat \ {0}
  /\ \A bars \in Frames : IsColumn(f.build[bars], Len(bars))

(* What is served of it is its last value over some history that ends at   *)
(* the bar, of bars of the frame, as long as its declared history or all   *)
(* there is.                                                               *)
ServedFrom(h, a, i, n) ==
  /\ h \in Histories /\ Len(h) \in Nat \ {0}
  /\ Len(h) = Age(a, i) \/ (Len(h) >= n /\ Age(a, i) >= n)
  /\ \A k \in 1..Len(h) : \E j \in 1..i : h[k] = a[j]

Buffers ==
  /\ frame \in Deliveries
  /\ \A i \in DOMAIN frame : frame[i].kind \in KindsOf(feature)
  /\ IsColumn(served, Len(frame))
  /\ \A i \in DOMAIN frame : \E h :
       /\ ServedFrom(h, frame, i, feature.min_history)
       /\ served[i] = Batch(feature, h)[Len(h)]

BufferInv == served_as \in DOMAIN Catalog /\ (Columnar(feature) => Buffers)

(* Nothing delivered, nothing served: BufferInv holds. *)
LEMMA InitBuffers == Init => BufferInv
<1> SUFFICES ASSUME Init PROVE BufferInv
  OBVIOUS
<1>1. served_as \in DOMAIN Catalog /\ frame = << >> /\ served = << >>
  BY DEF Init
<1>2. << >> \in Frames /\ DOMAIN << >> = {} /\ Len(<< >>) = 0
  BY DEF Frames
<1>3. frame \in Deliveries /\ DOMAIN frame = {}
  BY <1>1, <1>2 DEF Deliveries
<1>4. IsColumn(served, Len(frame))
  <2>1. << >> \in [1..0 -> {}] /\ {<< >>[i] : i \in 1..0} = {}
    OBVIOUS
  <2> QED BY <2>1, <1>1, <1>2 DEF IsColumn
<1> QED BY <1>1, <1>3, <1>4 DEF BufferInv, Buffers

(* The buffer of a bar is such a history. *)
LEMMA BufferIsServed ==
  ASSUME NEW a \in Feeds, NEW N \in DOMAIN a, N = Len(a), NEW b, b.sym = a[N].sym,
         NEW n \in Nat \ {0}
  PROVE  ServedFrom(Buffered(a, <<b>>, n), a, N, n)
<1> PICK h : h = Buffered(a, <<b>>, n)
  OBVIOUS
<1> PICK k, q : k = Age(a, N) /\ q = Own(a, N)
  OBVIOUS
<1>1. h \in Histories /\ Len(h) \in Nat \ {0} /\ Alike(h, Len(h), q, k, n)
  BY BufferIsTail
<1>2. Len(h) = k \/ (Len(h) >= n /\ k >= n)
  BY <1>1 DEF Alike
<1>3. ASSUME NEW m \in 1..Len(h) PROVE \E j \in 1..N : h[m] = a[j]
  <2> PICK K : K = Kept(a, <<b>>, n)
    OBVIOUS
  <2>1. a \in Frames /\ K \in SUBSET DOMAIN a /\ h = Picked(a, K) /\ DOMAIN a = 1..N
    BY DEF Feeds, Frames, Kept, Buffered
  <2>2. /\ Len(h) = Cardinality(K)
        /\ \A l \in 1..Cardinality(K) : \E i \in K : Place(K, i) = l - 1 /\ h[l] = a[i]
    BY ONLY <2>1, PickedRows
  <2>3. PICK i \in K : h[m] = a[i]
    BY <2>2
  <2> QED BY <2>1, <2>3
<1> QED BY <1>1, <1>2, <1>3 DEF ServedFrom

(* A bar more changes no such history. *)
LEMMA ServedFromGrows ==
  ASSUME NEW a \in Feeds, NEW b \in Bars, a \o <<b>> \in Feeds, NEW i \in DOMAIN a,
         NEW n \in Nat, NEW h, ServedFrom(h, a, i, n)
  PROVE  ServedFrom(h, a \o <<b>>, i, n)
<1> PICK c : c = a \o <<b>>
  OBVIOUS
<1>1. a \in Frames /\ DOMAIN a = 1..Len(a) /\ Len(a) \in Nat /\ \A j \in DOMAIN a : c[j] = a[j]
  BY FrameGrows DEF Feeds
<1>2. Age(c, i) = Age(a, i)
  BY OwnGrows
<1>3. \A j \in 1..i : c[j] = a[j]
  BY <1>1
<1> QED BY <1>2, <1>3 DEF ServedFrom

(* A bar that closes is served from its buffer. *)
LEMMA CloseBarBuffers ==
  ASSUME Buffers, served_as \in DOMAIN Catalog, Columnar(feature),
         NEW s \in Symbols, CloseBar(feature, s)
  PROVE  Buffers'
<1>1. PICK kind \in KindsOf(feature) : Serve(feature, <<Bar(kind, frame, s, Len(frame) + 1)>>)
  BY DEF CloseBar
<1> PICK f, N, a, t, n : /\ f = feature /\ N = Len(frame) + 1 /\ a = frame
                         /\ t = Len(frame) + 1 /\ n = feature.min_history
  OBVIOUS
<1>2. a \in Deliveries /\ kind \in Kinds /\ t \in Nat /\ Columnar(f)
      /\ n \in Nat \ {0} /\ n = f.min_history
  <2>1. KindsOf(feature) \subseteq Kinds
    BY KindsAreDelivered DEF feature
  <2>2. a \in Deliveries
    BY DEF Buffers
  <2>3. Len(a) \in Nat
    BY <2>2 DEF Deliveries, Frames
  <2>4. feature.min_history \in Nat \ {0}
    BY DEF Columnar
  <2> QED BY <2>1, <2>2, <2>3, <2>4
<1> PICK b : b = Bar(kind, a, s, t)
  OBVIOUS
<1>3. b \in Bars /\ b.kind = kind /\ b.sym = s /\ a \o <<b>> \in Deliveries
  BY <1>2, ClosedBar
<1> PICK c : c = a \o <<b>>
  OBVIOUS
<1> PICK tail : tail = buffer(f, c, <<b>>)
  OBVIOUS
<1>4. /\ frame' = c /\ served_as' = served_as
      /\ served' = served \o SubSeq(Batch(f, tail), Len(tail) - Len(<<b>>) + 1, Len(tail))
  BY <1>1 DEF Serve
<1>5. /\ a \in Frames /\ c \in Frames /\ a \in Feeds /\ c \in Feeds
      /\ Len(a) \in Nat /\ Len(c) = N /\ N = Len(a) + 1
      /\ DOMAIN a = 1..Len(a) /\ DOMAIN c = 1..N
      /\ c[N] = b /\ \A i \in DOMAIN a : c[i] = a[i]
  <2>1. a \in Frames /\ c \in Frames /\ a \in Feeds /\ c \in Feeds
    BY <1>2, <1>3, DeliveriesAreFeeds
  <2>2. /\ Len(a) \in Nat /\ Len(c) = Len(a) + 1
        /\ DOMAIN a = 1..Len(a) /\ DOMAIN c = 1..(Len(a) + 1)
        /\ c[Len(a) + 1] = b /\ \A i \in DOMAIN a : c[i] = a[i]
    <3>1. c = a \o <<b>> /\ b \in Bars
      BY <1>3
    <3> QED BY ONLY <2>1, <3>1, FrameGrows
  <2>3. N = Len(a) + 1
    OBVIOUS
  <2> QED BY ONLY <2>1, <2>2, <2>3
<1>6. ServedFrom(tail, c, N, n)
  <2>1. N \in DOMAIN c /\ N = Len(c) /\ b.sym = c[N].sym
    BY <1>5
  <2>2. tail = Buffered(c, <<b>>, n)
    BY <1>2 DEF buffer
  <2> QED BY ONLY <1>2, <1>5, <2>1, <2>2, BufferIsServed
<1>7. tail \in Frames /\ Len(tail) \in Nat \ {0} /\ IsColumn(Batch(f, tail), Len(tail))
  <2>1. tail \in Histories /\ Len(tail) \in Nat \ {0}
    BY <1>6 DEF ServedFrom
  <2>2. tail \in Frames
    BY <2>1, HistoryIsFrame
  <2> QED BY <2>1, <2>2, <1>2 DEF Columnar, Batch
<1> PICK v : v = Batch(f, tail)[Len(tail)]
  OBVIOUS
<1>8. served' = served \o <<v>>
  <2>1. Len(<<b>>) = 1
    OBVIOUS
  <2>2. SubSeq(Batch(f, tail), Len(tail) - Len(<<b>>) + 1, Len(tail)) = <<Batch(f,
       tail)[Len(tail)]>>
    BY ONLY <2>1, <1>7, LastOfColumn
  <2> QED BY <2>2, <1>4
<1>9. IsColumn(served', N) /\ served'[N] = v /\ \A i \in 1..Len(a) : served'[i] = served[i]
  <2>1. IsColumn(served, Len(a))
    BY DEF Buffers
  <2> PICK d : d = served'
    OBVIOUS
  <2> PICK m, e : m = Len(a) /\ e = served
    OBVIOUS
  <2>2. IsColumn(d, m + 1) /\ d[m + 1] = v /\ \A i \in 1..m : d[i] = e[i]
    <3>1. m \in Nat /\ IsColumn(e, m) /\ Longer(d, e, v)
      BY <2>1, <1>5, <1>8 DEF Longer
    <3> QED BY ONLY <3>1, ColumnGrows
  <2> QED BY <2>2, <1>5
<1>10. ASSUME NEW i \in DOMAIN c
       PROVE  /\ c[i].kind \in KindsOf(f)
              /\ \E h : ServedFrom(h, c, i, n) /\ served'[i] = Batch(f, h)[Len(h)]
  <2>1. CASE i = N
    <3>1. ServedFrom(tail, c, i, n) /\ served'[i] = Batch(f, tail)[Len(tail)]
      BY <2>1, <1>6, <1>9
    <3> QED BY <3>1, <2>1, <1>3, <1>5
  <2>2. CASE i # N
    <3>1. i \in DOMAIN a /\ c[i] = a[i] /\ served'[i] = served[i]
      BY <2>2, <1>5, <1>9
    <3>2. a[i].kind \in KindsOf(f)
      BY <3>1 DEF Buffers
    <3>3. PICK h : ServedFrom(h, a, i, n) /\ served[i] = Batch(f, h)[Len(h)]
      BY <3>1 DEF Buffers
    <3>4. ServedFrom(h, c, i, n)
      <4>1. a \in Feeds /\ b \in Bars /\ a \o <<b>> \in Feeds /\ n \in Nat /\ c = a \o <<b>>
        BY <1>2, <1>3, <1>5
      <4> QED BY ONLY <4>1, <3>1, <3>3, ServedFromGrows
    <3> QED BY <3>1, <3>2, <3>3, <3>4
  <2> QED BY <2>1, <2>2
<1>11. feature' = f /\ feature'.min_history = n
  BY <1>2, <1>4 DEF feature
<1>12. /\ frame' \in Deliveries /\ IsColumn(served', Len(frame'))
       /\ \A i \in DOMAIN frame' :
            /\ frame'[i].kind \in KindsOf(f)
            /\ \E h : ServedFrom(h, frame', i, n) /\ served'[i] = Batch(f, h)[Len(h)]
  <2>1. /\ frame' = c /\ c \in Deliveries /\ Len(c) = N /\ IsColumn(served', N)
        /\ \A i \in DOMAIN c :
             /\ c[i].kind \in KindsOf(f)
             /\ \E h : ServedFrom(h, c, i, n) /\ served'[i] = Batch(f, h)[Len(h)]
    BY <1>3, <1>4, <1>5, <1>9, <1>10
  <2> QED BY ONLY <2>1
<1> QED BY <1>12, <1>11 DEF Buffers

(* And nothing else serves it. *)
LEMMA NextBuffers == BufferInv /\ [Next]_vars => BufferInv'
<1> SUFFICES ASSUME BufferInv, [Next]_vars PROVE BufferInv'
  OBVIOUS
<1>1. served_as \in DOMAIN Catalog /\ (Columnar(feature) => Buffers)
  BY DEF BufferInv
<1>2. ASSUME served_as' = served_as, Columnar(feature) => Buffers' PROVE BufferInv'
  <2>1. feature' = feature /\ served_as' \in DOMAIN Catalog
    BY <1>1, <1>2 DEF feature
  <2> QED BY <2>1, <1>2 DEF BufferInv
<1>3. ASSUME NEW s \in Symbols, CloseBar(feature, s) PROVE BufferInv'
  <2>1. served_as' = served_as
    BY <1>3 DEF CloseBar, Serve
  <2>2. Columnar(feature) => Buffers'
    BY <1>1, <1>3, CloseBarBuffers
  <2> QED BY <2>1, <2>2, <1>2
<1>4. CASE CloseSlice(feature)
  <2>1. served_as' = served_as
    BY <1>4 DEF CloseSlice, Serve
  <2>2. ~ Columnar(feature)
    BY <1>4 DEF CloseSlice, IsCross, Columnar
  <2> QED BY <2>1, <2>2, <1>2
<1>5. CASE UNCHANGED vars
  <2>1. served_as' = served_as /\ frame' = frame /\ served' = served
    BY <1>5 DEF vars
  <2>2. feature' = feature
    BY <2>1 DEF feature
  <2>3. Buffers <=> Buffers'
    BY <2>1, <2>2 DEF Buffers
  <2> QED BY <2>1, <2>3, <1>1, <1>2
<1> QED BY <1>3, <1>4, <1>5 DEF Next, Closing

(* BufferInv holds in every state: whatever the memory of the feature, its  *)
(* value at a bar is the last one over a history that ends there.           *)
LEMMA AlwaysBuffered == Spec => []BufferInv
<1>1. Init => BufferInv
  BY InitBuffers
<1>2. BufferInv /\ [Next]_vars => BufferInv'
  BY NextBuffers
<1> QED BY <1>1, <1>2, PTL DEF Spec

-----------------------------------------------------------------------------
(* A feature burnt in: null in its first rows. *)
Burnt(f) ==
  /\ f.recurrence = "RECURSIVE_DECAY" /\ f.signal = << >> /\ f.min_history \in Nat \ {0}
  /\ \E x : \A bars \in Frames : f.build[bars] = Masked(x, f.min_history)[bars]

(* A burnt-in feature is a column, and null at the end of a history that is *)
(* shorter than its burn-in.                                                *)
LEMMA BurntRows ==
  ASSUME NEW f, Burnt(f)
  PROVE  /\ Columnar(f)
         /\ \A h \in Histories : Len(h) \in Nat \ {0} /\ Len(h) < f.min_history
              => Batch(f, h)[Len(h)] = NaV
<1> PICK n : n = f.min_history
  OBVIOUS
<1>1. PICK x : \A bars \in Frames : f.build[bars] = Masked(x, n)[bars]
  BY DEF Burnt
<1>2. ASSUME NEW a \in Frames PROVE IsColumn(f.build[a], Len(a))
  <2> PICK c : c = f.build[a]
    OBVIOUS
  <2>1. c = [i \in 1..Len(a) |-> IF Age(a, i) < n THEN NaV ELSE x[a][i]]
    BY <1>1, MaskedRows
  <2> QED BY <2>1 DEF IsColumn
<1>3. ASSUME NEW h \in Histories, Len(h) \in Nat \ {0}, Len(h) < n
      PROVE  Batch(f, h)[Len(h)] = NaV
  <2>1. h \in Frames /\ Len(h) \in 1..Len(h)
    BY <1>3, HistoryIsFrame
  <2>2. Age(h, Len(h)) = Len(h)
    BY <2>1, AgeInHistory
  <2>3. Batch(f, h) = [i \in 1..Len(h) |-> IF Age(h, i) < n THEN NaV ELSE x[h][i]]
    BY <1>1, <2>1, MaskedRows DEF Batch
  <2> QED BY <2>1, <2>2, <2>3, <1>3
<1> QED BY <1>2, <1>3 DEF Columnar, Burnt

(* So what is served of it is null before its burn-in: no history of the    *)
(* symbol that ends at such a bar is longer.                                *)
LEMMA BurntIsLate == BufferInv /\ Burnt(feature) => NullBeforeMinHistory
<1> SUFFICES ASSUME BufferInv, Burnt(feature), NEW i \in DOMAIN frame,
                    Age(frame, i) < feature.min_history
             PROVE  IsNull(served[i])
  BY DEF NullBeforeMinHistory
<1> PICK f, n : f = feature /\ n = feature.min_history
  OBVIOUS
<1>1. Buffers
  BY BurntRows DEF BufferInv
<1>2. PICK h : ServedFrom(h, frame, i, n) /\ served[i] = Batch(f, h)[Len(h)]
  BY <1>1 DEF Buffers
<1>3. frame \in Feeds /\ Age(frame, i) \in Int /\ n \in Int
  <2>1. frame \in Feeds
    BY <1>1, DeliveriesAreFeeds DEF Buffers
  <2>2. Age(frame, i) \in 1..Len(Own(frame, i)) /\ Own(frame, i) \in Histories
    BY <2>1, OwnRow
  <2>3. Len(Own(frame, i)) \in Nat
    BY <2>2, HistoryIsFrame
  <2> QED BY <2>1, <2>2, <2>3 DEF Burnt
<1>4. h \in Histories /\ Len(h) \in Nat \ {0} /\ Len(h) < n
  BY <1>2, <1>3 DEF ServedFrom
<1>5. served[i] = NaV
  BY <1>2, <1>4, BurntRows
<1> QED BY <1>5 DEF IsNull, NaV

(* The features of decaying memory. *)
SmoothedOver(span) == {ema(span), ema_dist(span), adx(span), rsi(span), atr(span)}

ConvergenceOf(fast, slow, signal) ==
  {macd(fast, slow), macd_signal(fast, slow, signal), macd_hist(fast, slow, signal)}

SmoothedFeatures == UNION {SmoothedOver(span) : span \in Periods}

DiscountedFeatures == {vol_ewma(alpha) : alpha \in Int \X Periods}

ConvergenceFeatures ==
  UNION {ConvergenceOf(fast, slow, signal) : fast, slow, signal \in Periods}

EwmFeatures == SmoothedFeatures \cup DiscountedFeatures \cup ConvergenceFeatures

(* A feature whose emission is gated at its declared history is burnt in.   *)
LEMMA GatedIsBurnt ==
  ASSUME NEW name, NEW n \in Nat \ {0}, NEW roles, NEW x
  PROVE  Burnt(Decaying(name, n, roles, emit_after(x, n)))
BY DEF Burnt, Decaying, Feature, emit_after

(* The declared history of such a feature is its threshold. *)
LEMMA GatedHistory ==
  ASSUME NEW name, NEW n, NEW roles, NEW x
  PROVE  Decaying(name, n, roles, x).min_history = n
BY DEF Decaying, Feature

(* The decaying features are all gated there.                               *)
LEMMA EwmGated ==
  ASSUME NEW f \in EwmFeatures
  PROVE  \E name, n, roles, x : f = Decaying(name, n, roles, emit_after(x, n))
<1>1. ASSUME NEW span
      PROVE  /\ \E name, n, roles, x : ema(span) = Decaying(name, n, roles, emit_after(x, n))
             /\ \E name, n, roles, x : ema_dist(span) = Decaying(name, n, roles, emit_after(x, n))
             /\ \E name, n, roles, x : adx(span) = Decaying(name, n, roles, emit_after(x, n))
             /\ \E name, n, roles, x : rsi(span) = Decaying(name, n, roles, emit_after(x, n))
             /\ \E name, n, roles, x : atr(span) = Decaying(name, n, roles, emit_after(x, n))
             /\ \E name, n, roles, x : vol_ewma(span) = Decaying(name, n, roles, emit_after(x, n))
  <2>1. \E name, n, roles, x : ema(span) = Decaying(name, n, roles, emit_after(x, n))
    BY DEF ema
  <2>2. \E name, n, roles, x : ema_dist(span) = Decaying(name, n, roles, emit_after(x, n))
    BY DEF ema_dist
  <2>3. \E name, n, roles, x : adx(span) = Decaying(name, n, roles, emit_after(x, n))
    BY DEF adx
  <2>4. \E name, n, roles, x : rsi(span) = Decaying(name, n, roles, emit_after(x, n))
    BY DEF rsi
  <2>5. \E name, n, roles, x : atr(span) = Decaying(name, n, roles, emit_after(x, n))
    BY DEF atr
  <2>6. \E name, n, roles, x : vol_ewma(span) = Decaying(name, n, roles, emit_after(x, n))
    BY DEF vol_ewma
  <2> QED BY <2>1, <2>2, <2>3, <2>4, <2>5, <2>6
<1>2. ASSUME NEW measure, NEW k, NEW y
      PROVE  \E name, n, roles, x : macd_feature(measure, k, y) = Decaying(name, n, roles, emit_after(x, n))
  BY DEF macd_feature
<1>3. ASSUME NEW fast, NEW slow, NEW signal
      PROVE  /\ \E name, n, roles, x : macd(fast, slow) = Decaying(name, n, roles, emit_after(x, n))
             /\ \E name, n, roles, x :
                  macd_signal(fast, slow, signal) = Decaying(name, n, roles, emit_after(x, n))
             /\ \E name, n, roles, x :
                  macd_hist(fast, slow, signal) = Decaying(name, n, roles, emit_after(x, n))
  BY <1>2 DEF macd, macd_signal, macd_hist
<1>4. CASE f \in SmoothedFeatures
  <2>1. PICK span \in Periods : f \in SmoothedOver(span)
    BY <1>4 DEF SmoothedFeatures
  <2>2. f \in {ema(span), ema_dist(span), adx(span), rsi(span), atr(span)}
    BY <2>1 DEF SmoothedOver
  <2> QED BY <2>2, <1>1
<1>5. CASE f \in DiscountedFeatures
  <2>1. PICK alpha \in Int \X Periods : f = vol_ewma(alpha)
    BY <1>5 DEF DiscountedFeatures
  <2> QED BY <2>1, <1>1
<1>6. CASE f \in ConvergenceFeatures
  <2>1. PICK fast \in Periods, slow \in Periods, signal \in Periods :
          f \in ConvergenceOf(fast, slow, signal)
    BY <1>6 DEF ConvergenceFeatures
  <2>2. f \in {macd(fast, slow), macd_signal(fast, slow, signal), macd_hist(fast, slow, signal)}
    BY <2>1 DEF ConvergenceOf
  <2> QED BY <2>2, <1>3
<1> QED BY <1>4, <1>5, <1>6 DEF EwmFeatures

(* So they are burnt in, where the burn-in is a number of bars.             *)
LEMMA EwmBurnt ==
  ASSUME NEW f \in EwmFeatures, f.min_history \in Nat \ {0}
  PROVE  Burnt(f)
<1>1. PICK name, n, roles, x : f = Decaying(name, n, roles, emit_after(x, n))
  BY EwmGated
<1>2. n \in Nat \ {0}
  BY <1>1, GatedHistory
<1> QED BY <1>1, <1>2, GatedIsBurnt

(* A decaying feature is served null before its burn-in, whatever the bars: *)
(* as the buffer of an engine is no longer than emit_after's threshold, no  *)
(* bar of another symbol lets a value out early.  That min_history is a     *)
(* number of bars says that the burn-in exists within MaxWarmup.            *)
THEOREM DecayingIsNullBefore ==
  Spec => [](feature \in EwmFeatures /\ feature.min_history \in Nat \ {0}
               => NullBeforeMinHistory)
<1>1. BufferInv => (feature \in EwmFeatures /\ feature.min_history \in Nat \ {0}
                      => NullBeforeMinHistory)
  BY EwmBurnt, BurntIsLate
<1> QED BY <1>1, AlwaysBuffered, PTL
=============================================================================
