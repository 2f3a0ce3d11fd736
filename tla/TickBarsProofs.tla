--------------------------- MODULE TickBarsProofs ---------------------------
(***************************************************************************)
(* Proofs about the live feed of TickBars, for every set of symbols,       *)
(* specs, prices and sizes, and without the bounds TLC needs; the last is  *)
(* that it implements the log of bars.                                     *)
(***************************************************************************)
EXTENDS TickBars, BarBuilderProofs

-----------------------------------------------------------------------------
(* Types. *)

(* The columns of a new row have their types. *)
LEMMA NextRowType ==
  ASSUME NEW sp \in BarSpec, NEW rs \in Seq(Row), NEW t \in Tick(Symbols)
  PROVE  NextRow(sp, rs, t) \in Row
<1>1. rs # << >> => LastOf(rs) \in Row
  BY DEF LastOf
<1>2. /\ t.sym \in Symbols
      /\ t.ts \in Nat
      /\ t.price \in Nat \ {0}
      /\ t.size \in Nat
      /\ t.side \in Side
  BY DEF Tick
<1>3. NextTickSign(rs, t) \in Side
  <2>1. CASE rs = << >>
    BY <2>1 DEF NextTickSign, Side
  <2>2. CASE rs # << >>
    <3>1. LastOf(rs).price \in Int /\ LastOf(rs).tick_sign \in Side
      BY <1>1, <2>2 DEF Row
    <3>. QED
      BY <1>2, <2>2, <3>1 DEF NextTickSign, Sgn, Side
  <2>. QED
    BY <2>1, <2>2
<1>4. NextPrior(sp, rs) \in Nat
  <2>1. CASE rs = << >>
    BY <2>1 DEF NextPrior
  <2>2. CASE rs # << >>
    <3>1. LastOf(rs).prior \in Nat /\ LastOf(rs).size \in Nat /\ LastOf(rs).price \in Nat
      BY <1>1, <2>2 DEF Row
    <3>2. Weight(sp, LastOf(rs)) \in Nat
      BY <3>1, WeightNat
    <3>. QED
      BY <2>2, <3>1, <3>2 DEF NextPrior
  <2>. QED
    BY <2>1, <2>2
<1>5. NextBucket(sp, rs, t) \in Nat
  <2>1. RawBucket(sp, t.ts, NextPrior(sp, rs)) \in Nat
    BY <1>2, <1>4, RawBucketNat
  <2>2. rs # << >> => LastOf(rs).bucket \in Nat
    BY <1>1 DEF Row
  <2>. QED
    BY <2>1, <2>2 DEF NextBucket
<1>6. SignOf(sp, t, NextTickSign(rs, t)) \in Side
  BY <1>2, <1>3, SignOfSide
<1>. QED
  BY <1>2, <1>3, <1>4, <1>5, <1>6 DEF NextRow, Row

(* The prints of a symbol are ticks of it. *)
LEMMA TicksType ==
  ASSUME NEW s \in Symbols, NEW t \in Ticks(s)
  PROVE  t \in Tick(Symbols) /\ t.sym = s
<1>1. PICK u \in 0..MaxTs, p \in Prints :
        t = [sym |-> s, ts |-> u, price |-> p.price, size |-> p.size, side |-> p.side]
  BY DEF Ticks
<1>2. p \in [price : Nat \ {0}, size : Nat, side : Side]
  BY PrintsAssumption
<1>3. u \in Nat
  BY BoundsAssumption
<1>. QED
  BY <1>1, <1>2, <1>3 DEF Tick

(* Every variable keeps its type: an arriving tick always yields a row of   *)
(* natural running total and bucket and of a sign in -1, 0, 1.              *)
THEOREM TypeCorrect == Spec => []TypeOK
<1>1. Init => TypeOK
  BY DEF Init, TypeOK
<1>2. TypeOK /\ [Next]_vars => TypeOK'
  <2> SUFFICES ASSUME TypeOK, [Next]_vars PROVE TypeOK'
    OBVIOUS
  <2>1. ASSUME NEW s \in Symbols, NEW t \in Ticks(s), Trade(s, t)
        PROVE  TypeOK'
    <3>1. t \in Tick(Symbols)
      BY TicksType
    <3>2. NextRow(spec, rows[s], t) \in Row
      BY <3>1, NextRowType, SpecsAssumption DEF TypeOK
    <3>3. rows' \in [Symbols -> Seq(Row)]
      BY <2>1, <3>2 DEF Trade, TypeOK
    <3>4. frame' \in Seq(Tick(Symbols))
      BY <2>1, <3>1 DEF Trade, TypeOK
    <3>. QED
      BY <2>1, <3>3, <3>4 DEF Trade, TypeOK
  <2>2. CASE UNCHANGED vars
    BY <2>2 DEF vars, TypeOK
  <2>. QED
    BY <2>1, <2>2 DEF Next
<1>. QED
  BY <1>1, <1>2, PTL DEF Spec

-----------------------------------------------------------------------------
(* The inductive invariant. *)

(* One more row keeps a symbol's rows in order and cut where they are due.  *)
LEMMA AppendKeepsOrder ==
  ASSUME NEW sp \in BarSpec, NEW rs \in Seq(Row), NEW t \in Tick(Symbols),
         rs # << >> => LastOf(rs).ts <= t.ts,
         InTimeOrder(rs), CutWhereDue(sp, rs)
  PROVE  LET rs2 == Append(rs, NextRow(sp, rs, t))
         IN  InTimeOrder(rs2) /\ CutWhereDue(sp, rs2)
<1> DEFINE r == NextRow(sp, rs, t)
           n == Len(rs)
           rs2 == Append(rs, r)
           own == RawBucket(sp, r.ts, r.prior)
<1>1. r \in Row
  BY NextRowType
<1>2. r.ts \in Nat /\ r.prior \in Nat /\ r.bucket \in Nat
  BY <1>1 DEF Row
<1>3. /\ r.ts = t.ts
      /\ r.prior = NextPrior(sp, rs)
      /\ r.bucket = NextBucket(sp, rs, t)
  BY DEF NextRow
<1>4. \A i \in DOMAIN rs : /\ rs[i] \in Row
                           /\ rs[i].ts \in Nat
                           /\ rs[i].prior \in Nat
                           /\ rs[i].bucket \in Nat
                           /\ rs[i].size \in Nat
                           /\ rs[i].price \in Nat
  <2> SUFFICES ASSUME NEW i \in DOMAIN rs
               PROVE  /\ rs[i] \in Row
                      /\ rs[i].ts \in Nat
                      /\ rs[i].prior \in Nat
                      /\ rs[i].bucket \in Nat
                      /\ rs[i].size \in Nat
                      /\ rs[i].price \in Nat
    OBVIOUS
  <2>1. rs[i] \in Row
    OBVIOUS
  <2>. QED
    BY <2>1 DEF Row
<1>5. /\ n \in Nat
      /\ DOMAIN rs = 1..n
      /\ rs2 \in Seq(Row)
      /\ DOMAIN rs2 = 1..(n+1)
      /\ rs2[n+1] = r
      /\ \A i \in 1..n : rs2[i] = rs[i]
  BY <1>1
<1>6. own \in Nat
  BY <1>2, RawBucketNat
<1> HIDE DEF r, rs2
<1>7. CASE n = 0
  <2>1. rs = << >>
    BY <1>7
  <2>2. r.bucket = own
    BY <1>3, <2>1 DEF NextBucket
  <2>3. InTimeOrder(rs2)
    BY <1>2, <1>5, <1>7 DEF InTimeOrder
  <2>4. CutWhereDue(sp, rs2)
    BY <1>2, <1>5, <1>6, <1>7, <2>2 DEF CutWhereDue
  <2>. QED
    BY <2>3, <2>4 DEF rs2, r
<1>8. CASE n > 0
  <2>1. rs # << >> /\ LastOf(rs) = rs[n] /\ n \in 1..n
    BY <1>5, <1>8 DEF LastOf
  <2>2. rs[n].ts <= r.ts
    BY <1>3, <2>1
  <2>3. Weight(sp, rs[n]) \in Nat
    BY <1>4, <1>5, <2>1, WeightNat
  <2>4. r.prior = rs[n].prior + Weight(sp, rs[n]) /\ rs[n].prior <= r.prior
    BY <1>3, <1>4, <1>5, <2>1, <2>3 DEF NextPrior
  <2>5. RawBucket(sp, rs[n].ts, rs[n].prior) <= own
    BY <1>2, <1>4, <1>5, <2>1, <2>2, <2>4, RawBucketMonotone
  <2>6. RawBucket(sp, rs[n].ts, rs[n].prior) \in Nat
    BY <1>4, <1>5, <2>1, RawBucketNat
  <2>7. rs[n].bucket <= own
    <3>1. rs[n].bucket <= RawBucket(sp, rs[n].ts, rs[n].prior)
      BY <1>5, <2>1 DEF CutWhereDue
    <3>2. rs[n].bucket \in Nat
      BY <1>4, <1>5, <2>1
    <3> HIDE DEF own
    <3>. QED
      BY <1>6, <2>5, <2>6, <3>1, <3>2
  <2>8. r.bucket = IF rs[n].ts = r.ts THEN rs[n].bucket ELSE own
    BY <1>3, <2>1 DEF NextBucket
  <2>9. rs[n].bucket <= r.bucket /\ r.bucket <= own
    BY <1>4, <1>5, <1>6, <2>1, <2>7, <2>8
  <2>10. \A i \in 1..n : /\ rs[i].ts <= rs[n].ts
                         /\ rs[i].prior <= rs[n].prior
                         /\ rs[i].bucket <= rs[n].bucket
                         /\ rs[i].ts = rs[n].ts => rs[i].bucket = rs[n].bucket
    BY <1>5, <2>1 DEF InTimeOrder
  <2>11. \A i \in 1..n : /\ rs[i].ts <= r.ts
                         /\ rs[i].prior <= r.prior
                         /\ rs[i].bucket <= r.bucket
                         /\ rs[i].ts = r.ts => rs[i].bucket = r.bucket
    <3> SUFFICES ASSUME NEW i \in 1..n
                 PROVE  /\ rs[i].ts <= r.ts
                        /\ rs[i].prior <= r.prior
                        /\ rs[i].bucket <= r.bucket
                        /\ rs[i].ts = r.ts => rs[i].bucket = r.bucket
      OBVIOUS
    <3>1. /\ rs[i].ts \in Nat /\ rs[n].ts \in Nat
          /\ rs[i].prior \in Nat /\ rs[n].prior \in Nat
          /\ rs[i].bucket \in Nat /\ rs[n].bucket \in Nat
      BY <1>4, <1>5, <2>1
    <3>2. /\ rs[i].ts <= rs[n].ts
          /\ rs[i].prior <= rs[n].prior
          /\ rs[i].bucket <= rs[n].bucket
          /\ rs[i].ts = rs[n].ts => rs[i].bucket = rs[n].bucket
      BY <2>10
    <3>3. rs[i].ts <= r.ts
      BY <1>2, <2>2, <3>1, <3>2
    <3>4. rs[i].prior <= r.prior
      BY <1>2, <2>4, <3>1, <3>2
    <3>5. rs[i].bucket <= r.bucket
      BY <1>2, <2>9, <3>1, <3>2
    <3>6. ASSUME rs[i].ts = r.ts PROVE rs[i].bucket = r.bucket
      <4>1. rs[n].ts = r.ts
        BY <1>2, <2>2, <3>1, <3>2, <3>6
      <4>. QED
        BY <2>8, <3>2, <3>6, <4>1
    <3>. QED
      BY <3>3, <3>4, <3>5, <3>6
  <2>12. InTimeOrder(rs2)
    <3> SUFFICES ASSUME NEW i \in 1..(n+1), NEW j \in 1..(n+1)
                 PROVE  /\ i <= j => /\ rs2[i].ts <= rs2[j].ts
                                     /\ rs2[i].prior <= rs2[j].prior
                                     /\ rs2[i].bucket <= rs2[j].bucket
                        /\ rs2[i].ts = rs2[j].ts => rs2[i].bucket = rs2[j].bucket
      BY <1>5 DEF InTimeOrder
    <3>1. CASE i \in 1..n /\ j \in 1..n
      <4>1. rs2[i] = rs[i] /\ rs2[j] = rs[j]
        BY <1>5, <3>1
      <4>. QED
        BY <1>5, <3>1, <4>1 DEF InTimeOrder
    <3>2. CASE i \in 1..n /\ j = n + 1
      <4>1. rs2[i] = rs[i] /\ rs2[j] = r
        BY <1>5, <3>2
      <4>2. /\ rs[i].ts <= r.ts
            /\ rs[i].prior <= r.prior
            /\ rs[i].bucket <= r.bucket
            /\ rs[i].ts = r.ts => rs[i].bucket = r.bucket
        BY <2>11, <3>2
      <4>. QED
        BY <4>1, <4>2
    <3>3. CASE i = n + 1 /\ j \in 1..n
      <4>1. rs2[i] = r /\ rs2[j] = rs[j]
        BY <1>5, <3>3
      <4>2. ~ (i <= j)
        BY <1>5, <3>3
      <4>3. rs[j].ts = r.ts => rs[j].bucket = r.bucket
        BY <2>11, <3>3
      <4>. QED
        BY <4>1, <4>2, <4>3
    <3>4. CASE i = n + 1 /\ j = n + 1
      <4>1. rs2[i] = r /\ rs2[j] = r
        BY <1>5, <3>4
      <4>. QED
        BY <1>2, <4>1
    <3>. QED
      BY <1>5, <3>1, <3>2, <3>3, <3>4
  <2>13. \A i \in 1..n :
           LET mine == RawBucket(sp, rs2[i].ts, rs2[i].prior)
           IN  /\ rs2[i].bucket <= mine
               /\ i > 1 => rs2[i].prior = rs2[i-1].prior + Weight(sp, rs2[i-1])
               /\ i = 1 \/ rs2[i-1].bucket # rs2[i].bucket => rs2[i].bucket = mine
    <3> SUFFICES ASSUME NEW i \in 1..n
                 PROVE  LET mine == RawBucket(sp, rs[i].ts, rs[i].prior)
                        IN  /\ rs[i].bucket <= mine
                            /\ i > 1 => rs2[i].prior = rs2[i-1].prior + Weight(sp, rs2[i-1])
                            /\ i = 1 \/ rs2[i-1].bucket # rs2[i].bucket => rs2[i].bucket = mine
      BY <1>5
    <3>1. i > 1 => i - 1 \in 1..n
      OBVIOUS
    <3>2. rs2[i] = rs[i] /\ (i > 1 => rs2[i-1] = rs[i-1])
      BY <1>5, <3>1
    <3>. QED
      BY <1>5, <3>2 DEF CutWhereDue
  <2>14. /\ rs2[n+1].bucket <= own
         /\ rs2[n+1].prior = rs2[n].prior + Weight(sp, rs2[n])
         /\ rs2[n].bucket # rs2[n+1].bucket => rs2[n+1].bucket = own
    <3>1. rs2[n] = rs[n] /\ rs2[n+1] = r
      BY <1>5, <2>1
    <3>. QED
      BY <2>4, <2>8, <2>9, <3>1
  <2>15. CutWhereDue(sp, rs2)
    <3> SUFFICES ASSUME NEW i \in 1..(n+1)
                 PROVE  LET mine == RawBucket(sp, rs2[i].ts, rs2[i].prior)
                        IN  /\ rs2[i].bucket <= mine
                            /\ i > 1 => rs2[i].prior = rs2[i-1].prior + Weight(sp, rs2[i-1])
                            /\ i = 1 \/ rs2[i-1].bucket # rs2[i].bucket => rs2[i].bucket = mine
      BY <1>5 DEF CutWhereDue
    <3>1. CASE i \in 1..n
      BY <2>13, <3>1
    <3>2. CASE i = n + 1
      <4>1. i - 1 = n /\ i # 1 /\ rs2[i] = r
        BY <1>5, <1>8, <3>2
      <4>. QED
        BY <2>14, <3>2, <4>1
    <3>. QED
      BY <1>5, <3>1, <3>2
  <2>. QED
    BY <2>12, <2>15 DEF rs2, r
<1>. QED
  BY <1>5, <1>7, <1>8

(* The strengthening is inductive: what a tick reads of its symbol's rows   *)
(* (the last one) is all it needs to extend them in order, and the other    *)
(* symbols' rows are left alone.                                            *)
THEOREM Inductive == Spec => []IInv
<1>1. Init => IInv
  <2> SUFFICES ASSUME Init PROVE IInv
    OBVIOUS
  <2>1. \A s \in Symbols : rows[s] = << >>
    BY DEF Init
  <2>2. TypeOK
    BY DEF Init, TypeOK
  <2>3. InTimeOrder(<< >>) /\ CutWhereDue(spec, << >>)
    BY DEF InTimeOrder, CutWhereDue
  <2>. QED
    BY <2>1, <2>2, <2>3 DEF IInv, BucketsFollowTime
<1>2. IInv /\ TypeOK' /\ [Next]_vars => IInv'
  <2> SUFFICES ASSUME IInv, TypeOK', [Next]_vars PROVE IInv'
    OBVIOUS
  <2>1. ASSUME NEW s \in Symbols, NEW t \in Ticks(s), Trade(s, t)
        PROVE  IInv'
    <3>1. spec \in BarSpec /\ spec' = spec
      BY <2>1, SpecsAssumption DEF IInv, TypeOK, Trade
    <3>2. t \in Tick(Symbols)
      BY TicksType
    <3>3. rows[s] \in Seq(Row) /\ InTimeOrder(rows[s]) /\ CutWhereDue(spec, rows[s])
      BY DEF IInv, TypeOK, BucketsFollowTime
    <3>4. rows[s] # << >> => LastOf(rows[s]).ts <= t.ts
      BY <2>1 DEF Trade
    <3> DEFINE more == Append(rows[s], NextRow(spec, rows[s], t))
    <3>5. InTimeOrder(more) /\ CutWhereDue(spec, more)
      BY <3>1, <3>2, <3>3, <3>4, AppendKeepsOrder
    <3> HIDE DEF more
    <3>6. \A u \in Symbols : rows'[u] = IF u = s THEN more ELSE rows[u]
      BY <2>1 DEF Trade, IInv, TypeOK, more
    <3>7. ASSUME NEW u \in Symbols
          PROVE  InTimeOrder(rows'[u]) /\ CutWhereDue(spec', rows'[u])
      <4>1. CASE u = s
        BY <3>1, <3>5, <3>6, <4>1
      <4>2. CASE u # s
        BY <3>1, <3>6, <4>2 DEF IInv, BucketsFollowTime
      <4>. QED
        BY <4>1, <4>2
    <3>. QED
      BY <3>7 DEF IInv, BucketsFollowTime
  <2>2. CASE UNCHANGED vars
    BY <2>2 DEF vars, IInv, TypeOK, BucketsFollowTime
  <2>. QED
    BY <2>1, <2>2 DEF Next
<1>. QED
  BY <1>1, <1>2, TypeCorrect, PTL DEF Spec

(* No two rows of a symbol that share a timestamp are in different buckets, *)
(* and buckets follow time (_atomic_ties).                                  *)
THEOREM TiesStayTogether == Spec => []BucketsFollowTime
<1>1. IInv => BucketsFollowTime
  BY DEF IInv
<1>. QED
  BY <1>1, Inductive, PTL

-----------------------------------------------------------------------------
(* The bars of one symbol. *)

(* The rows of a bar have a first and a last, and the reductions read them. *)
LEMMA EndsOfBar ==
  ASSUME NEW rs \in Seq(Row), NEW b \in Buckets(rs)
  PROVE  LET m == Members(rs, b)
         IN  /\ Min(m) \in m /\ \A i \in m : Min(m) <= i
             /\ Max(m) \in m /\ \A i \in m : i <= Max(m)
             /\ FirstRow(Group(rs, b)) = rs[Min(m)]
             /\ LastRow(Group(rs, b)) = rs[Max(m)]
<1> DEFINE m == Members(rs, b)
<1>1. Len(rs) \in Nat /\ m \subseteq 1..Len(rs) /\ m # {}
  BY DEF Members, Buckets
<1>2. Min(m) \in m /\ \A i \in m : Min(m) <= i
  BY <1>1, MinOfRows
<1>3. Max(m) \in m /\ \A i \in m : i <= Max(m)
  BY <1>1, MaxOfRows
<1>4. DOMAIN Group(rs, b) = m /\ \A i \in m : Group(rs, b)[i] = rs[i]
  BY DEF Group
<1> HIDE DEF m
<1>5. FirstRow(Group(rs, b)) = rs[Min(m)] /\ LastRow(Group(rs, b)) = rs[Max(m)]
  BY <1>2, <1>3, <1>4 DEF FirstRow, LastRow
<1>. QED
  BY <1>2, <1>3, <1>5 DEF m

(* The fields of a row that order it. *)
LEMMA RowFields ==
  ASSUME NEW rs \in Seq(Row)
  PROVE  /\ Len(rs) \in Nat /\ DOMAIN rs = 1..Len(rs)
         /\ \A i \in DOMAIN rs : /\ rs[i].ts \in Nat
                                 /\ rs[i].prior \in Nat
                                 /\ rs[i].bucket \in Nat
                                 /\ rs[i].size \in Nat
                                 /\ rs[i].price \in Nat
<1>1. ASSUME NEW i \in DOMAIN rs
      PROVE  /\ rs[i].ts \in Nat
             /\ rs[i].prior \in Nat
             /\ rs[i].bucket \in Nat
             /\ rs[i].size \in Nat
             /\ rs[i].price \in Nat
  <2>1. rs[i] \in Row
    OBVIOUS
  <2>. QED
    BY <2>1 DEF Row
<1>. QED
  BY <1>1

(* A bar of a later bucket is observed strictly later. *)
LEMMA LaterBucketLaterBar ==
  ASSUME NEW rs \in Seq(Row), InTimeOrder(rs),
         NEW b \in Buckets(rs), NEW c \in Buckets(rs), b < c
  PROVE  /\ ObsTs(Group(rs, b)) < ObsTs(Group(rs, c))
         /\ Max(Members(rs, b)) < Max(Members(rs, c))
<1> DEFINE i == Max(Members(rs, b))
           k == Max(Members(rs, c))
<1>1. /\ i \in Members(rs, b) /\ LastRow(Group(rs, b)) = rs[i]
      /\ k \in Members(rs, c) /\ LastRow(Group(rs, c)) = rs[k]
  BY EndsOfBar
<1> HIDE DEF i, k
<1>2. /\ i \in DOMAIN rs /\ rs[i].bucket = b
      /\ k \in DOMAIN rs /\ rs[k].bucket = c
  BY <1>1 DEF Members
<1>3. /\ i \in Nat /\ k \in Nat /\ b \in Nat /\ c \in Nat
      /\ rs[i].ts \in Nat /\ rs[k].ts \in Nat
  BY <1>2, RowFields
<1>4. /\ k <= i => rs[k].bucket <= rs[i].bucket
      /\ i <= k => rs[i].ts <= rs[k].ts
      /\ rs[i].ts = rs[k].ts => rs[i].bucket = rs[k].bucket
  BY <1>2 DEF InTimeOrder
<1>5. i < k
  BY <1>2, <1>3, <1>4
<1>6. rs[i].ts < rs[k].ts
  BY <1>2, <1>3, <1>4, <1>5
<1>. QED
  BY <1>1, <1>5, <1>6 DEF ObsTs, i, k

(* A bar is closed exactly when its symbol has a later bucket. *)
LEMMA ClosedMeansLater ==
  ASSUME NEW rs \in Seq(Row), InTimeOrder(rs), NEW b \in Buckets(rs)
  PROVE  Closed(rs, b) <=> \E c \in Buckets(rs) : b < c
<1>1. ASSUME NEW c \in Buckets(rs)
      PROVE  ObsTs(Group(rs, b)) < ObsTs(Group(rs, c)) <=> b < c
  <2>1. b \in Nat /\ c \in Nat
    BY RowFields DEF Buckets
  <2>2. ObsTs(Group(rs, b)) \in Nat /\ ObsTs(Group(rs, c)) \in Nat
    <3>1. /\ Max(Members(rs, b)) \in DOMAIN rs
          /\ Max(Members(rs, c)) \in DOMAIN rs
      BY EndsOfBar DEF Members
    <3>2. /\ rs[Max(Members(rs, b))].ts \in Nat
          /\ rs[Max(Members(rs, c))].ts \in Nat
      BY <3>1, RowFields
    <3>. QED
      BY <3>2, EndsOfBar DEF ObsTs
  <2>3. CASE b < c
    BY <2>3, LaterBucketLaterBar
  <2>4. CASE c < b
    <3>1. ObsTs(Group(rs, c)) < ObsTs(Group(rs, b))
      BY <2>4, LaterBucketLaterBar
    <3>. QED
      BY <2>1, <2>2, <2>4, <3>1
  <2>5. CASE b = c
    BY <2>1, <2>2, <2>5
  <2>. QED
    BY <2>1, <2>3, <2>4, <2>5
<1>. QED
  BY <1>1 DEF Closed

(* What build_bars makes is in the strict per-symbol order validate demands.*)
THEOREM BarsAreInOrder == Spec => []BarTimesIncrease
<1>1. IInv => BarTimesIncrease
  BY LaterBucketLaterBar DEF IInv, TypeOK, BucketsFollowTime, BarTimesIncrease
<1>. QED
  BY <1>1, Inductive, PTL

(* Only the last bar of a symbol is marked open (_finalize). *)
THEOREM OneOpenBar == Spec => []OnlyLastBarOpen
<1>1. IInv => OnlyLastBarOpen
  BY ClosedMeansLater DEF IInv, TypeOK, BucketsFollowTime, OnlyLastBarOpen
<1>. QED
  BY <1>1, Inductive, PTL

(* The total before a tick lies in the band of the bucket it gives. *)
LEMMA BandOfBucket ==
  ASSUME NEW p \in Nat, NEW d \in Nat \ {0}, NEW b \in Nat
  PROVE  /\ b = p \div d => b * d <= p /\ p < (b + 1) * d
         /\ b < p \div d => (b + 1) * d <= p
<1> DEFINE q == p \div d
<1>1. q \in Nat /\ d * q <= p /\ p < d * q + d
  BY DivNat
<1> HIDE DEF q
<1>2. b = q => b * d <= p /\ p < (b + 1) * d
  <2>1. (q + 1) * d = d * q + d /\ q * d = d * q
    BY <1>1
  <2>. QED
    BY <1>1, <2>1
<1>3. ASSUME b < q PROVE (b + 1) * d <= p
  <2>1. b + 1 <= q
    BY <1>1, <1>3
  <2>2. (b + 1) * d <= d * q
    BY <1>1, <2>1
  <2>3. (b + 1) * d \in Nat /\ d * q \in Nat
    BY <1>1
  <2>. QED
    BY <1>1, <2>2, <2>3
<1>. QED
  BY <1>2, <1>3 DEF q

(* The first row of a bar is in the bucket its own total gives, and so is   *)
(* the first row of the bar after it.                                       *)
LEMMA BarFillsItsBand ==
  ASSUME NEW sp \in BarSpec, sp.kind # "TIME", NEW rs \in Seq(Row),
         InTimeOrder(rs), CutWhereDue(sp, rs), NEW b \in Buckets(rs)
  PROVE  LET g == Group(rs, b)
         IN  /\ b * sp.knob <= FirstRow(g).prior
             /\ FirstRow(g).prior < (b + 1) * sp.knob
             /\ Closed(rs, b) =>
                  (b + 1) * sp.knob <= LastRow(g).prior + Weight(sp, LastRow(g))
<1> DEFINE m == Members(rs, b)
           i == Min(m)
           j == Max(m)
           g == Group(rs, b)
<1>1. /\ i \in m /\ \A x \in m : i <= x
      /\ j \in m /\ \A x \in m : x <= j
      /\ FirstRow(g) = rs[i] /\ LastRow(g) = rs[j]
  BY EndsOfBar
<1> HIDE DEF i, j
<1>2. sp.knob \in Nat \ {0} /\ b \in Nat
  BY RowFields DEF BarSpec, Buckets
<1>3. \A x \in DOMAIN rs : x \in m <=> rs[x].bucket = b
  BY DEF Members
<1>4. /\ i \in 1..Len(rs) /\ j \in 1..Len(rs) /\ Len(rs) \in Nat
      /\ i \in DOMAIN rs /\ j \in DOMAIN rs
      /\ rs[i].bucket = b /\ rs[j].bucket = b
  BY <1>1, RowFields DEF Members
<1>5. \A x \in DOMAIN rs : RawBucket(sp, rs[x].ts, rs[x].prior) = rs[x].prior \div sp.knob
  BY DEF RawBucket
<1> HIDE DEF m
<1>6. b = rs[i].prior \div sp.knob
  <2>1. i = 1 \/ rs[i-1].bucket # rs[i].bucket
    <3>1. SUFFICES ASSUME i # 1 PROVE rs[i-1].bucket # b
      BY <1>4
    <3>2. i - 1 \in 1..Len(rs) /\ ~ (i <= i - 1)
      BY <1>4, <3>1
    <3>3. i - 1 \in DOMAIN rs
      BY <3>2, RowFields
    <3>. QED
      BY <1>1, <1>3, <3>2, <3>3
  <2>. QED
    BY <1>4, <1>5, <2>1 DEF CutWhereDue
<1>7. rs[i].prior \in Nat
  BY <1>4, RowFields
<1>8. ASSUME Closed(rs, b)
      PROVE  (b + 1) * sp.knob <= rs[j].prior + Weight(sp, rs[j])
  <2>1. PICK c \in Buckets(rs) : b < c
    BY <1>8, ClosedMeansLater
  <2>2. j < Max(Members(rs, c)) /\ Max(Members(rs, c)) \in DOMAIN rs
    <3>1. Max(Members(rs, b)) < Max(Members(rs, c))
      BY <2>1, LaterBucketLaterBar
    <3>2. Max(Members(rs, c)) \in Members(rs, c)
      BY EndsOfBar
    <3>3. Members(rs, c) \subseteq DOMAIN rs
      BY DEF Members
    <3>. QED
      BY <3>1, <3>2, <3>3 DEF j, m
  <2>3. j + 1 \in 1..Len(rs) /\ ~ (j + 1 <= j)
    BY <1>4, <2>2, RowFields
  <2>4. j + 1 \in DOMAIN rs
    BY <2>3, RowFields
  <2>5. rs[j+1].bucket # b
    BY <1>1, <1>3, <2>3, <2>4
  <2>6. /\ j <= j + 1 /\ j + 1 > 1 /\ (j + 1) - 1 = j
    BY <1>4
  <2>7. b < rs[j+1].bucket
    <3>1. rs[j].bucket <= rs[j+1].bucket
      BY <1>4, <2>4, <2>6 DEF InTimeOrder
    <3>2. rs[j+1].bucket \in Nat
      BY <2>4, RowFields
    <3>. QED
      BY <1>2, <1>4, <2>5, <3>1, <3>2
  <2>8. /\ rs[j+1].prior = rs[j].prior + Weight(sp, rs[j])
        /\ rs[j+1].bucket = rs[j+1].prior \div sp.knob
    <3> DEFINE k == j + 1
    <3>1. k \in DOMAIN rs /\ k > 1 /\ k - 1 = j /\ rs[j].bucket # rs[k].bucket
      BY <1>4, <2>4, <2>5, <2>6
    <3> HIDE DEF k
    <3>2. /\ rs[k].prior = rs[k-1].prior + Weight(sp, rs[k-1])
          /\ rs[k].bucket = RawBucket(sp, rs[k].ts, rs[k].prior)
      BY <3>1 DEF CutWhereDue
    <3>3. /\ rs[k].prior = rs[j].prior + Weight(sp, rs[j])
          /\ rs[k].bucket = rs[k].prior \div sp.knob
      BY <1>5, <3>1, <3>2
    <3>. QED
      BY <3>3 DEF k
  <2>9. rs[j+1].prior \in Nat
    BY <2>4, RowFields
  <2>. QED
    BY <1>2, <2>7, <2>8, <2>9, BandOfBucket
<1>9. b * sp.knob <= rs[i].prior /\ rs[i].prior < (b + 1) * sp.knob
  BY <1>2, <1>6, <1>7, BandOfBucket
<1>. QED
  BY <1>1, <1>8, <1>9 DEF g

(* Boundaries are where the kind of bar says, whatever the sizes of the     *)
(* ticks: a tick that crosses several multiples of the knob completes one   *)
(* bar and opens none (_bucket).                                            *)
THEOREM BarsAreCutWhereDue == Spec => []ClosedBarFilledItsBand
<1>1. IInv => ClosedBarFilledItsBand
  <2> SUFFICES ASSUME IInv, spec.kind # "TIME",
                      NEW s \in Symbols, NEW b \in Buckets(rows[s])
               PROVE  LET g == Group(rows[s], b)
                      IN  /\ b * spec.knob <= FirstRow(g).prior
                          /\ FirstRow(g).prior < (b + 1) * spec.knob
                          /\ Closed(rows[s], b) =>
                               (b + 1) * spec.knob
                                 <= LastRow(g).prior + Weight(spec, LastRow(g))
    BY DEF ClosedBarFilledItsBand
  <2>1. spec \in BarSpec /\ rows[s] \in Seq(Row)
    BY SpecsAssumption DEF IInv, TypeOK
  <2>2. InTimeOrder(rows[s]) /\ CutWhereDue(spec, rows[s])
    BY DEF IInv, BucketsFollowTime
  <2>. QED
    BY <2>1, <2>2, BarFillsItsBand
<1>. QED
  BY <1>1, Inductive, PTL

-----------------------------------------------------------------------------
(* Finality. *)

(* A row appended in order leaves every closed bar as it was. *)
LEMMA AppendKeepsClosedBars ==
  ASSUME NEW rs \in Seq(Row), NEW r \in Row, InTimeOrder(rs),
         InTimeOrder(Append(rs, r)), NEW b \in Buckets(rs), Closed(rs, b)
  PROVE  /\ b \in Buckets(Append(rs, r)) /\ Closed(Append(rs, r), b)
         /\ Group(Append(rs, r), b) = Group(rs, b)
<1> DEFINE n == Len(rs)
           more == Append(rs, r)
<1>1. /\ more \in Seq(Row) /\ n \in Nat /\ Len(more) = n + 1
      /\ DOMAIN rs = 1..n /\ DOMAIN more = 1..(n+1)
      /\ \A i \in 1..n : more[i] = rs[i]
      /\ more[n+1] = r
  OBVIOUS
<1> HIDE DEF more
<1>2. PICK c \in Buckets(rs) : b < c
  BY ClosedMeansLater
<1>3. b \in Buckets(more) /\ c \in Buckets(more)
  BY <1>1 DEF Buckets
<1>4. Closed(more, b)
  BY <1>1, <1>2, <1>3, ClosedMeansLater DEF more
<1>5. r.bucket # b
  <2>1. PICK k \in 1..n : rs[k].bucket = c
    BY <1>1 DEF Buckets
  <2>2. k \in DOMAIN more /\ n + 1 \in DOMAIN more /\ k <= n + 1
    BY <1>1, <2>1
  <2>3. more[k].bucket <= more[n+1].bucket
    BY <2>2 DEF InTimeOrder, more
  <2>4. c <= r.bucket
    BY <1>1, <2>1, <2>3
  <2>5. r.bucket \in Nat /\ b \in Nat /\ c \in Nat
    BY RowFields DEF Row, Buckets
  <2>. QED
    BY <1>2, <2>4, <2>5
<1>6. Members(more, b) = Members(rs, b)
  <2>1. ASSUME NEW i
        PROVE  i \in Members(more, b) <=> i \in Members(rs, b)
    <3>1. i \in 1..(n+1) => i \in 1..n \/ i = n + 1
      BY <1>1
    <3>2. i \in 1..n => i \in 1..(n+1)
      BY <1>1
    <3>. QED
      BY <1>1, <1>5, <3>1, <3>2 DEF Members
  <2>. QED
    BY <2>1
<1>7. \A i \in Members(rs, b) : more[i] = rs[i]
  BY <1>1 DEF Members
<1>8. Group(more, b) = Group(rs, b)
  BY <1>6, <1>7 DEF Group
<1>. QED
  BY <1>3, <1>4, <1>8 DEF more

(* No tick that arrives in its symbol's time order takes back or changes a  *)
(* closed bar ("closed bars are final", bars.py).                           *)
THEOREM ClosedBarsStayClosed == Spec => ClosedBarsAreFinal
<1>1. IInv /\ IInv' /\ [Next]_vars =>
        \A s \in Symbols : \A b \in ClosedBuckets(rows[s]) :
           /\ b \in ClosedBuckets(rows'[s])
           /\ Agg(Group(rows'[s], b)) = Agg(Group(rows[s], b))
  <2> SUFFICES ASSUME IInv, IInv', [Next]_vars,
                      NEW s \in Symbols, NEW b \in ClosedBuckets(rows[s])
               PROVE  /\ b \in ClosedBuckets(rows'[s])
                      /\ Agg(Group(rows'[s], b)) = Agg(Group(rows[s], b))
    OBVIOUS
  <2>1. b \in Buckets(rows[s]) /\ Closed(rows[s], b)
    BY DEF ClosedBuckets
  <2>2. CASE rows'[s] = rows[s]
    BY <2>2
  <2>3. ASSUME NEW t \in Ticks(s), Trade(s, t)
        PROVE  /\ b \in ClosedBuckets(rows'[s])
               /\ Agg(Group(rows'[s], b)) = Agg(Group(rows[s], b))
    <3> DEFINE r == NextRow(spec, rows[s], t)
    <3>1. rows[s] \in Seq(Row) /\ InTimeOrder(rows[s]) /\ InTimeOrder(rows'[s])
      BY DEF IInv, TypeOK, BucketsFollowTime
    <3>2. r \in Row
      BY <3>1, TicksType, NextRowType, SpecsAssumption DEF IInv, TypeOK
    <3> HIDE DEF r
    <3>3. rows'[s] = Append(rows[s], r)
      BY <2>3 DEF Trade, IInv, TypeOK, r
    <3>4. /\ b \in Buckets(rows'[s]) /\ Closed(rows'[s], b)
          /\ Group(rows'[s], b) = Group(rows[s], b)
      BY <2>1, <3>1, <3>2, <3>3, AppendKeepsClosedBars
    <3>. QED
      BY <3>4 DEF ClosedBuckets
  <2>4. ASSUME NEW u \in Symbols, u # s, NEW t \in Ticks(u), Trade(u, t)
        PROVE  rows'[s] = rows[s]
    BY <2>4 DEF Trade, IInv, TypeOK
  <2>5. CASE UNCHANGED vars
    BY <2>2, <2>5 DEF vars
  <2>6. CASE Next
    BY <2>2, <2>3, <2>4, <2>6 DEF Next
  <2>. QED
    BY <2>5, <2>6
<1>. QED
  BY <1>1, Inductive, PTL DEF Spec, ClosedBarsAreFinal

-----------------------------------------------------------------------------
(* The log of bars. *)

(* The open bar of a symbol is that of its last row. *)
LEMMA OpenBucketIsLast ==
  ASSUME NEW rs \in Seq(Row), rs # << >>, InTimeOrder(rs)
  PROVE  /\ LastOf(rs).bucket \in Buckets(rs)
         /\ \A b \in Buckets(rs) : b <= LastOf(rs).bucket
         /\ OpenBuckets(rs) = {LastOf(rs).bucket}
<1> PICK n : n = Len(rs)
  OBVIOUS
<1> PICK last : last = LastOf(rs).bucket
  OBVIOUS
<1>1. /\ n \in Nat \ {0} /\ DOMAIN rs = 1..n /\ n \in DOMAIN rs
      /\ last = rs[n].bucket
  BY DEF LastOf
<1>2. last \in Buckets(rs)
  BY <1>1 DEF Buckets
<1>3. Buckets(rs) \subseteq Nat
  BY RowFields DEF Buckets
<1>4. ASSUME NEW b \in Buckets(rs) PROVE b <= last
  <2>1. PICK i \in DOMAIN rs : rs[i].bucket = b
    BY DEF Buckets
  <2>2. i <= n
    BY <1>1
  <2> QED BY <1>1, <2>1, <2>2 DEF InTimeOrder
<1>5. ASSUME NEW b \in Buckets(rs)
      PROVE  Closed(rs, b) <=> b # last
  <2>1. Closed(rs, b) <=> \E c \in Buckets(rs) : b < c
    BY ClosedMeansLater
  <2>2. (\E c \in Buckets(rs) : b < c) => b < last
    <3> SUFFICES ASSUME NEW c \in Buckets(rs), b < c PROVE b < last
      OBVIOUS
    <3>1. c <= last
      BY <1>4
    <3> QED BY <3>1, <1>2, <1>3
  <2>3. b < last <=> b # last
    BY <1>2, <1>3, <1>4
  <2> QED BY <2>1, <2>2, <2>3, <1>2
<1>6. OpenBuckets(rs) = {last}
  BY <1>2, <1>5 DEF OpenBuckets, ClosedBuckets
<1> QED BY <1>2, <1>4, <1>6

(* The closed ones are all the others. *)
LEMMA ClosedBucketsAreTheOthers ==
  ASSUME NEW rs
  PROVE  /\ ClosedBuckets(rs) = Buckets(rs) \ OpenBuckets(rs)
         /\ OpenBuckets(rs) \subseteq Buckets(rs)
BY DEF ClosedBuckets, OpenBuckets

(* One row more leaves the bars of other buckets alone. *)
LEMMA AppendToBucket ==
  ASSUME NEW rs \in Seq(Row), NEW r \in Row
  PROVE  /\ Buckets(Append(rs, r)) = Buckets(rs) \cup {r.bucket}
         /\ \A b : b # r.bucket => Group(Append(rs, r), b) = Group(rs, b)
         /\ Members(Append(rs, r), r.bucket) = Members(rs, r.bucket) \cup {Len(rs) + 1}
         /\ Len(rs) + 1 \notin Members(rs, r.bucket)
<1> PICK n : n = Len(rs)
  OBVIOUS
<1> PICK more : more = Append(rs, r)
  OBVIOUS
<1>1. /\ n \in Nat /\ DOMAIN rs = 1..n /\ DOMAIN more = 1..(n+1)
      /\ \A i \in 1..n : more[i] = rs[i]
      /\ more[n+1] = r
  OBVIOUS
<1>2. 1..(n+1) = 1..n \cup {n+1} /\ n + 1 \notin 1..n
  BY <1>1
<1>3. Buckets(more) = Buckets(rs) \cup {r.bucket}
  BY <1>1, <1>2 DEF Buckets
<1>4. ASSUME NEW b, b # r.bucket
      PROVE  Group(more, b) = Group(rs, b)
  <2>1. Members(more, b) = Members(rs, b)
    BY <1>1, <1>2, <1>4 DEF Members
  <2>2. \A i \in Members(rs, b) : more[i] = rs[i]
    BY <1>1 DEF Members
  <2> QED BY <2>1, <2>2 DEF Group
<1>5. Members(more, r.bucket) = Members(rs, r.bucket) \cup {n + 1}
  BY <1>1, <1>2 DEF Members
<1>6. n + 1 \notin Members(rs, r.bucket)
  BY <1>1, <1>2 DEF Members
<1> QED BY <1>3, <1>4, <1>5, <1>6

(* The columns of a bar that the log speaks of. *)
LEMMA BarColumns ==
  ASSUME NEW g
  PROVE  Agg(g).ts = ObsTs(g) /\ Agg(g).trade_count = TradeCount(g)
BY DEF Agg

(* The bar of the last row is observed at that row's time. *)
LEMMA OpenBarTime ==
  ASSUME NEW rs \in Seq(Row), rs # << >>
  PROVE  ObsTs(Group(rs, LastOf(rs).bucket)) = LastOf(rs).ts
<1> PICK n : n = Len(rs)
  OBVIOUS
<1> PICK m : m = Members(rs, LastOf(rs).bucket)
  OBVIOUS
<1>1. n \in Nat \ {0} /\ DOMAIN rs = 1..n /\ LastOf(rs) = rs[n]
  BY DEF LastOf
<1>2. LastOf(rs).bucket \in Buckets(rs) /\ n \in m /\ m \subseteq 1..n
  BY <1>1 DEF Buckets, Members
<1>3. Max(m) \in m /\ n <= Max(m) /\ LastRow(Group(rs, LastOf(rs).bucket)) = rs[Max(m)]
  BY <1>2, EndsOfBar
<1>4. Max(m) = n
  BY <1>1, <1>2, <1>3
<1> QED BY <1>1, <1>3, <1>4 DEF ObsTs

-----------------------------------------------------------------------------
(* What one tick does to the bars of its symbol. *)

FinalBars(rs) == Values(rs, ClosedBuckets(rs))
OpenBars(rs) == Values(rs, OpenBuckets(rs))

(* The first tick opens a bar. *)
LEMMA FirstRowOpens ==
  ASSUME NEW r \in Row, InTimeOrder(Append(<< >>, r))
  PROVE  /\ FinalBars(<< >>) = {} /\ OpenBars(<< >>) = {}
         /\ FinalBars(Append(<< >>, r)) = {}
         /\ \E b : OpenBars(Append(<< >>, r)) = {b}
<1> PICK none : none = << >>
  OBVIOUS
<1> PICK more : more = Append(none, r)
  OBVIOUS
<1>1. none \in Seq(Row) /\ more \in Seq(Row) /\ more # << >> /\ InTimeOrder(more)
  OBVIOUS
<1>2. Buckets(none) = {}
  BY DEF Buckets
<1>3. Buckets(more) = {r.bucket}
  <2>1. Buckets(Append(none, r)) = Buckets(none) \cup {r.bucket}
    BY <1>1, AppendToBucket
  <2> QED BY <1>2, <2>1
<1>4. OpenBuckets(more) = {LastOf(more).bucket} /\ LastOf(more).bucket \in Buckets(more)
  BY <1>1, OpenBucketIsLast
<1>5. ClosedBuckets(more) = {}
  BY <1>3, <1>4, ClosedBucketsAreTheOthers
<1>6. ClosedBuckets(none) = {} /\ OpenBuckets(none) = {}
  BY <1>2, ClosedBucketsAreTheOthers
<1>7. OpenBars(more) = {Agg(Group(more, LastOf(more).bucket))}
  BY <1>4 DEF OpenBars, Values
<1>8. FinalBars(more) = {} /\ FinalBars(none) = {} /\ OpenBars(none) = {}
  BY <1>5, <1>6 DEF FinalBars, OpenBars, Values
<1> QED BY <1>7, <1>8

(* A tick in the last bucket makes the open bar one trade longer. *)
LEMMA SameBucketGrows ==
  ASSUME NEW rs \in Seq(Row), rs # << >>, NEW r \in Row,
         InTimeOrder(rs), InTimeOrder(Append(rs, r)), r.bucket = LastOf(rs).bucket
  PROVE  /\ FinalBars(Append(rs, r)) = FinalBars(rs)
         /\ \E a, b : /\ OpenBars(rs) = {a} /\ OpenBars(Append(rs, r)) = {b}
                      /\ a.ts <= b.ts /\ b.trade_count = a.trade_count + 1
<1> PICK n : n = Len(rs)
  OBVIOUS
<1> PICK more : more = Append(rs, r)
  OBVIOUS
<1> PICK k : k = r.bucket
  OBVIOUS
<1>1. /\ more \in Seq(Row) /\ more # << >> /\ n \in Nat \ {0}
      /\ LastOf(more) = r /\ LastOf(rs) = rs[n] /\ InTimeOrder(more)
      /\ more[n] = rs[n] /\ more[n + 1] = r /\ n \in DOMAIN more /\ n + 1 \in DOMAIN more
  BY DEF LastOf
<1>2. k \in Buckets(rs) /\ OpenBuckets(rs) = {k}
  BY OpenBucketIsLast
<1>3. OpenBuckets(more) = {k}
  BY <1>1, OpenBucketIsLast
<1>4. /\ Buckets(more) = Buckets(rs) \cup {k}
      /\ \A b : b # k => Group(more, b) = Group(rs, b)
      /\ Members(more, k) = Members(rs, k) \cup {n + 1}
      /\ n + 1 \notin Members(rs, k)
  BY AppendToBucket
<1>5. ClosedBuckets(more) = ClosedBuckets(rs) /\ k \notin ClosedBuckets(rs)
  BY <1>2, <1>3, <1>4, ClosedBucketsAreTheOthers
<1>6. FinalBars(more) = FinalBars(rs)
  <2>1. \A b \in ClosedBuckets(rs) : Agg(Group(more, b)) = Agg(Group(rs, b))
    BY <1>4, <1>5
  <2> QED BY <2>1, <1>5 DEF FinalBars, Values
<1>7. OpenBars(rs) = {Agg(Group(rs, k))} /\ OpenBars(more) = {Agg(Group(more, k))}
  BY <1>2, <1>3 DEF OpenBars, Values
<1>8. Agg(Group(rs, k)).ts <= Agg(Group(more, k)).ts
  <2>1. Agg(Group(rs, k)).ts = rs[n].ts /\ Agg(Group(more, k)).ts = r.ts
    BY <1>1, BarColumns, OpenBarTime
  <2>2. n <= n + 1
    BY <1>1
  <2>3. more[n].ts <= more[n + 1].ts
    BY <1>1, <2>2 DEF InTimeOrder
  <2> QED BY <1>1, <2>1, <2>3
<1>9. Agg(Group(more, k)).trade_count = Agg(Group(rs, k)).trade_count + 1
  <2>1. IsFiniteSet(Members(rs, k))
    <3>1. IsFiniteSet(1..n)
      BY <1>1, FS_Interval
    <3>2. Members(rs, k) \in SUBSET (1..n)
      BY <1>1 DEF Members
    <3> QED BY <3>1, <3>2, FS_Subset
  <2>2. Cardinality(Members(more, k)) = Cardinality(Members(rs, k)) + 1
    <3> PICK m : m = Members(rs, k)
      OBVIOUS
    <3>1. IsFiniteSet(m) /\ Members(more, k) = m \cup {n + 1} /\ n + 1 \notin m
      BY <2>1, <1>4
    <3>2. Cardinality(m \cup {n + 1}) = Cardinality(m) + 1
      BY ONLY <3>1, FS_AddElement
    <3> QED BY <3>1, <3>2
  <2>3. DOMAIN Group(rs, k) = Members(rs, k) /\ DOMAIN Group(more, k) = Members(more, k)
    BY DEF Group
  <2> QED BY <2>2, <2>3, BarColumns DEF TradeCount
<1> QED BY <1>6, <1>7, <1>8, <1>9

(* A tick in a later bucket makes the open bar final, as it was. *)
LEMMA LaterBucketRolls ==
  ASSUME NEW rs \in Seq(Row), rs # << >>, NEW r \in Row,
         InTimeOrder(rs), InTimeOrder(Append(rs, r)), LastOf(rs).bucket < r.bucket
  PROVE  /\ FinalBars(Append(rs, r)) = FinalBars(rs) \cup OpenBars(rs)
         /\ OpenBars(rs) # {}
         /\ \E b : /\ OpenBars(Append(rs, r)) = {b}
                   /\ \A a \in FinalBars(rs) \cup OpenBars(rs) : a.ts < b.ts
<1> PICK more : more = Append(rs, r)
  OBVIOUS
<1> PICK k : k = r.bucket
  OBVIOUS
<1>1. more \in Seq(Row) /\ more # << >> /\ LastOf(more) = r /\ InTimeOrder(more)
  BY DEF LastOf
<1>2. /\ LastOf(rs).bucket \in Buckets(rs) /\ OpenBuckets(rs) = {LastOf(rs).bucket}
      /\ \A b \in Buckets(rs) : b <= LastOf(rs).bucket
  BY OpenBucketIsLast
<1>3. Buckets(rs) \subseteq Nat /\ k \in Nat
  BY RowFields DEF Buckets, Row
<1>4. \A b \in Buckets(rs) : b < k
  BY <1>2, <1>3
<1>5. OpenBuckets(more) = {k}
  BY <1>1, OpenBucketIsLast
<1>6. /\ Buckets(more) = Buckets(rs) \cup {k}
      /\ \A b : b # k => Group(more, b) = Group(rs, b)
  BY AppendToBucket
<1>7. ClosedBuckets(more) = Buckets(rs)
  <2>1. \A b \in Buckets(rs) : b # k
    BY <1>3, <1>4
  <2>2. ClosedBuckets(more) = Buckets(more) \ {k}
    BY <1>5, ClosedBucketsAreTheOthers
  <2> QED BY <2>1, <2>2, <1>6
<1>8. \A b \in Buckets(rs) : Agg(Group(more, b)) = Agg(Group(rs, b))
  BY <1>3, <1>4, <1>6
<1>9. FinalBars(rs) \cup OpenBars(rs) = {Agg(Group(rs, b)) : b \in Buckets(rs)}
  BY ClosedBucketsAreTheOthers DEF FinalBars, OpenBars, Values
<1>10. FinalBars(more) = {Agg(Group(rs, b)) : b \in Buckets(rs)}
  BY <1>7, <1>8 DEF FinalBars, Values
<1>11. OpenBars(more) = {Agg(Group(more, k))} /\ OpenBars(rs) # {}
  BY <1>2, <1>5 DEF OpenBars, Values
<1>12. ASSUME NEW b \in Buckets(rs)
       PROVE  Agg(Group(rs, b)).ts < Agg(Group(more, k)).ts
  <2>1. ObsTs(Group(more, b)) < ObsTs(Group(more, k))
    BY <1>1, <1>4, <1>6, LaterBucketLaterBar
  <2> QED BY <2>1, <1>8, BarColumns
<1> QED BY <1>9, <1>10, <1>11, <1>12

-----------------------------------------------------------------------------
(* The step of the log that a tick is. *)
LEMMA TradeIsLogStep ==
  ASSUME IInv, IInv', NEW s \in Symbols, NEW t \in Ticks(s), Trade(s, t)
  PROVE  Log!LogNext
<1> PICK rs : rs = rows[s]
  OBVIOUS
<1> PICK r : r = NextRow(spec, rs, t)
  OBVIOUS
<1>1. rs \in Seq(Row) /\ InTimeOrder(rs) /\ InTimeOrder(rows'[s])
  BY DEF IInv, TypeOK, BucketsFollowTime
<1>2. r \in Row
  BY <1>1, TicksType, NextRowType, SpecsAssumption DEF IInv, TypeOK
<1>3. /\ rows'[s] = Append(rs, r)
      /\ \A u \in Symbols : u # s => rows'[u] = rows[u]
  BY DEF Trade, IInv, TypeOK
<1>4. InTimeOrder(Append(rs, r))
  BY <1>1, <1>3
<1> PICK final : final = [u \in Symbols |-> FinalBars(rows[u])]
  OBVIOUS
<1> PICK open : open = [u \in Symbols |-> OpenBars(rows[u])]
  OBVIOUS
<1> PICK final2 : final2 = [u \in Symbols |-> FinalBars(rows'[u])]
  OBVIOUS
<1> PICK open2 : open2 = [u \in Symbols |-> OpenBars(rows'[u])]
  OBVIOUS
<1>5. /\ final[s] = FinalBars(rs) /\ open[s] = OpenBars(rs)
      /\ final2 = [final EXCEPT ![s] = FinalBars(rows'[s])]
      /\ open2 = [open EXCEPT ![s] = OpenBars(rows'[s])]
      /\ open2[s] = OpenBars(rows'[s])
  BY <1>3
<1>6. CASE rs = << >>
  <2>1. /\ FinalBars(rs) = {} /\ OpenBars(rs) = {} /\ FinalBars(rows'[s]) = {}
    BY <1>1, <1>2, <1>3, <1>6, <1>4, FirstRowOpens
  <2>2. PICK b : OpenBars(rows'[s]) = {b}
    BY <1>1, <1>2, <1>3, <1>6, <1>4, FirstRowOpens
  <2>3. open[s] = {} /\ open2 = [open EXCEPT ![s] = {b}] /\ b \in open2[s] /\ final2 = final
    BY <1>5, <2>1, <2>2
  <2>4. Log!Open(s)
    BY <2>3 DEF Log!Open, FinalBars, OpenBars
  <2> QED BY <2>4 DEF Log!LogNext
<1>7. CASE rs # << >> /\ r.bucket = LastOf(rs).bucket
  <2>a. /\ rs \in Seq(Row) /\ r \in Row /\ rs # << >> /\ r.bucket = LastOf(rs).bucket
        /\ InTimeOrder(rs) /\ InTimeOrder(Append(rs, r))
    BY <1>1, <1>2, <1>4, <1>7
  <2>b. /\ FinalBars(Append(rs, r)) = FinalBars(rs)
        /\ \E a, b : /\ OpenBars(rs) = {a} /\ OpenBars(Append(rs, r)) = {b}
                     /\ a.ts <= b.ts /\ b.trade_count = a.trade_count + 1
    BY ONLY <2>a, SameBucketGrows
  <2>1. /\ FinalBars(rows'[s]) = FinalBars(rs)
        /\ \E a, b : /\ OpenBars(rs) = {a} /\ OpenBars(rows'[s]) = {b}
                     /\ a.ts <= b.ts /\ b.trade_count = a.trade_count + 1
    BY <2>b, <1>3
  <2>2. PICK a, b : /\ OpenBars(rs) = {a} /\ OpenBars(rows'[s]) = {b}
                    /\ a.ts <= b.ts /\ b.trade_count = a.trade_count + 1
    BY <2>1
  <2>3. /\ a \in open[s] /\ open2 = [open EXCEPT ![s] = {b}] /\ b \in open2[s]
        /\ final2 = final
    BY <1>5, <2>1, <2>2
  <2>4. Log!Grow(s)
    BY <2>2, <2>3 DEF Log!Grow, FinalBars, OpenBars
  <2> QED BY <2>4 DEF Log!LogNext
<1>8. CASE rs # << >> /\ LastOf(rs).bucket < r.bucket
  <2>1. /\ FinalBars(rows'[s]) = FinalBars(rs) \cup OpenBars(rs)
        /\ OpenBars(rs) # {}
        /\ \E b : /\ OpenBars(rows'[s]) = {b}
                  /\ \A a \in FinalBars(rs) \cup OpenBars(rs) : a.ts < b.ts
    BY <1>1, <1>2, <1>3, <1>8, <1>4, LaterBucketRolls
  <2>2. PICK b : /\ OpenBars(rows'[s]) = {b}
                 /\ \A a \in FinalBars(rs) \cup OpenBars(rs) : a.ts < b.ts
    BY <2>1
  <2>3. /\ open[s] # {} /\ open2 = [open EXCEPT ![s] = {b}] /\ b \in open2[s]
        /\ final2 = [final EXCEPT ![s] = @ \cup open[s]]
        /\ \A a \in final[s] \cup open[s] : a.ts < b.ts
    BY <1>5, <2>1, <2>2
  <2>4. Log!Roll(s)
    BY <2>3 DEF Log!Roll, FinalBars, OpenBars
  <2> QED BY <2>4 DEF Log!LogNext
<1>9. rs # << >> => LastOf(rs).bucket <= r.bucket
  <2> SUFFICES ASSUME rs # << >> PROVE LastOf(rs).bucket <= r.bucket
    OBVIOUS
  <2> PICK more : more = Append(rs, r)
    OBVIOUS
  <2> PICK n : n = Len(rs)
    OBVIOUS
  <2>1. /\ n \in Nat \ {0} /\ more[n] = rs[n] /\ more[n + 1] = r /\ LastOf(rs) = rs[n]
        /\ n \in DOMAIN more /\ n + 1 \in DOMAIN more /\ n <= n + 1
    BY <1>1, <1>2 DEF LastOf
  <2>2. InTimeOrder(more)
    BY <1>1, <1>3
  <2>3. more[n].bucket <= more[n + 1].bucket
    BY <2>1, <2>2 DEF InTimeOrder
  <2> QED BY <2>1, <2>3
<1>10. rs # << >> => LastOf(rs).bucket \in Nat /\ r.bucket \in Nat
  <2> SUFFICES ASSUME rs # << >> PROVE LastOf(rs).bucket \in Nat /\ r.bucket \in Nat
    OBVIOUS
  <2>1. LastOf(rs) \in Row
    BY <1>1 DEF LastOf
  <2> QED BY <2>1, <1>2 DEF Row
<1> QED BY <1>6, <1>7, <1>8, <1>9, <1>10

(* Bars go into an append-only log of final bars, each exactly as it was    *)
(* last shown while open, in time order: what build_bars, called again      *)
(* after every tick, promises a consumer.                                   *)
THEOREM FeedImplementsBarLog == Spec => ImplementsBarLog
<1>1. Init => Log!LogInit
  <2>1. ASSUME Init PROVE \A s \in Symbols : Buckets(rows[s]) = {}
    BY <2>1 DEF Init, Buckets
  <2>2. ASSUME Init, NEW s \in Symbols
        PROVE  Values(rows[s], ClosedBuckets(rows[s])) = {}
               /\ Values(rows[s], OpenBuckets(rows[s])) = {}
    BY <2>1, <2>2, ClosedBucketsAreTheOthers DEF Values
  <2> QED BY <2>2 DEF Log!LogInit
<1>2. IInv /\ IInv' /\ [Next]_vars => [Log!LogNext]_(Log!logVars)
  <2> SUFFICES ASSUME IInv, IInv', [Next]_vars PROVE [Log!LogNext]_(Log!logVars)
    OBVIOUS
  <2>1. CASE UNCHANGED vars
    BY <2>1 DEF vars, Log!logVars
  <2>2. CASE Next
    BY <2>2, TradeIsLogStep DEF Next
  <2> QED BY <2>1, <2>2
<1> QED BY <1>1, <1>2, Inductive, PTL DEF Spec, ImplementsBarLog, Log!LogSpec

-----------------------------------------------------------------------------
(* The feed keeps what the whole-frame evaluation computes. *)

(* A sequence of ticks is a frame. *)
LEMMA TicksAreAFrame ==
  ASSUME NEW fr \in Seq(Tick(Symbols))
  PROVE  IsFrame(fr)
<1>1. Len(fr) \in Nat /\ DOMAIN fr = 1..Len(fr) /\ fr \in [1..Len(fr) -> Tick(Symbols)]
  BY SeqDef, LenProperties
<1>2. fr \in [1..Len(fr) -> {fr[i] : i \in 1..Len(fr)}]
  BY <1>1
<1>3. ASSUME NEW i \in 1..Len(fr)
      PROVE  /\ fr[i].sym \in Int /\ fr[i].ts \in Nat
             /\ fr[i].price \in Int /\ fr[i].size \in Int /\ fr[i].side \in Side
  <2> PICK t : t = fr[i]
    OBVIOUS
  <2>1. t \in Tick(Symbols)
    BY <1>1
  <2>2. /\ t.sym \in Symbols /\ t.ts \in Nat /\ t.price \in Nat \ {0}
        /\ t.size \in Nat /\ t.side \in Side
    BY <2>1 DEF Tick
  <2>3. t.sym \in Int
    BY <2>2, SymbolsAssumption
  <2>4. t.price \in Int /\ t.size \in Int
    BY ONLY <2>2
  <2> QED BY ONLY <2>2, <2>3, <2>4, t = fr[i]
<1> QED BY <1>1, <1>2, <1>3 DEF IsFrame

(* Rows are listed in one way only. *)
LEMMA ListingIsUnique ==
  ASSUME NEW fr, IsFrame(fr), NEW S, NEW a, NEW n, ListsPart(fr, a, n, S),
         NEW b, NEW m, ListsPart(fr, b, m, S)
  PROVE  n = m /\ a = b
<1>1. /\ n \in Nat /\ S \in SUBSET DOMAIN fr /\ a \in [1..n -> S]
      /\ \A k, l \in 1..n : a[k] = a[l] => k = l
      /\ \A i \in S : \E k \in 1..n : a[k] = i
      /\ \A k, l \in 1..n : k < l <=> Precedes(fr, a[k], a[l])
  BY DEF ListsPart
<1>2. /\ m \in Nat /\ b \in [1..m -> S]
      /\ \A k, l \in 1..m : b[k] = b[l] => k = l
      /\ \A i \in S : \E k \in 1..m : b[k] = i
      /\ \A k, l \in 1..m : k < l <=> Precedes(fr, b[k], b[l])
  BY DEF ListsPart
<1>3. \A i, j \in S : Precedes(fr, i, j) => ~ Precedes(fr, j, i)
  BY <1>1, PrecedesIsOrder
<1> PICK off : off = {k \in Nat : k \in 1..n /\ k \in 1..m /\ a[k] # b[k]}
  OBVIOUS
<1>4. off = {}
  <2> SUFFICES ASSUME off # {} PROVE FALSE
    OBVIOUS
  <2>1. PICK k \in off : \A x \in off : k <= x
    BY LeastNatural
  <2>2. k \in 1..n /\ k \in 1..m /\ a[k] # b[k] /\ k \in Nat
    OBVIOUS
  <2>3. \A j \in 1..n : j \in 1..m /\ j < k => a[j] = b[j]
    <3>1. \A j \in 1..n : j \in Nat /\ (j \in off => k <= j)
      BY <1>1, <2>1
    <3> QED BY <2>2, <3>1
  <2>4. PICK l \in 1..m : b[l] = a[k]
    BY <1>1, <1>2, <2>2
  <2>5. PICK j \in 1..n : a[j] = b[k]
    BY <1>1, <1>2, <2>2
  <2>6. k < l
    <3>1. l # k
      BY <2>2, <2>4
    <3>2. ~ (l < k)
      <4> SUFFICES ASSUME l < k PROVE FALSE
        OBVIOUS
      <4>1. l \in 1..n
        BY <1>1, <1>2, <2>2, <2>4
      <4>2. a[l] = a[k]
        BY <2>3, <2>4, <4>1
      <4> QED BY <1>1, <2>2, <3>1, <4>1, <4>2
    <3> QED BY <1>2, <2>2, <2>4, <3>1, <3>2
  <2>7. k < j
    <3>1. j # k
      BY <2>2, <2>5
    <3>2. ~ (j < k)
      <4> SUFFICES ASSUME j < k PROVE FALSE
        OBVIOUS
      <4>1. j \in 1..m
        BY <1>1, <1>2, <2>2, <2>5
      <4>2. b[j] = b[k]
        BY <2>3, <2>5, <4>1
      <4> QED BY <1>2, <2>2, <3>1, <4>1, <4>2
    <3> QED BY <1>1, <2>2, <2>5, <3>1, <3>2
  <2>8. Precedes(fr, a[k], b[k])
    BY <1>1, <2>2, <2>5, <2>7
  <2>9. Precedes(fr, b[k], a[k])
    BY <1>2, <2>2, <2>4, <2>6
  <2>10. a[k] \in S /\ b[k] \in S
    BY <1>1, <1>2, <2>2
  <2> QED BY <1>3, <2>8, <2>9, <2>10
<1>5. \A k \in 1..n : k \in 1..m => a[k] = b[k]
  BY <1>1, <1>4
<1>6. ~ (n < m)
  <2> SUFFICES ASSUME n < m PROVE FALSE
    OBVIOUS
  <2>1. m \in 1..m /\ m \notin 1..n
    BY <1>1, <1>2
  <2>2. PICK k \in 1..n : a[k] = b[m]
    BY <1>1, <1>2, <2>1
  <2>3. k \in 1..m /\ k # m
    BY <1>1, <1>2, <2>1, <2>2
  <2> QED BY <1>2, <1>5, <2>1, <2>2, <2>3
<1>7. ~ (m < n)
  <2> SUFFICES ASSUME m < n PROVE FALSE
    OBVIOUS
  <2>1. n \in 1..n /\ n \notin 1..m
    BY <1>1, <1>2
  <2>2. PICK k \in 1..m : b[k] = a[n]
    BY <1>1, <1>2, <2>1
  <2>3. k \in 1..n /\ k # n
    BY <1>1, <1>2, <2>1, <2>2
  <2>4. a[k] = a[n]
    BY <1>5, <2>2, <2>3
  <2> QED BY <1>1, <2>1, <2>3, <2>4
<1>8. n = m
  BY <1>1, <1>2, <1>6, <1>7
<1> QED BY <1>1, <1>2, <1>5, <1>8

(* Row x joins symbol s, no earlier than any row of it. *)
Joins(old, new, x, s) ==
  /\ Grows(old, new)
  /\ x \notin DOMAIN old /\ DOMAIN new = DOMAIN old \cup {x}
  /\ new[x].sym = s
  /\ \A i \in Mine(old, s) : new[i].ts <= new[x].ts

(* It stands after all of them, and settles every row there was. *)
LEMMA JoinsLast ==
  ASSUME NEW old, NEW new, NEW x, NEW s, Joins(old, new, x, s)
  PROVE  /\ Mine(new, s) = Mine(old, s) \cup {x} /\ x \notin Mine(old, s)
         /\ UpTo(new, x) = Mine(new, s)
         /\ \A i \in Mine(old, s) : Precedes(new, i, x)
         /\ \A i \in DOMAIN old : Settled(old, new, i)
         /\ \A c : c # s => Mine(new, c) = Mine(old, c)
<1>1. /\ Grows(old, new) /\ x \notin DOMAIN old /\ DOMAIN new = DOMAIN old \cup {x}
      /\ new[x].sym = s /\ \A i \in Mine(old, s) : new[i].ts <= new[x].ts
  BY DEF Joins
<1>2. /\ \A i \in DOMAIN old : old[i] = new[i] /\ i < x
  BY <1>1, OldOrder
<1>3. /\ \A i \in DOMAIN new : i \in Int /\ new[i].ts \in Int /\ new[i].sym \in Int
      /\ \A i \in DOMAIN old : i \in Int
  BY <1>1, FrameRows DEF Grows
<1>4. Mine(new, s) = Mine(old, s) \cup {x} /\ x \notin Mine(old, s)
  BY <1>1, <1>2 DEF Mine
<1>5. \A c : c # s => Mine(new, c) = Mine(old, c)
  BY <1>1, <1>2 DEF Mine
<1>6. ASSUME NEW i \in Mine(old, s) PROVE Precedes(new, i, x)
  <2>1. i \in DOMAIN old /\ i \in DOMAIN new /\ x \in DOMAIN new /\ new[i].sym = new[x].sym
    BY <1>1, <1>2 DEF Mine
  <2>2. new[i].ts <= new[x].ts /\ i < x
    BY <1>1, <1>2, <2>1
  <2>3. new[i].ts \in Int /\ new[x].ts \in Int
    BY <1>3, <2>1
  <2>4. new[i].ts < new[x].ts \/ new[i].ts = new[x].ts
    BY ONLY <2>2, <2>3
  <2> QED BY <2>1, <2>2, <2>4 DEF Precedes
<1>7. UpTo(new, x) = Mine(new, s)
  <2>1. \A i \in Mine(new, s) : i = x \/ Precedes(new, i, x)
    BY <1>4, <1>6
  <2> QED BY <1>1, <2>1 DEF UpTo, Mine
<1>8. ASSUME NEW i \in DOMAIN old PROVE Settled(old, new, i)
  <2>1. \A j \in DOMAIN new \ DOMAIN old : j = x
    BY <1>1
  <2>2. new[x].sym = new[i].sym => i \in Mine(old, s)
    BY <1>1, <1>2 DEF Mine
  <2> QED BY <1>1, <2>1, <2>2 DEF Settled
<1> QED BY <1>4, <1>5, <1>6, <1>7, <1>8

(* The sign kept in the last row is all that the next sign reads. *)
LEMMA NextSignAsArrived ==
  ASSUME NEW old, NEW new, NEW x, NEW s, Joins(old, new, x, s),
         Mine(old, s) # {}, NEW l, IsLatest(old, Mine(old, s), l)
  PROVE  SignAt(new, x) = IF new[x].price = old[l].price THEN SignAt(old, l)
                          ELSE Sgn(new[x].price - old[l].price)
<1> PICK M : M = Mine(old, s)
  OBVIOUS
<1>1. /\ UpTo(new, x) = M \cup {x} /\ x \notin M
      /\ \A i \in M : Precedes(new, i, x)
      /\ \A i \in DOMAIN old : Settled(old, new, i)
  BY JoinsLast
<1>2. Grows(old, new) /\ IsFrame(old) /\ IsFrame(new) /\ M \in SUBSET DOMAIN old
  BY DEF Joins, Grows, Mine
<1>3. /\ \A i \in DOMAIN old : old[i] = new[i]
      /\ DOMAIN old \subseteq DOMAIN new
      /\ Latest(new, M) = Latest(old, M)
  BY <1>2, OldOrder
<1>4. Latest(old, M) = l /\ l \in M
  BY <1>2, EndsAreUnique DEF IsLatest
<1>5. RawSignAt(new, x) = Sgn(new[x].price - old[l].price)
  <2>1. UpTo(new, x) \ {x} = M
    BY <1>1
  <2>2. new[l] = old[l]
    BY <1>2, <1>3, <1>4
  <2> QED BY <1>3, <1>4, <2>1, <2>2 DEF RawSignAt
<1>6. UpTo(new, l) = M
  <2>1. \A i \in M : i = l \/ Precedes(old, i, l)
    BY DEF IsLatest
  <2>2. UpTo(old, l) = M
    <3>1. old[l].sym = s
      BY <1>4 DEF Mine
    <3> QED BY <2>1, <3>1 DEF UpTo, Mine
  <2>3. Settled(old, new, l)
    BY <1>1, <1>2, <1>4
  <2> QED BY <1>2, <2>2, <2>3, SettledReads
<1>7. SignAt(new, l) = SignAt(old, l)
  <2>1. Settled(old, new, l)
    BY <1>1, <1>2, <1>4
  <2>2. RowAt({}, new, l) = RowAt({}, old, l)
    BY <1>2, <2>1, SettledRowsStay
  <2>3. RowAt({}, new, l).tick_sign = SignAt(new, l) /\ RowAt({}, old, l).tick_sign = SignAt(old, l)
    BY DEF RowAt
  <2> QED BY <2>2, <2>3
<1> PICK K : K = {j \in UpTo(new, x) : RawSignAt(new, j) # 0}
  OBVIOUS
<1> PICK L : L = {j \in UpTo(new, l) : RawSignAt(new, j) # 0}
  OBVIOUS
<1>8. /\ SignAt(new, x) = IF K = {} THEN 0 ELSE RawSignAt(new, Latest(new, K))
      /\ SignAt(new, l) = IF L = {} THEN 0 ELSE RawSignAt(new, Latest(new, L))
  BY DEF SignAt
<1>9. new[x].price \in Int /\ old[l].price \in Int /\ x \in DOMAIN new
  <2>1. x \in 1..Len(new) /\ l \in 1..Len(old) /\ x \in DOMAIN new
    BY <1>2, <1>4, FrameRows DEF Joins
  <2> QED BY <1>2, <2>1 DEF IsFrame
<1>10. CASE new[x].price = old[l].price
  <2>1. RawSignAt(new, x) = 0
    <3>1. new[x].price - old[l].price = 0
      BY <1>9, <1>10
    <3> QED BY <1>5, <3>1 DEF Sgn
  <2>2. K = L
    BY <1>1, <1>6, <2>1
  <2> QED BY <1>7, <1>8, <1>10, <2>2
<1>11. CASE new[x].price # old[l].price
  <2>1. RawSignAt(new, x) # 0
    BY <1>5, <1>9, <1>11 DEF Sgn
  <2>2. x \in K /\ K \in SUBSET DOMAIN new
    BY <1>1, <1>2, <1>3, <1>9, <2>1
  <2>3. IsLatest(new, K, x)
    BY <1>1, <2>2 DEF IsLatest
  <2>4. Latest(new, K) = x
    BY <1>2, <2>2, <2>3, EndsAreUnique
  <2> QED BY <1>5, <1>8, <1>11, <2>2, <2>4
<1> QED BY <1>10, <1>11

(* So is the total kept there for the next total. *)
LEMMA NextPriorAsArrived ==
  ASSUME NEW sp \in BarSpec, NEW old, NEW new, NEW x, NEW s, Joins(old, new, x, s),
         NEW l, IsLatest(old, Mine(old, s), l)
  PROVE  PriorAt(sp, new, x) = PriorAt(sp, old, l) + Weight(sp, old[l])
<1> PICK M : M = Mine(old, s)
  OBVIOUS
<1>1. UpTo(new, x) = M \cup {x} /\ x \notin M
  BY JoinsLast
<1>2. Grows(old, new) /\ IsFrame(old) /\ M \in SUBSET DOMAIN old /\ IsFiniteSet(M)
  <2>1. Grows(old, new) /\ IsFrame(old) /\ M \in SUBSET DOMAIN old
    BY DEF Joins, Grows, Mine
  <2>2. IsFiniteSet(DOMAIN old)
    BY <2>1, FrameRows
  <2> QED BY <2>1, <2>2, FS_Subset
<1>3. \A i \in DOMAIN old : old[i] = new[i]
  BY <1>2, OldOrder
<1> PICK w : w = [j \in M |-> Weight(sp, old[j])]
  OBVIOUS
<1>4. w \in [M -> Int] /\ l \in M
  <2>1. \A j \in DOMAIN old : Weight(sp, old[j]) \in Int
    BY <1>2, WeightOfRow
  <2> QED BY <1>2, <2>1 DEF IsLatest
<1>5. Total(w) = w[l] + Total(Part(w, M \ {l}))
  BY ONLY <1>2, <1>4, TotalTakeOut
<1>6. PriorAt(sp, new, x) = Total(w)
  <2>1. UpTo(new, x) \ {x} = M
    BY <1>1
  <2>2. [j \in M |-> Weight(sp, new[j])] = w
    BY <1>2, <1>3
  <2> QED BY <2>1, <2>2 DEF PriorAt
<1>7. PriorAt(sp, old, l) = Total(Part(w, M \ {l}))
  <2>1. UpTo(old, l) = M
    <3>1. \A i \in M : i = l \/ Precedes(old, i, l)
      BY DEF IsLatest
    <3>2. old[l].sym = s
      BY <1>4 DEF Mine
    <3> QED BY <3>1, <3>2 DEF UpTo, Mine
  <2>2. [j \in M \ {l} |-> Weight(sp, old[j])] = Part(w, M \ {l})
    BY DEF Part
  <2> QED BY <2>1, <2>2 DEF PriorAt
<1>8. Total(Part(w, M \ {l})) \in Int /\ w[l] \in Int
  <2> PICK U, p : U = M \ {l} /\ p = Part(w, U)
    OBVIOUS
  <2>1. IsFiniteSet(U) /\ p \in [U -> Int]
    BY <1>2, <1>4, FS_Subset DEF Part
  <2>2. Total(p) \in Int
    BY ONLY <2>1, TotalType
  <2> QED BY <1>4, <2>2
<1>9. w[l] = Weight(sp, old[l])
  BY <1>4
<1> QED BY ONLY <1>5, <1>6, <1>7, <1>8, <1>9

(* And the bucket: that of a tie, or the one the next total gives. *)
LEMMA NextBucketAsArrived ==
  ASSUME NEW sp \in BarSpec, NEW old, NEW new, NEW x, NEW s, Joins(old, new, x, s),
         NEW l, IsLatest(old, Mine(old, s), l)
  PROVE  BucketAt(sp, new, x) =
           IF old[l].ts = new[x].ts THEN BucketAt(sp, old, l)
           ELSE RawBucket(sp, new[x].ts, PriorAt(sp, new, x))
<1> PICK M : M = Mine(old, s)
  OBVIOUS
<1>1. /\ UpTo(new, x) = M \cup {x} /\ x \notin M /\ Mine(new, s) = M \cup {x}
      /\ \A i \in DOMAIN old : Settled(old, new, i)
  BY JoinsLast
<1>2. /\ Grows(old, new) /\ IsFrame(old) /\ IsFrame(new) /\ M \in SUBSET DOMAIN old
      /\ new[x].sym = s /\ x \in DOMAIN new /\ l \in M
  BY DEF Joins, Grows, Mine, IsLatest
<1>3. /\ \A i \in DOMAIN old : old[i] = new[i]
      /\ DOMAIN old \subseteq DOMAIN new
  BY <1>2, OldOrder
<1>4. l \in DOMAIN new /\ new[l] = old[l] /\ new[l].sym = s
  BY <1>2, <1>3 DEF Mine
<1>5. CASE old[l].ts = new[x].ts
  <2>1. Earlier(new, x) = Earlier(new, l)
    BY <1>2, <1>4, <1>5 DEF Earlier
  <2>2. BucketAt(sp, new, x) = BucketAt(sp, new, l)
    BY <1>4, <1>5, <2>1 DEF BucketAt
  <2>3. BucketAt(sp, new, l) = BucketAt(sp, old, l)
    <3>1. Settled(old, new, l)
      BY <1>1, <1>2
    <3> QED BY <1>2, <3>1, SettledRowsStay
  <2> QED BY <1>5, <2>2, <2>3
<1>6. CASE old[l].ts # new[x].ts
  <2>1. \A i \in DOMAIN new : new[i].ts \in Int
    BY <1>2, FrameRows
  <2>2. new[l].ts < new[x].ts
    <3>1. new[l].ts <= new[x].ts
      BY <1>2 DEF Joins
    <3> QED BY <1>2, <1>4, <1>6, <2>1, <3>1
  <2>3. ASSUME NEW i \in M PROVE new[i].ts < new[x].ts
    <3>1. i = l \/ Precedes(old, i, l)
      BY DEF IsLatest
    <3>2. old[i].sym = s /\ new[i] = old[i] /\ i \in DOMAIN new
      BY <1>2, <1>3 DEF Mine
    <3>3. s \in Int
      BY <1>2, FrameRows
    <3>4. new[i].ts <= new[l].ts
      BY <1>4, <2>1, <3>1, <3>2, <3>3 DEF Precedes
    <3> QED BY <1>2, <1>4, <2>1, <2>2, <3>2, <3>4
  <2>4. Earlier(new, x) = M
    <3>1. ~ (new[x].ts < new[x].ts)
      BY <1>2, <2>1
    <3>2. \A i \in DOMAIN new : new[i].sym = s <=> i \in M \/ i = x
      BY <1>1, <1>2 DEF Mine
    <3> QED BY <1>2, <1>3, <2>3, <3>1, <3>2 DEF Earlier
  <2>5. UpTo(new, x) \ {x} = Earlier(new, x)
    BY <1>1, <2>4
  <2> QED BY <1>6, <2>5 DEF BucketAt, PriorAt
<1> QED BY <1>5, <1>6

(* A row computed as its tick arrives is the row of the whole frame. *)
LEMMA NextRowAsArrived ==
  ASSUME NEW sp \in BarSpec, NEW old, NEW new, NEW x, NEW s, Joins(old, new, x, s),
         NEW a, NEW rs, ReadsOff(sp, old, s, a, Len(rs), rs), rs = << >> <=> Len(rs) = 0
  PROVE  NextRow(sp, rs, new[x]) = RowAt(sp, new, x)
<1> PICK n, M, t : n = Len(rs) /\ M = Mine(old, s) /\ t = new[x]
  OBVIOUS
<1>1. /\ ListsPart(old, a, n, M) /\ rs = [k \in 1..n |-> RowAt(sp, old, a[k])]
      /\ n \in Nat /\ a \in [1..n -> M] /\ \A i \in M : \E k \in 1..n : a[k] = i
  BY DEF ReadsOff, ListsPart
<1>2. UpTo(new, x) = M \cup {x} /\ Mine(new, s) = M \cup {x} /\ x \notin M
  BY JoinsLast
<1>3. IsFrame(old) /\ IsFrame(new) /\ x \in DOMAIN new
  BY DEF Joins, Grows
<1>4. CASE n = 0
  <2>1. rs = << >> /\ M = {}
    BY <1>1, <1>4
  <2>2. UpTo(new, x) = {x} /\ UpTo(new, x) \ {x} = {}
    BY <1>2, <2>1
  <2>3. RawSignAt(new, x) = 0
    BY <2>2 DEF RawSignAt
  <2>4. SignAt(new, x) = 0
    <3>1. {j \in UpTo(new, x) : RawSignAt(new, j) # 0} = {}
      BY <2>2, <2>3
    <3> QED BY <3>1 DEF SignAt
  <2>5. /\ PriorAt(sp, new, x) = 0
        /\ BucketAt(sp, new, x) = RawBucket(sp, t.ts, 0)
    <3> PICK none : none = [j \in {} |-> Weight(sp, new[j])]
      OBVIOUS
    <3>1. Total(none) = 0
      <4> PICK E : E = {}
        OBVIOUS
      <4>1. IsFiniteSet(E) /\ none \in [E -> Int]
        BY FS_EmptySet
      <4>2. E = {} => Total(none) = 0
        BY ONLY <4>1, TotalType
      <4> QED BY <4>2
    <3>2. Earlier(new, x) = {}
      <4>1. \A j \in DOMAIN new : new[j].sym = new[x].sym => j = x
        <5>1. \A j \in Mine(new, s) : j = x
          BY <1>2, <2>1
        <5> QED BY <5>1 DEF Joins, Mine
      <4>2. new[x].ts \in Int
        BY <1>3, FrameRows
      <4> QED BY <4>1, <4>2 DEF Earlier
    <3>3. [j \in UpTo(new, x) \ {x} |-> Weight(sp, new[j])] = none
      BY <2>2
    <3>4. [j \in Earlier(new, x) |-> Weight(sp, new[j])] = none
      BY <3>2
    <3> QED BY <3>1, <3>3, <3>4 DEF PriorAt, BucketAt
  <2> QED BY <2>1, <2>4, <2>5 DEF NextRow, NextTickSign, NextPrior, NextBucket, RowAt
<1>5. CASE n # 0
  <2>1. rs # << >> /\ n \in 1..n
    BY <1>1, <1>5
  <2> PICK l : l = a[n]
    OBVIOUS
  <2>2. LastOf(rs) = RowAt(sp, old, l) /\ l \in M
    BY <1>1, <2>1 DEF LastOf
  <2>3. IsLatest(old, M, l)
    <3>1. \A k, m \in 1..n : k < m => Precedes(old, a[k], a[m])
      BY <1>1 DEF ListsPart
    <3>2. ASSUME NEW i \in M PROVE i = l \/ Precedes(old, i, l)
      <4>1. PICK k \in 1..n : a[k] = i
        BY <1>1
      <4>2. k = n \/ k < n
        BY <1>1
      <4> QED BY <2>1, <3>1, <4>1, <4>2
    <3> QED BY <2>2, <3>2 DEF IsLatest
  <2> PICK last : last = RowAt(sp, old, l)
    OBVIOUS
  <2>4. /\ last.price = old[l].price /\ last.size = old[l].size /\ last.ts = old[l].ts
        /\ last.tick_sign = SignAt(old, l) /\ last.prior = PriorAt(sp, old, l)
        /\ last.bucket = BucketAt(sp, old, l)
    BY DEF RowAt
  <2>5. NextTickSign(rs, t) = SignAt(new, x)
    <3>1. SignAt(new, x) = IF t.price = old[l].price THEN SignAt(old, l)
                           ELSE Sgn(t.price - old[l].price)
      BY <2>2, <2>3, NextSignAsArrived
    <3> QED BY <2>1, <2>2, <2>4, <3>1 DEF NextTickSign
  <2>6. NextPrior(sp, rs) = PriorAt(sp, new, x)
    <3>1. PriorAt(sp, new, x) = PriorAt(sp, old, l) + Weight(sp, old[l])
      BY <2>3, NextPriorAsArrived
    <3>2. Weight(sp, last) = Weight(sp, old[l])
      BY <2>4 DEF Weight
    <3> QED BY <2>1, <2>2, <2>4, <3>1, <3>2 DEF NextPrior
  <2>7. NextBucket(sp, rs, t) = BucketAt(sp, new, x)
    <3>1. BucketAt(sp, new, x) = IF old[l].ts = t.ts THEN BucketAt(sp, old, l)
                                 ELSE RawBucket(sp, t.ts, PriorAt(sp, new, x))
      BY <2>3, NextBucketAsArrived
    <3> QED BY <2>1, <2>2, <2>4, <2>6, <3>1 DEF NextBucket
  <2> QED BY <2>5, <2>6, <2>7 DEF NextRow, RowAt
<1> QED BY <1>4, <1>5

(* So the rows kept, with that one more, read off the longer frame. *)
LEMMA AppendReadsOff ==
  ASSUME NEW sp \in BarSpec, NEW old, NEW new, NEW x, NEW s, Joins(old, new, x, s),
         NEW rs \in Seq(Row), NEW a, ReadsOff(sp, old, s, a, Len(rs), rs)
  PROVE  \E b : ReadsOff(sp, new, s, b, Len(rs) + 1, Append(rs, NextRow(sp, rs, new[x])))
<1> PICK n, M, W : n = Len(rs) /\ M = Mine(old, s) /\ W = Mine(new, s)
  OBVIOUS
<1> PICK b : b = [k \in 1..(n + 1) |-> IF k = n + 1 THEN x ELSE a[k]]
  OBVIOUS
<1>1. /\ n \in Nat /\ a \in [1..n -> M] /\ M \in SUBSET DOMAIN old
      /\ \A k, l \in 1..n : a[k] = a[l] => k = l
      /\ \A i \in M : \E k \in 1..n : a[k] = i
      /\ \A k, l \in 1..n : k < l <=> Precedes(old, a[k], a[l])
      /\ rs = [k \in 1..n |-> RowAt(sp, old, a[k])]
  BY DEF ReadsOff, ListsPart
<1>2. /\ W = M \cup {x} /\ x \notin M
      /\ \A i \in M : Precedes(new, i, x)
      /\ \A i \in DOMAIN old : Settled(old, new, i)
  BY JoinsLast
<1>3. Grows(old, new) /\ IsFrame(new) /\ W \in SUBSET DOMAIN new /\ x \in DOMAIN new
  BY DEF Joins, Grows, Mine
<1>4. /\ \A i, j \in DOMAIN old : Precedes(new, i, j) <=> Precedes(old, i, j)
      /\ DOMAIN old \subseteq DOMAIN new
  BY <1>3, OldOrder
<1>5. /\ \A i, j \in DOMAIN new : Precedes(new, i, j) => ~ Precedes(new, j, i)
      /\ \A i \in DOMAIN new : ~ Precedes(new, i, i)
  BY <1>3, PrecedesIsOrder
<1>6. \A k \in 1..(n + 1) : k = n + 1 \/ (k \in 1..n /\ k < n + 1)
  BY <1>1
<1>7. \A k \in 1..n : b[k] = a[k] /\ k \in 1..(n + 1) /\ k < n + 1 /\ b[k] \in M
  BY <1>1
<1>8. b[n + 1] = x /\ n + 1 \in 1..(n + 1)
  BY <1>1
<1>9. b \in [1..(n + 1) -> W]
  BY <1>2, <1>6, <1>7, <1>8
<1>10. \A k, l \in 1..(n + 1) : b[k] = b[l] => k = l
  BY <1>1, <1>2, <1>6, <1>7, <1>8
<1>11. \A i \in W : \E k \in 1..(n + 1) : b[k] = i
  BY <1>1, <1>2, <1>7, <1>8
<1>12. ASSUME NEW k \in 1..(n + 1), NEW l \in 1..(n + 1)
       PROVE  k < l <=> Precedes(new, b[k], b[l])
  <2>1. CASE k \in 1..n /\ l \in 1..n
    <3>1. Precedes(new, b[k], b[l]) <=> Precedes(old, a[k], a[l])
      BY <1>1, <1>4, <1>7, <2>1
    <3> QED BY <1>1, <2>1, <3>1
  <2>2. CASE k \in 1..n /\ l = n + 1
    BY <1>2, <1>7, <1>8, <2>2
  <2>3. CASE k = n + 1 /\ l \in 1..n
    <3>1. Precedes(new, b[l], b[k])
      BY <1>2, <1>7, <1>8, <2>3
    <3>2. b[l] \in DOMAIN new /\ b[k] \in DOMAIN new
      BY <1>1, <1>3, <1>4, <1>7, <1>8, <2>3
    <3>3. ~ Precedes(new, b[k], b[l])
      BY <1>5, <3>1, <3>2
    <3>4. ~ (k < l)
      BY <1>1, <2>3
    <3> QED BY <3>3, <3>4
  <2>4. CASE k = n + 1 /\ l = n + 1
    <3>1. ~ Precedes(new, b[k], b[l])
      BY <1>3, <1>5, <1>8, <2>4
    <3>2. ~ (k < l)
      BY <1>1, <2>4
    <3> QED BY <3>1, <3>2
  <2> QED BY <1>6, <2>1, <2>2, <2>3, <2>4
<1>13. ListsPart(new, b, n + 1, W)
  BY <1>1, <1>3, <1>9, <1>10, <1>11, <1>12 DEF ListsPart
<1> PICK r : r = NextRow(sp, rs, new[x])
  OBVIOUS
<1>14. r = RowAt(sp, new, x)
  <2>1. rs = << >> <=> Len(rs) = 0
    BY EmptySeq
  <2> QED BY <2>1, NextRowAsArrived
<1>15. /\ DOMAIN Append(rs, r) = 1..(n + 1) /\ Append(rs, r)[n + 1] = r
       /\ \A k \in 1..n : Append(rs, r)[k] = rs[k]
       /\ Append(rs, r) = [k \in DOMAIN Append(rs, r) |-> Append(rs, r)[k]]
  <2>1. Append(rs, r) = [k \in 1..(n + 1) |-> IF k = n + 1 THEN r ELSE rs[k]]
    OBVIOUS
  <2> QED BY <1>1, <2>1
<1>16. \A k \in 1..(n + 1) : Append(rs, r)[k] = RowAt(sp, new, b[k])
  <2>1. \A k \in 1..n : rs[k] = RowAt(sp, new, b[k])
    <3>1. \A k \in 1..n : RowAt(sp, new, a[k]) = RowAt(sp, old, a[k])
      BY <1>1, <1>2, <1>3, SettledRowsStay
    <3> QED BY <1>1, <1>7, <3>1
  <2> QED BY <1>6, <1>8, <1>14, <1>15, <2>1
<1>17. Append(rs, r) = [k \in 1..(n + 1) |-> RowAt(sp, new, b[k])]
  BY <1>15, <1>16
<1> QED BY <1>13, <1>17 DEF ReadsOff

(* One tick more: the rows kept are still those of the whole frame. *)
LEMMA TradeKeepsTheBatch ==
  ASSUME TypeOK, RowsAreTheBatch, NEW s \in Symbols, NEW t \in Ticks(s), Trade(s, t)
  PROVE  RowsAreTheBatch'
<1>1. /\ spec \in BarSpec /\ frame \in Seq(Tick(Symbols)) /\ rows \in [Symbols -> Seq(Row)]
      /\ t \in Tick(Symbols) /\ t.sym = s
  BY TicksType, SpecsAssumption DEF TypeOK
<1>2. /\ rows[s] # << >> => LastOf(rows[s]).ts <= t.ts
      /\ frame' = Append(frame, t)
      /\ rows' = [rows EXCEPT ![s] = Append(@, NextRow(spec, @, t))]
      /\ spec' = spec
  BY DEF Trade
<1> PICK new, x : new = Append(frame, t) /\ x = Len(frame) + 1
  OBVIOUS
<1>3. /\ new \in Seq(Tick(Symbols)) /\ Len(new) = x /\ Len(frame) \in Nat /\ x \in Nat
      /\ \A i \in 1..Len(frame) : new[i] = frame[i]
      /\ new[x] = t
  BY <1>1, AppendProperties, LenProperties
<1>4. /\ IsFrame(frame) /\ IsFrame(new) /\ Grows(frame, new)
      /\ DOMAIN frame = 1..Len(frame) /\ DOMAIN new = 1..x
  <2>1. IsFrame(frame) /\ IsFrame(new)
    BY <1>1, <1>3, TicksAreAFrame
  <2>2. Len(frame) <= Len(new)
    BY <1>3
  <2>3. DOMAIN frame = 1..Len(frame) /\ DOMAIN new = 1..x
    BY <1>3, <2>1, FrameRows
  <2> QED BY <1>3, <2>1, <2>2, <2>3 DEF Grows
<1>5. x \notin DOMAIN frame /\ DOMAIN new = DOMAIN frame \cup {x}
  BY <1>3, <1>4
<1>6. ASSUME NEW c \in Symbols
      PROVE  \E a : ReadsOff(spec, frame, c, a, Len(rows[c]), rows[c])
  <2>1. rows[c] = SymbolRows(KeyedRows(spec, SortTicks(frame)), c)
    BY DEF RowsAreTheBatch
  <2>2. PICK a, n : ReadsOff(spec, frame, c, a, n, rows[c])
    BY ONLY <1>1, <1>4, <2>1, RowsAsArrived
  <2>3. n \in Nat /\ DOMAIN rows[c] = 1..n
    BY <2>2 DEF ReadsOff, ListsPart
  <2>4. n = Len(rows[c])
    <3>1. rows[c] \in Seq(Row)
      BY <1>1
    <3>2. Len(rows[c]) \in Nat /\ DOMAIN rows[c] = 1..Len(rows[c])
      BY <3>1, LenProperties
    <3> QED BY <2>3, <3>2
  <2> QED BY <2>2, <2>4
<1>7. Joins(frame, new, x, s)
  <2> PICK rs : rs = rows[s]
    OBVIOUS
  <2>1. rs \in Seq(Row)
    BY <1>1
  <2>2. PICK a : ReadsOff(spec, frame, s, a, Len(rs), rs)
    BY <1>6
  <2> PICK n : n = Len(rs)
    OBVIOUS
  <2>3. /\ n \in Nat /\ a \in [1..n -> Mine(frame, s)]
        /\ \A i \in Mine(frame, s) : \E k \in 1..n : a[k] = i
        /\ \A k, l \in 1..n : k < l <=> Precedes(frame, a[k], a[l])
        /\ rs = [k \in 1..n |-> RowAt(spec, frame, a[k])]
    BY <2>2 DEF ReadsOff, ListsPart
  <2>4. ASSUME NEW i \in Mine(frame, s) PROVE new[i].ts <= new[x].ts
    <3>1. PICK k \in 1..n : a[k] = i
      BY <2>3
    <3>2. n \in 1..n /\ rs # << >>
      BY <2>1, <2>3, EmptySeq
    <3> PICK l : l = a[n]
      OBVIOUS
    <3>3. l \in Mine(frame, s) /\ LastOf(rs).ts = frame[l].ts
      BY <2>3, <3>2 DEF LastOf, RowAt
    <3>4. frame[l].ts <= t.ts
      BY <1>2, <3>2, <3>3
    <3>5. i = l \/ Precedes(frame, i, l)
      <4>1. k = n \/ k < n
        BY <2>3
      <4> QED BY <2>3, <3>1, <3>2, <4>1
    <3>6. /\ frame[i].ts \in Int /\ frame[l].ts \in Int /\ t.ts \in Int
          /\ frame[i].sym = frame[l].sym /\ frame[i].sym \in Int
      <4>1. x \in DOMAIN new
        BY <1>5
      <4> QED BY <1>3, <1>4, <3>3, <4>1, FrameRows DEF Mine
    <3>7. frame[i].ts <= frame[l].ts
      BY ONLY <3>5, <3>6 DEF Precedes
    <3>8. new[i] = frame[i]
      BY <1>3, <1>4 DEF Mine
    <3> QED BY <1>3, <3>4, <3>6, <3>7, <3>8
  <2> QED BY <1>1, <1>3, <1>4, <1>5, <2>4 DEF Joins
<1>8. ASSUME NEW c \in Symbols
      PROVE  rows'[c] = SymbolRows(KeyedRows(spec, SortTicks(new)), c)
  <2>1. PICK b, m : ReadsOff(spec, new, c, b, m, rows'[c])
    <3>1. PICK a : ReadsOff(spec, frame, c, a, Len(rows[c]), rows[c])
      BY <1>6
    <3>2. CASE c = s
      <4> PICK rs : rs = rows[s]
        OBVIOUS
      <4>1. rs \in Seq(Row) /\ ReadsOff(spec, frame, s, a, Len(rs), rs)
        BY <1>1, <3>1, <3>2
      <4>2. \E b : ReadsOff(spec, new, s, b, Len(rs) + 1, Append(rs, NextRow(spec, rs, new[x])))
        BY ONLY <1>1, <1>7, <4>1, AppendReadsOff
      <4>3. rows'[c] = Append(rs, NextRow(spec, rs, new[x]))
        BY <1>1, <1>2, <1>3, <3>2
      <4> QED BY <3>2, <4>2, <4>3
    <3>3. CASE c # s
      <4>1. rows'[c] = rows[c]
        BY <1>1, <1>2, <3>3
      <4> PICK n : n = Len(rows[c])
        OBVIOUS
      <4>2. /\ n \in Nat /\ a \in [1..n -> Mine(frame, c)] /\ Mine(frame, c) \in SUBSET DOMAIN frame
            /\ \A k, l \in 1..n : a[k] = a[l] => k = l
            /\ \A i \in Mine(frame, c) : \E k \in 1..n : a[k] = i
            /\ \A k, l \in 1..n : k < l <=> Precedes(frame, a[k], a[l])
            /\ rows[c] = [k \in 1..n |-> RowAt(spec, frame, a[k])]
        BY <3>1 DEF ReadsOff, ListsPart
      <4>3. /\ Mine(new, c) = Mine(frame, c)
            /\ \A i \in DOMAIN frame : Settled(frame, new, i)
        BY <1>7, <3>3, JoinsLast
      <4>4. \A k \in 1..n : RowAt(spec, new, a[k]) = RowAt(spec, frame, a[k])
        BY <1>4, <4>2, <4>3, SettledRowsStay
      <4>5. rows[c] = [k \in 1..n |-> RowAt(spec, new, a[k])]
        BY <4>2, <4>4
      <4>6. \A k, l \in 1..n : k < l <=> Precedes(new, a[k], a[l])
        <5>1. \A i, j \in DOMAIN frame : Precedes(new, i, j) <=> Precedes(frame, i, j)
          BY <1>4, OldOrder
        <5> QED BY <4>2, <5>1
      <4>7. ListsPart(new, a, n, Mine(new, c))
        <5>1. Mine(new, c) \in SUBSET DOMAIN new
          BY DEF Mine
        <5> QED BY <4>2, <4>3, <4>6, <5>1 DEF ListsPart
      <4> QED BY <4>1, <4>5, <4>7 DEF ReadsOff
    <3> QED BY <3>2, <3>3
  <2> PICK q : q = SymbolRows(KeyedRows(spec, SortTicks(new)), c)
    OBVIOUS
  <2>2. PICK a, n : ReadsOff(spec, new, c, a, n, q)
    BY ONLY <1>1, <1>4, q = SymbolRows(KeyedRows(spec, SortTicks(new)), c), RowsAsArrived
  <2>3. n = m /\ a = b
    <3>1. ListsPart(new, a, n, Mine(new, c)) /\ ListsPart(new, b, m, Mine(new, c))
      BY <2>1, <2>2 DEF ReadsOff
    <3> QED BY ONLY <1>4, <3>1, ListingIsUnique
  <2> QED BY <2>1, <2>2, <2>3 DEF ReadsOff
<1> QED BY <1>2, <1>8 DEF RowsAreTheBatch

(* build_bars never looks ahead: of the whole frame it computes the columns *)
(* that were known as each tick arrived, and a symbol's columns never read  *)
(* the rows of another.                                                     *)
THEOREM FeedIsTheBatch == Spec => []RowsAreTheBatch
<1>1. Init => RowsAreTheBatch
  <2> SUFFICES ASSUME Init, NEW s \in Symbols
               PROVE  rows[s] = SymbolRows(KeyedRows(spec, SortTicks(frame)), s)
    BY DEF RowsAreTheBatch
  <2>1. spec \in BarSpec /\ frame = << >> /\ rows[s] = << >> /\ frame \in Seq(Tick(Symbols))
    BY SpecsAssumption DEF Init
  <2>2. IsFrame(frame)
    BY <2>1, TicksAreAFrame
  <2> PICK q : q = SymbolRows(KeyedRows(spec, SortTicks(frame)), s)
    OBVIOUS
  <2>3. PICK a, n : ReadsOff(spec, frame, s, a, n, q)
    BY ONLY <2>1, <2>2, q = SymbolRows(KeyedRows(spec, SortTicks(frame)), s), RowsAsArrived
  <2>4. n \in Nat /\ q = [k \in 1..n |-> RowAt(spec, frame, a[k])] /\ a \in [1..n -> Mine(frame, s)]
    BY <2>3 DEF ReadsOff, ListsPart
  <2>5. Mine(frame, s) = {}
    BY <2>1 DEF Mine
  <2>6. n = 0
    <3>1. n # 0 => n \in 1..n
      BY <2>4
    <3> QED BY <2>4, <2>5, <3>1
  <2> QED BY <2>1, <2>4, <2>6
<1>2. TypeOK /\ RowsAreTheBatch /\ [Next]_vars => RowsAreTheBatch'
  <2> SUFFICES ASSUME TypeOK, RowsAreTheBatch, [Next]_vars PROVE RowsAreTheBatch'
    OBVIOUS
  <2>1. ASSUME NEW s \in Symbols, NEW t \in Ticks(s), Trade(s, t) PROVE RowsAreTheBatch'
    BY <2>1, TradeKeepsTheBatch
  <2>2. CASE UNCHANGED vars
    BY <2>2 DEF vars, RowsAreTheBatch
  <2> QED BY <2>1, <2>2 DEF Next
<1> QED BY <1>1, <1>2, TypeCorrect, PTL DEF Spec
=============================================================================
