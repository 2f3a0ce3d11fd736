--------------------------- MODULE TickFrameProofs ---------------------------
(***************************************************************************)
(* Proofs about whole calls of build_bars on a frame in any order, for     *)
(* every set of symbols, specs, rows and modes, and without bounds: which  *)
(* bars a frame has is read off the frame as it arrived (BarsAsArrived).   *)
(***************************************************************************)
EXTENDS TickFrame, BarBuilderProofs

(* A sequence of raw rows is a frame. *)
LEMMA RawRowsAreAFrame ==
  ASSUME NEW fr \in Seq(RawTick)
  PROVE  IsFrame(fr)
<1>1. Len(fr) \in Nat /\ DOMAIN fr = 1..Len(fr) /\ fr \in [1..Len(fr) -> RawTick]
  BY SeqDef, LenProperties
<1>2. fr \in [1..Len(fr) -> {fr[i] : i \in 1..Len(fr)}]
  BY <1>1
<1>3. ASSUME NEW i \in 1..Len(fr)
      PROVE  /\ fr[i].sym \in Int /\ fr[i].ts \in Nat
             /\ fr[i].price \in Int /\ fr[i].size \in Int /\ fr[i].side \in Side
  <2>1. fr[i] \in RawTick
    BY <1>1
  <2> QED BY <2>1, FrameAssumption DEF RawTick
<1> QED BY <1>1, <1>2, <1>3 DEF IsFrame

(* The inductive invariant: what a caller was answered from is a beginning  *)
(* of the frame as it stands and, under validation, has no row that         *)
(* validate_ticks finds bad (which a row behind a null cell may still be).  *)
IsBeginning(fr, of) ==
  /\ Len(fr) <= Len(of)
  /\ \A i \in 1..Len(fr) : fr[i] = of[i]

FrameInv ==
  /\ TypeOK
  /\ IsBeginning(input, frame)
  /\ mode # "OFF" => ~ BadFrame(input)

(* A frame is a beginning of itself, and stays one when it grows. *)
LEMMA Beginnings ==
  ASSUME NEW fr \in Seq(RawTick), NEW of \in Seq(RawTick)
  PROVE  /\ IsBeginning(fr, fr)
         /\ IsBeginning(fr, of) => \A t \in RawTick : IsBeginning(fr, Append(of, t))
<1>1. Len(fr) \in Nat /\ Len(of) \in Nat
  BY LenProperties
<1>2. IsBeginning(fr, fr)
  BY <1>1 DEF IsBeginning
<1>3. ASSUME IsBeginning(fr, of), NEW t \in RawTick PROVE IsBeginning(fr, Append(of, t))
  <2>1. /\ Len(Append(of, t)) = Len(of) + 1
        /\ \A i \in 1..Len(of) : Append(of, t)[i] = of[i]
    BY AppendProperties
  <2>2. \A i \in 1..Len(fr) : i \in 1..Len(of)
    BY <1>1, <1>3 DEF IsBeginning
  <2> QED BY <1>1, <1>3, <2>1, <2>2 DEF IsBeginning
<1> QED BY <1>2, <1>3

(* The invariant holds throughout. *)
THEOREM FrameInductive == Spec => []FrameInv
<1>1. ASSUME Init PROVE FrameInv
  <2>1. spec \in Specs /\ mode \in Modes(spec)
    BY <1>1 DEF Init
  <2>2. << >> \in Seq(RawTick) /\ Len(<< >>) = 0
    OBVIOUS
  <2>3. TypeOK
    BY <1>1, <2>1, <2>2 DEF Init, TypeOK
  <2>4. IsBeginning(input, frame)
    BY <1>1, <2>2 DEF Init, IsBeginning
  <2>5. ~ BadFrame(input)
    BY <1>1 DEF Init, BadFrame
  <2> QED BY <2>3, <2>4, <2>5 DEF FrameInv
<1>2. ASSUME FrameInv, [Next]_vars PROVE FrameInv'
  <2>1. spec \in Specs /\ mode \in Modes(spec) /\ frame \in Seq(RawTick) /\ input \in Seq(RawTick)
    BY <1>2 DEF FrameInv, TypeOK
  <2>2. ASSUME NEW t \in RawTicks(spec), Arrive(t) PROVE FrameInv'
    <3>1. t \in RawTick
      BY <2>1, FrameAssumption
    <3>2. frame' = Append(frame, t) /\ UNCHANGED <<spec, mode, input, outcome>>
      BY <2>2 DEF Arrive
    <3>3. TypeOK'
      BY <1>2, <3>1, <3>2, AppendProperties DEF FrameInv, TypeOK
    <3>4. IsBeginning(input, frame)'
      BY <1>2, <2>1, <3>1, <3>2, Beginnings DEF FrameInv
    <3> QED BY <1>2, <3>2, <3>3, <3>4 DEF FrameInv
  <2>3. ASSUME NEW lost \in Lost(spec), Build(lost) PROVE FrameInv'
    <3>1. /\ outcome' = Outcome(spec, mode, frame, lost)
          /\ input' = IF outcome' = "bars" THEN frame ELSE input
          /\ UNCHANGED <<spec, mode, frame>>
      BY <2>3 DEF Build
    <3>2. TypeOK'
      <4>1. outcome' \in {"none", "bars", "sabia_error", "polars_error"}
        BY <3>1 DEF Outcome
      <4>2. input' \in Seq(RawTick)
        BY <2>1, <3>1
      <4> QED BY <2>1, <3>1, <4>1, <4>2 DEF TypeOK
    <3>3. CASE outcome' = "bars"
      <4>1. input' = frame /\ frame' = frame
        BY <3>1, <3>3
      <4>2. IsBeginning(frame, frame)
        BY <2>1, Beginnings
      <4>3. mode # "OFF" => ~ BadFrame(frame)
        BY <3>1, <3>3 DEF Outcome, TicksRejected
      <4> QED BY <3>1, <3>2, <4>1, <4>2, <4>3 DEF FrameInv
    <3>4. CASE outcome' # "bars"
      BY <1>2, <3>1, <3>2, <3>4 DEF FrameInv
    <3> QED BY <3>3, <3>4
  <2>4. CASE UNCHANGED vars
    BY <1>2, <2>4 DEF vars, FrameInv, TypeOK, IsBeginning, BadFrame
  <2> QED BY <1>2, <2>2, <2>3, <2>4 DEF Next
<1> QED BY <1>1, <1>2, PTL DEF Spec

(* Every variable keeps its type: rows only ever join the frame, and a call *)
(* ends in one of the ways build_bars can.                                  *)
THEOREM FrameTypeCorrect == Spec => []TypeOK
<1>1. FrameInv => TypeOK
  BY DEF FrameInv
<1> QED BY <1>1, FrameInductive, PTL

-----------------------------------------------------------------------------
(* Conservation. *)

(* The bars of a symbol carry what its rows bring. *)
Conserved(sp, fr, s) ==
  LET rows == RowsOf(sp, fr, s)
  IN  /\ Total([b \in Buckets(rows) |-> Volume(Group(rows, b))])
           = Total([i \in Mine(fr, s) |-> fr[i].size])
      /\ Total([b \in Buckets(rows) |-> TradeCount(Group(rows, b))])
           = Cardinality(Mine(fr, s))

(* The heaps of a symbol hold its trades, each once. *)
LEMMA HeapsHoldAll ==
  ASSUME NEW sp \in BarSpec, NEW fr \in Seq(RawTick), NEW s
  PROVE  Conserved(sp, fr, s)
<1> PICK rows : rows = RowsOf(sp, fr, s)
  OBVIOUS
<1> PICK S : S = Mine(fr, s)
  OBVIOUS
<1> PICK B : B = Buckets(rows)
  OBVIOUS
<1>1. IsFrame(fr)
  BY RawRowsAreAFrame
<1>2. BarsFit(sp, fr, s, rows)
  BY <1>1, BarsAsArrived DEF RowsOf
<1>3. IsFiniteSet(S) /\ S \subseteq DOMAIN fr
  <2>1. S \subseteq DOMAIN fr /\ IsFiniteSet(DOMAIN fr)
    BY <1>1, FrameRows DEF Mine
  <2> QED BY <2>1, FS_Subset
<1> PICK heap : heap = [i \in S |-> BucketAt(sp, fr, i)]
  OBVIOUS
<1>4. heap \in [S -> B] /\ IsFiniteSet(B)
  <2>1. B = {BucketAt(sp, fr, i) : i \in S}
    BY <1>2 DEF BarsFit
  <2>2. heap \in [S -> B] /\ heap \in Surjection(S, B)
    BY <2>1 DEF Surjection
  <2> QED BY <1>3, <2>2, FS_Surjection
<1>5. \A b \in B : {x \in S : heap[x] = b} = Heap(sp, fr, s, b)
  BY DEF Heap
<1>6. ASSUME NEW a \in [S -> Int], NEW c, HeapTotals(c, B, S, a, heap)
      PROVE  Total(c) = Total(a)
  BY ONLY <1>3, <1>4, <1>6, TotalOfHeaps
<1>7. Total([b \in B |-> Volume(Group(rows, b))]) = Total([i \in S |-> fr[i].size])
  <2> PICK a : a = [i \in S |-> fr[i].size]
    OBVIOUS
  <2>1. a \in [S -> Int]
    BY <1>1, <1>3 DEF IsFrame
  <2>2. ASSUME NEW b \in B PROVE Volume(Group(rows, b)) = Total(Part(a, {x \in S : heap[x] = b}))
    <3> PICK H : H = Heap(sp, fr, s, b)
      OBVIOUS
    <3>1. H = {x \in S : heap[x] = b} /\ H \subseteq S
      BY <1>5 DEF Heap
    <3>2. Volume(Group(rows, b)) = Volume(RowsAt(sp, fr, H))
      BY <1>2 DEF BarsFit
    <3>3. Part(a, H) = [i \in H |-> RowAt(sp, fr, i).size]
      BY <3>1 DEF Part, RowAt
    <3>4. Volume(RowsAt(sp, fr, H)) = Total([i \in H |-> RowAt(sp, fr, i).size])
      BY DEF Volume, RowsAt
    <3> QED BY <3>1, <3>2, <3>3, <3>4
  <2>3. [b \in B |-> Volume(Group(rows, b))]
          = [b \in B |-> Total(Part(a, {x \in S : heap[x] = b}))]
    BY <2>2
  <2> QED BY <1>6, <2>1, <2>3 DEF HeapTotals
<1>8. Total([b \in B |-> TradeCount(Group(rows, b))]) = Cardinality(S)
  <2> PICK a : a = [i \in S |-> 1]
    OBVIOUS
  <2>1. a \in [S -> Int] /\ Total(a) = Cardinality(S)
    BY <1>3, TotalCounts
  <2>2. ASSUME NEW b \in B PROVE TradeCount(Group(rows, b)) = Total(Part(a, {x \in S : heap[x] = b}))
    <3> PICK H : H = Heap(sp, fr, s, b)
      OBVIOUS
    <3>1. H = {x \in S : heap[x] = b} /\ H \subseteq S
      BY <1>5 DEF Heap
    <3>2. TradeCount(Group(rows, b)) = Cardinality(H)
      BY <1>2 DEF BarsFit
    <3> PICK p : p = Part(a, H)
      OBVIOUS
    <3>3. p = [i \in H |-> 1]
      BY <3>1 DEF Part
    <3>4. IsFiniteSet(H)
      BY <1>3, <3>1, FS_Subset
    <3>5. Total(p) = Cardinality(H)
      BY ONLY <3>3, <3>4, TotalCounts
    <3> QED BY <3>1, <3>2, <3>5
  <2>3. [b \in B |-> TradeCount(Group(rows, b))]
          = [b \in B |-> Total(Part(a, {x \in S : heap[x] = b}))]
    BY <2>2
  <2> QED BY <1>6, <2>1, <2>3 DEF HeapTotals
<1> QED BY <1>7, <1>8 DEF Conserved

(* No trade is lost and none is counted twice, whatever order the rows      *)
(* arrived in and wherever the bars of build_bars are cut.                  *)
THEOREM EveryTradeIsInABar == Spec => []TradesAreConserved
<1>1. ASSUME FrameInv PROVE TradesAreConserved
  <2>1. spec \in BarSpec /\ input \in Seq(RawTick)
    BY <1>1, FrameAssumption DEF FrameInv, TypeOK
  <2>2. \A s \in Symbols : Mine(input, s) = {i \in DOMAIN input : input[i].sym = s}
    BY DEF Mine
  <2>3. \A s \in Symbols : Conserved(spec, input, s)
    BY <2>1, HeapsHoldAll
  <2> QED BY <2>2, <2>3 DEF TradesAreConserved, Conserved
<1> QED BY <1>1, FrameInductive, PTL

-----------------------------------------------------------------------------
(* The order of ties. *)

Swap(fr, i, j) == [m \in DOMAIN fr |-> IF m = i THEN j ELSE IF m = j THEN i ELSE m]

(* Rows i and j of fr are tied, and fr2 has them exchanged. *)
TiesExchanged(fr, fr2, i, j) ==
  /\ fr \in Seq(RawTick) /\ i \in DOMAIN fr /\ j \in DOMAIN fr /\ i # j
  /\ Tied(fr, i, j) /\ fr2 = Exchange(fr, i, j)

(* The exchange is a frame; it moves no symbol and no time, so that rows    *)
(* precede each other as before.                                            *)
LEMMA ExchangedFrame ==
  ASSUME NEW fr, NEW fr2, NEW i, NEW j, TiesExchanged(fr, fr2, i, j)
  PROVE  /\ fr2 \in Seq(RawTick) /\ IsFrame(fr) /\ IsFrame(fr2)
         /\ DOMAIN fr2 = DOMAIN fr
         /\ \A m \in DOMAIN fr : /\ Swap(fr, i, j)[m] \in DOMAIN fr
                                 /\ fr2[m] = fr[Swap(fr, i, j)[m]]
                                 /\ fr2[m].sym = fr[m].sym /\ fr2[m].ts = fr[m].ts
         /\ \A s : Mine(fr2, s) = Mine(fr, s)
         /\ \A m \in DOMAIN fr : Earlier(fr2, m) = Earlier(fr, m)
<1> USE DEF TiesExchanged
<1>1. fr \in [1..Len(fr) -> RawTick] /\ Len(fr) \in Nat /\ DOMAIN fr = 1..Len(fr)
  BY SeqDef, LenProperties
<1>2. fr2 \in [1..Len(fr) -> RawTick]
  BY <1>1 DEF Exchange
<1>3. fr2 \in Seq(RawTick) /\ DOMAIN fr2 = DOMAIN fr
  BY <1>1, <1>2, SeqDef
<1>4. IsFrame(fr) /\ IsFrame(fr2)
  BY <1>3, RawRowsAreAFrame
<1>5. ASSUME NEW m \in DOMAIN fr
      PROVE  /\ Swap(fr, i, j)[m] \in DOMAIN fr
             /\ fr2[m] = fr[Swap(fr, i, j)[m]]
             /\ fr2[m].sym = fr[m].sym /\ fr2[m].ts = fr[m].ts
  <2>1. Swap(fr, i, j)[m] \in DOMAIN fr /\ fr2[m] = fr[Swap(fr, i, j)[m]]
    BY DEF Swap, Exchange
  <2>2. fr2[m].sym = fr[m].sym /\ fr2[m].ts = fr[m].ts
    BY DEF Exchange, Tied
  <2> QED BY <2>1, <2>2
<1>6. \A s : Mine(fr2, s) = Mine(fr, s)
  BY <1>3, <1>5 DEF Mine
<1>7. \A m \in DOMAIN fr : Earlier(fr2, m) = Earlier(fr, m)
  BY <1>3, <1>5 DEF Earlier
<1> QED BY <1>3, <1>4, <1>5, <1>6, <1>7

(* A sum over rows that are both there, or neither, is not moved.           *)
LEMMA SwappedTotal ==
  ASSUME NEW fr, NEW fr2, NEW i, NEW j, TiesExchanged(fr, fr2, i, j),
         NEW X \in SUBSET DOMAIN fr, i \in X <=> j \in X,
         NEW a \in [X -> Int], NEW c, Renamed(c, X, a, Swap(fr, i, j))
  PROVE  Total(c) = Total(a)
<1> PICK p : p = [m \in X |-> Swap(fr, i, j)[m]]
  OBVIOUS
<1>1. \A m \in X : p[m] = IF m = i THEN j ELSE IF m = j THEN i ELSE m
  BY DEF Swap
<1>2. Pairs(p, X, X)
  <2>1. p \in [X -> X]
    BY <1>1
  <2>2. \A x, y \in X : p[x] = p[y] => x = y
    BY <1>1
  <2>3. \A z \in X : p[p[z]] = z /\ p[z] \in X
    BY <1>1
  <2> QED BY <2>1, <2>2, <2>3 DEF Pairs
<1>3. Renamed(c, X, a, p)
  BY DEF Renamed
<1>4. IsFiniteSet(X)
  <2>1. IsFiniteSet(DOMAIN fr)
    BY ExchangedFrame, FrameRows
  <2> QED BY <2>1, FS_Subset
<1> QED BY ONLY <1>2, <1>3, <1>4, a \in [X -> Int], TotalRenamed

(* Every trade stays in its bucket. *)
LEMMA SwappedBuckets ==
  ASSUME NEW fr, NEW fr2, NEW i, NEW j, TiesExchanged(fr, fr2, i, j), NEW sp \in BarSpec
  PROVE  /\ \A m \in DOMAIN fr : BucketAt(sp, fr2, m) = BucketAt(sp, fr, m)
         /\ BucketAt(sp, fr, i) = BucketAt(sp, fr, j)
         /\ \A s, b : /\ Heap(sp, fr2, s, b) = Heap(sp, fr, s, b)
                      /\ i \in Heap(sp, fr, s, b) <=> j \in Heap(sp, fr, s, b)
<1>1. /\ fr2 \in Seq(RawTick) /\ IsFrame(fr) /\ IsFrame(fr2)
      /\ DOMAIN fr2 = DOMAIN fr
      /\ \A m \in DOMAIN fr : /\ Swap(fr, i, j)[m] \in DOMAIN fr
                              /\ fr2[m] = fr[Swap(fr, i, j)[m]]
                              /\ fr2[m].sym = fr[m].sym /\ fr2[m].ts = fr[m].ts
      /\ \A s : Mine(fr2, s) = Mine(fr, s)
      /\ \A m \in DOMAIN fr : Earlier(fr2, m) = Earlier(fr, m)
  BY ExchangedFrame
<1>2. i \in DOMAIN fr /\ j \in DOMAIN fr /\ fr[i].sym = fr[j].sym /\ fr[i].ts = fr[j].ts
  BY DEF TiesExchanged, Tied
<1>3. ASSUME NEW m \in DOMAIN fr PROVE BucketAt(sp, fr2, m) = BucketAt(sp, fr, m)
  <2> PICK X : X = Earlier(fr, m)
    OBVIOUS
  <2> PICK a : a = [x \in X |-> Weight(sp, fr[x])]
    OBVIOUS
  <2> PICK c : c = [x \in X |-> Weight(sp, fr2[x])]
    OBVIOUS
  <2>1. X \in SUBSET DOMAIN fr /\ (i \in X <=> j \in X)
    BY <1>2 DEF Earlier
  <2>2. a \in [X -> Int]
    BY <1>1, <2>1, WeightOfRow
  <2>3. Renamed(c, X, a, Swap(fr, i, j))
    <3>1. \A x \in X : Swap(fr, i, j)[x] \in X
      BY <2>1 DEF Swap
    <3> QED BY <1>1, <2>1, <3>1 DEF Renamed
  <2>4. Total(c) = Total(a)
    BY ONLY TiesExchanged(fr, fr2, i, j), <2>1, <2>2, <2>3, SwappedTotal
  <2>5. Earlier(fr2, m) = X /\ fr2[m].ts = fr[m].ts
    BY <1>1
  <2> QED BY <2>4, <2>5 DEF BucketAt
<1>4. BucketAt(sp, fr, i) = BucketAt(sp, fr, j)
  <2>1. Earlier(fr, i) = Earlier(fr, j)
    BY <1>2 DEF Earlier
  <2> QED BY <1>2, <2>1 DEF BucketAt
<1>5. \A s : Mine(fr, s) \subseteq DOMAIN fr /\ (i \in Mine(fr, s) <=> j \in Mine(fr, s))
  BY <1>2 DEF Mine
<1>6. ASSUME NEW s, NEW b
      PROVE  /\ Heap(sp, fr2, s, b) = Heap(sp, fr, s, b)
             /\ i \in Heap(sp, fr, s, b) <=> j \in Heap(sp, fr, s, b)
  BY <1>1, <1>3, <1>4, <1>5 DEF Heap
<1> QED BY <1>3, <1>4, <1>6

(* Every bar keeps all but its open, its close and its order flow. *)
LEMMA SwappedBars ==
  ASSUME NEW fr, NEW fr2, NEW i, NEW j, TiesExchanged(fr, fr2, i, j), NEW sp \in BarSpec,
         NEW s, NEW r1, r1 = RowsOf(sp, fr, s), NEW r2, r2 = RowsOf(sp, fr2, s)
  PROVE  /\ Buckets(r1) = Buckets(r2)
         /\ \A b \in Buckets(r1) :
              /\ OrderFree(Agg(Group(r1, b))) = OrderFree(Agg(Group(r2, b)))
              /\ Closed(r1, b) = Closed(r2, b)
<1>1. /\ fr2 \in Seq(RawTick) /\ IsFrame(fr) /\ IsFrame(fr2)
      /\ DOMAIN fr2 = DOMAIN fr
      /\ \A m \in DOMAIN fr : /\ Swap(fr, i, j)[m] \in DOMAIN fr
                              /\ fr2[m] = fr[Swap(fr, i, j)[m]]
                              /\ fr2[m].sym = fr[m].sym /\ fr2[m].ts = fr[m].ts
      /\ Mine(fr2, s) = Mine(fr, s)
  BY ExchangedFrame
<1>2. BarsFit(sp, fr, s, r1) /\ BarsFit(sp, fr2, s, r2)
  BY <1>1, BarsAsArrived DEF RowsOf
<1>3. /\ \A m \in DOMAIN fr : BucketAt(sp, fr2, m) = BucketAt(sp, fr, m)
      /\ \A b : /\ Heap(sp, fr2, s, b) = Heap(sp, fr, s, b)
                /\ i \in Heap(sp, fr, s, b) <=> j \in Heap(sp, fr, s, b)
  BY SwappedBuckets
<1>4. Buckets(r1) = Buckets(r2)
  <2>1. Mine(fr, s) \subseteq DOMAIN fr
    BY DEF Mine
  <2> QED BY <1>1, <1>2, <1>3, <2>1 DEF BarsFit
<1>5. ASSUME NEW b \in Buckets(r1)
      PROVE  /\ ObsTs(Group(r1, b)) = ObsTs(Group(r2, b))
             /\ OrderFree(Agg(Group(r1, b))) = OrderFree(Agg(Group(r2, b)))
  <2> PICK H : H = Heap(sp, fr, s, b)
    OBVIOUS
  <2> PICK l1, l2 : l1 = Latest(fr, H) /\ l2 = Latest(fr2, H)
    OBVIOUS
  <2>1. /\ Heap(sp, fr2, s, b) = H /\ b \in Buckets(r2) /\ (i \in H <=> j \in H)
        /\ H \in SUBSET DOMAIN fr
    BY <1>3, <1>4 DEF Heap, Mine
  <2>2. /\ l1 \in H /\ \A m \in H : fr[m].ts <= fr[l1].ts
        /\ ObsTs(Group(r1, b)) = fr[l1].ts
        /\ Agg(Group(r1, b)) = AggAt(sp, fr, H)
    BY <1>2 DEF BarsFit
  <2>3. /\ l2 \in H /\ \A m \in H : fr2[m].ts <= fr2[l2].ts
        /\ ObsTs(Group(r2, b)) = fr2[l2].ts
        /\ Agg(Group(r2, b)) = AggAt(sp, fr2, H)
    BY <1>2, <2>1 DEF BarsFit
  <2>4. fr[l1].ts = fr2[l2].ts
    <3>1. fr2[l2].ts = fr[l2].ts /\ fr2[l1].ts = fr[l1].ts
      BY <1>1, <2>1, <2>2, <2>3
    <3>2. fr[l1].ts \in Int /\ fr[l2].ts \in Int
      BY <1>1, <2>1, <2>2, <2>3, FrameRows
    <3>3. fr[l2].ts <= fr[l1].ts /\ fr[l1].ts <= fr[l2].ts
      BY <2>2, <2>3, <3>1
    <3> QED BY <3>1, <3>2, <3>3
  <2> PICK h1 : h1 = RowsAt(sp, fr, H)
    OBVIOUS
  <2> PICK h2 : h2 = RowsAt(sp, fr2, H)
    OBVIOUS
  <2>5. /\ DOMAIN h1 = H /\ DOMAIN h2 = H
        /\ \A m \in H : /\ h1[m].price = fr[m].price /\ h1[m].size = fr[m].size
                        /\ h2[m].price = fr2[m].price /\ h2[m].size = fr2[m].size
                        /\ fr[m].size \in Int /\ fr[m].price * fr[m].size \in Int
    <3>1. \A m \in H : fr[m].size \in Int /\ fr[m].price \in Int
      BY <1>1, <2>1 DEF IsFrame
    <3>2. \A m \in H : fr[m].price * fr[m].size \in Int
      BY <3>1
    <3> QED BY <3>1, <3>2 DEF RowsAt, RowAt
  <2>6. \A m \in H : Swap(fr, i, j)[m] \in H /\ Swap(fr, i, j)[Swap(fr, i, j)[m]] = m
    BY <2>1 DEF Swap
  <2>7. {h1[m].price : m \in H} = {h2[m].price : m \in H}
    <3>1. ASSUME NEW m \in H PROVE h2[m].price = h1[Swap(fr, i, j)[m]].price
      <4> PICK w : w = Swap(fr, i, j)[m]
        OBVIOUS
      <4>1. w \in H /\ m \in DOMAIN fr /\ fr2[m] = fr[w]
        BY <1>1, <2>1, <2>6
      <4>2. h2[m].price = fr2[m].price /\ h1[w].price = fr[w].price
        BY ONLY <2>5, <4>1, m \in H
      <4> QED BY <4>1, <4>2
    <3> QED BY <2>6, <3>1
  <2>8. Volume(h1) = Volume(h2)
    <3> PICK a : a = [m \in H |-> fr[m].size]
      OBVIOUS
    <3> PICK c : c = [m \in H |-> fr2[m].size]
      OBVIOUS
    <3>1. a \in [H -> Int] /\ Renamed(c, H, a, Swap(fr, i, j))
      BY <1>1, <2>1, <2>5, <2>6 DEF Renamed
    <3>2. Total(c) = Total(a)
      BY ONLY TiesExchanged(fr, fr2, i, j), <2>1, <3>1, SwappedTotal
    <3>3. Volume(h1) = Total(a) /\ Volume(h2) = Total(c)
      BY <2>5 DEF Volume
    <3> QED BY <3>2, <3>3
  <2>9. Notional(h1) = Notional(h2)
    <3> PICK a : a = [m \in H |-> fr[m].price * fr[m].size]
      OBVIOUS
    <3> PICK c : c = [m \in H |-> fr2[m].price * fr2[m].size]
      OBVIOUS
    <3>1. a \in [H -> Int] /\ Renamed(c, H, a, Swap(fr, i, j))
      BY <1>1, <2>1, <2>5, <2>6 DEF Renamed
    <3>2. Total(c) = Total(a)
      BY ONLY TiesExchanged(fr, fr2, i, j), <2>1, <3>1, SwappedTotal
    <3>3. Notional(h1) = Total(a) /\ Notional(h2) = Total(c)
      BY <2>5 DEF Notional
    <3> QED BY <3>2, <3>3
  <2>10. High(h1) = High(h2) /\ Low(h1) = Low(h2)
    BY <2>5, <2>7 DEF High, Low
  <2>11. OrderFree(AggAt(sp, fr, H)) = OrderFree(AggAt(sp, fr2, H))
    BY <2>4, <2>8, <2>9, <2>10 DEF OrderFree, AggAt
  <2> QED BY <2>2, <2>3, <2>4, <2>11
<1>6. ASSUME NEW b \in Buckets(r1) PROVE Closed(r1, b) = Closed(r2, b)
  BY <1>4, <1>5 DEF Closed
<1> QED BY <1>4, <1>5, <1>6

(* No order of simultaneous ticks moves a trade to another bar, or any      *)
(* column but open, close and order flow.                                   *)
THEOREM TieOrderKeepsAllBars == Spec => []TieOrderKeepsBars
<1>1. ASSUME FrameInv PROVE TieOrderKeepsBars
  <2>1. spec \in BarSpec /\ input \in Seq(RawTick)
    BY <1>1, FrameAssumption DEF FrameInv, TypeOK
  <2>2. ASSUME NEW i \in DOMAIN input, NEW j \in DOMAIN input, i < j, Tied(input, i, j),
               NEW r1, r1 = RowsOf(spec, input, input[i].sym),
               NEW r2, r2 = RowsOf(spec, Exchange(input, i, j), input[i].sym)
        PROVE  /\ Buckets(r1) = Buckets(r2)
               /\ \A b \in Buckets(r1) :
                    /\ OrderFree(Agg(Group(r1, b))) = OrderFree(Agg(Group(r2, b)))
                    /\ Closed(r1, b) = Closed(r2, b)
    <3>1. i # j
      <4>1. i \in Int
        BY <2>1, RawRowsAreAFrame, FrameRows
      <4> QED BY <2>2, <4>1
    <3> PICK fr2, s : fr2 = Exchange(input, i, j) /\ s = input[i].sym
      OBVIOUS
    <3>2. TiesExchanged(input, fr2, i, j)
      BY <2>1, <2>2, <3>1 DEF TiesExchanged
    <3>3. r1 = RowsOf(spec, input, s) /\ r2 = RowsOf(spec, fr2, s)
      BY <2>2
    <3> QED BY ONLY <2>1, <3>2, <3>3, SwappedBars
  <2> QED BY <2>2 DEF TieOrderKeepsBars, SameUnderTieOrder
<1> QED BY <1>1, FrameInductive, PTL

-----------------------------------------------------------------------------
(* Bars of validated ticks. *)

BarIsTyped(v) ==
  v.ts \in Nat /\ v.open \in Nat /\ v.high \in Nat /\ v.low \in Nat /\ v.close \in Nat

(* What build_bars reduces is sound when prices and sizes are as the        *)
(* contract asks.                                                           *)
LEMMA SoundBar ==
  ASSUME NEW sp \in BarSpec, NEW fr, IsFrame(fr), Accrues(fr),
         NEW H \in SUBSET DOMAIN fr, Latest(fr, H) \in H, First(fr, H) \in H
  PROVE  BarIsSound(AggAt(sp, fr, H)) /\ BarIsTyped(AggAt(sp, fr, H))
<1> PICK h : h = RowsAt(sp, fr, H)
  OBVIOUS
<1>1. DOMAIN h = H /\ IsFiniteSet(H) /\ H # {}
  <2>1. IsFiniteSet(DOMAIN fr)
    BY FrameRows
  <2>2. IsFiniteSet(H)
    BY <2>1, FS_Subset
  <2> QED BY <2>2 DEF RowsAt
<1>2. ASSUME NEW m \in H
      PROVE  /\ h[m].price \in Nat /\ h[m].size \in Nat /\ h[m].sign \in Side
             /\ h[m].price = fr[m].price
  <2>1. h[m] = RowAt(sp, fr, m) /\ m \in DOMAIN fr
    BY DEF RowsAt
  <2>2. /\ h[m].price = fr[m].price /\ h[m].size = fr[m].size
        /\ h[m].price \in Int /\ h[m].size \in Int /\ h[m].sign \in Side
    BY <2>1, ColumnTypes
  <2>3. fr[m].price > 0 /\ fr[m].size >= 0
    BY <2>1 DEF Accrues
  <2> QED BY <2>2, <2>3
<1> PICK hi, lo : hi = High(h) /\ lo = Low(h)
  OBVIOUS
<1>3. hi \in Nat /\ lo \in Nat /\ \A m \in H : lo <= h[m].price /\ h[m].price <= hi
  BY <1>1, <1>2, HighAndLow
<1> PICK size : size = [m \in H |-> h[m].size]
  OBVIOUS
<1>4. size \in [H -> Int] /\ \A m \in H : size[m] \in Nat /\ size[m] = h[m].size
  BY <1>2
<1> PICK V, N : V = Total(size) /\ N = Notional(h)
  OBVIOUS
<1>5. V \in Int /\ V = Volume(h)
  <2>1. Volume(h) = Total(size)
    BY <1>1 DEF Volume
  <2> QED BY <2>1, <1>1, <1>4, TotalType
<1>6. N \in Int /\ lo * V <= N /\ N <= hi * V
  <2> PICK money : money = [m \in H |-> h[m].price * h[m].size]
    OBVIOUS
  <2> PICK least, most : least = [m \in H |-> lo * size[m]] /\ most = [m \in H |-> hi * size[m]]
    OBVIOUS
  <2>1. N = Total(money)
    BY <1>1 DEF Notional
  <2>2. ASSUME NEW m \in H
        PROVE  /\ least[m] \in Int /\ most[m] \in Int /\ money[m] \in Int
               /\ least[m] <= money[m] /\ money[m] <= most[m]
    <3> PICK p, z : p = h[m].price /\ z = h[m].size
      OBVIOUS
    <3>1. p \in Nat /\ z \in Nat /\ lo <= p /\ p <= hi /\ lo \in Nat /\ hi \in Nat
      BY <1>2, <1>3
    <3>2. lo * z <= p * z /\ p * z <= hi * z /\ lo * z \in Int /\ p * z \in Int /\ hi * z \in Int
      BY ONLY <3>1
    <3>3. least[m] = lo * z /\ most[m] = hi * z /\ money[m] = p * z
      BY <1>4
    <3> QED BY ONLY <3>2, <3>3
  <2>3. least \in [H -> Int] /\ most \in [H -> Int] /\ money \in [H -> Int]
    <3>1. \A m \in H : least[m] \in Int /\ most[m] \in Int /\ money[m] \in Int
      BY <2>2
    <3> QED BY <3>1
  <2>4. Total(least) <= Total(money) /\ Total(money) <= Total(most)
    <3>1. \A m \in H : least[m] <= money[m] /\ money[m] <= most[m]
      BY <2>2
    <3> QED BY ONLY <1>1, <2>3, <3>1, TotalOrdered
  <2>5. Total(least) = lo * V
    <3>1. least = [m \in H |-> lo * size[m]] /\ lo \in Int
      BY <1>3
    <3>2. Total(least) = lo * Total(size)
      BY ONLY <1>1, <1>4, <3>1, TotalScaled
    <3> QED BY <3>2
  <2>6. Total(most) = hi * V
    <3>1. most = [m \in H |-> hi * size[m]] /\ hi \in Int
      BY <1>3
    <3>2. Total(most) = hi * Total(size)
      BY ONLY <1>1, <1>4, <3>1, TotalScaled
    <3> QED BY <3>2
  <2>7. Total(money) \in Int
    BY <1>1, <2>3, TotalType
  <2> QED BY <2>1, <2>4, <2>5, <2>6, <2>7
<1> PICK Up, Down : Up = {m \in H : h[m].sign > 0} /\ Down = {m \in H : h[m].sign < 0}
  OBVIOUS
<1> PICK up, down : /\ up = [m \in H |-> IF m \in Up THEN size[m] ELSE 0]
                    /\ down = [m \in H |-> IF m \in Down THEN size[m] ELSE 0]
  OBVIOUS
<1>7. BuyVolume(h) = Total(up) /\ SellVolume(h) = Total(down)
  <2>1. Part(size, Up) = [m \in Up |-> h[m].size] /\ Part(size, Down) = [m \in Down |-> h[m].size]
    BY <1>4 DEF Part
  <2>2. Total(up) = Total(Part(size, Up))
    <3>1. up = [m \in H |-> IF m \in Up THEN size[m] ELSE 0] /\ Up \in SUBSET H
      OBVIOUS
    <3> QED BY ONLY <1>1, <1>4, <3>1, TotalMasked
  <2>3. Total(down) = Total(Part(size, Down))
    <3>1. down = [m \in H |-> IF m \in Down THEN size[m] ELSE 0] /\ Down \in SUBSET H
      OBVIOUS
    <3> QED BY ONLY <1>1, <1>4, <3>1, TotalMasked
  <2> QED BY <1>1, <2>1, <2>2, <2>3 DEF BuyVolume, SellVolume
<1> PICK net, both : /\ net = [m \in H |-> h[m].sign * h[m].size]
                     /\ both = [m \in H |-> up[m] + down[m]]
  OBVIOUS
<1>8. ASSUME NEW m \in H
      PROVE  /\ up[m] \in Int /\ down[m] \in Int /\ net[m] \in Int /\ both[m] \in Int
             /\ up[m] = net[m] + down[m] /\ both[m] <= size[m]
  <2> PICK x, z : x = h[m].sign /\ z = h[m].size
    OBVIOUS
  <2>1. x \in {-1, 0, 1} /\ z \in Nat /\ size[m] = z
    BY <1>2, <1>4 DEF Side
  <2>2. /\ up[m] = IF x > 0 THEN z ELSE 0
        /\ down[m] = IF x < 0 THEN z ELSE 0
        /\ net[m] = x * z
        /\ both[m] = up[m] + down[m]
    BY <2>1
  <2>3. CASE x = -1
    BY ONLY <2>1, <2>2, <2>3
  <2>4. CASE x = 0
    BY ONLY <2>1, <2>2, <2>4
  <2>5. CASE x = 1
    BY ONLY <2>1, <2>2, <2>5
  <2> QED BY <2>1, <2>3, <2>4, <2>5
<1>9. /\ up \in [H -> Int] /\ down \in [H -> Int] /\ net \in [H -> Int] /\ both \in [H -> Int]
      /\ up = [m \in H |-> net[m] + down[m]]
      /\ both = [m \in H |-> up[m] + down[m]]
      /\ \A m \in H : both[m] <= size[m]
  <2>1. \A m \in H : /\ up[m] \in Int /\ down[m] \in Int /\ net[m] \in Int /\ both[m] \in Int
                     /\ up[m] = net[m] + down[m] /\ both[m] <= size[m]
    BY <1>8
  <2> QED BY <2>1
<1>10. Total(up) = Total(net) + Total(down)
  BY ONLY <1>1, <1>9, TotalOfSum
<1>11. Total(both) = Total(up) + Total(down)
  <2>1. up \in [H -> Int] /\ down \in [H -> Int] /\ both = [m \in H |-> up[m] + down[m]]
    BY <1>9
  <2> QED BY ONLY <1>1, <2>1, TotalOfSum
<1>12. Total(both) <= V
  <2>1. Total(both) <= Total(size)
    BY ONLY <1>1, <1>4, <1>9, TotalOrdered
  <2> QED BY <2>1
<1>13. SignedVolume(h) = Total(net)
  BY <1>1 DEF SignedVolume
<1>14. Total(up) \in Int /\ Total(down) \in Int /\ Total(net) \in Int
  BY <1>1, <1>9, TotalType
<1> PICK v : v = AggAt(sp, fr, H)
  OBVIOUS
<1>15. /\ v.open = fr[First(fr, H)].price /\ v.close = fr[Latest(fr, H)].price
       /\ v.high = hi /\ v.low = lo /\ v.volume = V
       /\ v.vwap = SafeDiv(N, V)
       /\ v.signed_volume = Total(net)
       /\ v.buy_volume = Total(up) /\ v.sell_volume = Total(down)
  BY <1>5, <1>7, <1>13 DEF AggAt
<1>16. lo <= v.open /\ v.open <= hi /\ lo <= v.close /\ v.close <= hi
  BY <1>2, <1>3, <1>15
<1>17. v.vwap = IF V = 0 THEN << >> ELSE <<N, V>>
  BY <1>15 DEF SafeDiv
<1>18. v.vwap = << >> <=> V = 0
  BY <1>17
<1>19. v.vwap # << >> => v.vwap[1] = N /\ v.vwap[2] = V
  BY <1>17
<1>20. v.signed_volume = v.buy_volume - v.sell_volume
  <2>1. Total(net) = Total(up) - Total(down)
    BY ONLY <1>10, <1>14
  <2> QED BY <1>15, <2>1
<1>21. v.buy_volume + v.sell_volume <= v.volume
  BY <1>11, <1>12, <1>15
<1>22. BarIsSound(v)
  BY <1>6, <1>15, <1>16, <1>18, <1>19, <1>20, <1>21 DEF BarIsSound
<1>23. BarIsTyped(v)
  <2>1. v.open \in Nat /\ v.close \in Nat
    BY <1>2, <1>15
  <2>2. v.ts = fr[Latest(fr, H)].ts
    BY DEF AggAt
  <2>3. v.ts \in Nat
    BY <2>2, FrameRows DEF IsFrame
  <2> QED BY <1>3, <1>15, <2>1, <2>3 DEF BarIsTyped
<1> QED BY <1>22, <1>23

(* Of two bars of a symbol, the one of the smaller bucket ends earlier. *)
LEMMA BarsFollowTime ==
  ASSUME NEW sp \in BarSpec, NEW fr, IsFrame(fr), Accrues(fr), NEW s,
         NEW rows, BarsFit(sp, fr, s, rows),
         NEW b \in Buckets(rows), NEW c \in Buckets(rows)
  PROVE  b \in Nat /\ (b < c <=> ObsTs(Group(rows, b)) < ObsTs(Group(rows, c)))
<1> PICK x, y : x = Latest(fr, Heap(sp, fr, s, b)) /\ y = Latest(fr, Heap(sp, fr, s, c))
  OBVIOUS
<1>1. /\ x \in Heap(sp, fr, s, b) /\ y \in Heap(sp, fr, s, c)
      /\ ObsTs(Group(rows, b)) = fr[x].ts /\ ObsTs(Group(rows, c)) = fr[y].ts
  BY DEF BarsFit
<1>2. /\ x \in DOMAIN fr /\ y \in DOMAIN fr /\ fr[x].sym = fr[y].sym
      /\ BucketAt(sp, fr, x) = b /\ BucketAt(sp, fr, y) = c
  BY <1>1 DEF Heap, Mine
<1>3. fr[x].ts \in Int /\ fr[y].ts \in Int
  BY <1>2, FrameRows
<1>4. \A i \in Heap(sp, fr, s, b) : fr[i].ts <= fr[x].ts
  BY DEF BarsFit
<1>5. fr[x].ts <= fr[y].ts => b \in Nat /\ b <= c
  BY <1>2, BucketsFollowTimes
<1>6. fr[y].ts <= fr[x].ts => c \in Nat /\ c <= b
  BY <1>2, BucketsFollowTimes
<1>7. fr[x].ts <= fr[x].ts => b \in Nat
  BY <1>2, BucketsFollowTimes
<1>8. fr[y].ts <= fr[y].ts => c \in Nat
  BY <1>2, BucketsFollowTimes
<1>9. b \in Nat /\ c \in Nat
  BY <1>3, <1>7, <1>8
<1>10. b = c => x = y
  OBVIOUS
<1>11. b < c => fr[x].ts < fr[y].ts
  BY <1>3, <1>6, <1>9
<1>12. fr[x].ts < fr[y].ts => b < c
  <2>1. fr[x].ts < fr[y].ts => b # c
    BY <1>3, <1>10
  <2> QED BY <1>3, <1>5, <1>9, <2>1
<1> QED BY <1>1, <1>9, <1>11, <1>12

(* A frame without nulls and without a bad row has the prices and sizes of  *)
(* the contract.                                                            *)
LEMMA GoodRowsAccrue ==
  ASSUME NEW fr \in Seq(RawTick), ~ BadFrame(fr), Whole(fr)
  PROVE  Accrues(fr)
<1> SUFFICES ASSUME NEW i \in DOMAIN fr PROVE fr[i].price > 0 /\ fr[i].size >= 0
  BY DEF Accrues
<1>1. ~ (fr[i].price <= 0) /\ ~ (fr[i].size < 0)
  BY DEF BadFrame, BadRow, BadPrice, BadSize, Null, Whole
<1>2. fr[i].price \in Int /\ fr[i].size \in Int
  <2>1. IsFrame(fr) /\ i \in 1..Len(fr)
    BY RawRowsAreAFrame, FrameRows
  <2> QED BY <2>1 DEF IsFrame
<1> QED BY <1>1, <1>2

(* The bars a caller of validated calls holds: typed, sound and in order.   *)
AreInOrder(bars) ==
  /\ DOMAIN bars \subseteq Nat
  /\ \A b \in DOMAIN bars : BarIsTyped(bars[b].value) /\ BarIsSound(bars[b].value)
  /\ \A b, c \in DOMAIN bars : b < c => bars[b].value.ts < bars[c].value.ts

(* Under validation, on frames without nulls, all of that holds.            *)
LEMMA HeldAreInOrder ==
  ASSUME FrameInv, mode # "OFF", Whole(input), NEW s
  PROVE  AreInOrder(Held(s))
<1> PICK bars : bars = Held(s)
  OBVIOUS
<1>1. spec \in BarSpec /\ input \in Seq(RawTick) /\ ~ BadFrame(input)
  BY FrameAssumption DEF FrameInv, TypeOK
<1>2. IsFrame(input) /\ Accrues(input)
  BY <1>1, RawRowsAreAFrame, GoodRowsAccrue
<1> PICK rows : rows = RowsOf(spec, input, s)
  OBVIOUS
<1>3. BarsFit(spec, input, s, rows)
  BY <1>1, <1>2, BarsAsArrived DEF RowsOf
<1>4. DOMAIN bars = Buckets(rows) /\ \A b \in Buckets(rows) : bars[b].value = Agg(Group(rows, b))
  BY DEF Held, BarsOf
<1>5. ASSUME NEW b \in Buckets(rows)
      PROVE  BarIsSound(Agg(Group(rows, b))) /\ BarIsTyped(Agg(Group(rows, b)))
  <2> PICK H : H = Heap(spec, input, s, b)
    OBVIOUS
  <2>1. /\ H \in SUBSET DOMAIN input
        /\ Latest(input, H) \in H /\ First(input, H) \in H
        /\ Agg(Group(rows, b)) = AggAt(spec, input, H)
    BY <1>3 DEF BarsFit, Heap, Mine
  <2>2. BarIsSound(AggAt(spec, input, H)) /\ BarIsTyped(AggAt(spec, input, H))
    BY ONLY <1>1, <1>2, <2>1, SoundBar
  <2> QED BY <2>1, <2>2
<1>6. ASSUME NEW b \in Buckets(rows), NEW c \in Buckets(rows), b < c
      PROVE  Agg(Group(rows, b)).ts < Agg(Group(rows, c)).ts
  <2>1. ObsTs(Group(rows, b)) < ObsTs(Group(rows, c))
    BY ONLY <1>1, <1>2, <1>3, <1>6, BarsFollowTime
  <2> QED BY <2>1 DEF Agg
<1>7. \A b \in Buckets(rows) : b \in Nat
  BY ONLY <1>1, <1>2, <1>3, BarsFollowTime
<1> QED BY <1>4, <1>5, <1>6, <1>7 DEF AreInOrder

(* Bars built from validated ticks without nulls are a bar frame that       *)
(* validate accepts, with a sound vwap and a sound split of the volume.     *)
THEOREM ValidatedBarsAreSound == Spec => []BuiltBarsMeetTheContract
<1>1. ASSUME FrameInv PROVE BuiltBarsMeetTheContract
  BY <1>1, HeldAreInOrder DEF BuiltBarsMeetTheContract, AreInOrder, Answered
<1> QED BY <1>1, FrameInductive, PTL

-----------------------------------------------------------------------------
(* What validate says of the bars that build_bars gave. *)

V == INSTANCE Contract

(* A row of the frame build_bars returns, in the columns validate reads.    *)
BarRow(s, bar) ==
  [symbol |-> s, timestamp |-> bar.value.ts,
   open |-> bar.value.open, high |-> bar.value.high,
   low |-> bar.value.low, close |-> bar.value.close,
   volume |-> bar.value.volume, closed |-> IF bar.closed THEN 1 ELSE 0]

(* A list of bars held, by symbol and bucket: any of them, the symbols in   *)
(* any order or interleaved, the bars of each in order.                     *)
IsListOfBars(list) ==
  /\ list \in Seq(Symbols \X Nat)
  /\ \A k \in DOMAIN list : list[k][2] \in DOMAIN Held(list[k][1])
  /\ \A j, k \in DOMAIN list :
       j < k /\ list[j][1] = list[k][1] => list[j][2] < list[k][2]

BarAt(list, k) == Held(list[k][1])[list[k][2]]
AsFrame(list) == [k \in DOMAIN list |-> BarRow(list[k][1], BarAt(list, k))]

(* A call whose schema reads the columns of build_bars: its prices by their *)
(* names, no quotes (a bar has none); typed columns; and no complete panel, *)
(* as each symbol's bars end at times of their own.                         *)
ReadsBars(call) ==
  /\ call.mode \in V!ValidationMode
  /\ ~ V!TimestampViolated(call) /\ ~ V!RolesViolated(call)
  /\ V!IsPanel(call) /\ ~ V!SymbolViolated(call)
  /\ \A entry \in call.roles :
       /\ entry.role.kind # "quote"
       /\ entry.role.kind = "price" =>
            entry.column = entry.role.field /\ V!Has(call, entry.column)
  /\ ~ V!CompletePanel(call)

(* Whether STRICT finds a bar that is not final. *)
FindsOpenBar(call, list) ==
  /\ call.closed_col /\ V!Has(call, "closed")
  /\ \E k \in DOMAIN list : ~ BarAt(list, k).closed

(* The bars of validated ticks without nulls pass validate in every mode,   *)
(* but for the open ones, which only STRICT refuses, for that reason and no *)
(* other.                                                                   *)
BarsPassValidate ==
  mode # "OFF" /\ Whole(input) =>
    \A call, list : ReadsBars(call) /\ IsListOfBars(list) =>
      V!Validate(call, AsFrame(list)) =
        IF call.mode = "STRICT" /\ FindsOpenBar(call, list) THEN "final" ELSE "ok"

(* The cells of a listed bar. *)
LEMMA ListedCells ==
  ASSUME NEW list, NEW k \in DOMAIN list,
         NEW row, row = AsFrame(list)[k], NEW bar, bar = BarAt(list, k)
  PROVE  /\ row.symbol = list[k][1] /\ row.timestamp = bar.value.ts
         /\ row.open = bar.value.open /\ row.high = bar.value.high
         /\ row.low = bar.value.low /\ row.close = bar.value.close
         /\ row.closed = IF bar.closed THEN 1 ELSE 0
<1> PICK s : s = list[k][1]
  OBVIOUS
<1>1. row = BarRow(s, bar)
  BY DEF AsFrame
<1> QED BY ONLY <1>1, s = list[k][1] DEF BarRow

(* Of the bars of a symbol validate sees every one later than the one       *)
(* before.                                                                  *)
LEMMA ListedInOrder ==
  ASSUME FrameInv, mode # "OFF", Whole(input),
         NEW call, ReadsBars(call), NEW list, IsListOfBars(list)
  PROVE  ~ V!OrderViolated(call, AsFrame(list))
<1> PICK rows : rows = AsFrame(list)
  OBVIOUS
<1>1. Len(list) \in Nat /\ DOMAIN list = 1..Len(list) /\ DOMAIN rows = DOMAIN list
  BY DEF IsListOfBars, AsFrame
<1>2. ASSUME NEW i \in DOMAIN rows, V!Before(call, rows, i) # {}
      PROVE  /\ rows[V!Max(V!Before(call, rows, i))].timestamp \in Nat
             /\ rows[i].timestamp \in Nat
             /\ rows[V!Max(V!Before(call, rows, i))].timestamp < rows[i].timestamp
  <2> PICK before, j : before = V!Before(call, rows, i) /\ j = V!Max(before)
    OBVIOUS
  <2>1. i \in Nat /\ before \subseteq 1..i /\ before # {}
    BY <1>1, <1>2 DEF V!Before
  <2>2. j \in before
    <3>1. Max(before) \in before
      BY <2>1, MaxOfRows
    <3> QED BY <3>1 DEF V!Max, Max
  <2>3. j \in DOMAIN rows /\ j < i /\ rows[j].symbol = rows[i].symbol
    BY <1>1, <2>2 DEF V!Before, ReadsBars
  <2> PICK s, b, c : s = list[i][1] /\ b = list[j][2] /\ c = list[i][2]
    OBVIOUS
  <2>4. /\ list[j][1] = s /\ b < c /\ b \in DOMAIN Held(s) /\ c \in DOMAIN Held(s)
        /\ rows[j].timestamp = Held(s)[b].value.ts /\ rows[i].timestamp = Held(s)[c].value.ts
    <3>1. /\ rows[j].symbol = list[j][1] /\ rows[i].symbol = list[i][1]
          /\ rows[j].timestamp = BarAt(list, j).value.ts
          /\ rows[i].timestamp = BarAt(list, i).value.ts
      BY <1>1, <2>3, ListedCells
    <3>2. list[j][1] = s
      BY <2>3, <3>1
    <3>3. BarAt(list, j) = Held(s)[b] /\ BarAt(list, i) = Held(s)[c]
      BY <3>2 DEF BarAt
    <3>4. b < c /\ b \in DOMAIN Held(s) /\ c \in DOMAIN Held(s)
      BY <1>1, <2>3, <3>2 DEF IsListOfBars
    <3> QED BY ONLY <3>1, <3>2, <3>3, <3>4
  <2>5. AreInOrder(Held(s))
    BY HeldAreInOrder
  <2> QED BY <2>4, <2>5 DEF AreInOrder, BarIsTyped
<1> QED BY <1>2 DEF V!OrderViolated

(* Nor does it see a price out of its range: on every basis that resolves   *)
(* the columns are those of the bars.                                       *)
LEMMA ListedInRange ==
  ASSUME FrameInv, mode # "OFF", Whole(input),
         NEW call, ReadsBars(call), NEW list, IsListOfBars(list)
  PROVE  ~ V!OhlcViolated(call, AsFrame(list)) /\ ~ V!QuotesViolated(call, AsFrame(list))
<1> PICK rows : rows = AsFrame(list)
  OBVIOUS
<1>1. DOMAIN rows = DOMAIN list
  BY DEF AsFrame
<1>2. ASSUME NEW role \in V!DeclaredRoles(call), role.kind = "price"
      PROVE  V!ColumnOf(call, role) = role.field /\ V!Has(call, V!ColumnOf(call, role))
  <2>1. \E entry \in call.roles : entry.role = role
    BY DEF V!DeclaredRoles
  <2> PICK entry : entry = CHOOSE x \in call.roles : x.role = role
    OBVIOUS
  <2>2. entry \in call.roles /\ entry.role = role
    BY <2>1
  <2> QED BY <1>2, <2>2 DEF V!ColumnOf, ReadsBars
<1>3. ASSUME NEW basis, V!ResolvesOhlc(call, basis)
      PROVE  /\ V!OhlcColumns(call, basis)[1] = "open" /\ V!OhlcColumns(call, basis)[2] = "high"
             /\ V!OhlcColumns(call, basis)[3] = "low" /\ V!OhlcColumns(call, basis)[4] = "close"
             /\ V!OhlcPresent(call, basis)
  <2>1. /\ V!PriceRole("open", basis) \in V!DeclaredRoles(call)
        /\ V!PriceRole("high", basis) \in V!DeclaredRoles(call)
        /\ V!PriceRole("low", basis) \in V!DeclaredRoles(call)
        /\ V!PriceRole("close", basis) \in V!DeclaredRoles(call)
    BY <1>3 DEF V!ResolvesOhlc, V!OhlcRoles
  <2>2. \A field : V!PriceRole(field, basis).kind = "price" /\ V!PriceRole(field, basis).field = field
    BY DEF V!PriceRole
  <2>3. \A field : V!PriceRole(field, basis) \in V!DeclaredRoles(call) =>
          /\ V!ColumnOf(call, V!PriceRole(field, basis)) = field
          /\ V!Has(call, V!ColumnOf(call, V!PriceRole(field, basis)))
    BY <1>2, <2>2
  <2>4. /\ V!OhlcColumns(call, basis)[1] = V!ColumnOf(call, V!PriceRole("open", basis))
        /\ V!OhlcColumns(call, basis)[2] = V!ColumnOf(call, V!PriceRole("high", basis))
        /\ V!OhlcColumns(call, basis)[3] = V!ColumnOf(call, V!PriceRole("low", basis))
        /\ V!OhlcColumns(call, basis)[4] = V!ColumnOf(call, V!PriceRole("close", basis))
    BY DEF V!OhlcColumns, V!OhlcRoles
  <2>5. 1..4 = {1, 2, 3, 4}
    OBVIOUS
  <2>6. \A k \in 1..4 : V!Has(call, V!OhlcColumns(call, basis)[k])
    BY ONLY <2>1, <2>3, <2>4, <2>5
  <2> QED BY <2>1, <2>3, <2>4, <2>6 DEF V!OhlcPresent
<1>4. ASSUME NEW i \in DOMAIN rows, NEW cols,
             cols[1] = "open", cols[2] = "high", cols[3] = "low", cols[4] = "close"
      PROVE  ~ V!BadOhlc(rows[i], cols)
  <2> PICK v : v = BarAt(list, i).value
    OBVIOUS
  <2>1. BarIsTyped(v) /\ BarIsSound(v)
    BY <1>1, HeldAreInOrder DEF AreInOrder, BarAt, IsListOfBars
  <2>2. /\ rows[i].open = v.open /\ rows[i].high = v.high
        /\ rows[i].low = v.low /\ rows[i].close = v.close
    BY <1>1, ListedCells
  <2> PICK o, h, low, c : o = v.open /\ h = v.high /\ low = v.low /\ c = v.close
    OBVIOUS
  <2>3. /\ o \in Nat /\ h \in Nat /\ low \in Nat /\ c \in Nat
        /\ low <= o /\ low <= c /\ o <= h /\ c <= h
    BY <2>1 DEF BarIsTyped, BarIsSound
  <2>4. V!MinHorizontal(o, c) \in {o, c} /\ V!MaxHorizontal(o, c) \in {o, c}
    BY DEF V!MinHorizontal, V!MaxHorizontal
  <2>5. ~ V!Above(low, V!MinHorizontal(o, c)) /\ ~ V!Above(V!MaxHorizontal(o, c), h)
    BY <2>3, <2>4 DEF V!Above
  <2>6. /\ rows[i][cols[1]] = o /\ rows[i][cols[2]] = h
        /\ rows[i][cols[3]] = low /\ rows[i][cols[4]] = c
    BY <1>4, <2>2
  <2> QED BY <2>5, <2>6 DEF V!BadOhlc
<1>5. \A basis : ~ V!OhlcRaises(call, rows, basis)
  BY <1>3, <1>4 DEF V!OhlcRaises
<1>6. ~ V!OhlcViolated(call, rows)
  BY <1>5 DEF V!OhlcViolated
<1>7. \A basis : V!QuoteRole("bid", basis) \notin V!DeclaredRoles(call)
  BY DEF V!DeclaredRoles, V!QuoteRole, ReadsBars
<1>8. ~ V!QuotesViolated(call, rows)
  BY <1>7 DEF V!QuotesViolated
<1> QED BY <1>6, <1>8

(* The adapter and the contract fit: what build_bars makes of validated     *)
(* ticks is accepted by validate, in every mode, for any call that reads    *)
(* bars; only STRICT refuses, and only a list with an open bar.             *)
THEOREM AdapterFitsValidate == Spec => []BarsPassValidate
<1>1. ASSUME FrameInv PROVE BarsPassValidate
  <2> SUFFICES ASSUME mode # "OFF", Whole(input), NEW call, ReadsBars(call),
                      NEW list, IsListOfBars(list), NEW rows, rows = AsFrame(list)
               PROVE  V!Validate(call, rows) =
                        IF call.mode = "STRICT" /\ FindsOpenBar(call, list) THEN "final" ELSE "ok"
    BY DEF BarsPassValidate
  <2>1. ~ V!OrderViolated(call, rows) /\ ~ V!OhlcViolated(call, rows) /\ ~ V!QuotesViolated(call, rows)
    BY <1>1, ListedInOrder, ListedInRange
  <2>2. V!FinalViolated(call, rows) <=> FindsOpenBar(call, list)
    <3>1. DOMAIN rows = DOMAIN list
          /\ \A k \in DOMAIN list : V!NotFinal(rows[k]) <=> ~ BarAt(list, k).closed
      BY ListedCells DEF AsFrame, V!NotFinal
    <3> QED BY <3>1 DEF V!FinalViolated, FindsOpenBar
  <2> PICK raised : raised = {k \in DOMAIN V!Checks : V!Raises(call, rows, V!Checks[k])}
    OBVIOUS
  <2>3. /\ V!Checks[1] = "timestamp" /\ V!Checks[2] = "roles" /\ V!Checks[3] = "symbol"
        /\ V!Checks[4] = "order" /\ V!Checks[5] = "ohlc" /\ V!Checks[6] = "quotes"
        /\ V!Checks[7] = "final" /\ V!Checks[8] = "not_panel"
        /\ V!Checks[9] = "membership" /\ V!Checks[10] = "panel"
        /\ DOMAIN V!Checks = {1, 2, 3, 4, 5, 6, 7, 8, 9, 10}
    BY DEF V!Checks
  <2>4. /\ ~ V!Raises(call, rows, "timestamp") /\ ~ V!Raises(call, rows, "roles")
        /\ ~ V!Raises(call, rows, "symbol") /\ ~ V!Raises(call, rows, "order")
        /\ ~ V!Raises(call, rows, "ohlc") /\ ~ V!Raises(call, rows, "quotes")
        /\ ~ V!Raises(call, rows, "not_panel")
        /\ ~ V!Raises(call, rows, "membership") /\ ~ V!Raises(call, rows, "panel")
    BY <2>1 DEF V!Raises, V!Violated, ReadsBars
  <2>5. V!Raises(call, rows, "final") <=> call.mode = "STRICT" /\ FindsOpenBar(call, list)
    BY <2>2 DEF V!Raises, V!Violated, V!SoftChecks
  <2>6. raised = IF call.mode = "STRICT" /\ FindsOpenBar(call, list) THEN {7} ELSE {}
    BY ONLY raised = {k \in DOMAIN V!Checks : V!Raises(call, rows, V!Checks[k])}, <2>3, <2>4, <2>5
  <2>7. V!Min({7}) = 7
    BY DEF V!Min
  <2>8. V!Validate(call, rows) =
          IF call.mode = "OFF" THEN "ok"
          ELSE IF raised = {} THEN "ok" ELSE V!Checks[V!Min(raised)]
    BY DEF V!Validate
  <2> QED BY <2>3, <2>6, <2>7, <2>8
<1> QED BY <1>1, FrameInductive, PTL

-----------------------------------------------------------------------------
(* Late prints. *)

(* Every row that joins the symbol comes after bar b of it: another bar is  *)
(* between, that had ended by then.                                         *)
Kept(old, new, s, rows, b) ==
  \/ \A j \in DOMAIN new \ DOMAIN old : new[j].sym # s
  \/ \E c \in Buckets(rows) :
       /\ ObsTs(Group(rows, b)) < ObsTs(Group(rows, c))
       /\ \A j \in DOMAIN new \ DOMAIN old :
            new[j].sym = s => ObsTs(Group(rows, c)) <= new[j].ts

(* The same rows lie in the heap of a bar that is kept, and all of them are *)
(* settled.                                                                 *)
LEMMA KeptHeap ==
  ASSUME NEW sp \in BarSpec, NEW old, NEW new, Grows(old, new), Accrues(new), NEW s,
         NEW was, BarsFit(sp, old, s, was), NEW b \in Buckets(was), Kept(old, new, s, was, b)
  PROVE  /\ Heap(sp, new, s, b) = Heap(sp, old, s, b)
         /\ \A i \in Heap(sp, old, s, b) : Settled(old, new, i)
<1>1. /\ DOMAIN old \subseteq DOMAIN new /\ \A i \in DOMAIN old : old[i] = new[i]
  BY OldOrder
<1>2. IsFrame(old) /\ IsFrame(new)
  BY DEF Grows
<1>3. \A i \in DOMAIN new : new[i].ts \in Int
  BY <1>2, FrameRows
<1>4. \A i \in Mine(old, s) : i \in DOMAIN old /\ i \in Mine(new, s)
  BY <1>1 DEF Mine
<1>5. \A i : Settled(old, new, i) => BucketAt(sp, new, i) = BucketAt(sp, old, i)
  BY SettledRowsStay
<1>6. CASE \A j \in DOMAIN new \ DOMAIN old : new[j].sym # s
  <2>1. \A i \in Mine(new, s) : i \in Mine(old, s)
    BY <1>1, <1>6 DEF Mine
  <2>2. \A i \in Mine(old, s) : Settled(old, new, i)
    BY <1>1, <1>6 DEF Mine, Settled
  <2> QED BY <1>4, <1>5, <2>1, <2>2 DEF Heap
<1>7. CASE \E c \in Buckets(was) :
             /\ ObsTs(Group(was, b)) < ObsTs(Group(was, c))
             /\ \A j \in DOMAIN new \ DOMAIN old :
                  new[j].sym = s => ObsTs(Group(was, c)) <= new[j].ts
  <2>1. PICK c \in Buckets(was) :
             /\ ObsTs(Group(was, b)) < ObsTs(Group(was, c))
             /\ \A j \in DOMAIN new \ DOMAIN old :
                  new[j].sym = s => ObsTs(Group(was, c)) <= new[j].ts
    BY <1>7
  <2> PICK k, l : k = Latest(old, Heap(sp, old, s, c)) /\ l = Latest(old, Heap(sp, old, s, b))
    OBVIOUS
  <2>2. /\ k \in Heap(sp, old, s, c) /\ ObsTs(Group(was, c)) = old[k].ts
        /\ l \in Heap(sp, old, s, b) /\ ObsTs(Group(was, b)) = old[l].ts
        /\ \A i \in Heap(sp, old, s, b) : old[i].ts <= old[l].ts
    BY <2>1 DEF BarsFit
  <2>3. /\ k \in Mine(old, s) /\ k \in DOMAIN old /\ k \in DOMAIN new /\ old[k] = new[k]
        /\ new[k].sym = s /\ BucketAt(sp, old, k) = c
        /\ l \in Mine(old, s) /\ l \in DOMAIN old /\ l \in DOMAIN new /\ old[l] = new[l]
        /\ new[l].sym = s /\ BucketAt(sp, old, l) = b
    BY <1>1, <2>2 DEF Heap, Mine
  <2>4. new[l].ts < new[k].ts /\ \A j \in DOMAIN new \ DOMAIN old : new[j].sym = s => new[k].ts <= new[j].ts
    BY <2>1, <2>2, <2>3
  <2>5. ASSUME NEW i \in DOMAIN old, new[i].sym = s, new[i].ts <= new[k].ts
        PROVE  Settled(old, new, i)
    <3>1. ASSUME NEW j \in DOMAIN new \ DOMAIN old, new[j].sym = new[i].sym
          PROVE  new[i].ts <= new[j].ts
      <4>1. new[k].ts <= new[j].ts
        BY <2>4, <2>5, <3>1
      <4>2. new[i].ts \in Int /\ new[j].ts \in Int /\ new[k].ts \in Int
        BY <1>1, <1>3, <2>3
      <4> QED BY <2>5, <4>1, <4>2
    <3> QED BY <3>1 DEF Settled
  <2>6. BucketAt(sp, new, k) = c /\ BucketAt(sp, new, l) = b
    <3>1. Settled(old, new, k) /\ Settled(old, new, l)
      BY <1>3, <2>3, <2>4, <2>5
    <3> QED BY <1>5, <2>3, <3>1
  <2>7. b < c
    <3>1. b \in Nat /\ b <= c
      BY <1>2, <1>3, <2>3, <2>4, <2>6, BucketsFollowTimes
    <3>2. new[k].ts <= new[l].ts => c <= b
      BY <1>2, <2>3, <2>6, BucketsFollowTimes
    <3>3. c \in Nat
      <4>1. new[k].ts <= new[k].ts
        BY <1>3, <2>3
      <4> QED BY <1>2, <2>3, <2>6, <4>1, BucketsFollowTimes
    <3>4. b < c \/ b = c
      BY <3>1, <3>3
    <3>5. b # c
      <4> SUFFICES ASSUME b = c PROVE FALSE
        OBVIOUS
      <4>1. l = k
        OBVIOUS
      <4> QED BY <1>3, <2>3, <2>4, <4>1
    <3> QED BY <3>4, <3>5
  <2>8. ASSUME NEW i \in Heap(sp, old, s, b) PROVE Settled(old, new, i) /\ i \in Heap(sp, new, s, b)
    <3>1. i \in Mine(old, s) /\ i \in DOMAIN old /\ BucketAt(sp, old, i) = b /\ new[i].sym = s
          /\ i \in Mine(new, s)
      BY <1>1, <1>4 DEF Heap, Mine
    <3>2. new[i].ts <= new[k].ts
      <4>1. new[i].ts <= new[l].ts
        BY <1>1, <2>2, <2>3, <3>1
      <4>2. new[i].ts \in Int /\ new[l].ts \in Int /\ new[k].ts \in Int
        BY <1>1, <1>3, <2>3, <3>1
      <4> QED BY <2>4, <4>1, <4>2
    <3>3. Settled(old, new, i)
      BY <2>5, <3>1, <3>2
    <3> QED BY <1>5, <3>1, <3>3 DEF Heap
  <2>9. ASSUME NEW i \in Heap(sp, new, s, b) PROVE i \in Heap(sp, old, s, b)
    <3>1. i \in DOMAIN new /\ new[i].sym = s /\ BucketAt(sp, new, i) = b
      BY DEF Heap, Mine
    <3>2. new[i].ts < new[k].ts
      <4>1. new[k].ts <= new[i].ts => c \in Nat /\ c <= b
        BY <1>2, <2>3, <2>6, <3>1, BucketsFollowTimes
      <4>2. ~ (new[k].ts <= new[i].ts)
        <5>1. b \in Nat
          <6>1. new[i].ts <= new[i].ts
            BY <1>3, <3>1
          <6> QED BY <1>2, <3>1, <6>1, BucketsFollowTimes
        <5> QED BY <2>7, <4>1, <5>1
      <4> QED BY <1>3, <2>3, <3>1, <4>2
    <3>3. i \in DOMAIN old
      <4>1. i \notin DOMAIN old => new[k].ts <= new[i].ts
        BY <2>4, <3>1
      <4> QED BY <1>3, <2>3, <3>1, <3>2, <4>1
    <3>4. Settled(old, new, i)
      BY <1>3, <2>3, <2>5, <3>1, <3>2, <3>3
    <3>5. BucketAt(sp, old, i) = b
      BY <1>5, <3>1, <3>4
    <3> QED BY <1>1, <3>1, <3>3, <3>5 DEF Heap, Mine
  <2> QED BY <2>8, <2>9
<1> QED BY <1>6, <1>7 DEF Kept

(* A bar that is kept stays as it was. *)
LEMMA KeptBar ==
  ASSUME NEW sp \in BarSpec, NEW old, NEW new, Grows(old, new), Accrues(new), NEW s,
         NEW was, BarsFit(sp, old, s, was), NEW is, BarsFit(sp, new, s, is),
         NEW b \in Buckets(was), Kept(old, new, s, was, b)
  PROVE  b \in Buckets(is) /\ Agg(Group(is, b)) = Agg(Group(was, b))
<1> PICK H : H = Heap(sp, old, s, b)
  OBVIOUS
<1>1. Heap(sp, new, s, b) = H /\ \A i \in H : Settled(old, new, i)
  BY KeptHeap
<1>2. H # {} /\ Agg(Group(was, b)) = AggAt(sp, old, H) /\ H \in SUBSET DOMAIN old
  BY DEF BarsFit, Heap, Mine
<1>3. b \in Buckets(is)
  <2>1. PICK i \in H : TRUE
    BY <1>2
  <2>2. i \in Mine(new, s) /\ BucketAt(sp, new, i) = b
    BY <1>1 DEF Heap
  <2>3. Buckets(is) = {BucketAt(sp, new, j) : j \in Mine(new, s)}
    BY DEF BarsFit
  <2> QED BY <2>2, <2>3
<1>4. Agg(Group(is, b)) = AggAt(sp, new, H)
  BY <1>1, <1>3 DEF BarsFit
<1>5. RowsAt(sp, new, H) = RowsAt(sp, old, H)
  <2>1. \A i \in H : RowAt(sp, new, i) = RowAt(sp, old, i)
    BY <1>1, SettledRowsStay
  <2> QED BY <2>1 DEF RowsAt
<1>6. /\ Latest(new, H) = Latest(old, H) /\ First(new, H) = First(old, H)
      /\ new[Latest(old, H)] = old[Latest(old, H)] /\ new[First(old, H)] = old[First(old, H)]
  BY <1>2, OldOrder
<1>7. AggAt(sp, new, H) = AggAt(sp, old, H)
  BY <1>5, <1>6 DEF AggAt
<1> QED BY <1>2, <1>3, <1>4, <1>7

(* Without validation a late print rewrites a suffix only: every bar before *)
(* the last that had ended when the print is stamped stays.                 *)
THEOREM LatePrintsRewriteASuffix == Spec => []LatePrintRewritesOnlySuffix
<1>1. ASSUME FrameInv PROVE LatePrintRewritesOnlySuffix
  <2>1. spec \in BarSpec /\ input \in Seq(RawTick)
    BY <1>1, FrameAssumption DEF FrameInv, TypeOK
  <2>2. ASSUME Answered, input # << >>, Accrues(input), NEW s \in Symbols
        PROVE  LET n == Len(input)
                   t == input[n]
                   was == RowsOf(spec, SubSeq(input, 1, n - 1), s)
                   is  == RowsOf(spec, input, s)
               IN  \A b \in Buckets(was) :
                     (\/ t.sym # s
                      \/ \E c \in Buckets(was) : /\ ObsTs(Group(was, b)) < ObsTs(Group(was, c))
                                                 /\ ObsTs(Group(was, c)) <= t.ts)
                     => b \in Buckets(is) /\ Agg(Group(is, b)) = Agg(Group(was, b))
    <3> PICK n : n = Len(input)
      OBVIOUS
    <3> PICK old : old = SubSeq(input, 1, n - 1)
      OBVIOUS
    <3> PICK was : was = RowsOf(spec, old, s)
      OBVIOUS
    <3> PICK is : is = RowsOf(spec, input, s)
      OBVIOUS
    <3>0. /\ input # << >> /\ Accrues(input) /\ n = Len(input)
          /\ old = SubSeq(input, 1, n - 1)
          /\ was = RowsOf(spec, old, s) /\ is = RowsOf(spec, input, s)
      BY <2>2
    <3>1. ASSUME NEW b \in Buckets(was),
                 \/ input[n].sym # s
                 \/ \E c \in Buckets(was) : /\ ObsTs(Group(was, b)) < ObsTs(Group(was, c))
                                            /\ ObsTs(Group(was, c)) <= input[n].ts
          PROVE  b \in Buckets(is) /\ Agg(Group(is, b)) = Agg(Group(was, b))
      <4>1. n \in Nat /\ n # 0 /\ DOMAIN input = 1..n
        BY <2>1, <3>0, <3>1, EmptySeq, LenProperties
      <4>2. /\ old \in Seq(RawTick) /\ Len(old) = n - 1
            /\ \A i \in 1..(n - 1) : old[i] = input[i]
        <5>1. 1 \in 1..(Len(input) + 1) /\ n - 1 \in (1 - 1)..Len(input)
          BY <3>0, <3>1, <4>1
        <5> QED BY <2>1, <3>0, <3>1, <4>1, <5>1, SubSeqProperties
      <4>3. DOMAIN old = 1..(n - 1)
        BY <4>2, LenProperties
      <4>4. DOMAIN input \ DOMAIN old = {n}
        BY <4>1, <4>3
      <4>5. Grows(old, input)
        <5>1. IsFrame(old) /\ IsFrame(input)
          BY <2>1, <4>2, RawRowsAreAFrame
        <5>2. Len(old) <= Len(input)
          BY <3>0, <3>1, <4>1, <4>2
        <5> QED BY <4>2, <5>1, <5>2 DEF Grows
      <4>6. BarsFit(spec, old, s, was) /\ BarsFit(spec, input, s, is)
        BY <2>1, <3>0, <3>1, <4>2, RawRowsAreAFrame, BarsAsArrived DEF RowsOf
      <4>7. Kept(old, input, s, was, b)
        BY <3>0, <3>1, <4>4 DEF Kept
      <4> QED BY ONLY <2>1, <3>0, <3>1, <4>5, <4>6, <4>7, KeptBar
    <3> QED BY <3>1
  <2>3. (\A i \in DOMAIN input : input[i].price > 0 /\ input[i].size >= 0) => Accrues(input)
    BY DEF Accrues
  <2> QED BY <2>2, <2>3 DEF LatePrintRewritesOnlySuffix
<1> QED BY <1>1, FrameInductive, PTL

-----------------------------------------------------------------------------
(* Validated answers only append. *)

(* In a frame without nulls and without a bad row the rows of a symbol      *)
(* never go back in time: validate_ticks looks at neighbours only, and as   *)
(* long as no null stands between them that is enough.                      *)
LEMMA OrderedFrame ==
  ASSUME NEW fr \in Seq(RawTick), ~ BadFrame(fr), Whole(fr)
  PROVE  \A i, j \in DOMAIN fr : i < j /\ fr[i].sym = fr[j].sym => fr[i].ts <= fr[j].ts
<1>1. IsFrame(fr)
  BY RawRowsAreAFrame
<1>2. DOMAIN fr = 1..Len(fr) /\ Len(fr) \in Nat /\ \A i \in DOMAIN fr : fr[i].ts \in Int
  BY <1>1, FrameRows
<1> PICK late : late = {j \in DOMAIN fr : \E i \in DOMAIN fr :
                          i < j /\ fr[i].sym = fr[j].sym /\ fr[j].ts < fr[i].ts}
  OBVIOUS
<1>3. late = {}
  <2> SUFFICES ASSUME late # {} PROVE FALSE
    OBVIOUS
  <2>1. late \subseteq Nat
    BY <1>2
  <2>2. PICK j \in late : \A x \in late : j <= x
    BY <2>1, LeastNatural
  <2>3. PICK i \in DOMAIN fr : i < j /\ fr[i].sym = fr[j].sym /\ fr[j].ts < fr[i].ts
    OBVIOUS
  <2> PICK before : before = SameSymbol(fr, j) \ {j}
    OBVIOUS
  <2>4. j \in DOMAIN fr /\ j \in 1..Len(fr) /\ i \in 1..Len(fr) /\ j \in Nat
    BY <1>2
  <2>5. before \subseteq 1..j /\ i \in before
    BY <2>3, <2>4 DEF SameSymbol
  <2>6. Max(before) \in before /\ i <= Max(before)
    BY <2>4, <2>5, MaxOfRows
  <2> PICK m : m = Max(before)
    OBVIOUS
  <2>7. m \in DOMAIN fr /\ m < j /\ fr[m].sym = fr[j].sym /\ i <= m
    BY <1>2, <2>4, <2>6 DEF SameSymbol
  <2>8. ~ (fr[j].ts < fr[m].ts)
    <3>1. ~ StepsBack(fr, j)
      BY <2>4 DEF BadFrame, BadRow
    <3>2. ~ Null(fr[j], "timestamp") /\ ~ Null(fr[m], "timestamp")
      BY <2>4, <2>7 DEF Null, Whole
    <3> QED BY <2>5, <3>1, <3>2 DEF StepsBack
  <2>9. fr[i].ts \in Int /\ fr[j].ts \in Int /\ fr[m].ts \in Int /\ m \in Int /\ i \in Int /\ j \in Int
    BY <1>2, <2>4, <2>7
  <2>10. i # m
    BY <2>3, <2>8
  <2>11. ~ (fr[m].ts < fr[i].ts)
    <3>1. m \notin late
      <4>1. m \in late => j <= m
        BY <2>2
      <4> QED BY ONLY <2>7, <2>9, <4>1
    <3>2. i < m /\ fr[i].sym = fr[m].sym
      BY ONLY <2>3, <2>7, <2>9, <2>10
    <3> QED BY <2>7, <3>1, <3>2
  <2> QED BY <2>3, <2>8, <2>9, <2>11
<1>4. ASSUME NEW i \in DOMAIN fr, NEW j \in DOMAIN fr, i < j, fr[i].sym = fr[j].sym
      PROVE  fr[i].ts <= fr[j].ts
  <2>1. ~ (fr[j].ts < fr[i].ts)
    BY <1>3, <1>4
  <2> QED BY <1>2, <2>1
<1> QED BY <1>4

(* The rows of a symbol that join a good, whole frame leave its closed      *)
(* bars: each stays as it was and stays closed.                             *)
LEMMA ClosedBarsStay ==
  ASSUME NEW sp \in BarSpec, NEW old \in Seq(RawTick), NEW new \in Seq(RawTick),
         IsBeginning(old, new), ~ BadFrame(new), Whole(new), NEW s,
         NEW was, was = RowsOf(sp, old, s), NEW is, is = RowsOf(sp, new, s),
         NEW b \in Buckets(was), Closed(was, b)
  PROVE  /\ b \in Buckets(is) /\ Agg(Group(is, b)) = Agg(Group(was, b))
         /\ Closed(is, b)
<1>1. IsFrame(old) /\ IsFrame(new) /\ Accrues(new)
  BY RawRowsAreAFrame, GoodRowsAccrue
<1>2. Grows(old, new)
  BY <1>1 DEF Grows, IsBeginning
<1>3. BarsFit(sp, old, s, was) /\ BarsFit(sp, new, s, is)
  BY <1>1, BarsAsArrived DEF RowsOf
<1>4. PICK c \in Buckets(was) : ObsTs(Group(was, b)) < ObsTs(Group(was, c))
  BY DEF Closed
<1> PICK k : k = Latest(old, Heap(sp, old, s, c))
  OBVIOUS
<1>5. k \in Heap(sp, old, s, c) /\ ObsTs(Group(was, c)) = old[k].ts
  BY <1>3, <1>4 DEF BarsFit
<1>6. /\ DOMAIN old \subseteq DOMAIN new /\ \A i \in DOMAIN old : old[i] = new[i]
      /\ \A i \in DOMAIN old : \A j \in DOMAIN new \ DOMAIN old : i < j
  BY <1>2, OldOrder
<1>7. /\ k \in DOMAIN old /\ k \in DOMAIN new /\ old[k] = new[k]
      /\ new[k].sym = s /\ BucketAt(sp, old, k) = c
  BY <1>5, <1>6 DEF Heap, Mine
<1>8. \A j \in DOMAIN new \ DOMAIN old : new[j].sym = s => new[k].ts <= new[j].ts
  BY <1>6, <1>7, OrderedFrame
<1>9. Kept(old, new, s, was, b)
  BY <1>4, <1>5, <1>7, <1>8 DEF Kept
<1>10. b \in Buckets(is) /\ Agg(Group(is, b)) = Agg(Group(was, b))
  BY ONLY <1>1, <1>2, <1>3, <1>9, sp \in BarSpec, b \in Buckets(was), KeptBar
<1>11. BucketAt(sp, new, k) = c
  <2>1. Settled(old, new, k)
    BY <1>7, <1>8 DEF Settled
  <2> QED BY <1>2, <1>7, <2>1, SettledRowsStay
<1>12. c \in Buckets(is) /\ k \in Heap(sp, new, s, c)
  <2>1. k \in Mine(new, s)
    BY <1>7 DEF Mine
  <2> QED BY <1>3, <1>11, <2>1 DEF BarsFit, Heap
<1> PICK l : l = Latest(new, Heap(sp, new, s, c))
  OBVIOUS
<1>13. new[k].ts <= new[l].ts /\ ObsTs(Group(is, c)) = new[l].ts /\ l \in DOMAIN new
  BY <1>3, <1>12 DEF BarsFit, Heap, Mine
<1>14. ObsTs(Group(is, b)) = ObsTs(Group(was, b))
  <2>1. Agg(Group(is, b)).ts = Agg(Group(was, b)).ts
    BY <1>10
  <2> QED BY <2>1 DEF Agg
<1>15. PICK m \in DOMAIN old : ObsTs(Group(was, b)) = old[m].ts
  BY <1>3 DEF BarsFit, Heap, Mine
<1>16. ObsTs(Group(is, b)) < ObsTs(Group(is, c))
  <2>1. old[m].ts < new[k].ts
    BY <1>4, <1>5, <1>7, <1>15
  <2>2. old[m].ts \in Int /\ new[k].ts \in Int /\ new[l].ts \in Int
    BY <1>1, <1>7, <1>13, <1>15, FrameRows
  <2>3. old[m].ts < new[l].ts
    BY ONLY <1>13, <2>1, <2>2
  <2> QED BY <1>13, <1>14, <1>15, <2>3
<1>17. Closed(is, b)
  BY <1>12, <1>16 DEF Closed
<1> QED BY <1>10, <1>17

(* A step leaves the closed bars of a symbol: build_bars is answered from   *)
(* the whole frame or not at all, and under validation only a frame without *)
(* a bad row is answered.                                                   *)
LEMMA StepKeepsClosedBars ==
  ASSUME FrameInv, FrameInv', [Next]_vars, mode # "OFF", Whole(input'), NEW s,
         NEW was, was = Held(s),
         NEW is, is = BarsOf(RowsOf(spec, input', s)),
         NEW b \in DOMAIN was, was[b].closed
  PROVE  b \in DOMAIN is /\ is[b] = was[b]
<1>1. spec \in BarSpec /\ input \in Seq(RawTick) /\ input' \in Seq(RawTick)
  BY FrameAssumption DEF FrameInv, TypeOK
<1>2. (input' = input \/ input' = frame) /\ mode' = mode
  <2>1. CASE \E lost \in Lost(spec) : Build(lost)
    BY <2>1 DEF Build
  <2>2. CASE \E t \in RawTicks(spec) : Arrive(t)
    BY <2>2 DEF Arrive
  <2>3. CASE UNCHANGED vars
    BY <2>3 DEF vars
  <2> QED BY <2>1, <2>2, <2>3 DEF Next
<1>3. CASE input' = input
  BY <1>3 DEF Held
<1>4. CASE input' = frame
  <2>1. IsBeginning(input, input') /\ ~ BadFrame(input')
    BY <1>2, <1>4 DEF FrameInv
  <2> PICK r, q : r = RowsOf(spec, input, s) /\ q = RowsOf(spec, input', s)
    OBVIOUS
  <2>2. /\ DOMAIN was = Buckets(r) /\ DOMAIN is = Buckets(q)
        /\ \A a \in Buckets(r) : was[a] = [value |-> Agg(Group(r, a)), closed |-> Closed(r, a)]
        /\ \A a \in Buckets(q) : is[a] = [value |-> Agg(Group(q, a)), closed |-> Closed(q, a)]
    BY DEF Held, BarsOf
  <2>3. b \in Buckets(r) /\ Closed(r, b)
    BY <2>2
  <2>4. b \in Buckets(q) /\ Agg(Group(q, b)) = Agg(Group(r, b)) /\ Closed(q, b)
    BY <1>1, <2>1, <2>3, ClosedBarsStay
  <2> QED BY <2>2, <2>3, <2>4
<1> QED BY <1>2, <1>3, <1>4

(* Under validation a bar once given as closed is in every later answer to  *)
(* a frame without nulls, unchanged and closed, however the frame grows in  *)
(* between.                                                                 *)
THEOREM ValidatedAnswersOnlyAppend == Spec => ValidatedBuildsAppendOnly
<1>1. ASSUME FrameInv, FrameInv', [Next]_vars
      PROVE  [mode # "OFF" /\ input # << >> /\ input' # input /\ Whole(input') =>
                \A s \in Symbols :
                  LET was == Held(s)
                      is  == BarsOf(RowsOf(spec, input', s)) IN
                  \A b \in DOMAIN was : was[b].closed =>
                    b \in DOMAIN is /\ is[b] = was[b]]_vars
  BY <1>1, StepKeepsClosedBars
<1> QED BY <1>1, FrameInductive, PTL DEF Spec, ValidatedBuildsAppendOnly

(* The frame that a list of closed bars makes is made by the same list      *)
(* after every later call answered from a frame without nulls.              *)
AllClosed(list) == \A k \in DOMAIN list : BarAt(list, k).closed
ClosedFramesStay ==
  [][mode # "OFF" /\ Whole(input') =>
       \A list : IsListOfBars(list) /\ AllClosed(list) =>
         /\ IsListOfBars(list)' /\ AllClosed(list)'
         /\ AsFrame(list)' = AsFrame(list)]_vars

(* Rows of closed bars are never revised once they were given on: what      *)
(* PanelFeed assumes of its feed, build_bars provides on validated ticks    *)
(* without nulls.                                                           *)
THEOREM AdapterNeverRevises == Spec => ClosedFramesStay
<1>1. ASSUME FrameInv, FrameInv', [Next]_vars, mode # "OFF", Whole(input'),
             NEW list, IsListOfBars(list), AllClosed(list)
      PROVE  /\ IsListOfBars(list)' /\ AllClosed(list)'
             /\ AsFrame(list)' = AsFrame(list)
  <2>1. spec' = spec
    <3>1. CASE \E lost \in Lost(spec) : Build(lost)
      BY <3>1 DEF Build
    <3>2. CASE \E t \in RawTicks(spec) : Arrive(t)
      BY <3>2 DEF Arrive
    <3>3. CASE UNCHANGED vars
      BY <3>3 DEF vars
    <3> QED BY <1>1, <3>1, <3>2, <3>3 DEF Next
  <2>2. ASSUME NEW k \in DOMAIN list
        PROVE  list[k][2] \in DOMAIN Held(list[k][1])' /\ BarAt(list, k)' = BarAt(list, k)
    <3> PICK s, b : s = list[k][1] /\ b = list[k][2]
      OBVIOUS
    <3> PICK was, is : was = Held(s) /\ is = BarsOf(RowsOf(spec, input', s))
      OBVIOUS
    <3>1. b \in DOMAIN was /\ was[b].closed
      BY <1>1 DEF IsListOfBars, AllClosed, BarAt
    <3>2. b \in DOMAIN is /\ is[b] = was[b]
      BY ONLY <1>1, <3>1, was = Held(s), is = BarsOf(RowsOf(spec, input', s)),
              StepKeepsClosedBars
    <3>3. Held(s)' = is
      BY <2>1 DEF Held
    <3> QED BY <3>1, <3>2, <3>3 DEF BarAt
  <2>3. IsListOfBars(list)'
    BY <1>1, <2>2 DEF IsListOfBars
  <2>4. AllClosed(list)'
    BY <1>1, <2>2 DEF AllClosed
  <2>5. AsFrame(list)' = AsFrame(list)
    BY <2>2 DEF AsFrame
  <2> QED BY <2>3, <2>4, <2>5
<1>2. ASSUME FrameInv, FrameInv', [Next]_vars
      PROVE  [mode # "OFF" /\ Whole(input') =>
                \A list : IsListOfBars(list) /\ AllClosed(list) =>
                  /\ IsListOfBars(list)' /\ AllClosed(list)'
                  /\ AsFrame(list)' = AsFrame(list)]_vars
  BY <1>1, <1>2
<1> QED BY <1>2, FrameInductive, PTL DEF Spec, ClosedFramesStay
=============================================================================
