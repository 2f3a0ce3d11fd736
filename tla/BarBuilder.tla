----------------------------- MODULE BarBuilder -----------------------------
(***************************************************************************)
(* The tick-to-bar adapter of sabia.adapters: bars.py and signing.py, as   *)
(* operators on whole frames.  build_bars is a pure function of a frame of *)
(* raw ticks and a BarSpec; it is evaluated column by column:              *)
(*                                                                         *)
(*    stable sort -> sign column -> bucket column -> group -> reduce       *)
(*                -> closed marker                                         *)
(*                                                                         *)
(* A tick is a record                                                      *)
(*   sym    the symbol column                                              *)
(*   ts     the timestamp, a natural number of clock units                 *)
(*   price  > 0, and size >= 0: the raw-tick contract                      *)
(*   side   where the price stands to the midpoint of the quote on the     *)
(*          row: 1 above, -1 below, 0 at the midpoint or no quote.  It is  *)
(*          all that signing reads of bid and ask.                         *)
(*                                                                         *)
(* A ratio is kept as the pair <<numerator, denominator>> and a null ratio *)
(* as <<>>, so that no property depends on float rounding.                 *)
(***************************************************************************)
EXTENDS Integers, Sequences, FiniteSetsExt, TLC

BarKind  == {"TIME", "VOLUME", "DOLLAR", "TICK"}
SignRule == {"NONE", "TICK_RULE", "LEE_READY"}

(* A BarSpec that __post_init__ accepts: one size knob per kind (interval,  *)
(* threshold or n_ticks), and the knob is positive.                         *)
BarSpec == [kind : BarKind, knob : Nat \ {0}, sign_rule : SignRule]

Side == {-1, 0, 1}

Tick(Symbols) ==
  [sym : Symbols, ts : Nat, price : Nat \ {0}, size : Nat, side : Side]

(* _math.safe_div: null, never inf, on a zero denominator. *)
SafeDiv(num, den) == IF den = 0 THEN << >> ELSE <<num, den>>

(* The sum of the values of a function with a finite domain.  (Written out  *)
(* because a sum that takes an operator, as MapThenSumSet does, is one no   *)
(* prover reads.)                                                           *)
Total(g) ==
  LET sum[D \in SUBSET DOMAIN g] ==
        IF D = {} THEN 0
        ELSE LET x == CHOOSE x \in D : TRUE IN g[x] + sum[D \ {x}]
  IN  sum[DOMAIN g]

-----------------------------------------------------------------------------
(* The stable sort by (symbol, timestamp): simultaneous ticks of a symbol   *)
(* keep their tape order.  Symbols are numbers, so that they have an order. *)

Precedes(frame, j, i) ==
  \/ frame[j].sym < frame[i].sym
  \/ frame[j].sym = frame[i].sym /\ frame[j].ts < frame[i].ts
  \/ frame[j].sym = frame[i].sym /\ frame[j].ts = frame[i].ts /\ j < i

(* Row k of the sorted frame is the tick that k - 1 others precede. *)
Rank(frame, i) == Cardinality({j \in DOMAIN frame : Precedes(frame, j, i)})

(* (SubSeq, of the whole, makes TLC compute a row once and not at each use.) *)
SortTicks(frame) ==
  SubSeq([k \in DOMAIN frame |->
            frame[CHOOSE i \in DOMAIN frame : Rank(frame, i) = k - 1]],
         1, Len(frame))

(* Mutant: a column expression without .over(symbol). *)
AllRowsSoFar(ticks, i) == 1..i

(* The rows a column expression reads under .over(symbol), up to row i. *)
SameSymbol(ticks, i) == {j \in 1..i : ticks[j].sym = ticks[i].sym}

-----------------------------------------------------------------------------
(* Trade signing.  ticks is the sorted frame. *)

Sgn(x) == IF x > 0 THEN 1 ELSE IF x < 0 THEN -1 ELSE 0

(* The sign of the price change; 0 stands for the null of a zero-tick and   *)
(* of the symbol's first trade.                                             *)
RawTickSign(ticks, i) ==
  LET before == SameSymbol(ticks, i) \ {i}
  IN  IF before = {} THEN 0 ELSE Sgn(ticks[i].price - ticks[Max(before)].price)

(* forward_fill over the symbol, then fill_null(0). *)
TickSign(ticks, i) ==
  LET moved == {j \in SameSymbol(ticks, i) : RawTickSign(ticks, j) # 0}
  IN  IF moved = {} THEN 0 ELSE RawTickSign(ticks, Max(moved))

(* The sign column, from the rule, the tick and its filled tick-rule sign.  *)
SignOf(sp, t, tick_sign) ==
  CASE sp.sign_rule = "NONE"      -> 0
    [] sp.sign_rule = "TICK_RULE" -> tick_sign
    [] sp.sign_rule = "LEE_READY" -> IF t.side # 0 THEN t.side ELSE tick_sign

-----------------------------------------------------------------------------
(* Bucket assignment. *)

(* What a tick adds to the running total a boundary is cut on.  A TICK bar  *)
(* counts trades: the row number of a tick is the total before it.          *)
Weight(sp, t) ==
  CASE sp.kind = "VOLUME" -> t.size
    [] sp.kind = "DOLLAR" -> t.size * t.price
    [] sp.kind = "TICK"   -> 1
    [] sp.kind = "TIME"   -> 0

(* Mutant: the running total includes the tick itself. *)
PriorInclusive(sp, ticks, i) ==
  Total([j \in SameSymbol(ticks, i) |-> Weight(sp, ticks[j])])

(* cum_sum over the symbol, less the weight itself: the running total       *)
(* before tick i.                                                           *)
Prior(sp, ticks, i) ==
  Total([j \in SameSymbol(ticks, i) \ {i} |-> Weight(sp, ticks[j])])

(* Mutant: the boundary is rounded up. *)
RawBucketCeil(sp, ts, prior) ==
  IF sp.kind = "TIME" THEN ts \div sp.knob
  ELSE (prior + sp.knob - 1) \div sp.knob

(* TIME: the left-closed clock window of group_by_dynamic.  The other kinds *)
(* cut where the total before the tick passes a multiple of the knob.       *)
RawBucket(sp, ts, prior) ==
  IF sp.kind = "TIME" THEN ts \div sp.knob ELSE prior \div sp.knob

(* Mutant: simultaneous ticks keep their own buckets. *)
TiesApart(ticks, bucket) == bucket

(* _atomic_ties: every tick joins the bucket of the first tick that shares  *)
(* its symbol and timestamp.                                                *)
AtomicTies(ticks, bucket) ==
  [i \in DOMAIN ticks |->
     bucket[Min({j \in SameSymbol(ticks, i) : ticks[j].ts = ticks[i].ts})]]

AssignBucket(sp, ticks) ==
  AtomicTies(ticks,
    [i \in DOMAIN ticks |->
       RawBucket(sp, ticks[i].ts, Prior(sp, ticks, i))])

(* The frame that is grouped: each tick with its sign and bucket columns    *)
(* and the two internal columns they are computed from.                     *)
KeyedRows(sp, ticks) ==
  LET bucket == AssignBucket(sp, ticks)
  IN  [i \in DOMAIN ticks |->
         [sym       |-> ticks[i].sym,
          ts        |-> ticks[i].ts,
          price     |-> ticks[i].price,
          size      |-> ticks[i].size,
          tick_sign |-> TickSign(ticks, i),
          sign      |-> SignOf(sp, ticks[i], TickSign(ticks, i)),
          prior     |-> Prior(sp, ticks, i),
          bucket    |-> bucket[i]]]

-----------------------------------------------------------------------------
(* The reduction.  rows are the keyed rows of one symbol; a group is their  *)
(* restriction to one bucket, a function from row numbers to rows.          *)

(* The rows of a symbol, in their order: the k-th has k - 1 before it. *)
SymbolRows(keyed, s) ==
  LET mine == {i \in DOMAIN keyed : keyed[i].sym = s}
  IN  [k \in 1..Cardinality(mine) |->
         keyed[CHOOSE i \in mine : Cardinality({j \in mine : j < i}) = k - 1]]

Buckets(rows) == {rows[i].bucket : i \in DOMAIN rows}

Members(rows, b) == {i \in DOMAIN rows : rows[i].bucket = b}

Group(rows, b) == [i \in Members(rows, b) |-> rows[i]]

FirstRow(g) == g[Min(DOMAIN g)]
LastRow(g)  == g[Max(DOMAIN g)]

High(g) == Max({g[i].price : i \in DOMAIN g})
Low(g)  == Min({g[i].price : i \in DOMAIN g})

(* Mutant: simultaneous trades count once. *)
DistinctTimes(g) == Cardinality({g[i].ts : i \in DOMAIN g})

Volume(g)   == Total([i \in DOMAIN g |-> g[i].size])
Notional(g) == Total([i \in DOMAIN g |-> g[i].price * g[i].size])
TradeCount(g)  == Cardinality(DOMAIN g)
SignedVolume(g) == Total([i \in DOMAIN g |-> g[i].sign * g[i].size])
SignedDollar(g) == Total([i \in DOMAIN g |-> g[i].sign * g[i].size * g[i].price])
BuyVolume(g)    == Total([i \in {j \in DOMAIN g : g[j].sign > 0} |-> g[i].size])
SellVolume(g)   == Total([i \in {j \in DOMAIN g : g[j].sign < 0} |-> g[i].size])

(* The observation timestamp of a bar is the time of its last tick. *)
ObsTs(g) == LastRow(g).ts

Agg(g) ==
  [ts            |-> ObsTs(g),
   open          |-> FirstRow(g).price,
   high          |-> High(g),
   low           |-> Low(g),
   close         |-> LastRow(g).price,
   volume        |-> Volume(g),
   vwap          |-> SafeDiv(Notional(g), Volume(g)),
   trade_count   |-> TradeCount(g),
   signed_volume |-> SignedVolume(g),
   buy_volume    |-> BuyVolume(g),
   sell_volume   |-> SellVolume(g),
   signed_dollar |-> SignedDollar(g)]

(* Mutant: <= for <, which closes the last bar too. *)
ClosedOrEqual(rows, b) ==
  \E c \in Buckets(rows) : ObsTs(Group(rows, b)) <= ObsTs(Group(rows, c))

(* _finalize's marker: a bar is closed when its symbol has a later bar.     *)
Closed(rows, b) ==
  \E c \in Buckets(rows) : ObsTs(Group(rows, b)) < ObsTs(Group(rows, c))

(* One symbol's bars, by bucket: the values and the closed marker.          *)
BarsOf(rows) ==
  [b \in Buckets(rows) |->
     [value |-> Agg(Group(rows, b)), closed |-> Closed(rows, b)]]

(* build_bars on a frame, one symbol of its output. *)
BuildBars(sp, frame, s) ==
  BarsOf(SymbolRows(KeyedRows(sp, SortTicks(frame)), s))
=============================================================================
