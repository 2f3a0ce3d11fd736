------------------------------ MODULE TickBars ------------------------------
(***************************************************************************)
(* A live feed aggregated by build_bars.  Ticks arrive in time order for   *)
(* each symbol (simultaneous ticks are legal), the symbols interleave      *)
(* freely, and after every tick the bars of the whole frame are built      *)
(* again: that is how a consumer of this library follows a market, since   *)
(* build_bars keeps nothing between calls.                                 *)
(*                                                                         *)
(* Every column build_bars computes looks only backward ("sorting then     *)
(* accumulating forward never looks ahead"), so the columns of a row are   *)
(* known when its tick arrives.  The state keeps them: rows[s] is the      *)
(* keyed frame of symbol s, extended by one row per tick.  The invariant   *)
(* RowsAreTheBatch says that this is exactly what the whole-frame          *)
(* evaluation of BarBuilder computes from the raw frame.                   *)
(***************************************************************************)
EXTENDS BarBuilder

CONSTANTS
  Symbols,   (* the symbols of the feed                          *)
  Specs,     (* the BarSpecs a caller may pass                   *)
  Prints,    (* the trades that print: [price, size, side]       *)
  MaxTs,     (* bound: the last timestamp of the feed            *)
  MaxTicks   (* bound: ticks of the whole feed                   *)

ASSUME SymbolsAssumption == Symbols \subseteq Int
ASSUME SpecsAssumption  == Specs \subseteq BarSpec
ASSUME PrintsAssumption ==
  Prints \subseteq [price : Nat \ {0}, size : Nat, side : Side]
ASSUME BoundsAssumption == MaxTs \in Nat /\ MaxTicks \in Nat

VARIABLES
  spec,      (* the BarSpec of this consumer, fixed              *)
  frame,     (* the raw frame, all symbols, in arrival order     *)
  rows       (* rows[s]: the keyed, sorted frame of symbol s     *)

vars == <<spec, frame, rows>>

Row ==
  [sym : Symbols, ts : Nat, price : Nat \ {0}, size : Nat,
   tick_sign : Side, sign : Side, prior : Nat, bucket : Nat]

-----------------------------------------------------------------------------
(* The columns of the next row of a symbol, from its last row. *)

LastOf(rs) == rs[Len(rs)]

NextTickSign(rs, t) ==
  IF rs = << >> THEN 0
  ELSE IF t.price = LastOf(rs).price THEN LastOf(rs).tick_sign
       ELSE Sgn(t.price - LastOf(rs).price)

NextPrior(sp, rs) ==
  IF rs = << >> THEN 0 ELSE LastOf(rs).prior + Weight(sp, LastOf(rs))

(* Mutant: ties may straddle a boundary. *)
NextBucketUntied(sp, rs, t) == RawBucket(sp, t.ts, NextPrior(sp, rs))

(* Mutant: the bucket of the total short by one. *)
NextBucketShort(sp, rs, t) == RawBucket(sp, t.ts, NextPrior(sp, rs) - 1)

NextBucket(sp, rs, t) ==
  IF rs # << >> /\ LastOf(rs).ts = t.ts
  THEN LastOf(rs).bucket
  ELSE RawBucket(sp, t.ts, NextPrior(sp, rs))

NextRow(sp, rs, t) ==
  [sym       |-> t.sym,
   ts        |-> t.ts,
   price     |-> t.price,
   size      |-> t.size,
   tick_sign |-> NextTickSign(rs, t),
   sign      |-> SignOf(sp, t, NextTickSign(rs, t)),
   prior     |-> NextPrior(sp, rs),
   bucket    |-> NextBucket(sp, rs, t)]

-----------------------------------------------------------------------------
Init ==
  /\ spec \in Specs
  /\ frame = << >>
  /\ rows = [s \in Symbols |-> << >>]

(* One more tick of symbol s, and the bars built again. *)
Trade(s, t) ==
  /\ Len(frame) < MaxTicks
  /\ rows[s] # << >> => LastOf(rows[s]).ts <= t.ts
  /\ frame' = Append(frame, t)
  /\ rows' = [rows EXCEPT ![s] = Append(@, NextRow(spec, @, t))]
  /\ UNCHANGED spec

Ticks(s) ==
  {[sym |-> s, ts |-> t, price |-> p.price, size |-> p.size, side |-> p.side] :
     t \in 0..MaxTs, p \in Prints}

Next == \E s \in Symbols : \E t \in Ticks(s) : Trade(s, t)

Spec == Init /\ [][Next]_vars

-----------------------------------------------------------------------------
(* The bars a consumer sees are BarsOf(rows[s]); their closed markers split *)
(* the buckets in two.                                                      *)
ClosedBuckets(rs) == {b \in Buckets(rs) : Closed(rs, b)}
OpenBuckets(rs)   == Buckets(rs) \ ClosedBuckets(rs)

(* Every variable has its type. *)
TypeOK ==
  /\ spec \in Specs
  /\ frame \in Seq(Tick(Symbols))
  /\ rows \in [Symbols -> Seq(Row)]

(* Evaluating build_bars on the whole raw frame gives the columns that were *)
(* known as each tick arrived: sorting, signing, accumulating and tying     *)
(* never look ahead, and one symbol's columns never read another's rows     *)
(* (bars.py: "the transform is pure and causal").                           *)
RowsAreTheBatch ==
  LET keyed == KeyedRows(spec, SortTicks(frame))
  IN  \A s \in Symbols : rows[s] = SymbolRows(keyed, s)

(* No two rows of a symbol that share a timestamp are in different buckets, *)
(* and buckets follow time order (the claim of _atomic_ties that "first ==  *)
(* min"); so does the running total they are cut on.                        *)
InTimeOrder(rs) ==
  \A i, j \in DOMAIN rs :
    /\ i <= j => /\ rs[i].ts <= rs[j].ts
                 /\ rs[i].prior <= rs[j].prior
                 /\ rs[i].bucket <= rs[j].bucket
    /\ rs[i].ts = rs[j].ts => rs[i].bucket = rs[j].bucket

BucketsFollowTime == \A s \in Symbols : InTimeOrder(rows[s])

(* How the columns of neighbouring rows hang together: the total grows by   *)
(* the weight of the row before, a tie is never ahead of its own bucket,    *)
(* and the first row of a bar is in the bucket its own total gives.         *)
CutWhereDue(sp, rs) ==
  \A i \in DOMAIN rs :
    LET own == RawBucket(sp, rs[i].ts, rs[i].prior)
    IN  /\ rs[i].bucket <= own
        /\ i > 1 => rs[i].prior = rs[i-1].prior + Weight(sp, rs[i-1])
        /\ i = 1 \/ rs[i-1].bucket # rs[i].bucket => rs[i].bucket = own

(* The inductive invariant behind the theorems of TickBarsProofs.           *)
IInv ==
  /\ TypeOK
  /\ BucketsFollowTime
  /\ \A s \in Symbols : CutWhereDue(spec, rows[s])

(* Bar timestamps are strictly increasing per symbol: the order validate    *)
(* demands of a bar frame holds of everything build_bars makes.             *)
BarTimesIncrease ==
  \A s \in Symbols : \A b, c \in Buckets(rows[s]) :
    b < c => ObsTs(Group(rows[s], b)) < ObsTs(Group(rows[s], c))

(* The last bar of a symbol, and only that one, is open. *)
OnlyLastBarOpen ==
  \A s \in Symbols : \A b \in Buckets(rows[s]) :
    Closed(rows[s], b) <=> \E c \in Buckets(rows[s]) : b < c

(* A clocked or accumulated bar is cut where its kind says.  The first tick *)
(* of a bar finds the running total inside the bar's own band, and a bar    *)
(* closes only when the total through its last tick has reached the end of  *)
(* that band: a boundary-crossing tick completes the bar it lands in.       *)
ClosedBarFilledItsBand ==
  spec.kind # "TIME" =>
    \A s \in Symbols : \A b \in Buckets(rows[s]) :
      LET g == Group(rows[s], b)
      IN  /\ b * spec.knob <= FirstRow(g).prior
          /\ FirstRow(g).prior < (b + 1) * spec.knob
          /\ Closed(rows[s], b) =>
               (b + 1) * spec.knob <= LastRow(g).prior + Weight(spec, LastRow(g))

(* A closed bar is final: no later tick of any symbol changes its columns   *)
(* or takes back the marker that downstream code filters on.                *)
ClosedBarsAreFinal ==
  [][\A s \in Symbols : \A b \in ClosedBuckets(rows[s]) :
        /\ b \in ClosedBuckets(rows'[s])
        /\ Agg(Group(rows'[s], b)) = Agg(Group(rows[s], b))]_vars

(* The abstract view: each symbol's closed bars are its final ones. *)
Values(rs, bs) == {Agg(Group(rs, b)) : b \in bs}

Log == INSTANCE BarLog WITH
         final <- [s \in Symbols |-> Values(rows[s], ClosedBuckets(rows[s]))],
         open  <- [s \in Symbols |-> Values(rows[s], OpenBuckets(rows[s]))]

(* What a consumer is promised: bars go into an append-only log of final    *)
(* bars, each exactly as it was last shown while open, in time order.       *)
ImplementsBarLog == Log!LogSpec
=============================================================================
