----------------------------- MODULE TickFrame ------------------------------
(***************************************************************************)
(* Whole calls of build_bars on a raw frame that nobody has ordered: a     *)
(* feed appends ticks in any order of time (a late print), some breach the *)
(* raw-tick contract, and a consumer now and then calls build_bars on the  *)
(* frame so far, with one ValidationMode, perhaps having lost a column.    *)
(*                                                                         *)
(* validate_ticks reads the frame in arrival order; the builder sorts it.  *)
(***************************************************************************)
EXTENDS BarBuilder

CONSTANTS
  Symbols,    (* the symbols of the frame                              *)
  Specs,      (* the BarSpecs a caller may pass                        *)
  RawTicks(_),(* the rows that may be appended, for a BarSpec          *)
  Modes(_),   (* the validation modes its consumer may use             *)
  Lost(_),    (* the columns a caller may have lost, or "nothing"      *)
  MaxTicks(_) (* bound: rows of the frame                              *)

ValidationMode == {"OFF", "RESEARCH", "STRICT"}
Column         == {"symbol", "timestamp", "price", "size", "quotes"}

(* A row as it comes: crossed says bid > ask, nulls names its null cells    *)
(* (what the row says in such a cell means nothing).                        *)
RawTick ==
  [sym : Symbols, ts : Nat, price : Int, size : Int, side : Side,
   crossed : BOOLEAN, nulls : SUBSET {"timestamp", "price", "size"}]

ASSUME FrameAssumption ==
  /\ Symbols \subseteq Int
  /\ Specs \subseteq BarSpec
  /\ \A sp \in Specs :
       /\ RawTicks(sp) \subseteq RawTick
       /\ Modes(sp) \subseteq ValidationMode
       /\ Lost(sp) \subseteq Column \cup {"nothing"}
       /\ MaxTicks(sp) \in Nat

VARIABLES
  spec,      (* the consumer's BarSpec, fixed                              *)
  mode,      (* the consumer's ValidationMode, fixed                       *)
  frame,     (* the raw frame so far, in arrival order                     *)
  input,     (* the frame of the last call that returned bars              *)
  outcome    (* how the last call ended: "none", "bars", "sabia_error"     *)
             (* (SabiaValidationError) or "polars_error" (anything else)   *)

vars == <<spec, mode, frame, input, outcome>>

-----------------------------------------------------------------------------
(* validate_ticks. *)

Null(t, column) == column \in t.nulls

(* The step from the symbol's previous row, in arrival order, is negative.  *)
(* A step from or to a null timestamp is null, and any() passes over it.    *)
StepsBack(fr, i) ==
  LET before == SameSymbol(fr, i) \ {i}
      last   == Max(before)
  IN  /\ before # {}
      /\ ~ Null(fr[i], "timestamp") /\ ~ Null(fr[last], "timestamp")
      /\ fr[i].ts < fr[last].ts

BadPrice(t) == ~ Null(t, "price") /\ t.price <= 0
BadSize(t)  == ~ Null(t, "size") /\ t.size < 0

(* Mutant: the order of the rows is not checked. *)
BadRowInAnyOrder(fr, i) == BadPrice(fr[i]) \/ BadSize(fr[i])

(* Mutant: a negative size passes. *)
BadRowAnySize(fr, i) == StepsBack(fr, i) \/ BadPrice(fr[i])

BadRow(fr, i) == StepsBack(fr, i) \/ BadPrice(fr[i]) \/ BadSize(fr[i])

BadFrame(fr) == \E i \in DOMAIN fr : BadRow(fr, i)

(* The book is looked at where both quote columns are.  (Of a frame without *)
(* symbols the order is checked over all rows: build_bars refuses it next,  *)
(* with the same error.)                                                    *)
TicksRejected(fr, lost) ==
  \/ lost \in {"timestamp", "price", "size"}
  \/ BadFrame(fr)
  \/ lost # "quotes" /\ \E i \in DOMAIN fr : fr[i].crossed

(* The columns the plan of build_bars reads once the symbol is there; and   *)
(* group_by_dynamic takes no null timestamp.                                *)
PlanFails(sp, fr, lost) ==
  \/ lost \in {"timestamp", "price", "size"}
  \/ lost = "quotes" /\ sp.sign_rule = "LEE_READY"
  \/ sp.kind = "TIME" /\ \E i \in DOMAIN fr : Null(fr[i], "timestamp")

(* Mutant: RESEARCH takes a bad tick as a warning. *)
OutcomeSoft(sp, md, fr, lost) ==
  IF md = "RESEARCH" /\ TicksRejected(fr, lost) THEN "warned" ELSE "bars"

(* The guards of build_bars in their order, and how the call ends. *)
Outcome(sp, md, fr, lost) ==
  IF md # "OFF" /\ TicksRejected(fr, lost) THEN "sabia_error"
  ELSE IF lost = "symbol" THEN "sabia_error"
  ELSE IF PlanFails(sp, fr, lost) THEN "polars_error"
  ELSE "bars"

-----------------------------------------------------------------------------
Init ==
  /\ spec \in Specs
  /\ mode \in Modes(spec)
  /\ frame = << >>
  /\ input = << >>
  /\ outcome = "none"

(* The feed appends a row. *)
Arrive(t) ==
  /\ Len(frame) < MaxTicks(spec)
  /\ frame' = Append(frame, t)
  /\ UNCHANGED <<spec, mode, input, outcome>>

(* build_bars(frame, spec, validate=mode); on an exception the caller keeps *)
(* the bars it had.                                                         *)
Build(lost) ==
  /\ frame # << >>
  /\ outcome' = Outcome(spec, mode, frame, lost)
  /\ input' = IF outcome' = "bars" THEN frame ELSE input
  /\ UNCHANGED <<spec, mode, frame>>

Next ==
  \/ \E t \in RawTicks(spec) : Arrive(t)
  \/ \E lost \in Lost(spec) : Build(lost)

Spec == Init /\ [][Next]_vars

-----------------------------------------------------------------------------
(* The bars the caller holds, and one symbol's keyed rows behind them. *)
RowsOf(sp, fr, s) == SymbolRows(KeyedRows(sp, SortTicks(fr)), s)

Held(s) == BarsOf(RowsOf(spec, input, s))

(* A frame without a null cell.  The tick contract lets nulls through, but  *)
(* BarBuilder says nothing of the bars built over them, nor do the          *)
(* properties: with timestamps 1, 2, null, 0 a validated call does rewrite  *)
(* a closed bar, as the null hides the step back.                           *)
Whole(fr) == \A i \in DOMAIN fr : fr[i].nulls = {}

(* The bars held are those of the whole frame.  Invariants of the bars are  *)
(* stated there: every input is the whole frame when its call returns.      *)
Answered == input = frame /\ Whole(frame)

(* Every variable has its type. *)
TypeOK ==
  /\ spec \in Specs
  /\ mode \in Modes(spec)
  /\ frame \in Seq(RawTick)
  /\ input \in Seq(RawTick)
  /\ outcome \in {"none", "bars", "sabia_error", "polars_error"}

(* No trade is lost and none is counted twice: the bars of a symbol carry   *)
(* the volume and the number of trades its ticks bring, whatever the order  *)
(* they arrived in, the ties among them and the boundaries they cross.      *)
TradesAreConserved ==
  Answered => \A s \in Symbols :
    LET mine == {i \in DOMAIN input : input[i].sym = s}
        rows == RowsOf(spec, input, s)
    IN  /\ Total([b \in Buckets(rows) |-> Volume(Group(rows, b))])
             = Total([i \in mine |-> input[i].size])
        /\ Total([b \in Buckets(rows) |-> TradeCount(Group(rows, b))])
             = Cardinality(mine)

(* Bars built from validated ticks that have no nulls are a frame validate  *)
(* accepts (strictly increasing timestamps, low <= open, close <= high),    *)
(* with vwap between low and high, null exactly without volume, and order   *)
(* flow that splits no more than the volume: signed = buy - sell.           *)
BarIsSound(v) ==
  /\ v.low <= v.open /\ v.low <= v.close
  /\ v.open <= v.high /\ v.close <= v.high
  /\ v.vwap = << >> <=> v.volume = 0
  /\ v.vwap # << >> =>
       /\ v.low * v.vwap[2] <= v.vwap[1]
       /\ v.vwap[1] <= v.high * v.vwap[2]
  /\ v.signed_volume = v.buy_volume - v.sell_volume
  /\ v.buy_volume + v.sell_volume <= v.volume

BuiltBarsMeetTheContract ==
  Answered /\ mode # "OFF" =>
    \A s \in Symbols :
      LET bars == Held(s)
      IN  /\ \A b \in DOMAIN bars : BarIsSound(bars[b].value)
          /\ \A b, c \in DOMAIN bars :
               b < c => bars[b].value.ts < bars[c].value.ts

(* The frame with the rows of two ties exchanged. *)
Exchange(fr, i, j) == [fr EXCEPT ![i] = fr[j], ![j] = fr[i]]

Tied(fr, i, j) == fr[i].sym = fr[j].sym /\ fr[i].ts = fr[j].ts

(* What no order of simultaneous ticks may move: which bar each trade goes  *)
(* to, and every column but open and close (build_bars: "only intra-bar     *)
(* open/close reflect tape order").                                         *)
OrderFree(v) ==
  <<v.ts, v.high, v.low, v.volume, v.vwap, v.trade_count>>

Flow(v) ==
  <<v.signed_volume, v.buy_volume, v.sell_volume, v.signed_dollar>>

SameUnderTieOrder(View(_)) ==
  Answered => \A i, j \in DOMAIN input : i < j /\ Tied(input, i, j) =>
    LET s  == input[i].sym
        r1 == RowsOf(spec, input, s)
        r2 == RowsOf(spec, Exchange(input, i, j), s)
    IN  /\ Buckets(r1) = Buckets(r2)
        /\ \A b \in Buckets(r1) :
             /\ View(Agg(Group(r1, b))) = View(Agg(Group(r2, b)))
             /\ Closed(r1, b) = Closed(r2, b)

TieOrderKeepsBars == SameUnderTieOrder(OrderFree)

(* The documented claim in full: order flow, too, is independent of the     *)
(* order of simultaneous ticks.                                             *)
TieOrderKeepsFlow == SameUnderTieOrder(Flow)

(* Under validation the bars a consumer was once given as closed are in     *)
(* every later answer, unchanged, as long as the feed brings no nulls: a    *)
(* late print is refused, for good, rather than rewriting history.          *)
ValidatedBuildsAppendOnly ==
  [][mode # "OFF" /\ input # << >> /\ input' # input /\ Whole(input') =>
       \A s \in Symbols :
         LET was == Held(s)
             is  == BarsOf(RowsOf(spec, input', s)) IN
         \A b \in DOMAIN was : was[b].closed =>
           b \in DOMAIN is /\ is[b] = was[b]]_vars

(* Without validation a late print rewrites a suffix only.  Of the bars one *)
(* print earlier, every one before the last that had ended when the print   *)
(* is stamped stays as it was, and other symbols keep all theirs.  (Of      *)
(* frames whose prices and sizes are what the contract asks: after a        *)
(* negative size the running total may fall back into a bar long past.)     *)
LatePrintRewritesOnlySuffix ==
  Answered /\ input # << >>
  /\ (\A i \in DOMAIN input : input[i].price > 0 /\ input[i].size >= 0) =>
    LET n == Len(input)
        t == input[n]
    IN  \A s \in Symbols :
          LET was == RowsOf(spec, SubSeq(input, 1, n - 1), s)
              is  == RowsOf(spec, input, s)
              Ended(b) == ObsTs(Group(was, b))
              Kept(b) == \/ t.sym # s
                         \/ \E c \in Buckets(was) :
                              Ended(b) < Ended(c) /\ Ended(c) <= t.ts
          IN  \A b \in Buckets(was) :
                Kept(b) => /\ b \in Buckets(is)
                           /\ Agg(Group(is, b)) = Agg(Group(was, b))
=============================================================================
