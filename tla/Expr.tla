-------------------------------- MODULE Expr --------------------------------
(***************************************************************************)
(* The expressions the features are built from (the Polars expressions of  *)
(* _expr.py and _math.py): an expression is a function from frames to      *)
(* columns.                                                                *)
(*                                                                         *)
(* A frame is a sequence of bars.  A bar has a level for every role, a     *)
(* natural number: Null when the vendor has no value, 0 for a zero.        *)
(* Levels are compared and subtracted, so a flat stretch, a rise and a     *)
(* fall are told apart; what they add up to is not computed.               *)
(*                                                                         *)
(* A value is "null", "nan" (an infinity or a NaN), or a number            *)
(*   lvl    its level when it is read off cells; 1, 0 or -1, its sign,     *)
(*          when it is computed                                            *)
(*   log    the sign of its logarithm                                      *)
(*   on     the cells it was computed from, as <<sym, t, role>>            *)
(*   guess  whether a null was taken for something else on the way         *)
(* Numbers are in general position: a sum, a difference or a dispersion is *)
(* zero only when its terms make it so (all zero, or all the same level).  *)
(***************************************************************************)
EXTENDS Integers, Sequences, FiniteSetsExt, TLC

CONSTANT Symbols

(* The roles the factories default to, and the depth of the book by level. *)
Close == "close@tr"
CloseSplit == "close@split"
CloseRaw == "close@raw"
OpenTr == "open@tr"
Open == "open@split"
High == "high@split"
Low == "low@split"
Vwap == "vwap@split"
Volume == "volume@split"
VolumeRaw == "volume@raw"
Dvol == "dvol@raw"
SignedVolume == "signed_volume@raw"
Market == "market@ret"
Bid == "bid@raw"
Ask == "ask@raw"
BidSize == "bid_size@raw"
AskSize == "ask_size@raw"
BidDepth == <<"bid_size_l0@raw", "bid_size_l1@raw">>
AskDepth == <<"ask_size_l0@raw", "ask_size_l1@raw">>
Depths == {BidDepth[1], BidDepth[2], AskDepth[1], AskDepth[2]}

Prices == {Close, CloseSplit, CloseRaw, OpenTr, Open, High, Low, Vwap}
Sizes == {Volume, VolumeRaw, Dvol, SignedVolume, BidSize, AskSize} \cup Depths
Roles == Prices \cup Sizes \cup {Market, Bid, Ask}

Null == -1

(* What a feed delivers: a clean bar, one without any value, one that       *)
(* repeats the last close and trades nothing, or one with a zero among its  *)
(* prices: the low, the open, the close, or all of them.                    *)
ZeroKinds == {"zero low", "zero open", "zero close", "zero"}
Kinds == {"clean", "gap", "halt"} \cup ZeroKinds
Bars == [sym : Symbols, t : Nat, kind : Kinds, cells : [Roles -> Nat \cup {Null}]]
Frames == Seq(Bars)

NaV == [kind |-> "null"]
NaN == [kind |-> "nan"]
Number(lvl, log, on, guess) ==
  [kind |-> "number", lvl |-> lvl, log |-> log, on |-> on, guess |-> guess]
IsNumber(v) == v.kind = "number"
IsNull(v) == v.kind = "null"

-----------------------------------------------------------------------------
(* What one row of an operation is, from the same row of its operands.      *)

SignOf(n) == IF n > 0 THEN 1 ELSE IF n < 0 THEN -1 ELSE 0
Level(v) == v.lvl \notin {1, -1}           (* read off cells, not computed *)
Cells(vs) == UNION {v.on : v \in vs}
Truth(b) == IF b THEN 1 ELSE 0
Guessed(vs) == \E v \in vs : v.guess
From(vs, lvl, log) == Number(lvl, log, Cells(vs), Guessed(vs))

(* A strict operation: null if an operand is, else NaN if one is. *)
Strict(vs, number) ==
  IF \E v \in vs : IsNull(v) THEN NaV ELSE IF NaN \in vs THEN NaN ELSE number

Cell(bar, role) ==
  IF bar.cells[role] = Null THEN NaV
  ELSE Number(bar.cells[role], 1, {<<bar.sym, bar.t, role>>}, FALSE)

DifferenceLevel(x, y) ==
  IF Level(x) /\ Level(y) THEN SignOf(x.lvl - y.lvl)
  ELSE IF x.lvl = 0 THEN - SignOf(y.lvl) ELSE IF y.lvl = 0 THEN SignOf(x.lvl) ELSE 1

SumLevel(x, y) ==
  IF Level(x) /\ Level(y) THEN x.lvl + y.lvl
  ELSE IF x.lvl = 0 THEN y.lvl ELSE IF y.lvl = 0 THEN x.lvl ELSE 1

(* A product of levels is a level: only its sign matters to what follows. *)
ProductLevel(x, y) == SignOf(x.lvl) * SignOf(y.lvl)

QuotientLog(x, y) == IF Level(x) /\ Level(y) THEN SignOf(x.lvl - y.lvl) ELSE 1

(* Levels that are all the same, or all zero: no dispersion. *)
Levels(vs) == {v.lvl : v \in vs}
Flat(vs) == \E l \in Levels(vs) : l \notin {1, -1} /\ \A v \in vs : v.lvl = l

(* up and down clip at zero from below and from above.  safe_log and        *)
(* safe_sqrt are null outside their domain.  "negative" keeps what is below *)
(* zero: the sign of a computed number is taken to be the one that is kept. *)
UnaryOps == {"abs", "neg", "sign", "up", "down", "safe_log", "safe_sqrt", "negative"}

Outside(op, x) ==
  \/ op = "safe_log" /\ x.lvl <= 0
  \/ op = "safe_sqrt" /\ x.lvl < 0
  \/ op = "negative" /\ x.lvl = 0

UnaryLevel(op, x) ==
  CASE op = "abs"  -> IF x.lvl < 0 THEN -x.lvl ELSE x.lvl
    [] op = "neg"  -> - SignOf(x.lvl)
    [] op = "up"   -> Truth(x.lvl > 0)
    [] op = "down" -> - Truth(x.lvl < 0)
    [] op = "safe_log" -> x.log
    [] op = "negative" -> 1
    [] OTHER -> SignOf(x.lvl)

UnaryOf(op, x) == IF Outside(op, x) THEN NaV ELSE From({x}, UnaryLevel(op, x), 1)

DispersionOps == {"std", "var", "mad", "moment"}
RollingOps == {"mean", "sum", "max", "min", "pctile", "slope"} \cup DispersionOps

(* A full window.  A standardized moment of a flat window is NaN. *)
WindowLevel(how, vs) ==
  CASE how = "max" -> Max(Levels(vs))
    [] how = "min" -> Min(Levels(vs))
    [] how = "sum" -> Truth(Levels(vs) # {0})
    [] how \in {"pctile", "slope", "moment"} -> 1
    [] OTHER -> IF ~ Flat(vs) THEN 1 ELSE IF how = "mean" THEN Max(Levels(vs)) ELSE 0

WindowOf(how, vs) ==
  IF how = "moment" /\ Flat(vs) THEN NaN ELSE From(vs, WindowLevel(how, vs), 1)

(* rolling_*(w, min_samples=w): null unless the w rows are there and none   *)
(* is null.  Mutants: min_samples=1; a row late.                            *)
RolledPartial(how, x, w, i) ==
  LET vs == {x[j] : j \in {j \in (i - w + 1)..i : j >= 1}} \ {NaV}
  IN  IF vs = {} THEN NaV ELSE Strict(vs, WindowOf(how, vs))

RolledLate(how, x, w, i) ==
  IF i <= w THEN NaV
  ELSE LET vs == {x[j] : j \in (i - w + 1)..i} IN Strict(vs, WindowOf(how, vs))

Rolled(how, x, w, i) ==
  IF i < w THEN NaV
  ELSE LET vs == {x[j] : j \in (i - w + 1)..i} IN Strict(vs, WindowOf(how, vs))

(* E[xy] - E[x]E[y] over full windows of all three; zero when x or y is flat. *)
Covariance(x, y, w, i) ==
  IF i < w THEN NaV
  ELSE LET xs == {x[j] : j \in (i - w + 1)..i}
           ys == {y[j] : j \in (i - w + 1)..i}
       IN  Strict(xs \cup ys,
                  From(xs \cup ys, IF Flat(xs) \/ Flat(ys) THEN 0 ELSE 1, 1))

(* ewm_mean(adjust=False): null where its input is null or has not had      *)
(* enough samples.  A null row is passed over, not replaced.  Rows older    *)
(* than the memory weigh less than the tolerance, yet keep it from zero.    *)
Smoothed(x, samples, memory, i) ==
  LET seen == {j \in 1..i : ~ IsNull(x[j])}
      near == {x[j] : j \in {j \in seen : j > i - memory}}
  IN  IF i \notin seen \/ Cardinality(seen) < samples THEN NaV
      ELSE IF \E j \in seen : x[j] = NaN THEN NaN
      ELSE From(near, IF \A j \in seen : x[j].lvl = 0 THEN 0 ELSE 1, 1)

(* A comparison: a NaN or an infinity is above every number. *)
Difference(x, y) == IF x = NaN THEN 1 ELSE IF y = NaN THEN -1 ELSE DifferenceLevel(x, y)
Compared(op, x, y) ==
  IF NaV \in {x, y} THEN NaV
  ELSE From({v \in {x, y} : IsNumber(v)},
            Truth(Difference(x, y) = Truth(op = "above")), 1)

(* x & y: false when one is false, null when the other does not decide. *)
Conjunction(x, y) ==
  IF NaV \notin {x, y} THEN From({x, y}, Truth(x.lvl = 1 /\ y.lvl = 1), 1)
  ELSE IF \E v \in {x, y} \ {NaV} : v.lvl = 0 THEN CHOOSE v \in {x, y} \ {NaV} : TRUE
  ELSE NaV

(* when(c).then(x).otherwise(y): a null condition takes the otherwise branch. *)
Given(c, v) ==
  IF ~ IsNumber(v) THEN v
  ELSE IF IsNull(c) THEN [v EXCEPT !.guess = TRUE]
  ELSE [v EXCEPT !.on = @ \cup c.on, !.guess = @ \/ c.guess]
Chosen(c, x, y) == Given(c, IF IsNumber(c) /\ c.lvl = 1 THEN x ELSE y)

(* max_horizontal and min_horizontal pass over a null. *)
Extreme(how, vs) ==
  LET there == vs \ {NaV}
      v == WindowOf(how, there)
  IN  IF there = {} THEN NaV ELSE IF NaN \in there THEN NaN
      ELSE [v EXCEPT !.guess = @ \/ there # vs]

(* Within a timestamp: a value is ranked among the values there are, and    *)
(* standardized by their mean and dispersion.                               *)
Ranked(v, peers) ==
  IF ~ IsNumber(v) THEN v ELSE From({p \in peers : IsNumber(p)}, 1, 1)

Standardized(v, peers, count) ==
  IF ~ IsNumber(v) THEN v
  ELSE IF count < 2 \/ Flat(peers \ {NaV}) THEN NaV ELSE From(peers \ {NaV}, 1, 1)

LevelOf(op, x, y) ==
  CASE op = "minus" -> DifferenceLevel(x, y)
    [] op = "plus"  -> SumLevel(x, y)
    [] OTHER        -> ProductLevel(x, y)

Computed(op, x, y) ==
  IF op = "over" /\ y.lvl = 0 THEN NaN
  ELSE From({x, y}, LevelOf(op, x, y), IF op = "over" THEN QuotientLog(x, y) ELSE 1)

BinaryOf(op, x, y) == Strict({x, y}, Computed(op, x, y))

-----------------------------------------------------------------------------
(* The rows of bar i's symbol up to it, those of its timestamp, and the     *)
(* bars at some places of a frame, in their order.                          *)
Age(bars, i) == Cardinality({j \in 1..i : bars[j].sym = bars[i].sym})
SameTime(bars, i) == {j \in DOMAIN bars : bars[j].t = bars[i].t}
Rows(bars, s) == {i \in DOMAIN bars : bars[i].sym = s}
Picked(bars, I) ==
  [k \in 1..Cardinality(I) |->
     bars[CHOOSE i \in I : Cardinality({j \in I : j < i}) = k - 1]]

(* A column, as a tuple, and any function: each row is computed once. *)
Column(rows) == SubSeq(rows, 1, Len(rows))
Once(f) == CHOOSE g \in {f} : g = f

-----------------------------------------------------------------------------
(* Expressions. *)
Constant(v) == [bars \in Frames |-> Column([i \in DOMAIN bars |-> v])]
Lit(sign) == Constant(Number(sign, 1, {}, FALSE))
None == Constant(NaV)

Col(role) ==
  [bars \in Frames |-> Column([i \in DOMAIN bars |-> Cell(bars[i], role)])]

Shift(x, n) ==
  [bars \in Frames |->
     LET c == x[bars]
     IN  Column([i \in DOMAIN bars |-> IF i - n \in DOMAIN bars THEN c[i - n] ELSE NaV])]

(* abs, neg, sign, up, down, ... *)
Unary(op, x) ==
  [bars \in Frames |->
     LET c == x[bars]
     IN  Column([i \in DOMAIN bars |-> Strict({c[i]}, UnaryOf(op, c[i]))])]

Binary(op, x, y) ==
  [bars \in Frames |->
     LET c == x[bars]
         d == y[bars]
     IN  Column([i \in DOMAIN bars |-> BinaryOf(op, c[i], d[i])])]
Minus(x, y) == Binary("minus", x, y)
Plus(x, y)  == Binary("plus", x, y)
Times(x, y) == Binary("times", x, y)
Over(x, y)  == Binary("over", x, y)      (* the bare x / y *)

Comparison(op, x, y) ==
  [bars \in Frames |->
     LET c == x[bars]
         d == y[bars]
     IN  Column([i \in DOMAIN bars |-> Compared(op, c[i], d[i])])]
Above(x, y) == Comparison("above", x, y)     (* x > y *)
Equal(x, y) == Comparison("equal", x, y)     (* x == y *)

Rolling(how, x, w) ==
  [bars \in Frames |->
     LET c == x[bars] IN Column([i \in DOMAIN bars |-> Rolled(how, c, w, i)])]

Cov(x, y, w) ==
  [bars \in Frames |->
     LET c == x[bars]
         d == y[bars]
     IN  Column([i \in DOMAIN bars |-> Covariance(c, d, w, i)])]

Ewm(x, samples, memory) ==
  [bars \in Frames |->
     LET c == x[bars] IN Column([i \in DOMAIN bars |-> Smoothed(c, samples, memory, i)])]

(* max_horizontal and min_horizontal. *)
Horizontal(how, xs) ==
  [bars \in Frames |->
     LET c == Column([a \in DOMAIN xs |-> xs[a][bars]])
     IN  Column([i \in DOMAIN bars |-> Extreme(how, {c[a][i] : a \in DOMAIN xs})])]

When(c, x, y) ==
  [bars \in Frames |->
     LET test == c[bars]
         then == x[bars]
         otherwise == y[bars]
     IN  Column([i \in DOMAIN bars |-> Chosen(test[i], then[i], otherwise[i])])]

(* x & y *)
Both(x, y) ==
  [bars \in Frames |->
     LET c == x[bars]
         d == y[bars]
     IN  Column([i \in DOMAIN bars |-> Conjunction(c[i], d[i])])]

(* x.is_not_null() *)
Present(x) ==
  [bars \in Frames |->
     LET c == x[bars]
     IN  Column([i \in DOMAIN bars |-> Number(Truth(~ IsNull(c[i])), 1, {}, FALSE)])]

(* x.fill_nan(None) *)
FillNan(x) ==
  [bars \in Frames |->
     LET c == x[bars]
     IN  Column([i \in DOMAIN bars |-> IF c[i] = NaN THEN NaV ELSE c[i]])]

(* x.over(symbol): on the rows of each symbol alone. *)
Within(x) ==
  [bars \in Frames |->
     LET symbols == {bars[i].sym : i \in DOMAIN bars}
         group == Once([s \in symbols |-> x[Picked(bars, Rows(bars, s))]])
     IN  Column([i \in DOMAIN bars |-> group[bars[i].sym][Age(bars, i)]])]

(* Within a timestamp. *)
Slice(how, x) ==
  [bars \in Frames |->
     LET c == x[bars]
         peers(i) == {c[j] : j \in SameTime(bars, i)}
         count(i) == Cardinality({j \in SameTime(bars, i) : IsNumber(c[j])})
     IN  Column([i \in DOMAIN bars |->
                   IF how = "xs_rank" THEN Ranked(c[i], peers(i))
                   ELSE Standardized(c[i], peers(i), count(i))])]

Masked(x, n) ==
  [bars \in Frames |->
     LET c == x[bars]
     IN  Column([i \in DOMAIN bars |-> IF Age(bars, i) < n THEN NaV ELSE c[i]])]

-----------------------------------------------------------------------------
(* _math.py and _expr.py. *)

Zero == Lit(0)

(* Mutant: without the guard. *)
safe_div_bare(x, y) == Over(x, y)
safe_div(x, y) == When(Equal(y, Zero), None, Over(x, y))
safe_log(x)    == Unary("safe_log", x)
safe_sqrt(x)   == Unary("safe_sqrt", x)
log_return(current, base) == safe_log(safe_div(current, base))
bar_return(role) == log_return(Col(role), Shift(Col(role), 1))
Diff(x) == Minus(x, Shift(x, 1))

rolling_cov(x, y, w) == Cov(x, y, w)
rolling_corr(x, y, w) ==
  safe_div(rolling_cov(x, y, w),
           safe_sqrt(Times(rolling_cov(x, x, w), rolling_cov(y, y, w))))
rolling_slope(x, y, w) == safe_div(rolling_cov(x, y, w), rolling_cov(x, x, w))

grouped(x) == Within(x)

(* Mutant: one row early. *)
emit_after_early(x, n) == Masked(x, n - 1)
emit_after(x, n) == Masked(x, n)
=============================================================================
