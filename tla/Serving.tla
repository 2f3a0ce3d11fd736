------------------------------ MODULE Serving ------------------------------
(***************************************************************************)
(* One feature, evaluated twice: over the whole frame (the batch of        *)
(* compute), and at every closed bar over the last min_history bars, as an *)
(* online engine does that buffers what the feature declares.              *)
(*                                                                         *)
(* A time-series feature is served bar by bar, per symbol; a               *)
(* cross-sectional one slice by slice, the whole panel at a timestamp.     *)
(***************************************************************************)
EXTENDS Features, SequencesExt

CONSTANTS
  Catalog,       \* the features, in a sequence
  KindsOf(_),    \* the kinds of bar the feature is served
  MaxOdd(_),     \* how many bars of the frame are not clean
  MaxBars(_, _)  \* how many bars the frame has of a symbol

ASSUME KindsAreDelivered == \A k \in DOMAIN Catalog : KindsOf(Catalog[k]) \subseteq Kinds

VARIABLES
  served_as,     \* the feature served, by its place in the catalog
  frame,         \* the bars closed so far
  served         \* the value of each of them, as it was served

vars == <<served_as, frame, served>>

feature == Catalog[served_as]

-----------------------------------------------------------------------------
(* Bars.  A clean bar rises and falls by turns, on every role.  A gap has   *)
(* no value at all, and a halt repeats the last close and trades nothing.   *)
(* Where an open or a close is zero so is the low, which is not above it:   *)
(* _check_ohlc_ordering lets such bars through.                             *)

CleanKind == "clean"
Count(bars, s) == Cardinality(Rows(bars, s))

CleanLevel(s, n) == 40 + 2 * n + 20 * (n % 2) + IF s = CHOOSE x \in Symbols : TRUE THEN 0 ELSE 50

Offset(role) ==
  CASE role \in {High, BidDepth[1], BidDepth[2]} -> 8
    [] role = Low -> -8
    [] role \in {Open, OpenTr, Ask, Dvol, BidSize} -> 4
    [] role \in {Bid, SignedVolume} -> -2
    [] role = Vwap -> 2
    [] OTHER -> 0

CleanCell(s, n, role) == CleanLevel(s, n) + Offset(role)

LastClose(bars, s) ==
  LET known == {i \in DOMAIN bars : bars[i].sym = s /\ bars[i].cells[Close] # Null}
  IN  IF known = {} THEN CleanCell(s, 1, Close) ELSE bars[Max(known)].cells[Close]

Zeros(kind) ==
  CASE kind = "halt"       -> Sizes
    [] kind = "zero low"   -> {Low}
    [] kind = "zero open"  -> {Low, Open, OpenTr}
    [] kind = "zero close" -> {Low, Close, CloseSplit, CloseRaw}
    [] kind = "zero"       -> Prices \cup {Bid, Ask}
    [] OTHER               -> {}

CellsOf(kind, bars, s) ==
  LET n == Count(bars, s) + 1
  IN  [role \in Roles |->
         IF kind = "gap" THEN Null
         ELSE IF role \in Zeros(kind) THEN 0
         ELSE IF kind = "halt" /\ role \in Prices \cup {Bid, Ask} THEN LastClose(bars, s)
         ELSE CleanCell(s, n, role)]

Bar(kind, bars, s, t) == [sym |-> s, t |-> t, kind |-> kind, cells |-> CellsOf(kind, bars, s)]

Odd(bars) == {i \in DOMAIN bars : bars[i].kind # CleanKind}

-----------------------------------------------------------------------------
(* The batch: compute over the frame.  A signal is materialized before its  *)
(* reduction, both of which build holds.                                    *)
Batch(f, bars) == f.build[bars]

(* The buffer: the last min_history bars of the symbols that closed.        *)
(* Mutant: a bar short.                                                     *)
Kept(bars, rows, n) ==
  {i \in DOMAIN bars :
     /\ \E k \in DOMAIN rows : rows[k].sym = bars[i].sym
     /\ Cardinality({j \in Rows(bars, bars[i].sym) : j >= i}) <= n}
Buffered(bars, rows, n) == Picked(bars, Kept(bars, rows, n))

buffer_short(f, bars, rows) == Buffered(bars, rows, f.min_history - 1)
buffer(f, bars, rows) == Buffered(bars, rows, f.min_history)

IsCross(f) == f.signal # << >>

-----------------------------------------------------------------------------
Init ==
  /\ served_as \in DOMAIN Catalog
  /\ frame = << >>
  /\ served = << >>

(* Mutant: the buffer is not cut back to the bars that closed. *)
ServeBuffer(f, rows) ==
  LET bars == frame \o rows
  IN  /\ Cardinality(Odd(bars)) <= MaxOdd(f)
      /\ frame' = bars
      /\ served' = served \o Batch(f, buffer(f, bars, rows))
      /\ UNCHANGED served_as

(* Bars close together at a timestamp, and their values are served. *)
Serve(f, rows) ==
  LET bars == frame \o rows
      tail == buffer(f, bars, rows)
      column == Batch(f, tail)
  IN  /\ Cardinality(Odd(bars)) <= MaxOdd(f)
      /\ frame' = bars
      /\ served' = served \o SubSeq(column, Len(tail) - Len(rows) + 1, Len(tail))
      /\ UNCHANGED served_as

CloseBar(f, s) ==
  /\ ~ IsCross(f)
  /\ Count(frame, s) < MaxBars(f, s)
  /\ \E kind \in KindsOf(f) : Serve(f, <<Bar(kind, frame, s, Len(frame) + 1)>>)

CloseSlice(f) ==
  /\ IsCross(f)
  /\ \A s \in Symbols : Count(frame, s) < MaxBars(f, s)
  /\ \E kinds \in [Symbols -> KindsOf(f)] :
       LET order == SetToSeq(Symbols)
       IN  Serve(f, [i \in DOMAIN order |->
                    Bar(kinds[order[i]], frame, order[i], Len(frame) + 1)])

(* A step of the engine that serves the feature f. *)
Closing(f) == (\E s \in Symbols : CloseBar(f, s)) \/ CloseSlice(f)

Next == Closing(feature)

Spec == Init /\ [][Next]_vars

-----------------------------------------------------------------------------
(* One value per bar, each a null, a NaN or a number on cells of the frame, *)
(* in the columns of the roles the feature declares and of no other.        *)
CellsDeclared(f) == {<<frame[j].sym, frame[j].t, r>> : j \in DOMAIN frame, r \in f.input_roles}

TypeOK ==
  /\ served_as \in DOMAIN Catalog
  /\ Len(served) = Len(frame)
  /\ LET declared == CellsDeclared(feature)
     IN  \A i \in DOMAIN served :
           \/ served[i] \in {NaV, NaN}
           \/ IsNumber(served[i]) /\ served[i].on \subseteq declared

(* The same value: exactly for a bounded memory; for a decaying one, a      *)
(* number for a number, on the same cells as far as it remembers.           *)
SameValue(f, x, y) ==
  IF f.recurrence = "FINITE" THEN x = y
  ELSE x.kind = y.kind /\ (IsNumber(x) => x.on = y.on)

(* Windowed-recompute parity (FEATURES.md 8.1, test_invariants.py:167-186): *)
(* what was served from min_history bars is what the batch computes from    *)
(* all of them, at the last bar and, ever after, at every earlier one: no   *)
(* window reaches past the buffer, across symbols or into the future.       *)
ServedAsBatch(f) ==
  LET batch == Batch(f, frame)
  IN  \A i \in DOMAIN frame : SameValue(f, served[i], batch[i])

ServedIsBatch == ServedAsBatch(feature)

(* FEATURES.md 4.5: null before min_history bars, whatever they are.        *)
NullBeforeMinHistory ==
  \A i \in DOMAIN frame : Age(frame, i) < feature.min_history => IsNull(served[i])

(* The prices the formula of a feature divides by with nothing to guard the *)
(* division (volatility.py:146, 166-167, 212-213, 374-377, volume.py:289,   *)
(* 293), and the variance ratio whose lag is its window, which divides by a *)
(* correction of zero (mean_reversion.py:112, 134).                         *)
DividesBareBy(f) ==
  CASE f.name \in {"vol_parkinson", "spread_corwin_schultz"} -> {Low}
    [] f.name = "vol_gk" -> {Low, Open}
    [] f.name \in {"vol_rs", "vol_yz"} -> {CloseSplit, Open}
    [] OTHER -> {}
DividesByZero(f) == f.name = "var_ratio_of_window"

(* And min_history is no more than it takes: on clean bars, a number from   *)
(* there on.                                                                *)
NumberFromMinHistory ==
  Odd(frame) = {} /\ ~ DividesByZero(feature) =>
    \A i \in DOMAIN frame : Age(frame, i) >= feature.min_history => IsNumber(served[i])

Filled(bars) ==
  [i \in DOMAIN bars |->
     IF bars[i].kind # "gap" THEN bars[i]
     ELSE [bars[i] EXCEPT !.cells =
             [r \in Roles |-> CleanCell(bars[i].sym, Age(bars, i), r)]]]

(* FEATURES.md 4.5: a null propagates, nothing is imputed.  A number took   *)
(* no null for anything else, and a window is full: it rests on the cells   *)
(* it would rest on had the vendor delivered every bar.                     *)
ServedHonestly(f) ==
  LET delivered == Batch(f, Filled(frame))
  IN  ~ IsCross(f) /\ (\E i \in DOMAIN frame : frame[i].kind = "gap") =>
        \A i \in DOMAIN frame : IsNumber(served[i]) =>
          /\ ~ served[i].guess
          /\ f.recurrence = "FINITE" => served[i].on = delivered[i].on

NothingImputed == ServedHonestly(feature)

(* The last n bars of bar i's symbol. *)
Recent(bars, i, n) ==
  {j \in Rows(bars, bars[i].sym) : Age(bars, j) \in (Age(bars, i) - n + 1)..Age(bars, i)}

(* A value is NaN only by a zero that f divides by bare. *)
FiniteButFor(f) ==
  ~ DividesByZero(f) =>
    \A i \in DOMAIN served : served[i] = NaN =>
      \E j \in Recent(frame, i, f.min_history), r \in DividesBareBy(f) :
        frame[j].cells[r] = 0

(* FEATURES.md 4.5: a degenerate input gives null, never inf or NaN.  It    *)
(* holds of every feature that guards what it divides by, whatever is zero; *)
(* one that divides bare is infinite or NaN only while a zero of a price it *)
(* divides by so is among its last min_history bars, and recovers.          *)
NeverInfinite == FiniteButFor(feature)
=============================================================================
