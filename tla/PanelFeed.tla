----------------------------- MODULE PanelFeed ------------------------------
(***************************************************************************)
(* A consumer that keeps a frame of bars, calls compute on it again and    *)
(* again, and keeps what it got: the research or serving loop around       *)
(* sabia.compute (__init__.py), validate, the two-pass cross-sectional     *)
(* evaluate (registry.py) and drop_warmup (toolkit.py).                    *)
(*                                                                         *)
(* Bars arrive one row at a time, in whatever order the vendor sends them: *)
(* symbols interleave, a bar may come late or twice, and a bar may come    *)
(* before it is closed and be revised when it closes.  compute sees the    *)
(* frame as it is at the call.                                             *)
(*                                                                         *)
(* A feature is the ratio close.shift(skip) / close.shift(formation) of    *)
(* one symbol, kept as a pair of cells (roc, mom and ret_log are monotone  *)
(* in it), or, when it carries a signal, the percentile rank of that ratio *)
(* among the symbols of the timestamp (xs_rank_mom).                       *)
(***************************************************************************)
EXTENDS Contract

CONSTANTS
  Calls,     (* the calls a consumer may make, see Contract; with keys:     *)
             (* whether compute is asked for include_keys                   *)
  Symbols,
  Timestamps,(* the timestamps that arrive; Null when the vendor lost one   *)
  Bars(_),   (* the other cells of a row that arrives for a call: a set of  *)
             (* records of open, high, low, close, bid, ask, closed         *)
  MaxRows(_) (* bound: rows of the frame of a call                          *)

Cells == Nat \cup {Null}

(* A bound feature: its shifts are not negative and its min_history spans   *)
(* the longest and the bar itself; one that carries a signal, as the only   *)
(* maker of them declares it, requires a complete panel.                    *)
IsBoundFeature(f) ==
  /\ {f.skip, f.formation, f.min_history} \subseteq Nat
  /\ f.skip < f.min_history /\ f.formation < f.min_history
  /\ f.signal \in BOOLEAN
  /\ f.signal => f.requires_complete_panel
  /\ \A role \in f.roles : role.kind \in RoleKinds

(* A call names at least one feature, and a universe of finitely many.      *)
ASSUME CallsAssumption ==
  \A c \in Calls :
    /\ DOMAIN c = {"cols", "roles", "closed_col", "features", "universe",
                   "membership", "mode", "include_keys"}
    /\ c.mode \in ValidationMode
    /\ Len(c.features) \in Nat \ {0} /\ DOMAIN c.features = 1..Len(c.features)
    /\ \A k \in DOMAIN c.features : IsBoundFeature(c.features[k])
    /\ c.universe # << >> => IsFiniteSet(c.universe[1])

ASSUME FeedAssumption ==
  /\ Timestamps \subseteq Cells
  /\ \A c \in Calls :
       /\ MaxRows(c) \in Nat
       /\ \A bar \in Bars(c) :
            bar \in [open : Cells, high : Cells, low : Cells, close : Cells,
                     bid : Cells, ask : Cells, closed : Cells]

VARIABLES
  call,      (* what this consumer passes to compute, fixed                 *)
  rows,      (* the frame                                                   *)
  outcome,   (* of the last call on this frame, "none" if it has changed    *)
  published  (* the feature columns of the last result, by row and name     *)

vars == <<call, rows, outcome, published>>

-----------------------------------------------------------------------------
(* The features. *)

(* Mutant: a shift without .over(symbol). *)
ShiftedFrame(rs, i, k) == IF i > k THEN rs[i - k].close ELSE Null

(* close.shift(k).over(symbol) at row i: the close k rows of the symbol     *)
(* before, whatever rows of other symbols lie between.                      *)
Shifted(rs, i, k) ==
  LET mine == {j \in 1..i : rs[j].symbol = rs[i].symbol}
      back == {j \in mine : Cardinality({m \in mine : m > j}) = k}
  IN  IF back = {} THEN Null ELSE rs[Max(back)].close

(* log_return: null on a null or zero close on either side. *)
Ratio(rs, i, f) ==
  LET num == Shifted(rs, i, f.skip)
      den == Shifted(rs, i, f.formation)
  IN  IF {num, den} \cap {Null, 0} # {} THEN << >> ELSE <<num, den>>

Less(p, q) == p[1] * q[2] < q[1] * p[2]
Same(p, q) == p[1] * q[2] = q[1] * p[2]

(* Mutant: ranks counted from zero. *)
RankFromZero(signal, peers, i) ==
  LET valid == {j \in peers : signal[j] # << >>}
  IN  IF signal[i] = << >> THEN << >>
      ELSE <<2 * Cardinality({j \in valid : Less(signal[j], signal[i])})
               + Cardinality({j \in valid : Same(signal[j], signal[i])}) - 1,
             2 * Cardinality(valid)>>

(* rank(average) over the timestamp by count() of the valid signals, doubled*)
(* so that the average rank of a tie is whole.                              *)
RankAmong(signal, peers, i) ==
  LET valid == {j \in peers : signal[j] # << >>}
  IN  IF signal[i] = << >> THEN << >>
      ELSE <<2 * Cardinality({j \in valid : Less(signal[j], signal[i])})
               + Cardinality({j \in valid : Same(signal[j], signal[i])}) + 1,
             2 * Cardinality(valid)>>

Peers(rs, i) == {j \in DOMAIN rs : rs[j].timestamp = rs[i].timestamp}

(* One feature's column: a single pass, or the signal first and then the    *)
(* reduction within each timestamp.                                         *)
Column(rs, f) ==
  LET signal == [i \in DOMAIN rs |-> Ratio(rs, i, f)]
  IN  IF f.signal THEN [i \in DOMAIN rs |-> RankAmong(signal, Peers(rs, i), i)]
      ELSE signal

-----------------------------------------------------------------------------
(* compute. *)

Names(c) == [k \in DOMAIN c.features |-> c.features[k].name]

(* assert_unique. *)
NamesCollide(c) ==
  \E j, k \in DOMAIN c.features : j # k /\ Names(c)[j] = Names(c)[k]

(* A feature that compares symbols needs a declared universe. *)
UniverseMissing(c) ==
  /\ c.universe = << >> /\ c.membership = << >>
  /\ \E k \in DOMAIN c.features : c.features[k].requires_universe

(* What resolving a feature and selecting it raise.  These formulas are     *)
(* grouped .over(symbol), and the reduction of a signal .over(timestamp):   *)
(* they need these columns as they need their roles.                        *)
Groups(f) == IF f.signal THEN {"symbol", "timestamp"} ELSE {"symbol"}
Undeclared(c, f) == ~ (f.roles \subseteq DeclaredRoles(c))
Absent(c, f) ==
  /\ ~ Undeclared(c, f)
  /\ \E column \in {ColumnOf(c, r) : r \in f.roles} \cup Groups(f) : ~ Has(c, column)

(* The time-series features are built together and collected once; then     *)
(* each cross-sectional one is evaluated by itself, in order.               *)
SelectError(c) ==
  LET fs == {c.features[k] : k \in DOMAIN c.features}
      series == {f \in fs : ~ f.signal}
      failing == {k \in DOMAIN c.features :
                    Undeclared(c, c.features[k]) \/ Absent(c, c.features[k])}
  IN  IF \E f \in series : Undeclared(c, f) THEN "KeyError"
      ELSE IF \E f \in series : Absent(c, f) THEN "ColumnNotFoundError"
      ELSE IF failing = {} THEN "none"
      ELSE IF Undeclared(c, c.features[Min(failing)]) THEN "KeyError"
      ELSE "ColumnNotFoundError"

(* What a call raises, or "none". *)
ErrorOf(c, rs) ==
  LET verdict == Validate(c, rs)
  IN  IF NamesCollide(c) \/ (c.mode # "OFF" /\ UniverseMissing(c)) THEN "ValueError"
      ELSE IF verdict = "ohlc" THEN OhlcError(c, rs)
      ELSE IF verdict # "ok" THEN "SabiaValidationError"
      ELSE SelectError(c)

(* The columns of a result, row by row, named. *)
Result(c, rs) ==
  LET column == [k \in DOMAIN c.features |-> Column(rs, c.features[k])]
  IN  [i \in DOMAIN rs |->
         [n \in {Names(c)[k] : k \in DOMAIN c.features} |->
            column[CHOOSE k \in DOMAIN c.features : Names(c)[k] = n][i]]]

(* The columns of the result: the keys the frame has, then the features.    *)
OutputColumns(c) ==
  (IF c.include_keys
   THEN (IF Has(c, "symbol") THEN <<"symbol">> ELSE << >>)
          \o (IF Has(c, "timestamp") THEN <<"timestamp">> ELSE << >>)
   ELSE << >>) \o Names(c)

MaxMinHistory(c) == Max({c.features[k].min_history : k \in DOMAIN c.features})

(* Mutant: the warm-up is the longest shift, without the bar itself. *)
DropWarmupShort(c, rs) ==
  {i \in DOMAIN rs :
     Cardinality({j \in 1..i : rs[j].symbol = rs[i].symbol}) > MaxMinHistory(c) - 2}

(* The rows drop_warmup(result, features, symbol_col="symbol") keeps.       *)
DropWarmup(c, rs) ==
  {i \in DOMAIN rs :
     LET above == IF "symbol" \in {OutputColumns(c)[k] : k \in DOMAIN OutputColumns(c)}
                  THEN {j \in 1..(i-1) : rs[j].symbol = rs[i].symbol} ELSE 1..(i-1)
     IN  Cardinality(above) >= MaxMinHistory(c)}

-----------------------------------------------------------------------------
(* The row of a bar. *)
Row(s, t, bar) ==
  [symbol |-> s, timestamp |-> t,
   open |-> bar.open, high |-> bar.high, low |-> bar.low, close |-> bar.close,
   bid |-> bar.bid, ask |-> bar.ask, closed |-> bar.closed]

Init ==
  /\ call \in Calls
  /\ rows = << >>
  /\ outcome = "none"
  /\ published = << >>

(* A bar arrives. *)
Arrive(s, t, bar) ==
  /\ Len(rows) < MaxRows(call)
  /\ rows' = Append(rows, Row(s, t, bar))
  /\ outcome' = "none"
  /\ UNCHANGED <<call, published>>

(* An open bar closes, at a price of its own. *)
Finalize(i, bar) ==
  /\ NotFinal(rows[i]) /\ ~ NotFinal(bar)
  /\ rows' = [rows EXCEPT ![i] = Row(@.symbol, @.timestamp, bar)]
  /\ outcome' = "none"
  /\ UNCHANGED <<call, published>>

(* The consumer computes its features. *)
Compute ==
  /\ outcome = "none"
  /\ rows # << >>
  /\ \/ /\ ErrorOf(call, rows) = "none"
        /\ outcome' = "result"
        /\ published' = Result(call, rows)
     \/ /\ ErrorOf(call, rows) # "none"
        /\ outcome' = ErrorOf(call, rows)
        /\ UNCHANGED published
  /\ UNCHANGED <<call, rows>>

Next ==
  \/ \E s \in Symbols, t \in Timestamps, bar \in Bars(call) : Arrive(s, t, bar)
  \/ \E i \in DOMAIN rows : \E bar \in Bars(call) : Finalize(i, bar)
  \/ Compute

Spec == Init /\ [][Next]_vars

-----------------------------------------------------------------------------
(* Every variable has its type.  A rank is in (0, 1], the output_range its  *)
(* spec declares.                                                           *)
TypeOK ==
  /\ call \in Calls
  /\ Len(rows) <= MaxRows(call)
  /\ \A i \in DOMAIN rows :
       rows[i].symbol \in Symbols /\ rows[i].timestamp \in Timestamps
  /\ outcome \in {"none", "result", "ValueError", "SabiaValidationError",
                  "ColumnNotFoundError", "KeyError"}
  /\ Len(published) <= Len(rows)
  /\ \A i \in DOMAIN published : \A k \in DOMAIN call.features :
       LET value == published[i][call.features[k].name]
       IN  value # << >> /\ call.features[k].signal =>
             0 < value[1] /\ value[1] <= value[2]

Returned == outcome = "result"

(* No timestamp of the frame is null. *)
Timed == \A i \in DOMAIN rows : rows[i].timestamp # Null

(* Every symbol present is one the caller declared for that timestamp.      *)
OnlyDeclared ==
  \A i \in DOMAIN rows :
    \/ call.membership # << >>
         /\ rows[i].symbol \in MembersAt(call.membership[1], rows[i].timestamp)
    \/ call.membership = << >> /\ call.universe # << >>
         /\ rows[i].symbol \in call.universe[1]

(* The frame has the columns the schema and the features need, at their     *)
(* dtypes, and so has an as-of universe that is read.                       *)
SchemaFits ==
  /\ ~ TimestampViolated(call) /\ ~ RolesViolated(call) /\ ~ SymbolViolated(call)
  /\ IsPanel(call)
  /\ CompletePanel(call) => ~ MembershipViolated(call)
  /\ \A k \in DOMAIN Adjustments :
       ResolvesOhlc(call, Adjustments[k]) => OhlcPresent(call, Adjustments[k])

(* The order a frame must have, of all rows of a symbol and not only of     *)
(* neighbours.                                                              *)
InOrder ==
  \A i, j \in DOMAIN rows :
    i < j /\ rows[i].symbol = rows[j].symbol => rows[i].timestamp < rows[j].timestamp

(* What every mode but OFF insists on. *)
Hard ==
  /\ InOrder
  /\ AuditFrame(call, rows).ohlc_violations = 0
  /\ ~ QuotesViolated(call, rows)

(* Every declared symbol is there, at every timestamp. *)
Complete ==
  CompletePanel(call) =>
    \A t \in Times(rows) :
      IF call.membership # << >>
      THEN MembersAt(call.membership[1], t) \subseteq Present(rows, t)
      ELSE call.universe[1] \subseteq Present(rows, t)

(* No bar is marked open. *)
Final == AuditFrame(call, rows).non_final_bars = 0

(* STRICT returns exactly the frames that fit the schema, are in order,     *)
(* whole and final: what validate finds row against row, stage by stage, is *)
(* the contract of FEATURES.md 8.3, and RESEARCH gives way on the last two  *)
(* only.                                                                    *)
GateIsTheContract ==
  /\ outcome # "none" /\ call.mode # "OFF" /\ Timed
  /\ CompletePanel(call) /\ call.membership = << >>
       => call.universe # << >> /\ OnlyDeclared
  => (Returned <=>
        /\ SchemaFits /\ ~ NamesCollide(call) /\ ~ UniverseMissing(call)
        /\ Hard
        /\ call.mode = "STRICT" => Complete /\ Final)

(* A result the caller can trust has a clean audit (audit_frame runs "the   *)
(* same lazy aggregates").  The audit compares symbols and validate sizes:  *)
(* with a universe, a symbol outside it could stand for one inside.         *)
AuditAgrees ==
  Timed /\ Returned /\ call.mode = "STRICT" =>
    LET audit == AuditFrame(call, rows)
    IN  /\ audit.timestamp_utc_ok /\ audit.missing_roles = {}
        /\ audit.ohlc_violations = 0 /\ audit.duplicate_keys = 0
        /\ audit.non_final_bars = 0
        /\ CompletePanel(call) /\ call.membership = << >>
             /\ (call.universe # << >> => OnlyDeclared)
             => audit.full_timestamps = Times(rows)

(* Point-in-time: the value at (s, t) is the one a consumer at time t would *)
(* have computed from the bars no later than t, whatever the order in which *)
(* the symbols' rows interleave.                                            *)
Known(t) == {rows[i] : i \in {i \in DOMAIN rows : rows[i].timestamp <= t}}
CloseBack(s, t, k) ==
  LET mine == {r \in Known(t) : r.symbol = s}
      back == {r \in mine : Cardinality({q \in mine : q.timestamp > r.timestamp}) = k}
  IN  IF back = {} THEN Null ELSE (CHOOSE r \in back : TRUE).close
Growth(s, t, f) ==
  LET num == CloseBack(s, t, f.skip)
      den == CloseBack(s, t, f.formation)
  IN  IF {num, den} \cap {Null, 0} # {} THEN << >> ELSE <<num, den>>
PointInTime(s, t, f) ==
  LET rivals == {r.symbol : r \in {r \in Known(t) : r.timestamp = t}}
      valid == {u \in rivals : Growth(u, t, f) # << >>}
      mine == Growth(s, t, f)
  IN  IF ~ f.signal \/ mine = << >> THEN mine
      ELSE <<2 * Cardinality({u \in valid : Less(Growth(u, t, f), mine)})
               + Cardinality({u \in valid : Same(Growth(u, t, f), mine)}) + 1,
             2 * Cardinality(valid)>>
ValuesArePointInTime ==
  Timed /\ Returned /\ call.mode # "OFF" =>
    \A i \in DOMAIN rows : \A k \in DOMAIN call.features :
      published[i][call.features[k].name]
        = PointInTime(rows[i].symbol, rows[i].timestamp, call.features[k])

(* Under STRICT, with a declared universe and a final marker, a value once  *)
(* returned is returned for good: neither late bars, nor new listings, nor  *)
(* revisions change it, they can only make a later call raise.  (An as-of   *)
(* universe does not bound the cross-section from above, so with one this   *)
(* asks that no symbol is present outside its window.)                      *)
StrictValuesAreFinal ==
  [][/\ outcome' = "result" /\ call.mode = "STRICT"
     /\ call.closed_col /\ Has(call, "closed") /\ Timed
     /\ CompletePanel(call) =>
          IF call.membership # << >> THEN OnlyDeclared ELSE call.universe # << >>
     =>
       \A i \in DOMAIN published : published'[i] = published[i]]_vars

(* Validation never changes a value, it only withholds it: what STRICT      *)
(* returns RESEARCH returns, and what RESEARCH returns OFF returns.         *)
ModesNest ==
  Returned =>
    /\ call.mode = "STRICT" => ErrorOf([call EXCEPT !.mode = "RESEARCH"], rows) = "none"
    /\ call.mode = "RESEARCH" =>
         /\ ErrorOf([call EXCEPT !.mode = "OFF"], rows) = "none"
         /\ Warnings(call, rows) = {} <=> ErrorOf([call EXCEPT !.mode = "STRICT"], rows) = "none"

(* drop_warmup leaves no null of the warm-up, on any panel whose keys it    *)
(* can see.                                                                 *)
NoWarmupNullSurvives ==
  Returned /\ call.include_keys
  /\ (\A i \in DOMAIN rows : rows[i].close \notin {Null, 0}) =>
    \A i \in DropWarmup(call, rows) : \A k \in DOMAIN call.features :
      published[i][call.features[k].name] # << >>

(* What the code does not do, though its documentation says it.             *)

(* FEATURES.md 2.5: completeness is asserted against the declared universe. *)
DeclaredUniverseIsPresent ==
  Returned /\ call.mode = "STRICT" /\ CompletePanel(call)
  /\ call.membership = << >> /\ call.universe # << >> =>
    \A t \in Times(rows) : call.universe[1] \subseteq Present(rows, t)

(* validate.py: "strictly increasing timestamps == sorted and unique".      *)
AcceptedTimesIncrease ==
  Returned /\ call.mode = "STRICT" =>
    \A i, j \in DOMAIN rows :
      i < j /\ rows[i].symbol = rows[j].symbol
      /\ Null \notin {rows[i].timestamp, rows[j].timestamp}
        => rows[i].timestamp < rows[j].timestamp
=============================================================================
