---------------------------- MODULE MCPanelFeed -----------------------------
(***************************************************************************)
(* TLC instances of PanelFeed: two symbols, two or three timestamps, and   *)
(* calls that differ in one thing each.                                    *)
(***************************************************************************)
EXTENDS PanelFeed

Feature(name, formation, signal) ==
  [name |-> name, roles |-> {PriceRole("close", "tr")},
   skip |-> 0, formation |-> formation, min_history |-> formation + 1,
   signal |-> signal,
   requires_universe |-> signal, requires_complete_panel |-> signal]

Roc  == Feature("roc_1", 1, FALSE)
Rank == Feature("xs_rank_mom_1_0", 1, TRUE)

(* A cross-sectional feature of a caller's own, which declares a complete   *)
(* panel and no universe.                                                   *)
OwnRank == [Rank EXCEPT !.name = "own_rank", !.requires_universe = FALSE]

GoodCols ==
  [timestamp |-> "utc", symbol |-> "string", closed |-> "bool",
   open |-> "float", high |-> "float", low |-> "float", close |-> "float",
   bid |-> "float", ask |-> "float"]

(* BarSchema.ohlcv with a quote mapped: OHLC on the split basis, the close  *)
(* on the total-return basis too.                                           *)
GoodRoles ==
  {[role |-> r, column |-> r.field] :
     r \in {OhlcRoles("split")[k] : k \in 1..4}
            \cup {PriceRole("close", "tr"), QuoteRole("bid", "raw"), QuoteRole("ask", "raw")}}

Call(mode, features, universe, membership) ==
  [cols |-> GoodCols, roles |-> GoodRoles, closed_col |-> TRUE,
   features |-> features, universe |-> universe, membership |-> membership,
   mode |-> mode, include_keys |-> TRUE]

Both == <<{"a", "b"}>>
Member(s, from, to) == [symbol |-> s, start |-> from, end |-> to]
AsOf(members) ==
  <<[cols |-> [symbol |-> "string", start |-> "utc", end |-> "utc"], rows |-> members]>>
(* b leaves the universe after timestamp 1. *)
Delisting == AsOf({Member("a", 1, Null), Member("b", 1, 2)})

(* b enters it there; of c no one knows when. *)
Listing == AsOf({Member("a", 1, Null), Member("b", 2, Null), Member("c", Null, Null)})

Plain == Call("STRICT", <<Rank, Roc>>, Both, << >>)

WithoutTr == {entry \in GoodRoles : entry.role # PriceRole("close", "tr")}

(* Frames and schemas that do not fit, each in one way. *)
MisfitCalls ==
  {[Plain EXCEPT !.cols.timestamp = "naive"],
   [Plain EXCEPT !.cols.timestamp = "absent"],
   [Plain EXCEPT !.cols.symbol = "int"],
   [Plain EXCEPT !.cols.symbol = "absent"],
   [Plain EXCEPT !.cols.symbol = "absent", !.features = <<Roc>>],
   [Plain EXCEPT !.cols.close = "int"],
   [Plain EXCEPT !.cols.low = "absent"],
   [Plain EXCEPT !.cols.ask = "absent"],
   [Plain EXCEPT !.cols.closed = "absent"],
   [Plain EXCEPT !.roles = WithoutTr],
   [Plain EXCEPT !.roles = WithoutTr, !.mode = "OFF"],
   [Plain EXCEPT !.features = <<Roc, Roc>>],
   [Plain EXCEPT !.universe = << >>],
   [Plain EXCEPT !.cols.timestamp = "absent", !.mode = "OFF"]}
    \cup {[Plain EXCEPT !.mode = mode, !.features = fs,
                         !.membership = [Listing EXCEPT ![1].cols.start = "naive"]] :
            mode \in {"STRICT", "RESEARCH"}, fs \in {<<Roc>>, <<Rank>>}}

ContractCalls ==
  {Call(mode, fs, Both, << >>) : mode \in ValidationMode, fs \in {<<Roc>>, <<Rank>>}}
    \cup {Call("STRICT", <<Rank>>, Both, Delisting), Call("STRICT", <<Rank>>, << >>, Listing),
         Call("STRICT", <<OwnRank>>, << >>, << >>)}
    \cup MisfitCalls

Bar(close, closed) ==
  [open |-> 2, high |-> 2, low |-> 1, close |-> close, bid |-> 1, ask |-> 2,
   closed |-> closed]

(* Bars that breach a row check, and bars that hide behind a null.          *)
ContractBars ==
  {Bar(1, 1), Bar(2, 0), [Bar(2, 1) EXCEPT !.high = 1], [Bar(1, 1) EXCEPT !.bid = 3],
   [Bar(1, Null) EXCEPT !.open = Null, !.low = Null, !.ask = Null]}

ValueCalls ==
  {Call("STRICT", <<Roc, Rank>>, Both, << >>),
   Call("STRICT", <<Rank>>, << >>, Delisting),
   Call("RESEARCH", <<Roc, Rank>>, Both, << >>)}

ValueBars == {Bar(1, 1), Bar(2, 1), Bar(2, 0)}

(* Every way to misfit on two rows, late and revised values on four. *)
PanelCalls == ContractCalls \cup ValueCalls
PanelBars(call_) == IF call_ \in ValueCalls THEN ValueBars ELSE ContractBars
PanelRows(call_) == IF call_ \in ValueCalls THEN 4 ELSE 2

OneAbsent == {Call("STRICT", <<Rank>>, <<{"a", "c"}>>, << >>)}

RocCalls == {Call("STRICT", <<Roc>>, << >>, << >>)}
LostTimes == {1, Null}
OneBar(call_) == {Bar(1, 1)}
UniverseRows(call_) == 2
LostTimeRows(call_) == 3
=============================================================================
