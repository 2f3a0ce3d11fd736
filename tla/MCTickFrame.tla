---------------------------- MODULE MCTickFrame -----------------------------
(***************************************************************************)
(* TLC instances of TickFrame: few rows, chosen so that prints come late,  *)
(* tie, straddle a boundary and breach the contract in every way it names. *)
(***************************************************************************)
EXTENDS TickFrame

SpecOf(kind, knob, rule) == [kind |-> kind, knob |-> knob, sign_rule |-> rule]

Raw(s, ts, price, size, side) ==
  [sym |-> s, ts |-> ts, price |-> price, size |-> size, side |-> side,
   crossed |-> FALSE, nulls |-> {}]

(* Contract-abiding rows: the order they arrive in is the question.  One    *)
(* print of a second symbol shows whether columns stay with their symbol.   *)
GoodTicks ==
  {Raw(1, ts, x[1], x[2], 1) : ts \in 0..2, x \in {<<1, 2>>, <<3, 1>>}}
    \cup {Raw(2, 1, 3, 2, 0)}

GoodSpecs ==
  {SpecOf("TIME", 2, "NONE"), SpecOf("VOLUME", 3, "NONE"),
   SpecOf("DOLLAR", 3, "NONE"), SpecOf("TICK", 2, "NONE")}

(* Rows that breach the contract, each in one way, prints out of order, and *)
(* rows whose null cells hide what would breach it.                         *)
MixedTicks ==
  {Raw(1, 0, 1, 2, 1), Raw(1, 1, 1, 2, 0), Raw(2, 0, 1, 2, 1), Raw(1, 1, 2, 0, 0)}
    \cup {Raw(2, 1, 0, 2, 0), Raw(1, 1, 2, -1, 0),
          [Raw(2, 1, 2, 2, 0) EXCEPT !.crossed = TRUE]}
    \cup {[Raw(1, 1, 1, 2, 0) EXCEPT !.nulls = {"timestamp"}],
          [Raw(1, 0, 0, -1, 0) EXCEPT !.nulls = {"price", "size"}]}

SignedSpecs ==
  {SpecOf("VOLUME", 3, "TICK_RULE"), SpecOf("TICK", 2, "LEE_READY"),
   SpecOf("TIME", 2, "TICK_RULE")}

(* Any order of arrival under OFF; every breach under every mode. *)
AllSpecs == GoodSpecs \cup SignedSpecs
TicksOf(sp) == IF sp \in SignedSpecs THEN MixedTicks ELSE GoodTicks
ModesOf(sp) == IF sp \in SignedSpecs THEN ValidationMode ELSE {"OFF"}
LostOf(sp) == IF sp \in SignedSpecs THEN {"nothing", "symbol", "quotes"} ELSE {"nothing"}
MaxTicksOf(sp) == IF sp \in SignedSpecs THEN 4 ELSE 5

FlowSpecs == {SpecOf("VOLUME", 3, "TICK_RULE")}
FlowTicks(sp) == GoodTicks
FlowModes(sp) == {"STRICT"}
FlowLost(sp) == {"nothing"}
FlowMax(sp) == 3
=============================================================================
