----------------------------- MODULE MCTickBars -----------------------------
(***************************************************************************)
(* TLC instances of TickBars: every kind of bar with a knob that a few     *)
(* ticks overrun, so that bars close, ties straddle a boundary, one tick   *)
(* overruns two boundaries, and a bar closes with trades still tied to it. *)
(***************************************************************************)
EXTENDS TickBars

SpecOf(kind, knob, rule) == [kind |-> kind, knob |-> knob, sign_rule |-> rule]

(* Every kind of bar and every sign rule.                                   *)
EveryKind ==
  {SpecOf("TIME", 2, "NONE"), SpecOf("VOLUME", 2, "LEE_READY"),
   SpecOf("DOLLAR", 3, "TICK_RULE"), SpecOf("TICK", 2, "TICK_RULE")}

(* A trade of no size at the midpoint, and a larger one below it at a       *)
(* higher price: the quote rule and the tick rule disagree on it.           *)
TwoPrints ==
  {[price |-> 1, size |-> 0, side |-> 0], [price |-> 2, size |-> 3, side |-> -1]}
=============================================================================
