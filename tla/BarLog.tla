------------------------------- MODULE BarLog -------------------------------
(***************************************************************************)
(* What a consumer of bars is promised, with nothing said of ticks: each   *)
(* symbol has an append-only set of final bars and at most one open bar.   *)
(* The open bar may grow, and it becomes final exactly as it was last      *)
(* shown, at the moment a bar with a later timestamp opens.                *)
(*                                                                         *)
(* A bar is a record with at least a ts and a trade_count.                 *)
(***************************************************************************)
EXTENDS Naturals

CONSTANT Symbols

VARIABLES
  final,    (* final[s]: the set of final bars of symbol s  *)
  open      (* open[s]: the set of open bars, at most one   *)

logVars == <<final, open>>

LogInit ==
  /\ final = [s \in Symbols |-> {}]
  /\ open = [s \in Symbols |-> {}]

(* The first bar of a symbol opens. *)
Open(s) ==
  /\ open[s] = {}
  /\ \E b \in open'[s] : open' = [open EXCEPT ![s] = {b}]
  /\ UNCHANGED final

(* The open bar takes in one more trade. *)
Grow(s) ==
  /\ \E a \in open[s] : \E b \in open'[s] :
       /\ open' = [open EXCEPT ![s] = {b}]
       /\ a.ts <= b.ts
       /\ b.trade_count = a.trade_count + 1
  /\ UNCHANGED final

(* The open bar becomes final unchanged, and a later one opens. *)
Roll(s) ==
  /\ open[s] # {}
  /\ \E b \in open'[s] :
       /\ open' = [open EXCEPT ![s] = {b}]
       /\ \A a \in final[s] \cup open[s] : a.ts < b.ts
  /\ final' = [final EXCEPT ![s] = @ \cup open[s]]

LogNext == \E s \in Symbols : Open(s) \/ Grow(s) \/ Roll(s)

LogSpec == LogInit /\ [][LogNext]_logVars
=============================================================================
