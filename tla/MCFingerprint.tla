---------------------------- MODULE MCFingerprint ---------------------------
(***************************************************************************)
(* TLC instances of Fingerprint: a cross-sectional feature with its build  *)
(* and signal closures and two shared helpers.                             *)
(***************************************************************************)
EXTENDS Fingerprint

Shipped == {"build", "signal", "grouped", "safe_div"}
NameOrder == [f \in Shipped |->
  CASE f = "build" -> 3 [] f = "grouped" -> 1 [] f = "safe_div" -> 2 [] f = "signal" -> 4]
TwoPasses == <<"build", "signal">>

(* The helpers are imported by their names, or each by the name of the      *)
(* other.                                                                   *)
Called == {"grouped", "safe_div"}
Straight == [name \in Called |-> name]
Crossed == [name \in Called |-> CHOOSE other \in Called : other # name]
BothWays == {Straight, Crossed}

Body(formula, calls, reads) == [formula |-> formula, calls |-> calls, reads |-> reads]

(* Leaf formulas, a helper that calls the other, one that calls itself, and *)
(* entry points that call one or both.                                      *)
ShippedBodies ==
  {Body("x", {}, {}), Body("y", {}, {"SCALE"}), Body("x", {"grouped"}, {}),
   Body("x", {"safe_div"}, {"SCALE"}), Body("y", {"grouped", "safe_div"}, {})}

Starting(build, signal) ==
  [body |-> [f \in Shipped |->
     CASE f = "build" -> build [] f = "signal" -> signal
       [] f = "grouped" -> Body("x", {}, {})
       [] f = "safe_div" -> Body("y", {}, {"SCALE"})],
   value |-> [k \in {"SCALE"} |-> 1],
   imports |-> Straight]

ShippedLibraries ==
  {Starting(Body("y", {"grouped", "safe_div"}, {}), Body("x", {"grouped"}, {}))}

Binding(params, slots, captures) ==
  [params |-> params, slots |-> slots, captures |-> captures]

(* One window, or another; the total-return close, or the raw one. *)
ShippedBindings == {Binding(12, <<"close@tr">>, {}), Binding(12, <<"close@raw">>, {}),
                    Binding(6, <<"close@tr">>, {})}

(* frac_diff: the weights are computed by the factory, from a constant. *)
Weighted == {Binding(1, << >>, {"SCALE"})}
LeafLibrary == {Starting(Body("x", {}, {}), Body("x", {}, {}))}
LeafBodies == {Body("x", {}, {}), Body("y", {}, {"SCALE"})}
=============================================================================
