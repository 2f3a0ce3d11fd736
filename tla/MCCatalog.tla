----------------------------- MODULE MCCatalog ------------------------------
(* A handful of factory calls whose names, types and versions get close. *)
EXTENDS Catalog

DAILY == 2
MINUTE == 1
PyInt(n) == [type |-> "int", value |-> n]
PyFloat(n) == [type |-> "float", value |-> n]

Call(measure, params, adjustment, default_adjustment, named) ==
  [measure |-> measure, params |-> params, adjustment |-> adjustment,
   default_adjustment |-> default_adjustment, named |-> named, version |-> 1,
   data_tier |-> DAILY, recurrence |-> "FINITE", depends_on |-> {}]

(* sma does not name its role, rsi does. *)
Sma == Call("sma", <<PyInt(2)>>, "tr", "tr", FALSE)
SmaRaw == [Sma EXCEPT !.adjustment = "raw"]
Rsi == [Call("rsi", <<PyInt(2)>>, "tr", "tr", TRUE)
          EXCEPT !.depends_on = {Sma}, !.recurrence = "RECURSIVE_DECAY"]
Rsi2 == [Rsi EXCEPT !.version = 2]
Bands == Call("bb_pctb", <<PyInt(20), PyInt(2)>>, "split", "split", FALSE)
BandsFloat == [Bands EXCEPT !.params = <<PyInt(20), PyFloat(2)>>]
Vpin == [Call("vpin", <<PyInt(2)>>, "raw", "raw", FALSE) EXCEPT !.data_tier = MINUTE]
Expanding == [Call("cummax", <<PyInt(2)>>, "tr", "tr", FALSE) EXCEPT !.recurrence = "EXPANDING"]
BadName == Call("Cum Max", <<PyInt(2)>>, "tr", "tr", FALSE)

AllCalls == {Sma, SmaRaw, Rsi2, Rsi, Bands, BandsFloat, Vpin, Expanding, BadName}
Measures == {"sma", "rsi", "bb_pctb", "vpin", "cummax"}
Trend == {{"sma", "rsi"}}

Lists == { << >>, <<Rsi2, Rsi, Vpin>>, <<SmaRaw, Bands>>,
           <<Sma, SmaRaw>>, <<Bands, BandsFloat>>, <<Sma, Expanding>>, <<BadName>> }
Zscore == [name |-> <<"zscore">>, version |-> 1, fingerprint |-> [text |-> "zscore"]]
TransformBundles == {{}, {Zscore}}
=============================================================================
