---------------------------- MODULE Fingerprint -----------------------------
(***************************************************************************)
(* How a feature gets its fingerprint, and what two equal fingerprints     *)
(* say: spec.py, feature_fingerprint and _transitive_sources, over the     *)
(* life of a library that is edited between one release and the next.      *)
(*                                                                         *)
(* The fingerprint hashes the source of the feature's builders and of      *)
(* every first-party function they call by name, however indirectly.  The  *)
(* worklist pops a function, hashes it once, and pushes what it calls in   *)
(* the order of a Python set, which differs from process to process.       *)
(* A call is hashed as the bare name it is written with; which function    *)
(* that name is, the imports say, and they are not hashed.  sabia has no   *)
(* two functions of one name, so one map of names stands for the globals   *)
(* of its modules; names it has not, such as builtins, are left out.       *)
(*                                                                         *)
(* The hash is taken to be injective, so a fingerprint is its payload.     *)
(* Canonical id, version, dependencies and the Polars version are fixed    *)
(* here: they fold in as the parameters do.                                *)
(***************************************************************************)
EXTENDS Integers, Sequences, FiniteSets, SequencesExt

CONSTANTS
  Functions,  (* functions and closures defined in sabia modules             *)
  Key,        (* Key[f]: module and qualified name, as its sort position     *)
  Names,      (* the bare names by which functions are called                *)
  Imports,    (* what the imports may bind them to: [Names -> Functions]     *)
  Builders,   (* the closures of the feature: build, and signal if it has one*)
  Constants,  (* module-level scalar constants                               *)
  Values,     (* the values of a constant                                    *)
  Bodies,     (* what a function may be edited to: [formula, calls, reads],  *)
              (* the names it calls and the constants it reads by name       *)
  Bindings,   (* what a factory call may bind: [params, slots, captures],    *)
              (* slots the role of each argument, captures the constants     *)
              (* whose value the factory bakes into the closure              *)
  Libraries,  (* the libraries to start from: [body, value, imports]         *)
  MaxEdits    (* bound: releases of the library                              *)

ASSUME FunctionsAreFinite == IsFiniteSet(Functions)
ASSUME NamesAreUnique ==
  /\ Key \in [Functions -> Int]
  /\ \A f, g \in Functions : Key[f] = Key[g] => f = g
ASSUME BuildersAreFunctions == Builders \in Seq(Functions)
ASSUME ImportsBindNames == Imports \subseteq [Names -> Functions]
ASSUME BodiesCallNames == \A b \in Bodies : b.calls \subseteq Names

(* A library: its functions, its constants, and what its imports bind.      *)
LibraryType ==
  [body : [Functions -> Bodies], value : [Constants -> Values], imports : Imports]
ASSUME LibrariesAreLibraries == Libraries \subseteq LibraryType
ASSUME BoundIsNatural == MaxEdits \in Nat

VARIABLES
  lib,      (* the code as it is now                                         *)
  bound,    (* the factory call of the feature                               *)
  busy,     (* the feature is being bound                                    *)
  stack,    (* the worklist                                                  *)
  sources,  (* the dict of sources, in insertion order: [key, source]        *)
  pins,     (* every fingerprint taken so far, with what the feature computed*)
  edits

vars == <<lib, bound, busy, stack, sources, pins, edits>>

-----------------------------------------------------------------------------
(* _first_party_callees: what the bare names f calls resolve to. *)
FirstPartyCallees(f) == {lib.imports[name] : name \in lib.body[f].calls}

(* _module_constants: what f reads by name, with its value. *)
ModuleConstants(f) == {<<k, lib.value[k]>> : k \in lib.body[f].reads}

(* Mutant: constants are not folded in. *)
SourceOnly(f) == <<lib.body[f], {}>>

(* What is hashed of f: its body, with the names as they are written. *)
Source(f) == <<lib.body[f], ModuleConstants(f)>>

KeysOf(srcs) == {srcs[i].key : i \in DOMAIN srcs}

(* Mutant: the sources in the order they were found. *)
Unsorted(srcs) == [i \in DOMAIN srcs |-> srcs[i].source]

(* sorted(sources.items()), of which the sources are kept. *)
InOrder(items) ==
  CHOOSE s \in SetToSeqs(items) : \A i, j \in DOMAIN s : i < j => s[i].key < s[j].key
SortedSources(srcs) ==
  LET inOrder == InOrder(ToSet(srcs))
  IN  [i \in DOMAIN inOrder |-> inOrder[i].source]

(* The roles fold in as a sorted list of their names: as a set. *)
Payload ==
  [params  |-> bound.params,
   roles   |-> ToSet(bound.slots),
   sources |-> SortedSources(sources)]

(* The functions a builder reaches through calls: the least set that has    *)
(* the builders and is closed under calls.                                  *)
IsClosed(S) == \A f \in S : FirstPartyCallees(f) \subseteq S
Reached ==
  {f \in Functions : \A S \in SUBSET Functions :
     ToSet(Builders) \subseteq S /\ IsClosed(S) => f \in S}

(* What the feature computes: which formula, on which columns, with which   *)
(* numbers, and which function each name in it is.                          *)
NamesIn(functions) == UNION {lib.body[f].calls : f \in functions}
Meaning ==
  [params  |-> bound.params,
   roles   |-> ToSet(bound.slots),
   formula |-> [f \in Reached |-> <<lib.body[f], ModuleConstants(f)>>],
   wiring  |-> [name \in NamesIn(Reached) |-> lib.imports[name]]]
BoundMeaning ==
  [slots    |-> bound.slots,
   captured |-> {<<k, lib.value[k]>> : k \in bound.captures}]

(* A fingerprint, with what the feature computes and the imports it was     *)
(* taken under.                                                             *)
NewPin ==
  [payload |-> Payload, meaning |-> Meaning, bound |-> BoundMeaning, imports |-> lib.imports]

-----------------------------------------------------------------------------
Init ==
  /\ lib \in Libraries
  /\ bound \in Bindings
  /\ busy = FALSE
  /\ stack = << >>
  /\ sources = << >>
  /\ pins = {}
  /\ edits = 0

(* bind_feature begins: the builders are the roots. *)
Start ==
  /\ ~ busy
  /\ busy' = TRUE
  /\ stack' = Builders
  /\ UNCHANGED <<lib, bound, sources, pins, edits>>

Popped == Front(stack)

(* Mutant: the function is looked at and left on the stack. *)
SkipPeeked ==
  /\ busy /\ stack # << >>
  /\ Key[Last(stack)] \in KeysOf(sources)
  /\ stack' = stack
  /\ UNCHANGED <<lib, bound, busy, sources, pins, edits>>

(* The popped function is hashed already. *)
Skip ==
  /\ busy /\ stack # << >>
  /\ Key[Last(stack)] \in KeysOf(sources)
  /\ stack' = Popped
  /\ UNCHANGED <<lib, bound, busy, sources, pins, edits>>

(* Mutant: the dict is not consulted first. *)
VisitAgain ==
  /\ busy /\ stack # << >>
  /\ LET fn == Last(stack)
     IN  /\ sources' = Append(sources, [key |-> Key[fn], source |-> Source(fn)])
         /\ \E callees \in SetToSeqs(FirstPartyCallees(fn)) :
              stack' = Popped \o callees
  /\ UNCHANGED <<lib, bound, busy, pins, edits>>

(* Mutant: helpers of helpers are not followed. *)
VisitShallow ==
  /\ busy /\ stack # << >>
  /\ LET fn == Last(stack)
     IN  /\ Key[fn] \notin KeysOf(sources)
         /\ sources' = Append(sources, [key |-> Key[fn], source |-> Source(fn)])
         /\ \E callees \in SetToSeqs(FirstPartyCallees(fn)) :
              stack' = Popped \o (IF fn \in ToSet(Builders) THEN callees ELSE << >>)
  /\ UNCHANGED <<lib, bound, busy, pins, edits>>

(* It is not: hash it and push what it calls, in any order. *)
Visit ==
  /\ busy /\ stack # << >>
  /\ LET fn == Last(stack)
     IN  /\ Key[fn] \notin KeysOf(sources)
         /\ sources' = Append(sources, [key |-> Key[fn], source |-> Source(fn)])
         /\ \E callees \in SetToSeqs(FirstPartyCallees(fn)) :
              stack' = Popped \o callees
  /\ UNCHANGED <<lib, bound, busy, pins, edits>>

(* Mutant: the dict is kept for the next binding. *)
FinishKeepingSources ==
  /\ busy /\ stack = << >>
  /\ busy' = FALSE
  /\ pins' = pins \cup {NewPin}
  /\ UNCHANGED <<lib, bound, stack, sources, edits>>

(* The feature is bound; its fingerprint goes into a manifest. *)
Finish ==
  /\ busy /\ stack = << >>
  /\ busy' = FALSE
  /\ pins' = pins \cup {NewPin}
  /\ sources' = << >>
  /\ UNCHANGED <<lib, bound, stack, edits>>

(* A release edits a function, or the value of a constant. *)
Edit(f, b) ==
  /\ ~ busy /\ edits < MaxEdits
  /\ lib' = [lib EXCEPT !.body[f] = b]
  /\ edits' = edits + 1
  /\ UNCHANGED <<bound, busy, stack, sources, pins>>

Retune(k, v) ==
  /\ ~ busy /\ edits < MaxEdits
  /\ lib' = [lib EXCEPT !.value[k] = v]
  /\ edits' = edits + 1
  /\ UNCHANGED <<bound, busy, stack, sources, pins>>

(* A release imports a name from elsewhere. *)
Repoint(imports) ==
  /\ ~ busy /\ edits < MaxEdits
  /\ lib' = [lib EXCEPT !.imports = imports]
  /\ edits' = edits + 1
  /\ UNCHANGED <<bound, busy, stack, sources, pins>>

(* The caller binds the feature another way. *)
Rebind(b) ==
  /\ ~ busy /\ edits < MaxEdits
  /\ bound' = b
  /\ edits' = edits + 1
  /\ UNCHANGED <<lib, busy, stack, sources, pins>>

Next ==
  \/ Start \/ Skip \/ Visit \/ Finish
  \/ \E f \in Functions, b \in Bodies : Edit(f, b)
  \/ \E k \in Constants, v \in Values : Retune(k, v)
  \/ \E imports \in Imports : Repoint(imports)
  \/ \E b \in Bindings : Rebind(b)

(* The loop is sequential code: it keeps running until it returns. *)
Spec == Init /\ [][Next]_vars
FairSpec == Spec /\ WF_vars(Skip \/ Visit \/ Finish)

-----------------------------------------------------------------------------
(* Every variable has its type; the dict holds a key once. *)
TypeOK ==
  /\ lib \in LibraryType
  /\ bound \in Bindings
  /\ busy \in BOOLEAN
  /\ stack \in Seq(Functions)
  /\ sources \in Seq([key : Int, source : {Source(f) : f \in Functions}])
  /\ \A i, j \in DOMAIN sources : sources[i].key = sources[j].key => i = j
  /\ edits \in 0..MaxEdits

(* When the worklist is empty, what was hashed is the whole formula and     *)
(* nothing else, however the calls loop and in whatever order they came     *)
(* (_transitive_sources: "the fingerprint covers the whole formula, not     *)
(* just its entry point").                                                  *)
WholeFormula == KeysOf(sources) = {Key[f] : f \in Reached}
FormulaIsCovered == busy /\ stack = << >> => WholeFormula

(* Train and serve: two equal fingerprints, taken at any two moments in the *)
(* life of the library between which the imports bind the names alike, come *)
(* from features with the same formula, the same parameters, the same roles *)
(* and the same constants (FEATURES.md 4.4).  Of other imports it is not    *)
(* so: two names that exchange their functions leave every source alone.    *)
EqualPinsEqualFormula ==
  \A p, q \in pins :
    p.payload = q.payload /\ p.imports = q.imports => p.meaning = q.meaning

(* And an unchanged feature keeps its fingerprint from process to process,  *)
(* so that the manifest gate does not cry wolf.                             *)
UnchangedKeepsItsPin ==
  \A p, q \in pins : p.meaning = q.meaning => p.payload = q.payload

(* Binding a feature ends, on any call graph, recursive ones included.      *)
BindingEnds == busy ~> ~ busy

(* What the code does not do, though README.md says of the fingerprint that *)
(* it "catches the changes that matter in practice -- a retuned constant".  *)
RetunedConstantShows ==
  \A p, q \in pins : p.payload = q.payload => p.bound.captured = q.bound.captured

-----------------------------------------------------------------------------
(* The sources of a set of functions, in the order of their keys. *)
InKeyOrder(S) ==
  [i \in 1..Cardinality(S) |->
     Source(CHOOSE f \in S : Cardinality({g \in S : Key[g] < Key[f]}) = i - 1)]

CanonicalPayload ==
  [params  |-> bound.params,
   roles   |-> ToSet(bound.slots),
   sources |-> InKeyOrder(Reached)]

Log == INSTANCE PinLog WITH
         code <- lib, call <- bound, payload <- CanonicalPayload,
         pinned <- {p.payload : p \in pins}

(* A binding is as good as atomic, and what it pins is a function of the    *)
(* code and the call alone: not of the path the worklist took, of the order *)
(* in which a process iterates its sets, nor of a binding that came before. *)
ImplementsPinLog == Log!LogSpec
=============================================================================
