-------------------------- MODULE FingerprintProofs -------------------------
(***************************************************************************)
(* The worklist of _transitive_sources covers the formula, whatever the    *)
(* call graph of the library, however often it is edited, and in whatever  *)
(* order a set of callees is pushed.  So a binding is as good as atomic,   *)
(* and pins the sources of the functions the builders reach, in the order  *)
(* of their keys; and under the same imports two pins are equal exactly    *)
(* when the formulas are, although a payload names no function, and        *)
(* whatever the releases between the two.                                  *)
(***************************************************************************)
EXTENDS Fingerprint, OrderLemmas, FiniteSetTheorems, SequenceTheorems, TLAPS

(* The functions hashed so far. *)
Visited == {f \in Functions : Key[f] \in KeysOf(sources)}
Pushed == ToSet(stack)

(* Between two bindings the loop's locals do not exist. *)
IdleIsEmpty == ~ busy => stack = << >> /\ sources = << >>

(* Every key is that of a function. *)
KeysAreNames == \A key \in KeysOf(sources) : \E f \in Functions : key = Key[f]

(* What is reached and not hashed is behind something still on the stack.   *)
NothingIsLost ==
  busy => /\ ToSet(Builders) \subseteq Visited \cup Pushed
          /\ \A f \in Visited : FirstPartyCallees(f) \subseteq Visited \cup Pushed

(* Nothing is hashed, or will be, that the builders do not reach. *)
NothingIsExtra == Visited \cup Pushed \subseteq Reached

IInv == TypeOK /\ IdleIsEmpty /\ KeysAreNames /\ NothingIsLost /\ NothingIsExtra

-----------------------------------------------------------------------------
(* The range of a sequence, of its front, and of a concatenation. *)
LEMMA RangeOfConcat ==
  ASSUME NEW s \in Seq(Functions), NEW t \in Seq(Functions)
  PROVE  /\ s \o t \in Seq(Functions)
         /\ ToSet(s \o t) = ToSet(s) \cup ToSet(t)
<1>1. s \o t \in Seq(Functions) /\ Len(s \o t) = Len(s) + Len(t)
  OBVIOUS
<1>2. ToSet(s \o t) \subseteq ToSet(s) \cup ToSet(t)
  <2> SUFFICES ASSUME NEW i \in 1..Len(s \o t)
               PROVE  (s \o t)[i] \in ToSet(s) \cup ToSet(t)
    BY <1>1 DEF ToSet
  <2>1. CASE i <= Len(s)
    BY <2>1, <1>1 DEF ToSet
  <2>2. CASE i > Len(s)
    BY <2>2, <1>1, i - Len(s) \in 1..Len(t), (s \o t)[i] = t[i - Len(s)] DEF ToSet
  <2> QED BY <2>1, <2>2, <1>1
<1>3. ToSet(s) \subseteq ToSet(s \o t)
  BY <1>1 DEF ToSet
<1>4. ToSet(t) \subseteq ToSet(s \o t)
  <2> SUFFICES ASSUME NEW i \in 1..Len(t)
               PROVE  t[i] \in ToSet(s \o t)
    BY DEF ToSet
  <2>1. Len(s) + i \in 1..Len(s \o t) /\ (s \o t)[Len(s) + i] = t[i]
    BY <1>1
  <2> QED BY <2>1 DEF ToSet
<1> QED BY <1>1, <1>2, <1>3, <1>4

(* Popping the stack gives a function and leaves the rest of the stack. *)
LEMMA RangeOfPop ==
  ASSUME NEW s \in Seq(Functions), s # << >>
  PROVE  /\ Front(s) \in Seq(Functions)
         /\ Last(s) \in Functions
         /\ ToSet(s) = ToSet(Front(s)) \cup {Last(s)}
<1>1. Len(s) \in Nat \ {0}
  OBVIOUS
<1>2. /\ Front(s) \in Seq(Functions)
      /\ Len(Front(s)) = Len(s) - 1
      /\ \A i \in 1..(Len(s) - 1) : Front(s)[i] = s[i]
  <2>1. Front(s) = SubSeq(s, 1, Len(s) - 1)
    BY DEF Front
  <2>2. 1 \in Int /\ Len(s) - 1 \in Int /\ \A i \in 1..(Len(s) - 1) : s[i] \in Functions
    BY <1>1
  <2>3. /\ SubSeq(s, 1, Len(s) - 1) \in Seq(Functions)
        /\ Len(SubSeq(s, 1, Len(s) - 1)) =
             IF 1 <= Len(s) - 1 THEN (Len(s) - 1) - 1 + 1 ELSE 0
        /\ \A i \in 1..((Len(s) - 1) - 1 + 1) : SubSeq(s, 1, Len(s) - 1)[i] = s[1 + i - 1]
    BY <2>2, SubSeqProperties
  <2>4. (Len(s) - 1) - 1 + 1 = Len(s) - 1 /\ \A i \in 1..(Len(s) - 1) : 1 + i - 1 = i
    BY <1>1
  <2> QED BY <1>1, <2>1, <2>3, <2>4
<1>3. Last(s) \in Functions
  BY <1>1 DEF Last
<1>4. ToSet(s) = {s[i] : i \in 1..Len(s)}
  BY DEF ToSet
<1>5. ToSet(Front(s)) = {s[i] : i \in 1..(Len(s) - 1)}
  BY <1>1, <1>2 DEF ToSet
<1>6. 1..Len(s) = 1..(Len(s) - 1) \cup {Len(s)}
  BY <1>1
<1> QED BY <1>2, <1>3, <1>4, <1>5, <1>6 DEF Last

(* A set of callees is pushed whole, in any order. *)
LEMMA RangeOfOrder ==
  ASSUME NEW S, IsFiniteSet(S), S \subseteq Functions, NEW s \in SetToSeqs(S)
  PROVE  s \in Seq(Functions) /\ ToSet(s) = S
<1> DEFINE n == Cardinality(S)
<1>1. n \in Nat
  BY FS_CardinalityType
<1>2. /\ s \in [1..n -> S]
      /\ \A i, j \in 1..n : i # j => s[i] # s[j]
  BY DEF SetToSeqs
<1>3. s \in Seq(Functions) /\ DOMAIN s = 1..n
  BY <1>1, <1>2
<1>4. ToSet(s) \subseteq S
  BY <1>2, <1>3 DEF ToSet
<1>5. s \in Injection(1..n, S)
  BY <1>2 DEF Injection, IsInjective
<1>6. s \in Surjection(1..n, S)
  <2>1. IsFiniteSet(1..n) /\ Cardinality(1..n) = n
    BY <1>1, FS_Interval
  <2> QED BY <2>1, <1>5, FS_Injection
<1> QED BY <1>3, <1>4, <1>6 DEF ToSet, Surjection
-----------------------------------------------------------------------------
(* What a function calls is a finite set of functions. *)
LEMMA CalleesAreFunctions ==
  ASSUME TypeOK, NEW f \in Functions
  PROVE  FirstPartyCallees(f) \subseteq Functions /\ IsFiniteSet(FirstPartyCallees(f))
<1>1. lib.body[f] \in Bodies /\ lib.imports \in [Names -> Functions]
  BY ImportsBindNames DEF TypeOK, LibraryType
<1>2. FirstPartyCallees(f) \subseteq Functions
  BY <1>1, BodiesCallNames DEF FirstPartyCallees
<1> QED BY <1>2, FunctionsAreFinite, FS_Subset

(* Reached has the builders, is closed under calls, and is least.           *)
LEMMA ReachedIsLeast ==
  ASSUME TypeOK
  PROVE  /\ Reached \subseteq Functions
         /\ ToSet(Builders) \subseteq Reached
         /\ IsClosed(Reached)
         /\ \A S \in SUBSET Functions :
              ToSet(Builders) \subseteq S /\ IsClosed(S) => Reached \subseteq S
<1>1. Reached \subseteq Functions
  BY DEF Reached
<1>2. ToSet(Builders) \subseteq Reached
  BY BuildersAreFunctions DEF Reached, ToSet
<1>3. IsClosed(Reached)
  BY CalleesAreFunctions DEF Reached, IsClosed
<1> QED BY <1>1, <1>2, <1>3 DEF Reached

(* Appending a source adds its key. *)
LEMMA KeysOfAppend ==
  ASSUME NEW T, NEW srcs \in Seq(T), NEW e
  PROVE  KeysOf(Append(srcs, e)) = KeysOf(srcs) \cup {e.key}
<1>1. /\ DOMAIN Append(srcs, e) = 1..(Len(srcs) + 1)
      /\ \A i \in 1..Len(srcs) : Append(srcs, e)[i] = srcs[i]
      /\ Append(srcs, e)[Len(srcs) + 1] = e
  OBVIOUS
<1>2. DOMAIN srcs = 1..Len(srcs) /\ Len(srcs) \in Nat
  OBVIOUS
<1>3. 1..(Len(srcs) + 1) = 1..Len(srcs) \cup {Len(srcs) + 1}
  BY <1>2
<1> QED BY <1>1, <1>2, <1>3 DEF KeysOf

-----------------------------------------------------------------------------
(* Before the first binding nothing is hashed and nothing is pushed. *)
LEMMA InitIInv == Init => IInv
<1> SUFFICES ASSUME Init PROVE IInv
  OBVIOUS
<1>1. TypeOK
  <2>1. edits \in 0..MaxEdits
    BY BoundIsNatural DEF Init
  <2>2. lib \in LibraryType
    BY LibrariesAreLibraries DEF Init
  <2>3. stack \in Seq(Functions) /\ DOMAIN sources = {}
        /\ sources \in Seq([key : Int, source : {Source(f) : f \in Functions}])
    BY DEF Init
  <2> QED BY <2>1, <2>2, <2>3 DEF Init, TypeOK
<1>2. Visited \cup Pushed = {}
  BY DEF Init, Visited, Pushed, KeysOf, ToSet
<1> QED BY <1>1, <1>2 DEF Init, IInv, IdleIsEmpty, KeysAreNames, NothingIsLost,
             NothingIsExtra, KeysOf

(* Inside the loop the code does not change, nor what it reaches. *)
LEMMA CodeStandsStill ==
  ASSUME lib' = lib
  PROVE  /\ \A f \in Functions : FirstPartyCallees(f)' = FirstPartyCallees(f)
         /\ \A f \in Functions : Source(f)' = Source(f)
         /\ Reached' = Reached
BY DEF FirstPartyCallees, ModuleConstants, Source, Reached, IsClosed

(* Between two bindings any edit keeps the invariant: no source is held.    *)
LEMMA IdleKeepsIInv ==
  ASSUME TypeOK', busy' = FALSE, stack' = << >>, sources' = << >>
  PROVE  IInv'
<1>1. KeysOf(sources)' = {} /\ (Visited \cup Pushed)' = {}
  BY DEF KeysOf, Visited, Pushed, ToSet
<1> QED BY <1>1 DEF IInv, IdleIsEmpty, KeysAreNames, NothingIsLost, NothingIsExtra

(* feature_fingerprint pushes the builders, so nothing is lost. *)
LEMMA StartKeepsIInv == IInv /\ Start => IInv'
<1> SUFFICES ASSUME IInv, Start PROVE IInv'
  OBVIOUS
<1> USE DEF IInv
<1>1. sources = << >> /\ lib' = lib /\ sources' = sources /\ stack' = Builders /\ busy'
  BY DEF Start, IdleIsEmpty
<1>2. TypeOK'
  <2>1. sources' \in Seq([key : Int, source : {Source(f)' : f \in Functions}])
        /\ DOMAIN sources' = {}
    BY <1>1
  <2>2. bound' = bound /\ edits' = edits /\ busy' \in BOOLEAN
    BY DEF Start
  <2>3. stack' \in Seq(Functions)
    BY <1>1, BuildersAreFunctions
  <2> QED BY <1>1, <2>1, <2>2, <2>3 DEF TypeOK
<1>3. KeysOf(sources)' = {} /\ Visited' = {} /\ Pushed' = ToSet(Builders)
  BY <1>1 DEF KeysOf, Visited, Pushed
<1>4. Reached' = Reached /\ ToSet(Builders) \subseteq Reached
  BY <1>1, CodeStandsStill, ReachedIsLeast
<1> QED BY <1>1, <1>2, <1>3, <1>4 DEF IdleIsEmpty, KeysAreNames, NothingIsLost, NothingIsExtra

(* Passing over a source that is hashed already loses nothing. *)
LEMMA SkipKeepsIInv == IInv /\ Skip => IInv'
<1> SUFFICES ASSUME IInv, Skip PROVE IInv'
  OBVIOUS
<1> USE DEF IInv
<1>1. /\ busy /\ busy' /\ stack # << >> /\ stack \in Seq(Functions)
      /\ lib' = lib /\ sources' = sources /\ stack' = Front(stack)
      /\ Key[Last(stack)] \in KeysOf(sources)
  BY DEF Skip, Popped, TypeOK
<1>2. /\ Front(stack) \in Seq(Functions) /\ Last(stack) \in Functions
      /\ Pushed = ToSet(Front(stack)) \cup {Last(stack)}
  BY <1>1, RangeOfPop DEF Pushed
<1>3. TypeOK'
  <2>1. bound' = bound /\ edits' = edits /\ busy' = busy
    BY DEF Skip
  <2>2. {Source(f)' : f \in Functions} = {Source(f) : f \in Functions}
    BY <1>1, CodeStandsStill
  <2>3. stack' \in Seq(Functions)
    BY <1>1, <1>2
  <2> QED BY <1>1, <2>1, <2>2, <2>3 DEF TypeOK
<1>4. /\ KeysOf(sources)' = KeysOf(sources) /\ Visited' = Visited
      /\ Last(stack) \in Visited
      /\ Pushed' \subseteq Pushed /\ Visited \cup Pushed = Visited' \cup Pushed'
  BY <1>1, <1>2 DEF KeysOf, Visited, Pushed
<1>5. NothingIsLost'
  BY <1>1, <1>4, CodeStandsStill DEF NothingIsLost, Visited
<1>6. NothingIsExtra'
  BY <1>1, <1>4, CodeStandsStill DEF NothingIsExtra
<1> QED BY <1>1, <1>3, <1>4, <1>5, <1>6 DEF IdleIsEmpty, KeysAreNames

(* Hashing a function pushes its callees in its place. *)
LEMMA VisitKeepsIInv == IInv /\ Visit => IInv'
<1> SUFFICES ASSUME IInv, Visit PROVE IInv'
  OBVIOUS
<1> USE DEF IInv
<1> DEFINE fn == Last(stack)
           entry == [key |-> Key[fn], source |-> Source(fn)]
<1>1. /\ busy /\ busy' /\ stack # << >> /\ stack \in Seq(Functions)
      /\ lib' = lib /\ sources' = Append(sources, entry)
      /\ Key[fn] \notin KeysOf(sources)
  BY DEF Visit, TypeOK
<1>2. /\ Front(stack) \in Seq(Functions) /\ fn \in Functions
      /\ Pushed = ToSet(Front(stack)) \cup {fn}
  BY <1>1, RangeOfPop DEF Pushed
<1>3. PICK callees \in SetToSeqs(FirstPartyCallees(fn)) : stack' = Front(stack) \o callees
  BY DEF Visit, Popped
<1>4. callees \in Seq(Functions) /\ ToSet(callees) = FirstPartyCallees(fn)
  BY <1>2, CalleesAreFunctions, RangeOfOrder
<1>5. stack' \in Seq(Functions) /\ Pushed' = ToSet(Front(stack)) \cup FirstPartyCallees(fn)
  BY <1>2, <1>3, <1>4, RangeOfConcat DEF Pushed
<1>6. KeysOf(sources') = KeysOf(sources) \cup {Key[fn]}
  BY <1>1, KeysOfAppend DEF TypeOK
<1>7. Visited' = Visited \cup {fn}
  BY <1>2, <1>6, NamesAreUnique DEF Visited
<1>8. TypeOK'
  <2>1. entry \in [key : Int, source : {Source(f) : f \in Functions}]
    BY <1>2, NamesAreUnique
  <2>2. sources' \in Seq([key : Int, source : {Source(f) : f \in Functions}])
    BY <1>1, <2>1 DEF TypeOK
  <2>3. {Source(f)' : f \in Functions} = {Source(f) : f \in Functions}
    BY <1>1, CodeStandsStill
  <2>4. \A i, j \in DOMAIN sources' : sources'[i].key = sources'[j].key => i = j
    <3>1. /\ DOMAIN sources' = 1..(Len(sources) + 1) /\ Len(sources) \in Nat
          /\ DOMAIN sources = 1..Len(sources)
          /\ \A i \in 1..Len(sources) : sources'[i] = sources[i]
          /\ sources'[Len(sources) + 1] = entry
      BY <1>1 DEF TypeOK
    <3>2. \A i \in 1..Len(sources) : sources[i].key # entry.key
      BY <1>1, <3>1 DEF KeysOf
    <3>3. \A i, j \in 1..Len(sources) : sources[i].key = sources[j].key => i = j
      BY <3>1 DEF TypeOK
    <3>4. \A i \in DOMAIN sources' : i \in 1..Len(sources) \/ i = Len(sources) + 1
      BY <3>1
    <3> HIDE DEF entry
    <3> QED BY <3>1, <3>2, <3>3, <3>4
  <2>5. bound' = bound /\ edits' = edits /\ busy' = busy
    BY DEF Visit
  <2> QED BY <1>1, <1>5, <2>2, <2>3, <2>4, <2>5 DEF TypeOK
<1>9. KeysAreNames'
  BY <1>2, <1>6 DEF KeysAreNames
<1>10. NothingIsLost'
  <2>1. Visited \cup Pushed \subseteq Visited' \cup Pushed'
    BY <1>2, <1>5, <1>7
  <2>2. FirstPartyCallees(fn) \subseteq Visited' \cup Pushed'
    BY <1>5
  <2>3. \A f \in Visited' : FirstPartyCallees(f) \subseteq Visited' \cup Pushed'
    BY <1>1, <1>7, <2>1, <2>2 DEF NothingIsLost
  <2>4. \A f \in Visited' : FirstPartyCallees(f)' = FirstPartyCallees(f)
    BY <1>1, CodeStandsStill DEF Visited
  <2> QED BY <1>1, <2>1, <2>3, <2>4 DEF NothingIsLost
<1>11. NothingIsExtra'
  <2>1. fn \in Reached
    BY <1>2 DEF NothingIsExtra
  <2>2. FirstPartyCallees(fn) \subseteq Reached
    BY <2>1, ReachedIsLeast DEF IsClosed
  <2>3. Reached' = Reached
    BY <1>1, CodeStandsStill
  <2> QED BY <1>2, <1>5, <1>7, <2>1, <2>2, <2>3 DEF NothingIsExtra
<1> QED BY <1>1, <1>8, <1>9, <1>10, <1>11 DEF IdleIsEmpty

(* The end of a binding leaves no locals behind. *)
LEMMA FinishKeepsIInv == IInv /\ Finish => IInv'
<1> SUFFICES ASSUME IInv, Finish PROVE IInv'
  OBVIOUS
<1>1. /\ busy' = FALSE /\ stack' = << >> /\ sources' = << >>
      /\ lib' = lib /\ bound' = bound /\ edits' = edits
  BY DEF Finish
<1>2. TypeOK'
  <2>1. sources' \in Seq([key : Int, source : {Source(f)' : f \in Functions}])
        /\ DOMAIN sources' = {} /\ stack' \in Seq(Functions)
    BY <1>1
  <2> QED BY <1>1, <2>1 DEF IInv, TypeOK
<1> QED BY <1>1, <1>2, IdleKeepsIInv

(* A release, or another binding. *)
LEMMA ReleaseKeepsIInv ==
  ASSUME IInv, ~ busy, edits < MaxEdits, edits' = edits + 1,
         lib' \in LibraryType,
         bound' \in Bindings, UNCHANGED <<busy, stack, sources>>
  PROVE  IInv'
<1>1. busy' = FALSE /\ stack' = << >> /\ sources' = << >>
  BY DEF IInv, TypeOK, IdleIsEmpty
<1>2. TypeOK'
  <2>1. sources' \in Seq([key : Int, source : {Source(f)' : f \in Functions}])
        /\ DOMAIN sources' = {} /\ stack' \in Seq(Functions)
    BY <1>1
  <2>2. edits' \in 0..MaxEdits
    BY BoundIsNatural DEF IInv, TypeOK
  <2> QED BY <1>1, <2>1, <2>2 DEF TypeOK
<1> QED BY <1>1, <1>2, IdleKeepsIInv

(* Every step, releases and rebindings among them, keeps the invariant. *)
LEMMA StepKeepsIInv == IInv /\ [Next]_vars => IInv'
<1> SUFFICES ASSUME IInv, [Next]_vars PROVE IInv'
  OBVIOUS
<1>1. CASE Start
  BY <1>1, StartKeepsIInv
<1>2. CASE Skip
  BY <1>2, SkipKeepsIInv
<1>3. CASE Visit
  BY <1>3, VisitKeepsIInv
<1>4. CASE Finish
  BY <1>4, FinishKeepsIInv
<1>5. ASSUME NEW f \in Functions, NEW b \in Bodies, Edit(f, b) PROVE IInv'
  <2>1. lib' \in LibraryType
    BY <1>5 DEF Edit, IInv, TypeOK, LibraryType
  <2> QED BY <1>5, <2>1, ReleaseKeepsIInv DEF Edit, IInv, TypeOK
<1>6. ASSUME NEW k \in Constants, NEW v \in Values, Retune(k, v) PROVE IInv'
  <2>1. lib' \in LibraryType
    BY <1>6 DEF Retune, IInv, TypeOK, LibraryType
  <2> QED BY <1>6, <2>1, ReleaseKeepsIInv DEF Retune, IInv, TypeOK
<1>7. ASSUME NEW b \in Bindings, Rebind(b) PROVE IInv'
  BY <1>7, ReleaseKeepsIInv DEF Rebind, IInv, TypeOK
<1>8. CASE UNCHANGED vars
  <2>1. /\ lib' = lib /\ bound' = bound /\ busy' = busy /\ stack' = stack
        /\ sources' = sources /\ edits' = edits
    BY <1>8 DEF vars
  <2>2. {Source(f)' : f \in Functions} = {Source(f) : f \in Functions}
    BY <2>1, CodeStandsStill
  <2>3. TypeOK'
    BY <2>1, <2>2 DEF IInv, TypeOK
  <2>4. KeysOf(sources)' = KeysOf(sources) /\ Visited' = Visited /\ Pushed' = Pushed
    BY <2>1 DEF KeysOf, Visited, Pushed
  <2>5. NothingIsLost'
    BY <2>1, <2>4, CodeStandsStill DEF IInv, NothingIsLost, Visited
  <2>6. NothingIsExtra'
    BY <2>1, <2>4, CodeStandsStill DEF IInv, NothingIsExtra
  <2> QED BY <2>1, <2>3, <2>4, <2>5, <2>6 DEF IInv, IdleIsEmpty, KeysAreNames
<1>9. ASSUME NEW imports \in Imports, Repoint(imports) PROVE IInv'
  <2>1. lib' \in LibraryType
    BY <1>9 DEF Repoint, IInv, TypeOK, LibraryType
  <2> QED BY <1>9, <2>1, ReleaseKeepsIInv DEF Repoint, IInv, TypeOK
<1> QED BY <1>1, <1>2, <1>3, <1>4, <1>5, <1>6, <1>7, <1>8, <1>9 DEF Next

(* With nothing left on the worklist, what was hashed is closed: it is all. *)
LEMMA IInvCoversFormula == IInv => FormulaIsCovered
<1> SUFFICES ASSUME IInv, busy, stack = << >> PROVE WholeFormula
  BY DEF FormulaIsCovered
<1>1. Pushed = {}
  BY DEF Pushed, ToSet
<1>2. ToSet(Builders) \subseteq Visited /\ IsClosed(Visited)
  BY <1>1 DEF IInv, NothingIsLost, IsClosed
<1>3. Visited = Reached
  BY <1>2, ReachedIsLeast DEF IInv, NothingIsExtra, Visited
<1>4. KeysOf(sources) = {Key[f] : f \in Visited}
  BY DEF IInv, KeysAreNames, Visited
<1> QED BY <1>3, <1>4 DEF WholeFormula

-----------------------------------------------------------------------------
(* The inductive invariant holds of every behaviour of the specification.   *)
THEOREM WorklistInductive == Spec => []IInv
BY InitIInv, StepKeepsIInv, PTL DEF Spec

(* Type correctness: the worklist holds functions, the dict a key once.     *)
THEOREM WorklistTypeCorrect == Spec => []TypeOK
<1>1. IInv => TypeOK
  BY DEF IInv
<1> QED BY <1>1, WorklistInductive, PTL

(* The fingerprint covers the whole formula: when the worklist of           *)
(* _transitive_sources is empty, the functions hashed are exactly those the *)
(* builders reach, for any library and any order of pushing.                *)
THEOREM FingerprintCoversFormula == Spec => []FormulaIsCovered
BY IInvCoversFormula, WorklistInductive, PTL

-----------------------------------------------------------------------------
(* What is pinned. *)

(* What was hashed is the code as it is: nobody edits it meanwhile. *)
SourcesAreCurrent ==
  \A i \in DOMAIN sources : \A f \in Functions :
    sources[i].key = Key[f] => sources[i].source = Source(f)

PlaceOf(R, f) == Cardinality({g \in R : Key[g] < Key[f]})

(* The sources of a formula, in the order of the keys; the names in it, and *)
(* what some imports bind them to.                                          *)
Ordered(formula) ==
  [i \in 1..Cardinality(DOMAIN formula) |->
     formula[CHOOSE f \in DOMAIN formula : PlaceOf(DOMAIN formula, f) = i - 1]]
NamesOf(formula) == UNION {formula[f][1].calls : f \in DOMAIN formula}
CalledBy(formula, imports) == {imports[name] : name \in NamesOf(formula)}
WiringOf(formula, imports) == [name \in NamesOf(formula) |-> imports[name]]

(* A pin holds a formula that is the builders and all they call, and of     *)
(* that formula its sources.                                                *)
PinsAreWhole ==
  \A p \in pins :
    LET formula == p.meaning.formula
    IN  /\ p.payload = [params |-> p.meaning.params, roles |-> p.meaning.roles,
                        sources |-> Ordered(formula)]
        /\ p.meaning = [params |-> p.meaning.params, roles |-> p.meaning.roles,
                        formula |-> formula, wiring |-> WiringOf(formula, p.imports)]
        /\ formula = [f \in DOMAIN formula |-> formula[f]]
        /\ DOMAIN formula \subseteq Functions
        /\ DOMAIN formula = ToSet(Builders) \cup CalledBy(formula, p.imports)

PInv == IInv /\ SourcesAreCurrent /\ PinsAreWhole

-----------------------------------------------------------------------------
(* Functions and their keys, one place each. *)
LEMMA PlacesOfFunctions ==
  ASSUME NEW R, R \subseteq Functions
  PROVE  /\ IsFiniteSet(R) /\ Cardinality(R) \in Nat
         /\ \A f \in R : PlaceOf(R, f) \in Nat /\ PlaceOf(R, f) + 1 \in 1..Cardinality(R)
         /\ \A f, g \in R : PlaceOf(R, f) = PlaceOf(R, g) => f = g
         /\ \A i \in 1..Cardinality(R) : \E f \in R : PlaceOf(R, f) = i - 1
<1> DEFINE key == [f \in R |-> Key[f]]
           K == {key[f] : f \in R}
<1>1. IsFiniteSet(R) /\ Cardinality(R) \in Nat
  BY FunctionsAreFinite, FS_Subset, FS_CardinalityType
<1>2. key \in [R -> Int] /\ \A f, g \in R : key[f] = key[g] => f = g
  BY NamesAreUnique
<1>3. \A f \in R : PlaceOf(R, f) = Cardinality({g \in R : key[g] < key[f]})
  <2> SUFFICES ASSUME NEW f \in R
               PROVE  {g \in R : Key[g] < Key[f]} = {g \in R : key[g] < key[f]}
    BY DEF PlaceOf
  <2> QED OBVIOUS
<1> HIDE DEF key
<1>4. /\ IsFiniteSet(K) /\ Cardinality(K) = Cardinality(R) /\ K \subseteq Int
      /\ \A f \in R : Cardinality({g \in R : key[g] < key[f]}) = Place(K, key[f])
  BY <1>1, <1>2, KeyedCount
<1> HIDE DEF K
<1>5. \A f \in R : key[f] \in K /\ PlaceOf(R, f) = Place(K, key[f])
  BY <1>3, <1>4 DEF K
<1>6. ASSUME NEW f \in R
      PROVE  PlaceOf(R, f) \in Nat /\ PlaceOf(R, f) + 1 \in 1..Cardinality(R)
  <2>1. Place(K, key[f]) \in 0..(Cardinality(K) - 1)
    BY <1>4, <1>5, PlacesAreOrdered
  <2>2. PlaceOf(R, f) \in 0..(Cardinality(R) - 1)
    BY <2>1, <1>4, <1>5
  <2> QED BY <2>2, <1>1
<1>7. ASSUME NEW f \in R, NEW g \in R, PlaceOf(R, f) = PlaceOf(R, g)
      PROVE  f = g
  <2>1. Place(K, key[f]) = Place(K, key[g]) /\ key[f] \in K /\ key[g] \in K
    BY <1>5, <1>7
  <2>2. key[f] = key[g]
    BY <2>1, <1>4, PlaceTellsKey
  <2> QED BY <2>2, <1>2
<1>8. ASSUME NEW i \in 1..Cardinality(R)
      PROVE  \E f \in R : PlaceOf(R, f) = i - 1
  <2>1. i - 1 \in 0..(Cardinality(K) - 1)
    BY <1>1, <1>4
  <2>2. PICK k \in K : Place(K, k) = i - 1
    BY <2>1, <1>4, PlaceIsTaken
  <2>3. PICK f \in R : k = key[f]
    BY DEF K
  <2> QED BY <2>2, <2>3, <1>5
<1> QED BY <1>1, <1>6, <1>7, <1>8

(* Each function's source is in its place. *)
LEMMA OrderedAt ==
  ASSUME NEW R, R \subseteq Functions, NEW formula, DOMAIN formula = R
  PROVE  /\ DOMAIN Ordered(formula) = 1..Cardinality(R)
         /\ \A f \in R : Ordered(formula)[PlaceOf(R, f) + 1] = formula[f]
<1>1. DOMAIN Ordered(formula) = 1..Cardinality(R)
  BY DEF Ordered
<1>2. ASSUME NEW f \in R
      PROVE  Ordered(formula)[PlaceOf(R, f) + 1] = formula[f]
  <2> PICK p : p = PlaceOf(R, f)
    OBVIOUS
  <2>1. p + 1 \in 1..Cardinality(R) /\ p \in Nat
    BY PlacesOfFunctions
  <2>2. (p + 1) - 1 = p
    BY <2>1
  <2>3. f = CHOOSE g \in R : PlaceOf(R, g) = p
    BY PlacesOfFunctions
  <2>4. Ordered(formula)[p + 1] = formula[CHOOSE g \in R : PlaceOf(R, g) = (p + 1) - 1]
    BY <2>1 DEF Ordered
  <2> QED BY <2>2, <2>3, <2>4
<1> QED BY <1>1, <1>2

(* Equal sources, in order, are of one set of functions, which nobody wrote *)
(* down: what is called is in the sources, and what is reached is what is   *)
(* called and the builders.                                                 *)
LEMMA OrderedTellsFormula ==
  ASSUME NEW R, R \subseteq Functions, NEW T, T \subseteq Functions,
         NEW V1, NEW f1 \in [R -> V1], NEW V2, NEW f2 \in [T -> V2],
         NEW imports,
         R = ToSet(Builders) \cup CalledBy(f1, imports),
         T = ToSet(Builders) \cup CalledBy(f2, imports),
         Ordered(f1) = Ordered(f2)
  PROVE  f1 = f2
<1>1. /\ Cardinality(R) \in Nat /\ Cardinality(T) \in Nat
      /\ \A f \in R : PlaceOf(R, f) \in Nat /\ PlaceOf(R, f) + 1 \in 1..Cardinality(R)
      /\ \A f \in T : PlaceOf(T, f) \in Nat /\ PlaceOf(T, f) + 1 \in 1..Cardinality(T)
      /\ \A i \in 1..Cardinality(R) : \E f \in R : PlaceOf(R, f) = i - 1
      /\ \A i \in 1..Cardinality(T) : \E f \in T : PlaceOf(T, f) = i - 1
  <2>1. /\ Cardinality(R) \in Nat
        /\ \A f \in R : PlaceOf(R, f) \in Nat /\ PlaceOf(R, f) + 1 \in 1..Cardinality(R)
        /\ \A i \in 1..Cardinality(R) : \E f \in R : PlaceOf(R, f) = i - 1
    BY ONLY R \subseteq Functions, PlacesOfFunctions
  <2>2. /\ Cardinality(T) \in Nat
        /\ \A f \in T : PlaceOf(T, f) \in Nat /\ PlaceOf(T, f) + 1 \in 1..Cardinality(T)
        /\ \A i \in 1..Cardinality(T) : \E f \in T : PlaceOf(T, f) = i - 1
    BY ONLY T \subseteq Functions, PlacesOfFunctions
  <2> QED BY <2>1, <2>2
<1>2. Cardinality(R) = Cardinality(T)
  <2>1. DOMAIN Ordered(f1) = 1..Cardinality(R) /\ DOMAIN Ordered(f2) = 1..Cardinality(T)
    BY OrderedAt
  <2>2. 1..Cardinality(R) = 1..Cardinality(T)
    BY <2>1
  <2> QED BY <2>2, <1>1
<1>3. ASSUME NEW f \in R, NEW g \in T, PlaceOf(R, f) = PlaceOf(T, g)
      PROVE  f1[f] = f2[g]
  <2>1. Ordered(f1)[PlaceOf(R, f) + 1] = f1[f]
    BY OrderedAt
  <2>2. Ordered(f2)[PlaceOf(T, g) + 1] = f2[g]
    BY OrderedAt
  <2> QED BY <2>1, <2>2, <1>3
<1>4. \A f \in R : \E g \in T : PlaceOf(R, f) = PlaceOf(T, g)
  <2> SUFFICES ASSUME NEW f \in R PROVE \E g \in T : PlaceOf(R, f) = PlaceOf(T, g)
    OBVIOUS
  <2>1. PlaceOf(R, f) \in Nat /\ PlaceOf(R, f) + 1 \in 1..Cardinality(T)
    BY <1>1, <1>2
  <2>2. PICK g \in T : PlaceOf(T, g) = (PlaceOf(R, f) + 1) - 1
    BY <2>1, <1>1
  <2> QED BY <2>1, <2>2
<1>5. \A g \in T : \E f \in R : PlaceOf(R, f) = PlaceOf(T, g)
  <2> SUFFICES ASSUME NEW g \in T PROVE \E f \in R : PlaceOf(R, f) = PlaceOf(T, g)
    OBVIOUS
  <2>1. PlaceOf(T, g) \in Nat /\ PlaceOf(T, g) + 1 \in 1..Cardinality(R)
    BY <1>1, <1>2
  <2>2. PICK f \in R : PlaceOf(R, f) = (PlaceOf(T, g) + 1) - 1
    BY <2>1, <1>1
  <2> QED BY <2>1, <2>2
<1>6. R = T
  <2>1. NamesOf(f1) \subseteq NamesOf(f2)
    <3> SUFFICES ASSUME NEW f \in R PROVE f1[f][1].calls \subseteq NamesOf(f2)
      BY DEF NamesOf
    <3>1. PICK g \in T : f1[f] = f2[g]
      BY <1>3, <1>4
    <3> QED BY <3>1 DEF NamesOf
  <2>2. NamesOf(f2) \subseteq NamesOf(f1)
    <3> SUFFICES ASSUME NEW g \in T PROVE f2[g][1].calls \subseteq NamesOf(f1)
      BY DEF NamesOf
    <3>1. PICK f \in R : f1[f] = f2[g]
      BY <1>3, <1>5
    <3> QED BY <3>1 DEF NamesOf
  <2>3. CalledBy(f1, imports) = CalledBy(f2, imports)
    BY <2>1, <2>2 DEF CalledBy
  <2> QED BY <2>3
<1>7. \A f \in R : f1[f] = f2[f]
  BY <1>3, <1>6
<1> QED BY <1>6, <1>7

-----------------------------------------------------------------------------
(* The items of a dict have one order by key: it exists, it has every item  *)
(* once, and it ascends.                                                    *)
LEMMA ItemsHaveAnOrder ==
  ASSUME NEW D, IsFiniteSet(D), \A d \in D : d.key \in Int,
         \A c, d \in D : c.key = d.key => c = d
  PROVE  /\ InOrder(D) \in [1..Cardinality(D) -> D]
         /\ \A i, j \in 1..Cardinality(D) : i < j => InOrder(D)[i].key < InOrder(D)[j].key
         /\ \A d \in D : \E i \in 1..Cardinality(D) : InOrder(D)[i] = d
<1> PICK n : n = Cardinality(D)
  OBVIOUS
<1> DEFINE key == [d \in D |-> d.key]
           K == {key[d] : d \in D}
           s == [i \in 1..n |-> CHOOSE d \in D : Place(K, key[d]) = i - 1]
           Ascends(e) == \A i, j \in DOMAIN e : i < j => e[i].key < e[j].key
<1>1. n \in Nat /\ key \in [D -> Int] /\ \A c, d \in D : key[c] = key[d] => c = d
  BY FS_CardinalityType
<1> HIDE DEF key
<1>2. IsFiniteSet(K) /\ Cardinality(K) = n /\ K \subseteq Int
  BY <1>1, KeyedCount
<1>3. \A d \in D : key[d] \in K
  OBVIOUS
<1>4. ASSUME NEW i \in 1..n
      PROVE  s[i] \in D /\ Place(K, key[s[i]]) = i - 1
  <2>1. i - 1 \in 0..(Cardinality(K) - 1)
    BY <1>1, <1>2
  <2> HIDE DEF K
  <2>2. PICK k \in K : Place(K, k) = i - 1
    BY <2>1, <1>2, PlaceIsTaken
  <2>3. \E d \in D : Place(K, key[d]) = i - 1
    BY <2>2 DEF K
  <2> QED BY <2>3
<1> HIDE DEF K, s
<1>5. ASSUME NEW i \in 1..n, NEW j \in 1..n, i < j
      PROVE  s[i].key < s[j].key
  <2> PICK a : a = key[s[i]]
    OBVIOUS
  <2> PICK b : b = key[s[j]]
    OBVIOUS
  <2>1. a \in K /\ b \in K /\ a \in Int /\ b \in Int
    BY <1>2, <1>3, <1>4
  <2>2. Place(K, a) = i - 1 /\ Place(K, b) = j - 1
    BY <1>4
  <2>3. b < a => Place(K, b) < Place(K, a)
    BY ONLY <2>1, <1>2, PlacesAreOrdered
  <2>4. a < b
    BY <2>1, <2>2, <2>3, <1>5
  <2> QED BY <2>4, <1>4 DEF key
<1>6. s \in SetToSeqs(D)
  <2>1. s \in [1..n -> D]
    BY <1>4 DEF s
  <2>2. \A i, j \in 1..n : i # j => s[i] # s[j]
    <3> SUFFICES ASSUME NEW i \in 1..n, NEW j \in 1..n, s[i] = s[j] PROVE i = j
      OBVIOUS
    <3>1. i - 1 = j - 1
      BY <1>4
    <3> QED BY <3>1
  <2> QED BY <2>1, <2>2 DEF SetToSeqs
<1>7. Ascends(s)
  <2>1. DOMAIN s = 1..n
    BY DEF s
  <2> QED BY <2>1, <1>5
<1>8. InOrder(D) \in SetToSeqs(D) /\ Ascends(InOrder(D))
  BY <1>6, <1>7 DEF InOrder
<1> PICK e : e = InOrder(D)
  OBVIOUS
<1>9. e \in [1..n -> D] /\ \A i, j \in 1..n : i # j => e[i] # e[j]
  BY <1>8 DEF SetToSeqs
<1>10. e \in Surjection(1..n, D)
  <2>1. e \in Injection(1..n, D)
    BY <1>9 DEF Injection, IsInjective
  <2>2. IsFiniteSet(1..n) /\ Cardinality(1..n) = n
    BY <1>1, IntervalCount
  <2> QED BY <2>1, <2>2, FS_Injection
<1>11. \A i, j \in 1..n : i < j => e[i].key < e[j].key
  BY <1>8, <1>9
<1>12. \A d \in D : \E i \in 1..n : e[i] = d
  BY <1>10 DEF Surjection
<1> QED BY <1>9, <1>11, <1>12

(* When the worklist is empty, the payload's sources are those of the       *)
(* functions reached, in the order of their keys.                           *)
LEMMA SortedIsOrdered ==
  ASSUME IInv, SourcesAreCurrent, busy, stack = << >>
  PROVE  SortedSources(sources) = Ordered([f \in Reached |-> Source(f)])
<1> PICK R : R = Reached
  OBVIOUS
<1> PICK D : D = ToSet(sources)
  OBVIOUS
<1> PICK e : e = InOrder(D)
  OBVIOUS
<1> PICK formula : formula = [f \in Reached |-> Source(f)]
  OBVIOUS
<1> DEFINE key == [f \in R |-> Key[f]]
           K == {key[f] : f \in R}
           itemKey == [d \in D |-> d.key]
<1>1. R \subseteq Functions /\ KeysOf(sources) = {Key[f] : f \in R}
  BY IInvCoversFormula, ReachedIsLeast DEF IInv, FormulaIsCovered, WholeFormula
<1>2. /\ Len(sources) \in Nat /\ DOMAIN sources = 1..Len(sources)
      /\ \A i \in DOMAIN sources : sources[i].key \in Int
      /\ \A i, j \in DOMAIN sources : sources[i].key = sources[j].key => i = j
  <2> PICK items : items = [key : Int, source : {Source(f) : f \in Functions}]
    OBVIOUS
  <2>1. sources \in Seq(items)
    BY DEF IInv, TypeOK
  <2>2. \A item \in items : item.key \in Int
    OBVIOUS
  <2>3. \A i \in DOMAIN sources : sources[i] \in items
    BY ONLY <2>1
  <2> QED BY <2>1, <2>2, <2>3 DEF IInv, TypeOK
<1>3. D = {sources[i] : i \in DOMAIN sources}
  BY DEF ToSet
<1>4. /\ IsFiniteSet(D)
      /\ \A d \in D : d.key \in Int
      /\ \A c, d \in D : c.key = d.key => c = d
  <2>1. IsFiniteSet(D)
    <3>1. [i \in 1..Len(sources) |-> sources[i]] \in Surjection(1..Len(sources), D)
      BY <1>2, <1>3 DEF Surjection
    <3>2. IsFiniteSet(1..Len(sources))
      BY <1>2, FS_Interval
    <3> QED BY <3>1, <3>2, FS_Surjection
  <2>2. \A d \in D : d.key \in Int
    BY <1>2, <1>3
  <2>3. \A c, d \in D : c.key = d.key => c = d
    BY <1>2, <1>3
  <2> QED BY <2>1, <2>2, <2>3
<1> PICK n : n = Cardinality(D)
  OBVIOUS
<1>5. /\ e \in [1..n -> D]
      /\ \A i, j \in 1..n : i < j => e[i].key < e[j].key
      /\ \A d \in D : \E i \in 1..n : e[i] = d
      /\ n \in Nat
  BY ONLY <1>4, ItemsHaveAnOrder, FS_CardinalityType, e = InOrder(D), n = Cardinality(D)
<1>6. K = {itemKey[d] : d \in D}
  <2>1. {itemKey[d] : d \in D} = KeysOf(sources)
    BY <1>3 DEF KeysOf
  <2> QED BY <2>1, <1>1
<1>7. IsFiniteSet(R) /\ key \in [R -> Int] /\ \A f, g \in R : key[f] = key[g] => f = g
  BY <1>1, NamesAreUnique, FunctionsAreFinite, FS_Subset
<1> HIDE DEF key
<1>8. /\ Cardinality(K) = Cardinality(R) /\ K \subseteq Int /\ IsFiniteSet(K)
      /\ \A f \in R : Cardinality({g \in R : key[g] < key[f]}) = Place(K, key[f])
  <2> PICK k : k = key
    OBVIOUS
  <2>1. IsFiniteSet(R) /\ k \in [R -> Int] /\ \A f, g \in R : k[f] = k[g] => f = g
    BY <1>7
  <2>2. /\ IsFiniteSet({k[f] : f \in R}) /\ Cardinality({k[f] : f \in R}) = Cardinality(R)
        /\ \A f \in R : Cardinality({g \in R : k[g] < k[f]}) = Place({k[g] : g \in R}, k[f])
    BY ONLY <2>1, KeyedCount
  <2>3. K = {k[f] : f \in R} /\ K \subseteq Int
    BY ONLY <2>1, k = key
  <2> QED BY ONLY <2>2, <2>3, k = key
<1>9. Cardinality(K) = n
  <2>1. itemKey \in [D -> Int] /\ \A c, d \in D : itemKey[c] = itemKey[d] => c = d
    BY <1>4
  <2> HIDE DEF itemKey
  <2>2. Cardinality({itemKey[d] : d \in D}) = Cardinality(D)
    BY ONLY <1>4, <2>1, KeyedCount
  <2> QED BY <2>2, <1>6
<1>10. \A f \in R : PlaceOf(R, f) = Place(K, key[f])
  <2> SUFFICES ASSUME NEW f \in R PROVE PlaceOf(R, f) = Place(K, key[f])
    OBVIOUS
  <2>1. {g \in R : Key[g] < Key[f]} = {g \in R : key[g] < key[f]}
    BY DEF key
  <2> QED BY <2>1, <1>8 DEF PlaceOf
<1>11. ASSUME NEW i \in 1..n
       PROVE  e[i].source = Ordered(formula)[i]
  <2> DEFINE k == [j \in 1..n |-> e[j].key]
  <2>1. /\ k \in [1..n -> K]
        /\ \A j, l \in 1..n : j < l => k[j] < k[l]
        /\ \A x \in K : \E j \in 1..n : k[j] = x
    <3>1. \A x \in K : \E d \in D : x = d.key
      BY <1>6
    <3>2. \A d \in D : d.key \in K
      BY <1>6
    <3> HIDE DEF K
    <3> QED BY <1>5, <3>1, <3>2
  <2> HIDE DEF k, K
  <2>2. Place(K, k[i]) = i - 1
    <3> PICK S, u : S = K /\ u = k
      OBVIOUS
    <3>1. S \subseteq Int /\ n \in Nat /\ i \in 1..n
      BY <1>5, <1>8
    <3>2. /\ u \in [1..n -> S]
          /\ \A j, l \in 1..n : j < l => u[j] < u[l]
          /\ \A x \in S : \E j \in 1..n : u[j] = x
      BY <2>1
    <3>3. Place(S, u[i]) = i - 1
      BY ONLY <3>1, <3>2, AscendingIsInPlace
    <3> QED BY <3>3
  <2>3. PICK f \in R : k[i] = key[f]
    BY <2>1 DEF K
  <2>4. PlaceOf(R, f) = i - 1
    BY <2>2, <2>3, <1>10
  <2>5. Ordered(formula)[i] = formula[f]
    <3>1. Ordered(formula)[PlaceOf(R, f) + 1] = formula[f]
      BY <1>1, OrderedAt
    <3>2. (i - 1) + 1 = i
      OBVIOUS
    <3> QED BY <3>1, <3>2, <2>4
  <2>6. PICK j \in DOMAIN sources : e[i] = sources[j]
    <3>1. e[i] \in D
      BY <1>5
    <3> QED BY <3>1, <1>3
  <2>7. sources[j].key = Key[f] /\ f \in Functions
    BY <2>3, <2>6, <1>1 DEF k, key
  <2>8. sources[j].source = Source(f)
    BY <2>7 DEF SourcesAreCurrent
  <2> QED BY <2>5, <2>6, <2>8
<1>12. SortedSources(sources) = [i \in 1..n |-> e[i].source]
  BY <1>5 DEF SortedSources
<1>13. DOMAIN Ordered(formula) = 1..n
  <2>1. DOMAIN formula = R
    OBVIOUS
  <2>2. DOMAIN Ordered(formula) = 1..Cardinality(R)
    BY ONLY <2>1, <1>1, OrderedAt
  <2> HIDE DEF K
  <2> QED BY <2>2, <1>8, <1>9
<1>14. Ordered(formula) = [i \in 1..n |-> Ordered(formula)[i]]
  BY <1>13 DEF Ordered
<1> QED BY <1>11, <1>12, <1>14

-----------------------------------------------------------------------------
(* The functions reached are the builders and what the reached ones call.   *)
LEMMA ReachedIsBuildersAndCallees ==
  ASSUME TypeOK
  PROVE  Reached = ToSet(Builders) \cup UNION {FirstPartyCallees(f) : f \in Reached}
<1> PICK S : S = ToSet(Builders) \cup UNION {FirstPartyCallees(f) : f \in Reached}
  OBVIOUS
<1>1. /\ Reached \subseteq Functions /\ ToSet(Builders) \subseteq Reached /\ IsClosed(Reached)
      /\ \A T \in SUBSET Functions :
           ToSet(Builders) \subseteq T /\ IsClosed(T) => Reached \subseteq T
  BY ReachedIsLeast
<1>2. S \subseteq Reached
  BY <1>1 DEF IsClosed
<1>3. S \in SUBSET Functions /\ ToSet(Builders) \subseteq S /\ IsClosed(S)
  BY <1>1, <1>2 DEF IsClosed
<1> QED BY <1>1, <1>2, <1>3

(* The formula that is pinned. *)
CurrentFormula == [f \in Reached |-> Source(f)]

(* What Finish pins is whole, and the canonical payload of its moment. *)
LEMMA FinishPinsTheWhole ==
  ASSUME IInv, SourcesAreCurrent, busy, stack = << >>
  PROVE  /\ Payload = [params |-> bound.params, roles |-> ToSet(bound.slots),
                       sources |-> Ordered(CurrentFormula)]
         /\ Meaning = [params |-> bound.params, roles |-> ToSet(bound.slots),
                       formula |-> CurrentFormula,
                       wiring |-> WiringOf(CurrentFormula, lib.imports)]
         /\ Reached \subseteq Functions
         /\ Reached = ToSet(Builders) \cup CalledBy(CurrentFormula, lib.imports)
<1>1. SortedSources(sources) = Ordered(CurrentFormula)
  BY SortedIsOrdered DEF CurrentFormula
<1>2. Meaning.formula = CurrentFormula
  BY DEF Meaning, CurrentFormula, Source
<1>3. Reached \subseteq Functions
  BY ReachedIsLeast DEF IInv
<1>4. NamesOf(CurrentFormula) = NamesIn(Reached)
  <2>1. \A f \in Reached : CurrentFormula[f][1].calls = lib.body[f].calls
    BY DEF CurrentFormula, Source
  <2>2. DOMAIN CurrentFormula = Reached
    BY DEF CurrentFormula
  <2> QED BY <2>1, <2>2 DEF NamesOf, NamesIn
<1>5. CalledBy(CurrentFormula, lib.imports) = UNION {FirstPartyCallees(f) : f \in Reached}
  <2>1. \A f : f \in CalledBy(CurrentFormula, lib.imports) <=>
                \E g \in Reached : \E name \in lib.body[g].calls : f = lib.imports[name]
    BY <1>4 DEF CalledBy, NamesIn
  <2>2. \A f : f \in UNION {FirstPartyCallees(g) : g \in Reached} <=>
                \E g \in Reached : \E name \in lib.body[g].calls : f = lib.imports[name]
    BY DEF FirstPartyCallees
  <2> QED BY <2>1, <2>2
<1>6. Reached = ToSet(Builders) \cup CalledBy(CurrentFormula, lib.imports)
  BY <1>5, ReachedIsBuildersAndCallees DEF IInv
<1>7. Meaning.wiring = WiringOf(CurrentFormula, lib.imports)
  BY <1>4 DEF Meaning, WiringOf
<1>8. Meaning = [params |-> bound.params, roles |-> ToSet(bound.slots),
                 formula |-> Meaning.formula, wiring |-> Meaning.wiring]
  BY DEF Meaning
<1> QED BY <1>1, <1>2, <1>3, <1>6, <1>7, <1>8 DEF Payload

(* Which is the payload that the code and the call determine. *)
LEMMA OrderedIsCanonical ==
  ASSUME IInv
  PROVE  InKeyOrder(Reached) = Ordered(CurrentFormula)
<1> PICK R : R = Reached
  OBVIOUS
<1>1. R \subseteq Functions
  BY ReachedIsLeast DEF IInv
<1>2. DOMAIN CurrentFormula = R
  BY DEF CurrentFormula
<1>3. ASSUME NEW i \in 1..Cardinality(R)
      PROVE  Source(CHOOSE f \in R : Cardinality({g \in R : Key[g] < Key[f]}) = i - 1)
               = CurrentFormula[CHOOSE f \in R : PlaceOf(R, f) = i - 1]
  <2>1. \E f \in R : PlaceOf(R, f) = i - 1
    BY ONLY <1>1, <1>3, PlacesOfFunctions
  <2>2. (CHOOSE f \in R : PlaceOf(R, f) = i - 1) \in R
    BY <2>1
  <2> QED BY <2>2 DEF PlaceOf, CurrentFormula
<1> QED BY <1>2, <1>3 DEF InKeyOrder, Ordered

-----------------------------------------------------------------------------
(* Only a visit adds a source, and it is that of the code as it is. *)
LEMMA SourcesStayCurrent ==
  ASSUME PInv, [Next]_vars
  PROVE  SourcesAreCurrent'
<1>1. ASSUME lib' = lib, sources' = sources
      PROVE  SourcesAreCurrent'
  BY <1>1, CodeStandsStill DEF PInv, SourcesAreCurrent
<1>2. ASSUME sources' = << >>
      PROVE  SourcesAreCurrent'
  BY <1>2 DEF SourcesAreCurrent
<1>3. ASSUME Visit
      PROVE  SourcesAreCurrent'
  <2> PICK fn : fn = Last(stack)
    OBVIOUS
  <2> PICK entry : entry = [key |-> Key[fn], source |-> Source(fn)]
    OBVIOUS
  <2>1. lib' = lib /\ sources' = Append(sources, entry) /\ fn \in Functions
    <3>1. stack \in Seq(Functions) /\ stack # << >>
      BY <1>3 DEF Visit, PInv, IInv, TypeOK
    <3>2. fn \in Functions
      BY <3>1, RangeOfPop
    <3> QED BY <3>2, <1>3 DEF Visit
  <2>2. /\ Len(sources) \in Nat /\ DOMAIN sources = 1..Len(sources)
        /\ DOMAIN sources' = 1..(Len(sources) + 1)
        /\ \A i \in DOMAIN sources : sources'[i] = sources[i]
        /\ sources'[Len(sources) + 1] = entry
    <3> PICK T : T = [key : Int, source : {Source(f) : f \in Functions}]
      OBVIOUS
    <3>1. sources \in Seq(T)
      BY DEF PInv, IInv, TypeOK
    <3> QED BY ONLY <2>1, <3>1
  <2> SUFFICES ASSUME NEW i \in DOMAIN sources', NEW f \in Functions, sources'[i].key = Key[f]
               PROVE  sources'[i].source = Source(f)
    BY <2>1, CodeStandsStill DEF SourcesAreCurrent
  <2>3. CASE i \in DOMAIN sources
    BY <2>2, <2>3 DEF PInv, SourcesAreCurrent
  <2>4. CASE i = Len(sources) + 1
    <3>1. Key[fn] = Key[f]
      BY <2>2, <2>4
    <3>2. fn = f
      BY <3>1, <2>1, NamesAreUnique
    <3> QED BY <3>2, <2>2, <2>4
  <2> QED BY <2>2, <2>3, <2>4
<1>4. ASSUME ~ busy, sources' = sources
      PROVE  SourcesAreCurrent'
  BY <1>4, <1>2 DEF PInv, IInv, IdleIsEmpty
<1>5. CASE Start \/ Skip \/ UNCHANGED vars
  BY <1>5, <1>1 DEF Start, Skip, vars
<1>6. CASE Finish
  BY <1>6, <1>2 DEF Finish
<1>7. CASE \/ \E f \in Functions, b \in Bodies : Edit(f, b)
           \/ \E k \in Constants, v \in Values : Retune(k, v)
           \/ \E imports \in Imports : Repoint(imports)
           \/ \E b \in Bindings : Rebind(b)
  BY <1>7, <1>4 DEF Edit, Retune, Repoint, Rebind
<1> QED BY <1>3, <1>5, <1>6, <1>7 DEF Next

(* Only Finish pins, and it pins the whole. *)
LEMMA PinsStayWhole ==
  ASSUME PInv, [Next]_vars
  PROVE  PinsAreWhole'
<1>1. ASSUME pins' = pins
      PROVE  PinsAreWhole'
  BY <1>1 DEF PInv, PinsAreWhole
<1>2. ASSUME Finish
      PROVE  PinsAreWhole'
  <2> PICK pin : pin = NewPin
    OBVIOUS
  <2> PICK formula : formula = CurrentFormula
    OBVIOUS
  <2>1. busy /\ stack = << >> /\ pins' = pins \cup {pin}
    BY <1>2 DEF Finish
  <2> PICK params : params = bound.params
    OBVIOUS
  <2> PICK roles : roles = ToSet(bound.slots)
    OBVIOUS
  <2>2. /\ pin.payload = [params |-> params, roles |-> roles, sources |-> Ordered(formula)]
        /\ pin.meaning = [params |-> params, roles |-> roles, formula |-> formula,
                          wiring |-> WiringOf(formula, pin.imports)]
        /\ Reached \subseteq Functions
        /\ Reached = ToSet(Builders) \cup CalledBy(formula, pin.imports)
    <3>1. pin.payload = Payload /\ pin.meaning = Meaning /\ pin.imports = lib.imports
      BY DEF NewPin
    <3> QED BY <2>1, <3>1, FinishPinsTheWhole DEF PInv
  <2>3. DOMAIN formula = Reached /\ formula = [f \in DOMAIN formula |-> formula[f]]
    BY DEF CurrentFormula
  <2>4. /\ pin.meaning.params = params /\ pin.meaning.roles = roles
        /\ pin.meaning.formula = formula
    BY ONLY <2>2
  <2> SUFFICES ASSUME NEW p \in pins'
               PROVE  LET F == p.meaning.formula
                      IN  /\ p.payload = [params |-> p.meaning.params, roles |-> p.meaning.roles,
                                          sources |-> Ordered(F)]
                          /\ p.meaning = [params |-> p.meaning.params, roles |-> p.meaning.roles,
                                          formula |-> F, wiring |-> WiringOf(F, p.imports)]
                          /\ F = [f \in DOMAIN F |-> F[f]]
                          /\ DOMAIN F \subseteq Functions
                          /\ DOMAIN F = ToSet(Builders) \cup CalledBy(F, p.imports)
    BY DEF PinsAreWhole, Ordered, NamesOf, CalledBy, WiringOf, PlaceOf
  <2>5. CASE p \in pins
    BY <2>5 DEF PInv, PinsAreWhole
  <2>6. CASE p = pin
    BY <2>2, <2>3, <2>4, <2>6
  <2> QED BY <2>1, <2>5, <2>6
<1>3. CASE Start \/ Skip \/ Visit \/ UNCHANGED vars
  BY <1>3, <1>1 DEF Start, Skip, Visit, vars
<1>4. CASE \/ \E f \in Functions, b \in Bodies : Edit(f, b)
           \/ \E k \in Constants, v \in Values : Retune(k, v)
           \/ \E imports \in Imports : Repoint(imports)
           \/ \E b \in Bindings : Rebind(b)
  BY <1>4, <1>1 DEF Edit, Retune, Repoint, Rebind
<1> QED BY <1>2, <1>3, <1>4 DEF Next

-----------------------------------------------------------------------------
(* The invariant of the worklist and of what it pins. *)
THEOREM PinsInductive == Spec => []PInv
<1>1. Init => PInv
  <2>1. Init => SourcesAreCurrent /\ PinsAreWhole
    BY DEF Init, SourcesAreCurrent, PinsAreWhole
  <2> QED BY <2>1, InitIInv DEF PInv
<1>2. PInv /\ [Next]_vars => PInv'
  BY StepKeepsIInv, SourcesStayCurrent, PinsStayWhole DEF PInv
<1> QED BY <1>1, <1>2, PTL DEF Spec

(* Train and serve: under the same imports, equal fingerprints are of equal *)
(* formulas, parameters, roles and constants, although a payload names no   *)
(* function.                                                                *)
THEOREM EqualPinsAreOfEqualFormulas == Spec => []EqualPinsEqualFormula
<1>1. PInv => EqualPinsEqualFormula
  <2> SUFFICES ASSUME PInv, NEW p \in pins, NEW q \in pins, p.payload = q.payload, p.imports = q.imports
               PROVE  p.meaning = q.meaning
    BY DEF EqualPinsEqualFormula
  <2> PICK f1 : f1 = p.meaning.formula
    OBVIOUS
  <2> PICK f2 : f2 = q.meaning.formula
    OBVIOUS
  <2> PICK R : R = DOMAIN f1
    OBVIOUS
  <2> PICK T : T = DOMAIN f2
    OBVIOUS
  <2>1. /\ p.payload = [params |-> p.meaning.params, roles |-> p.meaning.roles,
                        sources |-> Ordered(f1)]
        /\ p.meaning = [params |-> p.meaning.params, roles |-> p.meaning.roles, formula |-> f1,
                        wiring |-> WiringOf(f1, p.imports)]
        /\ f1 = [f \in R |-> f1[f]] /\ R \subseteq Functions
        /\ R = ToSet(Builders) \cup CalledBy(f1, p.imports)
    BY DEF PInv, PinsAreWhole
  <2>2. /\ q.payload = [params |-> q.meaning.params, roles |-> q.meaning.roles,
                        sources |-> Ordered(f2)]
        /\ q.meaning = [params |-> q.meaning.params, roles |-> q.meaning.roles, formula |-> f2,
                        wiring |-> WiringOf(f2, q.imports)]
        /\ f2 = [f \in T |-> f2[f]] /\ T \subseteq Functions
        /\ T = ToSet(Builders) \cup CalledBy(f2, q.imports)
    BY DEF PInv, PinsAreWhole
  <2>3. /\ p.meaning.params = q.meaning.params /\ p.meaning.roles = q.meaning.roles
        /\ Ordered(f1) = Ordered(f2)
    <3>1. ASSUME NEW x, NEW m, NEW F, x = [params |-> m.params, roles |-> m.roles, sources |-> F]
          PROVE  x.params = m.params /\ x.roles = m.roles /\ x.sources = F
      BY <3>1
    <3>2. p.payload = [params |-> p.meaning.params, roles |-> p.meaning.roles,
                       sources |-> Ordered(f1)]
      BY <2>1
    <3>3. q.payload = [params |-> q.meaning.params, roles |-> q.meaning.roles,
                       sources |-> Ordered(f2)]
      BY <2>2
    <3>4. /\ p.payload.params = p.meaning.params /\ p.payload.roles = p.meaning.roles
          /\ p.payload.sources = Ordered(f1)
      BY ONLY <3>1, <3>2
    <3>5. /\ q.payload.params = q.meaning.params /\ q.payload.roles = q.meaning.roles
          /\ q.payload.sources = Ordered(f2)
      BY ONLY <3>1, <3>3
    <3> QED BY <3>4, <3>5
  <2> PICK V1 : f1 \in [R -> V1]
    BY <2>1, f1 \in [R -> {f1[f] : f \in R}]
  <2> PICK V2 : f2 \in [T -> V2]
    BY <2>2, f2 \in [T -> {f2[f] : f \in T}]
  <2>4. f1 \in [R -> V1] /\ f2 \in [T -> V2] /\ Ordered(f1) = Ordered(f2)
    BY <2>3
  <2>5. f1 = f2
    <3> PICK imports : imports = p.imports
      OBVIOUS
    <3>1. /\ R \subseteq Functions /\ R = ToSet(Builders) \cup CalledBy(f1, imports)
          /\ T \subseteq Functions /\ T = ToSet(Builders) \cup CalledBy(f2, imports)
      BY <2>1, <2>2
    <3> QED BY ONLY <3>1, <2>4, OrderedTellsFormula
  <2> QED BY <2>1, <2>2, <2>3, <2>5
<1> QED BY <1>1, PinsInductive, PTL

(* A feature whose formula is unchanged keeps its fingerprint, from process *)
(* to process and from release to release.                                  *)
THEOREM UnchangedFeaturesKeepTheirPins == Spec => []UnchangedKeepsItsPin
<1>1. PInv => UnchangedKeepsItsPin
  <2> SUFFICES ASSUME PInv, NEW p \in pins, NEW q \in pins, p.meaning = q.meaning
               PROVE  p.payload = q.payload
    BY DEF UnchangedKeepsItsPin
  <2>1. p.payload = [params |-> p.meaning.params, roles |-> p.meaning.roles,
                     sources |-> Ordered(p.meaning.formula)]
    BY DEF PInv, PinsAreWhole
  <2>2. q.payload = [params |-> q.meaning.params, roles |-> q.meaning.roles,
                     sources |-> Ordered(q.meaning.formula)]
    BY DEF PInv, PinsAreWhole
  <2> QED BY <2>1, <2>2
<1> QED BY <1>1, PinsInductive, PTL

(* The worklist implements the log: Start, Skip and Visit are stutters,     *)
(* Finish pins what code and call determine, and only a release changes     *)
(* that.                                                                    *)
THEOREM WorklistImplementsPinLog == Spec => ImplementsPinLog
<1>1. Init => Log!LogInit
  BY DEF Init, Log!LogInit
<1>2. ASSUME PInv, [Next]_vars
      PROVE  [Log!LogNext]_(Log!logVars)
  <2>1. ASSUME lib' = lib, bound' = bound
        PROVE  CanonicalPayload' = CanonicalPayload
    BY <2>1 DEF CanonicalPayload, InKeyOrder, Reached, IsClosed, FirstPartyCallees, Source,
                ModuleConstants
  <2>2. ASSUME lib' = lib, bound' = bound, pins' = pins
        PROVE  [Log!LogNext]_(Log!logVars)
    BY <2>1, <2>2 DEF Log!logVars
  <2>3. ASSUME pins' = pins
        PROVE  [Log!LogNext]_(Log!logVars)
    <3>1. CASE lib' = lib /\ bound' = bound
      BY <3>1, <2>2, <2>3
    <3>2. CASE ~ (lib' = lib /\ bound' = bound)
      <4>1. Log!Release
        BY <3>2, <2>3 DEF Log!Release
      <4> QED BY <4>1 DEF Log!LogNext
    <3> QED BY <3>1, <3>2
  <2>4. CASE Finish
    <3>1. /\ busy /\ stack = << >> /\ lib' = lib /\ bound' = bound
          /\ pins' = pins \cup {NewPin}
      BY <2>4 DEF Finish
    <3>2. Payload = CanonicalPayload
      <4> PICK inOrder : inOrder = Ordered(CurrentFormula)
        OBVIOUS
      <4>1. Payload = [params |-> bound.params, roles |-> ToSet(bound.slots),
                       sources |-> inOrder]
        BY <1>2, <3>1, FinishPinsTheWhole DEF PInv
      <4>2. InKeyOrder(Reached) = inOrder
        BY <1>2, OrderedIsCanonical DEF PInv
      <4> QED BY <4>1, <4>2 DEF CanonicalPayload
    <3>3. {p.payload : p \in pins'} = {p.payload : p \in pins} \cup {CanonicalPayload}
      <4> PICK pin : pin = NewPin
        OBVIOUS
      <4>1. pins' = pins \cup {pin} /\ pin.payload = CanonicalPayload
        BY <3>1, <3>2 DEF NewPin
      <4> QED BY <4>1
    <3>4. Log!Bind
      BY <3>1, <3>3, <2>1 DEF Log!Bind
    <3> QED BY <3>4 DEF Log!LogNext
  <2>5. CASE Start \/ Skip \/ Visit \/ UNCHANGED vars
    BY <2>5, <2>3 DEF Start, Skip, Visit, vars
  <2>6. CASE \/ \E f \in Functions, b \in Bodies : Edit(f, b)
             \/ \E k \in Constants, v \in Values : Retune(k, v)
             \/ \E imports \in Imports : Repoint(imports)
             \/ \E b \in Bindings : Rebind(b)
    BY <2>6, <2>3 DEF Edit, Retune, Repoint, Rebind
  <2> QED BY <1>2, <2>4, <2>5, <2>6 DEF Next
<1> QED BY <1>1, <1>2, PinsInductive, PTL DEF Spec, ImplementsPinLog, Log!LogSpec
=============================================================================
