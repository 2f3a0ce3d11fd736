--------------------------- MODULE CatalogProofs ----------------------------
(***************************************************************************)
(* Whatever the calls, however many registries, additions and manifests:   *)
(* registries stay clean and the frozen ones still, a pin resolves to what *)
(* was pinned, and nothing is read from disk that was not.                 *)
(***************************************************************************)
EXTENDS Catalog, OrderLemmas, SequenceTheorems, TLAPS

(* What add admits, one feature a key. *)
Clean(features) ==
  \A f \in features :
    /\ Admitted(f)
    /\ \A g \in features : Key(g) = Key(f) => g = f

(* The invariant in terms of Clean. *)
LEMMA ContentsAreClean ==
  ASSUME IInv, NEW r \in DOMAIN registries
  PROVE  /\ Contents(r) = dicts[r]
         /\ r \in DOMAIN dicts
         /\ Contents(r) \subseteq Features
         /\ Clean(Contents(r))
<1>1. r \in DOMAIN dicts /\ registries[r].by_key = r
  BY DEF IInv, TypeOK, OwnDict
<1>2. Contents(r) = dicts[r]
  BY <1>1 DEF Contents
<1>3. dicts[r] \subseteq Features
  BY <1>1 DEF IInv, TypeOK
<1>4. Clean(Contents(r))
  BY DEF IInv, TypeOK, RegistryContract, Clean
<1> QED BY <1>1, <1>2, <1>3, <1>4

(* A pin is of features that are still there, as long as dicts only grow. *)
LEMMA PinsStayHeld ==
  ASSUME IInv, pins' = pins,
         \A r \in DOMAIN registries : Contents(r) \subseteq Contents(r)'
  PROVE  PinsAreHeld'
<1> SUFFICES ASSUME NEW p \in pins
             PROVE  /\ p.pinned \subseteq Contents(p.registry)'
                    /\ \E transforms \in Transforms :
                         p.manifest = ManifestOf(p.pinned, transforms,
                                                 SecondPass(p.pinned, p.generator))
  BY DEF PinsAreHeld
<1>1. p.registry \in DOMAIN registries /\ p.pinned \subseteq Contents(p.registry)
  BY DEF IInv, TypeOK, PinsAreHeld
<1>2. Contents(p.registry) \subseteq Contents(p.registry)'
  BY <1>1
<1>3. \E transforms \in Transforms :
        p.manifest = ManifestOf(p.pinned, transforms, SecondPass(p.pinned, p.generator))
  BY DEF IInv, PinsAreHeld
<1> QED BY <1>1, <1>2, <1>3

-----------------------------------------------------------------------------
(* What the constructor added one by one is clean. *)
LEMMA AddedOneByOneIsClean ==
  ASSUME NEW calls \in Iterables,
         AddsAll([i \in DOMAIN calls |-> Bind(calls[i])])
  PROVE  LET features == {[i \in DOMAIN calls |-> Bind(calls[i])][j] : j \in DOMAIN calls}
         IN  features \subseteq Features /\ Clean(features)
<1> DEFINE fs == [i \in DOMAIN calls |-> Bind(calls[i])]
           features == {fs[j] : j \in DOMAIN calls}
<1>1. calls \in Seq(Calls)
  BY IterablesAreOfCalls
<1>2. DOMAIN fs = DOMAIN calls /\ \A i \in DOMAIN calls : fs[i] \in Features
  BY <1>1 DEF Features
<1>3. features \subseteq Features
  BY <1>2
<1>4. \A i \in DOMAIN calls :
        Admitted(fs[i]) /\ \A j \in 1..(i - 1) : Key(fs[j]) # Key(fs[i])
  <2> SUFFICES ASSUME NEW i \in DOMAIN calls
               PROVE  Admitted(fs[i]) /\ \A j \in 1..(i - 1) : Key(fs[j]) # Key(fs[i])
    OBVIOUS
  <2>1. Admitted(fs[i]) /\ ~ Taken({fs[j] : j \in 1..(i - 1)}, fs[i])
    BY <1>2 DEF AddsAll
  <2> QED BY <2>1 DEF Taken
<1>5. \A i, j \in DOMAIN calls : Key(fs[j]) = Key(fs[i]) => i = j
  <2> SUFFICES ASSUME NEW i \in DOMAIN calls, NEW j \in DOMAIN calls, i # j
               PROVE  Key(fs[j]) # Key(fs[i])
    OBVIOUS
  <2> HIDE DEF fs
  <2>1. j \in 1..(i - 1) \/ i \in 1..(j - 1)
    BY <1>1
  <2> QED BY <2>1, <1>4
<1> HIDE DEF fs
<1>6. Clean(features)
  BY <1>4, <1>5 DEF Clean
<1> QED BY <1>3, <1>6 DEF fs

(* A new registry has a dict of its own. *)
LEMMA NewRegistryKeepsIInv ==
  ASSUME IInv, NEW features, features \subseteq Features, Clean(features),
         NEW frozen \in BOOLEAN, NewRegistry(features, frozen)
  PROVE  IInv' /\ FrozenStays
<1> PICK n : n = Len(registries)
  OBVIOUS
<1> PICK new : new = [by_key |-> Len(dicts) + 1, frozen |-> frozen]
  OBVIOUS
<1>1. /\ dicts \in Seq(SUBSET Features)
      /\ registries \in Seq([by_key : DOMAIN dicts, frozen : BOOLEAN])
      /\ Len(dicts) = n /\ n \in Nat
      /\ DOMAIN dicts = 1..n /\ DOMAIN registries = 1..n
  BY DEF IInv, TypeOK, OwnDict
<1>2. /\ dicts' \in Seq(SUBSET Features)
      /\ Len(dicts') = n + 1 /\ DOMAIN dicts' = 1..(n + 1)
      /\ dicts'[n + 1] = features
      /\ \A r \in 1..n : dicts'[r] = dicts[r]
  BY <1>1 DEF NewRegistry
<1>3. /\ registries' \in Seq([by_key : DOMAIN dicts', frozen : BOOLEAN])
      /\ Len(registries') = n + 1 /\ DOMAIN registries' = 1..(n + 1)
      /\ registries'[n + 1] = new
      /\ \A r \in 1..n : registries'[r] = registries[r]
  <2>1. [by_key : DOMAIN dicts, frozen : BOOLEAN]
          \subseteq [by_key : DOMAIN dicts', frozen : BOOLEAN]
    BY <1>1, <1>2
  <2>2. new \in [by_key : DOMAIN dicts', frozen : BOOLEAN]
    BY <1>1, <1>2
  <2>3. registries \in Seq([by_key : DOMAIN dicts', frozen : BOOLEAN])
    BY <2>1, <1>1, SeqMonotonic
  <2>4. registries' = Append(registries, new)
    BY DEF NewRegistry
  <2> QED BY <1>1, <2>2, <2>3, <2>4
<1>4. OwnDict'
  <2>1. \A r \in 1..n : registries[r].by_key = r
    BY <1>1 DEF IInv, OwnDict
  <2>2. new.by_key = n + 1
    BY <1>1
  <2>3. \A r \in 1..(n + 1) : registries'[r].by_key = r
    <3> SUFFICES ASSUME NEW r \in 1..(n + 1) PROVE registries'[r].by_key = r
      OBVIOUS
    <3>1. CASE r = n + 1
      BY <3>1, <2>2, <1>3
    <3>2. CASE r \in 1..n
      BY <3>2, <2>1, <1>3
    <3> QED BY <3>1, <3>2, <1>1
  <2> QED BY <2>3, <1>2, <1>3 DEF OwnDict
<1>5. /\ Contents(n + 1)' = features
      /\ \A r \in 1..n : Contents(r)' = Contents(r)
  <2>1. \A r \in 1..n : registries[r].by_key = r
    BY <1>1 DEF IInv, OwnDict
  <2> QED BY <2>1, <1>1, <1>2, <1>3 DEF Contents
<1>6. RegistryContract'
  <2> SUFFICES ASSUME NEW r \in 1..(n + 1) PROVE Clean(Contents(r)')
    BY <1>3 DEF RegistryContract, Clean, Admitted, Key
  <2>1. CASE r = n + 1
    BY <2>1, <1>5
  <2>2. CASE r \in 1..n
    BY <2>2, <1>1, <1>5, ContentsAreClean
  <2> QED BY <2>1, <2>2, <1>1
<1>7. PinsAreHeld'
  BY <1>1, <1>5, PinsStayHeld DEF NewRegistry
<1>8. TypeOK'
  <2>1. UNCHANGED <<adds, pins, writing, file>>
    BY DEF NewRegistry
  <2>2. \A p \in pins : p.registry \in DOMAIN registries'
    BY <1>1, <1>3 DEF IInv, TypeOK
  <2> QED BY <2>1, <2>2, <1>2, <1>3, <1>6 DEF IInv, TypeOK
<1>9. FileWasPinned'
  BY DEF NewRegistry, IInv, FileWasPinned
<1>10. FrozenStays
  BY <1>1, <1>3, <1>5 DEF FrozenStays
<1> QED BY <1>4, <1>7, <1>8, <1>9, <1>10 DEF IInv

(* The queries and freeze take a part of what a registry has. *)
LEMMA PartIsClean ==
  ASSUME IInv, NEW r \in DOMAIN registries, NEW part, part \subseteq Contents(r)
  PROVE  part \subseteq Features /\ Clean(part)
BY ContentsAreClean DEF Clean

(* Add takes nothing away, keeps the keys apart and spares the frozen. *)
LEMMA AddKeepsIInv ==
  ASSUME IInv, NEW r \in DOMAIN registries, NEW f \in Features, Add(r, f)
  PROVE  IInv' /\ FrozenStays
<1>1. /\ registries[r].by_key = r /\ r \in DOMAIN dicts
      /\ Contents(r) = dicts[r]
      /\ registries' = registries /\ pins' = pins
      /\ dicts' = [dicts EXCEPT ![r] = @ \cup {f}]
      /\ ~ registries[r].frozen /\ Admitted(f) /\ ~ Taken(dicts[r], f)
  BY ContentsAreClean DEF IInv, OwnDict, Add
<1>2. /\ dicts \in Seq(SUBSET Features)
      /\ Len(dicts) = Len(registries)
      /\ DOMAIN dicts = DOMAIN registries
  BY DEF IInv, TypeOK, OwnDict
<1>3. dicts[r] \cup {f} \in SUBSET Features
  BY <1>1, <1>2, ElementOfSeq
<1>4. /\ dicts' \in Seq(SUBSET Features)
      /\ Len(dicts') = Len(dicts) /\ DOMAIN dicts' = DOMAIN dicts
      /\ dicts'[r] = dicts[r] \cup {f}
      /\ \A s \in DOMAIN dicts : s # r => dicts'[s] = dicts[s]
  <2>1. dicts' \in Seq(SUBSET Features) /\ Len(dicts') = Len(dicts)
    BY <1>1, <1>2, <1>3, ExceptSeq
  <2> QED BY <2>1, <1>1
<1>5. \A s \in DOMAIN registries :
        Contents(s) = dicts[s] /\ Contents(s)' = dicts'[s]
  BY <1>1 DEF IInv, OwnDict, Contents
<1>6. Clean(dicts[r] \cup {f})
  <2>1. Clean(dicts[r])
    BY <1>1, ContentsAreClean
  <2>2. \A g \in dicts[r] : Key(g) # Key(f)
    BY <1>1 DEF Taken
  <2> QED BY <2>1, <2>2, <1>1 DEF Clean
<1>7. RegistryContract'
  <2> SUFFICES ASSUME NEW s \in DOMAIN registries PROVE Clean(dicts'[s])
    BY <1>1, <1>5 DEF RegistryContract, Clean, Admitted, Key
  <2>1. CASE s = r
    BY <2>1, <1>4, <1>6
  <2>2. CASE s # r
    BY <2>2, <1>2, <1>4, <1>5, ContentsAreClean
  <2> QED BY <2>1, <2>2
<1>8. OwnDict'
  BY <1>1, <1>4 DEF IInv, OwnDict
<1>9. PinsAreHeld'
  <2>1. \A s \in DOMAIN registries : Contents(s) \subseteq Contents(s)'
    BY <1>2, <1>4, <1>5
  <2> QED BY <2>1, <1>1, PinsStayHeld
<1>10. TypeOK'
  <2>1. adds' \in 0..MaxAdds
    <3>1. adds \in 0..MaxAdds /\ adds < MaxAdds /\ adds' = adds + 1
      BY DEF IInv, TypeOK, Add
    <3> QED BY <3>1, BoundsAreNatural
  <2>2. UNCHANGED <<registries, pins, writing, file>>
    BY DEF Add
  <2> QED BY <2>1, <2>2, <1>4, <1>7 DEF IInv, TypeOK
<1>11. FileWasPinned'
  BY DEF Add, IInv, FileWasPinned
<1>12. FrozenStays
  BY <1>1, <1>2, <1>4, <1>5 DEF FrozenStays
<1> QED BY <1>8, <1>9, <1>10, <1>11, <1>12 DEF IInv

(* A new pin holds by what it is taken of. *)
LEMMA PinKeepsIInv ==
  ASSUME IInv, NEW r \in DOMAIN registries, NEW transforms \in Transforms,
         NEW generator \in BOOLEAN, Pin(r, transforms, generator)
  PROVE  IInv' /\ FrozenStays
<1> PICK features : features = Contents(r)
  OBVIOUS
<1> PICK pin : pin = [registry |-> r, pinned |-> features, generator |-> generator,
                      manifest |-> ManifestOf(features, transforms,
                                             SecondPass(features, generator))]
  OBVIOUS
<1>1. pins' = pins \cup {pin} /\ UNCHANGED <<dicts, registries, adds, writing, file>>
  BY DEF Pin
<1>2. features \subseteq Features
  BY ContentsAreClean
<1>3. \A s : Contents(s)' = Contents(s)
  BY <1>1 DEF Contents
<1>4. PinsAreHeld'
  <2> SUFFICES ASSUME NEW p \in pins'
               PROVE  /\ p.pinned \subseteq Contents(p.registry)
                      /\ \E t \in Transforms :
                           p.manifest = ManifestOf(p.pinned, t,
                                                   SecondPass(p.pinned, p.generator))
    BY <1>3 DEF PinsAreHeld
  <2>1. CASE p \in pins
    BY <2>1 DEF IInv, PinsAreHeld
  <2>2. CASE p = pin
    BY <2>2
  <2> QED BY <2>1, <2>2, <1>1
<1>5. TypeOK'
  <2>1. \A p \in pins' : p.registry \in DOMAIN registries /\ p.pinned \subseteq Features
    BY <1>1, <1>2 DEF IInv, TypeOK
  <2>2. RegistryContract'
    BY <1>1, <1>3 DEF IInv, TypeOK, RegistryContract
  <2>3. writing = {} \/ \E p \in pins' : writing = {p.manifest}
    BY <1>1 DEF IInv, TypeOK
  <2> QED BY <2>1, <2>2, <2>3, <1>1 DEF IInv, TypeOK
<1>6. OwnDict' /\ FileWasPinned'
  BY <1>1 DEF IInv, OwnDict, FileWasPinned
<1>7. FrozenStays
  BY <1>1, <1>3 DEF FrozenStays
<1> QED BY <1>4, <1>5, <1>6, <1>7 DEF IInv

(* What happens to the file leaves the registries and the pins alone. *)
LEMMA FileStepKeepsIInv ==
  ASSUME IInv, UNCHANGED <<dicts, registries, adds, pins>>,
         writing' = {} \/ \E p \in pins : writing' = {p.manifest},
         file'.state \in {"absent", "torn", "whole"},
         FileWasPinned'
  PROVE  IInv' /\ FrozenStays
<1>1. \A s : Contents(s)' = Contents(s)
  BY DEF Contents
<1>2. TypeOK'
  BY <1>1 DEF IInv, TypeOK, RegistryContract
<1>3. OwnDict' /\ PinsAreHeld'
  BY <1>1 DEF IInv, OwnDict, PinsAreHeld
<1>4. FrozenStays
  BY <1>1 DEF FrozenStays
<1> QED BY <1>2, <1>3, <1>4 DEF IInv

-----------------------------------------------------------------------------
(* Before the first call there is nothing. *)
LEMMA InitEstablishesIInv == Init => IInv
<1> SUFFICES ASSUME Init PROVE IInv
  OBVIOUS
<1>1. /\ dicts = << >> /\ registries = << >> /\ adds = 0
      /\ pins = {} /\ writing = {} /\ file.state = "absent"
  BY DEF Init
<1>2. dicts \in Seq(SUBSET Features) /\ DOMAIN registries = {} /\ Len(dicts) = Len(registries)
  BY <1>1
<1>3. registries \in Seq([by_key : DOMAIN dicts, frozen : BOOLEAN])
  BY <1>1
<1>4. adds \in 0..MaxAdds
  BY <1>1, BoundsAreNatural
<1>5. TypeOK
  BY <1>1, <1>2, <1>3, <1>4 DEF TypeOK, RegistryContract
<1>6. OwnDict /\ PinsAreHeld /\ FileWasPinned
  BY <1>1, <1>2 DEF OwnDict, PinsAreHeld, FileWasPinned
<1> QED BY <1>5, <1>6 DEF IInv

(* One step per action. *)
LEMMA NextKeepsIInv ==
  ASSUME IInv, [Next]_vars
  PROVE  IInv' /\ FrozenStays
<1>1. CASE UNCHANGED vars
  <2>1. /\ UNCHANGED <<dicts, registries, adds, pins>>
        /\ writing' = writing /\ file' = file
    BY <1>1 DEF vars
  <2>2. /\ writing' = {} \/ \E p \in pins : writing' = {p.manifest}
        /\ file'.state \in {"absent", "torn", "whole"}
        /\ FileWasPinned'
    BY <2>1 DEF IInv, TypeOK, FileWasPinned
  <2> QED BY <2>1, <2>2, FileStepKeepsIInv
<1>2. ASSUME NEW calls \in Iterables, NEW frozen \in BOOLEAN, Construct(calls, frozen)
      PROVE  IInv' /\ FrozenStays
  <2> DEFINE fs == [i \in DOMAIN calls |-> Bind(calls[i])]
             features == {fs[i] : i \in DOMAIN fs}
  <2>1. AddsAll(fs) /\ NewRegistry(features, frozen)
    BY <1>2 DEF Construct
  <2>2. features \subseteq Features /\ Clean(features)
    BY <2>1, AddedOneByOneIsClean
  <2> HIDE DEF features
  <2> QED BY <2>1, <2>2, NewRegistryKeepsIInv
<1>3. ASSUME NEW r \in DOMAIN registries, NEW f \in Features, Add(r, f)
      PROVE  IInv' /\ FrozenStays
  BY <1>3, AddKeepsIInv
<1>4. ASSUME NEW r \in DOMAIN registries, NEW part, part \subseteq Contents(r),
             NEW frozen \in BOOLEAN, NewRegistry(part, frozen)
      PROVE  IInv' /\ FrozenStays
  BY <1>4, PartIsClean, NewRegistryKeepsIInv
<1>5. ASSUME NEW r \in DOMAIN registries, Freeze(r)
      PROVE  IInv' /\ FrozenStays
  BY <1>5, <1>4 DEF Freeze
<1>6. ASSUME NEW r \in DOMAIN registries, NEW predicate, Where(r, predicate)
      PROVE  IInv' /\ FrozenStays
  BY <1>6, <1>4 DEF Where
<1>7. ASSUME NEW r \in DOMAIN registries, NEW tier, Available(r, tier)
      PROVE  IInv' /\ FrozenStays
  BY <1>7, <1>4 DEF Available
<1>8. ASSUME NEW r \in DOMAIN registries, NEW transforms \in Transforms,
             NEW generator \in BOOLEAN, Pin(r, transforms, generator)
      PROVE  IInv' /\ FrozenStays
  BY <1>8, PinKeepsIInv
<1>9. ASSUME NEW p \in pins, ToJson(p)
      PROVE  IInv' /\ FrozenStays
  <2>1. /\ UNCHANGED <<dicts, registries, adds, pins>>
        /\ writing' = {p.manifest} /\ file'.state = "torn"
    BY <1>9 DEF ToJson
  <2>2. FileWasPinned'
    BY <2>1 DEF FileWasPinned
  <2> QED BY <2>1, <2>2, FileStepKeepsIInv
<1>10. ASSUME Written
       PROVE  IInv' /\ FrozenStays
  <2> PICK manifest \in writing : file' = to_dict(manifest)
    BY <1>10 DEF Written
  <2>1. /\ UNCHANGED <<dicts, registries, adds, pins>>
        /\ writing' = {}
        /\ file'.state = "whole" /\ file'.fields = manifest /\ file'.edits = {}
        /\ DOMAIN file' = {"state", "manifest_schema_version", "fields", "edits"}
    BY <1>10 DEF Written, to_dict
  <2>2. \E p \in pins : manifest = p.manifest
    BY DEF IInv, TypeOK
  <2>3. FileWasPinned'
    BY <2>1, <2>2 DEF FileWasPinned
  <2> QED BY <2>1, <2>3, FileStepKeepsIInv
<1>11. ASSUME Crash
       PROVE  IInv' /\ FrozenStays
  <2>1. /\ UNCHANGED <<dicts, registries, adds, pins>>
        /\ writing' = {} /\ file' = file
    BY <1>11 DEF Crash
  <2>2. file'.state \in {"absent", "torn", "whole"} /\ FileWasPinned'
    BY <2>1 DEF IInv, TypeOK, FileWasPinned
  <2> QED BY <2>1, <2>2, FileStepKeepsIInv
<1>12. ASSUME NewerRelease
       PROVE  IInv' /\ FrozenStays
  <2>1. /\ UNCHANGED <<dicts, registries, adds, pins, writing>>
        /\ file.state = "whole"
        /\ file' = [file EXCEPT !.manifest_schema_version = MANIFEST_SCHEMA_VERSION + 1,
                          !.fields.features = {[shape |-> MANIFEST_SCHEMA_VERSION + 1]},
                          !.edits = {}]
    BY <1>12 DEF NewerRelease
  <2>2. DOMAIN file = {"state", "manifest_schema_version", "fields", "edits"}
    BY <2>1 DEF IInv, FileWasPinned
  <2>3. /\ file'.state = "whole" /\ DOMAIN file' = DOMAIN file
        /\ file'.manifest_schema_version = MANIFEST_SCHEMA_VERSION + 1
        /\ file'.edits = {}
    BY <2>1, <2>2
  <2>4. FileWasPinned'
    BY <2>2, <2>3 DEF FileWasPinned, MANIFEST_SCHEMA_VERSION
  <2>5. writing' = {} \/ \E p \in pins : writing' = {p.manifest}
    BY <2>1 DEF IInv, TypeOK
  <2> QED BY <2>1, <2>3, <2>4, <2>5, FileStepKeepsIInv
<1>13. ASSUME NEW field \in Fields, HandEdit(field)
       PROVE  IInv' /\ FrozenStays
  <2>1. /\ UNCHANGED <<dicts, registries, adds, pins, writing>>
        /\ file.state = "whole"
    BY <1>13 DEF HandEdit
  <2>2. PICK edit :
          /\ file' = [file EXCEPT !.edits = {edit}]
          /\ edit.field \in ListFields => edit.of \subseteq file.fields[edit.field]
          /\ edit.field \in RefFields => edit.what # "mistyped"
    <3>1. CASE \E what \in FieldEdits(field) :
                 file' = [file EXCEPT !.edits = {[field |-> field, what |-> what, of |-> {}]}]
      <4> PICK what \in FieldEdits(field) :
                 file' = [file EXCEPT !.edits = {[field |-> field, what |-> what, of |-> {}]}]
        BY <3>1
      <4>1. field \in RefFields => what # "mistyped"
        BY DEF FieldEdits, ListFields
      <4> PICK edit : edit = [field |-> field, what |-> what, of |-> {}]
        OBVIOUS
      <4>2. edit.field = field /\ edit.what = what /\ edit.of = {}
        OBVIOUS
      <4>3. /\ edit.field \in ListFields => edit.of \subseteq file.fields[edit.field]
            /\ edit.field \in RefFields => edit.what # "mistyped"
        BY <4>1, <4>2
      <4> QED BY <4>3
    <3>2. CASE \E entry \in file.fields[field], what \in EntryEdits(field) :
                 file' = [file EXCEPT !.edits = {[field |-> field, what |-> what, of |-> {entry}]}]
      <4> PICK entry \in file.fields[field], what \in EntryEdits(field) :
                 file' = [file EXCEPT !.edits = {[field |-> field, what |-> what, of |-> {entry}]}]
        BY <3>2
      <4>1. field \in RefFields => what # "mistyped"
        BY DEF EntryEdits
      <4> PICK edit : edit = [field |-> field, what |-> what, of |-> {entry}]
        OBVIOUS
      <4>2. edit.field = field /\ edit.what = what /\ edit.of = {entry}
        OBVIOUS
      <4>3. /\ edit.field \in ListFields => edit.of \subseteq file.fields[edit.field]
            /\ edit.field \in RefFields => edit.what # "mistyped"
        BY <4>1, <4>2
      <4> QED BY <4>3
    <3> QED BY <1>13, <3>1, <3>2 DEF HandEdit
  <2>3. DOMAIN file = {"state", "manifest_schema_version", "fields", "edits"}
    BY <2>1 DEF IInv, FileWasPinned
  <2>4. /\ file'.state = "whole" /\ DOMAIN file' = DOMAIN file
        /\ file'.manifest_schema_version = file.manifest_schema_version
        /\ file'.fields = file.fields /\ file'.edits = {edit}
    BY <2>1, <2>2, <2>3
  <2>5. FileWasPinned'
    BY <2>1, <2>2, <2>3, <2>4 DEF IInv, FileWasPinned
  <2>6. writing' = {} \/ \E p \in pins : writing' = {p.manifest}
    BY <2>1 DEF IInv, TypeOK
  <2> QED BY <2>1, <2>4, <2>5, <2>6, FileStepKeepsIInv
<1> QED
  BY <1>1, <1>2, <1>3, <1>5, <1>6, <1>7, <1>8, <1>9, <1>10, <1>11, <1>12, <1>13
  DEF Next

-----------------------------------------------------------------------------
(* A name and a version that were pinned lead to the one feature there is.  *)
LEMMA PinnedLeadsToItself ==
  ASSUME IInv, NEW p \in pins, NEW h \in p.pinned
  PROVE  h \in Features /\ get(p.registry, h.name, h.version) = {h}
<1> PICK r : r = p.registry
  OBVIOUS
<1>1. r \in DOMAIN registries /\ h \in Contents(r) /\ h \in Features
  BY DEF IInv, TypeOK, PinsAreHeld
<1>5. \A f \in Contents(r) : Key(f) = <<h.name, h.version>> <=> f = h
  BY <1>1, ContentsAreClean DEF Clean, Key
<1>6. get(r, h.name, h.version) = {f \in Contents(r) : Key(f) = <<h.name, h.version>>}
  BY DEF get
<1> QED BY <1>1, <1>5, <1>6

(* The shape of a pinned manifest. *)
LEMMA PinnedManifest ==
  ASSUME IInv, NEW p \in pins
  PROVE  /\ p.manifest.features = {Ref(f) : f \in p.pinned}
         /\ p.manifest.dependency_edges = EdgesOf(SecondPass(p.pinned, p.generator))
         /\ DOMAIN p.manifest = Fields
<1> PICK again : again = SecondPass(p.pinned, p.generator)
  OBVIOUS
<1> PICK transforms \in Transforms : p.manifest = ManifestOf(p.pinned, transforms, again)
  BY DEF IInv, PinsAreHeld
<1> PICK refs : refs = {Ref(f) : f \in p.pinned}
  OBVIOUS
<1>1. p.manifest = [features |-> refs, transforms |-> transforms, role_map |-> RoleMap,
                    dependency_edges |-> EdgesOf(again), setting |-> Setting]
  BY DEF ManifestOf
<1>2. /\ p.manifest.features = refs
      /\ p.manifest.dependency_edges = EdgesOf(again)
      /\ DOMAIN p.manifest =
           {"features", "transforms", "role_map", "dependency_edges", "setting"}
  BY <1>1
<1> QED BY <1>2 DEF Fields, ListFields, RefFields, PairFields

(* A fingerprint is of one name and one version, and no text of a null. *)
LEMMA FingerprintNamesItself ==
  ASSUME NEW f \in Features
  PROVE  /\ f.fingerprint.canonical_id = f.name /\ f.fingerprint.version = f.version
         /\ f.fingerprint # NoneText
<1>1. PICK c \in Calls : f = Bind(c)
  BY DEF Features
<1>2. f.fingerprint = fingerprint(c, Dependencies(c)) /\ f.name = naming(c) /\ f.version = c.version
  BY <1>1 DEF Bind
<1>3. fingerprint(c, Dependencies(c)).canonical_id = naming(c)
      /\ fingerprint(c, Dependencies(c)).version = c.version
  BY DEF fingerprint
<1>4. "roles" \in DOMAIN f.fingerprint /\ "roles" \notin DOMAIN NoneText
  BY <1>2 DEF fingerprint, NoneText
<1> QED BY <1>2, <1>3, <1>4

(* So every reference of a pin resolves in its registry. *)
LEMMA IInvPinnedResolves == IInv => PinnedStillResolves
<1> SUFFICES ASSUME IInv, NEW p \in pins, NEW ref \in p.manifest.features
             PROVE  \E f \in Features :
                      /\ get(p.registry, ref.name, ref.version) = {f}
                      /\ f.fingerprint = ref.fingerprint
  BY DEF PinnedStillResolves
<1>1. p.manifest.features = {Ref(f) : f \in p.pinned}
  BY PinnedManifest
<1>2. PICK h \in p.pinned : ref = Ref(h)
  BY <1>1
<1>3. ref.name = h.name /\ ref.version = h.version /\ ref.fingerprint = h.fingerprint
  BY <1>2 DEF Ref
<1> QED BY <1>3, PinnedLeadsToItself

(* Equal fingerprints are of equal formulas, whatever the names leave out.  *)
LEMMA FingerprintTellsFormula ==
  ASSUME NEW f \in Features, NEW g \in Features, f.fingerprint = g.fingerprint
  PROVE  Formula(f.call) = Formula(g.call)
<1>1. PICK c \in Calls : f = Bind(c)
  BY DEF Features
<1>2. PICK d \in Calls : g = Bind(d)
  BY DEF Features
<1>3. f.call = c /\ g.call = d
  BY <1>1, <1>2 DEF Bind
<1>4. fingerprint(c, Dependencies(c)) = fingerprint(d, Dependencies(d))
  BY <1>1, <1>2 DEF Bind
<1>5. c.measure = d.measure /\ c.adjustment = d.adjustment /\ canonical(c) = canonical(d)
  BY <1>4 DEF fingerprint
<1>6. /\ DOMAIN c.params = DOMAIN d.params
      /\ \A i \in DOMAIN c.params : c.params[i].value = d.params[i].value
  BY <1>5 DEF canonical
<1>7. ParamTokens(c) = ParamTokens(d)
  BY <1>6 DEF ParamTokens
<1> QED BY <1>3, <1>5, <1>7 DEF Formula

(* Whatever registry, and whatever was read: the reference tells.           *)
LEMMA IInvServedAsPinned == IInv => ServedAsPinned
<1> SUFFICES ASSUME IInv, NEW manifest \in from_json, NEW ref \in manifest.features,
                    NEW r \in DOMAIN registries, NEW f \in get(r, ref.name, ref.version),
                    f.fingerprint = ref.fingerprint,
                    NEW p \in pins, NEW g \in p.pinned, Ref(g) = ref
             PROVE  Formula(g.call) = Formula(f.call)
  BY DEF ServedAsPinned
<1>1. f \in Features
  <2>1. get(r, ref.name, ref.version) \subseteq Contents(r)
    BY DEF get
  <2> QED BY <2>1, ContentsAreClean
<1>2. g \in Features
  BY DEF IInv, TypeOK
<1>3. g.fingerprint = f.fingerprint
  BY DEF Ref
<1> QED BY <1>1, <1>2, <1>3, FingerprintTellsFormula

(* What the gates let through: this release's file, with a pinned content. *)
LEMMA ReadOfPinned ==
  ASSUME IInv, NEW manifest \in from_json
  PROVE  /\ ~ Malformed(file)
         /\ manifest = ReadFields(file)
         /\ \E p \in pins : file.fields = p.manifest
<1>1. /\ file.state = "whole"
      /\ file.manifest_schema_version = MANIFEST_SCHEMA_VERSION
      /\ ~ Malformed(file) /\ manifest = ReadFields(file)
  BY DEF from_json, from_dict
<1> QED BY <1>1 DEF IInv, FileWasPinned

(* Of the edits only those that are not refused show, in their own field.   *)
LEMMA IInvReadWasPinned == IInv => ReadWasPinned
<1> SUFFICES ASSUME IInv, NEW manifest \in from_json
             PROVE  \E p \in pins : \A field \in Fields \ Edited(file) :
                      manifest[field] = p.manifest[field]
  BY DEF ReadWasPinned
<1>1. ~ Malformed(file) /\ manifest = ReadFields(file)
  BY ReadOfPinned
<1>2. PICK p \in pins : file.fields = p.manifest
  BY ReadOfPinned
<1>3. ASSUME NEW field \in Fields \ Edited(file)
      PROVE  manifest[field] = p.manifest[field]
  <2>1. ~ \E edit \in file.edits : edit.field = field
    BY <1>1 DEF Malformed, Edited
  <2>2. ReadFields(file)[field] = file.fields[field]
    BY <2>1 DEF ReadFields
  <2> QED BY <2>2, <1>1, <1>2
<1> QED BY <1>3

(* An entry that was edited and is read differs from the pinned one in one  *)
(* thing at most: its name or version, or else its fingerprint is a text    *)
(* that no feature has.                                                     *)
LEMMA ReadReference ==
  ASSUME IInv, NEW manifest \in from_json, NEW ref \in manifest.features
  PROVE  \E p \in pins : \E h \in p.pinned :
           \/ ref = Ref(h)
           \/ ref = [Ref(h) EXCEPT !.name = NoneName]
           \/ ref = [Ref(h) EXCEPT !.fingerprint = NoneText]
           \/ ref = [Ref(h) EXCEPT !.version = @ + 1]
<1>1. manifest = ReadFields(file)
  BY ReadOfPinned
<1>2. PICK p \in pins : file.fields = p.manifest
  BY ReadOfPinned
<1>3. file.fields.features = {Ref(h) : h \in p.pinned}
  BY <1>2, PinnedManifest
<1> PICK value : value = file.fields.features
  OBVIOUS
<1>4. "features" \in Fields
  BY DEF Fields, ListFields, RefFields
<1>7. file.state = "whole"
  BY DEF from_json
<1>5. CASE ~ \E edit \in file.edits : edit.field = "features"
  <2>1. manifest.features = value
    BY <1>1, <1>4, <1>5 DEF ReadFields
  <2> QED BY <2>1, <1>3
<1>6. CASE \E edit \in file.edits : edit.field = "features"
  <2> PICK edit : edit = CHOOSE e \in file.edits : e.field = "features"
    OBVIOUS
  <2>1. edit \in file.edits /\ edit.field = "features"
    BY <1>6
  <2>2. manifest.features = ReadField(value, edit)
    BY <1>1, <1>4, <1>6 DEF ReadFields
  <2>3. edit.of \subseteq value
    BY <1>7, <2>1 DEF IInv, FileWasPinned, ListFields, RefFields
  <2>4. ref \in value \/ \E entry \in edit.of : ref \in ReadEntry(entry, edit.what)
    <3> DEFINE read == UNION {ReadEntry(entry, edit.what) : entry \in edit.of}
    <3>1. edit.field # "setting"
      BY <2>1
    <3>2. ReadField(value, edit) = {} \/ ReadField(value, edit) = (value \ edit.of) \cup read
      BY <3>1 DEF ReadField
    <3>3. ref \in value \/ ref \in read
      BY <3>2, <2>2
    <3>4. ref \in read => \E entry \in edit.of : ref \in ReadEntry(entry, edit.what)
      OBVIOUS
    <3> QED BY <3>3, <3>4
  <2>5. CASE ref \in value
    BY <2>5, <1>3
  <2>6. CASE \E entry \in edit.of : ref \in ReadEntry(entry, edit.what)
    <3> PICK entry \in edit.of : ref \in ReadEntry(entry, edit.what)
      BY <2>6
    <3> PICK h \in p.pinned : entry = Ref(h)
      BY <2>3, <1>3
    <3>1. edit.what # "mistyped"
      BY <1>7, <2>1 DEF IInv, FileWasPinned, RefFields
    <3>2. \/ ref = [entry EXCEPT !.name = NoneName]
          \/ ref = [entry EXCEPT !.fingerprint = NoneText]
          \/ ref = [entry EXCEPT !.version = @ + 1]
      BY <3>1 DEF ReadEntry
    <3> QED BY <3>2
  <2> QED BY <2>4, <2>5, <2>6
<1> QED BY <1>5, <1>6

(* A fingerprint holds the name and the version it is of, so that an edited *)
(* name or version cannot agree with it, and is never the text of a null.   *)
LEMMA IInvEditedNeverResolves == IInv => EditedNeverResolves
<1> SUFFICES ASSUME IInv, NEW manifest \in from_json, NEW ref \in manifest.features,
                    NEW r \in DOMAIN registries, NEW f \in get(r, ref.name, ref.version),
                    f.fingerprint = ref.fingerprint
             PROVE  \E p \in pins : ref \in p.manifest.features
  BY DEF EditedNeverResolves
<1>0. PICK p \in pins : \E h \in p.pinned :
        \/ ref = Ref(h)
        \/ ref = [Ref(h) EXCEPT !.name = NoneName]
        \/ ref = [Ref(h) EXCEPT !.fingerprint = NoneText]
        \/ ref = [Ref(h) EXCEPT !.version = @ + 1]
  BY ReadReference
<1>1. PICK h \in p.pinned :
        \/ ref = Ref(h)
        \/ ref = [Ref(h) EXCEPT !.name = NoneName]
        \/ ref = [Ref(h) EXCEPT !.fingerprint = NoneText]
        \/ ref = [Ref(h) EXCEPT !.version = @ + 1]
  BY <1>0
<1>2. f \in Contents(r) /\ f.name = ref.name /\ f.version = ref.version
  BY DEF get, Key
<1>3. f \in Features /\ h \in Features
  BY <1>2, ContentsAreClean DEF IInv, TypeOK
<1>4. f.fingerprint # NoneText
  BY <1>3, FingerprintNamesItself
<1>5. ref # [Ref(h) EXCEPT !.fingerprint = NoneText]
  BY <1>4 DEF Ref
<1>6. ref.fingerprint = h.fingerprint
  BY <1>1, <1>5 DEF Ref
<1>7. f.name = h.name /\ f.version = h.version
  BY <1>3, <1>6, FingerprintNamesItself
<1>8. ref = Ref(h)
  BY <1>1, <1>2, <1>5, <1>7 DEF Ref
<1>9. p.manifest.features = {Ref(g) : g \in p.pinned}
  BY PinnedManifest
<1> QED BY <1>8, <1>9

-----------------------------------------------------------------------------
(* IInv holds throughout, and so what follows from it. *)
THEOREM Safety == Spec => []IInv
<1>1. Init => IInv
  BY InitEstablishesIInv
<1>2. IInv /\ [Next]_vars => IInv'
  BY NextKeepsIInv
<1> QED BY <1>1, <1>2, PTL DEF Spec

(* Every dict is one that Registry.add would have made, whichever way its   *)
(* registry came about: constructor, query, freeze or additions.            *)
THEOREM TypeCorrect == Spec => []TypeOK
<1>1. IInv => TypeOK
  BY DEF IInv
<1> QED BY <1>1, Safety, PTL

(* A pinned name and version keep leading to the pinned fingerprint.        *)
THEOREM PinsResolve == Spec => []PinnedStillResolves
BY IInvPinnedResolves, Safety, PTL

(* What from_json gives was pinned, but for a field with an edit that is    *)
(* not refused.                                                             *)
THEOREM ReadsArePinned == Spec => []ReadWasPinned
BY IInvReadWasPinned, Safety, PTL

(* A reference with an edited name, version or fingerprint leads to no      *)
(* feature of that fingerprint.                                             *)
THEOREM EditedReferencesNeverResolve == Spec => []EditedNeverResolves
BY IInvEditedNeverResolves, Safety, PTL

(* A reference that resolves to its fingerprint resolves to its formula.    *)
THEOREM ServesWhatWasPinned == Spec => []ServedAsPinned
BY IInvServedAsPinned, Safety, PTL

(* No step changes a frozen registry.                                       *)
THEOREM FrozenStaysFrozen == Spec => FrozenNeverChanges
<1>1. IInv /\ [Next]_vars => [FrozenStays]_vars
  BY NextKeepsIInv
<1> QED BY <1>1, Safety, PTL DEF Spec, FrozenNeverChanges
=============================================================================
