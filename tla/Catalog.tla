------------------------------ MODULE Catalog -------------------------------
(***************************************************************************)
(* From a factory call to a manifest on disk and back: how a feature gets  *)
(* its name and its pin, how registries of features are built, queried and *)
(* frozen, and how a manifest of one is written, read and resolved again.  *)
(*                                                                         *)
(* Registries are objects that refer to dicts, so that two of them could   *)
(* share one.  A dict is a set of features: its order is the order of the  *)
(* listings and nothing else.  The hash is injective.                      *)
(***************************************************************************)
EXTENDS Integers, Sequences, FiniteSets

CONSTANTS
  Calls,          \* the factory calls users make
  SnakeCase,      \* the measures whose names match NAME_PATTERN
  Predicates,     \* what where is asked for, as sets of measures
  Iterables,      \* the features given to Registry, as sequences of calls
  Transforms,     \* the bundles of transforms a manifest may pin
  MaxRegistries,  \* bound: registries built
  MaxAdds,        \* bound: calls of add
  MaxPins         \* bound: manifests taken

ASSUME IterablesAreOfCalls == Iterables \subseteq Seq(Calls)
ASSUME BoundsAreNatural == MaxAdds \in Nat

VARIABLES
  dicts,       \* every dict of features there is
  registries,  \* every registry: the dict it refers to, and whether it is frozen
  adds,
  pins,        \* every manifest taken, with what it was taken of
  writing,     \* the manifest that is being written, if one is
  file         \* what is on disk

vars == <<dicts, registries, adds, pins, writing, file>>

-----------------------------------------------------------------------------
(* Names, parameters and fingerprints.  A call has a measure, the adjusted  *)
(* role it reads and the adjustment it defaults to, and parameters with     *)
(* their Python type.  Few factories hand their role to naming (named).     *)

(* The adjustment goes into the name when it is not the default. *)
RoleToken(c) ==
  IF c.named /\ c.adjustment # c.default_adjustment THEN <<c.adjustment>> ELSE << >>

(* An integral width is named by its integer: the type is gone. *)
ParamTokens(c) == [i \in DOMAIN c.params |-> c.params[i].value]

naming(c) == <<c.measure>> \o RoleToken(c) \o ParamTokens(c)

(* An int is rendered by its repr and a float by its hex. *)
canonical(c) == [i \in DOMAIN c.params |-> <<c.params[i].type, c.params[i].value>>]

(* Mutant: without the version. *)
fingerprint_versionless(c, deps) ==
  [canonical_id |-> naming(c), version |-> 1, params |-> canonical(c),
   roles |-> {c.adjustment}, source |-> c.measure, dependencies |-> deps]

(* Mutant: without the roles. *)
fingerprint_roleless(c, deps) ==
  [canonical_id |-> naming(c), version |-> c.version, params |-> canonical(c),
   roles |-> {}, source |-> c.measure, dependencies |-> deps]

fingerprint(c, deps) ==
  [canonical_id |-> naming(c), version |-> c.version, params |-> canonical(c),
   roles |-> {c.adjustment}, source |-> c.measure, dependencies |-> deps]

(* What a call computes: a number is a number whatever its type. *)
Formula(c) ==
  [measure |-> c.measure, params |-> ParamTokens(c), adjustment |-> c.adjustment]

(* bind_feature.  What a call depends on depends on nothing itself. *)
Dependencies(c) == {fingerprint(d, {}) : d \in c.depends_on}
Bind(c) ==
  [name |-> naming(c), version |-> c.version, fingerprint |-> fingerprint(c, Dependencies(c)),
   data_tier |-> c.data_tier, recurrence |-> c.recurrence,
   dependencies |-> Dependencies(c), call |-> c]

Features == {Bind(c) : c \in Calls}
Ref(f) == [name |-> f.name, version |-> f.version, fingerprint |-> f.fingerprint]
Key(f) == <<f.name, f.version>>

-----------------------------------------------------------------------------
(* The registry. *)

DataTier == {0, 1, 2}              \* TICK < INTRADAY < DAILY
ALLOWED_RECURRENCES == {"FINITE", "RECURSIVE_DECAY", "PATH_DEPENDENT"}

Contents(r) == dicts[registries[r].by_key]

Admitted(f) == f.call.measure \in SnakeCase /\ f.recurrence \in ALLOWED_RECURRENCES
Taken(features, f) == \E g \in features : Key(g) = Key(f)

(* Mutant: the dict is filled without add. *)
AddsUnchecked(fs) == TRUE

(* Registry(features) adds them one by one. *)
AddsAll(fs) ==
  \A i \in DOMAIN fs : Admitted(fs[i]) /\ ~ Taken({fs[j] : j \in 1..(i - 1)}, fs[i])

NewRegistry(features, frozen) ==
  /\ Len(registries) < MaxRegistries
  /\ dicts' = Append(dicts, features)
  /\ registries' = Append(registries, [by_key |-> Len(dicts) + 1, frozen |-> frozen])
  /\ UNCHANGED <<adds, pins, writing, file>>

Construct(calls, frozen) ==
  LET fs == [i \in DOMAIN calls |-> Bind(calls[i])]
  IN  AddsAll(fs) /\ NewRegistry({fs[i] : i \in DOMAIN fs}, frozen)

(* Mutant: the last of two features of a key stays. *)
AddOver(r, f) ==
  /\ adds < MaxAdds
  /\ ~ registries[r].frozen /\ Admitted(f)
  /\ dicts' = [dicts EXCEPT ![registries[r].by_key] = {g \in @ : Key(g) # Key(f)} \cup {f}]
  /\ adds' = adds + 1
  /\ UNCHANGED <<registries, pins, writing, file>>

Add(r, f) ==
  /\ adds < MaxAdds
  /\ ~ registries[r].frozen /\ Admitted(f) /\ ~ Taken(Contents(r), f)
  /\ dicts' = [dicts EXCEPT ![registries[r].by_key] = @ \cup {f}]
  /\ adds' = adds + 1
  /\ UNCHANGED <<registries, pins, writing, file>>

(* Mutant: the frozen registry keeps the dict of the other. *)
FreezeShared(r) ==
  /\ Len(registries) < MaxRegistries
  /\ registries' = Append(registries, [by_key |-> registries[r].by_key, frozen |-> TRUE])
  /\ UNCHANGED <<dicts, adds, pins, writing, file>>

Freeze(r) == NewRegistry(Contents(r), TRUE)

(* A query gives a registry of its own, which is not frozen. *)
Where(r, predicate) == NewRegistry({f \in Contents(r) : f.call.measure \in predicate}, FALSE)
Available(r, tier) == NewRegistry({f \in Contents(r) : tier <= f.data_tier}, FALSE)

(* The feature by that name and version; none is the KeyError. *)
get(r, name, version) == {f \in Contents(r) : Key(f) = <<name, version>>}

-----------------------------------------------------------------------------
(* The manifest.  It refers to features and transforms, pairs the roles     *)
(* with their columns and the features with what they depend on; its        *)
(* scalars are one setting here.                                            *)

MANIFEST_SCHEMA_VERSION == 1
Setting == "setting"
RoleMap == {<<"role", "column">>}
RefFields == {"features", "transforms"}
PairFields == {"role_map", "dependency_edges"}
ListFields == RefFields \cup PairFields
Fields == ListFields \cup {"setting"}

EdgesOf(features) ==
  UNION {{<<f.fingerprint, d>> : d \in f.dependencies} : f \in features}

(* FeatureSetManifest.of goes over its features twice: the second time a    *)
(* generator has none left.                                                 *)
SecondPass(features, generator) == IF generator THEN {} ELSE features

ManifestOf(features, transforms, again) ==
  [features |-> {Ref(f) : f \in features}, transforms |-> transforms, role_map |-> RoleMap,
   dependency_edges |-> EdgesOf(again), setting |-> Setting]

Pin(r, transforms, generator) ==
  /\ Cardinality(pins) < MaxPins
  /\ pins' = pins \cup
       {[registry |-> r, pinned |-> Contents(r), generator |-> generator,
         manifest |-> ManifestOf(Contents(r), transforms,
                                 SecondPass(Contents(r), generator))]}
  /\ UNCHANGED <<dicts, registries, adds, writing, file>>

(* to_json: write_text empties the file before it fills it. *)
ToJson(p) ==
  /\ writing = {}
  /\ writing' = {p.manifest}
  /\ file' = [state |-> "torn"]
  /\ UNCHANGED <<dicts, registries, adds, pins>>

to_dict(manifest) ==
  [state |-> "whole", manifest_schema_version |-> MANIFEST_SCHEMA_VERSION,
   fields |-> manifest, edits |-> {}]

Written ==
  /\ \E manifest \in writing : file' = to_dict(manifest)
  /\ writing' = {}
  /\ UNCHANGED <<dicts, registries, adds, pins>>

(* The process that writes ends before the file is filled. *)
Crash ==
  /\ writing # {}
  /\ writing' = {}
  /\ UNCHANGED <<dicts, registries, adds, pins, file>>

(* A newer release, whose fields mean something else, rewrites the file. *)
NewerRelease ==
  /\ file.state = "whole"
  /\ file.manifest_schema_version = MANIFEST_SCHEMA_VERSION
  /\ file' = [file EXCEPT !.manifest_schema_version = MANIFEST_SCHEMA_VERSION + 1,
                          !.fields.features = {[shape |-> MANIFEST_SCHEMA_VERSION + 1]},
                          !.edits = {}]
  /\ UNCHANGED <<dicts, registries, adds, pins, writing>>

(* Someone edits it, in one place: a field, or an entry of a list. *)
FieldEdits(field) ==
  {"missing"} \cup (IF field \in ListFields THEN {"not a list"} ELSE {"mistyped"})
EntryEdits(field) ==
  IF field \in RefFields
  THEN {"no key", "text version", "other version", "mistyped name", "mistyped fingerprint"}
  ELSE {"not a pair", "mistyped"}

HandEdit(field) ==
  /\ file.state = "whole" /\ file.edits = {}
  /\ file.manifest_schema_version = MANIFEST_SCHEMA_VERSION
  /\ \/ \E what \in FieldEdits(field) :
          file' = [file EXCEPT !.edits = {[field |-> field, what |-> what, of |-> {}]}]
     \/ /\ field \in ListFields
        /\ \E entry \in file.fields[field], what \in EntryEdits(field) :
             file' = [file EXCEPT !.edits = {[field |-> field, what |-> what, of |-> {entry}]}]
  /\ UNCHANGED <<dicts, registries, adds, pins, writing>>

(* What is refused: only the version of a reference has its type checked.   *)
Refused == {"missing", "not a list", "no key", "text version", "not a pair"}
Malformed(payload) == \E edit \in payload.edits : edit.what \in Refused

(* str() makes a text of a name or a fingerprint of any type, None of null; *)
(* a pair is taken as it is.                                                *)
NoneName == <<"None">>
NoneText == [text |-> "None"]
ReadEntry(entry, what) ==
  CASE what = "mistyped name"        -> {[entry EXCEPT !.name = NoneName]}
    [] what = "mistyped fingerprint" -> {[entry EXCEPT !.fingerprint = NoneText]}
    [] what = "other version"        -> {[entry EXCEPT !.version = @ + 1]}
    [] what = "mistyped"             -> {<<NoneText, entry[2]>>}
    [] OTHER                         -> {}

(* What there is to read of a field that was edited. *)
ReadField(value, edit) ==
  IF edit.field = "setting" THEN edit.what
  ELSE IF edit.of = {} THEN {}
  ELSE (value \ edit.of) \cup UNION {ReadEntry(entry, edit.what) : entry \in edit.of}

ReadFields(payload) ==
  [field \in Fields |->
     IF \E edit \in payload.edits : edit.field = field
     THEN ReadField(payload.fields[field], CHOOSE edit \in payload.edits : edit.field = field)
     ELSE payload.fields[field]]

(* Mutant: any version is read. *)
from_dict_ungated(payload) ==
  IF Malformed(payload) THEN {} ELSE {ReadFields(payload)}

(* None is the ValueError. *)
from_dict(payload) ==
  IF payload.manifest_schema_version # MANIFEST_SCHEMA_VERSION \/ Malformed(payload)
  THEN {} ELSE {ReadFields(payload)}

(* There is no JSON in a file that is empty or ends early.                  *)
from_json == IF file.state = "whole" THEN from_dict(file) ELSE {}

-----------------------------------------------------------------------------
Init ==
  /\ dicts = << >> /\ registries = << >> /\ adds = 0
  /\ pins = {} /\ writing = {} /\ file = [state |-> "absent"]

Next ==
  \/ \E calls \in Iterables, frozen \in BOOLEAN : Construct(calls, frozen)
  \/ \E r \in DOMAIN registries :
       \/ \E f \in Features : Add(r, f)
       \/ Freeze(r)
       \/ \E p \in Predicates : Where(r, p)
       \/ \E tier \in DataTier : Available(r, tier)
       \/ \E transforms \in Transforms, generator \in BOOLEAN : Pin(r, transforms, generator)
  \/ \E p \in pins : ToJson(p)
  \/ Written \/ Crash \/ NewerRelease
  \/ \E field \in Fields : HandEdit(field)

Spec == Init /\ [][Next]_vars

-----------------------------------------------------------------------------
(* Every dict is one that add would have made: its features are admitted    *)
(* and no two of them have a key, whichever way its registry came about.    *)
RegistryContract ==
  \A r \in DOMAIN registries :
    \A f \in Contents(r) :
      /\ Admitted(f)
      /\ \A g \in Contents(r) : Key(g) = Key(f) => g = f

TypeOK ==
  /\ dicts \in Seq(SUBSET Features)
  /\ registries \in Seq([by_key : DOMAIN dicts, frozen : BOOLEAN])
  /\ adds \in 0..MaxAdds
  /\ \A p \in pins : p.registry \in DOMAIN registries /\ p.pinned \subseteq Features
  /\ writing = {} \/ \E p \in pins : writing = {p.manifest}
  /\ file.state \in {"absent", "torn", "whole"}
  /\ RegistryContract

(* Nothing changes a frozen registry, not what is added to the one it was   *)
(* frozen from nor to one that was queried from it (FEATURES.md 7, the      *)
(* comment of test_default_registry_instances_are_independent).             *)
FrozenStays ==
  \A r \in DOMAIN registries : registries[r].frozen =>
    registries'[r].frozen /\ (Contents(r))' = Contents(r)
FrozenNeverChanges == [][FrozenStays]_vars

(* A pinned feature is not replaced: its name and version keep leading to   *)
(* its fingerprint in the registry it was pinned from, whatever is added    *)
(* since ("change behavior via a new version, never an edit").              *)
PinnedStillResolves ==
  \A p \in pins : \A ref \in p.manifest.features :
    \E f \in Features :
      /\ get(p.registry, ref.name, ref.version) = {f}
      /\ f.fingerprint = ref.fingerprint

(* What is read from disk was pinned, all of it but the field someone       *)
(* edited: a file whose writing was cut short or that a newer release wrote *)
(* is refused, and so is an edited one unless the edit is in a scalar, in   *)
(* an entry of a pair or in a reference that keeps an int for its version.  *)
Edited(payload) == {edit.field : edit \in {e \in payload.edits : e.what \notin Refused}}
ReadWasPinned ==
  \A manifest \in from_json : \E p \in pins :
    \A field \in Fields \ Edited(file) : manifest[field] = p.manifest[field]

(* A reference that was edited and is read all the same (manifest.py:146    *)
(* turns any name and fingerprint into text) leads to no feature of its     *)
(* fingerprint, in no registry: who compares fingerprints is not misled.    *)
EditedNeverResolves ==
  \A manifest \in from_json : \A ref \in manifest.features :
    \A r \in DOMAIN registries : \A f \in get(r, ref.name, ref.version) :
      f.fingerprint = ref.fingerprint => \E p \in pins : ref \in p.manifest.features

(* Serving from a manifest read back: in any registry, a reference that     *)
(* resolves to its own fingerprint resolves to the formula that was pinned, *)
(* although names leave out roles and parameter types.                      *)
ServedAsPinned ==
  \A manifest \in from_json : \A ref \in manifest.features :
    \A r \in DOMAIN registries : \A f \in get(r, ref.name, ref.version) :
      f.fingerprint = ref.fingerprint =>
        \A p \in pins : \A g \in p.pinned :
          Ref(g) = ref => Formula(g.call) = Formula(f.call)

-----------------------------------------------------------------------------
(* What the theorems rest on: every registry has a dict of its own, a pin   *)
(* is of features that are still there, and what is on disk, or is being    *)
(* written, is a manifest that was pinned.  An edit of an entry is of one   *)
(* that is there.                                                           *)
OwnDict ==
  /\ Len(dicts) = Len(registries)
  /\ \A r \in DOMAIN registries : registries[r].by_key = r

PinsAreHeld ==
  \A p \in pins :
    /\ p.pinned \subseteq Contents(p.registry)
    /\ \E transforms \in Transforms :
         p.manifest =
           ManifestOf(p.pinned, transforms, SecondPass(p.pinned, p.generator))

FileWasPinned ==
  file.state = "whole" =>
    /\ DOMAIN file = {"state", "manifest_schema_version", "fields", "edits"}
    /\ \A edit \in file.edits :
         /\ edit.field \in ListFields => edit.of \subseteq file.fields[edit.field]
         /\ edit.field \in RefFields => edit.what # "mistyped"
    /\ file.manifest_schema_version = MANIFEST_SCHEMA_VERSION =>
         \E p \in pins : file.fields = p.manifest

IInv == TypeOK /\ OwnDict /\ PinsAreHeld /\ FileWasPinned
=============================================================================
