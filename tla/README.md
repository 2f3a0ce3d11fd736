# A verification project for sabia

sabia computes market features (momentum, volatility, cross-sectional ranks, order-flow
measures) from bars, and has an adapter that builds the bars from raw ticks. It runs no threads
and keeps almost nothing between calls: its functions are pure functions of a frame. What is hard
about it is *time*. The same function is called again and again on a frame that grows, is
reordered, is revised, or loses a column, by a consumer that trusts earlier answers; and the same
library is edited between a model's training and its serving. The promises of the repository are
about exactly that: point-in-time values, bars that are final once closed, a `STRICT` gate, and
a fingerprint that tells two formulas apart. This project states those promises in TLA+, checks
them with TLC on small instances, and proves the central ones with TLAPS for every value of the
constants.

All source paths are given under `src/`, where the repository lies: `src/src/sabia/...` is the
package, `src/tests/...` the tests, `src/FEATURES.md` the design document.

## 1. Inventory

| Component (`src/src/sabia/`) | State | Operations | Interacts with |
|---|---|---|---|
| Bar adapter `adapters/bars.py` | none of its own; the raw tick frame and the `BarSpec` of its caller | `build_bars`: validate, sort, sign, bucket, tie, aggregate, mark closed | calls signing and `validate_ticks`; its output is a frame for `validate` |
| Trade signing `adapters/signing.py` | none | `sign_ticks` under `NONE`, `TICK_RULE`, `LEE_READY` | a column of `build_bars` |
| Validation `validate.py` | none; the verdict is an exception or warnings | `validate`, `validate_ticks`, `audit_frame` | called by `compute` and `build_bars`; reads the schema, the features' specs, a universe or a membership table |
| Evaluation `__init__.py`, `registry.evaluate` | none | `compute`, `compute_lazy`, two-pass `evaluate` | validates, resolves roles, selects expressions |
| Registry `registry.py` | the catalog `_by_key`, the `_frozen` flag | `add`, `freeze`, `get`, `where`, `available`, `from_modules`, `bind_feature` | `bind_feature` takes the fingerprint |
| Fingerprint `spec.py` | the worklist and the dict of sources during a binding | `feature_fingerprint`, `_transitive_sources`, `_module_constants` | reads the source code of the library; pinned by the manifest |
| Manifest `manifest.py` | an immutable record; the JSON file it is written to | `of`, `to_dict`, `to_json`, `from_dict`, `from_json` | pins the references and dependency edges of a set of features |
| Schema, roles `schema.py`, `typing.py` | an immutable role map | `column`, `has`, constructors | every feature resolves its columns through it |
| Names, parameters `naming.py`, `params.py`, `_validate_params.py` | immutable | `naming`, `assert_unique`, `FrozenParams.canonical` | name collision guard of `compute`, payload of the fingerprint |
| Toolkit `toolkit.py` | `FeatureSet`, an immutable tuple | `max_min_history`, `drop_warmup`, `required_roles`, `manifest` | on the result of `compute`; pins a manifest |
| Grouping, arithmetic `_expr.py`, `_math.py` | none | `grouped`, `emit_after`, `safe_div`, `log_return` | every formula |
| Cross-sectional features `cross_sectional.py` | none | rank, z-score, reversal, beta | need a universe and a complete panel |
| Time-series families (`returns`, `trend`, `momentum`, `volatility`, `volume`, `distribution`, `mean_reversion`, `seasonality`, `microstructure`) | none | one factory per feature | roles, windows, warm-up |
| Normalisation `normalize.py` | none | `zscore`, `xs_zscore`, `xs_rank`, `frac_diff` | transforms on feature columns |
| Calendar, references, recipes | constants | lookups | - |

The state that matters is in the *consumer* (the frame it keeps, the results it published, the
bars it stored, the buffer it serves from, the registries and manifests it holds, the file on its
disk) and in the *library under edit* (function bodies, constants). The
models make that state explicit, and each call of the library is an action on it.

What is hard here, and what makes each part correct:

* **Bars.** Simultaneous ticks at a boundary, one tick that overruns several boundaries, late
  prints, symbols that interleave, trades of size zero. Correct: simultaneous ticks share a bar,
  bar times strictly increase, a bar spans its threshold band, only the last bar is open, a
  closed bar never changes, no trade is lost or counted twice, and re-evaluating the whole frame
  gives what was known as the ticks arrived.
* **Validation.** Nine checks in a fixed order, each vectorised over neighbouring rows and with
  null semantics of its own, of which two give way under `RESEARCH`. Correct: the checks together
  are the declared contract of the *whole* frame; the modes nest; `audit_frame` agrees.
* **Evaluation.** Values look back across rows of one symbol that other symbols' rows
  interrupt; the cross-section is whatever rows are there at the call. Correct: values are
  point-in-time and, under `STRICT`, final once returned.
* **Fingerprint.** A worklist over a possibly recursive call graph, in an order that differs from
  process to process. Correct: it ends, covers the whole formula and nothing else, and equal
  fingerprints mean equal formulas, now and after any number of releases that import alike.
* **Registry, manifest, names, parameters.** Registries are mutable until frozen and beget each
  other; names leave out types and, in many factories, roles; a manifest outlives the registry,
  the process and the release that wrote it. Correct: a frozen registry never changes, a pinned
  reference keeps leading to its formula, what is read back was pinned or is what the reader made
  of one edit, and an edited reference leads to no feature of its fingerprint.
* **Features.** Some eighty factories, each an expression over shifted, rolling or smoothed
  columns with a `min_history` written down beside it. Correct: a feature recomputed on a tail of
  `min_history` bars gives the value of the full frame, is null exactly on its declared warm-up,
  takes no missing bar for a number and shows an infinity at most where it divides bare by a price
  that is zero.

`PROJECT.json` lists every component with its status, and every hazard at its line with the
properties that cover it.

## 2. The modules and the code

| Module | Models | State and actions |
|---|---|---|
| `BarBuilder` | `build_bars` and `sign_ticks` as operators on whole frames, column by column | none |
| `TickBars` | a live feed: ticks in time order per symbol, symbols interleaved, bars rebuilt after every tick | `spec`, `frame`, `rows`; `Trade` |
| `BarLog` | abstract: an append-only log of final bars and at most one open bar per symbol | `final`, `open`; `Open`, `Grow`, `Roll` |
| `TickFrame` | whole `build_bars` calls on an unordered frame that may breach the tick contract or hold nulls, under each `ValidationMode`, with a column lost | `spec`, `mode`, `frame`, `input`, `outcome`; `Arrive`, `Build` |
| `Contract` | `validate` and `audit_frame` as operators: nine checks in order, the soft ones, the verdict, the warnings | none |
| `PanelFeed` | a consumer that keeps a frame of bars and calls `compute`: late and repeated bars, open bars revised when they close | `call`, `rows`, `outcome`, `published`; `Arrive`, `Finalize`, `Compute` |
| `Fingerprint` | the worklist of `_transitive_sources` step by step, over a library whose functions, constants and imports releases edit, and a feature that is bound again | `lib`, `bound`, `busy`, `stack`, `sources`, `pins`, `edits`; `Start`, `Skip`, `Visit`, `Finish`, `Edit`, `Retune`, `Repoint`, `Rebind` |
| `Expr` | the Polars expressions of `_expr.py` and `_math.py`: each a function from frames to columns, made by operators from others | none |
| `Features` | every feature factory and transform: declared roles, `min_history`, recurrence, expression | none |
| `Serving` | one feature evaluated twice: `compute` over the whole frame, and bar by bar over a buffer of `min_history` bars | `served_as`, `frame`, `served`; `CloseBar`, `CloseSlice` (of the feature served: `Closing`) |
| `Catalog` | factory calls with their names and pins, registries that beget registries, manifests and the file they are written to | `dicts`, `registries`, `adds`, `pins`, `writing`, `file`; `Construct`, `Add`, `Freeze`, `Where`, `Available`, `Pin`, `ToJson`, `Written`, `Crash`, `NewerRelease`, `HandEdit` |
| `PinLog` | abstract: a binding is one step that pins the payload code and call determine | `code`, `call`, `payload`, `pinned`; `Bind`, `Release` |
| `MCTickBars`, `MCTickFrame`, `MCPanelFeed`, `MCFingerprint`, `MCServing`, `MCCatalog` | the small instances | - |
| `TickBarsProofs`, `TickFrameProofs`, `PanelFeedProofs`, `FingerprintProofs`, `ServingProofs`, `CatalogProofs` | the theorems of each machine | - |
| `BarBuilderProofs`, `OrderLemmas` | lemmas: what `build_bars` computes on a frame in any order; least and greatest elements, ranks, sums and counts without induction | - |

How they fit: `TickBars` and `TickFrame` share the operators of `BarBuilder`. `TickBars` keeps,
as state, the columns of each row as they were known when the tick arrived. That shape is
provable, and its invariant `RowsAreTheBatch` ties it back to the whole-frame evaluation that
the code performs. `TickBars` implements `BarLog` under the mapping "closed bars are the final
ones" (`ImplementsBarLog`). `PanelFeed` extends `Contract`; the bars that `TickFrame` builds
from validated ticks meet the row contract of `Contract` (`BuiltBarsMeetTheContract`, and
`AdapterFitsValidate` in terms of `Validate` itself). `Fingerprint` implements `PinLog`
(`ImplementsPinLog`): the steps of the worklist stutter, and `Finish` pins a payload that a
definition without a worklist gives. `Serving` evaluates the expressions that `Features` builds
with the operators of `Expr`; what `PanelFeed` says of values in a panel it says of one ratio and its
rank, what `Serving` says of nulls, windows and buffers it says of every factory. `Catalog`
takes the fingerprint as the payload that `Fingerprint` shows to cover the formula.

Abstractions, all of them of data:

* Prices, sizes and timestamps are integers; a ratio is a pair of integers, a null ratio the empty
  sequence. Rounding of floating-point sums is thereby out of the model.
* Of a quote only its comparison with the trade price is kept, all that signing reads.
* A feature in `PanelFeed` is a ratio of two lagged closes, which `ret_log`, `roc` and `mom` are
  monotone in, or its percentile rank in the cross-section (`xs_rank_mom`).
* A function body in `Fingerprint` is a formula label, the bare names it calls and the constants
  it reads by name; which functions the names are, the imports say, and they are in no source. One
  map of names stands for the globals of all modules, as no two modules define a function of the
  same name. The hash is injective, so a fingerprint is its payload. Two functions do not share a
  module and a qualified name (assumption `NamesAreUnique`).
* In `Expr` a cell is a level, so that a rise, a fall, a flat stretch, a zero and a missing value
  are told apart; a computed number keeps its sign, the sign of its logarithm, the set of cells it
  rests on, and whether a null was taken for something else on the way. Numbers are *in general
  position*: a sum or a dispersion is zero only when its terms make it so. A positive factor or a
  constant added to an outcome is left out, as is winsorizing, which moves numbers only.
  `half_life` and `roll_spread` are taken on the branch that emits (their sign condition is of a
  computed number), the variance of `vol_gk` is taken positive.
* Every factory is called with its default roles and small parameters; bars of two symbols have
  cells for all roles.
* A smoothing remembers the rows whose weight exceeds the parity tolerance, and knows of older
  ones only whether they were all zero. Tolerances are small integers (`WarmupTol`, `ParityTol`),
  in the order the code has them.
* In `Catalog` a dict is a set of features, since its order shows in listings only; the
  predicates of `where` tell measures apart; the scalars a manifest carries (closed column,
  calendar, tool versions) are one setting; writing a file is two steps, empty and full; a hand
  edits one place of a file, a field or an entry of a list, and what the reader makes of it is
  modelled case by case (`Refused`, `ReadEntry`).

## 3. The runs

Every run finishes within five minutes on two workers. `CHECK_DEADLOCK FALSE` is set where the
feed is bounded: when the last row has arrived the system really stops. `Fingerprint` never stops
(a feature can always be bound again), so its runs check deadlock.

| Run | Question | Bounds, and why they are enough |
|---|---|---|
| `bars_stream` | Following a live feed, does each kind of bar close once, for good and in time order, and does rebuilding never look ahead? | 2 symbols, timestamps 0..2, 4 ticks, every kind of bar and sign rule, knobs 2 and 3, sizes 0 and 3: one tick overruns two boundaries, ties straddle one, a TIME window ends, a zero-tick carries its sign, quote and tick rule disagree |
| `bars_frame` | Calls of `build_bars` on an unordered frame: is every trade counted once, what may tie order move, what may a late print rewrite? And on bad frames under each mode: do the bars meet the contract, are closed bars append-only? | 5 rows in any order of time with two prints per timestamp and a second symbol; 4 rows with every breach of the tick contract, late prints, null cells in every column that is checked, a lost symbol or quote column |
| `bars_tie_flow` (violation) | Is order flow independent of the order of simultaneous ticks, as the docstring says? | 3 rows under the tick rule |
| `panel` | Is what `validate` refuses exactly the declared contract, in every mode, and does the audit agree? Are values point-in-time, final under STRICT, and without a null after `drop_warmup`? | 27 calls (18 of which misfit in one way each, a malformed membership table among them) on frames of 2 rows, bars that breach each row check and bars hidden behind nulls, since a check relates at most two rows; 3 calls on 4 rows with open bars that are revised and a delisting: a complete panel of 2 symbols and 2 timestamps in every interleaving |
| `panel_universe` (violation) | Is the *declared* universe asserted? | one timestamp, one declared symbol absent, one undeclared present |
| `panel_lost_time` (violation) | Are accepted timestamps strictly increasing? | three rows of a symbol, one without a timestamp |
| `fingerprint` | Over every history of two releases: does binding end, is the formula covered, do equal fingerprints under equal imports mean equal formulas and the reverse, and is a binding as good as atomic? | 4 functions with shared helpers, 5 bodies (calls to a helper, to itself, to both, constants read), imports straight or crossed, 3 bindings, any push order; two edits suffice to change and restore |
| `fingerprint_captured` (violation) | Does a retuned constant show in the fingerprint? | one constant that a factory captured |
| `series` | For every factory: is what is served from `min_history` bars what the batch computes, null before that many (`NullBeforeMinHistory`) and, on clean bars, a number from there on (`NumberFromMinHistory`), never imputed; and is it infinite or NaN only where the feature divides bare by a price that is zero? | every factory at its smallest parameters, one bar past `min_history` (the shortest frame on which a buffer that is too short loses a bar), another symbol between; clean bars and gaps, halts (flat, untraded) and bars with a zero low, a zero open, a zero close or nothing but zeros (a zero open or close has a zero low: `_check_ohlc_ordering` refuses others), each to every feature that reads the price (one bar of those that are the same to it): two odd ones where `min_history` is at most 3, one where it is longer. `WarmupTol` 20 over `ParityTol` 4: a burn-in a bar too short shows |
| `series_flat` (violation) | Does the parity hold across a stretch without a move? | `rsi(2)`, as many halts as the buffer has bars |
| `series_imputed` (violation) | Is nothing imputed for a bar without values? | `adx(2)`, one gap |
| `catalog` | Do registries stay clean, frozen ones still, pins resolvable; is what is read back what was pinned but for one edit the reader accepts, does an edited reference lead nowhere, and is the rest served as pinned? | 9 calls whose names, types, roles and versions get close, 7 lists to construct from (4 of them refused), 2 registries (the original and what it was frozen to or queried for), 2 additions, one manifest; any writes, crashes, newer releases, and every edit of one field or one entry of its file |

Every property of a passing run has a mutant in `PROJECT.json`: a plausible bug in one definition
under which TLC finds the property violated in the same run. The mutants stand in the modules
beside what they mutate, each under a comment that begins with "Mutant".

**Fairness.** Only `Fingerprint` states any: `WF_vars(Skip \/ Visit \/ Finish)`. The three are the
body and the return of one sequential `while` loop, and nothing else runs during a binding, so the
loop goes on until it returns. `Start` and the edits are not fair: no one has to bind a feature.
The other modules have no liveness property; every call there is one step, and nothing in the
code obliges a feed to send or a consumer to ask.

### What the violations show

* *Tie order and flow.* `sign_ticks` takes the difference to the row before, so exchanging two
  simultaneous ticks changes `signed_volume` and its kin; the docstring of `build_bars` says that
  only open and close reflect tape order. `TieOrderKeepsBars` shows that everything else is
  independent of it, bucket composition included.
* *Declared universe.* `_incomplete_cross_section` compares sizes, so a cross-section of *a* and
  *b* passes for the declared universe *a*, *c*.
* *Lost timestamp.* A null between two rows with the same timestamp hides the duplicate, as
  `any()` ignores the null steps on both sides of it; `audit_frame` counts it.
* *Flat stretch.* `rsi` is null where the smoothed gain and loss are both zero. Over a buffer of
  flat bars they are; over the whole history the decayed weight of older moves keeps them from
  it, so the served value is null where the batch has a number. FEATURES.md promises the same
  value on the last `min_history` bars.
* *Missing bar.* In `adx` a null comparison falls to `otherwise(0.0)` and `max_horizontal` passes
  over a null, so numbers after a gap rest on zeros that nobody observed, where FEATURES.md
  says that nothing is imputed. `atr` shares the true range and is kept from gaps in `series`.
* *Captured constant.* `_module_constants` folds in what a hashed function reads by name. A value
  computed by the factory and captured by the closure (`weights` of `frac_diff`, the warm-up of
  the exponentially weighted features) is neither source nor constant.

`GateIsTheContract` and `StrictValuesAreFinal` therefore assume timed rows and, for a panel, a
declared universe or only declared symbols. The assumptions stand in the properties, and the
violation runs show what happens without them.

### Disagreements without a run

Met while modelling, and kept out of the properties by an assumption that each property names:

* *Nulls in ticks.* `validate_ticks` says that it requires non-decreasing timestamps, `price > 0`
  and `size >= 0` (`validate.py:278-282`); its `any()` passes over null comparisons
  (`validate.py:299-313`). A null price or size is accepted, and so is the disorder around a null
  timestamp: with timestamps 1, 2, null, 0 a `STRICT` build succeeds and rewrites bars it gave as
  closed. This is the hole of `panel_lost_time` in the same helper (`_timestamp_step`). `TickFrame`
  models the null cells and what is let through; `Whole` in its bar properties is the assumption
  that there are none, as `BarBuilder` does not describe bars over nulls.
* *Bare divisions.* FEATURES.md 4.5 says that degenerate inputs give null and never infinities
  (`src/FEATURES.md:209`). `vol_parkinson` and `spread_corwin_schultz` divide by the low
  (`volatility.py:146`, `volume.py:289, 293`), `vol_gk` by low and open (`volatility.py:166-167`),
  `vol_rs` and `vol_yz` by close and open (`volatility.py:374-377`) and `vol_yz` by the open and
  the close before (`volatility.py:212-213`), none of them guarded. Served every zero, the first two
  are infinite or NaN on any bar with a zero low; `vol_gk` with a zero low, unless the close is
  zero too and makes it null; `vol_yz` with a zero close or only zeros; `vol_rs` only with nothing
  but zeros, since a zero open or close comes with a zero low whose logarithm is null first. It
  lasts until the zero has left the window, which is what `NeverInfinite` says of them
  (`DividesBareBy`), and of every other feature that it never happens.
* *A lag as long as the window.* `var_ratio` accepts `q = window`, where its bias correction is
  zero (`mean_reversion.py:112, 134`), and is infinite or NaN on every bar. It is in the run;
  `DividesByZero` exempts it.
* *Coerced references.* The comment at `manifest.py:141-142` says that the fields of a reference are
  "checked against their declared types so a hand-edited payload fails loudly"; the version is, but
  name and fingerprint go through `str()` (line 146), so that a null is read as the text `None`.
  The entries of `role_map` and `dependency_edges` are checked to be pairs and no further, scalars
  not at all. `Catalog` models the coercion; `ReadWasPinned` exempts the field that was edited, and
  `EditedNeverResolves` says what is left of "fails loudly": such a reference leads to no feature of
  its fingerprint. An entry that a hand replaces by another valid one is a different manifest and
  nothing can tell.
* *Edges of a generator.* `FeatureSetManifest.of` iterates its features twice (`manifest.py:61`
  and `:69`), so of a generator the dependency DAG of FEATURES.md 4.4 (`src/FEATURES.md:199-200`) is lost. Modelled
  (`SecondPass`); no property speaks of it.
* *Exchanged imports.* A callee is hashed by the bare name it is called by (`spec.py:316-328`).
  A release in which two imported names exchange their functions leaves every source, and so every
  fingerprint, as it was, while the formula is another: `Repoint`. `EqualPinsEqualFormula` is
  therefore of pins taken under equal imports; without that TLC refutes it.

## 4. The theorems

`tlapm` checks every proof. The constants are arbitrary subject to the named assumptions of the
modules, and calls, frames, releases and edits are unbounded in number (the bounds are arbitrary
naturals).

| Assumption | Says | Why the code justifies it |
|---|---|---|
| `SymbolsAssumption`, `FrameAssumption` | symbols are integers (any name will do, they only need an order); specs are legal `BarSpec`s; in `TickBars` prints have positive prices and natural sizes, in `TickFrame` they have any | `BarSpec` checks its knob on construction; `TickBars` is the feed that `validate_ticks` accepts when no cell is null, `TickFrame` is any |
| `CallsAssumption` | a call has at least one feature and a finite universe; features are as factories make them: lags are natural and shorter than `min_history`, and a feature that carries a signal requires a complete panel | the signature of `compute`; the factories; `_xs_feature` is the only maker of signals and sets the flag |
| `FeedAssumption` | the cells of a bar and its timestamp are naturals or null | Polars columns of a dtype; a ratio of prices needs no sign |
| `FunctionsAreFinite`, `NamesAreUnique`, `BodiesCallNames`, `ImportsBindNames`, ... | the library is a finite set of functions with distinct keys that call each other by names, each of which imports bind to a function | a Python package |
| `KindsAreDelivered` | the kinds of bar a feature is served are those of `Serving` | the definition of the bars |
| `Tolerances` | both tolerances are naturals, in this order | `EWM_WARMUP_TOL` and `PARITY_RECURSIVE_TOLERANCE` of `spec.py`, inverted |
| `IterablesAreOfCalls`, `BoundsAreNatural` | the constructor is given sequences of features; bounds are naturals | the annotations of `registry.py` |

**`TickBarsProofs`.** The inductive invariant (`Inductive`) is `IInv` of `TickBars`:

* `TypeOK`;
* `BucketsFollowTime`: along the rows of a symbol timestamp, running total and bucket never
  decrease, and equal timestamps share a bucket. This is the claim of `_atomic_ties` that *first*
  is *min*;
* `CutWhereDue` for each symbol: a row's total is the total before it plus the weight before it,
  a row is never ahead of the bucket its own total gives, and the first row of a bar is exactly
  there.

The last conjunct is what `BucketsFollowTime` lacks to be inductive: a tied row keeps an *old*
bucket while the total runs on, so that the next untied row lands at or after it is known only
because no row was ever ahead of its own total. From `IInv` follow, by facts about the first and
last row of a bar: `TiesStayTogether`, `BarsAreInOrder` (bar times strictly increase),
`OneOpenBar`, `BarsAreCutWhereDue` (a closed bar filled its band) and, as an action property,
`ClosedBarsStayClosed`. The step's one hard lemma is `AppendKeepsOrder`; division is reduced to
`DivMonotone`.

Two theorems tie the feed to other specifications:

* `FeedImplementsBarLog`: every tick is a step of `BarLog`. A first tick of a symbol is `Open`, one
  in the bucket of the last row is `Grow`, one in a later bucket is `Roll`, and a step without a
  tick stutters. One lemma for each of the three (`FirstRowOpens`, `SameBucketGrows`,
  `LaterBucketRolls`), all three from `BucketsFollowTime`.
* `FeedIsTheBatch`: the columns kept as each tick arrived are those that `build_bars`, evaluated on
  the whole frame, gives now (`RowsAreTheBatch`). A new row stands last in the sorted listing of
  its symbol (`JoinsLast`), the listing of a symbol is unique (`ListingIsUnique`), and so what was
  computed for older rows, and for other symbols, reads the same rows as before.

**`BarBuilderProofs`.** What `build_bars` computes on a frame in *any* order of time. The code
sorts, takes running sums and groups; each of the three is a definition the provers cannot unfold
for every input, so each is first given a characterisation:

* a sum is a *total over a set of rows* (`SumExists`, `SumIsUnique`, `TotalIsSum`), built up element
  by element along a finite set (`GrowToWhole` of `OrderLemmas`, which stands in for induction).
  Totals can be taken apart, scaled, relabelled and split by bucket (`TotalTakeOut` to
  `TotalOfHeaps`). The library's sums take an operator as a parameter, so the sum is written out
  over a function;
* sorting is *the order of the places* (`SortLists`, `PlacesInOrder`): row *i* of the sorted frame
  is the row of which *i* - 1 rows precede it;
* together they remove sorting altogether: `BarsAsArrived` gives every column of every bar as a
  function of the frame as it arrived, where a bar reads the rows of its own bucket and no other.

**`TickFrameProofs`.** The invariant (`FrameInductive`) is `FrameInv`: `TypeOK`, the frame that was
answered is a beginning of the frame now, and under validation it holds no row that
`validate_ticks` finds bad (nulls it passes over). The theorems on bars are of frames without null
cells, which their properties say (`Whole`). On the invariant and the arrival view rest

* `EveryTradeIsInABar`: volume and trade count of the bars are those of the ticks, since the heaps
  of a symbol's buckets are all its rows (`HeapsHoldAll`);
* `TieOrderKeepsAllBars`: exchanging two simultaneous ticks of a symbol leaves every bucket and
  every column but open, close and flow (`SwappedTotal` -> `SwappedBuckets` -> `SwappedBars`);
* `LatePrintsRewriteASuffix`: a late print leaves every bar before the last one that had ended at
  its timestamp. TLC refuted this for frames with negative sizes (a print of size -4 after two of
  3 moves an earlier bucket back), so the property assumes positive prices and natural sizes,
  as the rows that `validate_ticks` accepts have;
* `ValidatedBarsAreSound`: bars of validated ticks without nulls are in order and in range, with a sound vwap and
  split of the volume;
* `ValidatedAnswersOnlyAppend`: under validation a bar once given as closed is in every later
  answer, unchanged and closed. `validate_ticks` compares neighbours only; that this suffices for
  the order of all rows of a symbol is `OrderedFrame`;
* two theorems on the way the parts compose, with `Contract` instantiated: `AdapterFitsValidate`
  (any list of held bars, the symbols interleaved in any way, passes `validate` in every mode for
  every call that reads bars, except that `STRICT` refuses exactly the lists with an open bar), and
  `AdapterNeverRevises` (the frame a list of closed bars makes is made by the same list after every
  later call, which is what `PanelFeed` assumes of its feed). Calls that need a complete panel are
  outside the first: the bars of two symbols end at times of their own.

**`PanelFeedProofs`.** The invariant (`PanelInductive`) is `PanelInv`: the frame is typed, the
outcome is that of the rows at the call, the published result fits the rows, and `StrictRowsStay`.
The last is what finality needs: the rows a strict call accepted were all closed, `Finalize`
touches only open ones, and a bar arrives at the end, so the first rows *now* still give what was
published *then*.

* `GateHolds`: in each mode the nine passes refuse exactly what the declared contract of the whole
  frame refuses. The hard half is that steps between neighbours, with nulls that hide a step, tell
  the order of *all* rows of a symbol (`StepsAreOrder`), and that comparing sizes tells a missing
  symbol when only declared ones are there (`SizesTellMissing`).
* `AuditHolds`: `audit_frame` counts no breach in a frame that strict validation accepts (this
  direction only). The counts of
  full timestamps agree only when no undeclared symbol is in the frame, since `validate` compares
  sizes and the audit symbols; `AuditAgrees` says so (`OnlyDeclared`).
* `ModesAreNested`: what `STRICT` accepts `RESEARCH` accepts, and what that accepts `OFF` accepts.
* `StrictIsForGood` (action property): a value a strict call returned is the one every later strict
  call returns. The core is `NobodyJoins`: no row that is new can join the cross-section of a
  timestamp that was complete, so ranks stay (`PeersStay`).
* `ValuesHold`: a validated value is the one computed from what was known at its timestamp. A
  shift over rows that other symbols interrupt is the close so many bars back of the symbol
  (`ShiftIsCloseBack`), and a rank is the one among the rows of that timestamp.
* `WarmupHolds`: no row that `drop_warmup` keeps holds a null (`EnoughBars`, `LongestHistory`).

**`FingerprintProofs`.** The inductive invariant (`WorklistInductive`) is the type invariant, that
the loop's locals are empty between bindings, that every key names a function, and two halves of
a reachability argument: *nothing is lost* (every builder, and every callee of a hashed function,
is hashed or on the stack) and *nothing is extra* (whatever is hashed or on the stack is reached
by the builders). When the stack is empty the hashed set is closed under calls and contains the
builders, so it contains the least such set, and it is contained in it: that is
`FingerprintCoversFormula`. It holds for any call graph, recursive ones included, any push order
and any number of releases. `ReachedIsLeast` is the lemma both halves rest on.

The second part is about what is pinned. `PInv` (`PinsInductive`) adds that the sources hashed so far are of the library as
it is (releases do not edit during a binding), and `PinsAreWhole`: the payload of every pin ever
made is the sources of a formula in the order of their keys, and that formula is the builders and
all they call. The second is what survives later edits. Sorting by key is turned into places
(`SortedIsOrdered`), from which equal payloads give equal formulas: `OrderedTellsFormula` shows that
the sources tell, one after the other, which functions are in. Then
`EqualPinsAreOfEqualFormulas` (of pins under equal imports), `UnchangedFeaturesKeepTheirPins` (the order in which sources were
visited leaves no trace), and the refinement `WorklistImplementsPinLog`: `Finish` is `Bind`, edits and
rebinding are `Release`, the loop stutters.

**`CatalogProofs`.** The inductive invariant (`Safety`) is `IInv` of `Catalog`:

* `TypeOK`, which includes `RegistryContract`: a dict holds what `add` admits, one feature per name
  and version;
* `OwnDict`: registry *r* refers to dict *r*. Without it an addition to one registry could be an
  addition to another, and neither frozen registries nor pins would be safe;
* `PinsAreHeld`: what was pinned is still in the dict of its registry, and the manifest is the one
  `of` makes of it;
* `FileWasPinned`: a whole file at this schema version carries the fields of some pin, and an edit of
  an entry is one of an entry that is there.

`TypeCorrect`, `PinsResolve`, `ReadsArePinned` and, as an action property, `FrozenStaysFrozen`
follow. `EditedReferencesNeverResolve` needs that no feature has the fingerprint `None` and that a
version is part of the fingerprint: a reference whose version was changed can only resolve to a
feature of that version, whose fingerprint then is another. `ServesWhatWasPinned` needs of the
invariant only that features are what `bind_feature` made: its core is `FingerprintTellsFormula`,
that equal fingerprints are of equal formulas although names and parameters look alike.

**`ServingProofs`.** Windowed-recompute parity and its kin, for every catalog, any set of
symbols and any sequence of bars, of every time-series feature of bounded memory at
*every parameter its factory accepts*, where the run has small ones (`Library`: windows of at
least two bars, periods of at least one, a skip no longer than the formation, a lag `q` up to the
window, any order, threshold and length of `frac_diff`). The argument goes up in these steps:

1. *Rows.* What an operation returns on one row, of the values of its operands: it is strict in
   nulls, and no NaN comes of none (`Obeys`), operation by operation.
2. *Columns.* An expression over the bars of one symbol is `Good` for *n* rows, roles *R* and bars
   *T* when five facts hold together: it reads cells of *R* only and takes no null for anything
   else (`Typed`), it is null before *n* rows (`Late`), its value is a function of the *n* bars
   that end there (`Local`), a number stays what it is when a missing bar is delivered
   (`Settled`), and on the bars of *T* it is not NaN (`Tame`). `Assembled` is the lemma for every
   operation at once: a column made of windows of good columns is good, and the rows needed add
   up. None of the five is inductive alone: `Local` of a window of differences needs `Late` to
   tell that both sides are null while they are of different age.
3. *Factories.* One lemma per factory, one step per operation of its expression: the feature is
   what it declares (`Parity`), its roles and `min_history` included.
4. *Frames.* `over(symbol)` evaluates on the history of each symbol; the buffer and the frame are
   histories that agree on the last `min_history` bars (`BufferIsTail`), or have the same few.
5. *Serving.* `ServedInv` is inductive (`AlwaysServed`): of a feature with `Parity`, what was
   served is the batch over *all* bars, then and after every later bar of any symbol.
6. *The theorems.* `LibraryIsServedAsBatch`, `LibraryIsTyped`, `LibraryIsNullBefore`,
   `LibraryImputesNothing`, and `LibraryIsFinite`. The last is of bars with zeros in any price: each
   factory's lemma says which roles it divides bare by (`BareParity`), *T* are the bars without a
   zero of those, and `OwnByAge` and `LastRows` turn the rows a window reads into the last
   `min_history` bars of the symbol. Only the variance ratio whose lag is its window is exempt.
7. *Decaying memory.* What these nine features are served is not the batch's value, but it is
   the value over *some* history of bars of the frame that ends at the bar, either the symbol's
   whole one or one of at least `min_history` bars: `BufferInv`, inductive for a feature of any
   memory. As they are all gated at their declared history (`EwmGated`, factory by factory),
   `DecayingIsNullBefore` follows: the burn-in is served as nulls, at every parameter for which
   it exists within `MaxWarmup`.

**Only model-checked.**

* `NumberFromMinHistory` of `Serving`: that on clean bars a number is there *as soon as* it may be
  depends on the levels of those bars, window by window.
* The invariants of `Serving` for the five features of the cross-section, and but for
  `NullBeforeMinHistory` those for the nine features of decaying memory, which the theorems above
  do not speak of. Of the latter parity is not a matter of definition: it fails on a flat stretch
  (run `series_flat`).
* `BindingEnds`, a liveness property under fairness.

Every other property of a passing run is a theorem.

## 5. What is not modelled

* Floating point: rounding of running sums, the value of a standard deviation, a logarithm or a
  regression. TLC has integers; the models state order, nulls, windows and identity.
* `compute_lazy`, and a lazy source that changes between validation and collection.
* Non-default roles of the feature families (the windows of the run are of two and three bars, those
  of the theorems of any length); winsorizing; the range checks of `_validate_params.py`, which raise before anything is
  built; `Horizon`, `Unit`, `Cost`, citations and the other inert fields of a spec.
* The scalars of a manifest one by one: `from_dict` does not check them, so one setting stands for
  all.
* `get` without a version: a pure lookup (sort by version, take the last) that no other part uses.
* The bars `build_bars` makes of rows with null cells: `TickFrame` says whether the call returns, not
  what.
* `calendar.py` (a constant and a stateless lookup), `references.py` and `recipes.py` (data).
* A null closed marker: `(~closed).any()` ignores it, and nothing in the code says when such a bar
  changes, so `Finalize` revises only bars marked open. A feed that revises null-marked bars is
  outside `StrictValuesAreFinal`.

## 6. Plan

Done, in this order: `BarBuilder` -> `TickBars`, `BarLog` -> `TickFrame` -> `TickBarsProofs` ->
`Contract` -> `PanelFeed` -> `Fingerprint` -> `FingerprintProofs` -> `Expr`, `Features`, `Serving` ->
`Catalog` -> `CatalogProofs` -> `PinLog` -> `OrderLemmas`, `PanelFeedProofs` ->
`BarBuilderProofs`, `TickFrameProofs` -> `ServingProofs`.

Next, most important first:

1. `Pipeline`: `PanelFeed` fed by the closed bars of `TickFrame`, as one machine. Its two halves
   are proved (`AdapterFitsValidate`, `AdapterNeverRevises`); what is left is that the values
   computed from them are final without `STRICT`.
2. An abstract specification of `PanelFeed` under `STRICT`, a gate that only ever publishes
   immutable values, and `StrictIsForGood` as a refinement of it.
3. `NumberFromMinHistory` as a theorem: the levels of clean bars, window by window.
