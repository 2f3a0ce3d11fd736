-------------------------- MODULE PanelFeedProofs ---------------------------
(***************************************************************************)
(* What PanelFeed's runs check on a small instance, proved for every set   *)
(* of calls, symbols, timestamps and bars: the gate of validate is the     *)
(* contract, the audit agrees with it, the modes nest, values are point in *)
(* time, the warm-up hides no null, and what STRICT returned stays.        *)
(***************************************************************************)
EXTENDS PanelFeed, OrderLemmas, SequenceTheorems

BarRow == [symbol : Symbols, timestamp : Timestamps,
           open : Cells, high : Cells, low : Cells, close : Cells,
           bid : Cells, ask : Cells, closed : Cells]

ErrorNames == {"ValueError", "SabiaValidationError", "ColumnNotFoundError", "KeyError"}

-----------------------------------------------------------------------------
(* The inductive invariant. *)

FrameIsTyped ==
  /\ call \in Calls
  /\ rows \in Seq(BarRow)
  /\ Len(rows) <= MaxRows(call)

(* The outcome is of the frame as it stands, and so is a result. *)
OutcomeIsOfRows ==
  outcome # "none" =>
    IF ErrorOf(call, rows) = "none"
    THEN outcome = "result" /\ published = Result(call, rows)
    ELSE outcome = ErrorOf(call, rows)

(* A result is no longer than the frame, and its ranks are percentiles, of  *)
(* the frame it was computed from, which may have changed since.            *)
IsPercentile(value) == 0 < value[1] /\ value[1] <= value[2]
PublishedFits ==
  /\ Len(published) \in 0..Len(rows) /\ DOMAIN published = 1..Len(published)
  /\ \A i \in DOMAIN published : \A k \in DOMAIN call.features :
       LET value == published[i][call.features[k].name]
       IN  value # << >> /\ call.features[k].signal => IsPercentile(value)

(* What STRICT returned is the result of the first rows as they are now:    *)
(* none of them was open, so none was revised.                              *)
Strict == call.mode = "STRICT" /\ call.closed_col /\ Has(call, "closed")
StrictRowsStay ==
  Strict /\ published # << >> =>
    LET kept == SubSeq(rows, 1, Len(published))
    IN  ErrorOf(call, kept) = "none" /\ published = Result(call, kept)

PanelInv ==
  FrameIsTyped /\ OutcomeIsOfRows /\ PublishedFits /\ StrictRowsStay

-----------------------------------------------------------------------------
(* What raises, as one condition.                                           *)

(* Min of indices is one of them. *)
LEMMA LeastIndex ==
  ASSUME NEW S, S \subseteq Nat, S # {}
  PROVE  Min(S) \in S
<1>1. \E x \in S : \A y \in S : x <= y
  BY LeastNatural
<1> QED BY <1>1 DEF Min

(* Max of finitely many indices is the last of them. *)
LEMMA LastIndex ==
  ASSUME NEW S, S \subseteq Int, IsFiniteSet(S), S # {}
  PROVE  Max(S) \in S /\ \A x \in S : x <= Max(S)
<1>1. \E m \in S : \A x \in S : x <= m
  BY GreatestOfFinite
<1>2. \E m \in S : \A x \in S : m >= x
  BY <1>1
<1>3. Max(S) \in S /\ \A x \in S : Max(S) >= x
  BY <1>2 DEF Max
<1> QED BY <1>3

(* validate passes a frame exactly when no check raises. *)
LEMMA ValidatePasses ==
  ASSUME NEW c, NEW rs, c.mode # "OFF"
  PROVE  Validate(c, rs) = "ok" <=> \A k \in 1..10 : ~ Raises(c, rs, Checks[k])
<1> PICK raised : raised = {k \in DOMAIN Checks : Raises(c, rs, Checks[k])}
  OBVIOUS
<1>1. DOMAIN Checks = 1..10
  BY DEF Checks
<1>2. Validate(c, rs) = IF raised = {} THEN "ok" ELSE Checks[Min(raised)]
  BY DEF Validate
<1>3. raised # {} => Min(raised) \in 1..10
  <2>1. raised \subseteq Nat
    BY <1>1
  <2> QED BY <2>1, <1>1, LeastIndex
<1>4. \A k \in 1..10 : Checks[k] # "ok"
  BY DEF Checks
<1> QED BY <1>1, <1>2, <1>3, <1>4

(* Check by check. *)
HardChecksPass(c, rs) ==
  /\ ~ TimestampViolated(c) /\ ~ RolesViolated(c) /\ ~ SymbolViolated(c)
  /\ ~ OrderViolated(c, rs) /\ ~ OhlcViolated(c, rs) /\ ~ QuotesViolated(c, rs)
  /\ CompletePanel(c) => IsPanel(c) /\ ~ MembershipViolated(c)
SoftChecksPass(c, rs) ==
  ~ FinalViolated(c, rs) /\ ~ (CompletePanel(c) /\ Incomplete(c, rs))

(* Every mode but OFF makes the hard checks, and STRICT the soft ones.      *)
LEMMA ChecksOfModes ==
  ASSUME NEW c, NEW rs, c.mode # "OFF"
  PROVE  Validate(c, rs) = "ok" <=>
           HardChecksPass(c, rs) /\ (c.mode = "STRICT" => SoftChecksPass(c, rs))
<1>1. Validate(c, rs) = "ok" <=> \A k \in 1..10 : ~ Raises(c, rs, Checks[k])
  BY ValidatePasses
<1>2. /\ Checks[1] = "timestamp" /\ Checks[2] = "roles" /\ Checks[3] = "symbol"
      /\ Checks[4] = "order" /\ Checks[5] = "ohlc" /\ Checks[6] = "quotes"
      /\ Checks[7] = "final" /\ Checks[8] = "not_panel" /\ Checks[9] = "membership"
      /\ Checks[10] = "panel"
  BY DEF Checks
<1>3. /\ Raises(c, rs, "timestamp") <=> TimestampViolated(c)
      /\ Raises(c, rs, "roles") <=> RolesViolated(c)
      /\ Raises(c, rs, "symbol") <=> SymbolViolated(c)
  BY DEF Raises, Violated, SoftChecks, TimestampViolated, RolesViolated, SymbolViolated
<1>4. /\ Raises(c, rs, "order") <=> OrderViolated(c, rs)
      /\ Raises(c, rs, "ohlc") <=> OhlcViolated(c, rs)
      /\ Raises(c, rs, "quotes") <=> QuotesViolated(c, rs)
  BY DEF Raises, Violated, SoftChecks, OrderViolated, OhlcViolated, QuotesViolated
<1>5. /\ Raises(c, rs, "not_panel") <=> CompletePanel(c) /\ ~ IsPanel(c)
      /\ Raises(c, rs, "membership") <=> CompletePanel(c) /\ MembershipViolated(c)
  BY DEF Raises, Violated, SoftChecks, MembershipViolated
<1>6. /\ Raises(c, rs, "final") <=> FinalViolated(c, rs) /\ c.mode = "STRICT"
      /\ Raises(c, rs, "panel") <=>
           CompletePanel(c) /\ Incomplete(c, rs) /\ c.mode = "STRICT"
  BY DEF Raises, Violated, SoftChecks, FinalViolated
<1>7. (\A k \in 1..10 : ~ Raises(c, rs, Checks[k])) <=>
        /\ ~ Raises(c, rs, "timestamp") /\ ~ Raises(c, rs, "roles")
        /\ ~ Raises(c, rs, "symbol") /\ ~ Raises(c, rs, "order")
        /\ ~ Raises(c, rs, "ohlc") /\ ~ Raises(c, rs, "quotes")
        /\ ~ Raises(c, rs, "final") /\ ~ Raises(c, rs, "not_panel")
        /\ ~ Raises(c, rs, "membership") /\ ~ Raises(c, rs, "panel")
  <2>1. 1..10 = {1, 2, 3, 4, 5, 6, 7, 8, 9, 10}
    OBVIOUS
  <2> QED BY ONLY <2>1, <1>2
<1> QED BY <1>1, <1>3, <1>4, <1>5, <1>6, <1>7 DEF HardChecksPass, SoftChecksPass

(* Selecting raises exactly when a feature's columns are not to be had.     *)
LEMMA SelectPasses ==
  ASSUME NEW c
  PROVE  SelectError(c) = "none" <=>
           \A k \in DOMAIN c.features :
             ~ Undeclared(c, c.features[k]) /\ ~ Absent(c, c.features[k])
  BY DEF SelectError

(* And so does compute as a whole. *)
LEMMA ComputePasses ==
  ASSUME NEW c, NEW rs
  PROVE  ErrorOf(c, rs) = "none" <=>
           /\ ~ NamesCollide(c)
           /\ c.mode # "OFF" => ~ UniverseMissing(c)
           /\ Validate(c, rs) = "ok"
           /\ SelectError(c) = "none"
<1>1. OhlcError(c, rs) # "none"
  BY DEF OhlcError
<1> QED BY <1>1 DEF ErrorOf

(* The kinds of error. *)
LEMMA ErrorKinds ==
  ASSUME NEW c, NEW rs
  PROVE  ErrorOf(c, rs) \in ErrorNames \cup {"none"}
<1>1. OhlcError(c, rs) \in ErrorNames
  BY DEF OhlcError, ErrorNames
<1>2. SelectError(c) \in ErrorNames \cup {"none"}
  BY DEF SelectError, ErrorNames
<1> QED BY <1>1, <1>2 DEF ErrorOf, ErrorNames

-----------------------------------------------------------------------------
(* What a result holds.                                                     *)

(* The cells of a row. *)
LEMMA RowColumns ==
  ASSUME NEW rs \in Seq(BarRow), NEW i \in DOMAIN rs
  PROVE  /\ rs[i] \in BarRow /\ rs[i].symbol \in Symbols
         /\ rs[i].timestamp \in Timestamps /\ rs[i].timestamp \in Int
         /\ rs[i].close \in Int
<1>1. rs[i] \in BarRow
  BY ONLY rs \in Seq(BarRow), i \in DOMAIN rs
<1>2. Timestamps \subseteq Int /\ Cells \subseteq Int
  BY FeedAssumption DEF Cells, Null
<1> QED BY <1>1, <1>2 DEF BarRow

(* The rows of a symbol up to a row, and how many of them are later. *)
Mine(rs, i) == {j \in 1..i : rs[j].symbol = rs[i].symbol}
Later(rs, i, j) == {m \in Mine(rs, i) : m > j}

(* A shift finds a row of the symbol that so many are later than, or none.  *)
LEMMA ShiftFinds ==
  ASSUME NEW rs \in Seq(BarRow), NEW i \in DOMAIN rs, NEW k
  PROVE  \/ /\ \A j \in Mine(rs, i) : Cardinality(Later(rs, i, j)) # k
            /\ Shifted(rs, i, k) = Null
         \/ \E j \in Mine(rs, i) : /\ Cardinality(Later(rs, i, j)) = k
                                   /\ Shifted(rs, i, k) = rs[j].close
<1> PICK back : back = {j \in Mine(rs, i) : Cardinality(Later(rs, i, j)) = k}
  OBVIOUS
<1>1. Shifted(rs, i, k) = IF back = {} THEN Null ELSE rs[Max(back)].close
  BY DEF Shifted, Mine, Later
<1>2. CASE back = {}
  BY <1>1, <1>2
<1>3. CASE back # {}
  <2>1. i \in Nat
    BY ONLY rs \in Seq(BarRow), i \in DOMAIN rs
  <2>2. back \subseteq 1..i /\ back \subseteq Int
    BY <2>1 DEF Mine
  <2>3. IsFiniteSet(1..i)
    BY <2>1, IntervalCount
  <2>4. IsFiniteSet(back)
    BY <2>2, <2>3, FS_Subset
  <2>5. Max(back) \in back
    BY <1>3, <2>2, <2>4, LastIndex
  <2> QED BY <1>1, <1>3, <2>5
<1> QED BY <1>2, <1>3

(* So a shift is a cell. *)
LEMMA ShiftIsCell ==
  ASSUME NEW rs \in Seq(BarRow), NEW i \in DOMAIN rs, NEW k
  PROVE  Shifted(rs, i, k) \in Int
<1>1. i \in 1..Len(rs) /\ DOMAIN rs = 1..Len(rs) /\ Len(rs) \in Nat
  BY ONLY rs \in Seq(BarRow), i \in DOMAIN rs
<1>2. \A j \in Mine(rs, i) : rs[j].close \in Int
  BY <1>1, RowColumns DEF Mine
<1> QED BY <1>2, ShiftFinds DEF Null

(* And a ratio is a pair of them, or null. *)
LEMMA RatioType ==
  ASSUME NEW rs \in Seq(BarRow), NEW i \in DOMAIN rs, NEW f
  PROVE  Ratio(rs, i, f) = << >> \/ Ratio(rs, i, f) \in Int \X Int
  BY ShiftIsCell DEF Ratio

(* A rank among finitely many is a percentile.                              *)
LEMMA RankIsPercentile ==
  ASSUME NEW peers, IsFiniteSet(peers), NEW signal, NEW i \in peers, signal[i] # << >>,
         \A j \in peers : signal[j] = << >> \/ signal[j] \in Int \X Int
  PROVE  RankAmong(signal, peers, i) # << >> /\ IsPercentile(RankAmong(signal, peers, i))
<1> PICK valid : valid = {j \in peers : signal[j] # << >>}
  OBVIOUS
<1> PICK low : low = {j \in valid : Less(signal[j], signal[i])}
  OBVIOUS
<1> PICK tied : tied = {j \in valid : Same(signal[j], signal[i])}
  OBVIOUS
<1>1. RankAmong(signal, peers, i)
        = <<2 * Cardinality(low) + Cardinality(tied) + 1, 2 * Cardinality(valid)>>
  BY DEF RankAmong
<1>2. IsFiniteSet(valid) /\ IsFiniteSet(low) /\ IsFiniteSet(tied)
  <2>1. valid \in SUBSET peers /\ low \in SUBSET peers /\ tied \in SUBSET peers
    OBVIOUS
  <2> QED BY <2>1, FS_Subset
<1>3. i \in tied
  BY DEF Same
<1>4. low \cap tied = {}
  <2> SUFFICES ASSUME NEW j \in valid, Less(signal[j], signal[i]), Same(signal[j], signal[i])
               PROVE  FALSE
    OBVIOUS
  <2>1. signal[j] \in Int \X Int /\ signal[i] \in Int \X Int
    OBVIOUS
  <2>2. PICK x : x = signal[j][1] * signal[i][2]
    OBVIOUS
  <2>3. x \in Int
    BY <2>1, <2>2
  <2>4. x < x
    BY <2>2 DEF Less, Same
  <2> QED BY ONLY <2>3, <2>4
<1>5. Cardinality(low \cup tied) = Cardinality(low) + Cardinality(tied)
  <2>1. Cardinality(low \cup tied)
          = Cardinality(low) + Cardinality(tied) - Cardinality(low \cap tied)
    BY <1>2, FS_Union
  <2>2. Cardinality(low \cap tied) = 0
    BY <1>4, FS_EmptySet
  <2>3. Cardinality(low) \in Nat /\ Cardinality(tied) \in Nat
    BY <1>2, FS_CardinalityType
  <2> QED BY ONLY <2>1, <2>2, <2>3
<1>6. Cardinality(low \cup tied) <= Cardinality(valid)
  <2>1. (low \cup tied) \in SUBSET valid
    OBVIOUS
  <2> QED BY <2>1, <1>2, FS_Subset
<1>7. Cardinality(tied) >= 1
  <2>1. Cardinality(tied) # 0 /\ Cardinality(tied) \in Nat
    BY <1>2, <1>3, FS_EmptySet, FS_CardinalityType
  <2> QED BY <2>1
<1>8. Cardinality(low) \in Nat /\ Cardinality(tied) \in Nat /\ Cardinality(valid) \in Nat
  BY <1>2, FS_CardinalityType
<1>9. /\ 0 < 2 * Cardinality(low) + Cardinality(tied) + 1
      /\ 2 * Cardinality(low) + Cardinality(tied) + 1 <= 2 * Cardinality(valid)
  BY ONLY <1>5, <1>6, <1>7, <1>8
<1>10. RankAmong(signal, peers, i)[1] = 2 * Cardinality(low) + Cardinality(tied) + 1
       /\ RankAmong(signal, peers, i)[2] = 2 * Cardinality(valid)
  BY <1>1
<1> QED BY <1>1, <1>9, <1>10 DEF IsPercentile

(* The peers of a row are finitely many, and it is one of them. *)
LEMMA PeersAreFinite ==
  ASSUME NEW rs \in Seq(BarRow), NEW i \in DOMAIN rs
  PROVE  /\ IsFiniteSet(Peers(rs, i)) /\ i \in Peers(rs, i)
         /\ Peers(rs, i) \subseteq DOMAIN rs
<1>1. DOMAIN rs = 1..Len(rs) /\ Len(rs) \in Nat
  BY ONLY rs \in Seq(BarRow)
<1>2. IsFiniteSet(1..Len(rs))
  BY <1>1, IntervalCount
<1>3. Peers(rs, i) \in SUBSET (1..Len(rs)) /\ i \in Peers(rs, i)
  BY <1>1 DEF Peers
<1> QED BY <1>1, <1>2, <1>3, FS_Subset

(* When no two features have one name, a result has each one's column.      *)
LEMMA ResultValue ==
  ASSUME NEW c, ~ NamesCollide(c), NEW k \in DOMAIN c.features,
         NEW rs, NEW i \in DOMAIN rs
  PROVE  Result(c, rs)[i][c.features[k].name] = Column(rs, c.features[k])[i]
<1> PICK n : n = c.features[k].name
  OBVIOUS
<1> PICK column : column = [l \in DOMAIN c.features |-> Column(rs, c.features[l])]
  OBVIOUS
<1>1. Result(c, rs)[i]
        = [m \in {Names(c)[l] : l \in DOMAIN c.features} |->
             column[CHOOSE l \in DOMAIN c.features : Names(c)[l] = m][i]]
  BY DEF Result
<1>2. Names(c)[k] = n /\ \A l \in DOMAIN c.features : Names(c)[l] = n => l = k
  BY DEF Names, NamesCollide
<1>3. (CHOOSE l \in DOMAIN c.features : Names(c)[l] = n) = k
  BY <1>2
<1>4. n \in {Names(c)[l] : l \in DOMAIN c.features}
  BY <1>2
<1>5. Result(c, rs)[i][n]
        = column[CHOOSE l \in DOMAIN c.features : Names(c)[l] = n][i]
  BY ONLY <1>1, <1>4
<1>6. Result(c, rs)[i][n] = column[k][i]
  BY ONLY <1>3, <1>5
<1> QED BY <1>6

(* The values of a column that compares symbols are percentiles. *)
LEMMA RanksArePercentiles ==
  ASSUME NEW rs \in Seq(BarRow), NEW i \in DOMAIN rs, NEW f, f.signal,
         Column(rs, f)[i] # << >>
  PROVE  IsPercentile(Column(rs, f)[i])
<1> PICK signal : signal = [j \in DOMAIN rs |-> Ratio(rs, j, f)]
  OBVIOUS
<1> PICK peers : peers = Peers(rs, i)
  OBVIOUS
<1>1. Column(rs, f)[i] = RankAmong(signal, peers, i)
  BY DEF Column
<1>2. signal[i] # << >>
  BY <1>1 DEF RankAmong
<1>3. IsFiniteSet(peers) /\ i \in peers /\ peers \subseteq DOMAIN rs
  BY PeersAreFinite
<1>4. \A j \in peers : signal[j] = << >> \/ signal[j] \in Int \X Int
  <2> SUFFICES ASSUME NEW j \in peers
               PROVE  signal[j] = << >> \/ signal[j] \in Int \X Int
    OBVIOUS
  <2>1. j \in DOMAIN rs /\ signal[j] = Ratio(rs, j, f)
    BY <1>3
  <2> QED BY <2>1, RatioType
<1>5. IsPercentile(RankAmong(signal, peers, i))
  BY ONLY <1>2, <1>3, <1>4, RankIsPercentile
<1> QED BY <1>1, <1>5

(* A result has a value for each row. *)
LEMMA ResultShape ==
  ASSUME NEW c, NEW rs \in Seq(BarRow)
  PROVE  Len(Result(c, rs)) = Len(rs) /\ DOMAIN Result(c, rs) = 1..Len(rs)
<1> PICK res : res = Result(c, rs)
  OBVIOUS
<1> PICK n : n = Len(rs)
  OBVIOUS
<1>1. n \in Nat /\ DOMAIN rs = 1..n
  BY ONLY rs \in Seq(BarRow), n = Len(rs)
<1> PICK S : S = {res[i] : i \in 1..n}
  OBVIOUS
<1>2. res \in [1..n -> S]
  BY <1>1 DEF Result
<1>3. res \in Seq(S) /\ DOMAIN res = 1..n
  BY ONLY <1>1, <1>2, SeqDef
<1>4. Len(res) \in Nat /\ DOMAIN res = 1..Len(res)
  BY ONLY <1>3, LenProperties
<1>5. Len(res) = n
  <2> PICK l : l = Len(res)
    OBVIOUS
  <2>1. 1..l = 1..n /\ l \in Nat
    BY <1>3, <1>4
  <2> QED BY ONLY <2>1, <1>1, l = Len(res)
<1> QED BY <1>3, <1>5

(* The first rows are told by each of them. *)
LEMMA SameFirstRows ==
  ASSUME NEW rs \in Seq(BarRow), NEW more \in Seq(BarRow),
         NEW n \in Nat, n <= Len(rs), n <= Len(more), \A j \in 1..n : rs[j] = more[j]
  PROVE  SubSeq(rs, 1, n) = SubSeq(more, 1, n)
<1>1. \A j \in 1..n : rs[j] \in BarRow /\ more[j] \in BarRow
  BY ONLY rs \in Seq(BarRow), more \in Seq(BarRow), n \in Nat, n <= Len(rs), n <= Len(more)
<1>2. /\ SubSeq(rs, 1, n) \in Seq(BarRow)
      /\ Len(SubSeq(rs, 1, n)) = n
      /\ \A j \in 1..n : SubSeq(rs, 1, n)[j] = rs[j]
  <2>1. /\ SubSeq(rs, 1, n) \in Seq(BarRow)
        /\ Len(SubSeq(rs, 1, n)) = IF 1 <= n THEN n - 1 + 1 ELSE 0
        /\ \A j \in 1..(n - 1 + 1) : SubSeq(rs, 1, n)[j] = rs[1 + j - 1]
    BY <1>1, SubSeqProperties
  <2> QED BY ONLY <2>1, n \in Nat
<1>3. /\ SubSeq(more, 1, n) \in Seq(BarRow)
      /\ Len(SubSeq(more, 1, n)) = n
      /\ \A j \in 1..n : SubSeq(more, 1, n)[j] = more[j]
  <2>1. /\ SubSeq(more, 1, n) \in Seq(BarRow)
        /\ Len(SubSeq(more, 1, n)) = IF 1 <= n THEN n - 1 + 1 ELSE 0
        /\ \A j \in 1..(n - 1 + 1) : SubSeq(more, 1, n)[j] = more[1 + j - 1]
    BY <1>1, SubSeqProperties
  <2> QED BY ONLY <2>1, n \in Nat
<1> QED BY <1>2, <1>3, SeqEqual

(* The rows STRICT passed are none of them open.                            *)
LEMMA StrictRowsAreClosed ==
  ASSUME NEW c \in Calls, c.mode = "STRICT", c.closed_col, Has(c, "closed"),
         NEW rs, ErrorOf(c, rs) = "none"
  PROVE  \A j \in DOMAIN rs : ~ NotFinal(rs[j])
<1>1. Validate(c, rs) = "ok"
  BY ComputePasses
<1>2. ~ FinalViolated(c, rs)
  BY <1>1, ChecksOfModes DEF SoftChecksPass
<1> QED BY <1>2 DEF FinalViolated

-----------------------------------------------------------------------------
(* It is inductive. *)

(* A bar that arrives makes a row. *)
LEMMA RowIsTyped ==
  ASSUME NEW c \in Calls, NEW s \in Symbols, NEW t \in Timestamps, NEW bar \in Bars(c)
  PROVE  Row(s, t, bar) \in BarRow
<1>1. bar \in [open : Cells, high : Cells, low : Cells, close : Cells,
               bid : Cells, ask : Cells, closed : Cells]
  BY FeedAssumption
<1> QED BY <1>1 DEF Row, BarRow

(* An empty frame satisfies the invariant. *)
LEMMA PanelInit == Init => PanelInv
<1> SUFFICES ASSUME Init PROVE PanelInv
  OBVIOUS
<1>1. rows = << >> /\ published = << >> /\ outcome = "none" /\ call \in Calls
  BY DEF Init
<1>2. << >> \in Seq(BarRow) /\ Len(<< >>) = 0 /\ DOMAIN << >> = 1..0
  OBVIOUS
<1>3. MaxRows(call) \in Nat
  BY <1>1, FeedAssumption
<1>4. FrameIsTyped
  BY <1>1, <1>2, <1>3 DEF FrameIsTyped
<1>5. OutcomeIsOfRows
  BY <1>1 DEF OutcomeIsOfRows
<1>6. PublishedFits
  <2>1. Len(published) = 0 /\ Len(rows) = 0 /\ DOMAIN published = 1..0
    BY <1>1, <1>2
  <2>2. DOMAIN published = {} /\ 0 \in 0..0
    BY <2>1
  <2> QED BY <2>1, <2>2 DEF PublishedFits
<1>7. StrictRowsStay
  BY <1>1 DEF StrictRowsStay
<1> QED BY <1>4, <1>5, <1>6, <1>7 DEF PanelInv

(* A step that only changes rows after the published ones keeps the two     *)
(* facts about what was published.                                          *)
LEMMA PublishedStays ==
  ASSUME PanelInv, UNCHANGED <<call, published>>, rows' \in Seq(BarRow),
         Len(rows) <= Len(rows'),
         Strict /\ published # << >> => \A j \in 1..Len(published) : rows'[j] = rows[j]
  PROVE  PublishedFits' /\ StrictRowsStay'
<1>1. rows \in Seq(BarRow) /\ Len(rows) \in Nat /\ Len(rows') \in Nat
      /\ Len(published) \in 0..Len(rows)
  BY DEF PanelInv, FrameIsTyped, PublishedFits
<1>2. PublishedFits'
  BY <1>1 DEF PanelInv, PublishedFits, IsPercentile
<1>3. StrictRowsStay'
  <2> SUFFICES ASSUME Strict, published # << >>
               PROVE  SubSeq(rows', 1, Len(published)) = SubSeq(rows, 1, Len(published))
    BY DEF PanelInv, StrictRowsStay, Strict
  <2>1. /\ rows \in Seq(BarRow) /\ rows' \in Seq(BarRow) /\ Len(published) \in Nat
        /\ Len(published) <= Len(rows) /\ Len(published) <= Len(rows')
        /\ \A j \in 1..Len(published) : rows'[j] = rows[j]
    BY <1>1
  <2> QED BY ONLY <2>1, SameFirstRows
<1> QED BY <1>2, <1>3

(* A bar that arrives comes after the rows that were published. *)
LEMMA ArriveKeepsInv ==
  ASSUME PanelInv, NEW s \in Symbols, NEW t \in Timestamps, NEW bar \in Bars(call),
         Arrive(s, t, bar)
  PROVE  PanelInv'
<1> PICK row : row = Row(s, t, bar)
  OBVIOUS
<1>1. /\ call \in Calls /\ rows \in Seq(BarRow) /\ Len(rows) < MaxRows(call)
      /\ rows' = Append(rows, row) /\ outcome' = "none"
      /\ call' = call /\ published' = published
  BY DEF PanelInv, FrameIsTyped, Arrive
<1>2. row \in BarRow
  BY <1>1, RowIsTyped
<1>3. /\ rows' \in Seq(BarRow) /\ Len(rows') = Len(rows) + 1 /\ Len(rows) \in Nat
      /\ \A j \in 1..Len(rows) : rows'[j] = rows[j]
  BY <1>1, <1>2, AppendProperties
<1>4. FrameIsTyped'
  <2>1. MaxRows(call) \in Nat
    BY <1>1, FeedAssumption
  <2> QED BY <2>1, <1>1, <1>3 DEF FrameIsTyped
<1>5. OutcomeIsOfRows'
  BY <1>1 DEF OutcomeIsOfRows
<1>6. \A j \in 1..Len(published) : rows'[j] = rows[j]
  BY <1>3 DEF PanelInv, PublishedFits
<1>7. PublishedFits' /\ StrictRowsStay'
  <2>1. Len(rows) <= Len(rows') /\ UNCHANGED <<call, published>>
    BY <1>1, <1>3
  <2> QED BY ONLY PanelInv, <1>3, <1>6, <2>1, PublishedStays
<1> QED BY <1>4, <1>5, <1>7 DEF PanelInv

(* An open bar that is revised is not one a strict call accepted. *)
LEMMA FinalizeKeepsInv ==
  ASSUME PanelInv, NEW i \in DOMAIN rows, NEW bar \in Bars(call), Finalize(i, bar)
  PROVE  PanelInv'
<1> PICK row : row = Row(rows[i].symbol, rows[i].timestamp, bar)
  OBVIOUS
<1>1. /\ call \in Calls /\ rows \in Seq(BarRow) /\ Len(rows) <= MaxRows(call)
      /\ NotFinal(rows[i]) /\ rows' = [rows EXCEPT ![i] = row] /\ outcome' = "none"
      /\ call' = call /\ published' = published
  BY DEF PanelInv, FrameIsTyped, Finalize
<1>2. i \in 1..Len(rows) /\ Len(rows) \in Nat
  BY <1>1
<1>3. row \in BarRow
  <2>1. rows[i].symbol \in Symbols /\ rows[i].timestamp \in Timestamps
    BY <1>1, RowColumns
  <2> QED BY <2>1, <1>1, RowIsTyped
<1>4. /\ rows' \in Seq(BarRow) /\ Len(rows') = Len(rows)
      /\ \A j \in 1..Len(rows) : rows'[j] = IF j = i THEN row ELSE rows[j]
  BY <1>1, <1>2, <1>3, ExceptSeq
<1>5. FrameIsTyped'
  BY <1>1, <1>4 DEF FrameIsTyped
<1>6. OutcomeIsOfRows'
  BY <1>1 DEF OutcomeIsOfRows
<1>7. ASSUME Strict, published # << >>
      PROVE  \A j \in 1..Len(published) : rows'[j] = rows[j]
  <2> PICK n : n = Len(published)
    OBVIOUS
  <2> PICK kept : kept = SubSeq(rows, 1, n)
    OBVIOUS
  <2>1. n \in Nat /\ n <= Len(rows) /\ ErrorOf(call, kept) = "none"
    BY <1>2, <1>7 DEF PanelInv, PublishedFits, StrictRowsStay
  <2>2. \A j \in DOMAIN kept : ~ NotFinal(kept[j])
    BY <1>1, <1>7, <2>1, StrictRowsAreClosed DEF Strict
  <2>3. DOMAIN kept = 1..n /\ \A j \in 1..n : kept[j] = rows[j]
    <3>1. \A j \in 1..n : rows[j] \in BarRow
      BY ONLY <1>1, <1>2, <2>1
    <3>2. /\ kept \in Seq(BarRow)
          /\ Len(kept) = IF 1 <= n THEN n - 1 + 1 ELSE 0
          /\ \A j \in 1..(n - 1 + 1) : kept[j] = rows[1 + j - 1]
      BY <3>1, <2>1, SubSeqProperties
    <3> QED BY ONLY <3>2, <2>1, LenProperties
  <2>4. i \notin 1..n
    BY <2>2, <2>3, <1>1
  <2> QED BY <1>4, <2>1, <2>4
<1>8. PublishedFits' /\ StrictRowsStay'
  <2>1. Len(rows) <= Len(rows')
    BY <1>2, <1>4
  <2> QED BY <1>1, <1>4, <1>7, <2>1, PublishedStays
<1> QED BY <1>5, <1>6, <1>8 DEF PanelInv

(* compute answers from the rows as they stand, or raises. *)
LEMMA ComputeKeepsInv ==
  ASSUME PanelInv, Compute
  PROVE  PanelInv'
<1>1. /\ call \in Calls /\ rows \in Seq(BarRow) /\ Len(rows) \in Nat
      /\ call' = call /\ rows' = rows
  BY DEF PanelInv, FrameIsTyped, Compute
<1>2. FrameIsTyped'
  BY <1>1 DEF PanelInv, FrameIsTyped
<1>3. OutcomeIsOfRows'
  BY <1>1 DEF Compute, OutcomeIsOfRows
<1>4. CASE ErrorOf(call, rows) # "none"
  <2>1. published' = published
    BY <1>4 DEF Compute
  <2>2. PublishedFits' /\ StrictRowsStay'
    BY <1>1, <2>1, PublishedStays
  <2> QED BY <1>2, <1>3, <2>2 DEF PanelInv
<1>5. CASE ErrorOf(call, rows) = "none"
  <2>1. published' = Result(call, rows)
    BY <1>5 DEF Compute
  <2>2. Len(published') = Len(rows) /\ DOMAIN published' = 1..Len(rows)
        /\ DOMAIN rows = 1..Len(rows)
    BY <1>1, <2>1, ResultShape
  <2>3. ASSUME NEW i \in 1..Len(rows), NEW k \in DOMAIN call.features,
               published'[i][call.features[k].name] # << >>, call.features[k].signal
        PROVE  IsPercentile(published'[i][call.features[k].name])
    <3>1. ~ NamesCollide(call)
      BY <1>1, <1>5, ComputePasses
    <3>2. published'[i][call.features[k].name] = Column(rows, call.features[k])[i]
      BY <3>1, <2>1, <2>2, ResultValue
    <3> QED BY <3>2, <2>2, <2>3, <1>1, RanksArePercentiles
  <2>4. PublishedFits'
    <3>1. Len(published') \in 0..Len(rows')
      BY <1>1, <2>2
    <3> QED BY <1>1, <2>2, <2>3, <3>1 DEF PublishedFits
  <2>5. SubSeq(rows, 1, Len(rows)) = rows
    BY <1>1, SubSeqFull
  <2>6. StrictRowsStay'
    BY <1>1, <1>5, <2>1, <2>2, <2>5 DEF StrictRowsStay
  <2> QED BY <1>2, <1>3, <2>4, <2>6 DEF PanelInv
<1> QED BY <1>4, <1>5

(* PanelFeed (sabia.compute over a growing frame): the frame is typed, the  *)
(* last outcome is what compute makes of the frame as it stands, ranks are  *)
(* percentiles, and what STRICT returned still is the result of its rows.   *)
THEOREM PanelInductive == Spec => []PanelInv
<1>1. PanelInv /\ [Next]_vars => PanelInv'
  <2> SUFFICES ASSUME PanelInv, [Next]_vars PROVE PanelInv'
    OBVIOUS
  <2>1. CASE \E s \in Symbols, t \in Timestamps, bar \in Bars(call) : Arrive(s, t, bar)
    BY <2>1, ArriveKeepsInv
  <2>2. CASE \E i \in DOMAIN rows : \E bar \in Bars(call) : Finalize(i, bar)
    BY <2>2, FinalizeKeepsInv
  <2>3. CASE Compute
    BY <2>3, ComputeKeepsInv
  <2>4. CASE UNCHANGED vars
    BY <2>4 DEF vars, PanelInv, FrameIsTyped, OutcomeIsOfRows, PublishedFits,
                StrictRowsStay, Strict
  <2> QED BY <2>1, <2>2, <2>3, <2>4 DEF Next
<1> QED BY PanelInit, <1>1, PTL DEF Spec

(* PanelFeed's TypeOK: every variable has its type, and every rank ever     *)
(* returned (cross_sectional._xs_rank_reduce) is in (0, 1].                 *)
THEOREM PanelTypeCorrect == Spec => []TypeOK
<1>1. PanelInv => TypeOK
  <2> SUFFICES ASSUME PanelInv PROVE TypeOK
    OBVIOUS
  <2>1. call \in Calls /\ rows \in Seq(BarRow) /\ Len(rows) <= MaxRows(call)
    BY DEF PanelInv, FrameIsTyped
  <2>2. \A i \in DOMAIN rows :
          rows[i].symbol \in Symbols /\ rows[i].timestamp \in Timestamps
    BY <2>1, RowColumns
  <2>3. outcome \in {"none", "result", "ValueError", "SabiaValidationError",
                     "ColumnNotFoundError", "KeyError"}
    BY ErrorKinds DEF PanelInv, OutcomeIsOfRows, ErrorNames
  <2>4. Len(published) <= Len(rows)
    BY <2>1 DEF PanelInv, PublishedFits
  <2>5. \A i \in DOMAIN published : \A k \in DOMAIN call.features :
          LET value == published[i][call.features[k].name]
          IN  value # << >> /\ call.features[k].signal =>
                0 < value[1] /\ value[1] <= value[2]
    BY DEF PanelInv, PublishedFits, IsPercentile
  <2> QED BY <2>1, <2>2, <2>3, <2>4, <2>5 DEF TypeOK
<1> QED BY <1>1, PanelInductive, PTL

-----------------------------------------------------------------------------
(* The modes.                                                               *)

(* What the checks and the selection read of a call: all but its mode.      *)
SameButMode(c, d) ==
  /\ c.cols = d.cols /\ c.roles = d.roles /\ c.closed_col = d.closed_col
  /\ c.features = d.features /\ c.universe = d.universe /\ c.membership = d.membership

(* Another mode is the same call otherwise. *)
LEMMA OtherMode ==
  ASSUME NEW c \in Calls, NEW m
  PROVE  SameButMode(c, [c EXCEPT !.mode = m]) /\ [c EXCEPT !.mode = m].mode = m
  BY CallsAssumption DEF SameButMode

(* They read its columns and roles alike, *)
LEMMA SameColumns ==
  ASSUME NEW c, NEW d, SameButMode(c, d)
  PROVE  /\ \A column : Has(c, column) <=> Has(d, column)
         /\ IsPanel(c) <=> IsPanel(d)
         /\ CompletePanel(c) <=> CompletePanel(d)
         /\ DeclaredRoles(c) = DeclaredRoles(d) /\ RequiredRoles(c) = RequiredRoles(d)
         /\ \A role : ColumnOf(c, role) = ColumnOf(d, role)
         /\ \A basis : OhlcColumns(c, basis) = OhlcColumns(d, basis)
         /\ \A basis : ResolvesOhlc(c, basis) <=> ResolvesOhlc(d, basis)
         /\ \A basis : OhlcPresent(c, basis) <=> OhlcPresent(d, basis)
<1>1. \A column : Has(c, column) <=> Has(d, column)
  BY DEF SameButMode, Has
<1>2. DeclaredRoles(c) = DeclaredRoles(d) /\ RequiredRoles(c) = RequiredRoles(d)
  BY DEF SameButMode, DeclaredRoles, RequiredRoles
<1>3. \A role : ColumnOf(c, role) = ColumnOf(d, role)
  BY DEF SameButMode, ColumnOf
<1>4. (IsPanel(c) <=> IsPanel(d)) /\ (CompletePanel(c) <=> CompletePanel(d))
  BY <1>1 DEF SameButMode, IsPanel, CompletePanel
<1>5. \A basis : OhlcColumns(c, basis) = OhlcColumns(d, basis)
  BY <1>3 DEF OhlcColumns
<1>6. /\ \A basis : ResolvesOhlc(c, basis) <=> ResolvesOhlc(d, basis)
      /\ \A basis : OhlcPresent(c, basis) <=> OhlcPresent(d, basis)
  BY <1>1, <1>2, <1>5 DEF ResolvesOhlc, OhlcPresent
<1> QED BY <1>1, <1>2, <1>3, <1>4, <1>5, <1>6

(* and find alike.                                                          *)
LEMMA SameChecks ==
  ASSUME NEW c, NEW d, NEW rs, SameButMode(c, d)
  PROVE  /\ HardChecksPass(c, rs) <=> HardChecksPass(d, rs)
         /\ SoftChecksPass(c, rs) <=> SoftChecksPass(d, rs)
         /\ NamesCollide(c) <=> NamesCollide(d)
         /\ UniverseMissing(c) <=> UniverseMissing(d)
         /\ SelectError(c) = "none" <=> SelectError(d) = "none"
<1>1. /\ TimestampViolated(c) <=> TimestampViolated(d)
      /\ RolesViolated(c) <=> RolesViolated(d)
      /\ SymbolViolated(c) <=> SymbolViolated(d)
  BY SameColumns DEF SameButMode, TimestampViolated, RolesViolated, RoleViolated,
                     SymbolViolated
<1>2. OrderViolated(c, rs) <=> OrderViolated(d, rs)
  <2>1. \A i : Before(c, rs, i) = Before(d, rs, i)
    BY SameColumns DEF Before
  <2> QED BY <2>1 DEF OrderViolated
<1>3. OhlcViolated(c, rs) <=> OhlcViolated(d, rs)
  BY SameColumns DEF OhlcViolated, OhlcRaises
<1>4. QuotesViolated(c, rs) <=> QuotesViolated(d, rs)
  BY SameColumns DEF QuotesViolated
<1>5. FinalViolated(c, rs) <=> FinalViolated(d, rs)
  BY SameColumns DEF SameButMode, FinalViolated
<1>6. Incomplete(c, rs) <=> Incomplete(d, rs)
  BY DEF SameButMode, Incomplete
<1>12. MembershipViolated(c) <=> MembershipViolated(d)
  BY DEF SameButMode, MembershipViolated
<1>7. HardChecksPass(c, rs) <=> HardChecksPass(d, rs)
  BY <1>12, <1>1, <1>2, <1>3, <1>4, SameColumns DEF HardChecksPass
<1>8. SoftChecksPass(c, rs) <=> SoftChecksPass(d, rs)
  BY <1>5, <1>6, SameColumns DEF SoftChecksPass
<1>9. (NamesCollide(c) <=> NamesCollide(d)) /\ (UniverseMissing(c) <=> UniverseMissing(d))
  BY DEF SameButMode, NamesCollide, Names, UniverseMissing
<1>10. /\ \A f : Undeclared(c, f) <=> Undeclared(d, f)
       /\ \A f : Absent(c, f) <=> Absent(d, f)
  BY SameColumns DEF Undeclared, Absent, Groups
<1>11. SelectError(c) = "none" <=> SelectError(d) = "none"
  BY <1>10, SelectPasses DEF SameButMode
<1> QED BY <1>7, <1>8, <1>9, <1>11

(* A frame has a warning exactly when RESEARCH forgives it something.       *)
LEMMA WarningsAreSoft ==
  ASSUME NEW c, NEW rs, c.mode = "RESEARCH", Validate(c, rs) = "ok"
  PROVE  Warnings(c, rs) = {} <=> SoftChecksPass(c, rs)
<1>1. Warnings(c, rs) = {check \in {"final", "panel"} : Violated(c, rs, check)}
  BY DEF Warnings, SoftChecks
<1>2. /\ Violated(c, rs, "final") <=> FinalViolated(c, rs)
      /\ Violated(c, rs, "panel") <=> CompletePanel(c) /\ Incomplete(c, rs)
  BY DEF Violated, FinalViolated
<1> QED BY <1>1, <1>2 DEF SoftChecksPass

(* What another mode makes of a frame on which this one selects. *)
LEMMA InAnotherMode ==
  ASSUME NEW c, NEW rs, ~ NamesCollide(c), SelectError(c) = "none",
         NEW d, SameButMode(c, d)
  PROVE  ErrorOf(d, rs) = "none" <=>
           (d.mode # "OFF" => /\ ~ UniverseMissing(c) /\ HardChecksPass(c, rs)
                              /\ d.mode = "STRICT" => SoftChecksPass(c, rs))
<1>2. /\ HardChecksPass(c, rs) <=> HardChecksPass(d, rs)
      /\ SoftChecksPass(c, rs) <=> SoftChecksPass(d, rs)
      /\ ~ NamesCollide(d) /\ (UniverseMissing(c) <=> UniverseMissing(d))
      /\ SelectError(d) = "none"
  BY SameChecks
<1>3. d.mode = "OFF" => Validate(d, rs) = "ok"
  BY DEF Validate
<1>4. d.mode # "OFF" =>
        (Validate(d, rs) = "ok" <=>
           HardChecksPass(d, rs) /\ (d.mode = "STRICT" => SoftChecksPass(d, rs)))
  BY ChecksOfModes
<1> QED BY <1>2, <1>3, <1>4, ComputePasses

(* ModesNest (validate._soft_check): validation withholds and never         *)
(* changes: what STRICT returns RESEARCH returns, what RESEARCH returns OFF *)
(* returns, and RESEARCH warns exactly when STRICT would have raised.       *)
THEOREM ModesAreNested == Spec => []ModesNest
<1>1. PanelInv => ModesNest
  <2> SUFFICES ASSUME PanelInv, Returned PROVE ModesNest
    BY DEF ModesNest
  <2>1. call \in Calls /\ ErrorOf(call, rows) = "none"
    BY ErrorKinds DEF PanelInv, FrameIsTyped, OutcomeIsOfRows, Returned, ErrorNames
  <2>2. /\ ~ NamesCollide(call) /\ (call.mode # "OFF" => ~ UniverseMissing(call))
        /\ Validate(call, rows) = "ok" /\ SelectError(call) = "none"
    BY <2>1, ComputePasses
  <2>3. call.mode # "OFF" =>
          HardChecksPass(call, rows) /\ (call.mode = "STRICT" => SoftChecksPass(call, rows))
    BY <2>2, ChecksOfModes
  <2> PICK research : research = [call EXCEPT !.mode = "RESEARCH"]
    OBVIOUS
  <2> PICK off : off = [call EXCEPT !.mode = "OFF"]
    OBVIOUS
  <2> PICK strict : strict = [call EXCEPT !.mode = "STRICT"]
    OBVIOUS
  <2>4. /\ SameButMode(call, research) /\ research.mode = "RESEARCH"
        /\ SameButMode(call, off) /\ off.mode = "OFF"
        /\ SameButMode(call, strict) /\ strict.mode = "STRICT"
    BY <2>1, OtherMode
  <2>7. /\ ErrorOf(research, rows) = "none"
             <=> ~ UniverseMissing(call) /\ HardChecksPass(call, rows)
        /\ ErrorOf(off, rows) = "none"
        /\ ErrorOf(strict, rows) = "none"
             <=> /\ ~ UniverseMissing(call) /\ HardChecksPass(call, rows)
                 /\ SoftChecksPass(call, rows)
    BY ONLY <2>2, <2>4, InAnotherMode
  <2>5. call.mode = "RESEARCH" => (Warnings(call, rows) = {} <=> SoftChecksPass(call, rows))
    BY <2>2, WarningsAreSoft
  <2>6. /\ call.mode = "STRICT" => ErrorOf(research, rows) = "none"
        /\ call.mode = "RESEARCH" =>
             /\ ErrorOf(off, rows) = "none"
             /\ Warnings(call, rows) = {} <=> ErrorOf(strict, rows) = "none"
    BY <2>2, <2>3, <2>5, <2>7
  <2> QED BY <2>6 DEF ModesNest
<1> QED BY <1>1, PanelInductive, PTL

-----------------------------------------------------------------------------
(* The order of a frame: neighbours for all.                                *)

AllTimed(rs) == \A i \in DOMAIN rs : rs[i].timestamp # Null
Ascending(rs) ==
  \A i, j \in DOMAIN rs :
    i < j /\ rs[i].symbol = rs[j].symbol => rs[i].timestamp < rs[j].timestamp

(* diff() over a panel finds no step that is not positive exactly when the  *)
(* rows of each symbol ascend, neighbours or not.                           *)
LEMMA StepsAreOrder ==
  ASSUME NEW c, IsPanel(c), NEW rs \in Seq(BarRow), AllTimed(rs)
  PROVE  ~ OrderViolated(c, rs) <=> Ascending(rs)
<1> PICK n : n = Len(rs)
  OBVIOUS
<1>1. n \in Nat /\ DOMAIN rs = 1..n
  BY ONLY rs \in Seq(BarRow), n = Len(rs)
<1>2. \A i \in 1..n : rs[i].timestamp \in Int /\ rs[i].timestamp # Null
  BY <1>1, RowColumns DEF AllTimed
<1>3. ASSUME NEW i \in 1..n
      PROVE  /\ Before(c, rs, i) = {j \in 1..(i-1) : rs[j].symbol = rs[i].symbol}
             /\ Before(c, rs, i) # {} =>
                  /\ Max(Before(c, rs, i)) \in Before(c, rs, i)
                  /\ \A j \in Before(c, rs, i) : j <= Max(Before(c, rs, i))
  <2>1. Before(c, rs, i) = {j \in 1..(i-1) : rs[j].symbol = rs[i].symbol}
    BY DEF Before
  <2>2. i - 1 \in Nat
    BY <1>1
  <2>3. IsFiniteSet(1..(i-1))
    BY <2>2, IntervalCount
  <2>4. Before(c, rs, i) \in SUBSET (1..(i-1)) /\ Before(c, rs, i) \subseteq Int
    BY <2>1
  <2>5. IsFiniteSet(Before(c, rs, i))
    BY <2>3, <2>4, FS_Subset
  <2> QED BY <2>1, <2>4, <2>5, LastIndex
<1>4. ASSUME Ascending(rs) PROVE ~ OrderViolated(c, rs)
  <2> SUFFICES ASSUME NEW i \in 1..n, Before(c, rs, i) # {},
                      rs[i].timestamp <= rs[Max(Before(c, rs, i))].timestamp
               PROVE  FALSE
    BY <1>1 DEF OrderViolated
  <2> PICK j : j = Max(Before(c, rs, i))
    OBVIOUS
  <2>1. j \in 1..(i-1) /\ rs[j].symbol = rs[i].symbol
    BY <1>3
  <2>2. j \in 1..n /\ j < i
    BY <1>1, <2>1
  <2>3. rs[j].timestamp < rs[i].timestamp
    BY <1>4, <1>1, <2>1, <2>2 DEF Ascending
  <2>4. rs[j].timestamp \in Int /\ rs[i].timestamp \in Int
    BY <1>2, <2>2
  <2> QED BY <2>3, <2>4
<1>5. ASSUME ~ OrderViolated(c, rs) PROVE Ascending(rs)
  <2> PICK bad : bad = {j \in 1..n : \E i \in 1..n :
                          /\ i < j /\ rs[i].symbol = rs[j].symbol
                          /\ ~ (rs[i].timestamp < rs[j].timestamp)}
    OBVIOUS
  <2> SUFFICES ASSUME bad # {} PROVE FALSE
    BY <1>1 DEF Ascending
  <2>1. bad \subseteq Nat
    BY <1>1
  <2>2. PICK j \in bad : \A l \in bad : j <= l
    BY <2>1, LeastNatural
  <2>3. j \in 1..n
    OBVIOUS
  <2>4. PICK i \in 1..n : /\ i < j /\ rs[i].symbol = rs[j].symbol
                          /\ ~ (rs[i].timestamp < rs[j].timestamp)
    OBVIOUS
  <2> PICK p : p = Max(Before(c, rs, j))
    OBVIOUS
  <2>5. i \in Before(c, rs, j)
    BY <1>1, <1>3, <2>3, <2>4
  <2>6. p \in Before(c, rs, j) /\ i <= p
    BY <1>3, <2>3, <2>5
  <2>7. p \in 1..n /\ p < j /\ rs[p].symbol = rs[j].symbol
    BY <1>1, <1>3, <2>3, <2>6
  <2>8. rs[p].timestamp < rs[j].timestamp
    <3>1. ~ (rs[j].timestamp <= rs[p].timestamp)
      BY <1>1, <1>2, <1>5, <2>3, <2>5, <2>7 DEF OrderViolated
    <3>2. rs[j].timestamp \in Int /\ rs[p].timestamp \in Int
      BY <1>2, <2>3, <2>7
    <3> QED BY <3>1, <3>2
  <2>9. i < p
    BY <2>4, <2>6, <2>7, <2>8, <1>1
  <2>10. rs[i].timestamp < rs[p].timestamp
    <3>1. p \notin bad
      BY <2>2, <2>3, <2>7, <1>1
    <3> QED BY <3>1, <2>4, <2>7, <2>9
  <2>11. rs[i].timestamp \in Int /\ rs[j].timestamp \in Int /\ rs[p].timestamp \in Int
    BY <1>2, <2>3, <2>7
  <2> QED BY <2>4, <2>8, <2>10, <2>11
<1> QED BY <1>4, <1>5

-----------------------------------------------------------------------------
(* What the audit counts.                                                   *)

(* A count of rows is zero when no row is counted. *)
LEMMA NoneCounted ==
  ASSUME NEW rs \in Seq(BarRow), NEW S, S \subseteq DOMAIN rs
  PROVE  Cardinality(S) \in Nat /\ (Cardinality(S) = 0 <=> S = {})
<1>1. DOMAIN rs = 1..Len(rs) /\ Len(rs) \in Nat
  BY ONLY rs \in Seq(BarRow)
<1>2. IsFiniteSet(1..Len(rs))
  BY <1>1, IntervalCount
<1>3. S \in SUBSET (1..Len(rs))
  BY <1>1
<1>4. IsFiniteSet(S)
  BY <1>2, <1>3, FS_Subset
<1> QED BY <1>4, FS_CardinalityType, FS_EmptySet

(* The OHLC check passes exactly when no basis that resolves lacks a column *)
(* and the audit counts no row.                                             *)
LEMMA OhlcIsCounted ==
  ASSUME NEW c, NEW rs \in Seq(BarRow)
  PROVE  ~ OhlcViolated(c, rs) <=>
           /\ \A k \in DOMAIN Adjustments :
                ResolvesOhlc(c, Adjustments[k]) => OhlcPresent(c, Adjustments[k])
           /\ AuditFrame(c, rs).ohlc_violations = 0
<1>1. ASSUME NEW basis
      PROVE  /\ OhlcViolations(c, rs, basis) \in Nat
             /\ OhlcViolations(c, rs, basis) = 0 <=>
                  (ResolvesOhlc(c, basis) /\ OhlcPresent(c, basis) =>
                     ~ \E i \in DOMAIN rs : BadOhlc(rs[i], OhlcColumns(c, basis)))
  <2> PICK S : S = {i \in DOMAIN rs : BadOhlc(rs[i], OhlcColumns(c, basis))}
    OBVIOUS
  <2>1. Cardinality(S) \in Nat /\ (Cardinality(S) = 0 <=> S = {})
    <3>1. S \subseteq DOMAIN rs
      OBVIOUS
    <3> QED BY ONLY <3>1, rs \in Seq(BarRow), NoneCounted
  <2>2. OhlcViolations(c, rs, basis)
          = IF ResolvesOhlc(c, basis) /\ OhlcPresent(c, basis) THEN Cardinality(S) ELSE 0
    BY DEF OhlcViolations
  <2> QED BY <2>1, <2>2
<1>2. DOMAIN Adjustments = {1, 2, 3}
  BY DEF Adjustments
<1>3. AuditFrame(c, rs).ohlc_violations
        = OhlcViolations(c, rs, Adjustments[1]) + OhlcViolations(c, rs, Adjustments[2])
            + OhlcViolations(c, rs, Adjustments[3])
  BY DEF AuditFrame
<1>4. AuditFrame(c, rs).ohlc_violations = 0 <=>
        /\ OhlcViolations(c, rs, Adjustments[1]) = 0
        /\ OhlcViolations(c, rs, Adjustments[2]) = 0
        /\ OhlcViolations(c, rs, Adjustments[3]) = 0
  <2>1. /\ OhlcViolations(c, rs, Adjustments[1]) \in Nat
        /\ OhlcViolations(c, rs, Adjustments[2]) \in Nat
        /\ OhlcViolations(c, rs, Adjustments[3]) \in Nat
    BY <1>1
  <2> QED BY ONLY <2>1, <1>3
<1>5. AuditFrame(c, rs).ohlc_violations = 0 <=>
        \A k \in DOMAIN Adjustments : OhlcViolations(c, rs, Adjustments[k]) = 0
  BY <1>2, <1>4
<1> QED BY <1>1, <1>5 DEF OhlcViolated, OhlcRaises

(* The check of final bars passes exactly when the audit counts none open.  *)
LEMMA FinalIsCounted ==
  ASSUME NEW c, NEW rs \in Seq(BarRow)
  PROVE  ~ FinalViolated(c, rs) <=> AuditFrame(c, rs).non_final_bars = 0
<1> PICK S : S = {i \in DOMAIN rs : NotFinal(rs[i])}
  OBVIOUS
<1>1. Cardinality(S) = 0 <=> S = {}
  <2>1. S \subseteq DOMAIN rs
    OBVIOUS
  <2> QED BY ONLY <2>1, rs \in Seq(BarRow), NoneCounted
<1>2. AuditFrame(c, rs).non_final_bars
        = IF c.closed_col /\ Has(c, "closed") THEN Cardinality(S) ELSE 0
  BY DEF AuditFrame
<1> QED BY <1>1, <1>2 DEF FinalViolated

(* The symbols of a timestamp, and of a frame, are finitely many. *)
LEMMA PresentIsFinite ==
  ASSUME NEW rs \in Seq(BarRow), NEW t
  PROVE  IsFiniteSet(SymbolsOf(rs)) /\ IsFiniteSet(Present(rs, t))
         /\ Present(rs, t) \subseteq SymbolsOf(rs)
<1>1. DOMAIN rs = 1..Len(rs) /\ Len(rs) \in Nat
  BY ONLY rs \in Seq(BarRow)
<1>2. IsFiniteSet(DOMAIN rs)
  BY <1>1, IntervalCount
<1> PICK sym : sym = [i \in DOMAIN rs |-> rs[i].symbol]
  OBVIOUS
<1>3. sym \in Surjection(DOMAIN rs, SymbolsOf(rs))
  BY DEF Surjection, SymbolsOf
<1>4. IsFiniteSet(SymbolsOf(rs))
  BY <1>2, <1>3, FS_Surjection
<1>5. Present(rs, t) \in SUBSET SymbolsOf(rs)
  BY DEF Present, SymbolsOf
<1> QED BY <1>4, <1>5, FS_Subset

-----------------------------------------------------------------------------
(* The gate.                                                                *)

(* A role that passes the dtype check is declared and its column is there.  *)
LEMMA RolesAreThere ==
  ASSUME NEW c \in Calls, NEW role \in RequiredRoles(c), ~ RoleViolated(c, role)
  PROVE  role \in DeclaredRoles(c) /\ Has(c, ColumnOf(c, role))
<1>1. role.kind \in RoleKinds
  BY CallsAssumption DEF RequiredRoles, IsBoundFeature
<1>2. "absent" \notin AcceptedDtypes(role)
  <2>1. CASE role.kind \in {"price", "factor"}
    BY <2>1 DEF AcceptedDtypes
  <2>2. CASE role.kind \in {"quote", "depth"}
    BY <2>2 DEF AcceptedDtypes
  <2>3. CASE role.kind \in {"volume", "flow"}
    BY <2>3 DEF AcceptedDtypes
  <2>4. CASE role.kind = "calendar"
    BY <2>4 DEF AcceptedDtypes
  <2> QED BY <1>1, <2>1, <2>2, <2>3, <2>4 DEF RoleKinds
<1> QED BY <1>2 DEF RoleViolated, Has

(* So on a panel the features select. *)
LEMMA RolesSelect ==
  ASSUME NEW c \in Calls, ~ TimestampViolated(c), ~ RolesViolated(c), IsPanel(c)
  PROVE  SelectError(c) = "none"
<1>1. \A role \in RequiredRoles(c) : role \in DeclaredRoles(c) /\ Has(c, ColumnOf(c, role))
  BY RolesAreThere DEF RolesViolated
<1>2. \A k \in DOMAIN c.features : c.features[k].roles \subseteq RequiredRoles(c)
  BY DEF RequiredRoles
<1>3. ASSUME NEW k \in DOMAIN c.features
      PROVE  ~ Undeclared(c, c.features[k]) /\ ~ Absent(c, c.features[k])
  <2> PICK f : f = c.features[k]
    OBVIOUS
  <2>1. \A role \in f.roles : role \in DeclaredRoles(c) /\ Has(c, ColumnOf(c, role))
    BY <1>1, <1>2
  <2>2. \A column \in Groups(f) : Has(c, column)
    BY DEF Groups, Has, IsPanel, TimestampViolated
  <2> QED BY <2>1, <2>2 DEF Undeclared, Absent
<1> QED BY <1>3, SelectPasses

(* And only there. *)
LEMMA SelectingNeedsPanel ==
  ASSUME NEW c \in Calls, SelectError(c) = "none"
  PROVE  IsPanel(c)
<1>1. 1 \in DOMAIN c.features
  BY CallsAssumption
<1>2. ~ Undeclared(c, c.features[1]) /\ ~ Absent(c, c.features[1])
  BY <1>1, SelectPasses
<1> QED BY <1>2 DEF Absent, Groups, IsPanel

(* The panel a call requires is there, at every timestamp of a frame.       *)
WholePanel(c, rs) ==
  CompletePanel(c) =>
    \A t \in Times(rs) :
      IF c.membership # << >>
      THEN MembersAt(c.membership[1], t) \subseteq Present(rs, t)
      ELSE c.universe[1] \subseteq Present(rs, t)

(* Where no symbol is present that was not declared, comparing sizes is     *)
(* comparing symbols.                                                       *)
LEMMA SizesTellMissing ==
  ASSUME NEW c \in Calls, NEW rs \in Seq(BarRow),
         CompletePanel(c) /\ c.membership = << >> =>
           c.universe # << >> /\ SymbolsOf(rs) \subseteq c.universe[1]
  PROVE  ~ (CompletePanel(c) /\ Incomplete(c, rs)) <=> WholePanel(c, rs)
<1>1. CASE ~ CompletePanel(c)
  BY <1>1 DEF WholePanel
<1>2. CASE CompletePanel(c) /\ c.membership # << >>
  BY <1>2 DEF WholePanel, Incomplete
<1>3. CASE CompletePanel(c) /\ c.membership = << >>
  <2> PICK U : U = c.universe[1]
    OBVIOUS
  <2>1. c.universe # << >> /\ IsFiniteSet(U) /\ SymbolsOf(rs) \subseteq U
    BY <1>3, CallsAssumption
  <2>2. Incomplete(c, rs) <=>
          \E t \in Times(rs) : Cardinality(Present(rs, t)) # Cardinality(U)
    BY <1>3, <2>1 DEF Incomplete
  <2>3. ASSUME NEW t
        PROVE  Cardinality(Present(rs, t)) = Cardinality(U) <=> U \subseteq Present(rs, t)
    <3> PICK P : P = Present(rs, t)
      OBVIOUS
    <3>1. P \in SUBSET U
      BY <2>1, PresentIsFinite
    <3>2. Cardinality(P) = Cardinality(U) => P = U
      BY ONLY <2>1, <3>1, FS_Subset
    <3>3. U \subseteq P => P = U
      BY <3>1
    <3> QED BY <3>2, <3>3
  <2> QED BY <1>3, <2>2, <2>3 DEF WholePanel
<1> QED BY <1>1, <1>2, <1>3

(* A call that raises nothing returned, and one that raises did not. *)
LEMMA ReturnedIsNoError ==
  ASSUME PanelInv, outcome # "none"
  PROVE  Returned <=> ErrorOf(call, rows) = "none"
  BY ErrorKinds DEF PanelInv, OutcomeIsOfRows, Returned, ErrorNames

(* GateIsTheContract (validate.validate under compute): away from lost      *)
(* timestamps and undeclared symbols, compute returns exactly the frames    *)
(* that fit the schema, ascend, breach no row check and, under STRICT, are  *)
(* whole and final.                                                         *)
THEOREM GateHolds == Spec => []GateIsTheContract
<1>1. PanelInv => GateIsTheContract
  <2> SUFFICES ASSUME PanelInv, outcome # "none", call.mode # "OFF", Timed,
                      CompletePanel(call) /\ call.membership = << >> =>
                        call.universe # << >> /\ OnlyDeclared
               PROVE  ErrorOf(call, rows) = "none" <=>
                        /\ SchemaFits /\ ~ NamesCollide(call) /\ ~ UniverseMissing(call)
                        /\ Hard
                        /\ call.mode = "STRICT" => Complete /\ Final
    BY ReturnedIsNoError DEF GateIsTheContract
  <2>1. call \in Calls /\ rows \in Seq(BarRow)
    BY DEF PanelInv, FrameIsTyped
  <2>2. ErrorOf(call, rows) = "none" <=>
          /\ ~ NamesCollide(call) /\ ~ UniverseMissing(call)
          /\ HardChecksPass(call, rows)
          /\ call.mode = "STRICT" => SoftChecksPass(call, rows)
          /\ SelectError(call) = "none"
    BY ComputePasses, ChecksOfModes
  <2>3. IsPanel(call) => (~ OrderViolated(call, rows) <=> InOrder)
    BY <2>1, StepsAreOrder DEF Timed, AllTimed, Ascending, InOrder
  <2>4. HardChecksPass(call, rows) /\ IsPanel(call) <=> SchemaFits /\ Hard
    BY <2>1, <2>3, OhlcIsCounted DEF HardChecksPass, SchemaFits, Hard
  <2>5. SelectError(call) = "none" => IsPanel(call)
    BY <2>1, SelectingNeedsPanel
  <2>6. HardChecksPass(call, rows) /\ IsPanel(call) => SelectError(call) = "none"
    BY <2>1, RolesSelect DEF HardChecksPass
  <2>7. ~ (CompletePanel(call) /\ Incomplete(call, rows)) <=> Complete
    <3>1. CompletePanel(call) /\ call.membership = << >> =>
            call.universe # << >> /\ SymbolsOf(rows) \subseteq call.universe[1]
      BY DEF OnlyDeclared, SymbolsOf
    <3>2. ~ (CompletePanel(call) /\ Incomplete(call, rows)) <=> WholePanel(call, rows)
      BY <2>1, <3>1, SizesTellMissing
    <3> QED BY <3>2 DEF WholePanel, Complete
  <2>8. ~ FinalViolated(call, rows) <=> Final
    BY <2>1, FinalIsCounted DEF Final
  <2>9. SoftChecksPass(call, rows) <=> Complete /\ Final
    BY <2>7, <2>8 DEF SoftChecksPass
  <2> QED BY <2>2, <2>4, <2>5, <2>6, <2>9
<1> QED BY <1>1, PanelInductive, PTL

-----------------------------------------------------------------------------
(* The audit.                                                               *)

(* What is told apart by its key is as many as its keys. *)
LEMMA ImageCount ==
  ASSUME NEW S, IsFiniteSet(S), NEW key, \A x, y \in S : key[x] = key[y] => x = y
  PROVE  Cardinality({key[x] : x \in S}) = Cardinality(S)
<1> PICK keys : keys = {key[x] : x \in S}
  OBVIOUS
<1> PICK to : to = [x \in S |-> key[x]]
  OBVIOUS
<1>1. to \in Injection(S, keys) /\ to \in Surjection(S, keys)
  BY DEF Injection, IsInjective, Surjection
<1>2. ExistsBijection(S, keys)
  BY <1>1 DEF Bijection, ExistsBijection
<1>3. Cardinality(keys) = Cardinality(S)
  BY ONLY <1>2, IsFiniteSet(S), FS_Bijection
<1> QED BY <1>3

(* A panel whose timestamps all have as many symbols as one set they are    *)
(* drawn from have all the symbols of the frame.                            *)
LEMMA EvenPanelIsFull ==
  ASSUME NEW rs \in Seq(BarRow), NEW U, IsFiniteSet(U), SymbolsOf(rs) \subseteq U,
         \A t \in Times(rs) : Cardinality(Present(rs, t)) = Cardinality(U)
  PROVE  \A t \in Times(rs) : Present(rs, t) = SymbolsOf(rs)
<1> SUFFICES ASSUME NEW t \in Times(rs) PROVE Present(rs, t) = SymbolsOf(rs)
  OBVIOUS
<1>1. Present(rs, t) \subseteq SymbolsOf(rs)
  BY PresentIsFinite
<1>2. Present(rs, t) \in SUBSET U
  BY <1>1
<1>3. Present(rs, t) = U
  BY <1>2, FS_Subset
<1> QED BY <1>1, <1>3

(* AuditAgrees (validate.audit_frame beside validate): what STRICT returned *)
(* the audit finds nothing wrong with, its panel included as long as no     *)
(* symbol stands outside the declared universe.                             *)
THEOREM AuditHolds == Spec => []AuditAgrees
<1>1. PanelInv => AuditAgrees
  <2> SUFFICES ASSUME PanelInv, Timed, Returned, call.mode = "STRICT" PROVE AuditAgrees
    BY DEF AuditAgrees
  <2>1. /\ call \in Calls /\ rows \in Seq(BarRow) /\ call.mode # "OFF"
        /\ ErrorOf(call, rows) = "none"
    BY ReturnedIsNoError DEF PanelInv, FrameIsTyped, Returned
  <2>2. /\ HardChecksPass(call, rows) /\ SoftChecksPass(call, rows)
        /\ SelectError(call) = "none"
    BY <2>1, ComputePasses, ChecksOfModes
  <2>3. IsPanel(call) /\ ~ TimestampViolated(call)
    BY <2>1, <2>2, SelectingNeedsPanel DEF HardChecksPass
  <2>4. InOrder
    BY <2>1, <2>2, <2>3, StepsAreOrder
       DEF HardChecksPass, Timed, AllTimed, Ascending, InOrder
  <2> PICK audit : audit = AuditFrame(call, rows)
    OBVIOUS
  <2>5. audit.timestamp_utc_ok
    BY <2>3 DEF AuditFrame
  <2>6. audit.missing_roles = {}
    <3>1. \A role \in RequiredRoles(call) :
            role \in DeclaredRoles(call) /\ Has(call, ColumnOf(call, role))
      BY <2>1, <2>2, RolesAreThere DEF HardChecksPass, RolesViolated
    <3> QED BY <3>1 DEF AuditFrame
  <2>7. audit.ohlc_violations = 0
    BY <2>1, <2>2, OhlcIsCounted DEF HardChecksPass
  <2>8. audit.non_final_bars = 0
    BY <2>1, <2>2, FinalIsCounted DEF SoftChecksPass
  <2>9. audit.duplicate_keys = 0
    <3> PICK key : key = [i \in DOMAIN rows |-> Key(call, rows[i])]
      OBVIOUS
    <3>1. IsFiniteSet(DOMAIN rows) /\ Cardinality(DOMAIN rows) = Len(rows)
      BY <2>1, IntervalCount
    <3>2. ASSUME NEW i \in DOMAIN rows, NEW j \in DOMAIN rows, key[i] = key[j]
          PROVE  i = j
      <4>1. rows[i].symbol = rows[j].symbol /\ rows[i].timestamp = rows[j].timestamp
        BY <2>3, <3>2 DEF Key
      <4>2. i \in Int /\ j \in Int /\ rows[i].timestamp \in Int
        BY <2>1, RowColumns
      <4>3. ~ (i < j) /\ ~ (j < i)
        BY <4>1, <4>2, <2>4 DEF InOrder
      <4> QED BY <4>2, <4>3
    <3>3. Cardinality({key[i] : i \in DOMAIN rows}) = Len(rows)
      BY ONLY <3>1, <3>2, ImageCount
    <3>4. {key[i] : i \in DOMAIN rows} = {Key(call, rows[i]) : i \in DOMAIN rows}
      OBVIOUS
    <3>5. audit.duplicate_keys
            = IF ~ Has(call, "timestamp") THEN 0
              ELSE Len(rows) - Cardinality({Key(call, rows[i]) : i \in DOMAIN rows})
      BY DEF AuditFrame
    <3>6. Len(rows) \in Nat
      BY <2>1
    <3> PICK n : n = Cardinality({Key(call, rows[i]) : i \in DOMAIN rows})
      OBVIOUS
    <3>7. n = Len(rows)
      BY ONLY <3>3, <3>4, n = Cardinality({Key(call, rows[i]) : i \in DOMAIN rows})
    <3>8. audit.duplicate_keys = IF ~ Has(call, "timestamp") THEN 0 ELSE Len(rows) - n
      BY ONLY <3>5, n = Cardinality({Key(call, rows[i]) : i \in DOMAIN rows})
    <3> QED BY ONLY <3>6, <3>7, <3>8
  <2>10. ASSUME CompletePanel(call), call.membership = << >>,
                call.universe # << >> => OnlyDeclared
         PROVE  audit.full_timestamps = Times(rows)
    <3> PICK U : U = IF call.universe # << >> THEN call.universe[1] ELSE SymbolsOf(rows)
      OBVIOUS
    <3>1. IsFiniteSet(U)
      BY <2>1, CallsAssumption, PresentIsFinite
    <3>2. SymbolsOf(rows) \subseteq U
      BY <2>10 DEF OnlyDeclared, SymbolsOf
    <3>3. \A t \in Times(rows) : Cardinality(Present(rows, t)) = Cardinality(U)
      BY <2>2, <2>10 DEF SoftChecksPass, Incomplete
    <3>4. \A t \in Times(rows) : Present(rows, t) = SymbolsOf(rows)
      BY ONLY <2>1, <3>1, <3>2, <3>3, EvenPanelIsFull
    <3>5. audit.full_timestamps = {t \in Times(rows) : Present(rows, t) = SymbolsOf(rows)}
      BY DEF AuditFrame
    <3> QED BY <3>4, <3>5
  <2> QED BY <2>5, <2>6, <2>7, <2>8, <2>9, <2>10 DEF AuditAgrees
<1> QED BY <1>1, PanelInductive, PTL

-----------------------------------------------------------------------------
(* What STRICT returned stays.                                              *)

(* A shift looks at the rows up to its own. *)
LEMMA ShiftLooksBack ==
  ASSUME NEW rs \in Seq(BarRow), NEW more \in Seq(BarRow), NEW i \in Nat,
         \A j \in 1..i : rs[j] = more[j], i # 0, NEW k
  PROVE  Shifted(rs, i, k) = Shifted(more, i, k)
<1>1. i \in 1..i
  OBVIOUS
<1> PICK mine : mine = {j \in 1..i : rs[j].symbol = rs[i].symbol}
  OBVIOUS
<1>2. mine = {j \in 1..i : more[j].symbol = more[i].symbol}
  BY <1>1
<1> PICK back : back = {j \in mine : Cardinality({m \in mine : m > j}) = k}
  OBVIOUS
<1>3. Shifted(rs, i, k) = IF back = {} THEN Null ELSE rs[Max(back)].close
  BY DEF Shifted
<1>4. Shifted(more, i, k) = IF back = {} THEN Null ELSE more[Max(back)].close
  BY <1>2 DEF Shifted
<1>5. back # {} => Max(back) \in 1..i
  <2> SUFFICES ASSUME back # {} PROVE Max(back) \in 1..i
    OBVIOUS
  <2>1. back \subseteq 1..i /\ back \subseteq Int
    OBVIOUS
  <2>2. IsFiniteSet(1..i)
    BY IntervalCount
  <2>3. IsFiniteSet(back)
    BY <2>1, <2>2, FS_Subset
  <2>4. Max(back) \in back
    BY <2>1, <2>3, LastIndex
  <2> QED BY <2>1, <2>4
<1>6. back # {} => rs[Max(back)] = more[Max(back)]
  BY <1>5
<1> QED BY ONLY <1>3, <1>4, <1>6

(* A call that declares who may be there, and a frame with no one else.     *)
Declares(c, rs) ==
  CompletePanel(c) =>
    IF c.membership # << >>
    THEN \A i \in DOMAIN rs :
           rs[i].symbol \in MembersAt(c.membership[1], rs[i].timestamp)
    ELSE c.universe # << >>

(* One frame is the start of another. *)
StartsWith(more, rs) ==
  Len(rs) <= Len(more) /\ \A j \in 1..Len(rs) : more[j] = rs[j]

(* Where both frames are whole panels, no symbol joins a timestamp of the   *)
(* first.                                                                   *)
LEMMA NobodyJoins ==
  ASSUME NEW c \in Calls, NEW rs \in Seq(BarRow), NEW more \in Seq(BarRow),
         StartsWith(more, rs), CompletePanel(c), Declares(c, more),
         ~ Incomplete(c, rs), ~ Incomplete(c, more), NEW t \in Times(rs)
  PROVE  Present(more, t) = Present(rs, t)
<1>1. /\ DOMAIN rs = 1..Len(rs) /\ DOMAIN more = 1..Len(more)
      /\ Len(rs) \in Nat /\ Len(more) \in Nat
  BY ONLY rs \in Seq(BarRow), more \in Seq(BarRow)
<1>2. \A i \in DOMAIN rs : i \in DOMAIN more /\ more[i] = rs[i]
  BY <1>1 DEF StartsWith
<1>3. Present(rs, t) \subseteq Present(more, t) /\ t \in Times(more)
  BY <1>2 DEF Present, Times
<1>4. CASE c.membership # << >>
  <2>1. MembersAt(c.membership[1], t) \subseteq Present(rs, t)
    BY <1>4 DEF Incomplete
  <2>2. Present(more, t) \subseteq MembersAt(c.membership[1], t)
    BY <1>4 DEF Declares, Present
  <2> QED BY <2>1, <2>2, <1>3
<1>5. CASE c.membership = << >>
  <2>1. c.universe # << >>
    BY <1>5 DEF Declares
  <2>2. /\ Cardinality(Present(rs, t)) = Cardinality(c.universe[1])
        /\ Cardinality(Present(more, t)) = Cardinality(c.universe[1])
    BY <1>3, <1>5, <2>1 DEF Incomplete
  <2>3. IsFiniteSet(Present(more, t))
    BY PresentIsFinite
  <2>4. Present(rs, t) \in SUBSET Present(more, t)
    BY <1>3
  <2>5. Cardinality(Present(more, t)) = Cardinality(Present(rs, t))
    BY <2>2
  <2> QED BY ONLY <2>3, <2>4, <2>5, FS_Subset
<1> QED BY <1>4, <1>5

(* Then the peers of a row stay, *)
LEMMA PeersStay ==
  ASSUME NEW rs \in Seq(BarRow), NEW more \in Seq(BarRow), StartsWith(more, rs),
         Ascending(more), NEW i \in DOMAIN rs,
         Present(more, rs[i].timestamp) = Present(rs, rs[i].timestamp)
  PROVE  Peers(more, i) = Peers(rs, i)
<1>1. /\ DOMAIN rs = 1..Len(rs) /\ DOMAIN more = 1..Len(more)
      /\ Len(rs) \in Nat /\ Len(more) \in Nat
  BY ONLY rs \in Seq(BarRow), more \in Seq(BarRow)
<1>2. \A j \in DOMAIN rs : j \in DOMAIN more /\ more[j] = rs[j]
  BY <1>1 DEF StartsWith
<1> PICK t : t = rs[i].timestamp
  OBVIOUS
<1>3. /\ Peers(more, i) = {j \in DOMAIN more : more[j].timestamp = t}
      /\ Peers(rs, i) = {j \in DOMAIN rs : rs[j].timestamp = t}
  BY <1>2 DEF Peers
<1>4. ASSUME NEW j \in DOMAIN more, more[j].timestamp = t
      PROVE  j \in DOMAIN rs
  <2>1. more[j].symbol \in Present(rs, t)
    BY <1>4 DEF Present
  <2>2. PICK l \in DOMAIN rs : rs[l].timestamp = t /\ rs[l].symbol = more[j].symbol
    BY <2>1 DEF Present
  <2>3. l \in DOMAIN more /\ more[l].timestamp = t /\ more[l].symbol = more[j].symbol
    BY <1>2, <2>2
  <2>4. j \in Int /\ l \in Int /\ more[j].timestamp \in Int
    BY <1>1, <2>3, RowColumns
  <2>5. ~ (j < l) /\ ~ (l < j)
    BY <1>4, <2>3, <2>4 DEF Ascending
  <2> QED BY <2>2, <2>4, <2>5
<1> QED BY <1>2, <1>3, <1>4

(* and a rank is of the signals of its peers.                               *)
LEMMA RankOfPeers ==
  ASSUME NEW peers, NEW i \in peers, NEW p, NEW q, \A j \in peers : p[j] = q[j]
  PROVE  RankAmong(p, peers, i) = RankAmong(q, peers, i)
<1>1. {j \in peers : p[j] # << >>} = {j \in peers : q[j] # << >>}
  OBVIOUS
<1> PICK valid : valid = {j \in peers : p[j] # << >>}
  OBVIOUS
<1> PICK low : low = {j \in valid : Less(p[j], p[i])}
  OBVIOUS
<1> PICK tied : tied = {j \in valid : Same(p[j], p[i])}
  OBVIOUS
<1>2. low = {j \in valid : Less(q[j], q[i])} /\ tied = {j \in valid : Same(q[j], q[i])}
  OBVIOUS
<1>3. RankAmong(p, peers, i)
        = IF p[i] = << >> THEN << >>
          ELSE <<2 * Cardinality(low) + Cardinality(tied) + 1, 2 * Cardinality(valid)>>
  BY DEF RankAmong
<1>4. RankAmong(q, peers, i)
        = IF q[i] = << >> THEN << >>
          ELSE <<2 * Cardinality(low) + Cardinality(tied) + 1, 2 * Cardinality(valid)>>
  BY <1>1, <1>2 DEF RankAmong
<1>5. p[i] = q[i]
  OBVIOUS
<1> QED BY ONLY <1>3, <1>4, <1>5

(* So a value of a frame that STRICT passed is the value of every longer    *)
(* frame that it passes.                                                    *)
LEMMA ValueStays ==
  ASSUME NEW c \in Calls, c.mode = "STRICT", NEW rs \in Seq(BarRow),
         NEW more \in Seq(BarRow), StartsWith(more, rs), AllTimed(more),
         Declares(c, more), ErrorOf(c, rs) = "none", ErrorOf(c, more) = "none",
         NEW k \in DOMAIN c.features, NEW i \in DOMAIN rs
  PROVE  Column(more, c.features[k])[i] = Column(rs, c.features[k])[i]
<1> PICK f : f = c.features[k]
  OBVIOUS
<1>1. /\ DOMAIN rs = 1..Len(rs) /\ DOMAIN more = 1..Len(more)
      /\ Len(rs) \in Nat /\ Len(more) \in Nat
  BY ONLY rs \in Seq(BarRow), more \in Seq(BarRow)
<1>2. \A j \in DOMAIN rs : j \in DOMAIN more /\ more[j] = rs[j]
  BY <1>1 DEF StartsWith
<1>3. ASSUME NEW j \in DOMAIN rs PROVE Ratio(more, j, f) = Ratio(rs, j, f)
  <2>1. j \in Nat /\ j # 0 /\ \A l \in 1..j : more[l] = rs[l]
    BY <1>1, <1>2
  <2>2. \A b : Shifted(more, j, b) = Shifted(rs, j, b)
    BY ONLY <2>1, rs \in Seq(BarRow), more \in Seq(BarRow), ShiftLooksBack
  <2> QED BY <2>2 DEF Ratio
<1>4. f.signal \in BOOLEAN /\ (f.signal => f.requires_complete_panel)
  BY CallsAssumption DEF IsBoundFeature
<1>5. CASE ~ f.signal
  BY <1>2, <1>3, <1>5 DEF Column
<1>6. CASE f.signal
  <2>1. CompletePanel(c)
    BY <1>4, <1>6 DEF CompletePanel
  <2>2. /\ HardChecksPass(c, more) /\ SoftChecksPass(c, more) /\ SelectError(c) = "none"
        /\ SoftChecksPass(c, rs)
    BY ComputePasses, ChecksOfModes
  <2>3. Ascending(more)
    BY <2>2, SelectingNeedsPanel, StepsAreOrder DEF HardChecksPass
  <2>4. ~ Incomplete(c, rs) /\ ~ Incomplete(c, more)
    BY <2>1, <2>2 DEF SoftChecksPass
  <2>5. rs[i].timestamp \in Times(rs)
    BY DEF Times
  <2>6. Present(more, rs[i].timestamp) = Present(rs, rs[i].timestamp)
    BY <2>1, <2>4, <2>5, NobodyJoins
  <2>7. Peers(more, i) = Peers(rs, i)
    BY <2>3, <2>6, PeersStay
  <2> PICK p : p = [j \in DOMAIN more |-> Ratio(more, j, f)]
    OBVIOUS
  <2> PICK q : q = [j \in DOMAIN rs |-> Ratio(rs, j, f)]
    OBVIOUS
  <2> PICK peers : peers = Peers(rs, i)
    OBVIOUS
  <2>8. i \in peers /\ peers \subseteq DOMAIN rs
    BY PeersAreFinite
  <2>9. \A j \in peers : p[j] = q[j]
    BY <1>2, <1>3, <2>8
  <2>10. RankAmong(p, peers, i) = RankAmong(q, peers, i)
    BY ONLY <2>8, <2>9, RankOfPeers
  <2>11. Column(more, f)[i] = RankAmong(p, peers, i)
    BY <1>2, <1>6, <2>7 DEF Column
  <2>12. Column(rs, f)[i] = RankAmong(q, peers, i)
    BY <1>6 DEF Column
  <2> QED BY <2>10, <2>11, <2>12
<1> QED BY <1>4, <1>5, <1>6

(* So STRICT gives a row of the longer frame all the values it had. *)
LEMMA RowStays ==
  ASSUME NEW c \in Calls, c.mode = "STRICT", NEW rs \in Seq(BarRow),
         NEW more \in Seq(BarRow), StartsWith(more, rs), AllTimed(more),
         Declares(c, more), ErrorOf(c, rs) = "none", ErrorOf(c, more) = "none",
         NEW i \in DOMAIN rs
  PROVE  Result(c, more)[i] = Result(c, rs)[i]
<1> PICK names : names = {Names(c)[k] : k \in DOMAIN c.features}
  OBVIOUS
<1> PICK pick : pick = [n \in names |-> CHOOSE k \in DOMAIN c.features : Names(c)[k] = n]
  OBVIOUS
<1> PICK a : a = [k \in DOMAIN c.features |-> Column(more, c.features[k])]
  OBVIOUS
<1> PICK b : b = [k \in DOMAIN c.features |-> Column(rs, c.features[k])]
  OBVIOUS
<1>1. \A n \in names : pick[n] \in DOMAIN c.features
  OBVIOUS
<1>2. \A k \in DOMAIN c.features : a[k][i] = b[k][i]
  BY ValueStays
<1>3. i \in DOMAIN more
  BY DEF StartsWith
<1>4. Result(c, more)[i] = [n \in names |-> a[pick[n]][i]]
  BY <1>3 DEF Result
<1>5. Result(c, rs)[i] = [n \in names |-> b[pick[n]][i]]
  BY DEF Result
<1>6. \A n \in names : a[pick[n]][i] = b[pick[n]][i]
  BY <1>1, <1>2
<1> QED BY ONLY <1>4, <1>5, <1>6

(* StrictValuesAreFinal (compute under ValidationMode.STRICT): with a       *)
(* declared universe and a final marker, a value once returned is returned  *)
(* for good; late bars, new listings and revisions only make a later call   *)
(* raise.                                                                   *)
THEOREM StrictIsForGood == Spec => StrictValuesAreFinal
<1> DEFINE Promised == /\ outcome' = "result" /\ call.mode = "STRICT"
                       /\ call.closed_col /\ Has(call, "closed") /\ Timed
                       /\ CompletePanel(call) =>
                            IF call.membership # << >> THEN OnlyDeclared
                            ELSE call.universe # << >>
<1>1. ASSUME PanelInv, Next, Promised, NEW i \in DOMAIN published
      PROVE  published'[i] = published[i]
  <2> PICK n : n = Len(published)
    OBVIOUS
  <2> PICK kept : kept = SubSeq(rows, 1, n)
    OBVIOUS
  <2>1. /\ call \in Calls /\ rows \in Seq(BarRow) /\ Len(rows) \in Nat
        /\ n \in 0..Len(rows) /\ DOMAIN published = 1..n /\ i \in 1..n
    BY <1>1 DEF PanelInv, FrameIsTyped, PublishedFits
  <2>2. published # << >>
    BY <2>1
  <2>3. ErrorOf(call, kept) = "none" /\ published = Result(call, kept)
    BY <1>1, <2>2 DEF PanelInv, StrictRowsStay, Strict
  <2>4. Compute /\ ErrorOf(call, rows) = "none" /\ published' = Result(call, rows)
    <3>1. Compute
      BY <1>1 DEF Next, Arrive, Finalize
    <3> QED BY <3>1, <1>1, ErrorKinds DEF Compute, ErrorNames
  <2>5. kept \in Seq(BarRow) /\ Len(kept) = n /\ \A j \in 1..n : kept[j] = rows[j]
    <3>1. \A j \in 1..n : rows[j] \in BarRow
      BY ONLY <2>1
    <3>2. /\ kept \in Seq(BarRow)
          /\ Len(kept) = IF 1 <= n THEN n - 1 + 1 ELSE 0
          /\ \A j \in 1..(n - 1 + 1) : kept[j] = rows[1 + j - 1]
      BY <3>1, <2>1, SubSeqProperties
    <3> QED BY ONLY <3>2, <2>1
  <2>6. StartsWith(rows, kept)
    BY <2>1, <2>5 DEF StartsWith
  <2>7. AllTimed(rows) /\ Declares(call, rows)
    BY <1>1 DEF Timed, AllTimed, OnlyDeclared, Declares
  <2>8. i \in DOMAIN kept /\ call.mode = "STRICT"
    BY <1>1, <2>1, <2>5
  <2>9. Result(call, rows)[i] = Result(call, kept)[i]
    BY ONLY <2>1, <2>3, <2>4, <2>5, <2>6, <2>7, <2>8, RowStays
  <2> QED BY ONLY <2>3, <2>4, <2>9
<1>2. PanelInv /\ [Next]_vars =>
        [Promised => \A i \in DOMAIN published : published'[i] = published[i]]_vars
  BY <1>1
<1>3. StrictValuesAreFinal <=>
        [][Promised => \A i \in DOMAIN published : published'[i] = published[i]]_vars
  BY DEF StrictValuesAreFinal
<1> QED BY <1>2, <1>3, PanelInductive, PTL DEF Spec

-----------------------------------------------------------------------------
(* What was known at the time.                                              *)

(* In a frame that ascends, the rows of a symbol known at a row's time are  *)
(* its rows up to there, and later is further down.                         *)
LEMMA KnownRows ==
  ASSUME rows \in Seq(BarRow), Ascending(rows), NEW i \in DOMAIN rows
  PROVE  /\ {r \in Known(rows[i].timestamp) : r.symbol = rows[i].symbol}
              = {rows[j] : j \in Mine(rows, i)}
         /\ Mine(rows, i) \subseteq DOMAIN rows
         /\ \A j, m \in Mine(rows, i) : rows[m].timestamp > rows[j].timestamp <=> m > j
<1>1. DOMAIN rows = 1..Len(rows) /\ Len(rows) \in Nat
  BY ONLY rows \in Seq(BarRow)
<1>2. i \in Nat /\ Mine(rows, i) \subseteq DOMAIN rows
  BY <1>1 DEF Mine
<1>3. \A j \in DOMAIN rows : j \in Int /\ rows[j].timestamp \in Int
  BY <1>1, RowColumns
<1>4. ASSUME NEW j \in DOMAIN rows, rows[j].symbol = rows[i].symbol
      PROVE  rows[j].timestamp <= rows[i].timestamp <=> j <= i
  <2>1. j < i => rows[j].timestamp < rows[i].timestamp
    BY <1>4 DEF Ascending
  <2>2. i < j => rows[i].timestamp < rows[j].timestamp
    BY <1>4 DEF Ascending
  <2> QED BY <2>1, <2>2, <1>3
<1>5. {r \in Known(rows[i].timestamp) : r.symbol = rows[i].symbol}
        = {rows[j] : j \in {j \in DOMAIN rows : /\ rows[j].timestamp <= rows[i].timestamp
                                               /\ rows[j].symbol = rows[i].symbol}}
  BY DEF Known
<1>6. {j \in DOMAIN rows : /\ rows[j].timestamp <= rows[i].timestamp
                           /\ rows[j].symbol = rows[i].symbol} = Mine(rows, i)
  BY <1>1, <1>4 DEF Mine
<1>7. ASSUME NEW j \in Mine(rows, i), NEW m \in Mine(rows, i)
      PROVE  rows[m].timestamp > rows[j].timestamp <=> m > j
  <2>1. j \in DOMAIN rows /\ m \in DOMAIN rows /\ rows[j].symbol = rows[m].symbol
    BY <1>2 DEF Mine
  <2>2. j < m => rows[j].timestamp < rows[m].timestamp
    BY <2>1 DEF Ascending
  <2>3. m < j => rows[m].timestamp < rows[j].timestamp
    BY <2>1 DEF Ascending
  <2> QED BY <2>1, <2>2, <2>3, <1>3
<1> QED BY <1>2, <1>5, <1>6, <1>7

(* No two rows have the same number of later ones. *)
LEMMA LaterTells ==
  ASSUME NEW rs, NEW i \in Nat, NEW j \in Mine(rs, i), NEW l \in Mine(rs, i),
         Cardinality(Later(rs, i, j)) = Cardinality(Later(rs, i, l))
  PROVE  j = l
<1>1. \A m \in Mine(rs, i) : IsFiniteSet(Later(rs, i, m))
  <2>1. IsFiniteSet(1..i)
    BY IntervalCount
  <2>2. \A m \in Mine(rs, i) : Later(rs, i, m) \in SUBSET (1..i)
    BY DEF Later, Mine
  <2> QED BY <2>1, <2>2, FS_Subset
<1>2. ASSUME NEW a \in Mine(rs, i), NEW b \in Mine(rs, i), a < b
      PROVE  Cardinality(Later(rs, i, a)) # Cardinality(Later(rs, i, b))
  <2>1. Later(rs, i, b) \in SUBSET Later(rs, i, a)
    BY <1>2 DEF Later, Mine
  <2>2. b \in Later(rs, i, a) /\ b \notin Later(rs, i, b)
    BY <1>2 DEF Later, Mine
  <2>3. IsFiniteSet(Later(rs, i, a))
    BY <1>1
  <2> QED BY <2>1, <2>2, <2>3, FS_Subset
<1>3. j \in Int /\ l \in Int
  BY DEF Mine
<1>4. ~ (j < l) /\ ~ (l < j)
  BY <1>2
<1> QED BY <1>3, <1>4

(* A shift is the close so many bars back, as it was known.                 *)
LEMMA ShiftIsCloseBack ==
  ASSUME rows \in Seq(BarRow), Ascending(rows), NEW i \in DOMAIN rows, NEW k
  PROVE  Shifted(rows, i, k) = CloseBack(rows[i].symbol, rows[i].timestamp, k)
<1>1. i \in Nat
  BY ONLY rows \in Seq(BarRow), i \in DOMAIN rows
<1> PICK s : s = rows[i].symbol
  OBVIOUS
<1> PICK t : t = rows[i].timestamp
  OBVIOUS
<1> PICK mine : mine = {r \in Known(t) : r.symbol = s}
  OBVIOUS
<1>2. /\ mine = {rows[j] : j \in Mine(rows, i)}
      /\ Mine(rows, i) \subseteq DOMAIN rows
      /\ \A j, m \in Mine(rows, i) : rows[m].timestamp > rows[j].timestamp <=> m > j
  BY KnownRows
<1> PICK back : back = {r \in mine : Cardinality({q \in mine : q.timestamp > r.timestamp}) = k}
  OBVIOUS
<1>3. CloseBack(s, t, k) = IF back = {} THEN Null ELSE (CHOOSE r \in back : TRUE).close
  BY DEF CloseBack
<1>4. ASSUME NEW j \in Mine(rows, i)
      PROVE  Cardinality({q \in mine : q.timestamp > rows[j].timestamp})
               = Cardinality(Later(rows, i, j))
  <2>1. {q \in mine : q.timestamp > rows[j].timestamp} = {rows[m] : m \in Later(rows, i, j)}
    BY <1>2 DEF Later
  <2>2. \A a, b \in Later(rows, i, j) : rows[a] = rows[b] => a = b
    <3> SUFFICES ASSUME NEW a \in Later(rows, i, j), NEW b \in Later(rows, i, j),
                        rows[a] = rows[b]
                 PROVE  a = b
      OBVIOUS
    <3>1. a \in Mine(rows, i) /\ b \in Mine(rows, i) /\ a \in Int /\ b \in Int
      BY DEF Later, Mine
    <3>2. rows[a].timestamp \in Int /\ rows[b].timestamp = rows[a].timestamp
      BY <3>1, <1>2, RowColumns
    <3>3. ~ (a > b) /\ ~ (b > a)
      BY <3>1, <3>2, <1>2
    <3> QED BY <3>1, <3>3
  <2>3. IsFiniteSet(Later(rows, i, j))
    <3>1. IsFiniteSet(1..i)
      BY <1>1, IntervalCount
    <3>2. Later(rows, i, j) \in SUBSET (1..i)
      BY DEF Later, Mine
    <3> QED BY <3>1, <3>2, FS_Subset
  <2>4. Cardinality({rows[m] : m \in Later(rows, i, j)}) = Cardinality(Later(rows, i, j))
    BY ONLY <2>2, <2>3, ImageCount
  <2> QED BY <2>1, <2>4
<1>5. \A r : r \in back <=>
               \E j \in Mine(rows, i) : r = rows[j] /\ Cardinality(Later(rows, i, j)) = k
  <2> PICK count : count = [r \in mine |-> Cardinality({q \in mine : q.timestamp > r.timestamp})]
    OBVIOUS
  <2>1. back = {r \in mine : count[r] = k}
    OBVIOUS
  <2>2. \A j \in Mine(rows, i) : rows[j] \in mine
    BY ONLY <1>2
  <2>3. \A j \in Mine(rows, i) : count[rows[j]] = Cardinality(Later(rows, i, j))
    BY <2>2, <1>4
  <2> QED BY ONLY <2>1, <2>3, <1>2
<1>6. CASE /\ \A j \in Mine(rows, i) : Cardinality(Later(rows, i, j)) # k
           /\ Shifted(rows, i, k) = Null
  <2>1. back = {}
    BY <1>5, <1>6
  <2> QED BY <2>1, <1>3, <1>6
<1>7. CASE \E j \in Mine(rows, i) : /\ Cardinality(Later(rows, i, j)) = k
                                    /\ Shifted(rows, i, k) = rows[j].close
  <2>1. PICK j \in Mine(rows, i) : /\ Cardinality(Later(rows, i, j)) = k
                                   /\ Shifted(rows, i, k) = rows[j].close
    BY <1>7
  <2>2. \A r \in back : r = rows[j]
    <3> SUFFICES ASSUME NEW l \in Mine(rows, i), Cardinality(Later(rows, i, l)) = k
                 PROVE  l = j
      BY <1>5
    <3> QED BY <2>1, <1>1, LaterTells
  <2>3. back = {rows[j]}
    BY <2>1, <2>2, <1>5
  <2>4. (CHOOSE r \in back : TRUE) = rows[j]
    BY <2>3
  <2> QED BY <2>1, <2>3, <2>4, <1>3
<1> QED BY <1>6, <1>7, ShiftFinds

(* And a ratio the growth known at the time. *)
LEMMA RatioIsGrowth ==
  ASSUME rows \in Seq(BarRow), Ascending(rows), NEW i \in DOMAIN rows, NEW f
  PROVE  Ratio(rows, i, f) = Growth(rows[i].symbol, rows[i].timestamp, f)
  BY ShiftIsCloseBack DEF Ratio, Growth

(* A rank among the rows of a timestamp is the rank among its symbols.      *)
LEMMA RankIsPointInTime ==
  ASSUME rows \in Seq(BarRow), Ascending(rows), NEW i \in DOMAIN rows, NEW f, f.signal
  PROVE  Column(rows, f)[i] = PointInTime(rows[i].symbol, rows[i].timestamp, f)
<1> PICK s : s = rows[i].symbol
  OBVIOUS
<1> PICK t : t = rows[i].timestamp
  OBVIOUS
<1> PICK peers : peers = Peers(rows, i)
  OBVIOUS
<1> PICK signal : signal = [j \in DOMAIN rows |-> Ratio(rows, j, f)]
  OBVIOUS
<1> PICK sym : sym = [j \in DOMAIN rows |-> rows[j].symbol]
  OBVIOUS
<1> PICK growth : growth = [u \in Symbols |-> Growth(u, t, f)]
  OBVIOUS
<1>1. IsFiniteSet(peers) /\ i \in peers /\ peers \subseteq DOMAIN rows
  BY PeersAreFinite
<1>2. \A j \in peers : /\ sym[j] \in Symbols /\ rows[j].timestamp = t
                       /\ sym[j] = rows[j].symbol
  BY <1>1, RowColumns DEF Peers
<1>3. \A j \in peers : growth[sym[j]] = signal[j]
  <2> SUFFICES ASSUME NEW j \in peers PROVE growth[sym[j]] = signal[j]
    OBVIOUS
  <2>1. Ratio(rows, j, f) = Growth(rows[j].symbol, rows[j].timestamp, f)
    BY <1>1, RatioIsGrowth
  <2> QED BY <2>1, <1>1, <1>2
<1>4. \A j, l \in peers : sym[j] = sym[l] => j = l
  <2> SUFFICES ASSUME NEW j \in peers, NEW l \in peers, sym[j] = sym[l] PROVE j = l
    OBVIOUS
  <2>1. /\ j \in DOMAIN rows /\ l \in DOMAIN rows /\ rows[j].symbol = rows[l].symbol
        /\ rows[j].timestamp = t /\ rows[l].timestamp = t
    BY <1>1, <1>2
  <2>2. j \in Int /\ l \in Int /\ t \in Int
    BY <2>1, RowColumns
  <2>3. ~ (j < l) /\ ~ (l < j)
    BY <2>1, <2>2 DEF Ascending
  <2> QED BY <2>2, <2>3
<1> PICK rivals : rivals = {r.symbol : r \in {r \in Known(t) : r.timestamp = t}}
  OBVIOUS
<1>5. rivals = {sym[j] : j \in peers}
  <2>1. {r \in Known(t) : r.timestamp = t} = {rows[j] : j \in peers}
    <3>1. \A j \in DOMAIN rows : rows[j].timestamp \in Int
      BY RowColumns
    <3>2. Known(t) = {rows[j] : j \in {j \in DOMAIN rows : rows[j].timestamp <= t}}
      BY DEF Known
    <3>3. peers = {j \in DOMAIN rows : rows[j].timestamp = t}
      BY DEF Peers
    <3> QED BY <3>1, <3>2, <3>3
  <2>2. \A u : u \in rivals <=> \E j \in peers : u = rows[j].symbol
    <3>1. \A u : u \in rivals
                   <=> \E r \in {r \in Known(t) : r.timestamp = t} : u = r.symbol
      OBVIOUS
    <3> QED BY ONLY <3>1, <2>1
  <2>3. \A u : u \in rivals <=> \E j \in peers : u = sym[j]
    BY ONLY <2>2, <1>2
  <2> QED BY ONLY <2>3
<1> PICK valid : valid = {j \in peers : signal[j] # << >>}
  OBVIOUS
<1> PICK low : low = {j \in valid : Less(signal[j], signal[i])}
  OBVIOUS
<1> PICK tied : tied = {j \in valid : Same(signal[j], signal[i])}
  OBVIOUS
<1> PICK known : known = {u \in rivals : Growth(u, t, f) # << >>}
  OBVIOUS
<1>6. rivals \subseteq Symbols /\ s \in Symbols /\ \A u \in rivals : Growth(u, t, f) = growth[u]
  BY <1>2, <1>5, RowColumns
<1>7. Growth(s, t, f) = signal[i]
  <2>1. sym[i] = s
    OBVIOUS
  <2> QED BY <2>1, <1>1, <1>3, <1>6
<1>8. known = {sym[j] : j \in valid}
  <2>1. \A u : u \in known <=> u \in rivals /\ growth[u] # << >>
    BY <1>6
  <2>2. \A j : j \in valid <=> j \in peers /\ signal[j] # << >>
    OBVIOUS
  <2>3. \A u : u \in known <=> \E j \in valid : u = sym[j]
    BY ONLY <2>1, <2>2, <1>3, <1>5
  <2> QED BY ONLY <2>3
<1>9. {u \in known : Less(Growth(u, t, f), signal[i])} = {sym[j] : j \in low}
  <2> PICK ours : ours = {u \in known : Less(Growth(u, t, f), signal[i])}
    OBVIOUS
  <2>1. \A u : u \in ours <=> u \in known /\ Less(growth[u], signal[i])
    BY <1>6
  <2>2. \A j \in valid : growth[sym[j]] = signal[j]
    BY <1>3
  <2>3. \A j : j \in low <=> j \in valid /\ Less(signal[j], signal[i])
    OBVIOUS
  <2>4. \A u : u \in ours <=> \E j \in low : u = sym[j]
    BY ONLY <2>1, <2>2, <2>3, <1>8
  <2>5. ours = {sym[j] : j \in low}
    BY ONLY <2>4
  <2> QED BY <2>5
<1>10. {u \in known : Same(Growth(u, t, f), signal[i])} = {sym[j] : j \in tied}
  <2> PICK ours : ours = {u \in known : Same(Growth(u, t, f), signal[i])}
    OBVIOUS
  <2>1. \A u : u \in ours <=> u \in known /\ Same(growth[u], signal[i])
    BY <1>6
  <2>2. \A j \in valid : growth[sym[j]] = signal[j]
    BY <1>3
  <2>3. \A j : j \in tied <=> j \in valid /\ Same(signal[j], signal[i])
    OBVIOUS
  <2>4. \A u : u \in ours <=> \E j \in tied : u = sym[j]
    BY ONLY <2>1, <2>2, <2>3, <1>8
  <2>5. ours = {sym[j] : j \in tied}
    BY ONLY <2>4
  <2> QED BY <2>5
<1>11. /\ Cardinality({sym[j] : j \in valid}) = Cardinality(valid)
       /\ Cardinality({sym[j] : j \in low}) = Cardinality(low)
       /\ Cardinality({sym[j] : j \in tied}) = Cardinality(tied)
  <2>1. valid \in SUBSET peers /\ low \in SUBSET peers /\ tied \in SUBSET peers
    OBVIOUS
  <2>2. IsFiniteSet(valid) /\ IsFiniteSet(low) /\ IsFiniteSet(tied)
    BY <2>1, <1>1, FS_Subset
  <2>3. /\ \A j, l \in valid : sym[j] = sym[l] => j = l
        /\ \A j, l \in low : sym[j] = sym[l] => j = l
        /\ \A j, l \in tied : sym[j] = sym[l] => j = l
    BY <2>1, <1>4
  <2>4. Cardinality({sym[j] : j \in valid}) = Cardinality(valid)
    BY ONLY <2>2, <2>3, ImageCount
  <2>5. Cardinality({sym[j] : j \in low}) = Cardinality(low)
    BY ONLY <2>2, <2>3, ImageCount
  <2>6. Cardinality({sym[j] : j \in tied}) = Cardinality(tied)
    BY ONLY <2>2, <2>3, ImageCount
  <2> QED BY <2>4, <2>5, <2>6
<1>12. Column(rows, f)[i] = RankAmong(signal, peers, i)
  BY DEF Column
<1>13. RankAmong(signal, peers, i)
         = IF signal[i] = << >> THEN << >>
           ELSE <<2 * Cardinality(low) + Cardinality(tied) + 1, 2 * Cardinality(valid)>>
  BY DEF RankAmong
<1> PICK beaten : beaten = {u \in known : Less(Growth(u, t, f), signal[i])}
  OBVIOUS
<1> PICK even : even = {u \in known : Same(Growth(u, t, f), signal[i])}
  OBVIOUS
<1>14. PointInTime(s, t, f)
         = IF signal[i] = << >> THEN signal[i]
           ELSE <<2 * Cardinality(beaten) + Cardinality(even) + 1, 2 * Cardinality(known)>>
  BY <1>7 DEF PointInTime
<1>15. /\ Cardinality(beaten) = Cardinality(low) /\ Cardinality(even) = Cardinality(tied)
       /\ Cardinality(known) = Cardinality(valid)
  BY <1>8, <1>9, <1>10, <1>11
<1> QED BY <1>12, <1>13, <1>14, <1>15

(* ValuesArePointInTime (registry.evaluate and the shifts over symbols):    *)
(* away from lost timestamps, every value a validated call returns is the   *)
(* one a consumer at its timestamp would have computed from what was known, *)
(* however the symbols interleave.                                          *)
THEOREM ValuesHold == Spec => []ValuesArePointInTime
<1>1. PanelInv => ValuesArePointInTime
  <2> SUFFICES ASSUME PanelInv, Timed, Returned, call.mode # "OFF",
                      NEW i \in DOMAIN rows, NEW k \in DOMAIN call.features
               PROVE  published[i][call.features[k].name]
                        = PointInTime(rows[i].symbol, rows[i].timestamp, call.features[k])
    BY DEF ValuesArePointInTime
  <2> PICK f : f = call.features[k]
    OBVIOUS
  <2>1. /\ call \in Calls /\ rows \in Seq(BarRow)
        /\ ErrorOf(call, rows) = "none" /\ published = Result(call, rows)
    BY ReturnedIsNoError DEF PanelInv, FrameIsTyped, OutcomeIsOfRows, Returned
  <2>2. ~ NamesCollide(call) /\ HardChecksPass(call, rows) /\ SelectError(call) = "none"
    BY <2>1, ComputePasses, ChecksOfModes
  <2>3. Ascending(rows)
    BY <2>1, <2>2, SelectingNeedsPanel, StepsAreOrder DEF HardChecksPass, Timed, AllTimed
  <2>4. published[i][f.name] = Column(rows, f)[i]
    BY <2>1, <2>2, ResultValue
  <2>5. CASE f.signal
    <3>1. Column(rows, f)[i] = PointInTime(rows[i].symbol, rows[i].timestamp, f)
      BY <2>1, <2>3, <2>5, RankIsPointInTime
    <3> QED BY <3>1, <2>4
  <2>6. CASE ~ f.signal
    <3>1. Column(rows, f)[i] = Ratio(rows, i, f)
      BY <2>6 DEF Column
    <3>2. Ratio(rows, i, f) = Growth(rows[i].symbol, rows[i].timestamp, f)
      BY <2>1, <2>3, RatioIsGrowth
    <3>3. PointInTime(rows[i].symbol, rows[i].timestamp, f)
            = Growth(rows[i].symbol, rows[i].timestamp, f)
      BY <2>6 DEF PointInTime
    <3> QED BY <3>1, <3>2, <3>3, <2>4
  <2> QED BY <2>5, <2>6
<1> QED BY <1>1, PanelInductive, PTL

-----------------------------------------------------------------------------
(* The warm-up.                                                             *)

(* A symbol that has more bars than a shift is long has one that far back.  *)
LEMMA EnoughBars ==
  ASSUME NEW rs, NEW i \in Nat, NEW k \in Nat, k < Cardinality(Mine(rs, i))
  PROVE  \E j \in Mine(rs, i) : Cardinality(Later(rs, i, j)) = k
<1> PICK mine : mine = Mine(rs, i)
  OBVIOUS
<1>1. IsFiniteSet(mine) /\ mine \subseteq Int
  <2>1. IsFiniteSet(1..i)
    BY IntervalCount
  <2>2. mine \in SUBSET (1..i)
    BY DEF Mine
  <2> QED BY <2>1, <2>2, FS_Subset
<1> PICK key : key = [j \in mine |-> -j]
  OBVIOUS
<1> PICK keys : keys = {key[j] : j \in mine}
  OBVIOUS
<1>2. key \in [mine -> Int] /\ \A x, y \in mine : key[x] = key[y] => x = y
  BY <1>1
<1>3. /\ IsFiniteSet(keys) /\ Cardinality(keys) = Cardinality(mine)
      /\ \A j \in mine : Cardinality({m \in mine : key[m] < key[j]}) = Place(keys, key[j])
  <2>1. IsFiniteSet(mine)
    BY <1>1
  <2>2. /\ IsFiniteSet({key[x] : x \in mine})
        /\ Cardinality({key[x] : x \in mine}) = Cardinality(mine)
        /\ \A x \in mine : Cardinality({y \in mine : key[y] < key[x]})
                              = Place({key[y] : y \in mine}, key[x])
    BY ONLY <2>1, <1>2, KeyedCount
  <2> QED BY <2>2
<1>4. keys \subseteq Int /\ k \in 0..(Cardinality(keys) - 1)
  <2>1. Cardinality(keys) \in Nat
    BY <1>3, FS_CardinalityType
  <2>2. Cardinality(mine) = Cardinality(Mine(rs, i))
    OBVIOUS
  <2>3. k \in Nat /\ k < Cardinality(keys)
    BY <1>3, <2>2
  <2> QED BY <2>1, <2>3, <1>2
<1>5. PICK mark \in keys : Place(keys, mark) = k
  <2>1. IsFiniteSet(keys)
    BY <1>3
  <2> QED BY ONLY <2>1, <1>4, PlaceIsTaken
<1>6. PICK j \in mine : mark = key[j]
  OBVIOUS
<1>7. {m \in mine : key[m] < key[j]} = Later(rs, i, j)
  BY <1>1 DEF Later
<1> QED BY <1>3, <1>5, <1>6, <1>7

(* The longest min_history is no shorter than any. *)
LEMMA LongestHistory ==
  ASSUME NEW c \in Calls, NEW k \in DOMAIN c.features
  PROVE  MaxMinHistory(c) \in Nat /\ c.features[k].min_history <= MaxMinHistory(c)
<1> PICK needs : needs = [l \in DOMAIN c.features |-> c.features[l].min_history]
  OBVIOUS
<1> PICK all : all = {c.features[l].min_history : l \in DOMAIN c.features}
  OBVIOUS
<1>1. DOMAIN c.features = 1..Len(c.features) /\ Len(c.features) \in Nat
  BY CallsAssumption
<1>2. IsFiniteSet(DOMAIN c.features)
  BY <1>1, IntervalCount
<1>3. needs \in Surjection(DOMAIN c.features, all)
  BY DEF Surjection
<1>4. IsFiniteSet(all)
  BY ONLY <1>2, <1>3, FS_Surjection
<1>5. all \subseteq Nat /\ all \subseteq Int /\ c.features[k].min_history \in all
  BY CallsAssumption DEF IsBoundFeature
<1>6. Max(all) \in all /\ \A x \in all : x <= Max(all)
  BY <1>4, <1>5, LastIndex
<1> QED BY <1>5, <1>6 DEF MaxMinHistory

(* A result with its keys has the symbol among them. *)
LEMMA SymbolIsThere ==
  ASSUME NEW c \in Calls, c.include_keys, IsPanel(c)
  PROVE  "symbol" \in {OutputColumns(c)[k] : k \in DOMAIN OutputColumns(c)}
<1> PICK names : names = Names(c)
  OBVIOUS
<1> PICK n : n = Len(c.features)
  OBVIOUS
<1>1. n \in Nat /\ DOMAIN c.features = 1..n
  BY CallsAssumption
<1> PICK S : S = {names[k] : k \in 1..n} \cup {"symbol", "timestamp"}
  OBVIOUS
<1>2. names \in [1..n -> S]
  BY <1>1 DEF Names
<1>3. names \in Seq(S)
  BY ONLY <1>1, <1>2, SeqDef
<1> PICK stamp : stamp = IF Has(c, "timestamp") THEN <<"timestamp">> ELSE << >>
  OBVIOUS
<1>4. /\ stamp \in Seq(S)
      /\ <<"symbol">> \in Seq(S) /\ Len(<<"symbol">>) = 1 /\ <<"symbol">>[1] = "symbol"
  <2>1. "symbol" \in S /\ "timestamp" \in S
    OBVIOUS
  <2>2. <<"symbol">> \in Seq(S) /\ <<"timestamp">> \in Seq(S) /\ << >> \in Seq(S)
    BY ONLY <2>1
  <2>3. stamp \in {<<"timestamp">>, << >>}
    OBVIOUS
  <2>4. Len(<<"symbol">>) = 1 /\ <<"symbol">>[1] = "symbol"
    BY ONLY <2>2
  <2> QED BY ONLY <2>2, <2>3, <2>4
<1> PICK head : head = <<"symbol">> \o stamp
  OBVIOUS
<1>5. head \in Seq(S) /\ Len(head) = 1 + Len(stamp) /\ Len(stamp) \in Nat /\ head[1] = "symbol"
  BY <1>4, ConcatProperties
<1> PICK out : out = head \o names
  OBVIOUS
<1>6. out \in Seq(S) /\ Len(out) = Len(head) + Len(names) /\ Len(names) \in Nat
      /\ out[1] = "symbol"
  BY <1>3, <1>5, ConcatProperties
<1>7. 1 \in DOMAIN out
  BY <1>5, <1>6
<1>8. OutputColumns(c) = out
  BY DEF OutputColumns, IsPanel
<1> QED BY <1>6, <1>7, <1>8

(* NoWarmupNullSurvives (toolkit.drop_warmup over a result with its keys):  *)
(* on a panel without null or zero closes, no row that drop_warmup keeps    *)
(* has a null, in any mode.                                                 *)
THEOREM WarmupHolds == Spec => []NoWarmupNullSurvives
<1>1. PanelInv => NoWarmupNullSurvives
  <2> SUFFICES ASSUME PanelInv, Returned, call.include_keys,
                      \A i \in DOMAIN rows : rows[i].close \notin {Null, 0},
                      NEW i \in DropWarmup(call, rows), NEW k \in DOMAIN call.features
               PROVE  published[i][call.features[k].name] # << >>
    BY DEF NoWarmupNullSurvives
  <2> PICK f : f = call.features[k]
    OBVIOUS
  <2>1. /\ call \in Calls /\ rows \in Seq(BarRow)
        /\ ErrorOf(call, rows) = "none" /\ published = Result(call, rows)
    BY ReturnedIsNoError DEF PanelInv, FrameIsTyped, OutcomeIsOfRows, Returned
  <2>2. ~ NamesCollide(call) /\ IsPanel(call)
    BY <2>1, ComputePasses, SelectingNeedsPanel
  <2>3. i \in DOMAIN rows /\ i \in Nat \ {0} /\ Mine(rows, i) \subseteq DOMAIN rows
    <3>1. i \in DOMAIN rows
      BY DEF DropWarmup
    <3>2. DOMAIN rows = 1..Len(rows) /\ Len(rows) \in Nat
      BY ONLY <2>1
    <3> QED BY <3>1, <3>2 DEF Mine
  <2> PICK above : above = {j \in 1..(i-1) : rows[j].symbol = rows[i].symbol}
    OBVIOUS
  <2>4. Cardinality(above) >= MaxMinHistory(call)
    BY <2>1, <2>2, SymbolIsThere DEF DropWarmup
  <2>5. IsFiniteSet(above) /\ Cardinality(Mine(rows, i)) = Cardinality(above) + 1
    <3>1. i - 1 \in Nat
      BY <2>3
    <3>2. IsFiniteSet(1..(i-1))
      BY <3>1, IntervalCount
    <3>3. above \in SUBSET (1..(i-1))
      OBVIOUS
    <3>4. IsFiniteSet(above)
      BY <3>2, <3>3, FS_Subset
    <3>5. Mine(rows, i) = above \cup {i} /\ i \notin above
      BY <2>3 DEF Mine
    <3> QED BY <3>4, <3>5, FS_AddElement
  <2>6. /\ f.skip \in Nat /\ f.formation \in Nat
        /\ f.skip < Cardinality(Mine(rows, i)) /\ f.formation < Cardinality(Mine(rows, i))
    <3>1. /\ f.skip \in Nat /\ f.formation \in Nat /\ f.min_history \in Nat
          /\ f.skip < f.min_history /\ f.formation < f.min_history
      BY <2>1, CallsAssumption DEF IsBoundFeature
    <3>2. MaxMinHistory(call) \in Nat /\ f.min_history <= MaxMinHistory(call)
      BY <2>1, LongestHistory
    <3>3. Cardinality(above) \in Nat
      BY <2>5, FS_CardinalityType
    <3> QED BY <3>1, <3>2, <3>3, <2>4, <2>5
  <2>7. ASSUME NEW b \in Nat, b < Cardinality(Mine(rows, i))
        PROVE  Shifted(rows, i, b) \notin {Null, 0}
    <3>1. \E j \in Mine(rows, i) : Cardinality(Later(rows, i, j)) = b
      BY <2>3, <2>7, EnoughBars
    <3>2. \E j \in Mine(rows, i) : Shifted(rows, i, b) = rows[j].close
      BY <3>1, <2>1, <2>3, ShiftFinds
    <3> QED BY <3>2, <2>3
  <2>8. Ratio(rows, i, f) # << >>
    BY <2>6, <2>7 DEF Ratio
  <2>9. Column(rows, f)[i] # << >>
    BY <2>3, <2>8 DEF Column, RankAmong
  <2>10. published[i][f.name] = Column(rows, f)[i]
    BY <2>1, <2>2, <2>3, ResultValue
  <2> QED BY <2>9, <2>10
<1> QED BY <1>1, PanelInductive, PTL
=============================================================================
