------------------------------ MODULE Contract ------------------------------
(***************************************************************************)
(* The input contract of validate.py on a bar frame, and the audit that    *)
(* reports the same checks without raising.                                *)
(*                                                                         *)
(* A frame is its columns and its rows.  cols maps each column name to its *)
(* dtype ("utc" and "naive" datetimes, "float", "int", "string", "bool"),  *)
(* or to "absent".  A row maps columns to cells; a cell is a natural       *)
(* number (a price, a timestamp in clock units, 0/1 for a Boolean), a      *)
(* symbol, or Null.  A comparison with Null is null, and any() ignores it. *)
(*                                                                         *)
(* A call carries what the caller passes:                                  *)
(*   cols        the columns of the frame                                  *)
(*   roles       the role map of the BarSchema: a set of [role, column];   *)
(*               symbol, timestamp and closed have their canonical names   *)
(*   closed_col  whether the schema declares the closed column             *)
(*   features    the bound features, in order                              *)
(*   universe    << >>, or <<S>> for a static set S of symbols             *)
(*   membership  << >>, or <<M>> for a frame M: its cols, like those of a  *)
(*               frame, and its rows, a set of [symbol, start, end]        *)
(*   mode        a ValidationMode                                          *)
(***************************************************************************)
EXTENDS Integers, Sequences, FiniteSetsExt

Null == -1

ValidationMode == {"STRICT", "RESEARCH", "OFF"}

(* Adjustment, in declaration order: the order every basis loop takes. *)
Adjustments == <<"tr", "split", "raw">>

PriceRole(field, adjustment) ==
  [kind |-> "price", field |-> field, adjustment |-> adjustment]
QuoteRole(field, adjustment) ==
  [kind |-> "quote", field |-> field, adjustment |-> adjustment]

RoleKinds == {"price", "factor", "quote", "depth", "volume", "flow", "calendar"}

AcceptedDtypes(role) ==
  CASE role.kind \in {"price", "factor"} -> {"float"}
    [] role.kind \in {"quote", "depth"} ->
         IF role.field \in {"bid", "ask", "mid"} THEN {"float"} ELSE {"float", "int"}
    [] role.kind \in {"volume", "flow"} -> {"float", "int"}
    [] role.kind = "calendar" -> {"string"}

(* Null-aware comparison, and the row-wise extrema that skip a null. *)
Above(x, y) == x # Null /\ y # Null /\ x > y
MinHorizontal(x, y) == IF x = Null \/ (y # Null /\ y < x) THEN y ELSE x
MaxHorizontal(x, y) == IF x = Null \/ (y # Null /\ y > x) THEN y ELSE x

Has(call, column) == call.cols[column] # "absent"
IsPanel(call) == Has(call, "symbol")

DeclaredRoles(call) == {entry.role : entry \in call.roles}
ColumnOf(call, role) == (CHOOSE entry \in call.roles : entry.role = role).column

RequiredRoles(call) ==
  UNION {call.features[k].roles : k \in DOMAIN call.features}
CompletePanel(call) ==
  \E k \in DOMAIN call.features : call.features[k].requires_complete_panel

-----------------------------------------------------------------------------
(* The checks of validate, each as the fact that it finds a violation.      *)

TimestampViolated(call) == call.cols["timestamp"] # "utc"

RoleViolated(call, role) ==
  \/ role \notin DeclaredRoles(call)
  \/ call.cols[ColumnOf(call, role)] \notin AcceptedDtypes(role)

RolesViolated(call) == \E role \in RequiredRoles(call) : RoleViolated(call, role)

SymbolViolated(call) == IsPanel(call) /\ call.cols["symbol"] # "string"

(* The rows before row i that diff() steps over: of its symbol on a panel,  *)
(* of the whole frame otherwise.                                            *)
Before(call, rows, i) ==
  {j \in 1..(i-1) : IsPanel(call) => rows[j].symbol = rows[i].symbol}

(* Mutant: < for <=, which lets a repeated timestamp through. *)
OrderViolatedNegative(call, rows) ==
  \E i \in DOMAIN rows :
    /\ Before(call, rows, i) # {}
    /\ Above(rows[Max(Before(call, rows, i))].timestamp, rows[i].timestamp)

(* A step that is not positive; a step from or to a null timestamp is null. *)
OrderViolated(call, rows) ==
  \E i \in DOMAIN rows :
    /\ Before(call, rows, i) # {}
    /\ rows[i].timestamp # Null
    /\ LET j == Max(Before(call, rows, i))
       IN  rows[j].timestamp # Null /\ rows[i].timestamp <= rows[j].timestamp

(* The open, high, low and close roles of a basis, and their columns when   *)
(* all four resolve.                                                        *)
OhlcRoles(basis) ==
  <<PriceRole("open", basis), PriceRole("high", basis),
    PriceRole("low", basis), PriceRole("close", basis)>>
ResolvesOhlc(call, basis) == \A k \in 1..4 : OhlcRoles(basis)[k] \in DeclaredRoles(call)
OhlcColumns(call, basis) == [k \in 1..4 |-> ColumnOf(call, OhlcRoles(basis)[k])]

BadOhlc(row, cols) ==
  LET o == row[cols[1]]  h == row[cols[2]]  low == row[cols[3]]  c == row[cols[4]]
  IN  Above(low, MinHorizontal(o, c)) \/ Above(MaxHorizontal(o, c), h)

OhlcPresent(call, basis) ==
  \A k \in 1..4 : Has(call, OhlcColumns(call, basis)[k])

(* _check_ohlc_ordering selects the columns of a basis that resolves: a     *)
(* column that is not in the frame raises as a bad row does.                *)
OhlcRaises(call, rows, basis) ==
  /\ ResolvesOhlc(call, basis)
  /\ OhlcPresent(call, basis) =>
       \E i \in DOMAIN rows : BadOhlc(rows[i], OhlcColumns(call, basis))

(* Mutant: the first basis is taken for all of them. *)
OhlcViolatedFirst(call, rows) == OhlcRaises(call, rows, Adjustments[1])

OhlcViolated(call, rows) ==
  \E k \in DOMAIN Adjustments : OhlcRaises(call, rows, Adjustments[k])

(* The error of the first basis that raises. *)
OhlcError(call, rows) ==
  LET k == Min({k \in DOMAIN Adjustments : OhlcRaises(call, rows, Adjustments[k])})
  IN  IF OhlcPresent(call, Adjustments[k]) THEN "SabiaValidationError"
      ELSE "ColumnNotFoundError"

(* A basis whose bid or ask is undeclared or absent is skipped. *)
QuotesViolated(call, rows) ==
  \E k \in DOMAIN Adjustments :
    LET bid == QuoteRole("bid", Adjustments[k])
        ask == QuoteRole("ask", Adjustments[k])
    IN  /\ {bid, ask} \subseteq DeclaredRoles(call)
        /\ Has(call, ColumnOf(call, bid)) /\ Has(call, ColumnOf(call, ask))
        /\ \E i \in DOMAIN rows :
             Above(rows[i][ColumnOf(call, bid)], rows[i][ColumnOf(call, ask)])

(* (~closed).any(): a null marker is not a violation. *)
NotFinal(row) == row.closed = 0
FinalViolated(call, rows) ==
  /\ call.closed_col /\ Has(call, "closed")
  /\ \E i \in DOMAIN rows : NotFinal(rows[i])

Times(rows) == {rows[i].timestamp : i \in DOMAIN rows}
SymbolsOf(rows) == {rows[i].symbol : i \in DOMAIN rows}
Present(rows, t) == {rows[i].symbol : i \in {i \in DOMAIN rows : rows[i].timestamp = t}}

(* _validated_membership: a column is missing or of another type. *)
MembershipViolated(call) ==
  /\ call.membership # << >>
  /\ LET cols == call.membership[1].cols
     IN  cols["symbol"] # "string" \/ cols["start"] # "utc" \/ cols["end"] # "utc"

(* The members of an as-of universe at time t: the windows are half-open,   *)
(* one without a start has not begun and one without an end has not ended.  *)
MembersAt(membership, t) ==
  {m.symbol : m \in {m \in membership.rows :
     /\ Null \notin {t, m.start} /\ m.start <= t
     /\ m.end = Null \/ t < m.end}}

(* Mutant: the expected cross-section is inferred from the frame. *)
IncompleteInferred(call, rows) ==
  \E t \in Times(rows) : Cardinality(Present(rows, t)) # Cardinality(SymbolsOf(rows))

(* _incomplete_cross_section: membership takes precedence; a static         *)
(* universe, or the symbols of the frame, is compared by its size.          *)
Incomplete(call, rows) ==
  IF call.membership # << >>
  THEN \E t \in Times(rows) :
         ~ (MembersAt(call.membership[1], t) \subseteq Present(rows, t))
  ELSE LET expected == IF call.universe # << >> THEN Cardinality(call.universe[1])
                       ELSE Cardinality(SymbolsOf(rows))
       IN  \E t \in Times(rows) : Cardinality(Present(rows, t)) # expected

-----------------------------------------------------------------------------
(* validate: the checks in order; the first that raises is the verdict.     *)

Checks == <<"timestamp", "roles", "symbol", "order", "ohlc", "quotes",
            "final", "not_panel", "membership", "panel">>
SoftChecks == {"final", "panel"}

Violated(call, rows, check) ==
  CASE check = "timestamp" -> TimestampViolated(call)
    [] check = "roles"     -> RolesViolated(call)
    [] check = "symbol"    -> SymbolViolated(call)
    [] check = "order"     -> OrderViolated(call, rows)
    [] check = "ohlc"      -> OhlcViolated(call, rows)
    [] check = "quotes"    -> QuotesViolated(call, rows)
    [] check = "final"     -> FinalViolated(call, rows)
    [] check = "not_panel" -> CompletePanel(call) /\ ~ IsPanel(call)
    [] check = "membership" -> CompletePanel(call) /\ MembershipViolated(call)
    [] check = "panel"     -> CompletePanel(call) /\ Incomplete(call, rows)

(* Mutant: RESEARCH forgives the order of timestamps too. *)
RaisesUnlessResearch(call, rows, check) ==
  /\ Violated(call, rows, check)
  /\ check \in SoftChecks \cup {"order"} => call.mode = "STRICT"

(* _soft_check: a soft violation raises under STRICT, is a warning under    *)
(* RESEARCH.                                                                *)
Raises(call, rows, check) ==
  /\ Violated(call, rows, check)
  /\ check \in SoftChecks => call.mode = "STRICT"

(* "ok", or the check that raised. *)
Validate(call, rows) ==
  IF call.mode = "OFF" THEN "ok"
  ELSE LET raised == {k \in DOMAIN Checks : Raises(call, rows, Checks[k])}
       IN  IF raised = {} THEN "ok" ELSE Checks[Min(raised)]

(* The warnings a caller of validate sees when nothing raised. *)
Warnings(call, rows) ==
  IF call.mode = "RESEARCH" /\ Validate(call, rows) = "ok"
  THEN {check \in SoftChecks : Violated(call, rows, check)}
  ELSE {}

-----------------------------------------------------------------------------
(* audit_frame: the same checks, counted.                                   *)

Key(call, row) == <<IF IsPanel(call) THEN row.symbol ELSE "all", row.timestamp>>

(* The rows a basis that resolves and is there finds out of order. *)
OhlcViolations(call, rows, basis) ==
  IF ResolvesOhlc(call, basis) /\ OhlcPresent(call, basis)
  THEN Cardinality({i \in DOMAIN rows : BadOhlc(rows[i], OhlcColumns(call, basis))})
  ELSE 0

(* The expected cross-section of the audit is always the frame's own. *)
AuditFrame(call, rows) ==
  [timestamp_utc_ok |-> ~ TimestampViolated(call),
   missing_roles |->
     {role \in RequiredRoles(call) :
        \/ role \notin DeclaredRoles(call)
        \/ ~ Has(call, ColumnOf(call, role))},
   ohlc_violations |->
     OhlcViolations(call, rows, Adjustments[1]) + OhlcViolations(call, rows, Adjustments[2])
       + OhlcViolations(call, rows, Adjustments[3]),
   duplicate_keys |->
     IF ~ Has(call, "timestamp") THEN 0
     ELSE Len(rows) - Cardinality({Key(call, rows[i]) : i \in DOMAIN rows}),
   non_final_bars |->
     IF call.closed_col /\ Has(call, "closed")
     THEN Cardinality({i \in DOMAIN rows : NotFinal(rows[i])}) ELSE 0,
   full_timestamps |->
     {t \in Times(rows) : Present(rows, t) = SymbolsOf(rows)}]
=============================================================================
