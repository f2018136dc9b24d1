----------------------------- MODULE TradeStart -----------------------------
(***************************************************************************)
(* evaluate_trade_start_conditions of pinebitz/api/app.py: the AND-chain   *)
(* of a plan's clauses.  The plan is edited in the dashboard while the     *)
(* same alert, written for an earlier version of it, keeps coming in.      *)
(***************************************************************************)
EXTENDS Integers, SequencesExt

CONSTANTS
  None,
  Clauses,      \* the clauses a plan can list
  Alerts,       \* what an alert can say
  MaxClauses    \* bound: clauses of a plan

VARIABLES
  enabled,   \* trade_start_conditions.enabled
  clauses,   \* trade_start_conditions.conditions
  alert      \* the signal that keeps arriving

vars == <<enabled, clauses, alert>>

Oscillators == {"rsi", "mfi", "cci", "ultimate_oscillator"}
TechnicalKinds == Oscillators \cup
  {"adx", "bollinger_pctb", "ma", "stochastic", "macd", "parabolic_sar", "heikin_ashi"}

\* A clause: its kind and those of its params that the kind has, the defaults
\* filled in; the API stores nothing that is not such a clause.  compare and level
\* belong to the oscillators, adx and stochastic; way is the choice between two
\* directions the other technical kinds and stochastic have; line is macd's second.
Clause == [kind : STRING, compare : STRING, level : Int \cup {None}, way : STRING,
           line : STRING, frame : STRING, side : STRING \cup {None}]

\* A signal: side, timeframe tokens as written, the readable numbers of its
\* payload by the path they lie under, heikin_ashi's colour, and pinebitz_tsc.
\* Positions in proofs and plans count from 1 here, from 0 in the code.
Sides == {"buy", "sell", "close", "close_all"}

ASSUME TradeStartConstants ==
  /\ Clauses \subseteq Clause
  /\ \A s \in Alerts : /\ s.side \in Sides
                       /\ s.color \in {None, "bullish", "bearish"}
                       /\ \A place \in DOMAIN s.numbers : s.numbers[place] \in Int
  /\ MaxClauses \in Nat

\* A plan lists clauses, and the alert is one of those that can come.
TypeOK ==
  /\ enabled \in BOOLEAN
  /\ Len(clauses) <= MaxClauses /\ Range(clauses) \subseteq Clauses
  /\ alert \in Alerts

-----------------------------------------------------------------------------
\* _norm_timeframe_token, in lower case and without blanks.
Alias(token) ==
  CASE token = "60m" -> "1h" [] token = "240m" -> "4h"
    [] token \in {"1440m", "daily"} -> "1d" [] OTHER -> token

\* What TradingView writes for an interval of minutes.
Digits == {"1", "3", "5", "15", "60", "240", "1440"}

\* _signal_timeframe_tokens: of every timeframe the payload names.
Frames(s) ==
  {Alias(t) : t \in s.frames} \cup {Alias(t \o "m") : t \in s.frames \cap Digits}

\* _desired_screener_side and _side_matches_screener
SideMatches(side, want) ==
  \/ want \in {None, ""}
  \/ want \in {"buy", "long"} /\ side = "buy"
  \/ want \in {"sell", "short"} /\ side = "sell"

\* _trade_start_proof_for_row: what the payload itself says of the clause.
Proof(s, i, kind) ==
  IF i \in DOMAIN s.byIndex THEN s.byIndex[i]
  ELSE IF kind \in DOMAIN s.byKind THEN s.byKind[kind]
  ELSE IF i \in DOMAIN s.results /\ s.results[i].kind = kind THEN s.results[i].ok
  ELSE None

Under(prefix, names) == [n \in DOMAIN names |-> Append(prefix, names[n])]

\* Where _indicator_metric looks for a number of that kind, in this order.  The
\* name rsi_value of the payload is the path <<"prefix", "rsi", "value">>.
Places(kind, names) ==
  Under(<<>>, names) \o Under(<<"prefix", kind>>, names)
    \o Under(<<"indicators", kind>>, names) \o Under(<<"pinebitz_indicators", kind>>, names)
    \o Under(<<"indicator_values", kind>>, names) \o Under(<<kind>>, names)

\* The first of the places that holds a readable number, and the number there.
FirstOf(s, places) ==
  LET n == SelectInSeq(places, LAMBDA place : place \in DOMAIN s.numbers)
  IN  IF n = 0 THEN None ELSE places[n]
NumberAt(s, place) == IF place = None THEN None ELSE s.numbers[place]

\* The names each number of a kind goes by.
Names(kind) ==
  CASE kind = "bollinger_pctb" -> [value |-> <<"pctb", "percent_b", "value">>]
    [] kind = "parabolic_sar" -> [value |-> <<"sar", "psar", "value">>]
    [] kind = "stochastic" -> [value |-> <<"k", "stoch_k", "k_value">>,
                               other |-> <<"d", "stoch_d", "d_value">>]
    [] kind = "macd" -> [value |-> <<"macd", "macd_line", "value">>,
                         other |-> <<"signal", "signal_line">>]
    [] kind = "heikin_ashi" -> [value |-> <<"ha_close", "close">>, other |-> <<"ha_open", "open">>]
    [] OTHER -> [value |-> <<kind, "value">>]

\* Where the clause's number comes from.
Source(s, kind, which) == FirstOf(s, Places(kind, Names(kind)[which]))

\* signal.price, which normalize_tradingview_signal reads from the same payload.
Price(s) == NumberAt(s, FirstOf(s, Under(<<>>, <<"price", "close", "entry_price">>)))

\* Mutants: equal is over, too; a missing number is a zero.
OverOrAt(a, b) == None \notin {a, b} /\ a >= b
OverMissing(a, b) == (IF a = None THEN 0 ELSE a) > (IF b = None THEN 0 ELSE b)
Over(a, b) == None \notin {a, b} /\ a > b

\* _compare_numeric
Compare(left, op, right) ==
  /\ None \notin {left, right}
  /\ \/ op = "lt" /\ left < right
     \/ op = "gt" /\ left > right
     \/ op = "lte" /\ left <= right
     \/ op = "gte" /\ left >= right

\* _evaluate_technical_row
TechnicalOk(row, s) ==
  LET kind == row.kind
      value == NumberAt(s, Source(s, kind, "value"))
      other == NumberAt(s, Source(s, kind, "other"))
      price == Price(s)
  IN  CASE kind \in Oscillators -> Compare(value, row.compare, row.level)
        [] kind = "adx" -> Compare(value, "gte", row.level)
        [] kind = "bollinger_pctb" -> \/ row.way = "below_lower" /\ Over(0, value)
                                      \/ row.way = "above_upper" /\ Over(value, 1)
        [] kind = "ma" -> \/ row.way = "price_above" /\ Over(price, value)
                          \/ row.way = "price_below" /\ Over(value, price)
        [] kind = "stochastic" ->
             /\ Compare(value, row.compare, row.level)
             /\ IF row.way = "k_cross_up_d" THEN Over(value, other) ELSE Over(other, value)
        [] kind = "macd" ->
             /\ IF row.way = "crossing_up" THEN Over(value, other) ELSE Over(other, value)
             /\ IF row.line = "less_than_0" THEN Over(0, value) ELSE Over(value, 0)
        [] kind = "parabolic_sar" -> \/ row.way = "flip_bull" /\ Over(price, value)
                                     \/ row.way = "flip_bear" /\ Over(value, price)
        [] kind = "heikin_ashi" /\ s.color # None -> s.color = row.way
        [] OTHER -> /\ None \notin {value, other}
                    /\ \/ row.way = "bullish" /\ value > other
                       \/ row.way = "bearish" /\ value <= other

\* The body of the loop for the clause at position i.
Satisfied(s, i, row) ==
  LET proof == Proof(s, i, row.kind)
  IN  IF proof # None THEN proof
      ELSE \/ row.kind = "tv_webhook"
           \/ /\ row.kind = "tv_screener"
              /\ row.frame # "" => Alias(row.frame) \in Frames(s)
              /\ SideMatches(s.side, row.side)
           \/ row.kind = "qfl_long" /\ s.side = "buy"
           \/ row.kind \in TechnicalKinds /\ TechnicalOk(row, s)

\* The clauses that reject. Mutant: the loop ends with the first that is met.
FailingUntilMet(s, rows) ==
  {i \in DOMAIN rows : \A j \in 1..i : ~Satisfied(s, j, rows[j])}
Failing(s, rows) == {i \in DOMAIN rows : ~Satisfied(s, i, rows[i])}

\* evaluate_trade_start_conditions, its "passed"
Passed(s, rows) == Failing(s, rows) = {}

-----------------------------------------------------------------------------
Init == enabled = FALSE /\ clauses = <<>> /\ alert \in Alerts

\* The clauses of PATCH /bot-plans/{id}: add, remove, or tick the box.
AddClause(row) ==
  /\ Len(clauses) < MaxClauses
  /\ clauses' = Append(clauses, row)
  /\ UNCHANGED <<enabled, alert>>
RemoveClause(i) == clauses' = RemoveAt(clauses, i) /\ UNCHANGED <<enabled, alert>>
Enable == enabled' = ~enabled /\ UNCHANGED <<clauses, alert>>

Starts == enabled => Passed(alert, clauses)

Next ==
  \/ \E row \in Clauses : AddClause(row)
  \/ \E i \in DOMAIN clauses : RemoveClause(i)
  \/ Enable

Spec == Init /\ [][Next]_vars
-----------------------------------------------------------------------------
Unproved(s) == s.byIndex = <<>> /\ s.byKind = <<>> /\ s.results = <<>>

\* Silence rejects: a technical clause is never satisfied, its proofs aside, by a
\* signal that lacks a number the kind needs, in whatever place it looks for it,
\* and the price or the colour that some kinds need (every *_missing reason).
NoPassWithoutEvidence ==
  Starts /\ enabled =>
    \A i \in DOMAIN clauses :
      LET kind == clauses[i].kind
      IN  kind \in TechnicalKinds /\ Proof(alert, i, kind) = None =>
            \/ kind = "heikin_ashi" /\ alert.color # None
            \/ /\ \A which \in DOMAIN Names(kind) : Source(alert, kind, which) # None
               /\ kind \in {"ma", "parabolic_sar"} => Price(alert) # None

\* A plan that lets the alert through still does when it loses a clause, its last
\* one, or any if the alert proves nothing by position; so adding a clause never
\* opens a plan (the AND of the whole loop, against the positions of proofs).
FewerClausesStillPass ==
  enabled /\ Starts =>
    \A i \in DOMAIN clauses :
      i = Len(clauses) \/ (alert.byIndex = <<>> /\ alert.results = <<>>) =>
        Passed(alert, RemoveAt(clauses, i))

\* The two directions of the kinds that have a choice of two.
Directions(kind) ==
  CASE kind = "bollinger_pctb" -> {"below_lower", "above_upper"}
    [] kind = "ma" -> {"price_above", "price_below"}
    [] kind = "stochastic" -> {"k_cross_up_d", "k_cross_down_d"}
    [] kind = "macd" -> {"crossing_up", "crossing_down"}
    [] kind = "parabolic_sar" -> {"flip_bull", "flip_bear"}
    [] kind = "heikin_ashi" -> {"bullish", "bearish"}
    [] OTHER -> {}
Opposites(r, q) ==
  /\ r.kind = q.kind
  /\ \/ {r.way, q.way} = Directions(r.kind)
     \/ /\ r.kind \in Oscillators /\ r.level = q.level
        /\ {r.compare, q.compare} \in {{"lt", "gte"}, {"gt", "lte"}, {"lt", "gt"}}

\* No market state satisfies a clause and its opposite: a signal without proofs
\* never starts a plan that lists both, at no boundary of the numbers either
\* (the comparisons of _evaluate_technical_row).
OppositesExclude ==
  Unproved(alert) /\ enabled /\ Starts =>
    \A i, j \in DOMAIN clauses : ~Opposites(clauses[i], clauses[j])
=============================================================================
