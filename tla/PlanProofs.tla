----------------------------- MODULE PlanProofs -----------------------------
(***************************************************************************)
(* What the rules of a plan can be relied on for.                          *)
(*                                                                         *)
(* TradeStart, when a trade starts, whatever the clauses, the alerts and   *)
(* their number: silence rejects, a clause less never closes a plan, and a *)
(* clause and its opposite never hold together.                            *)
(*                                                                         *)
(* DcaSimulation, how its position is averaged, whatever the configuration *)
(* and the path: the filled orders are those reached, every order moves    *)
(* the average towards the market, a position closes for the reason given, *)
(* and the profit reported is that of the orders.                          *)
(***************************************************************************)
EXTENDS TradeStart, DcaSimulation, SetSums, SequenceTheorems

ClausesInv == clauses \in Seq(Clauses) /\ TypeOK

-----------------------------------------------------------------------------
LEMMA PlansAreTyped == Spec => []ClausesInv
<1>1. Init => ClausesInv
  <2>. SUFFICES ASSUME Init
                PROVE  ClausesInv
    OBVIOUS
  <2>1. clauses \in Seq(Clauses) /\ Len(clauses) = 0 /\ DOMAIN clauses = 1..0
    BY DEF Init
  <2>2. Range(clauses) \subseteq Clauses
    BY <2>1 DEF Range
  <2>3. Len(clauses) <= MaxClauses
    BY <2>1, TradeStartConstants DEF TradeStartConstants
  <2>4. enabled \in BOOLEAN /\ alert \in Alerts
    BY DEF Init
  <2>. QED
    BY <2>1, <2>2, <2>3, <2>4 DEF Init, ClausesInv, TypeOK
<1>2. ClausesInv /\ [Next]_vars => ClausesInv'
  <2>. SUFFICES ASSUME ClausesInv, [Next]_vars
                PROVE  ClausesInv'
    OBVIOUS
  <2>. USE DEF ClausesInv, TypeOK, Range
  <2>1. ASSUME NEW row \in Clauses, AddClause(row)
        PROVE  ClausesInv'
    <3>1. Append(clauses, row) \in Seq(Clauses) /\ Len(Append(clauses, row)) = Len(clauses) + 1
      BY AppendProperties
    <3>2. clauses' \in Seq(Clauses) /\ Len(clauses') <= MaxClauses
      BY <2>1, <3>1, TradeStartConstants DEF AddClause
    <3>. QED
      BY <2>1, <3>2 DEF AddClause
  <2>2. ASSUME NEW i \in DOMAIN clauses, RemoveClause(i)
        PROVE  ClausesInv'
    <3>1. i \in 1..Len(clauses)
      BY LenProperties
    <3>2. clauses' = SubSeq(clauses, 1, i - 1) \o SubSeq(clauses, i + 1, Len(clauses))
      BY <2>2 DEF RemoveClause, RemoveAt
    <3>3. clauses' \in Seq(Clauses) /\ Len(clauses') = Len(clauses) - 1
      BY <3>1, <3>2, WithoutOne DEF Closes
    <3>. QED
      BY <2>2, <3>1, <3>3, TradeStartConstants DEF RemoveClause, TradeStartConstants
  <2>3. CASE Enable
    BY <2>3 DEF Enable
  <2>4. CASE UNCHANGED vars
    BY <2>4 DEF vars
  <2>. QED
    BY <2>1, <2>2, <2>3, <2>4 DEF Next
<1>. QED
  BY <1>1, <1>2, PTL DEF Spec

\* Whatever is added and removed, a plan lists clauses, no more than it may, and the
\* alert is one of those that can come.
THEOREM PlansTypeCorrect == Spec => []TypeOK
<1>1. ClausesInv => TypeOK
  BY DEF ClausesInv
<1>. QED
  BY <1>1, PlansAreTyped, PTL

-----------------------------------------------------------------------------
\* A number that was read is a number.
LEMMA NumbersAreNumbers ==
  ASSUME NEW s \in Alerts, NEW places, NEW S, places \in Seq(S)
  PROVE  NumberAt(s, FirstOf(s, places)) \in Int \cup {None}
<1>. DEFINE I == {n \in 1..Len(places) : places[n] \in DOMAIN s.numbers}
            n == SelectInSeq(places, LAMBDA place : place \in DOMAIN s.numbers)
<1>1. n = IF I # {} THEN Min(I) ELSE 0
  BY DEF SelectInSeq
<1>2. ASSUME I # {}
      PROVE  Min(I) \in I
  <2>1. Len(places) \in Int /\ 1 \in Int
    OBVIOUS
  <2>2. IsFiniteSet(1..Len(places)) /\ I \in SUBSET (1..Len(places))
    BY <2>1, FS_Interval
  <2>3. IsFiniteSet(I) /\ I \subseteq Int
    BY <2>1, <2>2, FS_Subset
  <2>. HIDE DEF I
  <2>4. \E x \in I : \A y \in I : x <= y
    BY <1>2, <2>3, LeastNumber
  <2>. QED
    BY <2>4 DEF Min
<1>3. CASE I = {}
  <2>1. FirstOf(s, places) = None
    BY <1>1, <1>3 DEF FirstOf
  <2>. QED
    BY <2>1 DEF NumberAt
<1>4. CASE I # {}
  <2>1. n \in I /\ n # 0
    BY <1>1, <1>2, <1>4
  <2>2. FirstOf(s, places) = places[n] /\ places[n] \in DOMAIN s.numbers
    BY <2>1 DEF FirstOf
  <2>. QED
    BY <2>2, TradeStartConstants DEF NumberAt
<1>. QED
  BY <1>3, <1>4

\* A place that is none holds no number.
LEMMA NumbersHaveAPlace ==
  ASSUME NEW s, NEW place, NumberAt(s, place) # None
  PROVE  place # None
  BY DEF NumberAt

\* The words that paths are made of.
Words(kind) ==
  {kind, "prefix", "indicators", "pinebitz_indicators", "indicator_values", "value",
   "pctb", "percent_b", "sar", "psar", "k", "stoch_k", "k_value", "d", "stoch_d", "d_value",
   "macd", "macd_line", "signal", "signal_line", "ha_close", "close", "ha_open", "open",
   "price", "entry_price"}

LEMMA UnderIsListed ==
  ASSUME NEW W, NEW prefix \in Seq(W), NEW names \in Seq(W)
  PROVE  Under(prefix, names) \in Seq(Seq(W))
<1>1. DOMAIN names = 1..Len(names) /\ Len(names) \in Nat
  BY LenProperties
<1>2. \A n \in 1..Len(names) : Append(prefix, names[n]) \in Seq(W)
  BY <1>1, AppendProperties
<1>3. PICK f : f = Under(prefix, names)
  OBVIOUS
<1>4. f \in [1..Len(names) -> Seq(W)]
  BY <1>1, <1>2, <1>3 DEF Under
<1>5. f \in Seq(Seq(W))
  BY <1>1, <1>4
<1>. QED
  BY <1>3, <1>5

LEMMA PlacesAreListed ==
  ASSUME NEW W, NEW kind \in W, NEW names \in Seq(W),
         {"prefix", "indicators", "pinebitz_indicators", "indicator_values"} \subseteq W
  PROVE  Places(kind, names) \in Seq(Seq(W))
<1>1. /\ <<>> \in Seq(W)
      /\ \A one \in W : <<one>> \in Seq(W)
      /\ \A one, two \in W : <<one, two>> \in Seq(W)
  OBVIOUS
<1>2. \A a, b \in Seq(Seq(W)) : a \o b \in Seq(Seq(W))
  BY ConcatProperties
<1>3. /\ Under(<<>>, names) \in Seq(Seq(W))
      /\ Under(<<"prefix", kind>>, names) \in Seq(Seq(W))
      /\ Under(<<"indicators", kind>>, names) \in Seq(Seq(W))
      /\ Under(<<"pinebitz_indicators", kind>>, names) \in Seq(Seq(W))
      /\ Under(<<"indicator_values", kind>>, names) \in Seq(Seq(W))
      /\ Under(<<kind>>, names) \in Seq(Seq(W))
  BY <1>1, UnderIsListed
<1>. QED
  BY <1>2, <1>3 DEF Places

\* The value of a technical kind is a number or missing, and so is its other one.
LEMMA ReadingsAreNumbers ==
  ASSUME NEW s \in Alerts, NEW kind, NEW which \in DOMAIN Names(kind)
  PROVE  NumberAt(s, Source(s, kind, which)) \in Int \cup {None}
<1>1. PICK W : W = Words(kind)
  OBVIOUS
<1>2. Names(kind)[which] \in Seq(W)
  <2>1. /\ \A a, b \in W : <<a, b>> \in Seq(W)
        /\ \A a, b, c \in W : <<a, b, c>> \in Seq(W)
    OBVIOUS
  <2>2. /\ kind \in W /\ "value" \in W /\ "pctb" \in W /\ "percent_b" \in W
        /\ "sar" \in W /\ "psar" \in W /\ "k" \in W /\ "stoch_k" \in W
        /\ "k_value" \in W /\ "d" \in W /\ "stoch_d" \in W /\ "d_value" \in W
        /\ "macd" \in W /\ "macd_line" \in W /\ "signal" \in W
        /\ "signal_line" \in W /\ "ha_close" \in W /\ "close" \in W
        /\ "ha_open" \in W /\ "open" \in W
    BY <1>1 DEF Words
  <2>3. CASE kind = "bollinger_pctb"
    <3>1. Names(kind) = [value |-> <<"pctb", "percent_b", "value">>]
      BY <2>3 DEF Names
    <3>2. <<"pctb", "percent_b", "value">> \in Seq(W)
      BY <2>1, <2>2
    <3>3. which = "value"
      BY <3>1
    <3>4. Names(kind)["value"] = <<"pctb", "percent_b", "value">>
      BY <3>1
    <3>. QED
      BY <3>2, <3>3, <3>4
  <2>4. CASE kind = "parabolic_sar"
    <3>1. Names(kind) = [value |-> <<"sar", "psar", "value">>]
      BY <2>4 DEF Names
    <3>2. <<"sar", "psar", "value">> \in Seq(W)
      BY <2>1, <2>2
    <3>3. which = "value"
      BY <3>1
    <3>4. Names(kind)["value"] = <<"sar", "psar", "value">>
      BY <3>1
    <3>. QED
      BY <3>2, <3>3, <3>4
  <2>5. CASE kind = "stochastic"
    <3>1. Names(kind) = [value |-> <<"k", "stoch_k", "k_value">>,
                         other |-> <<"d", "stoch_d", "d_value">>]
      BY <2>5 DEF Names
    <3>2. /\ <<"k", "stoch_k", "k_value">> \in Seq(W)
           /\ <<"d", "stoch_d", "d_value">> \in Seq(W)
      BY <2>1, <2>2
    <3>3. which \in {"value", "other"}
      BY <3>1
    <3>4. /\ Names(kind)["value"] = <<"k", "stoch_k", "k_value">>
          /\ Names(kind)["other"] = <<"d", "stoch_d", "d_value">>
      BY <3>1
    <3>. QED
      BY <3>2, <3>3, <3>4
  <2>6. CASE kind = "macd"
    <3>1. Names(kind) = [value |-> <<"macd", "macd_line", "value">>,
                         other |-> <<"signal", "signal_line">>]
      BY <2>6 DEF Names
    <3>2. /\ <<"macd", "macd_line", "value">> \in Seq(W)
           /\ <<"signal", "signal_line">> \in Seq(W)
      BY <2>1, <2>2
    <3>3. which \in {"value", "other"}
      BY <3>1
    <3>4. /\ Names(kind)["value"] = <<"macd", "macd_line", "value">>
          /\ Names(kind)["other"] = <<"signal", "signal_line">>
      BY <3>1
    <3>. QED
      BY <3>2, <3>3, <3>4
  <2>7. CASE kind = "heikin_ashi"
    <3>1. Names(kind) = [value |-> <<"ha_close", "close">>, other |-> <<"ha_open", "open">>]
      BY <2>7 DEF Names
    <3>2. /\ <<"ha_close", "close">> \in Seq(W)
           /\ <<"ha_open", "open">> \in Seq(W)
      BY <2>1, <2>2
    <3>3. which \in {"value", "other"}
      BY <3>1
    <3>4. /\ Names(kind)["value"] = <<"ha_close", "close">>
          /\ Names(kind)["other"] = <<"ha_open", "open">>
      BY <3>1
    <3>. QED
      BY <3>2, <3>3, <3>4
  <2>8. CASE kind \notin {"bollinger_pctb", "parabolic_sar", "stochastic", "macd", "heikin_ashi"}
    <3>1. Names(kind) = [value |-> <<kind, "value">>]
      BY <2>8 DEF Names
    <3>2. <<kind, "value">> \in Seq(W)
      BY <2>1, <2>2
    <3>3. which = "value"
      BY <3>1
    <3>4. Names(kind)["value"] = <<kind, "value">>
      BY <3>1
    <3>. QED
      BY <3>2, <3>3, <3>4
  <2>. QED
    BY <2>3, <2>4, <2>5, <2>6, <2>7, <2>8
<1>3. Places(kind, Names(kind)[which]) \in Seq(Seq(W))
  BY <1>1, <1>2, PlacesAreListed DEF Words
<1>. QED
  BY <1>3, NumbersAreNumbers DEF Source

LEMMA PricesAreNumbers ==
  ASSUME NEW s \in Alerts
  PROVE  Price(s) \in Int \cup {None}
<1>1. PICK W : W = Words("value")
  OBVIOUS
<1>2. <<>> \in Seq(W) /\ <<"price", "close", "entry_price">> \in Seq(W)
  BY <1>1 DEF Words
<1>3. Under(<<>>, <<"price", "close", "entry_price">>) \in Seq(Seq(W))
  BY <1>2, UnderIsListed
<1>. QED
  BY <1>3, NumbersAreNumbers DEF Price

-----------------------------------------------------------------------------
\* The readings a technical clause compares.
Value(row, s) == NumberAt(s, Source(s, row.kind, "value"))
Other(row, s) == NumberAt(s, Source(s, row.kind, "other"))

\* What a satisfied clause of each kind says of its readings.
LEMMA OscillatorOk ==
  ASSUME NEW s, NEW row, row.kind \in Oscillators, TechnicalOk(row, s)
  PROVE  Compare(Value(row, s), row.compare, row.level)
  BY DEF TechnicalOk, Value, Oscillators

LEMMA AdxOk ==
  ASSUME NEW s, NEW row, row.kind = "adx", TechnicalOk(row, s)
  PROVE  Compare(Value(row, s), "gte", row.level)
  BY DEF TechnicalOk, Value, Oscillators

LEMMA BollingerOk ==
  ASSUME NEW s, NEW row, row.kind = "bollinger_pctb", TechnicalOk(row, s)
  PROVE  \/ row.way = "below_lower" /\ Over(0, Value(row, s))
         \/ row.way = "above_upper" /\ Over(Value(row, s), 1)
  BY DEF TechnicalOk, Value, Oscillators

LEMMA AverageOk ==
  ASSUME NEW s, NEW row, row.kind = "ma", TechnicalOk(row, s)
  PROVE  \/ row.way = "price_above" /\ Over(Price(s), Value(row, s))
         \/ row.way = "price_below" /\ Over(Value(row, s), Price(s))
  BY DEF TechnicalOk, Value, Oscillators

LEMMA StochasticOk ==
  ASSUME NEW s, NEW row, row.kind = "stochastic", TechnicalOk(row, s)
  PROVE  IF row.way = "k_cross_up_d" THEN Over(Value(row, s), Other(row, s))
                                     ELSE Over(Other(row, s), Value(row, s))
  BY DEF TechnicalOk, Value, Other, Oscillators

LEMMA MacdOk ==
  ASSUME NEW s, NEW row, row.kind = "macd", TechnicalOk(row, s)
  PROVE  IF row.way = "crossing_up" THEN Over(Value(row, s), Other(row, s))
                                    ELSE Over(Other(row, s), Value(row, s))
  BY DEF TechnicalOk, Value, Other, Oscillators

LEMMA SarOk ==
  ASSUME NEW s, NEW row, row.kind = "parabolic_sar", TechnicalOk(row, s)
  PROVE  \/ row.way = "flip_bull" /\ Over(Price(s), Value(row, s))
         \/ row.way = "flip_bear" /\ Over(Value(row, s), Price(s))
  BY DEF TechnicalOk, Value, Oscillators

LEMMA CandleOk ==
  ASSUME NEW s, NEW row, row.kind = "heikin_ashi", TechnicalOk(row, s)
  PROVE  IF s.color # None THEN s.color = row.way
         ELSE /\ None \notin {Value(row, s), Other(row, s)}
              /\ \/ row.way = "bullish" /\ Value(row, s) > Other(row, s)
                 \/ row.way = "bearish" /\ Value(row, s) <= Other(row, s)
  BY DEF TechnicalOk, Value, Other, Oscillators

\* A satisfied technical clause has its evidence.
Evidence(row, s) ==
  \/ row.kind = "heikin_ashi" /\ s.color # None
  \/ /\ \A which \in DOMAIN Names(row.kind) : Source(s, row.kind, which) # None
     /\ row.kind \in {"ma", "parabolic_sar"} => Price(s) # None

LEMMA SatisfiedHasEvidence ==
  ASSUME NEW s, NEW row, row.kind \in TechnicalKinds, TechnicalOk(row, s)
  PROVE  Evidence(row, s)
<1>1. ASSUME Value(row, s) # None,
             row.kind \in {"stochastic", "macd", "heikin_ashi"} => Other(row, s) # None
      PROVE  \A which \in DOMAIN Names(row.kind) : Source(s, row.kind, which) # None
  <2>1. /\ Source(s, row.kind, "value") # None
        /\ row.kind \in {"stochastic", "macd", "heikin_ashi"} => Source(s, row.kind, "other") # None
    BY <1>1, NumbersHaveAPlace DEF Value, Other
  <2>2. CASE row.kind \in {"stochastic", "macd", "heikin_ashi"}
    <3>1. DOMAIN Names(row.kind) = {"value", "other"}
      BY <2>2 DEF Names
    <3>. QED
      BY <2>1, <2>2, <3>1
  <2>3. CASE row.kind \notin {"stochastic", "macd", "heikin_ashi"}
    <3>1. DOMAIN Names(row.kind) = {"value"}
      BY <2>3 DEF Names
    <3>. QED
      BY <2>1, <3>1
  <2>. QED
    BY <2>2, <2>3
<1>2. CASE row.kind \in Oscillators
  BY <1>1, <1>2, OscillatorOk DEF Compare, Evidence, Oscillators
<1>3. CASE row.kind = "adx"
  BY <1>1, <1>3, AdxOk DEF Compare, Evidence
<1>4. CASE row.kind = "bollinger_pctb"
  BY <1>1, <1>4, BollingerOk DEF Over, Evidence
<1>5. CASE row.kind = "ma"
  BY <1>1, <1>5, AverageOk DEF Over, Evidence
<1>6. CASE row.kind = "stochastic"
  BY <1>1, <1>6, StochasticOk DEF Over, Evidence
<1>7. CASE row.kind = "macd"
  BY <1>1, <1>7, MacdOk DEF Over, Evidence
<1>8. CASE row.kind = "parabolic_sar"
  BY <1>1, <1>8, SarOk DEF Over, Evidence
<1>9. CASE row.kind = "heikin_ashi"
  BY <1>1, <1>9, CandleOk DEF Evidence
<1>. QED
  BY <1>2, <1>3, <1>4, <1>5, <1>6, <1>7, <1>8, <1>9 DEF TechnicalKinds

\* Every clause of a plan that starts is satisfied.
LEMMA AllAreSatisfied ==
  ASSUME NEW s, NEW rows, Passed(s, rows), NEW i \in DOMAIN rows
  PROVE  Satisfied(s, i, rows[i])
  BY DEF Passed, Failing

LEMMA UnprovedTechnical ==
  ASSUME NEW s, NEW i, NEW row, row.kind \in TechnicalKinds,
         Proof(s, i, row.kind) = None, Satisfied(s, i, row)
  PROVE  TechnicalOk(row, s)
<1>1. row.kind \notin {"tv_webhook", "tv_screener", "qfl_long"}
  BY DEF TechnicalKinds, Oscillators
<1>. QED
  BY <1>1 DEF Satisfied

\* Silence rejects: a technical clause is never satisfied, its proofs aside, by a
\* signal that lacks a number the kind needs (_evaluate_technical_row, all its
\* *_missing reasons), whatever the clauses and the alerts.
THEOREM SilenceRejects == Spec => []NoPassWithoutEvidence
<1>1. NoPassWithoutEvidence
  <2>1. ASSUME Passed(alert, clauses), NEW i \in DOMAIN clauses,
               clauses[i].kind \in TechnicalKinds, Proof(alert, i, clauses[i].kind) = None
        PROVE  Evidence(clauses[i], alert)
    BY <2>1, AllAreSatisfied, UnprovedTechnical, SatisfiedHasEvidence
  <2>. QED
    BY <2>1 DEF NoPassWithoutEvidence, Starts, Evidence
<1>. QED
  BY <1>1, PTL

-----------------------------------------------------------------------------
\* What a signal that proves nothing by position says does not depend on it.
LEMMA PositionIsIdle ==
  ASSUME NEW s, NEW i, NEW j, NEW row, s.byIndex = <<>>, s.results = <<>>,
         Satisfied(s, i, row)
  PROVE  Satisfied(s, j, row)
<1>1. DOMAIN s.byIndex = {} /\ DOMAIN s.results = {}
  BY EmptySeq
<1>2. Proof(s, i, row.kind) = Proof(s, j, row.kind)
  BY <1>1 DEF Proof
<1>. QED
  BY <1>2 DEF Satisfied

\* A plan that starts still does when it loses its last clause, or any when the
\* alert proves nothing by position: the AND of evaluate_trade_start_conditions
\* against the indexes of _trade_start_proof_for_row.
THEOREM LosingClausesStarts == Spec => []FewerClausesStillPass
<1>1. ClausesInv => FewerClausesStillPass
  <2>. SUFFICES ASSUME ClausesInv, Passed(alert, clauses), NEW i \in DOMAIN clauses,
                       i = Len(clauses) \/ (alert.byIndex = <<>> /\ alert.results = <<>>)
                PROVE  Passed(alert, RemoveAt(clauses, i))
    BY DEF FewerClausesStillPass, Starts
  <2>. PICK rest : rest = RemoveAt(clauses, i)
    OBVIOUS
  <2>1. /\ DOMAIN clauses = 1..Len(clauses) /\ Len(clauses) \in Nat
        /\ rest \in Seq(Clauses) /\ DOMAIN rest = 1..(Len(clauses) - 1)
        /\ \A j \in 1..(Len(clauses) - 1) :
             rest[j] = IF j < i THEN clauses[j] ELSE clauses[j + 1]
    <3>1. clauses \in Seq(Clauses)
      BY DEF ClausesInv
    <3>2. DOMAIN clauses = 1..Len(clauses) /\ Len(clauses) \in Nat
      BY <3>1, LenProperties
    <3>3. i \in 1..Len(clauses)
      BY <3>2
    <3>4. rest \in Seq(Clauses) /\ Len(rest) = Len(clauses) - 1
      BY <3>1, <3>3, WithoutOne DEF RemoveAt, Closes
    <3>5. \A j \in 1..(Len(clauses) - 1) :
            rest[j] = IF j < i THEN clauses[j] ELSE clauses[j + 1]
      BY <3>1, <3>3, WithoutOne DEF RemoveAt, Closes
    <3>6. DOMAIN rest = 1..(Len(clauses) - 1)
      BY <3>4, LenProperties
    <3>. QED
      BY <3>2, <3>4, <3>5, <3>6
  <2>2. ASSUME NEW j \in DOMAIN rest
        PROVE  Satisfied(alert, j, rest[j])
    <3>1. CASE j < i
      <4>1. rest[j] = clauses[j] /\ j \in DOMAIN clauses
        BY <2>1, <3>1
      <4>. QED
        BY <4>1, AllAreSatisfied
    <3>2. CASE ~(j < i)
      <4>1. rest[j] = clauses[j + 1] /\ j + 1 \in DOMAIN clauses /\ i # Len(clauses)
        BY <2>1, <3>2
      <4>2. Satisfied(alert, j + 1, clauses[j + 1])
        BY <4>1, AllAreSatisfied
      <4>. QED
        BY <4>1, <4>2, PositionIsIdle
    <3>. QED
      BY <3>1, <3>2
  <2>. QED
    BY <2>2 DEF Passed, Failing
<1>. QED
  BY <1>1, PlansAreTyped, PTL

-----------------------------------------------------------------------------
LEMMA SamePair ==
  ASSUME NEW a, NEW b, NEW up, NEW down, {a, b} = {up, down}
  PROVE  (a = up /\ b = down) \/ (a = down /\ b = up)
<1>1. a \in {up, down} /\ b \in {up, down} /\ up \in {a, b} /\ down \in {a, b}
  OBVIOUS
<1>. QED
  BY <1>1

\* One reading is not over another and under it.
LEMMA NotOverAndUnder ==
  ASSUME NEW a \in Int \cup {None}, NEW b \in Int \cup {None}
  PROVE  ~(Over(a, b) /\ Over(b, a))
  BY DEF Over

\* A reading is not below 0 and above 1.
LEMMA NotOutsideBoth ==
  ASSUME NEW a \in Int \cup {None}
  PROVE  ~(Over(0, a) /\ Over(a, 1))
  BY DEF Over

Contrary(p, q) == {p, q} \in {{"lt", "gte"}, {"gt", "lte"}, {"lt", "gt"}}

\* Two opposite comparisons of a reading with one level do not both hold.
LEMMA ComparisonsExclude ==
  ASSUME NEW a \in Int \cup {None}, NEW b \in Int \cup {None}, NEW p, NEW q,
         Contrary(p, q)
  PROVE  ~(Compare(a, p, b) /\ Compare(a, q, b))
<1>1. \/ {p, q} = {"lt", "gte"}
      \/ {p, q} = {"gt", "lte"}
      \/ {p, q} = {"lt", "gt"}
  BY DEF Contrary
<1>2. CASE {p, q} = {"lt", "gte"}
  <2>1. (p = "lt" /\ q = "gte") \/ (p = "gte" /\ q = "lt")
    BY <1>2, SamePair
  <2>. QED
    BY <2>1 DEF Compare
<1>3. CASE {p, q} = {"gt", "lte"}
  <2>1. (p = "gt" /\ q = "lte") \/ (p = "lte" /\ q = "gt")
    BY <1>3, SamePair
  <2>. QED
    BY <2>1 DEF Compare
<1>4. CASE {p, q} = {"lt", "gt"}
  <2>1. (p = "lt" /\ q = "gt") \/ (p = "gt" /\ q = "lt")
    BY <1>4, SamePair
  <2>. QED
    BY <2>1 DEF Compare
<1>. QED
  BY <1>1, <1>2, <1>3, <1>4

\* The oscillators and adx have no two directions.
LEMMA UndirectedKinds ==
  ASSUME NEW kind, kind \in Oscillators \/ kind = "adx", NEW a, NEW b
  PROVE  {a, b} # Directions(kind)
<1>1. kind \notin {"bollinger_pctb", "ma", "stochastic", "macd", "parabolic_sar", "heikin_ashi"}
  BY DEF Oscillators
<1>2. Directions(kind) = {}
  BY <1>1 DEF Directions
<1>3. a \in {a, b}
  OBVIOUS
<1>. QED
  BY <1>2, <1>3

\* Whatever a signal reads, it does not satisfy a technical clause and its opposite.
LEMMA OppositesClash ==
  ASSUME NEW s \in Alerts, NEW r \in Clauses, NEW q \in Clauses, Opposites(r, q),
         r.kind \in TechnicalKinds, TechnicalOk(r, s), TechnicalOk(q, s)
  PROVE  FALSE
<1>1. r.kind = q.kind /\ Value(r, s) = Value(q, s) /\ Other(r, s) = Other(q, s)
  BY DEF Opposites, Value, Other
<1>2. Value(r, s) \in Int \cup {None} /\ Price(s) \in Int \cup {None}
  <2>1. "value" \in DOMAIN Names(r.kind)
    BY DEF Names
  <2>. QED
    BY <2>1, ReadingsAreNumbers, PricesAreNumbers DEF Value
<1>3. r.kind \in {"stochastic", "macd", "heikin_ashi"} => Other(r, s) \in Int \cup {None}
  <2>. SUFFICES ASSUME r.kind \in {"stochastic", "macd", "heikin_ashi"}
                PROVE  Other(r, s) \in Int \cup {None}
    OBVIOUS
  <2>1. "other" \in DOMAIN Names(r.kind)
    BY DEF Names
  <2>. QED
    BY <2>1, ReadingsAreNumbers DEF Other
<1>4. CASE r.kind \in Oscillators
  <2>1. r.level = q.level /\ Contrary(r.compare, q.compare)
    BY <1>4, UndirectedKinds DEF Opposites, Contrary
  <2>2. r.level \in Int \cup {None}
    <3>1. r \in Clause
      BY TradeStartConstants DEF TradeStartConstants
    <3>. QED
      BY <3>1 DEF Clause
  <2>3. /\ Compare(Value(r, s), r.compare, r.level)
        /\ Compare(Value(r, s), q.compare, r.level)
    BY <1>1, <1>4, <2>1, OscillatorOk
  <2>. QED
    BY <1>2, <2>1, <2>2, <2>3, ComparisonsExclude
<1>5. CASE r.kind = "adx"
  <2>1. r.kind \notin Oscillators
    BY <1>5 DEF Oscillators
  <2>. QED
    BY <1>5, <2>1, UndirectedKinds DEF Opposites
<1>6. CASE r.kind = "bollinger_pctb"
  <2>1. {r.way, q.way} = {"below_lower", "above_upper"}
    BY <1>6 DEF Opposites, Directions, Oscillators
  <2>2. \/ (r.way = "below_lower" /\ q.way = "above_upper")
        \/ (r.way = "above_upper" /\ q.way = "below_lower")
    BY <2>1, SamePair
  <2>. QED
    BY <1>1, <1>2, <1>6, <2>2, BollingerOk, NotOutsideBoth
<1>7. CASE r.kind = "ma"
  <2>1. {r.way, q.way} = {"price_above", "price_below"}
    BY <1>7 DEF Opposites, Directions, Oscillators
  <2>2. \/ (r.way = "price_above" /\ q.way = "price_below")
        \/ (r.way = "price_below" /\ q.way = "price_above")
    BY <2>1, SamePair
  <2>. QED
    BY <1>1, <1>2, <1>7, <2>2, AverageOk, NotOverAndUnder
<1>8. CASE r.kind = "stochastic"
  <2>1. {r.way, q.way} = {"k_cross_up_d", "k_cross_down_d"}
    BY <1>8 DEF Opposites, Directions, Oscillators
  <2>2. \/ (r.way = "k_cross_up_d" /\ q.way = "k_cross_down_d")
        \/ (r.way = "k_cross_down_d" /\ q.way = "k_cross_up_d")
    BY <2>1, SamePair
  <2>. QED
    BY <1>1, <1>2, <1>3, <1>8, <2>2, StochasticOk, NotOverAndUnder
<1>9. CASE r.kind = "macd"
  <2>1. {r.way, q.way} = {"crossing_up", "crossing_down"}
    BY <1>9 DEF Opposites, Directions, Oscillators
  <2>2. \/ (r.way = "crossing_up" /\ q.way = "crossing_down")
        \/ (r.way = "crossing_down" /\ q.way = "crossing_up")
    BY <2>1, SamePair
  <2>. QED
    BY <1>1, <1>2, <1>3, <1>9, <2>2, MacdOk, NotOverAndUnder
<1>10. CASE r.kind = "parabolic_sar"
  <2>1. {r.way, q.way} = {"flip_bull", "flip_bear"}
    BY <1>10 DEF Opposites, Directions, Oscillators
  <2>2. \/ (r.way = "flip_bull" /\ q.way = "flip_bear")
        \/ (r.way = "flip_bear" /\ q.way = "flip_bull")
    BY <2>1, SamePair
  <2>. QED
    BY <1>1, <1>2, <1>10, <2>2, SarOk, NotOverAndUnder
<1>11. CASE r.kind = "heikin_ashi"
  <2>1. {r.way, q.way} = {"bullish", "bearish"}
    BY <1>11 DEF Opposites, Directions, Oscillators
  <2>2. \/ (r.way = "bullish" /\ q.way = "bearish")
        \/ (r.way = "bearish" /\ q.way = "bullish")
    BY <2>1, SamePair
  <2>3. CASE s.color # None
    BY <1>1, <1>11, <2>2, <2>3, CandleOk
  <2>4. CASE s.color = None
    <3>1. /\ None \notin {Value(r, s), Other(r, s)}
          /\ \/ r.way = "bullish" /\ Value(r, s) > Other(r, s)
             \/ r.way = "bearish" /\ Value(r, s) <= Other(r, s)
      BY <1>11, <2>4, CandleOk
    <3>2. \/ q.way = "bullish" /\ Value(r, s) > Other(r, s)
          \/ q.way = "bearish" /\ Value(r, s) <= Other(r, s)
      BY <1>1, <1>11, <2>4, CandleOk
    <3>3. Value(r, s) \in Int /\ Other(r, s) \in Int
      BY <1>2, <1>3, <1>11, <3>1
    <3>. QED
      BY <2>2, <3>1, <3>2, <3>3
  <2>. QED
    BY <2>3, <2>4
<1>. QED
  BY <1>4, <1>5, <1>6, <1>7, <1>8, <1>9, <1>10, <1>11 DEF TechnicalKinds

\* No market state satisfies a clause and its opposite: a signal without proofs
\* never starts a plan that lists both, at no boundary of the numbers either (the
\* comparisons of _evaluate_technical_row).
THEOREM ContradictionsNeverStart == Spec => []OppositesExclude
<1>1. ClausesInv => OppositesExclude
  <2>. SUFFICES ASSUME ClausesInv, Unproved(alert), Passed(alert, clauses),
                       NEW i \in DOMAIN clauses, NEW j \in DOMAIN clauses,
                       Opposites(clauses[i], clauses[j])
                PROVE  FALSE
    BY DEF OppositesExclude, Starts
  <2>1. clauses[i] \in Clauses /\ clauses[j] \in Clauses /\ alert \in Alerts
    BY DEF ClausesInv, TypeOK
  <2>2. clauses[i].kind = clauses[j].kind /\ clauses[i].kind \in TechnicalKinds
    BY DEF Opposites, Directions, TechnicalKinds, Oscillators
  <2>3. \A n, kind : Proof(alert, n, kind) = None
    <3>1. DOMAIN alert.byIndex = {} /\ DOMAIN alert.byKind = {} /\ DOMAIN alert.results = {}
      BY EmptySeq DEF Unproved
    <3>. QED
      BY <3>1 DEF Proof
  <2>4. TechnicalOk(clauses[i], alert) /\ TechnicalOk(clauses[j], alert)
    BY <2>2, <2>3, AllAreSatisfied, UnprovedTechnical
  <2>. QED
    BY <2>1, <2>2, <2>4, OppositesClash
<1>. QED
  BY <1>1, PlansAreTyped, PTL

-----------------------------------------------------------------------------
\* A quotient is rounded by half a unit at most, and by exactly half to even only.
LEMMA Rounding ==
  ASSUME NEW n \in Int, NEW d \in Nat \ {0}, NEW q, q = RoundDiv(n, d)
  PROVE  /\ q \in Int
         /\ -d <= 2 * (q * d - n) /\ 2 * (q * d - n) <= d
         /\ 2 * (q * d - n) \in {d, -d} => q % 2 = 0
<1>1. PICK b \in Int : b = n \div d
  OBVIOUS
<1>2. PICK r \in Int : r = n % d
  OBVIOUS
<1>3. n = d * b + r /\ 0 <= r /\ r < d
  BY <1>1, <1>2
<1>4. PICK p \in Int : p = b * d
  OBVIOUS
<1>5. n = p + r
  BY <1>3, <1>4
<1>6. (b + 1) * d = p + d
  BY <1>4
<1>7. CASE 2 * r < d \/ (2 * r = d /\ b % 2 = 0)
  <2>1. q = b
    BY <1>1, <1>2, <1>7 DEF RoundDiv
  <2>2. PICK x \in Int : x = 2 * (q * d - n)
    BY <2>1
  <2>3. x = -(2 * r)
    BY <1>4, <1>5, <2>1, <2>2
  <2>4. -d <= x /\ x <= d /\ (x \in {d, -d} => q % 2 = 0)
    BY <1>3, <1>7, <2>1, <2>3
  <2>. QED
    BY <2>1, <2>2, <2>4
<1>8. CASE ~(2 * r < d \/ (2 * r = d /\ b % 2 = 0))
  <2>1. q = b + 1
    BY <1>1, <1>2, <1>8 DEF RoundDiv
  <2>2. 2 * (q * d - n) = 2 * d - 2 * r
    <3>1. q * d = p + d
      BY <1>6, <2>1
    <3>. QED
      BY <1>5, <3>1
  <2>3. ASSUME 2 * (q * d - n) \in {d, -d}
        PROVE  q % 2 = 0
    <3>1. 2 * r = d
      BY <1>3, <2>2, <2>3
    <3>2. b % 2 = 1
      BY <1>8, <3>1
    <3>. QED
      BY <2>1, <3>2
  <2>. QED
    BY <1>3, <1>8, <2>1, <2>2, <2>3
<1>. QED
  BY <1>7, <1>8

LEMMA CancelProduct ==
  ASSUME NEW x \in Int, NEW y \in Int, NEW a \in Nat \ {0}, x * a = y * a
  PROVE  x = y
<1>1. CASE x < y
  <2>1. PICK z \in Nat \ {0} : z = y - x
    BY <1>1
  <2>2. z * a > 0
    OBVIOUS
  <2>3. z * a = y * a - x * a
    BY <2>1
  <2>. QED
    BY <2>2, <2>3
<1>2. CASE x > y
  <2>1. PICK z \in Nat \ {0} : z = x - y
    BY <1>2
  <2>2. z * a > 0
    OBVIOUS
  <2>3. z * a = x * a - y * a
    BY <2>1
  <2>. QED
    BY <2>2, <2>3
<1>. QED
  BY <1>1, <1>2

\* A greater quotient is rounded to no less.
LEMMA RoundingKeepsOrder ==
  ASSUME NEW n \in Int, NEW d \in Nat \ {0}, NEW m \in Int, NEW e \in Nat \ {0},
         n * e <= m * d
  PROVE  RoundDiv(n, d) <= RoundDiv(m, e)
<1>1. PICK q \in Int : q = RoundDiv(n, d)
  BY Rounding
<1>2. PICK p \in Int : p = RoundDiv(m, e)
  BY Rounding
<1>3. PICK x \in Int : x = 2 * (q * d - n)
  OBVIOUS
<1>4. PICK y \in Int : y = 2 * (p * e - m)
  OBVIOUS
<1>5. x <= d /\ (x = d => q % 2 = 0)
  BY <1>1, <1>3, Rounding
<1>6. -e <= y /\ (y = -e => p % 2 = 0)
  BY <1>2, <1>4, Rounding
<1>7. ASSUME q > p
      PROVE  FALSE
  <2>1. PICK k \in Nat \ {0} : k = q - p
    BY <1>7
  <2>2. PICK a \in Nat \ {0} : a = d * e
    OBVIOUS
  <2>3. x * e = 2 * (q * a) - 2 * (n * e)
    BY <1>3, <2>2
  <2>4. y * d = 2 * (p * a) - 2 * (m * d)
    BY <1>4, <2>2
  <2>5. PICK qa, pa \in Int : qa = q * a /\ pa = p * a
    OBVIOUS
  <2>6. qa - pa = k * a
    BY <2>1, <2>5
  <2>7. x * e <= a /\ -a <= y * d
    BY <1>5, <1>6, <2>2
  <2>8. k * a >= a
    OBVIOUS
  <2>9. 2 * (k * a) <= x * e - y * d
    BY <2>3, <2>4, <2>5, <2>6
  <2>10. k * a = a /\ x * e = a /\ y * d = -a
    BY <2>7, <2>8, <2>9
  <2>11. k = 1
    BY <2>10
  <2>12. x = d /\ y = -e
    BY <2>2, <2>10, CancelProduct
  <2>. QED
    BY <1>5, <1>6, <2>1, <2>11, <2>12
<1>. QED
  BY <1>1, <1>2, <1>7
-----------------------------------------------------------------------------
\* The totals before the first averaging order, and those after one more.
First(c, entry) ==
  [scale |-> Unit, deviation |-> 0, gap |-> c.first_deviation, order |-> c.safety_order,
   cost |-> c.base_order, qty |-> c.base_order, per |-> entry * Unit]
\* Whole * scale times the price of an order whose deviation is over scale.
Paid(c, entry, scale, deviation) ==
  AtLeast(Trigger(c, entry, scale, deviation), Whole * scale)
Following(c, entry, last) ==
  LET paid == Paid(c, entry, last.scale, last.deviation + last.gap)
  IN  [scale |-> last.scale * Unit,
       deviation |-> (last.deviation + last.gap) * Unit,
       gap |-> last.gap * c.deviation_multiplier,
       order |-> last.order * c.order_multiplier,
       cost |-> (last.cost + last.order) * Unit,
       qty |-> last.qty * paid + last.order * Whole * last.per,
       per |-> last.per * paid]

\* f holds the totals up to the n-th order.
Adds(c, entry, f, n) ==
  f = [k \in 0..n |-> IF k = 0 THEN First(c, entry) ELSE Following(c, entry, f[k - 1])]

LEMMA AddingGoesOn ==
  ASSUME NEW c, NEW entry, NEW n \in Nat
  PROVE  \E f : Adds(c, entry, f, n)
<1>1. PICK S : S = {m \in 0..n : \E f : Adds(c, entry, f, m)}
  OBVIOUS
<1>2. 0 \in S
  <2>1. PICK f : f = [k \in 0..0 |-> First(c, entry)]
    OBVIOUS
  <2>2. f = [k \in 0..0 |-> IF k = 0 THEN First(c, entry) ELSE Following(c, entry, f[k - 1])]
    BY <2>1
  <2>3. Adds(c, entry, f, 0)
    BY <2>2 DEF Adds
  <2>. QED
    BY <1>1, <2>3
<1>3. ASSUME NEW k \in 1..n, k - 1 \in S
      PROVE  k \in S
  <2>1. PICK f : Adds(c, entry, f, k - 1)
    BY <1>1, <1>3
  <2>2. f = [j \in 0..(k - 1) |-> IF j = 0 THEN First(c, entry) ELSE Following(c, entry, f[j - 1])]
    BY <2>1 DEF Adds
  <2>3. PICK next : next = Following(c, entry, f[k - 1])
    OBVIOUS
  <2>4. PICK g : g = [j \in 0..k |-> IF j = k THEN next ELSE f[j]]
    OBVIOUS
  <2>5. ASSUME NEW j \in 0..k
        PROVE  g[j] = IF j = 0 THEN First(c, entry) ELSE Following(c, entry, g[j - 1])
    <3>1. CASE j = 0
      BY <2>2, <2>4, <3>1
    <3>2. CASE j \in 1..(k - 1)
      <4>1. g[j] = f[j] /\ g[j - 1] = f[j - 1]
        BY <2>4, <3>2
      <4>2. f[j] = Following(c, entry, f[j - 1])
        BY <2>2, <3>2
      <4>. QED
        BY <3>2, <4>1, <4>2
    <3>3. CASE j = k
      <4>1. g[j] = next /\ g[j - 1] = f[k - 1]
        BY <2>4, <3>3
      <4>. QED
        BY <2>3, <3>3, <4>1
    <3>. QED
      BY <3>1, <3>2, <3>3
  <2>6. g = [j \in 0..k |-> IF j = 0 THEN First(c, entry) ELSE Following(c, entry, g[j - 1])]
    <3>1. g = [j \in 0..k |-> g[j]]
      BY <2>4
    <3>. QED
      BY <2>5, <3>1, Zenon
  <2>7. Adds(c, entry, g, k)
    BY <2>6, Zenon DEF Adds
  <2>. QED
    BY <1>1, <2>7
<1>4. 0..n \subseteq S
  BY <1>2, <1>3, Upwards
<1>. QED
  BY <1>1, <1>4

LEMMA TotalsAdd ==
  ASSUME NEW c, NEW entry, Orders(c) \in Nat
  PROVE  /\ DOMAIN Totals(c, entry) = 0..Orders(c)
         /\ Totals(c, entry)[0] = First(c, entry)
         /\ \A k \in 1..Orders(c) :
              Totals(c, entry)[k] = Following(c, entry, Totals(c, entry)[k - 1])
<1>1. PICK n \in Nat : n = Orders(c)
  OBVIOUS
<1>2. Totals(c, entry) = CHOOSE f : Adds(c, entry, f, n)
  BY <1>1, Zenon DEF Totals, Adds, First, Following, Paid
<1>3. PICK f : f = Totals(c, entry)
  OBVIOUS
<1>4. Adds(c, entry, f, n)
  BY <1>2, <1>3, AddingGoesOn, Zenon
<1>5. f = [k \in 0..n |-> IF k = 0 THEN First(c, entry) ELSE Following(c, entry, f[k - 1])]
  BY <1>4, Zenon DEF Adds
<1>6. DOMAIN f = 0..n /\ f[0] = First(c, entry)
  BY <1>5
<1>7. \A k \in 1..n : f[k] = Following(c, entry, f[k - 1])
  BY <1>5
<1>. QED
  BY <1>1, <1>3, <1>6, <1>7
-----------------------------------------------------------------------------
\* What an order of b units of the base at the price paid (over whole) adds to a
\* position of q units that cost a (over scale), in whole numbers.
LEMMA OneMoreOrder ==
  ASSUME NEW a \in Nat, NEW b \in Nat, NEW q \in Nat, NEW paid \in Nat, NEW whole \in Nat,
         NEW scale \in Nat
  PROVE  /\ q * scale <= a /\ whole * scale <= paid =>
              (q * paid + whole * b) * scale <= (a + b) * paid
         /\ paid * q <= whole * a => paid * (q * paid + whole * b) <= whole * ((a + b) * paid)
         /\ paid * q >= whole * a => paid * (q * paid + whole * b) >= whole * ((a + b) * paid)
         /\ paid * q <= whole * a => (a + b) * paid * q <= a * (q * paid + whole * b)
         /\ paid * q >= whole * a => (a + b) * paid * q >= a * (q * paid + whole * b)
<1>1. PICK pq \in Nat : pq = paid * q
  OBVIOUS
<1>2. PICK wa \in Nat : wa = whole * a
  OBVIOUS
<1>3. q * scale <= a /\ whole * scale <= paid =>
        (q * paid + whole * b) * scale <= (a + b) * paid
  <2>1. ASSUME q * scale <= a, whole * scale <= paid
        PROVE  q * scale * paid <= a * paid /\ whole * scale * b <= b * paid
    <3>1. PICK qs, ws \in Nat : qs = q * scale /\ ws = whole * scale
      OBVIOUS
    <3>2. PICK x, y \in Nat : x = a - qs /\ y = paid - ws
      BY <2>1, <3>1
    <3>3. x * paid >= 0 /\ y * b >= 0
      OBVIOUS
    <3>4. x * paid = a * paid - qs * paid
      BY <3>2
    <3>5. y * b = b * paid - ws * b
      BY <3>2
    <3>. QED
      BY <3>1, <3>3, <3>4, <3>5
  <2>2. (a + b) * paid = a * paid + b * paid
    OBVIOUS
  <2>3. (q * paid + whole * b) * scale = q * scale * paid + whole * scale * b
    OBVIOUS
  <2>. QED
    BY <2>1, <2>2, <2>3
<1>4. paid * (q * paid + whole * b) = paid * pq + whole * (b * paid)
  BY <1>1
<1>5. whole * ((a + b) * paid) = paid * wa + whole * (b * paid)
  BY <1>2
<1>6. (a + b) * paid * q = a * pq + b * pq
  BY <1>1
<1>7. a * (q * paid + whole * b) = a * pq + b * wa
  BY <1>1, <1>2
<1>8. ASSUME pq <= wa
      PROVE  paid * pq <= paid * wa /\ b * pq <= b * wa
  <2>1. PICK x \in Nat : x = wa - pq
    BY <1>8
  <2>2. paid * x >= 0 /\ b * x >= 0
    OBVIOUS
  <2>3. paid * x = paid * wa - paid * pq /\ b * x = b * wa - b * pq
    BY <2>1
  <2>. QED
    BY <2>2, <2>3
<1>9. ASSUME pq >= wa
      PROVE  paid * pq >= paid * wa /\ b * pq >= b * wa
  <2>1. PICK x \in Nat : x = pq - wa
    BY <1>9
  <2>2. paid * x >= 0 /\ b * x >= 0
    OBVIOUS
  <2>3. paid * x = paid * pq - paid * wa /\ b * x = b * pq - b * wa
    BY <2>1
  <2>. QED
    BY <2>2, <2>3
<1>10. PICK e \in Int : e = whole * (b * paid)
  OBVIOUS
<1>11. PICK f, g \in Int : f = paid * pq /\ g = paid * wa
  OBVIOUS
<1>12. PICK u, v, w \in Int : u = a * pq /\ v = b * pq /\ w = b * wa
  OBVIOUS
<1>13. pq <= wa => paid * (q * paid + whole * b) <= whole * ((a + b) * paid)
  BY <1>4, <1>5, <1>8, <1>10, <1>11
<1>14. pq >= wa => paid * (q * paid + whole * b) >= whole * ((a + b) * paid)
  BY <1>4, <1>5, <1>9, <1>10, <1>11
<1>15. pq <= wa => (a + b) * paid * q <= a * (q * paid + whole * b)
  BY <1>6, <1>7, <1>8, <1>12
<1>16. pq >= wa => (a + b) * paid * q >= a * (q * paid + whole * b)
  BY <1>6, <1>7, <1>9, <1>12
<1>. QED
  BY <1>1, <1>2, <1>3, <1>13, <1>14, <1>15, <1>16

LEMMA ConfigFacts ==
  ASSUME NEW c \in Configs
  PROVE  /\ c \in Config
         /\ Orders(c) \in Nat
         /\ \/ c.direction = "long" /\ Mult(c) = -1
            \/ c.direction = "short" /\ Mult(c) = 1
<1>1. c \in Config
  BY DcaConstants
<1>. QED
  BY <1>1 DEF Config, Orders, Mult

\* Deeper orders trigger, and are paid, further along the move of the market, and
\* none is paid before the first price.
LEMMA DeeperTriggers ==
  ASSUME NEW c \in Configs, NEW entry \in Nat \ {0}, NEW s \in Nat \ {0},
         NEW d \in Nat, NEW e \in Nat, d <= e
  PROVE  /\ Trigger(c, entry, s, d) \in Int
         /\ Beyond(c, Trigger(c, entry, s, e), Trigger(c, entry, s, d))
         /\ Paid(c, entry, s, d) \in Nat /\ Whole * s <= Paid(c, entry, s, d)
         /\ Beyond(c, Paid(c, entry, s, e), Paid(c, entry, s, d))
         /\ Beyond(c, Paid(c, entry, s, e), entry * (Whole * s))
         /\ Trigger(c, entry, s, 0) = entry * (Whole * s)
         /\ Paid(c, entry, s, 0) = entry * (Whole * s)
<1>1. PICK W \in Nat \ {0} : W = Whole * s
  BY DcaConstants
<1>2. PICK x \in Nat : x = e - d
  OBVIOUS
<1>3. PICK ew, ed, ee \in Nat : ew = entry * W /\ ed = entry * d /\ ee = entry * e
  OBVIOUS
<1>4. ed <= ee
  <2>1. entry * x >= 0
    OBVIOUS
  <2>2. entry * x = ee - ed
    BY <1>2, <1>3
  <2>. QED
    BY <2>1, <2>2
<1>5. W <= ew
  <2>1. (entry - 1) * W >= 0
    OBVIOUS
  <2>2. (entry - 1) * W = ew - W
    BY <1>3
  <2>. QED
    BY <2>1, <2>2
<1>6. entry * 0 = 0
  OBVIOUS
<1>7. CASE c.direction = "long" /\ Mult(c) = -1
  <2>1. Trigger(c, entry, s, d) = ew - ed /\ Trigger(c, entry, s, e) = ew - ee
    BY <1>1, <1>3, <1>7 DEF Trigger
  <2>2. Trigger(c, entry, s, 0) = ew
    BY <1>1, <1>3, <1>7 DEF Trigger
  <2>. QED
    BY <1>1, <1>3, <1>4, <1>5, <1>7, <2>1, <2>2 DEF Paid, AtLeast, Beyond
<1>8. CASE c.direction = "short" /\ Mult(c) = 1
  <2>1. Trigger(c, entry, s, d) = ew + ed /\ Trigger(c, entry, s, e) = ew + ee
    BY <1>1, <1>3, <1>8 DEF Trigger
  <2>2. Trigger(c, entry, s, 0) = ew
    BY <1>1, <1>3, <1>8 DEF Trigger
  <2>. QED
    BY <1>1, <1>3, <1>4, <1>5, <1>8, <2>1, <2>2 DEF Paid, AtLeast, Beyond
<1>. QED
  BY <1>7, <1>8, ConfigFacts

\* The scale of a deviation does not matter to the price.
LEMMA ScalesAgree ==
  ASSUME NEW c \in Configs, NEW entry \in Nat \ {0}, NEW s \in Nat \ {0}, NEW d \in Nat,
         NEW u \in Nat \ {0}
  PROVE  /\ Trigger(c, entry, s * u, d * u) = u * Trigger(c, entry, s, d)
         /\ Paid(c, entry, s * u, d * u) = u * Paid(c, entry, s, d)
<1>1. PICK W \in Nat \ {0} : W = Whole
  BY DcaConstants
<1>2. PICK m \in Int : m = Mult(c)
  BY ConfigFacts
<1>3. PICK v \in Int : v = W * s + m * d
  OBVIOUS
<1>4. PICK x \in Int : x = Trigger(c, entry, s, d)
  BY <1>1, <1>2, <1>3 DEF Trigger
<1>5. Trigger(c, entry, s * u, d * u) = u * x
  <2>1. W * (s * u) + m * (d * u) = u * v
    BY <1>3
  <2>2. x = entry * v
    BY <1>1, <1>2, <1>3, <1>4 DEF Trigger
  <2>3. Trigger(c, entry, s * u, d * u) = entry * (u * v)
    BY <1>1, <1>2, <2>1 DEF Trigger
  <2>. QED
    BY <2>2, <2>3
<1>6. PICK w \in Nat : w = W * s
  OBVIOUS
<1>7. Paid(c, entry, s * u, d * u) = u * Paid(c, entry, s, d)
  <2>1. Paid(c, entry, s, d) = AtLeast(x, w)
    BY <1>1, <1>4, <1>6 DEF Paid
  <2>2. Paid(c, entry, s * u, d * u) = AtLeast(u * x, u * w)
    <3>1. W * (s * u) = u * w
      BY <1>6
    <3>. QED
      BY <1>1, <1>5, <3>1 DEF Paid
  <2>3. AtLeast(u * x, u * w) = u * AtLeast(x, w)
    <3>1. CASE x < w
      <4>1. PICK z \in Nat \ {0} : z = w - x
        BY <3>1
      <4>2. u * z > 0 /\ u * z = u * w - u * x
        BY <4>1
      <4>. QED
        BY <3>1, <4>2 DEF AtLeast
    <3>2. CASE x >= w
      <4>1. PICK z \in Nat : z = x - w
        BY <3>2
      <4>2. u * z >= 0 /\ u * z = u * x - u * w
        BY <4>1
      <4>. QED
        BY <3>2, <4>2 DEF AtLeast
    <3>. QED
      BY <3>1, <3>2
  <2>. QED
    BY <2>1, <2>2, <2>3
<1>. QED
  BY <1>4, <1>5, <1>7

\* A factor of both keeps a number on its side of another.
LEMMA BothTimes ==
  ASSUME NEW c, NEW x \in Int, NEW y \in Int, NEW z \in Nat, Beyond(c, x, y)
  PROVE  Beyond(c, x * z, y * z)
<1>1. CASE c.direction = "long"
  <2>1. PICK w \in Nat : w = y - x
    BY <1>1 DEF Beyond
  <2>2. w * z >= 0 /\ w * z = y * z - x * z
    BY <2>1
  <2>. QED
    BY <1>1, <2>2 DEF Beyond
<1>2. CASE c.direction # "long"
  <2>1. PICK w \in Nat : w = x - y
    BY <1>2 DEF Beyond
  <2>2. w * z >= 0 /\ w * z = x * z - y * z
    BY <2>1
  <2>. QED
    BY <1>2, <2>2 DEF Beyond
<1>. QED
  BY <1>1, <1>2
-----------------------------------------------------------------------------
\* What the totals are after every order: nothing is bought for less than the
\* least price; the next order is paid no dearer than the average, on the
\* losing side of it; and an empty position is one whose orders are all empty.
TotalsOut ==
  [scale : Nat \ {0}, deviation : Nat, gap : Nat, order : Nat, cost : Nat, qty : Nat,
   per : Nat \ {0}]
Fits(c, entry, t) ==
  /\ t \in TotalsOut
  /\ t.qty * t.scale <= t.cost * t.per
  /\ Beyond(c, Paid(c, entry, t.scale, t.deviation) * t.qty, Whole * (t.cost * t.per))
  /\ t.qty = 0 <=> t.cost = 0

\* The average after an order, as a fraction, is beyond the one before it.
AverageBeyond(c, t, next) ==
  Beyond(c, next.cost * next.per * (t.scale * t.qty), t.cost * t.per * (next.scale * next.qty))
\* Its trigger, as a fraction, is beyond the one before it.
TriggerBeyond(c, entry, t, next) ==
  Beyond(c, Trigger(c, entry, next.scale, next.deviation) * t.scale,
         Trigger(c, entry, t.scale, t.deviation) * next.scale)

LEMMA FirstFits ==
  ASSUME NEW c \in Configs, NEW entry \in Nat \ {0}
  PROVE  Fits(c, entry, First(c, entry))
<1>1. PICK t : t = First(c, entry)
  OBVIOUS
<1>2. PICK b \in Nat : b = c.base_order
  BY ConfigFacts DEF Config
<1>3. PICK u, W \in Nat \ {0} : u = Unit /\ W = Whole
  BY DcaConstants
<1>4. PICK per \in Nat \ {0} : per = entry * u
  OBVIOUS
<1>5. /\ t \in TotalsOut /\ t.deviation = 0 /\ t.cost = b /\ t.qty = b
      /\ t.scale = u /\ t.per = per
  BY <1>1, <1>2, <1>3, <1>4, ConfigFacts DEF First, Config, TotalsOut
<1>6. b * u <= b * per
  <2>1. (entry - 1) * u >= 0 /\ (entry - 1) * u = entry * u - u
    OBVIOUS
  <2>2. PICK x \in Nat : x = per - u
    BY <1>4, <2>1
  <2>3. b * x >= 0 /\ b * x = b * per - b * u
    BY <2>2
  <2>. QED
    BY <2>3
<1>7. Beyond(c, Paid(c, entry, u, 0) * b, W * (b * per))
  <2>1. Paid(c, entry, u, 0) = entry * (W * u)
    BY <1>3, DeeperTriggers
  <2>2. entry * (W * u) * b = W * (b * per)
    BY <1>4
  <2>3. W * (b * per) \in Int
    OBVIOUS
  <2>. QED
    BY <2>1, <2>2, <2>3 DEF Beyond
<1>. QED
  BY <1>1, <1>3, <1>5, <1>6, <1>7 DEF Fits

LEMMA FollowingFits ==
  ASSUME NEW c \in Configs, NEW entry \in Nat \ {0}, NEW t, Fits(c, entry, t),
         NEW next, next = Following(c, entry, t)
  PROVE  /\ Fits(c, entry, next)
         /\ TriggerBeyond(c, entry, t, next)
         /\ AverageBeyond(c, t, next)
<1>1. PICK W, u \in Nat \ {0} : W = Whole /\ u = Unit
  BY DcaConstants
<1>2. PICK d, g, o, cost, qty \in Nat, per, s \in Nat \ {0} :
        /\ t.deviation = d /\ t.gap = g /\ t.order = o /\ t.scale = s
        /\ t.cost = cost /\ t.qty = qty /\ t.per = per
  BY DEF Fits, TotalsOut
<1>3. PICK m, l \in Nat : m = c.deviation_multiplier /\ l = c.order_multiplier
  BY ConfigFacts DEF Config
<1>4. PICK before \in Nat : before = Paid(c, entry, s, d)
  BY DeeperTriggers
<1>5. PICK e \in Nat : e = d + g
  OBVIOUS
<1>6. PICK paid \in Nat : paid = Paid(c, entry, s, e) /\ W * s <= paid
  <2>1. e <= e
    OBVIOUS
  <2>. QED
    BY <1>1, <2>1, DeeperTriggers
<1>7. Beyond(c, paid, before) /\ Beyond(c, Trigger(c, entry, s, e), Trigger(c, entry, s, d))
  <2>1. d <= e
    BY <1>5
  <2>. QED
    BY <1>4, <1>6, <2>1, DeeperTriggers
<1>8. /\ next.scale = s * u /\ next.deviation = e * u /\ next.gap = g * m
      /\ next.order = o * l /\ next.cost = (cost + o) * u
      /\ next.qty = qty * paid + o * W * per /\ next.per = per * paid
      /\ next = [scale |-> s * u, deviation |-> e * u, gap |-> g * m, order |-> o * l,
                 cost |-> (cost + o) * u, qty |-> qty * paid + o * W * per,
                 per |-> per * paid]
  BY <1>1, <1>2, <1>3, <1>5, <1>6 DEF Following
<1>9. PICK a, b \in Nat : a = cost * per /\ b = o * per
  OBVIOUS
<1>10. o * W * per = W * b
  BY <1>9
<1>11. PICK sum, held \in Nat : sum = (a + b) * paid /\ held = qty * paid + W * b
  OBVIOUS
<1>12. next.cost * next.per = u * sum
  <2>1. PICK z \in Nat : z = cost + o
    OBVIOUS
  <2>2. z * per = a + b
    BY <1>9, <2>1
  <2>3. z * u * (per * paid) = u * (z * per * paid)
    OBVIOUS
  <2>. QED
    BY <1>8, <1>11, <2>1, <2>2, <2>3
<1>13. next.qty = held /\ next.scale = s * u
  BY <1>8, <1>10, <1>11
<1>14. paid > 0
  <2>1. W * s > 0
    OBVIOUS
  <2>. QED
    BY <1>6, <2>1
<1>15. per * paid \in Nat \ {0} /\ s * u \in Nat \ {0}
  BY <1>14
<1>16. next \in TotalsOut
  <2>1. g * m \in Nat /\ o * l \in Nat /\ e * u \in Nat /\ (cost + o) * u \in Nat
    OBVIOUS
  <2>2. qty * paid + o * W * per \in Nat
    BY <1>10, <1>11
  <2>. QED
    BY <1>8, <1>15, <2>1, <2>2 DEF TotalsOut
<1>17. qty * s <= a /\ (qty = 0 <=> cost = 0)
  BY <1>2, <1>9 DEF Fits
<1>18. next.qty * next.scale <= next.cost * next.per
  <2>1. held * s <= sum
    BY <1>6, <1>11, <1>17, OneMoreOrder
  <2>2. PICK x \in Nat : x = sum - held * s
    BY <2>1
  <2>3. u * x >= 0 /\ u * x = u * sum - held * (s * u)
    BY <2>2
  <2>. QED
    BY <1>12, <1>13, <2>3
<1>19. Beyond(c, before * qty, W * a)
  BY <1>1, <1>2, <1>4, <1>9 DEF Fits
<1>20. Beyond(c, paid * qty, W * a)
  <2>1. PICK x \in Int : x = W * a
    OBVIOUS
  <2>2. CASE c.direction = "long"
    <3>1. paid <= before /\ before * qty <= x
      BY <1>7, <1>19, <2>1, <2>2 DEF Beyond
    <3>2. (before - paid) * qty >= 0
      BY <3>1
    <3>3. (before - paid) * qty = before * qty - paid * qty
      OBVIOUS
    <3>. QED
      BY <2>1, <2>2, <3>1, <3>2, <3>3 DEF Beyond
  <2>3. CASE c.direction # "long"
    <3>1. paid >= before /\ before * qty >= x
      BY <1>7, <1>19, <2>1, <2>3 DEF Beyond
    <3>2. (paid - before) * qty >= 0
      BY <3>1
    <3>3. (paid - before) * qty = paid * qty - before * qty
      OBVIOUS
    <3>. QED
      BY <2>1, <2>3, <3>1, <3>2, <3>3 DEF Beyond
  <2>. QED
    BY <2>2, <2>3
<1>21. Beyond(c, paid * held, W * sum) /\ Beyond(c, sum * qty, a * held)
  BY <1>11, <1>20, OneMoreOrder DEF Beyond
<1>22. Beyond(c, Paid(c, entry, next.scale, next.deviation) * next.qty,
              Whole * (next.cost * next.per))
  <2>1. Paid(c, entry, s * u, e * u) = u * paid
    BY <1>6, ScalesAgree
  <2>2. u * paid * held = (paid * held) * u
    OBVIOUS
  <2>3. W * (u * sum) = (W * sum) * u
    OBVIOUS
  <2>4. paid * held \in Int /\ W * sum \in Int
    OBVIOUS
  <2>5. Beyond(c, (paid * held) * u, (W * sum) * u)
    BY <1>21, <2>4, BothTimes
  <2>. QED
    BY <1>1, <1>8, <1>12, <1>13, <2>1, <2>2, <2>3, <2>5
<1>23. AverageBeyond(c, t, next)
  <2>1. PICK z \in Nat \ {0} : z = u * s
    OBVIOUS
  <2>2. u * sum * (s * qty) = (sum * qty) * z
    BY <2>1
  <2>3. a * (s * u * held) = (a * held) * z
    BY <2>1
  <2>4. sum * qty \in Int /\ a * held \in Int
    OBVIOUS
  <2>5. Beyond(c, (sum * qty) * z, (a * held) * z)
    BY <1>21, <2>4, BothTimes
  <2>. QED
    BY <1>2, <1>9, <1>12, <1>13, <2>2, <2>3, <2>5 DEF AverageBeyond
<1>24. next.qty = 0 <=> next.cost = 0
  <2>1. CASE qty > 0
    <3>1. qty * paid > 0 /\ W * b >= 0
      BY <1>14, <2>1
    <3>2. cost > 0
      BY <1>17, <2>1
    <3>3. (cost + o) * u > 0
      BY <3>2
    <3>. QED
      BY <1>8, <1>11, <1>13, <3>1, <3>3
  <2>2. CASE qty = 0
    <3>1. cost = 0 /\ qty * paid = 0
      BY <1>17, <2>2
    <3>2. CASE o = 0
      <4>1. W * b = 0 /\ (cost + o) * u = 0
        BY <1>9, <3>1, <3>2
      <4>. QED
        BY <1>8, <1>11, <1>13, <3>1, <4>1
    <3>3. CASE o > 0
      <4>1. b > 0
        BY <1>9, <3>3
      <4>2. W * b > 0 /\ (cost + o) * u > 0
        BY <3>1, <3>3, <4>1
      <4>. QED
        BY <1>8, <1>11, <1>13, <3>1, <4>2
    <3>. QED
      BY <3>2, <3>3
  <2>. QED
    BY <2>1, <2>2
<1>25. TriggerBeyond(c, entry, t, next)
  <2>1. PICK x, y \in Int : x = Trigger(c, entry, s, e) /\ y = Trigger(c, entry, s, d)
    BY DeeperTriggers
  <2>2. Trigger(c, entry, s * u, e * u) = u * x
    BY <2>1, ScalesAgree
  <2>3. PICK z \in Nat \ {0} : z = u * s
    OBVIOUS
  <2>4. u * x * s = x * z /\ y * (s * u) = y * z
    BY <2>3
  <2>5. Beyond(c, x * z, y * z)
    BY <1>7, <2>1, BothTimes
  <2>. QED
    BY <1>2, <1>8, <2>1, <2>2, <2>4, <2>5 DEF TriggerBeyond
<1>. QED
  BY <1>16, <1>18, <1>22, <1>23, <1>24, <1>25 DEF Fits

\* Every entry of the totals fits, and an averaging order that left the position
\* empty is followed by empty ones only.
LEMMA TotalsFit ==
  ASSUME NEW c \in Configs, NEW entry \in Nat \ {0}, NEW k \in 0..Orders(c)
  PROVE  /\ Fits(c, entry, Totals(c, entry)[k])
         /\ k > 0 /\ Totals(c, entry)[k].qty = 0 => Totals(c, entry)[k].order = 0
<1>1. PICK n \in Nat : n = Orders(c)
  BY ConfigFacts
<1>2. PICK f : f = Totals(c, entry)
  OBVIOUS
<1>3. f[0] = First(c, entry) /\ \A j \in 1..n : f[j] = Following(c, entry, f[j - 1])
  BY <1>1, <1>2, TotalsAdd
<1>4. PICK S : S = {j \in 0..n : Fits(c, entry, f[j]) /\ (j > 0 /\ f[j].qty = 0 => f[j].order = 0)}
  OBVIOUS
<1>5. 0 \in S
  BY <1>3, <1>4, FirstFits
<1>6. ASSUME NEW j \in 1..n, j - 1 \in S
      PROVE  j \in S
  <2>1. PICK t : t = f[j - 1]
    OBVIOUS
  <2>2. PICK next : next = f[j]
    OBVIOUS
  <2>3. next = Following(c, entry, t)
    BY <1>3, <2>1, <2>2
  <2>4. Fits(c, entry, t)
    BY <1>4, <1>6, <2>1
  <2>5. Fits(c, entry, next)
    BY <2>3, <2>4, FollowingFits
  <2>6. PICK o, l \in Nat : o = t.order /\ l = c.order_multiplier
    BY <2>4, ConfigFacts DEF Fits, TotalsOut, Config
  <2>7. PICK cost \in Nat, u \in Nat \ {0} : cost = t.cost /\ u = Unit
    BY <2>4, DcaConstants DEF Fits, TotalsOut
  <2>8. next.order = o * l /\ next.cost = (cost + o) * u
    BY <2>3, <2>4, <2>6, <2>7 DEF Following, Fits, TotalsOut
  <2>9. next.qty = 0 => next.order = 0
    <3>1. o > 0 => (cost + o) * u > 0
      OBVIOUS
    <3>2. next.qty = 0 => next.cost = 0
      BY <2>5 DEF Fits
    <3>3. o = 0 => o * l = 0
      OBVIOUS
    <3>. QED
      BY <2>8, <3>1, <3>2, <3>3
  <2>. QED
    BY <1>4, <2>2, <2>5, <2>9
<1>7. 0..n \subseteq S
  BY <1>5, <1>6, Upwards
<1>. QED
  BY <1>1, <1>2, <1>4, <1>7

\* One order more.
LEMMA TotalsFollow ==
  ASSUME NEW c \in Configs, NEW entry \in Nat \ {0}, NEW k \in 1..Orders(c)
  PROVE  LET t == Totals(c, entry)[k - 1]
             next == Totals(c, entry)[k]
         IN  /\ next = Following(c, entry, t)
             /\ TriggerBeyond(c, entry, t, next)
             /\ AverageBeyond(c, t, next)
<1>1. Orders(c) \in Nat /\ k - 1 \in 0..Orders(c)
  BY ConfigFacts
<1>2. Fits(c, entry, Totals(c, entry)[k - 1])
  BY <1>1, TotalsFit
<1>3. Totals(c, entry)[k] = Following(c, entry, Totals(c, entry)[k - 1])
  BY <1>1, TotalsAdd
<1>. QED
  BY <1>2, <1>3, FollowingFits

-----------------------------------------------------------------------------
\* The fraction that a step rounds to its average: the trigger of an empty
\* position.
Numerator(t, trigger) == IF t.qty = 0 THEN trigger ELSE t.cost * t.per
Denominator(t) == (IF t.qty = 0 THEN Whole ELSE t.qty) * t.scale
\* What a step shows of the totals.
Shown(c, entry, t) ==
  LET trigger == Trigger(c, entry, t.scale, t.deviation)
  IN  [trigger |-> RoundDiv(trigger, Whole * t.scale),
       cumulative |-> RoundDiv(t.cost, t.scale),
       avg |-> RoundDiv(Numerator(t, trigger), Denominator(t)),
       tp |-> RoundDiv(Numerator(t, trigger) * ProfitFactor(c), Denominator(t) * Whole)]

LEMMA PreviewShows ==
  ASSUME NEW c \in Configs, NEW price \in Int
  PROVE  /\ AtLeast(price, 1) \in Nat \ {0}
         /\ DOMAIN Preview(c, price) = 0..Orders(c)
         /\ \A k \in 0..Orders(c) :
              Preview(c, price)[k] = Shown(c, AtLeast(price, 1), Totals(c, AtLeast(price, 1))[k])
<1>1. AtLeast(price, 1) \in Nat \ {0}
  BY DEF AtLeast
<1>2. DOMAIN Preview(c, price) = 0..Orders(c)
  BY DEF Preview
<1>3. ASSUME NEW k \in 0..Orders(c)
      PROVE  Preview(c, price)[k] = Shown(c, AtLeast(price, 1), Totals(c, AtLeast(price, 1))[k])
  BY Zenon DEF Preview, Shown, Numerator, Denominator
<1>. QED
  BY <1>1, <1>2, <1>3

\* Rounding keeps the sign.
LEMMA RoundingKeepsSign ==
  ASSUME NEW n \in Int, NEW d \in Nat \ {0}
  PROVE  /\ n >= 0 => RoundDiv(n, d) >= 0
         /\ n <= 0 => RoundDiv(n, d) <= 0
         /\ n = 0 => RoundDiv(n, d) = 0
<1>1. PICK z, one \in Int : z = 0 /\ one = 1
  OBVIOUS
<1>2. one \in Nat \ {0} /\ RoundDiv(z, one) = 0
  BY <1>1 DEF RoundDiv
<1>3. z * d = 0 /\ n * one = n
  BY <1>1
<1>4. RoundDiv(n, d) \in Int
  BY Rounding
<1>5. n >= 0 => RoundDiv(z, one) <= RoundDiv(n, d)
  BY <1>2, <1>3, RoundingKeepsOrder
<1>6. n <= 0 => RoundDiv(n, d) <= RoundDiv(z, one)
  BY <1>2, <1>3, RoundingKeepsOrder
<1>. QED
  BY <1>2, <1>4, <1>5, <1>6

LEMMA FractionOfAStep ==
  ASSUME NEW c \in Configs, NEW entry \in Nat \ {0}, NEW t, Fits(c, entry, t),
         NEW trigger, trigger = Trigger(c, entry, t.scale, t.deviation)
  PROVE  /\ trigger \in Int
         /\ Whole * t.scale \in Nat \ {0}
         /\ Numerator(t, trigger) \in Int
         /\ Denominator(t) \in Nat \ {0}
         /\ Denominator(t) * Whole \in Nat \ {0}
         /\ ProfitFactor(c) \in Int
         /\ Numerator(t, trigger) * ProfitFactor(c) \in Int
         /\ Shown(c, entry, t) \in StepOut
<1>1. PICK W \in Nat \ {0} : W = Whole
  BY DcaConstants
<1>2. PICK qty, cost, deviation \in Nat, per, scale \in Nat \ {0} :
        /\ qty = t.qty /\ cost = t.cost /\ per = t.per /\ scale = t.scale
        /\ deviation = t.deviation
  BY DEF Fits, TotalsOut
<1>3. trigger \in Int
  BY <1>2, DeeperTriggers
<1>4. PICK over \in Int : over = Numerator(t, trigger)
  BY <1>2, <1>3 DEF Numerator
<1>5. PICK base \in Nat \ {0} : base = IF qty = 0 THEN W ELSE qty
  OBVIOUS
<1>6. PICK under \in Nat \ {0} : under = Denominator(t)
  <2>1. base * scale \in Nat \ {0}
    OBVIOUS
  <2>2. Denominator(t) = base * scale
    BY <1>1, <1>2, <1>5 DEF Denominator
  <2>. QED
    BY <2>1, <2>2
<1>7. PICK factor \in Int : factor = ProfitFactor(c)
  <2>1. c.tp \in Nat
    BY ConfigFacts DEF Config
  <2>. QED
    BY <1>1, <2>1, ConfigFacts DEF ProfitFactor
<1>8. under * W \in Nat \ {0} /\ W * scale \in Nat \ {0}
  OBVIOUS
<1>9. over * factor \in Int
  OBVIOUS
<1>10. RoundDiv(over, under) \in Int /\ RoundDiv(over * factor, under * W) \in Int
  BY <1>8, <1>9, Rounding
<1>11. RoundDiv(trigger, W * scale) \in Int
  BY <1>3, <1>8, Rounding
<1>12. RoundDiv(cost, scale) \in Nat
  <2>1. RoundDiv(cost, scale) \in Int
    BY Rounding
  <2>. QED
    BY <2>1, RoundingKeepsSign
<1>13. Shown(c, entry, t) \in StepOut
  BY <1>1, <1>2, <1>4, <1>6, <1>7, <1>10, <1>11, <1>12 DEF Shown, StepOut
<1>. QED
  BY <1>1, <1>2, <1>3, <1>4, <1>6, <1>7, <1>8, <1>9, <1>13

\* A step of the ladder, field by field.
LEMMA StepShows ==
  ASSUME NEW c \in Configs, NEW price \in Int, NEW k \in 0..Orders(c),
         NEW entry, entry = AtLeast(price, 1),
         NEW t, t = Totals(c, entry)[k],
         NEW step, step = Preview(c, price)[k],
         NEW trigger, trigger = Trigger(c, entry, t.scale, t.deviation)
  PROVE  /\ entry \in Nat \ {0}
         /\ Fits(c, entry, t)
         /\ step \in StepOut
         /\ step.trigger = RoundDiv(trigger, Whole * t.scale)
         /\ step.cumulative = RoundDiv(t.cost, t.scale)
         /\ step.avg = RoundDiv(Numerator(t, trigger), Denominator(t))
         /\ step.tp = RoundDiv(Numerator(t, trigger) * ProfitFactor(c), Denominator(t) * Whole)
<1>1. entry \in Nat \ {0}
  BY PreviewShows
<1>2. Fits(c, entry, t)
  BY <1>1, TotalsFit
<1>3. step = Shown(c, entry, t)
  BY PreviewShows
<1>4. step \in StepOut
  BY <1>1, <1>2, <1>3, FractionOfAStep
<1>5. PICK a : a = RoundDiv(trigger, Whole * t.scale)
  OBVIOUS
<1>6. PICK b : b = RoundDiv(Numerator(t, trigger), Denominator(t))
  OBVIOUS
<1>7. PICK e : e = RoundDiv(Numerator(t, trigger) * ProfitFactor(c), Denominator(t) * Whole)
  OBVIOUS
<1>8. PICK f : f = RoundDiv(t.cost, t.scale)
  OBVIOUS
<1>9. step = [trigger |-> a, cumulative |-> f, avg |-> b, tp |-> e]
  BY <1>3, <1>5, <1>6, <1>7, <1>8, Zenon DEF Shown
<1>10. step.trigger = a /\ step.cumulative = f /\ step.avg = b /\ step.tp = e
  BY <1>9
<1>. QED
  BY <1>1, <1>2, <1>4, <1>5, <1>6, <1>7, <1>8, <1>10

\* Rounding keeps a fraction on its side of another.
LEMMA RoundingKeepsSide ==
  ASSUME NEW c, NEW n \in Int, NEW d \in Nat \ {0}, NEW m \in Int, NEW e \in Nat \ {0},
         Beyond(c, n * e, m * d)
  PROVE  Beyond(c, RoundDiv(n, d), RoundDiv(m, e))
<1>1. CASE c.direction = "long"
  <2>1. n * e <= m * d
    BY <1>1 DEF Beyond
  <2>2. RoundDiv(n, d) <= RoundDiv(m, e)
    BY <2>1, RoundingKeepsOrder
  <2>. QED
    BY <1>1, <2>2 DEF Beyond
<1>2. CASE c.direction # "long"
  <2>1. m * d <= n * e
    BY <1>2 DEF Beyond
  <2>2. RoundDiv(m, e) <= RoundDiv(n, d)
    BY <2>1, RoundingKeepsOrder
  <2>3. RoundDiv(m, e) \in Int /\ RoundDiv(n, d) \in Int
    BY Rounding
  <2>. QED
    BY <1>2, <2>2, <2>3 DEF Beyond
<1>. QED
  BY <1>1, <1>2

\* The triggers of a ladder lie one beyond the other.
LEMMA NextTrigger ==
  ASSUME NEW c \in Configs, NEW price \in Int, NEW k \in 1..Orders(c)
  PROVE  Beyond(c, Preview(c, price)[k].trigger, Preview(c, price)[k - 1].trigger)
<1>1. PICK entry \in Nat \ {0} : entry = AtLeast(price, 1)
  BY PreviewShows
<1>2. k \in 0..Orders(c) /\ k - 1 \in 0..Orders(c)
  BY ConfigFacts
<1>3. PICK t : t = Totals(c, entry)[k - 1]
  OBVIOUS
<1>4. PICK next : next = Totals(c, entry)[k]
  OBVIOUS
<1>5. Fits(c, entry, t) /\ Fits(c, entry, next)
  BY <1>2, <1>3, <1>4, TotalsFit
<1>6. TriggerBeyond(c, entry, t, next)
  BY <1>3, <1>4, TotalsFollow
<1>7. PICK W \in Nat \ {0} : W = Whole
  BY DcaConstants
<1>8. PICK d, e \in Nat \ {0} : d = t.scale /\ e = next.scale
  BY <1>5 DEF Fits, TotalsOut
<1>9. PICK m \in Int : m = Trigger(c, entry, t.scale, t.deviation)
  BY <1>5, FractionOfAStep
<1>10. PICK n \in Int : n = Trigger(c, entry, next.scale, next.deviation)
  BY <1>5, FractionOfAStep
<1>11. Beyond(c, n * d, m * e)
  BY <1>6, <1>8, <1>9, <1>10 DEF TriggerBeyond
<1>12. PICK nd, me \in Int : nd = n * d /\ me = m * e
  OBVIOUS
<1>13. nd * W = n * (W * d) /\ me * W = m * (W * e)
  BY <1>12
<1>14. Beyond(c, n * (W * d), m * (W * e))
  BY <1>11, <1>12, <1>13, BothTimes
<1>15. PICK wd, we \in Nat \ {0} : wd = W * d /\ we = W * e
  OBVIOUS
<1>16. Beyond(c, RoundDiv(n, we), RoundDiv(m, wd))
  BY <1>14, <1>15, RoundingKeepsSide
<1>17. Preview(c, price)[k - 1].trigger = RoundDiv(m, wd)
  BY <1>1, <1>2, <1>3, <1>7, <1>8, <1>9, <1>15, StepShows
<1>18. Preview(c, price)[k].trigger = RoundDiv(n, we)
  BY <1>1, <1>2, <1>4, <1>7, <1>8, <1>10, <1>15, StepShows
<1>. QED
  BY <1>16, <1>17, <1>18

LEMMA TriggersDescend ==
  ASSUME NEW c \in Configs, NEW price \in Int, NEW k \in 0..Orders(c), NEW j \in 0..k
  PROVE  Beyond(c, Preview(c, price)[k].trigger, Preview(c, price)[j].trigger)
<1>1. PICK n \in Nat : n = Orders(c)
  BY ConfigFacts
<1>2. PICK f : f = [i \in 0..n |-> Preview(c, price)[i].trigger]
  OBVIOUS
<1>3. \A i \in 0..n : f[i] \in Int
  <2>1. SUFFICES ASSUME NEW i \in 0..n
                 PROVE  Preview(c, price)[i].trigger \in Int
    BY <1>2
  <2>2. PICK entry : entry = AtLeast(price, 1)
    OBVIOUS
  <2>3. PICK t : t = Totals(c, entry)[i]
    OBVIOUS
  <2>4. PICK trigger : trigger = Trigger(c, entry, t.scale, t.deviation)
    OBVIOUS
  <2>5. PICK step : step = Preview(c, price)[i]
    OBVIOUS
  <2>6. step \in StepOut
    BY <1>1, <2>2, <2>3, <2>4, <2>5, StepShows
  <2>. QED
    BY <2>5, <2>6 DEF StepOut
<1>4. \A i \in 1..n : Beyond(c, f[i], f[i - 1])
  <2>1. SUFFICES ASSUME NEW i \in 1..n
                 PROVE  Beyond(c, f[i], f[i - 1])
    OBVIOUS
  <2>2. i \in 0..n /\ i - 1 \in 0..n
    OBVIOUS
  <2>3. Beyond(c, Preview(c, price)[i].trigger, Preview(c, price)[i - 1].trigger)
    BY <1>1, NextTrigger
  <2>. QED
    BY <1>2, <2>2, <2>3
<1>5. PICK S : S = {i \in 0..n : j <= i => Beyond(c, f[i], f[j])}
  OBVIOUS
<1>6. j \in 0..n
  BY <1>1
<1>7. 0 \in S
  <2>1. 0 \in 0..n
    OBVIOUS
  <2>2. j <= 0 => j = 0
    BY <1>6
  <2>3. Beyond(c, f[0], f[0])
    BY <1>3, <2>1 DEF Beyond
  <2>. QED
    BY <1>5, <2>1, <2>2, <2>3
<1>8. ASSUME NEW i \in 1..n, i - 1 \in S
      PROVE  i \in S
  <2>0. i \in 0..n /\ i - 1 \in 0..n
    OBVIOUS
  <2>1. CASE j <= i - 1
    <3>1. Beyond(c, f[i - 1], f[j])
      BY <1>5, <1>8, <2>1
    <3>2. Beyond(c, f[i], f[i - 1])
      BY <1>4
    <3>3. f[i] \in Int /\ f[i - 1] \in Int /\ f[j] \in Int
      BY <1>3, <1>6, <2>0
    <3>4. Beyond(c, f[i], f[j])
      BY <3>1, <3>2, <3>3 DEF Beyond
    <3>. QED
      BY <1>5, <2>0, <3>4
  <2>2. CASE j > i - 1
    <3>1. j <= i => j = i
      BY <1>6, <2>2
    <3>2. Beyond(c, f[i], f[i])
      BY <1>3, <2>0 DEF Beyond
    <3>. QED
      BY <1>5, <2>0, <3>1, <3>2
  <2>. QED
    BY <1>6, <2>1, <2>2
<1>9. 0..n \subseteq S
  BY <1>7, <1>8, Upwards
<1>10. Beyond(c, f[k], f[j])
  BY <1>1, <1>5, <1>9
<1>. QED
  BY <1>1, <1>2, <1>6, <1>10

\* The averages of a ladder lie one beyond the other.
LEMMA AveragesDescend ==
  ASSUME NEW c \in Configs, NEW price \in Int, NEW k \in 1..Orders(c)
  PROVE  Beyond(c, Preview(c, price)[k].avg, Preview(c, price)[k - 1].avg)
<1>1. PICK entry \in Nat \ {0} : entry = AtLeast(price, 1)
  BY PreviewShows
<1>2. k \in 0..Orders(c) /\ k - 1 \in 0..Orders(c)
  BY ConfigFacts
<1>3. PICK t : t = Totals(c, entry)[k - 1]
  OBVIOUS
<1>4. PICK next : next = Totals(c, entry)[k]
  OBVIOUS
<1>5. Fits(c, entry, t) /\ Fits(c, entry, next)
  BY <1>2, <1>3, <1>4, TotalsFit
<1>6. /\ next = Following(c, entry, t)
      /\ TriggerBeyond(c, entry, t, next) /\ AverageBeyond(c, t, next)
  BY <1>3, <1>4, TotalsFollow
<1>7. PICK m \in Int : m = Numerator(t, Trigger(c, entry, t.scale, t.deviation))
  BY <1>5, FractionOfAStep
<1>8. PICK n \in Int : n = Numerator(next, Trigger(c, entry, next.scale, next.deviation))
  BY <1>5, FractionOfAStep
<1>9. PICK e \in Nat \ {0} : e = Denominator(t)
  BY <1>5, FractionOfAStep
<1>10. PICK d \in Nat \ {0} : d = Denominator(next)
  BY <1>5, FractionOfAStep
<1>11. PICK W \in Nat \ {0} : W = Whole
  BY DcaConstants
<1>12. /\ t \in TotalsOut /\ next \in TotalsOut
       /\ t.qty = 0 <=> t.cost = 0
       /\ next.qty = 0 <=> next.cost = 0
  BY <1>5 DEF Fits
<1>13. Beyond(c, n * e, m * d)
  <2>1. CASE t.qty > 0
    <3>1. next.qty > 0
      <4>1. PICK cost, order \in Nat, u \in Nat \ {0} :
              cost = t.cost /\ order = t.order /\ u = Unit
        BY <1>12, DcaConstants DEF TotalsOut
      <4>2. cost > 0 /\ next.cost = (cost + order) * u
        BY <1>6, <1>12, <2>1, <4>1 DEF Following
      <4>3. (cost + order) * u > 0
        BY <4>2
      <4>. QED
        BY <1>12, <4>2, <4>3 DEF TotalsOut
    <3>2. PICK p, q, x, y \in Nat : p = t.scale /\ q = next.scale /\ x = t.qty /\ y = next.qty
      BY <1>12 DEF TotalsOut
    <3>3. /\ m = t.cost * t.per /\ n = next.cost * next.per
          /\ e = x * p /\ d = y * q
      BY <1>7, <1>8, <1>9, <1>10, <2>1, <3>1, <3>2 DEF Numerator, Denominator
    <3>4. x * p = p * x /\ y * q = q * y
      OBVIOUS
    <3>. QED
      BY <1>6, <3>2, <3>3, <3>4 DEF AverageBeyond
  <2>2. CASE t.qty = 0 /\ next.qty = 0
    <3>1. PICK p, q \in Nat : p = t.scale /\ q = next.scale
      BY <1>12 DEF TotalsOut
    <3>2. /\ m = Trigger(c, entry, t.scale, t.deviation)
          /\ n = Trigger(c, entry, next.scale, next.deviation)
          /\ e = W * p /\ d = W * q
      BY <1>7, <1>8, <1>9, <1>10, <1>11, <2>2, <3>1 DEF Numerator, Denominator
    <3>3. Beyond(c, n * p, m * q)
      BY <1>6, <3>1, <3>2 DEF TriggerBeyond
    <3>4. PICK x, y \in Int : x = n * p /\ y = m * q
      OBVIOUS
    <3>5. x * W = n * e /\ y * W = m * d
      BY <3>2, <3>4
    <3>. QED
      BY <3>3, <3>4, <3>5, BothTimes
  <2>3. CASE t.qty = 0 /\ next.qty > 0
    <3>1. PICK o, g \in Nat, per, u \in Nat \ {0} :
            o = t.order /\ g = t.gap /\ per = t.per /\ u = Unit
      BY <1>12, DcaConstants DEF TotalsOut
    <3>2. k = 1
      <4>1. o # 0
        <5>1. next.cost = (t.cost + t.order) * Unit
          BY <1>6 DEF Following
        <5>2. t.cost = 0 /\ next.cost # 0
          BY <1>12, <2>3 DEF TotalsOut
        <5>3. CASE o = 0
          BY <3>1, <5>1, <5>2, <5>3
        <5>. QED
          BY <5>3
      <4>. QED
        BY <1>2, <1>3, <2>3, <3>1, <4>1, TotalsFit
    <3>3. t.deviation = 0 /\ t.scale = u
      <4>1. Totals(c, entry)[0] = First(c, entry)
        BY ConfigFacts, TotalsAdd
      <4>. QED
        BY <1>3, <3>1, <3>2, <4>1 DEF First
    <3>4. PICK paid \in Nat : paid = Paid(c, entry, u, g) /\ Beyond(c, paid, entry * (W * u))
      <4>1. g <= g
        OBVIOUS
      <4>. QED
        BY <1>11, <4>1, DeeperTriggers
    <3>5. /\ next.cost = o * u /\ next.per = per * paid /\ next.qty = o * W * per
          /\ next.scale = u * u
      <4>1. t.cost = 0
        BY <1>12, <2>3
      <4>2. /\ next.cost = (t.cost + o) * u /\ next.per = per * Paid(c, entry, u, 0 + g)
            /\ next.qty = t.qty * Paid(c, entry, u, 0 + g) + o * W * per
            /\ next.scale = u * u
        BY <1>6, <1>11, <3>1, <3>3 DEF Following
      <4>3. o * W * per \in Nat /\ 0 + g = g /\ 0 + o = o
        OBVIOUS
      <4>. QED
        BY <2>3, <3>4, <4>1, <4>2, <4>3
    <3>6. m = entry * (W * u) /\ e = W * u
      <4>1. Trigger(c, entry, u, 0) = entry * (W * u)
        BY <1>11, DeeperTriggers
      <4>. QED
        BY <1>7, <1>9, <1>11, <2>3, <3>3, <4>1 DEF Numerator, Denominator
    <3>7. n = o * u * (per * paid) /\ d = o * W * per * (u * u)
      BY <1>8, <1>10, <2>3, <3>5 DEF Numerator, Denominator
    <3>8. PICK y \in Nat : y = entry * (W * u)
      OBVIOUS
    <3>9. PICK z \in Nat : z = o * u * per * (W * u)
      OBVIOUS
    <3>10. n * e = paid * z
      BY <3>6, <3>7, <3>9
    <3>11. m * d = y * z
      BY <3>6, <3>7, <3>8, <3>9
    <3>12. paid \in Int /\ y \in Int /\ Beyond(c, paid, y)
      BY <3>4, <3>8
    <3>13. Beyond(c, paid * z, y * z)
      BY <3>12, BothTimes
    <3>. QED
      BY <3>10, <3>11, <3>13
  <2>. QED
    BY <1>12, <2>1, <2>2, <2>3 DEF TotalsOut
<1>14. Beyond(c, RoundDiv(n, d), RoundDiv(m, e))
  BY <1>13, RoundingKeepsSide
<1>15. Preview(c, price)[k].avg = RoundDiv(n, d)
  BY <1>1, <1>2, <1>4, <1>8, <1>10, StepShows
<1>16. Preview(c, price)[k - 1].avg = RoundDiv(m, e)
  BY <1>1, <1>2, <1>3, <1>7, <1>9, StepShows
<1>. QED
  BY <1>14, <1>15, <1>16
-----------------------------------------------------------------------------
\* A position that holds something has a real average, near what its orders paid,
\* and its profit is taken beyond that average.
LEMMA LevelsOfAPosition ==
  ASSUME NEW c \in Configs, NEW price \in Int, NEW k \in 0..Orders(c),
         NEW t, t = Totals(c, AtLeast(price, 1))[k],
         NEW step, step = Preview(c, price)[k],
         t.cost # 0
  PROVE  /\ step.avg >= 1
         /\ Beyond(c, step.avg, step.tp)
         /\ -(t.qty * t.scale) <= 2 * (step.avg * (t.qty * t.scale) - t.cost * t.per)
         /\ 2 * (step.avg * (t.qty * t.scale) - t.cost * t.per) <= t.qty * t.scale
<1>1. PICK entry \in Nat \ {0} : entry = AtLeast(price, 1)
  BY PreviewShows
<1>2. PICK trigger : trigger = Trigger(c, entry, t.scale, t.deviation)
  OBVIOUS
<1>3. Fits(c, entry, t) /\ step \in StepOut
  BY <1>1, <1>2, StepShows
<1>4. PICK n \in Int : n = t.cost * t.per
  BY <1>3 DEF Fits, TotalsOut
<1>5. PICK d \in Nat \ {0} : d = t.qty * t.scale
  <2>1. PICK x, y \in Nat \ {0} : x = t.qty /\ y = t.scale
    BY <1>3 DEF Fits, TotalsOut
  <2>2. x * y \in Nat \ {0}
    OBVIOUS
  <2>. QED
    BY <2>1, <2>2
<1>6. Numerator(t, trigger) = n /\ Denominator(t) = d
  <2>1. t.qty # 0
    BY <1>3 DEF Fits
  <2>. QED
    BY <1>4, <1>5, <2>1 DEF Numerator, Denominator
<1>7. step.avg = RoundDiv(n, d)
  BY <1>1, <1>2, <1>6, StepShows
<1>8. step.tp = RoundDiv(n * ProfitFactor(c), d * Whole)
  BY <1>1, <1>2, <1>6, StepShows
<1>9. d <= n
  BY <1>3, <1>4, <1>5 DEF Fits
<1>10. step.avg >= 1
  <2>1. 1 * d <= n * 1
    BY <1>9
  <2>2. RoundDiv(1, 1) <= RoundDiv(n, d)
    BY <2>1, RoundingKeepsOrder
  <2>3. RoundDiv(1, 1) = 1
    BY DEF RoundDiv
  <2>. QED
    BY <1>7, <2>2, <2>3
<1>11. PICK W \in Nat \ {0} : W = Whole
  BY DcaConstants
<1>12. PICK f \in Int : f = ProfitFactor(c) /\ Beyond(c, W, f)
  <2>1. PICK p \in Nat : p = c.tp
    BY ConfigFacts DEF Config
  <2>2. CASE c.direction = "long" /\ Mult(c) = -1
    BY <1>11, <2>1, <2>2 DEF ProfitFactor, Beyond
  <2>3. CASE c.direction = "short" /\ Mult(c) = 1
    BY <1>11, <2>1, <2>3 DEF ProfitFactor, Beyond
  <2>. QED
    BY <2>2, <2>3, ConfigFacts
<1>13. Beyond(c, n * (d * W), n * f * d)
  <2>1. PICK z \in Nat : z = n * d
    BY <1>9
  <2>2. n * (d * W) = W * z /\ n * f * d = f * z
    BY <2>1
  <2>3. Beyond(c, W * z, f * z)
    BY <1>12, BothTimes
  <2>. QED
    BY <2>2, <2>3
<1>14. d * W \in Nat \ {0} /\ n * f \in Int
  OBVIOUS
<1>15. Beyond(c, RoundDiv(n, d), RoundDiv(n * f, d * W))
  BY <1>13, <1>14, RoundingKeepsSide
<1>16. Beyond(c, step.avg, step.tp)
  BY <1>7, <1>8, <1>11, <1>12, <1>15
<1>17. PICK q \in Int : q = RoundDiv(n, d) /\ -d <= 2 * (q * d - n) /\ 2 * (q * d - n) <= d
  BY Rounding
<1>. QED
  BY <1>4, <1>5, <1>7, <1>10, <1>16, <1>17

\* The cumulative amount of a step, near what its orders cost.
LEMMA TotalOfAPosition ==
  ASSUME NEW c \in Configs, NEW price \in Int, NEW k \in 0..Orders(c),
         NEW t, t = Totals(c, AtLeast(price, 1))[k],
         NEW step, step = Preview(c, price)[k]
  PROVE  /\ step \in StepOut
         /\ -t.scale <= 2 * (step.cumulative * t.scale - t.cost)
         /\ 2 * (step.cumulative * t.scale - t.cost) <= t.scale
         /\ t.cost = 0 => step.cumulative = 0
<1>1. PICK entry : entry = AtLeast(price, 1)
  OBVIOUS
<1>2. PICK trigger : trigger = Trigger(c, entry, t.scale, t.deviation)
  OBVIOUS
<1>3. Fits(c, entry, t) /\ step \in StepOut /\ step.cumulative = RoundDiv(t.cost, t.scale)
  BY <1>1, <1>2, StepShows
<1>4. PICK n \in Nat, d \in Nat \ {0} : n = t.cost /\ d = t.scale
  BY <1>3 DEF Fits, TotalsOut
<1>5. PICK q \in Int : q = RoundDiv(n, d) /\ -d <= 2 * (q * d - n) /\ 2 * (q * d - n) <= d
  <2>1. PICK i \in Int : i = n
    OBVIOUS
  <2>2. PICK q \in Int : q = RoundDiv(i, d) /\ -d <= 2 * (q * d - i) /\ 2 * (q * d - i) <= d
    BY Rounding
  <2>. QED
    BY <2>1, <2>2
<1>6. n = 0 => RoundDiv(n, d) = 0
  BY RoundingKeepsSign
<1>. QED
  BY <1>3, <1>4, <1>5, <1>6

\* A verdict is about the profit at the price that led to it.
LEMMA VerdictsAreRight ==
  ASSUME config \in Configs, NEW first \in Int, NEW k \in 0..Orders(config),
         NEW step, step = Preview(config, first)[k],
         NEW price \in Int
  PROVE  /\ Verdict(step, price) = "take_profit" => Reported(config, step, price) >= 0
         /\ Verdict(step, price) = "stop_loss" =>
              /\ Reported(config, step, price) <= 0
              /\ Profit(config, step, price).n < 0 \/ step.cumulative = 0
<1>1. PICK c \in Configs : c = config
  OBVIOUS
<1>2. PICK t : t = Totals(c, AtLeast(first, 1))[k]
  OBVIOUS
<1>3. step \in StepOut /\ (t.cost = 0 => step.cumulative = 0)
  BY <1>1, <1>2, TotalOfAPosition
<1>4. PICK cost \in Nat, avg, tp \in Int : cost = step.cumulative /\ avg = step.avg /\ tp = step.tp
  BY <1>3 DEF StepOut
<1>5. CASE cost = 0
  <2>1. Profit(config, step, price) = [n |-> 0, d |-> 1]
    BY <1>4, <1>5 DEF Profit
  <2>2. Profit(config, step, price).n = 0 /\ Profit(config, step, price).d = 1
    BY <2>1
  <2>3. RoundDiv(0, 1) = 0
    BY DEF RoundDiv
  <2>. QED
    BY <1>4, <1>5, <2>2, <2>3 DEF Reported
<1>6. CASE cost > 0
  <2>1. avg >= 1 /\ Beyond(c, avg, tp)
    BY <1>1, <1>2, <1>3, <1>4, <1>6, LevelsOfAPosition
  <2>2. Profit(config, step, price) = [n |-> Mult(c) * (avg - price) * cost, d |-> avg]
    BY <1>1, <1>4, <1>6, <2>1 DEF Profit
  <2>3. PICK n \in Int : n = Mult(c) * (avg - price) * cost
    BY ConfigFacts
  <2>4. /\ Profit(config, step, price).n = n
        /\ Reported(config, step, price) = RoundDiv(n, avg)
    BY <2>2, <2>3 DEF Reported
  <2>5. PICK W \in Nat \ {0} : W = Whole
    BY DcaConstants
  <2>6. PICK sl \in Nat : sl = c.stop_loss
    BY ConfigFacts DEF Config
  <2>7. CASE c.direction = "long" /\ Mult(c) = -1
    <3>1. n = (price - avg) * cost
      BY <2>3, <2>7
    <3>2. ASSUME HitsProfit(step, price)
          PROVE  n >= 0
      <4>1. PICK x \in Nat : x = price - avg
        BY <1>1, <1>4, <2>1, <2>7, <3>2 DEF HitsProfit, Beyond
      <4>2. x * cost >= 0
        OBVIOUS
      <4>. QED
        BY <3>1, <4>1, <4>2
    <3>3. ASSUME HitsStop(step, price)
          PROVE  n < 0
      <4>1. sl > 0 /\ price * W <= avg * (W - sl)
        BY <1>1, <1>4, <2>5, <2>6, <2>7, <3>3 DEF HitsStop, Beyond
      <4>2. avg * sl > 0
        BY <2>1, <4>1
      <4>3. price * W < avg * W
        BY <4>1, <4>2
      <4>4. PICK x \in Int : x = avg - price
        OBVIOUS
      <4>5. x * W > 0
        BY <4>3, <4>4
      <4>6. x > 0
        BY <4>5
      <4>7. x * cost > 0
        BY <1>6, <4>6
      <4>8. n = -(x * cost)
        BY <3>1, <4>4
      <4>. QED
        BY <4>7, <4>8
    <3>4. n >= 0 => RoundDiv(n, avg) >= 0
      BY <2>1, RoundingKeepsSign
    <3>5. n <= 0 => RoundDiv(n, avg) <= 0
      BY <2>1, RoundingKeepsSign
    <3>. QED
      BY <2>4, <3>2, <3>3, <3>4, <3>5 DEF Verdict
  <2>8. CASE c.direction = "short" /\ Mult(c) = 1
    <3>1. n = (avg - price) * cost
      BY <2>3, <2>8
    <3>2. ASSUME HitsProfit(step, price)
          PROVE  n >= 0
      <4>1. PICK x \in Nat : x = avg - price
        BY <1>1, <1>4, <2>1, <2>8, <3>2 DEF HitsProfit, Beyond
      <4>2. x * cost >= 0
        OBVIOUS
      <4>. QED
        BY <3>1, <4>1, <4>2
    <3>3. ASSUME HitsStop(step, price)
          PROVE  n < 0
      <4>1. sl > 0 /\ price * W >= avg * (W + sl)
        BY <1>1, <1>4, <2>5, <2>6, <2>8, <3>3 DEF HitsStop, Beyond
      <4>2. avg * sl > 0
        BY <2>1, <4>1
      <4>3. price * W > avg * W
        BY <4>1, <4>2
      <4>4. PICK x \in Int : x = price - avg
        OBVIOUS
      <4>5. x * W > 0
        BY <4>3, <4>4
      <4>6. x > 0
        BY <4>5
      <4>7. x * cost > 0
        BY <1>6, <4>6
      <4>8. n = -(x * cost)
        BY <3>1, <4>4
      <4>. QED
        BY <4>7, <4>8
    <3>4. n >= 0 => RoundDiv(n, avg) >= 0
      BY <2>1, RoundingKeepsSign
    <3>5. n <= 0 => RoundDiv(n, avg) <= 0
      BY <2>1, RoundingKeepsSign
    <3>. QED
      BY <2>4, <3>2, <3>3, <3>4, <3>5 DEF Verdict
  <2>. QED
    BY <1>1, <2>7, <2>8, ConfigFacts
<1>. QED
  BY <1>4, <1>5, <1>6

\* A product with a number of bounded size.
LEMMA AbsTimes ==
  ASSUME NEW x \in Int, NEW b \in Nat, -b <= x, x <= b, NEW z \in Int
  PROVE  /\ Abs(z) \in Nat
         /\ -(b * Abs(z)) <= z * x /\ z * x <= b * Abs(z)
<1>1. PICK a \in Nat : a = Abs(z) /\ (z = a \/ z = -a)
  <2>1. CASE z >= 0
    BY <2>1 DEF Abs, AtLeast
  <2>2. CASE z < 0
    BY <2>2 DEF Abs, AtLeast
  <2>. QED
    BY <2>1, <2>2
<1>2. PICK u, v \in Nat : u = b - x /\ v = b + x
  OBVIOUS
<1>3. u * a >= 0 /\ v * a >= 0
  OBVIOUS
<1>4. u * a = b * a - a * x /\ v * a = b * a + a * x
  BY <1>2
<1>5. z * x = a * x \/ z * x = -(a * x)
  BY <1>1
<1>. QED
  BY <1>1, <1>3, <1>4, <1>5

\* The profit of a step is that of its orders but for the three roundings.
LEMMA ProfitIsNear ==
  ASSUME NEW c \in Configs, NEW first \in Int, NEW k \in 0..Orders(c), NEW price \in Int,
         NEW t, t = Totals(c, AtLeast(first, 1))[k],
         NEW step, step = Preview(c, first)[k],
         NEW over, over = t.scale * t.per,
         NEW gained, gained = Mult(c) * (t.cost * t.per - price * (t.qty * t.scale)),
         NEW error, error = Reported(c, step, price) * over - gained
  PROVE  2 * Abs(step.avg) * Abs(error)
           <= Abs(price) * (t.qty * t.scale) + (Abs(step.avg - price) + Abs(step.avg)) * over
<1>1. PICK entry \in Nat \ {0} : entry = AtLeast(first, 1)
  BY PreviewShows
<1>2. PICK trigger : trigger = Trigger(c, entry, t.scale, t.deviation)
  OBVIOUS
<1>3. Fits(c, entry, t) /\ step \in StepOut
  BY <1>1, <1>2, StepShows
<1>4. PICK cost, qty \in Nat, per, s \in Nat \ {0} :
        cost = t.cost /\ qty = t.qty /\ per = t.per /\ s = t.scale
  BY <1>3 DEF Fits, TotalsOut
<1>5. PICK total \in Nat, avg \in Int : total = step.cumulative /\ avg = step.avg
  BY <1>3 DEF StepOut
<1>6. PICK m \in {-1, 1} : m = Mult(c)
  BY ConfigFacts
<1>7. PICK held, all, paid \in Nat : held = qty * s /\ all = s * per /\ paid = cost * per
  OBVIOUS
<1>8. PICK far, near, size \in Nat : far = Abs(price) /\ near = Abs(avg - price) /\ size = Abs(avg)
  <2>1. 0 \in Nat /\ -0 <= 0 /\ 0 <= 0 /\ avg - price \in Int
    OBVIOUS
  <2>2. Abs(price) \in Nat /\ Abs(avg - price) \in Nat /\ Abs(avg) \in Nat
    BY <2>1, AbsTimes
  <2>. QED
    BY <2>2
<1>9. PICK reported : reported = Reported(c, step, price)
  OBVIOUS
<1>10. over = all /\ gained = m * (paid - price * held) /\ error = reported * all - gained
  BY <1>4, <1>6, <1>7, <1>9
<1>11. SUFFICES 2 * size * Abs(error) <= far * held + (near + size) * all
  BY <1>4, <1>5, <1>7, <1>8, <1>10
<1>12. CASE cost = 0
  <2>1. qty = 0 /\ total = 0
    <3>1. qty = 0
      BY <1>3, <1>4, <1>12 DEF Fits
    <3>2. t.cost = 0 => step.cumulative = 0
      BY TotalOfAPosition
    <3>. QED
      BY <1>4, <1>5, <1>12, <3>1, <3>2
  <2>2. Profit(c, step, price) = [n |-> 0, d |-> 1]
    BY <1>5, <2>1 DEF Profit
  <2>3. reported = RoundDiv(0, 1)
    BY <1>9, <2>2 DEF Reported
  <2>4. reported = 0
    BY <2>3 DEF RoundDiv
  <2>5. held = 0 /\ paid = 0
    BY <1>7, <1>12, <2>1
  <2>6. gained = 0
    BY <1>6, <1>10, <2>5
  <2>7. error = 0
    BY <1>10, <2>4, <2>6
  <2>8. Abs(error) = 0
    BY <2>7 DEF Abs, AtLeast
  <2>9. 2 * size * 0 = 0 /\ far * held >= 0 /\ (near + size) * all >= 0
    OBVIOUS
  <2>10. far * held \in Int /\ (near + size) * all \in Int
    OBVIOUS
  <2>. QED
    BY <2>8, <2>9, <2>10
<1>13. CASE cost > 0
  <2>1. PICK r \in Int : r = 2 * (avg * held - paid) /\ -held <= r /\ r <= held
    BY <1>4, <1>5, <1>7, <1>13, LevelsOfAPosition
  <2>2. avg >= 1
    BY <1>4, <1>5, <1>13, LevelsOfAPosition
  <2>3. PICK y \in Int : y = 2 * (total * s - cost) /\ -s <= y /\ y <= s
    BY <1>4, <1>5, TotalOfAPosition
  <2>4. PICK u \in Int : u = avg - price
    OBVIOUS
  <2>5. PICK n \in Int : n = m * u * total
    OBVIOUS
  <2>6. PICK x \in Int : /\ reported \in Int
                         /\ x = 2 * (reported * avg - n) /\ -avg <= x /\ x <= avg
    <3>1. CASE total = 0
      <4>1. Profit(c, step, price) = [n |-> 0, d |-> 1]
        BY <1>5, <3>1 DEF Profit
      <4>2. reported = RoundDiv(0, 1)
        BY <1>9, <4>1 DEF Reported
      <4>3. reported = 0
        BY <4>2 DEF RoundDiv
      <4>4. n = 0 /\ reported * avg = 0
        BY <2>5, <3>1, <4>3
      <4>. QED
        BY <2>2, <4>3, <4>4
    <3>2. CASE total > 0
      <4>1. Profit(c, step, price) = [n |-> n, d |-> avg]
        BY <1>5, <1>6, <2>2, <2>4, <2>5, <3>2 DEF Profit
      <4>2. reported = RoundDiv(n, avg)
        BY <1>9, <4>1 DEF Reported
      <4>3. PICK a \in Nat \ {0} : a = avg
        BY <2>2
      <4>4. PICK q \in Int : q = RoundDiv(n, a) /\ -a <= 2 * (q * a - n) /\ 2 * (q * a - n) <= a
        BY Rounding
      <4>. QED
        BY <4>2, <4>3, <4>4
    <3>. QED
      BY <3>1, <3>2
  <2>7. 2 * (avg * error) = x * all + m * (u * (y * per) + price * r)
    <3>1. avg * error = (reported * avg) * all - m * (avg * paid - price * (avg * held))
      <4>1. PICK g \in Int : g = paid - price * held
        OBVIOUS
      <4>2. avg * g = avg * paid - price * (avg * held)
        BY <4>1
      <4>3. avg * (reported * all - m * g) = (reported * avg) * all - m * (avg * g)
        BY <2>6
      <4>. QED
        BY <1>10, <4>1, <4>2, <4>3
    <3>2. PICK ra, ah \in Int : ra = reported * avg /\ ah = avg * held
      BY <2>6
    <3>3. 2 * ra = x + 2 * n /\ 2 * ah = r + 2 * paid
      BY <2>1, <2>6, <3>2
    <3>4. 2 * (ra * all) = x * all + 2 * (n * all)
      <4>1. (2 * ra) * all = (x + 2 * n) * all
        BY <3>3
      <4>. QED
        BY <4>1
    <3>5. 2 * (n * all) = m * (u * (y * per) + 2 * (u * paid))
      <4>1. PICK ts \in Int : ts = total * s
        OBVIOUS
      <4>2. 2 * ts = y + 2 * cost
        BY <2>3, <4>1
      <4>3. n * all = m * (u * (ts * per))
        BY <1>7, <2>5, <4>1
      <4>4. (2 * ts) * per = y * per + 2 * paid
        <5>1. (2 * ts) * per = (y + 2 * cost) * per
          BY <4>2
        <5>. QED
          BY <1>7, <5>1
      <4>5. PICK tp, yp \in Int : tp = ts * per /\ yp = y * per
        OBVIOUS
      <4>6. 2 * tp = yp + 2 * paid
        BY <4>4, <4>5
      <4>7. u * (2 * tp) = u * yp + 2 * (u * paid)
        BY <4>6
      <4>. QED
        BY <4>3, <4>5, <4>7
    <3>6. 2 * (price * ah) = price * r + 2 * (price * paid)
      <4>1. price * (2 * ah) = price * (r + 2 * paid)
        BY <3>3
      <4>. QED
        BY <4>1
    <3>7. u * paid = avg * paid - price * paid
      BY <2>4
    <3>8. PICK a1, a2, a3, a4, a5, a6, a7 \in Int :
            /\ a1 = x * all /\ a2 = u * (y * per) /\ a3 = price * r
            /\ a4 = avg * paid /\ a5 = price * paid /\ a6 = ra * all /\ a7 = price * ah
      OBVIOUS
    <3>9. avg * error = a6 - m * (a4 - a7)
      BY <3>1, <3>2, <3>8
    <3>10. 2 * a6 = a1 + m * (a2 + 2 * (a4 - a5))
      BY <3>4, <3>5, <3>7, <3>8
    <3>11. 2 * a7 = a3 + 2 * a5
      BY <3>6, <3>8
    <3>12. CASE m = 1
      BY <3>8, <3>9, <3>10, <3>11, <3>12
    <3>13. CASE m = -1
      BY <3>8, <3>9, <3>10, <3>11, <3>13
    <3>. QED
      BY <3>12, <3>13
  <2>8. size = avg
    BY <1>8, <2>2 DEF Abs, AtLeast
  <2>9. -(avg * all) <= x * all /\ x * all <= avg * all
    <3>1. PICK v, w \in Nat : v = avg - x /\ w = avg + x
      BY <2>2, <2>6
    <3>2. v * all >= 0 /\ w * all >= 0
      OBVIOUS
    <3>3. v * all = avg * all - x * all /\ w * all = avg * all + x * all
      BY <3>1
    <3>. QED
      BY <3>2, <3>3
  <2>10. -(near * all) <= u * (y * per) /\ u * (y * per) <= near * all
    <3>1. PICK yp \in Int : yp = y * per
      OBVIOUS
    <3>2. -all <= yp /\ yp <= all
      <4>1. PICK v, w \in Nat : v = s - y /\ w = s + y
        BY <2>3
      <4>2. v * per >= 0 /\ w * per >= 0
        OBVIOUS
      <4>3. v * per = all - yp /\ w * per = all + yp
        BY <1>7, <3>1, <4>1
      <4>. QED
        BY <4>2, <4>3
    <3>3. near = Abs(u)
      BY <1>8, <2>4
    <3>4. -(all * Abs(u)) <= u * yp /\ u * yp <= all * Abs(u)
      BY <3>2, AbsTimes
    <3>5. all * near = near * all
      OBVIOUS
    <3>. QED
      BY <3>1, <3>3, <3>4, <3>5
  <2>11. -(far * held) <= price * r /\ price * r <= far * held
    <3>1. -(held * Abs(price)) <= price * r /\ price * r <= held * Abs(price)
      BY <2>1, AbsTimes
    <3>2. held * far = far * held
      OBVIOUS
    <3>. QED
      BY <1>8, <3>1, <3>2
  <2>12. PICK a1, a2, a3, b1, b2, b3 \in Int :
           /\ a1 = x * all /\ a2 = u * (y * per) /\ a3 = price * r
           /\ b1 = avg * all /\ b2 = near * all /\ b3 = far * held
    OBVIOUS
  <2>13. error \in Int
    BY <1>10, <2>6
  <2>14. PICK ae \in Int : ae = avg * error
    BY <2>13
  <2>15. 2 * ae = a1 + (a2 + a3) \/ 2 * ae = a1 - (a2 + a3)
    BY <1>6, <2>7, <2>12, <2>14
  <2>16. -(b1 + b2 + b3) <= 2 * ae /\ 2 * ae <= b1 + b2 + b3
    BY <2>9, <2>10, <2>11, <2>12, <2>15
  <2>17. avg * Abs(error) = ae \/ avg * Abs(error) = -ae
    <3>1. Abs(error) = error \/ Abs(error) = -error
      BY <2>13 DEF Abs, AtLeast
    <3>2. avg * (-error) = -ae
      BY <2>13, <2>14
    <3>. QED
      BY <2>14, <3>1, <3>2
  <2>18. PICK p \in Int : p = avg * Abs(error)
    BY <2>14, <2>17
  <2>19. 2 * p <= b1 + b2 + b3
    BY <2>16, <2>17, <2>18
  <2>20. 2 * avg * Abs(error) = 2 * p
    <3>1. Abs(error) \in Int
      BY <2>13 DEF Abs, AtLeast
    <3>. QED
      BY <2>18, <3>1
  <2>21. (near + avg) * all = b1 + b2
    BY <2>12
  <2>. QED
    BY <2>8, <2>12, <2>19, <2>20, <2>21
<1>. QED
  BY <1>12, <1>13
-----------------------------------------------------------------------------
\* The ladder is the preview of the first price, and of its steps the base order
\* and perhaps more are filled.
LadderInv ==
  /\ config \in Configs
  /\ close \in {"open", "take_profit", "stop_loss"}
  /\ path \in Seq(Prices)
  /\ path = <<>> => ladder = <<>> /\ filled = 0 /\ close = "open"
  /\ path # <<>> =>
       /\ ladder = Preview(config, path[1])
       /\ filled \in 1..(Orders(config) + 1)

LEMMA LadderSize ==
  ASSUME NEW c \in Configs, NEW price \in Int
  PROVE  Cardinality(DOMAIN Preview(c, price)) = Orders(c) + 1
<1>1. PICK n \in Nat : n = Orders(c)
  BY ConfigFacts
<1>2. DOMAIN Preview(c, price) = 0..n
  BY <1>1, PreviewShows
<1>3. 0 \in Int /\ n \in Int
  OBVIOUS
<1>4. Cardinality(0..n) = IF 0 > n THEN 0 ELSE n - 0 + 1
  BY <1>3, FS_Interval
<1>. QED
  BY <1>1, <1>2, <1>4

\* The while loop stops at the first step that the price does not reach.
LEMMA LoopStops ==
  ASSUME config \in Configs, NEW first \in Int, NEW price \in Int,
         NEW count \in 1..(Orders(config) + 1),
         NEW steps, steps = Preview(config, first),
         NEW k, k = FilledWaiting(steps, count, price)
  PROVE  /\ k \in count..(Orders(config) + 1)
         /\ \A j \in count..(k - 1) : Beyond(config, price, steps[j].trigger)
         /\ k \in 1..Orders(config) => ~Beyond(config, price, steps[k].trigger)
<1>1. PICK n \in Nat : n = Orders(config)
  BY ConfigFacts
<1>2. Cardinality(DOMAIN steps) = n + 1 /\ DOMAIN steps = 0..n
  BY <1>1, LadderSize, PreviewShows
<1>3. PICK T : T = {j \in count..n : ~Beyond(config, price, steps[j].trigger)}
  OBVIOUS
<1>4. IsFiniteSet(T)
  <2>1. count \in Int /\ n \in Int
    BY <1>1
  <2>2. IsFiniteSet(count..n)
    BY <2>1, FS_Interval
  <2>. QED
    BY <1>3, <2>2, FS_Subset
<1>5. \E i \in count..(n + 1) :
        /\ \A j \in count..(i - 1) : Beyond(config, price, steps[j].trigger)
        /\ i \in DOMAIN steps => ~Beyond(config, price, steps[i].trigger)
  <2>1. CASE T = {}
    <3>1. \A j \in count..n : Beyond(config, price, steps[j].trigger)
      BY <1>3, <2>1
    <3>2. n + 1 \in count..(n + 1) /\ n + 1 \notin DOMAIN steps /\ (n + 1) - 1 = n
      BY <1>1, <1>2
    <3>. QED
      BY <3>1, <3>2
  <2>2. CASE T # {}
    <3>1. T \subseteq Int
      BY <1>3
    <3>2. PICK i \in T : \A j \in T : i <= j
      BY <1>4, <2>2, <3>1, LeastNumber
    <3>3. i \in count..n /\ i \in count..(n + 1) /\ ~Beyond(config, price, steps[i].trigger)
      BY <1>1, <1>3, <3>2
    <3>4. \A j \in count..(i - 1) : Beyond(config, price, steps[j].trigger)
      <4>1. SUFFICES ASSUME NEW j \in count..(i - 1)
                     PROVE  Beyond(config, price, steps[j].trigger)
        OBVIOUS
      <4>2. j \in count..n /\ ~(i <= j)
        BY <1>1, <3>3
      <4>3. j \notin T
        BY <3>2, <4>2
      <4>. QED
        BY <1>3, <4>2, <4>3
    <3>. QED
      BY <3>3, <3>4
  <2>. QED
    BY <2>1, <2>2
<1>6. /\ k \in count..(n + 1)
      /\ \A j \in count..(k - 1) : Beyond(config, price, steps[j].trigger)
      /\ k \in DOMAIN steps => ~Beyond(config, price, steps[k].trigger)
  <2>1. DEFINE P(i) == /\ \A j \in count..(i - 1) : Beyond(config, price, steps[j].trigger)
                       /\ i \in DOMAIN steps => ~Beyond(config, price, steps[i].trigger)
  <2>2. FilledWaiting(steps, count, price) = CHOOSE i \in count..Cardinality(DOMAIN steps) : P(i)
    BY Zenon DEF FilledWaiting
  <2>3. \E i \in count..(n + 1) : P(i)
    BY <1>5, Zenon
  <2>4. k = CHOOSE i \in count..(n + 1) : P(i)
    BY <1>2, <2>2, Zenon
  <2>. HIDE DEF P
  <2>5. k \in count..(n + 1) /\ P(k)
    BY <2>3, <2>4, Zenon
  <2>. QED
    BY <2>5, Zenon DEF P
<1>. QED
  BY <1>1, <1>2, <1>6

LEMMA PathFacts ==
  ASSUME NEW p \in Seq(Prices), NEW price \in Prices
  PROVE  /\ price \in Int
         /\ \A t \in 1..Len(p) : p[t] \in Int
         /\ p # <<>> => p[1] \in Int /\ Append(p, price)[1] = p[1]
         /\ p = <<>> => Append(p, price)[1] = price
         /\ Append(p, price) \in Seq(Prices) /\ Append(p, price) # <<>>
         /\ Len(Append(p, price)) = Len(p) + 1
         /\ Append(p, price)[Len(p) + 1] = price
         /\ \A t \in 1..Len(p) : Append(p, price)[t] = p[t]
<1>1. Prices \subseteq Int
  BY DcaConstants
<1>2. \A t \in 1..Len(p) : p[t] \in Int
  <2>1. \A t \in 1..Len(p) : p[t] \in Prices
    BY ElementOfSeq
  <2>. QED
    BY <1>1, <2>1
<1>3. p # <<>> => 1 \in 1..Len(p)
  OBVIOUS
<1>4. /\ Append(p, price) \in Seq(Prices) /\ Append(p, price) # <<>>
      /\ Len(Append(p, price)) = Len(p) + 1
      /\ Append(p, price)[Len(p) + 1] = price
      /\ \A t \in 1..Len(p) : Append(p, price)[t] = p[t]
  OBVIOUS
<1>5. p = <<>> => Append(p, price)[1] = price
  OBVIOUS
<1>. QED
  BY <1>1, <1>2, <1>3, <1>4, <1>5

\* What a tick does, whichever of the path it is.
LEMMA TickDoes ==
  ASSUME LadderInv, NEW price \in Prices, Tick(price)
  PROVE  /\ config' = config /\ path' = Append(path, price)
         /\ ladder' = Preview(config, path'[1]) /\ path'[1] \in Int
         /\ \E count \in 1..(Orders(config) + 1) :
              /\ count = IF path = <<>> THEN 1 ELSE filled
              /\ filled' = FilledWaiting(ladder', count, price)
         /\ filled' \in 1..(Orders(config) + 1)
         /\ close' = Verdict(ladder'[filled' - 1], price)
<1>1. PICK n \in Nat : n = Orders(config)
  BY ConfigFacts DEF LadderInv
<1>2. config \in Configs /\ path \in Seq(Prices)
  BY DEF LadderInv
<1>3. PICK steps : steps = IF path = <<>> THEN Preview(config, price) ELSE ladder
  OBVIOUS
<1>4. PICK count : count = IF path = <<>> THEN 1 ELSE filled
  OBVIOUS
<1>5. PICK k : k = FilledWaiting(steps, count, price)
  OBVIOUS
<1>6. /\ path' = Append(path, price) /\ ladder' = steps /\ filled' = k /\ config' = config
      /\ close' = IF k = 0 THEN "open" ELSE Verdict(steps[k - 1], price)
  BY <1>3, <1>4, <1>5 DEF Tick, FilledAfter
<1>7. steps = Preview(config, path'[1]) /\ path'[1] \in Int
  <2>1. CASE path = <<>>
    <3>1. Append(path, price)[1] = price /\ price \in Int
      BY <1>2, <2>1, PathFacts
    <3>2. path'[1] = price
      BY <1>6, <3>1
    <3>3. steps = Preview(config, price)
      BY <1>3, <2>1
    <3>. QED
      BY <3>1, <3>2, <3>3
  <2>2. CASE path # <<>>
    <3>1. ladder = Preview(config, path[1])
      BY <2>2 DEF LadderInv
    <3>2. path'[1] = path[1] /\ path[1] \in Int
      BY <1>2, <1>6, <2>2, PathFacts
    <3>. QED
      BY <1>3, <2>2, <3>1, <3>2
  <2>. QED
    BY <2>1, <2>2
<1>8. count \in 1..(n + 1)
  BY <1>1, <1>4 DEF LadderInv
<1>9. k \in count..(n + 1)
  <2>1. price \in Int
    BY <1>2, PathFacts
  <2>2. PICK first \in Int : first = path'[1]
    BY <1>7
  <2>3. steps = Preview(config, first)
    BY <1>7, <2>2
  <2>. QED
    BY <1>1, <1>2, <1>5, <1>8, <2>1, <2>3, LoopStops
<1>10. k \in 1..(n + 1) /\ k # 0
  BY <1>8, <1>9
<1>. QED
  BY <1>1, <1>4, <1>5, <1>6, <1>7, <1>8, <1>10
LEMMA LadderInvariant == SimulationSpec => []LadderInv
<1>1. SimulationInit => LadderInv
  <2>1. <<>> \in Seq(Prices)
    OBVIOUS
  <2>. QED
    BY <2>1 DEF SimulationInit, LadderInv
<1>2. LadderInv /\ [SimulationNext]_simulationVars => LadderInv'
  <2>1. ASSUME LadderInv, NEW price \in Prices, Tick(price)
        PROVE  LadderInv'
    <3>1. PICK p : p = Append(path, price)
      OBVIOUS
    <3>2. p \in Seq(Prices) /\ p # <<>>
      BY <2>1, <3>1, PathFacts DEF LadderInv
    <3>3. /\ config' = config /\ path' = p /\ ladder' = Preview(config, p[1])
          /\ filled' \in 1..(Orders(config) + 1)
          /\ close' = Verdict(ladder'[filled' - 1], price)
      BY <2>1, <3>1, TickDoes
    <3>4. close' \in {"open", "take_profit", "stop_loss"}
      BY <3>3 DEF Verdict
    <3>5. config \in Configs
      BY <2>1 DEF LadderInv
    <3>6. /\ config' \in Configs /\ Orders(config') = Orders(config)
          /\ ladder' = Preview(config', path'[1])
      BY <3>3, <3>5
    <3>. QED
      BY <3>2, <3>3, <3>4, <3>6 DEF LadderInv
  <2>2. ASSUME LadderInv, UNCHANGED simulationVars
        PROVE  LadderInv'
    BY <2>2 DEF LadderInv, simulationVars
  <2>. QED
    BY <2>1, <2>2 DEF SimulationNext
<1>. QED
  BY <1>1, <1>2, PTL DEF SimulationSpec

\* Ladder, path and counts of the simulation stay in their sets and fit each
\* other, for every configuration, path and number of orders.
THEOREM SimulationTypeCorrect == SimulationSpec => []SimulationTypeOK
<1>1. LadderInv => SimulationTypeOK
  <2>. SUFFICES ASSUME LadderInv
                PROVE  SimulationTypeOK
    OBVIOUS
  <2>1. PICK n \in Nat : n = Orders(config)
    BY ConfigFacts DEF LadderInv
  <2>2. CASE path = <<>>
    <3>1. DOMAIN ladder = {}
      BY <2>2 DEF LadderInv
    <3>. QED
      BY <2>2, <3>1 DEF LadderInv, SimulationTypeOK
  <2>3. CASE path # <<>>
    <3>1. 1 \in 1..Len(path) /\ path \in Seq(Prices)
      BY <2>3 DEF LadderInv
    <3>2. path[1] \in Prices
      BY <3>1, ElementOfSeq
    <3>3. PICK first \in Int : first = path[1]
      BY <3>2, DcaConstants
    <3>4. config \in Configs /\ ladder = Preview(config, first) /\ filled \in 1..(n + 1)
      BY <2>1, <2>3, <3>3 DEF LadderInv
    <3>5. ASSUME NEW k \in DOMAIN ladder
          PROVE  ladder[k] \in StepOut
      <4>1. k \in 0..Orders(config)
        BY <3>4, PreviewShows
      <4>2. PICK entry : entry = AtLeast(first, 1)
        OBVIOUS
      <4>3. PICK t : t = Totals(config, entry)[k]
        OBVIOUS
      <4>4. PICK step : step = Preview(config, first)[k]
        OBVIOUS
      <4>5. PICK trigger : trigger = Trigger(config, entry, t.scale, t.deviation)
        OBVIOUS
      <4>. QED
        BY <3>4, <4>1, <4>2, <4>3, <4>4, <4>5, StepShows
    <3>6. Cardinality(DOMAIN ladder) = n + 1
      BY <2>1, <3>4, LadderSize
    <3>. QED
      BY <2>3, <3>4, <3>5, <3>6 DEF LadderInv, SimulationTypeOK
  <2>. QED
    BY <2>2, <2>3
<1>. QED
  BY <1>1, LadderInvariant, PTL

\* The filled orders are exactly those some price so far has reached, for every
\* ladder and path: the loop over the steps never looks back, and need not, as the
\* triggers lie one beyond the other.
THEOREM FillsAreTheReached == SimulationSpec => []FilledAreTheReached
<1>1. SimulationInit => FilledAreTheReached
  BY DEF SimulationInit, FilledAreTheReached, Opened
<1>2. LadderInv /\ FilledAreTheReached /\ [SimulationNext]_simulationVars => FilledAreTheReached'
  <2>1. ASSUME LadderInv, FilledAreTheReached, NEW price \in Prices, Tick(price)
        PROVE  FilledAreTheReached'
    <3>1. PICK n \in Nat : n = Orders(config)
      BY <2>1, ConfigFacts DEF LadderInv
    <3>2. config \in Configs /\ path \in Seq(Prices)
      BY <2>1 DEF LadderInv
    <3>3. PICK p : p = Append(path, price)
      OBVIOUS
    <3>4. PICK first \in Int : first = p[1]
      BY <2>1, <3>3, TickDoes
    <3>5. PICK steps : steps = Preview(config, first)
      OBVIOUS
    <3>6. config' = config /\ path' = p /\ ladder' = steps
      BY <2>1, <3>3, <3>4, <3>5, TickDoes
    <3>7. PICK count \in 1..(n + 1) : count = IF path = <<>> THEN 1 ELSE filled
      BY <2>1, <3>1, TickDoes
    <3>8. PICK k : k = FilledWaiting(steps, count, price)
      OBVIOUS
    <3>9. filled' = k
      BY <2>1, <3>6, <3>7, <3>8, TickDoes
    <3>10. price \in Int
      BY <3>2, PathFacts
    <3>11. /\ k \in count..(n + 1)
           /\ \A j \in count..(k - 1) : Beyond(config, price, steps[j].trigger)
           /\ k \in 1..n => ~Beyond(config, price, steps[k].trigger)
      BY <3>1, <3>2, <3>5, <3>7, <3>8, <3>10, LoopStops
    <3>12. PICK l \in Nat : l = Len(path)
      BY <3>2
    <3>13. /\ Len(p) = l + 1 /\ p[l + 1] = price
           /\ \A t \in 1..l : p[t] = path[t] /\ p[t] \in Int
      BY <3>2, <3>3, <3>12, PathFacts
    <3>14. ASSUME NEW j \in 1..n
           PROVE  j < count <=> \E t \in 1..l : Beyond(config, p[t], steps[j].trigger)
      <4>1. CASE path = <<>>
        <5>1. l = 0 /\ count = 1
          BY <3>7, <3>12, <4>1
        <5>. QED
          BY <5>1
      <4>2. CASE path # <<>>
        <5>1. count = filled /\ ladder = steps
          <6>1. ladder = Preview(config, path[1]) /\ path[1] = first
            BY <2>1, <3>2, <3>3, <3>4, <4>2, PathFacts DEF LadderInv
          <6>. QED
            BY <3>5, <3>7, <4>2, <6>1
        <5>2. j < filled <=> \E t \in 1..l : Beyond(config, path[t], ladder[j].trigger)
          BY <2>1, <3>1, <3>12, <4>2 DEF FilledAreTheReached, Opened
        <5>. QED
          BY <3>13, <5>1, <5>2
      <4>. QED
        BY <4>1, <4>2
    <3>15. ASSUME NEW j \in 1..n
           PROVE  j < k <=> \E t \in 1..(l + 1) : Beyond(config, p[t], steps[j].trigger)
      <4>1. CASE j < count
        <5>1. PICK t \in 1..l : Beyond(config, p[t], steps[j].trigger)
          BY <3>14, <4>1
        <5>2. t \in 1..(l + 1)
          OBVIOUS
        <5>3. j < k
          BY <3>7, <3>11, <4>1
        <5>. QED
          BY <5>1, <5>2, <5>3
      <4>2. CASE j >= count /\ j < k
        <5>1. j \in count..(k - 1)
          BY <3>7, <3>11, <4>2
        <5>2. Beyond(config, p[l + 1], steps[j].trigger)
          BY <3>11, <3>13, <5>1
        <5>3. l + 1 \in 1..(l + 1)
          OBVIOUS
        <5>. QED
          BY <4>2, <5>2, <5>3
      <4>3. CASE j >= k
        <5>1. k \in 1..n /\ k \in 0..j /\ j \in 0..n /\ ~(j < count)
          BY <3>7, <3>11, <4>3
        <5>2. ~Beyond(config, price, steps[k].trigger)
          BY <3>11, <5>1
        <5>3. Beyond(config, steps[j].trigger, steps[k].trigger)
          BY <3>1, <3>2, <3>5, <5>1, TriggersDescend
        <5>4. steps[j].trigger \in Int /\ steps[k].trigger \in Int
          <6>1. k \in 0..n
            BY <5>1
          <6>2. steps[j] \in StepOut /\ steps[k] \in StepOut
            BY <3>1, <3>2, <3>5, <5>1, <6>1, TotalOfAPosition
          <6>. QED
            BY <6>2 DEF StepOut
        <5>5. ~Beyond(config, price, steps[j].trigger)
          BY <3>10, <5>2, <5>3, <5>4 DEF Beyond
        <5>6. ASSUME NEW t \in 1..(l + 1)
              PROVE  ~Beyond(config, p[t], steps[j].trigger)
          <6>1. CASE t = l + 1
            BY <3>13, <5>5, <6>1
          <6>2. CASE t \in 1..l
            BY <3>14, <5>1, <6>2
          <6>. QED
            BY <6>1, <6>2
        <5>. QED
          BY <3>7, <3>11, <4>3, <5>6
      <4>. QED
        BY <3>7, <3>11, <4>1, <4>2, <4>3
    <3>16. \A j \in 1..n : j < k <=> \E t \in 1..Len(p) : Beyond(config, p[t], steps[j].trigger)
      BY <3>13, <3>15
    <3>. QED
      BY <3>1, <3>6, <3>9, <3>16 DEF FilledAreTheReached, Beyond
  <2>2. ASSUME FilledAreTheReached, UNCHANGED simulationVars
        PROVE  FilledAreTheReached'
    BY <2>2 DEF FilledAreTheReached, Opened, Beyond, Orders, simulationVars
  <2>. QED
    BY <2>1, <2>2 DEF SimulationNext
<1>. QED
  BY <1>1, <1>2, LadderInvariant, PTL DEF SimulationSpec

\* A position closed for its profit reports no loss and a stopped one no gain, for every
\* configuration and path: levels, total and profit keep their order through the rounding.
THEOREM ClosesAreRight == SimulationSpec => []ClosesForItsReason
<1>1. SimulationInit => ClosesForItsReason
  BY DEF SimulationInit, ClosesForItsReason
<1>2. LadderInv /\ ClosesForItsReason /\ [SimulationNext]_simulationVars => ClosesForItsReason'
  <2>1. ASSUME LadderInv, NEW price \in Prices, Tick(price)
        PROVE  ClosesForItsReason'
    <3>1. PICK n \in Nat : n = Orders(config)
      BY <2>1, ConfigFacts DEF LadderInv
    <3>2. config \in Configs /\ path \in Seq(Prices)
      BY <2>1 DEF LadderInv
    <3>3. PICK first \in Int : first = path'[1]
      BY <2>1, TickDoes
    <3>4. PICK k \in 0..n : k = filled' - 1
      <4>1. PICK count \in 1..(n + 1) : count = filled'
        BY <2>1, <3>1, TickDoes
      <4>2. count - 1 \in 0..n
        OBVIOUS
      <4>. QED
        BY <4>1, <4>2
    <3>5. PICK step : step = Preview(config, first)[k]
      OBVIOUS
    <3>6. LastStep' = step /\ close' = Verdict(step, price) /\ config' = config
      <4>1. ladder' = Preview(config, first)
        BY <2>1, <3>3, TickDoes
      <4>2. close' = Verdict(ladder'[filled' - 1], price) /\ config' = config
        BY <2>1, TickDoes
      <4>. QED
        BY <3>4, <3>5, <4>1, <4>2 DEF LastStep
    <3>7. LastPrice' = price /\ price \in Int
      <4>1. path' = Append(path, price)
        BY <2>1, TickDoes
      <4>. QED
        BY <3>2, <4>1, PathFacts DEF LastPrice
    <3>8. PICK profit, reported :
            profit = Profit(config, step, price).n /\ reported = Reported(config, step, price)
      OBVIOUS
    <3>9. /\ Verdict(step, price) = "take_profit" => reported >= 0
          /\ Verdict(step, price) = "stop_loss" =>
               reported <= 0 /\ (profit < 0 \/ step.cumulative = 0)
      BY <3>1, <3>2, <3>5, <3>7, <3>8, VerdictsAreRight
    <3>10. /\ Profit(config', LastStep', LastPrice').n = profit
           /\ Reported(config', LastStep', LastPrice') = reported
      BY <3>6, <3>7, <3>8
    <3>11. /\ close' = "take_profit" => Reported(config', LastStep', LastPrice') >= 0
           /\ close' = "stop_loss" =>
                /\ Reported(config', LastStep', LastPrice') <= 0
                /\ \/ Profit(config', LastStep', LastPrice').n < 0
                   \/ LastStep'.cumulative = 0
      BY <3>6, <3>9, <3>10
    <3>. QED
      BY <3>11 DEF ClosesForItsReason
  <2>2. ASSUME ClosesForItsReason, UNCHANGED simulationVars
        PROVE  ClosesForItsReason'
    BY <2>2 DEF ClosesForItsReason, Profit, Reported, Mult, LastStep, LastPrice, simulationVars
  <2>. QED
    BY <2>1, <2>2 DEF SimulationNext
<1>. QED
  BY <1>1, <1>2, LadderInvariant, PTL DEF SimulationSpec

\* Every order of every ladder moves the average towards the market, whatever its
\* size, deviation and multipliers, through the rounding and at the least price.
THEOREM EveryOrderPays == SimulationSpec => []AveragingPays
<1>1. LadderInv => AveragingPays
  <2>. SUFFICES ASSUME LadderInv, path # <<>>, NEW k \in 1..Orders(config)
                PROVE  Beyond(config, ladder[k].avg, ladder[k - 1].avg)
    BY DEF AveragingPays, Opened
  <2>1. config \in Configs /\ ladder = Preview(config, path[1])
    BY DEF LadderInv
  <2>2. path[1] \in Int
    <3>1. path \in Seq(Prices) /\ 1 \in 1..Len(path)
      BY DEF LadderInv
    <3>2. path[1] \in Prices
      BY <3>1, ElementOfSeq
    <3>. QED
      BY <3>2, DcaConstants
  <2>. QED
    BY <2>1, <2>2, AveragesDescend
<1>. QED
  BY <1>1, LadderInvariant, PTL

\* The profit reported is that of the filled orders, each at its own price, but for
\* the rounding of the average, of the total and of the profit: for every ladder and path.
THEOREM ProfitIsOfTheOrders == SimulationSpec => []ProfitIsThatOfTheOrders
<1>1. LadderInv => ProfitIsThatOfTheOrders
  <2>. SUFFICES ASSUME LadderInv, path # <<>>
                PROVE  ProfitIsThatOfTheOrders
    BY DEF ProfitIsThatOfTheOrders, Opened
  <2>1. PICK n \in Nat : n = Orders(config)
    BY ConfigFacts DEF LadderInv
  <2>2. path \in Seq(Prices) /\ 1 \in 1..Len(path) /\ Len(path) \in 1..Len(path)
    BY DEF LadderInv
  <2>3. path[1] \in Prices /\ path[Len(path)] \in Prices
    BY <2>2, ElementOfSeq
  <2>4. PICK first \in Int : first = path[1]
    BY <2>3, DcaConstants
  <2>5. PICK price \in Int : price = LastPrice
    BY <2>3, DcaConstants DEF LastPrice
  <2>6. config \in Configs /\ ladder = Preview(config, first) /\ filled \in 1..(n + 1)
    BY <2>1, <2>4 DEF LadderInv
  <2>7. PICK k \in 0..n : k = filled - 1
    BY <2>6
  <2>8. PICK step : step = Preview(config, first)[k]
    OBVIOUS
  <2>9. LastStep = step
    BY <2>6, <2>7, <2>8 DEF LastStep
  <2>10. PICK t : t = Totals(config, AtLeast(first, 1))[k]
    OBVIOUS
  <2>11. PICK over : over = t.scale * t.per
    OBVIOUS
  <2>12. PICK gained : gained = Mult(config) * (t.cost * t.per - price * (t.qty * t.scale))
    OBVIOUS
  <2>13. PICK error : error = Reported(config, step, price) * over - gained
    OBVIOUS
  <2>14. 2 * Abs(step.avg) * Abs(error)
           <= Abs(price) * (t.qty * t.scale) + (Abs(step.avg - price) + Abs(step.avg)) * over
    BY <2>1, <2>6, <2>8, <2>10, <2>11, <2>12, <2>13, ProfitIsNear
  <2>. QED
    BY <2>4, <2>5, <2>7, <2>9, <2>10, <2>11, <2>12, <2>13, <2>14, Zenon DEF ProfitIsThatOfTheOrders
<1>. QED
  BY <1>1, LadderInvariant, PTL
=============================================================================
