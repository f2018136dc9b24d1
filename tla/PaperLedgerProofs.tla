------------------------- MODULE PaperLedgerProofs -------------------------
(***************************************************************************)
(* The paper book, for any owners, symbols, signals and prices: its types, *)
(* the key a position lies under, the conservation of profit, that a       *)
(* position is that of its fills, and that a mark is the position's own.   *)
(***************************************************************************)
EXTENDS PaperLedger, SetSums, SequenceTheorems

\* An order has a positive quantity (max(qty, 0.001)).
LEMMA OrderQtyType == ASSUME NEW s \in Signals PROVE OrderQty(s) \in Nat \ {0}
<1>1. s.volume \in Int \cup {None} /\ s.risk \in Int \cup {None}
  BY FillConstants DEF Signal
<1>2. OrZero(s.volume) \in Int /\ OrZero(s.risk) \in Int
  BY <1>1 DEF OrZero
<1>. QED
  BY <1>2, FillConstants DEF OrderQty

\* Profit is an integer, rounded or not.
LEMMA ProfitAtType ==
  ASSUME NEW p \in Position, NEW price \in Int PROVE ProfitAt(p, price) \in Int
  BY DEF Position, ProfitAt

LEMMA Round4Type == ASSUME NEW x \in Int PROVE Round4(x) \in Int
<1>1. Grain \in Nat /\ Grain > 0
  BY FillConstants
<1>2. x \div Grain \in Int
  BY <1>1
<1>. QED
  BY <1>1, <1>2 DEF Round4

\* A signal that fills has a price; its side closes or is one to hold.
LEMMA SignalType ==
  ASSUME NEW s \in Signals
  PROVE  /\ s.owner \in Owners \cup {None} /\ s.symbol \in Symbols
         /\ s.side \in Closing \/ s.side \in {"buy", "sell"}
         /\ s.price # None => s.price \in Int
  BY FillConstants DEF Signal, Sides, Closing

\* A signal trades under a key of the book (_paper_position_key).
LEMMA KeyOfType == ASSUME NEW s \in Signals PROVE KeyOf(s) \in Keys
  BY SignalType DEF Keys, KeyOf

LEMMA OpenedType ==
  ASSUME NEW s \in Signals, s.price # None, s.side \notin Closing
  PROVE  Opened(s) \in Position
  BY SignalType, OrderQtyType DEF Opened, Position

\* A fill leaves a position or none (apply_paper_fill's four outcomes).
LEMMA PositionAfterType ==
  ASSUME NEW p \in Position \cup {None}, NEW s \in Signals, s.price # None
  PROVE  PositionAfter(p, s) \in Position \cup {None}
<1>1. CASE s.side \in Closing
  BY <1>1 DEF PositionAfter
<1>2. CASE s.side \notin Closing /\ (IF p = None THEN TRUE ELSE p.side # s.side)
  BY <1>2, OpenedType DEF PositionAfter
<1>3. CASE s.side \notin Closing /\ ~(IF p = None THEN TRUE ELSE p.side # s.side)
  <2>1. p \in Position
    BY <1>3
  <2>2. PositionAfter(p, s) = [p EXCEPT !.qty = p.qty + OrderQty(s),
                                        !.cost = p.cost + s.price * OrderQty(s)]
    BY <1>3 DEF PositionAfter
  <2>3. p.qty + OrderQty(s) \in Nat \ {0} /\ p.cost + s.price * OrderQty(s) \in Int
    BY <2>1, OrderQtyType, SignalType DEF Position
  <2>. QED
    BY <2>1, <2>2, <2>3 DEF Position
<1>. QED
  BY <1>1, <1>2, <1>3

LEMMA RealizedByType ==
  ASSUME NEW p \in Position \cup {None}, NEW s \in Signals, s.price # None
  PROVE  RealizedBy(p, s) \in Int
  BY ProfitAtType, SignalType DEF RealizedBy

-----------------------------------------------------------------------------
\* Worth is an integer.
LEMMA WorthType ==
  ASSUME NEW p \in Position \cup {None}, NEW x \in Int PROVE Worth(p, x) \in Int
  BY ProfitAtType DEF Worth

\* Worth moves with the price as the quantity held does.
LEMMA WorthMoves ==
  ASSUME NEW p \in Position \cup {None}, NEW x \in Int, NEW y \in Int
  PROVE  Worth(p, y) = Worth(p, x) + Exposure(p) * (y - x)
<1>1. CASE p = None
  <2>1. Worth(p, x) = 0 /\ Worth(p, y) = 0 /\ Exposure(p) = 0
    BY <1>1 DEF Worth, Exposure
  <2>. QED
    BY <2>1
<1>2. CASE p # None
  <2>1. p.qty \in Int /\ p.cost \in Int
    BY <1>2 DEF Position
  <2>2. CASE p.side = "buy"
    <3>1. /\ Worth(p, x) = x * p.qty - p.cost
          /\ Worth(p, y) = y * p.qty - p.cost
          /\ Exposure(p) = p.qty
      BY <1>2, <2>2 DEF Worth, Exposure, ProfitAt
    <3>. QED
      BY <2>1, <3>1
  <2>3. CASE p.side # "buy"
    <3>1. /\ Worth(p, x) = p.cost - x * p.qty
          /\ Worth(p, y) = p.cost - y * p.qty
          /\ Exposure(p) = -p.qty
      BY <1>2, <2>3 DEF Worth, Exposure, ProfitAt
    <3>. QED
      BY <2>1, <3>1
  <2>. QED
    BY <2>2, <2>3
<1>. QED
  BY <1>1, <1>2

\* A position just opened is worth nothing at its own price.
LEMMA OpenedWorthNothing ==
  ASSUME NEW s \in Signals, s.price # None, s.side \notin Closing
  PROVE  Worth(Opened(s), s.price) = 0
<1>1. Opened(s) # None
  BY OpenedType, FillConstants
<1>2. s.price \in Int /\ OrderQty(s) \in Int
  BY SignalType, OrderQtyType
<1>3. Worth(Opened(s), s.price) = s.price * OrderQty(s) - s.price * OrderQty(s)
  BY <1>1, <1>2 DEF Worth, ProfitAt, Opened
<1>. QED
  BY <1>2, <1>3

\* A fill converts worth into realized profit without a remainder: at its price,
\* what it realizes and what it leaves is what was there (apply_paper_fill).
LEMMA FillConserves ==
  ASSUME NEW p \in Position \cup {None}, NEW s \in Signals, s.price # None
  PROVE  RealizedBy(p, s) + Worth(PositionAfter(p, s), s.price) = Worth(p, s.price)
<1>1. s.price \in Int
  BY SignalType
<1>2. Worth(p, s.price) \in Int
  BY <1>1, ProfitAtType DEF Worth
<1>3. CASE s.side \in Closing
  <2>1. PositionAfter(p, s) = None
    BY <1>3 DEF PositionAfter
  <2>2. p # None => p.side # s.side
    BY <1>3 DEF Position, Closing
  <2>3. RealizedBy(p, s) = Worth(p, s.price)
    BY <2>2 DEF RealizedBy, Worth
  <2>4. Worth(PositionAfter(p, s), s.price) = 0
    BY <2>1 DEF Worth
  <2>. QED
    BY <1>2, <2>3, <2>4
<1>4. CASE s.side \notin Closing /\ (IF p = None THEN TRUE ELSE p.side # s.side)
  <2>1. PositionAfter(p, s) = Opened(s)
    BY <1>4 DEF PositionAfter
  <2>2. RealizedBy(p, s) = Worth(p, s.price)
    BY <1>4 DEF RealizedBy, Worth
  <2>3. Worth(PositionAfter(p, s), s.price) = 0
    BY <1>4, <2>1, OpenedWorthNothing
  <2>. QED
    BY <1>2, <2>2, <2>3
<1>5. CASE s.side \notin Closing /\ p # None /\ p.side = s.side
  <2>1. p \in Position /\ OrderQty(s) \in Int
    BY <1>5, OrderQtyType
  <2>2. PositionAfter(p, s) = [p EXCEPT !.qty = p.qty + OrderQty(s),
                                        !.cost = p.cost + s.price * OrderQty(s)]
    BY <1>5 DEF PositionAfter
  <2>3. PositionAfter(p, s) # None
    <3>1. p.qty + OrderQty(s) \in Nat \ {0} /\ p.cost + s.price * OrderQty(s) \in Int
      BY <2>1, <1>1, OrderQtyType DEF Position
    <3>2. PositionAfter(p, s) \in Position
      BY <2>1, <2>2, <3>1 DEF Position
    <3>. QED
      BY <3>2, FillConstants
  <2>4. /\ PositionAfter(p, s).side = p.side
        /\ PositionAfter(p, s).qty = p.qty + OrderQty(s)
        /\ PositionAfter(p, s).cost = p.cost + s.price * OrderQty(s)
    BY <2>1, <2>2 DEF Position
  <2>5. RealizedBy(p, s) = 0
    BY <1>5 DEF RealizedBy
  <2>6. p.qty \in Int /\ p.cost \in Int
    BY <2>1 DEF Position
  <2>7. Worth(PositionAfter(p, s), s.price) = Worth(p, s.price)
    <3>1. s.price * (p.qty + OrderQty(s)) - (p.cost + s.price * OrderQty(s))
            = s.price * p.qty - p.cost
      BY <1>1, <2>1, <2>6
    <3>2. (p.cost + s.price * OrderQty(s)) - s.price * (p.qty + OrderQty(s))
            = p.cost - s.price * p.qty
      BY <1>1, <2>1, <2>6
    <3>. QED
      BY <1>5, <2>3, <2>4, <3>1, <3>2 DEF Worth, ProfitAt
  <2>. QED
    BY <1>2, <2>5, <2>7
<1>. QED
  BY <1>3, <1>4, <1>5

-----------------------------------------------------------------------------

\* A mark is a price and its profit is rounded; nothing else of the position
\* changes (paper_mark_to_market).
LEMMA MarkedType ==
  ASSUME NEW p \in Position, NEW price \in Int
  PROVE  /\ Marked(p, price) \in Position
         /\ Marked(p, price).owner = p.owner /\ Marked(p, price).symbol = p.symbol
         /\ Marked(p, price).side = p.side
         /\ Marked(p, price).qty = p.qty
         /\ Marked(p, price).cost = p.cost
<1>1. Round4(ProfitAt(p, price)) \in Int
  BY ProfitAtType, Round4Type
<1>. QED
  BY <1>1 DEF Marked, Position

\* Marking leaves every position or remarks it.
LEMMA MarkCases ==
  ASSUME TypeOK, NEW caller \in Owners, NEW symbol \in Symbols, NEW price \in Prices,
         RecordedMark(caller, symbol, price), NEW k \in Keys
  PROVE  \/ positions'[k] = positions[k]
         \/ positions[k] \in Position /\ positions'[k] = Marked(positions[k], price)
  BY DEF TypeOK, BookTypeOK, RecordedMark, MarkToMarket, Revalued

LEMMA FillKeepsTypes ==
  ASSUME TypeOK, NEW s \in Signals, RecordedFill(s) PROVE TypeOK'
<1>1. s.price # None /\ s.price \in Int
  BY SignalType DEF RecordedFill, Fill
<1>2. KeyOf(s) \in Keys
  BY KeyOfType
<1>3. positions[KeyOf(s)] \in Position \cup {None} /\ last[KeyOf(s)] \in Int
  BY <1>2 DEF TypeOK, BookTypeOK, HistoryTypeOK
<1>4. BookTypeOK'
  <2>1. PositionAfter(positions[KeyOf(s)], s) \in Position \cup {None}
    BY <1>1, <1>3, PositionAfterType
  <2>. QED
    BY <1>2, <2>1 DEF TypeOK, BookTypeOK, RecordedFill, Fill
<1>5. RealizedBy(positions[KeyOf(s)], s) \in Int
  BY <1>1, <1>3, RealizedByType
<1>6. Exposure(positions[KeyOf(s)]) * (s.price - last[KeyOf(s)]) \in Int
  <2>1. Exposure(positions[KeyOf(s)]) \in Int
    BY <1>3 DEF Exposure, Position
  <2>. QED
    BY <1>1, <1>3, <2>1
<1>7. log' \in [Keys -> Seq(Signals)]
  BY <1>2 DEF TypeOK, HistoryTypeOK, RecordedFill
<1>8. /\ realized' \in [Keys -> Int]
      /\ accrued' \in [Keys -> Int]
      /\ last' \in [Keys -> Int]
      /\ markedAt' \in [Keys -> Nat]
  BY <1>1, <1>2, <1>5, <1>6 DEF TypeOK, HistoryTypeOK, RecordedFill
<1>. QED
  BY <1>4, <1>7, <1>8 DEF TypeOK, HistoryTypeOK

LEMMA MarkKeepsTypes ==
  ASSUME TypeOK, NEW caller \in Owners, NEW symbol \in Symbols, NEW price \in Prices,
         RecordedMark(caller, symbol, price)
  PROVE  TypeOK'
<1>1. price \in Int
  BY LedgerConstants
<1>2. \A k \in Keys : positions'[k] \in Position \cup {None}
  BY <1>1, MarkCases, MarkedType DEF TypeOK, BookTypeOK
<1>3. positions' = [k \in Keys |-> positions'[k]]
  BY DEF RecordedMark, MarkToMarket
<1>4. BookTypeOK'
  BY <1>2, <1>3 DEF BookTypeOK
<1>5. \A k \in Keys : Len(log[k]) \in Nat
  BY DEF TypeOK, HistoryTypeOK
<1>6. markedAt' \in [Keys -> Nat]
  BY <1>5 DEF TypeOK, HistoryTypeOK, RecordedMark
<1>. QED
  BY <1>4, <1>6 DEF TypeOK, HistoryTypeOK, RecordedMark

\* The book and its history keep their types.
THEOREM LedgerTypeCorrect == Spec => []TypeOK
<1>1. Init => TypeOK
  BY DEF Init, BookInit, HistoryEmpty, TypeOK, BookTypeOK, HistoryTypeOK
<1>2. TypeOK /\ [Next]_vars => TypeOK'
  <2>. SUFFICES ASSUME TypeOK, [Next]_vars PROVE TypeOK'
    OBVIOUS
  <2>1. ASSUME NEW s \in Signals, RecordedFill(s) PROVE TypeOK'
    BY <2>1, FillKeepsTypes
  <2>2. ASSUME NEW caller \in Owners, NEW symbol \in Symbols, NEW price \in Prices,
               RecordedMark(caller, symbol, price)
        PROVE  TypeOK'
    BY <2>2, MarkKeepsTypes
  <2>3. CASE RecordedRestart
    BY <2>3 DEF RecordedRestart, BookRestart, TypeOK, BookTypeOK, HistoryTypeOK
  <2>4. CASE UNCHANGED vars
    BY <2>4 DEF vars, history, TypeOK, BookTypeOK, HistoryTypeOK
  <2>. QED
    BY <2>1, <2>2, <2>3, <2>4 DEF Next
<1>. QED
  BY <1>1, <1>2, PTL DEF Spec

-----------------------------------------------------------------------------
\* A fill turns worth into realized profit and the price move since the last fill
\* into accrued profit; no other key notices.
LEMMA FillKeepsProfit ==
  ASSUME TypeOK, ProfitConserved, NEW s \in Signals, RecordedFill(s)
  PROVE  ProfitConserved'
<1>. SUFFICES ASSUME NEW k \in Keys
              PROVE  realized'[k] + Worth(positions'[k], last'[k]) = accrued'[k]
  BY DEF ProfitConserved
<1>1. s.price # None /\ s.price \in Int
  BY SignalType DEF RecordedFill, Fill
<1>2. CASE k # KeyOf(s)
  <2>1. /\ realized'[k] = realized[k]
        /\ accrued'[k] = accrued[k]
        /\ last'[k] = last[k]
        /\ positions'[k] = positions[k]
    BY <1>2 DEF RecordedFill, Fill, TypeOK, BookTypeOK, HistoryTypeOK
  <2>. QED
    BY <2>1 DEF ProfitConserved
<1>3. CASE k = KeyOf(s)
  <2>. DEFINE p == positions[k]
  <2>1. /\ p \in Position \cup {None}
        /\ realized[k] \in Int
        /\ accrued[k] \in Int
        /\ last[k] \in Int
    BY DEF TypeOK, BookTypeOK, HistoryTypeOK
  <2>2. /\ realized'[k] = realized[k] + RealizedBy(p, s)
        /\ accrued'[k] = accrued[k] + Exposure(p) * (s.price - last[k])
        /\ last'[k] = s.price
        /\ positions'[k] = PositionAfter(p, s)
    BY <1>3 DEF RecordedFill, Fill, TypeOK, BookTypeOK, HistoryTypeOK
  <2>3. RealizedBy(p, s) + Worth(PositionAfter(p, s), s.price) = Worth(p, s.price)
    BY <1>1, <2>1, FillConserves
  <2>4. Worth(p, s.price) = Worth(p, last[k]) + Exposure(p) * (s.price - last[k])
    BY <1>1, <2>1, WorthMoves
  <2>5. realized[k] + Worth(p, last[k]) = accrued[k]
    BY DEF ProfitConserved
  <2>6. /\ RealizedBy(p, s) \in Int
        /\ Worth(p, last[k]) \in Int
        /\ Worth(p, s.price) \in Int
        /\ Worth(PositionAfter(p, s), s.price) \in Int
    <3>1. PositionAfter(p, s) \in Position \cup {None}
      BY <1>1, <2>1, PositionAfterType
    <3>2. RealizedBy(p, s) \in Int
      BY <1>1, <2>1, RealizedByType
    <3>. QED
      BY <1>1, <2>1, <3>1, <3>2, WorthType
  <2>7. Exposure(p) * (s.price - last[k]) \in Int
    <3>1. Exposure(p) \in Int
      BY <2>1 DEF Exposure, Position
    <3>. QED
      BY <1>1, <2>1, <3>1
  <2>. HIDE DEF p
  <2>. QED
    BY <2>1, <2>2, <2>3, <2>4, <2>5, <2>6, <2>7
<1>. QED
  BY <1>2, <1>3

\* A mark changes no worth.
LEMMA MarkKeepsProfit ==
  ASSUME TypeOK, ProfitConserved, NEW caller \in Owners, NEW symbol \in Symbols,
         NEW price \in Prices, RecordedMark(caller, symbol, price)
  PROVE  ProfitConserved'
<1>. SUFFICES ASSUME NEW k \in Keys
              PROVE  realized'[k] + Worth(positions'[k], last'[k]) = accrued'[k]
  BY DEF ProfitConserved
<1>1. realized' = realized /\ accrued' = accrued /\ last' = last
  BY DEF RecordedMark
<1>2. Worth(positions'[k], last[k]) = Worth(positions[k], last[k])
  <2>1. CASE positions'[k] = positions[k]
    BY <2>1
  <2>2. CASE positions[k] \in Position /\ positions'[k] = Marked(positions[k], price)
    <3>1. price \in Int
      BY LedgerConstants
    <3>2. positions'[k] # None /\ positions[k] # None
      BY <2>2, <3>1, MarkedType, FillConstants
    <3>3. ProfitAt(positions'[k], last[k]) = ProfitAt(positions[k], last[k])
      BY <2>2, <3>1, MarkedType DEF ProfitAt
    <3>. QED
      BY <3>2, <3>3 DEF Worth
  <2>. QED
    BY <2>1, <2>2, MarkCases
<1>. QED
  BY <1>1, <1>2 DEF ProfitConserved

\* Whatever fills, marks and restarts follow each other, realized profit plus the
\* worth of the open position equals the profit the held quantity accrued.
THEOREM ProfitIsConserved == Spec => []ProfitConserved
<1>1. Init => ProfitConserved
  BY DEF Init, BookInit, HistoryEmpty, ProfitConserved, Worth
<1>2. TypeOK /\ ProfitConserved /\ [Next]_vars => ProfitConserved'
  <2>. SUFFICES ASSUME TypeOK, ProfitConserved, [Next]_vars PROVE ProfitConserved'
    OBVIOUS
  <2>1. ASSUME NEW s \in Signals, RecordedFill(s) PROVE ProfitConserved'
    BY <2>1, FillKeepsProfit
  <2>2. ASSUME NEW caller \in Owners, NEW symbol \in Symbols, NEW price \in Prices,
               RecordedMark(caller, symbol, price)
        PROVE  ProfitConserved'
    BY <2>2, MarkKeepsProfit
  <2>3. CASE RecordedRestart
    BY <2>3 DEF RecordedRestart, BookRestart, ProfitConserved, Worth
  <2>4. CASE UNCHANGED vars
    BY <2>4 DEF vars, history, ProfitConserved
  <2>. QED
    BY <2>1, <2>2, <2>3, <2>4 DEF Next
<1>. QED
  BY <1>1, <1>2, LedgerTypeCorrect, PTL DEF Spec
-----------------------------------------------------------------------------
\* A fill leaves the position it hits under the key its owner and symbol spell.
LEMMA FillKeepsKeys ==
  ASSUME TypeOK, PositionUnderItsKey, NEW s \in Signals, RecordedFill(s)
  PROVE  PositionUnderItsKey'
<1>. SUFFICES ASSUME NEW k \in Keys, positions'[k] # None
              PROVE  k = PositionKey(positions'[k].owner, positions'[k].symbol)
  BY DEF PositionUnderItsKey
<1>1. s.price # None
  BY DEF RecordedFill, Fill
<1>2. CASE k # KeyOf(s)
  <2>1. positions'[k] = positions[k]
    BY <1>2 DEF RecordedFill, Fill, TypeOK, BookTypeOK
  <2>. QED
    BY <2>1 DEF PositionUnderItsKey
<1>3. CASE k = KeyOf(s)
  <2>1. positions'[k] = PositionAfter(positions[k], s)
    BY <1>3 DEF RecordedFill, Fill, TypeOK, BookTypeOK
  <2>2. positions[k] \in Position \cup {None}
    BY DEF TypeOK, BookTypeOK
  <2>3. CASE s.side \notin Closing /\ (IF positions[k] = None THEN TRUE
                                       ELSE positions[k].side # s.side)
    <3>1. positions'[k].owner = s.owner /\ positions'[k].symbol = s.symbol
      BY <2>1, <2>3 DEF PositionAfter, Opened
    <3>. QED
      BY <1>3, <3>1 DEF KeyOf
  <2>4. CASE s.side \notin Closing /\ positions[k] # None /\ positions[k].side = s.side
    <3>1. positions'[k] = [positions[k] EXCEPT !.qty = @ + OrderQty(s),
                                               !.cost = @ + s.price * OrderQty(s)]
      BY <2>1, <2>4 DEF PositionAfter
    <3>2. /\ positions'[k].owner = positions[k].owner
          /\ positions'[k].symbol = positions[k].symbol
      BY <2>2, <2>4, <3>1 DEF Position
    <3>. QED
      BY <2>4, <3>2 DEF PositionUnderItsKey
  <2>5. CASE s.side \in Closing
    BY <2>1, <2>5 DEF PositionAfter
  <2>. QED
    BY <2>3, <2>4, <2>5
<1>. QED
  BY <1>2, <1>3

\* No sequence of fills and marks puts a position under a key that its own owner
\* and symbol do not spell, for any text of the keys, shared ones included.
THEOREM PositionsUnderTheirKeys == Spec => []PositionUnderItsKey
<1>1. Init => PositionUnderItsKey
  BY DEF Init, BookInit, PositionUnderItsKey
<1>2. TypeOK /\ PositionUnderItsKey /\ [Next]_vars => PositionUnderItsKey'
  <2>. SUFFICES ASSUME TypeOK, PositionUnderItsKey, [Next]_vars
                PROVE  PositionUnderItsKey'
    OBVIOUS
  <2>1. ASSUME NEW s \in Signals, RecordedFill(s) PROVE PositionUnderItsKey'
    BY <2>1, FillKeepsKeys
  <2>2. ASSUME NEW caller \in Owners, NEW symbol \in Symbols, NEW price \in Prices,
               RecordedMark(caller, symbol, price)
        PROVE  PositionUnderItsKey'
    <3>. SUFFICES ASSUME NEW k \in Keys, positions'[k] # None
                  PROVE  k = PositionKey(positions'[k].owner, positions'[k].symbol)
      BY DEF PositionUnderItsKey
    <3>1. /\ positions[k] # None
          /\ positions'[k].owner = positions[k].owner
          /\ positions'[k].symbol = positions[k].symbol
      <4>1. price \in Int
        BY LedgerConstants
      <4>. QED
        BY <2>2, <4>1, MarkCases, MarkedType, FillConstants
    <3>. QED
      BY <3>1 DEF PositionUnderItsKey
  <2>3. CASE RecordedRestart
    BY <2>3 DEF RecordedRestart, BookRestart, PositionUnderItsKey
  <2>4. CASE UNCHANGED vars
    BY <2>4 DEF vars, PositionUnderItsKey
  <2>. QED
    BY <2>1, <2>2, <2>3, <2>4 DEF Next
<1>. QED
  BY <1>1, <1>2, LedgerTypeCorrect, PTL DEF Spec
-----------------------------------------------------------------------------
\* The run's fills are finitely many, and the last fill is one of them unless it
\* closed.
LEMMA RunFinite ==
  ASSUME NEW fills \in Seq(Signals)
  PROVE  /\ IsFiniteSet(Run(fills))
         /\ Run(fills) \subseteq 1..Len(fills)
         /\ Run(fills) # {} <=> fills # <<>> /\ fills[Len(fills)].side \notin Closing
         /\ Run(fills) # {} => Len(fills) \in Run(fills)
<1>1. Len(fills) \in Nat /\ DOMAIN fills = 1..Len(fills)
  OBVIOUS
<1>2. Run(fills) \subseteq 1..Len(fills)
  BY <1>1 DEF Run
<1>3. IsFiniteSet(Run(fills))
  <2>1. PICK T : T = 1..Len(fills)
    OBVIOUS
  <2>2. IsFiniteSet(T)
    <3>1. 1 \in Int /\ Len(fills) \in Int
      BY <1>1
    <3>. QED
      BY <2>1, <3>1, FS_Interval
  <2>. QED
    BY <1>2, <2>1, <2>2, FS_Subset
<1>4. fills # <<>> /\ fills[Len(fills)].side \notin Closing => Len(fills) \in Run(fills)
  <2>. SUFFICES ASSUME fills # <<>>, fills[Len(fills)].side \notin Closing
                PROVE  Len(fills) \in Run(fills)
    OBVIOUS
  <2>1. Len(fills) \in 1..Len(fills)
    BY <1>1
  <2>2. \A j \in Len(fills)..Len(fills) : j = Len(fills)
    <3>1. PICK n \in Nat : n = Len(fills)
      BY <1>1
    <3>2. \A j \in n..n : j = n
      OBVIOUS
    <3>. QED
      BY <3>1, <3>2
  <2>. QED
    BY <1>1, <2>1, <2>2 DEF Run
<1>5. Run(fills) # {} => fills # <<>> /\ fills[Len(fills)].side \notin Closing
  BY <1>1 DEF Run
<1>. QED
  BY <1>2, <1>3, <1>4, <1>5

\* What a fill does to the run: it ends it, joins it or starts another.
LEMMA RunOfAppend ==
  ASSUME NEW fills \in Seq(Signals), NEW s \in Signals, NEW more, more = Append(fills, s)
  PROVE  /\ s.side \in Closing => Run(more) = {}
         /\ s.side \notin Closing /\ Run(fills) # {} /\ fills[Len(fills)].side = s.side =>
              Run(more) = Run(fills) \cup {Len(fills) + 1}
         /\ s.side \notin Closing /\ (Run(fills) # {} => fills[Len(fills)].side # s.side) =>
              Run(more) = {Len(fills) + 1}
<1>1. PICK n \in Nat : n = Len(fills)
  OBVIOUS
<1>2. /\ more \in Seq(Signals) /\ Len(more) = n + 1 /\ DOMAIN more = 1..(n + 1)
      /\ more[n + 1] = s /\ \A i \in 1..n : more[i] = fills[i]
      /\ DOMAIN fills = 1..n
  BY <1>1
<1>3. ASSUME s.side \notin Closing, NEW i \in 1..n
      PROVE  i \in Run(more) <=> \A j \in i..n : fills[j].side = s.side
  <2>1. i..(n + 1) = (i..n) \cup {n + 1} /\ i \in DOMAIN more /\ i..n \subseteq 1..n
    BY <1>2
  <2>. QED
    BY <1>2, <1>3, <2>1 DEF Run
<1>4. s.side \notin Closing => n + 1 \in Run(more)
  <2>1. \A j \in (n + 1)..(n + 1) : j = n + 1
    OBVIOUS
  <2>2. n + 1 \in DOMAIN more
    BY <1>2
  <2>. QED
    BY <1>2, <2>1, <2>2 DEF Run
<1>5. Run(more) \subseteq 1..(n + 1)
  BY <1>2 DEF Run
<1>6. s.side \in Closing => Run(more) = {}
  BY <1>2 DEF Run
<1>7. ASSUME s.side \notin Closing, Run(fills) # {}, fills[n].side = s.side
      PROVE  Run(more) = Run(fills) \cup {n + 1}
  <2>1. \A i \in 1..n : i \in Run(fills) <=> \A j \in i..n : fills[j].side = s.side
    BY <1>1, <1>2, <1>7 DEF Run
  <2>2. Run(fills) \subseteq 1..n
    BY <1>2 DEF Run
  <2>3. \A i \in 1..n : i \in Run(more) <=> i \in Run(fills)
    BY <1>3, <1>7, <2>1
  <2>4. 1..(n + 1) = (1..n) \cup {n + 1}
    OBVIOUS
  <2>. QED
    BY <1>4, <1>5, <1>7, <2>2, <2>3, <2>4
<1>8. ASSUME s.side \notin Closing, Run(fills) # {} => fills[n].side # s.side
      PROVE  Run(more) = {n + 1}
  <2>1. ASSUME NEW i \in 1..n
        PROVE  i \notin Run(more)
    <3>1. fills # <<>> /\ n \in i..n
      BY <1>1
    <3>2. fills[n].side # s.side
      BY <1>1, <1>8, <3>1, RunFinite
    <3>. QED
      BY <1>3, <1>8, <3>1, <3>2
  <2>2. 1..(n + 1) = (1..n) \cup {n + 1}
    OBVIOUS
  <2>. QED
    BY <1>4, <1>5, <1>8, <2>1, <2>2
<1>. QED
  BY <1>1, <1>6, <1>7, <1>8

\* The fills' quantities and costs, and their sums over a run as sums of functions.
Quantities(fills) == [i \in 1..Len(fills) |-> OrderQty(fills[i])]
Costs(fills) == [i \in 1..Len(fills) |-> fills[i].price * OrderQty(fills[i])]

LEMMA RunQtyIsSum ==
  ASSUME NEW fills \in Seq(Signals), NEW g, g = Quantities(fills)
  PROVE  RunQty(fills) = Sum(g, Run(fills))
<1>1. PICK run : run = Run(fills)
  OBVIOUS
<1>. DEFINE step(it, s) == IF s = {} THEN 0 ELSE OrderQty(fills[Pick(s)]) + it[s \ {Pick(s)}]
            I == CHOOSE it : it = [s \in SUBSET run |-> step(it, s)]
<1>2. IsFiniteSet(run) /\ run \subseteq 1..Len(fills)
  BY <1>1, RunFinite
<1>3. PICK it : Iterates(it, g, run)
  BY <1>2, IterationExists
<1>4. ASSUME NEW any, NEW s \in SUBSET run
      PROVE  step(any, s) = IF s = {} THEN 0 ELSE g[Pick(s)] + any[s \ {Pick(s)}]
  <2>1. CASE s = {}
    BY <2>1
  <2>2. CASE s # {}
    <3>1. Pick(s) \in 1..Len(fills)
      BY <1>2, <2>2, PickMember
    <3>2. g[Pick(s)] = OrderQty(fills[Pick(s)])
      BY <3>1 DEF Quantities
    <3>. QED
      BY <2>2, <3>2
  <2>. QED
    BY <2>1, <2>2
<1>5. ASSUME NEW any
      PROVE  [s \in SUBSET run |-> step(any, s)]
               = [s \in SUBSET run |-> IF s = {} THEN 0 ELSE g[Pick(s)] + any[s \ {Pick(s)}]]
  <2>. HIDE DEF step
  <2>. QED
    BY <1>4
<1>6. it = [s \in SUBSET run |-> step(it, s)]
  <2>. HIDE DEF step
  <2>. QED
    BY <1>3, <1>5 DEF Iterates
<1>7. I = [s \in SUBSET run |-> step(I, s)]
  <2>. HIDE DEF step
  <2>. QED
    BY <1>6
<1>8. Iterates(I, g, run)
  <2>. HIDE DEF step, I
  <2>. QED
    BY <1>5, <1>7 DEF Iterates
<1>9. I[run] = Sum(g, run)
  <2>. HIDE DEF I
  <2>1. run \in SUBSET run
    OBVIOUS
  <2>. QED
    BY <1>2, <1>8, <2>1, SumOfIteration
<1>10. RunQty(fills) = I[run]
  BY <1>1 DEF RunQty, MapThenSumSet, MapThenFoldSet, Pick
<1>. QED
  BY <1>1, <1>9, <1>10

LEMMA RunCostIsSum ==
  ASSUME NEW fills \in Seq(Signals), NEW g, g = Costs(fills)
  PROVE  RunCost(fills) = Sum(g, Run(fills))
<1>1. PICK run : run = Run(fills)
  OBVIOUS
<1>. DEFINE step(it, s) == IF s = {} THEN 0
                          ELSE fills[Pick(s)].price * OrderQty(fills[Pick(s)]) + it[s \ {Pick(s)}]
            I == CHOOSE it : it = [s \in SUBSET run |-> step(it, s)]
<1>2. IsFiniteSet(run) /\ run \subseteq 1..Len(fills)
  BY <1>1, RunFinite
<1>3. PICK it : Iterates(it, g, run)
  BY <1>2, IterationExists
<1>4. ASSUME NEW any, NEW s \in SUBSET run
      PROVE  step(any, s) = IF s = {} THEN 0 ELSE g[Pick(s)] + any[s \ {Pick(s)}]
  <2>1. CASE s = {}
    BY <2>1
  <2>2. CASE s # {}
    <3>1. Pick(s) \in 1..Len(fills)
      BY <1>2, <2>2, PickMember
    <3>2. g[Pick(s)] = fills[Pick(s)].price * OrderQty(fills[Pick(s)])
      BY <3>1 DEF Costs
    <3>. QED
      BY <2>2, <3>2
  <2>. QED
    BY <2>1, <2>2
<1>5. ASSUME NEW any
      PROVE  [s \in SUBSET run |-> step(any, s)]
               = [s \in SUBSET run |-> IF s = {} THEN 0 ELSE g[Pick(s)] + any[s \ {Pick(s)}]]
  <2>. HIDE DEF step
  <2>. QED
    BY <1>4
<1>6. it = [s \in SUBSET run |-> step(it, s)]
  <2>. HIDE DEF step
  <2>. QED
    BY <1>3, <1>5 DEF Iterates
<1>7. I = [s \in SUBSET run |-> step(I, s)]
  <2>. HIDE DEF step
  <2>. QED
    BY <1>6
<1>8. Iterates(I, g, run)
  <2>. HIDE DEF step, I
  <2>. QED
    BY <1>5, <1>7 DEF Iterates
<1>9. I[run] = Sum(g, run)
  <2>. HIDE DEF I
  <2>1. run \in SUBSET run
    OBVIOUS
  <2>. QED
    BY <1>2, <1>8, <2>1, SumOfIteration
<1>10. RunCost(fills) = I[run]
  BY <1>1 DEF RunCost, MapThenSumSet, MapThenFoldSet, Pick
<1>. QED
  BY <1>1, <1>9, <1>10

\* A sum over a run is an integer, and one fill more adds its own share.
LEMMA RunGrows ==
  ASSUME NEW fills \in Seq(Signals), NEW s \in Signals, s.price \in Int,
         \A i \in 1..Len(fills) : fills[i].price \in Int,
         NEW more, more = Append(fills, s),
         NEW run \in SUBSET (1..Len(fills)), Run(fills) = run,
         Run(more) = run \cup {Len(fills) + 1}
  PROVE  /\ RunQty(more) = RunQty(fills) + OrderQty(s)
         /\ RunCost(more) = RunCost(fills) + s.price * OrderQty(s)
<1>1. PICK n \in Nat : n = Len(fills)
  OBVIOUS
<1>2. /\ more \in Seq(Signals) /\ Len(more) = n + 1
      /\ more[n + 1] = s /\ \A i \in 1..n : more[i] = fills[i] /\ fills[i] \in Signals
  BY <1>1
<1>3. IsFiniteSet(run) /\ n + 1 \notin run
  BY <1>1, RunFinite
<1>4. PICK q, c : q = Quantities(more) /\ c = Costs(more)
  OBVIOUS
<1>5. PICK q0, c0 : q0 = Quantities(fills) /\ c0 = Costs(fills)
  OBVIOUS
<1>6. /\ \A i \in 1..n : q[i] = OrderQty(fills[i]) /\ c[i] = fills[i].price * OrderQty(fills[i])
      /\ q[n + 1] = OrderQty(s) /\ c[n + 1] = s.price * OrderQty(s)
  <2>1. (1..n) \subseteq 1..(n + 1) /\ n + 1 \in 1..(n + 1)
    OBVIOUS
  <2>. QED
    BY <1>2, <1>4, <2>1 DEF Quantities, Costs
<1>7. \A i \in 1..n : q0[i] = OrderQty(fills[i]) /\ c0[i] = fills[i].price * OrderQty(fills[i])
  BY <1>1, <1>5 DEF Quantities, Costs
<1>8. \A i \in 1..n : q[i] \in Int /\ c[i] \in Int
  <2>1. ASSUME NEW i \in 1..n
        PROVE  OrderQty(fills[i]) \in Int /\ fills[i].price * OrderQty(fills[i]) \in Int
    <3>1. OrderQty(fills[i]) \in Int
      BY <1>2, OrderQtyType
    <3>2. fills[i].price \in Int
      BY <1>1
    <3>. QED
      BY <3>1, <3>2
  <2>. QED
    BY <1>6, <2>1
<1>9. q[n + 1] \in Int /\ c[n + 1] \in Int
  <2>1. OrderQty(s) \in Int
    BY OrderQtyType
  <2>. QED
    BY <1>6, <2>1
<1>10. IntOn(q, run) /\ IntOn(c, run)
  BY <1>1, <1>8 DEF IntOn
<1>11. PICK x : x = n + 1
  OBVIOUS
<1>12. /\ Sum(q, run \cup {x}) = Sum(q, run) + q[x]
       /\ Sum(c, run \cup {x}) = Sum(c, run) + c[x]
  BY <1>3, <1>9, <1>10, <1>11, SumAdd
<1>13. Sum(q, run) = Sum(q0, run) /\ Sum(c, run) = Sum(c0, run)
  <2>1. \A i \in run : q[i] = q0[i] /\ c[i] = c0[i]
    BY <1>1, <1>6, <1>7
  <2>. QED
    BY <1>3, <2>1, SumSame
<1>14. RunQty(more) = Sum(q, run \cup {x}) /\ RunCost(more) = Sum(c, run \cup {x})
  BY <1>1, <1>2, <1>4, <1>11, RunQtyIsSum, RunCostIsSum
<1>15. RunQty(fills) = Sum(q0, run) /\ RunCost(fills) = Sum(c0, run)
  BY <1>5, RunQtyIsSum, RunCostIsSum
<1>. QED
  BY <1>6, <1>11, <1>12, <1>13, <1>14, <1>15, Zenon

\* A run of one fill is that fill.
LEMMA RunStarts ==
  ASSUME NEW fills \in Seq(Signals), NEW s \in Signals, s.price \in Int,
         NEW more, more = Append(fills, s),
         Run(more) = {Len(fills) + 1}
  PROVE  RunQty(more) = OrderQty(s) /\ RunCost(more) = s.price * OrderQty(s)
<1>1. PICK n \in Nat : n = Len(fills)
  OBVIOUS
<1>2. more \in Seq(Signals) /\ Len(more) = n + 1 /\ more[n + 1] = s
  BY <1>1
<1>3. PICK q, c : q = Quantities(more) /\ c = Costs(more)
  OBVIOUS
<1>4. PICK x : x = n + 1
  OBVIOUS
<1>5. q[x] = OrderQty(s) /\ c[x] = s.price * OrderQty(s)
  <2>1. n + 1 \in 1..(n + 1)
    OBVIOUS
  <2>. QED
    BY <1>2, <1>3, <1>4, <2>1 DEF Quantities, Costs
<1>6. q[x] \in Int /\ c[x] \in Int
  <2>1. OrderQty(s) \in Int
    BY OrderQtyType
  <2>. QED
    BY <1>5, <2>1
<1>7. IsFiniteSet({}) /\ IntOn(q, {}) /\ IntOn(c, {})
  BY FS_EmptySet DEF IntOn
<1>8. /\ Sum(q, {} \cup {x}) = Sum(q, {}) + q[x]
      /\ Sum(c, {} \cup {x}) = Sum(c, {}) + c[x]
  BY <1>6, <1>7, SumAdd
<1>9. {} \cup {x} = Run(more)
  BY <1>1, <1>4
<1>10. Sum(q, {} \cup {x}) = q[x] /\ Sum(c, {} \cup {x}) = c[x]
  <2>1. Sum(q, {}) = 0 /\ Sum(c, {}) = 0
    BY SumEmpty
  <2>. QED
    BY <1>6, <1>8, <2>1
<1>. QED
  BY <1>2, <1>3, <1>5, <1>9, <1>10, RunQtyIsSum, RunCostIsSum

-----------------------------------------------------------------------------
\* Every fill in the log had a price (apply_paper_fill skips a job without one).
LogPriced == \A k \in Keys : \A i \in 1..Len(log[k]) : log[k][i].price \in Int

\* What BookMatchesFills says of one key.
Matches(fills, p) ==
  IF Run(fills) = {} THEN p = None
  ELSE /\ p # None
       /\ p.side = fills[Len(fills)].side
       /\ p.qty = RunQty(fills)
       /\ p.cost = RunCost(fills)

\* What MarkBelongsToPosition says of one key.
MarkedWell(fills, p, at) ==
  p # None =>
    IF p.mark = None THEN p.unrealized = 0
    ELSE /\ at \in Run(fills)
         /\ at = Len(fills) => p.unrealized = Round4(ProfitAt(p, p.mark))

BookInv ==
  /\ TypeOK
  /\ LogPriced
  /\ \A k \in Keys : Matches(log[k], positions[k])
  /\ \A k \in Keys : MarkedWell(log[k], positions[k], markedAt[k])

\* The position a fill leaves is the one the longer log adds up to, and the mark
\* it carries is of the same position.
LEMMA FillMatches ==
  ASSUME NEW fills \in Seq(Signals), NEW p \in Position \cup {None}, NEW s \in Signals,
         \A i \in 1..Len(fills) : fills[i].price \in Int, s.price \in Int, NEW at,
         NEW more, more = Append(fills, s), Matches(fills, p), MarkedWell(fills, p, at)
  PROVE  Matches(more, PositionAfter(p, s)) /\ MarkedWell(more, PositionAfter(p, s), at)
<1>1. /\ Len(fills) \in Nat /\ Len(more) = Len(fills) + 1 /\ more[Len(more)] = s
      /\ Run(fills) \in SUBSET (1..Len(fills)) /\ more \in Seq(Signals)
  BY RunFinite
<1>2. s.price # None
  BY FillConstants
<1>3. CASE s.side \in Closing
  <2>1. Run(more) = {} /\ PositionAfter(p, s) = None
    BY <1>3, RunOfAppend DEF PositionAfter
  <2>. QED
    BY <2>1 DEF Matches, MarkedWell
<1>4. CASE s.side \notin Closing /\ (IF p = None THEN TRUE ELSE p.side # s.side)
  <2>1. Run(more) = {Len(fills) + 1}
    BY <1>4, RunOfAppend DEF Matches
  <2>2. PICK new : new = Opened(s)
    OBVIOUS
  <2>3. PositionAfter(p, s) = new
    BY <1>4, <2>2 DEF PositionAfter
  <2>4. /\ new.side = s.side /\ new.qty = OrderQty(s) /\ new.cost = s.price * OrderQty(s)
        /\ new.mark = None /\ new.unrealized = 0
    BY <2>2 DEF Opened
  <2>5. new # None
    BY <1>2, <1>4, <2>2, OpenedType, FillConstants
  <2>6. RunQty(more) = OrderQty(s) /\ RunCost(more) = s.price * OrderQty(s)
    BY <2>1, RunStarts
  <2>. QED
    BY <1>1, <2>1, <2>3, <2>4, <2>5, <2>6 DEF Matches, MarkedWell
<1>5. CASE s.side \notin Closing /\ p # None /\ p.side = s.side
  <2>1. Run(fills) # {} /\ p.side = fills[Len(fills)].side
        /\ p.qty = RunQty(fills) /\ p.cost = RunCost(fills)
    BY <1>5 DEF Matches
  <2>2. PICK run \in SUBSET (1..Len(fills)) : run = Run(fills)
    BY <1>1
  <2>3. Run(more) = run \cup {Len(fills) + 1}
    BY <1>5, <2>1, <2>2, RunOfAppend
  <2>4. PICK new : new = PositionAfter(p, s)
    OBVIOUS
  <2>5. new = [p EXCEPT !.qty = p.qty + OrderQty(s), !.cost = p.cost + s.price * OrderQty(s)]
    BY <1>5, <2>4 DEF PositionAfter
  <2>6. /\ new.side = p.side /\ new.qty = p.qty + OrderQty(s)
        /\ new.cost = p.cost + s.price * OrderQty(s)
        /\ new.mark = p.mark /\ new.unrealized = p.unrealized
    BY <1>5, <2>5 DEF Position
  <2>7. /\ RunQty(more) = RunQty(fills) + OrderQty(s)
        /\ RunCost(more) = RunCost(fills) + s.price * OrderQty(s)
    BY <2>2, <2>3, RunGrows
  <2>8. new # None
    <3>1. p.qty + OrderQty(s) \in Nat \ {0} /\ p.cost + s.price * OrderQty(s) \in Int
      BY <1>5, OrderQtyType DEF Position
    <3>2. new \in Position
      BY <1>5, <2>5, <3>1 DEF Position
    <3>. QED
      BY <3>2, FillConstants
  <2>9. Matches(more, new)
    BY <1>1, <1>5, <2>1, <2>3, <2>6, <2>7, <2>8 DEF Matches
  <2>10. MarkedWell(more, new, at)
    <3>1. CASE p.mark = None
      BY <1>5, <2>6, <3>1 DEF MarkedWell
    <3>2. CASE p.mark # None
      <4>1. at \in run
        BY <1>5, <2>2, <3>2 DEF MarkedWell
      <4>2. at \in Run(more) /\ at # Len(more)
        BY <1>1, <2>3, <4>1
      <4>. QED
        BY <2>6, <3>2, <4>2 DEF MarkedWell
    <3>. QED
      BY <3>1, <3>2
  <2>. QED
    BY <2>4, <2>9, <2>10
<1>. QED
  BY <1>3, <1>4, <1>5

\* A mark changes neither what the position consists of nor where it came from.
LEMMA MarkMatches ==
  ASSUME NEW fills \in Seq(Signals), NEW p \in Position, NEW price \in Int,
         Matches(fills, p)
  PROVE  /\ Matches(fills, Marked(p, price))
         /\ MarkedWell(fills, Marked(p, price), Len(fills))
<1>1. PICK new : new = Marked(p, price)
  OBVIOUS
<1>2. /\ new \in Position
      /\ new.owner = p.owner /\ new.side = p.side /\ new.qty = p.qty /\ new.cost = p.cost
  BY <1>1, MarkedType
<1>3. new.mark = price /\ new.unrealized = Round4(ProfitAt(p, price))
  BY <1>1 DEF Marked, Position
<1>4. p # None /\ new # None /\ price # None
  BY <1>2, FillConstants
<1>5. Matches(fills, new)
  BY <1>2, <1>4 DEF Matches
<1>6. Len(fills) \in Run(fills)
  BY <1>4, RunFinite DEF Matches
<1>7. ProfitAt(new, price) = ProfitAt(p, price)
  BY <1>2 DEF ProfitAt
<1>8. MarkedWell(fills, new, Len(fills))
  BY <1>3, <1>4, <1>6, <1>7 DEF MarkedWell
<1>. QED
  BY <1>1, <1>5, <1>8

LEMMA FillKeepsBook ==
  ASSUME BookInv, NEW s \in Signals, RecordedFill(s) PROVE BookInv'
<1>1. s.price # None /\ s.price \in Int
  BY SignalType DEF RecordedFill, Fill
<1>2. TypeOK'
  BY FillKeepsTypes DEF BookInv
<1>3. PICK key \in Keys : key = KeyOf(s)
  BY KeyOfType
<1>4. \A k \in Keys : log[k] \in Seq(Signals) /\ positions[k] \in Position \cup {None}
  BY DEF BookInv, TypeOK, BookTypeOK, HistoryTypeOK
<1>5. /\ log' = [log EXCEPT ![key] = Append(log[key], s)]
      /\ positions' = [positions EXCEPT ![key] = PositionAfter(positions[key], s)]
      /\ markedAt' = markedAt
  BY <1>3 DEF RecordedFill, Fill
<1>6. ASSUME NEW k \in Keys
      PROVE  /\ Matches(log'[k], positions'[k])
             /\ MarkedWell(log'[k], positions'[k], markedAt'[k])
             /\ \A i \in 1..Len(log'[k]) : log'[k][i].price \in Int
  <2>1. /\ Matches(log[k], positions[k]) /\ MarkedWell(log[k], positions[k], markedAt[k])
        /\ \A i \in 1..Len(log[k]) : log[k][i].price \in Int
    BY DEF BookInv, LogPriced
  <2>2. CASE k # key
    <3>1. log'[k] = log[k] /\ positions'[k] = positions[k] /\ markedAt'[k] = markedAt[k]
      BY <1>5, <2>2 DEF BookInv, TypeOK, BookTypeOK, HistoryTypeOK
    <3>. QED
      BY <2>1, <3>1
  <2>3. CASE k = key
    <3>1. PICK fills, p, at : fills = log[k] /\ p = positions[k] /\ at = markedAt[k]
      OBVIOUS
    <3>2. PICK more : more = Append(fills, s)
      OBVIOUS
    <3>3. log'[k] = more /\ positions'[k] = PositionAfter(p, s) /\ markedAt'[k] = at
      BY <1>5, <2>3, <3>1, <3>2 DEF BookInv, TypeOK, BookTypeOK, HistoryTypeOK
    <3>4. Matches(more, PositionAfter(p, s)) /\ MarkedWell(more, PositionAfter(p, s), at)
      BY <1>1, <1>4, <2>1, <3>1, <3>2, FillMatches
    <3>5. \A i \in 1..Len(more) : more[i].price \in Int
      BY <1>1, <1>4, <2>1, <3>1, <3>2
    <3>. QED
      BY <3>3, <3>4, <3>5
  <2>. QED
    BY <2>2, <2>3
<1>. QED
  BY <1>2, <1>6 DEF BookInv, LogPriced

LEMMA MarkKeepsBook ==
  ASSUME BookInv, NEW caller \in Owners, NEW symbol \in Symbols, NEW price \in Prices,
         RecordedMark(caller, symbol, price)
  PROVE  BookInv'
<1>1. price \in Int
  BY LedgerConstants
<1>2. TypeOK'
  BY MarkKeepsTypes DEF BookInv
<1>3. log' = log
  BY DEF RecordedMark
<1>4. ASSUME NEW k \in Keys
      PROVE  /\ Matches(log[k], positions'[k])
             /\ MarkedWell(log[k], positions'[k], markedAt'[k])
  <2>1. Matches(log[k], positions[k]) /\ MarkedWell(log[k], positions[k], markedAt[k])
    BY DEF BookInv
  <2>2. log[k] \in Seq(Signals) /\ positions[k] \in Position \cup {None}
    BY DEF BookInv, TypeOK, BookTypeOK, HistoryTypeOK
  <2>3. CASE Revalued(k, caller, symbol)
    <3>1. /\ positions'[k] = Marked(positions[k], price) /\ positions[k] \in Position
          /\ markedAt'[k] = Len(log[k])
      BY <2>2, <2>3 DEF RecordedMark, MarkToMarket, Revalued
    <3>. QED
      BY <1>1, <2>1, <2>2, <3>1, MarkMatches
  <2>4. CASE ~Revalued(k, caller, symbol)
    <3>1. positions'[k] = positions[k] /\ markedAt'[k] = markedAt[k]
      BY <2>4 DEF RecordedMark, MarkToMarket
    <3>. QED
      BY <2>1, <3>1
  <2>. QED
    BY <2>3, <2>4
<1>. QED
  BY <1>2, <1>3, <1>4 DEF BookInv, LogPriced

LEMMA EmptyBook ==
  ASSUME NEW fills, fills = <<>>, NEW p, p = None, NEW at
  PROVE  /\ Matches(fills, p) /\ MarkedWell(fills, p, at)
         /\ \A i \in 1..Len(fills) : fills[i].price \in Int
  BY DEF Matches, MarkedWell, Run

LEMMA BookInvariant == Spec => []BookInv
<1>1. Init => BookInv
  <2>. SUFFICES ASSUME Init PROVE BookInv
    OBVIOUS
  <2>1. TypeOK
    BY DEF Init, BookInit, HistoryEmpty, TypeOK, BookTypeOK, HistoryTypeOK
  <2>2. \A k \in Keys : log[k] = <<>> /\ positions[k] = None
    BY DEF Init, BookInit, HistoryEmpty
  <2>. QED
    BY <2>1, <2>2, EmptyBook DEF BookInv, LogPriced
<1>2. BookInv /\ [Next]_vars => BookInv'
  <2>. SUFFICES ASSUME BookInv, [Next]_vars PROVE BookInv'
    OBVIOUS
  <2>1. ASSUME NEW s \in Signals, RecordedFill(s) PROVE BookInv'
    BY <2>1, FillKeepsBook
  <2>2. ASSUME NEW caller \in Owners, NEW symbol \in Symbols, NEW price \in Prices,
               RecordedMark(caller, symbol, price)
        PROVE  BookInv'
    BY <2>2, MarkKeepsBook
  <2>3. CASE RecordedRestart
    <3>1. TypeOK'
      BY <2>3 DEF RecordedRestart, BookRestart, TypeOK, BookTypeOK, HistoryTypeOK
    <3>2. \A k \in Keys : log'[k] = <<>> /\ positions'[k] = None
      BY <2>3 DEF RecordedRestart, BookRestart
    <3>. QED
      BY <3>1, <3>2, EmptyBook DEF BookInv, LogPriced
  <2>4. CASE UNCHANGED vars
    BY <2>4 DEF vars, history, BookInv, TypeOK, BookTypeOK, HistoryTypeOK, LogPriced
  <2>. QED
    BY <2>1, <2>2, <2>3, <2>4 DEF Next
<1>. QED
  BY <1>1, <1>2, PTL DEF Spec

\* Whatever was filled, closed, reversed and marked before, the position held on
\* each key is the one the trailing same-side fills add up to.
THEOREM BookIsOfItsFills == Spec => []BookMatchesFills
<1>1. BookInv => BookMatchesFills
  BY DEF BookInv, Matches, BookMatchesFills
<1>. QED
  BY <1>1, BookInvariant, PTL

\* No position shows the mark of one that was closed or reversed before it.
THEOREM MarksAreTheirPositions == Spec => []MarkBelongsToPosition
<1>1. BookInv => MarkBelongsToPosition
  BY DEF BookInv, MarkedWell, MarkBelongsToPosition
<1>. QED
  BY <1>1, BookInvariant, PTL
=============================================================================
