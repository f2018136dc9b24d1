---------------------------- MODULE PaperLedger ----------------------------
(***************************************************************************)
(* The paper book with its history: every fill that hit each key, what it  *)
(* realized and what the position held in between gained.  The history     *)
(* records, it never decides; the book's steps are those of PaperBook.     *)
(***************************************************************************)
EXTENDS PaperBook, Sequences, FiniteSetsExt

CONSTANT MaxFills   \* bound: fills per key and process lifetime

ASSUME LedgerConstants == Prices \subseteq Int

VARIABLES
  log,       \* log[k]: the signals filled on k, oldest first
  realized,  \* realized[k]: the sum of the realized_pnl of those fills
  accrued,   \* accrued[k]: the sum of quantity held * price change
  last,      \* last[k]: the price of the last fill on k
  markedAt   \* markedAt[k]: the fills there were when k was last marked

history == <<log, realized, accrued, last, markedAt>>
vars == <<positions, history>>

HistoryTypeOK ==
  /\ log \in [Keys -> Seq(Signals)]
  /\ realized \in [Keys -> Int]
  /\ accrued \in [Keys -> Int]
  /\ last \in [Keys -> Int]
  /\ markedAt \in [Keys -> Nat]

\* The book and its history hold values of their types: a position has a side
\* to hold and a positive quantity, money stays an integer.
TypeOK == BookTypeOK /\ HistoryTypeOK

HistoryEmpty ==
  /\ log = [k \in Keys |-> <<>>]
  /\ realized = [k \in Keys |-> 0]
  /\ accrued = [k \in Keys |-> 0]
  /\ last = [k \in Keys |-> 0]
  /\ markedAt = [k \in Keys |-> 0]

Init == BookInit /\ HistoryEmpty

RecordedFill(s) ==
  LET k == KeyOf(s)
  IN  /\ Len(log[k]) < MaxFills
      /\ Fill(s)
      /\ log' = [log EXCEPT ![k] = Append(@, s)]
      /\ realized' = [realized EXCEPT ![k] = @ + RealizedBy(positions[k], s)]
      /\ accrued' = [accrued EXCEPT ![k] = @ + Exposure(positions[k]) * (s.price - last[k])]
      /\ last' = [last EXCEPT ![k] = s.price]
      /\ UNCHANGED markedAt

RecordedMark(caller, symbol, price) ==
  /\ MarkToMarket(caller, symbol, price)
  /\ markedAt' = [k \in Keys |-> IF Revalued(k, caller, symbol)
                                 THEN Len(log[k]) ELSE markedAt[k]]
  /\ UNCHANGED <<log, realized, accrued, last>>

RecordedRestart ==
  /\ BookRestart
  /\ log' = [k \in Keys |-> <<>>]
  /\ realized' = [k \in Keys |-> 0]
  /\ accrued' = [k \in Keys |-> 0]
  /\ last' = [k \in Keys |-> 0]
  /\ markedAt' = [k \in Keys |-> 0]

Next ==
  \/ \E s \in Signals : RecordedFill(s)
  \/ \E caller \in Owners, symbol \in Symbols, price \in Prices :
       RecordedMark(caller, symbol, price)
  \/ RecordedRestart

Spec == Init /\ [][Next]_vars

-----------------------------------------------------------------------------
\* The fills the open position consists of: the longest run of same-side fills
\* at the end of the log, unless the last fill closed the position.
Run(fills) ==
  {i \in DOMAIN fills : /\ fills[Len(fills)].side \notin Closing
                        /\ \A j \in i..Len(fills) : fills[j].side = fills[Len(fills)].side}

\* What those fills add up to, in quantity and in cost.
RunQty(fills) == MapThenSumSet(LAMBDA i : OrderQty(fills[i]), Run(fills))
RunCost(fills) ==
  MapThenSumSet(LAMBDA i : fills[i].price * OrderQty(fills[i]), Run(fills))

\* The book is a function of the fills: on every key the position held is the
\* one the trailing run of same-side fills adds up to, in side, quantity and
\* cost (so in weighted average), whatever was closed or reversed before
\* (apply_paper_fill's four outcomes, and marking never trades).
BookMatchesFills ==
  \A k \in Keys :
    IF Run(log[k]) = {} THEN positions[k] = None
    ELSE /\ positions[k] # None
         /\ positions[k].side = log[k][Len(log[k])].side
         /\ positions[k].qty = RunQty(log[k])
         /\ positions[k].cost = RunCost(log[k])

\* No profit is made or lost by bookkeeping: on every key, what fills realized
\* plus what the open position is worth at the last fill's price equals what the
\* quantity held between fills gained from the price moves.
ProfitConserved ==
  \A k \in Keys :
    realized[k] + Worth(positions[k], last[k]) = accrued[k]

\* A position lies under the key that its own owner and symbol spell, through
\* adds, reversals and marks, also where two tenants' names spell one key and so
\* share a position (_paper_position_key, and owner and symbol of the positions
\* apply_paper_fill puts there).
PositionUnderItsKey ==
  \A k \in Keys : positions[k] # None =>
    k = PositionKey(positions[k].owner, positions[k].symbol)

\* A mark shown on a position was made on that very position, not on one that
\* was closed or reversed since, and as long as no fill followed it the
\* unrealized profit shown is the one at that mark, rounded.
MarkBelongsToPosition ==
  \A k \in Keys : positions[k] # None =>
    IF positions[k].mark = None THEN positions[k].unrealized = 0
    ELSE /\ markedAt[k] \in Run(log[k])
         /\ markedAt[k] = Len(log[k]) =>
              positions[k].unrealized = Round4(ProfitAt(positions[k], positions[k].mark))
=============================================================================
