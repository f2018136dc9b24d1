----------------------------- MODULE PaperFill -----------------------------
(***************************************************************************)
(* The arithmetic of a paper fill (pinebitz/api/app.py): what one executed *)
(* job does to the position it hits and which profit it realizes.          *)
(*                                                                         *)
(* Quantities are integers in the smallest quantity unit, prices integers, *)
(* money is quantity * price.  A position stores cost = avg_entry_price *  *)
(* quantity instead of the average, so the weighted average needs no       *)
(* division; avg_entry_price is cost / quantity.  The floats of the code   *)
(* are taken as exact numbers.                                             *)
(***************************************************************************)
EXTENDS Integers

CONSTANTS
  None,         \* Python's None: no owner, no price, no position
  Owners,       \* the X-Owner-Key values in use
  PublicOwner,  \* the text "public", the key prefix of jobs without owner
  KeyText,      \* KeyText[o, y]: the text f"{o}::{y}", maybe the same for other o and y
  Symbols,      \* symbols modulo letter case: every comparison uppercases
  Signals,      \* the signals that can arrive
  MinQty,       \* 0.001 in quantity units
  Grain         \* the money units in 0.0001, to which results are rounded

Sides == {"buy", "sell", "close", "close_all"}
Closing == {"close", "close_all"}

\* A normalised TradingView signal. risk is risk_pct / 100 in quantity units.
\* Numbers are finite: nan and inf, which float() reads too, are left out, as are
\* overflows.
Signal == [owner : Owners \cup {None}, symbol : Symbols, side : Sides,
           price : Int \cup {None}, volume : Int \cup {None}, risk : Int \cup {None}]

\* round(x, 4), ties to even.
Round4(x) ==
  LET q == x \div Grain
      r == x % Grain
  IN  Grain * (IF 2 * r < Grain \/ (2 * r = Grain /\ q % 2 = 0) THEN q ELSE q + 1)

-----------------------------------------------------------------------------
\* None for a job without position on its key.
Position == [owner : Owners \cup {None}, symbol : Symbols, side : {"buy", "sell"},
             qty : Nat \ {0}, cost : Int, mark : Int \cup {None}, unrealized : Int]

ASSUME FillConstants ==
  /\ Signals \subseteq Signal
  /\ None \notin Int \cup Owners \cup Position
  /\ PublicOwner # None
  /\ MinQty \in Nat \ {0}
  /\ Grain \in Nat \ {0}

\* _paper_position_key: a job without owner trades under a key of "public", which
\* may be an owner too, and an owner or symbol with colons under one of others.
PositionKey(owner, symbol) ==
  KeyText[IF owner = None THEN PublicOwner ELSE owner, symbol]
KeyOf(s) == PositionKey(s.owner, s.symbol)

Keys == {PositionKey(owner, symbol) : owner \in Owners \cup {None}, symbol \in Symbols}

\* `value or 0.0`
OrZero(x) == IF x = None THEN 0 ELSE x

\* The volume when it is positive, else the risk, and never less than MinQty.
OrderQty(s) ==
  LET wanted == IF OrZero(s.volume) > 0 THEN OrZero(s.volume) ELSE OrZero(s.risk)
  IN  IF wanted > MinQty THEN wanted ELSE MinQty

\* The profit of leaving the whole position at a price, which is also its
\* unrealized profit at a mark.
ProfitAt(p, price) ==
  IF p.side = "buy" THEN price * p.qty - p.cost ELSE p.cost - price * p.qty

Opened(s) ==
  [owner |-> s.owner, symbol |-> s.symbol, side |-> s.side, qty |-> OrderQty(s),
   cost |-> s.price * OrderQty(s), mark |-> None, unrealized |-> 0]

\* Mutants: an opposite order is netted against the position; the position
\* that replaces one is a copy of it.
PositionNetted(p, s) ==
  CASE s.side \in Closing -> None
    [] s.side \notin Closing /\ p = None -> Opened(s)
    [] OTHER -> IF p.side = s.side
                THEN [p EXCEPT !.qty = @ + OrderQty(s), !.cost = @ + s.price * OrderQty(s)]
                ELSE IF OrderQty(s) < p.qty THEN [p EXCEPT !.qty = @ - OrderQty(s)]
                ELSE Opened(s)
PositionCopied(p, s) ==
  CASE s.side \in Closing -> None
    [] s.side \notin Closing /\ p = None -> Opened(s)
    [] OTHER -> IF p.side = s.side
                THEN [p EXCEPT !.qty = @ + OrderQty(s), !.cost = @ + s.price * OrderQty(s)]
                ELSE [Opened(s) EXCEPT !.mark = p.mark, !.unrealized = p.unrealized]
\* The position a fill of s leaves behind.  Adding keeps mark and unrealized.
PositionAfter(p, s) ==
  CASE s.side \in Closing -> None
    [] s.side \notin Closing /\ (IF p = None THEN TRUE ELSE p.side # s.side) -> Opened(s)
    [] OTHER -> [p EXCEPT !.qty = @ + OrderQty(s), !.cost = @ + s.price * OrderQty(s)]

\* Mutant: of the order's quantity at the position's average.
RealizedByOrder(p, s) ==
  IF p = None THEN 0 ELSE IF p.side = s.side THEN 0
  ELSE (ProfitAt(p, s.price) * OrderQty(s)) \div p.qty
\* The profit a fill of s realizes: of the whole position, or nothing.
RealizedBy(p, s) ==
  IF p = None THEN 0 ELSE IF p.side = s.side THEN 0 ELSE ProfitAt(p, s.price)
-----------------------------------------------------------------------------
\* For the properties: what leaving a position, if there is one, is worth at a
\* price, and the signed quantity it holds.
Worth(p, price) == IF p = None THEN 0 ELSE ProfitAt(p, price)
Exposure(p) == IF p = None THEN 0 ELSE IF p.side = "buy" THEN p.qty ELSE -p.qty
=============================================================================
