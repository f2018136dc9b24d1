----------------------------- MODULE PaperBook -----------------------------
(***************************************************************************)
(* _paper_positions: the book of paper positions, one per key, as the      *)
(* fills and the mark-to-market endpoint change it.  Both run without an   *)
(* await, so each is one step.                                             *)
(***************************************************************************)
EXTENDS PaperFill

CONSTANT Prices   \* the mark prices the endpoint is asked for

VARIABLE positions

BookTypeOK == positions \in [Keys -> Position \cup {None}]

BookInit == positions = [k \in Keys |-> None]

\* What job.owner_key in (None, owner) admits.
VisibleTo(owner, caller) == owner \in {None, caller}

\* apply_paper_fill
Fill(s) ==
  /\ s.price # None
  /\ positions' = [positions EXCEPT ![KeyOf(s)] = PositionAfter(@, s)]

Marked(p, price) == [p EXCEPT !.mark = price, !.unrealized = Round4(ProfitAt(p, price))]

\* Whether the endpoint, asked by caller for symbol, revalues the position on k.
Revalued(k, caller, symbol) ==
  /\ positions[k] # None
  /\ positions[k].symbol = symbol
  /\ VisibleTo(positions[k].owner, caller)

\* paper_mark_to_market, a GET that writes
MarkToMarket(caller, symbol, price) ==
  positions' = [k \in Keys |-> IF Revalued(k, caller, symbol)
                               THEN Marked(positions[k], price) ELSE positions[k]]

\* The process ends; nothing of the book is stored.
BookRestart == positions' = [k \in Keys |-> None]

BookNext ==
  \/ \E s \in Signals : Fill(s)
  \/ \E caller \in Owners, symbol \in Symbols, price \in Prices :
       MarkToMarket(caller, symbol, price)
  \/ BookRestart

BookSpec == BookInit /\ [][BookNext]_positions
=============================================================================
