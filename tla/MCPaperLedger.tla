--------------------------- MODULE MCPaperLedger ---------------------------
EXTENDS PaperLedger

CONSTANTS o1, o2

Sig(owner, symbol, side, price, volume, risk) ==
  [owner |-> owner, symbol |-> symbol, side |-> side, price |-> price,
   volume |-> volume, risk |-> risk]

\* Two books on one symbol: nobody's, and o1's, on whose key o2 trades another
\* symbol, as owner "a" trades "b::BTC" on the key of owner "a::b" and BTC. Volume,
\* risk and the minimum quantity are each the one that counts in some signal; one
\* has no price.
MCSignals ==
  {Sig(None, "BTC", "buy", 3, 2, None), Sig(None, "BTC", "sell", 5, None, None),
   Sig(None, "BTC", "close", 4, None, None),
   Sig(o1, "BTC", "buy", 4, None, 3), Sig(o2, "ETH", "sell", 7, -1, 5),
   Sig(o1, "BTC", "buy", 8, 1, None), Sig(o1, "BTC", "close_all", 2, None, None),
   Sig(o1, "BTC", "buy", None, 2, None)}
MCOwners == {o1, o2}
MCSymbols == {"BTC", "ETH"}
MCKeyText ==
  [o \in MCOwners \cup {PublicOwner}, y \in MCSymbols |->
    IF o = o2 /\ y = "ETH" THEN <<o1, "BTC">> ELSE <<o, y>>]
MCPrices == {2, 5}
=============================================================================
