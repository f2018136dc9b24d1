-------------------------- MODULE MCExecutionEngine --------------------------
(***************************************************************************)
(* Instances of the execution engine: each group of definitions is for the *)
(* runs its comment names.                                                 *)
(***************************************************************************)
EXTENDS ExecutionEngine

CONSTANTS o1, o2

Sig(owner, symbol, side, price, volume) ==
  [owner |-> owner, symbol |-> symbol, side |-> side, price |-> price,
   volume |-> volume, risk |-> None]

MCOwners == {o1, o2}
OneOwner == {o1}
MCPrices == {5}
NoPrices == {}
MCPurges == {{"queued", "rejected"}, {"sent", "filled"}}
NoPurges == {}
MCKeyText == [o \in Owners \cup {PublicOwner}, y \in Symbols |-> <<o, y>>]
MCClocks == {[hour |-> 12, weekday |-> 1]}
OneSymbol == {"BTC"}
TwoSymbols == {"BTC", "ETH"}

\* Lifecycle: two owners, of which o1 is called public, and nobody, who closes on the
\* key of o1, two symbols, signals with and without a price, under a tight and a
\* looser policy.
LifeSignals == {Sig(o1, "BTC", "buy", 3, 2), Sig(o2, "ETH", "buy", None, 2),
                Sig(None, "BTC", "close", 4, None)}
LifePolicies == {[DefaultPolicy EXCEPT !.requirePrice = FALSE, !.maxOpen = 2, !.maxPerSymbol = 1],
                 [DefaultPolicy EXCEPT !.requirePrice = FALSE, !.maxOpen = 1, !.maxPerSymbol = 1]}

\* Audit: o1, who is called public, buys what o1 or nobody closes with different odd
\* losses, and sells at no price.
GuardSignals == {Sig(o1, "BTC", "buy", 9, 3), Sig(o1, "BTC", "close", 4, None),
                 Sig(None, "BTC", "close", 6, None), Sig(o1, "BTC", "sell", None, 1)}
GuardPolicies == {[DefaultPolicy EXCEPT !.requirePrice = FALSE, !.lossLimit = 12],
                  [DefaultPolicy EXCEPT !.lossLimit = 8]}
=============================================================================
