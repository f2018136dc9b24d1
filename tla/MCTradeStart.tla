---------------------------- MODULE MCTradeStart ----------------------------
(***************************************************************************)
(* Clauses of every kind in both directions, and alerts whose numbers lie  *)
(* below, at and above each boundary, in the places payloads put them.     *)
(***************************************************************************)
EXTENDS TradeStart, TLC

Row(kind) ==
  [kind |-> kind, compare |-> "lt", level |-> 1, way |-> "", line |-> "", frame |-> "", side |-> None]

MCClauses ==
  {[Row("rsi") EXCEPT !.compare = c] : c \in {"lt", "gt", "lte", "gte"}}
    \cup {Row("tv_webhook"), Row("qfl_long"), Row("adx"), Row("cci"), Row("no_such_kind"),
            [Row("rsi") EXCEPT !.compare = "lte", !.frame = "4h"]}
    \cup {[Row("tv_screener") EXCEPT !.frame = f] : f \in {"1h", "4h", "1d"}}
    \cup {[Row("tv_screener") EXCEPT !.side = "sell"]}
    \cup {[Row(k[1]) EXCEPT !.way = k[2]] :
            k \in {"bollinger_pctb"} \X {"below_lower", "above_upper"}
               \cup {"ma"} \X {"price_above", "price_below"}
               \cup {"parabolic_sar"} \X {"flip_bull", "flip_bear"}
               \cup {"heikin_ashi"} \X {"bullish", "bearish"}
               \cup {"stochastic"} \X {"k_cross_up_d", "k_cross_down_d"}}
    \cup {[Row("macd") EXCEPT !.way = w, !.line = l] :
            w \in {"crossing_up", "crossing_down"}, l \in {"less_than_0", "greater_than_0"}}

Bare == [side |-> "buy", frames |-> {}, numbers |-> <<>>, color |-> None,
         byIndex |-> <<>>, byKind |-> <<>>, results |-> <<>>]
Numbers(n) == [Bare EXCEPT !.numbers = n]

Results == {<<>>, <<[kind |-> "cci", ok |-> TRUE], [kind |-> "rsi", ok |-> TRUE]>>}
Levels == {-1, 0, 1, 2}
MCAlerts ==
  {[Bare EXCEPT !.frames = f] : f \in {{}, {"60"}, {"240m"}, {"4h"}, {"240"}, {"daily"}, {"1h", "15"}}}
    \cup {[Bare EXCEPT !.side = side, !.frames = {"60"}] : side \in Sides}
    \cup {Numbers(<<"value">> :> v @@ <<"price">> :> p) : v \in Levels, p \in {0, 1}}
    \cup {[Numbers(<<"rsi">> :> 0) EXCEPT !.frames = {"60"}]}
    \cup {Numbers(<<kind>> :> v) : kind \in {"rsi", "pctb"}, v \in Levels}
    \cup {Numbers(<<"indicators", kind, "value">> :> 0 @@ <<"indicator_values", "adx", "value">> :> 1) :
            kind \in {"rsi", "cci"}}
    \cup {Numbers(<<"ma">> :> v @@ <<"sar">> :> 1 @@ <<"price">> :> p) : v \in {0, 1}, p \in {0, 1}}
    \cup {Numbers(<<"stoch_k">> :> a @@ <<"stoch_d">> :> b) : a, b \in {0, 1}}
    \cup {Numbers(<<"macd", "macd">> :> a @@ <<"signal">> :> b) : a, b \in {-1, 0, 1}}
    \cup {Numbers(<<"prefix", "macd", "value">> :> 0 @@ <<"stoch_k">> :> 0)}
    \cup {Numbers(<<"ha_open">> :> a @@ <<"close">> :> b) : a, b \in {0, 1}}
    \cup {[Bare EXCEPT !.color = c] : c \in {"bullish", "bearish"}}
    \cup {[Bare EXCEPT !.byIndex = i] : i \in {<<TRUE>>, 2 :> FALSE}}
    \cup {[Bare EXCEPT !.byKind = k] : k \in {"rsi" :> TRUE, "tv_webhook" :> FALSE}}
    \cup {[Bare EXCEPT !.byKind = "rsi" :> FALSE, !.results = r, !.byIndex = i] : r \in Results, i \in {<<>>, <<TRUE>>}}
=============================================================================
