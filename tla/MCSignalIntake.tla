--------------------------- MODULE MCSignalIntake ---------------------------
(***************************************************************************)
(* Bodies of up to four pairs in both formats: aliases in and out of       *)
(* order, repeated keys, capitals, quotes, blanks, nulls and numbers that  *)
(* are none.                                                               *)
(***************************************************************************)
EXTENDS SignalIntake, TLC

MCNumbers == "0" :> 0 @@ "7" :> 7 @@ "9" :> 9 @@ "inf" :> Infinite

Plainly(t) == [text |-> t, padded |-> FALSE, quoted |-> FALSE]
P(k, t) == [key |-> k, capitals |-> FALSE, value |-> Plainly(t)]
Capitals(p) == [p EXCEPT !.capitals = TRUE]
Padded(p) == [p EXCEPT !.value.padded = TRUE]
Quoted(p) == [p EXCEPT !.value.quoted = TRUE]
Null(k) == [key |-> k, capitals |-> FALSE, value |-> None]

Btc == P("symbol", "BTC")
Buy == P("side", "buy")
Shared ==
  {<<>>, <<Btc>>, <<Buy>>, <<Btc, Buy>>, <<P("ticker", "ETH"), P("action", "exit"), P("symbol", "")>>,
   <<Btc, P("side", "hold")>>, <<Btc, P("symbol", "ETH"), Buy>>, <<Btc, P("symbol", ""), Buy>>,
   <<Capitals(Btc), Buy>>, <<Capitals(Btc), P("pair", "ETH"), Buy>>,
   <<Btc, P("side", ""), P("signal", "flat")>>, <<Padded(Btc), Padded(Buy)>>,
   <<Padded(P("symbol", "")), P("ticker", "ETH"), Buy>>}
    \cup {<<Btc, Buy, P("owner", o)>> : o \in {"ann", "bob", ""}}
    \cup {<<Btc, Buy, Padded(P("account", "")), P("terminal_id", "ann")>>}
    \cup {<<Btc, Buy, P("price", v), P("close", w)>> : v \in {"7", "", "n/a", "0"}, w \in {"9", "n/a"}}
    \cup {<<Btc, Buy, P("close", "9"), P("price", "7")>>, <<Btc, Buy, P("price", "7"), P("price", "n/a")>>}
    \cup {<<Btc, Buy, P("max_lag_seconds", v), P("max_lag_sec", "9")>> : v \in {"", "0", "7", "inf"}}
    \cup {<<Btc, Buy, P("id", "x")>>, <<Btc, Buy, P("bot", "dca"), P("tf", "60")>>}
Texts == Shared \cup
  {<<Quoted(Btc), Quoted(Buy)>>, <<None, Btc, Buy>>, <<None>>, <<Btc, Buy, Quoted(P("price", "7")), P("close", "9")>>}
Objects == Shared \cup {<<Null("symbol"), P("pair", "BTC"), Buy>>, <<Btc, Buy, Null("price"), P("close", "9")>>}

Given(body, pairs, header) ==
  [secret |-> "key", bearer |-> "", owner |-> header, body |-> body, pairs |-> pairs]
MCDeliveries ==
  {Given("text", t, h) : t \in Texts, h \in {None, "ann"}}
    \cup {Given("object", t, h) : t \in Objects, h \in {None, "", "bob"}}
    \cup {Given(b, <<>>, None) : b \in {"empty", "broken_json", "other_json"}}
    \cup {[Given("text", <<Btc, Buy>>, "ann") EXCEPT !.secret = s, !.bearer = b] :
             s \in {"", "wrong"}, b \in {"", "wrong", "key"}}

\* Every delivery is read when the inbox is empty.  Of those that follow, where only
\* order and number matter, one is refused and three are not, two of them alike.
MCLater ==
  {Given("text", <<Btc>>, "ann"), Given("text", <<Btc, Buy>>, "ann"),
   Given("object", <<Btc, Buy>>, "bob"), Given("object", <<Btc, P("id", "x"), Buy>>, None)}
MCNext ==
  \E d \in IF arrived = 0 THEN Deliveries ELSE MCLater, matchRaises \in BOOLEAN :
    Deliver(d, matchRaises)
MCSpec == Init /\ [][MCNext]_vars
=============================================================================
