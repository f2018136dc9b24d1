----------------------------- MODULE OrderScript -----------------------------
(***************************************************************************)
(* scripts/order_usdm_testnet.py: one process after another that talks to  *)
(* the exchange through the client of pinebitz/exchanges.  Every call may  *)
(* fail before or after it took effect there, and the operator, who sees   *)
(* nothing but the exit code, runs the script again.  Others, a person or  *)
(* another process, set the leverage of the symbol at any time.            *)
(***************************************************************************)
EXTENDS Integers, Sequences

CONSTANTS
  None,
  Leverages,   \* the leverages that can be asked for
  MaxRuns      \* bound: runs of the script

VARIABLES
  run,        \* the process, None when there is none
  runs,       \* how many there were
  exit,       \* the exit code of the last
  leverage,   \* at the exchange: the leverage of the symbol
  orders,     \* at the exchange: the script's market orders it accepted, oldest first
  disturbed   \* history: whether others set the leverage since the script did

vars == <<run, runs, exit, leverage, orders, disturbed>>
exchange == <<leverage, orders, disturbed>>

Stages == {"credentials", "load_markets", "fetch_ticker", "fetch_balance",
           "set_leverage", "order", "close"}
\* The options, the stage, and the exit code once it is known.
Run == [execute : BOOLEAN, side : {"buy", "sell"}, leverage : Leverages \cup {None},
        stage : Stages, code : {None, 0, 1, 2, 130}]
\* An order, the leverage of the symbol when it came, and the run that sent it.
Order == [side : {"buy", "sell"}, leverage : Leverages, by : 1..MaxRuns]

ASSUME OrderScriptConstants ==
  /\ MaxRuns \in Nat /\ Leverages # {}
  /\ None \notin Leverages \cup {0, 1, 2, 130} \cup Run

\* One process at most, its exit code open until it is closing.
TypeOK ==
  /\ run \in Run \cup {None}
  /\ run # None => (run.code # None <=> run.stage = "close")
  /\ runs \in 0..MaxRuns
  /\ exit \in {None, 0, 1, 2, 130}
  /\ leverage \in Leverages
  /\ orders \in Seq(Order)
  /\ disturbed \in BOOLEAN

Init ==
  /\ run = None /\ runs = 0 /\ exit = None
  /\ leverage \in Leverages /\ orders = <<>> /\ disturbed = FALSE

\* main: the arguments, asyncio.run.
Start(options) ==
  /\ run = None /\ runs < MaxRuns
  /\ run' = options /\ runs' = runs + 1
  /\ exit' = None
  /\ UNCHANGED exchange

At(stage) == run # None /\ run.stage = stage
Goto(stage) == run' = [run EXCEPT !.stage = stage]
\* `finally: await ex.close()`, with the code the process will exit with.
Close(code) == run' = [run EXCEPT !.stage = "close", !.code = code]
Exits(code) == run' = None /\ exit' = code

\* binance_usdm_testnet_exchange: without keys there is no client to close.
Credentials ==
  /\ At("credentials")
  /\ \/ Goto("load_markets") /\ UNCHANGED exit
     \/ Exits(1)
  /\ UNCHANGED <<runs, exchange>>

\* An unknown symbol ends the run with 2.
LoadMarkets ==
  /\ At("load_markets")
  /\ Goto("fetch_ticker") \/ Close(2)
  /\ UNCHANGED <<runs, exit, exchange>>
FetchTicker ==
  /\ At("fetch_ticker")
  /\ Goto("fetch_balance")
  /\ UNCHANGED <<runs, exit, exchange>>

\* What follows the balance: the leverage, in a dry run the end, or the order.
\* (Mutant: the leverage is set after the order.)
AfterBalanceOrder(r) == IF r.execute THEN "order" ELSE "close"
AfterBalance(r) ==
  IF ~r.execute THEN "close" ELSE IF r.leverage # None THEN "set_leverage" ELSE "order"
FetchBalance ==
  /\ At("fetch_balance")
  /\ IF AfterBalance(run) = "close" THEN Close(0) ELSE Goto(AfterBalance(run))
  /\ UNCHANGED <<runs, exit, exchange>>

SetLeverage ==
  /\ At("set_leverage")
  /\ leverage' = run.leverage /\ disturbed' = FALSE
  /\ Goto("order")
  /\ UNCHANGED <<runs, exit, orders>>

\* create_market_buy_order or create_market_sell_order
Accepted == Append(orders, [side |-> run.side, leverage |-> leverage, by |-> runs])
PlaceOrder ==
  /\ At("order")
  /\ orders' = Accepted
  /\ Close(0)
  /\ UNCHANGED <<runs, exit, leverage, disturbed>>

\* A call raises, 1, or the operator interrupts it, 130; a write may have taken
\* effect. (Mutant: a lost answer to the order counts as success.)
FailureCodesOptimistic == IF run.stage = "order" THEN {0, 130} ELSE {1, 130}
FailureCodes == {1, 130}
Fail ==
  /\ run # None /\ run.stage \notin {"credentials", "close"}
  /\ \E code \in FailureCodes : Close(code)
  /\ \/ UNCHANGED exchange
     \/ /\ run.stage = "set_leverage"
        /\ leverage' = run.leverage /\ disturbed' = FALSE /\ UNCHANGED orders
     \/ run.stage = "order" /\ orders' = Accepted /\ UNCHANGED <<leverage, disturbed>>
  /\ UNCHANGED <<runs, exit>>

\* ex.close(), which may raise in its turn or be interrupted.
CloseClient ==
  /\ At("close")
  /\ \E code \in {run.code, 1, 130} : Exits(code)
  /\ UNCHANGED <<runs, exchange>>

Step == Credentials \/ LoadMarkets \/ FetchTicker \/ FetchBalance \/ SetLeverage
          \/ PlaceOrder \/ Fail \/ CloseClient
Options == {r \in Run : r.stage = "credentials" /\ r.code = None}

\* A person or another process, or a call of an earlier run that comes late.
OthersSetLeverage ==
  /\ leverage' \in Leverages
  /\ disturbed' = TRUE
  /\ UNCHANGED <<run, runs, exit, orders>>

Next == Step \/ (\E r \in Options : Start(r)) \/ OthersSetLeverage

Spec == Init /\ [][Next]_vars

-----------------------------------------------------------------------------
\* The orders of a run, by their place.
By(n) == {k \in 1..Len(orders) : orders[k].by = n}

\* An exit code of 0 tells the truth about --execute: the run before placed one
\* order, or none if it was dry, whatever failed on the way and in runs before; any
\* other code says nothing of the order (run, its two `return 0`).
SuccessIsOneOrder ==
  [][run # None /\ exit' = 0 /\ run' = None =>
       IF run.execute THEN \E k \in 1..Len(orders) : By(runs) = {k} ELSE By(runs) = {}]_vars

\* No run sends its order twice, however it ends: repeating it is up to the operator
\* ("places ONE market order").
OneOrderPerRun == \A j, k \in 1..Len(orders) : orders[j].by = orders[k].by => j = k

\* An order that is sent with --leverage finds the symbol at this leverage when it
\* comes, unless others set it since the script did, though the two are separate calls
\* of which the first may fail before or after it took effect. Nothing is said of the
\* leverage later (set_leverage, create_market_buy_order).
OrderAtItsLeverage ==
  [][orders' # orders /\ run.leverage # None /\ ~disturbed =>
       orders'[Len(orders')].leverage = run.leverage]_vars

\* Whatever its other options say, a run without --execute leaves the exchange as it
\* was ("no REST write except load_markets + optional fetch").
DryRunWritesNothing ==
  [][run # None /\ ~run.execute => UNCHANGED exchange \/ OthersSetLeverage]_vars
=============================================================================
