---------------------------- MODULE ClientProofs ----------------------------
(***************************************************************************)
(* The two clients that act by themselves.  The order script, for any      *)
(* leverages and any number of runs: what its exit code says of the orders *)
(* at the exchange, and at which leverage they were placed.  The trading   *)
(* page, for any jobs, owners and chains at once: "Dispatch all" leaves no *)
(* job of its list behind.                                                 *)
(***************************************************************************)
EXTENDS OrderScript, Dashboard, SetSums, SequenceTheorems

\* What the process knows of the exchange, by its stage: it has no order until it
\* sends one, a dry run never comes to a write, the leverage it asked for is in force
\* when it sends its order, if nobody else set it since, and a code of 0 is set with the
\* order or for the dry run.
OrdersAreBehind == \A k \in 1..Len(orders) : orders[k].by <= runs
NoneYet == run # None /\ run.stage # "close" => By(runs) = {}
DryStays == run # None /\ ~run.execute => run.stage \notin {"set_leverage", "order"}
AtLeverage ==
  run # None => /\ run.stage = "set_leverage" => run.leverage # None
                /\ run.stage = "order" /\ run.leverage # None /\ ~disturbed =>
                     leverage = run.leverage
CodeTells ==
  run # None /\ run.code = 0 =>
    IF run.execute THEN \E k \in 1..Len(orders) : By(runs) = {k} ELSE By(runs) = {}
ExitOpen == run # None => exit = None /\ runs > 0

Inv ==
  TypeOK /\ OrdersAreBehind /\ OneOrderPerRun /\ NoneYet /\ DryStays /\ AtLeverage
    /\ CodeTells /\ ExitOpen

-----------------------------------------------------------------------------
LEMMA InitInv == Init => Inv
<1> SUFFICES ASSUME Init PROVE Inv
  OBVIOUS
<1>1. run = None /\ runs = 0 /\ exit = None /\ orders = <<>>
  BY DEF Init
<1>2. orders \in Seq(Order)
  BY <1>1
<1>3. leverage \in Leverages /\ disturbed \in BOOLEAN /\ runs \in 0..MaxRuns
  <2>1. leverage \in Leverages /\ disturbed \in BOOLEAN
    BY Zenon DEF Init
  <2>2. runs \in 0..MaxRuns
    BY <1>1, OrderScriptConstants
  <2> QED BY <2>1, <2>2
<1>4. TypeOK
  BY <1>1, <1>2, <1>3 DEF TypeOK
<1>5. 1..Len(orders) = {}
  BY <1>1
<1>6. OrdersAreBehind /\ OneOrderPerRun
  BY <1>5 DEF OrdersAreBehind, OneOrderPerRun
<1>7. NoneYet /\ DryStays /\ AtLeverage /\ CodeTells /\ ExitOpen
  BY <1>1 DEF NoneYet, DryStays, AtLeverage, CodeTells, ExitOpen
<1> QED
  BY <1>4, <1>6, <1>7 DEF Inv

LEMMA StartInv ==
  ASSUME Inv, NEW options \in Options, Start(options)
  PROVE  Inv'
<1>1. /\ run' = options /\ options \in Run /\ options.stage = "credentials" /\ options.code = None
      /\ runs' = runs + 1 /\ runs \in Nat /\ runs < MaxRuns /\ exit' = None
      /\ UNCHANGED <<orders, leverage, disturbed>>
  BY OrderScriptConstants DEF Start, Options, exchange, Inv, TypeOK
<1>2. /\ orders \in Seq(Order) /\ Len(orders) \in Nat
      /\ \A k \in 1..Len(orders) : orders[k].by \in Int /\ orders[k].by <= runs
  <2>1. orders \in Seq(Order) /\ \A k \in 1..Len(orders) : orders[k].by <= runs
    BY DEF Inv, TypeOK, OrdersAreBehind
  <2>2. \A k \in 1..Len(orders) : orders[k] \in Order
    BY <2>1
  <2>3. \A k \in 1..Len(orders) : orders[k].by \in Int
    BY <2>2, OrderScriptConstants DEF Order
  <2> QED BY <2>1, <2>3
<1>3. TypeOK'
  BY <1>1, <1>2, OrderScriptConstants DEF Inv, TypeOK
<1>4. \A k \in 1..Len(orders) : orders'[k].by <= runs' /\ orders'[k].by # runs'
  BY <1>1, <1>2
<1>5. OrdersAreBehind' /\ NoneYet'
  BY <1>1, <1>4 DEF OrdersAreBehind, NoneYet, By
<1>6. OneOrderPerRun'
  BY <1>1 DEF Inv, OneOrderPerRun
<1>7. DryStays' /\ AtLeverage' /\ ExitOpen'
  BY <1>1 DEF DryStays, AtLeverage, ExitOpen
<1>8. CodeTells'
  BY <1>1, OrderScriptConstants DEF CodeTells
<1> QED BY <1>3, <1>5, <1>6, <1>7, <1>8 DEF Inv

\* A step that moves the process on and places no order.
LEMMA MovedOn ==
  ASSUME Inv, run # None, NEW stage \in Stages, NEW code \in {None, 0, 1, 2, 130},
         run' = [run EXCEPT !.stage = stage, !.code = code],
         UNCHANGED <<runs, exit, orders>>,
         run.stage # "close",
         code # None <=> stage = "close",
         ~run.execute => stage \notin {"set_leverage", "order"},
         code = 0 => ~run.execute,
         leverage' \in Leverages, disturbed' \in BOOLEAN,
         stage = "set_leverage" => run.leverage # None,
         stage = "order" /\ run.leverage # None /\ ~disturbed' => leverage' = run.leverage
  PROVE  Inv'
<1>1. PICK r \in Run : r = run'
  BY DEF Inv, TypeOK, Run
<1>2. r.stage = stage /\ r.code = code /\ r.execute = run.execute /\ r.leverage = run.leverage
  BY <1>1 DEF Inv, TypeOK, Run
<1>3. TypeOK'
  BY <1>1, <1>2 DEF Inv, TypeOK
<1>4. By(runs)' = By(runs) /\ By(runs) = {}
  BY DEF By, Inv, NoneYet
<1>5. OrdersAreBehind' /\ OneOrderPerRun' /\ NoneYet'
  BY <1>1, <1>4 DEF Inv, OrdersAreBehind, OneOrderPerRun, NoneYet
<1>6. DryStays' /\ AtLeverage'
  BY <1>1, <1>2 DEF DryStays, AtLeverage
<1>7. CodeTells' /\ ExitOpen'
  BY <1>1, <1>2, <1>4, OrderScriptConstants DEF Inv, CodeTells, ExitOpen
<1> QED BY <1>3, <1>5, <1>6, <1>7 DEF Inv

\* The order reaches the exchange; code is the one the process will exit with.
LEMMA Ordered ==
  ASSUME Inv, At("order"), NEW code \in {0, 1, 130}, Close(code), orders' = Accepted,
         UNCHANGED <<runs, exit, leverage, disturbed>>
  PROVE  /\ Inv'
         /\ run.leverage # None /\ ~disturbed => orders'[Len(orders')].leverage = run.leverage
<1>1. /\ run # None /\ run \in Run /\ run.stage = "order" /\ run.execute = TRUE
      /\ run' = [run EXCEPT !.stage = "close", !.code = code]
      /\ By(runs) = {}
  BY DEF At, Close, Inv, TypeOK, Run, DryStays, NoneYet
<1>2. runs \in 1..MaxRuns /\ leverage \in Leverages
  BY <1>1, OrderScriptConstants DEF Inv, TypeOK, ExitOpen
<1>3. PICK o \in Order : o = [side |-> run.side, leverage |-> leverage, by |-> runs]
  BY <1>1, <1>2 DEF Order, Run
<1>4. o.by = runs /\ o.leverage = leverage
  BY <1>3
<1>5. PICK r \in Run : r = run' /\ r.stage = "close" /\ r.code = code /\ r.execute = TRUE
  <2>1. run' \in Run
    BY <1>1 DEF Run, Stages
  <2>2. run'.stage = "close" /\ run'.code = code /\ run'.execute = TRUE
    BY <1>1 DEF Run
  <2> QED BY <2>1, <2>2, Zenon
<1>6. /\ orders \in Seq(Order) /\ orders' = Append(orders, o)
      /\ Len(orders) \in Nat
  BY <1>3 DEF Accepted, Inv, TypeOK
<1>7. /\ orders' \in Seq(Order)
      /\ Len(orders') = Len(orders) + 1
      /\ \A k \in 1..Len(orders) : orders'[k] = orders[k]
      /\ orders'[Len(orders) + 1] = o
  BY <1>6
<1>8. \A k \in 1..Len(orders) : orders[k].by # runs
  BY <1>1 DEF By
<1>9. TypeOK'
  BY <1>2, <1>5, <1>7, OrderScriptConstants DEF Inv, TypeOK
<1>10. OrdersAreBehind'
  <2> SUFFICES ASSUME NEW k \in 1..Len(orders') PROVE orders'[k].by <= runs'
    BY DEF OrdersAreBehind
  <2>1. CASE k <= Len(orders)
    BY <1>6, <1>7, <2>1 DEF Inv, OrdersAreBehind
  <2>2. CASE k = Len(orders) + 1
    BY <1>2, <1>4, <1>7, <2>2
  <2> QED BY <1>6, <1>7, <2>1, <2>2
<1>11. OneOrderPerRun'
  <2> SUFFICES ASSUME NEW j \in 1..Len(orders'), NEW k \in 1..Len(orders'),
                      orders'[j].by = orders'[k].by
               PROVE  j = k
    BY DEF OneOrderPerRun
  <2>1. CASE j <= Len(orders) /\ k <= Len(orders)
    BY <1>6, <1>7, <2>1 DEF Inv, OneOrderPerRun
  <2>2. CASE j = Len(orders) + 1 /\ k <= Len(orders)
    BY <1>4, <1>6, <1>7, <1>8, <2>2
  <2>3. CASE j <= Len(orders) /\ k = Len(orders) + 1
    BY <1>4, <1>6, <1>7, <1>8, <2>3
  <2> QED BY <1>6, <1>7, <2>1, <2>2, <2>3
<1>12. NoneYet' /\ DryStays' /\ AtLeverage'
  BY <1>5 DEF NoneYet, DryStays, AtLeverage
<1>13. CodeTells'
  <2> DEFINE last == Len(orders) + 1
  <2>1. last \in 1..Len(orders') /\ orders'[last].by = runs
    BY <1>4, <1>6, <1>7
  <2>2. \A k \in 1..Len(orders') : orders'[k].by = runs => k = last
    BY <1>6, <1>7, <1>8
  <2> HIDE DEF last
  <2>3. {k \in 1..Len(orders') : orders'[k].by = runs} = {last}
    BY <2>1, <2>2
  <2> QED BY <1>5, <2>1, <2>3 DEF CodeTells, By
<1>14. ExitOpen'
  BY <1>1 DEF Inv, ExitOpen
<1>15. Inv'
  BY <1>9, <1>10, <1>11, <1>12, <1>13, <1>14 DEF Inv
<1>16. run.leverage # None /\ ~disturbed => orders'[Len(orders')].leverage = run.leverage
  BY <1>1, <1>4, <1>6, <1>7 DEF Inv, AtLeverage
<1> QED BY <1>15, <1>16

\* The process ends.
LEMMA Ended ==
  ASSUME Inv, run # None, run' = None, exit' \in {0, 1, 2, 130},
         UNCHANGED <<runs, orders, leverage, disturbed>>
  PROVE  Inv'
<1>1. TypeOK'
  BY DEF Inv, TypeOK
<1>2. OrdersAreBehind' /\ OneOrderPerRun'
  BY DEF Inv, OrdersAreBehind, OneOrderPerRun
<1> QED BY <1>1, <1>2 DEF Inv, NoneYet, DryStays, AtLeverage, CodeTells, ExitOpen

-----------------------------------------------------------------------------
\* What each step does: it moves the process on, sends the order, ends the process
\* with its code, or starts another; or others set the leverage.
StepEffect ==
  \/ /\ Inv' /\ run # None /\ orders' = orders /\ exit' = exit
     /\ ~run.execute => UNCHANGED exchange
  \/ /\ Inv' /\ run # None /\ run.execute /\ exit' = exit
     /\ run.leverage # None /\ ~disturbed => orders'[Len(orders')].leverage = run.leverage
  \/ /\ Inv' /\ run # None /\ UNCHANGED exchange
     /\ exit' = 0 => run.code = 0
  \/ Inv' /\ run = None /\ UNCHANGED exchange
  \/ Inv' /\ OthersSetLeverage

\* A step that goes to a stage, or to the end with a code
LEMMA GoesOn ==
  ASSUME Inv, run # None, run.stage # "close",
         NEW stage \in Stages \ {"close"}, Goto(stage),
         UNCHANGED <<runs, exit, orders>>,
         ~run.execute => stage \notin {"set_leverage", "order"},
         leverage' \in Leverages, disturbed' \in BOOLEAN,
         stage = "set_leverage" => run.leverage # None,
         stage = "order" /\ run.leverage # None /\ ~disturbed' => leverage' = run.leverage
  PROVE  Inv'
<1>1. run \in Run /\ run.code = None
  BY DEF Inv, TypeOK
<1>2. run' = [run EXCEPT !.stage = stage, !.code = None]
  BY <1>1 DEF Goto, Run
<1> QED BY <1>2, MovedOn, OrderScriptConstants

LEMMA GoesToClose ==
  ASSUME Inv, run # None, run.stage # "close", NEW code \in {0, 1, 2, 130}, Close(code),
         UNCHANGED <<runs, exit, orders>>,
         code = 0 => ~run.execute,
         leverage' \in Leverages, disturbed' \in BOOLEAN
  PROVE  Inv'
<1>1. code # None /\ code \in {None, 0, 1, 2, 130} /\ "close" \in Stages
  BY OrderScriptConstants DEF Stages
<1>2. PICK stage \in Stages : stage = "close"
  BY <1>1
<1>3. run' = [run EXCEPT !.stage = stage, !.code = code]
  BY <1>2 DEF Close
<1>4. /\ code # None <=> stage = "close"
      /\ stage \notin {"set_leverage", "order"}
  BY <1>1, <1>2
<1> QED BY <1>1, <1>3, <1>4, MovedOn

LEMMA NextEffect ==
  ASSUME Inv, Next
  PROVE  StepEffect
<1>0. /\ leverage \in Leverages /\ disturbed \in BOOLEAN
      /\ run # None => run \in Run
      /\ run # None /\ ~run.execute => run.stage \notin {"set_leverage", "order"}
  BY DEF Inv, TypeOK, DryStays
<1>1. CASE Credentials
  <2>1. CASE Goto("load_markets") /\ UNCHANGED exit
    BY <1>0, <1>1, <2>1, GoesOn DEF Credentials, At, exchange, StepEffect, Stages
  <2>2. CASE Exits(1)
    BY <1>1, <2>2, Ended DEF Credentials, At, exchange, StepEffect, Exits
  <2> QED BY <1>1, <2>1, <2>2 DEF Credentials
<1>2. CASE LoadMarkets
  <2>1. CASE Goto("fetch_ticker")
    BY <1>0, <1>2, <2>1, GoesOn DEF LoadMarkets, At, exchange, StepEffect, Stages
  <2>2. CASE Close(2)
    BY <1>0, <1>2, <2>2, GoesToClose DEF LoadMarkets, At, exchange, StepEffect
  <2> QED BY <1>2, <2>1, <2>2 DEF LoadMarkets
<1>3. CASE FetchTicker
  BY <1>0, <1>3, GoesOn DEF FetchTicker, At, exchange, StepEffect, Stages
<1>4. CASE FetchBalance
  <2>1. CASE AfterBalance(run) = "close"
    <3>1. ~run.execute
      BY <2>1 DEF AfterBalance
    <3> QED BY <1>0, <1>4, <2>1, <3>1, GoesToClose DEF FetchBalance, At, exchange, StepEffect
  <2>2. CASE AfterBalance(run) # "close"
    <3>1. /\ run.execute /\ AfterBalance(run) \in Stages \ {"close"}
          /\ AfterBalance(run) = "order" => run.leverage = None
          /\ AfterBalance(run) = "set_leverage" => run.leverage # None
      BY <2>2 DEF AfterBalance, Stages
    <3> QED BY <1>0, <1>4, <2>2, <3>1, GoesOn DEF FetchBalance, At, exchange, StepEffect
  <2> QED BY <2>1, <2>2
<1>5. CASE SetLeverage
  <2>1. run \in Run /\ run.execute /\ run.leverage # None /\ run.leverage \in Leverages
    BY <1>0, <1>5 DEF SetLeverage, At, Inv, AtLeverage, Run
  <2> QED BY <1>0, <1>5, <2>1, GoesOn DEF SetLeverage, At, exchange, StepEffect, Stages
<1>6. CASE PlaceOrder
  <2>1. run.execute
    BY <1>0, <1>6 DEF PlaceOrder, At
  <2> QED BY <1>6, <2>1, Ordered DEF PlaceOrder, At, StepEffect
<1>7. CASE Fail
  <2>1. PICK code \in {1, 130} : Close(code)
    BY <1>7 DEF Fail, FailureCodes
  <2>2. run # None /\ run.stage # "close" /\ UNCHANGED <<runs, exit>>
    BY <1>7 DEF Fail
  <2>3. CASE UNCHANGED exchange
    BY <1>0, <2>1, <2>2, <2>3, GoesToClose DEF exchange, StepEffect
  <2>4. CASE /\ run.stage = "set_leverage"
             /\ leverage' = run.leverage /\ disturbed' = FALSE /\ UNCHANGED orders
    <3>1. run.execute /\ run.leverage \in Leverages
      BY <1>0, <2>2, <2>4 DEF Inv, AtLeverage, Run
    <3>2. disturbed' \in BOOLEAN /\ leverage' \in Leverages /\ UNCHANGED orders
      BY <2>4, <3>1
    <3>3. code \in {0, 1, 2, 130} /\ code # 0
      OBVIOUS
    <3>4. Inv'
      BY <2>1, <2>2, <3>1, <3>2, <3>3, GoesToClose
    <3> QED BY <2>2, <3>1, <3>2, <3>4 DEF StepEffect
  <2>5. CASE run.stage = "order" /\ orders' = Accepted /\ UNCHANGED <<leverage, disturbed>>
    <3>1. run.execute
      BY <1>0, <2>2, <2>5
    <3> QED BY <2>1, <2>2, <2>5, <3>1, Ordered DEF At, StepEffect
  <2> QED BY <1>7, <2>3, <2>4, <2>5 DEF Fail
<1>8. CASE CloseClient
  <2>1. run # None /\ run \in Run /\ run.code # None
    BY <1>0, <1>8 DEF CloseClient, At, Inv, TypeOK
  <2>2. PICK code \in {run.code, 1, 130} : Exits(code)
    BY <1>8 DEF CloseClient
  <2> QED BY <1>8, <2>1, <2>2, Ended DEF CloseClient, Exits, exchange, StepEffect, Run
<1>9. ASSUME NEW options \in Options, Start(options) PROVE StepEffect
  BY <1>9, StartInv DEF Start, StepEffect
<1>10. CASE OthersSetLeverage
  <2>1. leverage' \in Leverages /\ disturbed' = TRUE /\ UNCHANGED <<run, runs, exit, orders>>
    BY <1>10 DEF OthersSetLeverage
  <2>2. TypeOK'
    BY <2>1 DEF Inv, TypeOK
  <2>3. OrdersAreBehind' /\ OneOrderPerRun' /\ NoneYet' /\ DryStays' /\ CodeTells' /\ ExitOpen'
    BY <2>1
       DEF Inv, OrdersAreBehind, OneOrderPerRun, NoneYet, DryStays, CodeTells, ExitOpen, By
  <2>4. AtLeverage'
    BY <2>1 DEF Inv, AtLeverage
  <2> QED BY <1>10, <2>2, <2>3, <2>4 DEF Inv, StepEffect
<1> QED
  BY <1>1, <1>2, <1>3, <1>4, <1>5, <1>6, <1>7, <1>8, <1>9, <1>10 DEF Next, Step

LEMMA InvHolds == Spec => []Inv
<1>1. Inv /\ UNCHANGED vars => Inv'
  BY DEF Inv, vars, exchange, TypeOK, OrdersAreBehind, OneOrderPerRun, NoneYet, DryStays,
         AtLeverage,
         CodeTells, ExitOpen, By
<1>2. Inv /\ [Next]_vars => Inv'
  BY <1>1, NextEffect DEF StepEffect
<1> QED BY InitInv, <1>2, PTL DEF Spec

\* The process and the orders keep their types.
THEOREM ScriptTypeCorrect == Spec => []TypeOK
<1>1. Inv => TypeOK
  BY DEF Inv
<1> QED BY <1>1, InvHolds, PTL

\* However calls fail and however often the operator repeats the script, no run places
\* two orders (PlaceOrder is sent once, its loss ends the run).
THEOREM NoRunOrdersTwice == Spec => []OneOrderPerRun
<1>1. Inv => OneOrderPerRun
  BY DEF Inv
<1> QED BY <1>1, InvHolds, PTL

\* An exit code of 0 means one order with --execute and none without it.
THEOREM ZeroTellsTheTruth == Spec => SuccessIsOneOrder
<1>1. Inv /\ [Next]_vars =>
        (run # None /\ exit' = 0 /\ run' = None =>
          IF run.execute THEN \E k \in 1..Len(orders) : By(runs) = {k} ELSE By(runs) = {})
  <2> SUFFICES ASSUME Inv, [Next]_vars, run # None, exit' = 0, run' = None
               PROVE  IF run.execute THEN \E k \in 1..Len(orders) : By(runs) = {k}
                                     ELSE By(runs) = {}
    OBVIOUS
  <2>1. exit # 0
    BY OrderScriptConstants DEF Inv, ExitOpen
  <2>2. run.code = 0
    BY <2>1, NextEffect DEF StepEffect, OthersSetLeverage, vars
  <2> QED BY <2>2 DEF Inv, CodeTells
<1> QED BY <1>1, InvHolds, PTL DEF Spec, SuccessIsOneOrder

\* An order with --leverage finds the symbol at this leverage when it comes to the
\* exchange, unless others set it after the script did. It says nothing of the leverage
\* afterwards, which later runs and others may set.
THEOREM OrdersAtTheirLeverage == Spec => OrderAtItsLeverage
<1>1. Inv /\ [Next]_vars =>
        (orders' # orders /\ run.leverage # None /\ ~disturbed =>
           orders'[Len(orders')].leverage = run.leverage)
  BY NextEffect DEF StepEffect, OthersSetLeverage, vars, exchange
<1> QED BY <1>1, InvHolds, PTL DEF Spec, OrderAtItsLeverage

\* While a run without --execute lasts, leverage and orders change only when others set
\* the leverage.
THEOREM DryRunsAreDry == Spec => DryRunWritesNothing
<1>1. Inv /\ [Next]_vars =>
        (run # None /\ ~run.execute => UNCHANGED exchange \/ OthersSetLeverage)
  BY NextEffect DEF StepEffect, vars, exchange
<1> QED BY <1>1, InvHolds, PTL DEF Spec, DryRunWritesNothing
-----------------------------------------------------------------------------
\* What a job of "Dispatch all" is owed by its chain: an attempt that is still to be
\* made or on its way, unless the job has left the pending state or its call was lost
\* or sent for another owner.
Gone(p) == p \notin {"unborn", "pending"}
Tried(t, i) ==
  /\ t.calls[1] = Call("attempt", i)
  /\ t.answer = "awaited" \/ (t.answer = "refused" /\ ~VisibleTo(i, t.as))
Owed(t, i, ph) ==
  \/ i \in t.missed
  \/ Gone(ph[i])
  \/ \E n \in 2..Len(t.calls) : t.calls[n] = Call("attempt", i)
  \/ Tried(t, i)

\* The jobs of a table were submitted once.
Born(S, ph) == \A i \in S : ph[i] # "unborn"
Good(t, ph) ==
  /\ t \in Task
  /\ t.calls # <<>> /\ Len(t.calls) <= Cardinality(Jobs) + 3
  /\ Born(DOMAIN t.list \cup t.taken, ph)
  /\ \A i \in t.taken : Owed(t, i, ph)

PageInv ==
  /\ Server!TypeOK
  /\ owner \in Owners /\ {timer, wanted, armed} \subseteq BOOLEAN
  /\ shown \in Tables /\ Born(DOMAIN shown, phase)
  /\ tasks = [s \in Slots |-> tasks[s]]
  /\ \A s \in Slots : tasks[s] = Idle \/ Good(tasks[s], phase)

\* The way of a job is one way.
Onward(ph, ph2) ==
  \A i \in Jobs : /\ ph[i] # "unborn" => ph2[i] # "unborn"
                  /\ Gone(ph[i]) => Gone(ph2[i])

-----------------------------------------------------------------------------
\* A job is the place of its owner in OwnerOf.
LEMMA JobsAreNumbers ==
  Jobs \subseteq Nat \ {0} /\ IsFiniteSet(Jobs) /\ Cardinality(Jobs) \in Nat
<1>1. Jobs = 1..Len(OwnerOf) /\ Len(OwnerOf) \in Nat
  BY DashboardConstants DEF Jobs
<1>2. 1 \in Int /\ Len(OwnerOf) \in Int
  BY <1>1
<1>3. IsFiniteSet(1..Len(OwnerOf))
  BY <1>2, FS_Interval
<1>. QED
  BY <1>1, <1>3, FS_CardinalityType

\* The queue holds each pending job of the table.
LEMMA QueueIsAll ==
  ASSUME NEW table, Pending(table) \subseteq Jobs
  PROVE  /\ Queue(table) \in Seq(Pending(table))
         /\ Len(Queue(table)) = Cardinality(Pending(table))
         /\ Cardinality(Pending(table)) \in Nat
         /\ Cardinality(Pending(table)) <= Cardinality(Jobs)
         /\ \A i \in Pending(table) : \E n \in 1..Len(Queue(table)) : Queue(table)[n] = i
<1>1. PICK Q : Q = Pending(table)
  OBVIOUS
<1>2. Q \in SUBSET Jobs /\ Q \subseteq Nat
  BY <1>1, JobsAreNumbers
<1>3. PICK N : N = Cardinality(Q)
  OBVIOUS
<1>4. IsFiniteSet(Q) /\ N \in Nat /\ N <= Cardinality(Jobs)
  BY <1>2, <1>3, JobsAreNumbers, FS_Subset, FS_CardinalityType
<1>5. PICK rank : rank = [i \in Q |-> Cardinality({j \in Q : j >= i})]
  OBVIOUS
<1>6. ASSUME NEW i \in Q
      PROVE  /\ IsFiniteSet({j \in Q : j >= i})
             /\ rank[i] = Cardinality({j \in Q : j >= i})
             /\ rank[i] \in 1..N
  <2>1. PICK R : R = {j \in Q : j >= i}
    OBVIOUS
  <2>2. R \in SUBSET Q /\ i \in R
    BY <1>2, <2>1
  <2>3. IsFiniteSet(R) /\ Cardinality(R) \in Nat /\ Cardinality(R) <= N
    BY <1>3, <1>4, <2>2, FS_Subset, FS_CardinalityType
  <2>4. Cardinality(R) # 0
    BY <2>2, <2>3, FS_EmptySet
  <2>. QED
    BY <1>4, <1>5, <2>1, <2>3, <2>4
<1>7. ASSUME NEW i \in Q, NEW k \in Q, i < k
      PROVE  rank[i] # rank[k]
  <2>1. PICK R : R = {j \in Q : j >= i}
    OBVIOUS
  <2>2. PICK P : P = {j \in Q : j >= k}
    OBVIOUS
  <2>3. P \in SUBSET R
    <3>1. ASSUME NEW j \in Q, j >= k
          PROVE  j >= i
      BY <1>2, <1>7, <3>1
    <3>. QED
      BY <2>1, <2>2, <3>1
  <2>4. i \in R /\ i \notin P
    BY <1>2, <1>7, <2>1, <2>2
  <2>5. IsFiniteSet(R) /\ rank[i] = Cardinality(R) /\ rank[k] = Cardinality(P)
    BY <1>6, <2>1, <2>2
  <2>. QED
    BY <2>3, <2>4, <2>5, FS_Subset
<1>8. ASSUME NEW i \in Q, NEW k \in Q, rank[i] = rank[k]
      PROVE  i = k
  <2>1. ~(i < k) /\ ~(k < i)
    BY <1>7, <1>8
  <2>2. i \in Nat /\ k \in Nat
    BY <1>2
  <2>. QED
    BY <2>1, <2>2
<1>9. rank \in [Q -> 1..N]
  BY <1>5, <1>6
<1>10. rank \in Injection(Q, 1..N)
  BY <1>8, <1>9 DEF Injection, IsInjective
<1>11. IsFiniteSet(1..N) /\ Cardinality(1..N) = N
  <2>1. 1 \in Int /\ N \in Int
    BY <1>4
  <2>. QED
    BY <1>4, <2>1, FS_Interval
<1>12. rank \in Surjection(Q, 1..N)
  BY <1>3, <1>10, <1>11, FS_Injection
<1>13. ASSUME NEW n \in 1..N
       PROVE  \E i \in Q : Cardinality({j \in Q : j >= i}) = n
  <2>1. PICK i \in Q : rank[i] = n
    BY <1>12 DEF Surjection
  <2>. QED
    BY <1>6, <2>1
<1>14. PICK queue : queue = Queue(table)
  OBVIOUS
<1>15. queue = [n \in 1..N |-> CHOOSE i \in Q : Cardinality({j \in Q : j >= i}) = n]
  BY <1>1, <1>3, <1>14 DEF Queue
<1>16. ASSUME NEW n \in 1..N
       PROVE  queue[n] \in Q /\ rank[queue[n]] = n
  <2>1. queue[n] = CHOOSE i \in Q : Cardinality({j \in Q : j >= i}) = n
    BY <1>15
  <2>2. queue[n] \in Q /\ Cardinality({j \in Q : j >= queue[n]}) = n
    BY <1>13, <2>1
  <2>. QED
    BY <1>6, <2>2
<1>17. queue \in Seq(Q) /\ Len(queue) = N
  <2>1. queue \in [1..N -> Q]
    BY <1>15, <1>16
  <2>. QED
    BY <1>4, <2>1
<1>18. ASSUME NEW i \in Q
       PROVE  queue[rank[i]] = i /\ rank[i] \in 1..N
  BY <1>6, <1>8, <1>16
<1>. QED
  BY <1>1, <1>3, <1>4, <1>14, <1>17, <1>18

-----------------------------------------------------------------------------
\* Whoever moves a job moves it on.
LEMMA ServerMovesOn ==
  ASSUME Server!TypeOK,
         \/ \E i \in Jobs, verdict \in {"pending", "rejected"} : Server!Submit(i, verdict, {})
         \/ \E i \in Jobs, outcome \in Server!Phases : Server!Resolve(i, outcome)
         \/ \E i \in Jobs : Server!Settle(i) \/ Server!Discard({i})
         \/ UNCHANGED server
  PROVE  Server!TypeOK' /\ Onward(phase, phase')
<1>1. phase \in [Jobs -> Server!Phases] /\ settled \subseteq Jobs
  BY DEF Server!TypeOK
<1>. USE DEF Server!TypeOK, Server!Phases, Onward, Gone
<1>2. ASSUME NEW i \in Jobs, NEW verdict \in {"pending", "rejected"},
             Server!Submit(i, verdict, {})
      PROVE  Server!TypeOK' /\ Onward(phase, phase')
  BY <1>1, <1>2 DEF Server!Submit
<1>3. ASSUME NEW i \in Jobs, NEW outcome \in Server!Phases, Server!Resolve(i, outcome)
      PROVE  Server!TypeOK' /\ Onward(phase, phase')
  BY <1>1, <1>3 DEF Server!Resolve, Server!Outcomes
<1>4. ASSUME NEW i \in Jobs, Server!Settle(i)
      PROVE  Server!TypeOK' /\ Onward(phase, phase')
  BY <1>1, <1>4 DEF Server!Settle
<1>5. ASSUME NEW i \in Jobs, Server!Discard({i})
      PROVE  Server!TypeOK' /\ Onward(phase, phase')
  BY <1>1, <1>5 DEF Server!Discard
<1>6. CASE UNCHANGED server
  BY <1>1, <1>6 DEF server
<1>. QED
  BY <1>2, <1>3, <1>4, <1>5, <1>6

\* A chain stays good while the jobs move on.
LEMMA GoodStays ==
  ASSUME NEW t, NEW ph, NEW ph2, Good(t, ph), Onward(ph, ph2)
  PROVE  Good(t, ph2)
<1>1. t \in Task /\ DOMAIN t.list \cup t.taken \subseteq Jobs
  <2>1. t.list \in Tables /\ t.taken \in SUBSET Jobs /\ t \in Task
    BY DEF Good, Task
  <2>. QED
    BY <2>1 DEF Tables
<1>2. Born(DOMAIN t.list \cup t.taken, ph2)
  BY <1>1 DEF Good, Born, Onward
<1>3. ASSUME NEW i \in t.taken
      PROVE  Owed(t, i, ph2)
  BY <1>1 DEF Good, Owed, Onward
<1>. QED
  BY <1>1, <1>2, <1>3 DEF Good

\* One slot changes, and the jobs move on.
LEMMA SlotChanges ==
  ASSUME PageInv, Server!TypeOK', Onward(phase, phase'), NEW s \in Slots, NEW t,
         t = Idle \/ Good(t, phase'), tasks' = [tasks EXCEPT ![s] = t],
         owner' \in Owners, {timer', wanted', armed'} \subseteq BOOLEAN,
         shown' \in Tables, Born(DOMAIN shown', phase')
  PROVE  PageInv'
<1>1. tasks = [r \in Slots |-> tasks[r]]
  BY DEF PageInv
<1>2. /\ tasks' = [r \in Slots |-> tasks'[r]]
      /\ \A r \in Slots : tasks'[r] = IF r = s THEN t ELSE tasks[r]
  BY <1>1
<1>3. ASSUME NEW r \in Slots
      PROVE  tasks'[r] = Idle \/ Good(tasks'[r], phase')
  <2>1. CASE r = s
    BY <1>2, <2>1
  <2>2. CASE r # s
    BY <1>2, <2>2, GoodStays DEF PageInv
  <2>. QED
    BY <2>1, <2>2
<1>. QED
  BY <1>2, <1>3 DEF PageInv

\* The slots stay as they are, and the jobs move on.
LEMMA SlotsStay ==
  ASSUME PageInv, Server!TypeOK', Onward(phase, phase'), tasks' = tasks,
         owner' \in Owners, {timer', wanted', armed'} \subseteq BOOLEAN, shown' = shown
  PROVE  PageInv'
<1>1. \A r \in Slots : tasks'[r] = Idle \/ Good(tasks'[r], phase')
  BY GoodStays DEF PageInv
<1>2. DOMAIN shown \subseteq Jobs
  BY DEF PageInv, Tables
<1>3. Born(DOMAIN shown', phase')
  BY <1>2 DEF PageInv, Born, Onward
<1>. QED
  BY <1>1, <1>3 DEF PageInv

-----------------------------------------------------------------------------
\* The calls the handlers make, and the table before the first of them.
LEMMA TheCalls ==
  /\ Refresh \in Seq(Calls) /\ Len(Refresh) = 1
  /\ RefreshAll \in Seq(Calls) /\ Len(RefreshAll) = 2
  /\ NoTable \in Tables /\ DOMAIN NoTable = {}
  /\ \A action \in {"attempt", "dispatch", "reject"}, i \in Jobs : Call(action, i) \in Calls
<1>1. Call("list", 0) \in Calls /\ Call("other", 0) \in Calls
  BY DEF Call, Calls
<1>2. \A action \in {"attempt", "dispatch", "reject"}, i \in Jobs : Call(action, i) \in Calls
  BY DEF Call, Calls
<1>3. Refresh \in Seq(Calls) /\ Len(Refresh) = 1
  BY <1>1 DEF Refresh
<1>4. RefreshAll \in Seq(Calls) /\ Len(RefreshAll) = 2
  BY <1>1, <1>3, ConcatProperties DEF RefreshAll
<1>5. NoTable \in Tables /\ DOMAIN NoTable = {}
  <2>1. NoTable \in [{} -> Server!Present] /\ {} \in SUBSET Jobs
    BY DEF NoTable
  <2>. QED
    BY <2>1 DEF Tables
<1>. QED
  BY <1>2, <1>3, <1>4, <1>5

\* A chain begins with all its attempts before it.
LEMMA ChainIsGood ==
  ASSUME NEW calls \in Seq(Calls), calls # <<>>, Len(calls) <= Cardinality(Jobs) + 3,
         NEW boot \in BOOLEAN, NEW taken \in SUBSET Jobs, Born(taken, phase), NEW o \in Owners,
         \A i \in taken : \E n \in 1..Len(calls) : calls[n] = Call("attempt", i),
         NEW t, t = [calls |-> calls, answer |-> "awaited", list |-> NoTable, as |-> o,
                     boot |-> boot, taken |-> taken, missed |-> {}]
  PROVE  Good(t, phase)
<1>1. t \in Task
  <2>1. NoTable \in Tables
    BY TheCalls
  <2>. QED
    BY <2>1 DEF Task
<1>2. /\ t.calls = calls /\ t.answer = "awaited" /\ t.taken = taken
      /\ DOMAIN t.list \cup t.taken = taken
  BY TheCalls
<1>3. ASSUME NEW i \in taken
      PROVE  Owed(t, i, phase)
  <2>1. PICK n \in 1..Len(calls) : calls[n] = Call("attempt", i)
    OBVIOUS
  <2>2. CASE n = 1
    BY <1>2, <2>1, <2>2 DEF Owed, Tried
  <2>3. CASE n # 1
    <3>1. n \in 2..Len(t.calls)
      BY <1>2, <2>3
    <3>. QED
      BY <1>2, <2>1, <3>1 DEF Owed
  <2>. QED
    BY <2>2, <2>3
<1>. QED
  BY <1>1, <1>2, <1>3 DEF Good

\* What the chain of a slot is.
LEMMA TheTask ==
  ASSUME NEW t, NEW ph, Good(t, ph)
  PROVE  /\ t \in Task
         /\ t = [calls |-> t.calls, answer |-> t.answer, list |-> t.list, as |-> t.as,
                 boot |-> t.boot, taken |-> t.taken, missed |-> t.missed]
         /\ t.calls \in Seq(Calls) /\ Len(t.calls) \in Nat \ {0}
         /\ Len(t.calls) <= Cardinality(Jobs) + 3
         /\ Head(t.calls) = t.calls[1] /\ t.calls[1] \in Calls
         /\ t.list \in Tables /\ t.as \in Owners /\ t.boot \in BOOLEAN
         /\ t.taken \in SUBSET Jobs /\ t.missed \in SUBSET Jobs
         /\ Born(DOMAIN t.list, ph) /\ Born(t.taken, ph)
<1>1. t \in Task /\ t.calls # <<>> /\ Len(t.calls) <= Cardinality(Jobs) + 3
  BY DEF Good
<1>2. /\ t = [calls |-> t.calls, answer |-> t.answer, list |-> t.list, as |-> t.as,
              boot |-> t.boot, taken |-> t.taken, missed |-> t.missed]
      /\ t.calls \in Seq(Calls)
      /\ t.list \in Tables /\ t.as \in Owners /\ t.boot \in BOOLEAN
      /\ t.taken \in SUBSET Jobs /\ t.missed \in SUBSET Jobs
  BY <1>1 DEF Task
<1>3. Len(t.calls) \in Nat \ {0} /\ Head(t.calls) = t.calls[1] /\ t.calls[1] \in Calls
  BY <1>1, <1>2
<1>4. Born(DOMAIN t.list, ph) /\ Born(t.taken, ph)
  BY DEF Good, Born
<1>. QED
  BY <1>1, <1>2, <1>3, <1>4

\* The chain goes on: the attempt that is over is no longer owed, or was missed.
LEMMA GoesOnGood ==
  ASSUME NEW t, NEW ph, Good(t, ph), Len(t.calls) # 1,
         NEW missed \in SUBSET Jobs, NEW o \in Owners,
         \A i \in t.taken : Tried(t, i) => i \in missed,
         NEW t2, t2 = [t EXCEPT !.calls = Tail(t.calls), !.answer = "awaited", !.list = NoTable,
                                !.as = o, !.missed = t.missed \cup missed]
  PROVE  Good(t2, ph)
<1>. DEFINE calls == t.calls
            L == Len(calls)
<1>1. /\ calls \in Seq(Calls) /\ L \in Nat \ {0} /\ L # 1 /\ L <= Cardinality(Jobs) + 3
      /\ t.boot \in BOOLEAN /\ t.taken \in SUBSET Jobs /\ t.missed \in SUBSET Jobs
      /\ Born(t.taken, ph)
  BY TheTask
<1>2. t2 = [calls |-> Tail(calls), answer |-> "awaited", list |-> NoTable, as |-> o,
            boot |-> t.boot, taken |-> t.taken, missed |-> t.missed \cup missed]
  <2>1. t = [calls |-> t.calls, answer |-> t.answer, list |-> t.list, as |-> t.as,
             boot |-> t.boot, taken |-> t.taken, missed |-> t.missed]
    BY TheTask
  <2>. QED
    BY <2>1
<1>3. /\ t2.calls = Tail(calls) /\ t2.answer = "awaited" /\ t2.list = NoTable
      /\ t2.taken = t.taken /\ t2.missed = t.missed \cup missed
  BY <1>2
<1>4. PICK rest : rest = Tail(calls)
  OBVIOUS
<1>5. /\ rest \in Seq(Calls) /\ Len(rest) = L - 1 /\ rest # <<>>
      /\ \A n \in 1..(L - 1) : rest[n] = calls[n + 1]
  <2>1. calls # <<>>
    BY <1>1
  <2>. HIDE DEF calls
  <2>2. /\ rest \in Seq(Calls) /\ Len(rest) = L - 1
        /\ \A n \in 1..Len(rest) : rest[n] = calls[n + 1]
    BY <1>1, <1>4, <2>1, HeadTailProperties
  <2>3. rest # <<>>
    BY <1>1, <2>2
  <2>. QED
    BY <2>2, <2>3
<1>6. t2 \in Task
  <2>1. NoTable \in Tables
    BY TheCalls
  <2>. HIDE DEF calls
  <2>. QED
    BY <1>1, <1>2, <1>4, <1>5, <2>1 DEF Task
<1>7. Born(DOMAIN t2.list \cup t2.taken, ph)
  BY <1>1, <1>3, TheCalls DEF Born
<1>8. ASSUME NEW i \in t2.taken
      PROVE  Owed(t2, i, ph)
  <2>1. Owed(t, i, ph)
    BY <1>3, <1>8 DEF Good
  <2>2. CASE i \in t.missed \/ Gone(ph[i])
    BY <1>3, <2>2 DEF Owed
  <2>3. ASSUME NEW n \in 2..Len(calls), calls[n] = Call("attempt", i)
        PROVE  Owed(t2, i, ph)
    <3>1. n - 1 \in 1..(L - 1) /\ rest[n - 1] = calls[n]
      BY <1>1, <1>5
    <3>2. CASE n = 2
      BY <1>3, <1>4, <2>3, <3>1, <3>2 DEF Owed, Tried
    <3>3. CASE n # 2
      <4>1. n - 1 \in 2..Len(t2.calls) /\ t2.calls[n - 1] = Call("attempt", i)
        BY <1>1, <1>3, <1>4, <1>5, <2>3, <3>1, <3>3
      <4>. QED
        BY <4>1 DEF Owed
    <3>. QED
      BY <3>2, <3>3
  <2>4. CASE Tried(t, i)
    <3>1. i \in missed
      BY <1>3, <1>8, <2>4
    <3>. QED
      BY <1>3, <3>1 DEF Owed
  <2>. QED
    BY <2>1, <2>2, <2>3, <2>4 DEF Owed
<1>9. Len(t2.calls) <= Cardinality(Jobs) + 3 /\ t2.calls # <<>>
  BY <1>1, <1>3, <1>4, <1>5, JobsAreNumbers
<1>. QED
  BY <1>6, <1>7, <1>8, <1>9 DEF Good

\* An answer: what the server did not do for an attempt is because the job is
\* not the owner's, or gone.
LEMMA AnswerGood ==
  ASSUME NEW t, NEW ph, NEW ph2, Good(t, ph), Onward(ph, ph2),
         NEW answer \in {"ok", "refused"},
         NEW list \in Tables, Born(DOMAIN list, ph2),
         \A i \in t.taken : t.calls[1] = Call("attempt", i) =>
                              Gone(ph2[i]) \/ (answer = "refused" /\ ~VisibleTo(i, t.as)),
         NEW t2, t2 = [t EXCEPT !.answer = answer, !.list = list]
  PROVE  Good(t2, ph2)
<1>0. Good(t, ph2)
  BY GoodStays
<1>1. /\ t.calls \in Seq(Calls) /\ t.as \in Owners /\ Len(t.calls) <= Cardinality(Jobs) + 3
      /\ t.boot \in BOOLEAN /\ t.taken \in SUBSET Jobs /\ t.missed \in SUBSET Jobs
      /\ Born(t.taken, ph2) /\ t.calls # <<>>
  BY <1>0, TheTask
<1>2. t2 = [calls |-> t.calls, answer |-> answer, list |-> list, as |-> t.as,
            boot |-> t.boot, taken |-> t.taken, missed |-> t.missed]
  <2>1. t = [calls |-> t.calls, answer |-> t.answer, list |-> t.list, as |-> t.as,
             boot |-> t.boot, taken |-> t.taken, missed |-> t.missed]
    BY TheTask
  <2>. QED
    BY <2>1
<1>3. /\ t2.calls = t.calls /\ t2.answer = answer /\ t2.list = list /\ t2.as = t.as
      /\ t2.taken = t.taken /\ t2.missed = t.missed
  BY <1>2
<1>4. t2 \in Task
  BY <1>1, <1>2 DEF Task
<1>5. Born(DOMAIN t2.list \cup t2.taken, ph2)
  BY <1>1, <1>3 DEF Born
<1>6. ASSUME NEW i \in t2.taken
      PROVE  Owed(t2, i, ph2)
  <2>1. Owed(t, i, ph2)
    BY <1>0, <1>3, <1>6 DEF Good
  <2>. QED
    BY <1>3, <1>6, <2>1 DEF Owed, Tried
<1>. QED
  BY <1>1, <1>3, <1>4, <1>5, <1>6 DEF Good

-----------------------------------------------------------------------------
\* One list of calls after another.
LEMMA CallsAfter ==
  ASSUME NEW a \in Seq(Calls), NEW b \in Seq(Calls), Len(b) = 1, NEW both, both = a \o b
  PROVE  /\ both \in Seq(Calls) /\ both # <<>>
         /\ Len(both) = Len(a) + 1
         /\ \A n \in 1..Len(a) : both[n] = a[n]
<1>1. Len(a) \in Nat /\ Len(b) \in Nat
  OBVIOUS
<1>2. both \in Seq(Calls) /\ Len(both) = Len(a) + Len(b)
  BY ConcatProperties
<1>3. \A n \in 1..Len(a) : both[n] = a[n]
  BY <1>1, ConcatProperties
<1>4. both # <<>>
  BY <1>1, <1>2
<1>. QED
  BY <1>2, <1>3, <1>4

\* boot is a good chain.
LEMMA PageInitInv == PageInit => PageInv
<1>. SUFFICES ASSUME PageInit PROVE PageInv
  OBVIOUS
<1>1. Server!TypeOK
  BY DEF PageInit, Server!Init, Server!TypeOK, Server!Phases
<1>2. PICK first : first = Chain(RefreshAll \o <<Call("other", 0)>>, TRUE, {})
  OBVIOUS
<1>3. Good(first, phase)
  <2>1. PICK calls : calls = RefreshAll \o <<Call("other", 0)>>
    OBVIOUS
  <2>2. /\ <<Call("other", 0)>> \in Seq(Calls) /\ Len(<<Call("other", 0)>>) = 1
        /\ RefreshAll \in Seq(Calls) /\ Len(RefreshAll) = 2
    BY TheCalls DEF Call, Calls
  <2>3. calls \in Seq(Calls) /\ calls # <<>> /\ Len(calls) = 3
    <3>1. PICK a : a = RefreshAll
      OBVIOUS
    <3>2. PICK b : b = <<Call("other", 0)>>
      OBVIOUS
    <3>3. a \in Seq(Calls) /\ b \in Seq(Calls) /\ Len(a) = 2 /\ Len(b) = 1 /\ calls = a \o b
      BY <2>1, <2>2, <3>1, <3>2
    <3>4. calls \in Seq(Calls) /\ calls # <<>> /\ Len(calls) = Len(a) + 1
      BY <3>3, CallsAfter, Zenon
    <3>. QED
      BY <3>3, <3>4
  <2>4. Len(calls) <= Cardinality(Jobs) + 3 /\ owner \in Owners
    BY <2>3, JobsAreNumbers DEF PageInit
  <2>5. first = [calls |-> calls, answer |-> "awaited", list |-> NoTable, as |-> owner,
                 boot |-> TRUE, taken |-> {}, missed |-> {}]
    BY <1>2, <2>1 DEF Chain
  <2>6. Born({}, phase) /\ {} \in SUBSET Jobs /\ TRUE \in BOOLEAN
    BY DEF Born
  <2>7. \A i \in {} : \E n \in 1..Len(calls) : calls[n] = Call("attempt", i)
    OBVIOUS
  <2>. QED
    BY <2>3, <2>4, <2>5, <2>6, <2>7, ChainIsGood
<1>4. tasks = [s \in Slots |-> IF s = 1 THEN first ELSE Idle]
  BY <1>2 DEF PageInit
<1>5. owner \in Owners /\ {timer, wanted, armed} \subseteq BOOLEAN
  BY DashboardConstants DEF PageInit
<1>6. shown \in Tables /\ Born(DOMAIN shown, phase)
  BY TheCalls DEF PageInit, Born
<1>. QED
  BY <1>1, <1>3, <1>4, <1>5, <1>6 DEF PageInv

\* A handler begins with a good chain.
LEMMA ClicksInv ==
  ASSUME PageInv, NEW calls \in Seq(Calls), calls # <<>>, Len(calls) <= Cardinality(Jobs) + 3,
         NEW taken \in SUBSET Jobs, Born(taken, phase),
         \A i \in taken : \E n \in 1..Len(calls) : calls[n] = Call("attempt", i),
         Clicks(calls, taken)
  PROVE  PageInv'
<1>1. PICK s \in Slots : tasks' = [tasks EXCEPT ![s] = Chain(calls, FALSE, taken)]
  BY DEF Clicks, Starts
<1>2. /\ phase' = phase /\ settled' = settled /\ owner' = owner /\ shown' = shown
      /\ timer' = timer /\ wanted' = wanted /\ armed' = armed
  BY DEF Clicks, server
<1>3. owner \in Owners
  BY DEF PageInv
<1>4. PICK t : t = Chain(calls, FALSE, taken)
  OBVIOUS
<1>5. t = [calls |-> calls, answer |-> "awaited", list |-> NoTable, as |-> owner,
           boot |-> FALSE, taken |-> taken, missed |-> {}]
  BY <1>4 DEF Chain
<1>6. Good(t, phase')
  BY <1>2, <1>3, <1>5, ChainIsGood
<1>7. Server!TypeOK' /\ Onward(phase, phase')
  BY <1>2 DEF PageInv, Server!TypeOK, Onward
<1>8. /\ owner' \in Owners /\ {timer', wanted', armed'} \subseteq BOOLEAN
      /\ shown' \in Tables /\ Born(DOMAIN shown', phase')
  BY <1>2 DEF PageInv
<1>. QED
  BY <1>1, <1>4, <1>6, <1>7, <1>8, SlotChanges

LEMMA TickInv ==
  ASSUME PageInv, Tick
  PROVE  PageInv'
<1>1. Clicks(Refresh, {})
  BY DEF Tick, Clicks
<1>2. Refresh \in Seq(Calls) /\ Len(Refresh) = 1 /\ Refresh # <<>>
  BY TheCalls DEF Refresh
<1>3. Len(Refresh) <= Cardinality(Jobs) + 3
  BY <1>2, JobsAreNumbers
<1>. QED
  BY <1>1, <1>2, <1>3, ClicksInv DEF Born

LEMMA RowButtonInv ==
  ASSUME PageInv, NEW i \in Jobs, NEW action \in {"dispatch", "reject"}, RowButton(i, action)
  PROVE  PageInv'
<1>1. PICK calls : calls = <<Call(action, i)>> \o Refresh
  OBVIOUS
<1>2. /\ <<Call(action, i)>> \in Seq(Calls) /\ Len(<<Call(action, i)>>) = 1
      /\ Refresh \in Seq(Calls) /\ Len(Refresh) = 1
  BY TheCalls
<1>3. calls \in Seq(Calls) /\ calls # <<>> /\ Len(calls) = 2
  <2>1. PICK a : a = <<Call(action, i)>>
    OBVIOUS
  <2>2. PICK b : b = Refresh
    OBVIOUS
  <2>3. a \in Seq(Calls) /\ b \in Seq(Calls) /\ Len(a) = 1 /\ Len(b) = 1 /\ calls = a \o b
    BY <1>1, <1>2, <2>1, <2>2
  <2>4. calls \in Seq(Calls) /\ calls # <<>> /\ Len(calls) = Len(a) + 1
    BY <2>3, CallsAfter, Zenon
  <2>. QED
    BY <2>3, <2>4
<1>4. Len(calls) <= Cardinality(Jobs) + 3
  BY <1>3, JobsAreNumbers
<1>5. Clicks(calls, {})
  BY <1>1 DEF RowButton
<1>. QED
  BY <1>3, <1>4, <1>5, ClicksInv DEF Born

\* "Dispatch all" sets out with an attempt for each job it takes.
LEMMA DispatchAllInv ==
  ASSUME PageInv, DispatchAllQueued
  PROVE  PageInv'
<1>1. PICK taken : taken = Pending(shown)
  OBVIOUS
<1>2. taken \in SUBSET Jobs /\ Born(taken, phase)
  BY <1>1 DEF PageInv, Pending, Tables, Born
<1>3. PICK queue : queue = Queue(shown)
  OBVIOUS
<1>4. /\ queue \in Seq(taken) /\ Len(queue) \in Nat /\ Len(queue) <= Cardinality(Jobs)
      /\ \A i \in taken : \E n \in 1..Len(queue) : queue[n] = i
  BY <1>1, <1>2, <1>3, QueueIsAll
<1>5. PICK attempts : attempts = [n \in DOMAIN queue |-> Call("attempt", queue[n])]
  OBVIOUS
<1>6. /\ attempts \in Seq(Calls) /\ Len(attempts) = Len(queue)
      /\ \A n \in 1..Len(queue) : attempts[n] = Call("attempt", queue[n])
  <2>1. DOMAIN queue = 1..Len(queue) /\ \A n \in 1..Len(queue) : queue[n] \in Jobs
    BY <1>2, <1>4
  <2>2. attempts \in [1..Len(queue) -> Calls]
    BY <1>5, <2>1, TheCalls
  <2>. QED
    BY <1>4, <1>5, <2>1, <2>2
<1>7. PICK calls : calls = attempts \o Refresh
  OBVIOUS
<1>8. /\ calls \in Seq(Calls) /\ calls # <<>> /\ Len(calls) = Len(queue) + 1
      /\ \A n \in 1..Len(queue) : calls[n] = attempts[n]
  <2>. PICK last : last = Refresh
    OBVIOUS
  <2>1. last \in Seq(Calls) /\ Len(last) = 1 /\ calls = attempts \o last
    BY <1>7, TheCalls
  <2>2. attempts \in Seq(Calls)
    BY <1>6
  <2>3. /\ calls \in Seq(Calls) /\ calls # <<>>
        /\ Len(calls) = Len(attempts) + 1
    BY <2>1, <2>2, CallsAfter, Zenon
  <2>4. ASSUME NEW n \in 1..Len(attempts)
        PROVE  calls[n] = attempts[n]
    BY <2>1, <2>2, CallsAfter
  <2>. QED
    BY <1>6, <2>1, <2>3, <2>4
<1>9. Len(calls) <= Cardinality(Jobs) + 3
  BY <1>4, <1>8, JobsAreNumbers
<1>10. ASSUME NEW i \in taken
       PROVE  \E n \in 1..Len(calls) : calls[n] = Call("attempt", i)
  <2>1. PICK n \in 1..Len(queue) : queue[n] = i
    BY <1>4
  <2>2. n \in 1..Len(calls) /\ calls[n] = Call("attempt", i)
    BY <1>4, <1>6, <1>8, <2>1
  <2>. QED
    BY <2>2
<1>11. Clicks(calls, taken)
  BY <1>1, <1>3, <1>5, <1>7 DEF DispatchAllQueued
<1>. QED
  BY <1>2, <1>8, <1>9, <1>10, <1>11, ClicksInv

LEMMA SaveOwnerInv ==
  ASSUME PageInv, NEW o \in Owners, SaveOwner(o)
  PROVE  PageInv'
<1>1. PICK s \in Slots :
        tasks' = [tasks EXCEPT ![s] = [Chain(RefreshAll, FALSE, {}) EXCEPT !.as = o]]
  BY DEF SaveOwner
<1>2. /\ phase' = phase /\ settled' = settled /\ owner' = o /\ shown' = shown
      /\ timer' = timer /\ wanted' = wanted /\ armed' = armed
  BY DEF SaveOwner, server
<1>3. PICK t : t = [Chain(RefreshAll, FALSE, {}) EXCEPT !.as = o]
  OBVIOUS
<1>4. t = [calls |-> RefreshAll, answer |-> "awaited", list |-> NoTable, as |-> o,
           boot |-> FALSE, taken |-> {}, missed |-> {}]
  BY <1>3 DEF Chain
<1>5. /\ RefreshAll \in Seq(Calls) /\ RefreshAll # <<>>
      /\ Len(RefreshAll) <= Cardinality(Jobs) + 3
  BY TheCalls, JobsAreNumbers
<1>6. Good(t, phase')
  <2>1. Born({}, phase) /\ {} \in SUBSET Jobs /\ FALSE \in BOOLEAN
    BY DEF Born
  <2>2. \A i \in {} : \E n \in 1..Len(RefreshAll) : RefreshAll[n] = Call("attempt", i)
    OBVIOUS
  <2>. QED
    BY <1>2, <1>4, <1>5, <2>1, <2>2, ChainIsGood
<1>7. Server!TypeOK' /\ Onward(phase, phase')
  BY <1>2 DEF PageInv, Server!TypeOK, Onward
<1>8. /\ owner' \in Owners /\ {timer', wanted', armed'} \subseteq BOOLEAN
      /\ shown' \in Tables /\ Born(DOMAIN shown', phase')
  BY <1>2 DEF PageInv
<1>. QED
  BY <1>1, <1>3, <1>6, <1>7, <1>8, SlotChanges

LEMMA SetAutoRefreshInv ==
  ASSUME PageInv, NEW on \in BOOLEAN, SetAutoRefresh(on)
  PROVE  PageInv'
<1>1. /\ phase' = phase /\ settled' = settled /\ owner' = owner /\ shown' = shown
      /\ timer' = on /\ wanted' = on /\ armed' = TRUE /\ tasks' = tasks
  BY DEF SetAutoRefresh, server
<1>2. Server!TypeOK' /\ Onward(phase, phase')
  BY <1>1 DEF PageInv, Server!TypeOK, Onward
<1>3. owner' \in Owners /\ {timer', wanted', armed'} \subseteq BOOLEAN
  BY <1>1 DEF PageInv
<1>. QED
  BY <1>1, <1>2, <1>3, SlotsStay

LEMMA ElsewhereInv ==
  ASSUME PageInv, Elsewhere
  PROVE  PageInv'
<1>1. /\ owner' = owner /\ shown' = shown /\ timer' = timer /\ wanted' = wanted
      /\ armed' = armed /\ tasks' = tasks
  BY DEF Elsewhere
<1>2. \/ \E i \in Jobs, verdict \in {"pending", "rejected"} : Server!Submit(i, verdict, {})
      \/ \E i \in Jobs, outcome \in Server!Phases : Server!Resolve(i, outcome)
      \/ \E i \in Jobs : Server!Settle(i) \/ Server!Discard({i})
  BY DEF Elsewhere
<1>3. Server!TypeOK' /\ Onward(phase, phase')
  BY <1>2, ServerMovesOn DEF PageInv
<1>4. owner' \in Owners /\ {timer', wanted', armed'} \subseteq BOOLEAN
  BY <1>1 DEF PageInv
<1>. QED
  BY <1>1, <1>3, <1>4, SlotsStay

-----------------------------------------------------------------------------
\* The server lists jobs that were submitted.
LEMMA ListingIsTable ==
  ASSUME Server!TypeOK, NEW caller
  PROVE  Listing(caller) \in Tables /\ Born(DOMAIN Listing(caller), phase)
<1>1. PICK mine : mine = {i \in Jobs : phase[i] \in Server!Present /\ VisibleTo(i, caller)}
  OBVIOUS
<1>2. PICK T : T = {j \in mine : Cardinality({k \in mine : k >= j}) <= ListLimit}
  OBVIOUS
<1>3. Listing(caller) = [i \in T |-> phase[i]]
  BY <1>1, <1>2 DEF Listing
<1>4. T \in SUBSET Jobs /\ \A i \in T : phase[i] \in Server!Present
  BY <1>1, <1>2
<1>5. Listing(caller) \in Tables
  <2>1. Listing(caller) \in [T -> Server!Present]
    BY <1>3, <1>4
  <2>. QED
    BY <1>4, <2>1 DEF Tables
<1>6. Born(DOMAIN Listing(caller), phase)
  BY <1>3, <1>4 DEF Born, Server!Present
<1>. QED
  BY <1>5, <1>6

\* The server takes an attempt up, or the job is gone or belongs to another owner.
LEMMA HandleInv ==
  ASSUME PageInv, NEW s \in Slots, Handle(s)
  PROVE  PageInv'
<1>1. PICK t : t = tasks[s]
  OBVIOUS
<1>2. t # Idle /\ Good(t, phase)
  BY <1>1 DEF Handle, Awaits, PageInv
<1>3. /\ t.calls[1] \in Calls /\ Head1(s) = t.calls[1] /\ t.taken \in SUBSET Jobs
      /\ t.list \in Tables /\ Born(DOMAIN t.list, phase) /\ Born(t.taken, phase)
  BY <1>1, <1>2, TheTask DEF Head1
<1>4. /\ owner' = owner /\ shown' = shown /\ timer' = timer /\ wanted' = wanted /\ armed' = armed
  BY DEF Handle
<1>5. PICK i : i = t.calls[1].job
  OBVIOUS
<1>6. PICK what : what = t.calls[1].what
  OBVIOUS
<1>7. ASSUME NEW answer \in {"ok", "refused"}, NEW list \in Tables, Born(DOMAIN list, phase'),
             tasks' = [tasks EXCEPT ![s] = [t EXCEPT !.answer = answer, !.list = list]],
             Server!TypeOK', Onward(phase, phase'),
             \A j \in t.taken : t.calls[1] = Call("attempt", j) =>
                                  Gone(phase'[j]) \/ (answer = "refused" /\ ~VisibleTo(j, t.as))
      PROVE  PageInv'
  <2>1. PICK t2 : t2 = [t EXCEPT !.answer = answer, !.list = list]
    OBVIOUS
  <2>2. Good(t2, phase')
    BY <1>2, <1>7, <2>1, AnswerGood
  <2>3. tasks' = [tasks EXCEPT ![s] = t2]
    BY <1>7, <2>1
  <2>4. DOMAIN shown \subseteq Jobs
    BY DEF PageInv, Tables
  <2>5. /\ owner' \in Owners /\ {timer', wanted', armed'} \subseteq BOOLEAN
        /\ shown' \in Tables /\ Born(DOMAIN shown', phase')
    BY <1>4, <1>7, <2>4 DEF PageInv, Born, Onward
  <2>. QED
    BY <1>7, <2>2, <2>3, <2>5, SlotChanges
<1>8. ASSUME NEW answer, tasks' = [tasks EXCEPT ![s].answer = answer]
      PROVE  tasks' = [tasks EXCEPT ![s] = [t EXCEPT !.answer = answer, !.list = t.list]]
  <2>1. t = [calls |-> t.calls, answer |-> t.answer, list |-> t.list, as |-> t.as,
             boot |-> t.boot, taken |-> t.taken, missed |-> t.missed]
    BY <1>2, TheTask
  <2>2. tasks' = [tasks EXCEPT ![s] = [t EXCEPT !.answer = answer]]
    BY <1>1, <1>8
  <2>3. [t EXCEPT !.answer = answer] = [t EXCEPT !.answer = answer, !.list = t.list]
    BY <2>1
  <2>. QED
    BY <2>2, <2>3
<1>9. CASE what = "list" /\ AnswersList(s, Listing(tasks[s].as)) /\ UNCHANGED server
  <2>1. PICK list : list = Listing(tasks[s].as)
    OBVIOUS
  <2>2. list \in Tables /\ Born(DOMAIN list, phase)
    BY <2>1, ListingIsTable DEF PageInv
  <2>3. phase' = phase /\ Server!TypeOK' /\ Onward(phase, phase')
    BY <1>9, ServerMovesOn DEF PageInv, server
  <2>4. tasks' = [tasks EXCEPT ![s] = [t EXCEPT !.answer = "ok", !.list = list]]
    BY <1>1, <1>9, <2>1 DEF AnswersList
  <2>5. \A j \in t.taken : t.calls[1] # Call("attempt", j)
    <3>1. \A j : Call("attempt", j).what = "attempt"
      BY DEF Call
    <3>2. t.calls[1].what = "list"
      BY <1>6, <1>9
    <3>. QED
      BY <3>1, <3>2
  <2>. QED
    BY <1>7, <2>2, <2>3, <2>4, <2>5
<1>10. CASE what \in {"attempt", "dispatch", "reject"}
            /\ phase[i] \in Server!Present /\ VisibleTo(i, t.as) /\ phase[i] = "pending"
            /\ (Server!Settle(i) \/ Server!Resolve(i, "sent") \/ Server!Resolve(i, "rejected"))
            /\ Answers(s, "ok")
  <2>1. i \in Jobs
    BY <1>3, <1>5, <1>6, <1>10 DEF Calls
  <2>2. Server!TypeOK' /\ Onward(phase, phase')
    BY <1>10, <2>1, ServerMovesOn DEF PageInv, Server!Phases
  <2>3. Gone(phase'[i])
    BY <1>10, <2>1
       DEF PageInv, Server!TypeOK, Server!Settle, Server!Resolve, Gone
  <2>4. \A j \in t.taken : t.calls[1] = Call("attempt", j) => j = i
    BY <1>5 DEF Call
  <2>5. Born(DOMAIN t.list, phase')
    <3>1. DOMAIN t.list \subseteq Jobs
      BY <1>3 DEF Tables
    <3>. QED
      BY <1>3, <2>2, <3>1 DEF Born, Onward
  <2>6. tasks' = [tasks EXCEPT ![s] = [t EXCEPT !.answer = "ok", !.list = t.list]]
    BY <1>8, <1>10 DEF Answers
  <2>. QED
    BY <1>3, <1>7, <2>2, <2>3, <2>4, <2>5, <2>6
<1>11. ASSUME NEW answer \in {"ok", "refused"}, Answers(s, answer), UNCHANGED server,
              what \in {"attempt", "dispatch", "reject"},
              what = "attempt" => /\ answer = "refused"
                                  /\ ~(phase[i] \in Server!Present /\ VisibleTo(i, t.as)
                                       /\ phase[i] = "pending")
       PROVE  PageInv'
  <2>1. i \in Jobs
    BY <1>3, <1>5, <1>6, <1>11 DEF Calls
  <2>2. phase' = phase /\ Server!TypeOK' /\ Onward(phase, phase')
    BY <1>11, ServerMovesOn DEF PageInv, server
  <2>3. ASSUME NEW j \in t.taken, t.calls[1] = Call("attempt", j)
        PROVE  Gone(phase'[j]) \/ (answer = "refused" /\ ~VisibleTo(j, t.as))
    <3>1. j = i /\ what = "attempt"
      BY <1>5, <1>6, <2>3 DEF Call
    <3>2. phase[j] # "unborn"
      BY <1>3 DEF Born
    <3>3. "pending" \in Server!Present
      BY DEF Server!Present, Server!Phases
    <3>. QED
      BY <1>11, <2>2, <3>1, <3>2, <3>3 DEF Gone
  <2>4. tasks' = [tasks EXCEPT ![s] = [t EXCEPT !.answer = answer, !.list = t.list]]
    BY <1>8, <1>11 DEF Answers
  <2>. QED
    BY <1>3, <1>7, <2>2, <2>3, <2>4
<1>. DEFINE found == phase[i] \in Server!Present /\ VisibleTo(i, t.as)
<1>12. \/ what = "list" /\ AnswersList(s, Listing(tasks[s].as)) /\ UNCHANGED server
       \/ /\ what \in {"attempt", "dispatch"}
          /\ IF found /\ phase[i] = "pending"
             THEN (Server!Settle(i) \/ Server!Resolve(i, "sent")) /\ Answers(s, "ok")
             ELSE Answers(s, "refused") /\ UNCHANGED server
       \/ /\ what = "reject"
          /\ IF found /\ phase[i] = "pending"
             THEN Server!Resolve(i, "rejected") /\ Answers(s, "ok")
             ELSE /\ Answers(s, IF found /\ phase[i] = "rejected" THEN "ok" ELSE "refused")
                  /\ UNCHANGED server
  BY <1>1, <1>3, <1>5, <1>6 DEF Handle
<1>13. CASE what \in {"attempt", "dispatch"} /\ ~(found /\ phase[i] = "pending")
            /\ Answers(s, "refused") /\ UNCHANGED server
  BY <1>11, <1>13
<1>14. CASE what = "reject"
            /\ Answers(s, IF found /\ phase[i] = "rejected" THEN "ok" ELSE "refused")
            /\ UNCHANGED server
  <2>1. PICK answer \in {"ok", "refused"} :
          answer = IF found /\ phase[i] = "rejected" THEN "ok" ELSE "refused"
    OBVIOUS
  <2>. HIDE DEF found
  <2>. QED
    BY <1>11, <1>14, <2>1
<1>. QED
  BY <1>9, <1>10, <1>12, <1>13, <1>14

\* The chain of a slot goes on, if what was lost with its first call is counted.
LEMMA RestGood ==
  ASSUME PageInv, NEW s \in Slots, tasks[s] # Idle, NEW missed \in SUBSET Jobs,
         \A i \in tasks[s].taken : Tried(tasks[s], i) => i \in missed
  PROVE  Rest(s, missed) = Idle \/ Good(Rest(s, missed), phase)
<1>1. PICK t : t = tasks[s]
  OBVIOUS
<1>2. Good(t, phase) /\ owner \in Owners
  BY <1>1 DEF PageInv
<1>3. CASE Len(t.calls) = 1
  BY <1>1, <1>3 DEF Rest
<1>4. CASE Len(t.calls) # 1
  <2>1. PICK t2 : t2 = [t EXCEPT !.calls = Tail(t.calls), !.answer = "awaited", !.list = NoTable,
                                 !.as = owner, !.missed = t.missed \cup missed]
    OBVIOUS
  <2>2. Good(t2, phase)
    BY <1>1, <1>2, <1>4, <2>1, GoesOnGood
  <2>3. Rest(s, missed) = t2
    BY <1>1, <1>4, <2>1 DEF Rest
  <2>. QED
    BY <2>2, <2>3
<1>. QED
  BY <1>3, <1>4

\* An attempt that was refused is missed if the job is not the owner's, and a job that
\* is the owner's was gone.
LEMMA ArrivesInv ==
  ASSUME PageInv, NEW s \in Slots, Arrives(s)
  PROVE  PageInv'
<1>1. PICK t : t = tasks[s]
  OBVIOUS
<1>2. t # Idle /\ Good(t, phase)
  BY <1>1 DEF Arrives, PageInv
<1>3. /\ t.calls[1] \in Calls /\ Head1(s) = t.calls[1] /\ t.taken \in SUBSET Jobs
      /\ t.list \in Tables /\ Born(DOMAIN t.list, phase) /\ t.boot \in BOOLEAN
  BY <1>1, <1>2, TheTask DEF Head1
<1>4. PICK foreign : foreign = {i \in {Head1(s).job} \cap Jobs : ~VisibleTo(i, t.as)}
  OBVIOUS
<1>5. PICK t2 : t2 = IF t.answer = "refused" THEN AfterError(s, foreign) ELSE Rest(s, {})
  OBVIOUS
<1>6. /\ tasks' = [tasks EXCEPT ![s] = t2]
      /\ shown' = IF Head1(s).what = "list" THEN t.list ELSE shown
  BY <1>1, <1>4, <1>5 DEF Arrives
<1>7. /\ timer' = IF t.boot /\ Len(t.calls) = 1 THEN wanted ELSE timer
      /\ armed' = (armed \/ (t.boot /\ Len(t.calls) = 1))
      /\ owner' = owner /\ wanted' = wanted /\ phase' = phase /\ settled' = settled
  BY <1>1 DEF Arrives, server
<1>8. ASSUME NEW i \in t.taken, Tried(t, i)
      PROVE  t.answer = "refused" /\ i \in foreign
  <2>1. t.calls[1].what = "attempt" /\ t.calls[1].job = i
    BY <1>8 DEF Tried, Call
  <2>2. t.answer # "awaited"
    BY <1>1, <1>3, <2>1 DEF Arrives, Awaits
  <2>. QED
    BY <1>3, <1>4, <1>8, <2>1, <2>2 DEF Tried
<1>9. foreign \in SUBSET Jobs
  BY <1>4
<1>10. t2 = Idle \/ Good(t2, phase')
  <2>1. CASE t.answer = "refused"
    <3>1. Rest(s, foreign) = Idle \/ Good(Rest(s, foreign), phase)
      BY <1>1, <1>2, <1>8, <1>9, RestGood
    <3>. QED
      BY <1>5, <1>7, <2>1, <3>1 DEF AfterError
  <2>2. CASE t.answer # "refused"
    <3>1. \A i \in t.taken : Tried(t, i) => i \in {}
      BY <1>8, <2>2
    <3>2. Rest(s, {}) = Idle \/ Good(Rest(s, {}), phase)
      BY <1>1, <1>2, <3>1, RestGood
    <3>. QED
      BY <1>5, <1>7, <2>2, <3>2
  <2>. QED
    BY <2>1, <2>2
<1>11. Server!TypeOK' /\ Onward(phase, phase')
  BY <1>7 DEF PageInv, Server!TypeOK, Onward
<1>12. shown' \in Tables /\ Born(DOMAIN shown', phase')
  BY <1>3, <1>6, <1>7 DEF PageInv
<1>13. owner' \in Owners /\ {timer', wanted', armed'} \subseteq BOOLEAN
  <2>1. timer \in BOOLEAN /\ wanted \in BOOLEAN /\ armed \in BOOLEAN /\ owner \in Owners
    BY DEF PageInv
  <2>2. timer' \in BOOLEAN /\ armed' \in BOOLEAN /\ wanted' \in BOOLEAN
    BY <1>7, <2>1
  <2>. QED
    BY <1>7, <2>1, <2>2
<1>. QED
  BY <1>6, <1>10, <1>11, <1>12, <1>13, SlotChanges

\* What is lost on its way is missed.
LEMMA FailsInv ==
  ASSUME PageInv, NEW s \in Slots, Fails(s)
  PROVE  PageInv'
<1>1. PICK t : t = tasks[s]
  OBVIOUS
<1>2. t # Idle /\ Good(t, phase)
  BY <1>1 DEF Fails, PageInv
<1>3. t.calls[1] \in Calls /\ Head1(s) = t.calls[1]
  BY <1>1, <1>2, TheTask DEF Head1
<1>4. PICK t2 : t2 = AfterError(s, {Head1(s).job})
  OBVIOUS
<1>5. /\ tasks' = [tasks EXCEPT ![s] = t2] /\ timer' = timer /\ phase' = phase
      /\ settled' = settled /\ owner' = owner /\ shown' = shown /\ wanted' = wanted
      /\ armed' = armed
  BY <1>4 DEF Fails, TimerAfterError, server
<1>6. t2 = Idle \/ Good(t2, phase')
  <2>1. CASE Head1(s).what = "attempt"
    <3>1. PICK missed : missed = {Head1(s).job}
      OBVIOUS
    <3>2. missed \in SUBSET Jobs
      BY <1>3, <2>1, <3>1 DEF Calls
    <3>3. \A i \in t.taken : Tried(t, i) => i \in missed
      BY <1>3, <3>1 DEF Tried, Call
    <3>4. Rest(s, missed) = Idle \/ Good(Rest(s, missed), phase)
      BY <1>1, <1>2, <3>2, <3>3, RestGood
    <3>. QED
      BY <1>4, <1>5, <2>1, <3>1, <3>4 DEF AfterError
  <2>2. CASE Head1(s).what # "attempt"
    BY <1>4, <2>2 DEF AfterError
  <2>. QED
    BY <2>1, <2>2
<1>7. Server!TypeOK' /\ Onward(phase, phase')
  BY <1>5 DEF PageInv, Server!TypeOK, Onward
<1>8. /\ owner' \in Owners /\ {timer', wanted', armed'} \subseteq BOOLEAN
      /\ shown' \in Tables /\ Born(DOMAIN shown', phase')
  BY <1>5 DEF PageInv
<1>. QED
  BY <1>5, <1>6, <1>7, <1>8, SlotChanges

-----------------------------------------------------------------------------
\* Every action of the page keeps the chains good.
LEMMA PageInductive == PageSpec => []PageInv
<1>1. PageInit => PageInv
  BY PageInitInv
<1>2. PageInv /\ [PageNext]_pageVars => PageInv'
  <2>. SUFFICES ASSUME PageInv, [PageNext]_pageVars PROVE PageInv'
    OBVIOUS
  <2>1. CASE UNCHANGED pageVars
    BY <2>1 DEF PageInv, pageVars, server, Server!TypeOK
  <2>2. CASE Tick
    BY <2>2, TickInv
  <2>3. ASSUME NEW i \in Jobs, NEW action \in {"dispatch", "reject"}, RowButton(i, action)
        PROVE  PageInv'
    BY <2>3, RowButtonInv
  <2>4. CASE DispatchAllQueued
    BY <2>4, DispatchAllInv
  <2>5. ASSUME NEW o \in Owners, SaveOwner(o)
        PROVE  PageInv'
    BY <2>5, SaveOwnerInv
  <2>6. ASSUME NEW on \in BOOLEAN, SetAutoRefresh(on)
        PROVE  PageInv'
    BY <2>6, SetAutoRefreshInv
  <2>7. ASSUME NEW s \in Slots, Handle(s) \/ Arrives(s) \/ Fails(s)
        PROVE  PageInv'
    BY <2>7, HandleInv, ArrivesInv, FailsInv
  <2>8. CASE Elsewhere
    BY <2>8, ElsewhereInv
  <2>. QED
    BY <2>1, <2>2, <2>3, <2>4, <2>5, <2>6, <2>7, <2>8 DEF PageNext
<1>. QED
  BY <1>1, <1>2, PTL DEF PageSpec

\* The page's tables hold jobs, and every chain under way has a call to answer.
THEOREM PageTypeCorrect == PageSpec => []DashTypeOK
<1>1. PageInv => DashTypeOK
  BY DEF PageInv, DashTypeOK, Good
<1>. QED
  BY <1>1, PageInductive, PTL

\* "Dispatch all" is thorough: when the loop is over, each job it set out with has left
\* the pending state, except for the calls lost on their way and those sent after the
\* owner key had changed (dispatchAllQueuedJobs).
THEOREM BulkDispatchIsThorough == PageSpec => []BulkIsThorough
<1>1. ASSUME PageInv, NEW s \in Slots, tasks[s] # Idle,
             \A n \in DOMAIN tasks[s].calls : tasks[s].calls[n].what # "attempt",
             NEW i \in tasks[s].taken \cap Pending(phase)
      PROVE  i \in tasks[s].missed
  <2>1. PICK t : t = tasks[s]
    OBVIOUS
  <2>2. Good(t, phase)
    BY <1>1, <2>1 DEF PageInv
  <2>3. t.calls \in Seq(Calls) /\ Len(t.calls) \in Nat \ {0}
    BY <2>2, TheTask
  <2>4. DOMAIN t.calls = 1..Len(t.calls)
    BY <2>3
  <2>5. \A n \in 1..Len(t.calls) : t.calls[n] # Call("attempt", i)
    BY <1>1, <2>1, <2>4 DEF Call
  <2>6. Owed(t, i, phase)
    BY <1>1, <2>1, <2>2 DEF Good
  <2>7. ~Gone(phase[i])
    BY <1>1 DEF Pending, Gone
  <2>. QED
    BY <2>1, <2>3, <2>5, <2>6, <2>7 DEF Owed, Tried
<1>2. PageInv => BulkIsThorough
  BY <1>1 DEF BulkIsThorough
<1>. QED
  BY <1>2, PageInductive, PTL
=============================================================================
