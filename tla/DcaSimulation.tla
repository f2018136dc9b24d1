--------------------------- MODULE DcaSimulation ---------------------------
(***************************************************************************)
(* The averaging ladder of a plan and the simulation that walks a price    *)
(* path over it (build_dca_preview and build_dca_simulation of             *)
(* pinebitz/api/app.py), one action per tick.                              *)
(*                                                                         *)
(* Prices are integers in units of 0.00000001 and reported money in units  *)
(* of 0.0001 USDT, to which the code rounds.  The orders' amounts, the     *)
(* deviation and the multipliers of a configuration are fractions: their   *)
(* integers are over Unit.  Of a percentage, Whole are 100 %.  What the    *)
(* code does not round is an exact fraction.                               *)
(***************************************************************************)
EXTENDS Integers, Sequences, FiniteSets

CONSTANTS
  Configs,   \* the configurations (DcaBotConfig)
  Prices,    \* the prices of a path; endpoint and loop take any number
  Whole,     \* 100 %
  Unit,      \* the denominator of amounts, deviations and multipliers
  MaxTicks   \* bound: ticks of a path

VARIABLES
  config,
  ladder,   \* preview_steps, from the first price on
  filled,   \* len(filled_steps)
  close,    \* close_reason
  path      \* the prices so far

simulationVars == <<config, ladder, filled, close, path>>

Config == [direction : {"long", "short"}, base_order : Nat, enabled : BOOLEAN,
           max_orders : Nat, first_deviation : Nat, deviation_multiplier : Nat,
           safety_order : Nat, order_multiplier : Nat, tp : Nat, stop_loss : Nat]

\* A preview step, with cumulative the money of the orders up to it.
StepOut == [trigger : Int, cumulative : Nat, avg : Int, tp : Int]

ASSUME DcaConstants ==
  /\ Configs \subseteq Config
  /\ Prices \subseteq Int
  /\ {Whole, Unit} \subseteq Nat \ {0}
  /\ MaxTicks \in Nat

\* Ladder and counts fit each other.  The first tick opens the position: the
\* answer "not_opened" does not occur.
SimulationTypeOK ==
  /\ config \in Configs
  /\ \A k \in DOMAIN ladder : ladder[k] \in StepOut
  /\ close \in {"open", "take_profit", "stop_loss"}
  /\ path \in Seq(Prices)
  /\ IF path = <<>> THEN filled = 0 ELSE filled \in 1..Cardinality(DOMAIN ladder)

SimulationInit ==
  /\ config \in Configs
  /\ ladder = <<>>
  /\ filled = 0
  /\ close = "open"
  /\ path = <<>>

-----------------------------------------------------------------------------
\* round(n / d, digits) in units of the last digit, ties to even.
RoundDiv(n, d) ==
  LET q == n \div d
      r == n % d
  IN  IF 2 * r < d \/ (2 * r = d /\ q % 2 = 0) THEN q ELSE q + 1

AtLeast(x, least) == IF x < least THEN least ELSE x
Abs(x) == AtLeast(x, -x)

\* direction_mult
Mult(c) == IF c.direction = "long" THEN -1 ELSE 1
Orders(c) == IF c.enabled THEN c.max_orders ELSE 0

\* Whole * scale * trigger_price, the deviation being over scale. Mutant: below the
\* entry for both directions.
TriggerBelow(c, entry, scale, deviation) == entry * (Whole * scale - deviation)
Trigger(c, entry, scale, deviation) == entry * (Whole * scale + Mult(c) * deviation)

\* The running totals of the preview's loop: gap and order are the next order's, all
\* are over scale, and total_qty = qty / per.
Totals(c, entry) ==
  LET after[k \in 0..Orders(c)] ==
        IF k = 0
        THEN [scale |-> Unit, deviation |-> 0, gap |-> c.first_deviation,
              order |-> c.safety_order, cost |-> c.base_order,
              qty |-> c.base_order, per |-> entry * Unit]
        ELSE LET last == after[k - 1]
                 deviation == last.deviation + last.gap
                 paid ==
                   AtLeast(Trigger(c, entry, last.scale, deviation), Whole * last.scale)
             IN  [scale |-> last.scale * Unit,
                  deviation |-> deviation * Unit,
                  gap |-> last.gap * c.deviation_multiplier,
                  order |-> last.order * c.order_multiplier,
                  cost |-> (last.cost + last.order) * Unit,
                  qty |-> last.qty * paid + last.order * Whole * last.per,
                  per |-> last.per * paid]
  IN  after

\* Whole * take_profit_price / avg_price
ProfitFactor(c) == Whole - Mult(c) * c.tp

\* build_dca_preview
Preview(c, price) ==
  LET entry == AtLeast(price, 1)
      totals == Totals(c, entry)
  IN  [k \in 0..Orders(c) |->
        LET t == totals[k]
            trigger == Trigger(c, entry, t.scale, t.deviation)
            n == IF t.qty = 0 THEN trigger ELSE t.cost * t.per
            d == (IF t.qty = 0 THEN Whole ELSE t.qty) * t.scale
        IN  [trigger |-> RoundDiv(trigger, Whole * t.scale),
             cumulative |-> RoundDiv(t.cost, t.scale),
             avg |-> RoundDiv(n, d), tp |-> RoundDiv(n * ProfitFactor(c), d * Whole)]]

\* x is at the level or on its losing side, where orders fill and stops are hit.
Beyond(c, x, level) == IF c.direction = "long" THEN x <= level ELSE x >= level

\* The while loop over the steps from count on.
FilledWaiting(steps, count, price) ==
  CHOOSE k \in count..Cardinality(DOMAIN steps) :
    /\ \A j \in count..(k - 1) : Beyond(config, price, steps[j].trigger)
    /\ k \in DOMAIN steps => ~Beyond(config, price, steps[k].trigger)
\* Mutant: one order fills at a tick.
FilledOne(steps, count, price) ==
  IF path = <<>> \/ (count \in DOMAIN steps /\ Beyond(config, price, steps[count].trigger))
  THEN count + 1 ELSE count
\* The number of filled steps after a tick; the base order fills at the first.
FilledAfter(steps, count, price) ==
  FilledWaiting(steps, IF path = <<>> THEN 1 ELSE count, price)

\* hit_tp is on the other side of its level.
HitsProfit(step, price) == Beyond(config, -price, -step.tp)
\* Mutant: the stop is on the side of the profit.
HitsStopMirrored(step, price) ==
  LET level == step.avg * (Whole - Mult(config) * config.stop_loss)
  IN  config.stop_loss > 0 /\ level > 0 /\ Beyond(config, price * Whole, level)
HitsStop(step, price) ==
  LET level == step.avg * (Whole + Mult(config) * config.stop_loss)   \* Whole * sl_price
  IN  config.stop_loss > 0 /\ level > 0 /\ Beyond(config, price * Whole, level)

\* What a tick leaves of the position, its last filled step given.
Verdict(step, price) ==
  IF HitsProfit(step, price) THEN "take_profit"
  ELSE IF HitsStop(step, price) THEN "stop_loss" ELSE "open"

\* The body of the loop over the price path.
Tick(price) ==
  LET steps == IF path = <<>> THEN Preview(config, price) ELSE ladder
      count == FilledAfter(steps, filled, price)
  IN  /\ close = "open"
      /\ Len(path) < MaxTicks
      /\ path' = Append(path, price)
      /\ ladder' = steps
      /\ filled' = count
      /\ close' = IF count = 0 THEN "open" ELSE Verdict(steps[count - 1], price)
      /\ UNCHANGED config

SimulationNext == \E price \in Prices : Tick(price)
SimulationSpec == SimulationInit /\ [][SimulationNext]_simulationVars

-----------------------------------------------------------------------------
\* calc_pnl at a price, as a fraction n / d, and the realized_pnl reported of it.
\* Mutant: the direction is ignored.
ProfitOfLong(c, step, price) ==
  IF step.avg <= 0 \/ step.cumulative <= 0 THEN [n |-> 0, d |-> 1]
  ELSE [n |-> (price - step.avg) * step.cumulative, d |-> step.avg]
Profit(c, step, price) ==
  IF step.avg <= 0 \/ step.cumulative <= 0 THEN [n |-> 0, d |-> 1]
  ELSE [n |-> Mult(c) * (step.avg - price) * step.cumulative, d |-> step.avg]
Reported(c, step, price) ==
  RoundDiv(Profit(c, step, price).n, Profit(c, step, price).d)

Opened == path # <<>>
LastPrice == path[Len(path)]
LastStep == ladder[filled - 1]

\* The filled steps are those some price so far has reached, though the loop
\* looks at one step after the other and never back, and a price may jump over
\* several of them (the while loop over preview_steps).
FilledAreTheReached ==
  Opened => \A k \in 1..Orders(config) :
    k < filled <=> \E t \in 1..Len(path) : Beyond(config, path[t], ladder[k].trigger)

\* A position closed for its profit reports no loss, and one that is stopped reports
\* no gain and has lost, if its total is not rounded to nothing, whatever the
\* direction, the rounding of totals, levels and profit and the orders filled by the
\* very tick that closes it (hit_tp, hit_sl, calc_pnl).
ClosesForItsReason ==
  LET reported == Reported(config, LastStep, LastPrice)
  IN  /\ close = "take_profit" => reported >= 0
      /\ close = "stop_loss" =>
           /\ reported <= 0
           /\ Profit(config, LastStep, LastPrice).n < 0 \/ LastStep.cumulative = 0

\* Averaging pays: with every order of the ladder the average price moves
\* towards the market, never away from it, also where triggers fall to the least
\* price or below zero (build_dca_preview).
AveragingPays ==
  Opened => \A k \in 1..Orders(config) : Beyond(config, ladder[k].avg, ladder[k - 1].avg)

\* The profit reported is that of the orders filled, each at its own price, but for
\* three roundings of half a unit each: of the average price, which counts with the
\* quantity and the price, of the total, which counts with the move of the price, and
\* of the profit itself. All is over t.scale * t.per (calc_pnl, realized_pnl).
ProfitIsThatOfTheOrders ==
  Opened =>
    LET t == Totals(config, AtLeast(path[1], 1))[filled - 1]
        over == t.scale * t.per
        avg == LastStep.avg
        gained == Mult(config) * (t.cost * t.per - LastPrice * (t.qty * t.scale))
        error == Reported(config, LastStep, LastPrice) * over - gained
    IN  2 * Abs(avg) * Abs(error)
          <= Abs(LastPrice) * (t.qty * t.scale) + (Abs(avg - LastPrice) + Abs(avg)) * over
=============================================================================
