----------------------------- MODULE RiskPolicy -----------------------------
(***************************************************************************)
(* evaluate_risk_policy: why a signal is rejected under the risk policy of *)
(* the plan it matched.  A signal without plan meets the policy the        *)
(* defaults of the code spell out.                                         *)
(***************************************************************************)
EXTENDS PaperFill

Hours == 0..23
Weekdays == 0..6   \* Monday is 0

\* window is <<start_hour_utc, end_hour_utc>>, None when it is not enabled;
\* an empty symbols set allows every symbol; a limit of 0 is no limit.
Policy == [symbols : SUBSET Symbols, window : (Hours \X Hours) \cup {None},
           weekends : BOOLEAN, requirePrice : BOOLEAN, requireSize : BOOLEAN,
           maxOpen : Int, maxPerSymbol : Int, lossLimit : Nat]

DefaultPolicy ==
  [symbols |-> {}, window |-> None, weekends |-> TRUE, requirePrice |-> TRUE,
   requireSize |-> TRUE, maxOpen |-> 3, maxPerSymbol |-> 3, lossLimit |-> 0]

\* _hour_in_window: both ends included; a start after the end wraps midnight.
HourInWindow(hour, start, end) ==
  IF start <= end THEN start <= hour /\ hour <= end
                  ELSE hour >= start \/ hour <= end

InTimeWindow(policy, clock) ==
  IF policy.window = None THEN TRUE
  ELSE HourInWindow(clock.hour, policy.window[1], policy.window[2])

Sized(s) == s.volume # None \/ s.risk # None

Below(count, limit) == limit <= 0 \/ count < limit

\* Mutant: the sign of the amount is lost.
HaltedOnGain(policy, realizedToday) == policy.lossLimit > 0 /\ realizedToday >= policy.lossLimit
\* compute_runtime_guard_state's daily_loss_limit_reached, with the limit as
\* an amount: equity_estimate * daily_loss_limit_pct / 100.
Halted(policy, realizedToday) == policy.lossLimit > 0 /\ realizedToday <= -policy.lossLimit

\* Which checks fail, given the active jobs, those of the signal's symbol, the
\* profit the guard sees today and the verdict of the trade start conditions.
Fails(s, policy, clock, active, activeForSymbol, realizedToday, startable) ==
  [symbol_not_allowed |-> policy.symbols # {} /\ s.symbol \notin policy.symbols,
   outside_time_window |-> ~InTimeWindow(policy, clock),
   weekend_blocked |-> ~policy.weekends /\ clock.weekday >= 5,
   missing_price |-> policy.requirePrice /\ s.price = None,
   missing_volume_or_risk |-> policy.requireSize /\ s.side \notin Closing /\ ~Sized(s),
   max_open_positions_reached |-> ~Below(active, policy.maxOpen),
   max_open_per_symbol_reached |-> ~Below(activeForSymbol, policy.maxPerSymbol),
   daily_loss_limit_reached |-> Halted(policy, realizedToday),
   trade_start_conditions |-> ~startable]

RejectReasons(s, policy, clock, active, activeForSymbol, realizedToday, startable) ==
  LET fails == Fails(s, policy, clock, active, activeForSymbol, realizedToday, startable)
  IN  {reason \in DOMAIN fails : fails[reason]}
=============================================================================
