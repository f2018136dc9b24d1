-------------------------- MODULE MCDcaSimulation --------------------------
(***************************************************************************)
(* Two averaging orders, in steps of a quarter, around prices of a few     *)
(* units of the last digit, where rounding bites.                          *)
(***************************************************************************)
EXTENDS DcaSimulation

\* Over halves: multipliers of nothing, one and a half (the default deviation
\* multiplier) and two, a deviation of an eighth or the whole price, amounts of
\* fractions of a unit.
MCConfigs ==
  [direction : {"long", "short"}, base_order : {0, 3, 15}, enabled : {TRUE}, max_orders : {2},
   first_deviation : {1, 8}, deviation_multiplier : {0, 3}, safety_order : {0, 1},
   order_multiplier : {2, 3}, tp : {0, 1}, stop_loss : {0, 1, 5}]
  \cup
  [direction : {"long", "short"}, base_order : {4}, enabled : BOOLEAN, max_orders : {0},
   first_deviation : {1}, deviation_multiplier : {2}, safety_order : {2},
   order_multiplier : {2}, tp : {1}, stop_loss : {1}]

MCPrices == {-1, 0, 1, 2, 3, 5}
=============================================================================
