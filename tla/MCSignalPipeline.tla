-------------------------- MODULE MCSignalPipeline --------------------------
(***************************************************************************)
(* Plans of two owners on one pair, one of them under another name.        *)
(***************************************************************************)
EXTENDS SignalPipeline, TLC

CONSTANTS o1, o2, c1, c2, p1, p2

MCOwners == {o1, o2}
MCConnIds == {c1, c2}
MCPlanIds == {p1, p2}
MCNames == {"dca", "grid"}
MCPairs == {"BTC"}

NoChange == [name |-> None, pair |-> None, status |-> None, enabled |-> None]
MCConnChanges == {"paused"}
MCPlanChanges == {[NoChange EXCEPT !.enabled = TRUE], [NoChange EXCEPT !.name = "grid"]}
NoNewPlans == {}

Plan(c, name, enabled) ==
  [conn |-> c, name |-> name, pair |-> "BTC", status |-> "active", enabled |-> enabled, updated |-> 0]
MCStored ==
  {[conns |-> (c1 :> [owner |-> o1, status |-> "active"] @@ c2 :> [owner |-> second, status |-> "active"]),
    plans |-> (p1 :> Plan(c1, "dca", TRUE) @@ p2 :> Plan(c2, "grid", second = o2))] :
     second \in MCOwners}

MCSignals ==
  {[owner |-> o1, plan |-> p2, name |-> None, symbol |-> "BTC"],
   [owner |-> None, plan |-> None, name |-> "grid", symbol |-> "BTC"]}
=============================================================================
