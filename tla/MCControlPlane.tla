--------------------------- MODULE MCControlPlane ---------------------------
(***************************************************************************)
(* One connection of o1 with a plan, a connection of o2, and room for one  *)
(* more plan.                                                              *)
(***************************************************************************)
EXTENDS ControlPlane, TLC

CONSTANTS o1, o2, c1, c2, p1, p2

MCOwners == {o1, o2}
MCConnIds == {c1, c2}
MCPlanIds == {p1, p2}
MCNames == {"dca"}
MCPairs == {"BTC"}

Plan(c, status, enabled) ==
  [conn |-> c, name |-> "dca", pair |-> "BTC", status |-> status, enabled |-> enabled]
Row(post) == [conn |-> post.conn, name |-> post.name, pair |-> post.pair,
              status |-> post.status, enabled |-> post.enabled, updated |-> 0]
NoChange == [name |-> None, pair |-> None, status |-> None, enabled |-> None]

MCConnChanges == {"active", "paused", "deleted"}
MCPlanChanges == {[NoChange EXCEPT !.status = "active"], [NoChange EXCEPT !.status = "paused"],
                  [NoChange EXCEPT !.enabled = TRUE]}
MCNewPlans == {Plan(c1, "active", TRUE), Plan(c2, "active", FALSE)}

\* Both connections paused or active, the plan off or running.
MCStored ==
  {[conns |-> (c1 :> [owner |-> o1, status |-> "paused"] @@ c2 :> None),
    plans |-> (p1 :> Row(Plan(c1, "paused", FALSE)) @@ p2 :> None)],
   [conns |-> (c1 :> [owner |-> o1, status |-> "active"] @@ c2 :> [owner |-> o2, status |-> "active"]),
    plans |-> (p1 :> Row(Plan(c1, "active", TRUE)) @@ p2 :> None)]}
=============================================================================
