----------------------------- MODULE Migrations -----------------------------
(***************************************************************************)
(* The revisions of alembic/versions under the tables the API writes: the  *)
(* operator upgrades and downgrades, the API, always at its newest, runs   *)
(* against whichever revision is there and fails while a column is missing.*)
(* A migration runs in one transaction; requests are steps of their own    *)
(* here, their interleavings are ControlPlane's.                           *)
(***************************************************************************)
EXTENDS Integers, FiniteSets

CONSTANTS None, ConnIds, PlanIds

VARIABLES
  revision,   \* the revisions applied: 20260429_initial, _add_plan_status, 260429_ck_status
  conns,      \* exchange_connections: the status of each row
  plans,      \* bot_plans; the column status may be missing
  \* history, read by no action:
  stopped     \* the plans deleted by DELETE and not patched since

vars == <<revision, conns, plans, stopped>>

\* ConnectionStatus and PlanStatus of schemas.py, which is all the API writes.
ConnStatuses == {"active", "paused", "error", "deleted"}
PlanStatuses == {"active", "paused", "deleted"}
Plan == [conn : ConnIds, enabled : BOOLEAN, status : PlanStatuses \cup {None}]

\* None is no status and no row.
NoneIsApart == None \notin ConnStatuses \cup PlanStatuses \cup Plan

\* The rows fit the revision, and plans lie under connections (the foreign key).
TypeOK ==
  /\ revision \in 0..3
  /\ conns \in [ConnIds -> ConnStatuses \cup {None}]
  /\ plans \in [PlanIds -> Plan \cup {None}]
  /\ \A p \in PlanIds : plans[p] # None =>
       /\ conns[plans[p].conn] # None
       /\ plans[p].status = None <=> revision < 2
  /\ stopped \subseteq PlanIds
  /\ revision = 0 => \A c \in ConnIds : conns[c] = None

Empty(ids) == [x \in ids |-> None]
WithStatus(status) ==
  [p \in PlanIds |-> IF plans[p] = None THEN None ELSE [plans[p] EXCEPT !.status = status]]

\* The rows the two CHECK constraints of 260429_ck_status accept.
Fits ==
  /\ \A c \in ConnIds : conns[c] \in {None, "active", "paused", "error", "deleted"}
  /\ \A p \in PlanIds : plans[p] # None => plans[p].status \in {"active", "paused", "deleted"}

Init == revision = 0 /\ conns = Empty(ConnIds) /\ plans = Empty(PlanIds) /\ stopped = {}

\* `alembic upgrade +1`; server_default 'active' fills the new column.
Upgrade ==
  /\ revision < 3
  /\ revision' = revision + 1
  /\ plans' = IF revision = 1 THEN WithStatus("active") ELSE plans
  /\ UNCHANGED <<conns, stopped>>

\* `alembic downgrade -1`
Downgrade ==
  /\ revision > 0
  /\ revision' = revision - 1
  /\ plans' = CASE revision = 1 -> Empty(PlanIds) [] revision = 2 -> WithStatus(None) [] OTHER -> plans
  /\ conns' = IF revision = 1 THEN Empty(ConnIds) ELSE conns
  /\ stopped' = IF revision = 1 THEN {} ELSE stopped

-----------------------------------------------------------------------------
\* POST and PATCH of a connection need nothing newer than the first revision.
WriteConnection(c, status) ==
  /\ revision >= 1
  /\ conns[c] # "deleted"
  /\ conns' = [conns EXCEPT ![c] = status]
  /\ UNCHANGED <<revision, plans, stopped>>

\* Every query of bot_plans names the column status.
CreatePlan(p, c, enabled, status) ==
  /\ revision >= 2
  /\ plans[p] = None /\ conns[c] \notin {None, "deleted"}
  /\ plans' = [plans EXCEPT ![p] = [conn |-> c, enabled |-> enabled, status |-> status]]
  /\ UNCHANGED <<revision, conns, stopped>>

Live(p) == /\ plans[p] # None /\ plans[p].status # "deleted"
           /\ conns[plans[p].conn] # "deleted"
PatchPlan(p, enabled, status) ==
  /\ revision >= 2 /\ Live(p)
  /\ plans' = [plans EXCEPT ![p].enabled = enabled, ![p].status = status]
  /\ stopped' = stopped \ {p}
  /\ UNCHANGED <<revision, conns>>

\* What both deletions make of a plan.
Deleted(row) == [row EXCEPT !.status = "deleted", !.enabled = FALSE]
DeletePlan(p) ==
  /\ revision >= 2 /\ Live(p)
  /\ plans' = [plans EXCEPT ![p] = Deleted(@)]
  /\ stopped' = stopped \cup {p}
  /\ UNCHANGED <<revision, conns>>
DeleteConnection(c) ==
  LET under == {p \in PlanIds : plans[p] # None /\ plans[p].conn = c /\ plans[p].status # "deleted"}
  IN  /\ revision >= 2 /\ conns[c] \notin {None, "deleted"}
      /\ conns' = [conns EXCEPT ![c] = "deleted"]
      /\ plans' = [p \in PlanIds |-> IF p \in under THEN Deleted(plans[p]) ELSE plans[p]]
      /\ stopped' = stopped \cup under
      /\ UNCHANGED revision

Step ==
  \/ Upgrade \/ Downgrade
  \/ \E c \in ConnIds : DeleteConnection(c) \/ \E status \in ConnStatuses : WriteConnection(c, status)
  \/ \E p \in PlanIds :
       \/ DeletePlan(p)
       \/ \E enabled \in BOOLEAN, status \in PlanStatuses :
            PatchPlan(p, enabled, status) \/ \E c \in ConnIds : CreatePlan(p, c, enabled, status)

\* The database refuses rows its constraints do not accept, and to add constraints
\* its rows do not fit.
Next == Step /\ (revision' = 3 => Fits')

Spec == Init /\ [][Next]_vars

-----------------------------------------------------------------------------
\* Whatever the API wrote under an older revision, the constraints of the newest
\* accept it: upgrading is never refused (the enums of schemas.py against the
\* CHECKs of 260429_ck_status).
UpgradeIsNeverRefused == revision = 2 => Fits

\* A downgrade forgets which plans were deleted and an upgrade brings them back as
\* active; one that DELETE deleted is still disabled then, and runs only when its
\* owner patches it (enabled = False beside the status, in both deletions).
DeletedStaysStopped ==
  \A p \in stopped : plans[p] # None =>
    ~(plans[p].enabled /\ plans[p].status = "active" /\ conns[plans[p].conn] = "active")
=============================================================================
