---------------------------- MODULE ControlPlane ----------------------------
(***************************************************************************)
(* The connections and bot plans of pinebitz/api/app.py: rows of two       *)
(* database tables and the requests that change them.  A handler awaits    *)
(* each query and the commit, so other requests run between its reads and  *)
(* its writes.  The database runs READ COMMITTED: a query sees what was    *)
(* committed.  A commit writes the columns whose value differs from the    *)
(* one the session loaded; rows are deleted by status only.                *)
(*                                                                         *)
(* Requests are numbered in the order in which their transactions begin.   *)
(* now() is the begin of the transaction, so the number is updated_at.     *)
(***************************************************************************)
EXTENDS Integers, FiniteSets

CONSTANTS
  None,          \* no row, no request, not in the body of a request
  Owners,        \* the X-Owner-Key values in use
  ConnIds,       \* the ids of connections
  PlanIds,       \* the ids of plans
  Names, Pairs,  \* plan names, and the trading pairs of their config_json
  ConnChanges,   \* the statuses PATCH of a connection asks for
  PlanChanges,   \* the changes PATCH of a plan asks for
  NewPlans,      \* the plans POST is called with
  Stored,        \* the databases the process may start on
  MaxRequests    \* bound: requests

VARIABLES
  conns,      \* exchange_connections
  plans,      \* bot_plans
  open,       \* open[r]: what request r has read and will write
  nextReq,    \* the number of the next request
  \* history, read by no action:
  openAt,     \* openAt[x]: the requests open when row x was last deleted
  unaware     \* unaware[c]: the requests done when the last deletion of c
              \* listed its plans

vars == <<conns, plans, open, nextReq, openAt, unaware>>

RequestIds == 1..MaxRequests
ConnStatuses == {"active", "paused", "error", "deleted"}
PlanStatuses == {"active", "paused", "deleted"}

ConnRow == [owner : Owners \cup {None}, status : ConnStatuses]
\* updated is 0 for a row no request of this process wrote.
PlanRow == [conn : ConnIds, name : Names, pair : Pairs, status : PlanStatuses,
            enabled : BOOLEAN, updated : 0..MaxRequests]
\* The columns a PATCH body names, None for the others.
PlanChange == [name : Names \cup {None}, pair : Pairs \cup {None},
               status : PlanStatuses \cup {None}, enabled : BOOLEAN \cup {None}]

PlanPost == [conn : ConnIds, name : Names, pair : Pairs, status : PlanStatuses,
             enabled : BOOLEAN]

\* What an open request remembers.
PatchRequest ==
  [op : {"patch_connection"}, caller : Owners, conn : ConnIds, seen : ConnRow,
   asked : ConnStatuses \cup {None}]
DeleteRequest ==
  [op : {"delete_connection"}, caller : Owners, conn : ConnIds, listed : BOOLEAN,
   loaded : [PlanIds -> PlanRow \cup {None}], before : SUBSET RequestIds]
CreateRequest ==
  [op : {"create_plan"}, caller : Owners, post : PlanPost]
ChangeRequest ==
  [op : {"change_plan"}, caller : Owners, plan : PlanIds, seen : PlanRow,
   asked : PlanChange, checked : BOOLEAN]
Request == PatchRequest \cup DeleteRequest \cup CreateRequest \cup ChangeRequest

ConnTable == [ConnIds -> ConnRow \cup {None}]
PlanTable == [PlanIds -> PlanRow \cup {None}]

ASSUME ControlConstants ==
  /\ MaxRequests \in Nat
  /\ ConnIds \cap PlanIds = {}
  /\ ConnChanges \subseteq ConnStatuses \cup {None}
  /\ PlanChanges \subseteq PlanChange
  /\ NewPlans \subseteq PlanPost
  /\ \A db \in Stored :
       /\ db.conns \in ConnTable /\ db.plans \in PlanTable
       /\ \A p \in PlanIds : db.plans[p] # None =>
            db.plans[p].updated = 0 /\ db.conns[db.plans[p].conn] # None
  /\ None \notin ConnRow \cup PlanRow \cup Request \cup Names \cup Pairs
                 \cup ConnStatuses \cup PlanStatuses \cup BOOLEAN

\* The tables and the open requests hold values of their types, and every plan
\* lies under a connection (the foreign key of bot_plans).
TypeOK ==
  /\ conns \in ConnTable
  /\ plans \in PlanTable
  /\ open \in [RequestIds -> Request \cup {None}]
  /\ nextReq \in 1..(MaxRequests + 1)
  /\ openAt \in [ConnIds \cup PlanIds -> SUBSET RequestIds]
  /\ unaware \in [ConnIds -> SUBSET RequestIds]
  /\ \A p \in PlanIds : plans[p] # None => conns[plans[p].conn] # None

Init ==
  /\ \E db \in Stored : conns = db.conns /\ plans = db.plans
  /\ open = [r \in RequestIds |-> None]
  /\ nextReq = 1
  /\ openAt = [x \in ConnIds \cup PlanIds |-> {}]
  /\ unaware = [c \in ConnIds |-> {}]

-----------------------------------------------------------------------------
Open == {r \in RequestIds : open[r] # None}
Done == {r \in RequestIds : r < nextReq /\ open[r] = None}

\* A row that is there, the caller's and not deleted. Mutants: nobody is asked
\* for; a deleted row is found, too.
FoundForAnyone(c, caller) == conns[c] # None /\ conns[c].status # "deleted"
FoundDeleted(c, caller) == conns[c] # None /\ conns[c].owner = caller
Found(c, caller) == /\ conns[c] # None
                    /\ conns[c].owner = caller
                    /\ conns[c].status # "deleted"

\* What the flush leaves in a column. Mutant: what was loaded is written back.
ColumnLoaded(asked, loaded, stored) == IF asked = None THEN loaded ELSE asked
Column(asked, loaded, stored) == IF asked \in {None, loaded} THEN stored ELSE asked

Touches(asked, seen) ==
  \/ asked.name \notin {None, seen.name}
  \/ asked.pair \notin {None, seen.pair}
  \/ asked.status \notin {None, seen.status}
  \/ asked.enabled \notin {None, seen.enabled}

\* The row a request leaves that loaded it as seen.
Written(row, asked, seen, r) ==
  [conn |-> row.conn,
   name |-> Column(asked.name, seen.name, row.name),
   pair |-> Column(asked.pair, seen.pair, row.pair),
   status |-> Column(asked.status, seen.status, row.status),
   enabled |-> Column(asked.enabled, seen.enabled, row.enabled),
   updated |-> IF Touches(asked, seen) THEN r ELSE row.updated]

\* What deleting a plan asks for.
Deletion == [name |-> None, pair |-> None, status |-> "deleted", enabled |-> FALSE]

Begin(request) ==
  /\ nextReq <= MaxRequests
  /\ open' = [open EXCEPT ![nextReq] = request]
  /\ nextReq' = nextReq + 1
  /\ UNCHANGED <<conns, plans, openAt, unaware>>

\* Request r ends having committed the tables' next values.
End(r) ==
  /\ open' = [open EXCEPT ![r] = None]
  /\ openAt' = [x \in ConnIds \cup PlanIds |->
       IF \/ x \in ConnIds /\ conns'[x] # conns[x] /\ conns'[x].status = "deleted"
          \/ x \in PlanIds /\ plans'[x] # plans[x] /\ plans'[x].status = "deleted"
       THEN Open ELSE openAt[x]]
  /\ UNCHANGED nextReq

\* create_connection: nothing is read before the commit.
CreateConnection(caller, c, status) ==
  /\ nextReq <= MaxRequests
  /\ conns[c] = None
  /\ conns' = [conns EXCEPT ![c] = [owner |-> caller, status |-> status]]
  /\ nextReq' = nextReq + 1
  /\ UNCHANGED <<plans, open, openAt, unaware>>

\* patch_connection
PatchConnectionReads(caller, c, asked) ==
  /\ Found(c, caller)
  /\ Begin([op |-> "patch_connection", caller |-> caller, conn |-> c,
            seen |-> conns[c], asked |-> asked])
PatchConnectionCommits(r) ==
  LET q == open[r]
  IN  /\ q.op = "patch_connection"
      /\ conns' = [conns EXCEPT ![q.conn] = [@ EXCEPT !.status =
                     Column(q.asked, q.seen.status, conns[q.conn].status)]]
      /\ UNCHANGED <<plans, unaware>>
      /\ End(r)

\* delete_connection: the row, then its plans, then the commit of all.
DeleteConnectionReads(caller, c) ==
  /\ Found(c, caller)
  /\ Begin([op |-> "delete_connection", caller |-> caller, conn |-> c, listed |-> FALSE,
            loaded |-> [p \in PlanIds |-> None], before |-> {}])

\* The plans plan_stmt selects. Mutant: the enabled ones.
ListedEnabled(c, p) == plans[p] # None /\ plans[p].conn = c /\ plans[p].enabled
Listed(c, p) == plans[p] # None /\ plans[p].conn = c /\ plans[p].status # "deleted"
DeleteConnectionLists(r) ==
  LET q == open[r]
  IN  /\ q.op = "delete_connection" /\ ~q.listed
      /\ open' = [open EXCEPT ![r] = [@ EXCEPT
                    !.listed = TRUE, !.before = Done,
                    !.loaded = [p \in PlanIds |-> IF Listed(q.conn, p) THEN plans[p] ELSE None]]]
      /\ UNCHANGED <<conns, plans, nextReq, openAt, unaware>>
DeleteConnectionCommits(r) ==
  LET q == open[r]
  IN  /\ q.op = "delete_connection" /\ q.listed
      /\ conns' = [conns EXCEPT ![q.conn] = [@ EXCEPT !.status = "deleted"]]
      /\ plans' = [p \in PlanIds |-> IF q.loaded[p] = None THEN plans[p]
                                     ELSE Written(plans[p], Deletion, q.loaded[p], r)]
      /\ unaware' = [unaware EXCEPT ![q.conn] = q.before]
      /\ End(r)

\* create_bot_plan
CreatePlanReads(caller, post) ==
  /\ Found(post.conn, caller)
  /\ Begin([op |-> "create_plan", caller |-> caller, post |-> post])
CreatePlanCommits(r, p) ==
  LET post == open[r].post
  IN  /\ open[r].op = "create_plan"
      /\ plans[p] = None
      /\ plans' = [plans EXCEPT ![p] =
                     [conn |-> post.conn, name |-> post.name, pair |-> post.pair,
                      status |-> post.status, enabled |-> post.enabled, updated |-> r]]
      /\ UNCHANGED <<conns, unaware>>
      /\ End(r)

\* patch_bot_plan, and delete_bot_plan with the change Deletion: the row, then
\* its connection, then the commit.
ChangePlanReads(caller, p, asked) ==
  /\ plans[p] # None
  /\ plans[p].status # "deleted"
  /\ Begin([op |-> "change_plan", caller |-> caller, plan |-> p, seen |-> plans[p],
            asked |-> asked, checked |-> FALSE])
ChangePlanChecks(r) ==
  LET q == open[r]
  IN  /\ q.op = "change_plan" /\ ~q.checked
      /\ open' = IF Found(q.seen.conn, q.caller) THEN [open EXCEPT ![r] = [@ EXCEPT !.checked = TRUE]]
                                                 ELSE [open EXCEPT ![r] = None]
      /\ UNCHANGED <<conns, plans, nextReq, openAt, unaware>>
ChangePlanCommits(r) ==
  LET q == open[r]
  IN  /\ q.op = "change_plan" /\ q.checked
      /\ plans' = [plans EXCEPT ![q.plan] = Written(@, q.asked, q.seen, r)]
      /\ UNCHANGED <<conns, unaware>>
      /\ End(r)

\* A query or the commit fails, or the process ends: nothing is written.
Aborts(r) ==
  /\ open' = [open EXCEPT ![r] = None]
  /\ UNCHANGED <<conns, plans, nextReq, openAt, unaware>>

Arrives(caller) ==
  \/ \E c \in ConnIds, status \in ConnStatuses : CreateConnection(caller, c, status)
  \/ \E c \in ConnIds, asked \in ConnChanges : PatchConnectionReads(caller, c, asked)
  \/ \E c \in ConnIds : DeleteConnectionReads(caller, c)
  \/ \E post \in NewPlans : CreatePlanReads(caller, post)
  \/ \E p \in PlanIds, asked \in PlanChanges \cup {Deletion} : ChangePlanReads(caller, p, asked)

Proceeds(r) ==
  \/ PatchConnectionCommits(r)
  \/ DeleteConnectionLists(r)
  \/ DeleteConnectionCommits(r)
  \/ \E p \in PlanIds : CreatePlanCommits(r, p)
  \/ ChangePlanChecks(r)
  \/ ChangePlanCommits(r)
  \/ Aborts(r)

Next ==
  \/ \E caller \in Owners : Arrives(caller)
  \/ \E r \in Open : Proceeds(r)

Spec == Init /\ [][Next]_vars

-----------------------------------------------------------------------------
\* The requests that end in a step.
Ending == {r \in Open : open'[r] = None}

\* Deletion is final unless requests overlap: a deleted connection or plan is
\* written again only by a request that was open when the deletion committed,
\* having read the row before (the status guards of patch and delete).
DeletionIsFinal ==
  [][/\ \A c \in ConnIds : conns[c] # None =>
          (conns[c].status = "deleted" /\ conns'[c] # conns[c] => Ending \cap openAt[c] # {})
     /\ \A p \in PlanIds : plans[p] # None =>
          (plans[p].status = "deleted" /\ plans'[p] # plans[p] => Ending \cap openAt[p] # {})]_vars

\* Deleting a connection forgets no plan: one that is live under it afterwards
\* was written last by a request that had not ended when the deletion listed the
\* plans (plan_stmt in delete_connection against create and patch).
NoForgottenPlan ==
  \A p \in PlanIds : plans[p] # None =>
    (plans[p].status # "deleted" => plans[p].updated \notin unaware[plans[p].conn])

PlanColumns == {"name", "pair", "status", "enabled"}

\* No update is lost: a commit leaves every column of a plan as it is that its
\* own request does not ask to change, whatever was committed since it read the
\* row (setattr of the columns in the body, flush of the changed ones).
NoLostUpdate ==
  [][\A p \in PlanIds : plans[p] # None =>
       \A column \in {n \in PlanColumns : plans'[p][n] # plans[p][n]} :
         \E r \in Ending :
           LET q == open[r]
           IN  plans'[p][column] = IF q.op = "change_plan" THEN q.asked[column]
                                   ELSE Deletion[column]]_vars

\* Nobody's connection or plan is written but by its owner, though the plan and
\* its connection are read in two queries (the checks of connection.owner_key).
OwnersOnly ==
  [][\A r \in Ending :
       /\ \A c \in ConnIds : conns'[c] # conns[c] => conns[c].owner = open[r].caller
       /\ \A p \in PlanIds : plans'[p] # plans[p] =>
            conns[plans'[p].conn].owner = open[r].caller]_vars
=============================================================================
