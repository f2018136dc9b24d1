------------------------- MODULE ControlPlaneProofs -------------------------
(***************************************************************************)
(* The control plane, for any number of rows, owners and requests: its     *)
(* types, that no deletion of a connection forgets a plan, that deletions  *)
(* are final, rows their owners' to write and no update lost.              *)
(*                                                                         *)
(* Then the webhook's deliveries among these requests: a signal is judged  *)
(* by a plan of its own owner, by one that was runnable while the signal   *)
(* was handled, and by none that fits it worse than a plan that was there  *)
(* all the while.  Last, the schema the tables have: what upgrades and     *)
(* downgrades do to the rows.                                              *)
(***************************************************************************)
EXTENDS SignalPipeline, SetSums, SequenceTheorems

\* What an open request relies on while others run.
Sound(q) ==
  /\ q.op = "patch_connection" => conns[q.conn] # None
  /\ q.op = "create_plan" => conns[q.post.conn] # None
  /\ q.op = "change_plan" => plans[q.plan] # None
  /\ q.op = "delete_connection" =>
       /\ conns[q.conn] # None
       /\ q.before \subseteq Done
       /\ \A p \in PlanIds : q.loaded[p] # None =>
            plans[p] # None /\ q.loaded[p].status # "deleted"
       /\ q.listed => \A p \in PlanIds :
            (/\ plans[p] # None
             /\ plans[p].conn = q.conn
             /\ plans[p].status # "deleted"
             /\ q.loaded[p] = None) => plans[p].updated \notin q.before

Begun == \A r \in RequestIds : open[r] # None => r < nextReq

UnawareAreDone == \A c \in ConnIds : unaware[c] \subseteq Done

\* NoForgottenPlan speaks of deletions that have committed; Sound says the same
\* of those that have listed their plans and not committed yet.
Inv ==
  /\ TypeOK
  /\ Begun
  /\ UnawareAreDone
  /\ \A r \in RequestIds : open[r] # None => Sound(open[r])
  /\ NoForgottenPlan

\* A write of a loaded row keeps its type and its connection, and is either
\* marked with the writer's number or no write at all.
LEMMA WrittenRow ==
  ASSUME NEW row \in PlanRow, NEW asked \in PlanChange, NEW loaded \in PlanRow,
         NEW r \in RequestIds
  PROVE  LET w == Written(row, asked, loaded, r)
         IN  /\ w \in PlanRow
             /\ w.conn = row.conn
             /\ w = row \/ w.updated = r
<1> DEFINE w == Written(row, asked, loaded, r)
<1>1. r \in 0..MaxRequests
  BY ControlConstants DEF RequestIds
<1>3. /\ Column(asked.name, loaded.name, row.name) \in Names
      /\ Column(asked.pair, loaded.pair, row.pair) \in Pairs
      /\ Column(asked.status, loaded.status, row.status) \in PlanStatuses
  BY DEF Column, PlanRow, PlanChange
<1>4. Column(asked.enabled, loaded.enabled, row.enabled) \in BOOLEAN
  BY Zenon DEF Column, PlanRow, PlanChange
<1>5. w \in PlanRow
  BY <1>1, <1>3, <1>4 DEF PlanRow, Written
<1>6. CASE Touches(asked, loaded)
  BY <1>5, <1>6 DEF Written
<1>7. CASE ~Touches(asked, loaded)
  <2>1. /\ Column(asked.name, loaded.name, row.name) = row.name
        /\ Column(asked.pair, loaded.pair, row.pair) = row.pair
        /\ Column(asked.status, loaded.status, row.status) = row.status
        /\ Column(asked.enabled, loaded.enabled, row.enabled) = row.enabled
    BY <1>7, Zenon DEF Touches, Column
  <2>2. w = row
    BY <1>7, <2>1 DEF PlanRow, Written
  <2> QED BY <1>5, <2>2
<1> QED BY <1>6, <1>7

\* The deletion of a plan that was loaded live leaves it deleted.
LEMMA DeletionDeletes ==
  ASSUME NEW row \in PlanRow, NEW loaded \in PlanRow, NEW r \in RequestIds,
         loaded.status # "deleted"
  PROVE  Written(row, Deletion, loaded, r).status = "deleted"
<1>1. Column(Deletion.status, loaded.status, row.status) = "deleted"
  BY ControlConstants DEF Column, Deletion, PlanStatuses
<1> QED BY <1>1 DEF Written, PlanRow

LEMMA DeletionIsChange == Deletion \in PlanChange
BY DEF Deletion, PlanChange, PlanStatuses

-----------------------------------------------------------------------------
LEMMA InitInv == Init => Inv
<1> SUFFICES ASSUME Init PROVE Inv
  OBVIOUS
<1>0. PICK db \in Stored : conns = db.conns /\ plans = db.plans
  BY DEF Init
<1>1. TypeOK
  BY <1>0, ControlConstants DEF Init, TypeOK, ConnTable, PlanTable, RequestIds
<1>2. Begun /\ UnawareAreDone /\ \A r \in RequestIds : open[r] # None => Sound(open[r])
  BY DEF Init, Begun, UnawareAreDone
<1>3. NoForgottenPlan
  BY <1>0, <1>1 DEF Init, NoForgottenPlan, TypeOK, PlanTable, PlanRow
<1> QED BY <1>1, <1>2, <1>3 DEF Inv

-----------------------------------------------------------------------------
\* A step in which request r, which has not ended, is the one that acts.
ActsAs(r) ==
  /\ r \notin Done
  /\ \A s \in RequestIds : s # r => open'[s] = open[s]
  /\ nextReq' >= nextReq
  /\ open'[r] # None => r < nextReq'
  /\ \A c \in ConnIds : conns[c] # None => conns'[c] # None
  /\ \A p \in PlanIds : plans[p] # None => plans'[p] # None /\ plans'[p].conn = plans[p].conn
  /\ \A p \in PlanIds : plans'[p] # None => plans'[p] = plans[p] \/ plans'[p].updated = r

\* Such a step disturbs none of the others: what they rely on stays, since all
\* it writes carries the number of a request that was not done.
LEMMA OthersStaySound ==
  ASSUME Inv, TypeOK', NEW r \in RequestIds, ActsAs(r),
         open'[r] # None => Sound(open[r])'
  PROVE  /\ Done \subseteq Done'
         /\ Begun'
         /\ (\A s \in RequestIds : open[s] # None => Sound(open[s]))'
<1>1. Done \subseteq Done'
  BY DEF Done, ActsAs, Inv, TypeOK, RequestIds, ControlConstants
<1>2. Begun'
  BY DEF Begun, ActsAs, Inv, TypeOK, RequestIds
<1>3. ASSUME NEW s \in RequestIds, s # r, open[s] # None, open'[s] = open[s], Sound(open[s])
      PROVE  Sound(open[s])'
  <2> DEFINE q == open[s]
  <2>1. CASE q.op = "delete_connection"
    <3>1. q.before \subseteq Done'
      BY <1>1, <1>3, <2>1 DEF Sound
    <3>2. q \in DeleteRequest
      BY <1>3, <2>1 DEF Inv, TypeOK, Request, PatchRequest, CreateRequest, ChangeRequest
    <3>3. conns'[q.conn] # None
      BY <1>3, <2>1, <3>2 DEF Sound, ActsAs, DeleteRequest
    <3>4. \A p \in PlanIds : q.loaded[p] # None =>
            plans'[p] # None /\ q.loaded[p].status # "deleted"
      BY <1>3, <2>1 DEF Sound, ActsAs
    <3>5. ASSUME q.listed, NEW p \in PlanIds, plans'[p] # None, plans'[p].conn = q.conn,
                 plans'[p].status # "deleted", q.loaded[p] = None
          PROVE  plans'[p].updated \notin q.before
      <4>1. CASE plans'[p] = plans[p]
        BY <1>3, <2>1, <3>5, <4>1 DEF Sound
      <4>2. CASE plans'[p].updated = r
        BY <1>3, <2>1, <4>2 DEF Sound, ActsAs
      <4> QED BY <3>5, <4>1, <4>2 DEF ActsAs
    <3> QED BY <1>3, <2>1, <3>1, <3>3, <3>4, <3>5 DEF Sound
  <2>2. CASE q.op # "delete_connection"
    <3>1. q \in PatchRequest \cup CreateRequest \cup ChangeRequest
      BY <1>3, <2>2 DEF Inv, TypeOK, Request, DeleteRequest
    <3>2. CASE q \in PatchRequest
      BY <1>3, <3>2 DEF Sound, ActsAs, PatchRequest
    <3>3. CASE q \in CreateRequest
      BY <1>3, <3>3 DEF Sound, ActsAs, CreateRequest, PlanPost
    <3>4. CASE q \in ChangeRequest
      BY <1>3, <3>4 DEF Sound, ActsAs, ChangeRequest
    <3> QED BY <3>1, <3>2, <3>3, <3>4
  <2> QED BY <2>1, <2>2
<1>4. (\A s \in RequestIds : open[s] # None => Sound(open[s]))'
  BY <1>3 DEF Inv, ActsAs
<1> QED BY <1>1, <1>2, <1>4

\* A step that commits no deletion of a connection keeps the invariant.
LEMMA Undeleting ==
  ASSUME Inv, TypeOK', NEW r \in RequestIds, ActsAs(r), unaware' = unaware,
         open'[r] # None => Sound(open[r])'
  PROVE  Inv'
<1>1. /\ Done \subseteq Done'
      /\ Begun'
      /\ (\A s \in RequestIds : open[s] # None => Sound(open[s]))'
  BY OthersStaySound
<1>2. UnawareAreDone'
  BY <1>1 DEF Inv, UnawareAreDone
<1>3. ASSUME NEW p \in PlanIds, plans'[p] # None, plans'[p].status # "deleted"
      PROVE  plans'[p].updated \notin unaware[plans'[p].conn]
  <2>1. CASE plans'[p] = plans[p]
    BY <1>3, <2>1 DEF Inv, NoForgottenPlan
  <2>2. CASE plans'[p].updated = r
    <3>1. plans'[p].conn \in ConnIds
      BY <1>3 DEF TypeOK, PlanTable, PlanRow
    <3> QED BY <2>2, <3>1 DEF Inv, UnawareAreDone, ActsAs
  <2> QED BY <1>3, <2>1, <2>2 DEF ActsAs
<1>4. NoForgottenPlan'
  BY <1>3 DEF NoForgottenPlan
<1> QED BY <1>1, <1>2, <1>4 DEF Inv

-----------------------------------------------------------------------------
\* Beginning a request keeps the types and acts as the new request.
LEMMA Beginning ==
  ASSUME Inv, NEW q \in Request, Begin(q), Sound(q)
  PROVE  Inv'
<1>0. PICK r \in RequestIds : r = nextReq
  BY ControlConstants DEF Begin, Inv, TypeOK, RequestIds
<1>1. r \in RequestIds /\ r \notin Done
  BY <1>0 DEF Inv, TypeOK, RequestIds, Done
<1>2. TypeOK'
  <2>1. nextReq' \in 1..(MaxRequests + 1)
    BY ControlConstants DEF Begin, Inv, TypeOK
  <2>2. open' \in [RequestIds -> Request \cup {None}]
    BY <1>1 DEF Begin, Inv, TypeOK
  <2> QED BY <2>1, <2>2 DEF Begin, Inv, TypeOK
<1>3. ActsAs(r)
  BY <1>0, <1>1 DEF ActsAs, Begin, Inv, TypeOK, RequestIds
<1>4. open'[r] = q
  BY <1>0 DEF Begin, Inv, TypeOK
<1>5. Done \subseteq Done'
  BY <1>0, <1>2, <1>3 DEF Done, Inv, TypeOK, RequestIds, ActsAs
<1>6. Sound(open[r])'
  BY <1>4, <1>5 DEF Sound, Begin
<1> QED BY <1>1, <1>2, <1>3, <1>6, Undeleting DEF Begin

LEMMA CreatingConnection ==
  ASSUME Inv, NEW caller \in Owners, NEW c \in ConnIds, NEW status \in ConnStatuses,
         CreateConnection(caller, c, status)
  PROVE  Inv'
<1>0. PICK r \in RequestIds : r = nextReq
  BY ControlConstants DEF CreateConnection, Inv, TypeOK, RequestIds
<1>1. r \notin Done /\ open'[r] = None
  BY <1>0 DEF CreateConnection, Inv, TypeOK, RequestIds, Done, Begun
<1>2. [owner |-> caller, status |-> status] \in ConnRow
  BY DEF ConnRow
<1>3. TypeOK'
  <2>1. nextReq' \in 1..(MaxRequests + 1)
    BY ControlConstants DEF CreateConnection, Inv, TypeOK
  <2>2. conns' \in ConnTable
    BY <1>2 DEF CreateConnection, Inv, TypeOK, ConnTable
  <2>3. \A p \in PlanIds : plans'[p] # None => conns'[plans'[p].conn] # None
    BY <1>2, ControlConstants DEF CreateConnection, Inv, TypeOK, ConnTable, PlanTable, PlanRow
  <2> QED BY <2>1, <2>2, <2>3 DEF CreateConnection, Inv, TypeOK
<1>4. ActsAs(r)
  BY <1>0, <1>1, <1>2, ControlConstants DEF ActsAs, CreateConnection, Inv, TypeOK, RequestIds,
                                            ConnTable
<1> QED BY <1>1, <1>3, <1>4, Undeleting DEF CreateConnection

\* What ending a request leaves in the history and in the open requests.
LEMMA Ends ==
  ASSUME Inv, NEW r \in Open, End(r)
  PROVE  /\ open' \in [RequestIds -> Request \cup {None}]
         /\ openAt' \in [ConnIds \cup PlanIds -> SUBSET RequestIds]
         /\ open'[r] = None
         /\ \A s \in RequestIds : s # r => open'[s] = open[s]
         /\ nextReq' = nextReq
         /\ r \in RequestIds /\ r \notin Done /\ r < nextReq
BY DEF Inv, Begun, TypeOK, End, Open, Done

LEMMA PatchingConnection ==
  ASSUME Inv, NEW r \in Open, PatchConnectionCommits(r)
  PROVE  Inv'
<1> DEFINE q == open[r]
           row == [conns[q.conn] EXCEPT !.status = Column(q.asked, q.seen.status, conns[q.conn].status)]
<1>1. q \in PatchRequest /\ conns[q.conn] # None
  BY DEF PatchConnectionCommits, Inv, TypeOK, Open, Request, DeleteRequest, CreateRequest,
         ChangeRequest, Sound
<1>2. row \in ConnRow
  BY <1>1 DEF Inv, TypeOK, ConnTable, ConnRow, Column, PatchRequest
<1>3. End(r) /\ conns' = [conns EXCEPT ![q.conn] = row] /\ UNCHANGED <<plans, unaware>>
  BY DEF PatchConnectionCommits
<1>4. conns' \in ConnTable /\ \A c \in ConnIds : conns[c] # None => conns'[c] # None
  BY <1>1, <1>2, <1>3, ControlConstants DEF Inv, TypeOK, ConnTable
<1>5. TypeOK'
  BY <1>3, <1>4, Ends DEF Inv, TypeOK, PlanTable, PlanRow
<1>6. ActsAs(r)
  BY <1>3, <1>4, Ends DEF ActsAs, Inv, TypeOK
<1> QED BY <1>3, <1>5, <1>6, Ends, Undeleting

\* The connection and its loaded plans are deleted; what was not loaded and is
\* live was written after the plans were listed.
LEMMA DeletingConnection ==
  ASSUME Inv, NEW r \in Open, DeleteConnectionCommits(r)
  PROVE  Inv'
<1> DEFINE q == open[r]
<1>1. /\ q \in DeleteRequest /\ q.listed /\ q.op = "delete_connection"
      /\ Sound(q)
      /\ End(r)
      /\ conns' = [conns EXCEPT ![q.conn] = [@ EXCEPT !.status = "deleted"]]
      /\ plans' = [p \in PlanIds |-> IF q.loaded[p] = None THEN plans[p]
                                     ELSE Written(plans[p], Deletion, q.loaded[p], r)]
      /\ unaware' = [unaware EXCEPT ![q.conn] = q.before]
  BY DEF DeleteConnectionCommits, Inv, TypeOK, Open, Request, PatchRequest, CreateRequest,
         ChangeRequest
<1>2. /\ q.conn \in ConnIds /\ conns[q.conn] \in ConnRow
      /\ q.before \in SUBSET RequestIds /\ q.before \subseteq Done
      /\ \A p \in PlanIds : q.loaded[p] # None =>
           /\ plans[p] \in PlanRow /\ q.loaded[p] \in PlanRow
           /\ q.loaded[p].status # "deleted"
  BY <1>1 DEF Sound, DeleteRequest, Inv, TypeOK, ConnTable, PlanTable
<1>3. ASSUME NEW p \in PlanIds, q.loaded[p] # None
      PROVE  /\ plans'[p] \in PlanRow
             /\ plans'[p].conn = plans[p].conn
             /\ plans'[p] = plans[p] \/ plans'[p].updated = r
             /\ plans'[p].status = "deleted"
  <2>1. plans'[p] = Written(plans[p], Deletion, q.loaded[p], r)
    BY <1>1, <1>3
  <2>2. r \in RequestIds
    BY DEF Open
  <2>3. plans[p] \in PlanRow /\ q.loaded[p] \in PlanRow /\ q.loaded[p].status # "deleted"
    BY <1>2, <1>3
  <2>4. plans'[p].status = "deleted"
    BY <2>1, <2>2, <2>3, DeletionDeletes
  <2>5. /\ plans'[p] \in PlanRow
        /\ plans'[p].conn = plans[p].conn
        /\ plans'[p] = plans[p] \/ plans'[p].updated = r
    <3>1. LET w == Written(plans[p], Deletion, q.loaded[p], r)
          IN  w \in PlanRow /\ w.conn = plans[p].conn /\ (w = plans[p] \/ w.updated = r)
      BY <2>2, <2>3, WrittenRow, DeletionIsChange
    <3> QED BY <2>1, <3>1
  <2> QED BY <2>4, <2>5
<1>4. \A p \in PlanIds : q.loaded[p] = None => plans'[p] = plans[p]
  BY <1>1
<1>5. /\ conns' \in ConnTable
      /\ \A c \in ConnIds : conns[c] # None => conns'[c] # None
  <2>1. PICK row \in ConnRow : row = [conns[q.conn] EXCEPT !.status = "deleted"]
    BY <1>2 DEF ConnRow, ConnStatuses
  <2>2. conns' = [conns EXCEPT ![q.conn] = row]
    BY <1>1, <2>1
  <2>3. row # None
    BY ControlConstants
  <2> QED BY <1>2, <2>2, <2>3 DEF Inv, TypeOK, ConnTable
<1>6. /\ plans' \in PlanTable
      /\ \A p \in PlanIds : plans[p] # None => plans'[p] # None /\ plans'[p].conn = plans[p].conn
      /\ \A p \in PlanIds : plans'[p] # None =>
           plans[p] # None /\ (plans'[p] = plans[p] \/ plans'[p].updated = r)
  <2>1. \A p \in PlanIds : plans'[p] \in PlanRow \cup {None}
    BY <1>3, <1>4 DEF Inv, TypeOK, PlanTable
  <2>2. plans' \in PlanTable
    BY <1>1, <2>1 DEF PlanTable
  <2>3. None \notin PlanRow
    BY ControlConstants
  <2> QED BY <1>2, <1>3, <1>4, <2>2, <2>3
<1>7. TypeOK'
  <2>1. unaware' \in [ConnIds -> SUBSET RequestIds]
    BY <1>1, <1>2 DEF Inv, TypeOK
  <2>2. \A p \in PlanIds : plans'[p] # None => conns'[plans'[p].conn] # None
    BY <1>5, <1>6 DEF Inv, TypeOK, PlanTable, PlanRow
  <2> QED BY <1>1, <1>5, <1>6, <2>1, <2>2, Ends DEF Inv, TypeOK
<1>8. ActsAs(r)
  BY <1>1, <1>5, <1>6, Ends DEF ActsAs, Inv, TypeOK
<1>9. /\ Done \subseteq Done'
      /\ Begun'
      /\ (\A s \in RequestIds : open[s] # None => Sound(open[s]))'
  BY <1>1, <1>7, <1>8, Ends, OthersStaySound
<1>10. UnawareAreDone'
  BY <1>1, <1>2, <1>9 DEF Inv, UnawareAreDone, TypeOK
<1>11. ASSUME NEW p \in PlanIds, plans'[p] # None, plans'[p].status # "deleted"
       PROVE  plans'[p].updated \notin unaware'[plans'[p].conn]
  <2>1. q.loaded[p] = None /\ plans'[p] = plans[p]
    BY <1>3, <1>4, <1>11
  <2>2. CASE plans[p].conn = q.conn
    BY <1>1, <1>2, <1>11, <2>1, <2>2 DEF Sound, Inv, TypeOK
  <2>3. CASE plans[p].conn # q.conn
    BY <1>1, <1>2, <1>11, <2>1, <2>3 DEF Inv, TypeOK, PlanTable, PlanRow, NoForgottenPlan
  <2> QED BY <2>2, <2>3
<1> QED BY <1>7, <1>9, <1>10, <1>11 DEF Inv, NoForgottenPlan

\* From here on the plans it was to delete are as it loaded them or written by a
\* request that was not done.
LEMMA ListingPlans ==
  ASSUME Inv, NEW r \in Open, DeleteConnectionLists(r)
  PROVE  Inv'
<1> DEFINE q == open[r]
           listed == [q EXCEPT !.listed = TRUE, !.before = Done,
                        !.loaded = [p \in PlanIds |-> IF Listed(q.conn, p) THEN plans[p] ELSE None]]
<1>1. /\ q \in DeleteRequest /\ r \in RequestIds
      /\ q.op = "delete_connection"
      /\ Sound(q)
      /\ open' = [open EXCEPT ![r] = listed]
      /\ UNCHANGED <<conns, plans, nextReq, openAt, unaware>>
  BY DEF DeleteConnectionLists, Inv, TypeOK, Open, Request, PatchRequest, CreateRequest,
         ChangeRequest
<1>2. listed \in DeleteRequest
  <2>1. [p \in PlanIds |-> IF Listed(q.conn, p) THEN plans[p] ELSE None]
          \in [PlanIds -> PlanRow \cup {None}]
    BY DEF Inv, TypeOK, PlanTable
  <2> QED BY <1>1, <2>1 DEF DeleteRequest, Done
<1>3. listed # None /\ r < nextReq /\ r \notin Done
  BY <1>1, <1>2, ControlConstants DEF Request, Inv, Begun, Open, Done
<1>4. TypeOK'
  BY <1>1, <1>2 DEF Inv, TypeOK, Request
<1>5. ActsAs(r)
  BY <1>1, <1>3 DEF ActsAs, Inv, TypeOK
<1>6. Done' = Done
  BY <1>1, <1>3 DEF Done, Inv, TypeOK
<1>7. Sound(open[r])'
  <2>1. /\ open'[r] = listed
        /\ listed.op = "delete_connection" /\ listed.conn = q.conn /\ listed.before = Done
        /\ \A p \in PlanIds :
             listed.loaded[p] = IF Listed(q.conn, p) THEN plans[p] ELSE None
    BY <1>1 DEF Inv, TypeOK, DeleteRequest
  <2>2. \A p \in PlanIds : listed.loaded[p] # None =>
          plans[p] # None /\ listed.loaded[p].status # "deleted"
    BY <2>1 DEF Listed
  <2>3. ASSUME NEW p \in PlanIds, plans[p] # None, plans[p].conn = q.conn,
               plans[p].status # "deleted", listed.loaded[p] = None
        PROVE  plans[p].updated \notin Done
    BY <2>1, <2>3 DEF Listed
  <2>4. conns[q.conn] # None
    BY <1>1 DEF Sound
  <2> QED BY <1>1, <1>6, <2>1, <2>2, <2>3, <2>4 DEF Sound
<1> QED BY <1>1, <1>4, <1>5, <1>7, Undeleting

LEMMA CreatingPlan ==
  ASSUME Inv, NEW r \in Open, NEW p \in PlanIds, CreatePlanCommits(r, p)
  PROVE  Inv'
<1> DEFINE post == open[r].post
<1>1. /\ open[r].op = "create_plan" /\ open[r] \in CreateRequest /\ r \in RequestIds
      /\ conns[post.conn] # None
      /\ plans[p] = None
      /\ End(r)
      /\ UNCHANGED <<conns, unaware>>
  BY DEF CreatePlanCommits, Inv, TypeOK, Open, Request, PatchRequest, DeleteRequest,
         ChangeRequest, Sound
<1>2. PICK row \in PlanRow : /\ row.conn = post.conn /\ row.updated = r
                            /\ plans' = [plans EXCEPT ![p] = row]
  <2>1. [conn |-> post.conn, name |-> post.name, pair |-> post.pair, status |-> post.status,
         enabled |-> post.enabled, updated |-> r] \in PlanRow
    BY <1>1, ControlConstants DEF CreateRequest, PlanPost, PlanRow, RequestIds
  <2> QED BY <2>1 DEF CreatePlanCommits
<1>3. TypeOK'
  <2>1. plans' \in PlanTable
    BY <1>2 DEF Inv, TypeOK, PlanTable
  <2>2. \A x \in PlanIds : plans'[x] # None => conns'[plans'[x].conn] # None
    BY <1>1, <1>2 DEF Inv, TypeOK, PlanTable
  <2> QED BY <1>1, <2>1, <2>2, Ends DEF Inv, TypeOK
<1>4. ActsAs(r)
  BY <1>1, <1>2, Ends DEF ActsAs, Inv, TypeOK, PlanTable
<1> QED BY <1>1, <1>3, <1>4, Ends, Undeleting

LEMMA ChangingPlan ==
  ASSUME Inv, NEW r \in Open, ChangePlanCommits(r)
  PROVE  Inv'
<1> DEFINE q == open[r]
<1>1. /\ q \in ChangeRequest /\ r \in RequestIds
      /\ plans[q.plan] # None
      /\ End(r)
      /\ plans' = [plans EXCEPT ![q.plan] = Written(plans[q.plan], q.asked, q.seen, r)]
      /\ UNCHANGED <<conns, unaware>>
  BY DEF ChangePlanCommits, Inv, TypeOK, Open, Request, PatchRequest, DeleteRequest,
         CreateRequest, Sound
<1>2. PICK row \in PlanRow :
        /\ row.conn = plans[q.plan].conn
        /\ row = plans[q.plan] \/ row.updated = r
        /\ plans' = [plans EXCEPT ![q.plan] = row]
  <2>1. plans[q.plan] \in PlanRow /\ q.asked \in PlanChange /\ q.seen \in PlanRow
    BY <1>1 DEF Inv, TypeOK, PlanTable, ChangeRequest
  <2>2. LET w == Written(plans[q.plan], q.asked, q.seen, r)
        IN  w \in PlanRow /\ w.conn = plans[q.plan].conn /\ (w = plans[q.plan] \/ w.updated = r)
    BY <1>1, <2>1, WrittenRow
  <2> QED BY <1>1, <2>2
<1>3. q.plan \in PlanIds /\ row # None
  BY <1>1, ControlConstants DEF ChangeRequest
<1>4. TypeOK'
  <2>1. plans' \in PlanTable
    BY <1>2 DEF Inv, TypeOK, PlanTable
  <2>2. \A x \in PlanIds : plans'[x] # None => conns'[plans'[x].conn] # None
    BY <1>1, <1>2, <1>3 DEF Inv, TypeOK, PlanTable
  <2> QED BY <1>1, <2>1, <2>2, Ends DEF Inv, TypeOK
<1>5. ActsAs(r)
  BY <1>1, <1>2, <1>3, Ends DEF ActsAs, Inv, TypeOK, PlanTable
<1> QED BY <1>1, <1>4, <1>5, Ends, Undeleting

LEMMA CheckingPlan ==
  ASSUME Inv, NEW r \in Open, ChangePlanChecks(r)
  PROVE  Inv'
<1>1. PICK q \in ChangeRequest \cup {None} :
        /\ open' = [open EXCEPT ![r] = q]
        /\ q # None => q.plan = open[r].plan /\ q.op = "change_plan"
        /\ open[r] \in ChangeRequest /\ plans[open[r].plan] # None
        /\ r \in RequestIds /\ r < nextReq /\ r \notin Done
        /\ UNCHANGED <<conns, plans, nextReq, openAt, unaware>>
  <2>1. /\ open[r] \in ChangeRequest /\ plans[open[r].plan] # None
        /\ r \in RequestIds /\ r < nextReq /\ r \notin Done
    BY DEF ChangePlanChecks, Inv, TypeOK, Begun, Open, Done, Request, PatchRequest,
           DeleteRequest, CreateRequest, Sound
  <2>2. PICK q \in ChangeRequest : /\ q = [open[r] EXCEPT !.checked = TRUE]
                                  /\ q.plan = open[r].plan /\ q.op = "change_plan"
    <3>1. [open[r] EXCEPT !.checked = TRUE] \in ChangeRequest
      BY <2>1 DEF ChangeRequest
    <3> QED BY <2>1, <3>1 DEF ChangeRequest
  <2> QED BY <2>1, <2>2 DEF ChangePlanChecks
<1>2. TypeOK'
  BY <1>1 DEF Inv, TypeOK, Request
<1>3. ActsAs(r)
  BY <1>1 DEF ActsAs, Inv, TypeOK
<1>4. open'[r] # None => Sound(open[r])'
  <2>1. open'[r] = q
    BY <1>1 DEF Inv, TypeOK
  <2> QED BY <1>1, <2>1 DEF Sound
<1> QED BY <1>1, <1>2, <1>3, <1>4, Undeleting

LEMMA Aborting ==
  ASSUME Inv, NEW r \in Open, Aborts(r)
  PROVE  Inv'
<1>1. TypeOK' /\ r \in RequestIds /\ open'[r] = None
  BY DEF Aborts, Inv, TypeOK, Open
<1>2. ActsAs(r)
  BY <1>1 DEF ActsAs, Aborts, Inv, TypeOK, Open, Done
<1> QED BY <1>1, <1>2, Undeleting DEF Aborts

-----------------------------------------------------------------------------
LEMMA ArrivalKeepsInv ==
  ASSUME Inv, NEW caller \in Owners, Arrives(caller)
  PROVE  Inv'
<1>1. ASSUME NEW c \in ConnIds, NEW asked \in ConnChanges, PatchConnectionReads(caller, c, asked)
      PROVE  Inv'
  <2> DEFINE q == [op |-> "patch_connection", caller |-> caller, conn |-> c, seen |-> conns[c],
                   asked |-> asked]
  <2>1. q \in Request /\ Begin(q) /\ Sound(q)
    BY <1>1, ControlConstants DEF PatchConnectionReads, Found, Request, PatchRequest, Inv, TypeOK,
       ConnTable, Sound
  <2> QED BY <2>1, Beginning
<1>2. ASSUME NEW c \in ConnIds, DeleteConnectionReads(caller, c)
      PROVE  Inv'
  <2> DEFINE q == [op |-> "delete_connection", caller |-> caller, conn |-> c, listed |-> FALSE,
                   loaded |-> [p \in PlanIds |-> None], before |-> {}]
  <2>1. q \in Request /\ Begin(q) /\ Sound(q)
    BY <1>2 DEF DeleteConnectionReads, Found, Request, DeleteRequest, Sound
  <2> QED BY <2>1, Beginning
<1>3. ASSUME NEW post \in NewPlans, CreatePlanReads(caller, post)
      PROVE  Inv'
  <2> DEFINE q == [op |-> "create_plan", caller |-> caller, post |-> post]
  <2>1. q \in Request /\ Begin(q) /\ Sound(q)
    BY <1>3, ControlConstants DEF CreatePlanReads, Found, Request, CreateRequest, Sound
  <2> QED BY <2>1, Beginning
<1>4. ASSUME NEW p \in PlanIds, NEW asked \in PlanChanges \cup {Deletion},
             ChangePlanReads(caller, p, asked)
      PROVE  Inv'
  <2> DEFINE q == [op |-> "change_plan", caller |-> caller, plan |-> p, seen |-> plans[p],
                   asked |-> asked, checked |-> FALSE]
  <2>1. asked \in PlanChange
    BY <1>4, ControlConstants, DeletionIsChange
  <2>2. q \in Request /\ Begin(q) /\ Sound(q)
    BY <1>4, <2>1 DEF ChangePlanReads, Request, ChangeRequest, Inv, TypeOK, PlanTable, Sound
  <2> QED BY <2>2, Beginning
<1> QED BY <1>1, <1>2, <1>3, <1>4, CreatingConnection DEF Arrives

LEMMA NextInv == Inv /\ [Next]_vars => Inv'
<1> SUFFICES ASSUME Inv, [Next]_vars PROVE Inv'
  OBVIOUS
<1>1. CASE UNCHANGED vars
  BY <1>1 DEF vars, Inv, TypeOK, Begun, UnawareAreDone, Done, Sound, NoForgottenPlan
<1>2. ASSUME NEW caller \in Owners, Arrives(caller) PROVE Inv'
  BY <1>2, ArrivalKeepsInv
<1>3. ASSUME NEW r \in Open, Proceeds(r) PROVE Inv'
  BY <1>3, PatchingConnection, ListingPlans, DeletingConnection, CreatingPlan, CheckingPlan,
     ChangingPlan, Aborting DEF Proceeds
<1> QED BY <1>1, <1>2, <1>3 DEF Next

LEMMA InvAlways == Spec => []Inv
BY InitInv, NextInv, PTL DEF Spec

\* The tables and the requests keep their types, and every plan its connection,
\* whatever requests overlap (the handlers of app.py from create_connection to
\* delete_bot_plan).
THEOREM ControlTypeCorrect == Spec => []TypeOK
<1>1. Inv => TypeOK
  BY DEF Inv
<1> QED BY <1>1, InvAlways, PTL

\* No deletion of a connection forgets a plan that was under it when it listed
\* them: all that is live there afterwards was written by a request that had not
\* ended by then (delete_connection).
THEOREM NothingForgotten == Spec => []NoForgottenPlan
<1>1. Inv => NoForgottenPlan
  BY DEF Inv
<1> QED BY <1>1, InvAlways, PTL

-----------------------------------------------------------------------------
\* What an open request may still do is its owner's to do ...
Rightful(q) ==
  /\ q.op \in {"patch_connection", "delete_connection"} => conns[q.conn].owner = q.caller
  /\ q.op = "delete_connection" =>
       \A p \in PlanIds : q.loaded[p] # None => plans[p].conn = q.conn
  /\ q.op = "create_plan" => conns[q.post.conn].owner = q.caller
  /\ q.op = "change_plan" =>
       /\ plans[q.plan].conn = q.seen.conn
       /\ q.checked => conns[q.seen.conn].owner = q.caller

\* ... and what it may write of a deleted row it had read when the row was deleted.
Early(r, q) ==
  /\ q.op = "patch_connection" =>
       (conns[q.conn].status = "deleted" => r \in openAt[q.conn])
  /\ q.op = "delete_connection" =>
       \A p \in PlanIds : q.loaded[p] # None =>
         (plans[p].status = "deleted" => r \in openAt[p])
  /\ q.op = "change_plan" => (plans[q.plan].status = "deleted" => r \in openAt[q.plan])

Entitled == \A r \in RequestIds : open[r] # None => Rightful(open[r]) /\ Early(r, open[r])

LEMMA RequestKinds ==
  ASSUME TypeOK, NEW r \in Open
  PROVE  /\ r \in RequestIds /\ open[r] \in Request
         /\ open[r].op = "patch_connection" => open[r] \in PatchRequest
         /\ open[r].op = "delete_connection" => open[r] \in DeleteRequest
         /\ open[r].op = "create_plan" => open[r] \in CreateRequest
         /\ open[r].op = "change_plan" => open[r] \in ChangeRequest
BY DEF TypeOK, Open, Request, PatchRequest, DeleteRequest, CreateRequest, ChangeRequest

\* A step leaves every row to its owner and its connection, and notes the open
\* requests of a row it deletes.
RowsKept ==
  /\ \A c \in ConnIds : conns[c] # None =>
       /\ conns'[c] # None /\ conns'[c].owner = conns[c].owner
       /\ conns'[c].status = "deleted" =>
            \/ openAt'[c] = Open
            \/ openAt'[c] = openAt[c] /\ conns[c].status = "deleted"
  /\ \A p \in PlanIds : plans[p] # None =>
       /\ plans'[p] # None /\ plans'[p].conn = plans[p].conn
       /\ plans'[p].status = "deleted" =>
            \/ openAt'[p] = Open
            \/ openAt'[p] = openAt[p] /\ plans[p].status = "deleted"

LEMMA OthersStayEntitled ==
  ASSUME Inv, Entitled, RowsKept, NEW s \in Open, open'[s] = open[s]
  PROVE  (Rightful(open[s]) /\ Early(s, open[s]))'
<1> DEFINE q == open[s]
<1>1. Sound(q) /\ Rightful(q) /\ Early(s, q) /\ s \in RequestIds
  BY DEF Inv, Entitled, Open
<1>2. /\ q.op = "patch_connection" => q \in PatchRequest
      /\ q.op = "delete_connection" => q \in DeleteRequest
      /\ q.op = "create_plan" => q \in CreateRequest
      /\ q.op = "change_plan" => q \in ChangeRequest
  BY RequestKinds DEF Inv
<1>3. CASE q.op = "patch_connection"
  <2>1. q.conn \in ConnIds /\ conns[q.conn] # None
    BY <1>1, <1>2, <1>3 DEF PatchRequest, Sound
  <2> QED BY <1>1, <1>3, <2>1 DEF RowsKept, Rightful, Early
<1>4. CASE q.op = "delete_connection"
  <2>1. /\ q.conn \in ConnIds /\ conns[q.conn] # None
        /\ \A p \in PlanIds : q.loaded[p] # None => plans[p] # None
    BY <1>1, <1>2, <1>4 DEF DeleteRequest, Sound
  <2> QED BY <1>1, <1>4, <2>1 DEF RowsKept, Rightful, Early
<1>5. CASE q.op = "create_plan"
  <2>1. q.post.conn \in ConnIds /\ conns[q.post.conn] # None
    BY <1>1, <1>2, <1>5 DEF CreateRequest, PlanPost, Sound
  <2> QED BY <1>1, <1>5, <2>1 DEF RowsKept, Rightful, Early
<1>6. CASE q.op = "change_plan"
  <2>1. q.plan \in PlanIds /\ plans[q.plan] # None /\ q.seen.conn \in ConnIds
    BY <1>1, <1>2, <1>6 DEF ChangeRequest, PlanRow, Sound
  <2>2. conns[q.seen.conn] # None
    BY <1>1, <1>6, <2>1 DEF Rightful, Inv, TypeOK
  <2> QED BY <1>1, <1>6, <2>1, <2>2 DEF RowsKept, Rightful, Early
<1> QED BY <1>2, <1>3, <1>4, <1>5, <1>6, RequestKinds DEF Inv, Request, PatchRequest, DeleteRequest,
           CreateRequest, ChangeRequest

-----------------------------------------------------------------------------
\* What a commit writes, row by row.
Commits(r) ==
  LET q == open[r]
  IN  /\ End(r)
      /\ \A c \in ConnIds : conns'[c] # conns[c] =>
           /\ q.op \in {"patch_connection", "delete_connection"}
           /\ c = q.conn /\ conns[c] # None /\ conns'[c] # None
           /\ conns'[c].owner = conns[c].owner
           /\ q.op = "delete_connection" => conns[c].status # "deleted"
      /\ \A p \in PlanIds : plans'[p] # plans[p] =>
           /\ plans'[p] # None
           /\ \/ /\ q.op = "create_plan"
                 /\ plans[p] = None /\ plans'[p].conn = q.post.conn
              \/ /\ q.op = "delete_connection"
                 /\ q.loaded[p] # None /\ plans[p] # None
                 /\ plans'[p] = Written(plans[p], Deletion, q.loaded[p], r)
              \/ /\ q.op = "change_plan" /\ q.checked
                 /\ p = q.plan /\ plans[p] # None
                 /\ plans'[p] = Written(plans[p], q.asked, q.seen, r)

LEMMA PatchConnectionEffect ==
  ASSUME Inv, NEW r \in Open, PatchConnectionCommits(r) PROVE Commits(r)
<1> DEFINE q == open[r]
           row == [conns[q.conn] EXCEPT !.status = Column(q.asked, q.seen.status, conns[q.conn].status)]
<1>1. /\ q.op = "patch_connection" /\ q \in PatchRequest /\ conns[q.conn] # None
      /\ End(r) /\ conns' = [conns EXCEPT ![q.conn] = row] /\ plans' = plans
  BY RequestKinds DEF PatchConnectionCommits, Inv, Open, Sound
<1>2. conns[q.conn] \in ConnRow /\ q.conn \in ConnIds
  BY <1>1 DEF Inv, TypeOK, ConnTable, PatchRequest
<1>3. row \in ConnRow /\ row.owner = conns[q.conn].owner /\ row # None
  BY <1>1, <1>2, ControlConstants DEF ConnRow, Column, PatchRequest
<1> QED BY <1>1, <1>2, <1>3 DEF Commits, Inv, TypeOK, ConnTable

LEMMA DeleteConnectionEffect ==
  ASSUME Inv, NEW r \in Open, DeleteConnectionCommits(r) PROVE Commits(r)
<1> DEFINE q == open[r]
           row == [conns[q.conn] EXCEPT !.status = "deleted"]
<1>1. /\ q.op = "delete_connection" /\ q \in DeleteRequest /\ Sound(q) /\ r \in RequestIds
      /\ End(r) /\ conns' = [conns EXCEPT ![q.conn] = row]
      /\ plans' = [p \in PlanIds |-> IF q.loaded[p] = None THEN plans[p]
                                     ELSE Written(plans[p], Deletion, q.loaded[p], r)]
  BY RequestKinds DEF DeleteConnectionCommits, Inv, Open
<1>2. /\ conns[q.conn] \in ConnRow /\ conns[q.conn] # None /\ q.conn \in ConnIds
      /\ \A p \in PlanIds : q.loaded[p] # None =>
           /\ plans[p] # None /\ plans[p] \in PlanRow /\ q.loaded[p] \in PlanRow
  BY <1>1 DEF Sound, Inv, TypeOK, ConnTable, PlanTable, DeleteRequest
<1>3. /\ row \in ConnRow /\ row.owner = conns[q.conn].owner /\ row # None
      /\ conns[q.conn].status = "deleted" => row = conns[q.conn]
  BY <1>2, ControlConstants DEF ConnRow, ConnStatuses
<1>4. ASSUME NEW c \in ConnIds, conns'[c] # conns[c]
      PROVE  c = q.conn /\ conns'[c] = row /\ conns[c].status # "deleted"
  BY <1>1, <1>2, <1>3, <1>4 DEF Inv, TypeOK, ConnTable
<1>5. ASSUME NEW p \in PlanIds, plans'[p] # plans[p]
      PROVE  /\ plans'[p] # None /\ q.loaded[p] # None /\ plans[p] # None
             /\ plans'[p] = Written(plans[p], Deletion, q.loaded[p], r)
  <2>1. q.loaded[p] # None /\ plans'[p] = Written(plans[p], Deletion, q.loaded[p], r)
    BY <1>1, <1>5
  <2>2. Written(plans[p], Deletion, q.loaded[p], r) \in PlanRow
    BY <1>1, <1>2, <2>1, WrittenRow, DeletionIsChange
  <2> QED BY <1>2, <2>1, <2>2, ControlConstants
<1> HIDE DEF row
<1> QED BY <1>1, <1>2, <1>3, <1>4, <1>5 DEF Commits

LEMMA CreatePlanEffect ==
  ASSUME Inv, NEW r \in Open, NEW p \in PlanIds, CreatePlanCommits(r, p) PROVE Commits(r)
<1> DEFINE post == open[r].post
<1>1. PICK row : row = [conn |-> post.conn, name |-> post.name, pair |-> post.pair,
                        status |-> post.status, enabled |-> post.enabled, updated |-> r]
  OBVIOUS
<1>2. open[r] \in CreateRequest /\ r \in RequestIds
  BY RequestKinds DEF CreatePlanCommits, Inv
<1>3. row \in PlanRow
  BY <1>1, <1>2, ControlConstants DEF CreateRequest, PlanPost, PlanRow, RequestIds
<1>4. row # None /\ row.conn = post.conn
  BY <1>1, <1>3, ControlConstants
<1>5. /\ open[r].op = "create_plan" /\ plans[p] = None /\ End(r) /\ conns' = conns
      /\ plans' = [plans EXCEPT ![p] = row]
  BY <1>1 DEF CreatePlanCommits
<1> QED BY <1>4, <1>5 DEF Commits, Inv, TypeOK, PlanTable

LEMMA ChangePlanEffect ==
  ASSUME Inv, NEW r \in Open, ChangePlanCommits(r) PROVE Commits(r)
<1> DEFINE q == open[r]
<1>1. PICK row : row = Written(plans[q.plan], q.asked, q.seen, r)
  OBVIOUS
<1>2. /\ q.op = "change_plan" /\ q.checked /\ q \in ChangeRequest /\ r \in RequestIds
      /\ plans[q.plan] # None /\ q.plan \in PlanIds
      /\ End(r) /\ plans' = [plans EXCEPT ![q.plan] = row] /\ conns' = conns
  BY <1>1, RequestKinds DEF ChangePlanCommits, Inv, Open, Sound, ChangeRequest
<1>3. row \in PlanRow
  <2>1. plans[q.plan] \in PlanRow /\ q.asked \in PlanChange /\ q.seen \in PlanRow
    BY <1>2 DEF Inv, TypeOK, PlanTable, ChangeRequest
  <2> QED BY <1>1, <1>2, <2>1, WrittenRow
<1>4. row # None
  BY <1>3, ControlConstants
<1> QED BY <1>1, <1>2, <1>4 DEF Commits, Inv, TypeOK, PlanTable

\* A step that commits nothing changes no row that was there.
Idle(r) ==
  /\ \A c \in ConnIds : conns[c] # None => conns'[c] = conns[c]
  /\ plans' = plans
  /\ \A c \in ConnIds : conns'[c] # conns[c] => r \notin Open
  /\ openAt' = openAt
  /\ \A s \in RequestIds : s # r => open'[s] = open[s]
LEMMA IdleKeepsRows ==
  ASSUME Inv, NEW r, Idle(r) PROVE RowsKept
BY DEF Idle, RowsKept

LEMMA WrittenKeepsConn ==
  ASSUME NEW row \in PlanRow, NEW asked, NEW loaded, NEW r
  PROVE  Written(row, asked, loaded, r).conn = row.conn
BY DEF Written

LEMMA CommitKeepsRows ==
  ASSUME Inv, NEW r \in Open, Commits(r) PROVE RowsKept
<1>1. ASSUME NEW c \in ConnIds, conns[c] # None
      PROVE  /\ conns'[c] # None /\ conns'[c].owner = conns[c].owner
             /\ conns'[c].status = "deleted" =>
                  \/ openAt'[c] = Open
                  \/ openAt'[c] = openAt[c] /\ conns[c].status = "deleted"
  <2>1. conns'[c] # None /\ conns'[c].owner = conns[c].owner
    BY <1>1 DEF Commits
  <2>2. openAt'[c] = IF conns'[c] # conns[c] /\ conns'[c].status = "deleted"
                     THEN Open ELSE openAt[c]
    BY <1>1, ControlConstants DEF Commits, End
  <2> QED BY <2>1, <2>2
<1>2. ASSUME NEW p \in PlanIds, plans[p] # None
      PROVE  /\ plans'[p] # None /\ plans'[p].conn = plans[p].conn
             /\ plans'[p].status = "deleted" =>
                  \/ openAt'[p] = Open
                  \/ openAt'[p] = openAt[p] /\ plans[p].status = "deleted"
  <2>1. plans[p] \in PlanRow
    BY <1>2 DEF Inv, TypeOK, PlanTable
  <2>2. plans'[p] # None /\ plans'[p].conn = plans[p].conn
    BY <1>2, <2>1, WrittenKeepsConn DEF Commits
  <2>3. openAt'[p] = IF plans'[p] # plans[p] /\ plans'[p].status = "deleted"
                     THEN Open ELSE openAt[p]
    BY <1>2, ControlConstants DEF Commits, End
  <2> QED BY <2>2, <2>3
<1> QED BY <1>1, <1>2 DEF RowsKept

\* The invariant of a step is that of the request that acts.
LEMMA EntitledIfActorIs ==
  ASSUME Inv, Entitled, RowsKept, NEW r \in RequestIds,
         \A s \in RequestIds : s # r => open'[s] = open[s],
         open'[r] # None => (Rightful(open[r]) /\ Early(r, open[r]))'
  PROVE  Entitled'
<1> SUFFICES ASSUME NEW s \in RequestIds, open'[s] # None
             PROVE  (Rightful(open[s]) /\ Early(s, open[s]))'
  BY DEF Entitled
<1>1. CASE s = r
  BY <1>1
<1>2. CASE s # r
  <2>1. s \in Open /\ open'[s] = open[s]
    BY <1>2 DEF Open
  <2> QED BY <2>1, OthersStayEntitled
<1> QED BY <1>1, <1>2

LEMMA CommitKeepsRights ==
  ASSUME Inv, Entitled, NEW r \in Open, Commits(r) PROVE Entitled'
<1>1. /\ r \in RequestIds /\ open'[r] = None
      /\ \A s \in RequestIds : s # r => open'[s] = open[s]
  BY Ends DEF Commits
<1> QED BY <1>1, CommitKeepsRows, EntitledIfActorIs

LEMMA BeginKeepsRights ==
  ASSUME Inv, Entitled, NEW q \in Request, Begin(q), Rightful(q), NEW r \in RequestIds, r = nextReq,
         Early(r, q)
  PROVE  Entitled' /\ Idle(r)
<1>1. /\ open'[r] = q /\ \A s \in RequestIds : s # r => open'[s] = open[s]
      /\ conns' = conns /\ plans' = plans /\ openAt' = openAt
  BY DEF Begin, Inv, TypeOK
<1>2. Idle(r)
  BY <1>1 DEF Idle
<1>3. (Rightful(open[r]) /\ Early(r, open[r]))'
  BY <1>1 DEF Rightful, Early
<1> QED BY <1>1, <1>2, <1>3, IdleKeepsRows, EntitledIfActorIs

LEMMA ArrivalIsIdle ==
  ASSUME Inv, Entitled, NEW caller \in Owners, Arrives(caller)
  PROVE  Entitled' /\ \E r \in RequestIds \ Open : Idle(r)
<1>0. PICK r \in RequestIds : r = nextReq
  BY ControlConstants DEF Arrives, CreateConnection, PatchConnectionReads, DeleteConnectionReads,
     CreatePlanReads, ChangePlanReads, Begin, Inv, TypeOK, RequestIds
<1>00. r \notin Open
  BY <1>0 DEF Inv, TypeOK, Begun, Open, RequestIds
<1>1. ASSUME NEW c \in ConnIds, NEW asked \in ConnChanges, PatchConnectionReads(caller, c, asked)
      PROVE  Entitled' /\ Idle(r)
  <2> DEFINE q == [op |-> "patch_connection", caller |-> caller, conn |-> c, seen |-> conns[c],
                   asked |-> asked]
  <2>1. q \in Request /\ Begin(q) /\ Rightful(q) /\ Early(r, q)
    BY <1>1, ControlConstants DEF PatchConnectionReads, Found, Request, PatchRequest, Inv, TypeOK,
       ConnTable, Rightful, Early
  <2> QED BY <1>0, <2>1, BeginKeepsRights
<1>2. ASSUME NEW c \in ConnIds, DeleteConnectionReads(caller, c)
      PROVE  Entitled' /\ Idle(r)
  <2> DEFINE q == [op |-> "delete_connection", caller |-> caller, conn |-> c, listed |-> FALSE,
                   loaded |-> [p \in PlanIds |-> None], before |-> {}]
  <2>1. q \in Request /\ Begin(q) /\ Rightful(q) /\ Early(r, q)
    BY <1>2 DEF DeleteConnectionReads, Found, Request, DeleteRequest, Rightful, Early
  <2> QED BY <1>0, <2>1, BeginKeepsRights
<1>3. ASSUME NEW post \in NewPlans, CreatePlanReads(caller, post)
      PROVE  Entitled' /\ Idle(r)
  <2> DEFINE q == [op |-> "create_plan", caller |-> caller, post |-> post]
  <2>1. q \in Request /\ Begin(q) /\ Rightful(q) /\ Early(r, q)
    BY <1>3, ControlConstants DEF CreatePlanReads, Found, Request, CreateRequest, Rightful, Early
  <2> QED BY <1>0, <2>1, BeginKeepsRights
<1>4. ASSUME NEW p \in PlanIds, NEW asked \in PlanChanges \cup {Deletion},
             ChangePlanReads(caller, p, asked)
      PROVE  Entitled' /\ Idle(r)
  <2> DEFINE q == [op |-> "change_plan", caller |-> caller, plan |-> p, seen |-> plans[p],
                   asked |-> asked, checked |-> FALSE]
  <2>1. asked \in PlanChange
    BY <1>4, ControlConstants, DeletionIsChange
  <2>2. q \in Request /\ Begin(q) /\ Rightful(q) /\ Early(r, q)
    BY <1>4, <2>1 DEF ChangePlanReads, Request, ChangeRequest, Inv, TypeOK, PlanTable,
       Rightful, Early
  <2> QED BY <1>0, <2>2, BeginKeepsRights
<1>5. ASSUME NEW c \in ConnIds, NEW status \in ConnStatuses, CreateConnection(caller, c, status)
      PROVE  Entitled' /\ Idle(r)
  <2>1. Idle(r) /\ \A s \in RequestIds : open'[s] = open[s]
    BY <1>00, <1>5 DEF CreateConnection, Idle, Inv, TypeOK, ConnTable
  <2>2. open'[r] = None
    BY <1>00, <2>1 DEF Open
  <2> QED BY <2>1, <2>2, IdleKeepsRows, EntitledIfActorIs
<1> QED BY <1>00, <1>1, <1>2, <1>3, <1>4, <1>5 DEF Arrives

\* Listing the plans and checking the connection of a plan change no row.
LEMMA ListingKeepsRights ==
  ASSUME Inv, Entitled, NEW r \in Open, DeleteConnectionLists(r)
  PROVE  Entitled' /\ Idle(r)
<1> DEFINE q == open[r]
           listed == [q EXCEPT !.listed = TRUE, !.before = Done,
                        !.loaded = [p \in PlanIds |-> IF Listed(q.conn, p) THEN plans[p] ELSE None]]
<1>1. /\ q \in DeleteRequest /\ r \in RequestIds /\ q.op = "delete_connection"
      /\ Rightful(q)
      /\ open' = [open EXCEPT ![r] = listed]
      /\ UNCHANGED <<conns, plans, nextReq, openAt, unaware>>
  BY RequestKinds DEF DeleteConnectionLists, Inv, Open, Entitled
<1>2. /\ listed.op = "delete_connection" /\ listed.conn = q.conn /\ listed.caller = q.caller
      /\ \A p \in PlanIds : listed.loaded[p] = IF Listed(q.conn, p) THEN plans[p] ELSE None
  BY <1>1 DEF DeleteRequest
<1>3. open'[r] = listed /\ \A s \in RequestIds : s # r => open'[s] = open[s]
  BY <1>1 DEF Inv, TypeOK
<1>4. Idle(r)
  BY <1>1, <1>3 DEF Idle
<1> HIDE DEF listed
<1>5. (Rightful(open[r]) /\ Early(r, open[r]))'
  BY <1>1, <1>2, <1>3 DEF Rightful, Early, Listed
<1> QED BY <1>1, <1>3, <1>4, <1>5, IdleKeepsRows, EntitledIfActorIs

LEMMA CheckingKeepsRights ==
  ASSUME Inv, Entitled, NEW r \in Open, ChangePlanChecks(r)
  PROVE  Entitled' /\ Idle(r)
<1> DEFINE q == open[r]
           checked == [q EXCEPT !.checked = TRUE]
<1>1. /\ q \in ChangeRequest /\ r \in RequestIds /\ q.op = "change_plan"
      /\ Rightful(q) /\ Early(r, q)
      /\ open' = IF Found(q.seen.conn, q.caller) THEN [open EXCEPT ![r] = checked]
                                                 ELSE [open EXCEPT ![r] = None]
      /\ UNCHANGED <<conns, plans, nextReq, openAt, unaware>>
  BY RequestKinds DEF ChangePlanChecks, Inv, Open, Entitled
<1>2. /\ checked.op = "change_plan" /\ checked.plan = q.plan /\ checked.seen = q.seen
      /\ checked.caller = q.caller
  BY <1>1 DEF ChangeRequest
<1>3. /\ open'[r] = IF Found(q.seen.conn, q.caller) THEN checked ELSE None
      /\ \A s \in RequestIds : s # r => open'[s] = open[s]
  BY <1>1 DEF Inv, TypeOK
<1>4. Idle(r)
  BY <1>1, <1>3 DEF Idle
<1> HIDE DEF checked
<1>5. open'[r] # None => (Rightful(open[r]) /\ Early(r, open[r]))'
  <2> SUFFICES ASSUME open'[r] # None PROVE (Rightful(open[r]) /\ Early(r, open[r]))'
    OBVIOUS
  <2>1. PICK c : c = checked
    OBVIOUS
  <2>2. open'[r] = c /\ conns[q.seen.conn].owner = q.caller
    BY <1>3, <2>1 DEF Found
  <2>3. /\ c.op = "change_plan" /\ c.plan = q.plan /\ c.seen = q.seen /\ c.caller = q.caller
        /\ plans[q.plan].conn = q.seen.conn
        /\ plans[q.plan].status = "deleted" => r \in openAt[q.plan]
    BY <1>1, <1>2, <2>1 DEF Rightful, Early
  <2> QED BY <1>1, <2>2, <2>3 DEF Rightful, Early
<1> QED BY <1>1, <1>3, <1>4, <1>5, IdleKeepsRows, EntitledIfActorIs

LEMMA AbortKeepsRights ==
  ASSUME Inv, Entitled, NEW r \in Open, Aborts(r)
  PROVE  Entitled' /\ Idle(r)
<1>1. /\ r \in RequestIds /\ open'[r] = None
      /\ \A s \in RequestIds : s # r => open'[s] = open[s]
  BY DEF Aborts, Open, Inv, TypeOK
<1>2. Idle(r)
  BY <1>1 DEF Aborts, Idle
<1> QED BY <1>1, <1>2, IdleKeepsRows, EntitledIfActorIs

\* Every step commits the writes of one request, or changes no row.
LEMMA StepKinds ==
  ASSUME Inv, Entitled, [Next]_vars
  PROVE  /\ Entitled'
         /\ \/ \E r \in Open : Commits(r)
            \/ \E r \in RequestIds : Idle(r)
            \/ UNCHANGED vars
<1>1. CASE UNCHANGED vars
  BY <1>1 DEF vars, Entitled, Rightful, Early
<1>2. ASSUME NEW caller \in Owners, Arrives(caller)
      PROVE  Entitled' /\ \E r \in RequestIds : Idle(r)
  BY <1>2, ArrivalIsIdle
<1>3. ASSUME NEW r \in Open, Proceeds(r)
      PROVE  Entitled' /\ (Commits(r) \/ Idle(r))
  BY <1>3, PatchConnectionEffect, DeleteConnectionEffect, CreatePlanEffect, ChangePlanEffect,
     CommitKeepsRights, ListingKeepsRights, CheckingKeepsRights, AbortKeepsRights DEF Proceeds
<1>4. \A r \in Open : r \in RequestIds
  BY DEF Open
<1> QED BY <1>1, <1>2, <1>3, <1>4 DEF Next

LEMMA EntitledAlways == Spec => []Entitled
<1>1. Init => Entitled
  BY DEF Init, Entitled
<1>2. Inv /\ Entitled /\ [Next]_vars => Entitled'
  BY StepKinds
<1> QED BY <1>1, <1>2, InvAlways, PTL DEF Spec

-----------------------------------------------------------------------------
LEMMA OneEnds ==
  ASSUME NEW r \in RequestIds, \A s \in RequestIds : s # r => open'[s] = open[s]
  PROVE  Ending \subseteq {r} \cap Open
BY DEF Ending, Open

LEMMA CommitEnds ==
  ASSUME Inv, NEW r \in Open, Commits(r)
  PROVE  Ending = {r} /\ r \in RequestIds
<1>1. /\ r \in RequestIds /\ open'[r] = None
      /\ \A s \in RequestIds : s # r => open'[s] = open[s]
  BY Ends DEF Commits
<1> QED BY <1>1, OneEnds DEF Ending

\* A deleted connection or plan is written only by a request that had read it
\* before, whatever requests overlap (the status guards of patch and delete).
THEOREM DeletionIsFinalThen == Spec => DeletionIsFinal
<1> DEFINE Final ==
      /\ \A c \in ConnIds : conns[c] # None =>
           (conns[c].status = "deleted" /\ conns'[c] # conns[c] => Ending \cap openAt[c] # {})
      /\ \A p \in PlanIds : plans[p] # None =>
           (plans[p].status = "deleted" /\ plans'[p] # plans[p] => Ending \cap openAt[p] # {})
<1>1. ASSUME Inv, Entitled, NEW r \in Open, Commits(r) PROVE Final
  <2> DEFINE q == open[r]
  <2>1. Ending = {r} /\ Early(r, q)
    BY <1>1, CommitEnds DEF Entitled, Open
  <2>2. ASSUME NEW c \in ConnIds, conns[c].status = "deleted", conns'[c] # conns[c]
        PROVE  r \in openAt[c]
    BY <1>1, <2>1, <2>2 DEF Commits, Early
  <2>3. ASSUME NEW p \in PlanIds, plans[p] # None, plans[p].status = "deleted",
               plans'[p] # plans[p]
        PROVE  r \in openAt[p]
    BY <1>1, <2>1, <2>3 DEF Commits, Early
  <2> QED BY <2>1, <2>2, <2>3
<1>2. Inv /\ Entitled /\ [Next]_vars => Final
  BY <1>1, StepKinds DEF Idle, vars
<1> QED BY <1>2, InvAlways, EntitledAlways, PTL DEF Spec, DeletionIsFinal

\* No request writes a connection or a plan of somebody else, though it reads the
\* plan and its connection at different times (the checks of owner_key).
THEOREM OnlyOwnersWrite == Spec => OwnersOnly
<1> DEFINE Owned == \A r \in Ending :
      /\ \A c \in ConnIds : conns'[c] # conns[c] => conns[c].owner = open[r].caller
      /\ \A p \in PlanIds : plans'[p] # plans[p] =>
           conns[plans'[p].conn].owner = open[r].caller
<1>1. ASSUME Inv, Entitled, NEW r \in Open, Commits(r) PROVE Owned
  <2> DEFINE q == open[r]
  <2>1. Ending = {r} /\ Rightful(q)
    BY <1>1, CommitEnds DEF Entitled, Open
  <2>2. ASSUME NEW c \in ConnIds, conns'[c] # conns[c] PROVE conns[c].owner = q.caller
    BY <1>1, <2>1, <2>2 DEF Commits, Rightful
  <2>3. ASSUME NEW p \in PlanIds, plans'[p] # plans[p]
        PROVE  conns[plans'[p].conn].owner = q.caller
    <3>1. plans[p] # None => plans'[p].conn = plans[p].conn
      BY <1>1, CommitKeepsRows DEF RowsKept
    <3> QED BY <1>1, <2>1, <2>3, <3>1 DEF Commits, Rightful
  <2> QED BY <2>1, <2>2, <2>3
<1>2. ASSUME NEW r \in RequestIds, Idle(r) PROVE Owned
  <2>1. Ending \subseteq {r} \cap Open
    BY <1>2, OneEnds DEF Idle
  <2> QED BY <1>2, <2>1 DEF Idle
<1>3. Inv /\ Entitled /\ [Next]_vars => Owned
  BY <1>1, <1>2, StepKinds DEF vars
<1> QED BY <1>3, InvAlways, EntitledAlways, PTL DEF Spec, OwnersOnly

\* A column that a write changes has the value that was asked for it.
LEMMA ChangedAsAsked ==
  ASSUME NEW row \in PlanRow, NEW asked, NEW loaded, NEW r, NEW column \in PlanColumns,
         Written(row, asked, loaded, r)[column] # row[column]
  PROVE  Written(row, asked, loaded, r)[column] = asked[column]
BY DEF Written, Column, PlanColumns, PlanRow

\* A commit changes no column of a plan but as its own request asked
\* (the flush of the changed columns).
THEOREM UpdatesAreKept == Spec => NoLostUpdate
<1> DEFINE NothingLost == \A p \in PlanIds : plans[p] # None =>
      \A column \in {n \in PlanColumns : plans'[p][n] # plans[p][n]} :
        \E r \in Ending :
          LET q == open[r]
          IN  plans'[p][column] = IF q.op = "change_plan" THEN q.asked[column]
                                  ELSE Deletion[column]
<1>1. ASSUME Inv, NEW r \in Open, Commits(r) PROVE NothingLost
  <2> DEFINE q == open[r]
  <2>1. r \in Ending
    BY <1>1, CommitEnds
  <2>2. ASSUME NEW p \in PlanIds, plans[p] # None, NEW column \in PlanColumns,
               plans'[p][column] # plans[p][column]
        PROVE  plans'[p][column] = IF q.op = "change_plan" THEN q.asked[column]
                                   ELSE Deletion[column]
    <3>1. plans[p] \in PlanRow /\ plans'[p] # plans[p]
      BY <1>1, <2>2 DEF Inv, TypeOK, PlanTable
    <3>2. CASE q.op = "change_plan"
      <4>1. plans'[p] = Written(plans[p], q.asked, q.seen, r)
        BY <1>1, <3>1, <3>2 DEF Commits
      <4>2. Written(plans[p], q.asked, q.seen, r)[column] = q.asked[column]
        BY <2>2, <3>1, <4>1, ChangedAsAsked
      <4> QED BY <3>2, <4>1, <4>2
    <3>3. CASE q.op # "change_plan"
      <4>1. plans'[p] = Written(plans[p], Deletion, q.loaded[p], r)
        BY <1>1, <2>2, <3>1, <3>3 DEF Commits
      <4>2. Written(plans[p], Deletion, q.loaded[p], r)[column] = Deletion[column]
        BY <2>2, <3>1, <4>1, ChangedAsAsked
      <4> QED BY <3>3, <4>1, <4>2
    <3> QED BY <3>2, <3>3
  <2> QED BY <2>1, <2>2
<1>2. Inv /\ Entitled /\ [Next]_vars => NothingLost
  BY <1>1, StepKinds DEF Idle, vars
<1> QED BY <1>2, InvAlways, EntitledAlways, PTL DEF Spec, NoLostUpdate

-----------------------------------------------------------------------------
Matches == [plan : PlanIds, row : PlanRow]

\* A plan as some query returned it: its connection is there, and stays.
Lies(match) == match \in Matches /\ conns[match.row.conn] # None

\* What a delivery under way relies on while the tables change.
HookSound(n) ==
  LET h == hooks[n]
  IN  /\ h.stage # "matched" => h.match = None
      /\ h.stage = "asking_any" => h.sig.owner = None
      /\ h.match # None => /\ Lies(h.match) /\ h.match \in seen[n]
                           /\ Serves(h.sig, h.match)
      /\ \A match \in steady[n] : Lies(match)
      /\ h.stage # "received" => \A match \in steady[n] :
           Serves(h.sig, match) => Rank(h.sig, match) <= Rank(h.sig, h.match)

\* What an admitted job keeps.
JobSound(n) == jobs[n].match # None => Lies(jobs[n].match) /\ Serves(jobs[n].sig, jobs[n].match)

PipelineInv ==
  /\ Inv
  /\ Entitled
  /\ PipelineTypeOK
  /\ \A n \in Deliveries : hooks[n] # None => HookSound(n)
  /\ \A n \in Deliveries : jobs[n] # None => JobSound(n)

-----------------------------------------------------------------------------
\* No step of the control plane takes a connection away or gives it to another.
ConnsStay ==
  \A c \in ConnIds : conns[c] # None => conns'[c] # None /\ conns'[c].owner = conns[c].owner

LEMMA ControlStep ==
  ASSUME Inv, Entitled, [Next]_vars
  PROVE  Inv' /\ Entitled' /\ ConnsStay
<1>1. Inv'
  BY NextInv
<1>2. /\ Entitled'
      /\ (\E r \in Open : Commits(r)) \/ (\E r \in RequestIds : Idle(r)) \/ UNCHANGED vars
  BY StepKinds
<1>3. ASSUME NEW r \in Open, Commits(r) PROVE ConnsStay
  BY <1>3, CommitKeepsRows DEF RowsKept, ConnsStay
<1>4. ASSUME NEW r \in RequestIds, Idle(r) PROVE ConnsStay
  BY <1>4, IdleKeepsRows DEF RowsKept, ConnsStay
<1>5. ASSUME UNCHANGED vars PROVE ConnsStay
  BY <1>5 DEF vars, ConnsStay
<1>. QED
  BY <1>1, <1>2, <1>3, <1>4, <1>5

\* The process ends and begins anew on the tables it left: nothing is open.
LEMMA RestartKeepsTables ==
  ASSUME Inv, Entitled, Restart
  PROVE  Inv' /\ Entitled' /\ ConnsStay
<1>1. /\ \A r \in RequestIds : open'[r] = None
      /\ open' \in [RequestIds -> Request \cup {None}]
      /\ UNCHANGED <<nextReq, conns, plans, openAt, unaware>>
  BY DEF Restart
<1>2. TypeOK' /\ NoForgottenPlan'
  BY <1>1 DEF Inv, TypeOK, NoForgottenPlan
<1>3. Done \subseteq Done'
  BY <1>1 DEF Done
<1>4. UnawareAreDone'
  BY <1>1, <1>3 DEF Inv, UnawareAreDone
<1>5. Begun' /\ Entitled' /\ (\A r \in RequestIds : open[r] # None => Sound(open[r]))'
  BY <1>1 DEF Begun, Entitled
<1>6. ConnsStay
  BY <1>1 DEF ConnsStay
<1>. QED
  BY <1>2, <1>4, <1>5, <1>6 DEF Inv

LEMMA TablesStay ==
  ASSUME PipelineInv, [PipelineNext]_allVars
  PROVE  Inv' /\ Entitled' /\ ConnsStay
<1>1. CASE Restart
  BY <1>1, RestartKeepsTables DEF PipelineInv
<1>2. CASE [Next]_vars
  BY <1>2, ControlStep DEF PipelineInv
<1>. QED
  BY <1>1, <1>2 DEF PipelineNext, allVars, control, vars

-----------------------------------------------------------------------------
\* The match a query makes of a plan.
Row(p) == [plan |-> p, row |-> plans[p]]

LEMMA RowLies ==
  ASSUME TypeOK, NEW p \in PlanIds, Runnable(p)
  PROVE  Lies(Row(p)) /\ Row(p) \in RunnableRows /\ Row(p) # None
         /\ Row(p).plan = p /\ Row(p).row = plans[p]
BY PipelineConstants DEF Row, Lies, Matches, Runnable, RunnableRows, TypeOK, PlanTable

\* What the queries see is what is runnable, and serves the signal or not.
LEMMA RunnableIsRow ==
  ASSUME TypeOK, NEW match \in RunnableRows
  PROVE  \E p \in PlanIds : Runnable(p) /\ match = Row(p)
BY DEF RunnableRows, Row

LEMMA ServedIsCandidate ==
  ASSUME NEW s, NEW p \in PlanIds, Runnable(p), Serves(s, Row(p))
  PROVE  p \in Candidates(s)
BY DEF Serves, Row, Candidates

LEMMA RankRange ==
  ASSUME NEW s, NEW match
  PROVE  Rank(s, match) \in 0..3
BY DEF Rank

LEMMA RankOfRow ==
  ASSUME NEW s, NEW p \in PlanIds, Row(p) # None
  PROVE  Rank(s, Row(p)) = IF p = s.plan THEN 3 ELSE IF plans[p].name = s.name THEN 2
                           ELSE IF plans[p].pair = s.symbol THEN 1 ELSE 0
BY DEF Rank, Row

\* Whatever fits the signal, something of the kind that fits best is preferred.
LEMMA PreferredFitsBest ==
  ASSUME TypeOK, NEW s, NEW p \in Preferred(s, Candidates(s)), NEW q \in Candidates(s)
  PROVE  p \in Candidates(s) /\ Rank(s, Row(q)) <= Rank(s, Row(p))
<1>1. p \in Candidates(s)
  BY DEF Preferred, ByPair
<1>2. /\ Row(p) # None /\ Row(q) # None
      /\ p \in PlanIds /\ q \in PlanIds
  BY <1>1, RowLies DEF Candidates
<1>. QED
  BY <1>1, <1>2, RankOfRow DEF Preferred, ByPair

LEMMA NothingPreferred ==
  ASSUME TypeOK, NEW s, Preferred(s, Candidates(s)) = {}, NEW q \in Candidates(s)
  PROVE  Rank(s, Row(q)) = 0
<1>1. Row(q) # None /\ q \in PlanIds
  BY RowLies DEF Candidates
<1>. QED
  BY <1>1, RankOfRow DEF Preferred, ByPair

\* Of the plans that fit alike one was updated last (ORDER BY updated_at DESC).
LEMMA NewestExists ==
  ASSUME TypeOK, NEW set \in SUBSET PlanIds, set # {}, \A p \in set : plans[p] # None
  PROVE  Newest(set) # {}
<1>1. PICK times : times = {plans[p].updated : p \in set}
  OBVIOUS
<1>2. \A p \in set : plans[p].updated \in 0..MaxRequests
  BY DEF TypeOK, PlanTable, PlanRow
<1>3. times \subseteq 0..MaxRequests /\ times # {}
  BY <1>1, <1>2
<1>4. IsFiniteSet(times)
  <2>1. MaxRequests \in Int
    BY ControlConstants
  <2>2. IsFiniteSet(0..MaxRequests)
    BY <2>1, FS_Interval
  <2>3. times \in SUBSET (0..MaxRequests)
    BY <1>3
  <2>. QED
    BY <2>2, <2>3, FS_Subset
<1>5. PICK t \in times : \A u \in times : u <= t
  <2>1. times \subseteq Int
    BY <1>3
  <2>. QED
    BY <1>3, <1>4, <2>1, GreatestNumber
<1>6. PICK p \in set : plans[p].updated = t
  BY <1>1
<1>7. p \in Newest(set)
  BY <1>1, <1>5, <1>6 DEF Newest
<1>. QED
  BY <1>7

-----------------------------------------------------------------------------
\* What the history keeps of a delivery under way.
LEMMA Witnessed ==
  ASSUME Witness, NEW n \in Deliveries, hooks'[n] # None
  PROVE  /\ seen'[n] = seen[n] \cup RunnableRows'
         /\ steady'[n] \subseteq RunnableRows'
         /\ hooks[n] # None => steady'[n] \subseteq steady[n]
<1>1. /\ seen'[n] = seen[n] \cup RunnableRows'
      /\ steady'[n] = IF hooks[n] = None THEN RunnableRows' ELSE steady[n] \cap RunnableRows'
  BY DEF Witness
<1>. QED
  BY <1>1

LEMMA RunnableLies ==
  ASSUME TypeOK', NEW match, match \in RunnableRows'
  PROVE  Lies(match)'
<1>1. PICK p \in PlanIds : match = [plan |-> p, row |-> plans'[p]] /\ Runnable(p)'
  BY DEF RunnableRows
<1>. QED
  BY <1>1 DEF Lies, Matches, Runnable, TypeOK, PlanTable

\* Whom a plan under a connection serves does not change.
LEMMA ServesStays ==
  ASSUME ConnsStay, NEW s, NEW match, Lies(match)
  PROVE  Lies(match)' /\ (Serves(s, match)' <=> Serves(s, match))
<1>1. match.row.conn \in ConnIds
  BY DEF Lies, Matches, PlanRow
<1>. QED
  BY <1>1 DEF ConnsStay, Lies, Serves

\* A delivery that does not act stays sound.
LEMMA OthersStayHooked ==
  ASSUME ConnsStay, TypeOK', Witness, NEW n \in Deliveries, hooks[n] # None, HookSound(n),
         hooks'[n] = hooks[n]
  PROVE  HookSound(n)'
<1>1. PICK h : h = hooks[n]
  OBVIOUS
<1>2. /\ seen[n] \subseteq seen'[n]
      /\ steady'[n] \subseteq steady[n]
      /\ \A match \in steady'[n] : Lies(match)'
  BY Witnessed, RunnableLies
<1>3. /\ h.stage # "matched" => h.match = None
      /\ h.stage = "asking_any" => h.sig.owner = None
      /\ h.match # None => Lies(h.match) /\ h.match \in seen[n] /\ Serves(h.sig, h.match)
      /\ \A match \in steady[n] : Lies(match)
      /\ h.stage # "received" => \A match \in steady[n] :
           Serves(h.sig, match) => Rank(h.sig, match) <= Rank(h.sig, h.match)
  BY <1>1 DEF HookSound
<1>4. h.match # None => Lies(h.match)' /\ h.match \in seen'[n] /\ Serves(h.sig, h.match)'
  BY <1>2, <1>3, ServesStays
<1>5. ASSUME h.stage # "received", NEW match \in steady'[n], Serves(h.sig, match)'
      PROVE  Rank(h.sig, match) <= Rank(h.sig, h.match)
  <2>1. match \in steady[n] /\ Lies(match)
    BY <1>2, <1>3
  <2>2. Serves(h.sig, match)
    BY <1>5, <2>1, ServesStays
  <2>. QED
    BY <1>3, <1>5, <2>1, <2>2
<1>6. hooks'[n] = h
  BY <1>1
<1>. QED
  BY <1>2, <1>3, <1>4, <1>5, <1>6 DEF HookSound

LEMMA JobStays ==
  ASSUME ConnsStay, NEW n \in Deliveries, JobSound(n), jobs'[n] = jobs[n]
  PROVE  JobSound(n)'
<1>1. PICK job : job = jobs[n]
  OBVIOUS
<1>2. job.match # None => Lies(job.match) /\ Serves(job.sig, job.match)
  BY <1>1 DEF JobSound
<1>3. job.match # None => Lies(job.match)' /\ Serves(job.sig, job.match)'
  BY <1>2, ServesStays
<1>4. jobs'[n] = job
  BY <1>1
<1>. QED
  BY <1>3, <1>4 DEF JobSound

-----------------------------------------------------------------------------
\* A step in which delivery n becomes h, or ends.
Becomes(n, h) == hooks' = [hooks EXCEPT ![n] = h]

LEMMA BecomingKeepsOthers ==
  ASSUME PipelineInv, TypeOK', ConnsStay, Witness, NEW n \in Deliveries,
         NEW h \in Hook \cup {None}, Becomes(n, h), h # None => HookSound(n)'
  PROVE  /\ hooks' \in [Deliveries -> Hook \cup {None}]
         /\ (\A k \in Deliveries : hooks[k] # None => HookSound(k))'
<1>1. /\ hooks' \in [Deliveries -> Hook \cup {None}]
      /\ hooks'[n] = h
      /\ \A k \in Deliveries : k # n => hooks'[k] = hooks[k]
  BY DEF PipelineInv, PipelineTypeOK, Becomes
<1>2. ASSUME NEW k \in Deliveries, hooks'[k] # None PROVE HookSound(k)'
  <2>1. CASE k = n
    BY <1>1, <1>2, <2>1
  <2>2. CASE k # n
    <3>1. hooks'[k] = hooks[k] /\ hooks[k] # None
      BY <1>1, <1>2, <2>2
    <3>2. HookSound(k)
      BY <3>1 DEF PipelineInv
    <3>. QED
      BY <3>1, <3>2, OthersStayHooked
  <2>. QED
    BY <2>1, <2>2
<1>. QED
  BY <1>1, <1>2

\* Of the tables nothing changes while a query is answered.
LEMMA QuietTables ==
  ASSUME PipelineInv, UNCHANGED control
  PROVE  /\ Inv' /\ TypeOK' /\ Entitled' /\ ConnsStay
         /\ RunnableRows' = RunnableRows
<1>1. UNCHANGED vars
  BY DEF control, vars
<1>2. Inv' /\ Entitled' /\ ConnsStay
  BY <1>1, ControlStep DEF PipelineInv
<1>3. RunnableRows' = RunnableRows
  BY <1>1 DEF vars, RunnableRows, Runnable
<1>. QED
  BY <1>2, <1>3 DEF Inv

\* The answer is sound when it is a candidate that no steady plan outranks, or
\* none where no steady plan fits.
LEMMA AnswerIsSound ==
  ASSUME PipelineInv, UNCHANGED control, Witness, NEW n \in Deliveries, hooks[n] # None,
         NEW h \in Hook, hooks'[n] = h,
         h.stage = "matched" \/ (h.stage = "asking_any" /\ h.match = None /\ h.sig.owner = None),
         h.match # None => \E p \in Candidates(h.sig) : h.match = Row(p),
         \A match \in steady'[n] :
           Serves(h.sig, match) => Rank(h.sig, match) <= Rank(h.sig, h.match)
  PROVE  HookSound(n)'
<1>1. /\ TypeOK /\ TypeOK' /\ ConnsStay /\ RunnableRows' = RunnableRows
  BY QuietTables DEF PipelineInv, Inv
<1>2. hooks'[n] # None
  BY PipelineConstants
<1>3. /\ seen'[n] = seen[n] \cup RunnableRows
      /\ steady'[n] \subseteq RunnableRows'
  BY <1>1, <1>2, Witnessed
<1>4. \A match \in steady'[n] : Lies(match)'
  BY <1>1, <1>3, RunnableLies
<1>5. h.match # None => Lies(h.match)' /\ h.match \in seen'[n] /\ Serves(h.sig, h.match)'
  <2>1. SUFFICES ASSUME h.match # None
                 PROVE  Lies(h.match)' /\ h.match \in seen'[n] /\ Serves(h.sig, h.match)'
    OBVIOUS
  <2>2. PICK p \in Candidates(h.sig) : h.match = Row(p)
    BY <2>1
  <2>3. /\ p \in PlanIds /\ Runnable(p)
        /\ h.sig.owner \in {None, conns[plans[p].conn].owner}
    BY DEF Candidates
  <2>4. Lies(h.match) /\ h.match \in RunnableRows /\ h.match.row = plans[p]
    BY <1>1, <2>2, <2>3, RowLies
  <2>5. Serves(h.sig, h.match)
    BY <2>3, <2>4 DEF Serves
  <2>. QED
    BY <1>1, <1>3, <2>4, <2>5, ServesStays
<1>6. \A match \in steady'[n] : Serves(h.sig, match)' => Serves(h.sig, match)
  BY DEF control, Serves
<1>. QED
  BY <1>4, <1>5, <1>6 DEF HookSound

\* The second query asks for nobody's plan in particular.
LEMMA SteadyIsCandidate ==
  ASSUME PipelineInv, UNCHANGED control, Witness, NEW n \in Deliveries, hooks'[n] # None,
         NEW match \in steady'[n], NEW s, Serves(s, match)
  PROVE  \E q \in Candidates(s) : match = Row(q)
<1>1. TypeOK /\ match \in RunnableRows
  BY QuietTables, Witnessed DEF PipelineInv, Inv
<1>2. PICK q \in PlanIds : Runnable(q) /\ match = Row(q)
  BY <1>1, RunnableIsRow
<1>. QED
  BY <1>2, ServedIsCandidate

LEMMA MatchedBecomes ==
  ASSUME PipelineInv, NEW n \in Deliveries, hooks[n] # None,
         NEW p, p = None \/ (p \in PlanIds /\ Runnable(p)), Matched(n, p)
  PROVE  \E h \in Hook :
           /\ Becomes(n, h)
           /\ h.sig = hooks[n].sig /\ h.stage = "matched"
           /\ h.match = IF p = None THEN None ELSE Row(p)
<1>1. hooks[n] \in Hook /\ hooks \in [Deliveries -> Hook \cup {None}]
  BY DEF PipelineInv, PipelineTypeOK
<1>2. PICK m : m = IF p = None THEN None ELSE Row(p)
  OBVIOUS
<1>3. m \in Match
  BY <1>2, RowLies DEF PipelineInv, Inv, Lies, Matches, Match
<1>4. PICK h : h = [sig |-> hooks[n].sig, stage |-> "matched", match |-> m]
  OBVIOUS
<1>5. h \in Hook
  BY <1>1, <1>3, <1>4 DEF Hook
<1>6. hooks' = [hooks EXCEPT ![n].stage = "matched", ![n].match = m]
  BY <1>2 DEF Matched, Row
<1>7. hooks' = [hooks EXCEPT ![n] = h]
  <2>1. PICK f : f = [hooks EXCEPT ![n].stage = "matched"]
    OBVIOUS
  <2>2. hooks' = [f EXCEPT ![n].match = m]
    BY <1>6, <2>1
  <2>3. PICK asked : asked = [hooks[n] EXCEPT !.stage = "matched"]
    OBVIOUS
  <2>4. f = [hooks EXCEPT ![n] = asked]
    BY <2>1, <2>3
  <2>5. [asked EXCEPT !.match = m] = h
    <3>1. PICK g : g = hooks[n]
      OBVIOUS
    <3>2. asked = [sig |-> g.sig, stage |-> "matched", match |-> g.match]
      BY <1>1, <2>3, <3>1 DEF Hook
    <3>. QED
      BY <1>4, <3>1, <3>2
  <2>6. f[n] = asked /\ hooks' = [f EXCEPT ![n] = [asked EXCEPT !.match = m]]
    BY <1>1, <2>2, <2>4
  <2>7. hooks' = [f EXCEPT ![n] = h]
    BY <2>5, <2>6
  <2>. QED
    BY <1>1, <2>4, <2>7
<1>. QED
  BY <1>2, <1>4, <1>5, <1>7 DEF Becomes

LEMMA JobsStay ==
  ASSUME PipelineInv, ConnsStay, jobs' = jobs
  PROVE  (\A n \in Deliveries : jobs[n] # None => JobSound(n))'
BY JobStays DEF PipelineInv

LEMMA HookStep ==
  ASSUME PipelineInv, UNCHANGED control, Witness, NEW n \in Deliveries,
         NEW h \in Hook \cup {None}, Becomes(n, h), h # None => HookSound(n)',
         UNCHANGED <<inbox, jobs, nextHook>>
  PROVE  PipelineInv'
<1>1. Inv' /\ TypeOK' /\ Entitled' /\ ConnsStay
  BY QuietTables
<1>2. /\ hooks' \in [Deliveries -> Hook \cup {None}]
      /\ (\A k \in Deliveries : hooks[k] # None => HookSound(k))'
  BY <1>1, BecomingKeepsOthers
<1>3. (\A k \in Deliveries : jobs[k] # None => JobSound(k))'
  BY <1>1, JobsStay
<1>4. PipelineTypeOK'
  BY <1>2 DEF PipelineInv, PipelineTypeOK
<1>. QED
  BY <1>1, <1>2, <1>3, <1>4 DEF PipelineInv

-----------------------------------------------------------------------------
\* The first query takes what fits best of all it sees, and a plan that was
\* steadily there is among these.
LEMMA QueryKeepsInv ==
  ASSUME PipelineInv, UNCHANGED control, Witness, NEW n \in Running, Query(n)
  PROVE  PipelineInv'
<1> DEFINE s == hooks[n].sig
           best == Newest(Preferred(s, Candidates(s)))
<1>1. /\ n \in Deliveries /\ hooks[n] # None /\ hooks[n] \in Hook
      /\ hooks[n].match = None
      /\ TypeOK
      /\ UNCHANGED <<inbox, jobs, nextHook>>
  BY DEF Running, Query, PipelineInv, PipelineTypeOK, Inv, HookSound
<1>2. ASSUME NEW p \in best, Matched(n, p) PROVE PipelineInv'
  <2>1. p \in Preferred(s, Candidates(s))
    BY <1>2 DEF Newest
  <2>2. p \in Candidates(s)
    BY <2>1 DEF Preferred, ByPair
  <2>3. p \in PlanIds /\ Runnable(p) /\ p # None
    BY <2>2, PipelineConstants DEF Candidates
  <2>4. PICK h \in Hook : /\ Becomes(n, h)
                         /\ h.sig = s /\ h.stage = "matched" /\ h.match = Row(p)
    BY <1>1, <1>2, <2>3, MatchedBecomes
  <2>5. hooks'[n] = h /\ h # None
    BY <1>1, <2>4, PipelineConstants DEF Becomes, PipelineInv, PipelineTypeOK
  <2>6. ASSUME NEW match \in steady'[n], Serves(h.sig, match)
        PROVE  Rank(h.sig, match) <= Rank(h.sig, h.match)
    <3>1. PICK q \in Candidates(h.sig) : match = Row(q)
      BY <1>1, <2>5, <2>6, SteadyIsCandidate
    <3>2. Rank(s, Row(q)) <= Rank(s, Row(p))
      BY <1>1, <2>1, <2>4, <3>1, PreferredFitsBest
    <3>. QED
      BY <2>4, <3>1, <3>2
  <2>7. HookSound(n)'
    BY <1>1, <2>2, <2>4, <2>5, <2>6, AnswerIsSound
  <2>. QED
    BY <1>1, <2>4, <2>7, HookStep
<1>3. ASSUME best = {}, NEW match \in steady'[n], hooks'[n] # None, Serves(s, match)
      PROVE  Rank(s, match) = 0
  <2>1. PICK q \in Candidates(s) : match = Row(q)
    BY <1>1, <1>3, SteadyIsCandidate
  <2>2. Preferred(s, Candidates(s)) = {}
    <3>1. /\ Preferred(s, Candidates(s)) \in SUBSET PlanIds
          /\ \A p \in Preferred(s, Candidates(s)) : plans[p] # None
      BY DEF Preferred, ByPair, Candidates, Runnable
    <3>. QED
      BY <1>1, <1>3, <3>1, NewestExists
  <2>. QED
    BY <1>1, <2>1, <2>2, NothingPreferred
<1>4. ASSUME best = {}, Matched(n, None) PROVE PipelineInv'
  <2>1. PICK h \in Hook : /\ Becomes(n, h)
                         /\ h.sig = s /\ h.stage = "matched" /\ h.match = None
    BY <1>1, <1>4, MatchedBecomes
  <2>2. hooks'[n] = h /\ h # None
    BY <1>1, <2>1, PipelineConstants DEF Becomes, PipelineInv, PipelineTypeOK
  <2>3. \A match \in steady'[n] :
          Serves(h.sig, match) => Rank(h.sig, match) <= Rank(h.sig, h.match)
    BY <1>3, <1>4, <2>1, <2>2, RankRange
  <2>4. HookSound(n)'
    BY <1>1, <2>1, <2>2, <2>3, AnswerIsSound
  <2>. QED
    BY <1>1, <2>1, <2>4, HookStep
<1>5. ASSUME best = {}, s.owner = None, hooks' = [hooks EXCEPT ![n].stage = "asking_any"]
      PROVE  PipelineInv'
  <2>1. PICK h : h = [hooks[n] EXCEPT !.stage = "asking_any"]
    OBVIOUS
  <2>2. h \in Hook /\ h.sig = s /\ h.stage = "asking_any" /\ h.match = None
    BY <1>1, <2>1 DEF Hook
  <2>3. Becomes(n, h)
    BY <1>5, <2>1 DEF Becomes
  <2>4. hooks'[n] = h /\ h # None
    BY <1>1, <2>2, <2>3, PipelineConstants DEF Becomes, PipelineInv, PipelineTypeOK
  <2>5. \A match \in steady'[n] :
          Serves(h.sig, match) => Rank(h.sig, match) <= Rank(h.sig, h.match)
    BY <1>3, <1>5, <2>2, <2>4, RankRange
  <2>6. HookSound(n)'
    BY <1>1, <1>5, <2>2, <2>4, <2>5, AnswerIsSound
  <2>. QED
    BY <1>1, <2>2, <2>3, <2>6, HookStep
<1>. QED
  BY <1>2, <1>4, <1>5 DEF Query

\* The second query is asked when nothing fitted: whatever it finds is no worse.
LEMMA QueryAnyKeepsInv ==
  ASSUME PipelineInv, UNCHANGED control, Witness, NEW n \in Running, QueryAny(n)
  PROVE  PipelineInv'
<1> DEFINE s == hooks[n].sig
<1>1. /\ n \in Deliveries /\ hooks[n] # None /\ hooks[n] \in Hook
      /\ HookSound(n)
      /\ hooks[n].stage = "asking_any"
      /\ TypeOK
      /\ UNCHANGED <<inbox, jobs, nextHook>>
  BY DEF Running, QueryAny, PipelineInv, PipelineTypeOK, Inv
<1>2. s.owner = None /\ hooks[n].match = None
  BY <1>1 DEF HookSound
<1>3. PICK p : Matched(n, p) /\ (p = None \/ (p \in PlanIds /\ Runnable(p)))
  BY DEF QueryAny, ByPair
<1>4. PICK h \in Hook : /\ Becomes(n, h)
                       /\ h.sig = s /\ h.stage = "matched"
                       /\ h.match = IF p = None THEN None ELSE Row(p)
  BY <1>1, <1>3, MatchedBecomes
<1>5. hooks'[n] = h /\ h # None
  BY <1>1, <1>4, PipelineConstants DEF Becomes, PipelineInv, PipelineTypeOK
<1>6. h.match # None => \E q \in Candidates(h.sig) : h.match = Row(q)
  BY <1>2, <1>3, <1>4 DEF Candidates
<1>7. ASSUME NEW match \in steady'[n], Serves(h.sig, match)
      PROVE  Rank(h.sig, match) <= Rank(h.sig, h.match)
  <2>1. match \in steady[n]
    BY <1>1, <1>5, Witnessed
  <2>2. Rank(s, match) <= Rank(s, None)
    BY <1>1, <1>2, <1>4, <1>7, <2>1 DEF HookSound
  <2>3. Rank(s, None) = 0 /\ Rank(s, match) \in 0..3 /\ Rank(s, h.match) \in 0..3
    BY RankRange DEF Rank
  <2>. QED
    BY <1>4, <2>2, <2>3
<1>8. HookSound(n)'
  BY <1>1, <1>4, <1>5, <1>6, <1>7, AnswerIsSound
<1>. QED
  BY <1>1, <1>4, <1>8, HookStep

LEMMA DropKeepsInv ==
  ASSUME PipelineInv, UNCHANGED control, Witness, NEW n \in Running, Drop(n)
  PROVE  PipelineInv'
<1>1. n \in Deliveries /\ Becomes(n, None) /\ UNCHANGED <<inbox, jobs, nextHook>>
  BY DEF Running, Drop, Becomes
<1>. QED
  BY <1>1, HookStep

\* A job is judged by the match its delivery came back with.
LEMMA AdmitEffect ==
  ASSUME PipelineInv, NEW n \in Running, Admit(n)
  PROVE  /\ n \in Deliveries /\ hooks[n] \in Hook /\ HookSound(n)
         /\ hooks[n].stage = "matched"
         /\ Becomes(n, None)
         /\ \E job \in Job :
              /\ job.sig = hooks[n].sig /\ job.match = hooks[n].match
              /\ jobs' = [jobs EXCEPT ![n] = job]
         /\ UNCHANGED <<inbox, nextHook>>
<1>1. n \in Deliveries /\ hooks[n] # None
  BY DEF Running
<1>2. hooks[n] \in Hook /\ HookSound(n)
  BY <1>1 DEF PipelineInv, PipelineTypeOK
<1>3. PICK job : job = [sig |-> hooks[n].sig, match |-> hooks[n].match]
  OBVIOUS
<1>4. job \in Job /\ job.sig = hooks[n].sig /\ job.match = hooks[n].match
  BY <1>2, <1>3 DEF Hook, Job
<1>5. jobs' = [jobs EXCEPT ![n] = job]
  BY <1>3 DEF Admit
<1>. QED
  BY <1>1, <1>2, <1>4, <1>5 DEF Admit, Becomes

LEMMA AdmitKeepsInv ==
  ASSUME PipelineInv, UNCHANGED control, Witness, NEW n \in Running, Admit(n)
  PROVE  PipelineInv'
<1>1. PICK job \in Job : /\ job.sig = hooks[n].sig /\ job.match = hooks[n].match
                        /\ jobs' = [jobs EXCEPT ![n] = job]
  BY AdmitEffect
<1>2. /\ n \in Deliveries /\ HookSound(n) /\ Becomes(n, None)
      /\ UNCHANGED <<inbox, nextHook>>
  BY AdmitEffect
<1>3. Inv' /\ TypeOK' /\ Entitled' /\ ConnsStay
  BY QuietTables
<1>4. /\ hooks' \in [Deliveries -> Hook \cup {None}]
      /\ (\A k \in Deliveries : hooks[k] # None => HookSound(k))'
  BY <1>2, <1>3, BecomingKeepsOthers
<1>5. /\ jobs' \in [Deliveries -> Job \cup {None}]
      /\ jobs'[n] = job
      /\ \A k \in Deliveries : k # n => jobs'[k] = jobs[k]
  BY <1>1, <1>2 DEF PipelineInv, PipelineTypeOK
<1>6. ASSUME NEW k \in Deliveries, jobs'[k] # None PROVE JobSound(k)'
  <2>1. CASE k = n
    <3>1. job.match # None => Lies(job.match) /\ Serves(job.sig, job.match)
      BY <1>1, <1>2 DEF HookSound
    <3>2. job.match # None => Lies(job.match)' /\ Serves(job.sig, job.match)'
      BY <1>3, <3>1, ServesStays
    <3>. QED
      BY <1>5, <2>1, <3>2 DEF JobSound
  <2>2. CASE k # n
    BY <1>3, <1>5, <1>6, <2>2, JobStays DEF PipelineInv
  <2>. QED
    BY <2>1, <2>2
<1>7. PipelineTypeOK'
  BY <1>2, <1>4, <1>5 DEF PipelineInv, PipelineTypeOK
<1>. QED
  BY <1>3, <1>4, <1>6, <1>7 DEF PipelineInv

\* The newest InboxCap deliveries stay in the inbox (del _signal_inbox[200:]).
LEMMA KeptType ==
  ASSUME NEW list \in Seq(Deliveries)
  PROVE  Kept(list) \in Seq(Deliveries) /\ Len(Kept(list)) <= InboxCap
<1>1. PICK cut \in Int : cut = IF Len(list) < InboxCap THEN Len(list) ELSE InboxCap
  BY PipelineConstants
<1>2. cut <= Len(list) /\ cut <= InboxCap /\ cut >= 0
  BY <1>1, PipelineConstants
<1>3. \A i \in 1..cut : list[i] \in Deliveries
  BY <1>2
<1>4. SubSeq(list, 1, cut) \in Seq(Deliveries)
      /\ Len(SubSeq(list, 1, cut)) = IF 1 <= cut THEN cut - 1 + 1 ELSE 0
  BY <1>3, SubSeqProperties
<1>. QED
  BY <1>1, <1>2, <1>4, PipelineConstants DEF Kept

LEMMA ReceiveKeepsInv ==
  ASSUME PipelineInv, UNCHANGED control, Witness, NEW s \in Signals, Receive(s)
  PROVE  PipelineInv'
<1>1. PICK n : n = nextHook
  OBVIOUS
<1>2. n \in Deliveries /\ n + 1 \in 1..(MaxSignals + 1)
  BY <1>1, PipelineConstants DEF Receive, PipelineInv, PipelineTypeOK, Deliveries
<1>3. PICK h : h = [sig |-> s, stage |-> "received", match |-> None]
  OBVIOUS
<1>4. h \in Hook /\ h # None /\ h.stage = "received" /\ h.match = None
  <2>1. h \in Hook
    BY <1>3 DEF Hook, Match
  <2>. QED
    BY <1>3, <2>1, PipelineConstants
<1>5. Becomes(n, h)
  BY <1>1, <1>3 DEF Receive, Becomes
<1>6. Inv' /\ TypeOK' /\ Entitled' /\ ConnsStay
  BY QuietTables
<1>7. hooks'[n] = h
  BY <1>2, <1>5 DEF Becomes, PipelineInv, PipelineTypeOK
<1>8. HookSound(n)'
  <2>1. \A match \in steady'[n] : Lies(match)'
    BY <1>2, <1>4, <1>6, <1>7, Witnessed, RunnableLies
  <2>. QED
    BY <1>4, <1>7, <2>1 DEF HookSound
<1>9. /\ hooks' \in [Deliveries -> Hook \cup {None}]
      /\ (\A k \in Deliveries : hooks[k] # None => HookSound(k))'
  BY <1>2, <1>4, <1>5, <1>6, <1>8, BecomingKeepsOthers
<1>10. (\A k \in Deliveries : jobs[k] # None => JobSound(k))'
  BY <1>6, JobsStay DEF Receive
<1>11. inbox' \in Seq(Deliveries) /\ Len(inbox') <= InboxCap
  <2>1. <<n>> \o inbox \in Seq(Deliveries)
    BY <1>2, ConcatProperties DEF PipelineInv, PipelineTypeOK
  <2>2. inbox' = Kept(<<n>> \o inbox)
    BY <1>1 DEF Receive
  <2>. QED
    BY <2>1, <2>2, KeptType
<1>12. PipelineTypeOK'
  BY <1>1, <1>2, <1>9, <1>11 DEF PipelineInv, PipelineTypeOK, Receive
<1>. QED
  BY <1>6, <1>9, <1>10, <1>12 DEF PipelineInv

LEMMA RestartKeepsInv ==
  ASSUME PipelineInv, Restart
  PROVE  PipelineInv'
<1>1. Inv' /\ Entitled'
  BY RestartKeepsTables DEF PipelineInv
<1>2. /\ \A n \in Deliveries : hooks'[n] = None /\ jobs'[n] = None
      /\ PipelineTypeOK'
  BY PipelineConstants DEF Restart, PipelineInv, PipelineTypeOK
<1>. QED
  BY <1>1, <1>2 DEF PipelineInv

\* The requests of the control plane change rows, and no owner of a connection.
LEMMA ControlKeepsInv ==
  ASSUME PipelineInv, [Next]_vars, UNCHANGED pipeline, Witness
  PROVE  PipelineInv'
<1>1. Inv' /\ TypeOK' /\ Entitled' /\ ConnsStay
  BY ControlStep DEF PipelineInv, Inv
<1>2. ASSUME NEW n \in Deliveries, hooks'[n] # None PROVE HookSound(n)'
  BY <1>1, <1>2, OthersStayHooked DEF PipelineInv, pipeline
<1>3. (\A n \in Deliveries : jobs[n] # None => JobSound(n))'
  BY <1>1, JobsStay DEF pipeline
<1>4. PipelineTypeOK'
  BY DEF pipeline, PipelineInv, PipelineTypeOK
<1>. QED
  BY <1>1, <1>2, <1>3, <1>4 DEF PipelineInv

LEMMA PipelineStarts == PipelineInit => PipelineInv
<1> SUFFICES ASSUME PipelineInit PROVE PipelineInv
  OBVIOUS
<1>1. Inv /\ Entitled
  BY InitInv DEF PipelineInit, Init, Entitled
<1>2. PipelineTypeOK
  BY PipelineConstants DEF PipelineInit, PipelineTypeOK
<1>3. \A n \in Deliveries : hooks[n] = None /\ jobs[n] = None
  BY DEF PipelineInit
<1>. QED
  BY <1>1, <1>2, <1>3 DEF PipelineInv

LEMMA PipelineStep == PipelineInv /\ [PipelineNext]_allVars => PipelineInv'
<1> SUFFICES ASSUME PipelineInv, [PipelineNext]_allVars PROVE PipelineInv'
  OBVIOUS
<1>1. CASE UNCHANGED allVars
  <2>1. /\ UNCHANGED <<vars, inbox, hooks, jobs, nextHook, seen, steady>>
        /\ UNCHANGED <<conns, plans>>
    BY <1>1 DEF allVars, control, pipeline, vars
  <2>2. Inv' /\ Entitled'
    BY <2>1, ControlStep DEF PipelineInv
  <2>3. PipelineTypeOK'
    BY <2>1 DEF PipelineInv, PipelineTypeOK
  <2>4. /\ (\A n \in Deliveries : hooks[n] # None => HookSound(n))'
        /\ (\A n \in Deliveries : jobs[n] # None => JobSound(n))'
    BY <2>1 DEF PipelineInv, HookSound, JobSound, Lies, Serves
  <2>. QED
    BY <2>2, <2>3, <2>4 DEF PipelineInv
<1>2. CASE PipelineNext
  <2>1. Witness
    BY <1>2 DEF PipelineNext
  <2>2. CASE Next /\ UNCHANGED pipeline
    BY <2>1, <2>2, ControlKeepsInv
  <2>3. ASSUME NEW s \in Signals, Receive(s), UNCHANGED control PROVE PipelineInv'
    BY <2>1, <2>3, ReceiveKeepsInv
  <2>4. ASSUME NEW n \in Running, Query(n), UNCHANGED control PROVE PipelineInv'
    BY <2>1, <2>4, QueryKeepsInv
  <2>5. ASSUME NEW n \in Running, QueryAny(n), UNCHANGED control PROVE PipelineInv'
    BY <2>1, <2>5, QueryAnyKeepsInv
  <2>6. ASSUME NEW n \in Running, Admit(n), UNCHANGED control PROVE PipelineInv'
    BY <2>1, <2>6, AdmitKeepsInv
  <2>7. ASSUME NEW n \in Running, Drop(n), UNCHANGED control PROVE PipelineInv'
    BY <2>1, <2>7, DropKeepsInv
  <2>8. CASE Restart
    BY <2>8, RestartKeepsInv
  <2>. QED
    BY <1>2, <2>2, <2>3, <2>4, <2>5, <2>6, <2>7, <2>8 DEF PipelineNext
<1>. QED
  BY <1>1, <1>2

LEMMA PipelineInvAlways == PipelineSpec => []PipelineInv
BY PipelineStarts, PipelineStep, PTL DEF PipelineSpec

-----------------------------------------------------------------------------
\* Inbox, deliveries and jobs keep their types, the inbox its cap, and the tables
\* theirs, whatever deliveries and requests interleave and however often the
\* process restarts (tradingview_webhook over the handlers of the control plane).
THEOREM PipelineTypeCorrect == PipelineSpec => [](PipelineTypeOK /\ TypeOK)
<1>1. PipelineInv => PipelineTypeOK /\ TypeOK
  BY DEF PipelineInv, Inv
<1>. QED
  BY <1>1, PipelineInvAlways, PTL

\* Also with deliveries and restarts among the requests: a plan that is live under a
\* connection whose DELETE has committed was last written by a request that had not
\* ended when the DELETE listed the plans (delete_connection). Such plans there may be,
\* and a connection that a PATCH marked deleted leaves all of its plans live.
THEOREM RestartsForgetNoPlan == PipelineSpec => []NoForgottenPlan
<1>1. PipelineInv => NoForgottenPlan
  BY DEF PipelineInv, Inv
<1>. QED
  BY <1>1, PipelineInvAlways, PTL

\* No signal that names an owner is judged by somebody else's plan, whatever has
\* become of the plan since (the owner's condition of the query's first statement).
THEOREM OwnPlansJudge == PipelineSpec => []JudgedByOwnPlan
<1>1. PipelineInv => JudgedByOwnPlan
  <2> SUFFICES ASSUME PipelineInv, NEW n \in Deliveries, jobs[n] # None,
                      jobs[n].match # None, jobs[n].sig.owner # None
               PROVE  conns[jobs[n].match.row.conn].owner = jobs[n].sig.owner
    BY DEF JudgedByOwnPlan
  <2>1. Serves(jobs[n].sig, jobs[n].match)
    BY DEF PipelineInv, JobSound
  <2>. QED
    BY <2>1 DEF Serves
<1>. QED
  BY <1>1, PipelineInvAlways, PTL

\* Only Admit makes a job.
LEMMA AdmissionOfHook ==
  ASSUME PipelineInv, [PipelineNext]_allVars, NEW n \in Deliveries, Admitted(n)
  PROVE  /\ HookSound(n) /\ hooks[n].stage = "matched"
         /\ jobs'[n].sig = hooks[n].sig /\ jobs'[n].match = hooks[n].match
<1>1. ASSUME NEW k \in Running, Admit(k)
      PROVE  /\ HookSound(n) /\ hooks[n].stage = "matched"
             /\ jobs'[n].sig = hooks[n].sig /\ jobs'[n].match = hooks[n].match
  <2>1. PICK job \in Job : /\ job.sig = hooks[k].sig /\ job.match = hooks[k].match
                          /\ jobs' = [jobs EXCEPT ![k] = job]
    BY <1>1, AdmitEffect
  <2>2. k \in Deliveries /\ HookSound(k) /\ hooks[k].stage = "matched"
    BY <1>1, AdmitEffect
  <2>3. n = k /\ jobs'[n] = job
    BY <2>1, <2>2 DEF Admitted, PipelineInv, PipelineTypeOK
  <2>. QED
    BY <2>1, <2>2, <2>3
<1>2. jobs' # jobs
  BY DEF Admitted
<1>3. ~Restart
  BY DEF Restart, Admitted
<1>4. \E k \in Running : Admit(k)
  BY <1>2, <1>3 DEF PipelineNext, allVars, pipeline, Receive, Query, QueryAny, Drop
<1>. QED
  BY <1>1, <1>4

\* The plan that judges a signal was runnable, just as the query returned it, at
\* some moment since the signal came (the await inside match_plan_for_signal).
THEOREM RunnablePlansJudge == PipelineSpec => JudgedByRunnablePlan
<1> DEFINE Judged == \A n \in Deliveries : Admitted(n) => jobs'[n].match \in seen[n] \cup {None}
<1>1. PipelineInv /\ [PipelineNext]_allVars => Judged
  BY AdmissionOfHook DEF HookSound
<1>. QED
  BY <1>1, PipelineInvAlways, PTL DEF PipelineSpec, JudgedByRunnablePlan

\* No plan that was runnable from the signal's arrival to its admission fits the
\* signal better than the one that judges it, though plans come and go between the
\* two queries (the id, then the name, then the pair in match_plan_for_signal).
THEOREM BestPlanJudges == PipelineSpec => NoBetterPlanPassedOver
<1> DEFINE Best == \A n \in Deliveries : Admitted(n) =>
      \A match \in steady[n] :
        Serves(jobs'[n].sig, match)
          => Rank(jobs'[n].sig, match) <= Rank(jobs'[n].sig, jobs'[n].match)
<1>1. PipelineInv /\ [PipelineNext]_allVars => Best
  <2> SUFFICES ASSUME PipelineInv, [PipelineNext]_allVars, NEW n \in Deliveries, Admitted(n),
                      NEW match \in steady[n], Serves(jobs'[n].sig, match)
               PROVE  Rank(jobs'[n].sig, match) <= Rank(jobs'[n].sig, jobs'[n].match)
    OBVIOUS
  <2>1. PICK h : h = hooks[n]
    OBVIOUS
  <2>2. /\ jobs'[n].sig = h.sig /\ jobs'[n].match = h.match
        /\ HookSound(n) /\ h.stage = "matched"
    BY <2>1, AdmissionOfHook
  <2>3. Serves(h.sig, match) => Rank(h.sig, match) <= Rank(h.sig, h.match)
    BY <2>1, <2>2 DEF HookSound
  <2>. QED
    BY <2>2, <2>3
<1>. QED
  BY <1>1, PipelineInvAlways, PTL DEF PipelineSpec, NoBetterPlanPassedOver

-----------------------------------------------------------------------------
\* The tables again, as the migrations see them: alembic's revision, and in each row
\* what a revision may lack or a constraint may refuse.
VARIABLES revision, connRows, planRows, stopped

Schema == INSTANCE Migrations WITH conns <- connRows, plans <- planRows

\* A plan that DELETE deleted and nobody patched since is there and disabled.
StoppedAreDisabled == \A p \in stopped : planRows[p] # None /\ planRows[p].enabled = FALSE

RowsInv == Schema!TypeOK /\ StoppedAreDisabled

LEMMA SchemaInitInv == ASSUME Schema!NoneIsApart PROVE Schema!Init => RowsInv
  BY DEF Schema!Init, RowsInv, Schema!TypeOK, StoppedAreDisabled, Schema!Empty, Schema!NoneIsApart

LEMMA SchemaUpgradeInv == ASSUME Schema!NoneIsApart, RowsInv, Schema!Upgrade PROVE RowsInv'
<1> USE DEF RowsInv, Schema!TypeOK, StoppedAreDisabled, Schema!NoneIsApart, Schema!Plan,
            Schema!PlanStatuses, Schema!ConnStatuses
<1>1. CASE revision = 1
  BY <1>1 DEF Schema!Upgrade, Schema!WithStatus
<1>2. CASE revision # 1
  BY <1>2 DEF Schema!Upgrade
<1> QED BY <1>1, <1>2

LEMMA SchemaDowngradeInv == ASSUME Schema!NoneIsApart, RowsInv, Schema!Downgrade PROVE RowsInv'
<1> USE DEF RowsInv, Schema!TypeOK, StoppedAreDisabled, Schema!NoneIsApart, Schema!Plan,
            Schema!PlanStatuses, Schema!ConnStatuses
<1>1. CASE revision = 1
  BY <1>1 DEF Schema!Downgrade, Schema!Empty
<1>2. CASE revision = 2
  BY <1>2 DEF Schema!Downgrade, Schema!WithStatus
<1>3. CASE revision \notin {1, 2}
  BY <1>3 DEF Schema!Downgrade
<1> QED BY <1>1, <1>2, <1>3

LEMMA SchemaWriteInv ==
  ASSUME Schema!NoneIsApart, RowsInv, NEW c \in ConnIds, NEW status \in Schema!ConnStatuses,
         Schema!WriteConnection(c, status)
  PROVE  RowsInv'
  BY DEF Schema!WriteConnection, RowsInv, Schema!TypeOK, StoppedAreDisabled, Schema!NoneIsApart,
         Schema!Plan, Schema!PlanStatuses, Schema!ConnStatuses

LEMMA SchemaCreateInv ==
  ASSUME Schema!NoneIsApart, RowsInv, NEW p \in PlanIds, NEW c \in ConnIds, NEW enabled \in BOOLEAN,
         NEW status \in Schema!PlanStatuses, Schema!CreatePlan(p, c, enabled, status)
  PROVE  RowsInv'
  BY DEF Schema!CreatePlan, RowsInv, Schema!TypeOK, StoppedAreDisabled, Schema!NoneIsApart,
         Schema!Plan, Schema!PlanStatuses, Schema!ConnStatuses

\* A step that replaces rows by rows with the same connection, when there is a column
\* status, keeps what Inv says of the tables.
LEMMA SchemaRowsReplaced ==
  ASSUME Schema!NoneIsApart, RowsInv, revision >= 2, UNCHANGED revision,
         NEW set \in SUBSET PlanIds,
         planRows' \in [PlanIds -> Schema!Plan \cup {None}],
         \A p \in PlanIds \ set : planRows'[p] = planRows[p],
         \A p \in set : /\ planRows[p] # None /\ planRows'[p] \in Schema!Plan
                        /\ planRows'[p].conn = planRows[p].conn /\ planRows'[p].status # None,
         connRows' \in [ConnIds -> Schema!ConnStatuses \cup {None}],
         \A c \in ConnIds : connRows[c] # None => connRows'[c] # None,
         stopped' \in SUBSET PlanIds
  PROVE  Schema!TypeOK'
<1> USE DEF RowsInv, Schema!TypeOK
<1>1. \A p \in PlanIds : planRows'[p] # None =>
        planRows[p] # None /\ planRows'[p].conn = planRows[p].conn /\ planRows'[p].status # None
  BY DEF Schema!Plan
<1>2. \A p \in PlanIds : planRows[p] # None => planRows[p].conn \in ConnIds
  BY DEF Schema!Plan
<1> QED BY <1>1, <1>2

LEMMA SchemaPatchInv ==
  ASSUME Schema!NoneIsApart, RowsInv, NEW p \in PlanIds, NEW enabled \in BOOLEAN,
         NEW status \in Schema!PlanStatuses, Schema!PatchPlan(p, enabled, status)
  PROVE  RowsInv'
<1>1. planRows[p] \in Schema!Plan
  BY DEF Schema!PatchPlan, Schema!Live, RowsInv, Schema!TypeOK
<1>2. PICK row \in Schema!Plan : row = planRows[p]
  BY <1>1
<1>3. PICK new \in Schema!Plan : /\ new = [row EXCEPT !.enabled = enabled, !.status = status]
                          /\ new.conn = row.conn /\ new.status = status
  <2> DEFINE changed == [row EXCEPT !.enabled = enabled, !.status = status]
  <2>1. changed \in Schema!Plan /\ changed.conn = row.conn /\ changed.status = status
    BY DEF Schema!Plan
  <2> HIDE DEF changed
  <2>2. PICK new \in Schema!Plan : new = changed
    BY <2>1
  <2> QED BY <2>1, <2>2 DEF changed
<1>4. planRows' = [planRows EXCEPT ![p] = new]
  BY <1>2, <1>3 DEF Schema!PatchPlan, RowsInv, Schema!TypeOK
<1>5. status # None /\ planRows[p] # None
  BY DEF Schema!NoneIsApart, Schema!PatchPlan, Schema!Live
<1>6. Schema!TypeOK'
  <2>0. PICK set \in SUBSET PlanIds : set = {p}
    OBVIOUS
  <2>1. planRows' \in [PlanIds -> Schema!Plan \cup {None}]
    BY <1>4 DEF RowsInv, Schema!TypeOK
  <2>2. \A q \in PlanIds \ set : planRows'[q] = planRows[q]
    BY <2>0, <1>4 DEF RowsInv, Schema!TypeOK
  <2>3. \A q \in set : /\ planRows[q] # None /\ planRows'[q] \in Schema!Plan
                       /\ planRows'[q].conn = planRows[q].conn /\ planRows'[q].status # None
    BY <2>0, <1>2, <1>3, <1>4, <1>5 DEF RowsInv, Schema!TypeOK
  <2>4. revision >= 2 /\ UNCHANGED <<revision, connRows>> /\ stopped' \in SUBSET PlanIds
    BY DEF Schema!PatchPlan, RowsInv, Schema!TypeOK
  <2>5. /\ connRows' \in [ConnIds -> Schema!ConnStatuses \cup {None}]
        /\ \A c \in ConnIds : connRows[c] # None => connRows'[c] # None
    BY <2>4 DEF RowsInv, Schema!TypeOK
  <2> QED BY <2>1, <2>2, <2>3, <2>4, <2>5, SchemaRowsReplaced
<1>7. StoppedAreDisabled'
  BY <1>4 DEF Schema!PatchPlan, RowsInv, Schema!TypeOK, StoppedAreDisabled
<1> QED BY <1>6, <1>7 DEF RowsInv

LEMMA SchemaDeletedRow ==
  ASSUME NEW row \in Schema!Plan
  PROVE  /\ Schema!Deleted(row) \in Schema!Plan /\ Schema!Deleted(row).conn = row.conn
         /\ Schema!Deleted(row).status = "deleted" /\ Schema!Deleted(row).enabled = FALSE
  BY DEF Schema!Deleted, Schema!Plan, Schema!PlanStatuses

LEMMA SchemaDeletePlanInv ==
  ASSUME Schema!NoneIsApart, RowsInv, NEW p \in PlanIds, Schema!DeletePlan(p)
  PROVE  RowsInv'
<1>1. planRows[p] \in Schema!Plan /\ planRows[p] # None
  BY DEF Schema!DeletePlan, Schema!Live, RowsInv, Schema!TypeOK
<1>2. PICK new \in Schema!Plan : /\ new = Schema!Deleted(planRows[p]) /\ new.conn = planRows[p].conn
                          /\ new.status # None /\ new.enabled = FALSE
  <2>1. "deleted" # None
    BY DEF Schema!NoneIsApart, Schema!PlanStatuses
  <2> QED BY <1>1, <2>1, SchemaDeletedRow
<1>3. planRows' = [planRows EXCEPT ![p] = new]
  BY <1>2 DEF Schema!DeletePlan
<1>4. Schema!TypeOK'
  <2>0. PICK set \in SUBSET PlanIds : set = {p}
    OBVIOUS
  <2>1. planRows' \in [PlanIds -> Schema!Plan \cup {None}]
    BY <1>3 DEF RowsInv, Schema!TypeOK
  <2>2. \A q \in PlanIds \ set : planRows'[q] = planRows[q]
    BY <2>0, <1>3 DEF RowsInv, Schema!TypeOK
  <2>3. \A q \in set : /\ planRows[q] # None /\ planRows'[q] \in Schema!Plan
                       /\ planRows'[q].conn = planRows[q].conn /\ planRows'[q].status # None
    BY <2>0, <1>1, <1>2, <1>3 DEF RowsInv, Schema!TypeOK
  <2>4. revision >= 2 /\ UNCHANGED <<revision, connRows>> /\ stopped' \in SUBSET PlanIds
    BY DEF Schema!DeletePlan, RowsInv, Schema!TypeOK
  <2>5. /\ connRows' \in [ConnIds -> Schema!ConnStatuses \cup {None}]
        /\ \A c \in ConnIds : connRows[c] # None => connRows'[c] # None
    BY <2>4 DEF RowsInv, Schema!TypeOK
  <2> QED BY <2>1, <2>2, <2>3, <2>4, <2>5, SchemaRowsReplaced
<1>5. StoppedAreDisabled'
  <2>1. \A q \in stopped' : q = p \/ q \in stopped
    BY DEF Schema!DeletePlan
  <2>2. planRows'[p] = new /\ new # None /\ new.enabled = FALSE
    BY <1>2, <1>3 DEF RowsInv, Schema!TypeOK, Schema!NoneIsApart
  <2> QED BY <1>3, <2>1, <2>2 DEF RowsInv, Schema!TypeOK, StoppedAreDisabled
<1> QED BY <1>4, <1>5 DEF RowsInv

LEMMA SchemaDeleteConnectionInv ==
  ASSUME Schema!NoneIsApart, RowsInv, NEW c \in ConnIds, Schema!DeleteConnection(c)
  PROVE  RowsInv'
<1> DEFINE under == {p \in PlanIds : planRows[p] # None /\ planRows[p].conn = c
                                       /\ planRows[p].status # "deleted"}
<1>1. /\ planRows' = [p \in PlanIds |->
                        IF p \in under THEN Schema!Deleted(planRows[p]) ELSE planRows[p]]
      /\ stopped' = stopped \cup under
      /\ revision >= 2 /\ UNCHANGED revision
      /\ connRows' = [connRows EXCEPT ![c] = "deleted"]
  BY DEF Schema!DeleteConnection
<1>2. "deleted" # None
  BY DEF Schema!NoneIsApart, Schema!PlanStatuses
<1>3. \A p \in under : planRows[p] \in Schema!Plan /\ planRows[p] # None
  BY DEF RowsInv, Schema!TypeOK
<1>4. \A p \in under : /\ planRows'[p] \in Schema!Plan /\ planRows'[p].conn = planRows[p].conn
                       /\ planRows'[p].status # None /\ planRows'[p].enabled = FALSE
  BY <1>1, <1>2, <1>3, SchemaDeletedRow
<1>5. \A p \in PlanIds \ under : planRows'[p] = planRows[p]
  BY <1>1
<1>6. under \subseteq PlanIds
  OBVIOUS
<1> HIDE DEF under
<1>7. Schema!TypeOK'
  <2>1. planRows' \in [PlanIds -> Schema!Plan \cup {None}]
    <3>1. \A p \in PlanIds : planRows'[p] \in Schema!Plan \cup {None}
      BY <1>4, <1>5 DEF RowsInv, Schema!TypeOK
    <3> QED BY <1>1, <3>1
  <2>2. connRows' \in [ConnIds -> Schema!ConnStatuses \cup {None}] /\ stopped' \in SUBSET PlanIds
    BY <1>1, <1>6 DEF RowsInv, Schema!TypeOK, Schema!ConnStatuses
  <2>3. \A d \in ConnIds : connRows[d] # None => connRows'[d] # None
    BY <1>1, <1>2 DEF RowsInv, Schema!TypeOK
  <2> QED BY <1>1, <1>3, <1>4, <1>5, <1>6, <2>1, <2>2, <2>3, SchemaRowsReplaced
<1>8. StoppedAreDisabled'
  <2>1. \A p \in under : planRows'[p] # None
    BY <1>4 DEF Schema!NoneIsApart
  <2>2. \A p \in stopped : p \in PlanIds /\ planRows[p] # None /\ planRows[p].enabled = FALSE
    BY DEF RowsInv, Schema!TypeOK, StoppedAreDisabled
  <2> QED BY <1>1, <1>4, <1>5, <2>1, <2>2 DEF StoppedAreDisabled
<1> QED BY <1>7, <1>8 DEF RowsInv

LEMMA SchemaInvHolds == ASSUME Schema!NoneIsApart PROVE Schema!Spec => []RowsInv
<1>1. RowsInv /\ [Schema!Next]_Schema!vars => RowsInv'
  <2> SUFFICES ASSUME RowsInv, [Schema!Next]_Schema!vars PROVE RowsInv'
    OBVIOUS
  <2>1. CASE UNCHANGED Schema!vars
    BY <2>1 DEF Schema!vars, RowsInv, Schema!TypeOK, StoppedAreDisabled
  <2>2. CASE Schema!Upgrade \/ Schema!Downgrade
    BY <2>2, SchemaUpgradeInv, SchemaDowngradeInv
  <2>3. ASSUME NEW c \in ConnIds,
               \/ Schema!DeleteConnection(c)
               \/ \E status \in Schema!ConnStatuses : Schema!WriteConnection(c, status)
        PROVE  RowsInv'
    BY <2>3, SchemaDeleteConnectionInv, SchemaWriteInv
  <2>4. ASSUME NEW p \in PlanIds, Schema!DeletePlan(p)
        PROVE  RowsInv'
    BY <2>4, SchemaDeletePlanInv
  <2>5. ASSUME NEW p \in PlanIds, NEW enabled \in BOOLEAN, NEW status \in Schema!PlanStatuses,
               \/ Schema!PatchPlan(p, enabled, status)
               \/ \E c \in ConnIds : Schema!CreatePlan(p, c, enabled, status)
        PROVE  RowsInv'
    BY <2>5, SchemaPatchInv, SchemaCreateInv
  <2> QED BY <2>1, <2>2, <2>3, <2>4, <2>5 DEF Schema!Next, Schema!Step
<1> QED BY SchemaInitInv, <1>1, PTL DEF Schema!Spec

\* Under every revision the rows are those its columns can hold, and every plan lies
\* under a connection (the tables of alembic/versions).
THEOREM RowsFitTheirRevision == ASSUME Schema!NoneIsApart PROVE Schema!Spec => []Schema!TypeOK
<1>1. RowsInv => Schema!TypeOK
  BY DEF RowsInv
<1> QED BY <1>1, SchemaInvHolds, PTL

\* The constraints of the newest revision are never refused by the rows the API wrote
\* under the one before it (upgrade of 260429_ck_status).
THEOREM UpgradesGoThrough ==
  ASSUME Schema!NoneIsApart
  PROVE  Schema!Spec => []Schema!UpgradeIsNeverRefused
<1>1. RowsInv => Schema!UpgradeIsNeverRefused
  BY DEF RowsInv, Schema!TypeOK, Schema!UpgradeIsNeverRefused, Schema!Fits, Schema!Plan,
         Schema!PlanStatuses, Schema!ConnStatuses, Schema!NoneIsApart
<1> QED BY <1>1, SchemaInvHolds, PTL

\* However often the schema goes down and up again, a plan that DELETE deleted runs no
\* more until it is patched, though its status is forgotten (delete_bot_plan,
\* delete_connection, downgrade of 20260429_add_plan_status).
THEOREM DeletedPlansStayStopped ==
  ASSUME Schema!NoneIsApart
  PROVE  Schema!Spec => []Schema!DeletedStaysStopped
<1>1. RowsInv => Schema!DeletedStaysStopped
  BY DEF RowsInv, StoppedAreDisabled, Schema!DeletedStaysStopped
<1> QED BY <1>1, SchemaInvHolds, PTL
=============================================================================
