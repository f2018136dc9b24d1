----------------------- MODULE ExecutionEngineProofs -----------------------
(***************************************************************************)
(* The execution engine, for any owners, signals, policies and caps: its   *)
(* types, that an order reaches the book at most once, that finished jobs  *)
(* stay finished, the limits on open jobs, the refinement of JobLifecycle, *)
(* evictions, tenants, what the audit trail says of the jobs, and what the *)
(* loss guard sees of the book.                                            *)
(*                                                                         *)
(* The lemmas on a single fill (OrderQtyType to RealizedByType) are those  *)
(* of PaperLedgerProofs, over the engine's own instance of the book.       *)
(***************************************************************************)
EXTENDS ExecutionEngine, SetSums, SequenceTheorems

\* An order has a positive quantity (max(qty, 0.001)).
LEMMA OrderQtyType == ASSUME NEW s \in Signals PROVE OrderQty(s) \in Nat \ {0}
<1>1. s.volume \in Int \cup {None} /\ s.risk \in Int \cup {None}
  BY FillConstants DEF Signal
<1>2. OrZero(s.volume) \in Int /\ OrZero(s.risk) \in Int
  BY <1>1 DEF OrZero
<1>. QED
  BY <1>2, FillConstants DEF OrderQty

\* Profit is an integer, rounded or not.
LEMMA ProfitAtType ==
  ASSUME NEW p \in Position, NEW price \in Int PROVE ProfitAt(p, price) \in Int
  BY DEF Position, ProfitAt

LEMMA Round4Type == ASSUME NEW x \in Int PROVE Round4(x) \in Int
<1>1. Grain \in Nat /\ Grain > 0
  BY FillConstants
<1>2. x \div Grain \in Int
  BY <1>1
<1>. QED
  BY <1>1, <1>2 DEF Round4

\* A signal that fills has a price; its side closes or is one to hold.
LEMMA SignalType ==
  ASSUME NEW s \in Signals
  PROVE  /\ s.owner \in Owners \cup {None} /\ s.symbol \in Symbols
         /\ s.side \in Closing \/ s.side \in {"buy", "sell"}
         /\ s.price # None => s.price \in Int
  BY FillConstants DEF Signal, Sides, Closing

\* A signal trades under a key of the book (_paper_position_key).
LEMMA KeyOfType == ASSUME NEW s \in Signals PROVE KeyOf(s) \in Keys
  BY SignalType DEF Keys, KeyOf

LEMMA OpenedType ==
  ASSUME NEW s \in Signals, s.price # None, s.side \notin Closing
  PROVE  Opened(s) \in Position
  BY SignalType, OrderQtyType DEF Opened, Position

\* A fill leaves a position or none (apply_paper_fill's four outcomes).
LEMMA PositionAfterType ==
  ASSUME NEW p \in Position \cup {None}, NEW s \in Signals, s.price # None
  PROVE  PositionAfter(p, s) \in Position \cup {None}
<1>1. CASE s.side \in Closing
  BY <1>1 DEF PositionAfter
<1>2. CASE s.side \notin Closing /\ (IF p = None THEN TRUE ELSE p.side # s.side)
  BY <1>2, OpenedType DEF PositionAfter
<1>3. CASE s.side \notin Closing /\ ~(IF p = None THEN TRUE ELSE p.side # s.side)
  <2>1. p \in Position
    BY <1>3
  <2>2. PositionAfter(p, s) = [p EXCEPT !.qty = p.qty + OrderQty(s),
                                        !.cost = p.cost + s.price * OrderQty(s)]
    BY <1>3 DEF PositionAfter
  <2>3. p.qty + OrderQty(s) \in Nat \ {0} /\ p.cost + s.price * OrderQty(s) \in Int
    BY <2>1, OrderQtyType, SignalType DEF Position
  <2>. QED
    BY <2>1, <2>2, <2>3 DEF Position
<1>. QED
  BY <1>1, <1>2, <1>3

LEMMA RealizedByType ==
  ASSUME NEW p \in Position \cup {None}, NEW s \in Signals, s.price # None
  PROVE  RealizedBy(p, s) \in Int
  BY ProfitAtType, SignalType DEF RealizedBy

-----------------------------------------------------------------------------

\* The four effects a step can have on the job list; every handler has one.
Admitted(job) ==
  /\ nextJob \in JobIds
  /\ jobs' = Newest([jobs EXCEPT ![nextJob] = job])
  /\ nextJob' = nextJob + 1
  /\ fills' = fills
  /\ job.status \in {"queued", "rejected"}
  /\ job.status = "queued" => \E policy \in Policies :
       /\ Below(Cardinality(ActiveJobs(jobs)), policy.maxOpen)
       /\ Below(Cardinality(ActiveFor(jobs, job.sig.symbol)), policy.maxPerSymbol)

Moved(i, to) ==
  /\ jobs[i] # None
  /\ Legal(jobs[i].status, to)
  /\ jobs' = [jobs EXCEPT ![i] = WithStatus(jobs[i], to)]
  /\ nextJob' = nextJob
  /\ fills' = fills

Settled(i) ==
  /\ jobs[i] # None
  /\ jobs[i].status \in {"queued", "approved"}
  /\ jobs' = [jobs EXCEPT ![i] = WithStatus(jobs[i], "filled")]
  /\ nextJob' = nextJob
  /\ fills' = [fills EXCEPT ![i] = @ + 1]

Removed(gone) ==
  /\ jobs' = [i \in JobIds |-> IF i \in gone THEN None ELSE jobs[i]]
  /\ nextJob' = nextJob
  /\ fills' = fills

-----------------------------------------------------------------------------
LEMMA Bounds == /\ JobsCap \in Nat \ {0}
                /\ AuditCap \in Nat \ {0}
                /\ MaxJobs \in Nat \ {0}
                /\ MaxDays \in Nat \ {0}
  BY EngineConstants

\* A job read from the list is a job.
LEMMA ListedJob ==
  ASSUME TypeOK, NEW i \in JobIds, jobs[i] # None
  PROVE  jobs[i] \in Job /\ jobs[i].sig \in Signals /\ jobs[i].status \in Statuses
  BY DEF TypeOK, Job

LEMMA WithStatusType ==
  ASSUME NEW job \in Job, NEW status \in Statuses
  PROVE  /\ WithStatus(job, status) \in Job
         /\ WithStatus(job, status).sig = job.sig
         /\ WithStatus(job, status).status = status
  BY DEF WithStatus, Job

LEMMA EventType ==
  ASSUME TypeOK, NEW i \in JobIds, NEW job \in Job, NEW type \in Events, NEW realized \in Int
  PROVE  EventOf(i, job, type, realized) \in Event
<1>1. job.sig \in Signals /\ job.status \in Statuses
  BY DEF Job
<1>. QED
  BY <1>1, SignalType DEF EventOf, Event, TypeOK

\* What append_execution_audit leaves is a trail within its cap.
LEMMA RecordType ==
  ASSUME TypeOK, NEW events \in Seq(Event), Record(events)
  PROVE  audit' \in Seq(Event) /\ Len(audit') <= AuditCap /\ forgot' \in BOOLEAN
<1>. DEFINE trail == events \o audit
            kept == IF Len(trail) < AuditCap THEN Len(trail) ELSE AuditCap
<1>1. trail \in Seq(Event) /\ Len(trail) \in Nat
  BY ConcatProperties, LenProperties DEF TypeOK
<1>2. kept \in Nat /\ kept <= Len(trail) /\ kept <= AuditCap
  BY <1>1, Bounds
<1>3. audit' = SubSeq(trail, 1, kept)
  BY DEF Record, Cut
<1>4. audit' \in Seq(Event) /\ Len(audit') = kept
  <2>. HIDE DEF trail, kept
  <2>. QED
    BY <1>1, <1>2, <1>3
<1>5. forgot' \in BOOLEAN
  BY Zenon DEF Record
<1>. QED
  BY <1>2, <1>4, <1>5

LEMMA NewestType ==
  ASSUME NEW js \in [JobIds -> Job \cup {None}]
  PROVE  /\ Newest(js) \in [JobIds -> Job \cup {None}]
         /\ \A i \in JobIds : Newest(js)[i] \in {js[i], None}
  BY DEF Newest

-----------------------------------------------------------------------------
LEMMA AdmitKeepsTypes ==
  ASSUME TypeOK, NEW s \in Signals, NEW policy \in Policies, NEW clock \in Clocks,
         NEW startable \in BOOLEAN, Admit(s, policy, clock, startable)
  PROVE  TypeOK'
<1>. DEFINE job == [sig |-> s, status |-> Verdict(s, policy, clock, startable)]
<1>1. nextJob \in JobIds /\ nextJob + 1 \in 1..(MaxJobs + 1)
  BY Bounds DEF Admit, TypeOK, JobIds
<1>2. job \in Job
  BY DEF Verdict, Job, Statuses
<1>3. [jobs EXCEPT ![nextJob] = job] \in [JobIds -> Job \cup {None}]
  BY <1>1, <1>2 DEF TypeOK
<1>4. jobs' \in [JobIds -> Job \cup {None}]
  BY <1>3, NewestType DEF Admit
<1>5. <<EventOf(nextJob, job, "job_created", 0)>> \in Seq(Event)
  BY <1>1, <1>2, EventType DEF Events
<1>6. audit' \in Seq(Event) /\ Len(audit') <= AuditCap /\ forgot' \in BOOLEAN
  BY <1>5, RecordType DEF Admit
<1>. QED
  BY <1>1, <1>4, <1>6 DEF Admit, TypeOK, BookTypeOK

LEMMA DispatchedKeepsTypes ==
  ASSUME TypeOK, NEW i \in JobIds, NEW job \in Job, NEW logged \in Seq(Event),
         Dispatched(i, job, logged)
  PROVE  TypeOK'
<1>1. SentEvent(i, job) \in Event
  BY WithStatusType, EventType DEF SentEvent, Statuses, Events
<1>2. nextJob' = nextJob /\ today' = today
  BY DEF Dispatched
<1>3. CASE SendOnly(i, job, logged)
  <2>1. jobs' \in [JobIds -> Job \cup {None}]
    BY <1>3, WithStatusType DEF SendOnly, TypeOK, Statuses
  <2>2. <<SentEvent(i, job)>> \o logged \in Seq(Event)
    BY <1>1
  <2>3. audit' \in Seq(Event) /\ Len(audit') <= AuditCap /\ forgot' \in BOOLEAN
    BY <1>3, <2>2, RecordType DEF SendOnly
  <2>. QED
    BY <1>2, <1>3, <2>1, <2>3 DEF SendOnly, TypeOK, BookTypeOK
<1>4. CASE SendAndFill(i, job, logged)
  <2>. DEFINE s == job.sig
              gain == RealizedBy(positions[KeyOf(s)], s)
  <2>1. s \in Signals /\ s.price # None
    BY <1>4 DEF SendAndFill, Job
  <2>2. KeyOf(s) \in Keys /\ positions[KeyOf(s)] \in Position \cup {None}
    BY <2>1, KeyOfType DEF TypeOK, BookTypeOK
  <2>3. gain \in Int
    BY <2>1, <2>2, RealizedByType
  <2>4. jobs' \in [JobIds -> Job \cup {None}]
    BY <1>4, WithStatusType DEF SendAndFill, TypeOK, Statuses
  <2>5. FilledEvent(i, job, gain) \in Event
    BY <2>3, WithStatusType, EventType, Round4Type DEF FilledEvent, Statuses, Events
  <2>6. <<FilledEvent(i, job, gain), SentEvent(i, job)>> \o logged \in Seq(Event)
    BY <1>1, <2>5
  <2>7. audit' \in Seq(Event) /\ Len(audit') <= AuditCap /\ forgot' \in BOOLEAN
    BY <1>4, <2>6, RecordType DEF SendAndFill
  <2>8. positions' \in [Keys -> Position \cup {None}]
    <3>1. PositionAfter(positions[KeyOf(s)], s) \in Position \cup {None}
      BY <2>1, <2>2, PositionAfterType
    <3>2. positions' = [positions EXCEPT ![KeyOf(s)] = PositionAfter(positions[KeyOf(s)], s)]
      BY <1>4 DEF SendAndFill, Fill
    <3>. QED
      BY <2>2, <3>1, <3>2 DEF TypeOK, BookTypeOK
  <2>9. fills' \in [JobIds -> Nat]
    BY <1>4 DEF SendAndFill, TypeOK
  <2>10. earned' \in [Owners \cup {None} -> Int]
    <3>1. s.owner \in Owners \cup {None}
      BY <2>1, SignalType
    <3>2. earned' = [earned EXCEPT ![s.owner] = @ + gain]
      BY <1>4 DEF SendAndFill
    <3>. QED
      BY <2>3, <3>1, <3>2 DEF TypeOK
  <2>. QED
    BY <1>2, <2>4, <2>7, <2>8, <2>9, <2>10 DEF TypeOK, BookTypeOK
<1>. QED
  BY <1>3, <1>4 DEF Dispatched

\* A patch is a change of the status or, when it approves under automatic
\* dispatch, the dispatch of the job so changed.
LEMMA PatchCases ==
  ASSUME TypeOK, NEW caller \in Owners, NEW i \in JobIds, NEW to \in Statuses,
         Patch(caller, i, to)
  PROVE  LET job == WithStatus(jobs[i], to)
             change == <<EventOf(i, job, "status_changed", 0)>>
         IN  /\ jobs[i] # None
             /\ job \in Job /\ job.sig = jobs[i].sig /\ job.status = to
             /\ to \in ValidTransitions(jobs[i].status) \cup {jobs[i].status}
             /\ change \in Seq(Event)
             /\ \/ Dispatched(i, job, change)
                \/ /\ jobs' = [jobs EXCEPT ![i] = job]
                   /\ Record(change)
                   /\ UNCHANGED <<nextJob, positions, today, fills, earned>>
<1>. DEFINE job == WithStatus(jobs[i], to)
            change == <<EventOf(i, job, "status_changed", 0)>>
<1>1. jobs[i] # None
  BY DEF Patch, Finds
<1>2. job \in Job /\ job.sig = jobs[i].sig /\ job.status = to
  BY <1>1, ListedJob, WithStatusType
<1>3. change \in Seq(Event)
  <2>1. EventOf(i, job, "status_changed", 0) \in Event
    BY <1>2, EventType DEF Events
  <2>. QED
    BY <2>1
<1>4. /\ to \in ValidTransitions(jobs[i].status) \cup {jobs[i].status}
      /\ \/ Dispatched(i, job, change)
         \/ /\ jobs' = [jobs EXCEPT ![i] = job]
            /\ Record(change)
            /\ UNCHANGED <<nextJob, positions, today, fills, earned>>
  BY DEF Patch
<1>. QED
  BY <1>1, <1>2, <1>3, <1>4

LEMMA PatchKeepsTypes ==
  ASSUME TypeOK, NEW caller \in Owners, NEW i \in JobIds, NEW to \in Statuses,
         Patch(caller, i, to)
  PROVE  TypeOK'
<1>. DEFINE job == WithStatus(jobs[i], to)
            change == <<EventOf(i, job, "status_changed", 0)>>
<1>1. job \in Job /\ change \in Seq(Event)
  BY PatchCases
<1>2. CASE Dispatched(i, job, change)
  BY <1>1, <1>2, DispatchedKeepsTypes
<1>3. CASE /\ jobs' = [jobs EXCEPT ![i] = job]
           /\ Record(change)
           /\ UNCHANGED <<nextJob, positions, today, fills, earned>>
  <2>1. audit' \in Seq(Event) /\ Len(audit') <= AuditCap /\ forgot' \in BOOLEAN
    BY <1>1, <1>3, RecordType
  <2>. QED
    BY <1>1, <1>3, <2>1 DEF TypeOK, BookTypeOK
<1>. QED
  BY <1>2, <1>3, PatchCases

LEMMA MarkKeepsTypes ==
  ASSUME TypeOK, NEW caller \in Owners, NEW symbol \in Symbols, NEW price \in Prices,
         Mark(caller, symbol, price)
  PROVE  TypeOK'
<1>1. price \in Int
  BY EngineConstants
<1>2. ASSUME NEW k \in Keys, positions[k] # None
      PROVE  Marked(positions[k], price) \in Position
  <2>1. positions[k] \in Position
    BY <1>2 DEF TypeOK, BookTypeOK
  <2>2. Round4(ProfitAt(positions[k], price)) \in Int
    BY <1>1, <2>1, ProfitAtType, Round4Type
  <2>. QED
    BY <1>1, <2>1, <2>2 DEF Marked, Position
<1>3. BookTypeOK'
  BY <1>2 DEF Mark, MarkToMarket, Revalued, TypeOK, BookTypeOK
<1>. QED
  BY <1>3 DEF Mark, TypeOK, history

\* The job list, the trail, the book and the history keep their types and caps.
THEOREM EngineTypeCorrect == Spec => []TypeOK
<1>1. Init => TypeOK
  <2>. SUFFICES ASSUME Init PROVE TypeOK
    OBVIOUS
  <2>1. nextJob \in 1..(MaxJobs + 1) /\ today \in 1..MaxDays
    BY Bounds DEF Init
  <2>2. audit \in Seq(Event) /\ Len(audit) <= AuditCap
    BY Bounds DEF Init
  <2>3. /\ jobs \in [JobIds -> Job \cup {None}]
        /\ BookTypeOK
        /\ fills \in [JobIds -> Nat]
        /\ earned \in [Owners \cup {None} -> Int]
    BY DEF Init, BookInit, BookTypeOK
  <2>4. forgot \in BOOLEAN
    BY Zenon DEF Init
  <2>. QED
    BY <2>1, <2>2, <2>3, <2>4 DEF TypeOK
<1>2. TypeOK /\ [Next]_vars => TypeOK'
  <2>. SUFFICES ASSUME TypeOK, [Next]_vars PROVE TypeOK'
    OBVIOUS
  <2>1. ASSUME NEW s \in Signals, NEW policy \in Policies, NEW clock \in Clocks,
               NEW startable \in BOOLEAN, Admit(s, policy, clock, startable)
        PROVE  TypeOK'
    BY <2>1, AdmitKeepsTypes
  <2>2. ASSUME NEW caller \in Owners, NEW i \in JobIds, Dispatch(caller, i) PROVE TypeOK'
    <3>1. jobs[i] \in Job /\ <<>> \in Seq(Event)
      BY <2>2, ListedJob DEF Dispatch, Finds
    <3>. QED
      BY <2>2, <3>1, DispatchedKeepsTypes DEF Dispatch
  <2>3. ASSUME NEW caller \in Owners, NEW i \in JobIds, NEW to \in Statuses,
               Patch(caller, i, to)
        PROVE  TypeOK'
    BY <2>3, PatchKeepsTypes
  <2>4. ASSUME NEW caller \in Owners, NEW targets \in PurgeRequests, Purge(caller, targets)
        PROVE  TypeOK'
    BY <2>4 DEF Purge, TypeOK, BookTypeOK, history
  <2>5. ASSUME NEW caller \in Owners, NEW symbol \in Symbols, NEW price \in Prices,
               Mark(caller, symbol, price)
        PROVE  TypeOK'
    BY <2>5, MarkKeepsTypes
  <2>6. CASE NextDay
    <3>1. today' \in 1..MaxDays
      BY <2>6, Bounds DEF NextDay, TypeOK
    <3>2. earned' \in [Owners \cup {None} -> Int]
      BY <2>6 DEF NextDay
    <3>3. forgot' \in BOOLEAN
      BY <2>6, Zenon DEF NextDay
    <3>. QED
      BY <2>6, <3>1, <3>2, <3>3 DEF NextDay, TypeOK, BookTypeOK
  <2>7. CASE Restart
    <3>1. forgot' \in BOOLEAN
      BY <2>7, Zenon DEF Restart
    <3>2. audit' \in Seq(Event) /\ Len(audit') <= AuditCap
      BY <2>7, Bounds DEF Restart
    <3>. QED
      BY <2>7, <3>1, <3>2 DEF Restart, BookRestart, TypeOK, BookTypeOK
  <2>8. CASE UNCHANGED vars
    BY <2>8 DEF vars, history, TypeOK, BookTypeOK
  <2>. QED
    BY <2>1, <2>2, <2>3, <2>4, <2>5, <2>6, <2>7, <2>8 DEF Next
<1>. QED
  BY <1>1, <1>2, PTL DEF Spec
-----------------------------------------------------------------------------
\* A policy that lets a signal through found both counts below its limits.
LEMMA NoReasonBelow ==
  ASSUME NEW s, NEW policy, NEW clock, NEW active, NEW activeFor, NEW realized, NEW startable,
         RejectReasons(s, policy, clock, active, activeFor, realized, startable) = {}
  PROVE  Below(active, policy.maxOpen) /\ Below(activeFor, policy.maxPerSymbol)
<1>. DEFINE fails == Fails(s, policy, clock, active, activeFor, realized, startable)
<1>1. \A reason \in DOMAIN fails : ~fails[reason]
  BY Zenon DEF RejectReasons
<1>2. {"max_open_positions_reached", "max_open_per_symbol_reached"} \subseteq DOMAIN fails
  BY DEF Fails
<1>3. ~fails["max_open_positions_reached"] /\ ~fails["max_open_per_symbol_reached"]
  <2>. HIDE DEF fails
  <2>. QED
    BY <1>1, <1>2
<1>. QED
  BY <1>3 DEF Fails

LEMMA AdmitEffect ==
  ASSUME TypeOK, NEW s \in Signals, NEW policy \in Policies, NEW clock \in Clocks,
         NEW startable \in BOOLEAN, Admit(s, policy, clock, startable)
  PROVE  \E job \in Job : /\ Admitted(job) /\ job.sig = s
                          /\ job.status = Verdict(s, policy, clock, startable)
<1>. DEFINE job == [sig |-> s, status |-> Verdict(s, policy, clock, startable)]
<1>1. nextJob \in JobIds
  BY Bounds DEF Admit, TypeOK, JobIds
<1>2. /\ job \in Job /\ job.sig = s /\ job.status \in {"queued", "rejected"}
      /\ job.status = Verdict(s, policy, clock, startable)
  BY DEF Verdict, Job, Statuses
<1>3. ASSUME job.status = "queued"
      PROVE  /\ Below(Cardinality(ActiveJobs(jobs)), policy.maxOpen)
             /\ Below(Cardinality(ActiveFor(jobs, job.sig.symbol)), policy.maxPerSymbol)
  <2>1. Verdict(s, policy, clock, startable) = "queued"
    BY <1>3
  <2>2. RejectReasons(s, policy, clock, Cardinality(ActiveJobs(jobs)),
                      Cardinality(ActiveFor(jobs, s.symbol)),
                      RealizedToday(s.owner), startable) = {}
    BY <2>1 DEF Verdict
  <2>. QED
    BY <1>2, <2>2, NoReasonBelow
<1>4. /\ jobs' = Newest([jobs EXCEPT ![nextJob] = job])
      /\ nextJob' = nextJob + 1
      /\ fills' = fills
  BY DEF Admit
<1>5. Admitted(job)
  BY <1>1, <1>2, <1>3, <1>4 DEF Admitted
<1>. QED
  BY <1>2, <1>5

\* A dispatch moves a pending job to sent or settles it, also when the same step
\* has just approved the job.
LEMMA DispatchedEffect ==
  ASSUME TypeOK, NEW i \in JobIds, jobs[i] # None, NEW to \in Statuses,
         to \in ValidTransitions(jobs[i].status) \cup {jobs[i].status},
         NEW logged, Dispatched(i, WithStatus(jobs[i], to), logged)
  PROVE  Moved(i, "sent") \/ Settled(i)
<1>. DEFINE job == WithStatus(jobs[i], to)
<1>1. jobs[i] \in Job
  BY ListedJob
<1>2. /\ job.status = to
      /\ WithStatus(job, "sent") = WithStatus(jobs[i], "sent")
      /\ WithStatus(job, "filled") = WithStatus(jobs[i], "filled")
  BY <1>1 DEF WithStatus, Job
<1>3. jobs[i].status \in {"queued", "approved"}
  <2>1. to \in {"queued", "approved"}
    BY <1>2 DEF Dispatched, Dispatchable
  <2>. QED
    BY <2>1, <1>1 DEF ValidTransitions, Job, Statuses
<1>4. nextJob' = nextJob
  BY DEF Dispatched
<1>5. CASE SendOnly(i, job, logged)
  <2>1. Legal(jobs[i].status, "sent")
    BY <1>3 DEF Legal, ValidTransitions
  <2>. QED
    BY <1>2, <1>4, <1>5, <2>1 DEF SendOnly, Moved
<1>6. CASE SendAndFill(i, job, logged)
  BY <1>2, <1>3, <1>4, <1>6 DEF SendAndFill, Settled
<1>. QED
  BY <1>5, <1>6 DEF Dispatched

LEMMA DispatchEffect ==
  ASSUME TypeOK, NEW caller \in Owners, NEW i \in JobIds, Dispatch(caller, i)
  PROVE  Moved(i, "sent") \/ Settled(i)
<1>1. jobs[i] # None
  BY DEF Dispatch, Finds
<1>2. jobs[i] \in Job /\ jobs[i].status \in Statuses
  BY <1>1, ListedJob
<1>3. WithStatus(jobs[i], jobs[i].status) = jobs[i]
  BY <1>2 DEF WithStatus, Job
<1>. QED
  BY <1>1, <1>2, <1>3, DispatchedEffect DEF Dispatch

LEMMA PatchEffect ==
  ASSUME TypeOK, NEW caller \in Owners, NEW i \in JobIds, NEW to \in Statuses,
         Patch(caller, i, to)
  PROVE  (\E status \in Statuses : Moved(i, status)) \/ Settled(i)
<1>. DEFINE job == WithStatus(jobs[i], to)
            change == <<EventOf(i, job, "status_changed", 0)>>
<1>1. /\ jobs[i] # None
      /\ to \in ValidTransitions(jobs[i].status) \cup {jobs[i].status}
  BY PatchCases
<1>2. CASE Dispatched(i, job, change)
  BY <1>1, <1>2, DispatchedEffect DEF Statuses
<1>3. CASE /\ jobs' = [jobs EXCEPT ![i] = job]
           /\ Record(change)
           /\ UNCHANGED <<nextJob, positions, today, fills, earned>>
  BY <1>1, <1>3 DEF Moved, Legal
<1>. QED
  BY <1>2, <1>3, PatchCases

\* Every step, a stuttering one included, has one of the four effects.
LEMMA StepEffect ==
  ASSUME TypeOK, [Next]_vars
  PROVE  \/ \E job \in Job : Admitted(job)
         \/ \E i \in JobIds, to \in Statuses : Moved(i, to)
         \/ \E i \in JobIds : Settled(i)
         \/ \E gone \in SUBSET JobIds : Removed(gone)
<1>0. jobs = [i \in JobIds |-> IF i \in {} THEN None ELSE jobs[i]]
  BY DEF TypeOK
<1>1. ASSUME NEW s \in Signals, NEW policy \in Policies, NEW clock \in Clocks,
             NEW startable \in BOOLEAN, Admit(s, policy, clock, startable)
      PROVE  \E job \in Job : Admitted(job)
  BY <1>1, AdmitEffect
<1>2. ASSUME NEW caller \in Owners, NEW i \in JobIds, Dispatch(caller, i)
      PROVE  Moved(i, "sent") \/ Settled(i)
  BY <1>2, DispatchEffect
<1>3. ASSUME NEW caller \in Owners, NEW i \in JobIds, NEW to \in Statuses,
             Patch(caller, i, to)
      PROVE  (\E status \in Statuses : Moved(i, status)) \/ Settled(i)
  BY <1>3, PatchEffect
<1>4. ASSUME NEW caller \in Owners, NEW targets \in PurgeRequests, Purge(caller, targets)
      PROVE  \E gone \in SUBSET JobIds : Removed(gone)
  <2>. DEFINE gone == {i \in JobIds : Finds(caller, i) /\ jobs[i].status \in targets}
  <2>1. Removed(gone)
    BY <1>4 DEF Purge, Removed, history
  <2>. QED
    BY <2>1
<1>5. CASE \/ \E caller \in Owners, symbol \in Symbols, price \in Prices :
                Mark(caller, symbol, price)
           \/ NextDay
           \/ UNCHANGED vars
  <2>1. jobs' = jobs /\ nextJob' = nextJob /\ fills' = fills
    BY <1>5 DEF Mark, NextDay, vars, history
  <2>2. Removed({})
    BY <1>0, <2>1 DEF Removed
  <2>. QED
    BY <2>2
<1>6. CASE Restart
  <2>1. Removed(JobIds)
    BY <1>6 DEF Restart, Removed
  <2>. QED
    BY <2>1
<1>. QED
  BY <1>1, <1>2, <1>3, <1>4, <1>5, <1>6 DEF Next, Statuses
-----------------------------------------------------------------------------
\* Jobs yet to come are not listed and were never filled.
Unborn == \A i \in JobIds : i >= nextJob => jobs[i] = None /\ fills[i] = 0

\* FilledAtMostOnce is not inductive alone: a new job must find its count at 0.
FillInv == Unborn /\ FilledAtMostOnce

LEMMA AdmittedLists ==
  ASSUME TypeOK, NEW job \in Job, Admitted(job)
  PROVE  /\ \A i \in JobIds : i # nextJob => jobs'[i] \in {jobs[i], None}
         /\ jobs'[nextJob] \in {job, None}
<1>. DEFINE js == [jobs EXCEPT ![nextJob] = job]
<1>1. js \in [JobIds -> Job \cup {None}]
  BY DEF TypeOK, Admitted
<1>2. \A i \in JobIds : jobs'[i] \in {js[i], None}
  BY <1>1, NewestType DEF Admitted
<1>. QED
  BY <1>2 DEF TypeOK, Admitted

LEMMA FillInvStep ==
  ASSUME TypeOK, FillInv, [Next]_vars PROVE FillInv'
<1>0. /\ \A i \in JobIds : i \in Nat /\ fills[i] \in Nat
      /\ nextJob \in Nat
  BY Bounds DEF TypeOK, JobIds
<1>1. ASSUME NEW job \in Job, Admitted(job) PROVE FillInv'
  <2>1. /\ \A i \in JobIds : i # nextJob => jobs'[i] \in {jobs[i], None}
        /\ jobs'[nextJob] \in {job, None}
    BY <1>1, AdmittedLists
  <2>2. nextJob \in JobIds /\ nextJob' = nextJob + 1 /\ fills' = fills
    BY <1>1 DEF Admitted
  <2>3. Unborn'
    <3>. SUFFICES ASSUME NEW i \in JobIds, i >= nextJob'
                  PROVE  jobs'[i] = None /\ fills'[i] = 0
      BY DEF Unborn
    <3>1. i # nextJob /\ i >= nextJob
      BY <1>0, <2>2
    <3>2. jobs[i] = None /\ fills[i] = 0
      BY <3>1 DEF FillInv, Unborn
    <3>. QED
      BY <2>1, <2>2, <3>1, <3>2
  <2>4. FilledAtMostOnce'
    <3>. SUFFICES ASSUME NEW i \in JobIds
                  PROVE  /\ fills[i] <= 1
                         /\ (fills[i] = 1 /\ jobs'[i] # None) => jobs'[i].status = "filled"
      BY <2>2 DEF FilledAtMostOnce
    <3>1. CASE i = nextJob
      <4>1. fills[i] = 0
        BY <1>0, <3>1 DEF FillInv, Unborn
      <4>. QED
        BY <4>1
    <3>2. CASE i # nextJob
      BY <2>1, <3>2 DEF FillInv, FilledAtMostOnce
    <3>. QED
      BY <3>1, <3>2
  <2>. QED
    BY <2>3, <2>4 DEF FillInv
<1>2. ASSUME NEW i \in JobIds, NEW to \in Statuses, Moved(i, to) PROVE FillInv'
  <2>1. jobs[i] # None /\ jobs[i] \in Job
    BY <1>2, ListedJob DEF Moved
  <2>2. /\ jobs' = [jobs EXCEPT ![i] = WithStatus(jobs[i], to)]
        /\ nextJob' = nextJob /\ fills' = fills
    BY <1>2 DEF Moved
  <2>3. WithStatus(jobs[i], to).status = to
    BY <2>1, WithStatusType
  <2>4. fills[i] = 1 => to = "filled"
    BY <1>2, <2>1 DEF Moved, Legal, ValidTransitions, FillInv, FilledAtMostOnce
  <2>5. Unborn'
    BY <2>1, <2>2 DEF FillInv, Unborn, TypeOK
  <2>6. FilledAtMostOnce'
    BY <2>2, <2>3, <2>4 DEF FillInv, FilledAtMostOnce, TypeOK
  <2>. QED
    BY <2>5, <2>6 DEF FillInv
<1>3. ASSUME NEW i \in JobIds, Settled(i) PROVE FillInv'
  <2>1. jobs[i] # None /\ jobs[i] \in Job /\ jobs[i].status \in {"queued", "approved"}
    BY <1>3, ListedJob DEF Settled
  <2>2. /\ jobs' = [jobs EXCEPT ![i] = WithStatus(jobs[i], "filled")]
        /\ nextJob' = nextJob /\ fills' = [fills EXCEPT ![i] = @ + 1]
    BY <1>3 DEF Settled
  <2>3. WithStatus(jobs[i], "filled").status = "filled"
    BY <2>1, WithStatusType DEF Statuses
  <2>4. fills[i] = 0
    BY <1>0, <2>1 DEF FillInv, FilledAtMostOnce
  <2>5. Unborn'
    BY <2>1, <2>2 DEF FillInv, Unborn, TypeOK
  <2>6. FilledAtMostOnce'
    BY <1>0, <2>2, <2>3, <2>4 DEF FillInv, FilledAtMostOnce, TypeOK
  <2>. QED
    BY <2>5, <2>6 DEF FillInv
<1>4. ASSUME NEW gone \in SUBSET JobIds, Removed(gone) PROVE FillInv'
  BY <1>4 DEF Removed, FillInv, Unborn, FilledAtMostOnce
<1>. QED
  BY <1>1, <1>2, <1>3, <1>4, StepEffect

LEMMA FillInvariant == Spec => []FillInv
<1>1. Init => FillInv
  BY DEF Init, FillInv, Unborn, FilledAtMostOnce
<1>2. TypeOK /\ FillInv /\ [Next]_vars => FillInv'
  BY FillInvStep
<1>. QED
  BY <1>1, <1>2, EngineTypeCorrect, PTL DEF Spec

\* No interleaving of admissions, approvals, dispatches, purges and restarts
\* applies an order to the paper book twice.
THEOREM FillsAtMostOnce == Spec => []FilledAtMostOnce
<1>1. FillInv => FilledAtMostOnce
  BY DEF FillInv
<1>. QED
  BY <1>1, FillInvariant, PTL

-----------------------------------------------------------------------------
\* A status that is final stays, and a job that is gone stays away.
THEOREM NothingIsRevived == Spec => NeverRevived
<1>. DEFINE Kept == \A i \in JobIds :
       /\ i < nextJob /\ jobs[i] = None => jobs'[i] = None
       /\ (jobs[i] # None /\ jobs'[i] # None) =>
            (jobs[i].status \in Terminal => jobs'[i].status = jobs[i].status)
<1>1. TypeOK /\ FillInv /\ [Next]_vars => Kept
  <2>. SUFFICES ASSUME TypeOK, FillInv, [Next]_vars PROVE Kept
    OBVIOUS
  <2>0. nextJob \in Nat
    BY Bounds DEF TypeOK
  <2>1. ASSUME NEW job \in Job, Admitted(job) PROVE Kept
    <3>1. \A i \in JobIds : i # nextJob => jobs'[i] \in {jobs[i], None}
      BY <2>1, AdmittedLists
    <3>2. jobs[nextJob] = None
      BY <2>0, <2>1 DEF Admitted, FillInv, Unborn
    <3>. QED
      BY <2>0, <3>1, <3>2
  <2>2. ASSUME NEW i \in JobIds, NEW to \in Statuses, Moved(i, to) PROVE Kept
    <3>1. jobs[i] # None /\ jobs[i] \in Job
      BY <2>2, ListedJob DEF Moved
    <3>2. jobs[i].status \in Terminal => to = jobs[i].status
      BY <2>2 DEF Moved, Legal, ValidTransitions, Terminal
    <3>3. WithStatus(jobs[i], to).status = to
      BY <3>1, WithStatusType
    <3>. QED
      BY <2>2, <3>1, <3>2, <3>3 DEF Moved, TypeOK
  <2>3. ASSUME NEW i \in JobIds, Settled(i) PROVE Kept
    BY <2>3 DEF Settled, Terminal, TypeOK
  <2>4. ASSUME NEW gone \in SUBSET JobIds, Removed(gone) PROVE Kept
    BY <2>4 DEF Removed
  <2>. QED
    BY <2>1, <2>2, <2>3, <2>4, StepEffect
<1>. QED
  BY <1>1, EngineTypeCorrect, FillInvariant, PTL DEF Spec, NeverRevived
-----------------------------------------------------------------------------
\* What a step that admits nothing does to the set of open jobs: it only shrinks.
LEMMA OpenJobsShrink ==
  ASSUME TypeOK,
         \/ \E i \in JobIds, to \in Statuses : Moved(i, to)
         \/ \E i \in JobIds : Settled(i)
         \/ \E gone \in SUBSET JobIds : Removed(gone)
  PROVE  /\ ActiveJobs(jobs') \subseteq ActiveJobs(jobs)
         /\ \A symbol \in Symbols : ActiveFor(jobs', symbol) \subseteq ActiveFor(jobs, symbol)
<1>. SUFFICES ASSUME NEW j \in JobIds, jobs'[j] # None, jobs'[j].status \in Active
              PROVE  /\ jobs[j] # None
                     /\ jobs[j].status \in Active
                     /\ jobs[j].sig = jobs'[j].sig
  BY DEF ActiveJobs, ActiveFor, Live
<1>1. ASSUME NEW i \in JobIds, NEW to \in Statuses, Moved(i, to)
      PROVE  /\ jobs[j] # None
             /\ jobs[j].status \in Active
             /\ jobs[j].sig = jobs'[j].sig
  <2>1. jobs[i] # None /\ jobs[i] \in Job
    BY <1>1, ListedJob DEF Moved
  <2>2. to \in Active => jobs[i].status \in Active
    BY <1>1, <2>1 DEF Moved, Legal, ValidTransitions, Active
  <2>3. /\ WithStatus(jobs[i], to).status = to
        /\ WithStatus(jobs[i], to).sig = jobs[i].sig
    BY <2>1, WithStatusType
  <2>. QED
    BY <1>1, <2>1, <2>2, <2>3 DEF Moved, TypeOK
<1>2. ASSUME NEW i \in JobIds, Settled(i)
      PROVE  /\ jobs[j] # None
             /\ jobs[j].status \in Active
             /\ jobs[j].sig = jobs'[j].sig
  <2>1. jobs[i] # None /\ jobs[i] \in Job
    BY <1>2, ListedJob DEF Settled
  <2>2. WithStatus(jobs[i], "filled").status = "filled"
    BY <2>1, WithStatusType DEF Statuses
  <2>3. j # i
    BY <1>2, <2>2 DEF Settled, Active, TypeOK
  <2>. QED
    BY <1>2, <2>3 DEF Settled, TypeOK
<1>3. ASSUME NEW gone \in SUBSET JobIds, Removed(gone)
      PROVE  /\ jobs[j] # None
             /\ jobs[j].status \in Active
             /\ jobs[j].sig = jobs'[j].sig
  BY <1>3 DEF Removed
<1>. QED
  BY <1>1, <1>2, <1>3

\* An admission adds its own job at most, and only if it is queued.
LEMMA OpenJobsGrow ==
  ASSUME TypeOK, NEW job \in Job, Admitted(job)
  PROVE  /\ ActiveJobs(jobs') \subseteq ActiveJobs(jobs) \cup {nextJob}
         /\ \A symbol \in Symbols :
              ActiveFor(jobs', symbol) \subseteq ActiveFor(jobs, symbol) \cup {nextJob}
         /\ job.status # "queued" => ActiveJobs(jobs') \subseteq ActiveJobs(jobs)
         /\ \A symbol \in Symbols : job.status # "queued" \/ job.sig.symbol # symbol =>
              ActiveFor(jobs', symbol) \subseteq ActiveFor(jobs, symbol)
<1>1. /\ \A i \in JobIds : i # nextJob => jobs'[i] \in {jobs[i], None}
      /\ jobs'[nextJob] \in {job, None}
  BY AdmittedLists
<1>2. job.status \in {"queued", "rejected"}
  BY DEF Admitted
<1>. QED
  BY <1>1, <1>2 DEF ActiveJobs, ActiveFor, Live, Active

LEMMA JobSetsFinite ==
  ASSUME NEW S \in SUBSET JobIds PROVE IsFiniteSet(S) /\ Cardinality(S) \in Nat
<1>1. IsFiniteSet(JobIds)
  BY Bounds, FS_Interval DEF JobIds
<1>. QED
  BY <1>1, FS_Subset, FS_CardinalityType

LEMMA OneMore ==
  ASSUME NEW S \in SUBSET JobIds, NEW x, NEW T \in SUBSET JobIds, T \subseteq S \cup {x}
  PROVE  Cardinality(T) <= Cardinality(S) + 1
<1>1. IsFiniteSet(S) /\ Cardinality(S) \in Nat /\ Cardinality(T) \in Nat
  BY JobSetsFinite
<1>2. /\ IsFiniteSet(S \cup {x})
      /\ Cardinality(S \cup {x}) = IF x \in S THEN Cardinality(S) ELSE Cardinality(S) + 1
  BY <1>1, FS_AddElement
<1>3. Cardinality(T) <= Cardinality(S \cup {x})
  BY <1>2, FS_Subset
<1>. QED
  BY <1>1, <1>2, <1>3

LEMMA NoMore ==
  ASSUME NEW S \in SUBSET JobIds, NEW T \in SUBSET S
  PROVE  Cardinality(T) <= Cardinality(S)
  BY JobSetsFinite, FS_Subset

LEMMA LimitStep ==
  ASSUME TypeOK, ActiveWithinLimit, [Next]_vars PROVE ActiveWithinLimit'
<1>. SUFFICES ASSUME NEW limit \in 1..MaxJobs,
                     \A policy \in Policies : policy.maxOpen \in 1..limit
              PROVE  Cardinality(ActiveJobs(jobs')) <= limit
  BY DEF ActiveWithinLimit
<1>. DEFINE S == ActiveJobs(jobs)
            T == ActiveJobs(jobs')
<1>1. S \in SUBSET JobIds /\ T \in SUBSET JobIds
  BY DEF ActiveJobs, Live
<1>2. Cardinality(S) \in Nat /\ Cardinality(T) \in Nat /\ limit \in Nat
  BY <1>1, JobSetsFinite, Bounds
<1>3. Cardinality(S) <= limit
  BY DEF ActiveWithinLimit
<1>4. CASE T \subseteq S
  <2>1. Cardinality(T) <= Cardinality(S)
    BY <1>1, <1>4, NoMore
  <2>. QED
    BY <1>2, <1>3, <2>1
<1>5. ASSUME NEW job \in Job, Admitted(job), job.status = "queued"
      PROVE  Cardinality(T) <= limit
  <2>1. PICK policy \in Policies : Below(Cardinality(S), policy.maxOpen)
    BY <1>5 DEF Admitted
  <2>2. Cardinality(S) < limit
    BY <1>2, <2>1 DEF Below
  <2>3. Cardinality(T) <= Cardinality(S) + 1
    BY <1>1, <1>5, OpenJobsGrow, OneMore
  <2>. HIDE DEF S, T
  <2>. QED
    BY <1>2, <2>2, <2>3
<1>. QED
  BY <1>4, <1>5, StepEffect, OpenJobsShrink, OpenJobsGrow

\* Whatever jobs are approved, dispatched or purged in between, there are never
\* more open jobs than the most permissive policy in use allows.
THEOREM LimitHolds == Spec => []ActiveWithinLimit
<1>1. Init => ActiveWithinLimit
  <2>. SUFFICES ASSUME Init, NEW limit \in 1..MaxJobs
                PROVE  Cardinality(ActiveJobs(jobs)) <= limit
    BY DEF ActiveWithinLimit
  <2>1. ActiveJobs(jobs) = {}
    BY DEF Init, ActiveJobs, Live
  <2>2. Cardinality(ActiveJobs(jobs)) = 0
    BY <2>1, FS_EmptySet
  <2>. QED
    BY <2>2, Bounds
<1>2. TypeOK /\ ActiveWithinLimit /\ [Next]_vars => ActiveWithinLimit'
  BY LimitStep
<1>. QED
  BY <1>1, <1>2, EngineTypeCorrect, PTL DEF Spec

LEMMA SymbolLimitStep ==
  ASSUME TypeOK, ActivePerSymbolWithinLimit, [Next]_vars PROVE ActivePerSymbolWithinLimit'
<1>. SUFFICES ASSUME NEW limit \in 1..MaxJobs,
                     \A policy \in Policies : policy.maxPerSymbol \in 1..limit,
                     NEW symbol \in Symbols
              PROVE  Cardinality(ActiveFor(jobs', symbol)) <= limit
  BY DEF ActivePerSymbolWithinLimit
<1>. DEFINE S == ActiveFor(jobs, symbol)
            T == ActiveFor(jobs', symbol)
<1>1. S \in SUBSET JobIds /\ T \in SUBSET JobIds
  BY DEF ActiveFor, ActiveJobs, Live
<1>2. Cardinality(S) \in Nat /\ Cardinality(T) \in Nat /\ limit \in Nat
  BY <1>1, JobSetsFinite, Bounds
<1>3. Cardinality(S) <= limit
  BY DEF ActivePerSymbolWithinLimit
<1>4. CASE T \subseteq S
  <2>1. Cardinality(T) <= Cardinality(S)
    BY <1>1, <1>4, NoMore
  <2>. QED
    BY <1>2, <1>3, <2>1
<1>5. ASSUME NEW job \in Job, Admitted(job), job.status = "queued", job.sig.symbol = symbol
      PROVE  Cardinality(T) <= limit
  <2>1. PICK policy \in Policies : Below(Cardinality(S), policy.maxPerSymbol)
    BY <1>5 DEF Admitted
  <2>2. Cardinality(S) < limit
    BY <1>2, <2>1 DEF Below
  <2>3. Cardinality(T) <= Cardinality(S) + 1
    BY <1>1, <1>5, OpenJobsGrow, OneMore
  <2>. HIDE DEF S, T
  <2>. QED
    BY <1>2, <2>2, <2>3
<1>. QED
  BY <1>4, <1>5, StepEffect, OpenJobsShrink, OpenJobsGrow

\* Nor more per symbol than the most permissive max_open_per_symbol.
THEOREM SymbolLimitHolds == Spec => []ActivePerSymbolWithinLimit
<1>1. Init => ActivePerSymbolWithinLimit
  <2>. SUFFICES ASSUME Init, NEW limit \in 1..MaxJobs, NEW symbol \in Symbols
                PROVE  Cardinality(ActiveFor(jobs, symbol)) <= limit
    BY DEF ActivePerSymbolWithinLimit
  <2>1. ActiveFor(jobs, symbol) = {}
    BY DEF Init, ActiveFor, ActiveJobs, Live
  <2>2. Cardinality(ActiveFor(jobs, symbol)) = 0
    BY <2>1, FS_EmptySet
  <2>. QED
    BY <2>2, Bounds
<1>2. TypeOK /\ ActivePerSymbolWithinLimit /\ [Next]_vars => ActivePerSymbolWithinLimit'
  BY SymbolLimitStep
<1>. QED
  BY <1>1, <1>2, EngineTypeCorrect, PTL DEF Spec

\* Whatever signals, approvals, dispatches and purges interleave, the open jobs
\* stay within both limits (evaluate_risk_policy).
THEOREM LimitsHold == Spec => []OpenWithinLimits
BY LimitHolds, SymbolLimitHolds, PTL DEF OpenWithinLimits
-----------------------------------------------------------------------------
\* The newest job is listed whatever is cut.
LEMMA AdmittedIsListed ==
  ASSUME TypeOK, FillInv, NEW job \in Job, Admitted(job)
  PROVE  jobs'[nextJob] = job
<1>. DEFINE js == [jobs EXCEPT ![nextJob] = job]
<1>1. \A i \in JobIds : i \in Nat
  BY Bounds DEF JobIds
<1>2. nextJob \in JobIds /\ nextJob \in Nat
  BY <1>1 DEF Admitted
<1>3. job # None
  BY EngineConstants
<1>4. js[nextJob] = job /\ \A j \in JobIds : j # nextJob => js[j] = jobs[j]
  BY <1>2 DEF TypeOK
<1>5. \A j \in JobIds : j > nextJob => jobs[j] = None
  BY <1>1, <1>2 DEF FillInv, Unborn
<1>. DEFINE above == {j \in Live(js) : j >= nextJob}
<1>6. above = {nextJob}
  <2>. HIDE DEF js
  <2>1. ASSUME NEW j \in JobIds, j >= nextJob, js[j] # None PROVE j = nextJob
    <3>. SUFFICES ASSUME j # nextJob PROVE FALSE
      OBVIOUS
    <3>1. j \in Nat
      BY <1>1
    <3>2. j > nextJob
      BY <1>2, <2>1, <3>1
    <3>3. js[j] = jobs[j]
      BY <1>4, Zenon
    <3>4. jobs[j] = None
      BY <1>5, <3>2
    <3>. QED
      BY <2>1, <3>3, <3>4, Zenon
  <2>2. nextJob \in above
    BY <1>2, <1>3, <1>4 DEF Live
  <2>3. \A j \in above : j = nextJob
    BY <2>1 DEF Live
  <2>. HIDE DEF above
  <2>. QED
    BY <2>2, <2>3
<1>7. Cardinality(above) <= JobsCap
  <2>1. Cardinality({nextJob}) = 1
    BY FS_Singleton
  <2>. HIDE DEF above
  <2>. QED
    BY <1>6, <2>1, Bounds
<1>8. Newest(js)[nextJob] = js[nextJob]
  BY <1>2, <1>7 DEF Newest
<1>. QED
  BY <1>4, <1>8 DEF Admitted

LEMMA ListedAreBorn ==
  ASSUME TypeOK, FillInv, NEW i \in JobIds, jobs[i] # None
  PROVE  i < nextJob
  BY Bounds DEF FillInv, Unborn, TypeOK, JobIds

LEMMA PhaseOfListed ==
  ASSUME TypeOK, NEW i \in JobIds, jobs[i] # None
  PROVE  /\ PhaseOf(i) = IF jobs[i].status \in {"queued", "approved"} THEN "pending"
                         ELSE jobs[i].status
         /\ PhaseOf(i) \in {"pending", "sent", "filled", "rejected", "failed"}
<1>1. jobs[i].status \in Statuses
  BY ListedJob
<1>. QED
  BY <1>1 DEF PhaseOf, Statuses

LEMMA AdmittedSubmits ==
  ASSUME TypeOK, FillInv, NEW job \in Job, Admitted(job)
  PROVE  Lifecycle!Next
<1>. DEFINE gone == {j \in Live(jobs) : jobs'[j] = None}
            verdict == IF job.status = "queued" THEN "pending" ELSE "rejected"
<1>0. PICK n \in JobIds : n = nextJob
  BY DEF Admitted
<1>1. /\ n \in Nat /\ nextJob' = n + 1 /\ fills' = fills
      /\ \A i \in JobIds : i \in Nat
  BY <1>0, Bounds DEF Admitted, JobIds
<1>2. jobs[n] = None
  BY <1>0, <1>1 DEF FillInv, Unborn
<1>3. jobs'[n] = job /\ job # None /\ job.status \in {"queued", "rejected"}
  <2>1. jobs'[n] = job
    BY <1>0, AdmittedIsListed
  <2>. QED
    BY <2>1, EngineConstants DEF Admitted
<1>4. \A i \in JobIds : i # n => jobs'[i] \in {jobs[i], None}
  BY <1>0, AdmittedLists
<1>5. PhaseOf(n) = "unborn"
  BY <1>0, <1>1, <1>2 DEF PhaseOf
<1>6. PhaseOf(n)' = verdict
  BY <1>3 DEF PhaseOf
<1>7. ASSUME NEW i \in JobIds, i # n
      PROVE  PhaseOf(i)' = IF i \in gone THEN "discarded" ELSE PhaseOf(i)
  <2>1. CASE i \in gone
    <3>1. jobs'[i] = None /\ i < nextJob'
      BY <1>0, <1>1, <2>1, ListedAreBorn DEF Live
    <3>. QED
      BY <2>1, <3>1 DEF PhaseOf
  <2>2. CASE i \notin gone
    <3>1. jobs'[i] = jobs[i]
      BY <1>4, <1>7, <2>2 DEF Live
    <3>2. i < nextJob' <=> i < nextJob
      BY <1>0, <1>1, <1>7
    <3>. QED
      BY <2>2, <3>1, <3>2 DEF PhaseOf
  <2>. QED
    BY <2>1, <2>2
<1>8. \A i \in gone : PhaseOf(i) \in {"pending", "sent", "filled", "rejected", "failed"}
  BY PhaseOfListed DEF Live
<1>9. gone \in SUBSET JobIds /\ verdict \in {"pending", "rejected"}
  BY DEF Live
<1>10. PICK set \in SUBSET JobIds, v \in {"pending", "rejected"} : set = gone /\ v = verdict
  BY <1>9
<1>. HIDE DEF gone, verdict
<1>11. Lifecycle!Submit(n, v, set)
  <2>1. [i \in JobIds |-> PhaseOf(i)]'
          = [j \in JobIds |-> IF j = n THEN v ELSE IF j \in set THEN "discarded"
                              ELSE [i \in JobIds |-> PhaseOf(i)][j]]
    BY <1>6, <1>7, <1>10
  <2>2. \A j \in set : PhaseOf(j) \in Lifecycle!Present
    BY <1>8, <1>10 DEF Lifecycle!Present, Lifecycle!Phases
  <2>. QED
    BY <1>1, <1>5, <2>1, <2>2 DEF Lifecycle!Submit
<1>. QED
  BY <1>11 DEF Lifecycle!Next

LEMMA MovedResolves ==
  ASSUME TypeOK, FillInv, NEW i \in JobIds, NEW to \in Statuses, Moved(i, to)
  PROVE  [Lifecycle!Next]_(Lifecycle!vars)
<1>. DEFINE after == IF to \in {"queued", "approved"} THEN "pending" ELSE to
<1>1. jobs[i] # None /\ jobs[i] \in Job /\ jobs[i].status \in Statuses
  BY ListedJob DEF Moved
<1>2. PICK job \in Job : job = WithStatus(jobs[i], to) /\ job.status = to /\ job # None
  BY <1>1, WithStatusType, EngineConstants
<1>3. jobs' = [jobs EXCEPT ![i] = job] /\ nextJob' = nextJob /\ fills' = fills
  BY <1>2 DEF Moved
<1>4. \A j \in JobIds : j # i => PhaseOf(j)' = PhaseOf(j)
  BY <1>3 DEF PhaseOf, TypeOK
<1>5. PhaseOf(i)' = after
  BY <1>2, <1>3 DEF PhaseOf, TypeOK
<1>6. after = PhaseOf(i) \/ after \in Lifecycle!Outcomes(PhaseOf(i))
  BY <1>1, PhaseOfListed DEF Moved, Legal, ValidTransitions, Lifecycle!Outcomes, Statuses
<1>7. CASE after = PhaseOf(i)
  BY <1>3, <1>4, <1>5, <1>7 DEF Lifecycle!vars
<1>8. CASE after \in Lifecycle!Outcomes(PhaseOf(i))
  <2>1. Lifecycle!Resolve(i, after)
    BY <1>3, <1>4, <1>5, <1>8 DEF Lifecycle!Resolve
  <2>2. after \in Lifecycle!Phases
    BY DEF Lifecycle!Phases, Statuses
  <2>. QED
    BY <2>1, <2>2 DEF Lifecycle!Next
<1>. QED
  BY <1>6, <1>7, <1>8

LEMMA SettledSettles ==
  ASSUME TypeOK, FillInv, NEW i \in JobIds, Settled(i)
  PROVE  Lifecycle!Next
<1>1. jobs[i] # None /\ jobs[i] \in Job
  BY ListedJob DEF Settled
<1>2. PICK job \in Job : job = WithStatus(jobs[i], "filled") /\ job.status = "filled" /\ job # None
  BY <1>1, WithStatusType, EngineConstants DEF Statuses
<1>3. jobs' = [jobs EXCEPT ![i] = job] /\ nextJob' = nextJob /\ fills' = [fills EXCEPT ![i] = @ + 1]
  BY <1>2 DEF Settled
<1>4. PhaseOf(i) = "pending"
  BY <1>1, PhaseOfListed DEF Settled
<1>5. PhaseOf(i)' = "filled" /\ \A j \in JobIds : j # i => PhaseOf(j)' = PhaseOf(j)
  BY <1>2, <1>3 DEF PhaseOf, TypeOK
<1>6. \A j \in JobIds : fills'[j] > 0 <=> fills[j] > 0 \/ j = i
  BY <1>3 DEF TypeOK
<1>7. Lifecycle!Settle(i)
  BY <1>4, <1>5, <1>6 DEF Lifecycle!Settle
<1>. QED
  BY <1>7 DEF Lifecycle!Next

LEMMA RemovedDiscards ==
  ASSUME TypeOK, FillInv, NEW set \in SUBSET JobIds, Removed(set)
  PROVE  Lifecycle!Next
<1>. DEFINE gone == set \cap Live(jobs)
<1>1. gone \in SUBSET JobIds
  OBVIOUS
<1>2. \A i \in JobIds : jobs'[i] = IF i \in gone THEN None ELSE jobs[i]
  BY DEF Removed, Live
<1>3. nextJob' = nextJob /\ fills' = fills
  BY DEF Removed
<1>4. \A i \in gone : /\ i < nextJob
                      /\ PhaseOf(i) \in {"pending", "sent", "filled", "rejected", "failed"}
  BY ListedAreBorn, PhaseOfListed DEF Live
<1>. HIDE DEF gone
<1>5. \A i \in JobIds : PhaseOf(i)' = IF i \in gone THEN "discarded" ELSE PhaseOf(i)
  BY <1>2, <1>3, <1>4 DEF PhaseOf
<1>6. Lifecycle!Discard(gone)
  <2>1. [i \in JobIds |-> PhaseOf(i)]'
          = [i \in JobIds |-> IF i \in gone THEN "discarded" ELSE [j \in JobIds |-> PhaseOf(j)][i]]
    BY <1>5
  <2>2. \A i \in gone : PhaseOf(i) \in Lifecycle!Present
    BY <1>4 DEF Lifecycle!Present, Lifecycle!Phases
  <2>. QED
    BY <1>1, <1>3, <2>1, <2>2 DEF Lifecycle!Discard
<1>. QED
  BY <1>1, <1>6 DEF Lifecycle!Next

\* The engine implements the lifecycle of its jobs, for any owners, policies and
\* caps: every handler is one of its steps or leaves it alone.
THEOREM LifecycleImplemented == Spec => ImplementsLifecycle
<1>1. Init => Lifecycle!Init
  BY Bounds DEF Init, Lifecycle!Init, PhaseOf, JobIds
<1>2. TypeOK /\ FillInv /\ [Next]_vars => [Lifecycle!Next]_(Lifecycle!vars)
  BY StepEffect, AdmittedSubmits, MovedResolves, SettledSettles, RemovedDiscards
<1>. QED
  BY <1>1, <1>2, EngineTypeCorrect, FillInvariant, PTL
     DEF Spec, ImplementsLifecycle, Lifecycle!Spec
-----------------------------------------------------------------------------
\* The hours a trading window admits are those from its start on to its end, the
\* day taken as a circle, whichever of the two is the later one (_hour_in_window).
THEOREM HoursAreTheArc ==
  ASSUME NEW start \in Hours, NEW end \in Hours
  PROVE  {hour \in Hours : HourInWindow(hour, start, end)}
           = {(start + k) % 24 : k \in 0..((end - start) % 24)}
<1>. DEFINE n == (end - start) % 24
<1>1. start \in 0..23 /\ end \in 0..23
  BY DEF Hours
<1>2. n = IF start <= end THEN end - start ELSE end - start + 24
  BY <1>1
<1>3. ASSUME NEW hour \in Hours, HourInWindow(hour, start, end)
      PROVE  \E k \in 0..n : hour = (start + k) % 24
  <2>. DEFINE k == IF start <= hour THEN hour - start ELSE hour - start + 24
  <2>1. hour \in 0..23
    BY DEF Hours
  <2>2. k \in 0..n
    BY <1>1, <1>2, <1>3, <2>1 DEF HourInWindow
  <2>3. hour = (start + k) % 24
    BY <1>1, <2>1
  <2>. QED
    BY <2>2, <2>3
<1>4. ASSUME NEW k \in 0..n
      PROVE  (start + k) % 24 \in Hours /\ HourInWindow((start + k) % 24, start, end)
  <2>1. k \in Nat /\ k <= n
    BY <1>1, <1>2
  <2>2. (start + k) % 24 = IF start + k < 24 THEN start + k ELSE start + k - 24
    BY <1>1, <1>2, <2>1
  <2>. QED
    BY <1>1, <1>2, <2>1, <2>2 DEF HourInWindow, Hours
<1>5. ASSUME NEW hour
      PROVE  hour \in Hours /\ HourInWindow(hour, start, end)
               <=> \E k \in 0..n : hour = (start + k) % 24
  BY <1>3, <1>4, Zenon
<1>. HIDE DEF n
<1>6. {hour \in Hours : HourInWindow(hour, start, end)} = {(start + k) % 24 : k \in 0..n}
  BY <1>5, Zenon
<1>. QED
  BY <1>6 DEF n
-----------------------------------------------------------------------------
\* The list is never longer than its cap.
WithinCap == Cardinality(Live(jobs)) <= JobsCap

\* Of finitely many job numbers, one is the smallest.
LEMMA SmallestJob ==
  ASSUME NEW S \in SUBSET JobIds, S # {}
  PROVE  \E i \in S : \A j \in S : i <= j
<1>. DEFINE Less == {pair \in Nat \X Nat : pair[1] < pair[2]}
<1>1. S \subseteq Nat
  BY Bounds DEF JobIds
<1>2. IsWellFoundedOn(Less, Nat)
  BY NatLessThanWellFounded DEF OpToRel
<1>3. \A i, j \in Nat : <<j, i>> \notin Less => i <= j
  OBVIOUS
<1>. HIDE DEF Less
<1>4. PICK i \in S : \A j \in S : ~(<<j, i>> \in Less)
  BY <1>1, <1>2, WFMin
<1>. QED
  BY <1>1, <1>3, <1>4

\* What is cut off a list one longer than its cap is its oldest job, and nothing
\* is cut off a shorter one.
LEMMA CutsTheOldest ==
  ASSUME NEW js, Cardinality(Live(js)) <= JobsCap + 1
  PROVE  /\ \A i \in JobIds : js[i] # None /\ Newest(js)[i] = None =>
              /\ Cardinality(Live(js)) = JobsCap + 1
              /\ \A j \in Live(js) : i <= j
         /\ Cardinality(Live(Newest(js))) <= JobsCap
<1>. DEFINE S == Live(js)
            Above(i) == {j \in S : j >= i}
<1>1. S \in SUBSET JobIds /\ IsFiniteSet(S) /\ Cardinality(S) \in Nat
  BY JobSetsFinite DEF Live
<1>2. \A i \in JobIds : Newest(js)[i] = IF Cardinality(Above(i)) <= JobsCap THEN js[i] ELSE None
  BY DEF Newest
<1>3. ASSUME NEW i \in JobIds
      PROVE  /\ Cardinality(Above(i)) \in Nat
             /\ Cardinality(Above(i)) <= Cardinality(S)
             /\ Cardinality(Above(i)) = Cardinality(S) => Above(i) = S
  <2>. DEFINE T == Above(i)
  <2>1. T \in SUBSET S
    OBVIOUS
  <2>. HIDE DEF T
  <2>2. Cardinality(T) \in Nat /\ Cardinality(T) <= Cardinality(S)
        /\ (Cardinality(S) = Cardinality(T) => S = T)
    BY <1>1, <2>1, FS_Subset, JobSetsFinite
  <2>. QED
    BY <2>2 DEF T
<1>4. ASSUME NEW i \in JobIds, js[i] # None, Newest(js)[i] = None
      PROVE  Cardinality(S) = JobsCap + 1 /\ \A j \in S : i <= j
  <2>1. Cardinality(Above(i)) > JobsCap
    BY <1>2, <1>3, <1>4, Bounds
  <2>2. Cardinality(S) = JobsCap + 1 /\ Cardinality(Above(i)) = Cardinality(S)
    BY <1>1, <1>3, <2>1, Bounds
  <2>3. \A j \in S : j >= i
    BY <1>3, <2>2
  <2>4. \A j \in S : j \in Nat /\ i \in Nat
    BY <1>1, Bounds DEF JobIds
  <2>. QED
    BY <2>2, <2>3, <2>4
<1>5. Cardinality(Live(Newest(js))) <= JobsCap
  <2>. DEFINE T == Live(Newest(js))
  <2>1. T \in SUBSET S
    BY <1>2 DEF Live
  <2>2. Cardinality(T) \in Nat /\ Cardinality(T) <= Cardinality(S)
        /\ (Cardinality(S) = Cardinality(T) => S = T)
    <3>. HIDE DEF S, T
    <3>. QED
      BY <1>1, <2>1, FS_Subset, JobSetsFinite
  <2>3. CASE Cardinality(S) <= JobsCap
    BY <1>1, <2>2, <2>3, Bounds
  <2>4. CASE Cardinality(S) = JobsCap + 1
    <3>1. S # {}
      <4>1. Cardinality({}) = 0 /\ JobsCap + 1 # 0
        BY FS_EmptySet, Bounds
      <4>. QED
        BY <2>4, <4>1, Zenon
    <3>2. PICK i \in S : \A j \in S : i <= j
      BY <1>1, <3>1, SmallestJob
    <3>3. Above(i) = S
      <4>1. \A j \in S : j >= i
        BY <1>1, <3>2, Bounds DEF JobIds
      <4>. QED
        BY <4>1
    <3>4. i \in JobIds /\ ~(Cardinality(Above(i)) <= JobsCap)
      <4>1. i \in JobIds
        BY <1>1
      <4>2. ~(JobsCap + 1 <= JobsCap)
        BY Bounds
      <4>. QED
        BY <2>4, <3>3, <4>1, <4>2, Zenon
    <3>5. i \notin T
      BY <1>2, <3>4 DEF Live
    <3>6. Cardinality(T) # Cardinality(S)
      BY <2>2, <3>5
    <3>7. Cardinality(T) <= JobsCap
      <4>. HIDE DEF S, T
      <4>. QED
        BY <1>1, <2>2, <2>4, <3>6, Bounds
    <3>. QED
      BY <3>7
  <2>. QED
    BY <1>1, <2>3, <2>4, Bounds
<1>. QED
  BY <1>4, <1>5

\* An admission makes the list one longer before it is cut.
LEMMA AdmittedList ==
  ASSUME TypeOK, FillInv, NEW job \in Job, Admitted(job)
  PROVE  LET js == [jobs EXCEPT ![nextJob] = job]
         IN  /\ Live(js) = Live(jobs) \cup {nextJob}
             /\ nextJob \notin Live(jobs)
             /\ \A i \in JobIds : i # nextJob => js[i] = jobs[i]
             /\ Cardinality(Live(js)) = Cardinality(Live(jobs)) + 1
<1>. DEFINE js == [jobs EXCEPT ![nextJob] = job]
<1>1. nextJob \in JobIds /\ job # None
  BY EngineConstants DEF Admitted
<1>2. jobs[nextJob] = None
  BY <1>1, Bounds DEF FillInv, Unborn, JobIds
<1>3. /\ Live(js) = Live(jobs) \cup {nextJob}
      /\ nextJob \notin Live(jobs)
      /\ \A i \in JobIds : i # nextJob => js[i] = jobs[i]
  BY <1>1, <1>2 DEF Live, TypeOK
<1>4. Cardinality(Live(jobs) \cup {nextJob}) = Cardinality(Live(jobs)) + 1
  <2>1. IsFiniteSet(Live(jobs))
    BY JobSetsFinite DEF Live
  <2>. QED
    BY <1>3, <2>1, FS_AddElement
<1>. HIDE DEF js
<1>5. Cardinality(Live(js)) = Cardinality(Live(jobs)) + 1
  BY <1>3, <1>4
<1>. QED
  BY <1>3, <1>5 DEF js

LEMMA CapStep ==
  ASSUME TypeOK, FillInv, WithinCap, [Next]_vars PROVE WithinCap'
<1>0. Live(jobs) \in SUBSET JobIds /\ Live(jobs') \in SUBSET JobIds
  BY DEF Live
<1>1. ASSUME NEW job \in Job, Admitted(job) PROVE WithinCap'
  <2>. DEFINE js == [jobs EXCEPT ![nextJob] = job]
  <2>1. Cardinality(Live(js)) = Cardinality(Live(jobs)) + 1
    BY <1>1, AdmittedList
  <2>2. Cardinality(Live(js)) <= JobsCap + 1
    <3>1. Cardinality(Live(jobs)) \in Nat
      BY <1>0, JobSetsFinite
    <3>. HIDE DEF js
    <3>. QED
      BY <2>1, <3>1, Bounds DEF WithinCap
  <2>3. jobs' = Newest(js)
    BY <1>1 DEF Admitted
  <2>. HIDE DEF js
  <2>4. Cardinality(Live(Newest(js))) <= JobsCap
    BY <2>2, CutsTheOldest
  <2>. QED
    BY <2>3, <2>4 DEF WithinCap
<1>2. ASSUME \/ \E i \in JobIds, to \in Statuses : Moved(i, to)
             \/ \E i \in JobIds : Settled(i)
             \/ \E gone \in SUBSET JobIds : Removed(gone)
      PROVE  WithinCap'
  <2>1. Live(jobs') \subseteq Live(jobs)
    BY <1>2 DEF Moved, Settled, Removed, Live, TypeOK
  <2>2. Cardinality(Live(jobs')) <= Cardinality(Live(jobs))
    BY <1>0, <2>1, NoMore
  <2>3. Cardinality(Live(jobs')) \in Nat /\ Cardinality(Live(jobs)) \in Nat
    BY <1>0, JobSetsFinite
  <2>. QED
    BY <2>2, <2>3, Bounds DEF WithinCap
<1>. QED
  BY <1>1, <1>2, StepEffect

LEMMA CapInvariant == Spec => []WithinCap
<1>1. Init => WithinCap
  <2>. SUFFICES ASSUME Init PROVE Cardinality(Live(jobs)) <= JobsCap
    BY DEF WithinCap
  <2>1. Live(jobs) = {}
    BY DEF Init, Live
  <2>. QED
    BY <2>1, FS_EmptySet, Bounds
<1>2. TypeOK /\ FillInv /\ WithinCap /\ [Next]_vars => WithinCap'
  BY CapStep
<1>. QED
  BY <1>1, <1>2, EngineTypeCorrect, FillInvariant, PTL DEF Spec

\* An admission costs at most the oldest job of a full list, whatever the cap
\* (the insertion at the front and del _execution_jobs[500:]).
THEOREM OldestIsEvicted == Spec => EvictsOldestWhenFull
<1>. DEFINE Step == nextJob' # nextJob =>
       LET gone == {i \in Live(jobs) : jobs'[i] = None}
       IN  /\ jobs'[nextJob] # None
           /\ gone # {} => Cardinality(Live(jobs)) = JobsCap
           /\ \A i \in gone : \A j \in Live(jobs) : i <= j
<1>1. TypeOK /\ FillInv /\ WithinCap /\ [Next]_vars => Step
  <2>. SUFFICES ASSUME TypeOK, FillInv, WithinCap, [Next]_vars, nextJob' # nextJob
                PROVE  /\ jobs'[nextJob] # None
                       /\ \A i \in Live(jobs) : jobs'[i] = None =>
                            /\ Cardinality(Live(jobs)) = JobsCap
                            /\ \A j \in Live(jobs) : i <= j
    BY Zenon
  <2>1. PICK job \in Job : Admitted(job)
    BY StepEffect DEF Moved, Settled, Removed
  <2>. DEFINE js == [jobs EXCEPT ![nextJob] = job]
  <2>2. jobs'[nextJob] # None
    BY <2>1, AdmittedIsListed, EngineConstants
  <2>3. /\ Live(js) = Live(jobs) \cup {nextJob}
        /\ nextJob \notin Live(jobs)
        /\ \A i \in JobIds : i # nextJob => js[i] = jobs[i]
        /\ Cardinality(Live(js)) = Cardinality(Live(jobs)) + 1
    BY <2>1, AdmittedList
  <2>4. jobs' = Newest(js)
    BY <2>1 DEF Admitted
  <2>5. Cardinality(Live(jobs)) \in Nat
    BY JobSetsFinite DEF Live
  <2>. HIDE DEF js
  <2>6. Cardinality(Live(js)) <= JobsCap + 1
    BY <2>3, <2>5, Bounds DEF WithinCap
  <2>7. ASSUME NEW i \in Live(jobs), jobs'[i] = None
        PROVE  Cardinality(Live(jobs)) = JobsCap /\ \A j \in Live(jobs) : i <= j
    <3>1. i \in JobIds /\ js[i] # None
      BY <2>3 DEF Live
    <3>2. Cardinality(Live(js)) = JobsCap + 1 /\ \A j \in Live(js) : i <= j
      BY <2>4, <2>6, <2>7, <3>1, CutsTheOldest
    <3>. QED
      BY <2>3, <2>5, <3>2, Bounds
  <2>. QED
    BY <2>2, <2>7
<1>. QED
  BY <1>1, EngineTypeCorrect, FillInvariant, CapInvariant, PTL DEF Spec, EvictsOldestWhenFull
-----------------------------------------------------------------------------
\* A position lies under the key that its owner and its symbol spell.
OwnKey(p, k) == k = PositionKey(p.owner, p.symbol)
KeyInv == \A k \in Keys : positions[k] # None => OwnKey(positions[k], k)

LEMMA FilledName ==
  ASSUME NEW p \in Position \cup {None}, NEW s \in Signals, PositionAfter(p, s) # None
  PROVE  \/ PositionAfter(p, s).owner = s.owner /\ PositionAfter(p, s).symbol = s.symbol
         \/ /\ p # None
            /\ PositionAfter(p, s).owner = p.owner /\ PositionAfter(p, s).symbol = p.symbol
<1>1. s.side \notin Closing
  BY DEF PositionAfter
<1>2. CASE IF p = None THEN TRUE ELSE p.side # s.side
  BY <1>1, <1>2 DEF PositionAfter, Opened
<1>3. CASE p # None /\ p.side = s.side
  <2>1. PositionAfter(p, s) = [p EXCEPT !.qty = @ + OrderQty(s), !.cost = @ + s.price * OrderQty(s)]
    BY <1>1, <1>3 DEF PositionAfter
  <2>2. PositionAfter(p, s).owner = p.owner /\ PositionAfter(p, s).symbol = p.symbol
    BY <1>3, <2>1 DEF Position
  <2>. QED
    BY <1>3, <2>2
<1>. QED
  BY <1>2, <1>3

\* What a step does to the book: one fill, one caller's mark, a restart, nothing.
Booked(s) == positions' = [positions EXCEPT ![KeyOf(s)] = PositionAfter(@, s)]

LEMMA DispatchedBook ==
  ASSUME TypeOK, NEW i \in JobIds, NEW job \in Job, NEW logged, Dispatched(i, job, logged)
  PROVE  \/ Booked(job.sig) /\ job.sig.price # None
         \/ positions' = positions
<1>1. CASE SendOnly(i, job, logged)
  BY <1>1 DEF SendOnly
<1>2. CASE SendAndFill(i, job, logged)
  BY <1>2 DEF SendAndFill, Fill, Booked
<1>. QED
  BY <1>1, <1>2 DEF Dispatched

LEMMA BookedKeepsKeys ==
  ASSUME TypeOK, KeyInv, NEW s \in Signals, Booked(s) PROVE KeyInv'
<1>. SUFFICES ASSUME NEW k \in Keys, positions'[k] # None PROVE OwnKey(positions'[k], k)
  BY DEF KeyInv, OwnKey
<1>1. KeyOf(s) \in Keys /\ positions[k] \in Position \cup {None}
  BY KeyOfType DEF TypeOK, BookTypeOK
<1>2. CASE k # KeyOf(s)
  <2>1. positions'[k] = positions[k]
    BY <1>2 DEF Booked, TypeOK, BookTypeOK
  <2>. QED
    BY <2>1 DEF KeyInv, OwnKey
<1>3. CASE k = KeyOf(s)
  <2>1. positions'[k] = PositionAfter(positions[k], s)
    BY <1>3 DEF Booked, TypeOK, BookTypeOK
  <2>2. \/ positions'[k].owner = s.owner /\ positions'[k].symbol = s.symbol
        \/ /\ positions[k] # None
           /\ positions'[k].owner = positions[k].owner
           /\ positions'[k].symbol = positions[k].symbol
    BY <1>1, <2>1, FilledName
  <2>. QED
    BY <1>3, <2>2 DEF KeyInv, OwnKey, KeyOf
<1>. QED
  BY <1>2, <1>3

LEMMA MarkedName ==
  ASSUME TypeOK, NEW k \in Keys, positions[k] # None, NEW price
  PROVE  /\ Marked(positions[k], price).owner = positions[k].owner
         /\ Marked(positions[k], price).symbol = positions[k].symbol
<1>1. positions[k] \in Position
  BY DEF TypeOK, BookTypeOK
<1>. QED
  BY <1>1 DEF Marked, Position

LEMMA KeyStep ==
  ASSUME TypeOK, KeyInv, [Next]_vars PROVE KeyInv'
<1>1. ASSUME NEW s \in Signals, NEW policy \in Policies, NEW clock \in Clocks,
             NEW startable \in BOOLEAN, Admit(s, policy, clock, startable)
      PROVE  positions' = positions
  BY <1>1 DEF Admit
<1>2. ASSUME NEW caller \in Owners, NEW i \in JobIds, Dispatch(caller, i) PROVE KeyInv'
  <2>1. jobs[i] \in Job /\ jobs[i].sig \in Signals /\ Dispatched(i, jobs[i], <<>>)
    BY <1>2, ListedJob DEF Dispatch, Finds
  <2>. QED
    BY <2>1, DispatchedBook, BookedKeepsKeys DEF KeyInv
<1>3. ASSUME NEW caller \in Owners, NEW i \in JobIds, NEW to \in Statuses,
             Patch(caller, i, to)
      PROVE  KeyInv'
  <2>. DEFINE job == WithStatus(jobs[i], to)
              change == <<EventOf(i, job, "status_changed", 0)>>
  <2>1. job \in Job /\ job.sig = jobs[i].sig /\ jobs[i] # None
        /\ (Dispatched(i, job, change) \/ positions' = positions)
    BY <1>3, PatchCases
  <2>2. job.sig \in Signals
    BY <2>1, ListedJob
  <2>. HIDE DEF job, change
  <2>. QED
    BY <2>1, <2>2, DispatchedBook, BookedKeepsKeys DEF KeyInv
<1>4. ASSUME NEW caller \in Owners, NEW symbol \in Symbols, NEW price \in Prices,
             Mark(caller, symbol, price)
      PROVE  KeyInv'
  <2>. SUFFICES ASSUME NEW k \in Keys, positions'[k] # None PROVE OwnKey(positions'[k], k)
    BY DEF KeyInv, OwnKey
  <2>1. positions'[k] = IF Revalued(k, caller, symbol) THEN Marked(positions[k], price)
                        ELSE positions[k]
    BY <1>4 DEF Mark, MarkToMarket
  <2>2. /\ positions[k] # None
        /\ positions'[k].owner = positions[k].owner
        /\ positions'[k].symbol = positions[k].symbol
    BY <2>1, MarkedName DEF Revalued
  <2>. QED
    BY <2>2 DEF KeyInv, OwnKey
<1>5. CASE \/ \E caller \in Owners, targets \in PurgeRequests : Purge(caller, targets)
           \/ NextDay
           \/ UNCHANGED vars
  BY <1>5 DEF Purge, NextDay, vars, KeyInv, OwnKey
<1>6. CASE Restart
  BY <1>6 DEF Restart, BookRestart, KeyInv
<1>. QED
  BY <1>1, <1>2, <1>3, <1>4, <1>5, <1>6 DEF Next, KeyInv, OwnKey

LEMMA KeyInvariant == Spec => []KeyInv
<1>1. Init => KeyInv
  BY DEF Init, BookInit, KeyInv
<1>2. TypeOK /\ KeyInv /\ [Next]_vars => KeyInv'
  BY KeyStep
<1>. QED
  BY <1>1, <1>2, EngineTypeCorrect, PTL DEF Spec

LEMMA DispatchedTouches ==
  ASSUME TypeOK, KeyInv, NEW caller \in Owners, NEW i \in JobIds, Finds(caller, i),
         NEW job \in Job, job.sig = jobs[i].sig, NEW logged, Dispatched(i, job, logged)
  PROVE  ~ChangesOthers(caller)
<1>1. job.sig \in Signals /\ VisibleTo(job.sig.owner, caller)
  BY ListedJob DEF Finds
<1>2. \A j \in JobIds : j # i => jobs'[j] = jobs[j]
  BY DEF Dispatched, SendOnly, SendAndFill, TypeOK
<1>3. \A k \in Keys : k # KeyOf(job.sig) => positions'[k] = positions[k]
  BY DispatchedBook DEF Booked, TypeOK, BookTypeOK
<1>4. ASSUME NEW k \in Keys, positions[k] # None, positions'[k] # positions[k],
             ~VisibleTo(positions[k].owner, caller)
      PROVE  Shared(k) /\ fills'[i] # fills[i] /\ KeyOf(jobs[i].sig) = k
  <2>1. k = KeyOf(job.sig)
    BY <1>3, <1>4
  <2>2. k = PositionKey(positions[k].owner, positions[k].symbol)
    BY <1>4 DEF KeyInv, OwnKey
  <2>3. /\ positions[k].owner \in Owners \cup {None} /\ positions[k].symbol \in Symbols
        /\ job.sig.owner \in Owners \cup {None} /\ job.sig.symbol \in Symbols
    BY <1>1, <1>4, SignalType DEF TypeOK, BookTypeOK, Position
  <2>4. positions[k].owner # job.sig.owner
    BY <1>1, <1>4
  <2>5. Shared(k)
    BY <2>1, <2>2, <2>3, <2>4 DEF Shared, KeyOf
  <2>6. fills' = [fills EXCEPT ![i] = @ + 1]
    BY <1>4 DEF Dispatched, SendOnly, SendAndFill
  <2>7. fills'[i] # fills[i]
    BY <2>6 DEF TypeOK
  <2>. QED
    BY <2>1, <2>5, <2>7
<1>. QED
  BY <1>1, <1>2, <1>4 DEF ChangesOthers, Live

LEMMA RequestTouches ==
  ASSUME TypeOK, KeyInv, NEW caller \in Owners, RequestBy(caller)
  PROVE  ~ChangesOthers(caller)
<1>1. ASSUME NEW i \in JobIds, Dispatch(caller, i) PROVE ~ChangesOthers(caller)
  <2>1. Finds(caller, i) /\ jobs[i] \in Job /\ Dispatched(i, jobs[i], <<>>)
    BY <1>1, ListedJob DEF Dispatch, Finds
  <2>. QED
    BY <2>1, DispatchedTouches
<1>2. ASSUME NEW i \in JobIds, NEW to \in Statuses, Patch(caller, i, to)
      PROVE  ~ChangesOthers(caller)
  <2>. DEFINE job == WithStatus(jobs[i], to)
              change == <<EventOf(i, job, "status_changed", 0)>>
  <2>1. Finds(caller, i)
    BY <1>2 DEF Patch
  <2>2. job \in Job /\ job.sig = jobs[i].sig
        /\ \/ Dispatched(i, job, change)
           \/ jobs' = [jobs EXCEPT ![i] = job] /\ positions' = positions
    BY <1>2, PatchCases
  <2>. HIDE DEF job, change
  <2>3. CASE Dispatched(i, job, change)
    BY <2>1, <2>2, <2>3, DispatchedTouches
  <2>4. CASE jobs' = [jobs EXCEPT ![i] = job] /\ positions' = positions
    BY <2>1, <2>4 DEF ChangesOthers, Live, Finds, TypeOK
  <2>. QED
    BY <2>2, <2>3, <2>4
<1>3. ASSUME NEW targets \in PurgeRequests, Purge(caller, targets)
      PROVE  ~ChangesOthers(caller)
  BY <1>3 DEF Purge, ChangesOthers, Live, Finds
<1>4. ASSUME NEW symbol \in Symbols, NEW price \in Prices, Mark(caller, symbol, price)
      PROVE  ~ChangesOthers(caller)
  BY <1>4 DEF Mark, MarkToMarket, Revalued, ChangesOthers
<1>. QED
  BY <1>1, <1>2, <1>3, <1>4 DEF RequestBy

\* For any owners and any text of the keys, one who is called public among them, a
\* request changes nothing of another tenant but a position on a shared key.
THEOREM TenantsAreApart == Spec => OnlyTheCallersTouched
<1>1. TypeOK /\ KeyInv =>
        \A caller \in Owners : ChangesOthers(caller) => ~RequestBy(caller)
  BY RequestTouches
<1>. QED
  BY <1>1, EngineTypeCorrect, KeyInvariant, PTL DEF Spec, OnlyTheCallersTouched
-----------------------------------------------------------------------------
\* AuditExplainsStatus and AuditIsAPath of any trail and list, and that no event
\* is of a job yet to come: together they are kept by every event a handler adds.
Told(trail, js) ==
  \A n \in DOMAIN trail :
    (js[trail[n].job] # None
       /\ \A m \in DOMAIN trail : trail[m].job = trail[n].job => n <= m) =>
      js[trail[n].job].status = trail[n].status
Path(trail) ==
  \A n, older \in DOMAIN trail : older > n /\ trail[older].job = trail[n].job =>
    /\ trail[n].type # "job_created"
    /\ (\A m \in DOMAIN trail : trail[m].job = trail[n].job => m <= n \/ m >= older) =>
         Legal(trail[older].status, trail[n].status)
Begun(trail, next) == \A n \in DOMAIN trail : trail[n].job < next
Honest(trail, js, next) == Told(trail, js) /\ Path(trail) /\ Begun(trail, next)

AuditInv == Honest(audit, jobs, nextJob)

Lists == [JobIds -> Job \cup {None}]

LEMMA PushedEvents ==
  ASSUME NEW trail \in Seq(Event), NEW e \in Event
  PROVE  /\ <<e>> \o trail \in Seq(Event)
         /\ DOMAIN (<<e>> \o trail) = 1..(Len(trail) + 1) /\ DOMAIN trail = 1..Len(trail)
         /\ (<<e>> \o trail)[1] = e
         /\ \A n \in 1..Len(trail) : (<<e>> \o trail)[n + 1] = trail[n]
  OBVIOUS

\* An event of a job that has none, or one that states a legal next status, keeps
\* the trail honest about the list after it.
LEMMA PushKeepsHonest ==
  ASSUME NEW trail \in Seq(Event), NEW e \in Event, NEW js \in Lists, NEW after \in Lists,
         NEW next \in Nat, NEW upper \in Nat, next <= upper, e.job < upper,
         Honest(trail, js, next),
         \/ \A n \in DOMAIN trail : trail[n].job # e.job
         \/ /\ js[e.job] # None
            /\ Legal(js[e.job].status, e.status)
            /\ e.type # "job_created",
         after[e.job] = None \/ after[e.job].status = e.status,
         \A j \in JobIds : j # e.job => after[j] \in {js[j], None}
  PROVE  Honest(<<e>> \o trail, after, upper)
<1>. DEFINE L == Len(trail)
<1>0. L \in Nat /\ DOMAIN trail = 1..L /\ \A n \in 1..L : trail[n] \in Event /\ trail[n].job \in JobIds
  <2>1. L \in Nat /\ DOMAIN trail = 1..L /\ \A n \in 1..L : trail[n] \in Event
    OBVIOUS
  <2>. QED
    BY <2>1 DEF Event
<1>1. PICK new \in Seq(Event) :
        /\ new = <<e>> \o trail
        /\ DOMAIN new = 1..(L + 1)
        /\ new[1] = e
        /\ \A n \in 1..L : new[n + 1] = trail[n]
  BY PushedEvents
<1>2. \A n \in 2..(L + 1) : n - 1 \in 1..L /\ new[n] = trail[n - 1]
  <2>. SUFFICES ASSUME NEW n \in 2..(L + 1) PROVE n - 1 \in 1..L /\ new[n] = trail[n - 1]
    OBVIOUS
  <2>1. n - 1 \in 1..L /\ (n - 1) + 1 = n
    BY <1>0
  <2>. QED
    BY <1>1, <2>1
<1>3. \A n \in 1..(L + 1) : n = 1 \/ n \in 2..(L + 1)
  BY <1>0
<1>. HIDE DEF L
<1>4. Told(new, after)
  <2>. SUFFICES ASSUME NEW n \in 1..(L + 1), after[new[n].job] # None,
                       \A m \in 1..(L + 1) : new[m].job = new[n].job => n <= m
                PROVE  after[new[n].job].status = new[n].status
    BY <1>1 DEF Told
  <2>1. CASE n = 1
    BY <1>1, <2>1
  <2>2. CASE n \in 2..(L + 1)
    <3>1. n - 1 \in 1..L /\ new[n] = trail[n - 1] /\ 1 \in 1..(L + 1) /\ ~(n <= 1)
      BY <1>0, <1>2, <2>2
    <3>2. new[n].job # e.job
      BY <1>1, <3>1
    <3>3. \A m \in 1..L : trail[m].job = trail[n - 1].job => n - 1 <= m
      <4>. SUFFICES ASSUME NEW m \in 1..L, trail[m].job = trail[n - 1].job PROVE n - 1 <= m
        OBVIOUS
      <4>1. m + 1 \in 1..(L + 1) /\ new[m + 1] = trail[m]
        BY <1>0, <1>1
      <4>2. n <= m + 1
        BY <3>1, <4>1
      <4>. QED
        BY <1>0, <4>2
    <3>4. after[new[n].job] = js[new[n].job]
      BY <1>0, <3>1, <3>2
    <3>. QED
      BY <1>0, <3>1, <3>3, <3>4 DEF Honest, Told
  <2>. QED
    BY <1>3, <2>1, <2>2
<1>5. Path(new)
  <2>. SUFFICES ASSUME NEW n \in 1..(L + 1), NEW older \in 1..(L + 1),
                       older > n, new[older].job = new[n].job
                PROVE  /\ new[n].type # "job_created"
                       /\ (\A m \in 1..(L + 1) : new[m].job = new[n].job => m <= n \/ m >= older) =>
                            Legal(new[older].status, new[n].status)
    BY <1>1 DEF Path
  <2>1. older - 1 \in 1..L /\ new[older] = trail[older - 1]
    BY <1>0, <1>2
  <2>2. CASE n = 1
    <3>1. new[n] = e /\ trail[older - 1].job = e.job
      BY <1>1, <2>1, <2>2
    <3>2. /\ js[e.job] # None
          /\ Legal(js[e.job].status, e.status)
          /\ e.type # "job_created"
      BY <1>0, <2>1, <3>1
    <3>3. ASSUME \A m \in 1..(L + 1) : new[m].job = new[n].job => m <= n \/ m >= older
          PROVE  js[e.job].status = trail[older - 1].status
      <4>1. \A m \in 1..L : trail[m].job = trail[older - 1].job => older - 1 <= m
        <5>. SUFFICES ASSUME NEW m \in 1..L, trail[m].job = trail[older - 1].job
                      PROVE  older - 1 <= m
          OBVIOUS
        <5>1. m + 1 \in 1..(L + 1) /\ new[m + 1] = trail[m] /\ ~(m + 1 <= n)
          BY <1>0, <1>1, <2>2
        <5>2. m + 1 >= older
          BY <3>1, <3>3, <5>1
        <5>. QED
          BY <1>0, <5>2
      <4>. QED
        BY <1>0, <2>1, <3>1, <3>2, <4>1 DEF Honest, Told
    <3>. QED
      BY <2>1, <3>1, <3>2, <3>3
  <2>3. CASE n \in 2..(L + 1)
    <3>1. n - 1 \in 1..L /\ new[n] = trail[n - 1] /\ older - 1 > n - 1
      BY <1>0, <1>2, <2>3
    <3>2. ASSUME \A m \in 1..(L + 1) : new[m].job = new[n].job => m <= n \/ m >= older
          PROVE  \A m \in 1..L : trail[m].job = trail[n - 1].job => m <= n - 1 \/ m >= older - 1
      <4>. SUFFICES ASSUME NEW m \in 1..L, trail[m].job = trail[n - 1].job
                    PROVE  m <= n - 1 \/ m >= older - 1
        OBVIOUS
      <4>1. m + 1 \in 1..(L + 1) /\ new[m + 1] = trail[m]
        BY <1>0, <1>1
      <4>2. m + 1 <= n \/ m + 1 >= older
        BY <3>1, <3>2, <4>1
      <4>. QED
        BY <1>0, <4>2
    <3>. QED
      BY <1>0, <2>1, <3>1, <3>2 DEF Honest, Path
  <2>. QED
    BY <1>3, <2>2, <2>3
<1>6. Begun(new, upper)
  <2>. SUFFICES ASSUME NEW n \in 1..(L + 1) PROVE new[n].job < upper
    BY <1>1 DEF Begun
  <2>1. CASE n = 1
    BY <1>1, <2>1
  <2>2. CASE n \in 2..(L + 1)
    <3>1. n - 1 \in 1..L /\ new[n] = trail[n - 1]
      BY <1>2, <2>2
    <3>2. trail[n - 1].job < next /\ trail[n - 1].job \in Nat
      BY <1>0, <3>1, Bounds DEF Honest, Begun, JobIds
    <3>. QED
      BY <3>1, <3>2
  <2>. QED
    BY <1>3, <2>1, <2>2
<1>. QED
  BY <1>1, <1>4, <1>5, <1>6 DEF Honest

\* The cap takes the oldest events away, which leaves an honest trail honest.
LEMMA CutKeepsHonest ==
  ASSUME NEW trail \in Seq(Event), NEW js, NEW next, Honest(trail, js, next)
  PROVE  Honest(Cut(trail), js, next)
<1>. DEFINE k == IF Len(trail) < AuditCap THEN Len(trail) ELSE AuditCap
<1>1. k \in Nat /\ k <= Len(trail) /\ Len(trail) \in Nat /\ DOMAIN trail = 1..Len(trail)
  BY Bounds
<1>2. PICK L \in Nat : L = Len(trail)
  BY <1>1
<1>3. PICK new \in Seq(Event) :
        /\ new = Cut(trail)
        /\ DOMAIN new = 1..k
        /\ \A n \in 1..k : new[n] = trail[n]
  <2>1. Cut(trail) = SubSeq(trail, 1, k)
    BY DEF Cut
  <2>. HIDE DEF k
  <2>2. /\ SubSeq(trail, 1, k) \in Seq(Event)
        /\ DOMAIN SubSeq(trail, 1, k) = 1..k
        /\ \A n \in 1..k : SubSeq(trail, 1, k)[n] = trail[n]
    BY <1>1
  <2>. QED
    BY <2>1, <2>2
<1>. HIDE DEF k
<1>4. 1..k \subseteq 1..L /\ DOMAIN trail = 1..L /\ \A m \in 1..L : m \in 1..k \/ m > k
  BY <1>1, <1>2
<1>5. Told(new, js)
  <2>. SUFFICES ASSUME NEW n \in 1..k, js[new[n].job] # None,
                       \A m \in 1..k : new[m].job = new[n].job => n <= m
                PROVE  js[new[n].job].status = new[n].status
    BY <1>3 DEF Told
  <2>1. \A m \in 1..L : trail[m].job = trail[n].job => n <= m
    BY <1>1, <1>3, <1>4
  <2>. QED
    BY <1>3, <1>4, <2>1 DEF Honest, Told
<1>6. Path(new)
  <2>. SUFFICES ASSUME NEW n \in 1..k, NEW older \in 1..k, older > n, new[older].job = new[n].job
                PROVE  /\ new[n].type # "job_created"
                       /\ (\A m \in 1..k : new[m].job = new[n].job => m <= n \/ m >= older) =>
                            Legal(new[older].status, new[n].status)
    BY <1>3 DEF Path
  <2>1. ASSUME \A m \in 1..k : new[m].job = new[n].job => m <= n \/ m >= older
        PROVE  \A m \in 1..L : trail[m].job = trail[n].job => m <= n \/ m >= older
    BY <1>1, <1>3, <1>4, <2>1
  <2>. QED
    BY <1>3, <1>4, <2>1 DEF Honest, Path
<1>7. Begun(new, next)
  BY <1>3, <1>4 DEF Honest, Begun
<1>. QED
  BY <1>3, <1>5, <1>6, <1>7 DEF Honest

LEMMA EventFields ==
  ASSUME NEW i, NEW job, NEW type, NEW realized
  PROVE  /\ EventOf(i, job, type, realized).job = i
         /\ EventOf(i, job, type, realized).type = type
         /\ EventOf(i, job, type, realized).status = job.status
  BY DEF EventOf

LEMMA AdmitKeepsHonest ==
  ASSUME TypeOK, AuditInv, NEW s \in Signals, NEW policy \in Policies, NEW clock \in Clocks,
         NEW startable \in BOOLEAN, Admit(s, policy, clock, startable)
  PROVE  AuditInv'
<1>. DEFINE job == [sig |-> s, status |-> Verdict(s, policy, clock, startable)]
<1>1. job \in Job
  BY DEF Verdict, Job, Statuses
<1>2. PICK next \in JobIds : next = nextJob
  BY Bounds DEF Admit, TypeOK, JobIds
<1>3. PICK e \in Event : e = EventOf(next, job, "job_created", 0)
  BY <1>1, EventType DEF Events
<1>4. e.job = next /\ e.status = job.status
  BY <1>3, EventFields
<1>5. nextJob' = next + 1 /\ next \in Nat
  BY <1>2, Bounds DEF Admit, JobIds
<1>6. /\ jobs \in Lists /\ jobs' \in Lists
      /\ jobs'[next] = None \/ jobs'[next].status = job.status
      /\ \A j \in JobIds : j # next => jobs'[j] \in {jobs[j], None}
  <2>1. [jobs EXCEPT ![next] = job] \in Lists /\ jobs \in Lists
    BY <1>1 DEF TypeOK, Lists
  <2>2. jobs' = Newest([jobs EXCEPT ![next] = job])
    BY <1>2 DEF Admit
  <2>3. jobs' \in Lists /\ \A i \in JobIds : jobs'[i] \in {[jobs EXCEPT ![next] = job][i], None}
    BY <2>1, <2>2, NewestType DEF Lists
  <2>. QED
    BY <2>1, <2>3 DEF TypeOK
<1>7. audit \in Seq(Event) /\ \A n \in DOMAIN audit : audit[n].job # e.job
  BY <1>2, <1>4, <1>5 DEF TypeOK, AuditInv, Honest, Begun
<1>8. Honest(<<e>> \o audit, jobs', next + 1)
  <2>1. next + 1 \in Nat /\ next <= next + 1 /\ e.job < next + 1
    BY <1>4, <1>5
  <2>2. Honest(audit, jobs, next)
    BY <1>2 DEF AuditInv
  <2>. HIDE DEF job
  <2>. QED
    BY <1>4, <1>5, <1>6, <1>7, <2>1, <2>2, PushKeepsHonest
<1>9. audit' = Cut(<<e>> \o audit)
  BY <1>2, <1>3 DEF Admit, Record
<1>10. <<e>> \o audit \in Seq(Event)
  BY <1>7
<1>11. Honest(audit', jobs', next + 1)
  BY <1>8, <1>9, <1>10, CutKeepsHonest
<1>. QED
  BY <1>5, <1>11 DEF AuditInv

\* A dispatch adds its events to a trail that is honest about the job as the step
\* found or left it.
LEMMA DispatchedKeepsHonest ==
  ASSUME TypeOK, NEW i \in JobIds, i < nextJob, NEW job \in Job, NEW logged \in Seq(Event),
         Dispatched(i, job, logged),
         Honest(logged \o audit, [jobs EXCEPT ![i] = job], nextJob)
  PROVE  AuditInv'
<1>1. PICK next \in Nat : next = nextJob /\ i < next /\ next <= next
  BY Bounds DEF TypeOK
<1>2. PICK trail \in Seq(Event) : trail = logged \o audit
  BY ConcatProperties DEF TypeOK
<1>3. PICK js \in Lists : js = [jobs EXCEPT ![i] = job]
  BY DEF TypeOK, Lists
<1>4. js[i] = job /\ job # None /\ \A j \in JobIds : j # i => js[j] = jobs[j]
  BY <1>3, EngineConstants DEF TypeOK
<1>5. job.status \in {"queued", "approved"}
  BY DEF Dispatched, Dispatchable
<1>6. PICK sent \in Event : sent = SentEvent(i, job)
  BY WithStatusType, EventType DEF SentEvent, Statuses, Events
<1>7. sent.job = i /\ sent.status = "sent" /\ sent.type = "dispatch_sent"
  <2>1. WithStatus(job, "sent").status = "sent"
    BY WithStatusType DEF Statuses
  <2>. QED
    BY <1>6, <2>1, EventFields DEF SentEvent
<1>8. PICK sentJob \in Job : sentJob = WithStatus(job, "sent") /\ sentJob.status = "sent"
  BY WithStatusType DEF Statuses
<1>9. PICK after \in Lists : after = [jobs EXCEPT ![i] = sentJob]
  BY DEF TypeOK, Lists
<1>10. after[i] = sentJob /\ sentJob # None /\ \A j \in JobIds : j # i => after[j] = jobs[j]
  BY <1>9, EngineConstants DEF TypeOK
<1>11. Honest(<<sent>> \o trail, after, next)
  <2>1. Legal(js[i].status, "sent")
    BY <1>4, <1>5 DEF Legal, ValidTransitions
  <2>2. Honest(trail, js, next)
    BY <1>1, <1>2, <1>3
  <2>. QED
    BY <1>1, <1>4, <1>7, <1>8, <1>10, <2>1, <2>2, PushKeepsHonest
<1>12. <<sent>> \o trail \in Seq(Event) /\ nextJob' = next
  BY <1>1 DEF Dispatched
<1>13. CASE SendOnly(i, job, logged)
  <2>1. jobs' = after
    BY <1>8, <1>9, <1>13 DEF SendOnly
  <2>2. audit' = Cut((<<sent>> \o logged) \o audit)
    BY <1>6, <1>13 DEF SendOnly, Record
  <2>3. (<<sent>> \o logged) \o audit = <<sent>> \o trail
    BY <1>2, ConcatAssociative DEF TypeOK
  <2>4. Honest(Cut(<<sent>> \o trail), after, next)
    BY <1>11, <1>12, CutKeepsHonest
  <2>. QED
    BY <1>12, <2>1, <2>2, <2>3, <2>4 DEF AuditInv
<1>14. CASE SendAndFill(i, job, logged)
  <2>. DEFINE gain == RealizedBy(positions[KeyOf(job.sig)], job.sig)
  <2>1. gain \in Int
    <3>1. job.sig \in Signals /\ job.sig.price # None
      BY <1>14 DEF SendAndFill, Job
    <3>2. KeyOf(job.sig) \in Keys /\ positions[KeyOf(job.sig)] \in Position \cup {None}
      BY <3>1, KeyOfType DEF TypeOK, BookTypeOK
    <3>. QED
      BY <3>1, <3>2, RealizedByType
  <2>2. PICK filled \in Event : filled = FilledEvent(i, job, gain)
    BY <2>1, WithStatusType, EventType, Round4Type DEF FilledEvent, Statuses, Events
  <2>3. filled.job = i /\ filled.status = "filled" /\ filled.type = "dispatch_filled"
    <3>1. WithStatus(job, "filled").status = "filled"
      BY WithStatusType DEF Statuses
    <3>. QED
      BY <2>2, <3>1, EventFields DEF FilledEvent
  <2>4. PICK filledJob \in Job : filledJob = WithStatus(job, "filled") /\ filledJob.status = "filled"
    BY WithStatusType DEF Statuses
  <2>5. PICK final \in Lists : final = [jobs EXCEPT ![i] = filledJob]
    BY DEF TypeOK, Lists
  <2>6. final[i] = filledJob /\ \A j \in JobIds : j # i => final[j] = after[j]
    BY <1>10, <2>5 DEF TypeOK
  <2>7. Honest(<<filled>> \o (<<sent>> \o trail), final, next)
    <3>1. Legal(after[i].status, "filled")
      BY <1>8, <1>10 DEF Legal, ValidTransitions
    <3>. QED
      BY <1>1, <1>8, <1>10, <1>11, <1>12, <2>3, <2>4, <2>6, <3>1, PushKeepsHonest
  <2>8. jobs' = final
    BY <1>14, <2>4, <2>5 DEF SendAndFill
  <2>9. audit' = Cut((<<filled, sent>> \o logged) \o audit)
    BY <1>6, <1>14, <2>2 DEF SendAndFill, Record
  <2>10. (<<filled, sent>> \o logged) \o audit = <<filled>> \o (<<sent>> \o trail)
    <3>1. <<filled, sent>> = <<filled>> \o <<sent>>
      OBVIOUS
    <3>2. <<filled>> \in Seq(Event) /\ <<sent>> \in Seq(Event) /\ audit \in Seq(Event)
          /\ <<filled, sent>> \in Seq(Event)
      BY DEF TypeOK
    <3>3. (<<filled, sent>> \o logged) \o audit = <<filled, sent>> \o trail
      BY <1>2, <3>2, ConcatAssociative
    <3>4. (<<filled>> \o <<sent>>) \o trail = <<filled>> \o (<<sent>> \o trail)
      BY <3>2, ConcatAssociative
    <3>. QED
      BY <3>1, <3>3, <3>4
  <2>11. <<filled>> \o (<<sent>> \o trail) \in Seq(Event)
    BY <1>12
  <2>12. Honest(Cut(<<filled>> \o (<<sent>> \o trail)), final, next)
    BY <2>7, <2>11, CutKeepsHonest
  <2>. QED
    BY <1>12, <2>8, <2>9, <2>10, <2>12 DEF AuditInv
<1>. QED
  BY <1>13, <1>14 DEF Dispatched

LEMMA PatchKeepsHonest ==
  ASSUME TypeOK, FillInv, AuditInv, NEW caller \in Owners, NEW i \in JobIds, NEW to \in Statuses,
         Patch(caller, i, to)
  PROVE  AuditInv'
<1>. DEFINE job == WithStatus(jobs[i], to)
            change == <<EventOf(i, job, "status_changed", 0)>>
<1>1. /\ jobs[i] # None
      /\ job \in Job /\ job.status = to
      /\ to \in ValidTransitions(jobs[i].status) \cup {jobs[i].status}
      /\ change \in Seq(Event)
      /\ \/ Dispatched(i, job, change)
         \/ /\ jobs' = [jobs EXCEPT ![i] = job]
            /\ Record(change)
            /\ UNCHANGED <<nextJob, positions, today, fills, earned>>
  BY PatchCases
<1>2. PICK next \in Nat : next = nextJob /\ i < next /\ next <= next
  BY <1>1, ListedAreBorn, Bounds DEF TypeOK
<1>3. PICK e \in Event : e = EventOf(i, job, "status_changed", 0) /\ change = <<e>>
  BY <1>1, EventType DEF Events
<1>4. e.job = i /\ e.type = "status_changed" /\ e.status = to
  BY <1>1, <1>3, EventFields
<1>5. PICK after \in Lists : after = [jobs EXCEPT ![i] = job]
  BY <1>1 DEF TypeOK, Lists
<1>6. jobs \in Lists /\ after[i] = job /\ \A j \in JobIds : j # i => after[j] = jobs[j]
  BY <1>5 DEF TypeOK, Lists
<1>. HIDE DEF job, change
<1>7. Honest(<<e>> \o audit, after, next)
  <2>1. Legal(jobs[i].status, to)
    BY <1>1 DEF Legal
  <2>2. Honest(audit, jobs, next) /\ audit \in Seq(Event)
    BY <1>2 DEF AuditInv, TypeOK
  <2>. QED
    BY <1>1, <1>2, <1>4, <1>6, <2>1, <2>2, PushKeepsHonest
<1>8. CASE Dispatched(i, job, change)
  BY <1>1, <1>2, <1>3, <1>5, <1>7, <1>8, DispatchedKeepsHonest
<1>9. CASE /\ jobs' = [jobs EXCEPT ![i] = job]
           /\ Record(change)
           /\ UNCHANGED <<nextJob, positions, today, fills, earned>>
  <2>1. jobs' = after /\ nextJob' = next /\ audit' = Cut(<<e>> \o audit)
    BY <1>2, <1>3, <1>5, <1>9 DEF Record
  <2>2. <<e>> \o audit \in Seq(Event)
    BY DEF TypeOK
  <2>3. Honest(Cut(<<e>> \o audit), after, next)
    BY <1>7, <2>2, CutKeepsHonest
  <2>. QED
    BY <2>1, <2>3 DEF AuditInv
<1>. QED
  BY <1>1, <1>8, <1>9

LEMMA AuditInvStep ==
  ASSUME TypeOK, FillInv, AuditInv, [Next]_vars PROVE AuditInv'
<1>1. ASSUME NEW s \in Signals, NEW policy \in Policies, NEW clock \in Clocks,
             NEW startable \in BOOLEAN, Admit(s, policy, clock, startable)
      PROVE  AuditInv'
  BY <1>1, AdmitKeepsHonest
<1>2. ASSUME NEW caller \in Owners, NEW i \in JobIds, Dispatch(caller, i) PROVE AuditInv'
  <2>1. jobs[i] # None /\ jobs[i] \in Job /\ i < nextJob /\ Dispatched(i, jobs[i], <<>>)
    BY <1>2, ListedJob, ListedAreBorn DEF Dispatch, Finds
  <2>2. <<>> \in Seq(Event) /\ <<>> \o audit = audit
    BY DEF TypeOK
  <2>3. [jobs EXCEPT ![i] = jobs[i]] = jobs
    BY DEF TypeOK
  <2>4. Honest(<<>> \o audit, [jobs EXCEPT ![i] = jobs[i]], nextJob)
    BY <2>2, <2>3 DEF AuditInv
  <2>. QED
    BY <2>1, <2>2, <2>4, DispatchedKeepsHonest
<1>3. ASSUME NEW caller \in Owners, NEW i \in JobIds, NEW to \in Statuses,
             Patch(caller, i, to)
      PROVE  AuditInv'
  BY <1>3, PatchKeepsHonest
<1>4. ASSUME NEW caller \in Owners, NEW targets \in PurgeRequests, Purge(caller, targets)
      PROVE  AuditInv'
  <2>1. audit' = audit /\ nextJob' = nextJob
    BY <1>4 DEF Purge
  <2>2. \A i \in JobIds : jobs'[i] \in {jobs[i], None}
    BY <1>4 DEF Purge
  <2>3. \A n \in DOMAIN audit : audit[n].job \in JobIds
    <3>1. \A n \in DOMAIN audit : audit[n] \in Event
      BY DEF TypeOK
    <3>. QED
      BY <3>1 DEF Event
  <2>4. Told(audit, jobs')
    BY <2>2, <2>3 DEF AuditInv, Honest, Told
  <2>. QED
    BY <2>1, <2>4 DEF AuditInv, Honest
<1>5. CASE \/ \E caller \in Owners, symbol \in Symbols, price \in Prices :
                Mark(caller, symbol, price)
           \/ NextDay
           \/ UNCHANGED vars
  BY <1>5 DEF Mark, NextDay, vars, AuditInv
<1>6. CASE Restart
  <2>1. audit' = <<>> /\ DOMAIN audit' = {}
    BY <1>6 DEF Restart
  <2>. QED
    BY <2>1 DEF AuditInv, Honest, Told, Path, Begun
<1>. QED
  BY <1>1, <1>2, <1>3, <1>4, <1>5, <1>6 DEF Next

LEMMA AuditInvariant == Spec => []AuditInv
<1>1. Init => AuditInv
  <2>. SUFFICES ASSUME Init PROVE AuditInv
    OBVIOUS
  <2>1. audit = <<>> /\ DOMAIN audit = {}
    BY DEF Init
  <2>. QED
    BY <2>1 DEF AuditInv, Honest, Told, Path, Begun
<1>2. TypeOK /\ FillInv /\ AuditInv /\ [Next]_vars => AuditInv'
  BY AuditInvStep
<1>. QED
  BY <1>1, <1>2, EngineTypeCorrect, FillInvariant, PTL DEF Spec

\* The newest event kept of a listed job always carries the job's status,
\* whatever the cap of the trail.
THEOREM TrailExplainsStatus == Spec => []AuditExplainsStatus
<1>1. AuditInv => AuditExplainsStatus
  BY DEF AuditInv, Honest, Told, AuditExplainsStatus, EventsOf
<1>. QED
  BY <1>1, AuditInvariant, PTL

\* The events kept of a job are always a path of legal transitions without a gap.
THEOREM TrailIsAPath == Spec => []AuditIsAPath
<1>1. AuditInv => AuditIsAPath
  BY DEF AuditInv, Honest, Path, AuditIsAPath, EventsOf
<1>. QED
  BY <1>1, AuditInvariant, PTL
-----------------------------------------------------------------------------
\* What the loss guard sees of any trail on any day, next to what was paid out.
Counts(e, d, o) == e.type = "dispatch_filled" /\ e.day = d /\ VisibleTo(e.owner, o)
FillsIn(trail, d, o) == {n \in 1..Len(trail) : Counts(trail[n], d, o)}
Amounts(trail) == [n \in 1..Len(trail) |-> trail[n].realized]
SeenIn(trail, d, o) == Sum(Amounts(trail), FillsIn(trail, d, o))
NumberIn(trail, d, o) == Cardinality(FillsIn(trail, d, o))
Due(paid, o) == paid[None] + (IF o = None THEN 0 ELSE paid[o])

Payable == [Owners \cup {None} -> Int]

\* Twice the difference is at most a grain for every fill.
Near(seen, due, number) ==
  -(Grain * number) <= 2 * (seen - due) /\ 2 * (seen - due) <= Grain * number
Within(trail, d, paid) ==
  \A o \in Owners \cup {None} : Near(SeenIn(trail, d, o), Due(paid, o), NumberIn(trail, d, o))

\* No event is of a day to come; while nothing of today was lost, the guard sees
\* what was earned.
GuardInv ==
  /\ \A n \in 1..Len(audit) : audit[n].day <= today
  /\ ~forgot => Within(audit, today, earned)

LEMMA FillsFinite ==
  ASSUME NEW trail \in Seq(Event), NEW d, NEW o
  PROVE  /\ IsFiniteSet(FillsIn(trail, d, o))
         /\ NumberIn(trail, d, o) \in Nat
         /\ IntOn(Amounts(trail), FillsIn(trail, d, o))
         /\ SeenIn(trail, d, o) \in Int
<1>1. PICK S : S = FillsIn(trail, d, o)
  OBVIOUS
<1>2. PICK L \in Nat : L = Len(trail)
  OBVIOUS
<1>3. IsFiniteSet(S)
  <2>1. PICK T : T = 1..L
    OBVIOUS
  <2>2. IsFiniteSet(T)
    <3>1. 1 \in Int /\ L \in Int
      OBVIOUS
    <3>. QED
      BY <2>1, <3>1, FS_Interval
  <2>3. S \subseteq T
    BY <1>1, <1>2, <2>1 DEF FillsIn
  <2>. QED
    BY <2>2, <2>3, FS_Subset
<1>4. IntOn(Amounts(trail), S)
  <2>1. \A n \in 1..L : trail[n] \in Event
    BY <1>2
  <2>2. \A n \in 1..L : trail[n].realized \in Int
    BY <2>1 DEF Event
  <2>3. \A n \in S : n \in 1..L
    BY <1>1, <1>2 DEF FillsIn
  <2>. QED
    BY <1>2, <2>2, <2>3 DEF IntOn, Amounts
<1>5. Cardinality(S) \in Nat
  BY <1>3, FS_CardinalityType
<1>6. Sum(Amounts(trail), S) \in Int
  BY <1>3, <1>4, SumInt
<1>. QED
  BY <1>1, <1>3, <1>4, <1>5, <1>6 DEF SeenIn, NumberIn

Pushed(new, e, trail) == new = <<e>> \o trail

\* An event in front of a trail adds its own amount, when it counts.
LEMMA PushAdds ==
  ASSUME NEW trail \in Seq(Event), NEW e \in Event, NEW d, NEW o,
         NEW new, Pushed(new, e, trail)
  PROVE  /\ Counts(e, d, o) => /\ SeenIn(new, d, o) = SeenIn(trail, d, o) + e.realized
                               /\ NumberIn(new, d, o) = NumberIn(trail, d, o) + 1
         /\ ~Counts(e, d, o) => /\ SeenIn(new, d, o) = SeenIn(trail, d, o)
                                /\ NumberIn(new, d, o) = NumberIn(trail, d, o)
<1>1. PICK L \in Nat : L = Len(trail)
  OBVIOUS
<1>2. /\ new \in Seq(Event) /\ Len(new) = L + 1 /\ new[1] = e
      /\ \A n \in 1..L : new[n + 1] = trail[n]
  BY <1>1 DEF Pushed
<1>3. PICK S : S = FillsIn(trail, d, o)
  OBVIOUS
<1>4. PICK T : T = {n + 1 : n \in S}
  OBVIOUS
<1>5. S \subseteq 1..L /\ S \subseteq Int
  BY <1>1, <1>3 DEF FillsIn
<1>6. FillsIn(new, d, o) = IF Counts(e, d, o) THEN T \cup {1} ELSE T
  <2>1. ASSUME NEW m \in 1..(L + 1), m # 1
        PROVE  m \in T <=> Counts(new[m], d, o)
    <3>1. m - 1 \in 1..L /\ m = (m - 1) + 1
      BY <2>1
    <3>2. new[m] = trail[m - 1]
      BY <1>2, <3>1
    <3>3. m \in T <=> m - 1 \in S
      BY <1>4, <1>5, <2>1
    <3>. QED
      BY <1>1, <1>3, <3>1, <3>2, <3>3 DEF FillsIn
  <2>2. 1 \notin T /\ T \subseteq 1..(L + 1) /\ 1 \in 1..(L + 1)
    BY <1>4, <1>5
  <2>3. FillsIn(new, d, o) = {m \in 1..(L + 1) : Counts(new[m], d, o)}
    BY <1>2 DEF FillsIn
  <2>4. PICK U : U = IF Counts(e, d, o) THEN T \cup {1} ELSE T
    OBVIOUS
  <2>5. U \subseteq 1..(L + 1) /\ (1 \in U <=> Counts(new[1], d, o))
    BY <1>2, <2>2, <2>4
  <2>6. \A m \in 1..(L + 1) : m \in U <=> Counts(new[m], d, o)
    BY <2>1, <2>4, <2>5
  <2>. QED
    BY <2>3, <2>4, <2>5, <2>6
<1>7. 1 \notin T
  BY <1>4, <1>5
<1>8. PICK F, G : F = Amounts(trail) /\ G = Amounts(new)
  OBVIOUS
<1>9. IsFiniteSet(S) /\ IntOn(F, S)
  BY <1>3, <1>8, FillsFinite
<1>10. IsFiniteSet(T) /\ Cardinality(T) = Cardinality(S)
  <2>1. PICK h : h = [n \in S |-> n + 1]
    OBVIOUS
  <2>2. h \in Bijection(S, T)
    BY <1>4, <1>5, <2>1 DEF Bijection, Injection, Surjection, IsInjective
  <2>. QED
    BY <1>9, <2>2, FS_Bijection DEF ExistsBijection
<1>11. /\ \A n \in S : n + 1 \in T
       /\ \A y \in T : \E n \in S : y = n + 1
  BY <1>4
<1>12. \A n \in S : F[n] = G[n + 1]
  <2>1. \A n \in 1..L : n + 1 \in 1..(L + 1)
    OBVIOUS
  <2>2. \A n \in 1..L : F[n] = trail[n].realized /\ G[n + 1] = trail[n].realized
    BY <1>1, <1>2, <1>8, <2>1 DEF Amounts
  <2>. QED
    BY <1>5, <2>2
<1>13. IntOn(G, T)
  BY <1>9, <1>11, <1>12 DEF IntOn
<1>14. Sum(F, S) = Sum(G, T)
  <2>1. PICK h : h = [n \in S |-> n + 1]
    OBVIOUS
  <2>2. h \in [S -> T]
    BY <1>11, <2>1
  <2>3. \A x, y \in S : h[x] = h[y] => x = y
    BY <1>5, <2>1
  <2>4. \A y \in T : \E x \in S : h[x] = y
    BY <1>11, <2>1
  <2>5. \A x \in S : F[x] = G[h[x]]
    BY <1>12, <2>1
  <2>6. Renames(h, S, T, F, G)
    BY <2>2, <2>3, <2>4, <2>5 DEF Renames
  <2>. QED
    BY <1>9, <1>10, <1>13, <2>6, SumRename
<1>15. G[1] = e.realized /\ e.realized \in Int
  <2>1. 1 \in 1..(L + 1)
    OBVIOUS
  <2>. QED
    BY <1>2, <1>8, <2>1 DEF Amounts, Event
<1>16. /\ Sum(G, T \cup {1}) = Sum(G, T) + e.realized
       /\ Cardinality(T \cup {1}) = Cardinality(T) + 1
  <2>1. PICK x : x = 1
    OBVIOUS
  <2>2. x \notin T /\ G[x] \in Int
    BY <1>7, <1>15, <2>1
  <2>3. Sum(G, T \cup {x}) = Sum(G, T) + G[x]
    BY <1>10, <1>13, <2>2, SumAdd
  <2>4. Cardinality(T \cup {x}) = Cardinality(T) + 1
    BY <1>10, <2>2, FS_AddElement
  <2>. QED
    BY <1>15, <2>1, <2>3, <2>4
<1>17. /\ SeenIn(trail, d, o) = Sum(F, S) /\ NumberIn(trail, d, o) = Cardinality(S)
       /\ SeenIn(new, d, o) = Sum(G, FillsIn(new, d, o))
       /\ NumberIn(new, d, o) = Cardinality(FillsIn(new, d, o))
  BY <1>3, <1>8 DEF SeenIn, NumberIn
<1>18. CASE Counts(e, d, o)
  BY <1>6, <1>10, <1>14, <1>16, <1>17, <1>18
<1>19. CASE ~Counts(e, d, o)
  BY <1>6, <1>10, <1>14, <1>17, <1>19
<1>. QED
  BY <1>18, <1>19

NothingLost(new, trail, d) ==
  /\ new = Cut(trail)
  /\ \A n \in (Len(new) + 1)..Len(trail) :
       ~(trail[n].type = "dispatch_filled" /\ trail[n].day = d)

\* What the cap takes away without a fill of the day is nothing the guard saw.
LEMMA CutSees ==
  ASSUME NEW trail \in Seq(Event), NEW d, NEW o, NEW new, NothingLost(new, trail, d)
  PROVE  SeenIn(new, d, o) = SeenIn(trail, d, o) /\ NumberIn(new, d, o) = NumberIn(trail, d, o)
<1>1. PICK L \in Nat : L = Len(trail)
  OBVIOUS
<1>2. PICK k \in Nat : k = IF L < AuditCap THEN L ELSE AuditCap
  BY Bounds
<1>3. k <= L
  BY <1>2, Bounds
<1>4. new \in Seq(Event) /\ Len(new) = k /\ \A n \in 1..k : new[n] = trail[n]
  BY <1>1, <1>2, <1>3 DEF Cut, NothingLost
<1>5. PICK S : S = FillsIn(trail, d, o)
  OBVIOUS
<1>6. FillsIn(new, d, o) = S
  <2>1. \A n \in 1..L : n \in 1..k \/ n \in (k + 1)..L
    BY <1>3
  <2>2. 1..k \subseteq 1..L
    BY <1>3
  <2>. QED
    BY <1>1, <1>4, <1>5, <2>1, <2>2 DEF FillsIn, Counts, NothingLost
<1>7. PICK F, G : F = Amounts(trail) /\ G = Amounts(new)
  OBVIOUS
<1>8. S \subseteq 1..k
  BY <1>4, <1>6 DEF FillsIn
<1>9. \A n \in S : F[n] = G[n]
  <2>1. \A n \in 1..k : n \in 1..L
    BY <1>3
  <2>. QED
    BY <1>1, <1>4, <1>7, <1>8, <2>1 DEF Amounts
<1>10. IsFiniteSet(S)
  BY <1>5, FillsFinite
<1>11. Sum(F, S) = Sum(G, S)
  BY <1>9, <1>10, SumSame
<1>. QED
  BY <1>5, <1>6, <1>7, <1>11 DEF SeenIn, NumberIn

\* Rounding to the grain moves an amount by half a grain at most.
LEMMA RoundingIsNear ==
  ASSUME NEW x \in Int
  PROVE  -Grain <= 2 * (Round4(x) - x) /\ 2 * (Round4(x) - x) <= Grain
<1>1. PICK g \in Nat \ {0} : g = Grain
  BY FillConstants
<1>2. PICK q \in Int : q = x \div g
  OBVIOUS
<1>3. PICK r \in Int : r = x % g
  OBVIOUS
<1>4. x = g * q + r /\ 0 <= r /\ r < g
  BY <1>2, <1>3
<1>5. PICK p \in Int : p = g * q
  OBVIOUS
<1>6. g * (q + 1) = p + g
  BY <1>5
<1>7. Round4(x) = IF 2 * r < g \/ (2 * r = g /\ q % 2 = 0) THEN p ELSE p + g
  BY <1>1, <1>2, <1>3, <1>5, <1>6 DEF Round4
<1>. QED
  BY <1>1, <1>4, <1>5, <1>7

\* A fill that counts moves what is seen by the rounded gain and what is due by
\* the gain itself.
LEMMA NearStays ==
  ASSUME NEW seen \in Int, NEW due \in Int, NEW number \in Nat, NEW gain \in Int,
         Near(seen, due, number)
  PROVE  Near(seen + Round4(gain), due + gain, number + 1)
<1>1. PICK g \in Nat \ {0} : g = Grain
  BY FillConstants
<1>2. PICK r \in Int : r = Round4(gain)
  BY Round4Type
<1>3. -g <= 2 * (r - gain) /\ 2 * (r - gain) <= g
  BY <1>1, <1>2, RoundingIsNear
<1>4. PICK p \in Int : p = g * number
  OBVIOUS
<1>5. g * (number + 1) = p + g
  BY <1>4
<1>6. -p <= 2 * (seen - due) /\ 2 * (seen - due) <= p
  BY <1>1, <1>4 DEF Near
<1>7. 2 * ((seen + r) - (due + gain)) = 2 * (seen - due) + 2 * (r - gain)
  OBVIOUS
<1>. QED
  BY <1>1, <1>2, <1>3, <1>4, <1>5, <1>6, <1>7 DEF Near

LEMMA DueType ==
  ASSUME NEW paid \in Payable, NEW o \in Owners \cup {None}
  PROVE  Due(paid, o) \in Int
  BY DEF Due, Payable

Paid(after, paid, w, gain) == after = [paid EXCEPT ![w] = @ + gain]

\* What is due moves for the owners who see the fill.
LEMMA DueMoves ==
  ASSUME NEW paid \in Payable, NEW w \in Owners \cup {None}, NEW gain \in Int,
         NEW after, Paid(after, paid, w, gain), NEW o \in Owners \cup {None}
  PROVE  Due(after, o) = Due(paid, o) + (IF VisibleTo(w, o) THEN gain ELSE 0)
<1>1. \A v \in Owners \cup {None} : /\ after[v] = IF v = w THEN paid[v] + gain ELSE paid[v]
                                    /\ paid[v] \in Int
  BY DEF Payable, Paid
<1>2. None \in Owners \cup {None} /\ None \notin Owners
  BY FillConstants
<1>. QED
  BY <1>1, <1>2 DEF Due, VisibleTo

\* An event of a fill pays its owner the gain it states rounded, another nobody.
Pays(e, gain, paid, after) ==
  \/ e.type # "dispatch_filled" /\ after = paid
  \/ /\ e.type = "dispatch_filled" /\ e.realized = Round4(gain)
     /\ Paid(after, paid, e.owner, gain)

\* An event of today in front of the trail keeps what is seen near what is due.
LEMMA PushKeepsGuard ==
  ASSUME NEW trail \in Seq(Event), NEW e \in Event, NEW d, e.day = d,
         NEW paid \in Payable, Within(trail, d, paid),
         NEW after, NEW gain \in Int, Pays(e, gain, paid, after),
         NEW new, Pushed(new, e, trail)
  PROVE  Within(new, d, after)
<1>. SUFFICES ASSUME NEW o \in Owners \cup {None}
              PROVE  Near(SeenIn(new, d, o), Due(after, o), NumberIn(new, d, o))
  BY DEF Within
<1>1. PICK seen \in Int, due \in Int, number \in Nat :
        seen = SeenIn(trail, d, o) /\ due = Due(paid, o) /\ number = NumberIn(trail, d, o)
  BY FillsFinite, DueType
<1>2. Near(seen, due, number)
  BY <1>1 DEF Within
<1>5. /\ Counts(e, d, o) => /\ SeenIn(new, d, o) = SeenIn(trail, d, o) + e.realized
                            /\ NumberIn(new, d, o) = NumberIn(trail, d, o) + 1
      /\ ~Counts(e, d, o) => /\ SeenIn(new, d, o) = SeenIn(trail, d, o)
                             /\ NumberIn(new, d, o) = NumberIn(trail, d, o)
  BY PushAdds
<1>3. CASE e.type # "dispatch_filled" /\ after = paid
  <2>1. ~Counts(e, d, o)
    BY <1>3 DEF Counts
  <2>. QED
    BY <1>1, <1>2, <1>3, <1>5, <2>1, Zenon
<1>4. CASE /\ e.type = "dispatch_filled" /\ e.realized = Round4(gain)
           /\ Paid(after, paid, e.owner, gain)
  <2>1. e.owner \in Owners \cup {None}
    BY DEF Event
  <2>2. Counts(e, d, o) <=> VisibleTo(e.owner, o)
    BY <1>4 DEF Counts
  <2>3. Due(after, o) = Due(paid, o) + (IF VisibleTo(e.owner, o) THEN gain ELSE 0)
    <3>1. PICK w \in Owners \cup {None} : w = e.owner
      BY <2>1
    <3>2. Paid(after, paid, w, gain)
      BY <1>4, <3>1
    <3>3. Due(after, o) = Due(paid, o) + (IF VisibleTo(w, o) THEN gain ELSE 0)
      BY <3>2, DueMoves
    <3>. QED
      BY <3>1, <3>3
  <2>4. CASE Counts(e, d, o)
    <3>1. Near(seen + Round4(gain), due + gain, number + 1)
      BY <1>2, NearStays
    <3>2. /\ SeenIn(new, d, o) = seen + Round4(gain) /\ NumberIn(new, d, o) = number + 1
          /\ Due(after, o) = due + gain
      BY <1>1, <1>4, <1>5, <2>2, <2>3, <2>4
    <3>. QED
      BY <3>1, <3>2
  <2>5. CASE ~Counts(e, d, o)
    <3>1. /\ SeenIn(new, d, o) = seen /\ NumberIn(new, d, o) = number
          /\ Due(after, o) = due
      BY <1>1, <1>5, <2>2, <2>3, <2>5
    <3>. QED
      BY <1>2, <3>1
  <2>. QED
    BY <2>4, <2>5
<1>. QED
  BY <1>3, <1>4 DEF Pays

\* No event of a trail is of a day after d.
UpTo(trail, d) == \A n \in 1..Len(trail) : trail[n].day <= d

LEMMA PushKeepsDays ==
  ASSUME NEW trail \in Seq(Event), NEW e \in Event, NEW d, e.day = d, UpTo(trail, d),
         NEW new, new = <<e>> \o trail
  PROVE  UpTo(new, d)
<1>1. PICK L \in Nat : L = Len(trail)
  OBVIOUS
<1>2. /\ Len(new) = L + 1 /\ new[1] = e
      /\ \A n \in 1..L : new[n + 1] = trail[n]
  BY <1>1
<1>3. e.day \in Int
  BY Bounds DEF Event
<1>4. ASSUME NEW n \in 1..(L + 1), n # 1
      PROVE  new[n] = trail[n - 1] /\ n - 1 \in 1..L
  BY <1>2, <1>4
<1>5. e.day <= d
  BY <1>3
<1>. QED
  BY <1>1, <1>2, <1>4, <1>5 DEF UpTo

LEMMA CutKeepsWithin ==
  ASSUME NEW trail \in Seq(Event), NEW d, NEW new, NothingLost(new, trail, d), NEW paid,
         Within(trail, d, paid)
  PROVE  Within(new, d, paid)
<1>1. ASSUME NEW o
      PROVE  SeenIn(new, d, o) = SeenIn(trail, d, o) /\ NumberIn(new, d, o) = NumberIn(trail, d, o)
  BY CutSees
<1>. QED
  BY <1>1 DEF Within

\* What is recorded is the longer trail, cut; while nothing of today is lost,
\* the guard sees the same.
LEMMA RecordKeepsGuard ==
  ASSUME TypeOK, NEW events \in Seq(Event), Record(events), today' = today,
         NEW trail \in Seq(Event), trail = events \o audit,
         NEW paid, earned' = paid,
         UpTo(trail, today), ~forgot => Within(trail, today, paid)
  PROVE  GuardInv'
<1>1. PICK d, new : d = today /\ new = Cut(trail)
  OBVIOUS
<1>2. audit' = new /\ today' = d /\ earned' = paid
  BY <1>1 DEF Record
<1>3. UpTo(new, d)
  <2>1. PICK L \in Nat : L = Len(trail)
    OBVIOUS
  <2>2. PICK k \in Nat : k = IF L < AuditCap THEN L ELSE AuditCap
    BY Bounds
  <2>3. k <= L
    BY <2>2, Bounds
  <2>4. Len(new) = k /\ \A n \in 1..k : new[n] = trail[n]
    BY <1>1, <2>1, <2>2, <2>3 DEF Cut
  <2>. QED
    <3>1. \A n \in 1..k : n \in 1..L
      BY <2>3
    <3>2. UpTo(trail, d)
      BY <1>1
    <3>. QED
      BY <2>1, <2>4, <3>1, <3>2 DEF UpTo
<1>4. ASSUME ~forgot'
      PROVE  Within(new, d, paid)
  <2>1. ~forgot /\ \A n \in (Len(new) + 1)..Len(trail) : ~FilledToday(trail[n])
    BY <1>1, <1>4, Zenon DEF Record
  <2>2. NothingLost(new, trail, d)
    BY <1>1, <2>1 DEF FilledToday, NothingLost
  <2>3. Within(trail, d, paid)
    BY <1>1, <2>1
  <2>. QED
    BY <2>2, <2>3, CutKeepsWithin
<1>. QED
  BY <1>2, <1>3, <1>4 DEF GuardInv, UpTo

LEMMA EventOfToday ==
  ASSUME NEW i, NEW job, NEW type, NEW realized
  PROVE  /\ EventOf(i, job, type, realized).day = today
         /\ EventOf(i, job, type, realized).type = type
         /\ EventOf(i, job, type, realized).owner = job.sig.owner
         /\ EventOf(i, job, type, realized).realized = realized
  BY DEF EventOf

LEMMA GuardTypes ==
  ASSUME TypeOK
  PROVE  earned \in Payable /\ audit \in Seq(Event) /\ None \in Owners \cup {None}
  BY DEF TypeOK, Payable

\* An event of today that is not of a fill, in front of what the guard reads.
LEMMA SilentEvent ==
  ASSUME TypeOK, NEW trail \in Seq(Event), NEW e \in Event, e.day = today,
         e.type # "dispatch_filled",
         UpTo(trail, today), ~forgot => Within(trail, today, earned),
         NEW new, new = <<e>> \o trail
  PROVE  UpTo(new, today) /\ (~forgot => Within(new, today, earned)) /\ new \in Seq(Event)
<1>0. PICK d : d = today
  OBVIOUS
<1>1. PICK paid \in Payable : d = today /\ paid = earned
  BY <1>0, GuardTypes
<1>2. UpTo(new, today)
  BY PushKeepsDays
<1>3. Pays(e, 0, paid, paid) /\ Pushed(new, e, trail) /\ 0 \in Int
  BY DEF Pays, Pushed
<1>4. Within(trail, d, paid) => Within(new, d, paid)
  BY <1>1, <1>3, PushKeepsGuard
<1>. QED
  BY <1>1, <1>2, <1>4

LEMMA AdmitKeepsGuard ==
  ASSUME TypeOK, GuardInv, NEW s \in Signals, NEW policy \in Policies, NEW clock \in Clocks,
         NEW startable \in BOOLEAN, Admit(s, policy, clock, startable)
  PROVE  GuardInv'
<1>. DEFINE job == [sig |-> s, status |-> Verdict(s, policy, clock, startable)]
<1>1. job \in Job
  BY DEF Verdict, Job, Statuses
<1>2. nextJob \in JobIds
  BY Bounds DEF Admit, TypeOK, JobIds
<1>3. PICK e \in Event : e = EventOf(nextJob, job, "job_created", 0)
  BY <1>1, <1>2, EventType DEF Events
<1>4. e.day = today /\ e.type = "job_created"
  BY <1>3, EventOfToday
<1>5. Record(<<e>>) /\ today' = today /\ earned' = earned
  BY <1>3 DEF Admit
<1>. HIDE DEF job
<1>6. PICK trail \in Seq(Event) : trail = <<e>> \o audit
  BY GuardTypes, PushedEvents
<1>7. audit \in Seq(Event) /\ <<e>> \in Seq(Event)
  BY GuardTypes
<1>8. UpTo(audit, today) /\ (~forgot => Within(audit, today, earned))
  BY DEF GuardInv, UpTo
<1>9. UpTo(trail, today) /\ (~forgot => Within(trail, today, earned))
  BY <1>4, <1>6, <1>7, <1>8, SilentEvent
<1>. QED
  BY <1>5, <1>6, <1>7, <1>9, RecordKeepsGuard

\* A dispatch puts its events before those the step has logged; with a fill it
\* pays what the fill states.
LEMMA DispatchedKeepsGuard ==
  ASSUME TypeOK, NEW i \in JobIds, NEW job \in Job, NEW logged \in Seq(Event),
         Dispatched(i, job, logged),
         UpTo(logged \o audit, today), ~forgot => Within(logged \o audit, today, earned)
  PROVE  GuardInv'
<1>1. PICK trail \in Seq(Event) : trail = logged \o audit
  BY ConcatProperties DEF TypeOK
<1>2. PICK sent \in Event : sent = SentEvent(i, job)
  BY WithStatusType, EventType DEF SentEvent, Statuses, Events
<1>3. sent.day = today /\ sent.type = "dispatch_sent"
  BY <1>2, EventOfToday DEF SentEvent
<1>4. PICK first \in Seq(Event) : first = <<sent>> \o trail
  BY PushedEvents
<1>5. UpTo(trail, today) /\ (~forgot => Within(trail, today, earned))
  BY <1>1
<1>6. UpTo(first, today) /\ (~forgot => Within(first, today, earned))
  BY <1>3, <1>4, <1>5, SilentEvent
<1>7. audit \in Seq(Event) /\ earned \in Payable /\ today' = today
  BY GuardTypes DEF Dispatched
<1>8. CASE SendOnly(i, job, logged)
  <2>1. PICK events \in Seq(Event) : events = <<sent>> \o logged
    BY PushedEvents
  <2>2. Record(events) /\ earned' = earned
    BY <1>2, <1>8, <2>1 DEF SendOnly
  <2>3. first = events \o audit
    BY <1>1, <1>4, <1>7, <2>1, ConcatAssociative
  <2>. QED
    BY <1>6, <1>7, <2>2, <2>3, RecordKeepsGuard
<1>9. CASE SendAndFill(i, job, logged)
  <2>1. PICK s \in Signals : s = job.sig /\ s.price # None
    BY <1>9 DEF SendAndFill, Job
  <2>2. KeyOf(s) \in Keys /\ positions[KeyOf(s)] \in Position \cup {None}
    BY <2>1, KeyOfType DEF TypeOK, BookTypeOK
  <2>3. PICK gain \in Int : gain = RealizedBy(positions[KeyOf(s)], s)
    BY <2>1, <2>2, RealizedByType
  <2>4. PICK filled \in Event : filled = FilledEvent(i, job, gain)
    BY <2>3, WithStatusType, EventType, Round4Type DEF FilledEvent, Statuses, Events
  <2>5. WithStatus(job, "filled").sig = job.sig
    BY WithStatusType DEF Statuses
  <2>6. /\ filled.day = today /\ filled.type = "dispatch_filled"
        /\ filled.owner = s.owner /\ filled.realized = Round4(gain)
    BY <2>1, <2>4, <2>5, EventOfToday DEF FilledEvent
  <2>7. PICK events \in Seq(Event) : events = <<filled, sent>> \o logged
    <3>1. <<filled, sent>> \in Seq(Event)
      OBVIOUS
    <3>. QED
      BY <3>1, ConcatProperties
  <2>8. Record(events)
    BY <1>2, <1>9, <2>1, <2>3, <2>4, <2>7 DEF SendAndFill
  <2>9. PICK after \in Payable : earned' = after /\ Paid(after, earned, s.owner, gain)
    <3>1. earned' = [earned EXCEPT ![s.owner] = @ + gain]
      BY <1>9, <2>1, <2>3 DEF SendAndFill
    <3>2. earned' \in Payable
      <4>1. s.owner \in Owners \cup {None}
        BY SignalType
      <4>2. earned[s.owner] + gain \in Int
        BY <1>7, <4>1 DEF Payable
      <4>. QED
        BY <1>7, <3>1, <4>1, <4>2 DEF Payable
    <3>. QED
      BY <3>1, <3>2 DEF Paid
  <2>10. PICK both \in Seq(Event) : both = <<filled>> \o first
    BY PushedEvents
  <2>11. both = events \o audit
    <3>1. <<filled, sent>> = <<filled>> \o <<sent>>
      OBVIOUS
    <3>2. <<filled>> \in Seq(Event) /\ <<sent>> \in Seq(Event) /\ <<filled, sent>> \in Seq(Event)
      OBVIOUS
    <3>3. (<<filled, sent>> \o logged) \o audit = <<filled, sent>> \o trail
      BY <1>1, <1>7, <3>2, ConcatAssociative
    <3>4. (<<filled>> \o <<sent>>) \o trail = <<filled>> \o (<<sent>> \o trail)
      BY <3>2, ConcatAssociative
    <3>. QED
      BY <1>4, <2>7, <2>10, <3>1, <3>3, <3>4
  <2>12. UpTo(both, today)
    BY <1>6, <2>6, <2>10, PushKeepsDays
  <2>13. ASSUME ~forgot PROVE Within(both, today, after)
    <3>0. PICK d : d = today
      OBVIOUS
    <3>1. PICK paid \in Payable : d = today /\ paid = earned
      BY <1>7, <3>0
    <3>2. Pays(filled, gain, paid, after) /\ Pushed(both, filled, first)
      BY <2>6, <2>9, <2>10, <3>1 DEF Pays, Pushed
    <3>3. Within(first, d, paid) /\ filled.day = d
      BY <1>6, <2>6, <2>13, <3>1
    <3>4. Within(both, d, after)
      BY <3>2, <3>3, PushKeepsGuard
    <3>. QED
      BY <3>1, <3>4
  <2>. QED
    BY <1>7, <2>8, <2>9, <2>11, <2>12, <2>13, RecordKeepsGuard
<1>. QED
  BY <1>8, <1>9 DEF Dispatched

LEMMA PatchKeepsGuard ==
  ASSUME TypeOK, GuardInv, NEW caller \in Owners, NEW i \in JobIds, NEW to \in Statuses,
         Patch(caller, i, to)
  PROVE  GuardInv'
<1>. DEFINE job == WithStatus(jobs[i], to)
            change == <<EventOf(i, job, "status_changed", 0)>>
<1>1. /\ jobs[i] # None
      /\ job \in Job
      /\ change \in Seq(Event)
      /\ \/ Dispatched(i, job, change)
         \/ Record(change) /\ UNCHANGED <<nextJob, positions, today, fills, earned>>
  BY PatchCases
<1>2. PICK e \in Event : e = EventOf(i, job, "status_changed", 0) /\ change = <<e>>
  BY <1>1, EventType DEF Events
<1>3. e.day = today /\ e.type = "status_changed"
  BY <1>2, EventOfToday
<1>. HIDE DEF job, change
<1>4. audit \in Seq(Event) /\ <<e>> \in Seq(Event)
  BY GuardTypes
<1>5. PICK trail \in Seq(Event) : trail = <<e>> \o audit
  BY <1>4, PushedEvents
<1>6. UpTo(audit, today) /\ (~forgot => Within(audit, today, earned))
  BY DEF GuardInv, UpTo
<1>7. UpTo(trail, today) /\ (~forgot => Within(trail, today, earned))
  BY <1>3, <1>4, <1>5, <1>6, SilentEvent
<1>8. CASE Dispatched(i, job, change)
  BY <1>1, <1>2, <1>5, <1>7, <1>8, DispatchedKeepsGuard
<1>9. CASE Record(change) /\ UNCHANGED <<nextJob, positions, today, fills, earned>>
  <2>1. Record(<<e>>) /\ earned' = earned /\ today' = today
    BY <1>2, <1>9
  <2>. QED
    BY <1>4, <1>5, <1>7, <2>1, RecordKeepsGuard
<1>. QED
  BY <1>1, <1>8, <1>9

\* A trail without a fill of the day shows nothing.
LEMMA NothingSeen ==
  ASSUME NEW trail, NEW d, \A n \in 1..Len(trail) : ~(trail[n].type = "dispatch_filled" /\ trail[n].day = d),
         NEW o
  PROVE  SeenIn(trail, d, o) = 0 /\ NumberIn(trail, d, o) = 0
<1>1. FillsIn(trail, d, o) = {}
  BY DEF FillsIn, Counts
<1>. QED
  BY <1>1, SumEmpty, FS_EmptySet DEF SeenIn, NumberIn

LEMMA GuardStep ==
  ASSUME TypeOK, GuardInv, [Next]_vars PROVE GuardInv'
<1>1. ASSUME NEW s \in Signals, NEW policy \in Policies, NEW clock \in Clocks,
             NEW startable \in BOOLEAN, Admit(s, policy, clock, startable)
      PROVE  GuardInv'
  BY <1>1, AdmitKeepsGuard
<1>2. ASSUME NEW caller \in Owners, NEW i \in JobIds, Dispatch(caller, i) PROVE GuardInv'
  <2>1. jobs[i] \in Job /\ Dispatched(i, jobs[i], <<>>)
    BY <1>2, ListedJob DEF Dispatch, Finds
  <2>2. <<>> \in Seq(Event) /\ <<>> \o audit = audit
    BY DEF TypeOK
  <2>3. UpTo(<<>> \o audit, today) /\ (~forgot => Within(<<>> \o audit, today, earned))
    BY <2>2 DEF GuardInv, UpTo
  <2>. QED
    BY <2>1, <2>2, <2>3, DispatchedKeepsGuard
<1>3. ASSUME NEW caller \in Owners, NEW i \in JobIds, NEW to \in Statuses,
             Patch(caller, i, to)
      PROVE  GuardInv'
  BY <1>3, PatchKeepsGuard
<1>4. CASE \/ \E caller \in Owners, targets \in PurgeRequests : Purge(caller, targets)
           \/ \E caller \in Owners, symbol \in Symbols, price \in Prices :
                Mark(caller, symbol, price)
           \/ UNCHANGED vars
  <2>1. audit' = audit /\ today' = today /\ earned' = earned /\ forgot' = forgot
    BY <1>4 DEF Purge, Mark, history, vars
  <2>. QED
    BY <2>1 DEF GuardInv
<1>5. CASE NextDay
  <2>1. /\ audit' = audit /\ today' = today + 1
        /\ \A o \in Owners \cup {None} : earned'[o] = 0
    BY <1>5 DEF NextDay
  <2>2. PICK d, paid : d = today' /\ paid = earned'
    OBVIOUS
  <2>3. audit \in Seq(Event) /\ today \in Int
    BY Bounds DEF TypeOK
  <2>4. \A n \in 1..Len(audit) : audit[n].day \in Int /\ audit[n].day <= today
    <3>1. \A n \in 1..Len(audit) : audit[n] \in Event
      BY <2>3
    <3>. QED
      BY <3>1, Bounds DEF Event, GuardInv
  <2>5. \A n \in 1..Len(audit) : audit[n].day <= d /\ audit[n].day # d
    BY <2>1, <2>2, <2>3, <2>4
  <2>6. Within(audit, d, paid)
    <3>. SUFFICES ASSUME NEW o \in Owners \cup {None}
                  PROVE  Near(SeenIn(audit, d, o), Due(paid, o), NumberIn(audit, d, o))
      BY DEF Within
    <3>1. SeenIn(audit, d, o) = 0 /\ NumberIn(audit, d, o) = 0
      BY <2>5, NothingSeen
    <3>2. Due(paid, o) = 0
      BY <2>1, <2>2 DEF Due
    <3>3. Grain \in Int
      BY FillConstants
    <3>. QED
      BY <3>1, <3>2, <3>3 DEF Near
  <2>. QED
    BY <2>1, <2>2, <2>5, <2>6 DEF GuardInv
<1>6. CASE Restart
  <2>1. audit' = <<>> /\ today' = today /\ earned' = earned
    BY <1>6 DEF Restart
  <2>2. ASSUME ~forgot'
        PROVE  Within(<<>>, today, earned)
    <3>1. ~forgot /\ \A n \in DOMAIN audit : ~FilledToday(audit[n])
      BY <1>6, <2>2 DEF Restart
    <3>2. PICK d, paid : d = today /\ paid = earned
      OBVIOUS
    <3>3. \A n \in 1..Len(audit) : ~(audit[n].type = "dispatch_filled" /\ audit[n].day = d)
      BY <3>1, <3>2 DEF FilledToday, TypeOK
    <3>4. Within(audit, d, paid)
      BY <3>1, <3>2 DEF GuardInv
    <3>5. ASSUME NEW o
          PROVE  SeenIn(audit, d, o) = SeenIn(<<>>, d, o) /\ NumberIn(audit, d, o) = NumberIn(<<>>, d, o)
      <4>1. \A n \in 1..Len(<<>>) : ~(<<>>[n].type = "dispatch_filled" /\ <<>>[n].day = d)
        OBVIOUS
      <4>. QED
        BY <3>3, <4>1, NothingSeen
    <3>6. Within(<<>>, d, paid)
      BY <3>4, <3>5 DEF Within
    <3>. QED
      BY <3>2, <3>6
  <2>. QED
    BY <2>1, <2>2 DEF GuardInv
<1>. QED
  BY <1>1, <1>2, <1>3, <1>4, <1>5, <1>6 DEF Next

LEMMA GuardInvariant == Spec => []GuardInv
<1>1. Init => GuardInv
  <2>. SUFFICES ASSUME Init PROVE GuardInv
    OBVIOUS
  <2>1. PICK d, paid, trail : d = today /\ paid = earned /\ trail = audit
    OBVIOUS
  <2>2. Len(trail) = 0 /\ \A o \in Owners \cup {None} : paid[o] = 0
    BY <2>1 DEF Init
  <2>3. Within(trail, d, paid)
    <3>. SUFFICES ASSUME NEW o \in Owners \cup {None}
                  PROVE  Near(SeenIn(trail, d, o), Due(paid, o), NumberIn(trail, d, o))
      BY DEF Within
    <3>1. SeenIn(trail, d, o) = 0 /\ NumberIn(trail, d, o) = 0
      BY <2>2, NothingSeen
    <3>2. Due(paid, o) = 0
      BY <2>2 DEF Due
    <3>3. Grain \in Int
      BY FillConstants
    <3>. QED
      BY <3>1, <3>2, <3>3 DEF Near
  <2>. QED
    BY <2>1, <2>2, <2>3 DEF GuardInv
<1>2. TypeOK /\ GuardInv /\ [Next]_vars => GuardInv'
  BY GuardStep
<1>. QED
  BY <1>1, <1>2, EngineTypeCorrect, PTL DEF Spec

\* The sum the guard takes is that of a function over the fills it sees.
LEMMA AmountsAddUp ==
  ASSUME NEW trail \in Seq(Event), NEW S \in SUBSET (1..Len(trail)), IsFiniteSet(S),
         NEW g, g = Amounts(trail)
  PROVE  MapThenSumSet(LAMBDA n : trail[n].realized, S) = Sum(g, S)
<1>. DEFINE step(it, s) == IF s = {} THEN 0 ELSE trail[Pick(s)].realized + it[s \ {Pick(s)}]
            I == CHOOSE it : it = [s \in SUBSET S |-> step(it, s)]
<1>1. PICK it : Iterates(it, g, S)
  BY IterationExists
<1>2. ASSUME NEW any, NEW s \in SUBSET S
      PROVE  step(any, s) = IF s = {} THEN 0 ELSE g[Pick(s)] + any[s \ {Pick(s)}]
  <2>1. CASE s = {}
    BY <2>1
  <2>2. CASE s # {}
    <3>1. Pick(s) \in 1..Len(trail)
      BY <2>2, PickMember
    <3>2. g[Pick(s)] = trail[Pick(s)].realized
      BY <3>1 DEF Amounts
    <3>. QED
      BY <2>2, <3>2
  <2>. QED
    BY <2>1, <2>2
<1>3. ASSUME NEW any
      PROVE  [s \in SUBSET S |-> step(any, s)]
               = [s \in SUBSET S |-> IF s = {} THEN 0 ELSE g[Pick(s)] + any[s \ {Pick(s)}]]
  <2>. HIDE DEF step
  <2>. QED
    BY <1>2
<1>4. it = [s \in SUBSET S |-> step(it, s)]
  <2>. HIDE DEF step
  <2>. QED
    BY <1>1, <1>3 DEF Iterates
<1>5. I = [s \in SUBSET S |-> step(I, s)]
  <2>. HIDE DEF step
  <2>. QED
    BY <1>4
<1>6. Iterates(I, g, S)
  <2>. HIDE DEF step, I
  <2>. QED
    BY <1>3, <1>5 DEF Iterates
<1>7. I[S] = Sum(g, S)
  <2>. HIDE DEF I
  <2>1. S \in SUBSET S
    OBVIOUS
  <2>. QED
    BY <1>6, <2>1, SumOfIteration
<1>8. MapThenSumSet(LAMBDA n : trail[n].realized, S) = I[S]
  BY DEF MapThenSumSet, MapThenFoldSet, Pick
<1>. QED
  BY <1>7, <1>8

\* What the guard reads is what GuardInv speaks of.
LEMMA GuardReads ==
  ASSUME TypeOK, NEW o
  PROVE  /\ RealizedToday(o) = SeenIn(audit, today, o)
         /\ Cardinality(TodaysFills(o)) = NumberIn(audit, today, o)
         /\ EarnedBySeen(o) = Due(earned, o)
<1>1. audit \in Seq(Event) /\ DOMAIN audit = 1..Len(audit)
  BY DEF TypeOK
<1>2. PICK S : S = FillsIn(audit, today, o)
  OBVIOUS
<1>3. TodaysFills(o) = S
  BY <1>1, <1>2 DEF TodaysFills, FillsIn, FilledToday, Counts
<1>4. S \in SUBSET (1..Len(audit)) /\ IsFiniteSet(S)
  BY <1>1, <1>2, FillsFinite DEF FillsIn
<1>5. PICK g : g = Amounts(audit)
  OBVIOUS
<1>6. MapThenSumSet(LAMBDA n : audit[n].realized, S) = Sum(g, S)
  BY <1>1, <1>4, <1>5, AmountsAddUp
<1>7. RealizedToday(o) = MapThenSumSet(LAMBDA n : audit[n].realized, S)
  BY <1>3 DEF RealizedToday
<1>8. EarnedBySeen(o) = Due(earned, o)
  BY DEF EarnedBySeen, Due
<1>. QED
  BY <1>2, <1>3, <1>5, <1>6, <1>7, <1>8 DEF SeenIn, NumberIn

\* While the trail keeps today's fills, the loss guard sees what the book realized
\* today for the owner, to half a grain a fill, whatever is interleaved.
THEOREM GuardSeesToday == Spec => []LossGuardSeesToday
<1>1. TypeOK /\ GuardInv => LossGuardSeesToday
  <2>. SUFFICES ASSUME TypeOK, GuardInv, ~forgot, NEW o \in Owners \cup {None}
                PROVE  LET gap == 2 * (RealizedToday(o) - EarnedBySeen(o))
                           bound == Grain * Cardinality(TodaysFills(o))
                       IN  -bound <= gap /\ gap <= bound
    BY DEF LossGuardSeesToday
  <2>1. Near(SeenIn(audit, today, o), Due(earned, o), NumberIn(audit, today, o))
    BY DEF GuardInv, Within
  <2>. QED
    BY <2>1, GuardReads DEF Near
<1>. QED
  BY <1>1, EngineTypeCorrect, GuardInvariant, PTL

\* A policy that lets a signal through found the loss below its limit.
LEMMA NoReasonHalted ==
  ASSUME NEW s, NEW policy, NEW clock, NEW active, NEW activeFor, NEW realized, NEW startable,
         RejectReasons(s, policy, clock, active, activeFor, realized, startable) = {}
  PROVE  ~Halted(policy, realized)
<1>. DEFINE fails == Fails(s, policy, clock, active, activeFor, realized, startable)
<1>1. \A reason \in DOMAIN fails : ~fails[reason]
  BY Zenon DEF RejectReasons
<1>2. "daily_loss_limit_reached" \in DOMAIN fails
  BY DEF Fails
<1>3. ~fails["daily_loss_limit_reached"]
  <2>. HIDE DEF fails
  <2>. QED
    BY <1>1, <1>2
<1>. QED
  BY <1>3 DEF Fails

\* A job queued is one of an owner whose loss the guard found below a limit.
LEMMA QueuedBelowLimit ==
  ASSUME TypeOK, FillInv, NEW s \in Signals, NEW policy \in Policies, NEW clock \in Clocks,
         NEW startable \in BOOLEAN, Admit(s, policy, clock, startable),
         jobs'[nextJob].status = "queued"
  PROVE  /\ jobs'[nextJob].sig.owner = s.owner
         /\ policy.lossLimit = 0 \/ RealizedToday(s.owner) > -policy.lossLimit
<1>1. PICK job \in Job : Admitted(job) /\ job.sig = s
                          /\ job.status = Verdict(s, policy, clock, startable)
  BY AdmitEffect
<1>2. jobs'[nextJob] = job
  BY <1>1, AdmittedIsListed
<1>3. PICK realized : realized = RealizedToday(s.owner)
  OBVIOUS
<1>4. RejectReasons(s, policy, clock, Cardinality(ActiveJobs(jobs)),
                    Cardinality(ActiveFor(jobs, s.symbol)), realized, startable) = {}
  BY <1>1, <1>2, <1>3 DEF Verdict
<1>5. ~Halted(policy, realized)
  BY <1>4, NoReasonHalted
<1>6. realized \in Int
  <2>1. PICK d, o : d = today /\ o = s.owner
    OBVIOUS
  <2>2. SeenIn(audit, d, o) \in Int
    BY FillsFinite DEF TypeOK
  <2>3. RealizedToday(o) = SeenIn(audit, today, o)
    BY GuardReads
  <2>. QED
    BY <1>3, <2>1, <2>2, <2>3
<1>7. policy.lossLimit \in Nat
  BY EngineConstants DEF Policy
<1>8. policy.lossLimit = 0 \/ realized > -policy.lossLimit
  BY <1>5, <1>6, <1>7 DEF Halted
<1>. QED
  BY <1>1, <1>2, <1>3, <1>8

LEMMA OnlyAdmitNumbers ==
  ASSUME TypeOK, [Next]_vars, nextJob' # nextJob
  PROVE  \E s \in Signals, policy \in Policies, clock \in Clocks, startable \in BOOLEAN :
           Admit(s, policy, clock, startable)
<1>1. ASSUME NEW caller \in Owners, NEW i \in JobIds, Dispatch(caller, i)
      PROVE  nextJob' = nextJob
  BY <1>1 DEF Dispatch, Dispatched
<1>2. ASSUME NEW caller \in Owners, NEW i \in JobIds, NEW to \in Statuses,
             Patch(caller, i, to)
      PROVE  nextJob' = nextJob
  BY <1>2 DEF Patch, Dispatched
<1>. QED
  BY <1>1, <1>2 DEF Next, Purge, Mark, NextDay, Restart, vars

\* No signal is queued for an owner whose true loss of the day has passed every
\* limit in use by more than the rounding of the fills, while the trail keeps them.
THEOREM NothingPastTheLossLimit == Spec => NoAdmissionPastLossLimit
<1>. DEFINE Step == nextJob' # nextJob /\ jobs'[nextJob].status = "queued" /\ ~forgot =>
       LET o == jobs'[nextJob].sig.owner
       IN  \E policy \in Policies :
             \/ policy.lossLimit = 0
             \/ 2 * EarnedBySeen(o) >
                  -2 * policy.lossLimit - Grain * Cardinality(TodaysFills(o))
<1>1. TypeOK /\ FillInv /\ GuardInv /\ [Next]_vars => Step
  <2>. SUFFICES ASSUME TypeOK, FillInv, GuardInv, [Next]_vars,
                       nextJob' # nextJob, jobs'[nextJob].status = "queued", ~forgot,
                       NEW o, o = jobs'[nextJob].sig.owner
                PROVE  \E policy \in Policies :
                         \/ policy.lossLimit = 0
                         \/ 2 * EarnedBySeen(o) >
                              -2 * policy.lossLimit - Grain * Cardinality(TodaysFills(o))
    BY Zenon
  <2>1. PICK s \in Signals, policy \in Policies, clock \in Clocks, startable \in BOOLEAN :
          Admit(s, policy, clock, startable)
    BY OnlyAdmitNumbers
  <2>2. o = s.owner /\ (policy.lossLimit = 0 \/ RealizedToday(s.owner) > -policy.lossLimit)
    BY <2>1, QueuedBelowLimit
  <2>3. o \in Owners \cup {None}
    BY <2>2, SignalType
  <2>4. PICK d : d = today
    OBVIOUS
  <2>5. PICK seen \in Int, due \in Int, number \in Nat :
          seen = SeenIn(audit, d, o) /\ due = Due(earned, o) /\ number = NumberIn(audit, d, o)
    BY <2>3, GuardTypes, FillsFinite, DueType
  <2>6. Near(seen, due, number)
    BY <2>3, <2>4, <2>5 DEF GuardInv, Within
  <2>7. /\ RealizedToday(o) = seen /\ EarnedBySeen(o) = due
        /\ Cardinality(TodaysFills(o)) = number
    BY <2>4, <2>5, GuardReads
  <2>8. PICK p \in Int : p = Grain * number
    BY FillConstants
  <2>9. 2 * (seen - due) <= p
    BY <2>6, <2>8 DEF Near
  <2>10. policy.lossLimit \in Nat
    BY EngineConstants DEF Policy
  <2>11. policy.lossLimit = 0 \/ seen > -policy.lossLimit
    BY <2>2, <2>7
  <2>12. policy.lossLimit = 0 \/ 2 * due > -2 * policy.lossLimit - p
    BY <2>9, <2>10, <2>11
  <2>. QED
    BY <2>7, <2>8, <2>12
<1>. QED
  BY <1>1, EngineTypeCorrect, FillInvariant, GuardInvariant, PTL DEF Spec, NoAdmissionPastLossLimit
=============================================================================
