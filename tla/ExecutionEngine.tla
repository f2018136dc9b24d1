-------------------------- MODULE ExecutionEngine --------------------------
(***************************************************************************)
(* The execution side of pinebitz/api/app.py: the job list, the audit      *)
(* trail, the paper book and the risk guard that reads them.  The state is *)
(* the module-level lists and the dict of one asyncio process; no handler  *)
(* below awaits between its first read and its last write of them, so each *)
(* is one step.  The webhook awaits the plan match before Admit begins.    *)
(*                                                                         *)
(* Jobs are numbered in the order of their insertion, so the newest-first  *)
(* list is the set of live numbers in descending order.                    *)
(***************************************************************************)
EXTENDS PaperBook, RiskPolicy, Sequences, FiniteSetsExt

CONSTANTS
  Policies,      \* the policies of the plans a signal can match, and the default
  Clocks,        \* the hours and weekdays at which signals arrive
  AutoDispatch,  \* EXECUTION_AUTO_DISPATCH
  JobsCap,       \* 500: length of the job list
  AuditCap,      \* 2000: length of the audit trail
  PurgeRequests, \* the status sets purge-test is called with
  MaxJobs,       \* bound: jobs created
  MaxDays        \* bound: days (UTC)

VARIABLES
  jobs,      \* _execution_jobs
  nextJob,   \* the number of the next job
  audit,     \* _execution_audit, newest first
  today,     \* the UTC date
  \* history, read by no action:
  fills,     \* fills[i]: how often job i's order was applied to the book
  earned,    \* earned[o]: what o's fills realized today, unrounded
  forgot     \* whether the audit trail lost a fill of today

history == <<fills, earned, forgot>>
vars == <<jobs, nextJob, audit, positions, today, history>>

Statuses == {"queued", "approved", "rejected", "sent", "filled", "failed"}
Active == {"queued", "approved", "sent"}
Terminal == {"rejected", "filled", "failed"}
Events == {"job_created", "status_changed", "dispatch_sent", "dispatch_filled"}

JobIds == 1..MaxJobs
Job == [sig : Signals, status : Statuses]

ASSUME EngineConstants ==
  /\ Policies \subseteq Policy
  /\ Clocks \subseteq [hour : Hours, weekday : Weekdays]
  /\ PurgeRequests \subseteq SUBSET Statuses
  /\ AutoDispatch \in BOOLEAN
  /\ {JobsCap, AuditCap, MaxJobs, MaxDays} \subseteq Nat \ {0}
  /\ Prices \subseteq Int
  /\ None \notin Job

Event == [job : JobIds, owner : Owners \cup {None}, type : Events,
          status : Statuses, day : 1..MaxDays, realized : Int]

\* The lists, the dict and the history hold values of their types, within caps.
TypeOK ==
  /\ jobs \in [JobIds -> Job \cup {None}]
  /\ nextJob \in 1..(MaxJobs + 1)
  /\ audit \in Seq(Event) /\ Len(audit) <= AuditCap
  /\ BookTypeOK
  /\ today \in 1..MaxDays
  /\ fills \in [JobIds -> Nat]
  /\ earned \in [Owners \cup {None} -> Int]
  /\ forgot \in BOOLEAN

Live(js) == {i \in JobIds : js[i] # None}
ActiveJobs(js) == {i \in Live(js) : js[i].status \in Active}
ActiveFor(js, symbol) == {i \in ActiveJobs(js) : js[i].sig.symbol = symbol}

Init ==
  /\ jobs = [i \in JobIds |-> None]
  /\ nextJob = 1
  /\ audit = <<>>
  /\ BookInit
  /\ today = 1
  /\ fills = [i \in JobIds |-> 0]
  /\ earned = [o \in Owners \cup {None} |-> 0]
  /\ forgot = FALSE

-----------------------------------------------------------------------------
\* append_execution_audit: put the events, newest first, before the others and
\* cut the trail at its cap.
EventOf(i, job, type, realized) ==
  [job |-> i, owner |-> job.sig.owner, type |-> type, status |-> job.status,
   day |-> today, realized |-> realized]

\* Mutant: nothing is cut.
Uncut(trail) == trail
Cut(trail) == SubSeq(trail, 1, IF Len(trail) < AuditCap THEN Len(trail) ELSE AuditCap)

FilledToday(event) == event.type = "dispatch_filled" /\ event.day = today

\* Mutant: events are appended, as if the trail were read from its end.
RecordAppended(events) ==
  audit' = Cut(audit \o events) /\ forgot' = forgot
Record(events) ==
  LET trail == events \o audit
  IN  /\ audit' = Cut(trail)
      /\ forgot' = (forgot \/ \E n \in (Len(Cut(trail)) + 1)..Len(trail) :
                                FilledToday(trail[n]))

\* compute_runtime_guard_state: the fills of today in the trail that caller
\* sees, and the sum of what they realized.
\* (Mutant: the fills of nobody are not counted.)
TodaysFillsOwned(caller) ==
  {n \in DOMAIN audit : FilledToday(audit[n]) /\ audit[n].owner = caller}
TodaysFills(caller) ==
  {n \in DOMAIN audit : FilledToday(audit[n]) /\ VisibleTo(audit[n].owner, caller)}
RealizedToday(caller) == MapThenSumSet(LAMBDA n : audit[n].realized, TodaysFills(caller))

\* del _execution_jobs[500:]
\* (Mutant: the front of the list is cut.)
Oldest(js) ==
  [i \in JobIds |-> IF Cardinality({j \in Live(js) : j <= i}) <= JobsCap
                    THEN js[i] ELSE None]
Newest(js) ==
  [i \in JobIds |-> IF Cardinality({j \in Live(js) : j >= i}) <= JobsCap
                    THEN js[i] ELSE None]

-----------------------------------------------------------------------------
\* Mutant: the limits count the jobs of the signal's owner only.
VerdictPerOwner(s, policy, clock, startable) ==
  LET own(set) == {i \in set : jobs[i].sig.owner = s.owner}
  IN  IF RejectReasons(s, policy, clock, Cardinality(own(ActiveJobs(jobs))),
                       Cardinality(own(ActiveFor(jobs, s.symbol))),
                       RealizedToday(s.owner), startable) = {}
      THEN "queued" ELSE "rejected"
Verdict(s, policy, clock, startable) ==
  IF RejectReasons(s, policy, clock, Cardinality(ActiveJobs(jobs)),
                   Cardinality(ActiveFor(jobs, s.symbol)),
                   RealizedToday(s.owner), startable) = {}
  THEN "queued" ELSE "rejected"

\* tradingview_webhook from the matched plan on: evaluate_risk_policy,
\* build_execution_job, the insertion and the job_created event.
Admit(s, policy, clock, startable) ==
  LET job == [sig |-> s, status |-> Verdict(s, policy, clock, startable)]
  IN  /\ nextJob <= MaxJobs
      /\ jobs' = Newest([jobs EXCEPT ![nextJob] = job])
      /\ nextJob' = nextJob + 1
      /\ Record(<<EventOf(nextJob, job, "job_created", 0)>>)
      /\ UNCHANGED <<positions, today, fills, earned>>

WithStatus(job, status) == [job EXCEPT !.status = status]
SentEvent(i, job) == EventOf(i, WithStatus(job, "sent"), "dispatch_sent", 0)
\* (Mutant: the event is logged for the job as it was sent.)
FilledEventOfSent(i, job, gain) ==
  EventOf(i, WithStatus(job, "sent"), "dispatch_filled", Round4(gain))
FilledEvent(i, job, gain) ==
  EventOf(i, WithStatus(job, "filled"), "dispatch_filled", Round4(gain))

\* The job a dispatch accepts. Mutant: any job but a rejected one.
DispatchableUnlessRejected(job) == job.status # "rejected"
Dispatchable(job) == job.status \in {"queued", "approved"}

\* The adapter's first half: the order is accepted, and without a price that is
\* all.
SendOnly(i, job, logged) ==
  /\ job.sig.price = None
  /\ jobs' = [jobs EXCEPT ![i] = WithStatus(job, "sent")]
  /\ Record(<<SentEvent(i, job)>> \o logged)
  /\ UNCHANGED <<positions, fills, earned>>

\* With a price it is filled at that price in the same step.
SendAndFill(i, job, logged) ==
  LET s == job.sig
      gain == RealizedBy(positions[KeyOf(s)], s)
  IN  /\ s.price # None
      /\ jobs' = [jobs EXCEPT ![i] = WithStatus(job, "filled")]
      /\ Record(<<FilledEvent(i, job, gain), SentEvent(i, job)>> \o logged)
      /\ Fill(s)
      /\ fills' = [fills EXCEPT ![i] = @ + 1]
      /\ earned' = [earned EXCEPT ![s.owner] = @ + gain]

\* dispatch_execution_job, on a job that may have become approved in this very
\* step; logged holds the events the step already appended.
Dispatched(i, job, logged) ==
  /\ Dispatchable(job)
  /\ SendOnly(i, job, logged) \/ SendAndFill(i, job, logged)
  /\ UNCHANGED <<nextJob, today>>

\* What both job endpoints look the job up by.
\* (Mutant: anybody's job is found.)
FindsAnyones(caller, i) == jobs[i] # None
Finds(caller, i) == jobs[i] # None /\ VisibleTo(jobs[i].sig.owner, caller)

\* dispatch_execution_job_endpoint
Dispatch(caller, i) == Finds(caller, i) /\ Dispatched(i, jobs[i], <<>>)

\* Mutant: a failed job may be retried.
RetryTransitions(status) ==
  CASE status = "queued" -> {"approved", "rejected", "failed"}
    [] status = "approved" -> {"sent", "rejected", "failed"}
    [] status = "sent" -> {"filled", "failed"}
    [] status = "failed" -> {"queued"}
    [] OTHER -> {}
ValidTransitions(status) ==
  CASE status = "queued" -> {"approved", "rejected", "failed"}
    [] status = "approved" -> {"sent", "rejected", "failed"}
    [] status = "sent" -> {"filled", "failed"}
    [] OTHER -> {}

\* patch_execution_job: setting the status the job has is always accepted.
Patch(caller, i, to) ==
  LET job == WithStatus(jobs[i], to)
      change == <<EventOf(i, job, "status_changed", 0)>>
  IN  /\ Finds(caller, i)
      /\ to \in ValidTransitions(jobs[i].status) \cup {jobs[i].status}
      /\ IF to = "approved" /\ AutoDispatch
         THEN Dispatched(i, job, change)
         ELSE /\ jobs' = [jobs EXCEPT ![i] = job]
              /\ Record(change)
              /\ UNCHANGED <<nextJob, positions, today, fills, earned>>

\* purge_execution_jobs_for_test; it leaves no event.
Purge(caller, targets) ==
  /\ jobs' = [i \in JobIds |-> IF Finds(caller, i) /\ jobs[i].status \in targets
                               THEN None ELSE jobs[i]]
  /\ UNCHANGED <<nextJob, audit, positions, today, history>>

Mark(caller, symbol, price) ==
  MarkToMarket(caller, symbol, price) /\ UNCHANGED <<jobs, nextJob, audit, today, history>>

\* Midnight UTC
NextDay ==
  /\ today < MaxDays
  /\ today' = today + 1
  /\ earned' = [o \in Owners \cup {None} |-> 0]
  /\ forgot' = FALSE
  /\ UNCHANGED <<jobs, nextJob, audit, positions, fills>>

\* The process ends and starts again: nothing of this state is stored.
Restart ==
  /\ jobs' = [i \in JobIds |-> None]
  /\ audit' = <<>>
  /\ BookRestart
  /\ forgot' = (forgot \/ \E n \in DOMAIN audit : FilledToday(audit[n]))
  /\ UNCHANGED <<nextJob, today, fills, earned>>

Next ==
  \/ \E s \in Signals, policy \in Policies, clock \in Clocks, startable \in BOOLEAN :
       Admit(s, policy, clock, startable)
  \/ \E caller \in Owners, i \in JobIds : Dispatch(caller, i)
  \/ \E caller \in Owners, i \in JobIds, to \in Statuses : Patch(caller, i, to)
  \/ \E caller \in Owners, targets \in PurgeRequests : Purge(caller, targets)
  \/ \E caller \in Owners, symbol \in Symbols, price \in Prices : Mark(caller, symbol, price)
  \/ NextDay
  \/ Restart

Spec == Init /\ [][Next]_vars
-----------------------------------------------------------------------------
\* An order reaches the paper book at most once, whatever dispatches, patches
\* and automatic dispatches race for the job, and a job whose order did is
\* filled for as long as it is listed (dispatch_execution_job).
FilledAtMostOnce ==
  \A i \in JobIds :
    /\ fills[i] <= 1
    /\ fills[i] = 1 /\ jobs[i] # None => jobs[i].status = "filled"

\* A rejected, filled or failed job keeps its status, and a job that was purged,
\* evicted or lost never comes back (valid_transitions, the guard of dispatch).
NeverRevived ==
  [][\A i \in JobIds :
       /\ i < nextJob /\ jobs[i] = None => jobs'[i] = None
       /\ (jobs[i] # None /\ jobs'[i] # None) =>
            (jobs[i].status \in Terminal => jobs'[i].status = jobs[i].status)]_vars

\* However signals, approvals, dispatches and purges interleave, the jobs open
\* at once never outnumber the most permissive max_open_positions in use: no
\* step but an admission opens a job (below_global_limit).
ActiveWithinLimit ==
  \A limit \in 1..MaxJobs :
    (\A policy \in Policies : policy.maxOpen \in 1..limit) =>
      Cardinality(ActiveJobs(jobs)) <= limit

\* The same per symbol, for max_open_per_symbol (below_symbol_limit).
ActivePerSymbolWithinLimit ==
  \A limit \in 1..MaxJobs :
    (\A policy \in Policies : policy.maxPerSymbol \in 1..limit) =>
      \A symbol \in Symbols : Cardinality(ActiveFor(jobs, symbol)) <= limit

\* Both at once, for every job and symbol
\* (below_global_limit, below_symbol_limit).
OpenWithinLimits == ActiveWithinLimit /\ ActivePerSymbolWithinLimit

EventsOf(i) == {n \in DOMAIN audit : audit[n].job = i}

\* The trail tells the truth about now: the newest event kept of a listed job
\* carries the job's status, also when one request both approves and dispatches
\* (append_execution_audit is called before the list is updated).
AuditExplainsStatus ==
  \A n \in DOMAIN audit :
    (jobs[audit[n].job] # None /\ \A m \in EventsOf(audit[n].job) : n <= m) =>
      jobs[audit[n].job].status = audit[n].status

Legal(from, to) ==
  to \in ValidTransitions(from) \cup {from} \cup (IF from = "queued" THEN {"sent"} ELSE {})

\* The trail tells the truth about the past: the events kept of a job, read from
\* the oldest on, are a path of legal transitions without a gap, though the
\* trail is cut at its cap, and one that starts with job_created starts there.
AuditIsAPath ==
  \A n \in DOMAIN audit :
    \A older \in {m \in EventsOf(audit[n].job) : m > n} :
      /\ audit[n].type # "job_created"
      /\ (\A m \in EventsOf(audit[n].job) : m <= n \/ m >= older) =>
           Legal(audit[older].status, audit[n].status)

\* What o's guard should see: the fills of o and those of nobody.
EarnedBySeen(o) == earned[None] + (IF o = None THEN 0 ELSE earned[o])

\* Unless the trail lost one of today's fills, the amount the loss guard compares
\* is what the book realized today for the owner, up to the rounding of each
\* fill: no fill is missed, counted twice or taken from another day or tenant
\* (compute_runtime_guard_state against apply_paper_fill).
LossGuardSeesToday ==
  ~forgot => \A o \in Owners \cup {None} :
    LET gap == 2 * (RealizedToday(o) - EarnedBySeen(o))
        bound == Grain * Cardinality(TodaysFills(o))
    IN  -bound <= gap /\ gap <= bound

\* When every policy has a loss limit, a step that queues a job does so for an
\* owner whose true loss of the day has not passed the loosest of them, unless
\* the trail lost a fill (runtime_state.halted in evaluate_risk_policy).
NoAdmissionPastLossLimit ==
  [][nextJob' # nextJob /\ jobs'[nextJob].status = "queued" /\ ~forgot =>
       LET o == jobs'[nextJob].sig.owner
       IN  \E policy \in Policies :
             \/ policy.lossLimit = 0
             \/ 2 * EarnedBySeen(o) >
                  -2 * policy.lossLimit - Grain * Cardinality(TodaysFills(o))]_vars

\* A tenant's request to change jobs or positions.
RequestBy(caller) ==
  \/ \E i \in JobIds : Dispatch(caller, i)
  \/ \E i \in JobIds, to \in Statuses : Patch(caller, i, to)
  \/ \E targets \in PurgeRequests : Purge(caller, targets)
  \/ \E symbol \in Symbols, price \in Prices : Mark(caller, symbol, price)

\* k is spelled by the names of two owners, or of one and of nobody.
Shared(k) ==
  \E o, other \in Owners \cup {None} :
    o # other /\ \E x, y \in Symbols : PositionKey(o, x) = k /\ PositionKey(other, y) = k

\* The step changes or removes a job that caller does not see, or a position,
\* unless an order takes it over that was filled on a shared key.
ChangesOthers(caller) ==
  \/ \E i \in Live(jobs) : jobs'[i] # jobs[i] /\ ~VisibleTo(jobs[i].sig.owner, caller)
  \/ \E k \in Keys :
       /\ positions[k] # None /\ positions'[k] # positions[k]
       /\ ~VisibleTo(positions[k].owner, caller)
       /\ Shared(k) => \A i \in JobIds : fills'[i] # fills[i] => KeyOf(jobs[i].sig) # k

\* A request changes and removes what is its caller's or nobody's, with the one
\* exception the text of the keys makes: an order on a key that two owners' names
\* spell takes over the position it finds there, whose ever it is
\* (job.owner_key not in (None, owner_key), _paper_position_key).
OnlyTheCallersTouched ==
  [][\A caller \in Owners : ChangesOthers(caller) => ~RequestBy(caller)]_vars

\* An admitted job is listed and costs at most the oldest one, and that only when
\* the list is full
\* (insert at the front, cut at the back).
EvictsOldestWhenFull ==
  [][nextJob' # nextJob =>
       LET gone == {i \in Live(jobs) : jobs'[i] = None}
       IN  /\ jobs'[nextJob] # None
           /\ gone # {} => Cardinality(Live(jobs)) = JobsCap
           /\ \A i \in gone : \A j \in Live(jobs) : i <= j]_vars

-----------------------------------------------------------------------------
PhaseOf(i) ==
  IF jobs[i] = None THEN (IF i < nextJob THEN "discarded" ELSE "unborn")
  ELSE IF jobs[i].status \in {"queued", "approved"} THEN "pending" ELSE jobs[i].status

Lifecycle == INSTANCE JobLifecycle WITH
  phase <- [i \in JobIds |-> PhaseOf(i)],
  settled <- {i \in JobIds : fills[i] > 0}

\* Every handler is a step of the job lifecycle or leaves it alone.
ImplementsLifecycle == Lifecycle!Spec
=============================================================================
