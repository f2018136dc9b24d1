--------------------------- MODULE SignalPipeline ---------------------------
(***************************************************************************)
(* The webhook of pinebitz/api/app.py over the control plane: a delivery   *)
(* enters the inbox, awaits the query for the plans it can match, and is   *)
(* admitted as a job judged by the plan as the query returned it.  Other   *)
(* deliveries and the control plane's requests run in between.             *)
(***************************************************************************)
EXTENDS ControlPlane, Sequences

CONSTANTS
  Signals,     \* the signals that arrive
  InboxCap,    \* 200
  MaxSignals   \* bound: deliveries

VARIABLES
  inbox,    \* _signal_inbox, newest first: the numbers of deliveries
  hooks,    \* hooks[n]: delivery n while its handler runs
  jobs,     \* jobs[n]: the plan delivery n was judged by, once it is a job
  nextHook, \* the number of the next delivery
  \* history, read by no action:
  seen,     \* seen[n]: the plan rows that were runnable at some moment since n came
  steady    \* steady[n]: those that were runnable at every moment since

control == <<conns, plans, open, nextReq, openAt, unaware>>
pipeline == <<inbox, hooks, jobs, nextHook>>
allVars == <<control, pipeline, seen, steady>>

Deliveries == 1..MaxSignals

\* What matching reads of a normalised signal: plan_id, plan_name and symbol.
Signal == [owner : Owners \cup {None}, plan : PlanIds \cup {None},
           name : Names \cup {None}, symbol : Pairs]
\* A plan as a query returned it, and none.
Match == [plan : PlanIds, row : PlanRow] \cup {None}
Hook == [sig : Signals, stage : {"received", "asking_any", "matched"}, match : Match]
Job == [sig : Signals, match : Match]

ASSUME PipelineConstants ==
  /\ Signals \subseteq Signal
  /\ InboxCap \in Nat \ {0}
  /\ MaxSignals \in Nat
  /\ None \notin Hook \cup Job \cup [plan : PlanIds, row : PlanRow] \cup PlanIds

\* Inbox, running deliveries and jobs hold values of their types, within the cap.
PipelineTypeOK ==
  /\ inbox \in Seq(Deliveries) /\ Len(inbox) <= InboxCap
  /\ hooks \in [Deliveries -> Hook \cup {None}]
  /\ jobs \in [Deliveries -> Job \cup {None}]
  /\ nextHook \in 1..(MaxSignals + 1)

PipelineInit ==
  /\ Init
  /\ inbox = <<>>
  /\ hooks = [n \in Deliveries |-> None]
  /\ jobs = [n \in Deliveries |-> None]
  /\ nextHook = 1
  /\ seen = [n \in Deliveries |-> {}]
  /\ steady = [n \in Deliveries |-> {}]

-----------------------------------------------------------------------------
\* del _signal_inbox[200:]
Kept(list) == SubSeq(list, 1, IF Len(list) < InboxCap THEN Len(list) ELSE InboxCap)

\* The rows both queries ask for.
Runnable(p) == /\ plans[p] # None
               /\ plans[p].enabled /\ plans[p].status = "active"
               /\ conns[plans[p].conn].status = "active"

\* Mutants: every tenant's; those under a paused connection, too.
CandidatesOfAll(s) == {p \in PlanIds : Runnable(p)}
CandidatesPaused(s) ==
  {p \in PlanIds : /\ plans[p] # None
                   /\ plans[p].enabled /\ plans[p].status = "active"
                   /\ s.owner \in {None, conns[plans[p].conn].owner}}
Candidates(s) == {p \in PlanIds : Runnable(p) /\ s.owner \in {None, conns[plans[p].conn].owner}}

ByPair(s, set) == {p \in set : plans[p].pair = s.symbol}

\* The plans of the first kind of match that finds one: id, name, pair.
\* (Mutant: the pair is looked at first.)
PreferredPair(s, set) ==
  LET byId == {p \in set : p = s.plan}
      byName == {p \in set : plans[p].name = s.name}
  IN  IF ByPair(s, set) # {} THEN ByPair(s, set) ELSE IF byId # {} THEN byId ELSE byName
Preferred(s, set) ==
  LET byId == {p \in set : p = s.plan}
      byName == {p \in set : plans[p].name = s.name}
  IN  IF byId # {} THEN byId ELSE IF byName # {} THEN byName ELSE ByPair(s, set)

\* ORDER BY updated_at DESC, ties in any order.
Newest(set) == {p \in set : \A q \in set : plans[q].updated <= plans[p].updated}

Matched(n, p) ==
  hooks' = [hooks EXCEPT ![n].stage = "matched",
              ![n].match = IF p = None THEN None ELSE [plan |-> p, row |-> plans[p]]]

\* The head of tradingview_webhook: into the inbox, then the query is awaited.
Receive(s) ==
  /\ nextHook <= MaxSignals
  /\ inbox' = Kept(<<nextHook>> \o inbox)
  /\ hooks' = [hooks EXCEPT ![nextHook] = [sig |-> s, stage |-> "received", match |-> None]]
  /\ nextHook' = nextHook + 1
  /\ UNCHANGED jobs

\* match_plan_for_signal: the first query, and for a signal that names no owner
\* and matched nothing a second one.
Query(n) ==
  LET s == hooks[n].sig
      best == Newest(Preferred(s, Candidates(s)))
  IN  /\ hooks[n].stage = "received"
      /\ \/ \E p \in best : Matched(n, p)
         \/ best = {} /\ s.owner # None /\ Matched(n, None)
         \/ best = {} /\ s.owner = None /\ hooks' = [hooks EXCEPT ![n].stage = "asking_any"]
      /\ UNCHANGED <<inbox, jobs, nextHook>>

\* Mutant: an ambiguous answer is asked for again.
QueryAnyAgain(n) ==
  LET pairs == ByPair(hooks[n].sig, {p \in PlanIds : Runnable(p)})
  IN  /\ hooks[n].stage = "asking_any"
      /\ \E p \in pairs : pairs = {p} /\ Matched(n, p)
      /\ UNCHANGED <<inbox, jobs, nextHook>>
\* The second query takes a plan only when no other has the pair.
QueryAny(n) ==
  LET pairs == ByPair(hooks[n].sig, {p \in PlanIds : Runnable(p)})
  IN  /\ hooks[n].stage = "asking_any"
      /\ \/ \E p \in pairs : pairs = {p} /\ Matched(n, p)
         \/ Cardinality(pairs) # 1 /\ Matched(n, None)
      /\ UNCHANGED <<inbox, jobs, nextHook>>

\* The rest of tradingview_webhook, once the match is back.
Admit(n) ==
  /\ hooks[n].stage = "matched"
  /\ jobs' = [jobs EXCEPT ![n] = [sig |-> hooks[n].sig, match |-> hooks[n].match]]
  /\ hooks' = [hooks EXCEPT ![n] = None]
  /\ UNCHANGED <<inbox, nextHook>>

\* A query fails, or the reading of the matched plan's connection: the signal
\* stays in the inbox and never becomes a job.
Drop(n) ==
  /\ hooks[n].stage = "matched" => hooks[n].match # None
  /\ hooks' = [hooks EXCEPT ![n] = None]
  /\ UNCHANGED <<inbox, jobs, nextHook>>

Handles(n) == Query(n) \/ QueryAny(n) \/ Admit(n)
Running == {n \in Deliveries : hooks[n] # None}

\* The process ends: the tables stay, all else goes.
Restart ==
  /\ inbox' = <<>>
  /\ hooks' = [n \in Deliveries |-> None]
  /\ jobs' = [n \in Deliveries |-> None]
  /\ open' = [r \in RequestIds |-> None]
  /\ UNCHANGED <<nextHook, conns, plans, nextReq, openAt, unaware>>

RunnableRows == {[plan |-> p, row |-> plans[p]] : p \in {q \in PlanIds : Runnable(q)}}

\* What was runnable while each delivery runs.
Witness ==
  /\ seen' = [n \in Deliveries |->
       IF hooks'[n] = None THEN {} ELSE seen[n] \cup RunnableRows']
  /\ steady' = [n \in Deliveries |->
       IF hooks'[n] = None THEN {}
       ELSE IF hooks[n] = None THEN RunnableRows' ELSE steady[n] \cap RunnableRows']

PipelineNext ==
  /\ \/ Next /\ UNCHANGED pipeline
     \/ (\E s \in Signals : Receive(s)) /\ UNCHANGED control
     \/ (\E n \in Running : Query(n)) /\ UNCHANGED control
     \/ (\E n \in Running : QueryAny(n)) /\ UNCHANGED control
     \/ (\E n \in Running : Admit(n)) /\ UNCHANGED control
     \/ (\E n \in Running : Drop(n)) /\ UNCHANGED control
     \/ Restart
  /\ Witness

PipelineSpec == PipelineInit /\ [][PipelineNext]_allVars

\* The event loop resumes a coroutine whose query was answered, and the driver
\* answers or raises.
Resumed(n) == hooks[n] # None /\ Handles(n) /\ UNCHANGED control /\ Witness
FairPipelineSpec == PipelineSpec /\ \A n \in Deliveries : WF_allVars(Resumed(n))

-----------------------------------------------------------------------------
Admitted(n) == jobs[n] = None /\ jobs'[n] # None

\* A signal is judged by a plan that was runnable, with the very configuration
\* used, at some moment while the signal was handled: never by one that had been
\* paused, switched off or deleted, or whose connection had, before it came
\* (match_plan_for_signal awaited by tradingview_webhook).
JudgedByRunnablePlan ==
  [][\A n \in Deliveries : Admitted(n) => jobs'[n].match \in seen[n] \cup {None}]_allVars

\* A signal that names an owner is judged by no other owner's plan.
JudgedByOwnPlan ==
  \A n \in Deliveries : jobs[n] # None =>
    (jobs[n].match # None /\ jobs[n].sig.owner # None =>
       conns[jobs[n].match.row.conn].owner = jobs[n].sig.owner)

Serves(s, match) == s.owner \in {None, conns[match.row.conn].owner}

\* How well a plan fits a signal.
Rank(s, match) ==
  IF match = None THEN 0
  ELSE IF match.plan = s.plan THEN 3
  ELSE IF match.row.name = s.name THEN 2
  ELSE IF match.row.pair = s.symbol THEN 1 ELSE 0

\* No plan is passed over: one that was runnable all the while the signal was
\* handled does not fit it better than the plan it was judged by.  In particular
\* the default policy, which has few limits, judges only signals that no plan
\* was steadily there for.
NoBetterPlanPassedOver ==
  [][\A n \in Deliveries : Admitted(n) =>
       \A match \in steady[n] :
         Serves(jobs'[n].sig, match) => Rank(jobs'[n].sig, match) <= Rank(jobs'[n].sig, jobs'[n].match)]_allVars

\* Every delivery is decided: its handler ends, whatever the control plane does
\* to the plans it is looking for.
EverySignalIsDecided ==
  \A n \in Deliveries : hooks[n] # None ~> hooks[n] = None
=============================================================================
