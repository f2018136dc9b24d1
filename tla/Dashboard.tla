----------------------------- MODULE Dashboard -----------------------------
(***************************************************************************)
(* The trading page (pinebitz/web/dashboard.js) over the job list it shows *)
(* and works on.  Every click and every tick of the timer starts a task: a *)
(* chain of awaited calls.  Chains overlap, their answers arrive in any    *)
(* order, and a call reads state.ownerKey when it is sent.  The server is  *)
(* the job lifecycle that the execution engine implements.                 *)
(*                                                                         *)
(* Of the five tables only the jobs are kept: the loads of the others can  *)
(* fail and take time, and that is all the chain knows of them.            *)
(***************************************************************************)
EXTENDS Naturals, SequencesExt

CONSTANTS
  Owners,
  Nobody,
  OwnerOf,      \* OwnerOf[i]: whose job i is, or Nobody
  Idle,         \* the state of a slot without a chain
  ListLimit,    \* 200: the length of the list the page asks for
  MaxTasks,     \* bound: tasks at once
  AutoRefresh,  \* whether the stored pinebitz.autoRefreshSeconds is positive
  MaxTroubles   \* bound: lost calls, changes of the owner key, steps of other clients

VARIABLES
  phase, settled,  \* the server's jobs
  owner,           \* state.ownerKey
  shown,           \* state.executionJobs: what the table says of the jobs in it
  timer,           \* whether state.autoRefreshTimer runs
  wanted,          \* whether the user has auto refresh on
  tasks,           \* the chains under way
  troubles, \* spent of the bounds
  armed            \* history: startAutoRefresh was called

server == <<phase, settled>>
pageVars == <<server, owner, shown, timer, wanted, tasks, troubles, armed>>

Jobs == DOMAIN OwnerOf
Slots == 1..MaxTasks

ASSUME DashboardConstants ==
  /\ OwnerOf \in Seq(Owners \cup {Nobody})
  /\ Nobody \notin Owners
  /\ {ListLimit, MaxTasks} \subseteq Nat \ {0}
  /\ AutoRefresh \in BOOLEAN
  /\ MaxTroubles \in Nat

Server == INSTANCE JobLifecycle WITH JobIds <- Jobs

VisibleTo(i, caller) == OwnerOf[i] \in {Nobody, caller}
Pending(table) == {i \in DOMAIN table : table[i] = "pending"}

\* Jobs are numbered in the order of their arrival, so the first page of the
\* newest-first list is the greatest numbers (list_execution_jobs).
Listing(caller) ==
  LET mine == {i \in Jobs : phase[i] \in Server!Present /\ VisibleTo(i, caller)}
  IN  [i \in {j \in mine : Cardinality({k \in mine : k >= j}) <= ListLimit} |-> phase[i]]

Call(what, i) == [what |-> what, job |-> i]
\* "other" is a call that has no part in the jobs; nobody sees it handled.
Calls == [what : {"other", "list"}, job : {0}]
         \cup [what : {"attempt", "dispatch", "reject"}, job : Jobs]

\* refreshTradingState, whose loads are awaited one after the other: the one
\* before the jobs stands or falls with theirs, and what comes of those after it
\* matters to boot alone.  refreshAll loads the connections and plans before.
Refresh == <<Call("list", 0)>>
RefreshAll == <<Call("other", 0)>> \o Refresh

\* A chain of calls, of which the first is under way; list is the body of its
\* answer when it asks for the list.
NoTable == [i \in {} |-> "pending"]
Tables == UNION {[S -> Server!Present] : S \in SUBSET Jobs}
Task == [calls : Seq(Calls), answer : {"awaited", "ok", "refused"}, list : Tables, as : Owners,
         boot : BOOLEAN, taken : SUBSET Jobs, missed : SUBSET Jobs]

\* The page's tables hold jobs, and every chain under way has a call to answer.
DashTypeOK ==
  /\ Server!TypeOK
  /\ owner \in Owners
  /\ shown \in Tables
  /\ {timer, wanted, armed} \subseteq BOOLEAN
  /\ \A s \in Slots : tasks[s] # Idle =>
       tasks[s] \in Task /\ tasks[s].calls # <<>> /\ Len(tasks[s].calls) <= Cardinality(Jobs) + 3

Chain(calls, boot, taken) ==
  [calls |-> calls, answer |-> "awaited", list |-> NoTable, as |-> owner, boot |-> boot,
   taken |-> taken, missed |-> {}]

\* boot: refreshAll is awaited before the timer starts.
PageInit ==
  /\ Server!Init
  /\ owner \in Owners
  /\ shown = NoTable
  /\ timer = FALSE /\ wanted = AutoRefresh /\ armed = FALSE
  /\ tasks = [s \in Slots |->
                IF s = 1 THEN Chain(RefreshAll \o <<Call("other", 0)>>, TRUE, {}) ELSE Idle]
  /\ troubles = 0

-----------------------------------------------------------------------------
\* A handler begins: its first call goes out, in the first free slot.
Free(s) == tasks[s] = Idle /\ \A r \in 1..(s - 1) : tasks[r] # Idle
Starts(calls, taken) ==
  \E s \in Slots :
    /\ Free(s)
    /\ tasks' = [tasks EXCEPT ![s] = Chain(calls, FALSE, taken)]

\* The setInterval callback
Tick ==
  /\ timer
  /\ Starts(Refresh, {})
  /\ UNCHANGED <<server, owner, shown, timer, wanted, troubles, armed>>

\* The buttons of the page and of a row of the table
Clicks(calls, taken) ==
  /\ Starts(calls, taken)
  /\ UNCHANGED <<server, owner, shown, timer, wanted, troubles, armed>>
RowButton(i, action) == i \in DOMAIN shown /\ Clicks(<<Call(action, i)>> \o Refresh, {})

\* The jobs a table lists as pending, in its order.
Queue(table) ==
  LET queued == Pending(table)
  IN  [n \in 1..Cardinality(queued) |->
        CHOOSE i \in queued : Cardinality({j \in queued : j >= i}) = n]
\* dispatchAllQueuedJobs: one attempt for each, in a try of its own.
DispatchAllQueued ==
  LET queue == Queue(shown)
  IN  /\ queue # <<>>
      /\ Clicks([n \in DOMAIN queue |-> Call("attempt", queue[n])] \o Refresh, Pending(shown))

SaveOwner(o) ==
  /\ o # owner /\ troubles < MaxTroubles
  /\ owner' = o /\ troubles' = troubles + 1
  /\ \E s \in Slots :
       /\ Free(s)
       /\ tasks' = [tasks EXCEPT ![s] = [Chain(RefreshAll, FALSE, {}) EXCEPT !.as = o]]
  /\ UNCHANGED <<server, shown, timer, wanted, armed>>

\* Pause and Resume, and the choice of an interval: startAutoRefresh
SetAutoRefresh(on) ==
  /\ wanted' = on /\ timer' = on /\ armed' = TRUE
  /\ UNCHANGED <<server, owner, shown, tasks, troubles>>

-----------------------------------------------------------------------------
Head1(s) == Head(tasks[s].calls)
Awaits(s) == tasks[s] # Idle /\ tasks[s].answer = "awaited" /\ Head1(s).what # "other"
Answers(s, answer) == tasks' = [tasks EXCEPT ![s].answer = answer]
AnswersList(s, list) ==
  tasks' = [tasks EXCEPT ![s].answer = "ok", ![s].list = list]

\* The server handles a call.
Handle(s) ==
  LET i == Head1(s).job
      found == phase[i] \in Server!Present /\ VisibleTo(i, tasks[s].as)
  IN
  /\ Awaits(s)
  /\ \/ Head1(s).what = "list" /\ AnswersList(s, Listing(tasks[s].as)) /\ UNCHANGED server
     \/ /\ Head1(s).what \in {"attempt", "dispatch"}
        /\ IF found /\ phase[i] = "pending"
           THEN (Server!Settle(i) \/ Server!Resolve(i, "sent")) /\ Answers(s, "ok")
           ELSE Answers(s, "refused") /\ UNCHANGED server
     \/ /\ Head1(s).what = "reject"
        /\ IF found /\ phase[i] = "pending"
           THEN Server!Resolve(i, "rejected") /\ Answers(s, "ok")
           ELSE /\ Answers(s, IF found /\ phase[i] = "rejected" THEN "ok" ELSE "refused")
                /\ UNCHANGED server
  /\ UNCHANGED <<owner, shown, timer, wanted, troubles, armed>>

\* The chain goes on after its first call: the next is sent with the owner key
\* of this moment, or the task is over.
Rest(s, missed) ==
  LET t == tasks[s]
  IN  IF Len(t.calls) = 1 THEN Idle
      ELSE [t EXCEPT !.calls = Tail(t.calls), !.answer = "awaited", !.list = NoTable,
                     !.as = owner, !.missed = t.missed \cup missed]

\* A call has thrown: api() throws for a refusal, fetch for a failure.  Only an
\* attempt is caught, and the loop goes on with the next job.
\* (Mutant: the try is around the loop.)
AfterErrorOutside(s, missed) ==
  IF Head1(s).what # "attempt" THEN Idle
  ELSE [tasks[s] EXCEPT !.calls = Refresh, !.answer = "awaited", !.as = owner]
AfterError(s, missed) ==
  IF Head1(s).what = "attempt" THEN Rest(s, missed) ELSE Idle

\* The answer arrives: loadExecutionJobs assigns the list, boot ends by starting
\* the timer.
Arrives(s) ==
  LET t == tasks[s]
      last == Len(t.calls) = 1
      foreign == {i \in {Head1(s).job} \cap Jobs : ~VisibleTo(i, t.as)}
  IN
  /\ tasks[s] # Idle /\ ~Awaits(s)
  /\ shown' = IF Head1(s).what = "list" THEN t.list ELSE shown
  /\ tasks' = [tasks EXCEPT ![s] =
                 IF t.answer = "refused" THEN AfterError(s, foreign) ELSE Rest(s, {})]
  /\ timer' = IF t.boot /\ last THEN wanted ELSE timer
  /\ armed' = (armed \/ (t.boot /\ last))
  /\ UNCHANGED <<server, owner, wanted, troubles>>

\* The timer after a refresh has failed: setInterval goes on.
\* (Mutant: the next refresh is scheduled by the one that succeeds.)
TimerAfterErrorChained == FALSE
TimerAfterError == timer

\* The call or its answer is lost on the way.
Fails(s) ==
  /\ tasks[s] # Idle /\ troubles < MaxTroubles
  /\ troubles' = troubles + 1
  /\ tasks' = [tasks EXCEPT ![s] = AfterError(s, {Head1(s).job})]
  /\ timer' = TimerAfterError
  /\ UNCHANGED <<server, owner, shown, wanted, armed>>

\* Signals arrive, and other clients work on the same jobs.
Elsewhere ==
  /\ \/ \E i \in Jobs, verdict \in {"pending", "rejected"} :
          /\ \A j \in Jobs : j < i => phase[j] # "unborn"
          /\ Server!Submit(i, verdict, {})
          /\ UNCHANGED troubles
     \/ /\ troubles < MaxTroubles /\ troubles' = troubles + 1
        /\ \/ \E i \in Jobs, outcome \in Server!Phases : Server!Resolve(i, outcome)
           \/ \E i \in Jobs : Server!Settle(i)
           \/ \E i \in Jobs : Server!Discard({i})
  /\ UNCHANGED <<owner, shown, timer, wanted, tasks, armed>>

PageNext ==
  \/ Tick
  \/ \E i \in Jobs, action \in {"dispatch", "reject"} : RowButton(i, action)
  \/ DispatchAllQueued
  \/ \E o \in Owners : SaveOwner(o)
  \/ \E on \in BOOLEAN : SetAutoRefresh(on)
  \/ \E s \in Slots : Handle(s) \/ Arrives(s) \/ Fails(s)
  \/ Elsewhere

\* Every call is answered or fails in the end, and the timer ticks; that the
\* callback finds a slot is the bound's business, hence strong fairness.
PageFairness ==
  /\ \A s \in Slots : WF_pageVars(Handle(s)) /\ WF_pageVars(Arrives(s))
  /\ SF_pageVars(Tick)

PageSpec == PageInit /\ [][PageNext]_pageVars /\ PageFairness
-----------------------------------------------------------------------------
\* "Dispatch all" is thorough: when the loop is over, each job it set out with
\* has left the pending state, whatever others did to these jobs meanwhile and
\* whichever calls threw, except for the calls lost on their way and those sent
\* after the owner key had changed (dispatchAllQueuedJobs).
BulkIsThorough ==
  \A s \in Slots :
    (tasks[s] # Idle /\ \A n \in DOMAIN tasks[s].calls : tasks[s].calls[n].what # "attempt") =>
      tasks[s].taken \cap Pending(phase) \subseteq tasks[s].missed

\* Answers overtake each other, calls fail and the owner key changes under a
\* chain; yet once auto refresh runs for good and the jobs rest, the table comes
\* to show the list of the key in use and keeps showing it (refreshTradingState).
Converges == <>[](wanted /\ armed) => <>[](shown = Listing(owner))
=============================================================================
