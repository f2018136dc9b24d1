# A TLA+ model of pinebitz

pinebitz is a FastAPI service that turns TradingView alerts into paper trades.  One asyncio process
(`pinebitz/api/app.py`) keeps the execution state in memory, a PostgreSQL database keeps the exchange
connections and bot plans, and a single-page dashboard (`pinebitz/web/dashboard.js`) drives both over HTTP.
A script (`scripts/order_usdm_testnet.py`) places single orders on an exchange's test network.  This directory
holds TLA+ modules of that program, the TLC runs that check them and TLAPS proofs about them.

## The system

| component | state | operations | talks to |
|---|---|---|---|
| webhook (`tradingview_webhook`) | `_signal_inbox`, newest first, at most 200 | check the secret, parse, normalise, match a plan, admit | control plane (queries it awaits), risk policy, job list |
| risk policy (`evaluate_risk_policy`, `compute_runtime_guard_state`) | none; reads jobs, audit and the clock | a set of reject reasons per signal | execution engine |
| trade start conditions (`evaluate_trade_start_conditions`) | none; a plan's clauses | an AND-chain over an alert's proofs and numbers | risk policy, the plan editor |
| execution engine | `_execution_jobs` (500), `_execution_audit` (2000) | admit, dispatch, patch, purge | paper book, audit trail |
| paper book (`apply_paper_fill`, mark-to-market) | `_paper_positions`, keyed by owner and symbol | fill, mark | called by dispatch; read by the guard |
| control plane | tables `exchange_connections`, `bot_plans` | create, list, get, patch, delete | queried by the webhook |
| DCA preview and simulation | none | functions of a configuration and a price path | dashboard |
| metrics (`api/metrics.py`, `request_id_middleware`) | counters and a latency window per route | record, snapshot | the middleware of every request, scrapes |
| metrics access | none; settings | who may read the metrics | scrapes |
| schema and migrations (`alembic/versions`) | the revision, the columns | upgrade, downgrade | the tables of the control plane |
| dashboard | lists fetched from the API, the owner key, a timer | refresh, row actions, bulk dispatch | all endpoints |
| order script | a process and what it left at the exchange | leverage, one market order | the exchange |

What is hard about it:

* **Interleaving.** Handlers are coroutines of one event loop.  Those of the execution side run from their
  first read to their last write without an `await`, so they are atomic, and what is left are sequences of
  whole requests by several tenants.  The webhook awaits its plan match before it admits; the control plane
  awaits the database between reading rows and committing them; the middleware surrounds handlers that
  overlap; the page's chains of calls overlap with each other and with other clients.
* **Bounded memory.** Job list, audit trail, inbox and latency windows drop their oldest entries, and two
  decisions are read from them: the open-position limits and the daily loss guard.
* **Failure.** Jobs, audit trail, positions and metrics vanish at a restart; connections and plans do not.
  Queries fail, handlers raise, answers are lost on their way to the page or to the script after the call
  took effect.
* **Arithmetic and input.** Weighted averages, reversals, rounding, a percentile, an hour window that wraps
  midnight, numbers that are not finite, payload keys in several spellings.

`PROJECT.json` lists each hazard at its line with the properties that cover it, or says which theorem covers
it or why nothing does.

## Modules

```
PaperFill ── PaperBook ── PaperLedger ── MCPaperLedger
    │            └───────────┬── ExecutionEngine ── MCExecutionEngine
    └── RiskPolicy ──────────┘          └ implements JobLifecycle
                                                         └ the server of Dashboard ── MCDashboard
ControlPlane ── SignalPipeline ── MCSignalPipeline
    └── MCControlPlane
SignalIntake ── MCSignalIntake          TradeStart ── MCTradeStart
Metrics ── HttpLayer ── MCHttpLayer     DcaSimulation ── MCDcaSimulation
OrderScript ── MCOrderScript

proofs, all over SetSums:
  PaperLedger ──── PaperLedgerProofs        SignalIntake ──────────────── SignalIntakeProofs
  ExecutionEngine ── ExecutionEngineProofs  TradeStart, DcaSimulation ─── PlanProofs
  SignalPipeline, Migrations ── ControlPlaneProofs
  HttpLayer, MetricsAccess ──── HttpLayerProofs
  OrderScript, Dashboard ────── ClientProofs
```

**PaperFill** is the arithmetic of one fill: the order quantity, the position a fill leaves behind and the
profit it realizes.  Quantities, prices and money are integers; a position stores its cost
(`avg_entry_price * quantity`) instead of the average, so a weighted average needs no division.  The floats
of the code are taken as exact, except where it rounds (`Round4`, with `Grain` money units to a rounding
step).  Symbols are compared modulo letter case everywhere in the code and are case-free here.  The key of a
position is one text, `owner::SYMBOL`, which does not tell owner `a` on `b::BTC` from owner `a::b` on `BTC`, or
nobody from an owner called `public`: the constant `KeyText` spells the keys and may give two pairs the same one.

**PaperBook** is `_paper_positions` with its three operations: a fill, marking to market, and a restart.
Owners whose names spell one key share the position there, and an order that reverses it takes it over.

**PaperLedger** runs the book beside its own history (which fills hit each key, what they realized, what
the quantity held between them gained) and states the book's properties against it.

**RiskPolicy** gives the reasons `evaluate_risk_policy` rejects a signal for.  `daily_loss_limit_pct` enters
as the amount it stands for; the trade start conditions enter as their verdict.

**ExecutionEngine** composes book and policy with the job list and the audit trail.  `Admit` is the webhook
from the matched plan on, with any of the plans' policies; since the match is awaited, any request may run
before it.  `Patch` contains the dispatch that `EXECUTION_AUTO_DISPATCH` adds to an approval.  Jobs are
numbered in the order of their insertion, so the newest-first list is a set of numbers.  Three history
variables (`fills`, `earned`, `forgot`) record what the properties speak of, and no action reads them.

**JobLifecycle** is the abstract specification of the above: one phase per job and the set of jobs whose
order reached the book.  `ExecutionEngine` implements it under the mapping at its end.

**ControlPlane** is the two database tables and the endpoints that write them.  A request is one
database session (`get_session`): what it has read and will write lies in `open[r]`, one action per awaited
query and one for the commit, so any other request runs in between.  PostgreSQL's default READ COMMITTED and
SQLAlchemy decide what a commit leaves: `autoflush=False` puts all writes into the commit, and an `UPDATE`
names only the columns whose value differs from the loaded one, so `Column` takes the others from the row as
it is by then.  `updated_at` is `now()`, the begin of the transaction, which is the number of the request.
Statements of one commit take row locks, which makes the commit one step: connections are written before
plans and the other requests write one row, so no two commits wait for each other.  A `null` status or name
in a `PATCH` violates `NOT NULL` and is an `Aborts`.  `DELETE` of a plan is the change `Deletion`.  The
history variables `openAt` and `unaware` name the requests that were open, or done, at a deletion.

**SignalIntake** is the head of the webhook: the secret, the `key=value` text and the JSON object a body may
be, the reading of a signal from the spellings of its keys, the owner of header and payload, and the inbox.
The signal enters the inbox before the plan match is awaited: a match that raises ends the delivery with 500 and
leaves the signal there (`matchRaises`).
A body is a list of pairs; a value is a text and how it was written: the parser of texts takes off the blanks
around it and the quotes inside those, in JSON the quotes are part of the text, and only JSON has `null`.

**SignalPipeline** is the rest of the webhook over the tables: `Receive` (up to the await), `Query` and
`QueryAny` (`match_plan_for_signal`), `Admit`, a failing query, and the restart that forgets inbox, running
handlers and jobs while the tables stay.  A match carries the plan's row as the query returned it, since that
is what the policy is read from afterwards.  `seen` and `steady` keep, for each running delivery, which rows
were runnable at some and at every moment since it came.  The first query of a signal without owner ranges
over all owners already; the second one can find a plan only if the tables changed in between.

**TradeStart** is the AND-chain over clauses of every kind: screeners, the proofs a payload carries by index,
by kind or in a list, and the technical kinds with the places their numbers are looked for in.  The actions
are the plan editor's, which adds and removes clauses while one alert keeps coming in.

**DcaSimulation** is the averaging ladder (`build_dca_preview`) and the walk of a price path over it
(`build_dca_simulation`), one action per tick.  A price unit is 0.00000001 and a unit of reported money 0.0001,
so the rounding of triggers, averages, take-profits, totals and profits that the code does is done by the model,
on coins of a few units where it shows.  A configuration's amounts, deviations and multipliers are fractions over
`Unit`; the k-th order's numbers are over a power of it (`scale`), since multipliers multiply.  Quantities are
exact fractions over the product of the prices paid; a trigger at or below zero is bought at one unit.  Profit is
taken from the rounded average and the rounded total, as `calc_pnl` does (`Profit`), and rounded again when
it is reported (`Reported`).  The summary of a finished or exhausted path is read off the state.

**Metrics** is the collector of `api/metrics.py`; a route's whole history of durations is kept beside it.
**HttpLayer** puts it under the middleware: a request arrives, its handler returns or raises, and what
returned is recorded on its way out, with other requests and scrapes in between.

**Dashboard** is the trading page: every click and tick starts a chain of awaited calls that are sent with the
owner key of that moment; chains overlap, their answers arrive in any order, calls are lost.  Its server is
`JobLifecycle`, which is what the engine has been shown to implement, so the two modules compose.  The table
a bulk dispatch walks is written as the jobs ranked from the newest down (`Queue`).

**OrderScript** is one process of the order script after another over the leverage and the orders at the
exchange.  Any call may fail before or after it took effect and be interrupted.  A person or another process
may set the symbol's leverage at any time, also between the script's own call and its order (`disturbed`).

**Migrations** is the three revisions, up and down, over the rows the API writes between them.
**MetricsAccess** is `require_metrics_access` as a function of the request and the settings.  Neither has a run;
their proofs are in `ControlPlaneProofs` and `HttpLayerProofs`.

**SetSums** has no model: it is the facts the proofs share on sums over finite sets (the community modules'
`MapThenSumSet`), on least and greatest numbers, and induction over `0..n`.

## Runs

| run | question | states |
|---|---|---|
| `paper_ledger` | is the book the sum of its fills, and is profit conserved? | 50,832 |
| `engine_lifecycle` | do jobs fill once and limits, tenants and evictions hold in every interleaving? | 347,740 |
| `engine_audit` | do trail, guard and lifecycle agree, with automatic dispatch, past the trail's cap, midnight and restarts? | 292,144 |
| `control_plane` | what do overlapping requests leave in the tables? | 115,619 |
| `signal_pipeline` | which plan judges a signal while plans change, and is every signal judged? | 324,953 |
| `signal_intake` | do the two formats of a body say the same, and whose signal is it? | 5,057 |
| `trade_start` | does a plan start only on evidence, also while it is edited? | 99,186 |
| `dca_simulation` | do fills, exits and profits of a simulated path fit its ladder? | 64,180 |
| `http_layer` | are the metrics those of the answered requests? | 2,177,933 |
| `order_script` | does the exit code tell the truth, and is the leverage the one asked for? | 14,468 |
| `dashboard` | is the bulk dispatch thorough and does the table converge? | 761,074 |
| `http_failures` | *violated*: does the 5xx class count every request answered with a 5xx? | |

Each property of a passing run has a mutant of the code in `PROJECT.json` that TLC refutes it with.

**Bounds.**  `MaxFills`, `MaxJobs`, `MaxDays`, `MaxSamples`, `MaxRequests`, `MaxSignals`, `MaxDeliveries`,
`MaxRuns`, `MaxTicks`, `MaxTasks` and `MaxTroubles` end the histories.  Three fills on one key reach every
outcome of a fill after every other one (open, add, reverse, close, close of nothing).  Two owners and "nobody"
are all the distinctions `owner_key in (None, owner)` can make; in the ledger the second owner's other symbol
spells the key of the first, in the engine's runs one owner is called `public`.  The caps 500, 2000 and 200 become
1 to 3, small enough for each run to fill them: the lifecycle run admits four jobs to a list of three, under
two policies because two plans may disagree; the audit run keeps three events, so that a fill falls off, and
two jobs.  Three requests in the control plane let a third one fall between the read and the commit of two
others; its tables start with a plan that runs and with one that is off, under paused and active connections of
two owners, one of whom may own nothing.  The pipeline takes two deliveries and two requests.  Two clauses of a
plan are enough for one to be taken for the other when positions shift.  The simulation checks 580
configurations of both directions over every path of up to four prices, two averaging orders each: enough for a
price that jumps over both, a path that comes back, triggers below zero and a stop between two orders.  Their
amounts and multipliers are halves, among them the default `deviation_multiplier` of 1.5, so that totals and
profits are rounded too.  The intake reads every delivery into an empty inbox (`MCSpec`), and of the three that
follow only what order and number are about: an inbox of two overflows, with refusals and failing matches in
between.  Four requests overlap in the HTTP layer, over a window of three samples.  The page has two jobs, two
chains at once, and one trouble (a lost call, a change of the owner key, or a step of another client): an
answer can be overtaken, a bulk dispatch can lose one of its calls.  Three runs of the script follow each
other.

**Deadlock** is checked where something is always possible (a restart, an edit, a click).  It is not where the
bound or the program ends everything: the control plane and the HTTP layer after `MaxRequests` requests, the
intake after `MaxDeliveries`, and the simulation, which returns.

**Fairness.**  Most steps are requests somebody may make, or midnight, and bound to happen only in two runs.
`FairPipelineSpec` assumes, for each delivery, weak fairness of its next step: the event loop resumes a
coroutine whose query was answered, and the driver answers or raises.  Requests of the control plane are under
no fairness; `EverySignalIsDecided` says that they cannot keep a delivery from its end.  `Dashboard` assumes
weak fairness of the server's handling of each call and of the arrival of its answer, and strong fairness of
the timer: `setInterval` fires whatever else runs, and only the model's bound on chains can be in its way.
`Converges` supposes that auto refresh stays on and was started; clicks, other clients and failures are
under no fairness, and may go on for ever as far as the bounds let them.

**Finding.**  `http_failures`: a handler that raises leaves `request_id_middleware` at `call_next`, before
`_metrics.record`, and is answered with 500 outside it, so no counter sees it, against the exported text
"Requests by status class" with its class `5xx`.  `CountersAreTheAnswered` shows what the counters do count.

One more thing the properties had to allow for: `record` reads `min_ms == 0` as "no minimum yet", so a request
of less than a millisecond is forgotten at the next one.  `ExtremesOfTheHistory` therefore speaks of the
minimum of routes that never took 0 ms only.  `signal_pipeline` has `NoBetterPlanPassedOver` speak of plans
that were there all the time, because a match is awaited and a plan may go while it is.

## Proofs

The proof modules prove, for every value of the constants that satisfies the named assumptions
(`FillConstants`, `LedgerConstants`, `EngineConstants`, `ControlConstants`, `PipelineConstants`,
`SignalIntakeConstants`, `TradeStartConstants`, `DcaConstants`, `MetricsConstants`, `HttpConstants`,
`OrderScriptConstants`, `DashboardConstants`; TLC evaluates them in the runs), every safety property the passing
runs check:

* **Paper book** (`PaperLedgerProofs`): `LedgerTypeCorrect`, `ProfitIsConserved`, `PositionsUnderTheirKeys`,
  `BookIsOfItsFills`, `MarksAreTheirPositions`.  Conservation is inductive with type correctness: the lemma
  `FillConserves` says that what a fill realizes plus what it leaves is worth at its price what was held
  before, `WorthMoves` how the worth of a position moves with the price.  That a position is its trailing run
  of fills is not inductive for the book alone, since an unpriced fill or a mark of a closed position would
  break it later: `BookInv` adds that logged fills have prices and that a mark was made on a fill of the run.
  `FillMatches` is its one hard step: what a longer log adds up to after an add, a reversal, a close.  All of
  it holds for any `KeyText`; `PositionsUnderTheirKeys` says that the position's own owner and symbol spell its
  key, not that only they do.
* **Execution engine** (`ExecutionEngineProofs`): `EngineTypeCorrect`, `FillsAtMostOnce`, `LimitsHold`,
  `LifecycleImplemented`, `OldestIsEvicted`, `TenantsAreApart`, `TrailExplainsStatus`, `TrailIsAPath`,
  `HoursAreTheArc`, `NothingIsRevived`, `GuardSeesToday`, `NothingPastTheLossLimit`.  The lemma `StepEffect`
  reduces the seven handlers to four effects on the job list (a job is admitted, moved along a legal
  transition, settled, or jobs are removed), and most theorems are arguments over those four.
  `FilledAtMostOnce` is not inductive by itself, since a number not yet used could carry a fill: `FillInv` adds
  that unborn jobs have none.  The limits hold by cardinality: only an admission adds an active job, and only
  when the count is below the limit.  The refinement maps each effect to a step of `JobLifecycle` or a
  stutter.  An eviction takes the oldest because the list holds at most `JobsCap` jobs (`WithinCap`).  Tenants
  are apart because a position lies under a key its own owner and symbol spell (`KeyInv`): another owner's
  order reaches it only where that owner's name spells the key too, which is the one exception
  `OnlyTheCallersTouched` makes.  The trail's two properties speak of the events that are left of a job;
  `Honest` (of `AuditInv`) says that the newest event kept carries the status, that neighbours are legal
  transitions, that a creation is the oldest event kept of its job, and that no event is of a job still to
  come; it survives an event at the front and a cut at the back.  The guard adds up rounded amounts of a
  filtered trail: `GuardInv` says that no event is of a day to come and that, while none of today's was lost,
  the sum differs from what the book earned by at most half a grain for each fill.  The sum is followed through
  an event at the front (its positions shift by one, `SumRename`), a cut, a purge and midnight.
* **Control plane and pipeline** (`ControlPlaneProofs`): `ControlTypeCorrect`, `NothingForgotten`,
  `DeletionIsFinalThen`, `OnlyOwnersWrite`, `UpdatesAreKept`, for any number of rows and of overlapping
  requests.  `NoForgottenPlan` speaks of deletions that have committed; `Inv` adds what an open request relies
  on (`Sound`), for a deletion that has listed its plans: those of the connection that are live and not loaded
  were written after the listing.  Every step leaves a plan as it is or marks it with the number of a request
  that had not ended (`ActsAs`), which is why no other request can disturb it (`OthersStaySound`).  Finality
  and ownership rest on `Entitled`: a request that is past its checks is its row's owner's, and one that read a
  row before the row's deletion is among those that were open at it.  With deliveries among these requests:
  `PipelineTypeCorrect`, `RestartsForgetNoPlan` (`NoForgottenPlan` with deliveries and restarts among the
  requests; a `PATCH` that marks a connection deleted leaves its plans live and is not in question),
  `OwnPlansJudge`, `RunnablePlansJudge`, `BestPlanJudges`.  `PipelineInv` says of a delivery (`HookSound`) that
  its match is one of the rows seen runnable since it came and serves its signal, and that after a query no row
  that was there all the while ranks above it.  The second query needs the most: the first one has found
  nothing, and what was there all the while was there then.
* **Intake** (`SignalIntakeProofs`): `IntakeTypeCorrect`, `InboxIsTheNewest`, `HeadersOwnTheirSignals`,
  `TextsAreObjects`, `UselessHidesNothing`.  Only the inbox has an invariant to speak of; the others are
  theorems about how one body is read, for bodies of any length.  `TextsAreObjects` compares two dictionaries
  built from the same pairs, in which the last of repeated keys wins.  `UselessHidesNothing` compares a body
  with the one that lacks the useless pair: no spelling the code asks for is found elsewhere because of it.
* **Plans** (`PlanProofs`): `PlansTypeCorrect`, `SilenceRejects`, `LosingClausesStarts`,
  `ContradictionsNeverStart` for any clauses and alerts; `SimulationTypeCorrect`, `FillsAreTheReached`,
  `ClosesAreRight`, `EveryOrderPays`, `ProfitIsOfTheOrders` for any configuration, path and number of orders.
  `LadderInv` says that the ladder is the preview of the first price and which of its steps are filled.  The
  loop fills orders while the next trigger is reached and never looks back; that this fills all that were
  reached takes that triggers and averages lie one beyond the other (`TriggersDescend`, `AveragesDescend`), and
  those that rounding keeps an order (`RoundingKeepsOrder`), also where a trigger is lifted to one unit.  The
  numbers of two steps have different denominators (`ScalesAgree`), and comparing them takes `NextTrigger`.
  Exits are right because rounding keeps the sign (`RoundingKeepsSign`); the bound of `ProfitIsNear` is the sum
  of three halves of a unit: of the average, of the total and of the profit.
* **HTTP metrics and access** (`HttpLayerProofs`): `MetricsTypeCorrect`, `CountersAreExact`,
  `ExtremesAreOfEverything`, `TotalsOnlyGrow`, `P95IsOfTheTail`.  Of the four effects of a step on the requests
  only an answer records anything, and it adds its request to exactly the sets whose sizes the counters are, so
  the totals of a scrape add up counters that only grow.  The percentile is a place in the sorted window; the
  proof counts the durations beyond it instead of sorting.  Access: a malformed entry of the allowlist changes
  nothing but an allowlist of malformed entries admits everybody, further networks only admit more, and the
  combined modes are what their names say.
* **Clients** (`ClientProofs`).  The order script: `ScriptTypeCorrect`, `ZeroTellsTheTruth`,
  `OrdersAtTheirLeverage`, `NoRunOrdersTwice`, `DryRunsAreDry`; `Inv` says which orders a run can have left at
  each of its stages, and that a run at the order call with a leverage finds the symbol at it unless others set
  it since.  That is a fact about the moment the order is sent: later runs and others may change the leverage
  of an open position.  The page: `PageTypeCorrect` and `BulkDispatchIsThorough`, for any jobs, owners and
  chains at once.  `PageInv` gives every job a chain has taken one of four excuses (`Owed`): its attempt is
  still to come, is on its way, has moved it, or was lost or sent for another owner.  It takes that the table a
  dispatch starts from lists submitted jobs only and that the queue has each of its pending jobs
  (`QueueIsAll`).
* **Migrations** (in `ControlPlaneProofs`, assuming that `None` is no status and no row): rows always fit the
  columns of their revision, an upgrade is never refused, and what was deleted stays stopped through downgrades.

Sums, sizes and sequences of any length need induction, and the library's induction theorems take a predicate
none of the provers can instantiate.  `SetSums` goes around it with sets: a set of counterexamples that is not
empty has a smallest one (`SmallestSubset`, from the well-foundedness of the subset ordering) or a least number
(`LeastNumber`), and `Upwards` states induction over `0..n` for a set.  A sum is the community modules'
iteration that takes out elements as `CHOOSE` picks them; it is shown to exist, to be unique and not to
depend on the order (`SumRemove`), and everything else about sums follows.

Only model-checked are the two liveness properties, `EverySignalIsDecided` and `Converges`, whose fairness
needs `ENABLED`, and the finding of `http_failures`.

## Abstractions

* Notes, timestamps (other than the day), venues, take-profit and stop-loss values are stored and decide
  nothing; they are not in the model.
* An owner key that is the empty string is like no owner to the position key only; header parsing strips and
  refuses it everywhere but in the webhook, and owners are non-empty in the engine and the pipeline.
* The branch of dispatch for other adapters cannot be reached: `build_execution_job` always picks `paper`.
* Numbers are finite.  `_payload_number` is `float()`, which reads `nan` and `inf` too, and large finite numbers
  overflow to `inf`.  A fill at such a price makes `realized_pnl` `nan`, and `nan <= -limit` is false for the rest
  of the day: what the loss guard properties say holds for days without such a price only.  The intake does
  know `inf`, at which `int()` raises.
* Columns nothing else reads (labels, credential references, `extra`, `plan_version`) are not in the rows; a
  `PATCH` of those alone changes `updated_at` only and is left out.
* A plan's `config_json` is its trading pair; its policy is the engine's `Policies`, so `SignalPipeline` keeps
  the matched row and `ExecutionEngine` what the policy in it does.
* The intake reads texts and `null`; other JSON values (numbers, lists, objects as values) are left out.
* The `timeframe` of a technical clause is not looked at by the code, and not by the model.
* Dates, networks and numbers are parsed by libraries; the model says which texts are none.
* Of the page's five tables only the jobs are kept; the loads of the others can fail and take time.
* The exchange is modelled from how the script and `binance_usdm_testnet_exchange` use it.

## Not modelled

* Read-only endpoints: what they compute that decides something (the guard, a snapshot, a page of the list) is
  an operator.  Paging is a slice by offset and limit and promises nothing across changes between two pages.
* Error bodies, log lines, the two renderings of a metrics snapshot, markup and styles: formatting.
* The page's forms, plan editor fields, stored snapshots, simulation view, alert sounds and rendering: they
  hold no state others read.  That toggling a plan sends the opposite of what a stale table showed is the
  page's intent; the server's half is `NoLostUpdate`.
* The engine, the pool and alembic's environment: set up by libraries.
* `api_smoke.py`, `db_seed_demo.py`, `pg_ping.py`, `smoke_usdm_testnet.py`: straight-line sequences of requests
  or inserts that print what came back.

## What is left

The seams that remain are between `SignalIntake`, `SignalPipeline` and `ExecutionEngine`, which meet at a
normalised signal and at a matched row and are checked on their own; a composition of the three would outgrow
TLC with the bounds above.  As every safety property of the runs is proved on its own, the composition is now a
matter of the proofs: an engine whose `Admit` takes the policy of a matched row.
