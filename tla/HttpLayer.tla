------------------------------ MODULE HttpLayer ------------------------------
(***************************************************************************)
(* request_id_middleware of pinebitz/api/app.py around the handlers: a     *)
(* request comes in, its handler returns a response or raises, and the     *)
(* response is recorded on its way out.  Other requests run in between,    *)
(* those for the metrics among them.                                       *)
(***************************************************************************)
EXTENDS Metrics

CONSTANTS
  None,
  ScrapeRoutes,   \* GET /metrics and GET /metrics/prometheus
  Unhandled,      \* 500, which unhandled_exception_handler answers
  MaxRequests     \* bound: requests

VARIABLES
  reqs,      \* reqs[n]: request n
  nextReq,   \* the number of the next request
  shown      \* history: the greatest total a scrape has been answered with

httpVars == <<reqs, nextReq, shown>>

Requests == 1..MaxRequests
\* least is `shown` when the request came, page the total a scrape read.
Request == [route : Routes, stage : {"running", "returned", "answered", "raised"},
            code : Codes \cup {None}, least : Nat, page : Nat \cup {None}]

ASSUME HttpConstants ==
  /\ ScrapeRoutes \subseteq Routes
  /\ Unhandled \in Codes
  /\ MaxRequests \in Nat

\* Requests in their stages, numbered in the order in which they came.
HttpTypeOK ==
  /\ TypeOK
  /\ nextReq \in 1..(MaxRequests + 1)
  /\ \A n \in Requests : IF n < nextReq THEN reqs[n] \in Request ELSE reqs[n] = None
  /\ shown \in Nat

\* total_requests of a snapshot
Total == MapThenSumSet(LAMBDA r : routes[r].count, Routes)

HttpInit ==
  /\ Init
  /\ reqs = [n \in Requests |-> None]
  /\ nextReq = 1
  /\ shown = 0

\* The head of request_id_middleware, up to call_next.
Arrive(r) ==
  /\ nextReq <= MaxRequests
  /\ reqs' = [reqs EXCEPT ![nextReq] =
                [route |-> r, stage |-> "running", code |-> None, least |-> shown, page |-> None]]
  /\ nextReq' = nextReq + 1
  /\ UNCHANGED <<vars, shown>>

\* The handler, or the exception handlers of the HTTPException and the validation
\* error it raised; that of a scrape takes the snapshot.
\* (Mutant: taking the snapshot clears the counters.)
ReturnClearing(n, code) ==
  /\ reqs[n].stage = "running"
  /\ reqs' = [reqs EXCEPT ![n].stage = "returned", ![n].code = code,
                ![n].page = IF reqs[n].route \in ScrapeRoutes THEN Total ELSE None]
  /\ routes' = IF reqs[n].route \in ScrapeRoutes THEN [r \in Routes |-> NoMetric] ELSE routes
  /\ UNCHANGED <<window, seen, nextReq, shown>>
Return(n, code) ==
  /\ reqs[n].stage = "running"
  /\ reqs' = [reqs EXCEPT ![n].stage = "returned", ![n].code = code,
                ![n].page = IF reqs[n].route \in ScrapeRoutes /\ code = 200 THEN Total ELSE None]
  /\ UNCHANGED <<vars, nextReq, shown>>

\* Back in the middleware: the headers, the log, the record, the answer.
\* (Mutant: what is recorded is whether the handler returned.)
AnswerOk(n, d) ==
  /\ reqs[n].stage = "returned"
  /\ Observe(reqs[n].route, d, 200)
  /\ reqs' = [reqs EXCEPT ![n].stage = "answered"]
  /\ shown' = IF reqs[n].page # None /\ reqs[n].page > shown THEN reqs[n].page ELSE shown
  /\ UNCHANGED nextReq
Answer(n, d) ==
  /\ reqs[n].stage = "returned"
  /\ Observe(reqs[n].route, d, reqs[n].code)
  /\ reqs' = [reqs EXCEPT ![n].stage = "answered"]
  /\ shown' = IF reqs[n].page # None /\ reqs[n].page > shown THEN reqs[n].page ELSE shown
  /\ UNCHANGED nextReq

\* Any other exception passes through the middleware and is answered outside it.
Raise(n) ==
  /\ reqs[n].stage = "running"
  /\ reqs' = [reqs EXCEPT ![n].stage = "raised", ![n].code = Unhandled]
  /\ UNCHANGED <<vars, nextReq, shown>>

HttpNext ==
  \/ \E r \in Routes : Arrive(r)
  \/ \E n \in 1..(nextReq - 1) :
       \/ \E code \in Codes : Return(n, code)
       \/ \E d \in Durations : Answer(n, d)
       \/ Raise(n)

HttpSpec == HttpInit /\ [][HttpNext]_<<vars, httpVars>>

-----------------------------------------------------------------------------
Of(r, stages) == {n \in 1..(nextReq - 1) : reqs[n].route = r /\ reqs[n].stage \in stages}
InClassOf(set, low) == Cardinality({n \in set : InClass(reqs[n].code, low) = 1})

\* However requests overlap, a route's counters are those of the requests for it
\* that were answered through the middleware, each in the class of its status and
\* none before it is answered: one that is still running, a scrape that reads
\* them, and one that raised are in no counter.
CountersAreTheAnswered ==
  \A r \in Routes :
    LET answered == Of(r, {"answered"})
    IN  /\ routes[r].count = Cardinality(answered)
        /\ routes[r].status_2xx = InClassOf(answered, 200)
        /\ routes[r].status_4xx = InClassOf(answered, 400)
        /\ routes[r].status_5xx = InClassOf(answered, 500)

\* A scrape never shows less than one that was answered before it came, so that
\* the totals are the counters the exported text declares (snapshot).
TotalsNeverFall ==
  \A n \in 1..(nextReq - 1) : reqs[n].page # None => reqs[n].page >= reqs[n].least

\* Not so: "Requests by status class" counts every request answered with a 5xx.
FailuresAreCounted ==
  \A r \in Routes :
    routes[r].status_5xx = InClassOf(Of(r, {"answered", "raised"}), 500)
=============================================================================
