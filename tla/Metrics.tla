------------------------------ MODULE Metrics ------------------------------
(***************************************************************************)
(* pinebitz/api/metrics.py: the latency metrics the HTTP middleware feeds, *)
(* one record per "METHOD /path" route and a window of its last durations. *)
(* record and snapshot hold one lock, so each is one step; a snapshot      *)
(* reads the state and is given here as operators of it.                   *)
(***************************************************************************)
EXTENDS Integers, Sequences, FiniteSetsExt

CONSTANTS
  Routes,      \* the route keys
  Durations,   \* the durations requests take, in whole milliseconds
  Codes,       \* the status codes of responses
  WindowSize,  \* latency_window_size, 200
  MaxSamples   \* bound: requests per route

ASSUME MetricsConstants ==
  /\ IsFiniteSet(Routes)
  /\ Durations \subseteq Nat
  /\ Codes \subseteq 100..599
  /\ WindowSize \in Nat \ {0}
  /\ MaxSamples \in Nat

VARIABLES
  routes,   \* _routes: a RouteMetric per route
  window,   \* _latencies: its deque, oldest first
  seen      \* history: every duration recorded for the route, oldest first

vars == <<routes, window, seen>>

RouteMetric == [count : Nat, total_ms : Nat, min_ms : Nat, max_ms : Nat,
                status_2xx : Nat, status_4xx : Nat, status_5xx : Nat]

\* The counters are naturals and the window never outgrows its maxlen.
TypeOK ==
  /\ routes \in [Routes -> RouteMetric]
  /\ window \in [Routes -> Seq(Durations)]
  /\ \A r \in Routes : Len(window[r]) <= WindowSize
  /\ seen \in [Routes -> Seq(Durations)]

NoMetric == [count |-> 0, total_ms |-> 0, min_ms |-> 0, max_ms |-> 0,
             status_2xx |-> 0, status_4xx |-> 0, status_5xx |-> 0]

\* The defaultdicts hold a fresh RouteMetric and an empty deque for a new route.
Init ==
  /\ routes = [r \in Routes |-> NoMetric]
  /\ window = [r \in Routes |-> <<>>]
  /\ seen = [r \in Routes |-> <<>>]

\* Mutant: the first duration.
MinFirst(m, d) == IF m.min_ms = 0 THEN d ELSE m.min_ms
\* 0 stands for "no minimum yet".
MinAfter(m, d) == IF m.min_ms = 0 \/ d < m.min_ms THEN d ELSE m.min_ms
MaxAfter(m, d) == IF d > m.max_ms THEN d ELSE m.max_ms
InClass(code, low) == IF low <= code /\ code <= low + 99 THEN 1 ELSE 0

Counted(m, d, code) ==
  [count |-> m.count + 1, total_ms |-> m.total_ms + d,
   min_ms |-> MinAfter(m, d), max_ms |-> MaxAfter(m, d),
   status_2xx |-> m.status_2xx + InClass(code, 200),
   status_4xx |-> m.status_4xx + InClass(code, 400),
   status_5xx |-> m.status_5xx + InClass(code, 500)]

\* deque.append with a maxlen: the oldest goes.
Push(w, d) == IF Len(w) < WindowSize THEN Append(w, d) ELSE Append(Tail(w), d)

\* record, called by request_id_middleware once the response is there.
Observe(r, d, code) ==
  /\ Len(seen[r]) < MaxSamples
  /\ routes' = [routes EXCEPT ![r] = Counted(@, d, code)]
  /\ window' = [window EXCEPT ![r] = Push(@, d)]
  /\ seen' = [seen EXCEPT ![r] = Append(@, d)]

-----------------------------------------------------------------------------
\* _p95: sorted(w)[int((n - 1) * 0.95)], the value with at most that many entries
\* below it; of the float product the integer is the exact one's for every window of up
\* to 200. Mutant: nothing is sorted.
Sorted(w, at) ==
  CHOOSE v \in {w[i] : i \in DOMAIN w} :
    /\ Cardinality({i \in DOMAIN w : w[i] < v}) <= at
    /\ Cardinality({i \in DOMAIN w : w[i] <= v}) > at
P95Unsorted(w) == IF w = <<>> THEN 0 ELSE w[((Len(w) - 1) * 95) \div 100 + 1]
P95(w) == IF w = <<>> THEN 0 ELSE Sorted(w, ((Len(w) - 1) * 95) \div 100)

Values(s) == {s[i] : i \in DOMAIN s}

\* The last WindowSize of a route's durations
Recent(r) == {i \in DOMAIN seen[r] : i > Len(seen[r]) - WindowSize}

\* The 95th percentile shown is one of the route's last WindowSize durations, of
\* which none is forgotten and no older one kept: at most a twentieth of the
\* others, rounded up, took longer (record, _p95).
P95BoundsTheTail ==
  \A r \in Routes : seen[r] # <<>> =>
    LET p95 == P95(window[r])
        slower == Cardinality({i \in Recent(r) : seen[r][i] > p95})
    IN  /\ \E i \in Recent(r) : seen[r][i] = p95
        /\ 20 * slower <= (Cardinality(Recent(r)) - 1) + 19

\* max_ms is the longest duration ever recorded, also when it left the window, and
\* min_ms the shortest, as long as none was 0: a duration of 0 is taken for "no
\* minimum yet" and forgotten at the next request (record).
ExtremesOfTheHistory ==
  \A r \in Routes : seen[r] # <<>> =>
    LET all == Values(seen[r])
    IN  /\ routes[r].max_ms \in all /\ \A d \in all : d <= routes[r].max_ms
        /\ 0 \notin all =>
             routes[r].min_ms \in all /\ \A d \in all : routes[r].min_ms <= d
=============================================================================
