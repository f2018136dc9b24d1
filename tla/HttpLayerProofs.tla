-------------------------- MODULE HttpLayerProofs --------------------------
(***************************************************************************)
(* The HTTP metrics, for any routes, window and number of requests: the    *)
(* counters are those of the answered requests, the extremes those of      *)
(* every duration recorded, the totals of later scrapes no smaller, and    *)
(* the percentile that of the last requests.  Then who is shown them.      *)
(***************************************************************************)
EXTENDS HttpLayer, SetSums, SequenceTheorems

CONSTANTS Malformed, Hosts, Localhosts   \* those of MetricsAccess

Stages == {"running", "returned", "answered", "raised"}

\* A request without the totals it read.
Shaped(q) ==
  /\ q = [route |-> q.route, stage |-> q.stage, code |-> q.code, least |-> q.least,
          page |-> q.page]
  /\ q.route \in Routes /\ q.stage \in Stages /\ q.code \in Codes \cup {None}
  /\ q.stage \in {"returned", "answered"} => q.code \in Codes

TypeInv ==
  /\ TypeOK
  /\ nextReq \in 1..(MaxRequests + 1)
  /\ DOMAIN reqs = Requests
  /\ reqs = [n \in Requests |-> reqs[n]]
  /\ \A n \in 1..(nextReq - 1) : Shaped(reqs[n])
  /\ \A n \in Requests : n >= nextReq => reqs[n] = None

LEMMA Bounds ==
  /\ Durations \subseteq Nat /\ WindowSize \in Nat \ {0} /\ MaxRequests \in Nat
  /\ \A code \in Codes : code \in Nat
BY MetricsConstants, HttpConstants

LEMMA CameIsRequest ==
  ASSUME TypeInv, NEW n \in 1..(nextReq - 1)
  PROVE  n \in Requests /\ n \in Nat /\ Shaped(reqs[n])
<1>1. nextReq \in 1..(MaxRequests + 1) /\ MaxRequests \in Nat
  BY Bounds DEF TypeInv
<1>2. n \in 1..MaxRequests /\ n \in Nat
  BY <1>1
<1>3. Shaped(reqs[n])
  BY DEF TypeInv
<1> QED BY <1>2, <1>3 DEF Requests

\* A change of the stage keeps the shape, the route and the code of a request.
LEMMA Restaged ==
  ASSUME NEW q, Shaped(q), NEW stage \in Stages,
         stage \in {"returned", "answered"} => q.code \in Codes
  PROVE  LET new == [q EXCEPT !.stage = stage]
         IN  /\ Shaped(new)
             /\ new.route = q.route /\ new.stage = stage /\ new.code = q.code
             /\ new.least = q.least /\ new.page = q.page
<1>1. PICK route, s, c, least, p :
        q = [route |-> route, stage |-> s, code |-> c, least |-> least, page |-> p]
        /\ route = q.route /\ c = q.code /\ least = q.least /\ p = q.page
  BY DEF Shaped
<1>2. [q EXCEPT !.stage = stage]
        = [route |-> route, stage |-> stage, code |-> c, least |-> least, page |-> p]
  BY <1>1
<1> QED BY <1>1, <1>2 DEF Shaped

-----------------------------------------------------------------------------
\* The four effects of a step on the requests; only an answer records anything.
Arrived(r) ==
  /\ nextReq \in Requests /\ nextReq' = nextReq + 1
  /\ \A n \in Requests : n # nextReq => reqs'[n] = reqs[n]
  /\ Shaped(reqs'[nextReq])
  /\ reqs'[nextReq].stage = "running"
  /\ UNCHANGED vars

Changed(n, from, to) ==
  /\ n \in 1..(nextReq - 1) /\ nextReq' = nextReq
  /\ reqs[n].stage = from
  /\ \A m \in Requests : m # n => reqs'[m] = reqs[m]
  /\ Shaped(reqs'[n])
  /\ reqs'[n].route = reqs[n].route /\ reqs'[n].stage = to

LEMMA ArriveEffect ==
  ASSUME TypeInv, NEW r \in Routes, Arrive(r)
  PROVE  /\ Arrived(r) /\ DOMAIN reqs' = Requests /\ reqs' = [n \in Requests |-> reqs'[n]]
         /\ reqs'[nextReq].least = shown /\ reqs'[nextReq].page = None
<1>1. PICK q : q = [route |-> r, stage |-> "running", code |-> None, least |-> shown, page |-> None]
  OBVIOUS
<1>2. Shaped(q) /\ q.stage = "running" /\ q.least = shown /\ q.page = None
  BY <1>1 DEF Shaped, Stages
<1>3. nextReq \in Requests
  BY Bounds DEF Arrive, TypeInv, Requests
<1>4. reqs' = [reqs EXCEPT ![nextReq] = q] /\ nextReq' = nextReq + 1 /\ UNCHANGED vars
  BY <1>1 DEF Arrive
<1>5. /\ DOMAIN reqs' = Requests /\ reqs' = [n \in Requests |-> reqs'[n]]
      /\ reqs'[nextReq] = q
      /\ \A n \in Requests : n # nextReq => reqs'[n] = reqs[n]
  BY <1>3, <1>4 DEF TypeInv
<1> QED BY <1>2, <1>3, <1>4, <1>5 DEF Arrived

LEMMA ReturnEffect ==
  ASSUME TypeInv, NEW n \in 1..(nextReq - 1), NEW code \in Codes, Return(n, code)
  PROVE  /\ Changed(n, "running", "returned") /\ UNCHANGED vars
         /\ DOMAIN reqs' = Requests /\ reqs' = [m \in Requests |-> reqs'[m]]
         /\ reqs'[n].least = reqs[n].least /\ reqs'[n].page \in {Total, None}
<1>0. n \in Requests /\ Shaped(reqs[n])
  BY CameIsRequest
<1>1. PICK page : page = IF reqs[n].route \in ScrapeRoutes /\ code = 200 THEN Total ELSE None
  OBVIOUS
<1>2. PICK f : f = reqs /\ DOMAIN f = Requests /\ f = [m \in Requests |-> f[m]]
  BY DEF TypeInv
<1>3. PICK route, s, c, least, p :
        f[n] = [route |-> route, stage |-> s, code |-> c, least |-> least, page |-> p]
        /\ route = f[n].route /\ route \in Routes /\ least = f[n].least
  BY <1>0, <1>2 DEF Shaped
<1>4. PICK q1 : q1 = [route |-> route, stage |-> "returned", code |-> c, least |-> least, page |-> p]
  OBVIOUS
<1>5. PICK q2 : q2 = [route |-> route, stage |-> "returned", code |-> code, least |-> least, page |-> p]
  OBVIOUS
<1>6. PICK q : q = [route |-> route, stage |-> "returned", code |-> code, least |-> least, page |-> page]
  OBVIOUS
<1>7. /\ Shaped(q) /\ q.route = reqs[n].route /\ q.stage = "returned"
      /\ q.least = reqs[n].least /\ q.page = page
  BY <1>2, <1>3, <1>6 DEF Shaped, Stages
<1>8. reqs' = [reqs EXCEPT ![n] = q]
  <2>1. PICK f1 : f1 = [f EXCEPT ![n].stage = "returned"]
    OBVIOUS
  <2>2. PICK f2 : f2 = [f1 EXCEPT ![n].code = code]
    OBVIOUS
  <2>3. reqs' = [reqs EXCEPT ![n].stage = "returned", ![n].code = code, ![n].page = page]
    BY <1>1 DEF Return
  <2>4. reqs' = [f2 EXCEPT ![n].page = page]
    BY <1>2, <2>1, <2>2, <2>3, Zenon
  <2>5. f1 = [f EXCEPT ![n] = q1] /\ f1[n] = q1
    <3>1. [f[n] EXCEPT !.stage = "returned"] = q1
      BY <1>3, <1>4
    <3>2. f1 = [f EXCEPT ![n] = q1]
      BY <2>1, <3>1, Zenon
    <3> QED BY <1>0, <1>2, <3>2
  <2>6. f2 = [f EXCEPT ![n] = q2] /\ f2[n] = q2
    <3>1. [f1[n] EXCEPT !.code = code] = q2
      BY <1>4, <1>5, <2>5
    <3>2. f2 = [f1 EXCEPT ![n] = q2]
      BY <2>2, <3>1, Zenon
    <3> QED BY <1>0, <1>2, <2>5, <3>2
  <2>7. [f2 EXCEPT ![n].page = page] = [f EXCEPT ![n] = q]
    <3>1. [f2[n] EXCEPT !.page = page] = q
      BY <1>5, <1>6, <2>6
    <3>2. [f2 EXCEPT ![n].page = page] = [f2 EXCEPT ![n] = q]
      BY <3>1, Zenon
    <3> QED BY <1>0, <1>2, <2>6, <3>2
  <2> QED BY <1>2, <2>4, <2>7
<1>9. reqs[n].stage = "running" /\ UNCHANGED <<vars, nextReq>>
  BY DEF Return
<1>10. /\ DOMAIN reqs' = Requests /\ reqs' = [m \in Requests |-> reqs'[m]]
       /\ reqs'[n] = q /\ \A m \in Requests : m # n => reqs'[m] = reqs[m]
  BY <1>0, <1>8 DEF TypeInv
<1> QED BY <1>1, <1>7, <1>9, <1>10 DEF Changed

LEMMA RaiseEffect ==
  ASSUME TypeInv, NEW n \in 1..(nextReq - 1), Raise(n)
  PROVE  /\ Changed(n, "running", "raised") /\ UNCHANGED vars
         /\ DOMAIN reqs' = Requests /\ reqs' = [m \in Requests |-> reqs'[m]]
         /\ reqs'[n].least = reqs[n].least /\ reqs'[n].page = reqs[n].page
<1>0. n \in Requests /\ Shaped(reqs[n])
  BY CameIsRequest
<1>1. PICK page : page = reqs[n].page
  OBVIOUS
<1>2. PICK q : q = [reqs[n] EXCEPT !.stage = "raised", !.code = Unhandled]
  OBVIOUS
<1>3. /\ Shaped(q) /\ q.route = reqs[n].route /\ q.stage = "raised"
      /\ q.least = reqs[n].least /\ q.page = reqs[n].page
  BY <1>0, <1>2, HttpConstants DEF Shaped, Stages
<1>4. reqs' = [reqs EXCEPT ![n] = q]
  BY <1>0, <1>2 DEF Raise, TypeInv
<1>5. reqs[n].stage = "running" /\ UNCHANGED <<vars, nextReq>>
  BY DEF Raise
<1>6. /\ DOMAIN reqs' = Requests /\ reqs' = [m \in Requests |-> reqs'[m]]
      /\ reqs'[n] = q /\ \A m \in Requests : m # n => reqs'[m] = reqs[m]
  BY <1>0, <1>4 DEF TypeInv
<1> QED BY <1>3, <1>5, <1>6 DEF Changed

LEMMA AnswerEffect ==
  ASSUME TypeInv, NEW n \in 1..(nextReq - 1), NEW d \in Durations, Answer(n, d)
  PROVE  /\ Changed(n, "returned", "answered")
         /\ reqs'[n].code = reqs[n].code /\ reqs[n].code \in Codes
         /\ Observe(reqs[n].route, d, reqs[n].code)
         /\ DOMAIN reqs' = Requests /\ reqs' = [m \in Requests |-> reqs'[m]]
         /\ reqs'[n].least = reqs[n].least /\ reqs'[n].page = reqs[n].page
<1>0. n \in Requests /\ Shaped(reqs[n])
  BY CameIsRequest
<1>1. PICK q : q = [reqs[n] EXCEPT !.stage = "answered"]
  OBVIOUS
<1>2. reqs[n].stage = "returned" /\ reqs[n].code \in Codes
  BY <1>0 DEF Answer, Shaped
<1>3. /\ Shaped(q) /\ q.route = reqs[n].route /\ q.stage = "answered"
      /\ q.code = reqs[n].code /\ q.least = reqs[n].least /\ q.page = reqs[n].page
  BY <1>0, <1>1, <1>2, Restaged DEF Stages
<1>4. reqs' = [reqs EXCEPT ![n] = q]
  BY <1>0, <1>1 DEF Answer, TypeInv
<1>5. nextReq' = nextReq /\ Observe(reqs[n].route, d, reqs[n].code)
  BY DEF Answer
<1>6. /\ DOMAIN reqs' = Requests /\ reqs' = [m \in Requests |-> reqs'[m]]
      /\ reqs'[n] = q /\ \A m \in Requests : m # n => reqs'[m] = reqs[m]
  BY <1>0, <1>4 DEF TypeInv
<1> QED BY <1>2, <1>3, <1>5, <1>6 DEF Changed

-----------------------------------------------------------------------------
\* A step that records nothing, and one that records an answer.
Silent == UNCHANGED vars
Recorded(r, d, code) == /\ r \in Routes /\ d \in Durations /\ code \in Codes
                        /\ Observe(r, d, code)

LEMMA StepEffect ==
  ASSUME TypeInv, [HttpNext]_<<vars, httpVars>>
  PROVE  /\ \/ \E r \in Routes : Arrived(r)
            \/ \E n \in 1..(nextReq - 1), to \in {"returned", "raised"} :
                 Changed(n, "running", to) /\ Silent
            \/ \E n \in 1..(nextReq - 1), d \in Durations :
                 /\ Changed(n, "returned", "answered")
                 /\ reqs'[n].code = reqs[n].code
                 /\ Recorded(reqs[n].route, d, reqs[n].code)
            \/ Silent /\ reqs' = reqs /\ nextReq' = nextReq
         /\ DOMAIN reqs' = Requests /\ reqs' = [n \in Requests |-> reqs'[n]]
<1>1. ASSUME NEW r \in Routes, Arrive(r)
      PROVE  Arrived(r) /\ DOMAIN reqs' = Requests /\ reqs' = [n \in Requests |-> reqs'[n]]
  BY <1>1, ArriveEffect
<1>2. ASSUME NEW n \in 1..(nextReq - 1), NEW code \in Codes, Return(n, code)
      PROVE  /\ Changed(n, "running", "returned") /\ Silent
             /\ DOMAIN reqs' = Requests /\ reqs' = [m \in Requests |-> reqs'[m]]
  BY <1>2, ReturnEffect DEF Silent
<1>3. ASSUME NEW n \in 1..(nextReq - 1), NEW d \in Durations, Answer(n, d)
      PROVE  /\ Changed(n, "returned", "answered")
             /\ reqs'[n].code = reqs[n].code
             /\ Recorded(reqs[n].route, d, reqs[n].code)
             /\ DOMAIN reqs' = Requests /\ reqs' = [m \in Requests |-> reqs'[m]]
  <2>1. reqs[n].route \in Routes
    BY CameIsRequest DEF Shaped
  <2> QED BY <1>3, <2>1, AnswerEffect DEF Recorded
<1>4. ASSUME NEW n \in 1..(nextReq - 1), Raise(n)
      PROVE  /\ Changed(n, "running", "raised") /\ Silent
             /\ DOMAIN reqs' = Requests /\ reqs' = [m \in Requests |-> reqs'[m]]
  BY <1>4, RaiseEffect DEF Silent
<1>5. CASE UNCHANGED <<vars, httpVars>>
  <2>1. Silent /\ reqs' = reqs /\ nextReq' = nextReq
    BY <1>5 DEF Silent, httpVars
  <2> QED BY <2>1 DEF TypeInv
<1> QED BY <1>1, <1>2, <1>3, <1>4, <1>5 DEF HttpNext

LEMMA RequestsKeepShape ==
  ASSUME TypeInv, [HttpNext]_<<vars, httpVars>>
  PROVE  /\ nextReq' \in 1..(MaxRequests + 1)
         /\ DOMAIN reqs' = Requests /\ reqs' = [n \in Requests |-> reqs'[n]]
         /\ \A n \in 1..(nextReq' - 1) : Shaped(reqs'[n])
         /\ \A n \in Requests : n >= nextReq' => reqs'[n] = None
<1>0. /\ nextReq \in Nat /\ Requests \subseteq Nat
      /\ \A n \in 1..(nextReq - 1) : n \in Requests /\ n < nextReq /\ Shaped(reqs[n])
  <2>1. nextReq \in Nat /\ Requests \subseteq Nat
    BY Bounds DEF TypeInv, Requests
  <2>2. \A n \in 1..(nextReq - 1) : n < nextReq
    BY <2>1
  <2>3. \A n \in 1..(nextReq - 1) : n \in Requests /\ Shaped(reqs[n])
    BY CameIsRequest
  <2> QED BY <2>1, <2>2, <2>3
<1>1. ASSUME NEW r \in Routes, Arrived(r)
      PROVE  nextReq' \in 1..(MaxRequests + 1) /\ \A n \in 1..(nextReq' - 1) : Shaped(reqs'[n])
  <2>1. nextReq' \in 1..(MaxRequests + 1)
    BY <1>1, Bounds DEF Arrived, Requests
  <2>2. ASSUME NEW n \in 1..(nextReq' - 1) PROVE Shaped(reqs'[n])
    <3>1. n = nextReq \/ n \in 1..(nextReq - 1)
      BY <1>0, <1>1 DEF Arrived
    <3>2. CASE n \in 1..(nextReq - 1)
      <4>1. n # nextReq
        BY <1>0, <3>2
      <4>2. reqs'[n] = reqs[n]
        BY <1>0, <1>1, <3>2, <4>1 DEF Arrived
      <4> QED BY <1>0, <3>2, <4>2
    <3> QED BY <1>1, <3>1, <3>2 DEF Arrived
  <2> QED BY <2>1, <2>2
<1>2. ASSUME NEW n \in 1..(nextReq - 1), NEW from, NEW to, Changed(n, from, to)
      PROVE  nextReq' \in 1..(MaxRequests + 1) /\ \A m \in 1..(nextReq' - 1) : Shaped(reqs'[m])
  <2>1. nextReq' = nextReq
    BY <1>2 DEF Changed
  <2>2. ASSUME NEW m \in 1..(nextReq - 1) PROVE Shaped(reqs'[m])
    BY <1>0, <1>2 DEF Changed
  <2> QED BY <2>1, <2>2 DEF TypeInv
<1>3. CASE reqs' = reqs /\ nextReq' = nextReq
  BY <1>3 DEF TypeInv
<1>4. ASSUME NEW n \in Requests, n >= nextReq'
      PROVE  reqs'[n] = None
  <2>1. n \in Nat /\ (n >= nextReq => reqs[n] = None)
    BY <1>0 DEF TypeInv
  <2>2. ASSUME NEW r \in Routes, Arrived(r)
        PROVE  reqs'[n] = None
    BY <1>0, <1>4, <2>1, <2>2 DEF Arrived
  <2>3. ASSUME NEW m \in 1..(nextReq - 1), NEW from, NEW to, Changed(m, from, to)
        PROVE  reqs'[n] = None
    <3>1. n >= nextReq /\ n # m
      BY <1>0, <1>4, <2>1, <2>3 DEF Changed
    <3> QED BY <2>1, <2>3, <3>1 DEF Changed
  <2>4. CASE reqs' = reqs /\ nextReq' = nextReq
    BY <1>4, <2>1, <2>4
  <2> QED BY <2>2, <2>3, <2>4, StepEffect
<1> QED BY <1>1, <1>2, <1>3, <1>4, StepEffect

LEMMA CountedType ==
  ASSUME NEW m \in RouteMetric, NEW d \in Nat, NEW code \in Nat
  PROVE  Counted(m, d, code) \in RouteMetric
<1>1. MinAfter(m, d) \in Nat /\ MaxAfter(m, d) \in Nat
  BY DEF MinAfter, MaxAfter, RouteMetric
<1>2. \A low \in {200, 400, 500} : InClass(code, low) \in Nat
  BY DEF InClass
<1>3. /\ m.count + 1 \in Nat /\ m.total_ms + d \in Nat
      /\ m.status_2xx + InClass(code, 200) \in Nat
      /\ m.status_4xx + InClass(code, 400) \in Nat
      /\ m.status_5xx + InClass(code, 500) \in Nat
  BY <1>2 DEF RouteMetric
<1> QED BY <1>1, <1>3 DEF Counted, RouteMetric

LEMMA PushType ==
  ASSUME NEW w \in Seq(Durations), Len(w) <= WindowSize, NEW d \in Durations
  PROVE  Push(w, d) \in Seq(Durations) /\ Len(Push(w, d)) <= WindowSize
<1>1. CASE Len(w) < WindowSize
  <2>1. Append(w, d) \in Seq(Durations) /\ Len(Append(w, d)) = Len(w) + 1 /\ Len(w) \in Nat
    OBVIOUS
  <2> QED BY <1>1, <2>1, Bounds DEF Push
<1>2. CASE ~(Len(w) < WindowSize)
  <2>1. Len(w) \in Nat /\ w # <<>>
    BY <1>2, Bounds
  <2>2. Tail(w) \in Seq(Durations) /\ Len(Tail(w)) = Len(w) - 1
    BY <2>1
  <2>3. Append(Tail(w), d) \in Seq(Durations) /\ Len(Append(Tail(w), d)) = Len(w)
    BY <2>1, <2>2
  <2> QED BY <1>2, <2>3 DEF Push
<1> QED BY <1>1, <1>2

LEMMA RecordKeepsTypes ==
  ASSUME TypeOK, NEW r, NEW d, NEW code, Recorded(r, d, code)
  PROVE  TypeOK'
<1>1. Counted(routes[r], d, code) \in RouteMetric
  BY CountedType, Bounds DEF Recorded, TypeOK
<1>2. Push(window[r], d) \in Seq(Durations) /\ Len(Push(window[r], d)) <= WindowSize
  BY PushType DEF Recorded, TypeOK
<1>3. Append(seen[r], d) \in Seq(Durations)
  BY DEF Recorded, TypeOK
<1>4. routes' \in [Routes -> RouteMetric]
  BY <1>1 DEF Recorded, Observe, TypeOK
<1>5. window' \in [Routes -> Seq(Durations)] /\ \A q \in Routes : Len(window'[q]) <= WindowSize
  BY <1>2 DEF Recorded, Observe, TypeOK
<1>6. seen' \in [Routes -> Seq(Durations)]
  BY <1>3 DEF Recorded, Observe, TypeOK
<1> QED BY <1>4, <1>5, <1>6 DEF TypeOK

LEMMA TypeStep ==
  ASSUME TypeInv, [HttpNext]_<<vars, httpVars>> PROVE TypeInv'
<1>1. TypeOK'
  <2>1. CASE Silent
    BY <2>1 DEF Silent, vars, TypeInv, TypeOK
  <2>2. ASSUME NEW r, NEW d, NEW code, Recorded(r, d, code) PROVE TypeOK'
    BY <2>2, RecordKeepsTypes DEF TypeInv
  <2> QED BY <2>1, <2>2, StepEffect DEF Arrived, Silent
<1> QED BY <1>1, RequestsKeepShape DEF TypeInv

LEMMA TypeInvariant == HttpSpec => []TypeInv
<1>1. HttpInit => TypeInv
  <2> SUFFICES ASSUME HttpInit PROVE TypeInv
    OBVIOUS
  <2>1. NoMetric \in RouteMetric
    BY DEF NoMetric, RouteMetric
  <2>2. TypeOK
    BY <2>1, Bounds DEF HttpInit, Init, TypeOK
  <2> QED BY <2>2, Bounds DEF HttpInit, TypeInv
<1>2. TypeInv /\ [HttpNext]_<<vars, httpVars>> => TypeInv'
  BY TypeStep
<1> QED BY <1>1, <1>2, PTL DEF HttpSpec

-----------------------------------------------------------------------------
(***************************************************************************)
(* The extremes.  While a route has no duration its record is the fresh    *)
(* one; from then on the greatest and, without a 0, the least are kept.    *)
(***************************************************************************)
Extremes(r) ==
  /\ seen[r] = <<>> => routes[r].max_ms = 0 /\ routes[r].min_ms = 0
  /\ seen[r] # <<>> =>
       LET all == Values(seen[r])
       IN  /\ routes[r].max_ms \in all /\ \A d \in all : d <= routes[r].max_ms
           /\ 0 \notin all =>
                routes[r].min_ms \in all /\ \A d \in all : routes[r].min_ms <= d

LEMMA ValuesOfAppend ==
  ASSUME NEW S, NEW s \in Seq(S), NEW d \in S
  PROVE  Values(Append(s, d)) = Values(s) \cup {d} /\ Append(s, d) # <<>>
<1>1. PICK t : t = Append(s, d)
  OBVIOUS
<1>2. /\ Len(t) = Len(s) + 1 /\ Len(s) \in Nat /\ t \in Seq(S)
      /\ DOMAIN s = 1..Len(s) /\ DOMAIN t = 1..Len(t)
      /\ t[Len(s) + 1] = d
      /\ \A i \in 1..Len(s) : t[i] = s[i]
  BY <1>1
<1>3. \A v \in Values(t) : v \in Values(s) \cup {d}
  <2>1. SUFFICES ASSUME NEW i \in 1..(Len(s) + 1) PROVE t[i] \in Values(s) \cup {d}
    BY <1>2 DEF Values
  <2>2. i = Len(s) + 1 \/ i \in 1..Len(s)
    BY <1>2
  <2> QED BY <1>2, <2>2 DEF Values
<1>4. \A v \in Values(s) : v \in Values(t)
  <2>1. SUFFICES ASSUME NEW i \in 1..Len(s) PROVE s[i] \in Values(t)
    BY <1>2 DEF Values
  <2>2. i \in 1..(Len(s) + 1)
    BY <1>2
  <2> QED BY <1>2, <2>2 DEF Values
<1>5. d \in Values(t)
  <2>1. Len(s) + 1 \in 1..(Len(s) + 1)
    BY <1>2
  <2> QED BY <1>2, <2>1 DEF Values
<1>6. Values(t) = Values(s) \cup {d}
  BY <1>3, <1>4, <1>5
<1>7. t # <<>>
  BY <1>2
<1> QED BY <1>1, <1>6, <1>7

LEMMA ExtremesStep ==
  ASSUME TypeInv, \A q \in Routes : Extremes(q),
         NEW r, NEW d, NEW code, Recorded(r, d, code)
  PROVE  \A q \in Routes : Extremes(q)'
<1>1. /\ r \in Routes /\ d \in Nat /\ d \in Durations
      /\ seen[r] \in Seq(Durations) /\ routes[r] \in RouteMetric
  BY Bounds DEF Recorded, TypeInv, TypeOK
<1>2. /\ routes'[r].max_ms = MaxAfter(routes[r], d)
      /\ routes'[r].min_ms = MinAfter(routes[r], d)
      /\ seen'[r] = Append(seen[r], d)
      /\ \A q \in Routes : q # r => routes'[q] = routes[q] /\ seen'[q] = seen[q]
  <2>1. PICK m : m = Counted(routes[r], d, code)
    OBVIOUS
  <2>2. m.max_ms = MaxAfter(routes[r], d) /\ m.min_ms = MinAfter(routes[r], d)
    BY <2>1 DEF Counted
  <2>3. routes' = [routes EXCEPT ![r] = m] /\ seen' = [seen EXCEPT ![r] = Append(seen[r], d)]
    BY <2>1 DEF Recorded, Observe
  <2>4. /\ routes'[r] = m /\ seen'[r] = Append(seen[r], d)
        /\ \A q \in Routes : q # r => routes'[q] = routes[q] /\ seen'[q] = seen[q]
    BY <1>1, <2>3 DEF TypeInv, TypeOK
  <2> QED BY <2>2, <2>4
<1>3. ASSUME NEW q \in Routes, q # r PROVE Extremes(q)'
  BY <1>2, <1>3 DEF Extremes
<1>4. Extremes(r)'
  <2>1. PICK old, now : old = Values(seen[r]) /\ now = Values(seen'[r])
    OBVIOUS
  <2>2. now = old \cup {d} /\ seen'[r] # <<>>
    BY <1>1, <1>2, <2>1, ValuesOfAppend
  <2>3. old \subseteq Nat
    <3>1. \A i \in DOMAIN seen[r] : seen[r][i] \in Durations
      BY <1>1
    <3>2. \A i \in DOMAIN seen[r] : seen[r][i] \in Nat
      BY <3>1, Bounds
    <3> QED BY <2>1, <3>2 DEF Values
  <2>4. PICK max, min : max = routes[r].max_ms /\ min = routes[r].min_ms
                        /\ max \in Nat /\ min \in Nat
    BY <1>1 DEF RouteMetric
  <2>5. /\ routes'[r].max_ms = IF d > max THEN d ELSE max
        /\ routes'[r].min_ms = IF min = 0 \/ d < min THEN d ELSE min
    BY <1>2, <2>4 DEF MaxAfter, MinAfter
  <2>6. \/ old = {} /\ max = 0 /\ min = 0
        \/ /\ max \in old /\ \A e \in old : e <= max
           /\ 0 \notin old => min \in old /\ \A e \in old : min <= e
    <3>1. CASE seen[r] = <<>>
      BY <1>1, <2>1, <2>4, <3>1 DEF Extremes, Values
    <3>2. CASE seen[r] # <<>>
      BY <1>1, <2>1, <2>4, <3>2 DEF Extremes
    <3> QED BY <3>1, <3>2
  <2>7. /\ routes'[r].max_ms \in now /\ \A e \in now : e <= routes'[r].max_ms
        /\ 0 \notin now =>
             routes'[r].min_ms \in now /\ \A e \in now : routes'[r].min_ms <= e
    <3>1. CASE old = {} /\ max = 0 /\ min = 0
      BY <1>1, <2>2, <2>5, <3>1
    <3>2. CASE /\ max \in old /\ \A e \in old : e <= max
               /\ 0 \notin old => min \in old /\ \A e \in old : min <= e
      <4>1. routes'[r].max_ms \in now /\ \A e \in now : e <= routes'[r].max_ms
        BY <1>1, <2>2, <2>3, <2>4, <2>5, <3>2
      <4>2. ASSUME 0 \notin now
            PROVE  routes'[r].min_ms \in now /\ \A e \in now : routes'[r].min_ms <= e
        <5>1. min \in old /\ min # 0 /\ \A e \in old : min <= e
          BY <2>2, <3>2, <4>2
        <5>2. CASE d < min
          <6>1. routes'[r].min_ms = d
            BY <2>5, <5>2
          <6>2. \A e \in old : e \in Nat /\ d <= e
            BY <1>1, <2>3, <2>4, <5>1, <5>2
          <6> QED BY <1>1, <2>2, <6>1, <6>2
        <5>3. CASE ~(d < min)
          <6>1. routes'[r].min_ms = min /\ min <= d
            BY <1>1, <2>4, <2>5, <5>1, <5>3
          <6> QED BY <2>2, <5>1, <6>1
        <5> QED BY <5>2, <5>3
      <4> QED BY <4>1, <4>2
    <3> QED BY <2>6, <3>1, <3>2
  <2>8. now = Values(seen[r])'
    BY <2>1 DEF Values
  <2> QED BY <2>2, <2>7, <2>8 DEF Extremes
<1> QED BY <1>3, <1>4

\* The maximum is that of every duration a route ever took, whatever left the
\* window, and so is the minimum of a route that never took 0 ms.
THEOREM ExtremesAreOfEverything == HttpSpec => []ExtremesOfTheHistory
<1>1. HttpInit => \A r \in Routes : Extremes(r)
  BY DEF HttpInit, Init, Extremes, NoMetric
<1>2. TypeInv /\ (\A r \in Routes : Extremes(r)) /\ [HttpNext]_<<vars, httpVars>>
        => (\A r \in Routes : Extremes(r))'
  <2> SUFFICES ASSUME TypeInv, \A r \in Routes : Extremes(r),
                      [HttpNext]_<<vars, httpVars>>
               PROVE  (\A r \in Routes : Extremes(r))'
    OBVIOUS
  <2>1. CASE Silent
    BY <2>1 DEF Silent, vars, Extremes
  <2>2. ASSUME NEW r, NEW d, NEW code, Recorded(r, d, code)
        PROVE  (\A q \in Routes : Extremes(q))'
    BY <2>2, ExtremesStep
  <2> QED BY <2>1, <2>2, StepEffect DEF Arrived, Silent
<1>3. (\A r \in Routes : Extremes(r)) => ExtremesOfTheHistory
  BY DEF Extremes, ExtremesOfTheHistory
<1> QED BY <1>1, <1>2, <1>3, TypeInvariant, PTL DEF HttpSpec

-----------------------------------------------------------------------------
(***************************************************************************)
(* The counters.  A request is in its route's sets exactly from the step   *)
(* that answers it on, and that step is the only one that counts.          *)
(***************************************************************************)
Answered(r) == {n \in 1..(nextReq - 1) : reqs[n].route = r /\ reqs[n].stage = "answered"}
AnsweredIn(r, low) == {n \in Answered(r) : InClass(reqs[n].code, low) = 1}

Tallied(r) ==
  /\ routes[r].count = Cardinality(Answered(r))
  /\ routes[r].status_2xx = Cardinality(AnsweredIn(r, 200))
  /\ routes[r].status_4xx = Cardinality(AnsweredIn(r, 400))
  /\ routes[r].status_5xx = Cardinality(AnsweredIn(r, 500))

LEMMA AnsweredFinite ==
  ASSUME TypeInv, NEW r, NEW low
  PROVE  IsFiniteSet(Answered(r)) /\ IsFiniteSet(AnsweredIn(r, low))
<1>1. 1 \in Int /\ nextReq - 1 \in Int
  BY Bounds DEF TypeInv
<1>2. IsFiniteSet(1..(nextReq - 1))
  BY <1>1, FS_Interval
<1>3. IsFiniteSet(Answered(r))
  BY <1>2, FS_Subset DEF Answered
<1> QED BY <1>3, FS_Subset DEF AnsweredIn

\* A request that arrives, returns or raises is in none of the sets.
LEMMA SameAnswered ==
  ASSUME TypeInv, NEW r,
         \/ \E q \in Routes : Arrived(q)
         \/ \E n \in 1..(nextReq - 1), to \in {"returned", "raised"} :
              Changed(n, "running", to)
         \/ reqs' = reqs /\ nextReq' = nextReq
  PROVE  Answered(r)' = Answered(r) /\ \A low : AnsweredIn(r, low)' = AnsweredIn(r, low)
<1>0. /\ nextReq \in Nat
      /\ \A n \in 1..(nextReq - 1) : n \in Requests /\ n \in Nat /\ n < nextReq
  <2>1. nextReq \in Nat
    BY Bounds DEF TypeInv
  <2>2. \A n \in 1..(nextReq - 1) : n \in Nat /\ n < nextReq
    BY <2>1
  <2> QED BY <2>1, <2>2, CameIsRequest
<1>1. \A n : n \in Answered(r)' <=> n \in Answered(r)
  <2>1. CASE \E q \in Routes : Arrived(q)
    <3>1. /\ nextReq' = nextReq + 1 /\ reqs'[nextReq].stage = "running"
          /\ \A n \in Requests : n # nextReq => reqs'[n] = reqs[n]
      BY <2>1 DEF Arrived
    <3>2. \A n : n \in 1..(nextReq' - 1) <=> n = nextReq \/ n \in 1..(nextReq - 1)
      <4>1. nextReq' - 1 = nextReq /\ nextReq \in 1..nextReq
        BY <3>1, Bounds DEF TypeInv
      <4>2. \A n : n \in 1..nextReq => n = nextReq \/ n \in 1..(nextReq - 1)
        BY <1>0
      <4>3. \A n : n \in 1..(nextReq - 1) => n \in 1..nextReq
        BY <1>0
      <4> QED BY <4>1, <4>2, <4>3
    <3>3. \A n \in 1..(nextReq - 1) : reqs'[n] = reqs[n]
      BY <1>0, <3>1
    <3> QED BY <3>1, <3>2, <3>3 DEF Answered
  <2>2. ASSUME NEW n \in 1..(nextReq - 1), NEW to \in {"returned", "raised"},
               Changed(n, "running", to)
        PROVE  \A m : m \in Answered(r)' <=> m \in Answered(r)
    <3>1. /\ nextReq' = nextReq /\ reqs[n].stage = "running" /\ reqs'[n].stage = to
          /\ \A m \in 1..(nextReq - 1) : m # n => reqs'[m] = reqs[m]
      BY <1>0, <2>2 DEF Changed
    <3> QED BY <3>1 DEF Answered
  <2>3. CASE reqs' = reqs /\ nextReq' = nextReq
    BY <2>3 DEF Answered
  <2> QED BY <2>1, <2>2, <2>3
<1>2. \A n \in Answered(r) : reqs'[n] = reqs[n]
  <2>1. ASSUME NEW n \in Answered(r) PROVE reqs'[n] = reqs[n]
    <3>1. n \in 1..(nextReq - 1) /\ reqs[n].stage = "answered" /\ n \in Requests /\ n # nextReq
      BY <1>0 DEF Answered
    <3> QED BY <3>1 DEF Arrived, Changed
  <2> QED BY <2>1
<1>3. Answered(r)' = Answered(r)
  BY <1>1
<1>4. ASSUME NEW low PROVE AnsweredIn(r, low)' = AnsweredIn(r, low)
  BY <1>2, <1>3 DEF AnsweredIn
<1> QED BY <1>3, <1>4

\* The answer puts its request in the sets of its route, in that of its class.
LEMMA OneMoreAnswered ==
  ASSUME TypeInv, NEW n \in 1..(nextReq - 1), Changed(n, "returned", "answered"),
         reqs'[n].code = reqs[n].code, NEW r, NEW low
  PROVE  /\ n \notin Answered(r)
         /\ Answered(r)' = IF r = reqs[n].route THEN Answered(r) \cup {n} ELSE Answered(r)
         /\ AnsweredIn(r, low)' =
              IF r = reqs[n].route /\ InClass(reqs[n].code, low) = 1
              THEN AnsweredIn(r, low) \cup {n} ELSE AnsweredIn(r, low)
<1>1. /\ nextReq' = nextReq /\ reqs[n].stage = "returned" /\ reqs'[n].stage = "answered"
      /\ reqs'[n].route = reqs[n].route
      /\ \A m \in 1..(nextReq - 1) : m # n => reqs'[m] = reqs[m]
  BY CameIsRequest DEF Changed
<1>2. n \notin Answered(r)
  BY <1>1 DEF Answered
<1>3. \A m : m \in Answered(r)' <=> m \in Answered(r) \/ (m = n /\ r = reqs[n].route)
  BY <1>1 DEF Answered
<1>4. \A m \in Answered(r) : reqs'[m] = reqs[m]
  BY <1>1, <1>2 DEF Answered
<1>5. \A m : m \in AnsweredIn(r, low)' <=>
        \/ m \in AnsweredIn(r, low)
        \/ m = n /\ r = reqs[n].route /\ InClass(reqs[n].code, low) = 1
  BY <1>3, <1>4 DEF AnsweredIn
<1>6. Answered(r)' = IF r = reqs[n].route THEN Answered(r) \cup {n} ELSE Answered(r)
  BY <1>3
<1>7. AnsweredIn(r, low)' =
        IF r = reqs[n].route /\ InClass(reqs[n].code, low) = 1
        THEN AnsweredIn(r, low) \cup {n} ELSE AnsweredIn(r, low)
  BY <1>5
<1> QED BY <1>2, <1>6, <1>7, Zenon

LEMMA TalliedStep ==
  ASSUME TypeInv, \A q \in Routes : Tallied(q), NEW n \in 1..(nextReq - 1),
         NEW d, Changed(n, "returned", "answered"), reqs'[n].code = reqs[n].code,
         Recorded(reqs[n].route, d, reqs[n].code)
  PROVE  \A q \in Routes : Tallied(q)'
<1>1. PICK r, code : r = reqs[n].route /\ code = reqs[n].code
  OBVIOUS
<1>2. PICK m, old : m = Counted(routes[r], d, code) /\ old = routes[r]
  OBVIOUS
<1>3. /\ r \in Routes /\ routes'[r] = m
      /\ \A q \in Routes : q # r => routes'[q] = routes[q]
  BY <1>1, <1>2 DEF Recorded, Observe, TypeInv, TypeOK
<1>4. /\ m.count = old.count + 1
      /\ m.status_2xx = old.status_2xx + InClass(code, 200)
      /\ m.status_4xx = old.status_4xx + InClass(code, 400)
      /\ m.status_5xx = old.status_5xx + InClass(code, 500)
  BY <1>2 DEF Counted
<1>5. ASSUME NEW q \in Routes, q # r PROVE Tallied(q)'
  <2>1. ASSUME NEW low
        PROVE  Answered(q)' = Answered(q) /\ AnsweredIn(q, low)' = AnsweredIn(q, low)
    BY <1>1, <1>5, OneMoreAnswered
  <2> QED BY <1>3, <1>5, <2>1 DEF Tallied
<1>6. Cardinality(Answered(r)') = Cardinality(Answered(r)) + 1
  <2>1. n \notin Answered(r) /\ Answered(r)' = Answered(r) \cup {n}
    BY <1>1, OneMoreAnswered
  <2> QED BY <2>1, AnsweredFinite, FS_AddElement
<1>7. ASSUME NEW low \in {200, 400, 500}
      PROVE  Cardinality(AnsweredIn(r, low)')
               = Cardinality(AnsweredIn(r, low)) + InClass(code, low)
  <2>1. IsFiniteSet(AnsweredIn(r, low)) /\ Cardinality(AnsweredIn(r, low)) \in Nat
    <3>1. IsFiniteSet(AnsweredIn(r, low))
      BY AnsweredFinite
    <3> QED BY <3>1, FS_CardinalityType
  <2>2. n \notin AnsweredIn(r, low)
    <3>1. n \notin Answered(r)
      BY DEF Changed, Answered
    <3> QED BY <3>1 DEF AnsweredIn
  <2>3. CASE InClass(code, low) = 1
    <3>1. AnsweredIn(r, low)' = AnsweredIn(r, low) \cup {n}
      BY <1>1, <2>3, OneMoreAnswered
    <3>2. Cardinality(AnsweredIn(r, low) \cup {n}) = Cardinality(AnsweredIn(r, low)) + 1
      BY <2>1, <2>2, FS_AddElement
    <3>3. Cardinality(AnsweredIn(r, low)') = Cardinality(AnsweredIn(r, low)) + 1
      BY <3>1, <3>2, Zenon
    <3> QED BY <2>3, <3>3, Zenon
  <2>4. CASE InClass(code, low) # 1
    <3>1. AnsweredIn(r, low)' = AnsweredIn(r, low)
      BY <1>1, <2>4, OneMoreAnswered
    <3>2. InClass(code, low) = 0
      BY <2>4 DEF InClass
    <3> QED BY <2>1, <3>1, <3>2
  <2> QED BY <2>3, <2>4
<1>8. Tallied(r)'
  <2>1. Tallied(r)
    BY <1>3
  <2>2. routes'[r].count = Cardinality(Answered(r)')
    BY <1>2, <1>3, <1>4, <1>6, <2>1 DEF Tallied
  <2>3. routes'[r].status_2xx = Cardinality(AnsweredIn(r, 200)')
    BY <1>2, <1>3, <1>4, <1>7, <2>1 DEF Tallied
  <2>4. routes'[r].status_4xx = Cardinality(AnsweredIn(r, 400)')
    BY <1>2, <1>3, <1>4, <1>7, <2>1 DEF Tallied
  <2>5. routes'[r].status_5xx = Cardinality(AnsweredIn(r, 500)')
    BY <1>2, <1>3, <1>4, <1>7, <2>1 DEF Tallied
  <2> QED BY <2>2, <2>3, <2>4, <2>5 DEF Tallied
<1> QED BY <1>5, <1>8

\* However the requests overlap, each answered one is counted once, in its class,
\* and none that still runs or that raised.
THEOREM CountersAreExact == HttpSpec => []CountersAreTheAnswered
<1>1. HttpInit => \A r \in Routes : Tallied(r)
  <2> SUFFICES ASSUME HttpInit, NEW r \in Routes PROVE Tallied(r)
    OBVIOUS
  <2>1. Answered(r) = {} /\ \A low : AnsweredIn(r, low) = {}
    BY DEF HttpInit, Answered, AnsweredIn
  <2>2. routes[r] = NoMetric
    BY DEF HttpInit, Init
  <2> QED BY <2>1, <2>2, FS_EmptySet DEF Tallied, NoMetric
<1>2. TypeInv /\ (\A r \in Routes : Tallied(r)) /\ [HttpNext]_<<vars, httpVars>>
        => (\A r \in Routes : Tallied(r))'
  <2> SUFFICES ASSUME TypeInv, \A r \in Routes : Tallied(r),
                      [HttpNext]_<<vars, httpVars>>
               PROVE  (\A r \in Routes : Tallied(r))'
    OBVIOUS
  <2>1. ASSUME Silent,
               \/ \E q \in Routes : Arrived(q)
               \/ \E n \in 1..(nextReq - 1), to \in {"returned", "raised"} :
                    Changed(n, "running", to)
               \/ reqs' = reqs /\ nextReq' = nextReq,
               NEW r \in Routes
        PROVE  Tallied(r)'
    <3>1. Answered(r)' = Answered(r) /\ \A low : AnsweredIn(r, low)' = AnsweredIn(r, low)
      BY <2>1, SameAnswered
    <3> QED BY <2>1, <3>1 DEF Silent, vars, Tallied
  <2>2. ASSUME NEW n \in 1..(nextReq - 1), NEW d \in Durations,
               Changed(n, "returned", "answered"), reqs'[n].code = reqs[n].code,
               Recorded(reqs[n].route, d, reqs[n].code)
        PROVE  (\A r \in Routes : Tallied(r))'
    BY <2>2, TalliedStep
  <2> QED BY <2>1, <2>2, StepEffect DEF Arrived, Silent
<1>3. (\A r \in Routes : Tallied(r)) => CountersAreTheAnswered
  <2>1. \A r : Of(r, {"answered"}) = Answered(r)
    BY DEF Of, Answered
  <2>2. \A r, low : InClassOf(Of(r, {"answered"}), low) = Cardinality(AnsweredIn(r, low))
    BY <2>1, Zenon DEF AnsweredIn, InClassOf
  <2> SUFFICES ASSUME \A r \in Routes : Tallied(r), NEW r \in Routes
               PROVE  /\ routes[r].count = Cardinality(Of(r, {"answered"}))
                      /\ routes[r].status_2xx = InClassOf(Of(r, {"answered"}), 200)
                      /\ routes[r].status_4xx = InClassOf(Of(r, {"answered"}), 400)
                      /\ routes[r].status_5xx = InClassOf(Of(r, {"answered"}), 500)
    BY DEF CountersAreTheAnswered
  <2>3. /\ routes[r].count = Cardinality(Answered(r))
        /\ routes[r].status_2xx = Cardinality(AnsweredIn(r, 200))
        /\ routes[r].status_4xx = Cardinality(AnsweredIn(r, 400))
        /\ routes[r].status_5xx = Cardinality(AnsweredIn(r, 500))
    BY DEF Tallied
  <2>4. Of(r, {"answered"}) = Answered(r)
    BY <2>1
  <2>5. \A low : InClassOf(Of(r, {"answered"}), low) = Cardinality(AnsweredIn(r, low))
    BY <2>2
  <2> QED BY <2>3, <2>4, <2>5
<1> QED BY <1>1, <1>2, <1>3, TypeInvariant, PTL DEF HttpSpec

-----------------------------------------------------------------------------
(***************************************************************************)
(* The totals.  The counts only grow, so their sum does; a scrape reads    *)
(* that sum after it came, and what had been shown by then was read        *)
(* earlier still.                                                          *)
(***************************************************************************)
Counts == [r \in Routes |-> routes[r].count]

LEMMA RoutesFinite == IsFiniteSet(Routes)
BY MetricsConstants

LEMMA CountsAddUp ==
  ASSUME NEW f, NEW g, g = [r \in Routes |-> f[r].count]
  PROVE  MapThenSumSet(LAMBDA r : f[r].count, Routes) = Sum(g, Routes)
<1> DEFINE step(it, s) == IF s = {} THEN 0 ELSE f[Pick(s)].count + it[s \ {Pick(s)}]
           I == CHOOSE it : it = [s \in SUBSET Routes |-> step(it, s)]
<1>1. PICK it : Iterates(it, g, Routes)
  BY RoutesFinite, IterationExists
<1>2. ASSUME NEW any, NEW s \in SUBSET Routes
      PROVE  step(any, s) = IF s = {} THEN 0 ELSE g[Pick(s)] + any[s \ {Pick(s)}]
  <2>1. CASE s = {}
    BY <2>1
  <2>2. CASE s # {}
    <3>1. Pick(s) \in Routes
      BY <2>2, PickMember
    <3>2. g[Pick(s)] = f[Pick(s)].count
      BY <3>1
    <3> QED BY <2>2, <3>2
  <2> QED BY <2>1, <2>2
<1>3. ASSUME NEW any
      PROVE  [s \in SUBSET Routes |-> step(any, s)]
               = [s \in SUBSET Routes |-> IF s = {} THEN 0 ELSE g[Pick(s)] + any[s \ {Pick(s)}]]
  <2> HIDE DEF step
  <2> QED BY <1>2
<1>4. it = [s \in SUBSET Routes |-> step(it, s)]
  <2> HIDE DEF step
  <2> QED BY <1>1, <1>3 DEF Iterates
<1>5. I = [s \in SUBSET Routes |-> step(I, s)]
  <2> HIDE DEF step
  <2> QED BY <1>4
<1>6. Iterates(I, g, Routes)
  <2> HIDE DEF step, I
  <2> QED BY <1>3, <1>5 DEF Iterates
<1>7. I[Routes] = Sum(g, Routes)
  <2> HIDE DEF I
  <2>1. Routes \in SUBSET Routes
    OBVIOUS
  <2> QED BY <1>6, <2>1, RoutesFinite, SumOfIteration
<1>8. MapThenSumSet(LAMBDA r : f[r].count, Routes) = I[Routes]
  BY DEF MapThenSumSet, MapThenFoldSet, Pick
<1> QED BY <1>7, <1>8

LEMMA TotalIsSum ==
  ASSUME NEW g, NEW h, g = Counts, h = Counts'
  PROVE  Total = Sum(g, Routes) /\ Total' = Sum(h, Routes)
<1>1. g = [r \in Routes |-> routes[r].count] /\ h = [r \in Routes |-> routes'[r].count]
  BY DEF Counts
<1>2. /\ MapThenSumSet(LAMBDA r : routes[r].count, Routes) = Sum(g, Routes)
      /\ MapThenSumSet(LAMBDA r : routes'[r].count, Routes) = Sum(h, Routes)
  BY <1>1, CountsAddUp
<1>3. Total = MapThenSumSet(LAMBDA r : routes[r].count, Routes)
  BY DEF Total
<1>4. Total' = MapThenSumSet(LAMBDA r : routes'[r].count, Routes)
  BY DEF Total, MapThenSumSet, MapThenFoldSet
<1> QED BY <1>2, <1>3, <1>4

\* No step lowers the total.
LEMMA TotalGrows ==
  ASSUME TypeInv, [HttpNext]_<<vars, httpVars>>
  PROVE  /\ Total \in Int /\ Total' \in Int /\ Total <= Total'
         /\ Silent => Total' = Total
<1>1. PICK g, h : g = Counts /\ h = Counts'
  OBVIOUS
<1>2. \A r \in Routes : g[r] = routes[r].count /\ h[r] = routes'[r].count
  BY <1>1 DEF Counts
<1>3. \A r \in Routes : g[r] \in Int /\ h[r] \in Int
  <2>1. TypeInv'
    BY TypeStep
  <2>2. \A r \in Routes : routes[r].count \in Nat /\ routes'[r].count \in Nat
    BY <2>1 DEF TypeInv, TypeOK, RouteMetric
  <2> QED BY <1>2, <2>2
<1>4. \A r \in Routes : g[r] <= h[r]
  <2>1. CASE Silent
    <3>1. \A r \in Routes : h[r] = g[r]
      BY <1>2, <2>1 DEF Silent, vars
    <3> QED BY <1>3, <3>1
  <2>2. ASSUME NEW q, NEW d, NEW code, Recorded(q, d, code)
        PROVE  \A r \in Routes : g[r] <= h[r]
    <3>1. PICK m : m = Counted(routes[q], d, code)
      OBVIOUS
    <3>2. m.count = routes[q].count + 1
      BY <3>1 DEF Counted
    <3>3. \A r \in Routes : routes'[r] = IF r = q THEN m ELSE routes[r]
      BY <2>2, <3>1 DEF Recorded, Observe, TypeInv, TypeOK
    <3>4. \A r \in Routes : h[r] = g[r] \/ h[r] = g[r] + 1
      BY <1>2, <3>2, <3>3
    <3> QED BY <1>3, <3>4
  <2> QED BY <2>1, <2>2, StepEffect DEF Arrived, Silent
<1>5. Sum(g, Routes) \in Int /\ Sum(h, Routes) \in Int /\ Sum(g, Routes) <= Sum(h, Routes)
  <2>1. IntOn(g, Routes) /\ IntOn(h, Routes)
    BY <1>3 DEF IntOn
  <2> QED BY <1>4, <2>1, RoutesFinite, SumInt, SumMonotone
<1>6. Silent => h = g
  BY <1>1 DEF Silent, vars, Counts
<1> QED BY <1>1, <1>5, <1>6, TotalIsSum

Paged(n) ==
  /\ reqs[n].least \in Nat /\ reqs[n].least <= shown
  /\ reqs[n].page # None =>
       /\ reqs[n].page \in Nat
       /\ reqs[n].least <= reqs[n].page /\ reqs[n].page <= Total

Scraped ==
  /\ shown \in Nat /\ shown <= Total
  /\ \A n \in 1..(nextReq - 1) : Paged(n)

\* A request keeps what it read and what had been shown when it came.
LEMMA PagedStays ==
  ASSUME NEW n, Paged(n), Total \in Int, Total' \in Int, Total <= Total',
         shown \in Nat, shown' \in Nat, shown <= shown',
         reqs'[n].least = reqs[n].least, reqs'[n].page = reqs[n].page
  PROVE  Paged(n)'
<1>1. PICK q, p : q = reqs[n] /\ p = reqs'[n]
  OBVIOUS
<1>2. /\ q.least \in Nat /\ q.least <= shown
      /\ q.page # None => q.page \in Nat /\ q.least <= q.page /\ q.page <= Total
  BY <1>1 DEF Paged
<1>3. /\ p.least \in Nat /\ p.least <= shown'
      /\ p.page # None => p.page \in Nat /\ p.least <= p.page /\ p.page <= Total'
  BY <1>1, <1>2
<1> QED BY <1>1, <1>3 DEF Paged

LEMMA ScrapedStep ==
  ASSUME TypeInv, Scraped, [HttpNext]_<<vars, httpVars>>
  PROVE  Scraped'
<1>0. /\ Total \in Int /\ Total' \in Int /\ Total <= Total' /\ (Silent => Total' = Total)
      /\ shown \in Nat /\ shown <= Total
      /\ nextReq \in Nat
      /\ \A n \in 1..(nextReq - 1) : n \in Requests /\ Paged(n)
  BY TotalGrows, CameIsRequest, Bounds DEF Scraped, TypeInv
<1>1. ASSUME NEW r \in Routes, Arrive(r)
      PROVE  Scraped'
  <2>1. /\ Arrived(r) /\ reqs'[nextReq].least = shown /\ reqs'[nextReq].page = None
        /\ shown' = shown
    BY <1>1, ArriveEffect DEF Arrive
  <2>2. ASSUME NEW n \in 1..(nextReq' - 1)
        PROVE  Paged(n)'
    <3>1. n = nextReq \/ (n \in 1..(nextReq - 1) /\ n # nextReq)
      BY <1>0, <2>1 DEF Arrived
    <3>2. CASE n = nextReq
      BY <1>0, <2>1, <3>2 DEF Paged
    <3>3. CASE n \in 1..(nextReq - 1) /\ n # nextReq
      <4>1. reqs'[n] = reqs[n]
        BY <1>0, <2>1, <3>3 DEF Arrived
      <4> QED BY <1>0, <2>1, <3>3, <4>1, PagedStays
    <3> QED BY <3>1, <3>2, <3>3
  <2> QED BY <1>0, <2>1, <2>2 DEF Scraped
<1>2. ASSUME NEW n \in 1..(nextReq - 1), nextReq' = nextReq,
             \A m \in 1..(nextReq - 1) : m # n => reqs'[m] = reqs[m],
             shown' \in Nat, shown <= shown', shown' <= Total', Paged(n)'
      PROVE  Scraped'
  <2>1. ASSUME NEW m \in 1..(nextReq - 1), m # n
        PROVE  Paged(m)'
    BY <1>0, <1>2, <2>1, PagedStays
  <2> QED BY <1>2, <2>1 DEF Scraped
<1>3. ASSUME NEW n \in 1..(nextReq - 1), NEW code \in Codes, Return(n, code)
      PROVE  Scraped'
  <2>1. /\ Changed(n, "running", "returned") /\ Silent
        /\ reqs'[n].least = reqs[n].least /\ reqs'[n].page \in {Total, None}
        /\ shown' = shown /\ Total' = Total
    <3>1. /\ Changed(n, "running", "returned") /\ UNCHANGED vars
          /\ reqs'[n].least = reqs[n].least /\ reqs'[n].page \in {Total, None}
      BY <1>3, ReturnEffect
    <3>2. shown' = shown
      BY <1>3 DEF Return
    <3> QED BY <1>0, <3>1, <3>2 DEF Silent
  <2>2. Paged(n)'
    <3>1. reqs[n].least \in Nat /\ reqs[n].least <= shown
      BY <1>0 DEF Paged
    <3>2. Total \in Nat /\ reqs[n].least <= Total
      BY <1>0, <3>1
    <3> QED BY <1>0, <2>1, <3>1, <3>2 DEF Paged
  <2> QED BY <1>0, <1>2, <2>1, <2>2 DEF Changed
<1>4. ASSUME NEW n \in 1..(nextReq - 1), NEW d \in Durations, Answer(n, d)
      PROVE  Scraped'
  <2>1. /\ Changed(n, "returned", "answered")
        /\ reqs'[n].least = reqs[n].least /\ reqs'[n].page = reqs[n].page
        /\ shown' = IF reqs[n].page # None /\ reqs[n].page > shown THEN reqs[n].page ELSE shown
    BY <1>4, AnswerEffect DEF Answer
  <2>2. shown' \in Nat /\ shown <= shown' /\ shown' <= Total'
    <3>1. reqs[n].page # None => reqs[n].page \in Nat /\ reqs[n].page <= Total
      BY <1>0 DEF Paged
    <3>2. CASE reqs[n].page # None /\ reqs[n].page > shown
      BY <1>0, <2>1, <3>1, <3>2
    <3>3. CASE ~(reqs[n].page # None /\ reqs[n].page > shown)
      <4>1. shown' = shown
        BY <2>1, <3>3
      <4> QED BY <1>0, <4>1
    <3> QED BY <3>2, <3>3
  <2>3. Paged(n)'
    BY <1>0, <2>1, <2>2, PagedStays
  <2> QED BY <1>0, <1>2, <2>1, <2>2, <2>3 DEF Changed
<1>5. ASSUME NEW n \in 1..(nextReq - 1), Raise(n)
      PROVE  Scraped'
  <2>1. /\ Changed(n, "running", "raised") /\ Silent
        /\ reqs'[n].least = reqs[n].least /\ reqs'[n].page = reqs[n].page
        /\ shown' = shown
    BY <1>5, RaiseEffect DEF Raise, Silent
  <2>2. shown' \in Nat /\ shown <= shown' /\ shown' <= Total'
    BY <1>0, <2>1
  <2>3. Paged(n)'
    BY <1>0, <2>1, <2>2, PagedStays
  <2> QED BY <1>0, <1>2, <2>1, <2>2, <2>3 DEF Changed
<1>6. CASE UNCHANGED <<vars, httpVars>>
  <2>1. Silent /\ reqs' = reqs /\ nextReq' = nextReq /\ shown' = shown
    BY <1>6 DEF Silent, httpVars
  <2>2. ASSUME NEW n \in 1..(nextReq - 1)
        PROVE  Paged(n)'
    BY <1>0, <2>1, PagedStays
  <2> QED BY <1>0, <2>1, <2>2 DEF Scraped
<1> QED BY <1>1, <1>3, <1>4, <1>5, <1>6 DEF HttpNext

\* What a scrape read stays within what the counters have come to.
LEMMA ScrapedAlways == HttpSpec => []Scraped
<1>1. HttpInit => Scraped
  <2> SUFFICES ASSUME HttpInit PROVE Scraped
    OBVIOUS
  <2>1. PICK g : g = Counts
    OBVIOUS
  <2>2. \A r \in Routes : g[r] = 0
    BY <2>1 DEF Counts, HttpInit, Init, NoMetric
  <2>3. Sum(g, Routes) >= 0
    <3>1. Sum(g, Routes) \in Nat
      BY <2>2, RoutesFinite, SumNat DEF IntOn
    <3> QED BY <3>1
  <2>4. Total >= 0
    BY <2>1, <2>3, TotalIsSum
  <2> QED BY <2>4 DEF HttpInit, Scraped
<1>2. TypeInv /\ Scraped /\ [HttpNext]_<<vars, httpVars>> => Scraped'
  BY ScrapedStep
<1> QED BY <1>1, <1>2, TypeInvariant, PTL DEF HttpSpec

\* However the scrapes overlap with each other and with the requests they count,
\* none shows a smaller total than one that was answered before it came.
THEOREM TotalsOnlyGrow == HttpSpec => []TotalsNeverFall
<1>1. Scraped => TotalsNeverFall
  BY DEF Scraped, Paged, TotalsNeverFall
<1> QED BY <1>1, ScrapedAlways, PTL

\* The counters are naturals, no window outgrows its size and every request is in a
\* stage with what it has by then, whatever requests overlap.
THEOREM MetricsTypeCorrect == HttpSpec => []HttpTypeOK
<1>1. ASSUME TypeInv, Scraped
      PROVE  HttpTypeOK
  <2>1. nextReq \in 1..(MaxRequests + 1) /\ MaxRequests \in Nat /\ TypeOK /\ shown \in Nat
    BY <1>1, Bounds DEF TypeInv, Scraped
  <2>2. ASSUME NEW n \in Requests
        PROVE  IF n < nextReq THEN reqs[n] \in Request ELSE reqs[n] = None
    <3>1. n \in Nat /\ nextReq \in Nat /\ n >= 1
      BY <2>1 DEF Requests
    <3>2. CASE n < nextReq
      <4>1. n \in 1..(nextReq - 1)
        BY <3>1, <3>2
      <4>2. Shaped(reqs[n]) /\ Paged(n)
        BY <1>1, <4>1 DEF TypeInv, Scraped
      <4>3. PICK q : q = reqs[n]
        OBVIOUS
      <4>4. q.least \in Nat /\ q.page \in Nat \cup {None} /\ Shaped(q)
        BY <4>2, <4>3 DEF Paged
      <4>5. q \in Request
        BY <4>4 DEF Shaped, Request, Stages
      <4> QED BY <3>2, <4>3, <4>5
    <3>3. CASE ~(n < nextReq)
      BY <1>1, <3>1, <3>3 DEF TypeInv
    <3> QED BY <3>2, <3>3
  <2> QED BY <2>1, <2>2 DEF HttpTypeOK
<1> QED BY <1>1, TypeInvariant, ScrapedAlways, PTL

-----------------------------------------------------------------------------
(***************************************************************************)
(* The percentile.  The window is the end of the route's history, so that  *)
(* what is said of the window's entries is said of the last requests; and  *)
(* among finitely many entries there is one with at most so many below it. *)
(***************************************************************************)
UpTo(w, v) == {i \in DOMAIN w : w[i] <= v}
Less(w, v) == {i \in DOMAIN w : w[i] < v}

LEMMA EntriesFinite ==
  ASSUME NEW w \in Seq(Nat), NEW v
  PROVE  /\ IsFiniteSet(UpTo(w, v)) /\ Cardinality(UpTo(w, v)) \in Nat
         /\ IsFiniteSet(Less(w, v)) /\ Cardinality(Less(w, v)) \in Nat
         /\ IsFiniteSet(DOMAIN w) /\ Cardinality(DOMAIN w) = Len(w)
<1>1. IsFiniteSet(DOMAIN w) /\ Cardinality(DOMAIN w) = Len(w)
  <2>1. DOMAIN w = 1..Len(w) /\ Len(w) \in Nat
    OBVIOUS
  <2>2. PICK n \in Nat : n = Len(w)
    BY <2>1
  <2>3. IsFiniteSet(1..n) /\ Cardinality(1..n) = n
    <3>1. 1 \in Int /\ n \in Int
      OBVIOUS
    <3>2. /\ IsFiniteSet(1..n)
          /\ Cardinality(1..n) = IF 1 > n THEN 0 ELSE n - 1 + 1
      BY <3>1, FS_Interval
    <3> QED BY <3>2
  <2> QED BY <2>1, <2>2, <2>3
<1>2. UpTo(w, v) \in SUBSET DOMAIN w /\ Less(w, v) \in SUBSET DOMAIN w
  BY DEF UpTo, Less
<1>3. IsFiniteSet(UpTo(w, v)) /\ IsFiniteSet(Less(w, v))
  BY <1>1, <1>2, FS_Subset
<1> QED BY <1>1, <1>3, FS_CardinalityType

LEMMA SomeEntryIsTheLargest ==
  ASSUME NEW w \in Seq(Nat), NEW S \in SUBSET DOMAIN w, S # {}
  PROVE  \E i \in S : \A j \in S : w[j] <= w[i]
<1>1. PICK T : T = {w[i] : i \in S}
  OBVIOUS
<1>2. PICK V : V = {w[i] : i \in DOMAIN w}
  OBVIOUS
<1>3. IsFiniteSet(V)
  BY <1>2, ValuesFinite
<1>4. IsFiniteSet(T)
  <2>1. T \in SUBSET V
    BY <1>1, <1>2
  <2> QED BY <1>3, <2>1, FS_Subset
<1>5. T # {} /\ T \subseteq Int
  BY <1>1
<1>6. PICK x \in T : \A y \in T : y <= x
  BY <1>4, <1>5, GreatestNumber
<1> QED BY <1>1, <1>6

\* The entry at a position of the sorted window.
LEMMA SortedEntry ==
  ASSUME NEW w \in Seq(Nat), NEW at \in Nat, at < Len(w)
  PROVE  \E i \in DOMAIN w : /\ Sorted(w, at) = w[i]
                             /\ Cardinality(Less(w, w[i])) <= at
                             /\ Cardinality(UpTo(w, w[i])) > at
<1>1. PICK V : V = {w[i] : i \in DOMAIN w}
  OBVIOUS
<1>2. IsFiniteSet(V)
  BY <1>1, ValuesFinite
<1>3. PICK G : G = {v \in V : Cardinality(UpTo(w, v)) > at}
  OBVIOUS
<1>4. IsFiniteSet(G)
  <2>1. G \in SUBSET V
    BY <1>3
  <2> QED BY <1>2, <2>1, FS_Subset
<1>5. G # {}
  <2>1. 1 \in DOMAIN w
    <3>1. DOMAIN w = 1..Len(w) /\ Len(w) \in Nat
      OBVIOUS
    <3> QED BY <3>1
  <2>2. PICK i \in DOMAIN w : \A j \in DOMAIN w : w[j] <= w[i]
    BY <2>1, SomeEntryIsTheLargest
  <2>3. UpTo(w, w[i]) = DOMAIN w
    BY <2>2 DEF UpTo
  <2>4. Cardinality(UpTo(w, w[i])) > at
    BY <2>3, EntriesFinite
  <2>5. w[i] \in G
    BY <1>1, <1>3, <2>4
  <2> QED BY <2>5
<1>6. PICK v \in G : \A u \in G : v <= u
  <2>1. G \subseteq Int
    BY <1>1, <1>3
  <2> QED BY <1>4, <1>5, <2>1, LeastNumber
<1>7. v \in V /\ v \in Nat /\ Cardinality(UpTo(w, v)) > at
  BY <1>1, <1>3
<1>8. Cardinality(Less(w, v)) <= at
  <2>1. SUFFICES ASSUME Cardinality(Less(w, v)) > at PROVE FALSE
    BY EntriesFinite
  <2>2. Less(w, v) # {}
    BY <2>1, EntriesFinite, FS_EmptySet
  <2>3. Less(w, v) \in SUBSET DOMAIN w
    BY DEF Less
  <2>4. PICK i \in Less(w, v) : \A j \in Less(w, v) : w[j] <= w[i]
    BY <2>2, <2>3, SomeEntryIsTheLargest
  <2>5. i \in DOMAIN w /\ w[i] \in Nat /\ w[i] < v
    BY DEF Less
  <2>6. UpTo(w, w[i]) = Less(w, v)
    <3>1. ASSUME NEW j \in DOMAIN w
          PROVE  w[j] <= w[i] <=> w[j] < v
      <4>1. w[j] \in Nat /\ (w[j] < v => w[j] <= w[i])
        BY <2>4 DEF Less
      <4> QED BY <1>7, <2>5, <4>1
    <3> QED BY <3>1 DEF UpTo, Less
  <2>7. w[i] \in G
    BY <1>1, <1>3, <2>1, <2>5, <2>6
  <2> QED BY <1>6, <1>7, <2>5, <2>7
<1>9. \E u \in V : /\ Cardinality(Less(w, u)) <= at
                   /\ Cardinality(UpTo(w, u)) > at
  BY <1>7, <1>8
<1>10. PICK u : u = Sorted(w, at)
  OBVIOUS
<1>11. u = CHOOSE x \in V : /\ Cardinality(Less(w, x)) <= at
                            /\ Cardinality(UpTo(w, x)) > at
  BY <1>1, <1>10 DEF Sorted, Less, UpTo
<1>12. u \in V /\ Cardinality(Less(w, u)) <= at /\ Cardinality(UpTo(w, u)) > at
  BY <1>9, <1>11
<1> QED BY <1>1, <1>10, <1>12

LEMMA NaturalDurations ==
  ASSUME NEW w \in Seq(Durations)
  PROVE  w \in Seq(Nat)
<1>1. \A i \in 1..Len(w) : w[i] \in Durations
  OBVIOUS
<1>2. \A i \in 1..Len(w) : w[i] \in Nat
  BY <1>1, Bounds
<1>3. Len(w) \in Nat /\ w = [i \in 1..Len(w) |-> w[i]]
  OBVIOUS
<1> QED BY <1>2, <1>3

\* w holds the end of s, as much of it as the window takes.
Ends(w, s) ==
  /\ Len(w) = IF Len(s) < WindowSize THEN Len(s) ELSE WindowSize
  /\ \A i \in 1..Len(w) : w[i] = s[Len(s) - Len(w) + i]

LEMMA PushKeepsTheEnd ==
  ASSUME NEW w \in Seq(Durations), NEW s \in Seq(Durations), Ends(w, s), NEW d \in Durations
  PROVE  Ends(Push(w, d), Append(s, d))
<1>1. PICK t : t = Append(s, d)
  OBVIOUS
<1>2. PICK p : p = Push(w, d)
  OBVIOUS
<1>3. PICK m, n, size : m = Len(w) /\ n = Len(s) /\ size = WindowSize
  OBVIOUS
<1>4. m \in Nat /\ n \in Nat /\ size \in Nat /\ size >= 1
  BY <1>3, Bounds
<1>5. /\ Len(t) = n + 1 /\ t[n + 1] = d
      /\ \A i \in 1..n : t[i] = s[i]
  BY <1>1, <1>3
<1>6. m = (IF n < size THEN n ELSE size) /\ \A i \in 1..m : w[i] = s[n - m + i]
  BY <1>3 DEF Ends
<1>7. CASE m < size
  <2>1. m = n
    BY <1>4, <1>6, <1>7
  <2>2. p = Append(w, d)
    BY <1>2, <1>3, <1>7 DEF Push
  <2>3. Len(p) = m + 1 /\ p[m + 1] = d /\ \A i \in 1..m : p[i] = w[i]
    BY <1>3, <2>2
  <2>4. ASSUME NEW i \in 1..(m + 1)
        PROVE  p[i] = t[i]
    <3>1. i = m + 1 \/ i \in 1..m
      BY <1>4
    <3>2. CASE i \in 1..m
      <4>1. w[i] = s[i]
        <5>1. n - m + i = i
          BY <1>4, <2>1, <3>2
        <5> QED BY <1>6, <3>2, <5>1
      <4> QED BY <1>5, <2>1, <2>3, <3>2, <4>1
    <3> QED BY <1>5, <2>1, <2>3, <3>1, <3>2
  <2>5. Len(p) = n + 1 /\ n + 1 <= size
    BY <1>4, <1>7, <2>1, <2>3
  <2>6. Len(p) = IF Len(t) < WindowSize THEN Len(t) ELSE WindowSize
    BY <1>3, <1>4, <1>5, <2>5
  <2>7. \A i \in 1..Len(p) : p[i] = t[Len(t) - Len(p) + i]
    <3>1. ASSUME NEW i \in 1..(n + 1) PROVE (n + 1) - (n + 1) + i = i
      BY <1>4
    <3> QED BY <1>5, <2>1, <2>4, <2>5, <3>1
  <2> QED BY <1>1, <1>2, <2>6, <2>7 DEF Ends
<1>8. CASE ~(m < size)
  <2>1. m = size /\ n >= m
    BY <1>4, <1>6, <1>8
  <2>2. p = Append(Tail(w), d)
    BY <1>2, <1>3, <1>8 DEF Push
  <2>3. Tail(w) \in Seq(Durations) /\ Len(Tail(w)) = m - 1
        /\ \A i \in 1..(m - 1) : Tail(w)[i] = w[i + 1]
    <3>1. m >= 1
      BY <1>4, <2>1
    <3>2. w # <<>>
      BY <1>3, <3>1
    <3>3. Tail(w) \in Seq(Durations) /\ Len(Tail(w)) = Len(w) - 1
          /\ \A i \in 1..(Len(w) - 1) : Tail(w)[i] = w[i + 1]
      BY <3>2, HeadTailProperties
    <3> QED BY <1>3, <3>3
  <2>4. Len(p) = m /\ p[m] = d /\ \A i \in 1..(m - 1) : p[i] = w[i + 1]
    <3>1. PICK tail : tail = Tail(w)
      OBVIOUS
    <3>2. /\ Len(p) = m - 1 + 1 /\ p[m - 1 + 1] = d
          /\ \A i \in 1..(m - 1) : p[i] = tail[i]
      BY <2>2, <2>3, <3>1
    <3>3. m - 1 + 1 = m
      BY <1>4
    <3> QED BY <2>3, <3>1, <3>2, <3>3
  <2>5. ASSUME NEW i \in 1..m
        PROVE  p[i] = t[n + 1 - m + i]
    <3>1. i = m \/ i \in 1..(m - 1)
      BY <1>4
    <3>2. CASE i = m
      <4>1. n + 1 - m + i = n + 1
        BY <1>4, <3>2
      <4> QED BY <1>5, <2>4, <3>2, <4>1
    <3>3. CASE i \in 1..(m - 1)
      <4>1. i + 1 \in 1..m /\ n - m + (i + 1) \in 1..n /\ n - m + (i + 1) = n + 1 - m + i
        BY <1>4, <2>1, <3>3
      <4>2. w[i + 1] = s[n - m + (i + 1)]
        BY <1>6, <4>1
      <4> QED BY <1>5, <2>4, <3>3, <4>1, <4>2
    <3> QED BY <3>1, <3>2, <3>3
  <2>6. Len(p) = IF Len(t) < WindowSize THEN Len(t) ELSE WindowSize
    BY <1>3, <1>4, <1>5, <2>1, <2>4
  <2>7. \A i \in 1..Len(p) : p[i] = t[Len(t) - Len(p) + i]
    <3>1. Len(t) = n + 1 /\ Len(p) = m
      BY <1>5, <2>4
    <3>2. ASSUME NEW i \in 1..Len(p)
          PROVE  p[i] = t[Len(t) - Len(p) + i]
      <4>1. i \in 1..m
        BY <3>1
      <4>2. p[i] = t[n + 1 - m + i]
        BY <2>5, <4>1
      <4>3. Len(t) - Len(p) + i = n + 1 - m + i
        BY <1>4, <3>1, <4>1
      <4> QED BY <4>2, <4>3, Zenon
    <3> QED BY <3>2
  <2> QED BY <1>1, <1>2, <2>6, <2>7 DEF Ends
<1> QED BY <1>7, <1>8

LEMMA WindowsStep ==
  ASSUME TypeInv, \A r \in Routes : Ends(window[r], seen[r]), [HttpNext]_<<vars, httpVars>>
  PROVE  \A r \in Routes : Ends(window'[r], seen'[r])
<1>1. CASE Silent
  BY <1>1 DEF Silent, vars
<1>2. ASSUME NEW q, NEW d, NEW code, Recorded(q, d, code), NEW r \in Routes
      PROVE  Ends(window'[r], seen'[r])
  <2>1. /\ window' = [window EXCEPT ![q] = Push(window[q], d)]
        /\ seen' = [seen EXCEPT ![q] = Append(seen[q], d)]
        /\ q \in Routes /\ d \in Durations
    BY <1>2 DEF Recorded, Observe
  <2>2. /\ window \in [Routes -> Seq(Durations)] /\ seen \in [Routes -> Seq(Durations)]
    BY DEF TypeInv, TypeOK
  <2>3. CASE r = q
    <3>1. window'[r] = Push(window[r], d) /\ seen'[r] = Append(seen[r], d)
      BY <2>1, <2>2, <2>3
    <3>2. window[r] \in Seq(Durations) /\ seen[r] \in Seq(Durations)
      BY <2>2
    <3> QED BY <2>1, <3>1, <3>2, PushKeepsTheEnd
  <2>4. CASE r # q
    <3>1. window'[r] = window[r] /\ seen'[r] = seen[r]
      BY <2>1, <2>2, <2>4
    <3> QED BY <3>1
  <2> QED BY <2>3, <2>4
<1> QED BY <1>1, <1>2, StepEffect DEF Arrived, Silent

LastOf(s) == {i \in DOMAIN s : i > Len(s) - WindowSize}
SlowerOf(s, v) == {i \in LastOf(s) : s[i] > v}

\* What the window's entry of rank `at` leaves above it in the history.
LEMMA TailOfTheHistory ==
  ASSUME NEW w \in Seq(Nat), NEW s \in Seq(Nat), Ends(w, s), w # <<>>,
         NEW at \in Nat, at < Len(w), NEW v, v = Sorted(w, at)
  PROVE  /\ \E i \in LastOf(s) : s[i] = v
         /\ Cardinality(LastOf(s)) = Len(w)
         /\ Cardinality(SlowerOf(s, v)) \in Nat
         /\ Cardinality(SlowerOf(s, v)) <= Len(w) - at - 1
<1>0. PICK recent, slower :
        /\ recent = LastOf(s) /\ recent = {i \in DOMAIN s : i > Len(s) - WindowSize}
        /\ slower = SlowerOf(s, v) /\ slower = {i \in recent : s[i] > v}
  BY DEF LastOf, SlowerOf
<1>1. PICK m, n, k : m = Len(w) /\ n = Len(s) /\ k = n - m
  OBVIOUS
<1>2. m \in Nat /\ n \in Nat /\ k \in Nat /\ m >= 1 /\ DOMAIN s = 1..n /\ DOMAIN w = 1..m
  <2>1. m \in Nat /\ n \in Nat /\ DOMAIN s = 1..n /\ DOMAIN w = 1..m
    BY <1>1
  <2>2. m >= 1
    <3>1. at < m
      BY <1>1
    <3> QED BY <2>1, <3>1
  <2>3. m <= n
    <3>1. m = IF n < WindowSize THEN n ELSE WindowSize
      BY <1>1 DEF Ends
    <3> QED BY <2>1, <3>1, Bounds
  <2> QED BY <1>1, <2>1, <2>2, <2>3
<1>3. \A i : i \in recent <=> i \in (k + 1)..n
  <2>1. m = IF n < WindowSize THEN n ELSE WindowSize
    BY <1>1 DEF Ends
  <2>2. \A i : i \in recent <=> i \in 1..n /\ i > n - WindowSize
    BY <1>0, <1>1, <1>2
  <2>3. \A i \in 1..n : i > n - WindowSize <=> i >= k + 1
    BY <1>1, <1>2, <2>1, Bounds
  <2> QED BY <1>2, <2>2, <2>3
<1>4. \A i \in 1..m : w[i] = s[k + i] /\ k + i \in (k + 1)..n
  <2>1. \A i \in 1..m : k + i \in (k + 1)..n
    BY <1>1, <1>2
  <2>2. ASSUME NEW i \in 1..m PROVE w[i] = s[k + i]
    <3>1. w[i] = s[Len(s) - Len(w) + i]
      BY <1>1 DEF Ends
    <3> QED BY <1>1, <3>1
  <2> QED BY <2>1, <2>2
<1>5. recent = (k + 1)..n
  BY <1>3
<1>6. IsFiniteSet(recent) /\ Cardinality(recent) = m
  <2>1. PICK a \in Int : a = k + 1
    BY <1>2
  <2>2. PICK b \in Int : b = n
    BY <1>2
  <2>3. IsFiniteSet(a..b) /\ Cardinality(a..b) = IF a > b THEN 0 ELSE b - a + 1
    BY FS_Interval
  <2>4. recent = a..b
    BY <1>5, <2>1, <2>2
  <2>5. (IF a > b THEN 0 ELSE b - a + 1) = m
    BY <1>1, <1>2, <2>1, <2>2
  <2> QED BY <2>3, <2>4, <2>5
<1>7. PICK j \in 1..m : v = w[j] /\ Cardinality(UpTo(w, v)) > at
  BY <1>2, SortedEntry
<1>8. \E i \in recent : s[i] = v
  BY <1>3, <1>4, <1>7
<1>9. PICK greater : greater = {i \in 1..m : w[i] > v}
  OBVIOUS
<1>10. /\ IsFiniteSet(greater) /\ Cardinality(greater) \in Nat
       /\ Cardinality(greater) <= m - at - 1
  <2>1. v \in Nat
    BY <1>2, <1>7
  <2>2. greater = (1..m) \ UpTo(w, v)
    <3>1. \A i \in 1..m : w[i] > v <=> ~(w[i] <= v)
      BY <1>2, <2>1
    <3> QED BY <1>2, <1>9, <3>1 DEF UpTo
  <2>3. PICK upto, all : upto = UpTo(w, v) /\ all = 1..m
    OBVIOUS
  <2>4. all \cap upto = upto
    BY <1>2, <2>3 DEF UpTo
  <2>5. IsFiniteSet(all) /\ Cardinality(all) = m /\ Cardinality(upto) \in Nat
    BY <1>1, <1>2, <2>3, EntriesFinite
  <2>6. IsFiniteSet(all \ upto) /\ Cardinality(all \ upto) = Cardinality(all) - Cardinality(all \cap upto)
    BY <2>5, FS_Difference
  <2>7. IsFiniteSet(greater) /\ Cardinality(greater) = m - Cardinality(upto)
    BY <2>2, <2>3, <2>4, <2>5, <2>6
  <2>8. Cardinality(upto) > at
    BY <1>7, <2>3
  <2>9. Cardinality(greater) \in Nat
    BY <2>7, FS_CardinalityType
  <2> QED BY <1>2, <2>5, <2>7, <2>8, <2>9
<1>11. IsFiniteSet(slower) /\ Cardinality(slower) \in Nat
  <2>1. slower \in SUBSET recent
    BY <1>0
  <2> QED BY <1>6, <2>1, FS_Subset, FS_CardinalityType
<1>12. Cardinality(slower) <= Cardinality(greater)
  <2>1. PICK f : f = [i \in slower |-> i - k]
    OBVIOUS
  <2>2. ASSUME NEW i \in slower
        PROVE  i \in Int /\ i - k \in 1..m /\ w[i - k] > v
    <3>1. i \in (k + 1)..n /\ s[i] > v
      BY <1>0, <1>5
    <3>2. i \in Int /\ i - k \in 1..m /\ k + (i - k) = i
      BY <1>1, <1>2, <3>1
    <3>3. w[i - k] = s[i]
      BY <1>4, <3>2
    <3> QED BY <3>1, <3>2, <3>3
  <2>3. f \in [slower -> greater]
    BY <1>9, <2>1, <2>2
  <2>4. \A i, l \in slower : f[i] = f[l] => i = l
    BY <1>2, <2>1, <2>2
  <2>5. f \in Injection(slower, greater)
    BY <2>3, <2>4 DEF Injection, IsInjective
  <2> QED BY <1>10, <2>5, FS_Injection
<1>13. Cardinality(slower) <= m - at - 1
  BY <1>2, <1>10, <1>11, <1>12
<1> QED BY <1>0, <1>1, <1>6, <1>8, <1>11, <1>13

\* The percentile shown is a duration of the last requests, and no more than the
\* percentile says took longer, for any window size and however many there were.
THEOREM P95IsOfTheTail == HttpSpec => []P95BoundsTheTail
<1> DEFINE Inv == \A r \in Routes : Ends(window[r], seen[r])
<1>1. HttpInit => Inv
  <2> SUFFICES ASSUME HttpInit, NEW r \in Routes PROVE Ends(window[r], seen[r])
    OBVIOUS
  <2>1. window[r] = <<>> /\ seen[r] = <<>>
    BY DEF HttpInit, Init
  <2>2. Len(<<>>) = 0 /\ 0 < WindowSize
    BY Bounds
  <2> QED BY <2>1, <2>2 DEF Ends
<1>2. TypeInv /\ Inv /\ [HttpNext]_<<vars, httpVars>> => Inv'
  BY WindowsStep
<1>3. TypeInv /\ Inv => P95BoundsTheTail
  <2> SUFFICES ASSUME TypeInv, Inv, NEW r \in Routes, seen[r] # <<>>
               PROVE  /\ \E i \in Recent(r) : seen[r][i] = P95(window[r])
                      /\ 20 * Cardinality({i \in Recent(r) : seen[r][i] > P95(window[r])})
                           <= (Cardinality(Recent(r)) - 1) + 19
    BY DEF P95BoundsTheTail
  <2>1. PICK w, s : w = window[r] /\ s = seen[r]
    OBVIOUS
  <2>2. w \in Seq(Nat) /\ s \in Seq(Nat) /\ s # <<>> /\ Ends(w, s)
    <3>1. w \in Seq(Durations) /\ s \in Seq(Durations)
      BY <2>1 DEF TypeInv, TypeOK
    <3> QED BY <2>1, <3>1, NaturalDurations
  <2>3. PICK m : m = Len(w)
    OBVIOUS
  <2>4. m \in Nat /\ m >= 1 /\ w # <<>>
    <3>1. Len(s) \in Nat /\ Len(s) # 0
      BY <2>2
    <3>2. m = IF Len(s) < WindowSize THEN Len(s) ELSE WindowSize
      BY <2>2, <2>3 DEF Ends
    <3>3. m \in Nat /\ m >= 1
      BY <3>1, <3>2, Bounds
    <3> QED BY <2>3, <3>3
  <2>5. PICK at : at = ((m - 1) * 95) \div 100
    OBVIOUS
  <2>6. at \in Nat /\ at < m /\ 100 * at <= 95 * (m - 1) /\ 95 * (m - 1) <= 100 * at + 99
    <3>1. PICK x \in Nat : x = m - 1
      BY <2>4
    <3>2. at = (x * 95) \div 100
      BY <2>5, <3>1
    <3>3. at \in Nat /\ 100 * at <= 95 * x /\ 95 * x <= 100 * at + 99
      BY <3>2
    <3> QED BY <2>4, <3>1, <3>3
  <2>7. PICK v : v = Sorted(w, at)
    OBVIOUS
  <2>8. /\ \E i \in LastOf(s) : s[i] = v
        /\ Cardinality(LastOf(s)) = m
        /\ Cardinality(SlowerOf(s, v)) \in Nat
        /\ Cardinality(SlowerOf(s, v)) <= m - at - 1
    BY <2>2, <2>3, <2>4, <2>6, <2>7, TailOfTheHistory
  <2>9. /\ P95(window[r]) = v /\ Recent(r) = LastOf(s)
        /\ {i \in Recent(r) : seen[r][i] > v} = SlowerOf(s, v)
    BY <2>1, <2>3, <2>4, <2>5, <2>7 DEF P95, Recent, LastOf, SlowerOf
  <2>10. PICK c : c = Cardinality(SlowerOf(s, v))
    OBVIOUS
  <2>11. 20 * c <= (m - 1) + 19
    BY <2>4, <2>6, <2>8, <2>10
  <2> QED BY <2>1, <2>8, <2>9, <2>10, <2>11
<1> HIDE DEF Inv
<1> QED BY <1>1, <1>2, <1>3, TypeInvariant, PTL DEF HttpSpec

-----------------------------------------------------------------------------
(***************************************************************************)
(* Who is shown the metrics pages, for any addresses, tokens and lists.    *)
(***************************************************************************)
Guard == INSTANCE MetricsAccess

LEMMA RangeOfConcat ==
  ASSUME NEW S, NEW a \in Seq(S), NEW b \in Seq(S)
  PROVE  Guard!Range(a \o b) = Guard!Range(a) \cup Guard!Range(b)
<1>1. ASSUME NEW x \in Guard!Range(a \o b) PROVE x \in Guard!Range(a) \cup Guard!Range(b)
  <2>1. PICK i \in DOMAIN (a \o b) : x = (a \o b)[i]
    BY <1>1 DEF Guard!Range
  <2>2. CASE i <= Len(a)
    BY <2>1, <2>2 DEF Guard!Range
  <2>3. CASE i > Len(a)
    <3>1. i - Len(a) \in DOMAIN b /\ x = b[i - Len(a)]
      BY <2>1, <2>3
    <3> QED BY <3>1 DEF Guard!Range
  <2> QED BY <2>1, <2>2, <2>3
<1>2. ASSUME NEW x \in Guard!Range(a) PROVE x \in Guard!Range(a \o b)
  <2>1. PICK i \in DOMAIN a : x = a[i]
    BY <1>2 DEF Guard!Range
  <2>2. i \in DOMAIN (a \o b) /\ (a \o b)[i] = x
    BY <2>1
  <2> QED BY <2>2 DEF Guard!Range
<1>3. ASSUME NEW x \in Guard!Range(b) PROVE x \in Guard!Range(a \o b)
  <2>1. PICK i \in DOMAIN b : x = b[i]
    BY <1>3 DEF Guard!Range
  <2>2. i + Len(a) \in DOMAIN (a \o b) /\ (a \o b)[i + Len(a)] = x
    BY <2>1
  <2> QED BY <2>2 DEF Guard!Range
<1> QED BY <1>1, <1>2, <1>3

LEMMA AnsweredOk ==
  ASSUME NEW list, NEW q, NEW enabled \in BOOLEAN, NEW mode, NEW token
  PROVE  Guard!Access(enabled, list, mode, token, q) = 200
           <=> enabled /\ Guard!InAllowlist(list, q) /\ Guard!Admitted(mode, token, q)
<1>1. CASE enabled /\ Guard!InAllowlist(list, q) /\ Guard!Admitted(mode, token, q)
  BY <1>1 DEF Guard!Access
<1>2. CASE enabled /\ ~(Guard!InAllowlist(list, q) /\ Guard!Admitted(mode, token, q))
  <2>1. Guard!Access(enabled, list, mode, token, q) = 401
    BY <1>2 DEF Guard!Access
  <2>2. Guard!Access(enabled, list, mode, token, q) # 200
    BY <2>1
  <2> QED BY <1>2, <2>2, Zenon
<1>3. CASE ~enabled
  <2>1. Guard!Access(enabled, list, mode, token, q) = 404
    BY <1>3 DEF Guard!Access
  <2>2. Guard!Access(enabled, list, mode, token, q) # 200
    BY <2>1
  <2> QED BY <1>3, <2>2, Zenon
<1> QED BY <1>1, <1>2, <1>3

\* An entry that is no network changes no answer, wherever it stands in the list
\* ("ignore malformed entries instead of crashing the app").
THEOREM MalformedIsIgnored ==
  ASSUME NEW a \in Guard!Allowlist, NEW b \in Guard!Allowlist, NEW q \in Guard!Caller,
         NEW enabled \in BOOLEAN, NEW mode \in STRING, NEW token \in STRING
  PROVE  Guard!Access(enabled, a \o <<Malformed>> \o b, mode, token, q)
           = Guard!Access(enabled, a \o b, mode, token, q)
<1> DEFINE m == <<Malformed>>
<1>1. m \in Guard!Allowlist /\ Guard!Range(m) = {Malformed}
  BY DEF Guard!Range, Guard!Allowlist
<1> HIDE DEF m
<1>2. a \o m \in Guard!Allowlist
  BY <1>1 DEF Guard!Allowlist
<1>3. Guard!Range((a \o m) \o b) = Guard!Range(a) \cup {Malformed} \cup Guard!Range(b)
  <2>1. Guard!Range(a \o m) = Guard!Range(a) \cup {Malformed}
    BY <1>1, RangeOfConcat DEF Guard!Allowlist
  <2> DEFINE am == a \o m
  <2>2. am \in Guard!Allowlist
    BY <1>2
  <2> HIDE DEF am
  <2>3. Guard!Range(am \o b) = Guard!Range(am) \cup Guard!Range(b)
    BY <2>2, RangeOfConcat DEF Guard!Allowlist
  <2> QED BY <2>1, <2>3 DEF am
<1>4. Guard!Range(a \o b) = Guard!Range(a) \cup Guard!Range(b)
  BY RangeOfConcat DEF Guard!Allowlist
<1>5. Guard!Networks((a \o m) \o b) = Guard!Networks(a \o b)
  BY <1>3, <1>4 DEF Guard!Networks
<1> DEFINE with == (a \o m) \o b
           without == a \o b
<1>6. Guard!Networks(with) = Guard!Networks(without)
  BY <1>5
<1> HIDE DEF with, without
<1>7. Guard!InAllowlist(with, q) <=> Guard!InAllowlist(without, q)
  BY <1>6 DEF Guard!InAllowlist
<1>8. Guard!Access(enabled, with, mode, token, q) = Guard!Access(enabled, without, mode, token, q)
  BY <1>7, Zenon DEF Guard!Access
<1> QED BY <1>8 DEF m, with, without

\* A list of nothing but such entries is no list: it closes the page to nobody
\* (`if not networks: return True`).
THEOREM OnlyMalformedIsNone ==
  ASSUME NEW list \in Guard!Allowlist, Guard!Range(list) \subseteq {Malformed}, NEW q \in Guard!Caller,
         NEW enabled \in BOOLEAN, NEW mode \in STRING, NEW token \in STRING
  PROVE  Guard!Access(enabled, list, mode, token, q) = Guard!Access(enabled, <<>>, mode, token, q)
<1>1. Guard!Networks(list) = {} /\ Guard!Networks(<<>>) = {}
  BY DEF Guard!Networks, Guard!Range
<1>2. Guard!InAllowlist(list, q) /\ Guard!InAllowlist(<<>>, q)
  BY <1>1 DEF Guard!InAllowlist
<1> QED BY <1>2, Zenon DEF Guard!Access

\* The first network closes the page to the others; every further entry, before or
\* after it, admits at least those admitted so far, so that the order of entries never
\* matters (any() of _is_client_in_allowlist).
THEOREM MoreNetworksAdmitMore ==
  ASSUME NEW a \in Guard!Allowlist, NEW b \in Guard!Allowlist, NEW q \in Guard!Caller,
         NEW enabled \in BOOLEAN, NEW mode \in STRING, NEW token \in STRING,
         Guard!Networks(a) # {}, Guard!Access(enabled, a, mode, token, q) = 200
  PROVE  /\ Guard!Access(enabled, a \o b, mode, token, q) = 200
         /\ Guard!Access(enabled, b \o a, mode, token, q) = 200
<1>1. enabled /\ Guard!InAllowlist(a, q) /\ Guard!Admitted(mode, token, q)
  BY AnsweredOk
<1>2. PICK net \in Guard!Networks(a) : Guard!Ip(q) \in net
  BY <1>1 DEF Guard!InAllowlist
<1>3. net \in Guard!Networks(a \o b) /\ net \in Guard!Networks(b \o a)
  BY <1>2, RangeOfConcat DEF Guard!Networks, Guard!Allowlist
<1>4. Guard!InAllowlist(a \o b, q) /\ Guard!InAllowlist(b \o a, q)
  BY <1>2, <1>3 DEF Guard!InAllowlist
<1> QED BY <1>1, <1>4, AnsweredOk

\* The combined mode answers those that either of its parts would, whatever the
\* allowlist, and a token that is not set lets nobody in (_metrics_auth_mode).
THEOREM CombinedIsEither ==
  ASSUME NEW list \in Guard!Allowlist, NEW q \in Guard!Caller, NEW enabled \in BOOLEAN, NEW token \in STRING
  PROVE  /\ Guard!Access(enabled, list, "token_or_localhost", token, q) = 200
              <=> \E mode \in {"token", "localhost"} : Guard!Access(enabled, list, mode, token, q) = 200
         /\ token = "" => Guard!Access(enabled, list, "token", token, q) # 200
<1>1. Guard!Admitted("token_or_localhost", token, q)
        <=> Guard!Admitted("token", token, q) \/ Guard!Admitted("localhost", token, q)
  BY DEF Guard!Admitted
<1>2. token = "" => ~Guard!Admitted("token", token, q)
  BY DEF Guard!Admitted, Guard!TokenMatches
<1>3. \A mode : Guard!Access(enabled, list, mode, token, q) = 200
                <=> enabled /\ Guard!InAllowlist(list, q) /\ Guard!Admitted(mode, token, q)
  BY AnsweredOk
<1> QED BY <1>1, <1>2, <1>3, Zenon
=============================================================================
