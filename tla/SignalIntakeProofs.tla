------------------------- MODULE SignalIntakeProofs -------------------------
(***************************************************************************)
(* What the intake of signals promises of every delivery, whatever its     *)
(* pairs and however many: the inbox is the newest that were taken in, a   *)
(* header owns its signal, a text is read as the object it stands for and  *)
(* a useless value hides nothing.                                          *)
(***************************************************************************)
EXTENDS SignalIntake, SetSums, SequenceTheorems

\* The newest n of a history, newest first.
IsNewest(list, history) ==
  /\ Len(list) = IF Len(history) < InboxCap THEN Len(history) ELSE InboxCap
  /\ \A i \in 1..Len(list) : list[i] = history[Len(history) - i + 1]

\* What the last delivery was read as.
LastSignal == Signal(last.owner, Payload(last.body, last.pairs), arrived)

\* Symbol and side were found.
Found(signal) == signal.symbol \in STRING \ {""} /\ signal.side \in Sides

Signals ==
  {signal \in {Signal(d.owner, Payload(d.body, d.pairs), n) : d \in Deliveries, n \in Nat} :
     Found(signal)}

\* The answer of the last delivery is that of what it was read as, unless its match
\* raised; what was answered with 202 is at the head of the inbox.
Inv ==
  /\ inbox \in Seq(Signals) /\ accepted \in Seq(Signals)
  /\ IsNewest(inbox, accepted)
  /\ arrived \in Nat /\ Len(accepted) <= arrived /\ arrived <= MaxDeliveries
  /\ last \in Deliveries \cup {None}
  /\ last = None => answer = None
  /\ last # None => answer \in {Status(last, LastSignal), 500}
  /\ answer = 202 => inbox # <<>> /\ inbox[1] = LastSignal

-----------------------------------------------------------------------------
LEMMA Constants ==
  /\ InboxCap \in Nat \ {0} /\ MaxDeliveries \in Nat
  /\ None \notin Int /\ None \notin STRING /\ None \notin Pair /\ None \notin Delivery
  /\ Deliveries \subseteq Delivery
  BY SignalIntakeConstants DEF SignalIntakeConstants

LEMMA EmptyIsNoNumber == "" \notin DOMAIN Numbers
  BY SignalIntakeConstants DEF SignalIntakeConstants

\* What a delivery brings.
LEMMA Brought ==
  ASSUME NEW d \in Deliveries
  PROVE  /\ d.pairs \in Seq(Pair \cup {None}) /\ d.body \in Bodies
         /\ \A i \in DOMAIN d.pairs : d.pairs[i] # None =>
              /\ d.pairs[i] \in Pair
              /\ d.body = "text" => d.pairs[i].value # None
              /\ d.body # "text" /\ d.pairs[i].value # None => ~d.pairs[i].value.quoted
<1>1. d \in Delivery
  BY Constants
<1>2. d.pairs \in Seq(Pair \cup {None}) /\ d.body \in Bodies
  BY <1>1 DEF Delivery
<1>3. \A pair \in Range(d.pairs) \ {None} :
        IF d.body = "text" THEN pair.value # None
        ELSE pair.value # None => ~pair.value.quoted
  BY SignalIntakeConstants DEF SignalIntakeConstants
<1>4. ASSUME NEW i \in DOMAIN d.pairs, d.pairs[i] # None
      PROVE  /\ d.pairs[i] \in Pair
             /\ d.body = "text" => d.pairs[i].value # None
             /\ d.body # "text" /\ d.pairs[i].value # None => ~d.pairs[i].value.quoted
  <2>1. d.pairs[i] \in Range(d.pairs) \ {None}
    BY <1>4 DEF Range
  <2>2. d.pairs[i] \in Pair
    BY <1>2, <1>4
  <2>. QED
    BY <1>3, <2>1, <2>2
<1>. QED
  BY <1>2, <1>4

\* What Max and Min choose.
LEMMA MaxIsGreatest ==
  ASSUME NEW T, IsFiniteSet(T), T # {}, T \subseteq Int
  PROVE  Max(T) \in T /\ \A y \in T : Max(T) >= y
<1>1. PICK x \in T : \A y \in T : x >= y
  <2>1. PICK x \in T : \A y \in T : y <= x
    BY GreatestNumber
  <2>2. \A y \in T : x >= y
    BY <2>1
  <2>. QED
    BY <2>2
<1>. QED
  BY <1>1, Zenon DEF Max

LEMMA MinIsMember ==
  ASSUME NEW T, IsFiniteSet(T), T # {}, T \subseteq Int
  PROVE  Min(T) \in T
<1>1. PICK x \in T : \A y \in T : x =< y
  BY LeastNumber
<1>. QED
  BY <1>1, Zenon DEF Min

\* The pairs a payload is read from.
Pairs == Seq(Pair \cup {None})

LEMMA UsesAreFinite ==
  ASSUME NEW p \in Pairs, NEW k
  PROVE  IsFiniteSet(Uses(p, k)) /\ Uses(p, k) \subseteq Int
<1>1. DOMAIN p = 1..Len(p) /\ Len(p) \in Int /\ 1 \in Int
  BY DEF Pairs
<1>2. IsFiniteSet(1..Len(p))
  BY <1>1, FS_Interval
<1>3. Uses(p, k) \subseteq 1..Len(p)
  BY <1>1 DEF Uses
<1>. QED
  BY <1>1, <1>2, <1>3, FS_Subset

\* An object has the keys that are used, and under each the value of its last use.
LEMMA LastUseCounts ==
  ASSUME NEW p \in Pairs
  PROVE  /\ \A k : k \in DOMAIN Object(p) <=> Uses(p, k) # {}
         /\ \A k \in DOMAIN Object(p) : Object(p)[k] = p[Max(Uses(p, k))].value
<1>1. PICK asked : asked = {i \in DOMAIN p : Asked(p[i])}
  OBVIOUS
<1>2. PICK K : K = {p[i].key : i \in asked}
  OBVIOUS
<1>3. Object(p) = [k \in K |-> p[Max(Uses(p, k))].value]
  BY <1>1, <1>2, Zenon DEF Object
<1>4. \A k : k \in K <=> Uses(p, k) # {}
  BY <1>1, <1>2 DEF Uses
<1>. QED
  BY <1>3, <1>4

\* What is left of a line.
Stripped(pair) ==
  [key |-> pair.key, capitals |-> FALSE,
   value |-> [text |-> pair.value.text, padded |-> FALSE, quoted |-> FALSE]]

LEMMA TextIsStripped ==
  ASSUME NEW pair \in Pair, pair.value # None
  PROVE  /\ AsText(pair) = Stripped(pair)
         /\ [pair EXCEPT !.capitals = FALSE,
                         !.value = [text |-> @.text, padded |-> FALSE, quoted |-> FALSE]]
              = Stripped(pair)
<1>1. PICK key, capitals, value : pair = [key |-> key, capitals |-> capitals, value |-> value]
  BY DEF Pair
<1>2. value \in [text : STRING, padded : BOOLEAN, quoted : BOOLEAN]
  BY <1>1 DEF Pair, Value
<1>3. PICK text, padded, quoted :
        value = [text |-> text, padded |-> padded, quoted |-> quoted]
  BY <1>2
<1>4. pair.key = key /\ pair.value = value /\ pair.value.text = text
  BY <1>1, <1>3
<1>5. PICK v : v = [text |-> text, padded |-> FALSE, quoted |-> FALSE]
  OBVIOUS
<1>6. Stripped(pair) = [key |-> key, capitals |-> FALSE, value |-> v]
  BY <1>4, <1>5 DEF Stripped
<1>7. PICK a : a = [pair EXCEPT !.capitals = FALSE]
  OBVIOUS
<1>8. a = [key |-> key, capitals |-> FALSE, value |-> value] /\ a.value = value
  BY <1>1, <1>7
<1>9. [pair EXCEPT !.capitals = FALSE,
                   !.value = [text |-> @.text, padded |-> FALSE, quoted |-> FALSE]]
        = [key |-> key, capitals |-> FALSE, value |-> v]
  <2>1. PICK c : c = [a EXCEPT !.value = v]
    OBVIOUS
  <2>2. c = [key |-> key, capitals |-> FALSE, value |-> v]
    BY <1>8, <2>1
  <2>3. [a EXCEPT !.value = [text |-> @.text, padded |-> FALSE, quoted |-> FALSE]]
          = [a EXCEPT !.value = v]
    BY <1>4, <1>5, <1>8
  <2>. QED
    BY <1>7, <2>2, <2>3, <2>1
<1>10. AsText(pair) = [key |-> key, capitals |-> FALSE, value |-> v]
  <2>1. PICK w : w = [value EXCEPT !.padded = FALSE]
    OBVIOUS
  <2>2. w = [text |-> text, padded |-> FALSE, quoted |-> quoted]
    BY <1>3, <2>1
  <2>3. PICK b : b = [a EXCEPT !.value = w]
    OBVIOUS
  <2>4. b = [key |-> key, capitals |-> FALSE, value |-> w] /\ b.value = w
    BY <1>8, <2>3
  <2>5. b = [a EXCEPT !.value.padded = FALSE]
    BY <1>8, <2>1, <2>3
  <2>6. PICK u : u = [w EXCEPT !.quoted = FALSE]
    OBVIOUS
  <2>7. u = v
    <3>1. u = [text |-> text, padded |-> FALSE, quoted |-> FALSE]
      BY <2>2, <2>6
    <3>. QED
      BY <1>5, <3>1
  <2>8. PICK c : c = [b EXCEPT !.value = v]
    OBVIOUS
  <2>9. c = [key |-> key, capitals |-> FALSE, value |-> v]
    BY <2>4, <2>8
  <2>10. [b EXCEPT !.value.quoted = FALSE] = c
    BY <2>4, <2>6, <2>7, <2>8
  <2>. QED
    BY <1>7, <2>5, <2>9, <2>10 DEF AsText
<1>. QED
  BY <1>6, <1>9, <1>10

LEMMA LinesArePairs ==
  ASSUME NEW d \in Deliveries, d.body = "text"
  PROVE  /\ Lines(d.pairs) \in Pairs /\ DOMAIN Lines(d.pairs) = DOMAIN d.pairs
         /\ \A i \in DOMAIN d.pairs :
              /\ Lines(d.pairs)[i] = None <=> d.pairs[i] = None
              /\ d.pairs[i] # None => Lines(d.pairs)[i] = Stripped(d.pairs[i])
<1>1. PICK p : p = d.pairs
  OBVIOUS
<1>2. PICK lines : lines = Lines(p)
  OBVIOUS
<1>3. p \in Pairs /\ DOMAIN p = 1..Len(p) /\ Len(p) \in Nat
  BY <1>1, Brought DEF Pairs
<1>4. lines = [i \in 1..Len(p) |-> IF p[i] = None THEN None ELSE AsText(p[i])]
  BY <1>2, <1>3 DEF Lines
<1>5. ASSUME NEW i \in 1..Len(p), p[i] # None
      PROVE  AsText(p[i]) = Stripped(p[i]) /\ Stripped(p[i]) \in Pair
  <2>1. p[i] \in Pair /\ p[i].value # None
    BY <1>1, <1>3, <1>5, Brought
  <2>2. AsText(p[i]) = Stripped(p[i])
    BY <2>1, TextIsStripped
  <2>3. p[i].key \in STRING /\ p[i].value.text \in STRING
    BY <2>1 DEF Pair, Value
  <2>4. Stripped(p[i]) \in Pair
    BY <2>3 DEF Stripped, Pair, Value
  <2>. QED
    BY <2>2, <2>4
<1>6. ASSUME NEW i \in 1..Len(p)
      PROVE  /\ lines[i] \in Pair \cup {None}
             /\ lines[i] = None <=> p[i] = None
             /\ p[i] # None => lines[i] = Stripped(p[i])
  BY <1>4, <1>5, Constants
<1>7. lines \in Pairs /\ DOMAIN lines = 1..Len(p)
  BY <1>3, <1>4, <1>6 DEF Pairs
<1>. QED
  BY <1>1, <1>2, <1>3, <1>6, <1>7

\* A text and the object it stands for are one payload.
LEMMA OnePayload ==
  ASSUME NEW d \in Deliveries, d.body = "text"
  PROVE  Payload("text", d.pairs) = Payload("object", Plain(d.pairs))
<1>1. ASSUME NEW i \in DOMAIN d.pairs
      PROVE  (IF d.pairs[i] = None THEN None ELSE AsText(d.pairs[i]))
               = (IF d.pairs[i] = None THEN None
                  ELSE [d.pairs[i] EXCEPT !.capitals = FALSE,
                          !.value = [text |-> @.text, padded |-> FALSE, quoted |-> FALSE]])
  BY Brought, TextIsStripped
<1>2. Lines(d.pairs) = Plain(d.pairs)
  BY <1>1, Zenon DEF Lines, Plain
<1>. QED
  BY <1>2 DEF Payload, Parsed

\* The places of the keys whose value passes each of the three tests.
TruthyAt(payload, keys) ==
  {n \in 1..Len(keys) : keys[n] \in DOMAIN payload /\ Truthy(payload[keys[n]])}
TextAt(payload, keys) ==
  {n \in 1..Len(keys) : keys[n] \in DOMAIN payload /\ HasText(payload[keys[n]])}
NumberAt(payload, keys) ==
  {n \in 1..Len(keys) : keys[n] \in DOMAIN payload /\ Readable(payload[keys[n]])}

\* The value at the first of the places.
FirstAt(payload, keys, places) ==
  LET n == IF places # {} THEN Min(places) ELSE 0
  IN  IF n = 0 THEN None ELSE payload[keys[n]]

LEMMA FirstOfPlaces ==
  ASSUME NEW payload, NEW keys
  PROVE  /\ FirstTruthy(payload, keys) = FirstAt(payload, keys, TruthyAt(payload, keys))
         /\ FirstText(payload, keys) = Text(FirstAt(payload, keys, TextAt(payload, keys)))
         /\ Number(payload, keys)
              = LET v == FirstAt(payload, keys, NumberAt(payload, keys))
                IN  IF v = None THEN None ELSE Numbers[v.text]
<1>1. FirstTruthy(payload, keys) = FirstAt(payload, keys, TruthyAt(payload, keys))
  BY DEF FirstTruthy, FirstWith, SelectInSeq, FirstAt, TruthyAt
<1>2. FirstText(payload, keys) = Text(FirstAt(payload, keys, TextAt(payload, keys)))
  BY DEF FirstText, FirstWith, SelectInSeq, FirstAt, TextAt
<1>3. Number(payload, keys)
        = LET v == FirstAt(payload, keys, NumberAt(payload, keys))
          IN  IF v = None THEN None ELSE Numbers[v.text]
  BY DEF Number, FirstWith, SelectInSeq, FirstAt, NumberAt
<1>. QED
  BY <1>1, <1>2, <1>3

\* Two payloads that agree at the places have the same first value.
LEMMA SameFirst ==
  ASSUME NEW P, NEW Q, NEW keys, Len(keys) \in Nat,
         NEW places, places \subseteq 1..Len(keys),
         \A n \in places : P[keys[n]] = Q[keys[n]]
  PROVE  FirstAt(P, keys, places) = FirstAt(Q, keys, places)
<1>1. PICK n : n = IF places # {} THEN Min(places) ELSE 0
  OBVIOUS
<1>2. ASSUME n # 0
      PROVE  P[keys[n]] = Q[keys[n]]
  <2>1. places # {} /\ n = Min(places)
    BY <1>1, <1>2
  <2>2. IsFiniteSet(1..Len(keys))
    <3>1. 1 \in Int /\ Len(keys) \in Int
      OBVIOUS
    <3>. QED
      BY <3>1, FS_Interval
  <2>3. IsFiniteSet(places)
    BY <2>2, FS_Subset
  <2>4. places \subseteq Int
    OBVIOUS
  <2>. QED
    BY <2>1, <2>3, <2>4, MinIsMember
<1>. QED
  BY <1>1, <1>2 DEF FirstAt

-----------------------------------------------------------------------------
\* What is answered with 422.
Unread(d) ==
  \/ d.body \in {"empty", "other_json", "broken_json"}
  \/ d.body = "text" /\ DOMAIN Parsed(d.pairs) = {}
Nameless(signal) == signal.symbol = "" \/ signal.side = None

LEMMA StatusCases ==
  ASSUME NEW d, NEW signal
  PROVE  Status(d, signal) = IF ~Entitled(d) THEN 401
                             ELSE IF Unread(d) \/ Nameless(signal) THEN 422
                             ELSE IF signal.max_lag_seconds = Infinite THEN 500
                             ELSE 202
  BY DEF Status, Unread, Nameless

\* Two deliveries of bodies that were read answer alike.
LEMMA SameAnswers ==
  ASSUME NEW d, NEW e, NEW signal, Entitled(d) <=> Entitled(e),
         Unread(d) \/ Nameless(signal) <=> Unread(e) \/ Nameless(signal)
  PROVE  Status(d, signal) = Status(e, signal)
<1>1. CASE ~Entitled(e)
  BY <1>1, StatusCases
<1>2. CASE Entitled(e) /\ (Unread(e) \/ Nameless(signal))
  BY <1>2, StatusCases
<1>3. CASE Entitled(e) /\ ~(Unread(e) \/ Nameless(signal))
  BY <1>3, StatusCases
<1>. QED
  BY <1>1, <1>2, <1>3

\* What is found under a key of an object is what one of its pairs says.
LEMMA ValuesAreTexts ==
  ASSUME NEW p \in Pairs, NEW keys, Len(keys) \in Nat, NEW v,
         v = FirstTruthy(Object(p), keys), v # None
  PROVE  v.text \in STRING
<1>1. PICK payload : payload = Object(p)
  OBVIOUS
<1>2. PICK places : places = TruthyAt(payload, keys)
  OBVIOUS
<1>3. IsFiniteSet(places) /\ places \subseteq Int
  <2>1. 1 \in Int /\ Len(keys) \in Int
    OBVIOUS
  <2>2. IsFiniteSet(1..Len(keys))
    BY <2>1, FS_Interval
  <2>3. places \subseteq 1..Len(keys)
    BY <1>2 DEF TruthyAt
  <2>4. IsFiniteSet(places)
    BY <2>2, <2>3, FS_Subset
  <2>5. places \subseteq Int
    BY <2>3
  <2>. QED
    BY <2>4, <2>5
<1>4. v = FirstAt(payload, keys, places)
  BY <1>1, <1>2, FirstOfPlaces
<1>5. places # {} /\ v = payload[keys[Min(places)]]
  BY <1>4 DEF FirstAt
<1>6. Min(places) \in places
  BY <1>3, <1>5, MinIsMember
<1>7. PICK k \in DOMAIN payload : v = payload[k]
  BY <1>2, <1>5, <1>6 DEF TruthyAt
<1>8. v = p[Max(Uses(p, k))].value /\ Uses(p, k) # {}
  BY <1>1, <1>7, LastUseCounts
<1>9. Max(Uses(p, k)) \in Uses(p, k)
  BY <1>8, UsesAreFinite, MaxIsGreatest
<1>10. PICK i \in DOMAIN p : p[i] # None /\ v = p[i].value
  BY <1>8, <1>9 DEF Uses, Asked
<1>11. p[i] \in Pair
  <2>1. PICK S : S = Pair \cup {None}
    OBVIOUS
  <2>2. p \in Seq(S)
    BY <2>1 DEF Pairs
  <2>3. p[i] \in S
    BY <2>2
  <2>. QED
    BY <1>10, <2>1, <2>3
<1>. QED
  BY <1>10, <1>11 DEF Pair, Value

\* What is taken in has a symbol and a side.
LEMMA TakenAreFound ==
  ASSUME NEW d \in Deliveries, NEW n, NEW signal,
         signal = Signal(d.owner, Payload(d.body, d.pairs), n), Status(d, signal) = 202
  PROVE  Found(signal)
<1>1. ~Nameless(signal)
  BY StatusCases
<1>2. PICK payload : payload = Payload(d.body, d.pairs)
  OBVIOUS
<1>3. /\ signal.symbol = Text(FirstTruthy(payload, SymbolKeys))
      /\ signal.side = Side(Text(FirstTruthy(payload, SideKeys)))
  BY <1>2 DEF Signal
<1>4. signal.symbol # "" /\ signal.side # None
  BY <1>1 DEF Nameless
<1>5. signal.side \in Sides
  <2>1. PICK token : token = Text(FirstTruthy(payload, SideKeys))
    OBVIOUS
  <2>2. Side(token) # None
    BY <1>3, <1>4, <2>1
  <2>3. Side(token) \in Sides
    BY <2>2 DEF Side, Sides
  <2>. QED
    BY <1>3, <2>1, <2>3
<1>6. PICK p \in Pairs : payload = Object(p)
  <2>1. CASE d.body = "text"
    BY <1>2, <2>1, LinesArePairs DEF Payload, Parsed
  <2>2. CASE d.body # "text"
    BY <1>2, <2>2, Brought DEF Payload, Pairs
  <2>. QED
    BY <2>1, <2>2
<1>7. signal.symbol \in STRING
  <2>1. PICK keys : keys = SymbolKeys
    OBVIOUS
  <2>2. Len(keys) \in Nat
    BY <2>1 DEF SymbolKeys
  <2>3. PICK v : v = FirstTruthy(Object(p), keys)
    OBVIOUS
  <2>4. signal.symbol = Text(v)
    BY <1>3, <1>6, <2>1, <2>3
  <2>5. v # None /\ signal.symbol = v.text
    BY <1>4, <2>4 DEF Text
  <2>. QED
    BY <2>2, <2>3, <2>5, ValuesAreTexts
<1>. QED
  BY <1>4, <1>5, <1>7 DEF Found

\* Taking one more in keeps the newest.
LEMMA KeptAreNewest ==
  ASSUME NEW S, NEW list \in Seq(S), NEW history \in Seq(S), NEW s \in S,
         IsNewest(list, history)
  PROVE  /\ Kept(<<s>> \o list) \in Seq(S) /\ Kept(<<s>> \o list) # <<>>
         /\ Kept(<<s>> \o list)[1] = s
         /\ IsNewest(Kept(<<s>> \o list), Append(history, s))
<1>. DEFINE more == <<s>> \o list
            now == Append(history, s)
<1>1. InboxCap \in Nat \ {0}
  BY Constants
<1>2. /\ more \in Seq(S) /\ Len(more) = Len(list) + 1
      /\ \A i \in 1..(Len(list) + 1) : more[i] = IF i = 1 THEN s ELSE list[i - 1]
  <2>1. <<s>> \in Seq(S) /\ Len(<<s>>) = 1 /\ <<s>>[1] = s
    OBVIOUS
  <2>2. /\ more \in Seq(S) /\ Len(more) = 1 + Len(list)
        /\ \A i \in 1..(1 + Len(list)) : more[i] = IF i <= 1 THEN <<s>>[i] ELSE list[i - 1]
    BY <2>1, ConcatProperties
  <2>. QED
    BY <2>1, <2>2
<1>3. /\ now \in Seq(S) /\ Len(now) = Len(history) + 1
      /\ \A i \in 1..Len(history) : now[i] = history[i]
      /\ now[Len(history) + 1] = s
  BY AppendProperties
<1>4. Len(list) \in Nat /\ Len(history) \in Nat
  OBVIOUS
<1>. HIDE DEF more, now
<1>5. PICK kept : kept = Kept(more)
  OBVIOUS
<1>6. /\ kept \in Seq(S)
      /\ Len(kept) = IF Len(more) <= InboxCap THEN Len(more) ELSE Len(more) - 1
      /\ \A i \in 1..Len(kept) : kept[i] = more[i]
  <2>1. CASE Len(more) <= InboxCap
    BY <1>2, <1>5, <2>1 DEF Kept
  <2>2. CASE ~(Len(more) <= InboxCap)
    <3>1. kept = SubSeq(more, 1, Len(more) - 1)
      BY <1>5, <2>2 DEF Kept, Front
    <3>2. /\ kept \in Seq(S) /\ Len(kept) = Len(more) - 1
          /\ \A i \in 1..(Len(more) - 1) : kept[i] = more[i]
      BY <1>2, <1>4, <3>1, SubSeqProperties
    <3>. QED
      BY <2>2, <3>2
  <2>. QED
    BY <2>1, <2>2
<1>7. Len(kept) = IF Len(now) < InboxCap THEN Len(now) ELSE InboxCap
  BY <1>1, <1>2, <1>3, <1>4, <1>6 DEF IsNewest
<1>8. Len(kept) >= 1 /\ kept[1] = s
  BY <1>1, <1>2, <1>3, <1>4, <1>6, <1>7
<1>9. ASSUME NEW i \in 1..Len(kept)
      PROVE  kept[i] = now[Len(now) - i + 1]
  <2>1. CASE i = 1
    BY <1>3, <1>8, <2>1
  <2>2. CASE i # 1
    <3>1. kept[i] = list[i - 1] /\ i - 1 \in 1..Len(list)
      BY <1>2, <1>4, <1>6, <2>2
    <3>2. list[i - 1] = history[Len(history) - (i - 1) + 1]
      BY <3>1 DEF IsNewest
    <3>3. /\ Len(history) - (i - 1) + 1 \in 1..Len(history)
          /\ Len(now) - i + 1 = Len(history) - (i - 1) + 1
      BY <1>1, <1>3, <1>4, <3>1 DEF IsNewest
    <3>. QED
      BY <1>3, <3>1, <3>2, <3>3
  <2>. QED
    BY <2>1, <2>2
<1>10. IsNewest(kept, now)
  BY <1>7, <1>9 DEF IsNewest
<1>11. kept # <<>>
  BY <1>8
<1>12. Kept(more) \in Seq(S) /\ Kept(more) # <<>> /\ Kept(more)[1] = s /\ IsNewest(Kept(more), now)
  BY <1>5, <1>6, <1>8, <1>10, <1>11
<1>. QED
  BY <1>12 DEF more, now

LEMMA DeliverKeepsInv ==
  ASSUME Inv, NEW d \in Deliveries, NEW matchRaises \in BOOLEAN, Deliver(d, matchRaises)
  PROVE  Inv'
<1>1. PICK signal : signal = Signal(d.owner, Payload(d.body, d.pairs), arrived + 1)
  OBVIOUS
<1>2. /\ arrived' = arrived + 1
      /\ answer' \in {Status(d, signal), 500}
      /\ inbox' = IF Status(d, signal) = 202 THEN Kept(<<signal>> \o inbox) ELSE inbox
      /\ accepted' = IF Status(d, signal) = 202 THEN Append(accepted, signal) ELSE accepted
      /\ last' = d
  BY <1>1 DEF Deliver
<1>3. d # None
  BY Constants
<1>4. /\ Status(d, signal) = 202 => signal \in Signals
      /\ arrived' \in Nat /\ arrived' = arrived + 1 /\ arrived' <= MaxDeliveries
  <2>1. arrived + 1 \in Nat /\ arrived < MaxDeliveries
    BY DEF Inv, Deliver
  <2>2. ASSUME Status(d, signal) = 202
        PROVE  signal \in Signals
    <3>1. Found(signal)
      BY <1>1, <2>2, TakenAreFound
    <3>. QED
      BY <1>1, <2>1, <3>1 DEF Signals
  <2>3. arrived + 1 <= MaxDeliveries
    BY <2>1, Constants DEF Inv
  <2>. QED
    BY <1>2, <2>1, <2>2, <2>3
<1>5. LastSignal' = signal
  BY <1>1, <1>2 DEF LastSignal
<1>6. CASE Status(d, signal) = 202
  <2>1. /\ inbox' \in Seq(Signals) /\ inbox' # <<>> /\ inbox'[1] = signal
        /\ IsNewest(inbox', accepted')
    BY <1>2, <1>4, <1>6, KeptAreNewest DEF Inv
  <2>2. accepted' \in Seq(Signals) /\ Len(accepted') <= arrived'
    <3>1. accepted \in Seq(Signals) /\ Len(accepted) \in Nat /\ signal \in Signals
      BY <1>4, <1>6 DEF Inv
    <3>2. accepted' \in Seq(Signals) /\ Len(accepted') = Len(accepted) + 1
      BY <1>2, <1>6, <3>1, AppendProperties
    <3>. QED
      BY <1>4, <3>1, <3>2 DEF Inv
  <2>. QED
    BY <1>2, <1>3, <1>4, <1>5, <2>1, <2>2 DEF Inv
<1>7. CASE Status(d, signal) # 202
  <2>1. Len(accepted') <= arrived'
    BY <1>2, <1>4, <1>7 DEF Inv
  <2>. QED
    BY <1>2, <1>3, <1>4, <1>5, <1>7, <2>1 DEF Inv
<1>. QED
  BY <1>6, <1>7

LEMMA InvAlways == Spec => []Inv
<1>1. Init => Inv
  <2>. SUFFICES ASSUME Init
                PROVE  Inv
    OBVIOUS
  <2>1. inbox \in Seq(Signals) /\ accepted \in Seq(Signals) /\ Len(inbox) = 0 /\ Len(accepted) = 0
    BY DEF Init
  <2>2. IsNewest(inbox, accepted)
    BY <2>1, Constants DEF IsNewest
  <2>3. answer # 202
    BY Constants DEF Init
  <2>4. arrived \in Nat /\ Len(accepted) <= arrived /\ arrived <= MaxDeliveries
    BY <2>1, Constants DEF Init
  <2>. QED
    BY <2>1, <2>2, <2>3, <2>4 DEF Init, Inv
<1>2. Inv /\ [Next]_vars => Inv'
  <2>. SUFFICES ASSUME Inv, [Next]_vars
                PROVE  Inv'
    OBVIOUS
  <2>1. CASE UNCHANGED vars
    BY <2>1 DEF vars, Inv, LastSignal
  <2>. QED
    BY <2>1, DeliverKeepsInv DEF Next
<1>. QED
  BY <1>1, <1>2, PTL DEF Spec

\* Inbox and history hold signals with a symbol and a side, in an inbox that does not
\* outgrow its cap (the refusals of normalize_tradingview_signal).
THEOREM IntakeTypeCorrect == Spec => []TypeOK
<1>1. ASSUME Inv
      PROVE  TypeOK
  <2>1. inbox \in Seq(Signals) /\ accepted \in Seq(Signals)
    BY <1>1 DEF Inv
  <2>2. Range(inbox) \subseteq Signals /\ Range(accepted) \subseteq Signals
    BY <2>1 DEF Range
  <2>3. \A s \in Range(inbox) \cup Range(accepted) :
          s.symbol \in STRING \ {""} /\ s.side \in Sides
    <3>. TAKE s \in Range(inbox) \cup Range(accepted)
    <3>1. s \in Signals
      BY <2>2
    <3>2. Found(s)
      BY <3>1 DEF Signals
    <3>. QED
      BY <3>2 DEF Found
  <2>4. Len(inbox) <= InboxCap /\ arrived \in Len(accepted)..MaxDeliveries
    <3>1. Len(accepted) \in Nat /\ arrived \in Nat
      BY <1>1, <2>1 DEF Inv
    <3>. QED
      BY <1>1, <3>1, Constants DEF Inv, IsNewest
  <2>5. answer \in {None, 202, 401, 422, 500} /\ last \in Deliveries \cup {None}
    BY <1>1, StatusCases DEF Inv
  <2>. QED
    BY <2>3, <2>4, <2>5 DEF TypeOK
<1>. QED
  BY <1>1, InvAlways, PTL

\* The inbox is what was taken in, newest first, up to its cap: nothing is lost before
\* its time and a signal stays whose match raised, for any deliveries and any cap
\* (the raises before the insert, the cut after it, and the await after that).
THEOREM InboxIsTheNewest == Spec => []NewestAccepted
<1>1. Inv => NewestAccepted
  <2>. SUFFICES ASSUME Inv
                PROVE  NewestAccepted
    OBVIOUS
  <2>1. PICK n : n = IF Len(accepted) < InboxCap THEN Len(accepted) ELSE InboxCap
    OBVIOUS
  <2>2. PICK tail : tail = SubSeq(accepted, Len(accepted) - n + 1, Len(accepted))
    OBVIOUS
  <2>3. n \in Nat /\ Len(accepted) \in Nat /\ n <= Len(accepted)
    <3>1. Len(accepted) \in Nat
      BY DEF Inv
    <3>. QED
      BY <2>1, <3>1, Constants
  <2>4. /\ tail \in Seq(Signals) /\ Len(tail) = n
        /\ \A i \in 1..n : tail[i] = accepted[Len(accepted) - n + i]
    <3>1. accepted \in Seq(Signals)
      BY DEF Inv
    <3>2. PICK m \in 1..(Len(accepted) + 1) : m = Len(accepted) - n + 1
      BY <2>3
    <3>3. /\ tail \in Seq(Signals)
          /\ Len(tail) = IF m <= Len(accepted) THEN Len(accepted) - m + 1 ELSE 0
          /\ \A i \in 1..(Len(accepted) - m + 1) : tail[i] = accepted[m + i - 1]
      BY <2>2, <2>3, <3>1, <3>2, SubSeqProperties
    <3>4. Len(accepted) - m + 1 = n /\ \A i \in Int : m + i - 1 = Len(accepted) - n + i
      BY <2>3, <3>2
    <3>. QED
      BY <2>3, <3>2, <3>3, <3>4
  <2>5. Reverse(tail) = [i \in 1..n |-> tail[n - i + 1]]
    BY <2>4 DEF Reverse
  <2>6. /\ inbox \in Seq(Signals) /\ Len(inbox) = n
        /\ \A i \in 1..n : inbox[i] = accepted[Len(accepted) - i + 1]
    BY <2>1, <2>3 DEF Inv, IsNewest
  <2>7. ASSUME NEW i \in 1..n
        PROVE  inbox[i] = tail[n - i + 1]
    <3>1. n - i + 1 \in 1..n /\ Len(accepted) - n + (n - i + 1) = Len(accepted) - i + 1
      BY <2>3
    <3>. QED
      BY <2>4, <2>6, <3>1
  <2>8. inbox = [i \in 1..n |-> tail[n - i + 1]]
    BY <2>6, <2>7
  <2>. QED
    BY <2>1, <2>2, <2>5, <2>8 DEF NewestAccepted
<1>. QED
  BY <1>1, InvAlways, PTL

LEMMA OwnerOfSignal ==
  ASSUME NEW header, NEW payload, NEW fresh
  PROVE  Signal(header, payload, fresh).owner = Owner(header, payload)
  BY DEF Signal

\* A signal sent under an owner's header is listed to this owner and to nobody else,
\* whatever account the alert's text names (effective_owner_key).
THEOREM HeadersOwnTheirSignals == Spec => []HeaderOwnsTheSignal
<1>1. ASSUME Inv, answer = 202, last.owner \notin {None, ""}, NEW owner
      PROVE  1 \in Listed(owner) <=> owner = last.owner
  <2>1. inbox \in Seq(Signals) /\ inbox # <<>> /\ inbox[1] = LastSignal
    BY <1>1 DEF Inv
  <2>2. 1 \in DOMAIN inbox
    <3>1. Len(inbox) \in Nat \ {0}
      BY <2>1, EmptySeq
    <3>. QED
      BY <2>1, <3>1, LenProperties
  <2>3. inbox[1].owner = last.owner
    <3>1. PICK payload : payload = Payload(last.body, last.pairs)
      OBVIOUS
    <3>2. inbox[1].owner = Owner(last.owner, payload)
      BY <2>1, <3>1, OwnerOfSignal DEF LastSignal
    <3>. QED
      BY <1>1, <3>2 DEF Owner
  <2>. QED
    BY <1>1, <2>2, <2>3 DEF Listed
<1>2. Inv => HeaderOwnsTheSignal
  <2>1. PICK owners :
          owners = {d.owner : d \in Deliveries} \cup {v.text : v \in Named}
    OBVIOUS
  <2>2. ASSUME Inv, answer = 202, last.owner \notin {None, ""}
        PROVE  \A owner \in owners : 1 \in Listed(owner) <=> owner = last.owner
    <3>. TAKE owner \in owners
    <3>. QED
      BY <1>1, <2>2
  <2>. QED
    BY <2>1, <2>2, Zenon DEF HeaderOwnsTheSignal
<1>. QED
  BY <1>2, InvAlways, PTL

-----------------------------------------------------------------------------
\* Nothing is found where there is nothing.
LEMMA EmptyHasNoSymbol ==
  ASSUME NEW header, NEW payload, NEW n, DOMAIN payload = {}
  PROVE  Signal(header, payload, n).symbol = ""
<1>1. FirstTruthy(payload, SymbolKeys) = None
  BY DEF FirstTruthy, FirstWith, SelectInSeq
<1>2. Text(FirstTruthy(payload, SymbolKeys)) = ""
  BY <1>1 DEF Text
<1>. QED
  BY <1>2 DEF Signal

\* A text of key=value lines and the JSON object it stands for are one signal and
\* end alike, repeated keys, capitals, quotes and blanks included, whatever the lines
\* (_parse_key_value_payload against json.loads).
THEOREM TextsAreObjects == Spec => []TextIsItsObject
<1>1. ASSUME Inv, last # None, last.body = "text"
      PROVE  LET text == Signal(last.owner, Payload("text", last.pairs), 0)
                 object == Signal(last.owner, Payload("object", Plain(last.pairs)), 0)
             IN  /\ text = object
                 /\ Status(last, text) = Status([last EXCEPT !.body = "object"], object)
  <2>1. last \in Deliveries
    BY <1>1 DEF Inv
  <2>2. PICK payload : payload = Payload("text", last.pairs)
    OBVIOUS
  <2>3. payload = Payload("object", Plain(last.pairs)) /\ payload = Parsed(last.pairs)
    BY <1>1, <2>1, <2>2, OnePayload DEF Payload
  <2>4. PICK d : d = [last EXCEPT !.body = "object"]
    OBVIOUS
  <2>5. d.secret = last.secret /\ d.bearer = last.bearer /\ d.body = "object"
    <3>1. last \in Delivery
      BY <2>1, Constants
    <3>. QED
      BY <2>4, <3>1 DEF Delivery
  <2>6. DOMAIN payload = {} => Signal(last.owner, payload, 0).symbol = ""
    BY EmptyHasNoSymbol
  <2>7. Entitled(d) <=> Entitled(last)
    BY <2>5 DEF Entitled
  <2>8. Status(d, Signal(last.owner, payload, 0)) = Status(last, Signal(last.owner, payload, 0))
    <3>1. PICK signal : signal = Signal(last.owner, payload, 0)
      OBVIOUS
    <3>2. DOMAIN Parsed(last.pairs) = {} => signal.symbol = ""
      BY <2>3, <2>6, <3>1
    <3>3. ~Unread(d)
      BY <2>5 DEF Unread
    <3>4. Unread(last) => Nameless(signal)
      BY <1>1, <3>2 DEF Unread, Nameless
    <3>. QED
      BY <2>7, <3>1, <3>3, <3>4, SameAnswers
  <2>. QED
    BY <2>2, <2>3, <2>4, <2>8
<1>2. Inv => TextIsItsObject
  BY <1>1, Zenon DEF TextIsItsObject
<1>. QED
  BY <1>2, InvAlways, PTL

-----------------------------------------------------------------------------
LEMMA OneLess ==
  ASSUME NEW p \in Pairs, NEW i \in DOMAIN p
  PROVE  RemoveAt(p, i) \in Pairs /\ Closes(RemoveAt(p, i), p, i)
<1>1. PICK q : q = RemoveAt(p, i)
  OBVIOUS
<1>2. q = SubSeq(p, 1, i - 1) \o SubSeq(p, i + 1, Len(p))
  BY <1>1 DEF RemoveAt
<1>3. PICK S : S = Pair \cup {None}
  OBVIOUS
<1>4. p \in Seq(S) /\ i \in 1..Len(p)
  BY <1>3 DEF Pairs
<1>5. q \in Seq(S) /\ Closes(q, p, i)
  BY <1>2, <1>4, WithoutOne
<1>. QED
  BY <1>1, <1>3, <1>5 DEF Pairs

\* An object that loses the pair at i keeps every key that pair has no say in.
LEMMA OthersStay ==
  ASSUME NEW p \in Pairs, NEW i \in DOMAIN p, NEW k, i \notin Uses(p, k)
  PROVE  /\ k \in DOMAIN Object(p) <=> k \in DOMAIN Object(RemoveAt(p, i))
         /\ k \in DOMAIN Object(p) => Object(RemoveAt(p, i))[k] = Object(p)[k]
<1>1. PICK q : q = RemoveAt(p, i)
  OBVIOUS
<1>2. DOMAIN p = 1..Len(p) /\ Len(p) \in Nat /\ i \in 1..Len(p)
  BY DEF Pairs
<1>3. /\ q \in Pairs /\ Len(q) = Len(p) - 1
      /\ \A j \in 1..(Len(p) - 1) : q[j] = IF j < i THEN p[j] ELSE p[j + 1]
  BY <1>1, OneLess DEF Closes
<1>4. DOMAIN q = 1..(Len(p) - 1)
  BY <1>3 DEF Pairs
<1>5. PICK up : up = [j \in 1..(Len(p) - 1) |-> IF j < i THEN j ELSE j + 1]
  OBVIOUS
<1>6. \A j \in 1..(Len(p) - 1) : /\ up[j] \in 1..Len(p) /\ up[j] # i /\ q[j] = p[up[j]]
  BY <1>2, <1>3, <1>5
<1>7. \A j, m \in 1..(Len(p) - 1) : j >= m => up[j] >= up[m]
  BY <1>2, <1>5
<1>8. \A n \in 1..Len(p) : n # i => \E j \in 1..(Len(p) - 1) : up[j] = n
  <2>. TAKE n \in 1..Len(p)
  <2>. HAVE n # i
  <2>1. CASE n < i
    <3>1. n \in 1..(Len(p) - 1) /\ up[n] = n
      BY <1>2, <1>5, <2>1
    <3>. QED
      BY <3>1
  <2>2. CASE ~(n < i)
    <3>1. n - 1 \in 1..(Len(p) - 1) /\ up[n - 1] = n
      BY <1>2, <1>5, <2>2
    <3>. QED
      BY <3>1
  <2>. QED
    BY <2>1, <2>2
<1>9. \A j \in 1..(Len(p) - 1) : j \in Uses(q, k) <=> up[j] \in Uses(p, k)
  BY <1>2, <1>4, <1>6 DEF Uses
<1>10. Uses(p, k) # {} <=> Uses(q, k) # {}
  <2>1. ASSUME NEW n \in Uses(p, k)
        PROVE  Uses(q, k) # {}
    <3>1. n \in 1..Len(p) /\ n # i
      BY <1>2 DEF Uses
    <3>. QED
      BY <1>8, <1>9, <2>1, <3>1
  <2>2. ASSUME NEW j \in Uses(q, k)
        PROVE  Uses(p, k) # {}
    <3>1. j \in 1..(Len(p) - 1)
      BY <1>4 DEF Uses
    <3>. QED
      BY <1>9, <2>2, <3>1
  <2>. QED
    BY <2>1, <2>2
<1>11. ASSUME Uses(p, k) # {}
       PROVE  q[Max(Uses(q, k))] = p[Max(Uses(p, k))]
  <2>1. PICK n : n = Max(Uses(p, k))
    OBVIOUS
  <2>2. PICK j : j = Max(Uses(q, k))
    OBVIOUS
  <2>3. n \in Uses(p, k) /\ \A y \in Uses(p, k) : n >= y
    BY <1>11, <2>1, UsesAreFinite, MaxIsGreatest
  <2>4. j \in Uses(q, k) /\ \A y \in Uses(q, k) : j >= y
    BY <1>3, <1>10, <1>11, <2>2, UsesAreFinite, MaxIsGreatest
  <2>5. j \in 1..(Len(p) - 1) /\ n \in 1..Len(p) /\ n # i
    BY <1>2, <1>4, <2>3, <2>4 DEF Uses
  <2>6. PICK m \in 1..(Len(p) - 1) : up[m] = n
    BY <1>8, <2>5
  <2>7. j >= m
    BY <1>9, <2>3, <2>4, <2>6
  <2>8. up[j] >= n
    BY <1>7, <2>5, <2>6, <2>7
  <2>9. n >= up[j]
    BY <1>9, <2>3, <2>4, <2>5
  <2>10. up[j] = n
    BY <1>2, <1>6, <2>5, <2>8, <2>9
  <2>. QED
    BY <1>6, <2>1, <2>2, <2>5, <2>10
<1>. QED
  BY <1>1, <1>3, <1>10, <1>11, LastUseCounts

\* Q is P without what k says.
Loses(P, Q, k) ==
  /\ k \notin DOMAIN Q
  /\ \A other : other # k =>
       /\ other \in DOMAIN P <=> other \in DOMAIN Q
       /\ other \in DOMAIN P => P[other] = Q[other]

\* What a payload has under k is no number, and no text.
NoNumber(payload, k) == k \in DOMAIN payload => ~Readable(payload[k])
NoText(payload, k) == k \in DOMAIN payload => ~Truthy(payload[k]) /\ ~HasText(payload[k])
NumberKey(k) == \E f \in DOMAIN NumberKeys : k \in Range(NumberKeys[f])

\* What a key does not say, or nobody asks it, is not missed.
LEMMA NotMissed ==
  ASSUME NEW P, NEW Q, NEW k, Loses(P, Q, k), NEW keys, Len(keys) \in Nat
  PROVE  /\ (k \in DOMAIN P => ~Truthy(P[k])) \/ (\A n \in 1..Len(keys) : keys[n] # k)
              => FirstTruthy(P, keys) = FirstTruthy(Q, keys)
         /\ (k \in DOMAIN P => ~HasText(P[k])) \/ (\A n \in 1..Len(keys) : keys[n] # k)
              => FirstText(P, keys) = FirstText(Q, keys)
         /\ (k \in DOMAIN P => ~Readable(P[k])) => Number(P, keys) = Number(Q, keys)
<1>1. ASSUME (k \in DOMAIN P => ~Truthy(P[k])) \/ (\A n \in 1..Len(keys) : keys[n] # k)
      PROVE  FirstTruthy(P, keys) = FirstTruthy(Q, keys)
  <2>1. TruthyAt(P, keys) = TruthyAt(Q, keys)
    BY <1>1 DEF Loses, TruthyAt
  <2>2. \A n \in TruthyAt(P, keys) : P[keys[n]] = Q[keys[n]]
    BY <1>1 DEF Loses, TruthyAt
  <2>3. TruthyAt(P, keys) \subseteq 1..Len(keys)
    BY DEF TruthyAt
  <2>. QED
    BY <2>1, <2>2, <2>3, SameFirst, FirstOfPlaces
<1>2. ASSUME (k \in DOMAIN P => ~HasText(P[k])) \/ (\A n \in 1..Len(keys) : keys[n] # k)
      PROVE  FirstText(P, keys) = FirstText(Q, keys)
  <2>1. TextAt(P, keys) = TextAt(Q, keys)
    BY <1>2 DEF Loses, TextAt
  <2>2. \A n \in TextAt(P, keys) : P[keys[n]] = Q[keys[n]]
    BY <1>2 DEF Loses, TextAt
  <2>3. TextAt(P, keys) \subseteq 1..Len(keys)
    BY DEF TextAt
  <2>. QED
    BY <2>1, <2>2, <2>3, SameFirst, FirstOfPlaces
<1>3. ASSUME k \in DOMAIN P => ~Readable(P[k])
      PROVE  Number(P, keys) = Number(Q, keys)
  <2>1. NumberAt(P, keys) = NumberAt(Q, keys)
    BY <1>3 DEF Loses, NumberAt
  <2>2. \A n \in NumberAt(P, keys) : P[keys[n]] = Q[keys[n]]
    BY <1>3 DEF Loses, NumberAt
  <2>3. NumberAt(P, keys) \subseteq 1..Len(keys)
    BY DEF NumberAt
  <2>4. FirstAt(P, keys, NumberAt(P, keys)) = FirstAt(Q, keys, NumberAt(Q, keys))
    BY <2>1, <2>2, <2>3, SameFirst
  <2>5. PICK v : v = FirstAt(P, keys, NumberAt(P, keys))
    OBVIOUS
  <2>6. Number(P, keys) = IF v = None THEN None ELSE Numbers[v.text]
    BY <2>5, FirstOfPlaces
  <2>7. Number(Q, keys) = IF v = None THEN None ELSE Numbers[v.text]
    BY <2>4, <2>5, FirstOfPlaces
  <2>. QED
    BY <2>6, <2>7
<1>. QED
  BY <1>1, <1>2, <1>3

LEMMA ObjectLoses ==
  ASSUME NEW p \in Pairs, NEW i \in DOMAIN p, p[i] # None,
         \A j \in DOMAIN p : p[j] # None /\ p[j].key = p[i].key => j = i
  PROVE  /\ Loses(Object(p), Object(RemoveAt(p, i)), p[i].key)
         /\ p[i].key \in DOMAIN Object(p) => Object(p)[p[i].key] = p[i].value
<1>1. PICK q : q = RemoveAt(p, i)
  OBVIOUS
<1>2. DOMAIN p = 1..Len(p) /\ Len(p) \in Nat /\ i \in 1..Len(p)
  BY DEF Pairs
<1>3. q \in Pairs /\ Closes(q, p, i)
  BY <1>1, OneLess
<1>4. DOMAIN q = 1..(Len(p) - 1)
  BY <1>3 DEF Pairs, Closes
<1>5. PICK k : k = p[i].key
  OBVIOUS
<1>6. ASSUME NEW j \in Uses(q, k)
      PROVE  FALSE
  <2>1. j \in 1..(Len(p) - 1) /\ q[j] # None /\ q[j].key = k
    BY <1>4 DEF Uses, Asked
  <2>2. q[j] = IF j < i THEN p[j] ELSE p[j + 1]
    BY <1>3, <2>1 DEF Closes
  <2>3. CASE j < i
    <3>1. j \in DOMAIN p /\ j # i
      BY <1>2, <2>1, <2>3
    <3>. QED
      BY <1>5, <2>1, <2>2, <2>3, <3>1
  <2>4. CASE ~(j < i)
    <3>1. j + 1 \in DOMAIN p /\ j + 1 # i
      BY <1>2, <2>1, <2>4
    <3>. QED
      BY <1>5, <2>1, <2>2, <2>4, <3>1
  <2>. QED
    BY <2>3, <2>4
<1>7. k \notin DOMAIN Object(q)
  BY <1>3, <1>6, LastUseCounts
<1>8. ASSUME NEW other, other # k
      PROVE  /\ other \in DOMAIN Object(p) <=> other \in DOMAIN Object(q)
             /\ other \in DOMAIN Object(p) => Object(p)[other] = Object(q)[other]
  <2>1. i \notin Uses(p, other)
    BY <1>5, <1>8 DEF Uses
  <2>. QED
    BY <1>1, <2>1, OthersStay
<1>9. ASSUME k \in DOMAIN Object(p)
      PROVE  Object(p)[k] = p[i].value
  <2>1. Uses(p, k) # {} /\ Object(p)[k] = p[Max(Uses(p, k))].value
    BY <1>9, LastUseCounts
  <2>2. Max(Uses(p, k)) \in Uses(p, k)
    BY <2>1, UsesAreFinite, MaxIsGreatest
  <2>3. Max(Uses(p, k)) = i
    BY <1>5, <2>2 DEF Uses, Asked
  <2>. QED
    BY <2>1, <2>3
<1>. QED
  BY <1>1, <1>5, <1>7, <1>8, <1>9 DEF Loses

\* A line without a key is nothing to lose.
LEMMA NothingLost ==
  ASSUME NEW p \in Pairs, NEW i \in DOMAIN p, p[i] = None
  PROVE  Object(RemoveAt(p, i)) = Object(p)
<1>1. PICK q : q = RemoveAt(p, i)
  OBVIOUS
<1>2. ASSUME NEW k
      PROVE  /\ k \in DOMAIN Object(p) <=> k \in DOMAIN Object(q)
             /\ k \in DOMAIN Object(p) => Object(q)[k] = Object(p)[k]
  <2>1. i \notin Uses(p, k)
    BY DEF Uses, Asked
  <2>. QED
    BY <1>1, <2>1, OthersStay
<1>3. PICK P : P = Object(p)
  OBVIOUS
<1>4. PICK Q : Q = Object(q)
  OBVIOUS
<1>5. P = [k \in DOMAIN P |-> P[k]] /\ Q = [k \in DOMAIN Q |-> Q[k]]
  BY <1>3, <1>4 DEF Object
<1>6. DOMAIN P = DOMAIN Q /\ \A k \in DOMAIN P : Q[k] = P[k]
  BY <1>2, <1>3, <1>4
<1>7. P = Q
  BY <1>5, <1>6
<1>. QED
  BY <1>1, <1>3, <1>4, <1>7

\* The keys that texts are looked for under, and a key of a number is none of them.
TextKeys ==
  {SymbolKeys, SideKeys, OwnerKeys, <<"signal_id", "id">>, <<"timeframe", "tf">>,
   <<"strategy", "strategy_name", "bot">>}

LEMMA NumbersAreNoTexts ==
  ASSUME NEW f \in DOMAIN NumberKeys, NEW k \in Range(NumberKeys[f]), NEW keys \in TextKeys
  PROVE  \A n \in 1..Len(keys) : keys[n] # k
<1>1. k \in {"price", "close", "entry_price", "volume", "qty", "quantity", "contracts",
             "tp", "take_profit", "tp_price", "sl", "stop_loss", "sl_price",
             "risk", "risk_pct", "risk_percent"}
  BY DEF NumberKeys, Range
<1>2. \A n \in 1..Len(keys) :
        keys[n] \in {"symbol", "ticker", "pair", "instrument", "side", "action", "signal",
                     "owner_key", "owner", "account", "terminal_id", "signal_id", "id",
                     "timeframe", "tf", "strategy", "strategy_name", "bot"}
  BY DEF TextKeys, SymbolKeys, SideKeys, OwnerKeys
<1>. QED
  BY <1>1, <1>2

LEMMA KeyCounts ==
  /\ \A keys \in TextKeys : Len(keys) \in Nat
  /\ \A f \in DOMAIN NumberKeys : Len(NumberKeys[f]) \in Nat
<1>1. \A keys \in TextKeys : Len(keys) \in Nat
  BY DEF TextKeys, SymbolKeys, SideKeys, OwnerKeys
<1>2. \A f \in DOMAIN NumberKeys : Len(NumberKeys[f]) \in Nat
  BY DEF NumberKeys
<1>. QED
  BY <1>1, <1>2

\* What one pair says of a signal: where it is not readable, nothing or under the key
\* of a number.
LEMMA NothingMissed ==
  ASSUME NEW P, NEW Q, NEW k, Loses(P, Q, k), NEW header,
         NoNumber(P, k), NoText(P, k) \/ NumberKey(k)
  PROVE  Signal(header, P, 0) = Signal(header, Q, 0)
<1>1. ASSUME NEW keys \in TextKeys
      PROVE  FirstTruthy(P, keys) = FirstTruthy(Q, keys) /\ FirstText(P, keys) = FirstText(Q, keys)
  <2>1. Len(keys) \in Nat
    BY KeyCounts
  <2>2. \/ k \in DOMAIN P => ~Truthy(P[k]) /\ ~HasText(P[k])
        \/ \A n \in 1..Len(keys) : keys[n] # k
    BY NumbersAreNoTexts DEF NoText, NumberKey
  <2>. QED
    BY <2>1, <2>2, NotMissed
<1>2. ASSUME NEW keys, Len(keys) \in Nat
      PROVE  Number(P, keys) = Number(Q, keys)
  BY <1>2, NotMissed DEF NoNumber
<1>3. Owner(header, P) = Owner(header, Q)
  <2>1. FirstText(P, OwnerKeys) = FirstText(Q, OwnerKeys)
    BY <1>1 DEF TextKeys
  <2>. QED
    BY <2>1 DEF Owner
<1>4. /\ FirstTruthy(P, SymbolKeys) = FirstTruthy(Q, SymbolKeys)
      /\ FirstTruthy(P, SideKeys) = FirstTruthy(Q, SideKeys)
      /\ FirstTruthy(P, <<"signal_id", "id">>) = FirstTruthy(Q, <<"signal_id", "id">>)
      /\ FirstTruthy(P, <<"timeframe", "tf">>) = FirstTruthy(Q, <<"timeframe", "tf">>)
      /\ FirstTruthy(P, <<"strategy", "strategy_name", "bot">>)
           = FirstTruthy(Q, <<"strategy", "strategy_name", "bot">>)
  BY <1>1 DEF TextKeys
<1>5. [f \in DOMAIN NumberKeys |-> Number(P, NumberKeys[f])]
        = [f \in DOMAIN NumberKeys |-> Number(Q, NumberKeys[f])]
  <2>1. \A f \in DOMAIN NumberKeys : Number(P, NumberKeys[f]) = Number(Q, NumberKeys[f])
    BY <1>2, KeyCounts
  <2>. QED
    BY <2>1, Zenon
<1>6. Lag(P) = Lag(Q)
  <2>1. Len(<<"max_lag_seconds", "max_lag_sec">>) \in Nat
    OBVIOUS
  <2>. QED
    BY <1>2, <2>1, Zenon DEF Lag
<1>. QED
  BY <1>3, <1>4, <1>5, <1>6, Zenon DEF Signal

\* A value nothing can be read from is not missed.
LEMMA UselessIsNotMissed ==
  ASSUME NEW p \in Pairs, NEW i \in DOMAIN p, Useless(p, i), NEW header,
         p[i] # None /\ p[i].value # None /\ p[i].value.text = "" => ~p[i].value.padded
  PROVE  Signal(header, Object(p), 0) = Signal(header, Object(RemoveAt(p, i)), 0)
<1>1. CASE p[i] = None
  BY <1>1, NothingLost
<1>2. CASE p[i] # None
  <2>1. PICK k, v : k = p[i].key /\ v = p[i].value
    OBVIOUS
  <2>2. PICK P, Q : P = Object(p) /\ Q = Object(RemoveAt(p, i))
    OBVIOUS
  <2>3. Loses(P, Q, k) /\ (k \in DOMAIN P => P[k] = v)
    <3>1. \A j \in DOMAIN p : p[j] # None /\ p[j].key = p[i].key => j = i
      BY <1>2 DEF Useless
    <3>. QED
      BY <1>2, <2>1, <2>2, <3>1, ObjectLoses
  <2>4. CASE v = None \/ v.text = ""
    <3>1. ~Truthy(v) /\ ~HasText(v)
      BY <1>2, <2>1, <2>4 DEF Truthy, HasText
    <3>2. ~Readable(v)
      BY <2>4, EmptyIsNoNumber DEF Readable
    <3>3. NoNumber(P, k)
      BY <2>3, <3>2 DEF NoNumber
    <3>4. NoText(P, k)
      BY <2>3, <3>1 DEF NoText
    <3>5. Signal(header, P, 0) = Signal(header, Q, 0)
      BY <2>3, <3>3, <3>4, NothingMissed
    <3>. QED
      BY <2>2, <3>5
  <2>5. CASE ~(v = None \/ v.text = "")
    <3>1. ~Readable(v) /\ NumberKey(k)
      BY <1>2, <2>1, <2>5 DEF Useless, NumberKey
    <3>2. NoNumber(P, k)
      BY <2>3, <3>1 DEF NoNumber
    <3>3. Signal(header, P, 0) = Signal(header, Q, 0)
      BY <2>3, <3>1, <3>2, NothingMissed
    <3>. QED
      BY <2>2, <3>3
  <2>. QED
    BY <2>4, <2>5
<1>. QED
  BY <1>1, <1>2

\* The lines of a text without one of them.
LEMMA LinesWithout ==
  ASSUME NEW p \in Pairs, NEW i \in DOMAIN p, Lines(p) \in Pairs
  PROVE  Lines(RemoveAt(p, i)) = RemoveAt(Lines(p), i)
<1>1. PICK q : q = RemoveAt(p, i)
  OBVIOUS
<1>2. PICK lines : lines = Lines(p)
  OBVIOUS
<1>3. PICK r : r = RemoveAt(lines, i)
  OBVIOUS
<1>4. DOMAIN p = 1..Len(p) /\ Len(p) \in Nat /\ i \in 1..Len(p)
  BY DEF Pairs
<1>5. DOMAIN lines = DOMAIN p /\ Len(lines) = Len(p) /\ lines \in Pairs
  BY <1>2, <1>4 DEF Lines, Pairs
<1>6. q \in Pairs /\ Closes(q, p, i)
  BY <1>1, OneLess
<1>7. r \in Pairs /\ Closes(r, lines, i)
  BY <1>3, <1>5, OneLess
<1>8. DOMAIN q = 1..(Len(p) - 1) /\ DOMAIN r = 1..(Len(p) - 1)
  BY <1>4, <1>5, <1>6, <1>7 DEF Pairs, Closes
<1>9. ASSUME NEW j \in 1..(Len(p) - 1)
      PROVE  r[j] = IF q[j] = None THEN None ELSE AsText(q[j])
  <2>1. \A n \in 1..Len(p) : lines[n] = IF p[n] = None THEN None ELSE AsText(p[n])
    BY <1>2, <1>4 DEF Lines
  <2>2. /\ q[j] = IF j < i THEN p[j] ELSE p[j + 1]
        /\ r[j] = IF j < i THEN lines[j] ELSE lines[j + 1]
    BY <1>5, <1>6, <1>7 DEF Closes
  <2>3. j \in 1..Len(p) /\ j + 1 \in 1..Len(p)
    BY <1>4
  <2>. QED
    BY <2>1, <2>2, <2>3
<1>10. r = [j \in 1..(Len(p) - 1) |-> IF q[j] = None THEN None ELSE AsText(q[j])]
  <2>1. r = [j \in 1..(Len(p) - 1) |-> r[j]]
    BY <1>7, <1>8 DEF Pairs
  <2>. QED
    BY <1>9, <2>1, Zenon
<1>. QED
  BY <1>1, <1>2, <1>3, <1>8, <1>10, Zenon DEF Lines

\* A line that says nothing still does when it is read.
LEMMA UselessLines ==
  ASSUME NEW d \in Deliveries, d.body = "text", NEW i \in DOMAIN d.pairs, Useless(d.pairs, i)
  PROVE  /\ Useless(Lines(d.pairs), i)
         /\ Lines(d.pairs)[i] # None => ~Lines(d.pairs)[i].value.padded
<1>1. PICK p, lines : p = d.pairs /\ lines = Lines(d.pairs)
  OBVIOUS
<1>2. DOMAIN lines = DOMAIN p /\ i \in DOMAIN p /\ Useless(p, i)
  BY <1>1, LinesArePairs
<1>3. \A j \in DOMAIN p :
        /\ lines[j] = None <=> p[j] = None
        /\ p[j] # None => /\ lines[j].key = p[j].key
                          /\ lines[j].value.text = p[j].value.text
                          /\ ~lines[j].value.padded
  <2>. TAKE j \in DOMAIN p
  <2>1. lines[j] = None <=> p[j] = None
    BY <1>1, LinesArePairs
  <2>2. ASSUME p[j] # None
        PROVE  lines[j] = Stripped(p[j])
    BY <1>1, <2>2, LinesArePairs
  <2>3. /\ Stripped(p[j]).key = p[j].key
        /\ Stripped(p[j]).value.text = p[j].value.text
        /\ ~Stripped(p[j]).value.padded
    BY DEF Stripped
  <2>. QED
    BY <2>1, <2>2, <2>3
<1>4. CASE p[i] = None
  BY <1>1, <1>2, <1>3, <1>4 DEF Useless
<1>5. CASE p[i] # None
  <2>1. \A j \in DOMAIN lines : lines[j] # None /\ lines[j].key = lines[i].key => j = i
    BY <1>2, <1>3, <1>5 DEF Useless
  <2>2. p[i].value # None
    BY <1>1, <1>2, <1>5, Brought
  <2>3. \/ lines[i].value.text = ""
        \/ /\ \E f \in DOMAIN NumberKeys : lines[i].key \in Range(NumberKeys[f])
           /\ ~Readable(lines[i].value)
    <3>1. \/ p[i].value.text = ""
          \/ /\ \E f \in DOMAIN NumberKeys : p[i].key \in Range(NumberKeys[f])
             /\ ~Readable(p[i].value)
      BY <1>2, <1>5, <2>2, Zenon DEF Useless
    <3>2. Readable(lines[i].value) => Readable(p[i].value)
      BY <1>2, <1>3, <1>5, <2>2 DEF Readable
    <3>. QED
      BY <1>2, <1>3, <1>5, <3>1, <3>2
  <2>. QED
    BY <1>1, <1>2, <1>3, <1>5, <2>1, <2>3 DEF Useless
<1>. QED
  BY <1>4, <1>5

\* A value that is null, empty or unreadable never hides what a later key says:
\* without it the signal is the same, whatever the body and wherever the value stands
\* (the `or`s, _payload_text and _payload_number of normalize_tradingview_signal).
THEOREM UselessHidesNothing == Spec => []UselessValuesAreSkipped
<1>1. ASSUME Inv, last # None, last.body \in {"text", "object"},
             NEW i \in DOMAIN last.pairs, Useless(last.pairs, i),
             last.body = "object" =>
               ~(/\ last.pairs[i] # None
                 /\ last.pairs[i].value # None
                 /\ last.pairs[i].value.text = ""
                 /\ last.pairs[i].value.padded)
      PROVE  Signal(last.owner, Payload(last.body, last.pairs), 0)
               = Signal(last.owner, Payload(last.body, RemoveAt(last.pairs, i)), 0)
  <2>1. last \in Deliveries
    BY <1>1 DEF Inv
  <2>2. PICK p : p = last.pairs
    OBVIOUS
  <2>3. p \in Pairs /\ i \in DOMAIN p
    BY <1>1, <2>1, <2>2, Brought DEF Pairs
  <2>4. CASE last.body = "object"
    <3>1. Signal(last.owner, Object(p), 0) = Signal(last.owner, Object(RemoveAt(p, i)), 0)
      BY <1>1, <2>2, <2>3, <2>4, UselessIsNotMissed
    <3>. QED
      BY <2>2, <2>4, <3>1 DEF Payload
  <2>5. CASE last.body = "text"
    <3>1. PICK lines : lines = Lines(p)
      OBVIOUS
    <3>2. lines \in Pairs /\ i \in DOMAIN lines
      BY <2>1, <2>2, <2>3, <2>5, <3>1, LinesArePairs
    <3>3. Useless(lines, i) /\ (lines[i] # None => ~lines[i].value.padded)
      BY <1>1, <2>1, <2>2, <2>5, <3>1, UselessLines
    <3>4. Signal(last.owner, Object(lines), 0)
            = Signal(last.owner, Object(RemoveAt(lines, i)), 0)
      BY <3>2, <3>3, UselessIsNotMissed
    <3>5. Lines(RemoveAt(p, i)) = RemoveAt(lines, i)
      BY <2>3, <3>1, <3>2, LinesWithout
    <3>. QED
      BY <2>2, <2>5, <3>1, <3>4, <3>5 DEF Payload, Parsed
  <2>. QED
    BY <1>1, <2>4, <2>5
<1>2. Inv => UselessValuesAreSkipped
  BY <1>1, Zenon DEF UselessValuesAreSkipped
<1>. QED
  BY <1>2, InvAlways, PTL
=============================================================================
