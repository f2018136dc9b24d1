---------------------------- MODULE SignalIntake ----------------------------
(***************************************************************************)
(* The head of tradingview_webhook in pinebitz/api/app.py: the secret, the *)
(* two formats of a body, normalize_tradingview_signal and the inbox.      *)
(* What follows, matching and admission, is SignalPipeline.                *)
(***************************************************************************)
EXTENDS Integers, SequencesExt

CONSTANTS
  None,
  Infinite,       \* what float() makes of "inf" and int() refuses
  Numbers,        \* the texts float() reads, and their numbers
  Secret,         \* TRADINGVIEW_WEBHOOK_SECRET, "" when there is none
  Deliveries,     \* the requests that arrive
  InboxCap,       \* 200
  MaxDeliveries   \* bound: deliveries

VARIABLES
  inbox,     \* _signal_inbox, newest first
  arrived,   \* the number of deliveries so far
  answer,    \* the status of the last delivery
  \* history, read by no action:
  last,      \* the last delivery
  accepted   \* every signal taken in, oldest first

vars == <<inbox, arrived, answer, last, accepted>>

\* A value as it is written: the text, whether blanks surround it, whether quotes
\* do inside those; None is the null of JSON.  Other values of JSON are left out.
Value == [text : STRING, padded : BOOLEAN, quoted : BOOLEAN] \cup {None}
\* A member of a JSON object or a line of text: a key, perhaps in capitals, and a
\* value; a line without a key is none.
Pair == [key : STRING, capitals : BOOLEAN, value : Value]
Bodies == {"text", "object", "other_json", "broken_json", "empty"}
Delivery == [secret : STRING, bearer : STRING, owner : STRING \cup {None},
             body : Bodies, pairs : Seq(Pair \cup {None})]

\* Texts have no nulls, and the quotes inside a text of JSON are part of it. float()
\* reads nothing from the empty text.
ASSUME SignalIntakeConstants ==
  /\ Deliveries \subseteq Delivery
  /\ \A d \in Deliveries : \A pair \in Range(d.pairs) \ {None} :
       IF d.body = "text" THEN pair.value # None
       ELSE pair.value # None => ~pair.value.quoted
  /\ \A t \in DOMAIN Numbers : t \in STRING \ {""} /\ Numbers[t] \in Int \cup {Infinite}
  /\ None \notin Int \cup STRING \cup Pair \cup Delivery
  /\ Secret \in STRING
  /\ InboxCap \in Nat \ {0}
  /\ MaxDeliveries \in Nat

Sides == {"buy", "sell", "close", "close_all"}

\* Inbox and history hold signals with a symbol and a side, in an inbox that does
\* not outgrow its cap.
TypeOK ==
  /\ \A s \in Range(inbox) \cup Range(accepted) : s.symbol \in STRING \ {""} /\ s.side \in Sides
  /\ Len(inbox) <= InboxCap /\ arrived \in Len(accepted)..MaxDeliveries
  /\ answer \in {None, 202, 401, 422, 500}
  /\ last \in Deliveries \cup {None}

-----------------------------------------------------------------------------
\* require_webhook_access
Entitled(d) == Secret = "" \/ Secret \in {d.secret, d.bearer}

\* What the format leaves of a pair: a line of text loses capitals, blanks and
\* quotes. (Mutant: the keys keep their capitals.)
AsTextAsWritten(pair) == [pair EXCEPT !.value.padded = FALSE, !.value.quoted = FALSE]
AsText(pair) ==
  [pair EXCEPT !.capitals = FALSE, !.value.padded = FALSE, !.value.quoted = FALSE]

\* The object a body stands for, from keys to values.  The last of equal keys
\* counts, and a key in capitals is one nobody asks for.
Asked(pair) == pair # None /\ ~pair.capitals
Uses(pairs, k) == {i \in DOMAIN pairs : Asked(pairs[i]) /\ pairs[i].key = k}
Object(pairs) ==
  LET asked == {i \in DOMAIN pairs : Asked(pairs[i])}
  IN  [k \in {pairs[i].key : i \in asked} |-> pairs[Max(Uses(pairs, k))].value]
\* The pairs of a text.
Lines(pairs) ==
  [i \in DOMAIN pairs |-> IF pairs[i] = None THEN None ELSE AsText(pairs[i])]
\* _parse_key_value_payload. (Mutant: the first of equal keys counts.)
ParsedFirst(pairs) == Object(Reverse(Lines(pairs)))
Parsed(pairs) == Object(Lines(pairs))
Payload(body, pairs) == IF body = "text" THEN Parsed(pairs) ELSE Object(pairs)

\* The value of the first key whose value passes, in the order keys are asked for.
FirstWith(payload, keys, Test(_)) ==
  LET n == SelectInSeq(keys, LAMBDA k : k \in DOMAIN payload /\ Test(payload[k]))
  IN  IF n = 0 THEN None ELSE payload[keys[n]]

\* What `a or b or ...` takes: blanks alone are something.
Truthy(v) == v # None /\ (v.text # "" \/ v.padded)
FirstTruthy(payload, keys) == FirstWith(payload, keys, Truthy)
Text(v) == IF v = None THEN "" ELSE v.text

\* _payload_text: blanks alone are nothing.
HasText(v) == v # None /\ v.text # ""
FirstText(payload, keys) == Text(FirstWith(payload, keys, HasText))

\* _payload_number: the first that float() reads. (Mutant: the first, read or not.)
Readable(v) == v # None /\ v.text \in DOMAIN Numbers
NumberIfReadable(payload, keys) ==
  LET v == FirstTruthy(payload, keys) IN IF Readable(v) THEN Numbers[v.text] ELSE None
Number(payload, keys) ==
  LET v == FirstWith(payload, keys, Readable)
  IN  IF v = None THEN None ELSE Numbers[v.text]

\* _normalize_signal_side of a token in lower case, None for what it refuses.
Side(token) ==
  CASE token \in {"buy", "long", "entry_long"} -> "buy"
    [] token \in {"sell", "short", "entry_short"} -> "sell"
    [] token \in {"close", "exit"} -> "close"
    [] token \in {"closeall", "close_all", "flat"} -> "close_all"
    [] OTHER -> None

SymbolKeys == <<"symbol", "ticker", "pair", "instrument">>
SideKeys == <<"side", "action", "signal">>
OwnerKeys == <<"owner_key", "owner", "account", "terminal_id">>
NumberKeys ==
  [price |-> <<"price", "close", "entry_price">>,
   volume |-> <<"volume", "qty", "quantity", "contracts">>,
   take_profit |-> <<"tp", "take_profit", "tp_price">>,
   stop_loss |-> <<"sl", "stop_loss", "sl_price">>,
   risk_pct |-> <<"risk", "risk_pct", "risk_percent">>]
Lag(payload) == Number(payload, <<"max_lag_seconds", "max_lag_sec">>)

\* The header's owner, or else the payload's. (Mutant: the other way round.)
OwnerFromPayload(header, payload) ==
  IF FirstText(payload, OwnerKeys) # "" THEN FirstText(payload, OwnerKeys) ELSE header
Owner(header, payload) ==
  LET named == FirstText(payload, OwnerKeys)
  IN  IF header \notin {None, ""} THEN header ELSE IF named = "" THEN None ELSE named

\* normalize_tradingview_signal; `fresh` stands for the new uuid.
Signal(header, payload, fresh) ==
  [owner |-> Owner(header, payload),
   symbol |-> Text(FirstTruthy(payload, SymbolKeys)),
   side |-> Side(Text(FirstTruthy(payload, SideKeys))),
   signal_id |-> LET id == FirstTruthy(payload, <<"signal_id", "id">>)
                 IN  IF id = None THEN <<"uuid", fresh>> ELSE <<"given", id>>,
   timeframe |-> FirstTruthy(payload, <<"timeframe", "tf">>),
   strategy |-> FirstTruthy(payload, <<"strategy", "strategy_name", "bot">>),
   numbers |-> [f \in DOMAIN NumberKeys |-> Number(payload, NumberKeys[f])],
   max_lag_seconds |-> IF Lag(payload) = 0 THEN None ELSE Lag(payload)]

\* How the request ends on its way into the inbox, in the order of the tests: 202 for
\* those that get there.
Status(d, signal) ==
  IF ~Entitled(d) THEN 401
  ELSE IF \/ d.body \in {"empty", "other_json", "broken_json"}
          \/ d.body = "text" /\ DOMAIN Parsed(d.pairs) = {}
          \/ signal.symbol = "" \/ signal.side = None THEN 422
  ELSE IF signal.max_lag_seconds = Infinite THEN 500
  ELSE 202

-----------------------------------------------------------------------------
\* del _signal_inbox[200:]. (Mutant: the newest go.)
KeptOldest(list) == IF Len(list) <= InboxCap THEN list ELSE Tail(list)
Kept(list) == IF Len(list) <= InboxCap THEN list ELSE Front(list)

Init == inbox = <<>> /\ arrived = 0 /\ answer = None /\ last = None /\ accepted = <<>>

\* The signal enters the inbox before the plan match is awaited; when that raises,
\* the delivery is answered with 500 and the signal stays.
Deliver(d, matchRaises) ==
  LET signal == Signal(d.owner, Payload(d.body, d.pairs), arrived + 1)
      taken == Status(d, signal) = 202
  IN  /\ arrived < MaxDeliveries
      /\ arrived' = arrived + 1
      /\ matchRaises => taken
      /\ answer' = IF matchRaises THEN 500 ELSE Status(d, signal)
      /\ inbox' = IF taken THEN Kept(<<signal>> \o inbox) ELSE inbox
      /\ accepted' = IF taken THEN Append(accepted, signal) ELSE accepted
      /\ last' = d

Next == \E d \in Deliveries, matchRaises \in BOOLEAN : Deliver(d, matchRaises)

Spec == Init /\ [][Next]_vars
-----------------------------------------------------------------------------
\* The inbox is what was taken in, newest first, up to its cap: nothing is lost before
\* its time, whatever is refused in between, and a signal stays whose match raised
\* (the raises before the insert, the cut after it, and the await after that).
NewestAccepted ==
  LET n == IF Len(accepted) < InboxCap THEN Len(accepted) ELSE InboxCap
  IN  inbox = Reverse(SubSeq(accepted, Len(accepted) - n + 1, Len(accepted)))

\* The object a text stands for.
Plain(pairs) ==
  [i \in DOMAIN pairs |->
    IF pairs[i] = None THEN None
    ELSE [pairs[i] EXCEPT !.capitals = FALSE,
                          !.value = [text |-> @.text, padded |-> FALSE, quoted |-> FALSE]]]

\* A text of key=value lines and the JSON object it stands for are one signal and
\* end alike, repeated keys, capitals, quotes and blanks included
\* (_parse_key_value_payload against json.loads).
TextIsItsObject ==
  last # None /\ last.body = "text" =>
    LET text == Signal(last.owner, Payload("text", last.pairs), 0)
        object == Signal(last.owner, Payload("object", Plain(last.pairs)), 0)
    IN  text = object /\ Status(last, text) = Status([last EXCEPT !.body = "object"], object)

\* A value nothing can be read from, under a key used once.
Useless(pairs, i) ==
  \/ pairs[i] = None
  \/ /\ \A j \in DOMAIN pairs : pairs[j] # None /\ pairs[j].key = pairs[i].key => j = i
     /\ \/ pairs[i].value = None
        \/ pairs[i].value.text = ""
        \/ /\ \E f \in DOMAIN NumberKeys : pairs[i].key \in Range(NumberKeys[f])
           /\ ~Readable(pairs[i].value)

\* A value that is null, empty or unreadable never hides what a later key says:
\* without it the signal is the same.  JSON strings of blanks alone are another
\* matter: `or` takes them (normalize_tradingview_signal).
UselessValuesAreSkipped ==
  last # None /\ last.body \in {"text", "object"} =>
    LET blank(pair) == pair # None /\ pair.value # None /\ pair.value.text = "" /\ pair.value.padded
        useless == {i \in DOMAIN last.pairs :
                      Useless(last.pairs, i) /\ (last.body = "object" => ~blank(last.pairs[i]))}
    IN  \A i \in useless :
          Signal(last.owner, Payload(last.body, last.pairs), 0)
            = Signal(last.owner, Payload(last.body, RemoveAt(last.pairs, i)), 0)

\* tradingview_inbox: the places in the inbox of the items an owner is shown.
Listed(owner) == {i \in DOMAIN inbox : inbox[i].owner \in {None, owner}}

\* Every account an alert names.
Named == UNION {{pair.value : pair \in Range(d.pairs) \ {None}} : d \in Deliveries} \ {None}

\* A signal sent under an owner's header is listed to this owner and to nobody else,
\* whatever account the alert's text names (effective_owner_key).
HeaderOwnsTheSignal ==
  answer = 202 /\ last.owner \notin {None, ""} =>
    \A owner \in {d.owner : d \in Deliveries} \cup {v.text : v \in Named} :
      1 \in Listed(owner) <=> owner = last.owner
=============================================================================
