---------------------------- MODULE MetricsAccess ---------------------------
(***************************************************************************)
(* require_metrics_access of pinebitz/api/app.py, a function of the        *)
(* request for the page and of the settings, which are read from the       *)
(* environment on every request.  It keeps no state; what it promises is   *)
(* proved in HttpLayerProofs.                                              *)
(***************************************************************************)
EXTENDS Integers, Sequences, Functions

CONSTANTS
  None,
  Malformed,    \* an entry of the allowlist that is no network
  Hosts,        \* the addresses of clients
  Localhosts    \* 127.0.0.1, ::1

\* forwarded: the first address of X-Forwarded-For; host: that of the connection;
\* the blanks around a header stripped.
Caller == [owner : STRING, metrics_token : STRING, bearer : STRING,
           forwarded : Hosts \cup {None}, host : Hosts \cup {None}]

\* What METRICS_PROM_ALLOWLIST lists: networks as the sets of their addresses.
Allowlist == Seq((SUBSET Hosts) \cup {Malformed})

\* _client_ip
Ip(q) == IF q.forwarded # None THEN q.forwarded ELSE q.host

\* _metrics_allowlist_networks: what is no network is ignored.
Networks(list) == Range(list) \ {Malformed}

\* _is_client_in_allowlist
InAllowlist(list, q) == Networks(list) = {} \/ \E net \in Networks(list) : Ip(q) \in net

\* _match_metrics_token
TokenMatches(token, q) == token # "" /\ token \in {q.metrics_token, q.bearer}

\* The modes; any other admits nobody.
Admitted(mode, token, q) ==
  \/ mode = "owner_key" /\ q.owner # ""
  \/ mode \in {"token", "token_or_localhost"} /\ TokenMatches(token, q)
  \/ mode \in {"localhost", "token_or_localhost"} /\ Ip(q) \in Localhosts

\* require_metrics_access: the status of the answer.
Access(enabled, list, mode, token, q) ==
  IF ~enabled THEN 404
  ELSE IF InAllowlist(list, q) /\ Admitted(mode, token, q) THEN 200 ELSE 401
=============================================================================
