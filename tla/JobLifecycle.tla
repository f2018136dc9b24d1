---------------------------- MODULE JobLifecycle ----------------------------
(***************************************************************************)
(* What the execution side promises about one job, whatever handlers and   *)
(* tenants interleave: it is decided once, its order reaches the paper     *)
(* book at most once and only from a pending state, a finished job never   *)
(* moves again and a discarded one never returns.                          *)
(***************************************************************************)
CONSTANT JobIds

VARIABLES
  phase,    \* where each job is
  settled   \* the jobs whose order was applied to the book

vars == <<phase, settled>>

\* "pending" is queued or approved.
Phases == {"unborn", "pending", "sent", "filled", "rejected", "failed", "discarded"}
Present == Phases \ {"unborn", "discarded"}

TypeOK == phase \in [JobIds -> Phases] /\ settled \subseteq JobIds

Init == phase = [i \in JobIds |-> "unborn"] /\ settled = {}

\* The verdicts a job can still get, settling aside.
Outcomes(p) ==
  CASE p = "pending" -> {"sent", "rejected", "failed"}
    [] p = "sent" -> {"filled", "failed"}
    [] OTHER -> {}

\* A signal becomes a job; the full list may push old jobs out.
Submit(i, verdict, evicted) ==
  /\ phase[i] = "unborn"
  /\ verdict \in {"pending", "rejected"}
  /\ \A j \in evicted : phase[j] \in Present
  /\ phase' = [j \in JobIds |-> IF j = i THEN verdict
                                ELSE IF j \in evicted THEN "discarded" ELSE phase[j]]
  /\ UNCHANGED settled

Resolve(i, outcome) ==
  /\ outcome \in Outcomes(phase[i])
  /\ phase' = [phase EXCEPT ![i] = outcome]
  /\ UNCHANGED settled

Settle(i) ==
  /\ phase[i] = "pending"
  /\ phase' = [phase EXCEPT ![i] = "filled"]
  /\ settled' = settled \cup {i}

Discard(gone) ==
  /\ \A i \in gone : phase[i] \in Present
  /\ phase' = [i \in JobIds |-> IF i \in gone THEN "discarded" ELSE phase[i]]
  /\ UNCHANGED settled

Next ==
  \/ \E i \in JobIds, verdict \in {"pending", "rejected"}, evicted \in SUBSET JobIds :
       Submit(i, verdict, evicted)
  \/ \E i \in JobIds, outcome \in Phases : Resolve(i, outcome)
  \/ \E i \in JobIds : Settle(i)
  \/ \E gone \in SUBSET JobIds : Discard(gone)

Spec == Init /\ [][Next]_vars
=============================================================================
