------------------------------- MODULE Drain -------------------------------
(***************************************************************************)
(* What graceful shutdown promises its callers, without locks, signals,    *)
(* health records or files: a gate that closes once, requests that pass    *)
(* the gate only while it is open, and verdicts about what was inside.     *)
(***************************************************************************)
CONSTANTS Requests, Waiters

VARIABLES open,      \* is the gate still open?
          admitted,  \* requests past the gate and not yet counted
          inside,    \* requests counted as in flight
          late,      \* requests counted only after the gate had closed
          verdict    \* [Waiters -> {"none", "yes", "no"}]: did it drain?

vars == <<open, admitted, inside, late, verdict>>

Init ==
    /\ open = TRUE
    /\ admitted = {}
    /\ inside = {}
    /\ late = {}
    /\ verdict = [w \in Waiters |-> "none"]

\* A request passes the gate.
Admit(r) ==
    /\ open
    /\ admitted' = admitted \cup {r}
    /\ UNCHANGED <<open, inside, late, verdict>>

\* An admitted request is counted; a drain may already have begun.
Enter(r) ==
    /\ r \in admitted
    /\ admitted' = admitted \ {r}
    /\ inside' = inside \cup {r}
    /\ late' = IF open THEN late ELSE late \cup {r}
    /\ UNCHANGED <<open, verdict>>

Leave(r) ==
    /\ r \in inside
    /\ inside' = inside \ {r}
    /\ UNCHANGED <<open, admitted, late, verdict>>

\* The gate closes for good.
Close ==
    /\ open' = FALSE
    /\ UNCHANGED <<admitted, inside, late, verdict>>

\* "yes" is only ever said of a closed gate with nobody inside, and a verdict
\* is final.
Decide(w, v) ==
    /\ ~open
    /\ verdict[w] = "none"
    /\ v = "yes" => inside = {}
    /\ verdict' = [verdict EXCEPT ![w] = v]
    /\ UNCHANGED <<open, admitted, inside, late>>

Next ==
    \/ \E r \in Requests : Admit(r) \/ Enter(r) \/ Leave(r)
    \/ Close
    \/ \E w \in Waiters, v \in {"yes", "no"} : Decide(w, v)

Spec == Init /\ [][Next]_vars
=============================================================================
