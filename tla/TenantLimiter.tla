---------------------------- MODULE TenantLimiter ----------------------------
(***************************************************************************)
(* RateLimiter of tenants/rate_limiter.py: the log of one tenant's         *)
(* requests.  Each method runs whole; check_only and get_usage only read.  *)
(***************************************************************************)
EXTENDS Sequences, FiniteSetsExt, Tally

CONSTANTS Quotas, DefaultQuota,   \* limits in use; default_limit
          Span,                   \* window_seconds
          MaxClock                \* bound on the clock

VARIABLES clock,
          quota,     \* _limits.get(tenant, default_limit)
          window,    \* _windows[tenant], oldest first
          passed     \* history: requests let through at each instant

vars == <<clock, quota, window, passed>>

Instants == 0..MaxClock

Init ==
    /\ clock = 0
    /\ quota = DefaultQuota
    /\ window = <<>>
    /\ passed = [i \in Instants |-> 0]

ExpiredEarly(i) == i <= clock - Span

Expired(i) == i < clock - Span

\* The deque after the expired entries at its head are popped.
Pruned ==
    LET live == {k \in 1..Len(window) : ~ Expired(window[k])} IN
    IF live = {} THEN <<>>
    ELSE SubSeq(window, Min(live), Len(window))

Allowed == Len(Pruned) < quota

\* check: a request that is refused is not recorded.
Check ==
    /\ window' = IF Allowed THEN Append(Pruned, clock) ELSE Pruned
    /\ passed' = IF Allowed THEN [passed EXCEPT ![clock] = @ + 1] ELSE passed
    /\ UNCHANGED <<clock, quota>>

SetLimit(n) ==
    /\ quota' = n
    /\ UNCHANGED <<clock, window, passed>>

\* reset; what went before no longer counts.
Reset ==
    /\ window' = <<>>
    /\ passed' = [i \in Instants |-> 0]
    /\ UNCHANGED <<clock, quota>>

Tick ==
    /\ clock < MaxClock
    /\ clock' = clock + 1
    /\ UNCHANGED <<quota, window, passed>>

Next == Check \/ Reset \/ Tick \/ \E n \in Quotas : SetLimit(n)

Spec == Init /\ [][Next]_vars

-----------------------------------------------------------------------------
(* Properties.                                                             *)

\* Requests let through in the closed window that ends now.
Recent == After(passed, clock - Span - 1, clock)

\* A request is let through exactly when fewer than the limit were since the
\* reset or in the last window_seconds, both ends included, and no such window
\* ever saw more than the largest limit: the log forgets nothing it still needs
\* and keeps nothing that would refuse a tenant for longer, however limits are
\* lowered and raised under way.
LogExact ==
    /\ Allowed <=> Recent < quota
    /\ \E n \in Quotas : Recent <= n
==============================================================================
