---------------------------- MODULE RateLimiters ----------------------------
(***************************************************************************)
(* The two limiters of the package on one clock: the counters of           *)
(* ratelimit/sliding_window.py and the log of tenants/rate_limiter.py.     *)
(* No code lets them meet; each has a specification of its own.            *)
(***************************************************************************)
EXTENDS SlidingWindow

CONSTANTS Quotas, DefaultQuota, Span   \* as in module TenantLimiter

ASSUME QuotaAssumption ==
    Quotas \subseteq Nat /\ DefaultQuota \in Quotas /\ Span \in Nat

VARIABLES quota, window, passed

Tenant == INSTANCE TenantLimiter

tenantVars == <<quota, window, passed>>

\* The promise of the tenant's log: a request is let through exactly when fewer
\* than the limit were in the last window (module TenantLimiter).
LogExact == Tenant!LogExact
=============================================================================
