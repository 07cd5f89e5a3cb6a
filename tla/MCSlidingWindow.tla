-------------------------- MODULE MCSlidingWindow --------------------------
(* The two limiters, one of them in each behaviour. *)
EXTENDS RateLimiters

CONSTANTS Limiters

VARIABLES limiter

ASSUME Limiters \subseteq {"counters", "log"}

MCInit == limiter \in Limiters /\ WindowInit /\ Tenant!Init

MCNext ==
    \/ limiter = "counters" /\ WindowNext /\ UNCHANGED <<limiter, tenantVars>>
    \/ /\ limiter = "log"
       /\ Tenant!Next
       /\ UNCHANGED <<limiter, configs, counters, log>>

MCSpec == MCInit /\ [][MCNext]_<<limiter, windowVars, tenantVars>>
=============================================================================
