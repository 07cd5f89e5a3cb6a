---------------------------- MODULE SlidingWindow ----------------------------
(***************************************************************************)
(* SlidingWindowRateLimiter of ratelimit/sliding_window.py, for the        *)
(* endpoints of one tenant (tenants share no counter).  Time is discrete;  *)
(* the estimate prev * overlap + current is compared with the limit after  *)
(* multiplying both by the window, so that it stays an integer.            *)
(***************************************************************************)
EXTENDS FiniteSets, Tally

CONSTANTS Endpoints, AnyEndpoint,    \* endpoints asked for; the endpoint "*"
          EndpointLimits, Windows,   \* effective_limit and window_seconds in use
          DefaultLimit, DefaultWindow,
          MaxClock,          \* bound on the clock
          NoConfig

ASSUME WindowAssumption ==
    /\ AnyEndpoint \in Endpoints
    /\ EndpointLimits \subseteq Nat /\ DefaultLimit \in EndpointLimits
    /\ Windows \subseteq Nat \ {0} /\ DefaultWindow \in Windows
    /\ MaxClock \in Nat
    /\ NoConfig \notin [limit : EndpointLimits, window : Windows]

VARIABLES clock,
          configs,    \* _endpoint_configs
          counters,   \* _counters: per endpoint, count by window start
          log         \* history: requests let through at each instant

windowVars == <<clock, configs, counters, log>>

Config == [limit : EndpointLimits, window : Windows]
Instants == 0..MaxClock
Nothing == [i \in Instants |-> 0]

WindowInit ==
    /\ clock = 0
    /\ configs = [e \in Endpoints |-> NoConfig]
    /\ counters = [e \in Endpoints |-> Nothing]
    /\ log = [e \in Endpoints |-> Nothing]

\* _get_config: its own rule, else the pattern "*", else the default.
ConfigOf(e) ==
    CASE configs[e] # NoConfig -> configs[e]
      [] configs[e] = NoConfig /\ configs[AnyEndpoint] # NoConfig ->
           configs[AnyEndpoint]
      [] OTHER -> [limit |-> DefaultLimit, window |-> DefaultWindow]

WindowStart(window) == clock - (clock % window)

\* The counter of the window that starts at i.
CountAt(e, i) == IF i \in Instants THEN counters[e][i] ELSE 0

CountCurrentOnly(e, window) == counters[e][WindowStart(window)] * window

\* _get_sliding_count, times the window.
SlidingCount(e, window) ==
    LET start == WindowStart(window)
        elapsed == clock - start
    IN CountAt(e, start - window) * (window - elapsed)
         + counters[e][start] * window

UnderLimit(e) ==
    LET c == ConfigOf(e) IN SlidingCount(e, c.window) < c.limit * c.window

\* _increment: counts in the current window, forgets all but the last two.
Incremented(e, window) ==
    LET start == WindowStart(window) IN
    [i \in Instants |->
        CASE i = start -> counters[e][i] + 1
          [] i = start - window -> counters[e][i]
          [] OTHER -> 0]

-----------------------------------------------------------------------------

\* A request that is not allowed raises RateLimitExceeded and changes nothing.
Consume(e) ==
    /\ UnderLimit(e)
    /\ counters' = [counters EXCEPT ![e] = Incremented(e, ConfigOf(e).window)]
    /\ log' = [log EXCEPT ![e][clock] = @ + 1]
    /\ UNCHANGED <<clock, configs>>

\* reset; what went before no longer counts.
Reset(e) ==
    /\ counters' = [counters EXCEPT ![e] = Nothing]
    /\ log' = [log EXCEPT ![e] = Nothing]
    /\ UNCHANGED <<clock, configs>>

AddConfig(e, c) ==
    /\ configs' = [configs EXCEPT ![e] = c]
    /\ UNCHANGED <<clock, counters, log>>

WindowTick ==
    /\ clock < MaxClock
    /\ clock' = clock + 1
    /\ UNCHANGED <<configs, counters, log>>

WindowNext ==
    \/ \E e \in Endpoints :
          Consume(e) \/ Reset(e) \/ \E c \in Config : AddConfig(e, c)
    \/ WindowTick

WindowSpec == WindowInit /\ [][WindowNext]_windowVars

-----------------------------------------------------------------------------
(* Properties.                                                             *)

\* The types of the limiter's tables; at most two counters of an endpoint are
\* kept, however its window changes.
WindowTypeOK ==
    /\ clock \in Instants
    /\ configs \in [Endpoints -> Config \cup {NoConfig}]
    /\ counters \in [Endpoints -> [Instants -> Nat]]
    /\ log \in [Endpoints -> [Instants -> Nat]]
    /\ \A e \in Endpoints :
          Cardinality({i \in Instants : counters[e][i] > 0}) <= 2

\* Requests let through in the last `length' instants, the present one last.
Recent(e, length) == After(log[e], clock - length, clock)

\* As long as every rule has the same window, an interval of that length that
\* ends at the start of a window sees no more than the limit (the largest, when
\* it was changed), and one that ends later exceeds it by the share of the
\* window that has elapsed and less than one request: a pair of fixed windows
\* would let twice the limit through at their boundary.
BurstBounded ==
    WindowTypeOK /\ \A e \in Endpoints, w \in Windows :
        Windows = {w} =>
            \E n \in EndpointLimits : Recent(e, w) * w < n * (w + (clock % w)) + w

==============================================================================
