------------------------------ MODULE ToolCalls ------------------------------
(***************************************************************************)
(* Tool calls as the documentation of tools/permissions.py describes them: *)
(* a call is checked by the permission matrix, and run in the sandbox when *)
(* it is allowed, while others change rules, limits and policies.          *)
(***************************************************************************)
EXTENDS ToolPermissions, ToolSandbox, FiniteSets

VARIABLES tool,       \* per caller: the tool of its call
          admitted    \* history: per pair and limit, how many calls rules of
                      \* that limit or less have let through since the last
                      \* reset

vars == <<matrix, sandbox, tool, admitted>>

Limits == {r.max : r \in Grants} \ {NoLimit}

Init ==
    /\ MatrixInit /\ SandboxInit
    /\ tool = [c \in Callers |-> CHOOSE x \in Tools : TRUE]
    /\ admitted = [p \in Pairs |-> [m \in Limits |-> 0]]

\* A call by c is checked; if it is refused it is over.
Call(c, t, x, action) ==
    /\ step[c] = "idle"
    /\ Check(t, x, action)
    /\ IF Allowed(t, x, action)
       THEN /\ step' = [step EXCEPT ![c] = "admitted"]
            /\ tool' = [tool EXCEPT ![c] = x]
            /\ admitted' = [admitted EXCEPT ![<<t, x>>] =
                              [m \in Limits |->
                                 IF Limit(t, x, action) \in 0..m THEN @[m] + 1
                                 ELSE @[m]]]
       ELSE UNCHANGED <<step, tool, admitted>>
    /\ UNCHANGED <<policy, worker, thread, overdue>>

Run(c) ==
    /\ step[c] = "admitted"
    /\ Execute(c, tool[c]) \/ ExecuteWithBudget(c)
    /\ UNCHANGED <<matrix, tool, admitted>>

Finish(c) == (Join(c) \/ Report(c)) /\ UNCHANGED <<matrix, tool, admitted>>

\* The tool's thread, and whoever sets policies.
Aside ==
    /\ \/ \E r \in Threads : ThreadStep(r)
       \/ \E x \in Tools, p \in Policies \ {"none"} : AddPolicy(x, p)
    /\ UNCHANGED <<matrix, tool, admitted>>

GrantRule == \E r \in Grants : Grant(r)
DenyPair == \E p \in Patterns : Deny(p[1], p[2])
RevokePair == \E p \in Patterns : Revoke(p[1], p[2])

Administration ==
    /\ \/ /\ GrantRule \/ DenyPair \/ RevokePair \/ Tick
          /\ UNCHANGED admitted
       \/ /\ ResetCallCounts
          /\ admitted' = [p \in Pairs |-> [m \in Limits |-> 0]]
    /\ UNCHANGED <<sandbox, tool>>

Next ==
    \/ \E c \in Callers :
          \/ \E t \in Tenants, x \in Tools, action \in Actions \cup {Star} :
                Call(c, t, x, action)
          \/ Run(c) \/ Finish(c)
    \/ Aside
    \/ Administration

Spec == Init /\ [][Next]_vars

\* A caller goes on once its thread is started: join waits only so long.
\* Nothing makes a tool end.
FairSpec == Spec /\ \A c \in Callers : WF_vars(Finish(c))

-----------------------------------------------------------------------------
(* Properties.                                                             *)

TypeOK == MatrixTypeOK /\ SandboxTypeOK

\* However rules with limits are revoked, granted anew and overlap, between two
\* resets of the counts no more calls of a tenant to a tool pass through rules
\* of a limit up to m than m.
RateHeld == \A p \in Pairs, m \in Limits : admitted[p][m] <= m

\* Where everything is denied by default a rule that is granted never takes
\* access away, and nowhere does one that denies give it, whatever was in the
\* list before.
AccessMonotone ==
    [][/\ GrantRule /\ defaultDeny =>
             \A t \in Tenants, x \in Tools, action \in Actions \cup {Star} :
                 Allowed(t, x, action) => Allowed(t, x, action)'
       /\ DenyPair =>
             \A t \in Tenants, x \in Tools, action \in Actions \cup {Star} :
                 Allowed(t, x, action)' => Allowed(t, x, action)]_vars

\* Every call that was started ends, though its tool may never do so.
Returns == \A c \in Callers : step[c] = "joining" ~> step[c] = "idle"

\* "Kills runaway tools that exceed configured limits.": a tool whose call has
\* reported that it exceeded its wall-clock limit does not run for ever.
RunawaysKilled == \A r \in Threads : r \in overdue ~> thread[r] # "running"
==============================================================================
