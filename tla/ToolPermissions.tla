--------------------------- MODULE ToolPermissions ---------------------------
(***************************************************************************)
(* ToolPermissionMatrix of tools/permissions.py on discrete time: an       *)
(* ordered list of allow and deny rules, and the count of the calls that   *)
(* rules with a limit have let through.                                    *)
(***************************************************************************)
EXTENDS Integers, SequencesExt, ToolNames

CONSTANTS Tenants, Actions,
          Star,         \* "*", as a tenant, a tool or an action of a rule
          Grants,      \* the allow rules that are tried
          Patterns,    \* the pairs of a tenant and a tool given to deny and
                       \* to revoke
          MaxRules,    \* bound: rules in the list
          MaxTime      \* bound: when the clock stops

Never == -1      \* expires_at = None
NoLimit == -1    \* max_calls_per_hour = None

Rule == [tenant : Tenants \cup {Star}, tool : Tools \cup {Star},
         level : {"allow", "deny"}, actions : SUBSET (Actions \cup {Star}),
         max : Nat \cup {NoLimit}, expires : Nat \cup {Never}]

ASSUME PermissionAssumption ==
    /\ Star \notin Tenants \cup Tools \cup Actions
    /\ MaxRules \in Nat /\ MaxTime \in Nat
    /\ Grants \subseteq Rule
    /\ Patterns \subseteq (Tenants \cup {Star}) \X (Tools \cup {Star})
    /\ \A r \in Grants : r.level = "allow"

VARIABLES now,
          rules,         \* _rules
          counts,        \* _call_counts, by tenant and tool
          defaultDeny    \* fixed: default_deny

matrix == <<now, rules, counts, defaultDeny>>

Pairs == Tenants \X Tools

MatrixInit ==
    /\ now = 0
    /\ rules = <<>>
    /\ counts = [p \in Pairs |-> 0]
    /\ defaultDeny \in BOOLEAN

-----------------------------------------------------------------------------
(* check.                                                                  *)

\* _rule_applies.
Applies(r, t, x) == r.tenant \in {t, Star} /\ r.tool \in {x, Star}

\* Rules made by deny never expire.
Denied(t, x) ==
    \E i \in DOMAIN rules : Applies(rules[i], t, x) /\ rules[i].level = "deny"

IsExpired(r) == r.expires # Never /\ now > r.expires

Permits(r, t, x, action) ==
    /\ Applies(r, t, x) /\ r.level = "allow" /\ ~IsExpired(r)
    /\ r.actions \cap {action, Star} # {}

Permitting(t, x, action) ==
    {i \in DOMAIN rules : Permits(rules[i], t, x, action)}

\* The first rule that allows the action decides, even when it is used up and a
\* later one is not.
Limit(t, x, action) ==
    IF Permitting(t, x, action) = {} THEN NoLimit
    ELSE rules[Min(Permitting(t, x, action))].max

WithinLate(t, x, action) ==
    Limit(t, x, action) = NoLimit \/ counts[<<t, x>>] <= Limit(t, x, action)

Within(t, x, action) ==
    Limit(t, x, action) = NoLimit \/ counts[<<t, x>>] < Limit(t, x, action)

AllowedFirst(t, x, action) ==
    IF Permitting(t, x, action) = {} THEN ~defaultDeny /\ ~Denied(t, x)
                                     ELSE Within(t, x, action)

\* What check answers.
Allowed(t, x, action) ==
    /\ ~Denied(t, x)
    /\ IF Permitting(t, x, action) = {} THEN ~defaultDeny
                                           ELSE Within(t, x, action)

\* A call that a rule with a limit lets through is counted.
Check(t, x, action) ==
    /\ counts' = IF Allowed(t, x, action) /\ Limit(t, x, action) # NoLimit
                 THEN [counts EXCEPT ![<<t, x>>] = @ + 1] ELSE counts
    /\ UNCHANGED <<now, rules, defaultDeny>>

-----------------------------------------------------------------------------
(* The other operations.                                                   *)

GrantFirst(r) ==
    /\ Len(rules) < MaxRules
    /\ rules' = <<r>> \o rules
    /\ UNCHANGED <<now, counts, defaultDeny>>

Grant(r) ==
    /\ Len(rules) < MaxRules
    /\ rules' = Append(rules, r)
    /\ UNCHANGED <<now, counts, defaultDeny>>

Deny(t, x) ==
    /\ Len(rules) < MaxRules
    /\ rules' = Append(rules, [tenant |-> t, tool |-> x, level |-> "deny",
                               actions |-> {Star}, max |-> NoLimit,
                               expires |-> Never])
    /\ UNCHANGED <<now, counts, defaultDeny>>

\* The rules that were not made for exactly this pair, in their order.
Others(t, x) ==
    LET Kept[n \in 0..Len(rules)] ==
            IF n = 0 THEN <<>>
            ELSE IF rules[n].tenant = t /\ rules[n].tool = x THEN Kept[n - 1]
            ELSE Append(Kept[n - 1], rules[n])
    IN  Kept[Len(rules)]

RevokeCounting(t, x) ==
    /\ rules' = Others(t, x)
    /\ counts' = [p \in Pairs |-> IF p = <<t, x>> THEN 0 ELSE counts[p]]
    /\ UNCHANGED <<now, defaultDeny>>

\* revoke removes denials too.
Revoke(t, x) ==
    /\ rules' = Others(t, x)
    /\ UNCHANGED <<now, counts, defaultDeny>>

ResetCallCounts ==
    /\ counts' = [p \in Pairs |-> 0]
    /\ UNCHANGED <<now, rules, defaultDeny>>

Tick ==
    /\ now < MaxTime
    /\ now' = now + 1
    /\ UNCHANGED <<rules, counts, defaultDeny>>

MatrixTypeOK ==
    /\ now \in 0..MaxTime
    /\ rules \in Seq(Rule) /\ Len(rules) <= MaxRules
    /\ counts \in [Pairs -> Nat]
    /\ defaultDeny \in BOOLEAN
==============================================================================
