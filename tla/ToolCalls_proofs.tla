-------------------------- MODULE ToolCalls_proofs --------------------------
(***************************************************************************)
(* The limits of rules, for any number of tenants, tools, rules and        *)
(* callers, and, in the second half, the limits of the tenants' and of the *)
(* endpoints' rate limiters, for any limits, windows and sequences of      *)
(* requests.                                                               *)
(***************************************************************************)
EXTENDS ToolCalls, RateLimiters, TLAPS, SequenceTheorems,
        FiniteSetTheorems, NaturalsInduction, WellFoundedInduction

-----------------------------------------------------------------------------
(* The limits.  What was admitted under a limit is never more than what is *)
(* counted, which check compares with the limit.                           *)

CountsTyped ==
    /\ counts \in [Pairs -> Nat]
    /\ admitted \in [Pairs -> [Limits -> Nat]]

Counted == \A p \in Pairs, m \in Limits : admitted[p][m] <= counts[p]

RateInv == CountsTyped /\ Counted /\ RateHeld

LEMMA LimitsAreNumbers == Limits \subseteq Nat
  <1>1. \A r \in Grants : r.max \in Nat \cup {NoLimit}
    BY PermissionAssumption DEF Rule
  <1> QED BY <1>1 DEF Limits

LEMMA RateInit == Init => RateInv
  <1> SUFFICES ASSUME Init PROVE RateInv
    OBVIOUS
  <1>1. /\ counts = [p \in Pairs |-> 0]
        /\ admitted = [p \in Pairs |-> [m \in Limits |-> 0]]
    BY DEF Init, MatrixInit
  <1> QED BY <1>1, LimitsAreNumbers
       DEF RateInv, CountsTyped, Counted, RateHeld

\* A call that is let through, and one that is not.
LEMMA RateCall ==
    ASSUME RateInv, NEW c \in Callers, NEW t \in Tenants, NEW x \in Tools,
           NEW action, Call(c, t, x, action)
    PROVE  RateInv'
  <1> DEFINE l == Limit(t, x, action)
             pair == <<t, x>>
  <1>0. CountsTyped /\ pair \in Pairs
    BY DEF RateInv, Pairs
  <1>1. CASE ~Allowed(t, x, action)
    <2>1. counts' = counts /\ admitted' = admitted
      BY <1>1 DEF Call, Check
    <2> QED BY <2>1 DEF RateInv, CountsTyped, Counted, RateHeld
  <1>2. CASE Allowed(t, x, action)
    <2>1. admitted' = [admitted EXCEPT ![pair] =
                         [m \in Limits |-> IF l \in 0..m THEN @[m] + 1
                                                         ELSE @[m]]]
      BY <1>2 DEF Call
    <2>2. counts' = IF l # NoLimit THEN [counts EXCEPT ![pair] = @ + 1]
                                   ELSE counts
      BY <1>2 DEF Call, Check
    <2>3. l # NoLimit => counts[pair] < l
      BY <1>2 DEF Allowed, Within, Limit
    <2> HIDE DEF l, pair
    <2>4. CountsTyped'
      BY <1>0, <2>1, <2>2 DEF CountsTyped
    <2>5. ASSUME NEW p \in Pairs, NEW m \in Limits
          PROVE  admitted'[p][m] <= counts'[p] /\ admitted'[p][m] <= m
      <3>1. /\ counts[p] \in Nat /\ counts'[p] \in Nat
            /\ admitted[p][m] \in Nat /\ m \in Nat
        BY <1>0, <2>4, LimitsAreNumbers DEF CountsTyped
      <3>2. counts[p] <= counts'[p]
        BY <1>0, <2>2, <3>1 DEF CountsTyped
      <3>3. admitted[p][m] <= counts[p] /\ admitted[p][m] <= m
        BY DEF RateInv, Counted, RateHeld
      <3>4. CASE p = pair /\ l \in 0..m
        <4>1. l # NoLimit
          BY <3>1, <3>4 DEF NoLimit
        <4>2. counts'[p] = counts[p] + 1
          BY <1>0, <2>2, <3>4, <4>1 DEF CountsTyped
        <4>3. admitted'[p][m] = admitted[p][m] + 1
          BY <1>0, <2>1, <3>4 DEF CountsTyped
        <4>4. counts[p] < l /\ l \in Int /\ l <= m
          BY <2>3, <3>1, <3>4, <4>1
        <4> QED BY <3>1, <3>3, <4>2, <4>3, <4>4
      <3>5. CASE ~(p = pair /\ l \in 0..m)
        <4>1. admitted'[p][m] = admitted[p][m]
          BY <1>0, <2>1, <3>5 DEF CountsTyped
        <4> QED BY <3>1, <3>2, <3>3, <4>1
      <3> QED BY <3>4, <3>5
    <2> QED BY <2>4, <2>5 DEF RateInv, Counted, RateHeld
  <1> QED BY <1>1, <1>2

\* However rules with limits are revoked, granted anew and overlap, between
\* two resets no more calls pass under a limit than it says (check,
\* reset_call_counts).
THEOREM LimitsHold == Spec => []RateHeld
  <1>1. ASSUME RateInv, [Next]_vars
        PROVE  RateInv'
    <2>1. ASSUME NEW c \in Callers, NEW t \in Tenants, NEW x \in Tools,
                 NEW action \in Actions \cup {Star}, Call(c, t, x, action)
          PROVE  RateInv'
      BY <1>1, <2>1, RateCall
    <2>2. CASE counts' = counts /\ admitted' = admitted
      BY <1>1, <2>2 DEF RateInv, CountsTyped, Counted, RateHeld
    <2>3. ASSUME NEW c \in Callers, Run(c) \/ Finish(c)
          PROVE  RateInv'
      BY <2>2, <2>3 DEF Run, Finish, matrix
    <2>4. CASE Aside
      BY <2>2, <2>4 DEF Aside, matrix
    <2>5. CASE Administration
      <3>1. CASE /\ GrantRule \/ DenyPair \/ RevokePair \/ Tick
                 /\ UNCHANGED admitted
        BY <2>2, <3>1
           DEF GrantRule, DenyPair, RevokePair, Grant, Deny, Revoke, Tick
      <3>2. CASE /\ ResetCallCounts
                 /\ admitted' = [p \in Pairs |-> [m \in Limits |-> 0]]
        <4>1. counts' = [p \in Pairs |-> 0]
          BY <3>2 DEF ResetCallCounts
        <4> QED BY <3>2, <4>1, LimitsAreNumbers
             DEF RateInv, CountsTyped, Counted, RateHeld
      <3> QED BY <2>5, <3>1, <3>2 DEF Administration
    <2>6. CASE UNCHANGED vars
      BY <2>2, <2>6 DEF vars, matrix
    <2> QED BY <1>1, <2>1, <2>3, <2>4, <2>5, <2>6 DEF Next
  <1>2. RateInv => RateHeld
    BY DEF RateInv
  <1> QED BY <1>1, <1>2, RateInit, PTL DEF Spec

-----------------------------------------------------------------------------
(* The list of rules is a list of rules: what revoke leaves is one, by an  *)
(* induction over the list that is written out, on sets of numbers.        *)

LEMMA Least ==
    ASSUME NEW T \in SUBSET Nat, T # {}
    PROVE  \E x \in T : \A y \in T : x <= y
  <1> DEFINE R == {ss \in Nat \X Nat : ss[1] < ss[2]}
  <1>1. IsWellFoundedOn(R, Nat)
    BY NatLessThanWellFounded DEF OpToRel
  <1>2. PICK x \in T : \A y \in T : ~(<<y, x>> \in R)
    BY <1>1, WFMin
  <1>3. ASSUME NEW y \in T PROVE x <= y
    <2>1. ~(<<y, x>>[1] < <<y, x>>[2]) /\ x \in Nat /\ y \in Nat
      BY <1>2
    <2> QED BY <2>1
  <1> QED BY <1>3

LEMMA Upwards ==
    ASSUME NEW N \in Nat, NEW T, 0 \in T,
           \A n \in 0..(N - 1) : n \in T => n + 1 \in T
    PROVE  0..N \subseteq T
  <1> SUFFICES ASSUME NEW k \in 0..N, k \notin T PROVE FALSE
    OBVIOUS
  <1> DEFINE F == {n \in 0..N : n \notin T}
  <1>0. F \in SUBSET Nat /\ F # {}
    OBVIOUS
  <1> HIDE DEF F
  <1>1. PICK x \in F : \A y \in F : x <= y
    BY <1>0, Least
  <1> USE DEF F
  <1>2. x # 0 /\ x - 1 \in 0..(N - 1) /\ x - 1 \in T
    BY <1>1
  <1> QED BY <1>1, <1>2

LEMMA RulesTyped ==
    ASSUME NEW list \in Seq(Rule)
    PROVE  /\ Len(list) \in Nat /\ DOMAIN list = 1..Len(list)
           /\ \A n \in 1..Len(list) : list[n] \in Rule
  OBVIOUS

\* One step of the sifting in Others, and the whole of it up to m.
Sift(list, n, t, x) ==
    IF rules[n].tenant = t /\ rules[n].tool = x THEN list
                                                ELSE Append(list, rules[n])

IsSifting(f, m, t, x) ==
    f = [n \in 0..m |-> IF n = 0 THEN <<>> ELSE Sift(f[n - 1], n, t, x)]

LEMMA SiftingIs ==
    ASSUME NEW t, NEW x
    PROVE  Others(t, x) = (CHOOSE f : IsSifting(f, Len(rules), t, x))[Len(rules)]
  BY DEF Others, IsSifting, Sift

LEMMA SiftingExists ==
    ASSUME NEW N \in Nat, NEW t, NEW x
    PROVE  \E f : IsSifting(f, N, t, x)
  <1> DEFINE T == {m \in 0..N : \E f : IsSifting(f, m, t, x)}
  <1>1. 0 \in T
    <2> DEFINE f == [n \in 0..0 |-> <<>>]
    <2>1. \A n \in 0..0 : <<>> = IF n = 0 THEN <<>> ELSE Sift(f[n - 1], n, t, x)
      OBVIOUS
    <2>2. IsSifting(f, 0, t, x)
      BY <2>1 DEF IsSifting
    <2> HIDE DEF f
    <2>3. 0 \in 0..N
      OBVIOUS
    <2> QED BY <2>2, <2>3
  <1>2. ASSUME NEW m \in 0..(N - 1), m \in T PROVE m + 1 \in T
    <2>1. PICK f : IsSifting(f, m, t, x)
      BY <1>2
    <2> DEFINE g == [n \in 0..(m + 1) |-> IF n <= m THEN f[n]
                                          ELSE Sift(f[m], m + 1, t, x)]
    <2>2. \A n \in 0..m : f[n] = IF n = 0 THEN <<>> ELSE Sift(f[n - 1], n, t, x)
      BY <2>1 DEF IsSifting
    <2>3. ASSUME NEW n \in 0..(m + 1)
          PROVE  g[n] = IF n = 0 THEN <<>> ELSE Sift(g[n - 1], n, t, x)
      <3>1. CASE n <= m
        <4>1. g[n] = f[n] /\ (n # 0 => g[n - 1] = f[n - 1])
          BY <3>1
        <4>2. n \in 0..m
          BY <3>1
        <4> HIDE DEF g
        <4> QED BY <2>2, <4>1, <4>2
      <3>2. CASE n = m + 1
        <4>1. g[n] = Sift(f[m], m + 1, t, x) /\ g[n - 1] = f[m] /\ n # 0
          BY <3>2
        <4> HIDE DEF g
        <4> QED BY <3>2, <4>1
      <3> QED BY <3>1, <3>2
    <2>4. IsSifting(g, m + 1, t, x)
      BY <2>3 DEF IsSifting
    <2>5. m + 1 \in 0..N
      OBVIOUS
    <2> HIDE DEF g
    <2> QED BY <2>4, <2>5
  <1> HIDE DEF T
  <1>3. N \in T
    BY <1>1, <1>2, Upwards
  <1> QED BY <1>3 DEF T

\* Rules are only left out: revoke leaves a list of rules.
LEMMA OthersTyped ==
    ASSUME rules \in Seq(Rule), NEW t, NEW x
    PROVE  Others(t, x) \in Seq(Rule)
  <1> DEFINE N == Len(rules)
  <1>0. N \in Nat /\ \A n \in 1..N : rules[n] \in Rule
    BY RulesTyped
  <1> HIDE DEF N
  <1>1. PICK f : IsSifting(f, N, t, x) /\ Others(t, x) = f[N]
    BY <1>0, SiftingIs, SiftingExists DEF N
  <1>2. \A n \in 0..N : f[n] = IF n = 0 THEN <<>> ELSE Sift(f[n - 1], n, t, x)
    BY <1>1 DEF IsSifting
  <1> DEFINE T == {n \in 0..N : f[n] \in Seq(Rule)}
  <1>3. 0 \in T
    <2>1. 0 \in 0..N /\ f[0] = <<>>
      BY <1>0, <1>2
    <2>2. <<>> \in Seq(Rule)
      OBVIOUS
    <2> QED BY <2>1, <2>2
  <1>4. ASSUME NEW n \in 0..(N - 1), n \in T PROVE n + 1 \in T
    <2>1. n + 1 \in 1..N /\ n + 1 \in 0..N /\ (n + 1) - 1 = n /\ n + 1 # 0
      BY <1>0
    <2>2. f[n + 1] = Sift(f[n], n + 1, t, x)
      BY <1>2, <2>1
    <2>3. f[n] \in Seq(Rule) /\ rules[n + 1] \in Rule
      BY <1>0, <1>4, <2>1
    <2>4. Append(f[n], rules[n + 1]) \in Seq(Rule)
      BY <2>3, AppendProperties
    <2>5. f[n + 1] \in Seq(Rule)
      BY <2>2, <2>3, <2>4 DEF Sift
    <2> QED BY <2>1, <2>5
  <1> HIDE DEF T
  <1>5. 0..N \subseteq T
    BY <1>0, <1>3, <1>4, Upwards
  <1>6. f[N] \in Seq(Rule)
    BY <1>0, <1>5 DEF T
  <1> QED BY <1>1, <1>6

RulesInv == rules \in Seq(Rule)

LEMMA RulesStep == RulesInv /\ [Next]_vars => RulesInv'
  <1> SUFFICES ASSUME rules \in Seq(Rule), [Next]_vars PROVE rules' \in Seq(Rule)
    BY DEF RulesInv
  <1>1. ASSUME NEW r \in Grants, Grant(r) PROVE rules' \in Seq(Rule)
    <2>1. r \in Rule /\ rules' = Append(rules, r)
      BY <1>1, PermissionAssumption DEF Grant
    <2> QED BY <2>1, AppendProperties
  <1>2. ASSUME NEW p \in Patterns, Deny(p[1], p[2]) PROVE rules' \in Seq(Rule)
    <2>1. p[1] \in Tenants \cup {Star} /\ p[2] \in Tools \cup {Star}
      BY <1>2, PermissionAssumption
    <2> DEFINE r == [tenant |-> p[1], tool |-> p[2], level |-> "deny",
                     actions |-> {Star}, max |-> NoLimit, expires |-> Never]
    <2>2. r \in Rule
      BY <2>1 DEF Rule
    <2>3. rules' = Append(rules, r)
      BY <1>2 DEF Deny
    <2> HIDE DEF r
    <2> QED BY <2>2, <2>3, AppendProperties
  <1>3. ASSUME NEW p \in Patterns, Revoke(p[1], p[2]) PROVE rules' \in Seq(Rule)
    BY <1>3, OthersTyped DEF Revoke
  <1>4. ASSUME NEW c \in Callers, NEW t \in Tenants, NEW x \in Tools,
               NEW action \in Actions \cup {Star}, Call(c, t, x, action)
        PROVE  rules' \in Seq(Rule)
    BY <1>4 DEF Call, Check
  <1>5. ASSUME NEW c \in Callers, Run(c) \/ Finish(c) PROVE rules' \in Seq(Rule)
    BY <1>5 DEF Run, Finish, matrix
  <1>6. CASE Aside
    BY <1>6 DEF Aside, matrix
  <1>7. CASE Administration
    BY <1>1, <1>2, <1>3, <1>7
       DEF Administration, GrantRule, DenyPair, RevokePair, Tick, ResetCallCounts
  <1>8. CASE UNCHANGED vars
    BY <1>8 DEF vars, matrix
  <1> QED BY <1>4, <1>5, <1>6, <1>7, <1>8 DEF Next

-----------------------------------------------------------------------------
(* What a rule at the end of the list does to the answers of check.        *)

\* The first of some positions stays the first when a later one joins them.
LEMMA FirstStays ==
    ASSUME NEW S \in SUBSET Nat, S # {}, NEW n \in Nat, \A i \in S : i < n,
           NEW R, R = S \/ R = S \cup {n}
    PROVE  Min(R) = Min(S) /\ Min(S) \in S
  <1>1. PICK m \in S : \A y \in S : m <= y
    BY Least
  <1>2. /\ m \in R /\ R \in SUBSET Nat
        /\ \A y \in R : y \in S \/ y = n
    OBVIOUS
  <1>3. \A y \in R : m <= y
    BY <1>1, <1>2
  <1>4. Min(S) \in S /\ \A y \in S : Min(S) <= y
    BY <1>1, Zenon DEF Min
  <1>5. Min(R) \in R /\ \A y \in R : Min(R) <= y
    BY <1>2, <1>3, Zenon DEF Min
  <1>6. \A a, b \in Nat : a <= b /\ b <= a => a = b
    OBVIOUS
  <1>7. Min(S) = m
    <2>1. Min(S) \in Nat /\ m \in Nat /\ m <= Min(S) /\ Min(S) <= m
      BY <1>1, <1>4, Zenon
    <2> QED BY <1>6, <2>1, Zenon
  <1>8. Min(R) = m
    <2>1. Min(R) \in Nat /\ m \in Nat /\ m <= Min(R) /\ Min(R) <= m
      BY <1>2, <1>3, <1>5, Zenon
    <2> QED BY <1>6, <2>1, Zenon
  <1> QED BY <1>4, <1>7, <1>8, Zenon

LEMMA Appended ==
    ASSUME rules \in Seq(Rule), NEW r \in Rule, rules' = Append(rules, r)
    PROVE  /\ Len(rules) \in Nat /\ DOMAIN rules = 1..Len(rules)
           /\ DOMAIN rules' = 1..(Len(rules) + 1)
           /\ rules'[Len(rules) + 1] = r
           /\ \A i \in 1..Len(rules) : rules'[i] = rules[i]
  BY RulesTyped, AppendProperties

LEMMA PermittingAppended ==
    ASSUME rules \in Seq(Rule), NEW r \in Rule, rules' = Append(rules, r),
           now' = now, NEW t, NEW x, NEW action
    PROVE  Permitting(t, x, action)' =
             IF Permits(r, t, x, action)
             THEN Permitting(t, x, action) \cup {Len(rules) + 1}
             ELSE Permitting(t, x, action)
  <1>1. \A s : Permits(s, t, x, action)' <=> Permits(s, t, x, action)
    BY DEF Permits, IsExpired, Applies
  <1> QED BY <1>1, Appended DEF Permitting

LEMMA GrantAddsAccess ==
    ASSUME rules \in Seq(Rule), NEW r \in Grants, Grant(r), defaultDeny,
           NEW t, NEW x, NEW action, Allowed(t, x, action)
    PROVE  Allowed(t, x, action)'
  <1> DEFINE S == Permitting(t, x, action)
             n == Len(rules)
  <1>1. /\ rules' = Append(rules, r) /\ counts' = counts /\ now' = now
        /\ defaultDeny' = defaultDeny /\ r \in Rule /\ r.level = "allow"
    BY PermissionAssumption DEF Grant
  <1>2. /\ n \in Nat /\ DOMAIN rules = 1..n /\ DOMAIN rules' = 1..(n + 1)
        /\ rules'[n + 1] = r /\ \A i \in 1..n : rules'[i] = rules[i]
    BY <1>1, Appended
  <1>3. ~Denied(t, x)'
    <2>1. ~Denied(t, x)
      BY DEF Allowed
    <2>2. ASSUME NEW i \in 1..(n + 1), Applies(rules'[i], t, x)
          PROVE  rules'[i].level # "deny"
      <3>1. CASE i = n + 1
        BY <1>1, <1>2, <3>1
      <3>2. CASE i # n + 1
        <4>1. i \in 1..n /\ rules'[i] = rules[i]
          BY <1>2, <3>2
        <4> QED BY <1>2, <2>1, <2>2, <4>1 DEF Denied
      <3> QED BY <3>1, <3>2
    <2> QED BY <1>2, <2>2 DEF Denied
  <1>4. S # {} /\ Within(t, x, action)
    BY DEF Allowed
  <1>5. S \in SUBSET Nat /\ n + 1 \in Nat /\ \A i \in S : i < n + 1 /\ i \in 1..n
    BY <1>2 DEF Permitting
  <1>6. S' = S \/ S' = S \cup {n + 1}
    BY <1>1, PermittingAppended
  <1> HIDE DEF S, n
  <1>7. Min(S') = Min(S) /\ Min(S) \in S
    BY <1>4, <1>5, <1>6, FirstStays
  <1>8. rules'[Min(S')] = rules[Min(S)] /\ S' # {}
    BY <1>2, <1>4, <1>5, <1>6, <1>7
  <1>9. Limit(t, x, action)' = Limit(t, x, action)
    BY <1>4, <1>8 DEF Limit, S
  <1>10. Within(t, x, action)'
    BY <1>1, <1>4, <1>9 DEF Within
  <1> QED BY <1>3, <1>8, <1>10 DEF Allowed, S

LEMMA DenyTakesAccess ==
    ASSUME rules \in Seq(Rule), NEW p \in Patterns, Deny(p[1], p[2]),
           NEW t, NEW x, NEW action, Allowed(t, x, action)'
    PROVE  Allowed(t, x, action)
  <1> DEFINE r == [tenant |-> p[1], tool |-> p[2], level |-> "deny",
                   actions |-> {Star}, max |-> NoLimit, expires |-> Never]
             S == Permitting(t, x, action)
             n == Len(rules)
  <1>1. /\ rules' = Append(rules, r) /\ counts' = counts /\ now' = now
        /\ defaultDeny' = defaultDeny /\ r.level = "deny"
    BY DEF Deny
  <1>2. r \in Rule
    <2>1. p[1] \in Tenants \cup {Star} /\ p[2] \in Tools \cup {Star}
      BY PermissionAssumption
    <2> QED BY <2>1 DEF Rule
  <1>3. ~Permits(r, t, x, action)
    BY <1>1 DEF Permits
  <1> HIDE DEF r
  <1>4. /\ n \in Nat /\ DOMAIN rules = 1..n /\ DOMAIN rules' = 1..(n + 1)
        /\ \A i \in 1..n : rules'[i] = rules[i]
    BY <1>1, <1>2, Appended
  <1>5. ~Denied(t, x)
    <2>1. ~Denied(t, x)'
      BY DEF Allowed
    <2>2. ASSUME NEW i \in 1..n, Applies(rules[i], t, x)
          PROVE  rules[i].level # "deny"
      <3>1. i \in 1..(n + 1) /\ rules'[i] = rules[i]
        BY <1>4
      <3> QED BY <1>4, <2>1, <2>2, <3>1 DEF Denied
    <2> QED BY <1>4, <2>2 DEF Denied
  <1>6. S' = S
    BY <1>1, <1>2, <1>3, PermittingAppended
  <1>7. S \in SUBSET Nat /\ n + 1 \in Nat /\ \A i \in S : i < n + 1 /\ i \in 1..n
    BY <1>4 DEF Permitting
  <1> HIDE DEF S, n
  <1>8. Limit(t, x, action)' = Limit(t, x, action)
    <2>1. CASE S = {}
      BY <1>6, <2>1 DEF Limit, S
    <2>2. CASE S # {}
      <3>1. Min(S) \in S
        BY <1>7, <2>2, FirstStays
      <3>2. rules'[Min(S')] = rules[Min(S)]
        BY <1>4, <1>6, <1>7, <3>1
      <3> QED BY <1>6, <2>2, <3>2 DEF Limit, S
    <2> QED BY <2>1, <2>2
  <1>9. Within(t, x, action)' <=> Within(t, x, action)
    BY <1>1, <1>8 DEF Within
  <1> QED BY <1>1, <1>5, <1>6, <1>9 DEF Allowed, S

\* Where everything is denied by default a rule that is granted never takes
\* access away, and nowhere does one that denies give it, whatever the list
\* holds: a granted rule comes last, and the first that permits a call decides
\* (grant, deny, check).
THEOREM AccessGrows == Spec => AccessMonotone
  <1>1. Init => RulesInv
    BY DEF Init, MatrixInit, RulesInv
  <1>2. RulesInv /\ [Next]_vars =>
          [/\ GrantRule /\ defaultDeny =>
                \A t \in Tenants, x \in Tools, action \in Actions \cup {Star} :
                    Allowed(t, x, action) => Allowed(t, x, action)'
           /\ DenyPair =>
                \A t \in Tenants, x \in Tools, action \in Actions \cup {Star} :
                    Allowed(t, x, action)' => Allowed(t, x, action)]_vars
    BY GrantAddsAccess, DenyTakesAccess DEF GrantRule, DenyPair, RulesInv
  <1> QED BY <1>1, <1>2, RulesStep, PTL DEF Spec, AccessMonotone

-----------------------------------------------------------------------------
(* Tallies: what Through adds up exists, by steps, and grows.              *)

\* The sums of the first counts, up to instant n.
AreSums(sum, count, n) ==
    sum = [k \in 0..n |-> IF k = 0 THEN count[0] ELSE sum[k - 1] + count[k]]

LEMMA SumsExist ==
  ASSUME NEW N \in Nat, NEW count \in [0..N -> Nat]
  PROVE  \E sum : AreSums(sum, count, N)
<1> DEFINE T == {n \in 0..N : \E sum \in [0..n -> Nat] : AreSums(sum, count, n)}
<1>1. 0 \in T
  <2> DEFINE first == [k \in 0..0 |-> count[0]]
  <2>1. first \in [0..0 -> Nat]
    OBVIOUS
  <2>2. AreSums(first, count, 0)
    BY DEF AreSums
  <2>3. QED
    BY <2>1, <2>2
<1>2. ASSUME NEW n \in 0..(N - 1), n \in T
      PROVE  n + 1 \in T
  <2>1. PICK sum \in [0..n -> Nat] : AreSums(sum, count, n)
    BY <1>2
  <2> DEFINE more == [k \in 0..(n + 1) |->
                        IF k = n + 1 THEN sum[n] + count[k] ELSE sum[k]]
  <2>2. more \in [0..(n + 1) -> Nat]
    OBVIOUS
  <2>3. \A k \in 0..n :
           sum[k] = IF k = 0 THEN count[0] ELSE sum[k - 1] + count[k]
    BY <2>1 DEF AreSums
  <2>4. \A k \in 0..(n + 1) :
           more[k] = IF k = 0 THEN count[0] ELSE more[k - 1] + count[k]
    <3> TAKE k \in 0..(n + 1)
    <3>1. CASE k = n + 1
      <4>1. more[k] = sum[n] + count[k] /\ more[k - 1] = sum[n] /\ k # 0
        BY <3>1
      <4>2. QED
        BY <4>1
    <3>2. CASE k \in 0..n
      <4>1. more[k] = sum[k] /\ (k # 0 => more[k - 1] = sum[k - 1])
        BY <3>2
      <4>2. QED
        BY <2>3, <3>2, <4>1
    <3>3. QED
      BY <3>1, <3>2
  <2>5. more = [k \in 0..(n + 1) |-> more[k]]
    BY <2>2
  <2> HIDE DEF more
  <2>6. AreSums(more, count, n + 1)
    BY <2>4, <2>5 DEF AreSums
  <2>7. QED
    BY <2>2, <2>6
<1> HIDE DEF T
<1>3. 0..N \subseteq T
  BY <1>1, <1>2, Upwards
<1>4. N \in T
  BY <1>3
<1>5. QED
  BY <1>4 DEF T

\* What Through adds up, one instant after the other.
Tallies(count, N) ==
    /\ \A i \in Int : i < 0 => Through(count, i) = 0
    /\ Through(count, 0) = count[0]
    /\ \A i \in 0..N : Through(count, i) \in Nat
    /\ \A i \in 0..(N - 1) :
          Through(count, i + 1) = Through(count, i) + count[i + 1]

LEMMA ThroughTallies ==
  ASSUME NEW N \in Nat, NEW count \in [0..N -> Nat]
  PROVE  Tallies(count, N)
<1> DEFINE sum == CHOOSE s : AreSums(s, count, N)
<1>1. AreSums(sum, count, N)
  BY SumsExist
<1>2. sum = CHOOSE s : s = [k \in DOMAIN count |->
                              IF k = 0 THEN count[0] ELSE s[k - 1] + count[k]]
  BY DEF AreSums
<1> HIDE DEF sum
<1>3. \A i : Through(count, i) = IF i < 0 THEN 0 ELSE sum[i]
  BY <1>2 DEF Through
<1>4. \A k \in 0..N :
         sum[k] = IF k = 0 THEN count[0] ELSE sum[k - 1] + count[k]
  BY <1>1 DEF AreSums
<1>5. \A k \in 0..(N - 1) : sum[k + 1] = sum[k] + count[k + 1]
  <2> TAKE k \in 0..(N - 1)
  <2>1. k + 1 \in 0..N /\ k + 1 # 0 /\ (k + 1) - 1 = k
    OBVIOUS
  <2>2. QED
    BY <1>4, <2>1
<1> DEFINE T == {k \in 0..N : sum[k] \in Nat}
<1>6. 0 \in T
  BY <1>4
<1>7. \A k \in 0..(N - 1) : k \in T => k + 1 \in T
  BY <1>5
<1> HIDE DEF T
<1>8. 0..N \subseteq T
  BY <1>6, <1>7, Upwards
<1>9. \A k \in 0..N : sum[k] \in Nat /\ Through(count, k) = sum[k]
  BY <1>3, <1>8 DEF T
<1>10. /\ \A i \in Int : i < 0 => Through(count, i) = 0
       /\ Through(count, 0) = count[0]
  BY <1>3, <1>4
<1>11. \A k \in 0..(N - 1) :
          Through(count, k + 1) = Through(count, k) + count[k + 1]
  <2> TAKE k \in 0..(N - 1)
  <2>1. k + 1 \in 0..N /\ k \in 0..N
    OBVIOUS
  <2>2. QED
    BY <1>5, <1>9, <2>1
<1>12. QED
  BY <1>9, <1>10, <1>11 DEF Tallies

\* More instants, more counted.
LEMMA ThroughGrows ==
  ASSUME NEW N \in Nat, NEW count \in [0..N -> Nat],
         NEW i \in Int, NEW j \in Int, i <= j, j <= N
  PROVE  /\ Through(count, i) \in Nat /\ Through(count, j) \in Nat
         /\ Through(count, i) <= Through(count, j)
<1> DEFINE T == {k \in 0..N : k < i \/ Through(count, i) <= Through(count, k)}
<1>1. Tallies(count, N)
  BY ThroughTallies
<1>2. \A k \in Int : k <= N => Through(count, k) \in Nat
  BY <1>1 DEF Tallies
<1>3. 0 \in T
  <2>1. CASE i > 0
    BY <2>1
  <2>2. CASE i = 0
    BY <1>2, <2>2
  <2>3. CASE i < 0
    <3>1. Through(count, i) = 0 /\ Through(count, 0) \in Nat
      BY <1>1, <2>3 DEF Tallies
    <3>2. QED
      BY <3>1
  <2>4. QED
    BY <2>1, <2>2, <2>3
<1>4. ASSUME NEW k \in 0..(N - 1), k \in T PROVE k + 1 \in T
  <2>1. Through(count, k + 1) = Through(count, k) + count[k + 1]
    BY <1>1 DEF Tallies
  <2>2. count[k + 1] \in Nat /\ Through(count, k) \in Nat
        /\ Through(count, k + 1) \in Nat /\ Through(count, i) \in Nat
    BY <1>2
  <2>3. QED
    BY <1>4, <2>1, <2>2
<1> HIDE DEF T
<1>5. 0..N \subseteq T
  BY <1>3, <1>4, Upwards
<1>6. CASE j < 0
  BY <1>1, <1>6 DEF Tallies
<1>7. CASE j >= 0
  <2>1. j \in T
    BY <1>5, <1>7
  <2>2. QED
    BY <1>2, <2>1 DEF T
<1>8. QED
  BY <1>6, <1>7

\* One more counted at instant c.
Booked(count, c) == [count EXCEPT ![c] = @ + 1]

LEMMA ThroughCounted ==
  ASSUME NEW N \in Nat, NEW count \in [0..N -> Nat], NEW c \in 0..N,
         NEW i \in Int, i <= N
  PROVE  /\ i < c => Through(Booked(count, c), i) = Through(count, i)
         /\ i >= c => Through(Booked(count, c), i) = Through(count, i) + 1
         /\ Through(count, i) \in Nat
<1> DEFINE more == Booked(count, c)
           T == {k \in 0..N : Through(more, k)
                                = Through(count, k) + (IF k < c THEN 0 ELSE 1)}
<1>1. more \in [0..N -> Nat]
  BY DEF Booked
<1>2. \A k \in 0..N : more[k] = count[k] + (IF k = c THEN 1 ELSE 0)
  BY DEF Booked
<1> HIDE DEF more
<1>3. Tallies(count, N) /\ Tallies(more, N)
  BY <1>1, ThroughTallies
<1>5. 0 \in T
  BY <1>2, <1>3 DEF Tallies
<1>6. ASSUME NEW k \in 0..(N - 1), k \in T PROVE k + 1 \in T
  <2>1. /\ Through(count, k + 1) = Through(count, k) + count[k + 1]
        /\ Through(more, k + 1) = Through(more, k) + more[k + 1]
    BY <1>3 DEF Tallies
  <2>2. /\ Through(count, k) \in Nat /\ count[k + 1] \in Nat
        /\ more[k + 1] = count[k + 1] + (IF k + 1 = c THEN 1 ELSE 0)
    BY <1>2, <1>3 DEF Tallies
  <2>3. QED
    BY <1>6, <2>1, <2>2
<1> HIDE DEF T
<1>7. 0..N \subseteq T
  BY <1>5, <1>6, Upwards
<1>8. CASE i < 0
  <2>1. Through(count, i) = 0 /\ Through(more, i) = 0
    BY <1>3, <1>8 DEF Tallies
  <2>2. i < c
    BY <1>8
  <2>3. QED
    BY <2>1, <2>2 DEF more
<1>9. CASE i >= 0
  <2>1. i \in T /\ Through(count, i) \in Nat
    BY <1>3, <1>7, <1>9 DEF Tallies
  <2>2. QED
    BY <2>1 DEF T, more
<1>10. QED
  BY <1>8, <1>9

\* Nothing counted.
LEMMA ThroughNothing ==
  ASSUME NEW N \in Nat, NEW none, none = [k \in 0..N |-> 0],
         NEW i \in Int, i <= N
  PROVE  Through(none, i) = 0
<1> DEFINE T == {k \in 0..N : Through(none, k) = 0}
<1>1. none \in [0..N -> Nat] /\ \A k \in 0..N : none[k] = 0
  OBVIOUS
<1>2. Tallies(none, N)
  BY <1>1, ThroughTallies
<1>3. 0 \in T
  BY <1>1, <1>2 DEF Tallies
<1>4. \A k \in 0..(N - 1) : k \in T => k + 1 \in T
  <2> TAKE k \in 0..(N - 1)
  <2> HAVE k \in T
  <2>1. k + 1 \in 0..N /\ k + 1 # 0 /\ (k + 1) - 1 = k
    OBVIOUS
  <2>2. Through(none, k + 1) = Through(none, k) + none[k + 1]
    BY <1>2, <2>1 DEF Tallies
  <2>3. Through(none, k) = 0 /\ none[k + 1] = 0
    BY <1>1, <2>1
  <2>4. QED
    BY <2>1, <2>2, <2>3
<1> HIDE DEF T
<1>5. 0..N \subseteq T
  BY <1>3, <1>4, Upwards
<1>6. CASE i < 0
  BY <1>2, <1>6 DEF Tallies
<1>7. CASE i >= 0
  <2>1. i \in T
    BY <1>5, <1>7
  <2>2. QED
    BY <2>1 DEF T
<1>8. QED
  BY <1>6, <1>7

-----------------------------------------------------------------------------
(* The tenants' limiter: its log follows the history of its requests.      *)

\* The limits, the window and the clock of the tenants' limiter are numbers.
LEMMA TenantConstants ==
  /\ Quotas \subseteq Nat /\ DefaultQuota \in Quotas
  /\ Span \in Nat /\ MaxClock \in Nat
BY QuotaAssumption, WindowAssumption

\* The log w follows the history: its entries are the last of the requests let
\* through up to now, at their instants, and those it has dropped are too old.
Follows(w, count, at) ==
    /\ w \in Seq(0..at)
    /\ Len(w) <= Through(count, at)
    /\ Through(count, at) - Len(w) <= Through(count, at - Span - 1)
    /\ \A k \in 1..Len(w) :
          LET nth == Through(count, at) - Len(w) + k
          IN Through(count, w[k] - 1) < nth /\ nth <= Through(count, w[k])

TenantInv ==
    /\ clock \in 0..MaxClock /\ quota \in Quotas
    /\ passed \in [0..MaxClock -> Nat]
    /\ \A i \in 0..MaxClock : i > clock => passed[i] = 0
    /\ Follows(window, passed, clock)
    /\ \E n \in Quotas : Tenant!Recent <= n

LEMMA TenantThrough ==
  ASSUME NEW count, NEW i
  PROVE  Tenant!Through(count, i) = Through(count, i)
BY DEF Tenant!Through, Through

\* The requests let through in the window.
LEMMA TenantRecent ==
  /\ Tenant!Recent = Through(passed, clock) - Through(passed, clock - Span - 1)
  /\ Tenant!Recent' = Through(passed', clock')
                        - Through(passed', clock' - Span - 1)
BY TenantThrough DEF Tenant!Recent, Tenant!After

\* What SubSeq leaves of a sequence from its m-th entry on.
LEMMA CutIs ==
  ASSUME NEW S, NEW w \in Seq(S), NEW m \in 1..(Len(w) + 1)
  PROVE  LET cut == SubSeq(w, m, Len(w)) IN
         /\ cut \in Seq(S) /\ Len(cut) = Len(w) + 1 - m
         /\ \A k \in 1..Len(cut) :
               cut[k] = w[k + m - 1] /\ k + m - 1 \in 1..Len(w)
<1> DEFINE cut == SubSeq(w, m, Len(w))
<1>1. m \in Int /\ Len(w) \in Int /\ m..Len(w) \subseteq 1..Len(w)
  OBVIOUS
<1>2. \A i \in m..Len(w) : w[i] \in S
  BY <1>1, ElementOfSeq, Zenon
<1>3. /\ cut \in Seq(S)
      /\ Len(cut) = IF m <= Len(w) THEN Len(w) - m + 1 ELSE 0
      /\ \A k \in 1..(Len(w) - m + 1) : cut[k] = w[m + k - 1]
  BY <1>1, <1>2, SubSeqProperties
<1> HIDE DEF cut
<1>4. Len(w) \in Nat /\ Len(cut) = Len(w) + 1 - m
  BY <1>1, <1>3
<1>5. ASSUME NEW k \in 1..Len(cut)
      PROVE  cut[k] = w[k + m - 1] /\ k + m - 1 \in 1..Len(w)
  <2>1. k \in 1..(Len(w) - m + 1) /\ m + k - 1 = k + m - 1
        /\ k + m - 1 \in 1..Len(w)
    BY <1>4
  <2>2. QED
    BY <1>3, <2>1
<1>6. QED
  BY <1>3, <1>4, <1>5 DEF cut

\* With all requests counted, of which a log has the last len, and after its
\* first m - 1 entries are dropped the last c: how c compares with those that
\* came after the first x.
LEMMA CutCount ==
  ASSUME NEW all \in Nat, NEW len \in Nat, NEW m \in Nat, NEW c,
         c = len + 1 - m, NEW old \in Nat, NEW x \in Nat
  PROVE  /\ (old <= x /\ x < all - len + m) => c <= all - old
         /\ (x <= old /\ all - len + (m - 1) <= x) => all - c <= old
OBVIOUS

\* A log cut to its last entries, the first of them young and those before it
\* too old, still follows the history and holds just the recent requests.
LEMMA CutFollows ==
  ASSUME Span \in Nat, NEW N \in Nat, NEW count \in [0..N -> Nat],
         NEW at \in 0..N, NEW w, Follows(w, count, at),
         NEW m \in 1..Len(w) + 1,
         m <= Len(w) => w[m] >= at - Span,
         m > 1 => w[m - 1] < at - Span
  PROVE  /\ Follows(SubSeq(w, m, Len(w)), count, at)
         /\ Len(SubSeq(w, m, Len(w)))
              = Through(count, at) - Through(count, at - Span - 1)
<1> DEFINE cut == SubSeq(w, m, Len(w))
           nth(k) == Through(count, at) - Len(w) + k
           old == Through(count, at - Span - 1)
<1>1. w \in Seq(0..at) /\ Len(w) \in Nat /\ m \in Nat /\ m <= Len(w) + 1
  BY DEF Follows
<1>2. \A k \in 1..Len(w) : w[k] \in 0..at
  BY <1>1, ElementOfSeq, Zenon
<1>3. /\ \A k \in 1..Len(w) : Through(count, w[k] - 1) < nth(k)
                              /\ nth(k) <= Through(count, w[k])
      /\ Len(w) <= Through(count, at)
      /\ Through(count, at) - Len(w) <= old
  BY DEF Follows
<1>4. Through(count, at) \in Nat /\ old \in Nat
  <2>1. at \in Int /\ at - Span - 1 \in Int /\ at - Span - 1 <= at
        /\ at <= N
    OBVIOUS
  <2>2. QED
    BY <2>1, ThroughGrows
<1>5. /\ cut \in Seq(0..at) /\ Len(cut) = Len(w) + 1 - m
      /\ \A k \in 1..Len(cut) : cut[k] = w[k + m - 1] /\ k + m - 1 \in 1..Len(w)
  BY <1>1, CutIs
<1>6. Len(cut) <= Through(count, at) - old
  <2>1. CASE m <= Len(w)
    <3>0. m \in 1..Len(w) /\ w[m] \in 0..at /\ w[m] >= at - Span
      BY <1>1, <1>2, <2>1
    <3>1. w[m] - 1 \in Int /\ at - Span - 1 <= w[m] - 1 /\ w[m] - 1 <= N
          /\ at - Span - 1 \in Int
      BY <3>0
    <3>2. old <= Through(count, w[m] - 1) /\ Through(count, w[m] - 1) \in Nat
      BY <3>1, ThroughGrows
    <3>3. Through(count, w[m] - 1) < nth(m)
      BY <1>3, <3>0
    <3>4. Len(cut) = Len(w) + 1 - m
      BY <1>5
    <3> HIDE DEF cut, old
    <3>5. QED
      BY <1>1, <1>4, <3>2, <3>3, <3>4, CutCount
  <2>2. CASE m = Len(w) + 1
    <3>1. at - Span - 1 \in Int /\ at - Span - 1 <= at /\ at <= N
      OBVIOUS
    <3>2. old <= Through(count, at)
      BY <3>1, ThroughGrows
    <3>3. QED
      BY <1>4, <1>5, <1>1, <2>2, <3>2
  <2>3. QED
    <3>1. \A len \in Nat : m <= len + 1 => m <= len \/ m = len + 1
      BY <1>1
    <3>2. QED
      BY <1>1, <2>1, <2>2, <3>1
<1>7. Through(count, at) - Len(cut) <= old
  <2>1. CASE m = 1
    BY <1>3, <1>5, <1>1, <2>1
  <2>2. CASE m > 1
    <3>1. m - 1 \in 1..Len(w) /\ w[m - 1] \in 0..at /\ w[m - 1] < at - Span
      BY <1>1, <1>2, <2>2
    <3>2. /\ w[m - 1] \in Int /\ w[m - 1] <= at - Span - 1
          /\ at - Span - 1 \in Int /\ at - Span - 1 <= N
      BY <3>1
    <3>3. Through(count, w[m - 1]) <= old /\ Through(count, w[m - 1]) \in Nat
      BY <3>2, ThroughGrows
    <3>4. nth(m - 1) <= Through(count, w[m - 1])
      BY <1>3, <3>1
    <3>5. Len(cut) = Len(w) + 1 - m
      BY <1>5
    <3> HIDE DEF cut, old
    <3>6. QED
      BY <1>1, <1>4, <3>3, <3>4, <3>5, CutCount
  <2>3. QED
    BY <1>1, <2>1, <2>2
<1>8. Len(cut) = Through(count, at) - old /\ Len(cut) \in Nat
  <2>1. Len(cut) \in Nat
    BY <1>5
  <2> HIDE DEF cut, old
  <2>2. QED
    BY <1>4, <1>6, <1>7, <2>1
<1>9. \A k \in 1..Len(cut) :
         LET n == Through(count, at) - Len(cut) + k
         IN Through(count, cut[k] - 1) < n /\ n <= Through(count, cut[k])
  <2> SUFFICES ASSUME NEW k \in 1..Len(cut)
               PROVE  /\ Through(count, cut[k] - 1)
                           < Through(count, at) - Len(cut) + k
                      /\ Through(count, at) - Len(cut) + k
                           <= Through(count, cut[k])
    OBVIOUS
  <2>1. k + m - 1 \in 1..Len(w) /\ cut[k] = w[k + m - 1]
    BY <1>5
  <2>2. Through(count, at) - Len(cut) + k = nth(k + m - 1)
    BY <1>1, <1>4, <1>5
  <2>3. QED
    BY <1>3, <2>1, <2>2
<1> HIDE DEF cut, old, nth
<1>10. Len(cut) <= Through(count, at)
  BY <1>4, <1>8
<1>11. Follows(cut, count, at)
  BY <1>5, <1>7, <1>9, <1>10 DEF Follows, old
<1>12. QED
  BY <1>8, <1>11 DEF cut, old

\* Pruning keeps the recent requests, and only them.
LEMMA PrunedFollows ==
  ASSUME TenantInv
  PROVE  Follows(Tenant!Pruned, passed, clock)
         /\ Len(Tenant!Pruned) = Tenant!Recent
<1> DEFINE live == {k \in 1..Len(window) : ~ Tenant!Expired(window[k])}
<1>1. /\ window \in Seq(0..clock) /\ Len(window) \in Nat
      /\ \A k \in 1..Len(window) : window[k] \in 0..clock
      /\ clock \in 0..MaxClock /\ Span \in Nat
  <2>1. window \in Seq(0..clock) /\ clock \in 0..MaxClock /\ Span \in Nat
    BY TenantConstants DEF TenantInv, Follows
  <2>2. Len(window) \in Nat
    BY <2>1
  <2>3. \A k \in 1..Len(window) : window[k] \in 0..clock
    BY <2>1, ElementOfSeq, Zenon
  <2>4. QED
    BY <2>1, <2>2, <2>3
<1>2. \A k \in 1..Len(window) : k \in live <=> window[k] >= clock - Span
  BY <1>1 DEF Tenant!Expired
<1>3. CASE live = {}
  <2> DEFINE m == Len(window) + 1
  <2>1. Tenant!Pruned = <<>>
    BY <1>3 DEF Tenant!Pruned
  <2>2. SubSeq(window, m, Len(window)) = <<>>
    BY <1>1
  <2>3. m > 1 => window[m - 1] < clock - Span
    <3>1. Len(window) > 0 => Len(window) \in 1..Len(window)
      BY <1>1
    <3>2. m - 1 = Len(window)
      BY <1>1
    <3>3. QED
      BY <1>1, <1>2, <1>3, <3>1, <3>2
  <2>4. m \in 1..Len(window) + 1 /\ ~(m <= Len(window))
    BY <1>1
  <2>5. Tenant!Pruned = SubSeq(window, m, Len(window))
    BY <2>1, <2>2
  <2> HIDE DEF m
  <2>6. QED
    BY <2>3, <2>4, <2>5, CutFollows, TenantRecent, TenantConstants DEF TenantInv
<1>4. CASE live # {}
  <2> DEFINE m == Tenant!Min(live)
  <2>1. live \in SUBSET Nat
    OBVIOUS
  <2>2. m \in live /\ \A k \in live : m <= k
    BY <1>4, <2>1, Least DEF Tenant!Min
  <2>3. Tenant!Pruned = SubSeq(window, m, Len(window))
    BY <1>4 DEF Tenant!Pruned
  <2> HIDE DEF m
  <2>4. m \in 1..Len(window) + 1 /\ window[m] >= clock - Span
    BY <1>1, <1>2, <2>2
  <2>5. m > 1 => window[m - 1] < clock - Span
    <3>1. SUFFICES ASSUME m > 1 PROVE window[m - 1] < clock - Span
      OBVIOUS
    <3>2. m - 1 \in 1..Len(window) /\ m - 1 \notin live
      BY <1>1, <2>2, <3>1
    <3>3. QED
      BY <1>1, <1>2, <3>2
  <2>6. QED
    BY <2>3, <2>4, <2>5, CutFollows, TenantRecent, TenantConstants DEF TenantInv
<1>5. QED
  BY <1>3, <1>4

\* A request let through now is entered and counted.
LEMMA EntryFollows ==
  ASSUME Span \in Nat, NEW N \in Nat, NEW count \in [0..N -> Nat],
         NEW at \in 0..N, NEW w, Follows(w, count, at),
         NEW more, more = Booked(count, at)
  PROVE  Follows(Append(w, at), more, at)
<1> DEFINE longer == Append(w, at)
           total == Through(count, at)
           old == Through(count, at - Span - 1)
<1>1. \A i \in Int : i < at => Through(more, i) = Through(count, i)
  BY ThroughCounted
<1>2. \A i \in Int : i <= at => /\ Through(count, i) \in Nat
                                 /\ Through(more, i) \in Nat
                                 /\ Through(count, i) <= Through(more, i)
  <2>1. ASSUME NEW i \in Int, i <= at
        PROVE  /\ Through(count, i) \in Nat
               /\ \/ Through(more, i) = Through(count, i)
                  \/ Through(more, i) = Through(count, i) + 1
    <3>1. i <= N
      BY <2>1
    <3>2. QED
      BY <2>1, <3>1, ThroughCounted
  <2>2. QED
    <3> TAKE i \in Int
    <3> HAVE i <= at
    <3>1. /\ Through(count, i) \in Nat
          /\ \/ Through(more, i) = Through(count, i)
             \/ Through(more, i) = Through(count, i) + 1
      BY <2>1
    <3>2. QED
      BY <3>1
<1>3. Len(w) \in Nat /\ w \in Seq(0..at) /\ at \in Int /\ at <= N
  BY DEF Follows
<1>4. /\ longer \in Seq(0..at) /\ Len(longer) = Len(w) + 1
      /\ \A k \in 1..Len(w) : longer[k] = w[k] /\ w[k] \in 0..at
      /\ longer[Len(w) + 1] = at
  BY <1>3
<1>5. /\ Through(more, at) = total + 1 /\ total \in Nat
      /\ Through(more, at - Span - 1) = old /\ old \in Nat
  <2>1. /\ at <= N /\ at <= at /\ at >= at /\ at \in Int
        /\ at - Span - 1 < at /\ at - Span - 1 \in Int
        /\ at - Span - 1 <= at
    BY <1>3
  <2>2. Through(more, at) = total + 1
    BY <2>1, ThroughCounted
  <2>3. QED
    BY <1>1, <1>2, <2>1, <2>2
<1>6. Len(w) <= total /\ total - Len(w) <= old
  BY DEF Follows
<1>7. ASSUME NEW k \in 1..Len(w)
      PROVE  LET nth == Through(more, at) - Len(longer) + k
             IN /\ Through(more, longer[k] - 1) < nth
                /\ nth <= Through(more, longer[k])
  <2>1. /\ Through(count, w[k] - 1) < total - Len(w) + k
        /\ total - Len(w) + k <= Through(count, w[k])
    BY DEF Follows
  <2>2. w[k] \in Int /\ w[k] - 1 \in Int /\ w[k] - 1 < at /\ w[k] <= at
        /\ longer[k] = w[k]
    BY <1>4
  <2>3. /\ Through(more, w[k] - 1) = Through(count, w[k] - 1)
        /\ Through(count, w[k]) <= Through(more, w[k])
    BY <1>1, <1>2, <2>2
  <2>4. Through(more, at) - Len(longer) + k = total - Len(w) + k
    BY <1>3, <1>4, <1>5
  <2>5. /\ Through(count, w[k]) \in Nat /\ Through(more, w[k]) \in Nat
        /\ total \in Nat /\ Len(w) \in Nat
    BY <1>2, <1>3, <1>5, <2>2
  <2> HIDE DEF total
  <2>6. total - Len(w) + k <= Through(more, w[k])
    BY <2>1, <2>3, <2>5
  <2>7. QED
    BY <2>1, <2>2, <2>3, <2>4, <2>6
<1>8. LET nth == Through(more, at) - Len(longer) + (Len(w) + 1)
      IN Through(more, at - 1) < nth /\ nth <= Through(more, at)
  <2>1. Through(count, at - 1) <= total /\ Through(count, at - 1) \in Nat
    <3>1. at - 1 \in Int /\ at - 1 <= at
      BY <1>3
    <3>2. QED
      BY <1>3, <3>1, ThroughGrows
  <2>2. Through(more, at - 1) = Through(count, at - 1)
    <3>1. at - 1 \in Int /\ at - 1 < at
      BY <1>3
    <3>2. QED
      BY <1>1, <3>1
  <2>3. QED
    BY <1>3, <1>4, <1>5, <2>1, <2>2
<1> HIDE DEF longer, total, old
<1>9. Len(longer) <= Through(more, at)
      /\ Through(more, at) - Len(longer) <= Through(more, at - Span - 1)
  BY <1>3, <1>4, <1>5, <1>6
<1>10. \A k \in 1..Len(longer) :
          LET nth == Through(more, at) - Len(longer) + k
          IN Through(more, longer[k] - 1) < nth /\ nth <= Through(more, longer[k])
  <2> SUFFICES ASSUME NEW k \in 1..Len(longer)
               PROVE  LET nth == Through(more, at) - Len(longer) + k
                      IN /\ Through(more, longer[k] - 1) < nth
                         /\ nth <= Through(more, longer[k])
    OBVIOUS
  <2>1. CASE k \in 1..Len(w)
    BY <1>7, <2>1
  <2>2. CASE k = Len(w) + 1
    BY <1>4, <1>8, <2>2
  <2>3. QED
    BY <1>3, <1>4, <2>1, <2>2
<1>11. Follows(longer, more, at)
  BY <1>4, <1>9, <1>10 DEF Follows
<1>12. QED
  BY <1>11 DEF longer

LEMMA TenantStep ==
  TenantInv /\ [Tenant!Next]_(Tenant!vars) => TenantInv'
<1> SUFFICES ASSUME TenantInv, [Tenant!Next]_(Tenant!vars) PROVE TenantInv'
  OBVIOUS
<1>1. /\ Quotas \subseteq Nat /\ Span \in Nat /\ MaxClock \in Nat
      /\ clock \in 0..MaxClock /\ quota \in Quotas
      /\ passed \in [0..MaxClock -> Nat]
      /\ \A i \in 0..MaxClock : i > clock => passed[i] = 0
      /\ Follows(window, passed, clock)
  BY TenantConstants DEF TenantInv
<1>2. PICK n \in Quotas : Tenant!Recent <= n
  BY DEF TenantInv
<1>3. /\ Follows(Tenant!Pruned, passed, clock)
      /\ Len(Tenant!Pruned) = Tenant!Recent
  BY PrunedFollows
<1>4. Tenant!Recent \in Nat
  BY <1>3 DEF Follows
<1>5. CASE Tenant!Check
  <2>1. clock' = clock /\ quota' = quota
    BY <1>5 DEF Tenant!Check
  <2>2. CASE Tenant!Allowed
    <3>1. /\ window' = Append(Tenant!Pruned, clock)
          /\ passed' = Booked(passed, clock)
      BY <1>5, <2>2 DEF Tenant!Check, Booked
    <3>2. Follows(window', passed', clock')
      BY <1>1, <1>3, <2>1, <3>1, EntryFollows
    <3>3. /\ passed' \in [0..MaxClock -> Nat]
          /\ \A i \in 0..MaxClock : i > clock => passed'[i] = 0
      BY <1>1, <3>1 DEF Booked
    <3>4. Tenant!Recent' = Tenant!Recent + 1
      <4>1. /\ clock \in Int /\ clock - Span - 1 \in Int
            /\ clock \in 0..MaxClock /\ clock <= MaxClock /\ clock >= clock
            /\ clock - Span - 1 < clock /\ clock - Span - 1 <= MaxClock
        BY <1>1
      <4>2. /\ Through(passed', clock) = Through(passed, clock) + 1
            /\ Through(passed', clock - Span - 1)
                  = Through(passed, clock - Span - 1)
        BY <1>1, <3>1, <4>1, ThroughCounted
      <4>3. /\ Through(passed, clock) \in Nat
            /\ Through(passed, clock - Span - 1) \in Nat
        BY <1>1, <4>1, ThroughGrows
      <4>4. QED
        BY <2>1, <4>2, <4>3, TenantRecent
    <3>5. Tenant!Recent < quota
      BY <1>3, <2>2 DEF Tenant!Allowed
    <3>6. Tenant!Recent' <= quota
      BY <1>1, <1>4, <3>4, <3>5
    <3>7. QED
      BY <1>1, <2>1, <3>2, <3>3, <3>6 DEF TenantInv
  <2>3. CASE ~ Tenant!Allowed
    <3>1. window' = Tenant!Pruned /\ passed' = passed
      BY <1>5, <2>3 DEF Tenant!Check
    <3>2. Tenant!Recent' = Tenant!Recent
      BY <2>1, <3>1, TenantRecent
    <3>3. QED
      BY <1>1, <1>2, <1>3, <2>1, <3>1, <3>2 DEF TenantInv
  <2>4. QED
    BY <2>2, <2>3
<1>6. CASE Tenant!Reset
  <2>1. /\ clock' = clock /\ quota' = quota /\ window' = <<>>
        /\ passed' = [i \in 0..MaxClock |-> 0]
    BY <1>6 DEF Tenant!Reset, Tenant!Instants
  <2>2. \A i \in Int : i <= MaxClock => Through(passed', i) = 0
    BY <1>1, <2>1, ThroughNothing
  <2>3. Through(passed', clock) = 0 /\ Through(passed', clock - Span - 1) = 0
    BY <1>1, <2>2
  <2>4. Follows(window', passed', clock')
    BY <2>1, <2>3 DEF Follows
  <2>5. Tenant!Recent' = 0
    BY <2>1, <2>3, TenantRecent
  <2>6. Tenant!Recent' <= quota
    BY <1>1, <2>5
  <2>7. QED
    BY <1>1, <2>1, <2>4, <2>6 DEF TenantInv
<1>7. CASE Tenant!Tick
  <2>1. /\ clock' = clock + 1 /\ clock < MaxClock /\ quota' = quota
        /\ window' = window /\ passed' = passed
    BY <1>7 DEF Tenant!Tick
  <2>2. /\ clock' \in 0..MaxClock /\ clock + 1 \in 0..MaxClock
        /\ clock \in 0..(MaxClock - 1) /\ passed[clock + 1] = 0
    BY <1>1, <2>1
  <2>3. Through(passed, clock + 1) = Through(passed, clock)
    <3>1. Tallies(passed, MaxClock)
      BY <1>1, ThroughTallies
    <3>2. /\ Through(passed, clock + 1) = Through(passed, clock) + passed[clock + 1]
          /\ Through(passed, clock) \in Nat
      BY <1>1, <2>2, <3>1 DEF Tallies
    <3>3. QED
      BY <2>2, <3>2
  <2>4. /\ Through(passed, clock - Span - 1)
              <= Through(passed, (clock + 1) - Span - 1)
        /\ Through(passed, clock - Span - 1) \in Nat
        /\ Through(passed, (clock + 1) - Span - 1) \in Nat
        /\ Through(passed, clock) \in Nat
    <3>1. /\ clock - Span - 1 \in Int /\ (clock + 1) - Span - 1 \in Int
          /\ clock - Span - 1 <= (clock + 1) - Span - 1
          /\ (clock + 1) - Span - 1 <= MaxClock
      BY <1>1, <2>2
    <3>2. QED
      BY <1>1, <3>1, ThroughGrows
  <2>5. Follows(window', passed', clock')
    <3>1. /\ window \in Seq(0..clock) /\ Len(window) \in Nat
          /\ Len(window) <= Through(passed, clock)
          /\ Through(passed, clock) - Len(window)
                <= Through(passed, clock - Span - 1)
      BY <1>1 DEF Follows
    <3>2. window \in Seq(0..(clock + 1))
      BY <1>1, <3>1
    <3>3. Through(passed, clock + 1) - Len(window)
             <= Through(passed, (clock + 1) - Span - 1)
      BY <2>3, <2>4, <3>1
    <3>4. QED
      BY <1>1, <2>1, <2>3, <3>1, <3>2, <3>3 DEF Follows
  <2>6. Tenant!Recent' <= Tenant!Recent /\ Tenant!Recent' \in Int
    BY <2>1, <2>3, <2>4, TenantRecent
  <2>7. Tenant!Recent' <= n
    BY <1>1, <1>2, <1>4, <2>6
  <2>8. QED
    BY <1>1, <2>1, <2>2, <2>5, <2>7 DEF TenantInv
<1>8. ASSUME NEW q \in Quotas, Tenant!SetLimit(q)
      PROVE  TenantInv'
  <2>1. /\ clock' = clock /\ quota' = q
        /\ window' = window /\ passed' = passed
    BY <1>8 DEF Tenant!SetLimit
  <2>2. Tenant!Recent' = Tenant!Recent
    BY <2>1, TenantRecent
  <2>3. QED
    BY <1>1, <1>2, <2>1, <2>2 DEF TenantInv
<1>9. CASE UNCHANGED Tenant!vars
  <2>1. /\ clock' = clock /\ quota' = quota
        /\ window' = window /\ passed' = passed
    BY <1>9 DEF Tenant!vars
  <2>2. Tenant!Recent' = Tenant!Recent
    BY <2>1, TenantRecent
  <2>3. QED
    BY <1>1, <1>2, <2>1, <2>2 DEF TenantInv
<1>10. QED
  BY <1>5, <1>6, <1>7, <1>8, <1>9 DEF Tenant!Next

\* The tenants' limiter lets a request through exactly while fewer than the
\* limit were let through in the closed window, and no window ever saw more than
\* the largest limit, whatever the limits, the window and the requests.
THEOREM TenantLogExact == Tenant!Spec => []LogExact
<1>1. Tenant!Init => TenantInv
  <2> SUFFICES ASSUME Tenant!Init PROVE TenantInv
    OBVIOUS
  <2>1. /\ clock = 0 /\ quota = DefaultQuota /\ window = <<>>
        /\ passed = [i \in 0..MaxClock |-> 0]
        /\ MaxClock \in Nat /\ Span \in Nat /\ quota \in Quotas /\ quota \in Nat
    BY TenantConstants DEF Tenant!Init, Tenant!Instants
  <2>2. \A i \in Int : i <= MaxClock => Through(passed, i) = 0
    BY <2>1, ThroughNothing
  <2>3. Through(passed, clock) = 0 /\ Through(passed, clock - Span - 1) = 0
    BY <2>1, <2>2
  <2>4. Follows(window, passed, clock)
    BY <2>1, <2>3 DEF Follows
  <2>5. Tenant!Recent <= quota
    BY <2>1, <2>3, TenantRecent
  <2>6. QED
    BY <2>1, <2>4, <2>5 DEF TenantInv
<1>2. TenantInv /\ [Tenant!Next]_(Tenant!vars) => TenantInv'
  BY TenantStep
<1>3. TenantInv => LogExact
  BY PrunedFollows DEF TenantInv, LogExact, Tenant!LogExact, Tenant!Allowed
<1>4. QED
  BY <1>1, <1>2, <1>3, PTL DEF Tenant!Spec

-----------------------------------------------------------------------------
(* The endpoints' limiter: the arithmetic of windows and estimates.        *)

\* Where an instant lies in its window, and the instant after it.
LEMMA WindowSteps ==
  ASSUME NEW w \in Nat \ {0}, NEW at \in Nat
  PROVE  /\ at % w \in 0..(w - 1) /\ at - (at % w) \in 0..at
         /\ \/ (at + 1) % w = (at % w) + 1
            \/ (at + 1) % w = 0 /\ at % w = w - 1
<1> DEFINE q == at \div w
           r == at % w
<1>1. at = w * q + r /\ q \in Nat /\ r \in 0..(w - 1)
  OBVIOUS
<1>2. r <= at
  <2>1. w * q \in Nat
    BY <1>1
  <2>2. QED
    BY <1>1, <2>1
<1>3. at + 1 = w * ((at + 1) \div w) + ((at + 1) % w)
      /\ (at + 1) \div w \in Nat /\ (at + 1) % w \in 0..(w - 1)
  <2>1. at + 1 \in Nat
    OBVIOUS
  <2>2. QED
    BY <2>1
<1> DEFINE p == (at + 1) \div w
           s == (at + 1) % w
<1>4. w * q + r + 1 = w * p + s /\ p \in Nat /\ s \in 0..(w - 1)
  BY <1>1, <1>3
<1> HIDE DEF q, r, p, s
<1>5. p = q \/ p = q + 1
  <2>1. CASE p < q
    <3>1. PICK d \in Nat : q = p + 1 + d
      <4>1. q - p - 1 \in Nat /\ q = p + 1 + (q - p - 1)
        BY <1>1, <1>4, <2>1
      <4>2. QED
        BY <4>1
    <3>2. w * q = w * p + w + w * d /\ w * d \in Nat /\ w * p \in Nat
      BY <1>4, <3>1
    <3>3. QED
      BY <1>1, <1>4, <3>2
  <2>2. CASE p > q + 1
    <3>1. PICK d \in Nat : p = q + 2 + d
      <4>1. p - q - 2 \in Nat /\ p = q + 2 + (p - q - 2)
        BY <1>1, <1>4, <2>2
      <4>2. QED
        BY <4>1
    <3>2. w * p = w * q + w + w + w * d /\ w * d \in Nat /\ w * q \in Nat
      BY <1>1, <3>1
    <3>3. QED
      BY <1>1, <1>4, <3>2
  <2>3. QED
    BY <1>1, <1>4, <2>1, <2>2
<1>6. CASE p = q
  <2>1. w * q \in Nat /\ s = r + 1
    BY <1>1, <1>4, <1>6
  <2>2. QED
    BY <1>1, <1>2, <2>1 DEF r, s
<1>7. CASE p = q + 1
  <2>1. w * q \in Nat /\ w * p = w * q + w
    BY <1>1, <1>7
  <2>2. r + 1 = w + s
    BY <1>1, <1>4, <2>1
  <2>3. s = 0 /\ r = w - 1
    BY <1>1, <1>4, <2>2
  <2>4. QED
    BY <1>1, <1>2, <2>3 DEF r, s
<1>8. QED
  BY <1>5, <1>6, <1>7

\* The estimate goes down while a window passes.
LEMMA EstimateFalls ==
  ASSUME NEW w \in Nat, NEW d \in Nat, NEW prev \in Nat, NEW cur \in Int,
         NEW n \in Nat, d + 1 <= w,
         prev * (w - d) + cur * w < n * w
  PROVE  prev * (w - (d + 1)) + cur * w < n * w
<1> DEFINE rest == w - (d + 1)
<1>1. rest \in Nat /\ w - d = rest + 1
  OBVIOUS
<1> HIDE DEF rest
<1>2. prev * (w - d) = prev * rest + prev /\ prev * rest \in Nat
  BY <1>1
<1>3. cur * w \in Int /\ n * w \in Int
  OBVIOUS
<1>4. prev * rest + cur * w < n * w
  BY <1>2, <1>3
<1>5. QED
  BY <1>4 DEF rest

\* What a request that was let through finds below the limit.
LEMMA EstimateBelow ==
  ASSUME NEW w \in Nat \ {0}, NEW d \in 0..(w - 1), NEW prev \in Nat,
         NEW cur \in Nat, NEW n \in Nat,
         prev * (w - d) + cur * w < n * w
  PROVE  cur + 1 <= n
<1>1. w - d \in Nat
  OBVIOUS
<1>2. prev * (w - d) \in Nat /\ cur * w \in Nat /\ n * w \in Nat
  BY <1>1
<1>3. cur * w < n * w
  BY <1>2
<1>4. SUFFICES ASSUME n <= cur PROVE FALSE
  OBVIOUS
<1>5. PICK k \in Nat : cur = n + k
  <2>1. cur - n \in Nat /\ cur = n + (cur - n)
    BY <1>4
  <2>2. QED
    BY <2>1
<1>6. cur * w = n * w + k * w /\ k * w \in Nat
  BY <1>5
<1>7. QED
  BY <1>2, <1>3, <1>6

\* A higher limit is kept too.
LEMMA Higher ==
  ASSUME NEW w \in Nat, NEW m \in Nat, NEW n \in Nat, m <= n
  PROVE  m * w <= n * w /\ m * w \in Nat /\ n * w \in Nat
<1>1. PICK k \in Nat : n = m + k
  <2>1. n - m \in Nat /\ n = m + (n - m)
    OBVIOUS
  <2>2. QED
    BY <2>1
<1>2. n * w = m * w + k * w /\ k * w \in Nat /\ m * w \in Nat
  BY <1>1
<1>3. QED
  BY <1>2

\* What two windows let through, of which the later is d instants old.
LEMMA TwoWindows ==
  ASSUME NEW w \in Nat \ {0}, NEW d \in 0..(w - 1), NEW prev \in Nat,
         NEW cur \in Nat, NEW n \in Nat, NEW recent \in Nat,
         recent <= prev + cur, prev <= n,
         cur = 0 \/ prev * (w - d) + (cur - 1) * w < n * w
  PROVE  recent * w < n * (w + d) + w
<1>1. recent * w <= (prev + cur) * w /\ recent * w \in Nat
  BY Higher
<1>2. /\ (prev + cur) * w = prev * w + cur * w
      /\ n * (w + d) = n * w + n * d
      /\ prev * w \in Nat /\ cur * w \in Nat /\ n * w \in Nat /\ n * d \in Nat
  OBVIOUS
<1>3. prev * w <= n * w /\ prev * d <= n * d
      /\ prev * d \in Nat
  BY Higher
<1>4. CASE cur = 0
  <2>1. cur * w = 0
    BY <1>4
  <2>2. QED
    BY <1>1, <1>2, <1>3, <2>1
<1>5. CASE prev * (w - d) + (cur - 1) * w < n * w
  <2>1. /\ prev * (w - d) = prev * w - prev * d
        /\ (cur - 1) * w = cur * w - w
    OBVIOUS
  <2>2. prev * w - prev * d + cur * w - w < n * w
    BY <1>2, <1>3, <1>5, <2>1
  <2>3. QED
    BY <1>1, <1>2, <1>3, <2>2
<1>6. QED
  BY <1>4, <1>5

-----------------------------------------------------------------------------
(* Its two counters follow the history of an endpoint.                     *)

\* The count of the window that starts at i.
Held(cnt, i) == IF i \in 0..MaxClock THEN cnt[i] ELSE 0

\* With prev requests in the window before and cur in this one, d instants old,
\* the estimate is below the limit n.
Fits(prev, cur, d, w, n) == prev * (w - d) + cur * w < n * w

\* The counters cnt of an endpoint follow its history hist, in the window of
\* length w that starts at s: the current one and the one before are exact and
\* within n, and since the last request the estimate has been below n + 1.
Metered(cnt, hist, at, s, w, n) ==
    LET cur == Through(hist, at) - Through(hist, s - 1)
        prev == Through(hist, s - 1) - Through(hist, s - w - 1)
    IN /\ \A i \in 0..MaxClock : i > at => hist[i] = 0
       /\ \A i \in 0..MaxClock : i > s => cnt[i] = 0
       /\ cnt[s] = cur /\ Held(cnt, s - w) = prev
       /\ cur <= n /\ prev <= n
       /\ cur = 0 \/ Fits(prev, cur - 1, at - s, w, n)

\* The two counts are never negative.
LEMMA CountsNat ==
  ASSUME MaxClock \in Nat, NEW hist \in [0..MaxClock -> Nat],
         NEW at \in 0..MaxClock, NEW s \in 0..at, NEW w \in Nat \ {0}
  PROVE  /\ Through(hist, at) \in Nat /\ Through(hist, s - 1) \in Nat
         /\ Through(hist, s - w - 1) \in Nat
         /\ Through(hist, at) - Through(hist, s - 1) \in Nat
         /\ Through(hist, s - 1) - Through(hist, s - w - 1) \in Nat
<1>1. /\ at \in Int /\ s - 1 \in Int /\ s - w - 1 \in Int
      /\ s - 1 <= at /\ s - w - 1 <= s - 1 /\ at <= MaxClock
      /\ s - 1 <= MaxClock
  OBVIOUS
<1>2. Through(hist, s - 1) <= Through(hist, at)
      /\ Through(hist, s - 1) \in Nat /\ Through(hist, at) \in Nat
  BY <1>1, ThroughGrows
<1>3. Through(hist, s - w - 1) <= Through(hist, s - 1)
      /\ Through(hist, s - w - 1) \in Nat
  BY <1>1, ThroughGrows
<1>4. QED
  BY <1>2, <1>3

\* What fits below a limit fits below a higher one.
LEMMA FitsHigher ==
  ASSUME NEW w \in Nat \ {0}, NEW d \in 0..(w - 1), NEW prev \in Nat,
         NEW cur \in Nat, NEW m \in Nat, NEW n \in Nat, m <= n,
         Fits(prev, cur, d, w, m)
  PROVE  Fits(prev, cur, d, w, n)
<1>1. m * w <= n * w /\ m * w \in Nat /\ n * w \in Nat
  BY Higher
<1>2. prev * (w - d) + cur * w \in Int
  OBVIOUS
<1>3. prev * (w - d) + cur * w < m * w
  BY DEF Fits
<1> DEFINE estimate == prev * (w - d) + cur * w
<1> HIDE DEF estimate
<1>4. estimate < n * w
  BY <1>1, <1>2, <1>3 DEF estimate
<1>5. QED
  BY <1>4 DEF Fits, estimate

\* One more is counted in the window that starts at s.
Raised(cnt, more, s, w) ==
    /\ more[s] = cnt[s] + 1 /\ Held(more, s - w) = Held(cnt, s - w)
    /\ \A i \in 0..MaxClock : i > s => more[i] = 0

\* The window before s and what precedes it lie before at.
LEMMA BeforeNow ==
  ASSUME NEW top \in Nat, NEW at \in 0..top, NEW s \in 0..at, NEW w \in Nat \ {0}
  PROVE  /\ at \in Int /\ at <= top /\ at >= at
         /\ s - 1 \in Int /\ s - 1 < at /\ s - 1 <= top
         /\ s - w - 1 \in Int /\ s - w - 1 < at /\ s - w - 1 <= top
OBVIOUS

\* A request let through under limit m.
LEMMA MeteredConsume ==
  ASSUME MaxClock \in Nat, NEW hist \in [0..MaxClock -> Nat],
         NEW cnt \in [0..MaxClock -> Nat],
         NEW at \in 0..MaxClock, NEW s \in 0..at, NEW w \in Nat \ {0},
         at - s < w, NEW n \in Nat, NEW m \in Nat,
         Metered(cnt, hist, at, s, w, n),
         Fits(Held(cnt, s - w), cnt[s], at - s, w, m),
         NEW cnt2, Raised(cnt, cnt2, s, w)
  PROVE  /\ m >= n => Metered(cnt2, Booked(hist, at), at, s, w, m)
         /\ m <= n => Metered(cnt2, Booked(hist, at), at, s, w, n)
<1> DEFINE cur == Through(hist, at) - Through(hist, s - 1)
           prev == Through(hist, s - 1) - Through(hist, s - w - 1)
           more == Booked(hist, at)
<1>1. cur \in Nat /\ prev \in Nat
  BY CountsNat
<1>2. /\ cnt[s] = cur /\ Held(cnt, s - w) = prev /\ cur <= n /\ prev <= n
      /\ \A i \in 0..MaxClock : i > at => hist[i] = 0
  BY DEF Metered
<1>3. \A i \in 0..MaxClock : i > at => more[i] = 0
  <2> TAKE i \in 0..MaxClock
  <2> HAVE i > at
  <2>1. i # at
    OBVIOUS
  <2>2. hist[i] = 0
    BY DEF Metered
  <2>3. more[i] = hist[i]
    BY <2>1 DEF Booked
  <2>4. QED
    BY <2>2, <2>3
<1>4. /\ Through(more, at) = Through(hist, at) + 1
      /\ Through(more, s - 1) = Through(hist, s - 1)
      /\ Through(more, s - w - 1) = Through(hist, s - w - 1)
  <2>1. /\ at \in Int /\ at <= MaxClock /\ at >= at
        /\ s - 1 \in Int /\ s - 1 < at /\ s - 1 <= MaxClock
        /\ s - w - 1 \in Int /\ s - w - 1 < at /\ s - w - 1 <= MaxClock
    BY BeforeNow
  <2> HIDE DEF more
  <2>2. Through(more, at) = Through(hist, at) + 1
    BY <2>1, ThroughCounted DEF more
  <2>3. Through(more, s - 1) = Through(hist, s - 1)
    BY <2>1, ThroughCounted DEF more
  <2>4. Through(more, s - w - 1) = Through(hist, s - w - 1)
    BY <2>1, ThroughCounted DEF more
  <2>5. QED
    BY <2>2, <2>3, <2>4
<1>5. /\ Through(hist, at) \in Nat /\ Through(hist, s - 1) \in Nat
      /\ Through(hist, s - w - 1) \in Nat
  BY CountsNat
<1>6. /\ Through(more, at) - Through(more, s - 1) = cur + 1
      /\ Through(more, s - 1) - Through(more, s - w - 1) = prev
  BY <1>4, <1>5
<1>7. w - (at - s) \in Nat /\ at - s \in 0..(w - 1)
  OBVIOUS
<1> HIDE DEF cur, prev, more
<1>8. Fits(prev, cur, at - s, w, m)
  BY <1>2
<1>9. cur + 1 <= m
  BY <1>1, <1>7, <1>8, EstimateBelow DEF Fits
<1>10. (cur + 1) - 1 = cur
  BY <1>1
<1>11. ASSUME NEW k \in Nat, m <= k, n <= k
       PROVE  Metered(cnt2, more, at, s, w, k)
  <2>1. cur + 1 <= k /\ prev <= k
    BY <1>1, <1>2, <1>9, <1>11
  <2>2. Fits(prev, cur, at - s, w, k)
    BY <1>1, <1>7, <1>8, <1>11, FitsHigher
  <2>3. QED
    BY <1>2, <1>3, <1>6, <1>10, <2>1, <2>2 DEF Metered, Raised
<1>12. m <= m /\ n <= n
  OBVIOUS
<1>13. QED
  BY <1>11, <1>12 DEF more

\* The clock ticks, within the window or into the next one.
LEMMA MeteredTick ==
  ASSUME MaxClock \in Nat, NEW hist \in [0..MaxClock -> Nat],
         NEW cnt \in [0..MaxClock -> Nat],
         NEW at \in 0..(MaxClock - 1), NEW s \in 0..at, NEW w \in Nat \ {0},
         NEW n \in Nat, Metered(cnt, hist, at, s, w, n)
  PROVE  /\ at - s < w - 1 => Metered(cnt, hist, at + 1, s, w, n)
         /\ at - s = w - 1 => Metered(cnt, hist, at + 1, at + 1, w, n)
<1> DEFINE cur == Through(hist, at) - Through(hist, s - 1)
           prev == Through(hist, s - 1) - Through(hist, s - w - 1)
<1>1. cur \in Nat /\ prev \in Nat /\ at \in 0..MaxClock
      /\ Through(hist, at) \in Nat
  <2>1. at \in 0..MaxClock
    OBVIOUS
  <2>2. QED
    BY <2>1, CountsNat
<1>2. /\ cnt[s] = cur /\ Held(cnt, s - w) = prev /\ cur <= n /\ prev <= n
      /\ \A i \in 0..MaxClock : i > at => hist[i] = 0
      /\ \A i \in 0..MaxClock : i > s => cnt[i] = 0
      /\ cur = 0 \/ Fits(prev, cur - 1, at - s, w, n)
  BY DEF Metered
<1>3. Through(hist, at + 1) = Through(hist, at)
  <2>1. at + 1 \in 0..MaxClock /\ at + 1 > at
    OBVIOUS
  <2>2. hist[at + 1] = 0
    BY <1>2, <2>1
  <2>3. Through(hist, at + 1) = Through(hist, at) + hist[at + 1]
    BY ThroughTallies DEF Tallies
  <2>4. QED
    BY <1>1, <2>2, <2>3
<1>4. \A i \in 0..MaxClock : i > at + 1 => hist[i] = 0
  BY <1>2
<1>5. CASE at - s < w - 1
  <2>1. Through(hist, at + 1) - Through(hist, s - 1) = cur
    BY <1>3
  <2>2. cur = 0 \/ Fits(prev, cur - 1, (at + 1) - s, w, n)
    <3> DEFINE d == at - s
    <3>1. d \in Nat /\ d + 1 <= w /\ (at + 1) - s = d + 1 /\ at - s = d
      BY <1>5
    <3> HIDE DEF cur, prev, d
    <3>2. CASE cur = 0
      BY <3>2
    <3>3. CASE Fits(prev, cur - 1, d, w, n)
      <4>1. cur - 1 \in Int
        BY <1>1
      <4>2. Fits(prev, cur - 1, d + 1, w, n)
        BY <1>1, <3>1, <3>3, <4>1, EstimateFalls DEF Fits
      <4>3. QED
        BY <3>1, <4>2
    <3>4. QED
      BY <1>2, <3>1, <3>2, <3>3
  <2>3. Metered(cnt, hist, at + 1, s, w, n)
    BY <1>2, <1>4, <2>1, <2>2 DEF Metered
  <2>4. QED
    BY <1>5, <2>3
<1>6. CASE at - s = w - 1
  <2>1. /\ (at + 1) - 1 = at /\ (at + 1) - w = s
        /\ (at + 1) - w - 1 = s - 1
    BY <1>6
  <2>2. /\ Through(hist, at + 1) - Through(hist, (at + 1) - 1) = 0
        /\ Through(hist, (at + 1) - 1) - Through(hist, (at + 1) - w - 1) = cur
    <3>1. /\ Through(hist, (at + 1) - 1) = Through(hist, at)
          /\ Through(hist, (at + 1) - w - 1) = Through(hist, s - 1)
      BY <2>1
    <3>2. Through(hist, at) - Through(hist, at) = 0
      BY <1>1
    <3>3. QED
      BY <1>3, <3>1, <3>2
  <2>3. at + 1 \in 0..MaxClock /\ at + 1 > s /\ s \in 0..MaxClock
    OBVIOUS
  <2>4. cnt[at + 1] = 0 /\ Held(cnt, (at + 1) - w) = cur
    BY <1>2, <2>1, <2>3 DEF Held
  <2>5. \A i \in 0..MaxClock : i > at + 1 => cnt[i] = 0
    BY <1>2, <2>3
  <2> HIDE DEF cur, prev
  <2>6. 0 <= n
    OBVIOUS
  <2>7. Metered(cnt, hist, at + 1, at + 1, w, n)
    BY <1>2, <1>4, <2>2, <2>4, <2>5, <2>6 DEF Metered
  <2>8. QED
    BY <1>6, <2>7
<1>7. QED
  BY <1>5, <1>6

\* Nothing let through, nothing counted.
LEMMA MeteredNothing ==
  ASSUME MaxClock \in Nat, NEW none, none = [i \in 0..MaxClock |-> 0],
         NEW at \in 0..MaxClock, NEW s \in 0..at, NEW w \in Nat \ {0},
         NEW n \in Nat
  PROVE  Metered(none, none, at, s, w, n)
<1>1. \A i \in Int : i <= MaxClock => Through(none, i) = 0
  BY ThroughNothing
<1>2. /\ at \in Int /\ at <= MaxClock /\ s - 1 \in Int /\ s - 1 <= MaxClock
      /\ s - w - 1 \in Int /\ s - w - 1 <= MaxClock /\ s \in 0..MaxClock
  OBVIOUS
<1>3. /\ Through(none, at) = 0 /\ Through(none, s - 1) = 0
      /\ Through(none, s - w - 1) = 0
  BY <1>1, <1>2
<1>4. none[s] = 0 /\ Held(none, s - w) = 0
  BY <1>2 DEF Held
<1>5. QED
  BY <1>3, <1>4 DEF Metered

\* The bound on a burst.
LEMMA MeteredBurst ==
  ASSUME MaxClock \in Nat, NEW hist \in [0..MaxClock -> Nat], NEW cnt,
         NEW at \in 0..MaxClock, NEW s \in 0..at, NEW w \in Nat \ {0},
         at - s < w, NEW n \in Nat, Metered(cnt, hist, at, s, w, n)
  PROVE  (Through(hist, at) - Through(hist, at - w)) * w
            < n * (w + (at - s)) + w
<1> DEFINE cur == Through(hist, at) - Through(hist, s - 1)
           prev == Through(hist, s - 1) - Through(hist, s - w - 1)
           recent == Through(hist, at) - Through(hist, at - w)
<1>1. /\ at \in Int /\ s - w - 1 \in Int /\ at - w \in Int
      /\ s - w - 1 <= at - w /\ at - w <= at /\ at <= MaxClock
      /\ at - w <= MaxClock
  OBVIOUS
<1>2. Through(hist, s - w - 1) <= Through(hist, at - w)
      /\ Through(hist, at - w) \in Nat
  BY <1>1, ThroughGrows
<1>3. Through(hist, at - w) <= Through(hist, at)
  BY <1>1, ThroughGrows
<1>4. /\ cur \in Nat /\ prev \in Nat /\ Through(hist, at) \in Nat
      /\ Through(hist, s - 1) \in Nat /\ Through(hist, s - w - 1) \in Nat
  BY CountsNat
<1>5. recent \in Nat /\ recent <= prev + cur
  <2>1. \A a, b, c, d \in Nat : d <= c /\ c <= a =>
           a - c \in Nat /\ a - c <= (b - d) + (a - b)
    OBVIOUS
  <2>2. QED
    BY <1>2, <1>3, <1>4, <2>1
<1>6. /\ prev <= n
      /\ cur = 0 \/ Fits(prev, cur - 1, at - s, w, n)
  BY DEF Metered
<1>7. at - s \in 0..(w - 1)
  OBVIOUS
<1> HIDE DEF cur, prev, recent
<1>8. recent * w < n * (w + (at - s)) + w
  BY <1>4, <1>5, <1>6, <1>7, TwoWindows DEF Fits
<1>9. QED
  BY <1>8 DEF recent

-----------------------------------------------------------------------------
\* The current window starts at an instant that has come.
LEMMA WindowStartType ==
  ASSUME clock \in Nat, NEW w \in Nat \ {0}
  PROVE  /\ WindowStart(w) \in 0..clock
         /\ clock - WindowStart(w) = clock % w
         /\ clock % w \in 0..(w - 1)
<1>1. clock % w \in 0..(w - 1) /\ clock - (clock % w) \in 0..clock
  BY WindowSteps
<1>2. QED
  BY <1>1 DEF WindowStart

LEMMA ConfigOfType ==
  ASSUME NEW e \in Endpoints,
         configs \in [Endpoints -> Config \cup {NoConfig}]
  PROVE  /\ ConfigOf(e) \in Config
         /\ ConfigOf(e).limit \in EndpointLimits
         /\ ConfigOf(e).limit \in Nat
         /\ ConfigOf(e).window \in Windows
         /\ ConfigOf(e).window \in Nat \ {0}
<1>1. /\ AnyEndpoint \in Endpoints
      /\ EndpointLimits \subseteq Nat /\ DefaultLimit \in EndpointLimits
      /\ Windows \subseteq Nat \ {0} /\ DefaultWindow \in Windows
  BY WindowAssumption
<1>2. [limit |-> DefaultLimit, window |-> DefaultWindow] \in Config
  BY <1>1 DEF Config
<1>3. /\ configs[e] # NoConfig => configs[e] \in Config
      /\ configs[AnyEndpoint] # NoConfig => configs[AnyEndpoint] \in Config
  BY <1>1
<1>4. ConfigOf(e) \in Config
  BY <1>2, <1>3 DEF ConfigOf
<1>5. QED
  BY <1>1, <1>4 DEF Config

\* What _increment makes of the counters of an endpoint.
LEMMA IncrementedIs ==
  ASSUME MaxClock \in Nat, clock \in 0..MaxClock, NEW w \in Nat \ {0},
         NEW e \in Endpoints, counters[e] \in [0..MaxClock -> Nat]
  PROVE  LET s == WindowStart(w) IN
         /\ Incremented(e, w) \in [0..MaxClock -> Nat]
         /\ Raised(counters[e], Incremented(e, w), s, w)
         /\ \A i \in 0..MaxClock :
               Incremented(e, w)[i] > 0 => i = s \/ i = s - w
<1> DEFINE s == WindowStart(w)
           more == Incremented(e, w)
<1>1. s \in 0..clock /\ s \in 0..MaxClock /\ s - w # s
  <2>1. s \in 0..clock
    BY WindowStartType
  <2> HIDE DEF s
  <2>2. QED
    BY <2>1
<1>2. more = [i \in 0..MaxClock |->
                CASE i = s -> counters[e][i] + 1
                  [] i = s - w -> counters[e][i]
                  [] OTHER -> 0]
  BY DEF Incremented, Instants
<1> HIDE DEF s, more
<1>3. \A i \in 0..MaxClock : counters[e][i] \in Nat
  OBVIOUS
<1>4. more \in [0..MaxClock -> Nat]
  BY <1>2, <1>3
<1>5. more[s] = counters[e][s] + 1
  BY <1>1, <1>2
<1>6. Held(more, s - w) = Held(counters[e], s - w)
  BY <1>1, <1>2 DEF Held
<1>7. \A i \in 0..MaxClock : i > s => more[i] = 0
  <2> TAKE i \in 0..MaxClock
  <2> HAVE i > s
  <2>1. i # s /\ i # s - w
    BY <1>1
  <2>2. QED
    BY <1>2, <2>1
<1>8. \A i \in 0..MaxClock : more[i] > 0 => i = s \/ i = s - w
  BY <1>2
<1>9. QED
  BY <1>4, <1>5, <1>6, <1>7, <1>8 DEF Raised, s, more

\* At most two instants have a counter.
LEMMA FewCounters ==
  ASSUME NEW cnt, NEW a, NEW b,
         \A i \in 0..MaxClock : cnt[i] > 0 => i = a \/ i = b
  PROVE  Cardinality({i \in Instants : cnt[i] > 0}) <= 2
<1> DEFINE S == {i \in 0..MaxClock : cnt[i] > 0}
<1>1. S \subseteq {a, b}
  OBVIOUS
<1>2. IsFiniteSet({a}) /\ Cardinality({a}) = 1
  BY FS_Singleton
<1>3. {a} \cup {b} = {a, b}
  OBVIOUS
<1>4. IsFiniteSet({a, b}) /\ Cardinality({a, b}) <= 2
  <2>1. /\ IsFiniteSet({a} \cup {b})
        /\ Cardinality({a} \cup {b}) = IF b \in {a} THEN Cardinality({a})
                                       ELSE Cardinality({a}) + 1
    BY <1>2, FS_AddElement
  <2>2. QED
    BY <1>2, <1>3, <2>1
<1>5. Cardinality(S) <= Cardinality({a, b}) /\ Cardinality(S) \in Nat
      /\ Cardinality({a, b}) \in Nat
  BY <1>1, <1>4, FS_Subset, FS_CardinalityType
<1>6. Cardinality(S) <= 2
  BY <1>4, <1>5
<1>7. QED
  BY <1>6 DEF Instants

-----------------------------------------------------------------------------
(* The invariant: the types, and as long as there is one length of window the *)
(* counters of every endpoint follow its history under some limit in use.     *)

SlidingTypes ==
    /\ clock \in 0..MaxClock
    /\ configs \in [Endpoints -> Config \cup {NoConfig}]
    /\ counters \in [Endpoints -> [0..MaxClock -> Nat]]
    /\ log \in [Endpoints -> [0..MaxClock -> Nat]]

FewCounts ==
    \A e \in Endpoints : \E a, b \in Int : \A i \in 0..MaxClock :
        counters[e][i] > 0 => i = a \/ i = b

Metering(e, w) ==
    \E n \in EndpointLimits : Metered(counters[e], log[e], clock,
                              WindowStart(w), w, n)

SlidingInv ==
    /\ SlidingTypes /\ FewCounts
    /\ \A w : Windows = {w} => \A e \in Endpoints : Metering(e, w)

\* The types of the state and of the constants it is made of.
LEMMA SlidingFields ==
  ASSUME SlidingInv
  PROVE  /\ MaxClock \in Nat /\ EndpointLimits \subseteq Nat
         /\ Windows \subseteq Nat \ {0}
         /\ DefaultLimit \in EndpointLimits /\ DefaultLimit \in Nat
         /\ clock \in 0..MaxClock /\ clock \in Nat
         /\ configs \in [Endpoints -> Config \cup {NoConfig}]
         /\ counters \in [Endpoints -> [0..MaxClock -> Nat]]
         /\ log \in [Endpoints -> [0..MaxClock -> Nat]]
<1>1. /\ MaxClock \in Nat /\ EndpointLimits \subseteq Nat
      /\ Windows \subseteq Nat \ {0} /\ DefaultLimit \in EndpointLimits
  BY WindowAssumption
<1>2. SlidingTypes
  BY DEF SlidingInv
<1>3. DefaultLimit \in Nat
  BY <1>1
<1>4. clock \in 0..MaxClock
  BY <1>2 DEF SlidingTypes
<1>5. clock \in Nat
  BY <1>1, <1>4
<1>6. QED
  BY <1>1, <1>2, <1>3, <1>4, <1>5 DEF SlidingTypes

LEMMA SlidingInit ==
  ASSUME WindowInit
  PROVE  SlidingInv
<1> DEFINE none == [i \in 0..MaxClock |-> 0]
<1>1. /\ clock = 0 /\ MaxClock \in Nat
      /\ configs = [e \in Endpoints |-> NoConfig]
      /\ counters = [e \in Endpoints |-> none]
      /\ log = [e \in Endpoints |-> none]
      /\ Windows \subseteq Nat \ {0}
      /\ DefaultLimit \in EndpointLimits /\ DefaultLimit \in Nat
  BY WindowAssumption DEF WindowInit, Nothing, Instants
<1>2. /\ none \in [0..MaxClock -> Nat] /\ \A i \in 0..MaxClock : ~(none[i] > 0)
  OBVIOUS
<1>3. SlidingTypes
  BY <1>1, <1>2 DEF SlidingTypes
<1>4. FewCounts
  <2> SUFFICES ASSUME NEW e \in Endpoints
               PROVE  \E a, b \in Int : \A i \in 0..MaxClock :
                         counters[e][i] > 0 => i = a \/ i = b
    BY DEF FewCounts
  <2>1. counters[e] = none
    BY <1>1
  <2> HIDE DEF none
  <2>2. \A i \in 0..MaxClock : counters[e][i] > 0 => i = 0 \/ i = 0
    BY <1>2, <2>1
  <2> WITNESS 0 \in Int, 0 \in Int
  <2>3. QED
    BY <2>2
<1>5. ASSUME NEW w, Windows = {w}, NEW e \in Endpoints
      PROVE  Metering(e, w)
  <2>1. w \in Nat \ {0} /\ clock \in 0..MaxClock /\ clock \in Nat
    BY <1>1, <1>5
  <2>2. WindowStart(w) \in 0..clock
    BY <2>1, WindowStartType
  <2>3. Metered(none, none, clock, WindowStart(w), w, DefaultLimit)
    BY <1>1, <2>1, <2>2, MeteredNothing
  <2>4. counters[e] = none /\ log[e] = none
    BY <1>1
  <2> HIDE DEF none
  <2>5. QED
    BY <1>1, <2>3, <2>4 DEF Metering
<1>6. QED
  BY <1>3, <1>4, <1>5 DEF SlidingInv

LEMMA ConsumeStep ==
  ASSUME SlidingInv, NEW e \in Endpoints,
         Consume(e)
  PROVE  SlidingInv'
<1> DEFINE c == ConfigOf(e)
           more == Incremented(e, c.window)
<1>1. /\ clock' = clock /\ configs' = configs
      /\ counters' = [counters EXCEPT ![e] = more]
      /\ log' = [log EXCEPT ![e] = Booked(log[e], clock)]
      /\ UnderLimit(e)
  BY DEF Consume, Booked
<1>2. /\ MaxClock \in Nat /\ EndpointLimits \subseteq Nat
      /\ Windows \subseteq Nat \ {0}
      /\ clock \in 0..MaxClock /\ clock \in Nat
      /\ configs \in [Endpoints -> Config \cup {NoConfig}]
      /\ counters \in [Endpoints -> [0..MaxClock -> Nat]]
      /\ log \in [Endpoints -> [0..MaxClock -> Nat]]
      /\ counters[e] \in [0..MaxClock -> Nat]
      /\ log[e] \in [0..MaxClock -> Nat]
  <2>1. /\ MaxClock \in Nat /\ EndpointLimits \subseteq Nat
        /\ Windows \subseteq Nat \ {0}
    BY WindowAssumption
  <2>2. /\ clock \in 0..MaxClock
        /\ configs \in [Endpoints -> Config \cup {NoConfig}]
        /\ counters \in [Endpoints -> [0..MaxClock -> Nat]]
        /\ log \in [Endpoints -> [0..MaxClock -> Nat]]
    BY DEF SlidingInv, SlidingTypes
  <2> HIDE DEF c, more
  <2>3. clock \in Nat
    BY <2>1, <2>2
  <2>4. counters[e] \in [0..MaxClock -> Nat] /\ log[e] \in [0..MaxClock -> Nat]
    BY <2>2
  <2>5. QED
    BY <2>1, <2>2, <2>3, <2>4
<1>3. /\ c.limit \in EndpointLimits /\ c.limit \in Nat
      /\ c.window \in Windows /\ c.window \in Nat \ {0}
  BY <1>2, ConfigOfType
<1> DEFINE s == WindowStart(c.window)
<1>4. /\ more \in [0..MaxClock -> Nat] /\ Raised(counters[e], more, s, c.window)
      /\ \A i \in 0..MaxClock : more[i] > 0 => i = s \/ i = s - c.window
  BY <1>2, <1>3, IncrementedIs
<1>5. /\ s \in 0..clock /\ clock - s = clock % c.window
      /\ clock % c.window \in 0..(c.window - 1)
  BY <1>2, <1>3, WindowStartType
<1>6. Fits(Held(counters[e], s - c.window), counters[e][s], clock - s,
           c.window, c.limit)
  <2>1. s \in 0..MaxClock
    BY <1>2, <1>5
  <2>2. /\ CountAt(e, s - c.window) = Held(counters[e], s - c.window)
        /\ SlidingCount(e, c.window) < c.limit * c.window
    BY <1>1 DEF CountAt, Held, Instants, UnderLimit
  <2>3. SlidingCount(e, c.window)
           = CountAt(e, s - c.window) * (c.window - (clock - s))
               + counters[e][s] * c.window
    BY DEF SlidingCount
  <2> HIDE DEF c, s
  <2>4. QED
    BY <2>2, <2>3 DEF Fits
<1> HIDE DEF c, more, s
<1>7. Booked(log[e], clock) \in [0..MaxClock -> Nat]
  BY <1>2 DEF Booked
<1>8. SlidingTypes'
  BY <1>1, <1>2, <1>4, <1>7 DEF SlidingTypes, Config
<1>9. FewCounts'
  <2> SUFFICES ASSUME NEW f \in Endpoints
               PROVE  \E a, b \in Int : \A i \in 0..MaxClock :
                         counters'[f][i] > 0 => i = a \/ i = b
    BY DEF FewCounts
  <2>1. CASE f = e
    <3>1. counters'[f] = more
      BY <1>1, <1>2, <2>1
    <3>2. s \in Int /\ s - c.window \in Int
      BY <1>3, <1>5
    <3>3. QED
      BY <1>4, <3>1, <3>2
  <2>2. CASE f # e
    <3>1. counters'[f] = counters[f]
      BY <1>1, <1>2, <2>2
    <3>2. QED
      BY <3>1 DEF SlidingInv, FewCounts
  <2>3. QED
    BY <2>1, <2>2
<1>10. ASSUME NEW w, Windows = {w}, NEW f \in Endpoints
       PROVE  Metering(f, w)'
  <2>1. Metering(f, w)
    BY <1>10 DEF SlidingInv
  <2>2. WindowStart(w)' = WindowStart(w)
    BY <1>1 DEF WindowStart
  <2>3. CASE f # e
    <3>1. counters'[f] = counters[f] /\ log'[f] = log[f]
      BY <1>1, <1>2, <2>3
    <3>2. QED
      BY <1>1, <2>1, <2>2, <3>1 DEF Metering
  <2>4. CASE f = e
    <3>1. counters'[f] = more /\ log'[f] = Booked(log[e], clock)
      BY <1>1, <1>2, <2>4
    <3>2. w = c.window /\ s = WindowStart(w)
      BY <1>3, <1>10 DEF s
    <3>3. PICK n \in EndpointLimits :
             Metered(counters[e], log[e], clock, s, c.window, n)
      BY <2>1, <2>4, <3>2 DEF Metering
    <3>4. n \in Nat /\ clock - s < c.window
      <4>1. n \in Nat
        BY <1>2
      <4>2. \A d \in 0..(c.window - 1) : d < c.window
        BY <1>3
      <4>3. clock - s < c.window
        BY <1>5, <4>2
      <4>4. QED
        BY <4>1, <4>3
    <3>5. /\ c.limit >= n => Metered(more, Booked(log[e], clock), clock, s,
                                     c.window, c.limit)
          /\ c.limit <= n => Metered(more, Booked(log[e], clock), clock, s,
                                     c.window, n)
      BY <1>2, <1>3, <1>4, <1>5, <1>6, <3>3, <3>4, MeteredConsume
    <3>6. \E k \in EndpointLimits : Metered(more, Booked(log[e], clock), clock, s,
                                    c.window, k)
      <4>1. c.limit >= n \/ c.limit <= n
        BY <1>3, <3>4
      <4>2. QED
        BY <1>3, <3>5, <4>1
    <3>7. QED
      BY <1>1, <2>2, <3>1, <3>2, <3>6 DEF Metering
  <2>5. QED
    BY <2>3, <2>4
<1>11. QED
  BY <1>8, <1>9, <1>10 DEF SlidingInv

LEMMA ResetStep ==
  ASSUME SlidingInv, NEW e \in Endpoints,
         Reset(e)
  PROVE  SlidingInv'
<1> DEFINE none == [i \in 0..MaxClock |-> 0]
<1>1. /\ clock' = clock /\ configs' = configs
      /\ counters' = [counters EXCEPT ![e] = none]
      /\ log' = [log EXCEPT ![e] = none]
  BY DEF Reset, Nothing, Instants
<1>2. /\ MaxClock \in Nat /\ Windows \subseteq Nat \ {0}
      /\ DefaultLimit \in EndpointLimits /\ DefaultLimit \in Nat
      /\ clock \in 0..MaxClock /\ clock \in Nat
      /\ configs \in [Endpoints -> Config \cup {NoConfig}]
      /\ counters \in [Endpoints -> [0..MaxClock -> Nat]]
      /\ log \in [Endpoints -> [0..MaxClock -> Nat]]
  BY SlidingFields
<1>3. none \in [0..MaxClock -> Nat] /\ \A i \in 0..MaxClock : ~(none[i] > 0)
  OBVIOUS
<1>4. ASSUME NEW w \in Nat \ {0}
      PROVE  Metered(none, none, clock, WindowStart(w), w, DefaultLimit)
  <2>1. WindowStart(w) \in 0..clock
    BY <1>2, WindowStartType
  <2>2. QED
    BY <1>2, <2>1, MeteredNothing
<1> HIDE DEF none
<1>5. SlidingTypes'
  BY <1>1, <1>2, <1>3 DEF SlidingTypes, Config
<1>6. ASSUME NEW f \in Endpoints
      PROVE  \/ f = e /\ counters'[f] = none /\ log'[f] = none
             \/ counters'[f] = counters[f] /\ log'[f] = log[f]
  BY <1>1, <1>2
<1>7. FewCounts'
  <2> SUFFICES ASSUME NEW f \in Endpoints
               PROVE  \E a, b \in Int : \A i \in 0..MaxClock :
                         counters'[f][i] > 0 => i = a \/ i = b
    BY DEF FewCounts
  <2>1. CASE counters'[f] = none
    <3>1. \A i \in 0..MaxClock : counters'[f][i] > 0 => i = 0 \/ i = 0
      BY <1>3, <2>1
    <3>2. QED
      BY <3>1
  <2>2. CASE counters'[f] = counters[f]
    BY <2>2 DEF SlidingInv, FewCounts
  <2>3. QED
    BY <1>6, <2>1, <2>2
<1>8. ASSUME NEW w, Windows = {w}, NEW f \in Endpoints
      PROVE  Metering(f, w)'
  <2>1. Metering(f, w) /\ w \in Nat \ {0}
    BY <1>2, <1>8 DEF SlidingInv
  <2>2. WindowStart(w)' = WindowStart(w)
    BY <1>1 DEF WindowStart
  <2>3. CASE counters'[f] = none /\ log'[f] = none
    BY <1>1, <1>2, <1>4, <2>1, <2>2, <2>3 DEF Metering
  <2>4. CASE counters'[f] = counters[f] /\ log'[f] = log[f]
    BY <1>1, <2>1, <2>2, <2>4 DEF Metering
  <2>5. QED
    BY <1>6, <2>3, <2>4
<1>9. QED
  BY <1>5, <1>7, <1>8 DEF SlidingInv

LEMMA TickStep ==
  ASSUME SlidingInv, WindowTick
  PROVE  SlidingInv'
<1>1. /\ clock < MaxClock /\ clock' = clock + 1 /\ configs' = configs
      /\ counters' = counters /\ log' = log
  BY DEF WindowTick
<1>2. /\ MaxClock \in Nat /\ EndpointLimits \subseteq Nat
      /\ Windows \subseteq Nat \ {0}
      /\ clock \in 0..MaxClock /\ clock \in Nat
      /\ configs \in [Endpoints -> Config \cup {NoConfig}]
      /\ counters \in [Endpoints -> [0..MaxClock -> Nat]]
      /\ log \in [Endpoints -> [0..MaxClock -> Nat]]
  BY SlidingFields
<1>3. clock \in 0..(MaxClock - 1) /\ clock + 1 \in 0..MaxClock
  BY <1>1, <1>2
<1>4. SlidingTypes'
  BY <1>1, <1>2, <1>3 DEF SlidingTypes, Config
<1>5. FewCounts'
  BY <1>1 DEF SlidingInv, FewCounts
<1>6. ASSUME NEW w, Windows = {w}, NEW e \in Endpoints
      PROVE  Metering(e, w)'
  <2>1. w \in Nat \ {0}
    BY <1>2, <1>6
  <2>2. PICK n \in EndpointLimits : Metered(counters[e], log[e], clock,
                                    WindowStart(w), w, n)
    BY <1>6 DEF SlidingInv, Metering
  <2>3. /\ counters[e] \in [0..MaxClock -> Nat]
        /\ log[e] \in [0..MaxClock -> Nat] /\ n \in Nat
    BY <1>2
  <2> DEFINE s == WindowStart(w)
  <2>4. /\ s \in 0..clock /\ clock - s = clock % w /\ clock % w \in 0..(w - 1)
    BY <1>2, <2>1, WindowStartType
  <2>5. s' = (clock + 1) - ((clock + 1) % w)
    BY <1>1 DEF WindowStart
  <2>6. \/ (clock + 1) % w = (clock % w) + 1
        \/ (clock + 1) % w = 0 /\ clock % w = w - 1
    BY <1>2, <2>1, WindowSteps
  <2> HIDE DEF s
  <2>7. /\ clock - s < w - 1 =>
             Metered(counters[e], log[e], clock + 1, s, w, n)
        /\ clock - s = w - 1 =>
             Metered(counters[e], log[e], clock + 1, clock + 1, w, n)
    BY <1>2, <1>3, <2>1, <2>2, <2>3, <2>4, MeteredTick DEF s
  <2>8. \/ s' = s /\ clock - s < w - 1
        \/ s' = clock + 1 /\ clock - s = w - 1
    <3>1. clock + 1 \in Nat
      BY <1>2
    <3>2. (clock + 1) % w \in 0..(w - 1)
      BY <2>1, <3>1, WindowSteps
    <3>3. /\ s \in Int /\ clock \in Nat /\ clock - s \in 0..(w - 1)
          /\ s = clock - (clock - s)
      BY <1>2, <2>4
    <3>4. CASE (clock + 1) % w = (clock % w) + 1
      <4>1. (clock - s) + 1 \in 0..(w - 1) /\ s' = (clock + 1) - ((clock - s) + 1)
        BY <2>4, <2>5, <3>2, <3>4
      <4>2. \A d \in 0..(w - 1) : d + 1 \in 0..(w - 1) => d < w - 1
        BY <2>1
      <4>3. (clock + 1) - ((clock - s) + 1) = s
        BY <3>3
      <4>4. QED
        BY <3>3, <4>1, <4>2, <4>3
    <3>5. CASE (clock + 1) % w = 0 /\ clock % w = w - 1
      <4>1. s' = (clock + 1) - 0
        BY <2>5, <3>5
      <4>2. QED
        BY <2>4, <3>1, <3>5, <4>1
    <3>6. QED
      BY <2>6, <3>4, <3>5
  <2>9. Metered(counters[e], log[e], clock + 1, s', w, n)
    BY <2>7, <2>8
  <2>10. QED
    BY <1>1, <2>9 DEF Metering, s
<1>7. QED
  BY <1>4, <1>5, <1>6 DEF SlidingInv

LEMMA SlidingQuiet ==
  ASSUME SlidingInv, clock' = clock, counters' = counters, log' = log,
         configs' \in [Endpoints -> Config \cup {NoConfig}]
  PROVE  SlidingInv'
<1>1. SlidingTypes'
  BY DEF SlidingInv, SlidingTypes, Config
<1>2. FewCounts'
  BY DEF SlidingInv, FewCounts
<1>3. \A e, w : Metering(e, w)' = Metering(e, w)
  BY DEF Metering, WindowStart
<1>4. QED
  BY <1>1, <1>2, <1>3 DEF SlidingInv

LEMMA SlidingStep ==
  SlidingInv /\ [WindowNext]_windowVars => SlidingInv'
<1> SUFFICES ASSUME SlidingInv, [WindowNext]_windowVars
             PROVE  SlidingInv'
  OBVIOUS
<1>1. configs \in [Endpoints -> Config \cup {NoConfig}]
  BY DEF SlidingInv, SlidingTypes
<1>2. ASSUME NEW e \in Endpoints, Consume(e) PROVE SlidingInv'
  BY <1>2, ConsumeStep
<1>3. ASSUME NEW e \in Endpoints, Reset(e) PROVE SlidingInv'
  BY <1>3, ResetStep
<1>4. ASSUME NEW e \in Endpoints, NEW c \in Config,
             AddConfig(e, c)
      PROVE  SlidingInv'
  <2>1. /\ clock' = clock /\ counters' = counters /\ log' = log
        /\ configs' = [configs EXCEPT ![e] = c]
    BY <1>4 DEF AddConfig
  <2>2. configs' \in [Endpoints -> Config \cup {NoConfig}]
    BY <1>1, <2>1
  <2>3. QED
    BY <2>1, <2>2, SlidingQuiet
<1>5. CASE WindowTick
  BY <1>5, TickStep
<1>6. CASE UNCHANGED windowVars
  BY <1>1, <1>6, SlidingQuiet DEF windowVars
<1>7. QED
  BY <1>2, <1>3, <1>4, <1>5, <1>6 DEF WindowNext

LEMMA SlidingMeaning ==
  ASSUME SlidingInv
  PROVE  BurstBounded
<1>1. /\ MaxClock \in Nat /\ EndpointLimits \subseteq Nat
      /\ Windows \subseteq Nat \ {0}
      /\ clock \in 0..MaxClock /\ clock \in Nat
      /\ log \in [Endpoints -> [0..MaxClock -> Nat]]
  BY SlidingFields
<1>2. WindowTypeOK
  <2>1. ASSUME NEW e \in Endpoints
        PROVE  Cardinality({i \in Instants :
                                      counters[e][i] > 0}) <= 2
    BY FewCounters DEF SlidingInv, FewCounts
  <2>2. QED
    BY <2>1 DEF SlidingInv, SlidingTypes, WindowTypeOK, Instants
<1>3. ASSUME NEW e \in Endpoints, NEW w \in Windows, Windows = {w}
      PROVE  \E n \in EndpointLimits : Recent(e, w) * w
                                  < n * (w + (clock % w)) + w
  <2>1. w \in Nat \ {0} /\ log[e] \in [0..MaxClock -> Nat]
    BY <1>1
  <2> DEFINE s == WindowStart(w)
  <2>2. PICK n \in EndpointLimits : Metered(counters[e], log[e], clock, s, w, n)
    BY <1>3 DEF SlidingInv, Metering
  <2>3. /\ s \in 0..clock /\ clock - s = clock % w /\ clock % w \in 0..(w - 1)
    BY <1>1, <2>1, WindowStartType
  <2> HIDE DEF s
  <2>4. clock - s < w /\ n \in Nat
    BY <1>1, <2>1, <2>3
  <2>5. (Through(log[e], clock) - Through(log[e], clock - w)) * w
           < n * (w + (clock - s)) + w
    BY <1>1, <2>1, <2>2, <2>3, <2>4, MeteredBurst
  <2>6. Recent(e, w) * w < n * (w + (clock % w)) + w
    BY <2>3, <2>5 DEF Recent, After
  <2>7. QED
    BY <2>6
<1>4. QED
  BY <1>2, <1>3 DEF BurstBounded

\* While every rule has the same window, of any length, what an endpoint lets
\* through in an interval of that length is within the limit at the start of a
\* window, and later exceeds it by no more than the elapsed share of it and one
\* request.
THEOREM BurstCorrect == WindowSpec => []BurstBounded
<1>1. WindowInit => SlidingInv
  BY SlidingInit
<1>2. SlidingInv /\ [WindowNext]_windowVars => SlidingInv'
  BY SlidingStep
<1>3. SlidingInv => BurstBounded
  BY SlidingMeaning
<1>4. QED
  BY <1>1, <1>2, <1>3, PTL DEF WindowSpec
=============================================================================
