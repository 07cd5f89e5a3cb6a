---------------------------- MODULE CostEnforcer ----------------------------
(***************************************************************************)
(* CostEnforcer of cost/enforcer.py: the ledger of money spent per session *)
(* and per day, and the check made before a request runs.  Amounts are     *)
(* whole units; monthly_budget is declared by CostBudget and read nowhere. *)
(***************************************************************************)
EXTENDS Integers, SessionIds

CONSTANTS SessionBudget,   \* max_cost_per_session
          DailyBudget,     \* daily_budget
          RequestBudget,   \* max_cost_per_request
          Estimate         \* estimated_cost of every request

ASSUME BudgetAssumption ==
    /\ SessionBudget \in Nat /\ DailyBudget \in Nat /\ RequestBudget \in Nat
    /\ Estimate \in Nat
    /\ Estimate <= SessionBudget

VARIABLES known,   \* sessions that have a CostRecord
          spent,   \* total_cost of each session's record
          daily    \* total_cost of the daily record

ledger == <<known, spent, daily>>

LedgerInit ==
    /\ known = {}
    /\ spent = [s \in Sids |-> 0]
    /\ daily = 0

LedgerTypeOK ==
    /\ known \in SUBSET Sids
    /\ spent \in [Sids -> Nat]
    /\ daily \in Nat

\* check_request without its session check.
AllowedInSession(s) ==
    /\ Estimate <= RequestBudget
    /\ daily + Estimate <= DailyBudget

\* The checks of check_request that need no record of the session.
AllowedToday ==
    /\ Estimate <= RequestBudget
    /\ daily + Estimate <= DailyBudget

\* check_request: a session without a record is not compared with its budget.
\* Every on_exceed action denies the request.
Allowed(s) ==
    /\ s \in known => spent[s] + Estimate <= SessionBudget
    /\ AllowedToday

\* record_cost: the actual cost is added whatever the budgets say.
RecordCost(s, cost) ==
    /\ known' = known \cup {s}
    /\ spent' = [spent EXCEPT ![s] = @ + cost]
    /\ daily' = daily + cost

RecordEmpty(s, cost) ==
    /\ known' = known \cup {s}
    /\ spent' = [spent EXCEPT ![s] = 0]
    /\ daily' = daily + cost

\* The second half of record_cost for a session that had no record when the
\* first half looked: the new record replaces one made in the meantime.
RecordFresh(s, cost) ==
    /\ known' = known \cup {s}
    /\ spent' = [spent EXCEPT ![s] = cost]
    /\ daily' = daily + cost

\* reset_daily
ResetDaily ==
    /\ daily' = 0
    /\ UNCHANGED <<known, spent>>
=============================================================================
