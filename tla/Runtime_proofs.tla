--------------------------- MODULE Runtime_proofs ---------------------------
(***************************************************************************)
(* Proofs about module Runtime: types, how far concurrent invocations can  *)
(* overshoot the budgets the enforcer checks them against, what becomes of *)
(* sessions in orderly behaviours, and that the ledger adds up in all.     *)
(***************************************************************************)
EXTENDS Runtime, FiniteSetTheorems, WellFoundedInduction, TLAPS

USE BudgetAssumption, RuntimeAssumption, NoObjectAssumption

-----------------------------------------------------------------------------
(* Every variable keeps its type.                                          *)

\* The initial state is well typed.
LEMMA InitType == Init => TypeOK
<1> SUFFICES ASSUME Init PROVE TypeOK
  OBVIOUS
<1>1. (CHOOSE s \in Sids : TRUE) \in Sids
  BY SidsAssumption
<1>2. LedgerTypeOK
  BY DEF Init, LedgerInit, LedgerTypeOK
<1>3. StoreTypeOK(Turns)
  BY DEF Init, StoreInit, StoreTypeOK
<1>4. next \in 1..(MaxTurns + 1) /\ due \in [Threads -> 0..MaxCost]
  BY DEF Init
<1>5. /\ pc \in [Threads -> Labels]
      /\ turn \in [Threads -> Turns \cup {NoTurn}]
      /\ sid \in [Threads -> Sids]
      /\ obj \in [Threads -> Objects \cup {NoObject}]
      /\ \A t \in Threads : pc[t] = "idle"
  BY <1>1 DEF Init, Labels
<1>6. /\ billed \in [Objects -> Nat]
      /\ owner \in [Objects -> Sids]
      /\ kept \in [Sids -> SUBSET Turns]
      /\ raced \in SUBSET Sids
  BY <1>1 DEF Init
<1>7. orderly \in Orders
  BY DEF Init
<1>8. QED
  BY <1>2, <1>3, <1>4, <1>5, <1>6, <1>7 DEF TypeOK

\* A new message keeps the store well typed.
LEMMA AddMessageType ==
  ASSUME StoreTypeOK(Turns), NEW o \in Objects, NEW role \in Roles,
         NEW n \in Turns, AddMessage(o, role, n)
  PROVE  StoreTypeOK(Turns)'
<1> DEFINE Messages == [role : Roles, turn : Turns]
           m == [role |-> role, turn |-> n]
<1>1. m \in Messages
  OBVIOUS
<1> HIDE DEF Messages, m
<1>2. msgs \in [Objects -> Seq(Messages)]
  BY DEF StoreTypeOK, Messages
<1>3. Append(msgs[o], m) \in Seq(Messages)
  BY <1>1, <1>2
<1>4. msgs' = [msgs EXCEPT ![o] = Append(msgs[o], m)]
  BY DEF AddMessage, m
<1>5. msgs' \in [Objects -> Seq(Messages)]
  BY <1>2, <1>3, <1>4
<1>6. QED
  BY <1>5 DEF StoreTypeOK, AddMessage, Messages

\* Each step of invoke and of its surroundings keeps the types.
LEMMA TypeStep == TypeOK /\ [Next]_vars => TypeOK'
<1> SUFFICES ASSUME TypeOK, [Next]_vars PROVE TypeOK'
  OBVIOUS
<1>0. orderly' \in Orders
  BY DEF Next, vars, TypeOK
<1> USE <1>0 DEF TypeOK, Goto, Return, thread, ledger, store, Labels
<1>1. ASSUME NEW t \in Threads, Load(t) PROVE TypeOK'
  <2>1. next \in Turns /\ next \in Objects /\ next' \in 1..(MaxTurns + 1)
    BY <1>1 DEF Load, Turns
  <2>2. PICK s \in Sids :
          /\ \/ GetOrCreate(s, next) /\ pc' = [pc EXCEPT ![t] = "check"]
             \/ UNCHANGED store /\ pc' = [pc EXCEPT ![t] = "create"]
          /\ sid' = [sid EXCEPT ![t] = s]
          /\ obj' = [obj EXCEPT ![t] = Holder(s, next)]
          /\ owner' = [owner EXCEPT ![Holder(s, next)] = s]
    BY <1>1 DEF Load
  <2>3. LedgerTypeOK'
    BY <1>1 DEF Load, LedgerTypeOK
  <2>4. StoreTypeOK(Turns)'
    <3> DEFINE Messages == [role : Roles, turn : Turns]
    <3>1. <<>> \in Seq(Messages)
      OBVIOUS
    <3> HIDE DEF Messages
    <3>2. msgs \in [Objects -> Seq(Messages)]
      BY DEF StoreTypeOK, Messages
    <3>3. table' \in [Sids -> Objects \cup {NoObject}]
      <4>1. table \in [Sids -> Objects \cup {NoObject}]
        BY DEF StoreTypeOK
      <4>2. \/ table' = table
            \/ table' = [x \in Sids |-> IF x = s THEN next
                                         ELSE IF x \in Expired THEN NoObject
                                         ELSE table[x]]
        BY <2>2 DEF GetOrCreate, GetExisting, CreateSession
      <4>3. QED
        BY <2>1, <4>1, <4>2
    <3>4. msgs' = msgs \/ msgs' = [msgs EXCEPT ![next] = <<>>]
      BY <2>2 DEF GetOrCreate, GetExisting, CreateSession
    <3>5. msgs' \in [Objects -> Seq(Messages)]
      BY <2>1, <3>1, <3>2, <3>4
    <3>6. stale' \in SUBSET Objects
      BY <2>2 DEF GetOrCreate, GetExisting, CreateSession, StoreTypeOK
    <3>7. QED
      BY <3>3, <3>5, <3>6 DEF StoreTypeOK, Messages
  <2>5. PICK o \in Objects : obj' = [obj EXCEPT ![t] = o]
                             /\ owner' = [owner EXCEPT ![o] = s]
    <3>1. Holder(s, next) \in Objects
      BY <2>1 DEF Holder, StoreTypeOK
    <3>2. QED
      BY <2>2, <3>1
  <2>6. kept' \in [Sids -> SUBSET Turns]
    BY <1>1 DEF Load, ForgetDropped
  <2>7. pc' \in [Threads -> Labels]
    <3>1. \E label \in Labels : pc' = [pc EXCEPT ![t] = label]
      BY <2>2
    <3>2. QED
      BY <3>1
  <2>8. /\ turn' \in [Threads -> Turns \cup {NoTurn}]
        /\ sid' \in [Threads -> Sids]
        /\ obj' \in [Threads -> Objects \cup {NoObject}]
        /\ owner' \in [Objects -> Sids]
        /\ turn'[t] \in Turns /\ obj'[t] \in Objects
        /\ UNCHANGED <<due, raced, billed>>
    BY <1>1, <2>1, <2>2, <2>5 DEF Load
  <2>9. \A u \in Threads : pc'[u] # "idle" => turn'[u] \in Turns
                                              /\ obj'[u] \in Objects
    <3>1. \A u \in Threads \ {t} : /\ pc'[u] = pc[u] /\ turn'[u] = turn[u]
                                   /\ obj'[u] = obj[u]
      BY <1>1, <2>2, <2>5 DEF Load
    <3>2. QED
      BY <2>8, <3>1
  <2>10. QED
    BY <2>1, <2>3, <2>4, <2>6, <2>7, <2>8, <2>9
<1>2. ASSUME NEW t \in Threads, Create(t) PROVE TypeOK'
  <2>1. obj[t] \in Objects
    BY <1>2 DEF Create
  <2>2. StoreTypeOK(Turns)'
    <3> DEFINE Messages == [role : Roles, turn : Turns]
    <3>1. <<>> \in Seq(Messages)
      OBVIOUS
    <3> HIDE DEF Messages
    <3>2. msgs \in [Objects -> Seq(Messages)]
      BY DEF StoreTypeOK, Messages
    <3>3. msgs' = [msgs EXCEPT ![obj[t]] = <<>>]
      BY <1>2 DEF Create, StoreSession
    <3>4. msgs' \in [Objects -> Seq(Messages)]
      BY <2>1, <3>1, <3>2, <3>3
    <3>5. /\ table' \in [Sids -> Objects \cup {NoObject}]
          /\ stale' \in SUBSET Objects
      BY <1>2, <2>1 DEF Create, StoreSession, StoreTypeOK
    <3>6. QED
      BY <3>4, <3>5 DEF StoreTypeOK, Messages
  <2>3. QED
    BY <1>2, <2>2 DEF Create, LedgerTypeOK
<1>3. ASSUME NEW t \in Threads, CleanUp(t) PROVE TypeOK'
  <2>1. PICK gone \in SUBSET Sids : Cleanup(gone)
    BY <1>3 DEF CleanUp, Expired
  <2>2. StoreTypeOK(Turns)'
    BY <2>1 DEF Cleanup, StoreTypeOK
  <2>3. kept' \in [Sids -> SUBSET Turns]
    BY <1>3 DEF CleanUp, ForgetDropped
  <2>4. QED
    BY <1>3, <2>2, <2>3 DEF CleanUp, LedgerTypeOK
<1>4. ASSUME NEW t \in Threads, CheckUnknown(t) PROVE TypeOK'
  BY <1>4 DEF CheckUnknown, LedgerTypeOK, StoreTypeOK
<1>5. ASSUME NEW t \in Threads, RecordNew(t) PROVE TypeOK'
  <2>1. due[t] \in Nat
    OBVIOUS
  <2>2. LedgerTypeOK'
    BY <1>5, <2>1 DEF RecordNew, RecordFresh, LedgerTypeOK
  <2>3. StoreTypeOK(Turns)'
    BY <1>5 DEF RecordNew, StoreTypeOK
  <2>4. /\ pc' \in [Threads -> Labels] /\ due' \in [Threads -> 0..MaxCost]
        /\ \A u \in Threads : pc'[u] # "idle" => pc[u] # "idle"
        /\ UNCHANGED <<turn, sid, obj, next, raced, billed, owner, kept>>
    <3>1. 0 \in 0..MaxCost /\ pc[t] # "idle"
      BY <1>5 DEF RecordNew
    <3>2. due' = [due EXCEPT ![t] = 0] /\ pc' = [pc EXCEPT ![t] = "save"]
      BY <1>5 DEF RecordNew, Recorded
    <3>3. QED
      BY <1>5, <3>1, <3>2 DEF RecordNew, Recorded
  <2>5. QED
    BY <2>2, <2>3, <2>4
<1>6. ASSUME NEW t \in Threads, CheckCost(t) PROVE TypeOK'
  <2>1. /\ pc[t] # "idle"
        /\ UNCHANGED <<ledger, store, billed, owner, kept>>
    BY <1>6 DEF CheckCost
  <2>2. \/ Goto(t, "unknown") \/ Goto(t, "user") \/ Return(t)
    BY <1>6, Zenon DEF CheckCost
  <2>3. LedgerTypeOK' /\ StoreTypeOK(Turns)'
    BY <2>1 DEF LedgerTypeOK, StoreTypeOK
  <2>4. QED
    BY <2>1, <2>2, <2>3
<1>7. ASSUME NEW t \in Threads, AddUser(t) PROVE TypeOK'
  <2>1. StoreTypeOK(Turns)'
    BY <1>7, AddMessageType DEF AddUser, Roles
  <2>2. QED
    BY <1>7, <2>1 DEF AddUser, LedgerTypeOK
<1>8. ASSUME NEW t \in Threads, AgentFails(t) PROVE TypeOK'
  BY <1>8 DEF AgentFails, LedgerTypeOK, StoreTypeOK
<1>9. ASSUME NEW t \in Threads, AddAssistant(t) PROVE TypeOK'
  <2>1. StoreTypeOK(Turns)'
    BY <1>9, AddMessageType DEF AddAssistant, Roles
  <2>2. QED
    BY <1>9, <2>1 DEF AddAssistant, LedgerTypeOK
<1>10. ASSUME NEW t \in Threads, Bill(t) \/ Record(t) PROVE TypeOK'
  <2>1. CASE Bill(t)
    <3>1. PICK cost \in 0..MaxCost :
            /\ billed' = [billed EXCEPT ![obj[t]] = @ + cost]
            /\ due' = [due EXCEPT ![t] = cost]
      BY <2>1 DEF Bill
    <3>2. /\ pc[t] = "bill" /\ pc' = [pc EXCEPT ![t] = "record"]
          /\ UNCHANGED <<turn, sid, obj, next, raced, ledger, store, owner,
                         kept>>
      BY <2>1 DEF Bill
    <3>3. billed' \in [Objects -> Nat] /\ due' \in [Threads -> 0..MaxCost]
      <4>1. cost \in Nat /\ cost \in 0..MaxCost
        OBVIOUS
      <4>2. billed' \in [Objects -> Nat]
        BY <3>1, <3>2, <4>1
      <4>3. due' \in [Threads -> 0..MaxCost]
        BY <3>1, <4>1
      <4>4. QED
        BY <4>2, <4>3
    <3>4. LedgerTypeOK' /\ StoreTypeOK(Turns)'
      BY <3>2 DEF LedgerTypeOK, StoreTypeOK
    <3>5. /\ pc' \in [Threads -> Labels]
          /\ \A u \in Threads : pc'[u] # "idle" => pc[u] # "idle"
          /\ UNCHANGED <<turn, sid, obj, next, raced, owner, kept>>
      BY <3>2
    <3>6. QED
      BY <3>3, <3>4, <3>5
  <2>2. CASE Record(t)
    <3>1. \/ /\ RecordCost(sid[t], due[t])
             /\ pc' = [pc EXCEPT ![t] = "save"]
             /\ due' = [due EXCEPT ![t] = 0] /\ raced' = raced
          \/ /\ pc' = [pc EXCEPT ![t] = "fresh"]
             /\ raced' \in {raced, raced \cup {sid[t]}}
             /\ UNCHANGED <<known, spent, daily, due>>
      BY <2>2 DEF Record, Recorded
    <3>2. /\ pc[t] = "record" /\ sid[t] \in Sids /\ due[t] \in Nat
          /\ UNCHANGED <<turn, sid, obj, next, billed, owner, kept>>
          /\ UNCHANGED <<table, msgs, stale>>
      BY <2>2 DEF Record, Recorded
    <3>3. LedgerTypeOK' /\ StoreTypeOK(Turns)'
      <4>1. UNCHANGED ledger \/ RecordCost(sid[t], due[t])
        BY <3>1
      <4>2. LedgerTypeOK'
        BY <3>2, <4>1 DEF RecordCost, LedgerTypeOK
      <4>3. StoreTypeOK(Turns)'
        BY <3>2 DEF StoreTypeOK
      <4>4. QED
        BY <4>2, <4>3
    <3>4. /\ pc' \in [Threads -> Labels] /\ due' \in [Threads -> 0..MaxCost]
          /\ raced' \in SUBSET Sids
          /\ \A u \in Threads : pc'[u] # "idle" => pc[u] # "idle"
      BY <3>1, <3>2
    <3>5. UNCHANGED <<turn, sid, obj, next, billed, owner, kept>>
      BY <3>2
    <3>6. QED
      BY <3>3, <3>4, <3>5
  <2>3. QED
    BY <1>10, <2>1, <2>2
<1>11. ASSUME NEW t \in Threads, SaveSession(t) PROVE TypeOK'
  BY <1>11 DEF SaveSession, Save, LedgerTypeOK, StoreTypeOK
<1>12. ASSUME NEW s \in Sids, DeleteSession(s) PROVE TypeOK'
  BY <1>12 DEF DeleteSession, Delete, ForgetDropped, LedgerTypeOK, StoreTypeOK
<1>13. ASSUME NEW o \in Objects, SessionAges(o) PROVE TypeOK'
  BY <1>13 DEF SessionAges, Age, LedgerTypeOK, StoreTypeOK
<1>14. CASE NewDay
  BY <1>14 DEF NewDay, ResetDaily, LedgerTypeOK, StoreTypeOK
<1>15. CASE UNCHANGED vars
  BY <1>15 DEF vars, LedgerTypeOK, StoreTypeOK
<1>16. QED
  BY <1>1, <1>2, <1>3, <1>4, <1>5, <1>6, <1>7, <1>8, <1>9, <1>10, <1>11,
     <1>12, <1>13, <1>14, <1>15
  DEF Next, InvokeStep

\* The runtime's state is well typed in every execution.
THEOREM TypeCorrect == Spec => []TypeOK
<1>1. QED
  BY InitType, TypeStep, PTL DEF Spec

-----------------------------------------------------------------------------
(* How far the budgets are overshot.                                       *)

\* Multiplication by the cost of a request, as the bounds need it.
LEMMA CostTimes ==
  /\ \A k \in Nat : MaxCost * (k + 1) = MaxCost * k + MaxCost
  /\ \A j, k \in Nat : j <= k => MaxCost * j <= MaxCost * k
<1>1. \A k \in Nat : MaxCost * (k + 1) = MaxCost * k + MaxCost
  OBVIOUS
<1>2. ASSUME NEW j \in Nat, NEW k \in Nat, j <= k
      PROVE  MaxCost * j <= MaxCost * k
  <2>1. PICK d \in Nat : k = j + d
    BY <1>2
  <2>2. MaxCost * k = MaxCost * j + MaxCost * d /\ MaxCost * d \in Nat
    BY <2>1
  <2>3. QED
    BY <2>2
<1>3. QED
  BY <1>1, <1>2

\* A set of admitted threads, and what their requests may cost at most.
LEMMA AdmittedFinite ==
  ASSUME NEW A, A \subseteq Threads
  PROVE  /\ IsFiniteSet(A)
         /\ Cardinality(A) \in Nat /\ Cardinality(Threads) \in Nat
         /\ MaxCost * Cardinality(A) \in Nat
         /\ MaxCost * Cardinality(A) <= MaxCost * Cardinality(Threads)
<1>1. /\ IsFiniteSet(A) /\ Cardinality(A) \in Nat
      /\ Cardinality(Threads) \in Nat /\ Cardinality(A) <= Cardinality(Threads)
  BY FS_Subset, FS_CardinalityType
<1>2. QED
  BY <1>1, CostTimes

\* One more thread is admitted while the ledger is still within its budget.
LEMMA Admission ==
  ASSUME NEW A, A \subseteq Threads, NEW t \in Threads \ A,
         NEW sum \in Nat, NEW budget \in Nat, sum + Estimate <= budget
  PROVE  sum + MaxCost * Cardinality(A \cup {t}) <= Overshoot(budget)
<1>1. MaxCost * Cardinality(A \cup {t}) <= MaxCost * Cardinality(Threads)
  BY AdmittedFinite
<1>2. /\ MaxCost * Cardinality(A \cup {t}) \in Nat
      /\ MaxCost * Cardinality(Threads) \in Nat
  BY AdmittedFinite
<1>3. QED
  BY <1>1, <1>2 DEF Overshoot

\* A thread leaves the admitted ones, with a cost or without.
LEMMA Departure ==
  ASSUME NEW A, A \subseteq Threads, NEW t \in A, NEW sum \in Nat,
         NEW budget \in Nat, NEW cost \in 0..MaxCost,
         sum + MaxCost * Cardinality(A) <= Overshoot(budget)
  PROVE  sum + cost + MaxCost * Cardinality(A \ {t}) <= Overshoot(budget)
<1>1. IsFiniteSet(A) /\ A \ {t} \subseteq Threads
  BY AdmittedFinite
<1>2. Cardinality(A) = Cardinality(A \ {t}) + 1
      /\ Cardinality(A \ {t}) \in Nat
  BY <1>1, FS_RemoveElement, AdmittedFinite
<1>3. MaxCost * Cardinality(A) = MaxCost * Cardinality(A \ {t}) + MaxCost
  BY <1>2, CostTimes
<1>4. MaxCost * Cardinality(A \ {t}) \in Nat
  BY <1>1, AdmittedFinite
<1>5. MaxCost * Cardinality(Threads) \in Nat
  BY <1>1, AdmittedFinite
<1>6. QED
  BY <1>3, <1>4, <1>5 DEF Overshoot

\* An empty ledger is within its bound whoever is admitted.
LEMMA EmptyLedger ==
  ASSUME NEW A, A \subseteq Threads, NEW budget \in Nat, Estimate <= budget
  PROVE  0 + MaxCost * Cardinality(A) <= Overshoot(budget)
<1>1. /\ MaxCost * Cardinality(A) <= MaxCost * Cardinality(Threads)
      /\ MaxCost * Cardinality(A) \in Nat
      /\ MaxCost * Cardinality(Threads) \in Nat
  BY AdmittedFinite
<1>2. QED
  BY <1>1 DEF Overshoot

\* A session without a record has spent nothing: check_request may skip it.
NoRecordNoCost == \A s \in Sids : s \notin known => spent[s] = 0

\* A thread that has found no record of its session is as good as admitted to
\* it: check_request will not look at the session's spending again.
Committed(s) ==
    AdmittedTo(s) \cup {t \in Threads : pc[t] = "unknown" /\ sid[t] = s}

CommittedBound ==
    \A s \in Sids :
        spent[s] + MaxCost * Cardinality(Committed(s))
            <= Overshoot(SessionBudget)

\* The bounds are inductive with these two.
Bounds == DailyBound /\ CommittedBound /\ NoRecordNoCost

\* The sets of threads the bounds count.
LEMMA ThreadSets ==
  /\ Admitted \subseteq Threads
  /\ \A s \in Sids : Committed(s) \subseteq Threads
BY DEF Admitted, AdmittedTo, Committed

\* At first nothing is spent and nobody is admitted.
LEMMA InitBounds == Init => Bounds
<1> SUFFICES ASSUME Init PROVE Bounds
  OBVIOUS
<1>1. daily = 0 /\ \A s \in Sids : spent[s] = 0
  BY DEF Init, LedgerInit
<1>2. QED
  BY <1>1, ThreadSets, EmptyLedger DEF DailyBound, CommittedBound,
                                       NoRecordNoCost, Bounds

\* A step that moves no thread in or out of the sets and leaves the ledger
\* alone.
LEMMA QuietStep ==
  ASSUME Bounds, UNCHANGED ledger, Admitted' = Admitted,
         \A s \in Sids : Committed(s)' = Committed(s)
  PROVE  Bounds'
BY DEF Bounds, DailyBound, CommittedBound, NoRecordNoCost, Overshoot, ledger

\* When no thread is at the statement between the checks, or enters the part
\* of invoke that is counted, or leaves it, both sets stay as they are.
LEMMA SameSets ==
  ASSUME NEW t \in Threads, pc \in [Threads -> Labels],
         sid \in [Threads -> Sids],
         \E label \in Labels : pc' = [pc EXCEPT ![t] = label],
         \/ UNCHANGED sid
         \/ pc[t] = "idle" /\ \E s \in Sids : sid' = [sid EXCEPT ![t] = s],
         \/ /\ pc[t] \in {"user", "agent", "bill", "record", "fresh"}
            /\ pc'[t] \in {"user", "agent", "bill", "record", "fresh"}
         \/ /\ pc[t] \in {"idle", "create", "cleanup", "check", "save"}
            /\ pc'[t] \in {"idle", "create", "cleanup", "check", "save"}
  PROVE  Admitted' = Admitted /\ \A s \in Sids : Committed(s)' = Committed(s)
<1>1. \A u \in Threads \ {t} : pc'[u] = pc[u] /\ sid'[u] = sid[u]
  OBVIOUS
<1>2. \/ UNCHANGED sid
      \/ pc[t] \notin {"user", "agent", "bill", "record", "fresh",
                        "unknown"}
  OBVIOUS
<1>3. Admitted' = Admitted
  BY <1>1 DEF Admitted
<1>4. ASSUME NEW s \in Sids PROVE Committed(s)' = Committed(s)
  BY <1>1, <1>2 DEF Committed, AdmittedTo, Admitted
<1>5. QED
  BY <1>3, <1>4

\* A thread commits itself to a session whose spending leaves room for it.
LEMMA CommitStep ==
  ASSUME TypeOK, Bounds, NEW t \in Threads,
         UNCHANGED <<spent, sid>>,
         Committed(sid[t])' = Committed(sid[t]) \cup {t},
         t \notin Committed(sid[t]),
         \A s \in Sids \ {sid[t]} : Committed(s)' = Committed(s),
         spent[sid[t]] + Estimate <= SessionBudget
  PROVE  CommittedBound'
<1>1. sid[t] \in Sids /\ spent[sid[t]] \in Nat
  BY DEF TypeOK, LedgerTypeOK
<1>2. spent[sid[t]] + MaxCost * Cardinality(Committed(sid[t]) \cup {t})
        <= Overshoot(SessionBudget)
  BY <1>1, ThreadSets, Admission
<1>3. QED
  BY <1>2 DEF Bounds, CommittedBound, Overshoot

\* A thread is admitted on a reading of the day's spending.
LEMMA AdmitToday ==
  ASSUME TypeOK, Bounds, NEW t \in Threads, UNCHANGED daily,
         t \notin Admitted, Admitted' = Admitted \cup {t}, AllowedToday
  PROVE  DailyBound'
<1>1. daily \in Nat /\ daily + Estimate <= DailyBudget
  BY DEF TypeOK, LedgerTypeOK, AllowedToday
<1>2. daily + MaxCost * Cardinality(Admitted \cup {t}) <= Overshoot(DailyBudget)
  BY <1>1, ThreadSets, Admission
<1>3. QED
  BY <1>2 DEF DailyBound, Overshoot

\* A thread leaves those committed to its session, which is charged at most
\* one request's cost.
LEMMA LeaveSession ==
  ASSUME TypeOK, Bounds, NEW t \in Threads, NEW cost \in 0..MaxCost,
         UNCHANGED sid,
         t \in Committed(sid[t]), Committed(sid[t])' = Committed(sid[t]) \ {t},
         \A s \in Sids \ {sid[t]} : Committed(s)' = Committed(s),
         NEW charged \in 0..(spent[sid[t]] + cost),
         spent' = [spent EXCEPT ![sid[t]] = charged]
  PROVE  CommittedBound'
<1>1. /\ sid[t] \in Sids /\ spent[sid[t]] \in Nat
      /\ spent \in [Sids -> Nat]
  BY DEF TypeOK, LedgerTypeOK
<1>2. spent[sid[t]] + MaxCost * Cardinality(Committed(sid[t]))
        <= Overshoot(SessionBudget)
  BY <1>1 DEF Bounds, CommittedBound
<1>3. spent[sid[t]] + cost + MaxCost * Cardinality(Committed(sid[t]) \ {t})
        <= Overshoot(SessionBudget)
  BY <1>1, <1>2, ThreadSets, Departure
<1>4. /\ MaxCost * Cardinality(Committed(sid[t]) \ {t}) \in Nat
      /\ MaxCost * Cardinality(Threads) \in Nat
  <2>1. Committed(sid[t]) \ {t} \subseteq Threads
    BY <1>1, ThreadSets
  <2>2. QED
    BY <2>1, AdmittedFinite
<1>5. charged + MaxCost * Cardinality(Committed(sid[t]) \ {t})
        <= Overshoot(SessionBudget)
  BY <1>1, <1>3, <1>4 DEF Overshoot
<1>6. QED
  BY <1>1, <1>5 DEF Bounds, CommittedBound, Overshoot

\* A thread leaves the admitted ones, with a cost or without.
LEMMA LeaveToday ==
  ASSUME TypeOK, Bounds, NEW t \in Admitted, NEW cost \in 0..MaxCost,
         Admitted' = Admitted \ {t}, daily' = daily + cost
  PROVE  DailyBound'
<1>1. SUFFICES ASSUME Estimate <= DailyBudget
               PROVE  daily + cost + MaxCost * Cardinality(Admitted \ {t})
                        <= Overshoot(DailyBudget)
  BY DEF DailyBound, Overshoot
<1>2. daily + MaxCost * Cardinality(Admitted) <= Overshoot(DailyBudget)
  BY <1>1 DEF Bounds, DailyBound
<1>3. daily \in Nat
  BY DEF TypeOK, LedgerTypeOK
<1>4. QED
  BY <1>2, <1>3, ThreadSets, Departure

\* A new day starts with nothing spent.
LEMMA ResetStep ==
  ASSUME Bounds, daily' = 0, Admitted' = Admitted,
         \A s \in Sids : Committed(s)' = Committed(s),
         UNCHANGED <<known, spent>>
  PROVE  Bounds'
<1>1. DailyBound'
  BY ThreadSets, EmptyLedger DEF DailyBound, Overshoot
<1>2. CommittedBound' /\ NoRecordNoCost'
  BY DEF Bounds, CommittedBound, NoRecordNoCost, Overshoot
<1>3. QED
  BY <1>1, <1>2 DEF Bounds

-----------------------------------------------------------------------------
(* The steps that change the ledger or the sets.                           *)

\* The check admits the thread, denies it, or finds no record and is
\* interrupted.
LEMMA CheckCostBounds ==
  ASSUME TypeOK, Bounds, NEW t \in Threads, CheckCost(t)
  PROVE  Bounds'
<1>0. /\ pc \in [Threads -> Labels] /\ sid \in [Threads -> Sids]
      /\ pc[t] = "check" /\ UNCHANGED <<known, spent, daily, sid>>
      /\ spent[sid[t]] \in Nat
  BY DEF CheckCost, Goto, Return, TypeOK, LedgerTypeOK, ledger
<1>1. t \notin Admitted /\ \A s \in Sids : t \notin Committed(s)
  BY <1>0 DEF Admitted, AdmittedTo, Committed
<1>2. CASE ~orderly /\ sid[t] \notin known
  <2>1. pc' = [pc EXCEPT ![t] = "unknown"]
    BY <1>2 DEF CheckCost, Goto
  <2>2. /\ Admitted' = Admitted
        /\ Committed(sid[t])' = Committed(sid[t]) \cup {t}
        /\ \A s \in Sids \ {sid[t]} : Committed(s)' = Committed(s)
    BY <1>0, <2>1 DEF Admitted, AdmittedTo, Committed
  <2>3. spent[sid[t]] + Estimate <= SessionBudget
    BY <1>0, <1>2 DEF Bounds, NoRecordNoCost
  <2>4. CommittedBound'
    BY <1>0, <1>1, <2>2, <2>3, CommitStep
  <2>5. QED
    BY <1>0, <2>2, <2>4 DEF Bounds, DailyBound, NoRecordNoCost, Overshoot
<1>3. CASE ~(~orderly /\ sid[t] \notin known) /\ pc' = [pc EXCEPT ![t] = "user"]
           /\ Allowed(sid[t])
  <2>1. /\ Admitted' = Admitted \cup {t}
        /\ Committed(sid[t])' = Committed(sid[t]) \cup {t}
        /\ \A s \in Sids \ {sid[t]} : Committed(s)' = Committed(s)
    BY <1>0, <1>3 DEF Admitted, AdmittedTo, Committed
  <2>2. spent[sid[t]] + Estimate <= SessionBudget
    BY <1>0, <1>3 DEF Allowed, Bounds, NoRecordNoCost
  <2>3. CommittedBound'
    BY <1>0, <1>1, <2>1, <2>2, CommitStep
  <2>4. DailyBound'
    BY <1>0, <1>1, <1>3, <2>1, AdmitToday DEF Allowed
  <2>5. QED
    BY <1>0, <2>3, <2>4 DEF Bounds, NoRecordNoCost
<1>4. CASE pc' = [pc EXCEPT ![t] = "idle"]
  <2>1. Admitted' = Admitted /\ \A s \in Sids : Committed(s)' = Committed(s)
    BY <1>0, <1>4, SameSets DEF Labels
  <2>2. QED
    BY <1>0, <2>1, QuietStep DEF ledger
<1>5. QED
  BY <1>2, <1>3, <1>4 DEF CheckCost, Goto, Return

\* Without a record, the thread is admitted on the day's spending alone.
LEMMA CheckUnknownBounds ==
  ASSUME TypeOK, Bounds, NEW t \in Threads, CheckUnknown(t)
  PROVE  Bounds'
<1>0. /\ pc \in [Threads -> Labels] /\ sid \in [Threads -> Sids]
      /\ pc[t] = "unknown" /\ UNCHANGED <<known, spent, daily, sid>>
      /\ spent \in [Sids -> Nat]
  BY DEF CheckUnknown, Goto, Return, TypeOK, LedgerTypeOK, ledger
<1>1. t \notin Admitted /\ t \in Committed(sid[t])
  BY <1>0 DEF Admitted, AdmittedTo, Committed
<1>2. NoRecordNoCost'
  BY <1>0 DEF Bounds, NoRecordNoCost
<1>3. CASE AllowedToday /\ pc' = [pc EXCEPT ![t] = "user"]
  <2>1. /\ Admitted' = Admitted \cup {t}
        /\ \A s \in Sids : Committed(s)' = Committed(s)
    BY <1>0, <1>3 DEF Admitted, AdmittedTo, Committed
  <2>2. DailyBound'
    BY <1>0, <1>1, <1>3, <2>1, AdmitToday
  <2>3. CommittedBound'
    BY <1>0, <2>1 DEF Bounds, CommittedBound, Overshoot
  <2>4. QED
    BY <1>2, <2>2, <2>3 DEF Bounds
<1>4. CASE pc' = [pc EXCEPT ![t] = "idle"]
  <2>1. /\ Admitted' = Admitted
        /\ Committed(sid[t])' = Committed(sid[t]) \ {t}
        /\ \A s \in Sids \ {sid[t]} : Committed(s)' = Committed(s)
    BY <1>0, <1>4 DEF Admitted, AdmittedTo, Committed
  <2>2. /\ spent' = [spent EXCEPT ![sid[t]] = spent[sid[t]]]
        /\ spent[sid[t]] \in 0..(spent[sid[t]] + 0)
        /\ 0 \in 0..MaxCost
    BY <1>0
  <2>3. CommittedBound'
    BY <1>0, <1>1, <2>1, <2>2, LeaveSession, Zenon
  <2>4. QED
    BY <1>0, <1>2, <2>1, <2>3 DEF Bounds, DailyBound, Overshoot
<1>5. QED
  BY <1>3, <1>4 DEF CheckUnknown, Goto, Return

\* The agent function raises: the thread leaves without a cost.
LEMMA AgentFailsBounds ==
  ASSUME TypeOK, Bounds, NEW t \in Threads, AgentFails(t)
  PROVE  Bounds'
<1>0. /\ pc \in [Threads -> Labels] /\ sid \in [Threads -> Sids]
      /\ pc[t] = "agent" /\ pc' = [pc EXCEPT ![t] = "idle"]
      /\ UNCHANGED <<known, spent, daily, sid>>
      /\ spent \in [Sids -> Nat] /\ daily \in Nat
  BY DEF AgentFails, Return, TypeOK, LedgerTypeOK, ledger
<1>1. /\ t \in Admitted /\ Admitted' = Admitted \ {t}
      /\ t \in Committed(sid[t])
      /\ Committed(sid[t])' = Committed(sid[t]) \ {t}
      /\ \A s \in Sids \ {sid[t]} : Committed(s)' = Committed(s)
  BY <1>0 DEF Admitted, AdmittedTo, Committed
<1>2. /\ spent' = [spent EXCEPT ![sid[t]] = spent[sid[t]]]
      /\ spent[sid[t]] \in 0..(spent[sid[t]] + 0)
      /\ 0 \in 0..MaxCost /\ daily' = daily + 0
  BY <1>0
<1>3. CommittedBound'
  BY <1>0, <1>1, <1>2, LeaveSession, Zenon
<1>4. DailyBound'
  BY <1>1, <1>2, LeaveToday, Zenon
<1>5. QED
  BY <1>0, <1>3, <1>4 DEF Bounds, NoRecordNoCost

\* The cost of t's request enters the ledger: added to the session's record,
\* or in the place of it.
LEMMA ChargeBounds ==
  ASSUME TypeOK, Bounds, NEW t \in Threads, pc[t] \in {"record", "fresh"},
         pc' = [pc EXCEPT ![t] = "save"], UNCHANGED sid,
         NEW cost \in 0..MaxCost,
         RecordCost(sid[t], cost) \/ RecordFresh(sid[t], cost)
  PROVE  Bounds'
<1>0. /\ pc \in [Threads -> Labels] /\ sid \in [Threads -> Sids]
      /\ spent \in [Sids -> Nat] /\ daily \in Nat
      /\ spent[sid[t]] \in Nat
  BY DEF TypeOK, LedgerTypeOK
<1>1. /\ t \in Admitted /\ Admitted' = Admitted \ {t}
      /\ t \in Committed(sid[t])
      /\ Committed(sid[t])' = Committed(sid[t]) \ {t}
      /\ \A s \in Sids \ {sid[t]} : Committed(s)' = Committed(s)
  BY <1>0 DEF Admitted, AdmittedTo, Committed
<1>2. daily' = daily + cost /\ known' = known \cup {sid[t]}
  BY DEF RecordCost, RecordFresh
<1>3. PICK charged \in 0..(spent[sid[t]] + cost) :
        spent' = [spent EXCEPT ![sid[t]] = charged]
  <2>1. spent[sid[t]] + cost \in 0..(spent[sid[t]] + cost)
        /\ cost \in 0..(spent[sid[t]] + cost)
    BY <1>0
  <2>2. QED
    BY <2>1 DEF RecordCost, RecordFresh
<1>4. CommittedBound'
  BY <1>1, <1>3, LeaveSession
<1>5. DailyBound'
  BY <1>1, <1>2, LeaveToday
<1>6. NoRecordNoCost'
  BY <1>0, <1>2, <1>3 DEF Bounds, NoRecordNoCost
<1>7. QED
  BY <1>4, <1>5, <1>6 DEF Bounds

\* The cost is recorded, or kept until a new record is made.
LEMMA RecordBounds ==
  ASSUME TypeOK, Bounds, NEW t \in Threads, Record(t) \/ RecordNew(t)
  PROVE  Bounds'
<1>0. /\ pc \in [Threads -> Labels] /\ sid \in [Threads -> Sids]
      /\ due[t] \in 0..MaxCost /\ UNCHANGED sid
  BY DEF TypeOK, Record, RecordNew, Recorded
<1>1. \/ /\ pc[t] \in {"record", "fresh"} /\ pc' = [pc EXCEPT ![t] = "save"]
         /\ RecordCost(sid[t], due[t]) \/ RecordFresh(sid[t], due[t])
      \/ /\ pc[t] = "record" /\ pc' = [pc EXCEPT ![t] = "fresh"]
         /\ UNCHANGED ledger
  BY DEF Record, RecordNew, Recorded
<1>2. CASE pc' = [pc EXCEPT ![t] = "save"]
  BY <1>0, <1>1, <1>2, ChargeBounds
<1>3. CASE pc[t] = "record" /\ pc' = [pc EXCEPT ![t] = "fresh"]
           /\ UNCHANGED ledger
  <2>1. Admitted' = Admitted /\ \A s \in Sids : Committed(s)' = Committed(s)
    BY <1>0, <1>3, SameSets DEF Labels
  <2>2. QED
    BY <1>3, <2>1, QuietStep
<1>4. QED
  BY <1>1, <1>2, <1>3

\* Every step of invoke and of its surroundings keeps the bounds.
LEMMA BoundsStep == TypeOK /\ Bounds /\ [Next]_vars => Bounds'
<1> SUFFICES ASSUME TypeOK, Bounds, [Next]_vars PROVE Bounds'
  OBVIOUS
<1>0. pc \in [Threads -> Labels] /\ sid \in [Threads -> Sids]
  BY DEF TypeOK
<1>1. ASSUME NEW t \in Threads, Load(t) PROVE Bounds'
  <2>1. \E s \in Sids : sid' = [sid EXCEPT ![t] = s]
    BY <1>1 DEF Load
  <2>2. \E label \in {"check", "create"} : pc' = [pc EXCEPT ![t] = label]
    BY <1>1 DEF Load
  <2>3. Admitted' = Admitted /\ \A x \in Sids : Committed(x)' = Committed(x)
    BY <1>0, <1>1, <2>1, <2>2, SameSets DEF Load, Labels
  <2>4. QED
    BY <1>1, <2>3, QuietStep DEF Load
<1>2. ASSUME NEW t \in Threads,
             \/ Create(t) \/ CleanUp(t) \/ AddUser(t) \/ SaveSession(t)
             \/ AddAssistant(t) \/ Bill(t)
      PROVE  Bounds'
  <2>1. UNCHANGED <<ledger, sid>>
    BY <1>2 DEF Create, CleanUp, AddUser, SaveSession, AddAssistant, Bill,
                Goto, Return
  <2>2. /\ \E label \in Labels : pc' = [pc EXCEPT ![t] = label]
        /\ \/ /\ pc[t] \in {"user", "agent", "bill", "record", "fresh"}
              /\ pc'[t] \in {"user", "agent", "bill", "record", "fresh"}
           \/ /\ pc[t] \in {"idle", "create", "cleanup", "check", "save"}
              /\ pc'[t] \in {"idle", "create", "cleanup", "check", "save"}
    BY <1>0, <1>2 DEF Create, CleanUp, AddUser, SaveSession, AddAssistant,
                      Bill, Goto, Return, Labels
  <2>3. Admitted' = Admitted /\ \A s \in Sids : Committed(s)' = Committed(s)
    BY <1>0, <2>1, <2>2, SameSets
  <2>4. QED
    BY <2>1, <2>3, QuietStep
<1>3. ASSUME NEW s \in Sids, DeleteSession(s) PROVE Bounds'
  BY <1>3, QuietStep DEF DeleteSession, thread, Admitted, AdmittedTo, Committed
<1>4. ASSUME NEW o \in Objects, SessionAges(o) PROVE Bounds'
  BY <1>4, QuietStep DEF SessionAges, thread, Admitted, AdmittedTo, Committed
<1>5. CASE NewDay
  BY <1>5, ResetStep DEF NewDay, ResetDaily, thread, Admitted, AdmittedTo,
                         Committed
<1>6. CASE UNCHANGED vars
  BY <1>6, QuietStep DEF vars, thread, Admitted, AdmittedTo, Committed
<1>7. QED
  BY <1>1, <1>2, <1>3, <1>4, <1>5, <1>6, CheckCostBounds,
     CheckUnknownBounds, AgentFailsBounds, RecordBounds
  DEF Next, InvokeStep

\* However many threads invoke the agent, and wherever they are interrupted,
\* the day's spending passes the daily budget by at most one request's cost
\* per thread, less the estimate.
THEOREM DailyBoundCorrect == Spec => []DailyBound
<1>1. TypeOK /\ Bounds => DailyBound
  BY DEF Bounds
<1>2. QED
  BY <1>1, InitType, TypeStep, InitBounds, BoundsStep, PTL DEF Spec

\* The same for each session and max_cost_per_session, although a session
\* without a record is not compared with its budget.
THEOREM SessionBoundCorrect == Spec => []SessionBound
<1>1. TypeOK /\ Bounds => SessionBound
  <2> SUFFICES ASSUME TypeOK, Bounds, NEW s \in Sids
               PROVE  spent[s] + MaxCost * Cardinality(AdmittedTo(s))
                        <= Overshoot(SessionBudget)
    BY DEF SessionBound
  <2>1. /\ AdmittedTo(s) \subseteq Committed(s) /\ IsFiniteSet(Committed(s))
        /\ Cardinality(AdmittedTo(s)) <= Cardinality(Committed(s))
    BY ThreadSets, AdmittedFinite, FS_Subset DEF Committed
  <2>2. /\ AdmittedTo(s) \subseteq Threads /\ Committed(s) \subseteq Threads
        /\ Cardinality(AdmittedTo(s)) \in Nat /\ Cardinality(Committed(s)) \in Nat
        /\ MaxCost * Cardinality(AdmittedTo(s)) \in Nat
        /\ MaxCost * Cardinality(Committed(s)) \in Nat
        /\ MaxCost * Cardinality(Threads) \in Nat
    BY <2>1, ThreadSets, AdmittedFinite
  <2>3. MaxCost * Cardinality(AdmittedTo(s)) <= MaxCost * Cardinality(Committed(s))
    BY <2>1, <2>2, CostTimes
  <2>4. spent[s] \in Nat
    BY DEF TypeOK, LedgerTypeOK
  <2>5. spent[s] + MaxCost * Cardinality(Committed(s)) <= Overshoot(SessionBudget)
    BY DEF Bounds, CommittedBound
  <2>6. QED
    BY <2>2, <2>3, <2>4, <2>5 DEF Overshoot
<1>2. QED
  BY <1>1, InitType, TypeStep, InitBounds, BoundsStep, PTL DEF Spec

-----------------------------------------------------------------------------
(* Orderly behaviours: calls run whole, only idle sessions expire or go.   *)

Whole == \A t \in Threads :
            pc[t] \in {"idle", "check", "user", "agent", "bill", "record",
                       "save"}

\* An invocation holds the object the table holds for its session, and has
\* kept it from growing stale.
Held == \A t \in Threads :
            pc[t] # "idle" => table[sid[t]] = obj[t] /\ obj[t] \notin stale

\* The reply is in the session before the invocation saves it.
Replied == \A t \in Threads :
            pc[t] \in {"bill", "record", "save"} => turn[t] \in Replies(obj[t])

\* An object in the table was made by an earlier invocation, for its session.
Owned == \A s \in Sids :
            table[s] # NoObject => table[s] < next /\ owner[table[s]] = s

Emptied == \A s \in Sids : table[s] = NoObject => kept[s] = {}

Unlost == \A s \in Sids :
            table[s] # NoObject => kept[s] \subseteq Replies(table[s])

\* The inductive invariant of orderly behaviours.
Tidy == orderly => Whole /\ Held /\ Replied /\ Owned /\ Emptied /\ Unlost

\* Messages are only added: a reply in an object stays there, and the reply
\* just added is there.
LEMMA RepliesGrow ==
  ASSUME TypeOK, NEW o \in Objects, NEW role \in Roles, NEW n \in Turns,
         AddMessage(o, role, n)
  PROVE  /\ \A x \in Objects : Replies(x) \subseteq Replies(x)'
         /\ role = "assistant" => n \in Replies(o)'
<1> DEFINE Messages == [role : Roles, turn : Turns]
           m == [role |-> role, turn |-> n]
<1>1. m \in Messages /\ m.role = role /\ m.turn = n
  OBVIOUS
<1> HIDE DEF Messages, m
<1>2. msgs \in [Objects -> Seq(Messages)]
  BY DEF TypeOK, StoreTypeOK, Messages
<1>3. msgs' = [msgs EXCEPT ![o] = Append(msgs[o], m)]
  BY DEF AddMessage, m
<1> DEFINE old == msgs[o]
           new == Append(old, m)
<1>4. /\ old \in Seq(Messages) /\ new \in Seq(Messages)
      /\ DOMAIN old \subseteq DOMAIN new
      /\ \A k \in DOMAIN old : new[k] = old[k]
      /\ Len(old) + 1 \in DOMAIN new /\ new[Len(old) + 1] = m
  BY <1>1, <1>2
<1>5. msgs[o] = old /\ msgs'[o] = new
  BY <1>2, <1>3
<1> HIDE DEF old, new
<1>6. ASSUME NEW x \in Objects, x # o PROVE Replies(x)' = Replies(x)
  <2>1. msgs'[x] = msgs[x]
    BY <1>2, <1>3, <1>6
  <2>2. QED
    BY <2>1 DEF Replies
<1>7. Replies(o) \subseteq Replies(o)'
  BY <1>4, <1>5 DEF Replies
<1>8. role = "assistant" => n \in Replies(o)'
  <2> SUFFICES ASSUME role = "assistant" PROVE n \in Replies(o)'
    OBVIOUS
  <2>1. Len(old) + 1 \in {j \in DOMAIN msgs'[o] : msgs'[o][j].role = "assistant"}
    BY <1>1, <1>4, <1>5
  <2>2. msgs'[o][Len(old) + 1].turn = n
    BY <1>1, <1>4, <1>5
  <2>3. QED
    BY <2>1, <2>2 DEF Replies
<1>9. QED
  BY <1>6, <1>7, <1>8

\* Nothing is in the table, nobody is at work and nothing is kept.
LEMMA InitTidy == Init => Tidy
BY DEF Init, StoreInit, Tidy, Whole, Held, Replied, Owned, Emptied, Unlost

\* What is known of a thread and of the table.
LEMMA TidyTypes ==
  ASSUME TypeOK
  PROVE  /\ table \in [Sids -> Objects \cup {NoObject}]
         /\ pc \in [Threads -> Labels] /\ sid \in [Threads -> Sids]
         /\ obj \in [Threads -> Objects \cup {NoObject}]
         /\ turn \in [Threads -> Turns \cup {NoTurn}]
         /\ owner \in [Objects -> Sids] /\ kept \in [Sids -> SUBSET Turns]
         /\ next \in 1..(MaxTurns + 1)
         /\ \A t \in Threads : pc[t] # "idle" => turn[t] \in Turns
                                                 /\ obj[t] \in Objects
BY DEF TypeOK, StoreTypeOK

\* A step that leaves the table and the replies alone and moves one thread at
\* most to a statement it may go to.
LEMMA TidyQuiet ==
  ASSUME TypeOK, orderly, Tidy, UNCHANGED <<orderly, table, next, owner, kept>>,
         stale' \subseteq stale,
         \A o \in Objects : Replies(o) \subseteq Replies(o)',
         \A t \in Threads :
            \/ UNCHANGED <<pc[t], sid[t], obj[t], turn[t]>>
            \/ pc'[t] = "idle"
            \/ /\ pc[t] # "idle" /\ UNCHANGED <<sid[t], obj[t], turn[t]>>
               /\ pc'[t] \in {"user", "agent", "bill", "record", "save"}
               /\ pc'[t] = "bill" => turn[t] \in Replies(obj[t])'
               /\ pc'[t] \in {"record", "save"} => pc[t] \in {"bill", "record"}
  PROVE  Tidy'
<1> USE TidyTypes
<1>1. Whole' /\ Held' /\ Owned' /\ Emptied'
  BY DEF Tidy, Whole, Held, Owned, Emptied
<1>2. Replied'
  <2> SUFFICES ASSUME NEW t \in Threads, pc'[t] \in {"bill", "record", "save"}
               PROVE  turn'[t] \in Replies(obj[t])'
    BY DEF Replied
  <2>1. obj'[t] = obj[t] /\ obj[t] \in Objects /\ turn'[t] = turn[t]
    OBVIOUS
  <2>2. PICK o \in Objects : o = obj[t]
    BY <2>1
  <2>3. turn[t] \in Replies(o) \/ turn[t] \in Replies(o)'
    BY <2>2 DEF Tidy, Replied
  <2>4. QED
    BY <2>1, <2>2, <2>3
<1>3. Unlost'
  <2> SUFFICES ASSUME NEW s \in Sids, table'[s] # NoObject
               PROVE  kept'[s] \subseteq Replies(table[s])'
    BY DEF Unlost
  <2>1. PICK o \in Objects : o = table[s]
    OBVIOUS
  <2>2. kept[s] \subseteq Replies(o)
    BY <2>1 DEF Tidy, Unlost
  <2>3. QED
    BY <2>1, <2>2
<1>4. QED
  BY <1>1, <1>2, <1>3 DEF Tidy

\* A step of the table brings an id into it only for the invocation that
\* asks for it.
Revival == \A s \in Sids :
              table[s] = NoObject /\ table'[s] # NoObject
                => \E t \in Threads : pc[t] = "idle" /\ pc'[t] = "check"
                                      /\ sid'[t] = s

\* get_or_create finds the session or makes it; the clean-up that follows
\* spares every session an invocation uses.
LEMMA LoadTidy ==
  ASSUME TypeOK, orderly, Tidy, orderly' = orderly, NEW t \in Threads, Load(t)
  PROVE  Tidy' /\ Revival
<1> USE TidyTypes
<1>0. next \in Objects /\ next' = next + 1 /\ next \in Nat
  BY DEF Load, Turns
<1>1. PICK s \in Sids :
        /\ GetOrCreate(s, next)
        /\ pc' = [pc EXCEPT ![t] = "check"]
        /\ sid' = [sid EXCEPT ![t] = s]
        /\ obj' = [obj EXCEPT ![t] = Holder(s, next)]
        /\ owner' = [owner EXCEPT ![Holder(s, next)] = s]
  BY DEF Load
<1>2. turn' = [turn EXCEPT ![t] = next] /\ ForgetDropped
  BY DEF Load
<1>3. /\ pc[t] = "idle" /\ pc'[t] = "check" /\ sid'[t] = s
      /\ \A u \in Threads : u # t => UNCHANGED <<pc[u], sid[u], obj[u], turn[u]>>
  BY <1>1, <1>2 DEF Load
<1>4. CASE table[s] # NoObject
  <2>1. /\ Holder(s, next) = table[s] /\ table' = table /\ msgs' = msgs
        /\ stale' = stale \ {table[s]}
    BY <1>1, <1>4 DEF GetOrCreate, GetExisting, CreateSession, Holder
  <2>2. owner' = owner
    BY <1>1, <1>4, <2>1 DEF Tidy, Owned
  <2>3. kept' = kept
    BY <1>2, <2>1 DEF ForgetDropped, Tidy, Emptied
  <2>4. obj'[t] = table[s] /\ obj'[t] \notin stale'
    BY <1>1, <2>1
  <2>5. Whole' /\ Held' /\ Owned' /\ Emptied'
    <3>1. Whole' /\ Held'
      BY <1>3, <2>1, <2>4 DEF Tidy, Whole, Held
    <3>2. Owned' /\ Emptied'
      <4>1. \A k \in Objects : k < next => k < next'
        BY <1>0 DEF Turns
      <4>2. QED
        BY <2>1, <2>2, <2>3, <4>1 DEF Tidy, Owned, Emptied
    <3>3. QED
      BY <3>1, <3>2
  <2>6. \A x : Replies(x)' = Replies(x)
    BY <2>1 DEF Replies
  <2>7. Replied' /\ Unlost'
    BY <1>3, <2>1, <2>3, <2>6 DEF Tidy, Replied, Unlost
  <2>8. QED
    BY <2>1, <2>5, <2>7 DEF Tidy, Revival
<1>5. CASE table[s] = NoObject
  <2>1. /\ Holder(s, next) = next
        /\ stale' = stale \ {next}
        /\ msgs' = [msgs EXCEPT ![next] = <<>>]
        /\ table' = [x \in Sids |-> IF x = s THEN next
                                    ELSE IF x \in Expired THEN NoObject
                                    ELSE table[x]]
    BY <1>1, <1>5 DEF GetOrCreate, GetExisting, CreateSession, Holder
  <2>2. owner' = [owner EXCEPT ![next] = s] /\ obj'[t] = next
    BY <1>1, <2>1
  <2>3. \A x \in Sids : table'[x] \in {next, NoObject, table[x]}
                        /\ (table'[x] = next <=> x = s)
    BY <1>0, <2>1 DEF Tidy, Owned
  <2>4. \A x \in Sids : kept'[x] = IF table'[x] = NoObject THEN {} ELSE kept[x]
    BY <1>2 DEF ForgetDropped
  <2>5. \A u \in Threads : u # t /\ pc[u] # "idle" =>
            /\ sid[u] # s /\ sid[u] \notin Expired /\ obj[u] < next
            /\ obj[u] \in Objects
    BY <1>5 DEF Tidy, Held, Owned, Expired
  <2>6. \A u \in Threads : u # t /\ pc'[u] # "idle" =>
            table'[sid[u]] = obj[u] /\ obj[u] \notin stale'
    BY <1>3, <2>1, <2>5 DEF Tidy, Held
  <2>7. Whole' /\ Held'
    BY <1>3, <2>1, <2>2, <2>6 DEF Tidy, Whole, Held
  <2>8. Owned' /\ Emptied'
    <3>1. ASSUME NEW x \in Sids, table'[x] # NoObject
          PROVE  table'[x] < next' /\ owner'[table'[x]] = x
      <4>1. CASE x = s
        <5>1. table'[x] = next /\ owner'[next] = s
          BY <1>0, <2>2, <2>3, <4>1
        <5>2. QED
          BY <1>0, <4>1, <5>1
      <4>2. CASE x # s
        <5>1. table'[x] = table[x] /\ table[x] \in Objects
          BY <2>3, <3>1, <4>2
        <5>2. table[x] < next /\ owner[table[x]] = x
          BY <3>1, <5>1 DEF Tidy, Owned
        <5>3. owner'[table[x]] = owner[table[x]] /\ table[x] < next + 1
          BY <1>0, <2>2, <5>1, <5>2 DEF Turns
        <5>4. QED
          BY <1>0, <5>1, <5>2, <5>3
      <4>3. QED
        BY <4>1, <4>2
    <3>2. Owned'
      BY <3>1 DEF Owned
    <3>3. Emptied'
      BY <2>4 DEF Emptied
    <3>4. QED
      BY <3>2, <3>3
  <2>9. \A o \in Objects : o # next => Replies(o)' = Replies(o)
    <3>1. \A o \in Objects : o # next => msgs'[o] = msgs[o]
      BY <2>1 DEF TypeOK, StoreTypeOK
    <3>2. QED
      BY <3>1 DEF Replies
  <2>10. Replied'
    <3> SUFFICES ASSUME NEW u \in Threads, pc'[u] \in {"bill", "record", "save"}
                 PROVE  turn'[u] \in Replies(obj[u])'
      BY DEF Replied
    <3>1. u # t /\ obj'[u] = obj[u] /\ turn'[u] = turn[u] /\ pc'[u] = pc[u]
      BY <1>3
    <3>2. PICK o \in Objects : o = obj[u]
      BY <2>5, <3>1
    <3>3. o # next /\ turn[u] \in Replies(o)
      BY <1>0, <2>5, <3>1, <3>2 DEF Tidy, Replied
    <3>4. QED
      BY <2>9, <3>1, <3>2, <3>3
  <2>11. Unlost'
    <3> SUFFICES ASSUME NEW x \in Sids, table'[x] # NoObject
                 PROVE  kept'[x] \subseteq Replies(table[x])'
      BY DEF Unlost
    <3>1. CASE x = s
      BY <1>5, <2>4, <3>1 DEF Tidy, Emptied
    <3>2. CASE x # s
      <4>1. table'[x] = table[x] /\ table[x] \in Objects /\ table[x] # next
        BY <2>3, <3>2
      <4>2. PICK o \in Objects : o = table[x]
        BY <4>1
      <4>3. kept[x] \subseteq Replies(o)
        BY <4>1, <4>2 DEF Tidy, Unlost
      <4>4. QED
        BY <2>4, <2>9, <4>1, <4>2, <4>3
    <3>3. QED
      BY <3>1, <3>2
  <2>12. Revival
    BY <1>3, <1>5, <2>3 DEF Revival
  <2>13. QED
    BY <2>7, <2>8, <2>10, <2>11, <2>12 DEF Tidy
<1>6. QED
  BY <1>4, <1>5

\* An idle session leaves the table: nobody at work notices.
LEMMA DeleteTidy ==
  ASSUME TypeOK, orderly, Tidy, orderly' = orderly, NEW s \in Sids,
         DeleteSession(s)
  PROVE  Tidy' /\ Revival
<1> USE TidyTypes
<1>1. /\ table' = [table EXCEPT ![s] = NoObject]
      /\ UNCHANGED <<msgs, stale, pc, sid, obj, turn, next, owner>>
      /\ table[s] # NoObject /\ table[s] \notin InUse
  BY DEF DeleteSession, Delete, thread
<1>2. \A t \in Threads : pc[t] # "idle" => sid[t] # s
  BY <1>1 DEF InUse, Tidy, Held
<1>3. \A x \in Sids : kept'[x] = IF table'[x] = NoObject THEN {} ELSE kept[x]
  BY DEF DeleteSession, ForgetDropped
<1>4. Whole' /\ Held' /\ Owned' /\ Emptied'
  BY <1>1, <1>2, <1>3 DEF Tidy, Whole, Held, Owned, Emptied
<1>5. \A x : Replies(x)' = Replies(x)
  BY <1>1 DEF Replies
<1>6. Replied' /\ Unlost'
  BY <1>1, <1>3, <1>5 DEF Tidy, Replied, Unlost
<1>7. QED
  BY <1>1, <1>4, <1>6 DEF Tidy, Revival

\* Every step of an orderly behaviour keeps it tidy and revives no session.
LEMMA TidyStep == TypeOK /\ Tidy /\ [Next]_vars
                    => Tidy' /\ (orderly => Revival)
<1> SUFFICES ASSUME TypeOK, Tidy, [Next]_vars, orderly PROVE Tidy' /\ Revival
  BY DEF Tidy, Next, vars
<1>0. orderly' = orderly
  BY DEF Next, vars
<1> USE <1>0, TidyTypes
<1>1. (\A s \in Sids : table'[s] = table[s]) => Revival
  BY DEF Revival
<1>2. ASSUME msgs' = msgs PROVE \A o : Replies(o)' = Replies(o)
  BY <1>2 DEF Replies
<1>3. ASSUME NEW t \in Threads, CheckCost(t) \/ AgentFails(t)
      PROVE  Tidy' /\ Revival
  <2>1. UNCHANGED <<table, next, owner, kept, stale, msgs>>
    BY <1>3 DEF CheckCost, AgentFails, Goto, Return, store
  <2>2. /\ pc[t] # "idle"
        /\ \/ pc'[t] = "idle"
           \/ UNCHANGED <<sid, obj, turn>> /\ pc'[t] = "user"
        /\ \A u \in Threads : u # t => UNCHANGED <<pc[u], sid[u], obj[u], turn[u]>>
    BY <1>3 DEF CheckCost, AgentFails, Goto, Return
  <2>3. Tidy'
    BY <1>2, <2>1, <2>2, TidyQuiet
  <2>4. QED
    BY <1>1, <2>1, <2>3
<1>4. ASSUME NEW t \in Threads, AddUser(t) \/ AddAssistant(t)
      PROVE  Tidy' /\ Revival
  <2>1. obj[t] \in Objects /\ turn[t] \in Turns
    BY <1>4 DEF AddUser, AddAssistant
  <2>2. PICK o \in Objects, n \in Turns : o = obj[t] /\ n = turn[t]
    BY <2>1
  <2>3. /\ UNCHANGED <<table, next, owner, kept, sid, obj, turn>>
        /\ stale' \subseteq stale
    BY <1>4 DEF AddUser, AddAssistant, AddMessage, Goto
  <2>4. \A x \in Objects : Replies(x) \subseteq Replies(x)'
    BY <1>4, <2>2, RepliesGrow DEF AddUser, AddAssistant, Roles
  <2>5. AddAssistant(t) => n \in Replies(o)'
    BY <2>2, RepliesGrow DEF AddAssistant, Roles
  <2>6. /\ pc[t] # "idle" /\ pc'[t] \in {"agent", "bill"}
        /\ pc'[t] = "bill" => AddAssistant(t)
        /\ \A u \in Threads : u # t => pc'[u] = pc[u]
    BY <1>4 DEF AddUser, AddAssistant, Goto
  <2>7. pc'[t] = "bill" => turn[t] \in Replies(obj[t])'
    BY <2>2, <2>3, <2>5, <2>6
  <2>8. Tidy'
    BY <2>3, <2>4, <2>6, <2>7, TidyQuiet
  <2>9. QED
    BY <1>1, <2>3, <2>8
<1>5. ASSUME NEW t \in Threads, Bill(t) \/ Record(t) PROVE Tidy' /\ Revival
  <2>1. /\ UNCHANGED <<table, next, owner, kept, stale, msgs, sid, obj, turn>>
        /\ \/ pc[t] = "bill" /\ pc'[t] = "record"
           \/ pc[t] = "record" /\ pc'[t] = "save"
        /\ \A u \in Threads : u # t => pc'[u] = pc[u]
    BY <1>5 DEF Bill, Record, Recorded, store
  <2>2. PICK o \in Objects : o = obj[t]
    BY <2>1
  <2>3. Tidy'
    BY <1>2, <2>1, TidyQuiet
  <2>4. QED
    BY <1>1, <2>1, <2>3
<1>6. ASSUME NEW t \in Threads, SaveSession(t) PROVE Tidy' /\ Revival
  <2>1. pc[t] = "save" /\ obj[t] = table[sid[t]]
    BY <1>6 DEF SaveSession, Tidy, Held
  <2>2. /\ table' = table /\ UNCHANGED <<msgs, stale, sid, next, owner>>
        /\ kept' = [kept EXCEPT ![sid[t]] = kept[sid[t]] \cup {turn[t]}]
        /\ pc'[t] = "idle"
        /\ \A u \in Threads : u # t => UNCHANGED <<pc[u], obj[u], turn[u]>>
    BY <1>6, <2>1 DEF SaveSession, Save, Return
  <2>3. Whole' /\ Held' /\ Owned'
    BY <2>2 DEF Tidy, Whole, Held, Owned
  <2>4. Emptied'
    BY <2>1, <2>2 DEF Tidy, Emptied
  <2>5. \A x : Replies(x)' = Replies(x)
    BY <1>2, <2>2
  <2>6. Replied'
    BY <2>2, <2>5 DEF Tidy, Replied
  <2>7. turn[t] \in Replies(obj[t])
    BY <2>1 DEF Tidy, Replied
  <2>8. Unlost'
    BY <2>1, <2>2, <2>5, <2>7 DEF Tidy, Unlost
  <2>9. QED
    BY <1>1, <2>2, <2>3, <2>4, <2>6, <2>8 DEF Tidy
<1>7. ASSUME NEW t \in Threads,
             Create(t) \/ CleanUp(t) \/ CheckUnknown(t) \/ RecordNew(t)
      PROVE  FALSE
  BY <1>7 DEF Create, CleanUp, CheckUnknown, RecordNew, Tidy, Whole
<1>8. ASSUME NEW o \in Objects, SessionAges(o) PROVE Tidy' /\ Revival
  <2>1. /\ UNCHANGED <<table, msgs, pc, sid, obj, turn, next, owner, kept>>
        /\ stale' = stale \cup {o} /\ o \notin InUse
    BY <1>8 DEF SessionAges, Age, thread
  <2>2. Whole' /\ Held' /\ Owned' /\ Emptied'
    BY <2>1 DEF InUse, Tidy, Whole, Held, Owned, Emptied
  <2>3. \A x : Replies(x)' = Replies(x)
    BY <1>2, <2>1
  <2>4. Replied' /\ Unlost'
    BY <2>1, <2>3 DEF Tidy, Replied, Unlost
  <2>5. QED
    BY <1>1, <2>1, <2>2, <2>4 DEF Tidy
<1>9. CASE NewDay \/ UNCHANGED vars
  <2>1. UNCHANGED <<table, msgs, stale, pc, sid, obj, turn, next, owner, kept>>
    BY <1>9 DEF NewDay, vars, thread, store
  <2>2. Tidy'
    BY <1>2, <2>1, TidyQuiet
  <2>3. QED
    BY <1>1, <2>1, <2>2
<1>10. QED
  BY <1>3, <1>4, <1>5, <1>6, <1>7, <1>8, <1>9, LoadTidy, DeleteTidy
  DEF Next, InvokeStep

LEMMA TidyAlways == Spec => [](TypeOK /\ Tidy)
BY InitType, TypeStep, InitTidy, TidyStep, PTL DEF Spec

\* Where calls run whole and only idle sessions go away, a session in the table
\* holds the reply of every turn saved to it: invocations of one session that
\* run side by side never overwrite each other's turns.
THEOREM NoTurnLost == Spec => []NoLostTurn
<1>1. TypeOK /\ Tidy => NoLostTurn
  BY DEF Tidy, Unlost, NoLostTurn
<1>2. QED
  BY <1>1, TidyAlways, PTL

\* There, too, a deleted or expired session comes back only when an invocation
\* asks for it, never because an old one saves the object it holds.
THEOREM NoneRevived == Spec => RevivedOnlyByRequest
<1>1. TypeOK /\ Tidy /\ [Next]_vars => (orderly => Revival)
  BY TidyStep
<1>2. QED
  BY <1>1, TidyAlways, PTL DEF Spec, RevivedOnlyByRequest, Revival

-----------------------------------------------------------------------------
(* The ledger: sums over the objects, by steps, and the costs under way.   *)

\* Every set of numbers that is not empty has a least one.
LEMMA Least ==
  ASSUME NEW T \in SUBSET Nat, T # {}
  PROVE  \E x \in T : \A y \in T : x <= y
<1> DEFINE R == {ss \in Nat \X Nat : ss[1] < ss[2]}
<1>1. IsWellFoundedOn(R, Nat)
  BY NatLessThanWellFounded DEF OpToRel
<1>2. PICK x \in T : \A y \in T : ~(<<y, x>> \in R)
  BY <1>1, WFMin
<1>3. \A y \in T : y \in Nat /\ x \in Nat
  OBVIOUS
<1>4. ASSUME NEW y \in T PROVE x <= y
  <2>1. ~(<<y, x>> \in R)
    BY <1>2
  <2>2. ~(<<y, x>>[1] < <<y, x>>[2])
    BY <2>1, <1>3
  <2>3. QED
    BY <1>3, <2>2
<1>5. QED
  BY <1>4

\* What holds of 0 and passes from n to n + 1 holds up to N.
LEMMA Upwards ==
  ASSUME NEW N \in Nat, NEW T, 0 \in T,
         \A n \in 0..(N - 1) : n \in T => n + 1 \in T
  PROVE  0..N \subseteq T
<1> SUFFICES ASSUME NEW k \in 0..N, k \notin T PROVE FALSE
  OBVIOUS
<1>1. {n \in 0..N : n \notin T} \in SUBSET Nat
  OBVIOUS
<1>2. PICK x \in {n \in 0..N : n \notin T} :
               \A y \in {n \in 0..N : n \notin T} : x <= y
  BY <1>1, Least
<1>3. x # 0 /\ x - 1 \in 0..(N - 1) /\ x - 1 \in T
  BY <1>2
<1>4. x \in T
  BY <1>3
<1>5. QED
  BY <1>2, <1>4

\* One more bill, and the function that adds the first m up one by one.
AddBill(sums, own, bill, n) == [sums EXCEPT ![own[n]] = @ + bill[n]]

IsReplay(f, own, bill, m) ==
    f = [n \in 0..m |-> IF n = 0 THEN [s \in Sids |-> 0]
                        ELSE AddBill(f[n - 1], own, bill, n)]

\* There is such a function.
LEMMA Replay ==
  ASSUME NEW own, NEW bill
  PROVE  \E f : IsReplay(f, own, bill, MaxTurns)
<1> DEFINE T == {m \in 0..MaxTurns : \E f : IsReplay(f, own, bill, m)}
           zero == [s \in Sids |-> 0]
<1> HIDE DEF zero
<1>1. 0 \in T
  <2> DEFINE f == [n \in 0..0 |-> zero]
  <2>1. \A n \in 0..0 : zero = IF n = 0 THEN zero
                               ELSE AddBill(f[n - 1], own, bill, n)
    OBVIOUS
  <2>2. IsReplay(f, own, bill, 0)
    BY <2>1 DEF IsReplay, zero
  <2> HIDE DEF f
  <2>3. 0 \in 0..MaxTurns
    OBVIOUS
  <2>4. QED
    BY <2>2, <2>3
<1>2. ASSUME NEW m \in 0..(MaxTurns - 1), m \in T PROVE m + 1 \in T
  <2>1. PICK f : IsReplay(f, own, bill, m)
    BY <1>2
  <2> DEFINE g == [n \in 0..(m + 1) |-> IF n <= m THEN f[n]
                                    ELSE AddBill(f[m], own, bill, m + 1)]
  <2>2. \A n \in 0..m : f[n] = IF n = 0 THEN zero
                               ELSE AddBill(f[n - 1], own, bill, n)
    BY <2>1 DEF IsReplay, zero
  <2>3. ASSUME NEW n \in 0..(m + 1)
        PROVE  g[n] = IF n = 0 THEN zero ELSE AddBill(g[n - 1], own, bill, n)
    <3>1. CASE n <= m
      <4>1. g[n] = f[n] /\ (n # 0 => g[n - 1] = f[n - 1])
        BY <3>1
      <4>2. n \in 0..m
        BY <3>1
      <4> HIDE DEF g
      <4>3. QED
        BY <2>2, <4>1, <4>2
    <3>2. CASE n = m + 1
      <4>1. g[n] = AddBill(f[m], own, bill, m + 1) /\ g[n - 1] = f[m] /\ n # 0
        BY <3>2
      <4> HIDE DEF g
      <4>2. QED
        BY <3>2, <4>1
    <3>3. QED
      BY <3>1, <3>2
  <2>4. IsReplay(g, own, bill, m + 1)
    BY <2>3 DEF IsReplay, zero
  <2>5. m + 1 \in 0..MaxTurns
    OBVIOUS
  <2> HIDE DEF g
  <2>6. QED
    BY <2>4, <2>5
<1> HIDE DEF T
<1>3. MaxTurns \in T
  BY <1>1, <1>2, Upwards
<1>4. QED
  BY <1>3 DEF T

\* The bills, added up one by one.
Adds(f, own, bill) ==
    /\ f \in [0..MaxTurns -> [Sids -> Nat]]
    /\ \A s \in Sids : f[0][s] = 0
    /\ \A n \in Turns, s \in Sids :
          f[n][s] = f[n - 1][s] + (IF own[n] = s THEN bill[n] ELSE 0)

LEMMA AddsUp ==
  ASSUME NEW own \in [Turns -> Sids], NEW bill \in [Turns -> Nat],
         NEW f, IsReplay(f, own, bill, MaxTurns)
  PROVE  Adds(f, own, bill)
<1> DEFINE zero == [s \in Sids |-> 0]
<1>0. zero \in [Sids -> Nat] /\ \A s \in Sids : zero[s] = 0
  OBVIOUS
<1> HIDE DEF zero
<1>1. f = [n \in 0..MaxTurns |-> IF n = 0 THEN zero
                                 ELSE AddBill(f[n - 1], own, bill, n)]
  BY DEF IsReplay, zero
<1>2. /\ DOMAIN f = 0..MaxTurns /\ f[0] = zero
      /\ \A n \in Turns : f[n] = AddBill(f[n - 1], own, bill, n)
      /\ f = [n \in 0..MaxTurns |-> f[n]]
  <2>1. \A n \in 0..MaxTurns :
          f[n] = IF n = 0 THEN zero ELSE AddBill(f[n - 1], own, bill, n)
    BY <1>1
  <2>2. DOMAIN f = 0..MaxTurns /\ f = [n \in 0..MaxTurns |-> f[n]]
    BY <1>1
  <2>3. f[0] = zero
    BY <2>1
  <2>4. ASSUME NEW n \in Turns PROVE f[n] = AddBill(f[n - 1], own, bill, n)
    <3>1. n \in 0..MaxTurns /\ n # 0
      BY DEF Turns
    <3>2. QED
      BY <2>1, <3>1
  <2>5. QED
    BY <2>2, <2>3, <2>4
<1> DEFINE T == {n \in 0..MaxTurns : f[n] \in [Sids -> Nat]}
<1>3. 0 \in T
  BY <1>0, <1>2
<1>4. ASSUME NEW x \in [Sids -> Nat], NEW n \in Turns
      PROVE  /\ AddBill(x, own, bill, n) \in [Sids -> Nat]
             /\ \A s \in Sids : AddBill(x, own, bill, n)[s]
                                  = x[s] + (IF own[n] = s THEN bill[n] ELSE 0)
  BY DEF AddBill
<1>5. ASSUME NEW n \in 0..(MaxTurns - 1), n \in T PROVE n + 1 \in T
  <2>1. n + 1 \in Turns /\ n + 1 \in 0..MaxTurns /\ (n + 1) - 1 = n
    BY DEF Turns
  <2>2. f[n + 1] = AddBill(f[n], own, bill, n + 1)
    BY <1>2, <2>1
  <2>3. f[n] \in [Sids -> Nat]
    BY <1>5
  <2>4. QED
    BY <1>4, <2>1, <2>2, <2>3
<1> HIDE DEF T
<1>6. 0..MaxTurns \subseteq T
  BY <1>3, <1>5, Upwards
<1>7. \A n \in 0..MaxTurns : f[n] \in [Sids -> Nat]
  BY <1>6 DEF T
<1>8. f \in [0..MaxTurns -> [Sids -> Nat]]
  BY <1>2, <1>7
<1>9. ASSUME NEW n \in Turns
      PROVE  \A s \in Sids :
               f[n][s] = f[n - 1][s] + (IF own[n] = s THEN bill[n] ELSE 0)
  <2>1. n - 1 \in 0..MaxTurns
    BY DEF Turns
  <2>2. f[n - 1] \in [Sids -> Nat] /\ f[n] = AddBill(f[n - 1], own, bill, n)
    BY <1>2, <1>7, <2>1
  <2>3. QED
    BY <1>4, <2>2
<1>10. QED
  BY <1>0, <1>2, <1>8, <1>9 DEF Adds

\* Two ways to add up that differ in one bill differ by that bill in the end.
LEMMA OneBill ==
  ASSUME NEW own, NEW bill, NEW f, Adds(f, own, bill),
         NEW own2, NEW bill2, NEW g, Adds(g, own2, bill2),
         bill \in [Turns -> Nat], bill2 \in [Turns -> Nat],
         NEW k \in Turns, NEW s \in Sids, NEW d \in Nat,
         \A n \in Turns \ {k} : own2[n] = own[n] /\ bill2[n] = bill[n],
         (IF own2[k] = s THEN bill2[k] ELSE 0)
            = (IF own[k] = s THEN bill[k] ELSE 0) + d
  PROVE  g[MaxTurns][s] = f[MaxTurns][s] + d
<1> DEFINE a(n) == IF own[n] = s THEN bill[n] ELSE 0
           b(n) == IF own2[n] = s THEN bill2[n] ELSE 0
           T == {n \in 0..MaxTurns :
                   g[n][s] = f[n][s] + (IF n < k THEN 0 ELSE d)}
<1>1. /\ \A n \in Turns : a(n) \in Nat /\ b(n) \in Nat
      /\ \A n \in Turns \ {k} : b(n) = a(n)
      /\ b(k) = a(k) + d
  OBVIOUS
<1>2. \A n \in Turns : /\ f[n][s] = f[n - 1][s] + a(n)
                       /\ g[n][s] = g[n - 1][s] + b(n)
  BY DEF Adds
<1> HIDE DEF a, b
<1>3. \A n \in 0..MaxTurns : f[n][s] \in Nat /\ g[n][s] \in Nat
  BY DEF Adds
<1>4. 0 \in T
  BY DEF Adds, Turns
<1>5. ASSUME NEW n \in 0..(MaxTurns - 1), n \in T PROVE n + 1 \in T
  <2>1. n + 1 \in Turns /\ n + 1 \in 0..MaxTurns /\ (n + 1) - 1 = n
        /\ n \in 0..MaxTurns /\ n \in Nat /\ k \in Nat
    BY DEF Turns
  <2>2. PICK x \in Nat : x = f[n][s]
    BY <1>3, <2>1
  <2>3. g[n][s] = x + (IF n < k THEN 0 ELSE d)
    BY <1>5, <2>2
  <2>4. PICK p \in Nat : p = a(n + 1)
    BY <1>1, <2>1
  <2>5. f[n + 1][s] = x + p
    BY <1>2, <2>1, <2>2, <2>4
  <2>6. CASE n + 1 = k
    <3>1. g[n][s] = x /\ b(n + 1) = p + d
      BY <1>1, <2>1, <2>3, <2>4, <2>6
    <3>2. g[n + 1][s] = x + (p + d)
      BY <1>2, <2>1, <3>1
    <3>3. QED
      BY <2>1, <2>5, <2>6, <3>2
  <2>7. CASE n + 1 # k
    <3>1. b(n + 1) = p
      BY <1>1, <2>1, <2>4, <2>7
    <3>2. g[n + 1][s] = (x + (IF n < k THEN 0 ELSE d)) + p
      BY <1>2, <2>1, <2>3, <3>1
    <3>3. n + 1 < k <=> n < k
      BY <2>1, <2>7
    <3>4. QED
      BY <2>1, <2>5, <3>2, <3>3
  <2>8. QED
    BY <2>6, <2>7
<1> HIDE DEF T
<1>6. MaxTurns \in T
  BY <1>4, <1>5, Upwards
<1>7. g[MaxTurns][s] = f[MaxTurns][s] + (IF MaxTurns < k THEN 0 ELSE d)
  BY <1>6 DEF T
<1>8. QED
  BY <1>7 DEF Turns

\* BilledUpTo adds up what the objects were billed, before a step and after.
LEMMA Billing ==
  ASSUME NEW own \in [Turns -> Sids], NEW bill \in [Turns -> Nat],
         NEW f, f = CHOOSE g : IsReplay(g, own, bill, MaxTurns)
  PROVE  Adds(f, own, bill)
BY Replay, AddsUp

LEMMA BilledIsReplay ==
  /\ BilledUpTo = CHOOSE f : IsReplay(f, owner, billed, MaxTurns)
  /\ BilledUpTo' = CHOOSE f : IsReplay(f, owner', billed', MaxTurns)
BY DEF BilledUpTo, IsReplay, AddBill

\* Objects not made yet were billed nothing.
Unbilled == \A o \in Objects : o >= next => billed[o] = 0

\* A thread that is not in record_cost has nothing to record.
Settled == \A t \in Threads : pc[t] \notin {"record", "fresh"} => due[t] = 0

\* Objects in the table or in use are made already, and for their session.
Belongs ==
    /\ \A s \in Sids : table[s] # NoObject =>
          owner[table[s]] = s /\ table[s] < next
    /\ \A t \in Threads : pc[t] # "idle" =>
          owner[obj[t]] = sid[t] /\ obj[t] < next

\* Two threads that make one record are known to be doing so, as is a thread
\* that makes a record in the place of one made in the meantime.
Races ==
    \A t \in Threads : pc[t] = "fresh" =>
        /\ \A u \in Threads \ {t} :
              pc[u] = "fresh" /\ sid[u] = sid[t] => sid[t] \in raced
        /\ sid[t] \in known => sid[t] \in raced

\* The inductive invariant of the ledger.
Balanced == Unbilled /\ Settled /\ Belongs /\ Races /\ LedgerExact

\* The units of cost that threads of T have to record for session s.
Units(T, session, cost, s) ==
    {unit \in T \X (1..MaxCost) :
        session[unit[1]] = s /\ unit[2] <= cost[unit[1]]}

\* Thread t's share of them is what it has to record.
LEMMA Share ==
  ASSUME NEW session \in [Threads -> Sids], NEW cost \in [Threads -> 0..MaxCost],
         NEW t \in Threads, NEW s \in Sids
  PROVE  /\ Cardinality(Units(Threads \ {t}, session, cost, s)) \in Nat
         /\ Cardinality(Units(Threads, session, cost, s))
              = Cardinality(Units(Threads \ {t}, session, cost, s))
                + (IF session[t] = s THEN cost[t] ELSE 0)
<1> DEFINE others == Units(Threads \ {t}, session, cost, s)
           mine == {t} \X (1..cost[t])
<1>1. cost[t] \in 0..MaxCost /\ cost[t] \in Int
  OBVIOUS
<1>2. IsFiniteSet(others) /\ Cardinality(others) \in Nat
  <2>1. IsFiniteSet(Threads \ {t}) /\ IsFiniteSet(1..MaxCost)
    BY FS_Subset, FS_Interval
  <2>2. IsFiniteSet((Threads \ {t}) \X (1..MaxCost))
    BY <2>1, FS_Product
  <2>3. others \in SUBSET ((Threads \ {t}) \X (1..MaxCost))
    BY DEF Units
  <2> HIDE DEF others
  <2>4. QED
    BY <2>2, <2>3, FS_Subset, FS_CardinalityType
<1>3. IsFiniteSet(mine) /\ Cardinality(mine) = cost[t]
  <2>1. /\ IsFiniteSet(1..cost[t])
        /\ Cardinality(1..cost[t]) = IF 1 > cost[t] THEN 0 ELSE cost[t] - 1 + 1
    <3>1. PICK c \in Int : c = cost[t]
      BY <1>1
    <3>2. PICK a \in Int : a = 1
      OBVIOUS
    <3>3. /\ IsFiniteSet(a..c)
          /\ Cardinality(a..c) = IF a > c THEN 0 ELSE c - a + 1
      BY FS_Interval, Zenon
    <3>4. QED
      BY <3>1, <3>2, <3>3
  <2>2. Cardinality(1..cost[t]) = cost[t]
    BY <1>1, <2>1
  <2>3. IsFiniteSet({t}) /\ Cardinality({t}) = 1
    BY FS_Singleton
  <2>4. /\ IsFiniteSet(mine)
        /\ Cardinality(mine) = Cardinality({t}) * Cardinality(1..cost[t])
    BY <2>1, <2>3, FS_Product
  <2>5. QED
    BY <1>1, <2>2, <2>3, <2>4
<1>4. CASE session[t] = s
  <2>1. Units(Threads, session, cost, s) = others \cup mine
    BY <1>1, <1>4 DEF Units
  <2>2. others \cap mine = {}
    BY DEF Units
  <2> HIDE DEF others, mine
  <2>3. /\ Cardinality(others \cup mine) = Cardinality(others)
             + Cardinality(mine) - Cardinality(others \cap mine)
    BY <1>2, <1>3, FS_Union
  <2>4. Cardinality(others \cup mine) = Cardinality(others) + cost[t] - 0
    BY <1>3, <2>2, <2>3, FS_EmptySet
  <2>5. QED
    BY <1>1, <1>2, <1>4, <2>1, <2>4 DEF others
<1>5. CASE session[t] # s
  <2>1. Units(Threads, session, cost, s) = others
    BY <1>5 DEF Units
  <2>2. QED
    BY <1>2, <1>5, <2>1
<1>6. QED
  BY <1>4, <1>5

\* What is under way changes by what one thread begins or ends to owe.
LEMMA UnderWayStep ==
  ASSUME TypeOK, TypeOK', NEW t \in Threads, NEW s \in Sids,
         \A u \in Threads \ {t} : sid'[u] = sid[u] /\ due'[u] = due[u]
  PROVE  /\ UnderWay(s) \in Nat /\ UnderWay(s)' \in Nat
         /\ UnderWay(s)' + (IF sid[t] = s THEN due[t] ELSE 0)
              = UnderWay(s) + (IF sid'[t] = s THEN due'[t] ELSE 0)
<1>1. PICK a, c : a = sid /\ c = due
  OBVIOUS
<1>2. PICK b, d : b = sid' /\ d = due'
  OBVIOUS
<1>3. /\ a \in [Threads -> Sids] /\ c \in [Threads -> 0..MaxCost]
      /\ b \in [Threads -> Sids] /\ d \in [Threads -> 0..MaxCost]
  BY <1>1, <1>2 DEF TypeOK
<1>4. /\ UnderWay(s) = Cardinality(Units(Threads, a, c, s))
      /\ UnderWay(s)' = Cardinality(Units(Threads, b, d, s))
  BY <1>1, <1>2 DEF UnderWay, Units
<1>5. \A u \in Threads \ {t} : b[u] = a[u] /\ d[u] = c[u]
  BY <1>1, <1>2
<1>6. Units(Threads \ {t}, b, d, s) = Units(Threads \ {t}, a, c, s)
  BY <1>5 DEF Units
<1> DEFINE rest == Cardinality(Units(Threads \ {t}, a, c, s))
<1>7. /\ rest \in Nat
      /\ UnderWay(s) = rest + (IF a[t] = s THEN c[t] ELSE 0)
  BY <1>3, <1>4, Share
<1>8. UnderWay(s)' = rest + (IF b[t] = s THEN d[t] ELSE 0)
  BY <1>3, <1>4, <1>6, Share
<1>9. c[t] \in Nat /\ d[t] \in Nat
  BY <1>3
<1> HIDE DEF rest
<1>10. /\ UnderWay(s) = rest + (IF sid[t] = s THEN due[t] ELSE 0)
       /\ UnderWay(s)' = rest + (IF sid'[t] = s THEN due'[t] ELSE 0)
       /\ due[t] \in Nat /\ due'[t] \in Nat
  BY <1>1, <1>2, <1>7, <1>8, <1>9
<1>11. QED
  BY <1>7, <1>10

LEMMA BilledNat ==
  ASSUME TypeOK, NEW s \in Sids
  PROVE  BilledUpTo[MaxTurns][s] \in Nat
<1>1. PICK f, own, bill : f = BilledUpTo /\ own = owner /\ bill = billed
  OBVIOUS
<1>2. f = CHOOSE h : IsReplay(h, own, bill, MaxTurns)
  BY <1>1, BilledIsReplay
<1>3. own \in [Turns -> Sids] /\ bill \in [Turns -> Nat]
  BY <1>1 DEF TypeOK
<1>4. Adds(f, own, bill)
  BY <1>2, <1>3, Billing
<1>5. f[MaxTurns] \in [Sids -> Nat]
  BY <1>4 DEF Adds
<1>6. QED
  BY <1>1, <1>5

\* One object k may get another owner, or d more on its bill.
LEMMA BillStep ==
  ASSUME TypeOK, TypeOK', NEW k \in Objects, NEW d \in Nat, NEW x \in Sids,
         \A o \in Objects \ {k} : owner'[o] = owner[o] /\ billed'[o] = billed[o],
         billed'[k] = billed[k] + d,
         owner'[k] = owner[k] \/ (billed[k] = 0 /\ d = 0)
  PROVE  /\ BilledUpTo[MaxTurns][x] \in Nat
         /\ BilledUpTo'[MaxTurns][x]
              = BilledUpTo[MaxTurns][x] + (IF owner[k] = x THEN d ELSE 0)
<1>1. PICK f, own, bill : f = BilledUpTo /\ own = owner /\ bill = billed
  OBVIOUS
<1>2. PICK g, own2, bill2 : g = BilledUpTo' /\ own2 = owner' /\ bill2 = billed'
  OBVIOUS
<1>3. /\ f = CHOOSE h : IsReplay(h, own, bill, MaxTurns)
      /\ g = CHOOSE h : IsReplay(h, own2, bill2, MaxTurns)
  BY <1>1, <1>2, BilledIsReplay
<1>4. /\ own \in [Turns -> Sids] /\ bill \in [Turns -> Nat]
      /\ own2 \in [Turns -> Sids] /\ bill2 \in [Turns -> Nat]
  BY <1>1, <1>2 DEF TypeOK
<1>5. Adds(f, own, bill) /\ Adds(g, own2, bill2)
  BY <1>3, <1>4, Billing
<1>6. \A n \in Turns \ {k} : own2[n] = own[n] /\ bill2[n] = bill[n]
  BY <1>1, <1>2
<1> DEFINE e == IF own[k] = x THEN d ELSE 0
<1>7. e \in Nat
  OBVIOUS
<1>8. (IF own2[k] = x THEN bill2[k] ELSE 0)
        = (IF own[k] = x THEN bill[k] ELSE 0) + e
  <2>1. bill[k] \in Nat /\ bill2[k] = bill[k] + d
    BY <1>1, <1>2, <1>4
  <2>2. CASE own2[k] = own[k]
    BY <2>1, <2>2
  <2>3. CASE bill[k] = 0 /\ d = 0
    BY <2>1, <2>3
  <2>4. QED
    BY <1>1, <1>2, <2>2, <2>3
<1> HIDE DEF e
<1>9. g[MaxTurns][x] = f[MaxTurns][x] + e
  <2>1. k \in Turns /\ e \in Nat
    BY <1>7
  <2>2. QED
    BY <1>5, <1>4, <1>6, <1>8, <2>1, OneBill, SMTT(30)
<1>10. f[MaxTurns][x] \in Nat
  BY <1>5 DEF Adds
<1>11. QED
  BY <1>1, <1>2, <1>9, <1>10 DEF e

\* At first nothing is spent, billed or under way.
LEMMA InitBalanced == Init => Balanced
<1> SUFFICES ASSUME Init PROVE Balanced
  OBVIOUS
<1>1. TypeOK
  BY InitType
<1>2. PICK f, own, bill : f = BilledUpTo /\ own = owner /\ bill = billed
  OBVIOUS
<1>3. f = CHOOSE h : IsReplay(h, own, bill, MaxTurns)
  BY <1>2, BilledIsReplay
<1>4. own \in [Turns -> Sids] /\ bill \in [Turns -> Nat]
  BY <1>1, <1>2 DEF TypeOK
<1>5. Adds(f, own, bill)
  BY <1>3, <1>4, Billing
<1>6. \A n \in Turns : bill[n] = 0
  BY <1>2 DEF Init
<1> DEFINE T == {n \in 0..MaxTurns : \A s \in Sids : f[n][s] = 0}
<1>7. 0 \in T
  BY <1>5 DEF Adds
<1>8. ASSUME NEW n \in 0..(MaxTurns - 1), n \in T PROVE n + 1 \in T
  <2>1. n + 1 \in Turns /\ n + 1 \in 0..MaxTurns /\ (n + 1) - 1 = n
    BY DEF Turns
  <2>2. ASSUME NEW s \in Sids PROVE f[n + 1][s] = 0
    <3>1. \A k \in Turns :
            f[k][s] = f[k - 1][s] + (IF own[k] = s THEN bill[k] ELSE 0)
      BY <1>5 DEF Adds
    <3>2. \A k \in Turns : f[k][s] = f[k - 1][s] + 0
      BY <1>6, <3>1
    <3>3. f[n + 1][s] = f[n][s] + 0 /\ f[n][s] = 0
      BY <1>8, <2>1, <3>2
    <3>4. QED
      BY <3>3
  <2>3. QED
    BY <2>1, <2>2
<1> HIDE DEF T
<1>9. MaxTurns \in T
  BY <1>7, <1>8, Upwards
<1>10. \A s \in Sids : BilledUpTo[MaxTurns][s] = 0
  BY <1>2, <1>9 DEF T
<1>11. \A s \in Sids : UnderWay(s) = 0
  <2> SUFFICES ASSUME NEW s \in Sids PROVE UnderWay(s) = 0
    OBVIOUS
  <2>1. PICK a, c : a = sid /\ c = due
    OBVIOUS
  <2>2. Units(Threads, a, c, s) = {}
    <3>1. \A u \in Threads : c[u] = 0
      BY <2>1 DEF Init
    <3>2. ASSUME NEW unit \in Units(Threads, a, c, s) PROVE FALSE
      <4>1. unit[1] \in Threads /\ unit[2] \in 1..MaxCost /\ unit[2] <= c[unit[1]]
        BY DEF Units
      <4>2. QED
        BY <3>1, <4>1
    <3>3. QED
      BY <3>2
  <2>3. UnderWay(s) = Cardinality(Units(Threads, a, c, s))
    BY <2>1 DEF UnderWay, Units
  <2>4. QED
    BY <2>2, <2>3, FS_EmptySet
<1>12. LedgerExact
  <2>1. \A s \in Sids : spent[s] = 0
    BY DEF Init, LedgerInit
  <2>2. QED
    <3> SUFFICES ASSUME NEW s \in Sids
                 PROVE  /\ spent[s] + UnderWay(s) <= BilledUpTo[MaxTurns][s]
                        /\ spent[s] + UnderWay(s) = BilledUpTo[MaxTurns][s]
      BY Zenon DEF LedgerExact
    <3>1. spent[s] = 0 /\ UnderWay(s) = 0 /\ BilledUpTo[MaxTurns][s] = 0
      BY <1>10, <1>11, <2>1
    <3>2. QED
      BY <3>1
<1>13. Unbilled /\ Settled /\ Belongs /\ Races
  BY DEF Init, StoreInit, Unbilled, Settled, Belongs, Races
<1>14. QED
  BY <1>12, <1>13 DEF Balanced

\* No bill changes, and no owner but that of an object without a bill.
LEMMA BilledQuiet ==
  ASSUME TypeOK, TypeOK', billed' = billed, NEW k \in Objects, NEW s \in Sids,
         owner'[k] = owner[k] \/ billed[k] = 0,
         \A o \in Objects \ {k} : owner'[o] = owner[o]
  PROVE  BilledUpTo'[MaxTurns][s] = BilledUpTo[MaxTurns][s]
<1>1. billed[k] \in Nat /\ billed'[k] = billed[k] + 0
  BY DEF TypeOK
<1>2. PICK d \in Nat : d = 0
  OBVIOUS
<1>3. /\ \A o \in Objects \ {k} : owner'[o] = owner[o] /\ billed'[o] = billed[o]
      /\ billed'[k] = billed[k] + d
      /\ owner'[k] = owner[k] \/ (billed[k] = 0 /\ d = 0)
  BY <1>1, <1>2
<1>4. /\ BilledUpTo[MaxTurns][s] \in Nat
      /\ BilledUpTo'[MaxTurns][s]
           = BilledUpTo[MaxTurns][s] + (IF owner[k] = s THEN d ELSE 0)
  <2>1. CASE owner'[k] = owner[k]
    BY <1>3, <2>1, BillStep
  <2>2. CASE billed[k] = 0
    BY <1>2, <1>3, <2>2, BillStep
  <2>3. QED
    BY <2>1, <2>2
<1>5. QED
  BY <1>2, <1>4

\* The balance after a step that bills and records nothing: one thread may go
\* to another session while it owes nothing.
LEMMA ExactQuiet ==
  ASSUME TypeOK, TypeOK', LedgerExact, UNCHANGED <<spent, billed, due>>,
         raced \subseteq raced',
         NEW t \in Threads, due[t] = 0 \/ sid'[t] = sid[t],
         \A u \in Threads \ {t} : sid'[u] = sid[u],
         NEW k \in Objects, owner'[k] = owner[k] \/ billed[k] = 0,
         \A o \in Objects \ {k} : owner'[o] = owner[o]
  PROVE  LedgerExact'
<1> SUFFICES ASSUME NEW s \in Sids
             PROVE  /\ UnderWay(s)' = UnderWay(s)
                    /\ BilledUpTo'[MaxTurns][s] = BilledUpTo[MaxTurns][s]
  BY DEF LedgerExact
<1>1. UnderWay(s)' = UnderWay(s)
  <2>1. /\ UnderWay(s) \in Nat /\ UnderWay(s)' \in Nat
        /\ UnderWay(s)' + (IF sid[t] = s THEN due[t] ELSE 0)
              = UnderWay(s) + (IF sid'[t] = s THEN due'[t] ELSE 0)
    BY UnderWayStep
  <2>2. due[t] \in Nat
    BY DEF TypeOK
  <2>3. QED
    BY <2>1, <2>2
<1>2. BilledUpTo'[MaxTurns][s] = BilledUpTo[MaxTurns][s]
  BY BilledQuiet
<1>3. QED
  BY <1>1, <1>2

\* The balance when t is billed: what it owes is under way.
LEMMA ExactBill ==
  ASSUME TypeOK, TypeOK', Balanced, NEW t \in Threads, Bill(t)
  PROVE  LedgerExact'
<1>1. PICK cost \in 0..MaxCost :
        /\ billed' = [billed EXCEPT ![obj[t]] = @ + cost]
        /\ due' = [due EXCEPT ![t] = cost]
  BY DEF Bill
<1>2. /\ pc[t] = "bill" /\ obj[t] \in Objects
      /\ UNCHANGED <<sid, raced, spent, owner>>
  BY DEF Bill, TypeOK, ledger
<1>3. PICK k \in Objects, d \in Nat : k = obj[t] /\ d = cost
  BY <1>2
<1>4. owner[k] = sid[t] /\ due[t] = 0 /\ due'[t] = d
  BY <1>1, <1>2, <1>3 DEF Balanced, Belongs, Settled, TypeOK
<1>5. /\ \A o \in Objects \ {k} : owner'[o] = owner[o] /\ billed'[o] = billed[o]
      /\ billed'[k] = billed[k] + d /\ owner'[k] = owner[k]
  BY <1>1, <1>2, <1>3 DEF TypeOK
<1>6. \A u \in Threads \ {t} : sid'[u] = sid[u] /\ due'[u] = due[u]
  BY <1>1, <1>2 DEF TypeOK
<1> SUFFICES ASSUME NEW s \in Sids
             PROVE  /\ spent'[s] + UnderWay(s)' <= BilledUpTo'[MaxTurns][s]
                    /\ s \notin raced' =>
                         spent'[s] + UnderWay(s)' = BilledUpTo'[MaxTurns][s]
  BY DEF LedgerExact
<1>7. /\ BilledUpTo[MaxTurns][s] \in Nat
      /\ BilledUpTo'[MaxTurns][s]
           = BilledUpTo[MaxTurns][s] + (IF owner[k] = s THEN d ELSE 0)
  BY <1>5, BillStep
<1>8. /\ UnderWay(s) \in Nat /\ UnderWay(s)' \in Nat
      /\ UnderWay(s)' + (IF sid[t] = s THEN due[t] ELSE 0)
           = UnderWay(s) + (IF sid'[t] = s THEN due'[t] ELSE 0)
  BY <1>6, UnderWayStep
<1>9. UnderWay(s)' = UnderWay(s) + (IF owner[k] = s THEN d ELSE 0)
  BY <1>2, <1>4, <1>8
<1>10. spent[s] \in Nat /\ spent'[s] = spent[s]
  BY <1>2 DEF TypeOK, LedgerTypeOK
<1>11. /\ spent[s] + UnderWay(s) <= BilledUpTo[MaxTurns][s]
       /\ s \notin raced => spent[s] + UnderWay(s) = BilledUpTo[MaxTurns][s]
  BY DEF Balanced, LedgerExact
<1>12. QED
  BY <1>2, <1>7, <1>8, <1>9, <1>10, <1>11

\* The balance when what t owes is recorded: added to the session's record, or
\* in the place of a record that is lost.
LEMMA ExactRecorded ==
  ASSUME TypeOK, TypeOK', Bounds, Balanced, NEW t \in Threads, Recorded(t),
         UNCHANGED <<billed, owner>>,
         \/ RecordCost(sid[t], due[t])
         \/ pc[t] = "fresh" /\ RecordFresh(sid[t], due[t])
  PROVE  LedgerExact'
<1>1. /\ UNCHANGED <<sid, raced, billed, owner>>
      /\ due' = [due EXCEPT ![t] = 0] /\ due[t] \in Nat /\ sid[t] \in Sids
  BY DEF Recorded, TypeOK
<1>2. BilledUpTo' = BilledUpTo
  BY <1>1 DEF BilledUpTo
<1>3. /\ \A u \in Threads \ {t} : sid'[u] = sid[u] /\ due'[u] = due[u]
      /\ due'[t] = 0
  BY <1>1 DEF TypeOK
<1> SUFFICES ASSUME NEW s \in Sids
             PROVE  /\ spent'[s] + UnderWay(s)' <= BilledUpTo[MaxTurns][s]
                    /\ s \notin raced =>
                         spent'[s] + UnderWay(s)' = BilledUpTo[MaxTurns][s]
  BY <1>1, <1>2 DEF LedgerExact
<1>4. /\ UnderWay(s) \in Nat /\ UnderWay(s)' \in Nat
      /\ UnderWay(s)' + (IF sid[t] = s THEN due[t] ELSE 0) = UnderWay(s)
  <2>1. /\ UnderWay(s) \in Nat /\ UnderWay(s)' \in Nat
        /\ UnderWay(s)' + (IF sid[t] = s THEN due[t] ELSE 0)
             = UnderWay(s) + (IF sid'[t] = s THEN due'[t] ELSE 0)
    BY <1>3, UnderWayStep
  <2>2. QED
    BY <1>3, <2>1
<1>5. /\ spent[s] \in Nat /\ spent'[s] \in Nat
      /\ spent[s] + UnderWay(s) <= BilledUpTo[MaxTurns][s]
      /\ s \notin raced => spent[s] + UnderWay(s) = BilledUpTo[MaxTurns][s]
  BY DEF TypeOK, LedgerTypeOK, Balanced, LedgerExact
<1>6. BilledUpTo[MaxTurns][s] \in Nat
  BY BilledNat
<1>7. CASE s # sid[t]
  <2>1. spent'[s] = spent[s]
    BY <1>1, <1>7 DEF RecordCost, RecordFresh, TypeOK, LedgerTypeOK
  <2>2. QED
    BY <1>4, <1>5, <1>7, <2>1
<1>8. CASE s = sid[t] /\ RecordCost(sid[t], due[t])
  <2>1. spent'[s] = spent[s] + due[t]
    BY <1>8 DEF RecordCost, TypeOK, LedgerTypeOK
  <2>2. QED
    BY <1>1, <1>4, <1>5, <1>6, <1>8, <2>1
<1>9. CASE s = sid[t] /\ pc[t] = "fresh" /\ RecordFresh(sid[t], due[t])
  <2>1. spent'[s] = due[t]
    BY <1>9 DEF RecordFresh, TypeOK, LedgerTypeOK
  <2>2. s \notin raced => spent[s] = 0
    BY <1>9 DEF Balanced, Races, Bounds, NoRecordNoCost
  <2>3. QED
    BY <1>1, <1>4, <1>5, <1>6, <1>9, <2>1, <2>2
<1>10. QED
  BY <1>7, <1>8, <1>9

\* get_or_create: a thread that owes nothing turns to a session, whose object is
\* there already or was billed nothing.
LEMMA LoadBalanced ==
  ASSUME TypeOK, TypeOK', Balanced, NEW t \in Threads, Load(t)
  PROVE  Balanced'
<1> USE TidyTypes
<1>1. next \in Objects /\ next' = next + 1 /\ next \in Nat
      /\ UNCHANGED <<due, raced, known, spent, billed>>
  BY DEF Load, Turns, ledger
<1>2. PICK s \in Sids :
        /\ \/ GetOrCreate(s, next) /\ pc' = [pc EXCEPT ![t] = "check"]
           \/ UNCHANGED store /\ pc' = [pc EXCEPT ![t] = "create"]
        /\ sid' = [sid EXCEPT ![t] = s]
        /\ obj' = [obj EXCEPT ![t] = Holder(s, next)]
        /\ owner' = [owner EXCEPT ![Holder(s, next)] = s]
  BY DEF Load
<1>3. PICK k \in Objects : k = Holder(s, next)
  BY <1>1 DEF Holder
<1>4. /\ pc[t] = "idle" /\ pc'[t] \in {"check", "create"}
      /\ sid'[t] = s /\ obj'[t] = k /\ owner'[k] = s
      /\ \A u \in Threads \ {t} : UNCHANGED <<pc[u], sid[u], obj[u]>>
      /\ \A o \in Objects \ {k} : owner'[o] = owner[o]
  BY <1>2, <1>3 DEF Load
<1>5. k < next' /\ \/ k = next
                   \/ table[s] = k /\ owner[k] = s /\ k < next
  BY <1>1, <1>3 DEF Holder, Balanced, Belongs, Turns
<1>6. owner'[k] = owner[k] \/ billed[k] = 0
  BY <1>1, <1>4, <1>5 DEF Balanced, Unbilled, Turns
<1>7. LedgerExact'
  <2>1. due[t] = 0
    BY <1>4 DEF Balanced, Settled
  <2>2. QED
    BY <1>1, <1>4, <1>6, <2>1, ExactQuiet DEF Balanced
<1>8. Unbilled'
  BY <1>1 DEF Balanced, Unbilled, Turns
<1>9. Settled'
  BY <1>1, <1>4 DEF Balanced, Settled
<1>10. Races'
  BY <1>1, <1>4 DEF Balanced, Races
<1>11. ASSUME NEW o \in Objects, o < next, owner[o] \in Sids, o # k \/ k # next
       PROVE  o < next' /\ owner'[o] = owner[o]
  BY <1>1, <1>4, <1>5, <1>11 DEF Turns
<1>12. ASSUME NEW x \in Sids, table'[x] # NoObject
       PROVE  owner'[table'[x]] = x /\ table'[x] < next'
  <2>1. \/ table'[x] = table[x]
        \/ x = s /\ table'[x] = k
    BY <1>2, <1>3, <1>12 DEF GetOrCreate, GetExisting, CreateSession, Holder,
                             store
  <2>2. CASE table'[x] = table[x]
    <3>1. PICK o \in Objects : o = table[x]
      BY <1>12, <2>2
    <3>2. owner[o] = x /\ o < next
      BY <1>12, <2>2, <3>1 DEF Balanced, Belongs
    <3>3. o # k \/ k # next
      BY <1>1, <3>2
    <3>4. QED
      BY <1>11, <2>2, <3>1, <3>2, <3>3
  <2>3. CASE x = s /\ table'[x] = k
    BY <1>4, <1>5, <2>3
  <2>4. QED
    BY <2>1, <2>2, <2>3
<1>13. ASSUME NEW u \in Threads, pc'[u] # "idle"
       PROVE  owner'[obj'[u]] = sid'[u] /\ obj'[u] < next'
  <2>1. CASE u = t
    BY <1>4, <1>5, <2>1
  <2>2. CASE u # t
    <3>1. pc[u] # "idle" /\ obj'[u] = obj[u] /\ sid'[u] = sid[u]
      BY <1>4, <1>13, <2>2
    <3>2. PICK o \in Objects : o = obj[u]
      BY <3>1
    <3>3. owner[o] = sid[u] /\ o < next
      BY <3>1, <3>2 DEF Balanced, Belongs
    <3>4. o # k \/ k # next
      BY <1>1, <3>3
    <3>5. QED
      BY <1>11, <3>1, <3>2, <3>3, <3>4
  <2>3. QED
    BY <2>1, <2>2
<1>14. QED
  BY <1>7, <1>8, <1>9, <1>10, <1>12, <1>13 DEF Balanced, Belongs

\* A step that leaves the ledger alone: it moves a thread that has nothing to
\* record, empties places of the table or puts in one what a thread holds.
LEMMA BalancedQuiet ==
  ASSUME TypeOK, TypeOK', Balanced,
         UNCHANGED <<next, owner, billed, spent, known, due, raced, sid>>,
         \A s \in Sids :
            \/ table'[s] \in {table[s], NoObject}
            \/ \E u \in Threads : pc[u] # "idle" /\ sid[u] = s
                                  /\ table'[s] = obj[u],
         \A u \in Threads :
            \/ UNCHANGED <<pc[u], obj[u]>>
            \/ pc[u] \notin {"record", "fresh"} /\ pc'[u] = "idle"
            \/ /\ pc[u] \notin {"idle", "record", "fresh"}
               /\ pc'[u] # "fresh" /\ UNCHANGED obj[u]
  PROVE  Balanced'
<1>1. LedgerExact'
  BY DEF Balanced, LedgerExact, UnderWay, BilledUpTo
<1>2. Unbilled' /\ Settled'
  BY DEF Balanced, Unbilled, Settled
<1>3. Belongs'
  <2>1. ASSUME NEW s \in Sids, table'[s] # NoObject
        PROVE  owner'[table'[s]] = s /\ table'[s] < next'
    <3>1. CASE table'[s] = table[s]
      BY <2>1, <3>1 DEF Balanced, Belongs
    <3>2. ASSUME NEW u \in Threads, pc[u] # "idle", sid[u] = s,
                 table'[s] = obj[u]
          PROVE  owner'[table'[s]] = s /\ table'[s] < next'
      BY <3>2 DEF Balanced, Belongs
    <3>3. QED
      BY <2>1, <3>1, <3>2
  <2>2. ASSUME NEW u \in Threads, pc'[u] # "idle"
        PROVE  owner'[obj'[u]] = sid'[u] /\ obj'[u] < next'
    BY <2>2 DEF Balanced, Belongs
  <2>3. QED
    BY <2>1, <2>2 DEF Belongs
<1>4. Races'
  <2>1. \A u \in Threads : pc'[u] = "fresh" => pc[u] = "fresh"
    OBVIOUS
  <2>2. QED
    BY <2>1 DEF Balanced, Races
<1>5. QED
  BY <1>1, <1>2, <1>3, <1>4 DEF Balanced

\* A bill goes to an object that is made already.
LEMMA BillBalanced ==
  ASSUME TypeOK, TypeOK', Balanced, NEW t \in Threads, Bill(t)
  PROVE  Balanced'
<1>1. /\ UNCHANGED <<table, known, raced, sid, obj, next, owner>>
      /\ pc[t] = "bill" /\ pc'[t] = "record"
      /\ \A u \in Threads \ {t} : pc'[u] = pc[u] /\ due'[u] = due[u]
      /\ \A o \in Objects \ {obj[t]} : billed'[o] = billed[o]
  BY DEF Bill, TypeOK, store, ledger
<1>2. obj[t] \in Objects /\ obj[t] < next
  BY <1>1 DEF Balanced, Belongs, TypeOK
<1>3. Unbilled'
  <2> SUFFICES ASSUME NEW o \in Objects, o >= next PROVE billed'[o] = 0
    BY <1>1 DEF Unbilled
  <2>1. o # obj[t]
    BY <1>2 DEF TypeOK, Turns
  <2>2. QED
    BY <1>1, <2>1 DEF Balanced, Unbilled
<1>4. Settled' /\ Races'
  BY <1>1 DEF Balanced, Settled, Races
<1>5. Belongs'
  <2>1. \A u \in Threads : pc'[u] # "idle" => pc[u] # "idle"
    BY <1>1
  <2>2. QED
    BY <1>1, <2>1 DEF Balanced, Belongs
<1>6. QED
  BY <1>3, <1>4, <1>5, ExactBill DEF Balanced

\* record_cost, whole or in its two halves.  Whoever makes a record when
\* another thread is at it, or when another has just made it, is in raced.
LEMMA RecordBalanced ==
  ASSUME TypeOK, TypeOK', Bounds, Tidy, Balanced, NEW t \in Threads,
         Record(t) \/ RecordNew(t)
  PROVE  Balanced'
<1>1. /\ UNCHANGED <<table, sid, obj, next, owner, billed>>
      /\ pc[t] \in {"record", "fresh"}
      /\ \A u \in Threads \ {t} : pc'[u] = pc[u] /\ due'[u] = due[u]
      /\ obj[t] \in Objects /\ sid[t] \in Sids
  BY DEF Record, RecordNew, Recorded, TypeOK, store
<1>2. \/ /\ Recorded(t) /\ pc'[t] = "save" /\ due'[t] = 0 /\ raced' = raced
         /\ known' = known \cup {sid[t]}
         /\ \/ RecordCost(sid[t], due[t]) /\ (orderly \/ sid[t] \in known)
            \/ pc[t] = "fresh" /\ RecordFresh(sid[t], due[t])
      \/ /\ sid[t] \notin known /\ pc'[t] = "fresh" /\ due' = due
         /\ UNCHANGED <<known, spent>> /\ raced \subseteq raced'
         /\ Making(sid[t]) # {} => sid[t] \in raced'
  BY DEF Record, RecordNew, Recorded, RecordCost, RecordFresh, TypeOK, ledger
<1>3. Unbilled' /\ Settled' /\ Belongs'
  <2>1. Unbilled' /\ Settled'
    BY <1>1, <1>2 DEF Balanced, Unbilled, Settled
  <2>2. \A u \in Threads : pc'[u] # "idle" => pc[u] # "idle"
    BY <1>1
  <2>3. QED
    BY <1>1, <2>1, <2>2 DEF Balanced, Belongs
<1>4. CASE Recorded(t) /\ pc'[t] = "save" /\ due'[t] = 0 /\ raced' = raced
           /\ known' = known \cup {sid[t]}
           /\ \/ RecordCost(sid[t], due[t]) /\ (orderly \/ sid[t] \in known)
              \/ pc[t] = "fresh" /\ RecordFresh(sid[t], due[t])
  <2>1. LedgerExact'
    BY <1>1, <1>4, ExactRecorded
  <2>2. ASSUME NEW u \in Threads \ {t}, pc[u] = "fresh", sid[u] = sid[t]
        PROVE  sid[t] \in raced
    <3>1. ~orderly
      BY <2>2 DEF Tidy, Whole
    <3>2. QED
      BY <1>4, <2>2, <3>1 DEF Balanced, Races
  <2>3. Races'
    <3> SUFFICES ASSUME NEW u \in Threads, pc'[u] = "fresh"
                 PROVE  /\ \A v \in Threads \ {u} :
                             pc'[v] = "fresh" /\ sid[v] = sid[u]
                               => sid[u] \in raced
                        /\ sid[u] \in known' => sid[u] \in raced
      BY <1>1, <1>4 DEF Races
    <3>1. u # t /\ pc[u] = "fresh"
      BY <1>1, <1>4
    <3>2. \A v \in Threads \ {u} :
             pc'[v] = "fresh" => pc[v] = "fresh"
      BY <1>1, <1>4
    <3>3. sid[u] \in known' => sid[u] \in known \/ sid[u] = sid[t]
      BY <1>4
    <3>4. QED
      BY <2>2, <3>1, <3>2, <3>3 DEF Balanced, Races
  <2>4. QED
    BY <1>3, <2>1, <2>3 DEF Balanced
<1>5. CASE sid[t] \notin known /\ pc'[t] = "fresh" /\ due' = due
           /\ UNCHANGED <<known, spent>> /\ raced \subseteq raced'
           /\ (Making(sid[t]) # {} => sid[t] \in raced')
  <2>1. LedgerExact'
    BY <1>1, <1>5, ExactQuiet DEF Balanced
  <2>2. ASSUME NEW u \in Threads \ {t}, pc[u] = "fresh", sid[u] = sid[t]
        PROVE  sid[t] \in raced'
    <3>1. u \in Making(sid[t])
      BY <2>2 DEF Making
    <3>2. QED
      BY <1>5, <3>1
  <2>3. Races'
    <3> SUFFICES ASSUME NEW u \in Threads, pc'[u] = "fresh"
                 PROVE  /\ \A v \in Threads \ {u} :
                             pc'[v] = "fresh" /\ sid[v] = sid[u]
                               => sid[u] \in raced'
                        /\ sid[u] \in known => sid[u] \in raced'
      BY <1>1, <1>5 DEF Races
    <3>1. CASE u = t
      BY <1>1, <1>5, <2>2, <3>1
    <3>2. CASE u # t
      <4>1. pc[u] = "fresh"
        BY <1>1, <3>2
      <4>2. ASSUME NEW v \in Threads \ {u}, pc'[v] = "fresh", sid[v] = sid[u]
            PROVE  sid[u] \in raced'
        <5>1. CASE v = t
          BY <2>2, <3>2, <4>1, <4>2, <5>1
        <5>2. CASE v # t
          BY <1>1, <1>5, <4>1, <4>2, <5>2 DEF Balanced, Races
        <5>3. QED
          BY <5>1, <5>2
      <4>3. QED
        BY <1>5, <4>1, <4>2 DEF Balanced, Races
    <3>3. QED
      BY <3>1, <3>2
  <2>4. QED
    BY <1>3, <2>1, <2>3 DEF Balanced
<1>6. QED
  BY <1>2, <1>4, <1>5

\* Every step keeps the balance.
LEMMA BalancedStep ==
  ASSUME TypeOK, TypeOK', Bounds, Tidy, Balanced, [Next]_vars
  PROVE  Balanced'
<1> USE TidyTypes
<1>1. ASSUME NEW t \in Threads,
             \/ CheckCost(t) \/ CheckUnknown(t) \/ AddUser(t)
             \/ AgentFails(t) \/ AddAssistant(t)
      PROVE  Balanced'
  <2>1. UNCHANGED <<next, owner, billed, spent, known, due, raced, sid, table>>
    BY <1>1 DEF CheckCost, CheckUnknown, AddUser, AgentFails, AddAssistant,
                AddMessage, Goto, Return, ledger, store
  <2>2. /\ pc[t] \notin {"idle", "record", "fresh"} /\ pc'[t] # "fresh"
        /\ pc'[t] = "idle" \/ obj'[t] = obj[t]
        /\ \A u \in Threads \ {t} : UNCHANGED <<pc[u], obj[u]>>
    BY <1>1 DEF CheckCost, CheckUnknown, AddUser, AgentFails, AddAssistant,
                Goto, Return
  <2>3. QED
    BY <2>1, <2>2, BalancedQuiet
<1>2. ASSUME NEW t \in Threads, Create(t) \/ SaveSession(t) PROVE Balanced'
  <2>1. UNCHANGED <<next, owner, billed, spent, known, due, raced, sid>>
    BY <1>2 DEF Create, SaveSession, Goto, Return, ledger
  <2>2. /\ pc[t] \notin {"idle", "record", "fresh"} /\ pc'[t] # "fresh"
        /\ pc'[t] = "idle" \/ obj'[t] = obj[t]
        /\ \A u \in Threads \ {t} : UNCHANGED <<pc[u], obj[u]>>
    BY <1>2 DEF Create, SaveSession, Goto, Return
  <2>3. table' = [table EXCEPT ![sid[t]] = obj[t]]
    BY <1>2 DEF Create, SaveSession, StoreSession, Save
  <2>4. QED
    BY <2>1, <2>2, <2>3, BalancedQuiet
<1>3. ASSUME NEW t \in Threads, CleanUp(t) PROVE Balanced'
  <2>1. UNCHANGED <<next, owner, billed, spent, known, due, raced, sid>>
    BY <1>3 DEF CleanUp, Goto, Return, ledger
  <2>2. /\ pc[t] \notin {"idle", "record", "fresh"} /\ pc'[t] # "fresh"
        /\ pc'[t] = "idle" \/ obj'[t] = obj[t]
        /\ \A u \in Threads \ {t} : UNCHANGED <<pc[u], obj[u]>>
    BY <1>3 DEF CleanUp, Goto, Return
  <2>3. \A s \in Sids : table'[s] \in {table[s], NoObject}
    BY <1>3 DEF CleanUp, Cleanup
  <2>4. QED
    BY <2>1, <2>2, <2>3, BalancedQuiet
<1>4. ASSUME NEW s \in Sids, DeleteSession(s) PROVE Balanced'
  <2>1. /\ UNCHANGED <<next, owner, billed, spent, known, due, raced, sid>>
        /\ UNCHANGED <<pc, obj>>
        /\ table' = [table EXCEPT ![s] = NoObject]
    BY <1>4 DEF DeleteSession, Delete, thread, ledger
  <2>2. QED
    BY <2>1, BalancedQuiet
<1>5. ASSUME NEW o \in Objects, SessionAges(o) PROVE Balanced'
  <2>1. /\ UNCHANGED <<next, owner, billed, spent, known, due, raced, sid>>
        /\ UNCHANGED <<pc, obj, table>>
    BY <1>5 DEF SessionAges, Age, thread, ledger
  <2>2. QED
    BY <2>1, BalancedQuiet
<1>6. CASE NewDay \/ UNCHANGED vars
  <2>1. /\ UNCHANGED <<next, owner, billed, spent, known, due, raced, sid>>
        /\ UNCHANGED <<pc, obj, table>>
    BY <1>6 DEF NewDay, ResetDaily, vars, thread, ledger, store
  <2>2. QED
    BY <2>1, BalancedQuiet
<1>7. QED
  BY <1>1, <1>2, <1>3, <1>4, <1>5, <1>6,
     LoadBalanced, BillBalanced, RecordBalanced DEF Next, InvokeStep

\* Wherever invocations are interrupted, and however sessions expire, are
\* deleted, replaced and saved again meanwhile, no session's record ever shows
\* more than its Session objects were billed; with the costs under way it shows
\* exactly that, unless two invocations made its first record at once.
THEOREM LedgerAddsUp == Spec => []LedgerExact
<1>1. TypeOK /\ TypeOK' /\ Bounds /\ Tidy /\ Balanced /\ [Next]_vars => Balanced'
  BY BalancedStep
<1>2. Balanced => LedgerExact
  BY DEF Balanced
<1>3. QED
  BY <1>1, <1>2, InitType, TypeStep, InitBounds, BoundsStep, InitTidy, TidyStep,
     InitBalanced, PTL DEF Spec
=============================================================================
