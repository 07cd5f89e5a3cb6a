------------------------------- MODULE Runtime -------------------------------
(***************************************************************************)
(* AgentRuntime.invoke of core/runtime.py, called by several threads that  *)
(* share one SessionManager and one CostEnforcer, neither of which has a   *)
(* lock.  A step of a thread is one call invoke makes on them; the agent   *)
(* function runs between two steps for as long as it likes.  In behaviours *)
(* that are not orderly the interpreter may also switch threads inside a   *)
(* call, between a look into a dictionary and the entry made after it, and *)
(* a session may expire or be deleted while an invocation uses it.         *)
(***************************************************************************)
EXTENDS CostEnforcer, SessionManager, FiniteSets

CONSTANTS Threads,
          MaxTurns,      \* bound: invocations in a behaviour
          MaxCost,       \* the most one request can cost
          NoTurn,        \* thread between two invocations
          Orders         \* the values orderly may have

Turns == 1..MaxTurns

ASSUME RuntimeAssumption ==
    /\ MaxTurns \in Nat /\ MaxCost \in Nat
    /\ IsFiniteSet(Threads)
    /\ Orders \subseteq BOOLEAN
    /\ Objects = Turns   \* an invocation makes at most one Session object
    /\ NoTurn \notin Turns

VARIABLES orderly,             \* fixed: threads are only switched between calls,
                               \* and only idle sessions expire or go away
          pc, turn, sid, obj,  \* per thread: statement, invocation, session
          due,                 \* per thread: cost not yet in the ledger
          raced,               \* history: sessions two threads at once were
                               \* making the first record of
          next,                \* number of the next invocation
          billed,              \* total_cost of each Session object
          owner,               \* session id of each object
          kept                 \* history: turns saved and not dropped since

thread == <<pc, turn, sid, obj, due, next, raced>>
vars == <<orderly, thread, ledger, store, billed, owner, kept>>

Init ==
    /\ LedgerInit /\ StoreInit
    /\ orderly \in Orders
    /\ pc = [t \in Threads |-> "idle"]
    /\ turn = [t \in Threads |-> NoTurn]
    /\ sid = [t \in Threads |-> CHOOSE s \in Sids : TRUE]
    /\ obj = [t \in Threads |-> NoObject]
    /\ due = [t \in Threads |-> 0]
    /\ raced = {}
    /\ next = 1
    /\ billed = [o \in Objects |-> 0]
    /\ owner = [o \in Objects |-> CHOOSE s \in Sids : TRUE]
    /\ kept = [s \in Sids |-> {}]

Goto(t, label) ==
    /\ pc' = [pc EXCEPT ![t] = label]
    /\ UNCHANGED <<turn, sid, obj, due, next, raced>>

\* invoke returns: its locals are gone.
Return(t) ==
    /\ pc' = [pc EXCEPT ![t] = "idle"]
    /\ turn' = [turn EXCEPT ![t] = NoTurn]
    /\ obj' = [obj EXCEPT ![t] = NoObject]
    /\ UNCHANGED <<sid, due, next, raced>>

\* Objects some invocation holds a reference to.
InUse == {obj[t] : t \in {u \in Threads : pc[u] # "idle"}}

\* History: a session that leaves the table takes its turns with it.
ForgetDropped ==
    kept' = [s \in Sids |-> IF table'[s] = NoObject THEN {} ELSE kept[s]]

-----------------------------------------------------------------------------
(* The steps of invoke.                                                    *)

\* 1. Load/create session.  An invocation without a session_id uses one that
\* was never used before.  get_or_create, when it is interrupted, has found no
\* entry and not yet made one.
Load(t) ==
    /\ pc[t] = "idle"
    /\ next <= MaxTurns
    /\ next' = next + 1
    /\ turn' = [turn EXCEPT ![t] = next]
    /\ \E s \in Sids :
          /\ \/ /\ GetOrCreate(s, next)
                /\ orderly \/ table[s] # NoObject
                /\ pc' = [pc EXCEPT ![t] = "check"]
             \/ /\ ~orderly /\ table[s] = NoObject
                /\ pc' = [pc EXCEPT ![t] = "create"]
                /\ UNCHANGED store
          /\ sid' = [sid EXCEPT ![t] = s]
          /\ obj' = [obj EXCEPT ![t] = Holder(s, next)]
          /\ owner' = [owner EXCEPT ![Holder(s, next)] = s]
    /\ ForgetDropped
    /\ UNCHANGED <<due, raced, ledger, billed>>

\* The rest of an interrupted get_or_create: the new object is stored ...
Create(t) ==
    /\ pc[t] = "create"
    /\ StoreSession(sid[t], obj[t])
    /\ Goto(t, "cleanup")
    /\ UNCHANGED <<ledger, billed, owner, kept>>

OthersInTable(t) == \E u \in Threads \ {t} : pc[u] \in {"create", "cleanup"}

\* ... and _cleanup runs.  It raises KeyError or RuntimeError out of invoke if
\* another thread deletes an id first, or adds one while it iterates.
CleanUp(t) ==
    /\ pc[t] = "cleanup"
    /\ \/ Cleanup(Expired) /\ Goto(t, "check")
       \/ /\ OthersInTable(t)
          /\ \E gone \in SUBSET Expired : Cleanup(gone)
          /\ Return(t)
    /\ ForgetDropped
    /\ UNCHANGED <<ledger, billed, owner>>

CheckCostIgnored(t) ==
    /\ pc[t] = "check"
    /\ Goto(t, IF ~orderly /\ sid[t] \notin known THEN "unknown" ELSE "user")
    /\ UNCHANGED <<ledger, store, billed, owner, kept>>

\* 2. Check cost budget: a denied request returns at once.
CheckCost(t) ==
    /\ pc[t] = "check"
    /\ IF ~orderly /\ sid[t] \notin known
       THEN Goto(t, "unknown")
       ELSE \/ Allowed(sid[t]) /\ Goto(t, "user")
            \/ ~Allowed(sid[t]) /\ Return(t)
    /\ UNCHANGED <<ledger, store, billed, owner, kept>>

\* check_request, interrupted when it had found no record of the session, goes
\* on without one.
CheckUnknown(t) ==
    /\ pc[t] = "unknown"
    /\ \/ AllowedToday /\ Goto(t, "user")
       \/ ~AllowedToday /\ Return(t)
    /\ UNCHANGED <<ledger, store, billed, owner, kept>>

\* 3. Add user message to session.
AddUser(t) ==
    /\ pc[t] = "user"
    /\ AddMessage(obj[t], "user", turn[t])
    /\ Goto(t, "agent")
    /\ UNCHANGED <<ledger, billed, owner, kept>>

\* 4. The agent function raises: the user message stays, nothing is billed.
AgentFails(t) ==
    /\ pc[t] = "agent"
    /\ Return(t)
    /\ UNCHANGED <<ledger, store, billed, owner, kept>>

\* 5. Add assistant response to session.
AddAssistant(t) ==
    /\ pc[t] = "agent"
    /\ AddMessage(obj[t], "assistant", turn[t])
    /\ Goto(t, "bill")
    /\ UNCHANGED <<ledger, billed, owner, kept>>

\* 6 and 7. The cost goes to the session ...
Bill(t) ==
    /\ pc[t] = "bill"
    /\ \E cost \in 0..MaxCost :
          /\ billed' = [billed EXCEPT ![obj[t]] = @ + cost]
          /\ due' = [due EXCEPT ![t] = cost]
    /\ pc' = [pc EXCEPT ![t] = "record"]
    /\ UNCHANGED <<turn, sid, obj, next, raced, ledger, store, owner, kept>>

\* Threads that found no record of the session and are making one.
Making(s) == {t \in Threads : pc[t] = "fresh" /\ sid[t] = s}

Recorded(t) ==
    /\ pc' = [pc EXCEPT ![t] = "save"]
    /\ due' = [due EXCEPT ![t] = 0]
    /\ UNCHANGED <<turn, sid, obj, next, raced>>

\* ... and from there to the enforcer's record of it, if there is one.
Record(t) ==
    /\ pc[t] = "record"
    /\ \/ /\ orderly \/ sid[t] \in known
          /\ RecordCost(sid[t], due[t])
          /\ Recorded(t)
       \/ /\ ~orderly /\ sid[t] \notin known
          /\ pc' = [pc EXCEPT ![t] = "fresh"]
          /\ raced' = IF Making(sid[t]) = {} THEN raced
                      ELSE raced \cup {sid[t]}
          /\ UNCHANGED <<ledger, turn, sid, obj, due, next>>
    /\ UNCHANGED <<store, billed, owner, kept>>

\* record_cost, interrupted when it had found no record, makes one.
RecordNew(t) ==
    /\ pc[t] = "fresh"
    /\ RecordFresh(sid[t], due[t])
    /\ Recorded(t)
    /\ UNCHANGED <<store, billed, owner, kept>>

\* 8. Save session.
SaveSession(t) ==
    /\ pc[t] = "save"
    /\ Save(sid[t], obj[t])
    /\ kept' = [kept EXCEPT ![sid[t]] = @ \cup {turn[t]}]
    /\ Return(t)
    /\ UNCHANGED <<ledger, billed, owner>>

-----------------------------------------------------------------------------
(* What else happens to the shared objects.                                *)

DeleteSession(s) ==
    /\ orderly => table[s] \notin InUse
    /\ Delete(s)
    /\ ForgetDropped
    /\ UNCHANGED <<thread, ledger, billed, owner>>

SessionAges(o) ==
    /\ \E s \in Sids : table[s] = o
    /\ orderly => o \notin InUse
    /\ Age(o)
    /\ UNCHANGED <<thread, ledger, billed, owner, kept>>

NewDay ==
    /\ ResetDaily
    /\ UNCHANGED <<thread, store, billed, owner, kept>>

InvokeStep(t) ==
    \/ Create(t) \/ CleanUp(t) \/ CheckCost(t) \/ CheckUnknown(t)
    \/ AddUser(t) \/ AgentFails(t) \/ AddAssistant(t)
    \/ Bill(t) \/ Record(t) \/ RecordNew(t) \/ SaveSession(t)

Next ==
    /\ \/ \E t \in Threads : Load(t) \/ InvokeStep(t)
       \/ \E s \in Sids : DeleteSession(s)
       \/ \E o \in Objects : SessionAges(o)
       \/ NewDay
    /\ UNCHANGED orderly

Spec == Init /\ [][Next]_vars

-----------------------------------------------------------------------------
(* Properties.                                                             *)

Labels == {"idle", "create", "cleanup", "check", "unknown", "user", "agent",
           "bill", "record", "fresh", "save"}

\* The types of the runtime's variables.
TypeOK ==
    /\ orderly \in Orders
    /\ LedgerTypeOK
    /\ StoreTypeOK(Turns)
    /\ pc \in [Threads -> Labels]
    /\ turn \in [Threads -> Turns \cup {NoTurn}]
    /\ sid \in [Threads -> Sids]
    /\ obj \in [Threads -> Objects \cup {NoObject}]
    /\ \A t \in Threads : pc[t] # "idle" => turn[t] \in Turns
                                            /\ obj[t] \in Objects
    /\ due \in [Threads -> 0..MaxCost]
    /\ raced \in SUBSET Sids
    /\ next \in 1..(MaxTurns + 1)
    /\ billed \in [Objects -> Nat]
    /\ owner \in [Objects -> Sids]
    /\ kept \in [Sids -> SUBSET Turns]

Admitted ==
    {t \in Threads : pc[t] \in {"user", "agent", "bill", "record", "fresh"}}
AdmittedTo(s) == {t \in Admitted : sid[t] = s}

\* The most the enforcer can be overshot: the cost of one request for every
\* other thread that was admitted on the same reading of the ledger.
Overshoot(budget) ==
    budget - Estimate + MaxCost * Cardinality(Threads)

\* The day's spending, with what the admitted requests may still add, never
\* passes the daily budget by more than one request per concurrent thread.
DailyBound ==
    Estimate <= DailyBudget
        => daily + MaxCost * Cardinality(Admitted) <= Overshoot(DailyBudget)

\* The same for a session's spending and its budget.
SessionBound ==
    \A s \in Sids :
        spent[s] + MaxCost * Cardinality(AdmittedTo(s))
            <= Overshoot(SessionBudget)

\* What the first n objects were billed, session by session.
BilledUpTo[n \in 0..MaxTurns] ==
    IF n = 0 THEN [s \in Sids |-> 0]
    ELSE [BilledUpTo[n - 1] EXCEPT ![owner[n]] = @ + billed[n]]

\* The costs of the session that are charged and not yet recorded, in units.
UnderWay(s) ==
    Cardinality({unit \in Threads \X (1..MaxCost) :
                    sid[unit[1]] = s /\ unit[2] <= due[unit[1]]})

\* Wherever threads are interrupted, and whichever Session objects the table
\* has dropped, replaced or brought back: with what is under way the enforcer's
\* record of a session is what all its Session objects were billed.  It is never
\* more, and less only after two invocations were making the first record of
\* the session at once.
LedgerExact ==
    \A s \in Sids :
        /\ spent[s] + UnderWay(s) <= BilledUpTo[MaxTurns][s]
        /\ s \notin raced => spent[s] + UnderWay(s) = BilledUpTo[MaxTurns][s]

Replies(o) == {msgs[o][k].turn :
                 k \in {j \in DOMAIN msgs[o] : msgs[o][j].role = "assistant"}}

\* In an orderly behaviour a session in the table holds the reply of every turn
\* that was saved to it and not dropped with it: concurrent invocations never
\* overwrite each other.
NoLostTurn ==
    orderly =>
        \A s \in Sids :
            table[s] # NoObject => kept[s] \subseteq Replies(table[s])

\* In an orderly behaviour a deleted or expired session comes back only when a
\* new invocation asks for it, never because an old one saves what it holds.
RevivedOnlyByRequest ==
    [][orderly => \A s \in Sids :
          table[s] = NoObject /\ table'[s] # NoObject
            => \E t \in Threads : pc[t] = "idle" /\ pc'[t] = "check"
                                  /\ sid'[t] = s]_vars
==============================================================================
