----------------------------- MODULE ToolSandbox -----------------------------
(***************************************************************************)
(* PolicyBasedSandbox and ResourceLimitedSandbox of tools/resource_limits. *)
(* Each call runs its tool in a thread of its own, waits for it for a      *)
(* limited time and reports what it finds.  A thread that is not done by   *)
(* then is not stopped: it goes on beside later calls.                     *)
(***************************************************************************)
EXTENDS Integers, ToolNames

CONSTANTS Callers,    \* threads that call execute
          Threads,    \* bound: names of tool threads, reused when dead
          NoThread

ASSUME SandboxAssumption == NoThread \notin Threads

Policies == {"none", "enabled", "disabled"}

VARIABLES policy,    \* _policies, by tool
          step,      \* per caller: where its call is
          worker,    \* per caller: the thread it started
          thread,    \* per thread: running, ending, dead or unused
          overdue    \* history: threads whose call has reported a timeout

calls == <<step, worker>>
sandbox == <<policy, calls, thread, overdue>>

SandboxInit ==
    /\ policy = [x \in Tools |-> "none"]
    /\ step = [c \in Callers |-> "idle"]
    /\ worker = [c \in Callers |-> NoThread]
    /\ thread = [r \in Threads |-> "unused"]
    /\ overdue = {}

\* add_policy.
AddPolicy(x, p) ==
    /\ policy' = [policy EXCEPT ![x] = p]
    /\ UNCHANGED <<calls, thread, overdue>>

-----------------------------------------------------------------------------
(* The caller's side of execute.                                           *)

\* The call is over: it has returned or raised.
Leave(c) ==
    /\ step' = [step EXCEPT ![c] = "idle"]
    /\ worker' = [worker EXCEPT ![c] = NoThread]

\* The name of a dead thread is free again.
Forget(r) ==
    /\ thread' = [thread EXCEPT ![r] = "unused"]
    /\ overdue' = overdue \ {r}

StartThread(c) ==
    /\ \E r \in Threads :
          /\ thread[r] = "unused"
          /\ thread' = [thread EXCEPT ![r] = "running"]
          /\ worker' = [worker EXCEPT ![c] = r]
    /\ step' = [step EXCEPT ![c] = "joining"]
    /\ UNCHANGED overdue

\* PolicyBasedSandbox.execute, up to the join.
Execute(c, x) ==
    /\ IF policy[x] = "disabled"
       THEN Leave(c) /\ UNCHANGED <<thread, overdue>>
       ELSE StartThread(c)
    /\ UNCHANGED policy

\* execute_with_budget, up to the join.  With no time left the new limits are
\* refused, and the call raises before the tool is started.
ExecuteWithBudget(c) ==
    /\ \E remaining \in {"none", "some"} :
          IF remaining = "none"
          THEN Leave(c) /\ UNCHANGED <<thread, overdue>>
          ELSE StartThread(c)
    /\ UNCHANGED policy

JoinForever(c) ==
    /\ step[c] = "joining"
    /\ thread[worker[c]] = "dead"
    /\ step' = [step EXCEPT ![c] = "joined"]
    /\ UNCHANGED <<policy, worker, thread, overdue>>

\* join returns: the thread is dead or the time is up.
Join(c) ==
    /\ step[c] = "joining"
    /\ step' = [step EXCEPT ![c] = "joined"]
    /\ UNCHANGED <<policy, worker, thread, overdue>>

\* thread.is_alive(): a thread is, for a while after its tool has ended.
IsAlive(r) == thread[r] \in {"running", "ending"}

\* Execute returns its result, or raises because on_limit_exceeded does; from
\* then on nobody looks at the thread.
Report(c) ==
    /\ step[c] = "joined"
    /\ IF IsAlive(worker[c])
       THEN overdue' = overdue \cup {worker[c]} /\ UNCHANGED thread
       ELSE Forget(worker[c])
    /\ Leave(c)
    /\ UNCHANGED policy

-----------------------------------------------------------------------------
(* The tool's thread.                                                      *)

\* target: the tool returns or raises, and its holder is filled.
ToolEnds(r) ==
    /\ thread[r] = "running"
    /\ thread' = [thread EXCEPT ![r] = "ending"]
    /\ UNCHANGED <<policy, calls, overdue>>

Watched == {worker[c] : c \in Callers}

ThreadDies(r) ==
    /\ thread[r] = "ending"
    /\ IF r \in Watched
       THEN /\ thread' = [thread EXCEPT ![r] = "dead"]
            /\ UNCHANGED overdue
       ELSE Forget(r)
    /\ UNCHANGED <<policy, calls>>

ThreadStep(r) == ToolEnds(r) \/ ThreadDies(r)

SandboxTypeOK ==
    /\ policy \in [Tools -> Policies]
    /\ step \in [Callers -> {"idle", "admitted", "joining", "joined"}]
    /\ worker \in [Callers -> Threads \cup {NoThread}]
    /\ thread \in [Threads -> {"unused", "running", "ending", "dead"}]
    /\ overdue \in SUBSET Threads
    /\ \A c \in Callers : step[c] \in {"joining", "joined"}
                             <=> worker[c] \in Threads
==============================================================================
