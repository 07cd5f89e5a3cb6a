----------------------------- MODULE Checkpoint -----------------------------
(***************************************************************************)
(* CheckpointManager of lifecycle/checkpoint.py: an execution of several   *)
(* steps, carried from one time-limited invocation to the next in a file.  *)
(*                                                                         *)
(* Invocations run in containers.  Each loads the checkpoint, performs     *)
(* steps while should_checkpoint says there is time, then saves and ends;  *)
(* after the last step it calls complete.  The steps, and who starts the   *)
(* next invocation, are the caller's.  An invocation may be killed at any  *)
(* moment, be killed by the time limit, fail to save, or run beside        *)
(* another one of the same execution; faults and overlaps count these.     *)
(***************************************************************************)
EXTENDS Integers, FiniteSets

CONSTANTS Containers,
          Steps,       \* steps of the execution
          Budget,      \* time an invocation has
          Buffer,      \* timeout_buffer_ms, in the same unit
          MaxFaults    \* bound: faults and overlapping starts

ASSUME CheckpointAssumption ==
    /\ Steps \in Nat /\ Budget \in Nat /\ Buffer \in Nat /\ MaxFaults \in Nat
    /\ Buffer < Budget
    /\ IsFiniteSet(Containers)

VARIABLES pc, at, left,        \* per container: statement, step, time left
          held,                \* containers whose open file is the stored one
          file,                \* the stored checkpoint
          autoCleanup,         \* fixed: auto_cleanup
          completed,           \* complete() has returned
          times,               \* history: how often each step was performed
          faults, overlaps     \* history: what went wrong so far

outcome == <<completed, times>>
trouble == <<faults, overlaps>>
vars == <<pc, at, left, held, file, autoCleanup, outcome, trouble>>

Indices == 0..(Steps - 1)

Absent == [kind |-> "absent", step |-> 0]
Blank == [kind |-> "blank", step |-> 0]    \* open has truncated it
Torn == [kind |-> "torn", step |-> 0]      \* no JSON document
Whole(k) == [kind |-> "whole", step |-> k]

Init ==
    /\ pc = [i \in Containers |-> "idle"]
    /\ at = [i \in Containers |-> 0]
    /\ left = [i \in Containers |-> 0]
    /\ held = {}
    /\ file = Absent
    /\ autoCleanup \in BOOLEAN
    /\ completed = FALSE
    /\ times = [k \in Indices |-> 0]
    /\ faults = 0 /\ overlaps = 0

Room == faults + overlaps < MaxFaults
Fault == Room /\ faults' = faults + 1 /\ UNCHANGED overlaps

Running == {i \in Containers : pc[i] # "idle"}

\* The invocation in container i is over: returned, raised or killed.
End(i) ==
    /\ pc' = [pc EXCEPT ![i] = "idle"]
    /\ at' = [at EXCEPT ![i] = 0]
    /\ left' = [left EXCEPT ![i] = 0]

Goto(i, label) ==
    /\ pc' = [pc EXCEPT ![i] = label]
    /\ UNCHANGED <<at, left>>

-----------------------------------------------------------------------------
(* An invocation.                                                          *)

LoadedNext == IF file.kind = "whole" THEN file.step + 1 ELSE 0

\* load: a file that is missing or cannot be parsed counts as no checkpoint.
Loaded == IF file.kind = "whole" THEN file.step ELSE 0

StartRaising(i) ==
    /\ pc[i] = "idle"
    /\ ~completed
    /\ file.kind \in {"absent", "whole"}
    /\ IF Running = {} THEN UNCHANGED overlaps
                       ELSE Room /\ overlaps' = overlaps + 1
    /\ pc' = [pc EXCEPT ![i] = "work"]
    /\ at' = [at EXCEPT ![i] = Loaded]
    /\ left' = [left EXCEPT ![i] = Budget]
    /\ UNCHANGED <<held, file, autoCleanup, outcome, faults>>

\* start_execution and load.
Start(i) ==
    /\ pc[i] = "idle"
    /\ ~completed
    /\ IF Running = {} THEN UNCHANGED overlaps
                       ELSE Room /\ overlaps' = overlaps + 1
    /\ pc' = [pc EXCEPT ![i] = "work"]
    /\ at' = [at EXCEPT ![i] = Loaded]
    /\ left' = [left EXCEPT ![i] = Budget]
    /\ UNCHANGED <<held, file, autoCleanup, outcome, faults>>

ShouldCheckpointLate(i) == left[i] < Buffer

ShouldCheckpoint(i) == left[i] <= Buffer

\* The next step, when there is time for it.  A step longer than the buffer is
\* a fault; one that reaches the time limit is killed, done or not.
Work(i) ==
    /\ pc[i] = "work"
    /\ at[i] < Steps
    /\ ~ShouldCheckpoint(i)
    /\ \E duration \in 1..Budget :
          /\ IF duration > Buffer THEN Fault ELSE UNCHANGED trouble
          /\ IF duration < left[i]
             THEN /\ times' = [times EXCEPT ![at[i]] = @ + 1]
                  /\ at' = [at EXCEPT ![i] = @ + 1]
                  /\ left' = [left EXCEPT ![i] = @ - duration]
                  /\ UNCHANGED pc
             ELSE /\ \/ times' = [times EXCEPT ![at[i]] = @ + 1]
                     \/ UNCHANGED times
                  /\ End(i)
    /\ UNCHANGED <<held, file, autoCleanup, completed>>

Saving(i) == pc[i] = "work" /\ at[i] < Steps /\ ShouldCheckpoint(i)

\* save raises before it opens the file (json.dumps, mkdir, open) and reports
\* a failure.
SaveFails(i) ==
    /\ Saving(i)
    /\ Fault
    /\ End(i)
    /\ UNCHANGED <<held, file, autoCleanup, outcome>>

\* write_text opens the file, which makes or truncates it ...
OpenFile(i) ==
    /\ Saving(i)
    /\ file' = Blank
    /\ held' = held \cup {i}
    /\ Goto(i, "write")
    /\ UNCHANGED <<autoCleanup, outcome, trouble>>

\* What is in the file when container i has written: bytes of two that write
\* at the same time may be mixed, and an unlinked file is nowhere.
Written(i) ==
    IF i \notin held THEN {file}
    ELSE IF file = Blank /\ held = {i} THEN {Whole(at[i])}
    ELSE {Whole(at[i]), Torn}

\* ... and writes the document.  save reports success.
WriteFile(i) ==
    /\ pc[i] = "write"
    /\ file' \in Written(i)
    /\ held' = held \ {i}
    /\ End(i)
    /\ UNCHANGED <<autoCleanup, outcome, trouble>>

\* The document was not written, or not to its end.
WriteFails(i) ==
    /\ pc[i] = "write"
    /\ Fault
    /\ file' \in IF i \in held THEN {file, Torn} ELSE {file}
    /\ held' = held \ {i}
    /\ End(i)
    /\ UNCHANGED <<autoCleanup, outcome>>

CompleteKeeping(i) ==
    /\ pc[i] = "work" /\ at[i] = Steps
    /\ completed' = TRUE
    /\ End(i)
    /\ UNCHANGED <<held, file, autoCleanup, times, trouble>>

\* complete, and delete when it finds a file.
Complete(i) ==
    /\ pc[i] = "work" /\ at[i] = Steps
    /\ IF autoCleanup /\ file # Absent
       THEN Goto(i, "unlink") /\ UNCHANGED completed
       ELSE End(i) /\ completed' = TRUE
    /\ UNCHANGED <<held, file, autoCleanup, times, trouble>>

\* unlink raises when another invocation was faster.
Unlink(i) ==
    /\ pc[i] = "unlink"
    /\ completed' = (completed \/ file # Absent)
    /\ file' = Absent
    /\ held' = {}
    /\ End(i)
    /\ UNCHANGED <<autoCleanup, times, trouble>>

\* The process is killed where it stands; a write may just have been finished.
Crash(i) ==
    /\ pc[i] # "idle"
    /\ Fault
    /\ file' \in IF i \in held THEN Written(i) \cup {file, Torn} ELSE {file}
    /\ held' = held \ {i}
    /\ End(i)
    /\ UNCHANGED <<autoCleanup, outcome>>

InvocationStep(i) ==
    \/ Work(i) \/ SaveFails(i) \/ OpenFile(i) \/ WriteFile(i)
    \/ WriteFails(i) \/ Complete(i) \/ Unlink(i)

Next == \E i \in Containers : Start(i) \/ InvocationStep(i) \/ Crash(i)

Spec == Init /\ [][Next]_vars

\* An invocation that runs goes on, and as long as the execution is not
\* completed somebody invokes it again; nothing makes a fault happen.
Fairness ==
    /\ WF_vars(Running = {} /\ \E i \in Containers : Start(i))
    /\ \A i \in Containers : WF_vars(InvocationStep(i))

FairSpec == Spec /\ Fairness

-----------------------------------------------------------------------------
(* Properties.                                                             *)

\* The types of the invocations' and the file's variables.
TypeOK ==
    /\ pc \in [Containers -> {"idle", "work", "write", "unlink"}]
    /\ at \in [Containers -> 0..Steps]
    /\ left \in [Containers -> 0..Budget]
    /\ held \in SUBSET Containers
    /\ file \in {Absent, Blank, Torn} \cup {Whole(k) : k \in 0..Steps}
    /\ autoCleanup \in BOOLEAN /\ completed \in BOOLEAN
    /\ times \in [Indices -> Nat]
    /\ faults \in Nat /\ overlaps \in Nat

Performed(k) == \A j \in Indices : j < k => times[j] > 0

\* However invocations are killed, fail to save or overlap, none of them and
\* no checkpoint is ever past a step that was not performed, and an execution
\* is completed only when all were.
NoStepSkipped ==
    /\ \A i \in Containers : Performed(at[i])
    /\ Performed(file.step)
    /\ completed => Performed(Steps)

\* No step is performed more often than the faults account for: one repetition
\* for each invocation that went wrong, two for each that ran beside another.
\* Where nothing goes wrong every step is performed once, so the time limit
\* never strikes before the checkpoint is saved.
RepeatsBounded ==
    \A k \in Indices : times[k] <= 1 + faults + 2 * overlaps

\* An execution whose invocations never overlapped leaves no checkpoint behind
\* for another one of the same id to resume from.
NothingLeftBehind ==
    completed /\ autoCleanup /\ overlaps = 0 => file = Absent

\* Unless its containers go on failing for ever the execution is completed: a
\* checkpoint that was torn is started over, not stumbled upon again.
Finishes == <>completed
==============================================================================
