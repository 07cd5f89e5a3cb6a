------------------------------ MODULE Shutdown ------------------------------
(***************************************************************************)
(* GracefulShutdown, RequestTracker, SessionState and HealthStatus of      *)
(* lifecycle/shutdown.py, run by several threads of one process.           *)
(*                                                                         *)
(* A frame is one activation of the code: a worker thread that serves one  *)
(* request, a thread that calls shutdown(), and the signal handler, which  *)
(* runs on top of the frame of the main thread and suspends it until it    *)
(* returns.  pc[f] names the statement frame f is at.                      *)
(*                                                                         *)
(* The tracker's threading.Lock is not reentrant.  Its critical sections   *)
(* are single steps, except those of the main thread: there the handler    *)
(* may strike between taking the lock (Take) and the section's end, and    *)
(* find it held by the frame it has suspended.                             *)
(***************************************************************************)
EXTENDS Integers, FiniteSets, Sequences

CONSTANTS Workers,        \* threads that serve one request each
          Callers,        \* threads that call shutdown() once each
          Signal,         \* the frame of the signal handler
          Main,           \* the frame the handler interrupts
          NoFrame,        \* owner of a free lock
          DrainTimeout,   \* drain_timeout, in units of the poll interval
          MaxSignals,     \* bound: signals delivered to the process
          HooksMayRaise   \* may on_shutdown / on_drained raise?

ASSUME FramesAssumption ==
    /\ Workers \cap Callers = {}
    /\ Signal \notin Workers \cup Callers
    /\ NoFrame \notin Workers \cup Callers \cup {Signal}
    /\ Main # Signal
    /\ IsFiniteSet(Workers)
ASSUME BoundsAssumption ==
    DrainTimeout \in Nat /\ MaxSignals \in Nat /\ HooksMayRaise \in BOOLEAN

Initiators == Callers \cup {Signal}
Frames == Workers \cup Initiators

\* Statements that run inside "with self._lock".
Critical == {"acquire", "release", "reject", "count", "poll", "report"}

WorkerLabels ==
    {"test", "acquire", "serving", "release", "reject", "served", "refused"}
InitLabels == {"check", "set", "announce", "count", "hook"}
CallerLabels == InitLabels \cup
    {"out", "poll", "sleep", "onDrained", "persist", "open", "write", "stop",
     "report", "returned", "failed"}

\* The members of ShutdownState, in the order the lifecycle goes through them.
States == {"running", "draining", "persisting", "stopped"}
Rank == [running |-> 1, draining |-> 2, persisting |-> 3, stopped |-> 4]

VARIABLES pc, lock,
          active, completed, rejected,   \* RequestTracker
          event,                         \* _shutdown_event
          health,                        \* _health_status: state, accepting
          elapsed, drained,              \* per caller of shutdown()
          data, snap, disk,              \* SessionState and its file
          late,                          \* history: counted after the event
          signals                        \* signals delivered so far

tracker == <<active, completed, rejected>>
session == <<data, snap, disk>>
waiting == <<elapsed, drained>>
vars == <<pc, lock, tracker, event, health, waiting, session, late,
          signals>>

InFlight == {w \in Workers : pc[w] \in {"serving", "release"}}
Pending == {w \in Workers : pc[w] = "acquire"}
Served == {w \in Workers : pc[w] = "served"}
Refused == {w \in Workers : pc[w] = "refused"}

Init ==
    /\ pc = [f \in Frames |-> IF f \in Workers THEN "test"
                              ELSE IF f = Signal THEN "idle" ELSE "out"]
    /\ lock = NoFrame
    /\ active = 0 /\ completed = 0 /\ rejected = 0
    /\ event = FALSE
    /\ health = [state |-> "running", accepting |-> TRUE]
    /\ elapsed = [c \in Callers |-> 0]
    /\ drained = [c \in Callers |-> "none"]
    /\ data = {}
    /\ snap = [c \in Callers |-> {}]
    /\ disk = [whole |-> TRUE, data |-> {}]
    /\ late = {}
    /\ signals = 0

\* The handler runs in the main thread: until it returns, the frame it
\* interrupted does not move.
Interrupted(f) == f = Main /\ pc[Signal] # "idle"

At(f, label) == pc[f] = label /\ ~Interrupted(f)
Goto(f, label) == pc' = [pc EXCEPT ![f] = label]

\* with self._lock, in the main thread: entered only when nobody holds it.
Take(f) ==
    /\ f = Main
    /\ pc[f] \in Critical /\ ~Interrupted(f)
    /\ lock = NoFrame
    /\ lock' = f
    /\ UNCHANGED <<pc, tracker, event, health, waiting, session, late,
                   signals>>

\* The critical section at label and the release of the lock.
Section(f, label) ==
    /\ At(f, label)
    /\ lock = IF f = Main THEN f ELSE NoFrame
    /\ lock' = NoFrame

-----------------------------------------------------------------------------
(* Worker threads: try_accept_request, the request, complete_request.      *)

TestUnguarded(w) ==
    /\ At(w, "test")
    /\ Goto(w, "acquire")
    /\ UNCHANGED <<lock, tracker, event, health, waiting, session,
                   late, signals>>

\* try_accept_request reads the event outside the tracker's lock.
Test(w) ==
    /\ At(w, "test")
    /\ Goto(w, IF event THEN "reject" ELSE "acquire")
    /\ UNCHANGED <<lock, tracker, event, health, waiting, session,
                   late, signals>>

\* acquire never looks at the event: it always accepts.
Acquire(w) ==
    /\ Section(w, "acquire")
    /\ active' = active + 1
    /\ late' = IF event THEN late \cup {w} ELSE late
    /\ Goto(w, "serving")
    /\ UNCHANGED <<completed, rejected, event, health, waiting,
                   session, signals>>

Reject(w) ==
    /\ Section(w, "reject")
    /\ rejected' = rejected + 1
    /\ Goto(w, "refused")
    /\ UNCHANGED <<active, completed, event, health, waiting, session,
                   late, signals>>

\* The request's own work leaves a key in the session state, if it likes.
SetState(w) ==
    /\ At(w, "serving")
    /\ w \notin data
    /\ data' = data \cup {w}
    /\ UNCHANGED <<pc, lock, tracker, event, health, waiting, snap,
                   disk, late, signals>>

Finish(w) ==
    /\ At(w, "serving")
    /\ Goto(w, "release")
    /\ UNCHANGED <<lock, tracker, event, health, waiting, session,
                   late, signals>>

ReleaseForgetful(w) ==
    /\ Section(w, "release")
    /\ completed' = completed + 1
    /\ Goto(w, "served")
    /\ UNCHANGED <<active, rejected, event, health, waiting, session,
                   late, signals>>

Release(w) ==
    /\ Section(w, "release")
    /\ active' = active - 1
    /\ completed' = completed + 1
    /\ Goto(w, "served")
    /\ UNCHANGED <<rejected, event, health, waiting, session, late,
                   signals>>

-----------------------------------------------------------------------------
(* initiate_shutdown, by a caller of shutdown() or by the signal handler.  *)

\* Where control goes when initiate_shutdown returns.
AfterInitiate(i) == IF i = Signal THEN "idle" ELSE "poll"

Receive ==
    /\ pc[Signal] = "idle"
    /\ signals < MaxSignals
    /\ signals' = signals + 1
    /\ Goto(Signal, "check")
    /\ UNCHANGED <<lock, tracker, event, health, waiting, session,
                   late>>

CallShutdown(c) ==
    /\ At(c, "out")
    /\ Goto(c, "check")
    /\ UNCHANGED <<lock, tracker, event, health, waiting, session,
                   late, signals>>

CheckEventAlways(i) ==
    /\ At(i, "check")
    /\ Goto(i, "set")
    /\ UNCHANGED <<lock, tracker, event, health, waiting, session,
                   late, signals>>

CheckEvent(i) ==
    /\ At(i, "check")
    /\ Goto(i, IF event THEN AfterInitiate(i) ELSE "set")
    /\ UNCHANGED <<lock, tracker, event, health, waiting, session,
                   late, signals>>

SetEvent(i) ==
    /\ At(i, "set")
    /\ event' = TRUE
    /\ Goto(i, "announce")
    /\ UNCHANGED <<lock, tracker, health, waiting, session, late,
                   signals>>

AnnounceQuietly(i) ==
    /\ At(i, "announce")
    /\ health' = [health EXCEPT !.state = "draining"]
    /\ Goto(i, "count")
    /\ UNCHANGED <<lock, tracker, event, waiting, session, late,
                   signals>>

Announce(i) ==
    /\ At(i, "announce")
    /\ health' = [state |-> "draining", accepting |-> FALSE]
    /\ Goto(i, "count")
    /\ UNCHANGED <<lock, tracker, event, waiting, session, late,
                   signals>>

\* The log line formats active_count, which takes the tracker's lock.
Count(i) ==
    /\ Section(i, "count")
    /\ Goto(i, "hook")
    /\ UNCHANGED <<tracker, event, health, waiting, session, late,
                   signals>>

OnShutdown(i) ==
    /\ At(i, "hook")
    /\ \/ Goto(i, AfterInitiate(i))
       \/ HooksMayRaise /\ i \in Callers /\ Goto(i, "failed")
    /\ UNCHANGED <<lock, tracker, event, health, waiting, session, late,
                   signals>>

-----------------------------------------------------------------------------
(* The rest of shutdown(): wait_for_drain, persist_state, the summary.     *)

\* is_drained with an off-by-one, for the runs that must notice it.
PollTooEager(c) ==
    /\ Section(c, "poll")
    /\ \/ /\ active <= 1
          /\ drained' = [drained EXCEPT ![c] = "yes"]
          /\ Goto(c, "onDrained")
       \/ /\ active > 1 /\ elapsed[c] >= DrainTimeout
          /\ drained' = [drained EXCEPT ![c] = "no"]
          /\ Goto(c, "persist")
       \/ /\ active > 1 /\ elapsed[c] < DrainTimeout
          /\ Goto(c, "sleep")
          /\ UNCHANGED drained
    /\ UNCHANGED <<tracker, event, health, elapsed, session, late,
                   signals>>

Poll(c) ==
    /\ Section(c, "poll")
    /\ \/ /\ active <= 0
          /\ drained' = [drained EXCEPT ![c] = "yes"]
          /\ Goto(c, "onDrained")
       \/ /\ active > 0 /\ elapsed[c] >= DrainTimeout
          /\ drained' = [drained EXCEPT ![c] = "no"]
          /\ Goto(c, "persist")
       \/ /\ active > 0 /\ elapsed[c] < DrainTimeout
          /\ Goto(c, "sleep")
          /\ UNCHANGED drained
    /\ UNCHANGED <<tracker, event, health, elapsed, session, late,
                   signals>>

SleepWithoutClock(c) ==
    /\ At(c, "sleep")
    /\ Goto(c, "poll")
    /\ UNCHANGED <<lock, tracker, event, health, waiting, session,
                   late, signals>>

\* One poll interval, or as much longer as the scheduler likes.
Sleep(c) ==
    /\ At(c, "sleep")
    /\ \E t \in (elapsed[c] + 1)..DrainTimeout :
          elapsed' = [elapsed EXCEPT ![c] = t]
    /\ Goto(c, "poll")
    /\ UNCHANGED <<lock, tracker, event, health, drained, session, late,
                   signals>>

OnDrained(c) ==
    /\ At(c, "onDrained")
    /\ \/ Goto(c, "persist")
       \/ HooksMayRaise /\ Goto(c, "failed")
    /\ UNCHANGED <<lock, tracker, event, health, waiting, session,
                   late, signals>>

PersistState(c) ==
    /\ At(c, "persist")
    /\ health' = [health EXCEPT !.state = "persisting"]
    /\ Goto(c, "open")
    /\ UNCHANGED <<lock, tracker, event, waiting, session, late,
                   signals>>

\* open(target, "w") truncates what an earlier shutdown may have written.
OpenFile(c) ==
    /\ At(c, "open")
    /\ snap' = [snap EXCEPT ![c] = data]
    /\ disk' = [whole |-> FALSE, data |-> {}]
    /\ Goto(c, "write")
    /\ UNCHANGED <<lock, tracker, event, health, waiting, data, late,
                   signals>>

OthersWriting(c) == \E d \in Callers \ {c} : pc[d] = "write"

WriteFileStale(c) ==
    /\ At(c, "write")
    /\ disk' = [whole |-> TRUE, data |-> snap[c] \cap disk.data]
    /\ snap' = [snap EXCEPT ![c] = {}]
    /\ Goto(c, "stop")
    /\ UNCHANGED <<lock, tracker, event, health, waiting, data, late,
                   signals>>

\* json.dump iterates over the live dictionary.  A key that appears during
\* the iteration raises RuntimeError and leaves a truncated file; one that
\* appears before or after it is in the file or not.  Two writers of one path
\* may leave a mixture.
WriteFile(c) ==
    /\ At(c, "write")
    /\ \/ \E seen \in {snap[c], data} :
             /\ disk' = [whole |-> TRUE, data |-> seen]
             /\ Goto(c, "stop")
       \/ /\ OthersWriting(c)
          /\ disk' = [whole |-> FALSE, data |-> {}]
          /\ Goto(c, "stop")
       \/ /\ data # snap[c]
          /\ Goto(c, "failed")
          /\ UNCHANGED disk
    /\ snap' = [snap EXCEPT ![c] = {}]
    /\ UNCHANGED <<lock, tracker, event, health, waiting, data, late,
                   signals>>

StopSilently(c) ==
    /\ At(c, "stop")
    /\ Goto(c, "report")
    /\ UNCHANGED <<lock, tracker, event, health, waiting, session, late,
                   signals>>

Stop(c) ==
    /\ At(c, "stop")
    /\ health' = [health EXCEPT !.state = "stopped"]
    /\ Goto(c, "report")
    /\ UNCHANGED <<lock, tracker, event, waiting, session, late,
                   signals>>

\* The summary reads the tracker's counters under the lock.
Report(c) ==
    /\ Section(c, "report")
    /\ Goto(c, "returned")
    /\ UNCHANGED <<tracker, event, health, waiting, session, late,
                   signals>>

-----------------------------------------------------------------------------
InitiateStep(i) ==
    CheckEvent(i) \/ SetEvent(i) \/ Announce(i) \/ Count(i) \/ OnShutdown(i)

ShutdownStep(c) ==
    \/ Poll(c) \/ Sleep(c) \/ OnDrained(c)
    \/ PersistState(c) \/ OpenFile(c) \/ WriteFile(c) \/ Stop(c) \/ Report(c)

Next ==
    \/ \E f \in Frames : Take(f)
    \/ \E w \in Workers : Test(w) \/ Acquire(w) \/ Reject(w) \/ SetState(w)
                          \/ Finish(w) \/ Release(w)
    \/ Receive
    \/ \E c \in Callers : CallShutdown(c) \/ ShutdownStep(c)
    \/ \E i \in Initiators : InitiateStep(i)

Spec == Init /\ [][Next]_vars

\* A thread that is running code goes on running it.  Nothing makes a request
\* arrive or finish, makes anyone call shutdown() or sends a signal.
Fairness ==
    /\ \A f \in Frames : WF_vars(Take(f))
    /\ \A w \in Workers : WF_vars(Acquire(w) \/ Reject(w) \/ Release(w))
    /\ \A i \in Initiators : WF_vars(InitiateStep(i))
    /\ \A c \in Callers : WF_vars(ShutdownStep(c))

FairSpec == Spec /\ Fairness

-----------------------------------------------------------------------------
(* Properties.                                                             *)

\* The types of the variables of the shutdown machinery.
TypeOK ==
    /\ pc \in [Frames -> WorkerLabels \cup CallerLabels \cup {"idle"}]
    /\ \A w \in Workers : pc[w] \in WorkerLabels
    /\ \A c \in Callers : pc[c] \in CallerLabels
    /\ pc[Signal] \in InitLabels \cup {"idle"}
    /\ lock \in Frames \cup {NoFrame}
    /\ active \in Int /\ completed \in Nat /\ rejected \in Nat
    /\ event \in BOOLEAN
    /\ health \in [state : States, accepting : BOOLEAN]
    /\ elapsed \in [Callers -> 0..DrainTimeout]
    /\ drained \in [Callers -> {"none", "yes", "no"}]
    /\ data \in SUBSET Workers
    /\ snap \in [Callers -> SUBSET Workers]
    /\ disk \in [whole : BOOLEAN, data : SUBSET Workers]
    /\ late \in SUBSET Workers
    /\ signals \in Nat

\* The tracker's three counters agree at every moment with what the worker
\* threads have really done, whoever holds the lock (RequestTracker).
Accounting ==
    /\ active = Cardinality(InFlight)
    /\ completed = Cardinality(Served)
    /\ rejected = Cardinality(Refused)

\* Nobody waits for the drain, and no verdict on it is given, before the event
\* is set; and a caller's verdict is given once, by its own polling loop.
DrainOrder ==
    /\ \A i \in Initiators : pc[i] \in {"announce", "count", "hook"} => event
    /\ \A c \in Callers :
          /\ pc[c] \in {"poll", "sleep"} \/ drained[c] # "none" => event
          /\ pc[c] \in InitLabels \cup {"out", "poll", "sleep"}
                => drained[c] = "none"

\* Once wait_for_drain has said "drained", a request still in flight can only
\* be one that had read the event before it was set and was counted after.
DrainedOnlyLate ==
    \A c \in Callers : drained[c] = "yes" => InFlight \subseteq late

\* When the only shutdown() that writes the file says it drained and gets past
\* persist_state, the file is whole and holds the state of every request that
\* was counted before the shutdown began.
PersistedWhenDrained ==
    \A c \in Callers :
        (/\ drained[c] = "yes"
         /\ pc[c] \in {"stop", "report", "returned"}
         /\ \A d \in Callers \ {c} :
                pc[d] \notin {"write", "stop", "report", "returned", "failed"})
        => disk.whole /\ data \ late \subseteq disk.data

\* Two overlapping calls of shutdown() move the health state back and forth, but
\* once every call that was made has returned it is "stopped" for good.
StoppedAtLast ==
    (/\ \E c \in Callers : pc[c] = "returned"
     /\ \A c \in Callers : pc[c] \in {"out", "returned"})
        => health.state = "stopped"

\* The health state only moves forward (running, draining, persisting,
\* stopped), whatever signal interrupts the thread that shuts down.
HealthMonotone == [][Rank[health.state] <= Rank[health'.state]]_vars

\* The health endpoint stops advertising the process after the event is set.
HealthFollowsEvent ==
    event ~> (~health.accepting /\ health.state # "running")

\* Every call of shutdown() comes to an end, even with requests that never
\* finish: at the latest when the drain times out.
ShutdownReturns ==
    \A c \in Callers : pc[c] = "check" ~> pc[c] \in {"returned", "failed"}

\* Shutdown implements the gate of module Drain.
Gate == INSTANCE Drain WITH Requests <- Workers, Waiters <- Callers,
                            open <- ~event, admitted <- Pending,
                            inside <- InFlight, verdict <- drained
ImplementsDrain == Gate!Spec
=============================================================================
