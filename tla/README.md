# AgentDeploy in TLA+

A model of the parts of AgentDeploy (`src/src/agentdeploy/`) that keep state and
are used by several threads, tasks, processes or requests at once: TLA+ modules
translated from the code, TLC runs on small instances, and TLAPS proofs that
hold for every instance. Paths below are relative to `src/src/agentdeploy/`
unless they say otherwise. `PROJECT.json` maps every definition to the lines it
stands for, and lists the runs, the hazards and the findings.

## 1. Inventory of the system

The package is a set of components with few calls between them: only the
runtime composes others (session manager, cost enforcer, tool registry); the
rest are used directly by an application.

| Component | State | Operations | What is hard |
| --- | --- | --- | --- |
| graceful shutdown (`lifecycle/shutdown.py`) | request counters under a lock, an event, a health state, the session data and its file | accept and complete a request, initiate, wait for the drain, persist, stop; a signal handler | check-then-act across threads, a handler that interrupts a lock's holder, timeout against a late request, several shutdowns |
| runtime (`core/runtime.py`) | the objects it composes | `invoke`: session, budget check, agent, record, save | nothing is locked; invocations overlap; the agent may raise or never return |
| session manager (`session/manager.py`) | id → `Session` | get or create, add a message, save, delete, expire | objects outlive their table entry |
| cost enforcer (`cost/enforcer.py`) | spending per session and per day | check, record, reset | check and spending are far apart |
| session persistence (`sessions/persistence.py`) | a DynamoDB table | create, get, update, terminate, extend, delete, list, clean up | read-change-write without conditions, by several processes; time |
| session forking (`sessions/forking.py`) | forks with their branches | fork, complete, fail, cancel, merge, clean up | late completions, repeated merges, slots |
| versions (`core/versioning.py`) | a list, the live id, the canary id | deploy, canary, promote, roll back, route | long sequences of legal calls |
| websockets (`streaming/websocket.py`) | connections, active streams, one generator per stream | connect, disconnect, messages, `stream_tokens` | anything may happen at an await or a yield |
| sliding-window limiter (`ratelimit/sliding_window.py`) | counters per window, rules | check, consume, reset, add a rule | arithmetic at window edges |
| tenant limiter (`tenants/rate_limiter.py`) | a log of instants per tenant | check, set a limit, reset | window edges, limits that change |
| checkpoints (`lifecycle/checkpoint.py`) | one file per execution | start, load, save, complete, delete | a crash inside a save, two invocations of one execution, time that runs out |
| resource limits (`tools/resource_limits.py`) | a policy table, a log | run a tool in a thread with a time limit | the thread outlives its limit |
| permissions (`tools/permissions.py`) | rules, call counts, audit log | grant, deny, check, revoke, reset the counts | rule order, expiry, counts that outlive rules |
| API keys (`auth/api_keys.py`) | keys with a status and an expiry, a list of ids per tenant | generate, validate, rotate, revoke, clean up | grace period against revocation, two tables |
| agent decorator, tool registry (`core/agent.py`, `tools/registry.py`) | none; schemas and a log of calls | make a runtime per call; register, call | a log that overlapping invocations share |
| memory strategies (`memory/strategies.py`) | a bounded list of messages | add, get the context | what is dropped when full |
| health probes (`health/probes.py`) | registered checks | run, aggregate | a check that outlives its timeout |
| export and import (`session/export_import.py`) | none (files) | export, import | what a round trip loses |
| tenants, tool sandbox, tracer, adapters, CLI, npm wrapper, benchmarks | tables and logs, or nothing | — | nothing a model would show |

What makes each modelled component correct:

* **shutdown**: counters that agree with the requests; a verdict "drained" that
  means it; a file that is whole; a health state that only moves forward and
  ends as stopped; an end, in any case.
* **runtime, sessions, costs**: no saved turn is lost, a deleted session stays
  deleted, a session's record says what its invocations were billed, budgets are
  overshot by no more than what was under way.
* **persistence**: updates are merged, deletion and termination are final,
  the clean-up takes only what expired, each up to the calls that were under way;
  nothing outlives the longest TTL.
* **forking**: finished branches are final, a merge settles, the winner wins,
  no running work is lost.
* **versions**: the traffic is whole, requests go to live versions, roll-back
  returns to the version that was live just before.
* **websockets**: table and states agree, limits hold, streams end when their
  connection does and not for any other reason but a second stream on it, and
  send what they took.
* **limiters**: a bound on what any window lets through; for the log, an exact
  decision.
* **checkpoints**: no step skipped, none repeated without a cause, nothing left
  behind, an execution that is completed in the end.
* **tools**: limits hold, a grant takes nothing away, every call ends whatever
  its tool does.
* **API keys**: a key is valid as long as promised, revocation reaches every key,
  timely rotation leaves no gap.

## 2. Modules and their correspondence to the code

### Shutdown (`Drain`, `Shutdown`, `MCShutdown`, `Shutdown_proofs`)

`Shutdown` has one *frame* per activation of the code: a worker thread that
serves one request (`try_accept_request` … `complete_request`), a thread that
calls `shutdown()`, and the signal handler. `pc[f]` is the statement the frame
is at. Two things decide what can interleave:

* the tracker's `threading.Lock`, whose critical sections are single steps
  (`Section`), and
* the signal handler, which runs *on top of* the main thread's frame. While it
  runs, that frame does not move (`Interrupted`); in the main thread taking the
  lock is therefore a step of its own (`Take`), so that the handler can strike
  with the lock taken. The constant `Main` says which frame the main thread
  runs: a caller of `shutdown()`, a request, or none of them.

`event`, `health`, `active`/`completed`/`rejected`, `data` and `disk` are
`_shutdown_event`, `_health_status`, the `RequestTracker`, and the session state
with its file. The two assignments of `Announce` are one step. `late` is
history: the requests counted after the event was set. `Drain` is the abstract
gate: a request passes the gate while it is open, enters at some later moment,
and a waiter may say "drained" only with nobody inside; `ImplementsDrain` is
the refinement.

### Runtime (`SessionIds`, `CostEnforcer`, `SessionManager`, `Runtime`, `MCRuntime`, `Runtime_proofs`)

`CostEnforcer` and `SessionManager` define the ledger and the table with one
operator per method; `Runtime` composes them: `invoke` is one step per call it
makes on the shared objects, numbered as in the code's comments. Turns are
invocations; a `Session` object is named by the turn that made it, because an
object may live on, held by an invocation, after the table has dropped or
replaced it. `kept[s]` is history: the turns saved to `s` and not dropped since.

The variable `orderly`, fixed at the start of a behaviour, tells two kinds of
behaviours apart. In those that are not orderly the interpreter may switch
threads inside `get_or_create`, `check_request` and `record_cost`, between a
look into a dictionary and the entry made after it (labels `create`, `cleanup`,
`unknown`, `fresh`), and sessions in use may expire or be deleted. In orderly
ones each call is one step, as when one event loop or one thread at a time
enters them, and only idle sessions go. Amounts are whole units.

A request is charged twice: to the `total_cost` of the object the invocation
holds (`Bill`, `billed[o]`) and then by `record_cost` to the enforcer's record of
the session (`Record`; when it is interrupted after it found no record,
`RecordNew` makes a fresh one, whatever another thread made meanwhile). `due[t]`
is what thread `t` has charged to the object and not yet to the record, and
`UnderWay(s)` its sum over the threads of a session. `raced` is history: the
sessions of which two threads were making the first record at once. `LedgerExact`
says of every behaviour, orderly or not, what the record and the objects of a
session have to do with each other, although the table may have dropped, replaced
or brought back those objects; `BilledUpTo` adds them up by session.

### Session persistence (`SessionPersistence`, `MCSessions`, `SessionPersistence_proofs`)

Each backend operation (`get_item`, `put_item`, `delete_item`, `scan`,
`batch_delete`) is one step; between two of them `rec[c]` holds what client `c`
read, and the table may change. Time counts fractions of a second (`Second`
units make one) because `to_dict` truncates `expires_at` to whole seconds.
`ctx` is the set of keys a context holds, `AutoExtends` the settings of
`enable_auto_extend` found among the clients.

No write has a condition, so overlapping clients do undo each other's work. What
can be said is which calls may do it: those that had read the session before. The
histories kept by `Remember` note, for a client between its read and its write,
what it has missed: `added[c]` the context keys its session has got since,
`ended[c]` that the session was terminated, marked or deleted since, and
`rewritten[c]` the sessions written since it scanned the table. They restrict no
step. `UpdatesMerged`, `EndsForGood` and `CleanupOnlyExpired` then hold of any number
of clients that overlap anyhow: a call that begins after an update, an end or an
extension never undoes it. A record is never seen
through two references: the DynamoDB backend copies, and the in-memory one is a
stand-in for it.

### Session forking (`SessionForking`, `MCSessions`, `SessionPersistence_proofs`)

No method awaits, so each is one step. A fork is a record with its
configuration, its branches and its last merge result; `Merged` is the set of what
`_apply_merge_strategy` may return, with the branch that won named in the result
where the strategy names one (0 where it names none), and `InOrder` the list of
outputs the strategy `all` makes. `Text` is `str()`, which `majority` counts on: the instance
has two outputs that print alike.

### Versions (`VersionStack`, `VersionManager`, `MCVersionManager`, `VersionManager_proofs`)

`VersionManager` keeps the list, `_active_version` and `_canary_version` as the
code does, look-ups by id included. Callers name versions anew, which the code
does not enforce. `VersionStack` is what it promises: the
versions that were live form a stack, and roll-back pops it. The refinement
mapping reads that stack off the list (`LiveUpTo`, a recursive function, so that
it can be reasoned about).

### WebSockets (`WebSocket`, `MCWebSocket`, `WebSocket_proofs`)

A step of a stream runs from one `await` or `yield` to the next; `pc` says at
which one the `stream_tokens` generator is suspended, and so which `finally`
clause runs if the consumer gives up (`Abandon`). `gone`, `cut`, `failed`,
`yielded` and `crossed` are history, the last one: whether another stream of the
same connection has ended while this one was under way (`Unregister`). Streams may
overlap on a connection, since `stream_tokens` does not prevent it. A connection id names one connection for ever, as API
Gateway's do.

### Limiters (`Tally`, `SlidingWindow`, `TenantLimiter`, `RateLimiters`, `MCSlidingWindow`, `ToolCalls_proofs`)

Discrete time; the floating-point estimate of the sliding window is compared
with the limit after multiplying both by the window, which keeps it an integer.
`log` is history: what was let through at each instant; what went through in an
interval is the difference of two sums of it (`After` of `Tally`, from the recursive
function in `Through`). `TenantLimiter` is the other limiter of the package, which
keeps the instants themselves; `passed` is its history. `RateLimiters` puts the two
on one clock; no code lets them meet, so `MCSlidingWindow` runs one of them per
behaviour.

### Checkpoints (`Checkpoint`, `MCCheckpoint`, `Checkpoint_proofs`)

An execution is a number of steps, carried on by invocations in containers; the
loop over the steps is the caller's, as the usage text of the module has it, and
marked external. `write_text` is two steps, `OpenFile` (which truncates) and
`WriteFile`; `held` says whose open file is still the stored one, since `delete`
may unlink it under a writer, whose document then goes nowhere. Fault actions
are a kill at any statement (`Crash`), a step that takes longer than
`timeout_buffer_ms` (in `Work`), and a save that fails before or inside the write
(`SaveFails`, `WriteFails`); another invocation may start beside a running one
(`Start`). `faults` and `overlaps` count them and are bounded together by
`MaxFaults`; `times[k]` counts how often step `k` was performed. `save` and
`load` return their outcome and never raise, so a failed save ends the
invocation like a good one. A file that cannot be parsed counts as none, as in
`load`.

### Tool calls (`ToolNames`, `ToolPermissions`, `ToolSandbox`, `ToolCalls`, `MCToolCalls`, `ToolCalls_proofs`)

`ToolPermissions` is the matrix: an ordered list of rules with wildcards,
actions, limits and expiry, and the counts. The positions of the rules that
permit a call are `Permitting`, of which `check` takes the first; what `revoke`
leaves is `Others`, a recursive function over the list. `ToolSandbox` is a call in a thread
that is joined for a limited time (`Join` may return at any moment) and then
looked at (`Report`); a thread that is not dead by then goes on (`ToolEnds`,
`ThreadDies`) with nobody watching. `overdue` is history: the threads whose call
has reported a timeout. `ToolCalls` composes the two as the usage text of
`tools/permissions.py` does: check, then execute, while others change rules and
policies. `admitted` is history: how many calls rules up to each limit let
through since the counts were last reset.

### API keys (`ApiKeys`, `MCApiKeys`, `ApiKeys_proofs`)

`keys` is `_keys`, `index` is `_tenant_keys`. Every call runs whole. `promised`,
`condemned` and `neglected` are history: until when each key was to be valid, the
keys `revoke_all_tenant_keys` met and when, and the tenants that let a due
rotation pass or lost a key by other means. `rotate_key` takes any id, of any
tenant and status, as the code does. `TypeOK` says that the two tables name the
same keys.

## 3. Runs

Every run is exhaustive. `CHECK_DEADLOCK FALSE` everywhere: threads, clients and
streams are finitely many and finish, the clock and the number of turns are
bounded, and a stopped system is then no error. (The one deadlock of the code is
found as a violation of liveness, `MCShutdownMainWorker`.)

| Run | Instance | Shows |
| --- | --- | --- |
| `MCShutdownGate` | 2 requests, 2 callers, hooks may raise, no signal | `Accounting`, `DrainedOnlyLate`, `PersistedWhenDrained`, `StoppedAtLast`, `ImplementsDrain` |
| `MCShutdownSignal` | 2 requests, the main thread in `shutdown()`, 2 signals, fair | `HealthMonotone`, `HealthFollowsEvent`, `ShutdownReturns` |
| `MCRuntime` | 2 threads, 2 sessions, 3 turns, orderly or not, budgets for one request, requests at up to twice the estimate | `LedgerExact`, `NoLostTurn`, `RevivedOnlyByRequest`, `DailyBound`, `SessionBound` |
| `MCSessions` | persistence: 2 clients, 1 id, 2 keys, TTLs below and above the cap, with and without auto-extension, 2 units to a second, clock 5 | `UpdatesMerged`, `TTLBounded`, `EndsForGood`, `CleanupOnlyExpired` |
| | or forks: 1 fork id, 3 branches (4 are refused), six strategies, ready with none or with two completed, cancelling or not | `WinnerWins`, `MergeSettles`, `CleanupLosesNoWork` |
| `MCVersions` | 6 fresh ids, shares 0, 10 and 100 | `TrafficWhole`, `ImplementsStack` |
| `MCWebSocket` | 3 connections of one tenant that may hold 2, 2 streams that may overlap and be abandoned, chunks of 2, 3 tokens, TTL 1, clock 2 | `ActiveIsHeld`, `CutOnlyWhenClosed`, `EndIsComplete`, `StopsAtDisconnect` |
| `MCSliding` | an endpoint and `"*"`, or one tenant; limits 1 and 2, window 3 (2 for the tenant), clock 7 | `BurstBounded`, `LogExact` |
| `MCCheckpoint` | 3 containers, 3 steps, time 4, buffer 2, 3 faults or overlaps, fair | `NoStepSkipped`, `RepeatsBounded`, `NothingLeftBehind`, `Finishes` |
| `MCTools` | 1 caller, 2 tool threads, 2 tenants, 1 tool, 3 overlapping grants, 3 patterns, 2 rules at a time, clock 1, fair | `RateHeld`, `AccessMonotone`, `Returns` |
| `MCApiKeys` | 2 tenants, 3 keys, rotation 2, grace 1, notice 0, clock 5 | `TypeOK`, `ValidAsPromised`, `RevokeAllEnds`, `ActiveKept` |

`WinnerWins`, `TrafficWhole`, `ActiveIsHeld` and `BurstBounded` have their module's
type invariant as a conjunct; the types of a proved component are part of its
inductive invariant.

Why the bounds are enough. Two actors are the fewest for every race here. Three
turns let one session be made, lost and made again while a second thread still
holds the first object; budgets for one request are the smallest that two threads
overshoot together. With one session id the clean-up has one batch, before which
the session can be written again; for several batches there is the proof. A TTL of 1 and one of 3 lie on either side of a cap of
2, and two units of time per second are the fewest that show truncation. Three
branches are the fewest with a majority against a minority, and three outputs
of which two print alike the fewest with a false one. Six versions allow a
deployment, a canary, a roll-back and a second roll-back in any order. Three
connections are one more than the limit, and three tokens in chunks of two
leave one in the buffer. A clock that enters a third window lets a
counter be current, previous and forgotten, and a window of three instants is the
shortest that can be entered, under way and about to end. Three containers let two invocations write one
file while a third deletes it; a time of 4 and a buffer of 2 let a step end at
the buffer, inside it and beyond the limit; three faults let a save be torn, the next invocation be
killed and a third one overlap. One caller with two tool threads is the fewest
with an orphan beside a later call, and two rules at a time are the fewest that
shadow each other; a second caller would meet the first only in the counts, which
`check` reads and changes in one step. Three keys are enough for one to
be rotated twice, and a clock of 5 goes past an expiry and the grace period that
follows a rotation made on it. Symmetry sets permute only constants that no
definition tells apart, and no run that checks liveness uses one.

**Properties that hold only under a condition.** The instance, or the property
itself, says which; outside it the code does not have them:

| Property | Condition |
| --- | --- |
| `StoppedAtLast` | no signals, or the main thread the one caller of `shutdown()`: otherwise a handler may announce a shutdown after the last one has returned |
| `HealthMonotone` | the main thread the one caller of `shutdown()` |
| `NoLostTurn`, `RevivedOnlyByRequest` | orderly behaviours; the properties say so |
| `LedgerExact` | the equality: sessions whose first record was not made twice at once (`raced`); that the record never says too much holds of all |
| `ShutdownReturns` | the main thread serves no request |
| `BurstBounded` | one constant window length |
| `TrafficWhole`, `ImplementsStack` | versions are named anew |
| `MergeSettles`, `WinnerWins` | what they say of the result: `auto_cancel_on_merge`; the first also: no custom merger |
| `NothingLeftBehind` | invocations never overlapped |
| `AccessMonotone` | denied by default; otherwise a limited grant that is used up takes away an access the tenant had without it |
| `RevokeAllEnds` | a key that is not rotated again by its id, which would revive it |
| `ActiveKept` | tenants that rotate when `check_rotation_needed` says so, and revoke nothing |

### Disagreements with the documentation

Two runs expect a violation of what a docstring of the repository says, quoted in
`PROJECT.json`:

* `MCShutdownMainWorker` (`ShutdownReturns`): a signal that strikes inside the
  tracker's critical section deadlocks the main thread with itself
  (`shutdown.py:266`);
* `MCToolsKilled` (`RunawaysKilled`): a tool that was reported as timed out runs on,
  for ever if it likes, although the sandbox is said to kill it
  (`resource_limits.py:152`, against the docstrings at `:4` and `:96`).

Seen in the code while modelling, without a run of their own:

* shutdown: "drained" is said with a late request in flight (`shutdown.py:279`);
  with two callers the first `shutdown()` to return may find the state set back
  from STOPPED (`:318`); `on_shutdown` may run twice (`:257`).
* runtime: a saved turn is overwritten by an older object of a session that was
  dropped in use (`manager.py:124`), or by the object an interrupted `get_or_create`
  stores over it (`:114`); a session deleted in use comes back when it is saved
  (`:124`); of two first requests of a session one cost is lost (`enforcer.py:141`,
  the exception `LedgerExact` makes for `raced`); a result lists another
  invocation's tool calls
  (`runtime.py:166`), a run costs more than `max_cost_per_request`
  (`runtime.py:107`) or never ends (`runtime.py:125`), and an agent function
  keeps no history between calls (`agent.py:64`).
* persistence: expired sessions are returned and listed (`persistence.py:314`,
  `:434`), an access can bring the expiry nearer (`:86`). A client that has read a session
  before another deletes, updates or extends it undoes that (`:350`, against "merged
  with existing" at `:335` and "Permanently delete" at `:376`), the auto-extension of
  a `get_session` undoes a termination (`:320`, against the docstring at `:354`), and
  the clean-up takes a session that was extended after its scan (`:470`): the
  exceptions `UpdatesMerged`, `EndsForGood` and `CleanupOnlyExpired` make.
* forking: a fork that can never be merged counts as active (`forking.py:284`).
* versions: a replaced canary stays listed without traffic (`versioning.py:77`),
  and `get_active` returns the retired entry of a repeated id (`:147`).
* websockets: of two streams on one connection the first to end breaks off the
  other, on an open connection (`websocket.py:476`, against the comment at `:427`; the
  exception `CutOnlyWhenClosed` makes for `crossed`); tokens are dropped after an
  error (`:462`), sent after
  a disconnect (`:452`), a stream nobody finishes is counted for ever (`:401`),
  stale connections keep a tenant out (`:183`), and a stream goes on over a
  connection closed as stale (`:251`).
* limiter: more than the limit passes in an interval of a window's length
  (`sliding_window.py:289`): up to its share for the elapsed part of the window and
  less than one request more, so with a limit of 1 and a window of 3 instants two
  requests two instants apart, both of them allowed; a
  retry is refused at the time it was given (`:199`), `reset("*")` resets one
  key (`:249`), and a rule of another window length leaves old counters unread
  (`:311`).
* tenant limiter: an entry exactly as old as the window still counts
  (`rate_limiter.py:65`), so a retry after the time given is refused; threads
  inside `check` pass it together.
* checkpoints: `save` starts from a new document, so `resume_count` never exceeds
  1; the usage text passes a context object where `should_checkpoint` takes
  milliseconds; a step has to fit into the buffer together with the save
  (`checkpoint.py:171`); `json.dumps(default=str)` makes strings of what it does
  not know; `max_checkpoints` is never used.
* sandbox: a tool that raises `SystemExit` is reported as a success without
  output; `execute_with_budget` with no time left raises `ValueError`; an
  exception from `on_limit_exceeded` replaces the result.
* permissions: a used-up rule shadows a later unlimited one
  (`permissions.py:217`); counts outlive `revoke`; `CONDITIONAL` is never used, and
  rules made by `deny` never expire.
* API keys: `rotate_key` revives a revoked or expired key for a grace period and
  takes other tenants' keys (`api_keys.py:280`); `revoke_all_tenant_keys` leaves
  rotating keys valid until their grace period ends (`:254`, against "Revoke all keys"
  at `:243`); the clean-up removes revoked keys at once; `max_active_keys_per_tenant`, `auto_rotate` and `EXPIRED`
  are never used; a warning hook that rotates changes the dictionary that is
  being walked.
* export and health, read but not modelled: a JSONL export cannot be imported
  again and drops durations; an asynchronous health check runs without its
  timeout, and `UNKNOWN` counts as healthy.
* not listed as hazards with a property, because no model here reaches them: the
  agent's own running time (`runtime.py:125`), the shared tool log
  (`runtime.py:166`), a runtime per call (`agent.py:64`), a version id used twice
  (`versioning.py:148`), a table walked while it changes (`manager.py:152`).

### Fairness

Three specifications state some.

* `Shutdown!FairSpec`: a thread that is inside `acquire`, `release`, `reject`,
  `initiate_shutdown` or `shutdown()` goes on, as the operating system's scheduler
  makes it. Nothing makes a request arrive or end, makes anyone call
  `shutdown()`, or sends a signal; a hook may raise but returns.
* `Checkpoint!FairSpec`: an invocation that runs goes on, since the platform
  either runs it or kills it, and while none runs and the execution is not
  completed somebody invokes it again, which the resumption the module is written
  for takes for granted. Faults are never forced; their number is bounded.
* `ToolCalls!FairSpec`: a caller that waits or has waited goes on, because `join`
  has a timeout. No tool is made to end.

In the other components what would have to happen in the end is the user's
agent, consumer or client, which the code does not bound.

### Concurrency assumed

`lifecycle/shutdown.py` locks and installs signal handlers, so it expects
threads; the same process's threads call the runtime, which has no lock.
`sessions/persistence.py` is the client of a table shared by Lambda processes.
`checkpoint.py` is written for Lambda, whose containers share the file system
the checkpoints lie on. `resource_limits.py` starts threads of its own.
`websocket.py` is written for one asyncio loop. `forking.py`, `versioning.py`,
`sliding_window.py`, `rate_limiter.py`, `permissions.py` and `api_keys.py` never
await and have no lock; they are taken to be called from one loop: their methods
are single steps. Threads are switched where CPython 3.10 and later switch them, at
calls and at the jumps of loops: so `x += y` on a number is not torn, while the
look into a dictionary and the entry made after a constructor call are apart. (On
3.9, which `pyproject.toml` allows, a sum could be torn too.)

### Hazards the properties do not reach

`PROJECT.json` says at each hazard what its properties leave out: a session
that goes while an invocation uses it (`manager.py:106`, `:124`), a merge without
`auto_cancel_on_merge` (`forking.py:464`), a majority of outputs that only print
alike (`forking.py:544`), a limiter that lets nothing through any more
(`sliding_window.py:289`), a checkpoint left by invocations that overlapped
(`checkpoint.py:298`), a used-up rule in front of a later grant
(`permissions.py:217`), threads inside `check` (`permissions.py:231`), and a revoked
key that a rotation revives (`api_keys.py:282`), which `ValidAsPromised` takes for a
new promise.

## 4. Proofs

Checked by TLAPS for every value of the constants the named assumptions allow.

**`Shutdown_proofs`** (from `FramesAssumption`, `BoundsAssumption`)

* `TypeCorrect`: `[]TypeOK`.
* `AccountingCorrect`: `[]Accounting`. Each step moves at most one worker in or
  out of the sets `InFlight`, `Served` and `Refused`, and the counter with it;
  cardinalities come from `FiniteSetTheorems`.
* `DrainedCorrect`: `[]DrainedOnlyLate`. It is not inductive alone: that a
  poller saw `active <= 0` says something about `InFlight` only through
  `Accounting`, and that who enters afterwards is late only because a verdict
  is given after the event is set (`DrainOrder`). The strengthening is the
  conjunction of the three with the types.
* `Refinement`: `Spec => ImplementsDrain`, from the same invariant: initial
  states map to initial states of `Drain`, and every step to one of its steps or
  to a stutter.
* `PersistedCorrect`: `[]PersistedWhenDrained`, whatever the signals and however
  many the callers. A file may be whole and yet old, so `FileKept` says what a
  caller that drained holds in its hand before it writes (`snap`), as long as no
  other caller is at or past the writing.
* `StoppedCorrect` (assuming `MaxSignals = 0`): `[]StoppedAtLast` for any number of
  callers that overlap anyhow. The state may be set back by a slower caller, and
  `SomeoneStops` says that then somebody who will set it again is under way.
* `HealthCorrect` and `StoppedUnderSignals` (both assuming `Callers = {Main}`):
  `HealthMonotone` and `[]StoppedAtLast` under any number of signals. `HealthOrder`
  ties the state to the statement the caller is at; its point is that a handler
  past the test of the event sits on a caller that has not set it yet.

The two theorems about `StoppedAtLast` have hypotheses because the code needs
them: with a second thread and a signal the state can end at "draining".

**`Runtime_proofs`** (from `BudgetAssumption`, `SidsAssumption`,
`NoObjectAssumption`, `RuntimeAssumption`)

* `TypeCorrect`: `[]TypeOK`.
* `DailyBoundCorrect` and `SessionBoundCorrect`: with any number of threads,
  interrupted anywhere, the day's and each session's spending together with what
  the admitted requests may still add exceeds the budget by at most `MaxCost` per
  thread, less the estimate. The session's bound is not inductive, because a
  thread interrupted between the two checks has already been let past the first:
  `CommittedBound` counts these threads too (`Committed`), and `NoRecordNoCost`
  (a session without a record has spent nothing) covers the check that is
  skipped for want of a record. A thread joins the committed ones only when the
  ledger leaves room for the estimate (`CommitStep`), and leaves them with at most
  `MaxCost` (`LeaveSession`).
* `NoTurnLost` and `NoneRevived`: `[]NoLostTurn` and `RevivedOnlyByRequest`, from
  `Tidy`: in an orderly behaviour a session an invocation works on stays in the
  table and the object it holds is the table's (`Held`), so that what it saves has
  every reply saved before it (`Replied`, `Unlost`).
* `LedgerAddsUp`: `[]LedgerExact`, for any number of threads and invocations, in
  every behaviour, orderly or not. The invariant `Balanced` adds who may hold a cost
  that is not recorded yet (`Unbilled`, `Settled`), that an object belongs to the
  session of the invocation that holds it (`Belongs`), and that two threads making
  one session's first record are noted in `raced` (`Races`), since it is only
  behind another's back that `RecordNew` discards anything. What one more charge does
  to the recursive sum is `OneBill`, an induction over the objects; what it does to
  the costs under way is counted in units (`UnderWayStep`).

**`SessionPersistence_proofs`** (from `TTLAssumption`, `AbsentAssumption`; the forks from
`ForkingAssumption` and `NoForkAssumption`)

* `TypeCorrect`: `[]TypeOK`, for any number of clients.
* `TTLCorrect`: `[]TTLBounded`. The cap is put on the TTL, which the code counts
  from the time of the access, so the bound on expiries holds of the table only
  because it holds of everything a client has read and not yet written back. The
  inductive invariant `LifeInv` says so: `TableOK` of each item, `CallsOK` of
  each call's label and the record in its hand, `RestOK` of the rest
  (`LifeInvMeaning` equates it with `TypeOK /\ TTLBounded`). Truncation only
  lowers an expiry (`StoredRecord`), and touching sets one within the cap
  (`TouchedRecord`).
* `UpdatesKept`, `EndedStaysEnded`, `CleanupCorrect`: `UpdatesMerged`, `EndsForGood`
  and `CleanupOnlyExpired` for any number of clients that overlap in every way; no
  hypothesis restricts them. The invariant `OverlapInv` compares what a client holds
  with what the table has now: a key the table has and the hand has not is in
  `added`, a session that is over in the table and open in the hand has `ended`, and
  what a clean-up is about to delete is due or `rewritten`. Each write of one
  client has to keep that for all the others.

* `WinnerCorrect`, `MergeCorrect`, `CleanupSpares`:
  `[]WinnerWins`, `MergeSettles` and `CleanupLosesNoWork` of `SessionForking`, for any
  number of forks and branches. None of them is inductive alone: a merge may be
  repeated at any later time, and what it then returns is the first result only
  because no branch can have completed in between. `ForkGood` says so: a fork merged
  with cancellation has no running branch left, and its result is one of those
  that merging it now would give. `MergedSame` shows that what is merged depends
  on the completed branches alone, so cancelling the others changes nothing, and
  that the strategies other than a custom merger leave one result. `Winners` finds
  the branch each strategy names: the highest of finitely many bounded numbers
  exists (`Highest`), and the `i`-th of a set of branches is one of them (`Ranks`).

**`Checkpoint_proofs`** (from `CheckpointAssumption`)

* `TypeCorrect`: `[]TypeOK`.
* `NothingSkipped`: `[]NoStepSkipped`. Inductive with the types and the fact that a
  container deletes the checkpoint only behind the last step (`UnlinkLast`):
  history only grows, a container moves on only past a step it performed, and a
  file names the step of a container that wrote it.
* `NoneLeft`: `[]NothingLeftBehind`, from `Alone`: without overlaps one invocation
  runs at most, and none once the execution is completed.
* `RepeatsPaid`: `[]RepeatsBounded`, by an amortised count. To how often step `k` was
  performed `Budgeted` adds the invocations that may still perform it (`Pending`)
  and a debt for the one that will be started from the file (`Debt`). The debt is
  0 while one invocation runs alone with no other document in its way (`Sound`):
  its own `WriteFile` then turns its place among the pending ones into the
  debt of its successor. A fault pays 1, a new debt; an overlap pays 2, a debt and
  a pending invocation. That a deletion or a lost write happens only to a
  completed execution is `Files`.

**`ToolCalls_proofs`** (from `PermissionAssumption`; the
limiters from `WindowAssumption` and `QuotaAssumption`)

* `LimitsHold`: `[]RateHeld`, because what was admitted under a limit never exceeds
  the count that `check` compares with it (`Counted`), whatever becomes of the
  rules.
* `AccessGrows`: `AccessMonotone`, for lists of any length. A rule at the end of the
  list leaves the first position that permits a call where it was (`FirstStays`);
  `RulesInv`, that the list stays one, needs an induction over `Others`.
* `TenantLogExact`: `[]LogExact`, for any window and any limits. `Follows` is what
  relates the log to the history: its entries are the last of the requests let
  through, each at the instant at which the sum of the history reaches its number.
  Cutting expired entries off its head keeps
  that and leaves exactly the requests of the window (`CutFollows`,
  `PrunedFollows`), and so does an entry at the end (`EntryFollows`).
* `BurstCorrect`: `[]BurstBounded`, for any window length and any limits. `Metered`
  says that the two counters are the exact sums over the current window and the one before, neither above the limit
  `n`, and that since the last request the estimate has been below `n + 1`. A
  request is let through only by an estimate below the limit (`MeteredConsume`), and
  as time passes the estimate only falls, within a window (`EstimateFalls`) and into
  the next one (`WindowSteps`, `MeteredTick`). The interval holds no more than the two
  windows together, and of the one before the estimate leaves out at most the
  elapsed share of `n` (`TwoWindows`, `MeteredBurst`).

Two proof modules hold the theorems of two packages each, sessions with forks and
tools with limiters, because the lemmas on least elements, induction over numbers
and finite sets are shared. The definitions of `SessionForking` and `SlidingWindow`
are named so that they can be extended beside the others (`ForksSpec`,
`WindowSpec`).

**`ApiKeys_proofs`** (from `KeyAssumption`)

* `TypeCorrect`, `PromisesKept`, `RevocationReaches`, `RotationInTime`: the four
  properties of the run. The inductive invariant `KeysInv` adds what the table
  says of each key it holds and of each it no longer holds (`Promises`), the end of
  every grace period (`GraceBounded`), and that a key `revoke_all` met is revoked,
  gone or in a grace period that began before (`CondemnedEnd`).

**`VersionManager_proofs`** (from `VersionsAssumption`)

* `TrafficCorrect`: `[]TrafficWhole`. `VersionInv` says where the live version and the
  canary are in the list: the live one is the last that ever was (`TopOK`), the
  canary the last entry (`CanaryOK`), their shares make 100 (`SharesOK`), and ids
  are distinct, without which a look-up by id finds the wrong entry.
* `StackRefinement`: `Spec => ImplementsStack`. Lists with the same live entries are
  read alike up to any position (`SamePrefix`), what follows the last live entry
  adds nothing, and so a deployment pushes, a promotion pushes the trial, a
  roll-back pops, and the rest stutters or only tries.

**`WebSocket_proofs`** (from `WebSocketAssumption`)

* `HeldCorrect`: `[]ActiveIsHeld`. `ConnInv` has the types, the property and that
  what `on_disconnect` was called for is closed and unregistered (`GoneOK`);
  `FewerHeld` and `ConnectKeeps` count the connections of a tenant.
* `EndCorrect`: `[]EndIsComplete`, from an account of each stream's tokens at every
  label (`Account`): taken is sent plus held back, until the source fails.
* `DisconnectStops`: `StopsAtDisconnect`, from `GoneOK`.
* `CutCorrect`: `[]CutOnlyWhenClosed`, for streams that overlap anyhow. `CutInv`: a
  stream under way on a connection that is not closed stays registered until its
  own `finally`, unless another stream of the connection ended (`crossed`).

Each inductive invariant was first checked by TLC on the instances of section 3.

The induction theorems of the proof library take an operator as a parameter, which
the provers cannot instantiate. Where a recursive function is at stake
(`BilledUpTo`, `LiveUpTo`, `Others`, `Through`) the induction is written out: `Least` finds
the least number of a set from well-foundedness, `Upwards` concludes that a set
that contains 0 and each successor contains all, and the function is a `CHOOSE`
of something shown to exist.

Only model-checked is liveness (`HealthFollowsEvent`, `ShutdownReturns`, `Finishes`,
`Returns`): ENABLED and fairness are beyond the prover. Every other property of the
runs is stated by a theorem.

An earlier version of `BurstBounded` said that no window sees twice the limit. The
proof would not close, and TLC then found that it held only of the window of two
instants the run had: with a window of three, requests at the instants 2 and 4
under a limit of 1 pass. The bound proved now is what the estimate does promise,
and the run has a window on which the two differ.

## 5. Not modelled

* In modelled components: log lines and wording; `SessionState.load` and
  `uninstall_signal_handlers`; an agent that returns no string (`invoke` then
  raises at `runtime.py:145`); the aliasing of `InMemoryBackend`'s dictionaries;
  dry runs and listings, which change nothing; `tool_calls` of a result, which is
  copied from the registry's log; a connection id that connects twice; threads inside forking,
  versions, limiters, permissions and keys; the counters of `check_only` and
  `get_usage`, which only read; the audit logs; what a hook does to the object
  that calls it.
* Simplified in modelled components: an exception of `on_shutdown` is raised to a
  caller of `shutdown()`, not out of the signal handler into the frame below it
  (`shutdown.py:270`); a second signal waits for the first one's handler to end;
  a `json.dump` that a request disturbs leaves a torn file, whichever keys got into
  it (`shutdown.py:117`); of the endpoint patterns of the sliding window only `"*"`
  is kept, not prefixes like `/api/*` (`sliding_window.py:262`): `BurstBounded` bounds
  what passes under any of the limits an endpoint may have.
* Never read by the code, and so nothing to model: `max_sessions`,
  `monthly_budget`, `max_iterations`, `timeout_seconds`.
* Components with status `not_modelled` in `PROJECT.json`:
  * memory strategies: each is one list cut to its last entries, with summaries and
    scores computed from text; nothing else reads it and nothing interleaves. (A
    `HybridMemory` restored into a smaller buffer never shrinks.)
  * health probes: a fold over results of checks that are the caller's; no
    decision in the code reads it.
  * export and import: conversions without state; a model would restate the lists
    of fields.
  * decorator and registry, tenants, tool sandbox, tracer, adapters, command line,
    npm wrapper, benchmarks: tables or logs of one access per operation, or
    nothing.

## 6. Order of the work

By importance, and so by how much goes wrong when two actors meet: shutdown,
runtime with sessions and costs, persistence, forking, versions, websockets,
the sliding window; then checkpoints, tool calls, API keys and the tenant's
limiter. Abstract specifications are stated where a component promises
something simpler than it does (`Drain`, `VersionStack`); the others promise
properties. Proofs cover every modelled component. What would come next:

1. threads inside `permissions.py` and `api_keys.py`, should the project decide
   that they may be shared by threads;
2. memory strategies and the export formats as functions on sequences, against
   reference definitions.
