---------------------------- MODULE SessionForking ----------------------------
(***************************************************************************)
(* SessionForker of sessions/forking.py: a session is forked into parallel *)
(* branches, the branches finish in any order, completed results are       *)
(* merged by a strategy, and finished forks are cleaned up.  A fork is     *)
(* shared by the callers that run its branches; each method is a step.     *)
(***************************************************************************)
EXTENDS Integers, Sequences, FiniteSets, FiniteSetsExt

CONSTANTS Sessions, ForkIds,
          Sizes,        \* values of num_branches
          Needs,        \* values of min_branches_required
          Strategies,   \* values of merge_strategy
          AutoCancels,  \* values of auto_cancel_on_merge
          MaxForks,     \* max_concurrent_forks
          MaxBranches,  \* max_branches_per_fork
          Outputs, MaxScore,
          Texts, Text(_),   \* str(output)
          NoFork, NoOutput

ASSUME ForkingAssumption ==
    /\ Sizes \subseteq Nat /\ Needs \subseteq Nat
    /\ AutoCancels \subseteq BOOLEAN
    /\ MaxForks \in Nat /\ MaxBranches \in Nat /\ MaxScore \in Nat
    /\ NoOutput \notin Outputs /\ \A o \in Outputs : Text(o) \in Texts

ASSUME StrategiesAssumption ==
    Strategies \subseteq {"first_wins", "best_score", "all", "majority",
                          "custom", "custom without merger"}

VARIABLES forks,   \* _forks
          made     \* fork ids already used (uuid4 never repeats one)

forkVars == <<forks, made>>

Config == [size : Sizes, need : Needs, strategy : Strategies,
           cancel : AutoCancels]

Branch == [status : {"running", "completed", "failed", "cancelled"},
           output : Outputs \cup {NoOutput}, score : 0..MaxScore]

Result == [winner : Nat, output : Seq(Outputs), count : Nat]

NoResult == [winner |-> 0, output |-> <<>>, count |-> 0]

\* A fork that cleanup_completed has not removed.
Fork == [session : Sessions, config : Config, status : {"running", "merged"},
         result : Result, branches : Seq(Branch)]

ASSUME NoForkAssumption == NoFork \notin Fork

ForksInit ==
    /\ forks = [f \in ForkIds |-> NoFork]
    /\ made = {}

Tracked == {f \in ForkIds : forks[f] # NoFork}
Branches(f) == DOMAIN forks[f].branches
WithStatus(f, status) ==
    {b \in Branches(f) : forks[f].branches[b].status = status}

\* A branch is created RUNNING, so is_active is the same as running.
Active(f) == WithStatus(f, "running")
Completed(f) == WithStatus(f, "completed")
Running(s) == {f \in Tracked : forks[f].session = s
                               /\ forks[f].status = "running"}

-----------------------------------------------------------------------------
(* _apply_merge_strategy on the completed branches, in branch order.       *)

Score(f, b) == forks[f].branches[b].score
Output(f, b) == forks[f].branches[b].output

BestScoredLow(f) ==
    Min({b \in Completed(f) :
            \A other \in Completed(f) : Score(f, other) >= Score(f, b)})

\* max() keeps the first of equals.
BestScored(f) ==
    Min({b \in Completed(f) :
            \A other \in Completed(f) : Score(f, other) <= Score(f, b)})

\* The completed branches whose output reads like that of b.
Agreeing(f, b) ==
    {other \in Completed(f) : Text(Output(f, other)) = Text(Output(f, b))}

MostAgreed(f) ==
    Min({b \in Completed(f) :
            \A other \in Completed(f) :
               Cardinality(Agreeing(f, other)) <= Cardinality(Agreeing(f, b))})

\* The i-th of a set of branches.
Nth(set, i) == CHOOSE b \in set : Cardinality({c \in set : c <= b}) = i

InOrder(f) ==
    [i \in 1..Cardinality(Completed(f)) |-> Output(f, Nth(Completed(f), i))]

Winner(f, b, count) == {[winner |-> b, output |-> <<Output(f, b)>>,
                         count |-> count]}

\* The possible values of merge_result; a custom merger may return anything.
Merged(f) ==
    LET done == Completed(f)
        strategy == forks[f].config.strategy
    IN CASE done = {} -> {NoResult}
         [] done # {} /\ strategy = "first_wins" -> Winner(f, Min(done), 1)
         [] done # {} /\ strategy = "majority" ->
              Winner(f, MostAgreed(f), Cardinality(Agreeing(f, MostAgreed(f))))
         [] done # {} /\ strategy = "all" ->
              {[winner |-> 0, output |-> InOrder(f), count |-> Cardinality(done)]}
         [] done # {} /\ strategy = "custom" ->
              {[winner |-> 0, output |-> <<o>>, count |-> Cardinality(done)] :
                  o \in Outputs}
         [] OTHER -> Winner(f, BestScored(f), 1)

-----------------------------------------------------------------------------
(* The methods.                                                            *)

New(s, c) ==
    [session |-> s, config |-> c, status |-> "running", result |-> NoResult,
     branches |-> [b \in 1..c.size |->
                      [status |-> "running", output |-> NoOutput, score |-> 0]]]

CreateFork(s, c) ==
    /\ c.size <= MaxBranches
    /\ Cardinality(Running(s)) < MaxForks
    /\ \E f \in ForkIds \ made :
          /\ forks' = [forks EXCEPT ![f] = New(s, c)]
          /\ made' = made \cup {f}

Finish(f, b, r) ==
    /\ forks' = [forks EXCEPT ![f].branches[b] = r]
    /\ UNCHANGED made

CompleteBranch(f, b) ==
    /\ b \in Active(f)
    /\ \E o \in Outputs, s \in 0..MaxScore :
          Finish(f, b, [status |-> "completed", output |-> o, score |-> s])

FailBranch(f, b) ==
    /\ b \in Active(f)
    /\ Finish(f, b, [forks[f].branches[b] EXCEPT !.status = "failed"])

CancelBranch(f, b) ==
    /\ b \in Active(f)
    /\ Finish(f, b, [forks[f].branches[b] EXCEPT !.status = "cancelled"])

\* The branches of f with those of the set cancelled.
Cancelled(f, set) ==
    [b \in Branches(f) |->
        IF b \in set THEN [forks[f].branches[b] EXCEPT !.status = "cancelled"]
        ELSE forks[f].branches[b]]

MergeWith(f, cancelled) ==
    /\ Cardinality(Completed(f)) >= forks[f].config.need
    /\ \E r \in Merged(f) :
          forks' = [forks EXCEPT ![f].branches = Cancelled(f, cancelled),
                                 ![f].result = r,
                                 ![f].status = "merged"]
    /\ UNCHANGED made

MergeLeavesRunning(f) == MergeWith(f, {})

\* merge may be called again on a merged fork.
Merge(f) == MergeWith(f, IF forks[f].config.cancel THEN Active(f) ELSE {})

Removable(f) == forks[f].status = "merged" \/ Active(f) = {}

Remove(gone) ==
    /\ gone # {}
    /\ forks' = [f \in ForkIds |-> IF f \in gone THEN NoFork ELSE forks[f]]
    /\ UNCHANGED made

CleanupReady ==
    Remove({f \in Tracked :
              Cardinality(Completed(f)) >= forks[f].config.need})

\* cleanup_completed of every session, or of one.
CleanupCompleted ==
    \/ Remove({f \in Tracked : Removable(f)})
    \/ \E s \in Sessions :
          Remove({f \in Tracked : Removable(f) /\ forks[f].session = s})

ForksNext ==
    \/ \E s \in Sessions, c \in Config : CreateFork(s, c)
    \/ \E f \in Tracked : \E b \in Branches(f) :
          CompleteBranch(f, b) \/ FailBranch(f, b) \/ CancelBranch(f, b)
    \/ \E f \in Tracked : Merge(f)
    \/ CleanupCompleted

ForksSpec == ForksInit /\ [][ForksNext]_forkVars

-----------------------------------------------------------------------------
(* Properties.                                                             *)

\* Every fork is a fork with the branches it was created with, of which the
\* completed ones, and no others, have an output; a merged fork had as many
\* completed as it needed.
ForksTypeOK ==
    /\ made \subseteq ForkIds
    /\ forks \in [ForkIds -> Fork \cup {NoFork}]
    /\ \A f \in Tracked :
          /\ f \in made
          /\ Len(forks[f].branches) = forks[f].config.size
          /\ \A b \in Branches(f) :
                (b \in Completed(f)) <=> (Output(f, b) \in Outputs)
          /\ (forks[f].status = "merged")
               => Cardinality(Completed(f)) >= forks[f].config.need

\* What is decided stays so: a finished branch keeps its status, output and
\* score through late completions and through the cancellation at a merge, and
\* with auto_cancel_on_merge merging again returns the first result (a custom
\* merger aside).
MergeSettles ==
    [][\A f \in Tracked : forks'[f] # NoFork =>
          /\ \A b \in Branches(f) \ Active(f) :
                forks'[f].branches[b] = forks[f].branches[b]
          /\ (/\ forks[f].status = "merged"
              /\ forks[f].config.cancel
              /\ forks[f].config.strategy # "custom")
             => forks'[f].result = forks[f].result]_forkVars

\* With auto_cancel_on_merge the winner a merged fork reports stays one: no
\* completed branch has a higher score, or an output more often returned.
WinnerWins ==
    ForksTypeOK /\ \A f \in Tracked :
       LET w == forks[f].result.winner IN
       (forks[f].status = "merged" /\ forks[f].config.cancel /\ w # 0) =>
          /\ w \in Completed(f)
          /\ forks[f].result.output = <<Output(f, w)>>
          /\ (forks[f].config.strategy = "best_score") =>
                (\A b \in Completed(f) : Score(f, b) <= Score(f, w))
          /\ (forks[f].config.strategy = "majority") =>
                \A b \in Completed(f) :
                   Cardinality(Agreeing(f, b)) <= forks[f].result.count

\* With auto_cancel_on_merge no running branch loses its fork: when a fork is
\* cleaned up every branch has finished.
CleanupLosesNoWork ==
    [][\A f \in Tracked :
          (forks'[f] = NoFork /\ forks[f].config.cancel) => Active(f) = {}]_forkVars
===============================================================================
