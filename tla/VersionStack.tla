----------------------------- MODULE VersionStack -----------------------------
(***************************************************************************)
(* What a version manager promises: the versions that were in production   *)
(* form a stack whose top is live, beside at most one version on trial.    *)
(***************************************************************************)
EXTENDS Integers, Sequences

CONSTANTS Ids, NoVersion

VARIABLES stack, trial

vars == <<stack, trial>>

Init == stack = <<>> /\ trial = NoVersion

Deploy == \E id \in Ids : stack' = Append(stack, id) /\ trial' = NoVersion

Try == trial' \in Ids /\ UNCHANGED stack

Promote ==
    /\ trial # NoVersion
    /\ stack' = Append(stack, trial)
    /\ trial' = NoVersion

Rollback ==
    \/ trial # NoVersion /\ trial' = NoVersion /\ UNCHANGED stack
    \/ /\ trial = NoVersion /\ Len(stack) > 1
       /\ stack' = SubSeq(stack, 1, Len(stack) - 1)
       /\ UNCHANGED trial

Next == Deploy \/ Try \/ Promote \/ Rollback

Spec == Init /\ [][Next]_vars
=============================================================================
