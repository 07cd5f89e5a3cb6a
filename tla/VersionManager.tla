---------------------------- MODULE VersionManager ----------------------------
(***************************************************************************)
(* VersionManager of core/versioning.py: the list of versions ever         *)
(* deployed, with the ids of the active one and of the canary.  Every      *)
(* method walks the list and changes all entries that carry an id.         *)
(***************************************************************************)
EXTENDS Integers, Sequences, FiniteSets, FiniteSetsExt

CONSTANTS Ids,
          Percents,      \* values of traffic_percent
          MaxVersions,   \* bound: length of the list
          NoVersion

ASSUME VersionsAssumption ==
    /\ Percents \subseteq 0..100
    /\ MaxVersions \in Nat
    /\ NoVersion \notin Ids

VARIABLES versions, active, canary

vars == <<versions, active, canary>>

Entry == [id : Ids, status : {"active", "canary", "retired", "rolled_back"},
          traffic : 0..100]

Init ==
    /\ versions = <<>>
    /\ active = NoVersion
    /\ canary = NoVersion

\* The list with every entry of id given a status and a share of traffic.
Mark(list, id, status, traffic) ==
    [k \in DOMAIN list |->
        IF list[k].id = id
        THEN [list[k] EXCEPT !.status = status, !.traffic = traffic]
        ELSE list[k]]

\* The list with only the share of the entries of id changed.
Share(list, id, traffic) ==
    [k \in DOMAIN list |->
        IF list[k].id = id THEN [list[k] EXCEPT !.traffic = traffic]
        ELSE list[k]]

Retire(list) == Mark(list, active, "retired", 0)

\* Callers name every version anew.  The code does not ask for it, but all its
\* lookups by id return the first of two entries that share one.
NewIds == Ids \ {versions[k].id : k \in DOMAIN versions}
Room == Len(versions) < MaxVersions

-----------------------------------------------------------------------------

Deploy(id) ==
    /\ versions' = Append(Retire(versions),
                          [id |-> id, status |-> "active", traffic |-> 100])
    /\ active' = id
    /\ canary' = NoVersion

DeployCanary(id, percent) ==
    /\ versions' = Share(Append(versions, [id |-> id, status |-> "canary",
                                           traffic |-> percent]),
                         active, 100 - percent)
    /\ canary' = id
    /\ UNCHANGED active

PromoteCanary ==
    /\ canary # NoVersion
    /\ versions' = Mark(Retire(versions), canary, "active", 100)
    /\ active' = canary
    /\ canary' = NoVersion

CancelCanaryOnly ==
    /\ canary # NoVersion
    /\ versions' = Mark(versions, canary, "rolled_back", 0)
    /\ canary' = NoVersion
    /\ UNCHANGED active

\* With a canary, rollback cancels it and nothing else ...
CancelCanary ==
    /\ canary # NoVersion
    /\ versions' = Share(Mark(versions, canary, "rolled_back", 0), active, 100)
    /\ canary' = NoVersion
    /\ UNCHANGED active

RollBackToFirst ==
    LET retired == {k \in DOMAIN versions : versions[k].status = "retired"}
        first == CHOOSE k \in retired : \A j \in retired : k <= j
    IN /\ canary = NoVersion
       /\ retired # {}
       /\ versions' = [Mark(versions, active, "rolled_back", 0)
                         EXCEPT ![first].status = "active",
                                ![first].traffic = 100]
       /\ active' = versions[first].id
       /\ UNCHANGED canary

\* ... and without one it restores the last retired entry of the list.
RollBack ==
    LET retired == {k \in DOMAIN versions : versions[k].status = "retired"}
        last == CHOOSE k \in retired : \A j \in retired : j <= k
    IN /\ canary = NoVersion
       /\ retired # {}
       /\ versions' = [Mark(versions, active, "rolled_back", 0)
                         EXCEPT ![last].status = "active",
                                ![last].traffic = 100]
       /\ active' = versions[last].id
       /\ UNCHANGED canary

Next ==
    \/ Room /\ \E id \in NewIds :
         Deploy(id) \/ \E percent \in Percents : DeployCanary(id, percent)
    \/ PromoteCanary
    \/ CancelCanary
    \/ RollBack

Spec == Init /\ [][Next]_vars

\* get_active and get_canary: the first entry with the id.
Lookup(id) == versions[Min({k \in DOMAIN versions : versions[k].id = id})]

\* The ids route_request may return: the canary when the draw from 1..100 is
\* within its share.
Routed ==
    LET share == IF canary = NoVersion THEN 0 ELSE Lookup(canary).traffic
    IN (IF share > 0 THEN {canary} ELSE {})
         \cup (IF share < 100 THEN {active} ELSE {})

-----------------------------------------------------------------------------
(* Properties.                                                             *)

\* The list and the two ids have their types.
TypeOK ==
    /\ versions \in Seq(Entry)
    /\ active \in Ids \cup {NoVersion}
    /\ canary \in Ids \cup {NoVersion}

\* Through every promotion, deployment and rollback the shares of the live
\* version and of the canary make up the whole traffic, requests are routed to
\* versions whose status is active or canary only, and the only entry with
\* status active is the live one.
TrafficWhole ==
    /\ TypeOK
    /\ active # NoVersion =>
          Lookup(active).traffic
            + (IF canary = NoVersion THEN 0 ELSE Lookup(canary).traffic) = 100
    /\ \A id \in Routed \ {NoVersion} : Lookup(id).status \in {"active", "canary"}
    /\ \A k \in DOMAIN versions :
          versions[k].status = "active" => versions[k].id = active

\* The versions that were or are live among the first n entries, oldest first.
LiveUpTo[n \in 0..Len(versions)] ==
    IF n = 0 THEN <<>>
    ELSE IF versions[n].status \in {"retired", "active"}
    THEN Append(LiveUpTo[n - 1], versions[n].id)
    ELSE LiveUpTo[n - 1]

LiveStack == LiveUpTo[Len(versions)]

\* The versions that were live are a stack: rollback always returns to the
\* version that was live just before, however deployments, promotions and
\* earlier rollbacks were mixed, and never back to one that was rolled back.
Abstract == INSTANCE VersionStack WITH stack <- LiveStack, trial <- canary
ImplementsStack == Abstract!Spec
===============================================================================
