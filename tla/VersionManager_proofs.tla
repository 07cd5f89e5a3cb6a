------------------------ MODULE VersionManager_proofs ------------------------
(***************************************************************************)
(* Proofs about module VersionManager: the traffic always adds up, and the *)
(* versions that were live form a stack, for lists of any length.          *)
(***************************************************************************)
EXTENDS VersionManager, TLAPS, SequenceTheorems, WellFoundedInduction

USE VersionsAssumption

-----------------------------------------------------------------------------
(* The inductive invariant.                                                *)

Statuses == {"active", "canary", "retired", "rolled_back"}

\* No two entries share an id.
Distinct == \A j, k \in DOMAIN versions : versions[j].id = versions[k].id => j = k

LiveAt(list, k) == list[k].status \in {"retired", "active"}

\* The live version has an entry, the only one that is active, and no entry
\* after it was ever live.
TopOK ==
    /\ \A k \in DOMAIN versions : versions[k].status = "active"
                                    <=> versions[k].id = active
    /\ active # NoVersion => \E k \in DOMAIN versions : versions[k].id = active
    /\ \A j \in DOMAIN versions : LiveAt(versions, j) =>
          \E k \in DOMAIN versions : versions[k].id = active /\ j <= k

\* The canary is the last entry.
CanaryOK ==
    canary # NoVersion =>
        /\ Len(versions) # 0 /\ versions[Len(versions)].id = canary
        /\ versions[Len(versions)].status = "canary"

SharesOK ==
    \A k \in DOMAIN versions : versions[k].id = active =>
        versions[k].traffic
          + (IF canary = NoVersion THEN 0
             ELSE versions[Len(versions)].traffic) = 100

VersionInv == TypeOK /\ Distinct /\ TopOK /\ CanaryOK /\ SharesOK

-----------------------------------------------------------------------------
(* The operators on lists.                                                 *)

\* Two lists of the same ids; what a step does to status and share is said
\* entry by entry.
SameIds(list, other) ==
    /\ other \in Seq(Entry) /\ Len(other) = Len(list)
    /\ \A k \in 1..Len(list) : other[k].id = list[k].id

LEMMA Entries ==
  ASSUME NEW list \in Seq(Entry)
  PROVE  /\ Len(list) \in Nat /\ DOMAIN list = 1..Len(list)
         /\ \A k \in 1..Len(list) :
               /\ list[k] \in Entry /\ list[k].id \in Ids
               /\ list[k].status \in Statuses /\ list[k].traffic \in 0..100
<1>1. Len(list) \in Nat /\ DOMAIN list = 1..Len(list)
      /\ \A k \in 1..Len(list) : list[k] \in Entry
  OBVIOUS
<1>2. QED
  BY <1>1 DEF Entry, Statuses

\* Only the entries of id have changed.
IsMarked(list, other, id, status, traffic) ==
    /\ SameIds(list, other)
    /\ \A k \in 1..Len(list) :
          /\ list[k].id = id => /\ other[k].status = status
                               /\ other[k].traffic = traffic
          /\ list[k].id # id => other[k] = list[k]

IsShared(list, other, id, traffic) ==
    /\ SameIds(list, other)
    /\ \A k \in 1..Len(list) :
          /\ other[k].status = list[k].status
          /\ list[k].id = id => other[k].traffic = traffic
          /\ list[k].id # id => other[k] = list[k]

LEMMA Marked ==
  ASSUME NEW list \in Seq(Entry), NEW id, NEW status \in Statuses,
         NEW traffic \in 0..100
  PROVE  IsMarked(list, Mark(list, id, status, traffic), id, status, traffic)
<1> DEFINE other == Mark(list, id, status, traffic)
<1>0. Len(list) \in Nat /\ DOMAIN list = 1..Len(list)
      /\ \A k \in 1..Len(list) : list[k] \in Entry
  OBVIOUS
<1>1. /\ DOMAIN other = 1..Len(list)
      /\ other = [k \in 1..Len(list) |-> other[k]]
  BY <1>0 DEF Mark
<1>2. ASSUME NEW k \in 1..Len(list), list[k].id = id
      PROVE  /\ other[k] \in Entry /\ other[k].id = list[k].id
             /\ other[k].status = status /\ other[k].traffic = traffic
  <2>1. other[k] = [list[k] EXCEPT !.status = status, !.traffic = traffic]
    BY <1>0, <1>2 DEF Mark
  <2>2. PICK e \in Entry : e = list[k]
    BY <1>0
  <2> HIDE DEF other
  <2>3. other[k] = [e EXCEPT !.status = status, !.traffic = traffic]
    BY <2>1, <2>2
  <2>4. QED
    BY <2>2, <2>3 DEF Entry, Statuses
<1>3. ASSUME NEW k \in 1..Len(list), list[k].id # id
      PROVE  other[k] = list[k]
  BY <1>0, <1>3 DEF Mark
<1> HIDE DEF other
<1>4. \A k \in 1..Len(list) : other[k] \in Entry /\ other[k].id = list[k].id
  BY <1>0, <1>2, <1>3
<1>5. other \in Seq(Entry) /\ Len(other) = Len(list)
  BY <1>0, <1>1, <1>4, IsASeq
<1>6. QED
  BY <1>2, <1>3, <1>4, <1>5 DEF IsMarked, SameIds, other

LEMMA Shared ==
  ASSUME NEW list \in Seq(Entry), NEW id, NEW traffic \in 0..100
  PROVE  IsShared(list, Share(list, id, traffic), id, traffic)
<1> DEFINE other == Share(list, id, traffic)
<1>0. Len(list) \in Nat /\ DOMAIN list = 1..Len(list)
      /\ \A k \in 1..Len(list) : list[k] \in Entry
  OBVIOUS
<1>1. /\ DOMAIN other = 1..Len(list)
      /\ other = [k \in 1..Len(list) |-> other[k]]
  BY <1>0 DEF Share
<1>2. ASSUME NEW k \in 1..Len(list), list[k].id = id
      PROVE  /\ other[k] \in Entry /\ other[k].id = list[k].id
             /\ other[k].status = list[k].status /\ other[k].traffic = traffic
  <2>1. other[k] = [list[k] EXCEPT !.traffic = traffic]
    BY <1>0, <1>2 DEF Share
  <2>2. PICK e \in Entry : e = list[k]
    BY <1>0
  <2> HIDE DEF other
  <2>3. other[k] = [e EXCEPT !.traffic = traffic]
    BY <2>1, <2>2
  <2>4. QED
    BY <2>2, <2>3 DEF Entry
<1>3. ASSUME NEW k \in 1..Len(list), list[k].id # id
      PROVE  other[k] = list[k]
  BY <1>0, <1>3 DEF Share
<1> HIDE DEF other
<1>4. \A k \in 1..Len(list) : other[k] \in Entry /\ other[k].id = list[k].id
  BY <1>0, <1>2, <1>3
<1>5. other \in Seq(Entry) /\ Len(other) = Len(list)
  BY <1>0, <1>1, <1>4, IsASeq
<1>6. QED
  BY <1>2, <1>3, <1>4, <1>5 DEF IsShared, SameIds, other

LEMMA Appended ==
  ASSUME NEW list \in Seq(Entry), NEW e \in Entry
  PROVE  /\ Append(list, e) \in Seq(Entry)
         /\ Len(Append(list, e)) = Len(list) + 1
         /\ Append(list, e)[Len(list) + 1] = e
         /\ \A k \in 1..Len(list) : Append(list, e)[k] = list[k]
  BY AppendProperties

-----------------------------------------------------------------------------
(* Numbers: there is a least one, and what passes from each to the next    *)
(* holds up to the last.                                                   *)

LEMMA Least ==
  ASSUME NEW T \in SUBSET Nat, T # {}
  PROVE  \E x \in T : \A y \in T : x <= y
<1> DEFINE R == {ss \in Nat \X Nat : ss[1] < ss[2]}
<1>1. IsWellFoundedOn(R, Nat)
  BY NatLessThanWellFounded DEF OpToRel
<1>2. PICK x \in T : \A y \in T : ~(<<y, x>> \in R)
  BY <1>1, WFMin
<1>3. ASSUME NEW y \in T PROVE x <= y
  <2>1. ~(<<y, x>>[1] < <<y, x>>[2]) /\ x \in Nat /\ y \in Nat
    BY <1>2
  <2>2. QED
    BY <2>1
<1>4. QED
  BY <1>3

LEMMA Upwards ==
  ASSUME NEW N \in Nat, NEW T, 0 \in T,
         \A n \in 0..(N - 1) : n \in T => n + 1 \in T
  PROVE  0..N \subseteq T
<1> SUFFICES ASSUME NEW k \in 0..N, k \notin T PROVE FALSE
  OBVIOUS
<1> DEFINE F == {n \in 0..N : n \notin T}
<1>0. F \in SUBSET Nat /\ F # {}
  OBVIOUS
<1> HIDE DEF F
<1>1. PICK x \in F : \A y \in F : x <= y
  BY <1>0, Least
<1> USE DEF F
<1>2. x # 0 /\ x - 1 \in 0..(N - 1) /\ x - 1 \in T
  BY <1>1
<1>3. QED
  BY <1>1, <1>2

\* A set of positions that is not empty has a last one.
LEMMA Last ==
  ASSUME NEW N \in Nat, NEW T \in SUBSET (1..N), T # {}
  PROVE  \E x \in T : \A y \in T : y <= x
<1> DEFINE D == {d \in 0..N : N - d \in T}
<1>1. D \in SUBSET Nat /\ D # {}
  <2>1. PICK y \in T : TRUE
    OBVIOUS
  <2>2. N - y \in 0..N /\ N - (N - y) = y
    OBVIOUS
  <2>3. N - y \in D
    BY <2>2
  <2>4. D \in SUBSET Nat
    OBVIOUS
  <2>5. QED
    BY <2>3, <2>4
<1>2. PICK d \in D : \A e \in D : d <= e
  BY <1>1, Least
<1>3. ASSUME NEW y \in T PROVE y <= N - d
  <2>1. y \in 1..N /\ N - y \in 0..N /\ N - (N - y) = y
    OBVIOUS
  <2>2. d \in 0..N /\ d <= N - y
    BY <1>2, <2>1
  <2>3. QED
    BY <2>1, <2>2
<1>4. QED
  BY <1>3

-----------------------------------------------------------------------------
(* Every step keeps the invariant.                                         *)

LEMMA InitVersions == Init => VersionInv
  BY DEF Init, VersionInv, TypeOK, Distinct, TopOK, CanaryOK, SharesOK

\* What a deployment leaves: the old entries, the live one retired, and a new
\* one at the end.
LEMMA DeployEntries ==
  ASSUME VersionInv, NEW id \in NewIds, Deploy(id)
  PROVE  /\ versions' \in Seq(Entry) /\ Len(versions') = Len(versions) + 1
         /\ \A k \in 1..Len(versions) :
               /\ versions'[k].id = versions[k].id /\ versions[k].id # id
               /\ versions'[k].status = IF versions[k].id = active
                                        THEN "retired" ELSE versions[k].status
         /\ versions'[Len(versions) + 1]
              = [id |-> id, status |-> "active", traffic |-> 100]
<1> DEFINE list == Retire(versions)
           e == [id |-> id, status |-> "active", traffic |-> 100]
<1>1. versions \in Seq(Entry)
  BY DEF VersionInv, TypeOK
<1>2. IsMarked(versions, list, active, "retired", 0)
  <2>1. "retired" \in Statuses /\ 0 \in 0..100
    BY DEF Statuses
  <2>2. QED
    BY <1>1, <2>1, Marked DEF Retire
<1>3. e \in Entry
  BY DEF Entry, NewIds
<1>4. versions' = Append(list, e)
  BY DEF Deploy
<1>5. \A k \in 1..Len(versions) : versions[k].id # id
  BY <1>1, Entries DEF NewIds
<1> HIDE DEF list, e
<1>6. /\ versions' \in Seq(Entry) /\ Len(versions') = Len(versions) + 1
      /\ versions'[Len(versions) + 1] = e
      /\ \A k \in 1..Len(versions) : versions'[k] = list[k]
  BY <1>2, <1>3, <1>4, Appended DEF IsMarked, SameIds
<1>7. QED
  BY <1>2, <1>5, <1>6 DEF IsMarked, SameIds, e

LEMMA DeployKeeps ==
  ASSUME VersionInv, NEW id \in NewIds, Deploy(id)
  PROVE  VersionInv'
<1> DEFINE n == Len(versions)
           e == [id |-> id, status |-> "active", traffic |-> 100]
<1>1. /\ versions \in Seq(Entry) /\ n \in Nat /\ DOMAIN versions = 1..n
      /\ \A k \in 1..n : versions[k].id \in Ids
  BY Entries DEF VersionInv, TypeOK
<1>2. /\ versions' \in Seq(Entry) /\ Len(versions') = n + 1
      /\ \A k \in 1..n :
            /\ versions'[k].id = versions[k].id /\ versions[k].id # id
            /\ versions'[k].status = IF versions[k].id = active
                                     THEN "retired" ELSE versions[k].status
      /\ versions'[n + 1].id = id /\ versions'[n + 1].status = "active"
      /\ versions'[n + 1].traffic = 100
  <2>1. e.id = id /\ e.status = "active" /\ e.traffic = 100
    OBVIOUS
  <2>2. QED
    BY <2>1, DeployEntries
<1>3. active' = id /\ canary' = NoVersion /\ id \in Ids /\ id # NoVersion
  BY DEF Deploy, NewIds
<1>4. DOMAIN versions' = 1..(n + 1)
  BY <1>2, Entries
<1> HIDE DEF n
<1>5. TypeOK'
  BY <1>2, <1>3 DEF TypeOK
<1>6. Distinct'
  BY <1>1, <1>2, <1>4 DEF Distinct, VersionInv
<1>7. TopOK'
  <2>1. \A k \in 1..(n + 1) : versions'[k].status = "active" <=> k = n + 1
    BY <1>1, <1>2 DEF VersionInv, TopOK
  <2>2. \A k \in 1..(n + 1) : versions'[k].id = id <=> k = n + 1
    BY <1>1, <1>2
  <2>3. n + 1 \in 1..(n + 1) /\ \A k \in 1..(n + 1) : k <= n + 1
    BY <1>1
  <2>4. QED
    BY <1>3, <1>4, <2>1, <2>2, <2>3 DEF TopOK
<1>8. CanaryOK' /\ SharesOK'
  BY <1>1, <1>2, <1>3, <1>4 DEF CanaryOK, SharesOK
<1>9. QED
  BY <1>5, <1>6, <1>7, <1>8 DEF VersionInv

\* What the deployment of a canary leaves: the old entries, the share of the
\* live one cut, and the canary at the end.
LEMMA CanaryEntries ==
  ASSUME VersionInv, NEW id \in NewIds, NEW percent \in Percents,
         DeployCanary(id, percent)
  PROVE  /\ versions' \in Seq(Entry) /\ Len(versions') = Len(versions) + 1
         /\ \A k \in 1..Len(versions) :
               /\ versions'[k].id = versions[k].id /\ versions[k].id # id
               /\ versions'[k].status = versions[k].status
               /\ versions[k].id = active
                    => versions'[k].traffic = 100 - percent
         /\ versions'[Len(versions) + 1].id = id
         /\ versions'[Len(versions) + 1].status = "canary"
         /\ active # id
         /\ versions'[Len(versions) + 1].traffic = percent
<1> DEFINE e == [id |-> id, status |-> "canary", traffic |-> percent]
           list == Append(versions, e)
           n == Len(versions)
<1>1. /\ versions \in Seq(Entry) /\ n \in Nat /\ DOMAIN versions = 1..n
  BY Entries DEF VersionInv, TypeOK
<1>2. e \in Entry /\ e.id = id /\ e.status = "canary" /\ e.traffic = percent
  BY DEF Entry, NewIds
<1>3. versions' = Share(list, active, 100 - percent) /\ 100 - percent \in 0..100
  BY DEF DeployCanary
<1>4. \A k \in 1..n : versions[k].id # id
  BY <1>1 DEF NewIds
<1>5. active # id
  BY <1>1, <1>4 DEF VersionInv, TopOK, NewIds
<1> HIDE DEF e
<1>6. /\ list \in Seq(Entry) /\ Len(list) = n + 1 /\ list[n + 1] = e
      /\ \A k \in 1..n : list[k] = versions[k]
  BY <1>1, <1>2, Appended
<1> HIDE DEF list
<1>7. IsShared(list, versions', active, 100 - percent)
  BY <1>3, <1>6, Shared
<1>8. \A k \in 1..n : k \in 1..(n + 1)
  BY <1>1
<1>9. n + 1 \in 1..(n + 1)
  BY <1>1
<1> HIDE DEF n
<1>10. /\ versions' \in Seq(Entry) /\ Len(versions') = n + 1
       /\ \A k \in 1..n :
             /\ versions'[k].id = versions[k].id
             /\ versions'[k].status = versions[k].status
             /\ versions[k].id = active => versions'[k].traffic = 100 - percent
  BY <1>6, <1>7, <1>8 DEF IsShared, SameIds
<1>11. versions'[n + 1].id = id /\ versions'[n + 1].status = "canary"
       /\ versions'[n + 1].traffic = percent
  BY <1>2, <1>5, <1>6, <1>7, <1>9 DEF IsShared, SameIds
<1>12. QED
  BY <1>4, <1>5, <1>10, <1>11 DEF n

LEMMA DeployCanaryKeeps ==
  ASSUME VersionInv, NEW id \in NewIds, NEW percent \in Percents,
         DeployCanary(id, percent)
  PROVE  VersionInv'
<1> DEFINE n == Len(versions)
<1>1. /\ versions \in Seq(Entry) /\ n \in Nat /\ DOMAIN versions = 1..n
      /\ \A k \in 1..n : versions[k].id \in Ids
  BY Entries DEF VersionInv, TypeOK
<1>2. /\ versions' \in Seq(Entry) /\ Len(versions') = n + 1
      /\ \A k \in 1..n :
            /\ versions'[k].id = versions[k].id /\ versions[k].id # id
            /\ versions'[k].status = versions[k].status
            /\ versions[k].id = active => versions'[k].traffic = 100 - percent
      /\ versions'[n + 1].id = id /\ versions'[n + 1].status = "canary"
      /\ versions'[n + 1].traffic = percent /\ active # id
  BY CanaryEntries
<1>3. /\ active' = active /\ canary' = id /\ id \in Ids /\ id # NoVersion
      /\ percent \in 0..100
  BY DEF DeployCanary, NewIds
<1>4. DOMAIN versions' = 1..(n + 1)
  BY <1>2, Entries
<1> HIDE DEF n
<1>5. TypeOK'
  BY <1>2, <1>3 DEF TypeOK, VersionInv
<1>6. Distinct'
  BY <1>1, <1>2, <1>4 DEF Distinct, VersionInv
<1>7. TopOK'
  <2>1. \A k \in 1..(n + 1) : k = n + 1 \/ k \in 1..n
    BY <1>1
  <2>2. \A k \in 1..n : k \in 1..(n + 1)
    BY <1>1
  <2>3. \A k \in 1..(n + 1) :
          versions'[k].status = "active" <=> versions'[k].id = active
    BY <1>1, <1>2, <2>1 DEF VersionInv, TopOK
  <2>4. active # NoVersion =>
          \E k \in 1..(n + 1) : versions'[k].id = active
    BY <1>1, <1>2, <2>2 DEF VersionInv, TopOK
  <2>5. ASSUME NEW j \in 1..(n + 1),
               versions'[j].status \in {"retired", "active"}
        PROVE  \E k \in 1..(n + 1) : versions'[k].id = active /\ j <= k
    <3>1. j \in 1..n /\ LiveAt(versions, j)
      BY <1>2, <2>1, <2>5 DEF LiveAt
    <3>2. PICK k \in 1..n : versions[k].id = active /\ j <= k
      BY <1>1, <3>1 DEF VersionInv, TopOK
    <3>3. QED
      BY <1>2, <2>2, <3>2
  <2>6. QED
    BY <1>3, <1>4, <2>3, <2>4, <2>5 DEF TopOK, LiveAt
<1>8. CanaryOK'
  BY <1>1, <1>2, <1>3 DEF CanaryOK
<1>9. SharesOK'
  <2>1. ASSUME NEW k \in 1..(n + 1), versions'[k].id = active
        PROVE  versions'[k].traffic + percent = 100
    <3>1. k \in 1..n
      BY <1>1, <1>2, <2>1
    <3>2. versions'[k].traffic = 100 - percent
      BY <1>2, <2>1, <3>1
    <3>3. QED
      BY <1>3, <3>2
  <2>2. QED
    BY <1>2, <1>3, <1>4, <2>1 DEF SharesOK
<1>10. QED
  BY <1>5, <1>6, <1>7, <1>8, <1>9 DEF VersionInv

\* The canary is the last entry, and the only one of its id.
LEMMA CanaryLast ==
  ASSUME VersionInv, canary # NoVersion
  PROVE  /\ versions \in Seq(Entry) /\ Len(versions) \in Nat
         /\ Len(versions) \in 1..Len(versions)
         /\ DOMAIN versions = 1..Len(versions)
         /\ versions[Len(versions)].id = canary
         /\ versions[Len(versions)].status = "canary"
         /\ active # canary
         /\ \A k \in 1..Len(versions) : k # Len(versions)
                                          => versions[k].id # canary
<1> DEFINE n == Len(versions)
<1>1. /\ versions \in Seq(Entry) /\ n \in Nat /\ DOMAIN versions = 1..n
  BY Entries DEF VersionInv, TypeOK
<1>2. n # 0 /\ versions[n].id = canary /\ versions[n].status = "canary"
  BY DEF VersionInv, CanaryOK
<1>3. n \in 1..n
  BY <1>1, <1>2
<1>4. versions[n].id # active
  <2>1. \A k \in 1..n : versions[k].id = active => versions[k].status = "active"
    BY <1>1 DEF VersionInv, TopOK
  <2>2. QED
    BY <1>2, <1>3, <2>1
<1>5. ASSUME NEW k \in 1..n, k # n PROVE versions[k].id # canary
  <2>1. \A i, j \in 1..n : versions[i].id = versions[j].id => i = j
    BY <1>1 DEF VersionInv, Distinct
  <2>2. QED
    BY <1>2, <1>3, <1>5, <2>1
<1>6. QED
  BY <1>1, <1>2, <1>3, <1>4, <1>5, Zenon

\* What a promotion leaves.
LEMMA PromoteEntries ==
  ASSUME VersionInv, PromoteCanary
  PROVE  /\ SameIds(versions, versions')
         /\ versions'[Len(versions)].status = "active"
         /\ versions'[Len(versions)].traffic = 100
         /\ \A k \in 1..Len(versions) : k # Len(versions) =>
               versions'[k].status = IF versions[k].id = active
                                     THEN "retired" ELSE versions[k].status
<1> DEFINE n == Len(versions)
           list == Retire(versions)
<1>1. canary # NoVersion /\ versions' = Mark(list, canary, "active", 100)
  BY Zenon DEF PromoteCanary
<1>2. /\ versions \in Seq(Entry) /\ n \in Nat /\ n \in 1..n
      /\ versions[n].id = canary
      /\ \A k \in 1..n : k # n => versions[k].id # canary
  BY <1>1, CanaryLast, Zenon
<1>3. IsMarked(versions, list, active, "retired", 0)
  <2>1. "retired" \in Statuses /\ 0 \in 0..100
    BY DEF Statuses
  <2>2. QED
    BY <1>2, <2>1, Marked DEF Retire
<1> HIDE DEF list
<1>4. IsMarked(list, versions', canary, "active", 100)
  <2>1. "active" \in Statuses /\ 100 \in 0..100
    BY DEF Statuses
  <2>2. list \in Seq(Entry)
    BY <1>3 DEF IsMarked, SameIds
  <2>3. QED
    BY <1>1, <2>1, <2>2, Marked
<1>5. SameIds(versions, versions')
  BY <1>3, <1>4 DEF IsMarked, SameIds
<1>6. versions'[n].status = "active" /\ versions'[n].traffic = 100
  BY <1>2, <1>3, <1>4 DEF IsMarked, SameIds
<1>7. ASSUME NEW k \in 1..n, k # n
      PROVE  versions'[k].status = IF versions[k].id = active
                                   THEN "retired" ELSE versions[k].status
  <2>1. versions'[k] = list[k]
    BY <1>2, <1>3, <1>4, <1>7 DEF IsMarked, SameIds
  <2>2. QED
    BY <1>3, <2>1 DEF IsMarked
<1>8. QED
  BY <1>5, <1>6, <1>7

LEMMA PromoteKeeps ==
  ASSUME VersionInv, PromoteCanary
  PROVE  VersionInv'
<1> DEFINE n == Len(versions)
<1>1. canary # NoVersion /\ active' = canary /\ canary' = NoVersion
  BY Zenon DEF PromoteCanary
<1>2. /\ versions \in Seq(Entry) /\ n \in Nat /\ n \in 1..n
      /\ DOMAIN versions = 1..n /\ versions[n].id = canary
      /\ \A k \in 1..n : k # n => versions[k].id # canary
  BY <1>1, CanaryLast, Zenon
<1>3. /\ versions' \in Seq(Entry) /\ Len(versions') = n
      /\ \A k \in 1..n : versions'[k].id = versions[k].id
      /\ versions'[n].status = "active" /\ versions'[n].traffic = 100
      /\ \A k \in 1..n : k # n =>
            versions'[k].status = IF versions[k].id = active
                                  THEN "retired" ELSE versions[k].status
  BY PromoteEntries DEF SameIds
<1>4. DOMAIN versions' = 1..n
  BY <1>3, Entries
<1> HIDE DEF n
<1>5. TypeOK'
  BY <1>1, <1>3 DEF TypeOK, VersionInv
<1>6. Distinct'
  BY <1>2, <1>3, <1>4 DEF Distinct, VersionInv
<1>7. TopOK'
  <2>1. ASSUME NEW k \in 1..n, k # n PROVE versions'[k].status # "active"
    BY <1>2, <1>3, <2>1 DEF VersionInv, TopOK
  <2>2. \A k \in 1..n : versions'[k].id = canary <=> k = n
    BY <1>2, <1>3
  <2>3. \A k \in 1..n : k <= n
    BY <1>2
  <2>4. QED
    BY <1>1, <1>2, <1>3, <1>4, <2>1, <2>2, <2>3 DEF TopOK
<1>8. CanaryOK' /\ SharesOK'
  BY <1>1, <1>2, <1>3, <1>4 DEF CanaryOK, SharesOK
<1>9. QED
  BY <1>5, <1>6, <1>7, <1>8 DEF VersionInv

\* What cancelling a canary leaves.
LEMMA CancelEntries ==
  ASSUME VersionInv, CancelCanary
  PROVE  /\ SameIds(versions, versions')
         /\ versions'[Len(versions)].status = "rolled_back"
         /\ \A k \in 1..Len(versions) :
               /\ k # Len(versions) => versions'[k].status = versions[k].status
               /\ versions[k].id = active => versions'[k].traffic = 100
<1> DEFINE n == Len(versions)
           list == Mark(versions, canary, "rolled_back", 0)
<1>1. canary # NoVersion /\ versions' = Share(list, active, 100)
  BY DEF CancelCanary
<1>2. /\ versions \in Seq(Entry) /\ n \in Nat /\ n \in 1..n
      /\ versions[n].id = canary
      /\ \A k \in 1..n : k # n => versions[k].id # canary
  BY <1>1, CanaryLast
<1>3. IsMarked(versions, list, canary, "rolled_back", 0)
  <2>1. "rolled_back" \in Statuses /\ 0 \in 0..100
    BY DEF Statuses
  <2>2. QED
    BY <1>2, <2>1, Marked
<1> HIDE DEF list
<1>4. IsShared(list, versions', active, 100)
  <2>1. 100 \in 0..100 /\ list \in Seq(Entry)
    BY <1>3 DEF IsMarked, SameIds
  <2>2. QED
    BY <1>1, <2>1, Shared
<1>5. SameIds(versions, versions')
  BY <1>3, <1>4 DEF IsMarked, IsShared, SameIds
<1>6. versions'[n].status = "rolled_back"
  BY <1>2, <1>3, <1>4 DEF IsMarked, IsShared, SameIds
<1>7. ASSUME NEW k \in 1..n, k # n
      PROVE  versions'[k].status = versions[k].status
  BY <1>2, <1>3, <1>4, <1>7 DEF IsMarked, IsShared, SameIds
<1>8. ASSUME NEW k \in 1..n, versions[k].id = active
      PROVE  versions'[k].traffic = 100
  BY <1>3, <1>4, <1>8 DEF IsMarked, IsShared, SameIds
<1>9. QED
  BY <1>5, <1>6, <1>7, <1>8

LEMMA CancelKeeps ==
  ASSUME VersionInv, CancelCanary
  PROVE  VersionInv'
<1> DEFINE n == Len(versions)
<1>1. canary # NoVersion /\ active' = active /\ canary' = NoVersion
  BY Zenon DEF CancelCanary
<1>2. /\ versions \in Seq(Entry) /\ n \in Nat /\ n \in 1..n
      /\ DOMAIN versions = 1..n /\ versions[n].id = canary /\ active # canary
      /\ versions[n].status = "canary"
      /\ \A k \in 1..n : k # n => versions[k].id # canary
  BY <1>1, CanaryLast, Zenon
<1>3. /\ versions' \in Seq(Entry) /\ Len(versions') = n
      /\ \A k \in 1..n : versions'[k].id = versions[k].id
      /\ versions'[n].status = "rolled_back"
      /\ \A k \in 1..n :
            /\ k # n => versions'[k].status = versions[k].status
            /\ versions[k].id = active => versions'[k].traffic = 100
  BY CancelEntries DEF SameIds
<1>4. DOMAIN versions' = 1..n
  BY <1>3, Entries
<1> HIDE DEF n
<1>5. TypeOK'
  BY <1>1, <1>3 DEF TypeOK, VersionInv
<1>6. Distinct'
  BY <1>2, <1>3, <1>4 DEF Distinct, VersionInv
<1>7. TopOK'
  <2>1. \A k \in 1..n : versions'[k].status = "active" <=> versions[k].id = active
    BY <1>2, <1>3 DEF VersionInv, TopOK
  <2>2. \A k \in 1..n : LiveAt(versions', k) => LiveAt(versions, k)
    BY <1>2, <1>3 DEF LiveAt
  <2>3. active # NoVersion => \E k \in 1..n : versions'[k].id = active
    BY <1>2, <1>3 DEF VersionInv, TopOK
  <2>4. \A j \in 1..n : LiveAt(versions, j) =>
          \E k \in 1..n : versions[k].id = active /\ j <= k
    BY <1>2 DEF VersionInv, TopOK
  <2>5. \A j \in 1..n : LiveAt(versions', j) =>
          \E k \in 1..n : versions'[k].id = active /\ j <= k
    BY <1>3, <2>2, <2>4
  <2>6. QED
    BY <1>1, <1>3, <1>4, <2>1, <2>3, <2>5 DEF TopOK, LiveAt
<1>8. CanaryOK' /\ SharesOK'
  BY <1>1, <1>2, <1>3, <1>4 DEF CanaryOK, SharesOK
<1>9. QED
  BY <1>5, <1>6, <1>7, <1>8 DEF VersionInv

\* What a rollback finds and leaves: a is the entry of the live version, r the
\* one it returns to.
LEMMA RollBackEntries ==
  ASSUME VersionInv, RollBack
  PROVE  \E a, r \in 1..Len(versions) :
           /\ r < a /\ versions[a].id = active /\ versions[a].status = "active"
           /\ versions[r].status = "retired"
           /\ \A k \in 1..Len(versions) :
                 versions[k].status = "retired" => k <= r
           /\ SameIds(versions, versions') /\ active' = versions[r].id
           /\ versions'[r].status = "active" /\ versions'[r].traffic = 100
           /\ versions'[a].status = "rolled_back"
           /\ \A k \in 1..Len(versions) : k # a /\ k # r =>
                 versions'[k].status = versions[k].status
<1> DEFINE n == Len(versions)
           retired == {k \in DOMAIN versions : versions[k].status = "retired"}
           last == CHOOSE k \in retired : \A j \in retired : j <= k
           list == Mark(versions, active, "rolled_back", 0)
<1>1. /\ versions \in Seq(Entry) /\ n \in Nat /\ DOMAIN versions = 1..n
      /\ \A k \in 1..n : versions[k].id \in Ids
  BY Entries DEF VersionInv, TypeOK
<1>2. /\ retired # {} /\ active' = versions[last].id
      /\ versions' = [list EXCEPT ![last].status = "active",
                                  ![last].traffic = 100]
  BY DEF RollBack
<1>3. last \in retired /\ \A j \in retired : j <= last
  <2>1. retired \in SUBSET (1..n)
    BY <1>1
  <2> HIDE DEF retired
  <2>2. \E x \in retired : \A j \in retired : j <= x
    BY <1>1, <1>2, <2>1, Last
  <2>3. QED
    BY <2>2
<1>4. /\ last \in 1..n /\ versions[last].status = "retired"
      /\ \A k \in 1..n : versions[k].status = "retired" => k <= last
  <2> HIDE DEF last
  <2>1. QED
    BY <1>1, <1>3
<1> HIDE DEF last, retired
<1>5. PICK a \in 1..n : versions[a].id = active /\ last <= a
  BY <1>1, <1>4 DEF VersionInv, TopOK, LiveAt
<1>6. versions[a].status = "active" /\ a # last /\ last < a
  <2>1. versions[a].status = "active"
    BY <1>1, <1>5 DEF VersionInv, TopOK
  <2>2. a # last
    BY <1>4, <2>1
  <2>3. QED
    BY <1>1, <1>4, <1>5, <2>1, <2>2
<1>7. \A k \in 1..n : versions[k].id = active => k = a
  BY <1>1, <1>5 DEF VersionInv, Distinct
<1>8. IsMarked(versions, list, active, "rolled_back", 0)
  <2>1. "rolled_back" \in Statuses /\ 0 \in 0..100
    BY DEF Statuses
  <2>2. QED
    BY <1>1, <2>1, Marked
<1> HIDE DEF list, n
<1>9. /\ list \in Seq(Entry) /\ Len(list) = n /\ DOMAIN list = 1..n
      /\ \A k \in 1..n : list[k].id = versions[k].id
      /\ list[a].status = "rolled_back"
      /\ \A k \in 1..n : k # a => list[k] = versions[k]
  BY <1>1, <1>5, <1>7, <1>8, Entries DEF IsMarked, SameIds, n
<1>10. PICK e \in Entry : e = list[last]
  BY <1>4, <1>9, Entries
<1> DEFINE new == [e EXCEPT !.status = "active", !.traffic = 100]
<1>11. new \in Entry /\ new.id = e.id /\ new.status = "active"
       /\ new.traffic = 100
  <2>1. "active" \in Statuses /\ 100 \in 0..100
    BY DEF Statuses
  <2>2. PICK st \in Statuses, tr \in 0..100 : st = "active" /\ tr = 100
    BY <2>1
  <2>3. new = [e EXCEPT !.status = st, !.traffic = tr]
    BY <2>2
  <2> HIDE DEF new
  <2>4. new \in Entry /\ new.id = e.id
    BY <1>10, <2>3 DEF Entry, Statuses
  <2>5. new.status = st /\ new.traffic = tr
    BY <1>10, <2>3 DEF Entry
  <2>6. QED
    BY <2>2, <2>4, <2>5
<1>12. versions' = [list EXCEPT ![last] = new]
  BY <1>2, <1>4, <1>9, <1>10 DEF Entry
<1> HIDE DEF new
<1>13. /\ versions' \in Seq(Entry) /\ Len(versions') = n
       /\ versions'[last] = new
       /\ \A k \in 1..n : k # last => versions'[k] = list[k]
  BY <1>4, <1>9, <1>11, <1>12, ExceptSeq
<1>14. SameIds(versions, versions')
  BY <1>9, <1>10, <1>11, <1>13 DEF SameIds, n
<1>15. /\ versions'[last].status = "active" /\ versions'[last].traffic = 100
       /\ versions'[a].status = "rolled_back"
       /\ \A k \in 1..n : k # a /\ k # last =>
             versions'[k].status = versions[k].status
  BY <1>5, <1>6, <1>9, <1>11, <1>13
<1>16. QED
  BY <1>2, <1>4, <1>5, <1>6, <1>14, <1>15 DEF n

LEMMA RollBackKeeps ==
  ASSUME VersionInv, RollBack
  PROVE  VersionInv'
<1> DEFINE n == Len(versions)
<1>1. /\ versions \in Seq(Entry) /\ n \in Nat /\ DOMAIN versions = 1..n
      /\ \A k \in 1..n : versions[k].id \in Ids
  BY Entries DEF VersionInv, TypeOK
<1>2. canary = NoVersion /\ canary' = NoVersion
  BY DEF RollBack
<1>3. PICK a, r \in 1..n :
        /\ r < a /\ versions[a].id = active /\ versions[a].status = "active"
        /\ versions[r].status = "retired"
        /\ \A k \in 1..n : versions[k].status = "retired" => k <= r
        /\ SameIds(versions, versions') /\ active' = versions[r].id
        /\ versions'[r].status = "active" /\ versions'[r].traffic = 100
        /\ versions'[a].status = "rolled_back"
        /\ \A k \in 1..n : k # a /\ k # r =>
              versions'[k].status = versions[k].status
  BY RollBackEntries
<1>4. /\ versions' \in Seq(Entry) /\ Len(versions') = n
      /\ DOMAIN versions' = 1..n
      /\ \A k \in 1..n : versions'[k].id = versions[k].id
  BY <1>3, Entries DEF SameIds
<1> HIDE DEF n
<1>5. \A j, k \in 1..n : versions[j].id = versions[k].id => j = k
  BY <1>1 DEF VersionInv, Distinct
<1>6. ASSUME NEW k \in 1..n, k # a PROVE versions[k].status # "active"
  BY <1>1, <1>3, <1>5, <1>6 DEF VersionInv, TopOK
<1>7. TypeOK'
  BY <1>1, <1>2, <1>3, <1>4 DEF TypeOK
<1>8. Distinct'
  BY <1>4, <1>5 DEF Distinct
<1>9. TopOK'
  <2>1. \A k \in 1..n : versions'[k].status = "active" <=> k = r
    BY <1>3, <1>6
  <2>2. \A k \in 1..n : versions'[k].id = active' <=> k = r
    BY <1>3, <1>4, <1>5
  <2>3. ASSUME NEW j \in 1..n, LiveAt(versions', j) PROVE j <= r
    <3>1. CASE j = r
      BY <1>1, <3>1
    <3>2. CASE j # r
      BY <1>3, <1>6, <2>3, <3>2 DEF LiveAt
    <3>3. QED
      BY <3>1, <3>2
  <2>4. QED
    BY <1>3, <1>4, <2>1, <2>2, <2>3 DEF TopOK, LiveAt
<1>10. CanaryOK' /\ SharesOK'
  BY <1>2, <1>3, <1>4, <1>5 DEF CanaryOK, SharesOK
<1>11. QED
  BY <1>7, <1>8, <1>9, <1>10 DEF VersionInv

LEMMA VersionStep == VersionInv /\ [Next]_vars => VersionInv'
<1>1. VersionInv /\ UNCHANGED vars => VersionInv'
  BY DEF vars, VersionInv, TypeOK, Distinct, TopOK, CanaryOK, SharesOK, LiveAt
<1>2. QED
  BY <1>1, DeployKeeps, DeployCanaryKeeps, PromoteKeeps, CancelKeeps,
     RollBackKeeps DEF Next

-----------------------------------------------------------------------------
(* The traffic adds up.                                                    *)

\* An id that has an entry is looked up there.
LEMMA FoundAt ==
  ASSUME VersionInv, NEW k \in DOMAIN versions
  PROVE  Lookup(versions[k].id) = versions[k]
<1> DEFINE S == {j \in DOMAIN versions : versions[j].id = versions[k].id}
<1>1. S = {k}
  BY DEF VersionInv, Distinct
<1>2. k \in Nat
  BY Entries DEF VersionInv, TypeOK
<1>3. Min({k}) = k
  BY <1>2 DEF Min
<1>4. Lookup(versions[k].id) = versions[Min(S)]
  BY DEF Lookup
<1>5. QED
  BY <1>1, <1>3, <1>4

LEMMA InvTraffic == VersionInv => TrafficWhole
<1> SUFFICES ASSUME VersionInv PROVE TrafficWhole
  OBVIOUS
<1> DEFINE n == Len(versions)
<1>1. /\ versions \in Seq(Entry) /\ n \in Nat /\ DOMAIN versions = 1..n
  BY Entries DEF VersionInv, TypeOK
<1>2. ASSUME canary # NoVersion
      PROVE  /\ n \in 1..n /\ Lookup(canary) = versions[n]
             /\ versions[n].status = "canary"
  <2>1. n \in 1..n /\ versions[n].id = canary /\ versions[n].status = "canary"
    BY <1>2, CanaryLast
  <2>2. QED
    BY <1>1, <2>1, FoundAt, Zenon
<1>3. ASSUME active # NoVersion
      PROVE  \E a \in 1..n : /\ versions[a].id = active
                             /\ Lookup(active) = versions[a]
                             /\ versions[a].status = "active"
  <2>1. PICK a \in 1..n : versions[a].id = active
    BY <1>1, <1>3 DEF VersionInv, TopOK
  <2>2. Lookup(active) = versions[a]
    BY <1>1, <2>1, FoundAt
  <2>3. versions[a].status = "active"
    BY <1>1, <2>1 DEF VersionInv, TopOK
  <2>4. QED
    BY <2>1, <2>2, <2>3
<1>4. ASSUME active # NoVersion
      PROVE  Lookup(active).traffic
               + (IF canary = NoVersion THEN 0 ELSE Lookup(canary).traffic)
               = 100
  <2>1. PICK a \in 1..n : versions[a].id = active /\ Lookup(active) = versions[a]
    BY <1>3, <1>4
  <2>2. versions[a].traffic
          + (IF canary = NoVersion THEN 0 ELSE versions[n].traffic) = 100
    BY <1>1, <2>1 DEF VersionInv, SharesOK
  <2>3. CASE canary = NoVersion
    BY <2>1, <2>2, <2>3
  <2>4. CASE canary # NoVersion
    BY <1>2, <2>1, <2>2, <2>4
  <2>5. QED
    BY <2>3, <2>4
<1>5. ASSUME NEW id \in Routed \ {NoVersion}
      PROVE  Lookup(id).status \in {"active", "canary"}
  <2>1. id = active \/ id = canary
    BY <1>5 DEF Routed
  <2>2. QED
    BY <1>2, <1>3, <2>1
<1>6. \A k \in DOMAIN versions :
         versions[k].status = "active" => versions[k].id = active
  BY DEF VersionInv, TopOK
<1>7. QED
  BY <1>4, <1>5, <1>6 DEF TrafficWhole, VersionInv

\* Whatever was deployed, promoted, cancelled and rolled back, the live version
\* and the canary share the whole traffic, and nobody else gets any.
THEOREM TrafficCorrect == Spec => []TrafficWhole
<1>1. QED
  BY InitVersions, VersionStep, InvTraffic, PTL DEF Spec

-----------------------------------------------------------------------------
(* The versions that were live are a stack.  The stack is read off the     *)
(* list entry by entry.                                                    *)

Push(list, stack, n) ==
    IF list[n].status \in {"retired", "active"} THEN Append(stack, list[n].id)
                                               ELSE stack

IsReading(f, list, m) ==
    f = [n \in 0..m |-> IF n = 0 THEN <<>> ELSE Push(list, f[n - 1], n)]

\* There is a function that reads the list.
LEMMA Reading ==
  ASSUME NEW list, NEW N \in Nat
  PROVE  \E f : IsReading(f, list, N)
<1> DEFINE T == {m \in 0..N : \E f : IsReading(f, list, m)}
<1>1. 0 \in T
  <2> DEFINE f == [n \in 0..0 |-> <<>>]
  <2>1. \A n \in 0..0 : <<>> = IF n = 0 THEN <<>> ELSE Push(list, f[n - 1], n)
    OBVIOUS
  <2>2. IsReading(f, list, 0)
    BY <2>1 DEF IsReading
  <2> HIDE DEF f
  <2>3. 0 \in 0..N
    OBVIOUS
  <2>4. QED
    BY <2>2, <2>3
<1>2. ASSUME NEW m \in 0..(N - 1), m \in T PROVE m + 1 \in T
  <2>1. PICK f : IsReading(f, list, m)
    BY <1>2
  <2> DEFINE g == [n \in 0..(m + 1) |-> IF n <= m THEN f[n]
                                        ELSE Push(list, f[m], m + 1)]
  <2>2. \A n \in 0..m : f[n] = IF n = 0 THEN <<>> ELSE Push(list, f[n - 1], n)
    BY <2>1 DEF IsReading
  <2>3. ASSUME NEW n \in 0..(m + 1)
        PROVE  g[n] = IF n = 0 THEN <<>> ELSE Push(list, g[n - 1], n)
    <3>1. CASE n <= m
      <4>1. g[n] = f[n] /\ (n # 0 => g[n - 1] = f[n - 1])
        BY <3>1
      <4>2. n \in 0..m
        BY <3>1
      <4> HIDE DEF g
      <4>3. QED
        BY <2>2, <4>1, <4>2
    <3>2. CASE n = m + 1
      <4>1. g[n] = Push(list, f[m], m + 1) /\ g[n - 1] = f[m] /\ n # 0
        BY <3>2
      <4> HIDE DEF g
      <4>2. QED
        BY <3>2, <4>1
    <3>3. QED
      BY <3>1, <3>2
  <2>4. IsReading(g, list, m + 1)
    BY <2>3 DEF IsReading
  <2>5. m + 1 \in 0..N
    OBVIOUS
  <2> HIDE DEF g
  <2>6. QED
    BY <2>4, <2>5
<1> HIDE DEF T
<1>3. N \in T
  BY <1>1, <1>2, Upwards
<1>4. QED
  BY <1>3 DEF T

\* What is known of the stacks read off a list.
Reads(f, list) ==
    /\ f[0] = <<>>
    /\ \A n \in 1..Len(list) :
          f[n - 1] \in Seq(Ids) /\ f[n] = Push(list, f[n - 1], n)
    /\ f[Len(list)] \in Seq(Ids)

LEMMA ReadsList ==
  ASSUME NEW list \in Seq(Entry), NEW f, IsReading(f, list, Len(list))
  PROVE  Reads(f, list)
<1> DEFINE N == Len(list)
<1>0. /\ N \in Nat /\ \A n \in 1..N : list[n].id \in Ids
  BY Entries
<1> HIDE DEF N
<1>1. \A n \in 0..N : f[n] = IF n = 0 THEN <<>> ELSE Push(list, f[n - 1], n)
  BY DEF IsReading, N
<1>2. f[0] = <<>>
  BY <1>0, <1>1
<1>3. \A n \in 1..N : f[n] = Push(list, f[n - 1], n)
  <2>1. ASSUME NEW n \in 1..N PROVE f[n] = Push(list, f[n - 1], n)
    <3>1. n \in 0..N /\ n # 0
      BY <1>0
    <3>2. QED
      BY <1>1, <3>1
  <2>2. QED
    BY <2>1
<1> DEFINE T == {n \in 0..N : f[n] \in Seq(Ids)}
<1>4. 0 \in T
  <2>1. <<>> \in Seq(Ids) /\ 0 \in 0..N
    BY <1>0
  <2>2. QED
    BY <1>2, <2>1
<1>5. ASSUME NEW n \in 0..(N - 1), n \in T PROVE n + 1 \in T
  <2>1. n + 1 \in 1..N /\ n + 1 \in 0..N /\ (n + 1) - 1 = n
    BY <1>0
  <2>2. f[n + 1] = Push(list, f[n], n + 1) /\ list[n + 1].id \in Ids
    BY <1>0, <1>3, <2>1
  <2>3. f[n] \in Seq(Ids)
    BY <1>5
  <2>4. Append(f[n], list[n + 1].id) \in Seq(Ids)
    BY <2>2, <2>3, AppendProperties
  <2>5. f[n + 1] \in Seq(Ids)
    BY <2>2, <2>3, <2>4 DEF Push
  <2>6. QED
    BY <2>1, <2>5
<1> HIDE DEF T
<1>6. 0..N \subseteq T
  BY <1>0, <1>4, <1>5, Upwards
<1>7. \A n \in 0..N : f[n] \in Seq(Ids)
  BY <1>6 DEF T
<1>8. \A n \in 1..N : n - 1 \in 0..N
  BY <1>0
<1>9. N \in 0..N
  BY <1>0
<1>10. QED
  BY <1>2, <1>3, <1>7, <1>8, <1>9 DEF Reads, N

LEMMA Readings ==
  /\ LiveUpTo = CHOOSE f : IsReading(f, versions, Len(versions))
  /\ LiveUpTo' = CHOOSE f : IsReading(f, versions', Len(versions'))
BY DEF LiveUpTo, IsReading, Push

LEMMA ReadsChosen ==
  ASSUME NEW list \in Seq(Entry), NEW f,
         f = CHOOSE g : IsReading(g, list, Len(list))
  PROVE  Reads(f, list)
<1>1. Len(list) \in Nat
  BY Entries
<1>2. IsReading(f, list, Len(list))
  BY <1>1, Reading
<1>3. QED
  BY <1>2, ReadsList

\* LiveStack before and after a step, with the functions behind it.
LEMMA Stacks ==
  ASSUME versions \in Seq(Entry), versions' \in Seq(Entry)
  PROVE  \E f, g : /\ Reads(f, versions) /\ LiveStack = f[Len(versions)]
                   /\ Reads(g, versions') /\ LiveStack' = g[Len(versions')]
<1>1. Reads(LiveUpTo, versions)
  BY Readings, ReadsChosen
<1>2. Reads(LiveUpTo', versions')
  BY Readings, ReadsChosen
<1>3. QED
  BY <1>1, <1>2 DEF LiveStack

\* Two lists whose first m entries push the same are read the same so far.
SameUpTo(list, other, m) ==
    \A n \in 1..m : /\ LiveAt(other, n) <=> LiveAt(list, n)
                    /\ other[n].id = list[n].id

LEMMA SamePrefix ==
  ASSUME NEW list \in Seq(Entry), NEW other \in Seq(Entry), NEW f, NEW g,
         Reads(f, list), Reads(g, other),
         NEW m \in 0..Len(list), m <= Len(other), SameUpTo(list, other, m)
  PROVE  \A n \in 0..m : g[n] = f[n]
<1> DEFINE T == {n \in 0..m : g[n] = f[n]}
<1>0. m \in Nat /\ Len(list) \in Nat /\ Len(other) \in Nat
  BY Entries
<1>1. 0 \in T
  BY <1>0 DEF Reads
<1>2. ASSUME NEW n \in 0..(m - 1), n \in T PROVE n + 1 \in T
  <2>1. /\ n + 1 \in 1..m /\ n + 1 \in 0..m /\ (n + 1) - 1 = n
        /\ n + 1 \in 1..Len(list) /\ n + 1 \in 1..Len(other)
    BY <1>0
  <2>2. f[n + 1] = Push(list, f[n], n + 1) /\ g[n + 1] = Push(other, g[n], n + 1)
    BY <2>1 DEF Reads
  <2>3. g[n] = f[n]
    BY <1>2
  <2>4. /\ LiveAt(other, n + 1) <=> LiveAt(list, n + 1)
        /\ other[n + 1].id = list[n + 1].id
    BY <2>1 DEF SameUpTo
  <2>5. Push(other, g[n], n + 1) = Push(list, f[n], n + 1)
    BY <2>3, <2>4 DEF Push, LiveAt
  <2>6. QED
    BY <2>1, <2>2, <2>5
<1> HIDE DEF T
<1>3. 0..m \subseteq T
  BY <1>0, <1>1, <1>2, Upwards
<1>4. QED
  BY <1>3 DEF T

\* Entries that are not live push nothing.
LEMMA DeadSuffix ==
  ASSUME NEW list \in Seq(Entry), NEW f, Reads(f, list),
         NEW a \in 0..Len(list),
         \A n \in 1..Len(list) : n > a => ~LiveAt(list, n)
  PROVE  f[Len(list)] = f[a]
<1> DEFINE N == Len(list)
           T == {d \in 0..(N - a) : f[a + d] = f[a]}
<1>0. N \in Nat /\ a \in Nat /\ N - a \in Nat /\ a + 0 = a /\ a + (N - a) = N
  BY Entries
<1>1. 0 \in T
  BY <1>0
<1>2. ASSUME NEW d \in 0..((N - a) - 1), d \in T PROVE d + 1 \in T
  <2>1. /\ a + (d + 1) \in 1..N /\ a + (d + 1) > a /\ d + 1 \in 0..(N - a)
        /\ (a + (d + 1)) - 1 = a + d
    BY <1>0
  <2>2. f[a + (d + 1)] = Push(list, f[a + d], a + (d + 1))
    BY <2>1 DEF Reads
  <2>3. ~LiveAt(list, a + (d + 1))
    BY <2>1
  <2>4. f[a + (d + 1)] = f[a + d]
    BY <2>2, <2>3 DEF Push, LiveAt
  <2>5. QED
    BY <1>2, <2>1, <2>4
<1>3. N - a \in T
  <2> HIDE DEF T
  <2>1. 0..(N - a) \subseteq T
    BY <1>0, <1>1, <1>2, Upwards
  <2>2. N - a \in 0..(N - a)
    BY <1>0
  <2>3. QED
    BY <2>1, <2>2
<1>4. QED
  BY <1>0, <1>3

\* After a live entry the stack is not empty.
LEMMA LiveBelow ==
  ASSUME NEW list \in Seq(Entry), NEW f, Reads(f, list),
         NEW r \in 1..Len(list), LiveAt(list, r), NEW m \in r..Len(list)
  PROVE  f[m] \in Seq(Ids) /\ f[m] # <<>>
<1> DEFINE N == Len(list)
           T == {d \in 0..(m - r) : f[r + d] \in Seq(Ids) /\ f[r + d] # <<>>}
<1>0. /\ N \in Nat /\ r \in Nat /\ m \in Nat /\ m - r \in Nat /\ r + 0 = r
      /\ r + (m - r) = m /\ m <= N
      /\ \A n \in 1..N : list[n].id \in Ids
  BY Entries
<1>1. 0 \in T
  <2>1. f[r - 1] \in Seq(Ids) /\ f[r] = Append(f[r - 1], list[r].id)
    BY <1>0 DEF Reads, Push, LiveAt
  <2>2. f[r] \in Seq(Ids) /\ f[r] # <<>>
    BY <1>0, <2>1, AppendProperties
  <2>3. QED
    BY <1>0, <2>2
<1>2. ASSUME NEW d \in 0..((m - r) - 1), d \in T PROVE d + 1 \in T
  <2>1. /\ r + (d + 1) \in 1..N /\ d + 1 \in 0..(m - r)
        /\ (r + (d + 1)) - 1 = r + d
    BY <1>0
  <2>2. f[r + (d + 1)] = Push(list, f[r + d], r + (d + 1))
    BY <2>1 DEF Reads
  <2>3. f[r + d] \in Seq(Ids) /\ f[r + d] # <<>>
    BY <1>2
  <2>4. list[r + (d + 1)].id \in Ids
    BY <1>0, <2>1
  <2>5. Append(f[r + d], list[r + (d + 1)].id) \in Seq(Ids) \ {<<>>}
    BY <2>3, <2>4, AppendProperties
  <2>6. f[r + (d + 1)] \in Seq(Ids) /\ f[r + (d + 1)] # <<>>
    BY <2>2, <2>3, <2>5 DEF Push
  <2>7. QED
    BY <2>1, <2>6
<1>3. m - r \in T
  <2> HIDE DEF T
  <2>1. 0..(m - r) \subseteq T
    BY <1>0, <1>1, <1>2, Upwards
  <2>2. m - r \in 0..(m - r)
    BY <1>0
  <2>3. QED
    BY <2>1, <2>2
<1>4. QED
  BY <1>0, <1>3

\* Popping what was pushed.
LEMMA Popped ==
  ASSUME NEW stack \in Seq(Ids), NEW id \in Ids, NEW top,
         top = Append(stack, id)
  PROVE  Len(top) = Len(stack) + 1 /\ SubSeq(top, 1, Len(top) - 1) = stack
<1>1. /\ top \in Seq(Ids) /\ Len(top) = Len(stack) + 1 /\ Len(stack) \in Nat
      /\ \A k \in 1..Len(stack) : top[k] = stack[k]
  BY AppendProperties, LenProperties
<1> DEFINE rest == SubSeq(top, 1, Len(stack))
<1>2. rest \in Seq(Ids) /\ Len(rest) = Len(stack)
      /\ \A k \in 1..Len(stack) : rest[k] = top[k]
  BY <1>1, SubSeqProperties
<1> HIDE DEF rest
<1>3. rest = stack
  BY <1>1, <1>2, SeqEqual
<1>4. Len(top) - 1 = Len(stack)
  BY <1>1
<1>5. QED
  BY <1>1, <1>3, <1>4 DEF rest

\* A deployment pushes the new version ...
LEMMA DeployPushes ==
  ASSUME VersionInv, NEW id \in NewIds, Deploy(id)
  PROVE  Abstract!Deploy
<1> DEFINE n == Len(versions)
<1>1. versions \in Seq(Entry) /\ n \in Nat
  BY Entries DEF VersionInv, TypeOK
<1>2. /\ versions' \in Seq(Entry) /\ Len(versions') = n + 1
      /\ \A k \in 1..n :
            /\ versions'[k].id = versions[k].id
            /\ versions'[k].status = IF versions[k].id = active
                                     THEN "retired" ELSE versions[k].status
      /\ versions'[n + 1].id = id /\ versions'[n + 1].status = "active"
  <2>1. [id |-> id, status |-> "active", traffic |-> 100].id = id
        /\ [id |-> id, status |-> "active", traffic |-> 100].status = "active"
    OBVIOUS
  <2>2. QED
    BY <2>1, DeployEntries
<1>3. PICK f, g : /\ Reads(f, versions) /\ LiveStack = f[n]
                  /\ Reads(g, versions') /\ LiveStack' = g[n + 1]
  BY <1>1, <1>2, Stacks
<1> HIDE DEF n
<1>4. \A k \in 1..n : LiveAt(versions', k) <=> LiveAt(versions, k)
  <2>1. \A k \in 1..n : versions[k].id = active => versions[k].status = "active"
    BY <1>1, Entries DEF VersionInv, TopOK, n
  <2>2. QED
    BY <1>2, <2>1 DEF LiveAt
<1>5. g[n] = f[n]
  <2>1. n \in 0..n /\ n \in 0..Len(versions) /\ n <= Len(versions')
    BY <1>1, <1>2 DEF n
  <2>2. SameUpTo(versions, versions', n)
    BY <1>2, <1>4 DEF SameUpTo
  <2>3. QED
    BY <1>1, <1>2, <1>3, <2>1, <2>2, SamePrefix
<1>6. g[n + 1] = Append(g[n], id)
  <2>1. n + 1 \in 1..Len(versions') /\ (n + 1) - 1 = n
    BY <1>1, <1>2
  <2>2. QED
    BY <1>2, <1>3, <2>1 DEF Reads, Push
<1>7. canary' = NoVersion /\ id \in Ids
  BY DEF Deploy, NewIds
<1>8. QED
  BY <1>3, <1>5, <1>6, <1>7 DEF Abstract!Deploy

\* ... a canary goes on trial beside the stack ...
LEMMA CanaryTries ==
  ASSUME VersionInv, NEW id \in NewIds, NEW percent \in Percents,
         DeployCanary(id, percent)
  PROVE  Abstract!Try
<1> DEFINE n == Len(versions)
<1>1. versions \in Seq(Entry) /\ n \in Nat
  BY Entries DEF VersionInv, TypeOK
<1>2. /\ versions' \in Seq(Entry) /\ Len(versions') = n + 1
      /\ \A k \in 1..n : /\ versions'[k].id = versions[k].id
                         /\ versions'[k].status = versions[k].status
      /\ versions'[n + 1].status = "canary"
  BY CanaryEntries
<1>3. PICK f, g : /\ Reads(f, versions) /\ LiveStack = f[n]
                  /\ Reads(g, versions') /\ LiveStack' = g[n + 1]
  BY <1>1, <1>2, Stacks
<1>4. g[n] = f[n]
  <2>1. n \in 0..n /\ n \in 0..Len(versions) /\ n <= Len(versions')
    BY <1>1, <1>2
  <2>2. SameUpTo(versions, versions', n)
    BY <1>2 DEF SameUpTo, LiveAt
  <2>3. QED
    BY <1>1, <1>2, <1>3, <2>1, <2>2, SamePrefix
<1> HIDE DEF n
<1>5. g[n + 1] = g[n]
  <2>1. n + 1 \in 1..Len(versions') /\ (n + 1) - 1 = n
    BY <1>1, <1>2
  <2>2. g[n + 1] = Push(versions', g[n], n + 1)
    BY <1>3, <2>1 DEF Reads
  <2>3. QED
    BY <1>2, <2>2 DEF Push
<1>6. canary' \in Ids
  BY DEF DeployCanary, NewIds
<1>7. QED
  BY <1>3, <1>4, <1>5, <1>6 DEF Abstract!Try

\* ... its promotion pushes it ...
LEMMA PromotePushes ==
  ASSUME VersionInv, PromoteCanary
  PROVE  Abstract!Promote
<1> DEFINE n == Len(versions)
           m == n - 1
<1>1. canary # NoVersion /\ canary' = NoVersion
  BY DEF PromoteCanary
<1>2. /\ versions \in Seq(Entry) /\ n \in Nat /\ n \in 1..n
      /\ DOMAIN versions = 1..n /\ versions[n].id = canary
      /\ versions[n].status = "canary"
  BY <1>1, CanaryLast
<1>3. /\ versions' \in Seq(Entry) /\ Len(versions') = n
      /\ \A k \in 1..n : versions'[k].id = versions[k].id
      /\ versions'[n].status = "active"
      /\ \A k \in 1..n : k # n =>
            versions'[k].status = IF versions[k].id = active
                                  THEN "retired" ELSE versions[k].status
  BY PromoteEntries, Zenon DEF SameIds
<1>4. PICK f, g : /\ Reads(f, versions) /\ LiveStack = f[n]
                  /\ Reads(g, versions') /\ LiveStack' = g[n]
  BY <1>2, <1>3, Stacks, Zenon
<1>5. /\ m \in 0..Len(versions) /\ m <= Len(versions') /\ m \in 0..m
      /\ \A k \in 1..m : k \in 1..n /\ k # n
  <2> DEFINE length == Len(versions)
  <2>1. length \in Nat /\ length \in 1..length /\ Len(versions') = length
    BY <1>2, <1>3
  <2> HIDE DEF length
  <2>2. /\ length - 1 \in 0..length /\ length - 1 <= length
        /\ length - 1 \in 0..(length - 1)
        /\ \A k \in 1..(length - 1) : k \in 1..length /\ k # length
    BY <2>1
  <2>3. QED
    BY <2>1, <2>2 DEF length
<1>6. SameUpTo(versions, versions', m)
  <2>1. \A k \in 1..n : versions[k].id = active => versions[k].status = "active"
    BY <1>2 DEF VersionInv, TopOK
  <2> HIDE DEF m
  <2>2. QED
    BY <1>3, <1>5, <2>1 DEF SameUpTo, LiveAt
<1>7. g[m] = f[m]
  <2>1. /\ versions \in Seq(Entry) /\ versions' \in Seq(Entry)
        /\ Reads(f, versions) /\ Reads(g, versions')
    BY <1>2, <1>3, <1>4
  <2> HIDE DEF m
  <2>2. m \in 0..Len(versions) /\ m <= Len(versions') /\ m \in 0..m
    BY <1>5
  <2>3. QED
    BY <1>6, <2>1, <2>2, SamePrefix
<1>8. f[n] = Push(versions, f[m], n) /\ g[n] = Push(versions', g[m], n)
  <2>1. n \in 1..Len(versions) /\ n \in 1..Len(versions')
    BY <1>2, <1>3
  <2>2. QED
    BY <1>4, <2>1 DEF Reads
<1>9. f[n] = f[m] /\ g[n] = Append(g[m], canary)
  BY <1>2, <1>3, <1>8 DEF Push
<1>10. QED
  BY <1>1, <1>4, <1>7, <1>8, <1>9 DEF Abstract!Promote

\* ... its cancellation leaves the stack alone ...
LEMMA CancelStays ==
  ASSUME VersionInv, CancelCanary
  PROVE  Abstract!Rollback
<1> DEFINE n == Len(versions)
<1>1. canary # NoVersion /\ canary' = NoVersion
  BY DEF CancelCanary
<1>2. /\ versions \in Seq(Entry) /\ n \in Nat /\ n \in 1..n
      /\ versions[n].status = "canary"
  BY <1>1, CanaryLast
<1>3. /\ versions' \in Seq(Entry) /\ Len(versions') = n
      /\ \A k \in 1..n : versions'[k].id = versions[k].id
      /\ versions'[n].status = "rolled_back"
      /\ \A k \in 1..n : k # n => versions'[k].status = versions[k].status
  BY CancelEntries DEF SameIds
<1>4. PICK f, g : /\ Reads(f, versions) /\ LiveStack = f[n]
                  /\ Reads(g, versions') /\ LiveStack' = g[n]
  BY <1>2, <1>3, Stacks
<1>5. SameUpTo(versions, versions', n)
  <2>1. ASSUME NEW k \in 1..n
        PROVE  LiveAt(versions', k) <=> LiveAt(versions, k)
    <3>1. CASE k = n
      BY <1>2, <1>3, <3>1 DEF LiveAt
    <3>2. CASE k # n
      BY <1>3, <3>2 DEF LiveAt
    <3>3. QED
      BY <3>1, <3>2
  <2>2. QED
    BY <1>3, <2>1 DEF SameUpTo
<1>6. g[n] = f[n]
  <2>1. n \in 0..n /\ n \in 0..Len(versions) /\ n <= Len(versions')
    BY <1>2, <1>3
  <2>2. QED
    BY <1>2, <1>3, <1>4, <1>5, <2>1, SamePrefix
<1>7. QED
  BY <1>1, <1>4, <1>6 DEF Abstract!Rollback

\* ... and a rollback without a canary pops the version that was live.
LEMMA RollBackPops ==
  ASSUME VersionInv, RollBack
  PROVE  Abstract!Rollback
<1> DEFINE n == Len(versions)
<1>1. /\ versions \in Seq(Entry) /\ n \in Nat /\ DOMAIN versions = 1..n
      /\ \A k \in 1..n : versions[k].id \in Ids
  BY Entries DEF VersionInv, TypeOK
<1>2. canary = NoVersion /\ canary' = canary
  BY DEF RollBack
<1>3. PICK a, r \in 1..n :
        /\ r < a /\ versions[a].id = active /\ versions[a].status = "active"
        /\ versions[r].status = "retired"
        /\ \A k \in 1..n : versions[k].status = "retired" => k <= r
        /\ SameIds(versions, versions')
        /\ versions'[r].status = "active"
        /\ versions'[a].status = "rolled_back"
        /\ \A k \in 1..n : k # a /\ k # r =>
              versions'[k].status = versions[k].status
  BY RollBackEntries
<1>4. /\ versions' \in Seq(Entry) /\ Len(versions') = n
      /\ \A k \in 1..n : versions'[k].id = versions[k].id
  BY <1>3 DEF SameIds
<1>5. ASSUME NEW k \in 1..n, k # a PROVE versions[k].status # "active"
  <2>1. \A j \in 1..n : versions[j].id = versions[a].id => j = a
    BY <1>1 DEF VersionInv, Distinct
  <2>2. QED
    BY <1>1, <1>3, <1>5, <2>1 DEF VersionInv, TopOK
<1> DEFINE m == a - 1
<1>6. /\ m \in 0..n /\ a \in 0..n /\ r \in 1..m /\ m \in r..n
      /\ m \in 0..m /\ m + 1 = a
      /\ \A k \in 1..n : k > m => k = a \/ (k > a /\ k > r /\ k # a /\ k # r)
      /\ \A k \in 1..m : k \in 1..n /\ k # a
  BY <1>1, <1>3
<1> HIDE DEF m, n
<1>7. PICK f, g : /\ Reads(f, versions) /\ LiveStack = f[n]
                  /\ Reads(g, versions') /\ LiveStack' = g[n]
  BY <1>1, <1>4, Stacks DEF n
<1>8. SameUpTo(versions, versions', m)
  <2>1. ASSUME NEW k \in 1..m
        PROVE  LiveAt(versions', k) <=> LiveAt(versions, k)
    <3>1. CASE k = r
      BY <1>3, <3>1 DEF LiveAt
    <3>2. CASE k # r
      BY <1>3, <1>6, <3>2 DEF LiveAt
    <3>3. QED
      BY <3>1, <3>2
  <2>2. QED
    BY <1>4, <1>6, <2>1 DEF SameUpTo
<1>9. g[m] = f[m]
  <2>1. m \in 0..Len(versions) /\ m <= Len(versions')
    BY <1>1, <1>4, <1>6 DEF n
  <2>2. QED
    BY <1>1, <1>4, <1>6, <1>7, <1>8, <2>1, SamePrefix
<1>10. \A k \in 1..n : k > a => ~LiveAt(versions, k)
  <2>1. ASSUME NEW k \in 1..n, k > a PROVE ~LiveAt(versions, k)
    <3>1. k # a /\ ~(k <= r)
      BY <1>1, <1>3, <2>1
    <3>2. QED
      BY <1>3, <1>5, <3>1 DEF LiveAt
  <2>2. QED
    BY <2>1
<1>11. f[n] = f[a]
  BY <1>1, <1>6, <1>7, <1>10, DeadSuffix DEF n
<1>12. \A k \in 1..n : k > m => ~LiveAt(versions', k)
  <2>1. ASSUME NEW k \in 1..n, k > m PROVE ~LiveAt(versions', k)
    <3>1. CASE k = a
      BY <1>3, <3>1 DEF LiveAt
    <3>2. CASE k > a /\ k # a /\ k # r
      <4>1. ~LiveAt(versions, k) /\ versions'[k].status = versions[k].status
        BY <1>3, <1>10, <3>2
      <4>2. QED
        BY <4>1 DEF LiveAt
    <3>3. QED
      BY <1>6, <2>1, <3>1, <3>2
  <2>2. QED
    BY <2>1
<1>13. g[n] = g[m]
  BY <1>4, <1>6, <1>7, <1>12, DeadSuffix
<1>14. f[a] = Append(f[m], active) /\ f[m] \in Seq(Ids) /\ f[m] # <<>>
  <2>1. a \in 1..Len(versions) /\ a - 1 = m
    BY <1>1, <1>6 DEF n, m
  <2>2. f[a] = Push(versions, f[m], a)
    BY <1>7, <2>1 DEF Reads
  <2>3. r \in 1..Len(versions) /\ m \in r..Len(versions) /\ LiveAt(versions, r)
    BY <1>3, <1>6 DEF n, LiveAt
  <2>4. f[m] \in Seq(Ids) /\ f[m] # <<>>
    BY <1>1, <1>7, <2>3, LiveBelow
  <2>5. QED
    BY <1>3, <2>2, <2>4 DEF Push
<1>15. active \in Ids
  BY <1>1, <1>3
<1>16. /\ Len(f[a]) = Len(f[m]) + 1 /\ SubSeq(f[a], 1, Len(f[a]) - 1) = f[m]
       /\ Len(f[m]) \in Nat \ {0}
  BY <1>14, <1>15, Popped, EmptySeq
<1>17. Len(f[a]) > 1
  BY <1>16
<1>18. QED
  BY <1>2, <1>7, <1>9, <1>11, <1>13, <1>16, <1>17 DEF Abstract!Rollback

LEMMA InitStack == Init => Abstract!Init
<1> SUFFICES ASSUME Init PROVE Abstract!Init
  OBVIOUS
<1>1. versions \in Seq(Entry) /\ Len(versions) = 0
  BY DEF Init
<1>2. Reads(LiveUpTo, versions)
  BY <1>1, Readings, ReadsChosen
<1>3. LiveStack = <<>>
  BY <1>1, <1>2 DEF LiveStack, Reads
<1>4. QED
  BY <1>3 DEF Init, Abstract!Init

LEMMA StackStep ==
  VersionInv /\ [Next]_vars => [Abstract!Next]_(Abstract!vars)
<1>1. ASSUME VersionInv, UNCHANGED vars PROVE UNCHANGED Abstract!vars
  <2>1. LiveUpTo' = LiveUpTo
    BY <1>1, Readings DEF vars
  <2>2. QED
    BY <1>1, <2>1 DEF vars, Abstract!vars, LiveStack
<1>2. ASSUME VersionInv, Next PROVE Abstract!Next
  BY <1>2, DeployPushes, CanaryTries, PromotePushes, CancelStays, RollBackPops
     DEF Next, Abstract!Next
<1>3. QED
  BY <1>1, <1>2

\* Rollback returns to the version that was live just before, however
\* deployments, promotions, cancellations and earlier rollbacks were mixed.
THEOREM StackRefinement == Spec => ImplementsStack
<1>1. Init /\ [][Next]_vars => []VersionInv
  BY InitVersions, VersionStep, PTL
<1>2. QED
  BY <1>1, InitStack, StackStep, PTL DEF Spec, ImplementsStack, Abstract!Spec
=============================================================================
