---------------------- MODULE SessionPersistence_proofs ----------------------
(***************************************************************************)
(* Proofs about module SessionPersistence: types and the bound on the      *)
(* lifetime of a session, for any number of clients that interleave their  *)
(* reads and writes of the table; and, in the second half, about module    *)
(* SessionForking: winners, merges and the clean-up, for any forks.        *)
(***************************************************************************)
EXTENDS SessionPersistence, SessionForking, TLAPS, SequenceTheorems,
        FiniteSetTheorems, NaturalsInduction, WellFoundedInduction

USE TTLAssumption, AbsentAssumption

-----------------------------------------------------------------------------
(* The operators on records.                                               *)

\* to_dict rounds the end of a session down to a whole second.
LEMMA StoredRecord ==
  ASSUME NEW r \in Record
  PROVE  /\ Stored(r) \in Record
         /\ Stored(r).expires <= r.expires /\ Stored(r).ttl = r.ttl
<1>1. r.expires % Second \in 0..(Second - 1)
  <2>1. r.expires \in Int /\ Second \in Nat \ {0}
    BY DEF Record
  <2>2. QED
    BY <2>1
<1>2. r.expires - (r.expires % Second) \in Int
      /\ r.expires - (r.expires % Second) <= r.expires
  BY <1>1 DEF Record
<1> DEFINE e == r.expires - (r.expires % Second)
<1>3. Stored(r) = [r EXCEPT !.expires = e]
  BY DEF Stored
<1> HIDE DEF e
<1>4. QED
  BY <1>2, <1>3 DEF Record, e

\* touch gives the record its own TTL, counted from now.
LEMMA TouchedRecord ==
  ASSUME NEW r \in Record, r.ttl <= MaxTTL, clock \in Nat
  PROVE  /\ Touch(r) \in Record /\ Touch(r).ttl = r.ttl
         /\ Touch(r).expires <= clock + MaxTTL * Second
<1>1. r.ttl \in Nat
  BY DEF Record
<1>2. PICK d \in Nat : MaxTTL = r.ttl + d
  <2>1. MaxTTL - r.ttl \in Nat /\ MaxTTL = r.ttl + (MaxTTL - r.ttl)
    BY <1>1
  <2>2. QED
    BY <2>1
<1>3. /\ MaxTTL * Second = r.ttl * Second + d * Second
      /\ r.ttl * Second \in Nat /\ d * Second \in Nat
  BY <1>1, <1>2
<1> DEFINE e == clock + r.ttl * Second
<1>4. e \in Int /\ e <= clock + MaxTTL * Second
  BY <1>3
<1>5. Touch(r) = [r EXCEPT !.expires = e]
  BY DEF Touch
<1> HIDE DEF e
<1>6. QED
  BY <1>4, <1>5 DEF Record

-----------------------------------------------------------------------------
(* The table, and the calls in progress.                                   *)

\* A record that may be written: well typed, and with no more life before it
\* than the configuration allows.
Sound(r) == /\ r \in Record
            /\ r.expires <= clock + MaxTTL * Second /\ r.ttl <= MaxTTL

TableOK == store \in [Sids -> Record \cup {Absent}]
           /\ \A s \in Sids : Live(s) => Sound(store[s])

CallsOK == /\ pc \in [Clients -> Labels]
           /\ sid \in [Clients -> Sids \cup {Absent}]
           /\ rec \in [Clients -> Record \cup {NoRecord}]
           /\ victims \in [Clients -> SUBSET Sids]
           /\ \A c \in Clients :
                 /\ rec[c] # NoRecord => Sound(rec[c])
                 /\ Holds(c) => sid[c] \in Sids /\ rec[c] \in Record

RestOK == clock \in 0..MaxClock /\ born \in SUBSET Sids

\* The inductive invariant: what the two properties say, sorted by variable.
LifeInv == TableOK /\ CallsOK /\ RestOK

LEMMA LifeInvMeaning == LifeInv <=> TypeOK /\ TTLBounded
<1>1. /\ TableOK <=> /\ store \in [Sids -> Record \cup {Absent}]
                     /\ \A s \in Sids : Live(s) =>
                          /\ store[s].expires <= clock + MaxTTL * Second
                          /\ store[s].ttl <= MaxTTL
  BY DEF TableOK, Sound, Live
<1>2. QED
  BY <1>1 DEF LifeInv, CallsOK, RestOK, TypeOK, TTLBounded, Sound, Holds

\* A sound record is written to the table.
LEMMA PutSound ==
  ASSUME clock \in Nat, TableOK, NEW s \in Sids, NEW r, Sound(r), Put(s, r),
         UNCHANGED clock
  PROVE  TableOK'
<1>1. Sound(Stored(r))
  <2>1. /\ r \in Record /\ r.ttl <= MaxTTL
        /\ r.expires <= clock + MaxTTL * Second
    BY DEF Sound
  <2>2. /\ Stored(r) \in Record /\ Stored(r).ttl = r.ttl
        /\ Stored(r).expires <= r.expires
    BY <2>1, StoredRecord
  <2>3. r.expires \in Int /\ Stored(r).expires \in Int
    BY <2>1, <2>2 DEF Record
  <2>4. MaxTTL * Second \in Nat /\ clock \in Nat
    OBVIOUS
  <2>5. QED
    BY <2>1, <2>2, <2>3, <2>4 DEF Sound
<1>2. Stored(r) # Absent
  BY <1>1 DEF Sound
<1> HIDE DEF Stored
<1>3. QED
  BY <1>1, <1>2 DEF TableOK, Put, Sound, Live

\* Items are deleted from the table.
LEMMA DropSound ==
  ASSUME TableOK, UNCHANGED clock, NEW S \in SUBSET Sids,
         store' = [s \in Sids |-> IF s \in S THEN Absent ELSE store[s]]
  PROVE  TableOK'
  BY DEF TableOK, Sound, Live

\* A call returns, or goes on with a sound record in hand.
LEMMA ReturnSound ==
  ASSUME CallsOK, NEW c \in Clients, Return(c), UNCHANGED clock
  PROVE  CallsOK'
  BY DEF CallsOK, Return, Sound, Holds, Labels

LEMMA ContinueSound ==
  ASSUME CallsOK, NEW c \in Clients, NEW label \in Labels, NEW s \in Sids,
         NEW r, Sound(r), Continue(c, label, s, r), UNCHANGED clock
  PROVE  CallsOK'
<1>1. r \in Record
  BY DEF Sound
<1>2. /\ pc' \in [Clients -> Labels]
      /\ sid' \in [Clients -> Sids \cup {Absent}]
      /\ rec' \in [Clients -> Record \cup {NoRecord}]
      /\ victims' \in [Clients -> SUBSET Sids]
  BY <1>1 DEF CallsOK, Continue
<1>3. rec'[c] = r /\ sid'[c] = s
      /\ \A d \in Clients \ {c} : /\ rec'[d] = rec[d] /\ sid'[d] = sid[d]
                                  /\ pc'[d] = pc[d]
  BY DEF CallsOK, Continue
<1>4. ASSUME NEW d \in Clients, rec'[d] # NoRecord PROVE Sound(rec[d])'
  BY <1>3, <1>4 DEF CallsOK, Sound
<1>5. ASSUME NEW d \in Clients, Holds(d)'
      PROVE  sid'[d] \in Sids /\ rec'[d] \in Record
  BY <1>1, <1>3, <1>5 DEF CallsOK, Holds
<1>6. QED
  BY <1>2, <1>4, <1>5 DEF CallsOK

-----------------------------------------------------------------------------
(* Every step keeps the invariant.                                         *)

LEMMA InitLife == Init => LifeInv
  BY DEF Init, LifeInv, TableOK, CallsOK, RestOK, Live, Labels, Holds

\* Each step of a client, and the clock, keeps every record sound.
LEMMA LifeStep == LifeInv /\ [Next]_vars => LifeInv'
<1> SUFFICES ASSUME LifeInv, [Next]_vars PROVE LifeInv'
  OBVIOUS
<1>0. /\ TableOK /\ CallsOK /\ RestOK
      /\ clock \in Nat /\ MaxTTL * Second \in Nat
  BY DEF LifeInv, RestOK
<1>a. ASSUME NEW s \in Sids, Live(s) PROVE Sound(store[s])
  BY <1>0, <1>a DEF TableOK
<1>b. ASSUME NEW c \in Clients, Holds(c)
      PROVE  sid[c] \in Sids /\ Sound(rec[c])
  BY <1>0, <1>b DEF CallsOK
<1>c. ASSUME NEW r, Sound(r) PROVE Sound(Touch(r))
  BY <1>0, <1>c, TouchedRecord DEF Sound
<1>1. ASSUME NEW c \in Clients, Create(c) PROVE LifeInv'
  <2>1. PICK s \in Sids, t \in TTLs :
          /\ Put(s, Touch([status |-> "active", expires |-> 0,
                           ttl |-> MinOf(t, MaxTTL), ctx |-> {}]))
          /\ born' = born \cup {s}
    BY <1>1 DEF Create
  <2> DEFINE ttl == MinOf(t, MaxTTL)
  <2>2. ttl \in Nat /\ ttl <= MaxTTL
    BY DEF MinOf
  <2> HIDE DEF ttl
  <2>3. [status |-> "active", expires |-> 0, ttl |-> ttl, ctx |-> {}]
          \in Record
    BY <2>2 DEF Record, Status
  <2>4. Sound(Touch([status |-> "active", expires |-> 0, ttl |-> ttl,
                     ctx |-> {}]))
    BY <1>0, <2>2, <2>3, TouchedRecord DEF Sound
  <2>5. TableOK'
    BY <1>0, <1>1, <2>1, <2>4, PutSound DEF Create, ttl
  <2>6. CallsOK'
    BY <1>0, <1>1, ReturnSound DEF Create
  <2>7. RestOK'
    BY <1>0, <1>1, <2>1 DEF Create, RestOK
  <2>8. QED
    BY <2>5, <2>6, <2>7 DEF LifeInv
<1>2. ASSUME NEW c \in Clients, NEW s \in Sids, NEW label \in Labels, NEW r,
             Sound(r), Continue(c, label, s, r),
             UNCHANGED <<clock, store, born>>
      PROVE  LifeInv'
  <2>1. CallsOK'
    BY <1>0, <1>2, ContinueSound
  <2>2. TableOK' /\ RestOK'
    BY <1>0, <1>2 DEF TableOK, RestOK, Sound, Live
  <2>3. QED
    BY <2>1, <2>2 DEF LifeInv
<1>3. ASSUME NEW c \in Clients, GetSession(c) PROVE LifeInv'
  <2>1. PICK s \in born : /\ Live(s)
                          /\ Continue(c, "put get", s, Touch(store[s]))
    BY <1>3 DEF GetSession
  <2>2. s \in Sids /\ Sound(Touch(store[s]))
    BY <1>0, <1>a, <1>c, <2>1 DEF RestOK
  <2>3. QED
    BY <1>2, <1>3, <2>1, <2>2 DEF GetSession, Labels
<1>4. ASSUME NEW c \in Clients, UpdateSession(c) PROVE LifeInv'
  <2>1. PICK s \in born :
          /\ Live(s)
          /\ \/ Continue(c, "update", s, [store[s] EXCEPT !.status = "expired"])
             \/ Continue(c, "put update", s, Touch(store[s]))
             \/ Continue(c, "update", s, store[s])
    BY <1>4 DEF UpdateSession
  <2>2. s \in Sids /\ Sound(store[s])
    BY <1>0, <1>a, <2>1 DEF RestOK
  <2>3. Sound([store[s] EXCEPT !.status = "expired"])
    BY <2>2 DEF Sound, Record, Status
  <2>4. QED
    BY <1>2, <1>4, <1>c, <2>1, <2>2, <2>3 DEF UpdateSession, Labels
<1>5. ASSUME NEW c \in Clients, PutExtended(c) PROVE LifeInv'
  <2>1. sid[c] \in Sids /\ Sound(rec[c])
    BY <1>5, <1>b DEF PutExtended, Holds
  <2>2. TableOK'
    BY <1>0, <1>5, <2>1, PutSound DEF PutExtended
  <2>3. CallsOK'
    BY <1>0, <1>5, <2>1, ReturnSound, ContinueSound DEF PutExtended, Labels
  <2>4. QED
    BY <1>0, <1>5, <2>2, <2>3 DEF PutExtended, LifeInv, RestOK
<1>6. ASSUME NEW c \in Clients, PutUpdated(c) PROVE LifeInv'
  <2>1. PICK k \in Keys :
          Put(sid[c], Touch([rec[c] EXCEPT !.ctx = @ \cup {k}]))
    BY <1>6 DEF PutUpdated
  <2>2. sid[c] \in Sids /\ Sound(rec[c])
    BY <1>6, <1>b DEF PutUpdated, Holds
  <2>3. Sound([rec[c] EXCEPT !.ctx = @ \cup {k}])
    BY <2>2 DEF Sound, Record
  <2>4. TableOK'
    BY <1>0, <1>6, <1>c, <2>1, <2>2, <2>3, PutSound DEF PutUpdated
  <2>5. CallsOK'
    BY <1>0, <1>6, ReturnSound DEF PutUpdated
  <2>6. RestOK'
    BY <1>0, <1>6, <2>1, <2>2 DEF PutUpdated, RestOK
  <2>7. QED
    BY <2>4, <2>5, <2>6 DEF LifeInv
<1>7. ASSUME NEW c \in Clients, TerminateSession(c) PROVE LifeInv'
  <2>1. PICK s \in born :
          /\ Live(s)
          /\ Continue(c, "put", s, [store[s] EXCEPT !.status = "terminated",
                                                    !.expires = clock])
    BY <1>7 DEF TerminateSession
  <2>2. s \in Sids /\ Sound(store[s])
    BY <1>0, <1>a, <2>1 DEF RestOK
  <2>3. Sound([store[s] EXCEPT !.status = "terminated", !.expires = clock])
    <3>1. clock \in Int /\ clock <= clock + MaxTTL * Second
      BY <1>0
    <3>2. store[s] \in Record /\ store[s].ttl <= MaxTTL
      BY <2>2 DEF Sound
    <3> DEFINE r == [store[s] EXCEPT !.status = "terminated",
                                     !.expires = clock]
    <3>3. r \in Record /\ r.expires = clock /\ r.ttl = store[s].ttl
      BY <3>1, <3>2 DEF Record, Status
    <3> HIDE DEF r
    <3>4. Sound(r)
      BY <3>1, <3>2, <3>3 DEF Sound
    <3>5. QED
      BY <3>4 DEF r
  <2>4. QED
    BY <1>2, <1>7, <2>1, <2>2, <2>3 DEF TerminateSession, Labels
<1>8. ASSUME NEW c \in Clients, ExtendTTL(c) PROVE LifeInv'
  <2>1. PICK s \in born, extra \in Extensions :
          /\ Live(s)
          /\ Continue(c, "put", s,
               [store[s] EXCEPT
                  !.expires = MinOf(MaxOf(store[s].expires, clock)
                                      + extra * Second,
                                    clock + MaxTTL * Second)])
    BY <1>8 DEF ExtendTTL
  <2>2. s \in Sids /\ Sound(store[s])
    BY <1>0, <1>a, <2>1 DEF RestOK
  <2> DEFINE longer == MaxOf(store[s].expires, clock) + extra * Second
             end == MinOf(longer, clock + MaxTTL * Second)
  <2>3. longer \in Int
    <3>1. extra * Second \in Int
      OBVIOUS
    <3>2. MaxOf(store[s].expires, clock) \in Int
      BY <1>0, <2>2 DEF Sound, Record, MaxOf
    <3>3. QED
      BY <3>1, <3>2
  <2>4. end \in Int /\ end <= clock + MaxTTL * Second
    <3> HIDE DEF longer
    <3>1. QED
      BY <1>0, <2>3 DEF MinOf
  <2>5. Continue(c, "put", s, [store[s] EXCEPT !.expires = end])
    BY <2>1
  <2> HIDE DEF end
  <2>6. Sound([store[s] EXCEPT !.expires = end])
    BY <2>2, <2>4 DEF Sound, Record
  <2>7. QED
    BY <1>2, <1>8, <2>2, <2>5, <2>6 DEF ExtendTTL, Labels
<1>9. ASSUME NEW c \in Clients, PutBack(c) PROVE LifeInv'
  <2>1. sid[c] \in Sids /\ Sound(rec[c])
    BY <1>9, <1>b DEF PutBack, Holds
  <2>2. TableOK'
    BY <1>0, <1>9, <2>1, PutSound DEF PutBack
  <2>3. CallsOK'
    BY <1>0, <1>9, ReturnSound DEF PutBack
  <2>4. QED
    BY <1>0, <1>9, <2>2, <2>3 DEF PutBack, LifeInv, RestOK
<1>10. ASSUME NEW c \in Clients, DeleteSession(c) PROVE LifeInv'
  <2>1. PICK s \in born : Live(s) /\ Continue(c, "delete", s, store[s])
    BY <1>10 DEF DeleteSession
  <2>2. s \in Sids /\ Sound(store[s])
    BY <1>0, <1>a, <2>1 DEF RestOK
  <2>3. QED
    BY <1>2, <1>10, <2>1, <2>2 DEF DeleteSession, Labels
<1>11. ASSUME NEW c \in Clients, DropItem(c) PROVE LifeInv'
  <2>1. store' = [s \in Sids |-> IF s \in Sids \cap {sid[c]} THEN Absent
                                 ELSE store[s]]
    BY <1>0, <1>11 DEF DropItem, TableOK
  <2>2. TableOK'
    BY <1>0, <1>11, <2>1, DropSound DEF DropItem
  <2>3. CallsOK'
    BY <1>0, <1>11, ReturnSound DEF DropItem
  <2>4. RestOK'
    BY <1>0, <1>11 DEF DropItem, RestOK
  <2>5. QED
    BY <2>2, <2>3, <2>4 DEF LifeInv
<1>12. ASSUME NEW c \in Clients, ScanExpired(c) PROVE LifeInv'
  <2>1. PICK due \in SUBSET Sids : victims' = [victims EXCEPT ![c] = due]
    BY <1>0, <1>12 DEF ScanExpired, RestOK
  <2>2. CallsOK'
    BY <1>0, <1>12, <2>1 DEF ScanExpired, CallsOK, Sound, Holds, Labels
  <2>3. TableOK' /\ RestOK'
    BY <1>0, <1>12 DEF ScanExpired, TableOK, RestOK, Sound, Live
  <2>4. QED
    BY <2>2, <2>3 DEF LifeInv
<1>13. ASSUME NEW c \in Clients, DeleteBatch(c) PROVE LifeInv'
  <2>1. PICK batch \in SUBSET victims[c] :
          /\ \/ store' = [s \in Sids |-> IF s \in batch THEN Absent
                                         ELSE store[s]]
             \/ UNCHANGED store
          /\ \/ Return(c)
             \/ /\ victims' = [victims EXCEPT ![c] = @ \ batch]
                /\ UNCHANGED <<pc, sid, rec>>
    BY <1>13 DEF DeleteBatch
  <2>2. batch \in SUBSET Sids /\ UNCHANGED <<clock, born>>
    BY <1>0, <1>13 DEF CallsOK, DeleteBatch
  <2>3. TableOK'
    <3>1. CASE UNCHANGED store
      BY <1>0, <2>2, <3>1 DEF TableOK, Sound, Live
    <3>2. QED
      BY <1>0, <2>1, <2>2, <3>1, DropSound
  <2>4. CallsOK'
    <3>1. CASE victims' = [victims EXCEPT ![c] = @ \ batch]
               /\ UNCHANGED <<pc, sid, rec>>
      BY <1>0, <2>2, <3>1 DEF CallsOK, Sound, Holds
    <3>2. QED
      BY <1>0, <2>1, <2>2, <3>1, ReturnSound
  <2>5. RestOK'
    BY <1>0, <2>1, <2>2 DEF RestOK
  <2>6. QED
    BY <2>3, <2>4, <2>5 DEF LifeInv
<1>14. CASE Tick
  <2>1. clock' = clock + 1 /\ clock' \in 0..MaxClock
        /\ UNCHANGED <<store, born, pc, sid, rec, victims>>
    BY <1>0, <1>14 DEF Tick, RestOK, call
  <2>2. ASSUME NEW r, Sound(r) PROVE Sound(r)'
    BY <1>0, <2>1, <2>2 DEF Sound, Record
  <2>3. QED
    BY <1>0, <2>1, <2>2 DEF LifeInv, TableOK, CallsOK, RestOK, Holds, Live
<1>15. CASE UNCHANGED vars
  BY <1>0, <1>15 DEF vars, call, LifeInv, TableOK, CallsOK, RestOK, Sound,
                     Holds, Live
<1>16. QED
  BY <1>1, <1>3, <1>4, <1>5, <1>6, <1>7, <1>8, <1>9, <1>10, <1>11, <1>12,
     <1>13, <1>14, <1>15 DEF Next, Step

\* The table and the calls in progress are well typed in every execution.
THEOREM TypeCorrect == Spec => []TypeOK
<1>1. QED
  BY InitLife, LifeStep, LifeInvMeaning, PTL DEF Spec

\* However many clients interleave their reads and writes, no session outlives
\* the present by more than max_ttl_seconds.
THEOREM TTLCorrect == Spec => []TTLBounded
<1>1. QED
  BY InitLife, LifeStep, LifeInvMeaning, PTL DEF Spec

-----------------------------------------------------------------------------
(* Overlapping calls.  Nothing keeps two clients from working on one       *)
(* session, so what a client holds may be out of date.  The invariant says *)
(* that whatever it lacks happened since the client read the table.        *)

Held(c) ==
    /\ sid[c] \in born
    /\ Context(sid[c]) \ rec[c].ctx \subseteq added[c]
    /\ Live(sid[c]) \/ ended[c]
    /\ Live(sid[c]) /\ ~Open(sid[c]) /\ rec[c].status = "active" => ended[c]

HeldOK == \A c \in Clients : Holds(c) => Held(c)

\* What a clean-up has yet to delete is due, or was written since its scan.
ScanOK == \A c \in Clients : \A s \in victims[c] :
              Live(s) => Due(store[s]) \/ s \in rewritten[c]

\* An item belongs to an id that was given out.
BornOK == \A s \in Sids : Live(s) => s \in born

OverlapInv == HeldOK /\ ScanOK /\ BornOK

\* A new end leaves the other fields of a record alone.
LEMMA NewEnd ==
  ASSUME NEW r \in Record, NEW e
  PROVE  /\ [r EXCEPT !.expires = e].status = r.status
         /\ [r EXCEPT !.expires = e].ctx = r.ctx
  BY DEF Record

LEMMA StoredFields ==
  ASSUME NEW r \in Record
  PROVE  Stored(r).status = r.status /\ Stored(r).ctx = r.ctx
  BY NewEnd DEF Stored

LEMMA TouchedFields ==
  ASSUME NEW r \in Record
  PROVE  Touch(r).status = r.status /\ Touch(r).ctx = r.ctx
  BY NewEnd DEF Touch

\* Whatever becomes of the table, a client that goes on with the same record
\* misses only what the history has noted.
LEMMA StillHeld ==
  ASSUME NEW c \in Clients, Holds(c), Held(c), Holds(c)', Remember,
         born \subseteq born', sid'[c] = sid[c], rec'[c] = rec[c]
  PROVE  Held(c)'
<1>1. /\ added'[c] = added[c] \cup (Context(sid[c])' \ Context(sid[c]))
      /\ ended'[c] = (\/ ended[c]
                      \/ Open(sid[c]) /\ ~Open(sid[c])'
                      \/ Live(sid[c]) /\ ~Live(sid[c])')
  BY DEF Remember
<1>2. (Context(sid[c]) \ rec[c].ctx \subseteq added[c])'
  BY <1>1 DEF Held
<1>3. (Live(sid[c]) \/ ended[c])'
  BY <1>1 DEF Held
<1>4. (Live(sid[c]) /\ ~Open(sid[c]) /\ rec[c].status = "active"
         => ended[c])'
  BY <1>1 DEF Held
<1>5. QED
  BY <1>2, <1>3, <1>4 DEF Held

\* A client that has just read a session misses nothing of it.
LEMMA JustRead ==
  ASSUME CallsOK, NEW c \in Clients, pc[c] = "idle", NEW label, NEW s \in born,
         NEW r, Live(s), store[s].ctx \subseteq r.ctx,
         r.status = "active" => store[s].status = "active",
         Continue(c, label, s, r), UNCHANGED <<store, born>>
  PROVE  Held(c)'
<1>1. sid'[c] = s /\ rec'[c] = r
  BY DEF CallsOK, Continue
<1>2. Context(s)' \subseteq r.ctx /\ Live(s)' /\ (r.status = "active" => Open(s)')
  BY DEF Context, Live, Open
<1>3. QED
  BY <1>1, <1>2 DEF Held

\* A clean-up that has no new victims.
LEMMA StillScanned ==
  ASSUME TableOK, clock \in Nat, ScanOK, NEW c \in Clients, Remember,
         clock' = clock,
         victims[c] \subseteq Sids, victims'[c] \subseteq victims[c]
  PROVE  \A s \in victims'[c] :
            (Live(s) => Due(store[s]) \/ s \in rewritten[c])'
<1> SUFFICES ASSUME NEW s \in victims'[c], Live(s)'
             PROVE  Due(store[s])' \/ s \in rewritten'[c]
  OBVIOUS
<1>1. s \in rewritten'[c] <=> s \in rewritten[c] \/ store'[s] # store[s]
  BY DEF Remember
<1>2. CASE store'[s] = store[s]
  BY <1>1, <1>2 DEF ScanOK, Live, Due
<1>3. CASE store'[s] # store[s]
  BY <1>1, <1>3
<1>4. QED
  BY <1>2, <1>3

\* A step of client c keeps the invariant if c keeps its part of it.
LEMMA StepOfOne ==
  ASSUME LifeInv, OverlapInv, NEW c \in Clients, Remember, clock' = clock,
         born \subseteq born', BornOK',
         \A d \in Clients \ {c} :
            /\ pc'[d] = pc[d] /\ sid'[d] = sid[d] /\ rec'[d] = rec[d]
            /\ victims'[d] = victims[d],
         Holds(c)' => Held(c)',
         \/ victims'[c] \subseteq victims[c]
         \/ \A s \in victims'[c] : (Live(s) => Due(store[s]))'
  PROVE  OverlapInv'
<1>0. /\ TableOK /\ CallsOK /\ clock \in Nat
      /\ HeldOK /\ ScanOK
  BY DEF LifeInv, OverlapInv, RestOK
<1>1. ASSUME NEW d \in Clients, Holds(d)' PROVE Held(d)'
  <2>1. CASE d = c
    BY <1>1, <2>1
  <2>2. CASE d # c
    <3>1. Holds(d) /\ Held(d)
      BY <1>0, <1>1, <2>2 DEF Holds, HeldOK
    <3>2. QED
      BY <1>1, <2>2, <3>1, StillHeld
  <2>3. QED
    BY <2>1, <2>2
<1>2. ASSUME NEW d \in Clients
      PROVE  \A s \in victims'[d] :
                (Live(s) => Due(store[s]) \/ s \in rewritten[d])'
  <2>1. victims[d] \subseteq Sids
    BY <1>0 DEF CallsOK
  <2>2. CASE victims'[d] \subseteq victims[d]
    BY <1>0, <2>1, <2>2, StillScanned
  <2>3. CASE ~(victims'[d] \subseteq victims[d])
    BY <2>3
  <2>4. QED
    BY <2>2, <2>3
<1>3. QED
  BY <1>1, <1>2 DEF OverlapInv, HeldOK, ScanOK

\* A call that returns holds nothing, and has nothing left to delete.
LEMMA ReturnStep ==
  ASSUME LifeInv, OverlapInv, NEW c \in Clients, Return(c), Remember,
         clock' = clock, born \subseteq born', BornOK'
  PROVE  OverlapInv'
<1>1. /\ pc'[c] = "idle" /\ victims'[c] = {}
      /\ \A d \in Clients \ {c} :
            /\ pc'[d] = pc[d] /\ sid'[d] = sid[d] /\ rec'[d] = rec[d]
            /\ victims'[d] = victims[d]
  BY DEF LifeInv, CallsOK, Return
<1>2. ~Holds(c)'
  BY <1>1 DEF Holds
<1>3. QED
  BY <1>1, <1>2, StepOfOne

\* A call that reads and goes on.
LEMMA ReadStep ==
  ASSUME LifeInv, OverlapInv, NEW c \in Clients, pc[c] = "idle",
         NEW label, NEW s \in born, NEW r, Live(s),
         store[s].ctx \subseteq r.ctx,
         r.status = "active" => store[s].status = "active",
         Continue(c, label, s, r), Remember, UNCHANGED <<clock, store, born>>
  PROVE  OverlapInv'
<1>1. /\ victims' = victims
      /\ \A d \in Clients \ {c} :
            /\ pc'[d] = pc[d] /\ sid'[d] = sid[d] /\ rec'[d] = rec[d]
  BY DEF LifeInv, CallsOK, Continue
<1>2. Held(c)'
  BY JustRead DEF LifeInv
<1>3. BornOK'
  BY DEF OverlapInv, BornOK, Live
<1>4. QED
  BY <1>1, <1>2, <1>3, StepOfOne

-----------------------------------------------------------------------------
(* The writes.                                                             *)

\* What a client that holds a record writes: the context it holds, at least,
\* and the status it holds.
Written(c) == LET s == sid[c] IN
    /\ s \in Sids /\ store' = [store EXCEPT ![s] = store'[s]]
    /\ store'[s] \in Record
    /\ rec[c].ctx \subseteq store'[s].ctx
    /\ store'[s].status = rec[c].status

LEMMA PutWritten ==
  ASSUME LifeInv, NEW c \in Clients,
         PutExtended(c) \/ PutUpdated(c) \/ PutBack(c)
  PROVE  Holds(c) /\ pc'[c] # pc[c] /\ Written(c)
<1>0. TableOK /\ CallsOK /\ clock \in Nat
  BY DEF LifeInv, RestOK
<1>1. Holds(c)
  BY DEF PutExtended, PutUpdated, PutBack, Holds
<1>2. pc'[c] # pc[c]
  BY <1>0 DEF PutExtended, PutUpdated, PutBack, Return, Continue, CallsOK
<1>3. sid[c] \in Sids /\ rec[c] \in Record /\ rec[c].ttl <= MaxTTL
  BY <1>0, <1>1 DEF CallsOK, Sound
<1>4. ASSUME NEW r \in Record, Put(sid[c], r), r.status = rec[c].status,
             rec[c].ctx \subseteq r.ctx
      PROVE  Written(c)
  <2>1. /\ Stored(r) \in Record
        /\ Stored(r).status = r.status /\ Stored(r).ctx = r.ctx
    BY StoredRecord, StoredFields
  <2> HIDE DEF Stored
  <2>2. store'[sid[c]] = Stored(r)
        /\ store' = [store EXCEPT ![sid[c]] = store'[sid[c]]]
    BY <1>0, <1>3, <1>4 DEF Put, TableOK
  <2>3. QED
    BY <1>3, <1>4, <2>1, <2>2 DEF Written
<1>5. CASE PutExtended(c) \/ PutBack(c)
  BY <1>1, <1>2, <1>3, <1>4, <1>5 DEF PutExtended, PutBack
<1>6. CASE PutUpdated(c)
  <2>1. PICK k \in Keys :
          Put(sid[c], Touch([rec[c] EXCEPT !.ctx = @ \cup {k}]))
    BY <1>6 DEF PutUpdated
  <2> DEFINE r == [rec[c] EXCEPT !.ctx = @ \cup {k}]
  <2>2. /\ r \in Record /\ r.ctx = rec[c].ctx \cup {k}
        /\ r.status = rec[c].status /\ r.ttl <= MaxTTL
    BY <1>3 DEF Record
  <2>3. Put(sid[c], Touch(r))
    BY <2>1
  <2> HIDE DEF r
  <2>4. /\ Touch(r) \in Record
        /\ Touch(r).status = rec[c].status /\ rec[c].ctx \subseteq Touch(r).ctx
    BY <1>0, <2>2, TouchedRecord, TouchedFields
  <2>5. QED
    BY <1>1, <1>2, <1>4, <2>3, <2>4
<1>7. QED
  BY <1>5, <1>6

\* The written item belongs to an id that was given out.
LEMMA PutBorn ==
  ASSUME LifeInv, OverlapInv, NEW c \in Clients,
         PutExtended(c) \/ PutUpdated(c) \/ PutBack(c)
  PROVE  BornOK' /\ UNCHANGED <<clock, born>> /\ Remember
<1>1. Written(c) /\ sid[c] \in born
  BY PutWritten DEF OverlapInv, HeldOK, Held
<1>2. UNCHANGED <<clock, born>> /\ Remember
  BY DEF PutExtended, PutUpdated, PutBack
<1>3. \A s \in Sids \ {sid[c]} : store'[s] = store[s]
  BY <1>1 DEF Written, LifeInv, TableOK
<1>4. QED
  BY <1>1, <1>2, <1>3 DEF OverlapInv, BornOK, Live

\* Every step keeps the invariant.
LEMMA OverlapStep == LifeInv /\ OverlapInv /\ [Next]_vars => OverlapInv'
<1> SUFFICES ASSUME LifeInv, OverlapInv, [Next]_vars PROVE OverlapInv'
  OBVIOUS
<1>0. /\ TableOK /\ CallsOK /\ RestOK /\ clock \in Nat
      /\ HeldOK /\ ScanOK /\ BornOK
  BY DEF LifeInv, OverlapInv, RestOK
<1>a. ASSUME NEW s \in born, Live(s) PROVE s \in Sids /\ store[s] \in Record
  BY <1>0, <1>a DEF TableOK, RestOK, Sound
<1>1. ASSUME NEW c \in Clients, Create(c) PROVE OverlapInv'
  <2>1. PICK s \in Sids : (\E r : Put(s, r)) /\ born' = born \cup {s}
    BY <1>1 DEF Create
  <2>2. BornOK'
    BY <1>0, <2>1 DEF BornOK, Live, Put, TableOK
  <2>3. QED
    BY <1>1, <2>1, <2>2, ReturnStep DEF Create
<1>2. ASSUME NEW c \in Clients, GetSession(c) PROVE OverlapInv'
  <2>1. PICK s \in born : /\ Live(s)
                          /\ Continue(c, "put get", s, Touch(store[s]))
    BY <1>2 DEF GetSession
  <2>2. Touch(store[s]).ctx = store[s].ctx
        /\ Touch(store[s]).status = store[s].status
    BY <1>a, <2>1, TouchedFields
  <2> HIDE DEF Touch
  <2>3. QED
    BY <1>2, <2>1, <2>2, ReadStep DEF GetSession
<1>3. ASSUME NEW c \in Clients, UpdateSession(c) PROVE OverlapInv'
  <2>1. PICK s \in born :
          /\ Live(s)
          /\ \/ Continue(c, "update", s, [store[s] EXCEPT !.status = "expired"])
             \/ Continue(c, "put update", s, Touch(store[s]))
             \/ Continue(c, "update", s, store[s])
    BY <1>3 DEF UpdateSession
  <2> DEFINE marked == [store[s] EXCEPT !.status = "expired"]
             touched == Touch(store[s])
  <2>2. marked.status = "expired" /\ marked.ctx = store[s].ctx
    BY <1>a, <2>1 DEF Record
  <2>3. touched.status = store[s].status /\ touched.ctx = store[s].ctx
    BY <1>a, <2>1, TouchedFields
  <2>4. \/ Continue(c, "update", s, marked)
        \/ Continue(c, "put update", s, touched)
        \/ Continue(c, "update", s, store[s])
    BY <2>1
  <2> HIDE DEF marked, touched
  <2>5. PICK label, r :
          /\ Continue(c, label, s, r) /\ store[s].ctx \subseteq r.ctx
          /\ r.status = "active" => store[s].status = "active"
    BY <2>2, <2>3, <2>4
  <2>6. QED
    BY <1>3, <2>1, <2>5, ReadStep DEF UpdateSession
<1>4. ASSUME NEW c \in Clients, TerminateSession(c) PROVE OverlapInv'
  <2>1. PICK s \in born :
          /\ Live(s)
          /\ Continue(c, "put", s, [store[s] EXCEPT !.status = "terminated",
                                                    !.expires = clock])
    BY <1>4 DEF TerminateSession
  <2> DEFINE r == [store[s] EXCEPT !.status = "terminated", !.expires = clock]
  <2>2. r.status = "terminated" /\ r.ctx = store[s].ctx
    BY <1>a, <2>1 DEF Record
  <2>3. Continue(c, "put", s, r)
    BY <2>1
  <2> HIDE DEF r
  <2>4. QED
    BY <1>4, <2>1, <2>2, <2>3, ReadStep DEF TerminateSession
<1>5. ASSUME NEW c \in Clients, ExtendTTL(c) PROVE OverlapInv'
  <2>0. PICK s \in born : \E end :
          Live(s) /\ Continue(c, "put", s, [store[s] EXCEPT !.expires = end])
    BY <1>5 DEF ExtendTTL
  <2>1. PICK end :
          Live(s) /\ Continue(c, "put", s, [store[s] EXCEPT !.expires = end])
    BY <2>0
  <2> DEFINE r == [store[s] EXCEPT !.expires = end]
  <2>2. r.status = store[s].status /\ r.ctx = store[s].ctx
    BY <1>a, <2>1, NewEnd
  <2>3. Continue(c, "put", s, r)
    BY <2>1
  <2> HIDE DEF r
  <2>4. QED
    BY <1>5, <2>1, <2>2, <2>3, ReadStep DEF ExtendTTL
<1>6. ASSUME NEW c \in Clients, DeleteSession(c) PROVE OverlapInv'
  <2>1. PICK s \in born : Live(s) /\ Continue(c, "delete", s, store[s])
    BY <1>6 DEF DeleteSession
  <2>2. QED
    BY <1>6, <2>1, ReadStep DEF DeleteSession
<1>7. ASSUME NEW c \in Clients, PutExtended(c) PROVE OverlapInv'
  <2>1. BornOK' /\ UNCHANGED <<clock, born>> /\ Remember /\ Holds(c)
    BY <1>7, PutBorn, PutWritten
  <2>2. CASE Return(c)
    BY <2>1, <2>2, ReturnStep
  <2>3. CASE Continue(c, "update", sid[c], rec[c])
    <3>1. /\ sid' = sid /\ rec' = rec /\ victims' = victims
          /\ \A d \in Clients \ {c} : pc'[d] = pc[d]
      BY <1>0, <2>3 DEF CallsOK, Continue
    <3>2. Holds(c)' => Held(c)'
      BY <1>0, <2>1, <3>1, StillHeld DEF HeldOK
    <3>3. QED
      BY <2>1, <3>1, <3>2, StepOfOne
  <2>4. QED
    BY <1>7, <2>2, <2>3 DEF PutExtended
<1>8. ASSUME NEW c \in Clients, PutUpdated(c) \/ PutBack(c) PROVE OverlapInv'
  <2>1. BornOK' /\ UNCHANGED <<clock, born>> /\ Remember
    BY <1>8, PutBorn
  <2>2. Return(c)
    BY <1>8 DEF PutUpdated, PutBack
  <2>3. QED
    BY <2>1, <2>2, ReturnStep
<1>9. ASSUME NEW c \in Clients, DropItem(c) PROVE OverlapInv'
  <2>1. BornOK'
    BY <1>0, <1>9 DEF DropItem, TableOK, BornOK, Live
  <2>2. QED
    BY <1>9, <2>1, ReturnStep DEF DropItem
<1>10. ASSUME NEW c \in Clients, ScanExpired(c) PROVE OverlapInv'
  <2>1. victims' = [victims EXCEPT
                      ![c] = {s \in born : Live(s) /\ Due(store[s])}]
        /\ pc' = [pc EXCEPT ![c] = "cleanup"]
        /\ UNCHANGED <<clock, store, born, sid, rec>> /\ Remember
    BY <1>10 DEF ScanExpired
  <2>2. /\ pc'[c] = "cleanup"
        /\ victims'[c] = {s \in born : Live(s) /\ Due(store[s])}
        /\ \A d \in Clients \ {c} : pc'[d] = pc[d] /\ victims'[d] = victims[d]
    BY <1>0, <2>1 DEF CallsOK
  <2>3. \A s \in victims'[c] : (Live(s) => Due(store[s]))'
    BY <2>1, <2>2 DEF Due
  <2>4. ~Holds(c)'
    BY <2>2 DEF Holds
  <2>5. BornOK'
    BY <1>0, <2>1 DEF BornOK, Live
  <2>6. QED
    BY <2>1, <2>2, <2>3, <2>4, <2>5, StepOfOne
<1>11. ASSUME NEW c \in Clients, DeleteBatch(c) PROVE OverlapInv'
  <2>1. PICK batch \in SUBSET victims[c] :
          /\ \/ store' = [s \in Sids |-> IF s \in batch THEN Absent
                                         ELSE store[s]]
             \/ UNCHANGED store
          /\ \/ Return(c)
             \/ /\ victims' = [victims EXCEPT ![c] = @ \ batch]
                /\ UNCHANGED <<pc, sid, rec>>
    BY <1>11 DEF DeleteBatch
  <2>2. UNCHANGED <<clock, born>> /\ Remember /\ pc[c] = "cleanup"
    BY <1>11 DEF DeleteBatch
  <2>3. BornOK'
    BY <1>0, <2>1, <2>2 DEF BornOK, Live
  <2>4. CASE Return(c)
    BY <2>2, <2>3, <2>4, ReturnStep
  <2>5. CASE /\ victims' = [victims EXCEPT ![c] = @ \ batch]
             /\ UNCHANGED <<pc, sid, rec>>
    <3>1. victims'[c] \subseteq victims[c]
          /\ \A d \in Clients \ {c} : victims'[d] = victims[d]
      BY <1>0, <2>5 DEF CallsOK
    <3>2. ~Holds(c)'
      BY <2>2, <2>5 DEF Holds
    <3>3. QED
      BY <2>2, <2>3, <2>5, <3>1, <3>2, StepOfOne
  <2>6. QED
    BY <2>1, <2>4, <2>5
<1>12. CASE Tick
  <2>1. clock' = clock + 1 /\ UNCHANGED <<store, born, pc, sid, rec, victims>>
        /\ UNCHANGED <<added, ended, rewritten>>
    BY <1>12 DEF Tick, call, history
  <2>2. ASSUME NEW s \in Sids, Live(s), Due(store[s]) PROVE Due(store[s])'
    <3>1. PICK r \in Record : r = store[s]
      BY <1>0, <2>2 DEF TableOK, Live
    <3>2. r.expires \in Int
      BY DEF Record
    <3>3. r.expires < clock => r.expires < clock + 1
      BY <1>0, <3>2
    <3>4. QED
      BY <2>1, <2>2, <3>1, <3>3 DEF Due
  <2>3. ScanOK'
    BY <1>0, <2>1, <2>2 DEF ScanOK, CallsOK, Live
  <2>4. HeldOK' /\ BornOK'
    BY <1>0, <2>1 DEF HeldOK, Held, Holds, Context, Open, BornOK, Live
  <2>5. QED
    BY <2>3, <2>4 DEF OverlapInv
<1>13. CASE UNCHANGED vars
  BY <1>0, <1>13 DEF vars, call, history, OverlapInv, HeldOK, Held, Holds,
                     Context, Open, ScanOK, BornOK, Due, Live
<1>14. QED
  BY <1>1, <1>2, <1>3, <1>4, <1>5, <1>6, <1>7, <1>8, <1>9, <1>10, <1>11,
     <1>12, <1>13 DEF Next, Step

LEMMA InitOverlap == Init => OverlapInv
  BY DEF Init, OverlapInv, HeldOK, ScanOK, BornOK, Live, Holds

\* A session that was given out stays as it is, leaves the table, or is written
\* by a client that held it.
LEMMA WriteStep ==
  ASSUME LifeInv, OverlapInv, [Next]_vars, NEW s \in born, s \in Sids
  PROVE  \/ store'[s] = store[s]
         \/ ~Live(s)'
         \/ \E c \in Clients : Writes(c, s) /\ Written(c)
<1>0. TableOK /\ CallsOK
  BY DEF LifeInv
<1>1. ASSUME NEW c \in Clients, Create(c) PROVE store'[s] = store[s]
  <2>1. PICK u \in Sids \ born : \E r : Put(u, r)
    BY <1>1 DEF Create
  <2>2. QED
    BY <1>0, <2>1 DEF Put, TableOK
<1>2. ASSUME NEW c \in Clients,
             GetSession(c) \/ UpdateSession(c) \/ TerminateSession(c)
               \/ ExtendTTL(c) \/ DeleteSession(c) \/ ScanExpired(c)
      PROVE  store' = store
  BY <1>2 DEF GetSession, UpdateSession, TerminateSession, ExtendTTL,
              DeleteSession, ScanExpired
<1>3. ASSUME NEW c \in Clients, PutExtended(c) \/ PutUpdated(c) \/ PutBack(c)
      PROVE  store'[s] = store[s] \/ (Writes(c, s) /\ Written(c))
  <2>1. Holds(c) /\ pc'[c] # pc[c] /\ Written(c)
    BY <1>3, PutWritten
  <2>2. sid[c] = s \/ store'[s] = store[s]
    BY <1>0, <2>1 DEF Written, TableOK
  <2>3. QED
    BY <2>1, <2>2 DEF Writes
<1>4. ASSUME NEW c \in Clients, DropItem(c)
      PROVE  store'[s] = store[s] \/ ~Live(s)'
  BY <1>0, <1>4 DEF DropItem, TableOK, Live
<1>5. ASSUME NEW c \in Clients, DeleteBatch(c)
      PROVE  store'[s] = store[s] \/ ~Live(s)'
  <2>1. PICK batch \in SUBSET victims[c] :
          \/ store' = [u \in Sids |-> IF u \in batch THEN Absent ELSE store[u]]
          \/ UNCHANGED store
    BY <1>5 DEF DeleteBatch
  <2>2. QED
    BY <1>0, <2>1 DEF TableOK, Live
<1>6. CASE Tick \/ UNCHANGED vars
  BY <1>6 DEF Tick, vars
<1>7. QED
  BY <1>1, <1>2, <1>3, <1>4, <1>5, <1>6 DEF Next, Step

\* Whatever clients overlap, an update is lost only to a write whose caller had
\* read the session before the update was acknowledged.
THEOREM UpdatesKept == Spec => UpdatesMerged
<1>1. ASSUME LifeInv, OverlapInv, [Next]_vars, NEW s \in Sids, Live(s), Live(s)',
             NEW k \in store[s].ctx \ store'[s].ctx
      PROVE  \E c \in Clients : Writes(c, s) /\ k \in added[c]
  <2>1. s \in born
    BY <1>1 DEF OverlapInv, BornOK
  <2>2. PICK c \in Clients : Writes(c, s) /\ Written(c)
    BY <1>1, <2>1, WriteStep
  <2>3. Holds(c) /\ sid[c] = s
    BY <2>2 DEF Writes
  <2>4. k \in Context(sid[c]) \ rec[c].ctx
    BY <1>1, <2>2, <2>3 DEF Written, Context
  <2>5. k \in added[c]
    BY <1>1, <2>3, <2>4 DEF OverlapInv, HeldOK, Held
  <2>6. QED
    BY <2>2, <2>5
<1>2. LifeInv /\ OverlapInv /\ [Next]_vars =>
        [\A s \in Sids : Live(s) /\ Live(s)' =>
            \A k \in store[s].ctx \ store'[s].ctx :
               \E c \in Clients : Writes(c, s) /\ k \in added[c]]_vars
  BY <1>1
<1>3. QED
  BY <1>2, InitLife, LifeStep, InitOverlap, OverlapStep, PTL
     DEF Spec, UpdatesMerged

\* Whatever clients overlap, a session that was terminated, marked expired or
\* deleted comes back only by the write of a caller that had read it before.
THEOREM EndedStaysEnded == Spec => EndsForGood
<1>1. ASSUME LifeInv, OverlapInv, [Next]_vars, NEW s \in born,
             (Live(s) /\ ~Open(s) /\ Open(s)') \/ (~Live(s) /\ Live(s)')
      PROVE  \E c \in Clients : Writes(c, s) /\ ended[c]
  <2>1. s \in Sids
    BY <1>1 DEF LifeInv, RestOK
  <2>2. Live(s)' /\ store'[s] # store[s]
    BY <1>1 DEF Open, Live
  <2>3. PICK c \in Clients : Writes(c, s) /\ Written(c)
    BY <1>1, <2>1, <2>2, WriteStep
  <2>4. Holds(c) /\ sid[c] = s
    BY <2>3 DEF Writes
  <2>5. Held(c)
    BY <1>1, <2>4 DEF OverlapInv, HeldOK
  <2>6. CASE ~Live(s)
    BY <2>3, <2>4, <2>5, <2>6 DEF Held
  <2>7. CASE Live(s) /\ ~Open(s) /\ Open(s)'
    <3>1. rec[c].status = "active"
      BY <2>3, <2>4, <2>7 DEF Written, Open
    <3>2. QED
      BY <2>3, <2>4, <2>5, <2>7, <3>1 DEF Held
  <2>8. QED
    BY <1>1, <2>6, <2>7
<1>2. LifeInv /\ OverlapInv /\ [Next]_vars =>
        [\A s \in born :
            (Live(s) /\ ~Open(s) /\ Open(s)') \/ (~Live(s) /\ Live(s)')
              => \E c \in Clients : Writes(c, s) /\ ended[c]]_vars
  BY <1>1
<1>3. QED
  BY <1>2, InitLife, LifeStep, InitOverlap, OverlapStep, PTL
     DEF Spec, EndsForGood

\* Whatever clients overlap, a clean-up deletes a session that is active and has
\* time left only if it was written after the scan.
THEOREM CleanupCorrect == Spec => CleanupOnlyExpired
<1>1. OverlapInv =>
        [\A c \in Clients : \A s \in victims[c] \ victims'[c] :
            Live(s) /\ ~Live(s)' => Due(store[s]) \/ s \in rewritten[c]]_vars
  BY DEF OverlapInv, ScanOK
<1>2. QED
  BY <1>1, InitLife, LifeStep, InitOverlap, OverlapStep, PTL
     DEF Spec, CleanupOnlyExpired

-----------------------------------------------------------------------------
(* Forks of a session.                                                     *)

\* A set of naturals that is not empty has a least element.
LEMMA Least ==
  ASSUME NEW T \in SUBSET Nat, T # {}
  PROVE  \E x \in T : \A y \in T : x <= y
<1> DEFINE Before == {pair \in Nat \X Nat : pair[1] < pair[2]}
<1>1. IsWellFoundedOn(Before, Nat)
  BY NatLessThanWellFounded DEF OpToRel
<1>2. PICK x \in T : \A y \in T : ~(<<y, x>> \in Before)
  BY <1>1, WFMin
<1>3. \A y \in T : y \in Nat /\ x \in Nat
  OBVIOUS
<1>4. ASSUME NEW y \in T PROVE x <= y
  <2>1. <<y, x>> \notin Before
    BY <1>2
  <2>2. ~(<<y, x>>[1] < <<y, x>>[2])
    BY <2>1, <1>3
  <2>3. QED
    BY <1>3, <2>2
<1>5. QED
  BY <1>4

\* Among finitely many bounded numbers one is the highest.
LEMMA Highest ==
  ASSUME NEW S, S # {}, NEW B \in Nat, NEW mark,
         \A b \in S : mark[b] \in 0..B
  PROVE  \E b \in S : \A o \in S : mark[o] <= mark[b]
<1> DEFINE T == {B - mark[b] : b \in S}
<1>1. T \in SUBSET Nat /\ T # {}
  OBVIOUS
<1>2. PICK x \in T : \A y \in T : x <= y
  BY <1>1, Least
<1>3. PICK b \in S : x = B - mark[b]
  BY <1>2
<1>4. ASSUME NEW o \in S PROVE mark[o] <= mark[b]
  <2>1. B - mark[b] <= B - mark[o]
    BY <1>2, <1>3
  <2>2. mark[o] \in 0..B /\ mark[b] \in 0..B
    OBVIOUS
  <2>3. QED
    BY <2>1, <2>2
<1>5. QED
  BY <1>4

\* A set of branches is finite.
LEMMA BranchSet ==
  ASSUME NEW n \in Nat, NEW S, S \subseteq 1..n
  PROVE  /\ IsFiniteSet(S) /\ Cardinality(S) \in 0..n
         /\ S = {} <=> Cardinality(S) = 0
<1>1. IsFiniteSet(1..n) /\ Cardinality(1..n) = n
  <2>1. \A a, b \in Int : /\ IsFiniteSet(a..b)
                          /\ Cardinality(a..b) = IF a > b THEN 0 ELSE b - a + 1
    BY FS_Interval
  <2>2. QED
    BY <2>1
<1>2. IsFiniteSet(S) /\ Cardinality(S) <= n
  <2>1. IsFiniteSet(S) /\ Cardinality(S) <= Cardinality(1..n)
    BY <1>1, FS_Subset, Zenon
  <2>2. QED
    BY <1>1, <2>1
<1>3. Cardinality(S) \in Nat
  BY <1>2, FS_CardinalityType
<1>4. Cardinality(S) \in 0..n
  BY <1>2, <1>3
<1>5. S = {} <=> Cardinality(S) = 0
  BY <1>2, FS_EmptySet
<1>6. QED
  BY <1>2, <1>4, <1>5

\* The i-th branch of a set of branches is one of them.
LEMMA Ranks ==
  ASSUME NEW n \in Nat, NEW S, S \subseteq 1..n, NEW i \in 1..Cardinality(S)
  PROVE  Nth(S, i) \in S
<1> DEFINE UpTo(b) == {c \in S : c <= b}
           T == {b \in S : Cardinality(UpTo(b)) >= i}
<1>1. \A b : IsFiniteSet(UpTo(b)) /\ Cardinality(UpTo(b)) \in Nat
  <2> TAKE b
  <2>1. UpTo(b) \subseteq 1..n
    OBVIOUS
  <2>2. QED
    BY <2>1, BranchSet
<1>2. T # {}
  <2>1. S # {} /\ Cardinality(S) \in Nat /\ i \in Nat
    <3>1. Cardinality(S) \in 0..n /\ (S = {} <=> Cardinality(S) = 0)
      BY BranchSet
    <3> DEFINE size == Cardinality(S)
    <3>2. i \in 1..size /\ size \in 0..n
      BY <3>1
    <3> HIDE DEF size
    <3>3. size \in Nat /\ i \in Nat /\ size # 0
      BY <3>2
    <3>4. QED
      BY <3>1, <3>3 DEF size
  <2>2. PICK top \in S : \A c \in S : c <= top
    <3>1. \A b \in S : [c \in S |-> c][b] \in 0..n
      OBVIOUS
    <3>2. PICK b \in S : \A o \in S : [c \in S |-> c][o] <= [c \in S |-> c][b]
      BY <2>1, <3>1, Highest
    <3>3. QED
      BY <3>2
  <2>3. UpTo(top) = S
    BY <2>2
  <2>4. QED
    BY <2>1, <2>3
<1>3. PICK b \in T : \A c \in T : b <= c
  <2>1. T \subseteq S /\ S \subseteq Nat
    <3> HIDE DEF UpTo
    <3>1. QED
      OBVIOUS
  <2>2. T \in SUBSET Nat
    BY <2>1
  <2> HIDE DEF T
  <2>3. QED
    BY <1>2, <2>2, Least
<1> DEFINE P == {c \in S : c < b}
<1>4. P \subseteq 1..n /\ IsFiniteSet(P) /\ Cardinality(P) \in Nat
  <2>1. P \subseteq 1..n
    OBVIOUS
  <2>2. QED
    BY <2>1, BranchSet
<1>5. Cardinality(P) < i
  <2>1. CASE P = {}
    BY <2>1, FS_EmptySet
  <2>2. CASE P # {}
    <3>1. PICK p \in P : \A c \in P : c <= p
      <4>1. \A c \in P : [d \in P |-> d][c] \in 0..n
        OBVIOUS
      <4>2. PICK p \in P : \A o \in P : [d \in P |-> d][o] <= [d \in P |-> d][p]
        BY <2>2, <4>1, Highest
      <4>3. QED
        BY <4>2
    <3>2. UpTo(p) = P
      <4>1. \A c \in S : c <= p => c < b
        BY <3>1
      <4>2. QED
        BY <3>1, <4>1
    <3>3. p \notin T
      BY <1>3, <3>1
    <3>4. ~(Cardinality(UpTo(p)) >= i)
      BY <3>1, <3>3
    <3>5. QED
      BY <1>4, <3>2, <3>4
  <2>3. QED
    BY <2>1, <2>2
<1>6. Cardinality(UpTo(b)) = Cardinality(P) + 1
  <2>1. b \in S /\ b \in Nat
    BY <1>3
  <2>2. b \notin P
    BY <2>1
  <2>3. UpTo(b) = P \cup {b}
    <3>1. ASSUME NEW c \in S PROVE c <= b <=> c < b \/ c = b
      BY <2>1
    <3>2. QED
      BY <2>1, <3>1
  <2> HIDE DEF UpTo, P
  <2>4. QED
    BY <1>4, <2>2, <2>3, FS_AddElement
<1>7. Cardinality(UpTo(b)) = i
  <2>1. Cardinality(UpTo(b)) >= i
    BY <1>3
  <2>2. QED
    BY <1>1, <1>4, <1>5, <1>6, <2>1
<1>8. b \in S /\ \A c : Cardinality(UpTo(c)) = Cardinality(UpTo(c))
  BY <1>3
<1>9. Cardinality({c \in S : c <= b}) = i
  BY <1>7, <1>8
<1>10. QED
  BY <1>8, <1>9 DEF Nth

\* The first of a set of branches is one of them.
LEMMA First ==
  ASSUME NEW S, S # {}, S \subseteq Nat
  PROVE  Min(S) \in S /\ \A b \in S : Min(S) <= b
<1>1. \E x \in S : \A y \in S : x <= y
  BY Least
<1>2. QED
  BY <1>1 DEF Min

-----------------------------------------------------------------------------
\* The branches of a fork.
LEMMA ForkFields ==
  ASSUME NEW F \in Fork
  PROVE  /\ Len(F.branches) \in Nat
         /\ F.branches \in [1..Len(F.branches) -> Branch]
         /\ F.branches \in Seq(Branch)
         /\ DOMAIN F.branches = 1..Len(F.branches)
         /\ F.config \in Config
<1>1. F.branches \in Seq(Branch) /\ F.config \in Config
  BY DEF Fork
<1>2. QED
  BY <1>1, LenProperties

LEMMA BranchSets ==
  ASSUME NEW f, forks[f] \in Fork
  PROVE  LET n == Len(forks[f].branches) IN
         /\ n \in Nat /\ Branches(f) = 1..n
         /\ Completed(f) \subseteq 1..n /\ Active(f) \subseteq 1..n
         /\ \A b \in 1..n : /\ forks[f].branches[b] \in Branch
                             /\ Score(f, b) \in 0..MaxScore
<1> DEFINE F == forks[f]
           n == Len(F.branches)
<1>1. /\ n \in Nat /\ F.branches \in [1..n -> Branch]
      /\ DOMAIN F.branches = 1..n
  BY ForkFields
<1>2. Branches(f) = 1..n
  BY <1>1 DEF Branches
<1>3. \A status : WithStatus(f, status) \subseteq 1..n
  BY <1>2 DEF WithStatus
<1>4. \A b \in 1..n : F.branches[b] \in Branch
  BY <1>1
<1>5. \A b \in 1..n : Score(f, b) \in 0..MaxScore
  BY <1>4 DEF Branch, Score
<1>6. QED
  BY <1>1, <1>2, <1>3, <1>4, <1>5 DEF Completed, Active

\* The candidates of best_score and of majority.
Bests(f) ==
    {b \in Completed(f) :
       \A o \in Completed(f) : Score(f, o) <= Score(f, b)}
Votes(f, b) == Cardinality(Agreeing(f, b))
Mosts(f) ==
    {b \in Completed(f) :
       \A o \in Completed(f) : Votes(f, o) <= Votes(f, b)}

\* The winners of the strategies are completed branches, and win.
LEMMA Winners ==
  ASSUME MaxScore \in Nat, NEW f, forks[f] \in Fork,
         Completed(f) # {}
  PROVE  /\ Min(Completed(f)) \in Completed(f)
         /\ BestScored(f) \in Bests(f)
         /\ MostAgreed(f) \in Mosts(f)
<1> DEFINE done == Completed(f)
           n == Len(forks[f].branches)
<1>1. /\ n \in Nat /\ done \subseteq 1..n /\ done \subseteq Nat
      /\ \A b \in done : Score(f, b) \in 0..MaxScore
  <2>1. /\ n \in Nat /\ done \subseteq 1..n
        /\ \A b \in 1..n : Score(f, b) \in 0..MaxScore
    BY BranchSets
  <2> HIDE DEF done, n
  <2>2. QED
    BY <2>1
<1>2. \A b : Votes(f, b) \in 0..n
  <2> TAKE b
  <2>1. Agreeing(f, b) \subseteq 1..n
    BY <1>1 DEF Agreeing
  <2>2. Cardinality(Agreeing(f, b)) \in 0..n
    BY <1>1, <2>1, BranchSet
  <2>3. QED
    BY <2>2 DEF Votes
<1> HIDE DEF n
<1>3. Min(done) \in done
  BY <1>1, First
<1>4. Bests(f) # {}
  <2> DEFINE score == [b \in done |-> Score(f, b)]
  <2>1. \A b \in done : score[b] \in 0..MaxScore
    BY <1>1
  <2>2. PICK b \in done : \A o \in done : score[o] <= score[b]
    BY <2>1, Highest
  <2>3. QED
    BY <2>2 DEF Bests
<1>5. BestScored(f) \in Bests(f)
  <2>1. Bests(f) \subseteq Nat
    BY <1>1 DEF Bests
  <2>2. BestScored(f) = Min(Bests(f))
    BY DEF BestScored, Bests
  <2>3. QED
    BY <1>4, <2>1, <2>2, First
<1>6. Mosts(f) # {}
  <2> DEFINE votes == [b \in done |-> Votes(f, b)]
  <2>1. \A b \in done : votes[b] \in 0..n
    BY <1>2
  <2>2. PICK b \in done : \A o \in done : votes[o] <= votes[b]
    BY <1>1, <2>1, Highest
  <2>3. QED
    BY <2>2 DEF Mosts
<1>7. MostAgreed(f) \in Mosts(f)
  <2>1. Mosts(f) \subseteq Nat
    BY <1>1 DEF Mosts
  <2>2. MostAgreed(f) = Min(Mosts(f))
    BY DEF MostAgreed, Mosts, Votes
  <2>3. QED
    BY <1>6, <2>1, <2>2, First
<1>8. QED
  BY <1>3, <1>5, <1>7

\* While the completed branches and the configuration stay, so does what a
\* merge returns.
LEMMA MergedSame ==
  ASSUME MaxScore \in Nat, NEW f, forks[f] \in Fork,
         Completed(f)' = Completed(f),
         forks'[f].config = forks[f].config,
         \A b \in Completed(f) :
            forks'[f].branches[b] = forks[f].branches[b]
  PROVE  Merged(f)' = Merged(f)
<1> DEFINE done == Completed(f)
<1>1. \A b \in done : /\ Output(f, b)' = Output(f, b)
                       /\ Score(f, b)' = Score(f, b)
  BY DEF Output, Score
<1>2. CASE done = {}
  BY <1>2 DEF Merged, NoResult
<1>3. CASE done # {}
  <2>1. /\ Min(done) \in done
        /\ BestScored(f) \in done /\ MostAgreed(f) \in done
    BY <1>3, Winners DEF Bests, Mosts
  <2>2. BestScored(f)' = BestScored(f)
    <3>1. Bests(f)' = Bests(f)
      BY <1>1 DEF Bests
    <3>2. /\ BestScored(f) = Min(Bests(f))
          /\ BestScored(f)' = Min(Bests(f)')
      BY DEF BestScored, Bests
    <3>3. QED
      BY <3>1, <3>2
  <2>3. ASSUME NEW b \in done
        PROVE  Agreeing(f, b)' = Agreeing(f, b)
    BY <1>1 DEF Agreeing
  <2>4. \A b \in done : Votes(f, b)' = Votes(f, b)
    BY <2>3 DEF Votes
  <2>5. MostAgreed(f)' = MostAgreed(f)
    <3>1. Mosts(f)' = Mosts(f)
      BY <2>4 DEF Mosts
    <3>2. /\ MostAgreed(f) = Min(Mosts(f))
          /\ MostAgreed(f)' = Min(Mosts(f)')
      BY DEF MostAgreed, Mosts, Votes
    <3>3. QED
      BY <3>1, <3>2
  <2>6. Cardinality(Agreeing(f, MostAgreed(f)))'
           = Cardinality(Agreeing(f, MostAgreed(f)))
    BY <2>1, <2>3, <2>5
  <2>7. InOrder(f)' = InOrder(f)
    <3> DEFINE n == Len(forks[f].branches)
    <3>1. n \in Nat /\ done \subseteq 1..n
      BY BranchSets
    <3>2. Cardinality(done) = Cardinality(done)
      OBVIOUS
    <3>3. \A i \in 1..Cardinality(done) : Nth(done, i) \in done
      BY <3>1, <3>2, Ranks
    <3>4. \A i \in 1..Cardinality(done) :
             Output(f, Nth(done, i))'
               = Output(f, Nth(done, i))
      BY <1>1, <3>3
    <3>5. QED
      BY <3>4 DEF InOrder
  <2>8. \A b \in done : \A k : Winner(f, b, k)' = Winner(f, b, k)
    BY <1>1 DEF Winner
  <2>9. QED
    BY <1>3, <2>1, <2>2, <2>5, <2>6, <2>7, <2>8 DEF Merged
<1>4. QED
  BY <1>2, <1>3

LEMMA ResultRecord ==
  ASSUME NEW w \in Nat, NEW o \in Seq(Outputs), NEW k \in Nat
  PROVE  [winner |-> w, output |-> o, count |-> k] \in Result
BY DEF Result

\* A merge returns a result, and a single one unless a custom merger decides.
LEMMA MergedResults ==
  ASSUME MaxScore \in Nat, NEW f, forks[f] \in Fork,
         \A b \in Completed(f) : Output(f, b) \in Outputs,
         NEW r \in Merged(f)
  PROVE  /\ r \in Result
         /\ forks[f].config.strategy # "custom" =>
               \A q \in Merged(f) : q = r
<1> DEFINE done == Completed(f)
           n == Len(forks[f].branches)
<1>1. n \in Nat /\ done \subseteq 1..n /\ done \subseteq Nat
  <2>1. n \in Nat /\ done \subseteq 1..n
    BY BranchSets
  <2>2. QED
    BY <2>1
<1>2. \A S : S \subseteq 1..n => Cardinality(S) \in Nat
  <2> TAKE S
  <2> HAVE S \subseteq 1..n
  <2>1. Cardinality(S) \in 0..n
    BY <1>1, BranchSet
  <2>2. QED
    BY <1>1, <2>1
<1>3. \A b : Agreeing(f, b) \subseteq 1..n
  BY <1>1 DEF Agreeing
<1>4. CASE done = {}
  <2>1. r = NoResult /\ Merged(f) = {NoResult}
    BY <1>4 DEF Merged
  <2>2. NoResult \in Result
    BY EmptySeq DEF NoResult, Result
  <2>3. QED
    BY <2>1, <2>2
<1>5. CASE done # {}
  <2>1. /\ Min(done) \in done
        /\ BestScored(f) \in done /\ MostAgreed(f) \in done
    BY <1>5, Winners DEF Bests, Mosts
  <2>2. ASSUME NEW b \in done, NEW k \in Nat
        PROVE  \A q \in Winner(f, b, k) : q \in Result
    <3>1. Output(f, b) \in Outputs /\ b \in Nat
      BY <1>1
    <3>2. <<Output(f, b)>> \in Seq(Outputs)
      BY <3>1
    <3>3. [winner |-> b, output |-> <<Output(f, b)>>, count |-> k]
             \in Result
      BY <3>1, <3>2, ResultRecord
    <3>4. QED
      BY <3>3 DEF Winner
  <2>3. \A b, k : \A p, q \in Winner(f, b, k) : p = q
    BY DEF Winner
  <2>4. InOrder(f) \in Seq(Outputs)
    <3> DEFINE m == Cardinality(done)
    <3>1. m \in Nat /\ m = Cardinality(done)
      BY <1>1, <1>2
    <3>2. \A i \in 1..m : Nth(done, i) \in done
      BY <1>1, <3>1, Ranks
    <3>3. InOrder(f)
            = [i \in 1..m |-> Output(f, Nth(done, i))]
      BY DEF InOrder
    <3>4. InOrder(f) \in [1..m -> Outputs]
      BY <3>2, <3>3
    <3>5. QED
      BY <3>1, <3>4, SeqDef
  <2>5. \A o \in Outputs : <<o>> \in Seq(Outputs)
    OBVIOUS
  <2>6. /\ Cardinality(done) \in Nat
        /\ Cardinality(Agreeing(f, MostAgreed(f))) \in Nat
    BY <1>1, <1>2, <1>3
  <2> DEFINE strategy == forks[f].config.strategy
             all == [winner |-> 0, output |-> InOrder(f),
                     count |-> Cardinality(done)]
             some == {[winner |-> 0, output |-> <<o>>,
                       count |-> Cardinality(done)] : o \in Outputs}
  <2>7. all \in Result /\ \A q \in some : q \in Result
    <3>1. all \in Result
      BY <2>4, <2>6, ResultRecord
    <3>2. \A o \in Outputs :
             [winner |-> 0, output |-> <<o>>, count |-> Cardinality(done)]
                \in Result
      BY <2>5, <2>6, ResultRecord
    <3>3. QED
      BY <3>1, <3>2
  <2>8. Merged(f) =
          CASE strategy = "first_wins" -> Winner(f, Min(done), 1)
            [] strategy = "majority" ->
                 Winner(f, MostAgreed(f),
                   Cardinality(Agreeing(f, MostAgreed(f))))
            [] strategy = "all" -> {all}
            [] strategy = "custom" -> some
            [] OTHER -> Winner(f, BestScored(f), 1)
    BY <1>5 DEF Merged
  <2> HIDE DEF done, all, some, n
  <2>9. QED
    BY <2>1, <2>2, <2>3, <2>6, <2>7, <2>8
<1>6. QED
  BY <1>4, <1>5

-----------------------------------------------------------------------------
(* The invariant: a fork merged with auto_cancel_on_merge has no running     *)
(* branch, and its result is one that merging it again would give.          *)

ForkGood(f) ==
    /\ f \in made
    /\ Len(forks[f].branches) = forks[f].config.size
    /\ \A b \in Branches(f) :
          b \in Completed(f) <=> Output(f, b) \in Outputs
    /\ forks[f].status = "merged" =>
          Cardinality(Completed(f)) >= forks[f].config.need
    /\ (forks[f].status = "merged" /\ forks[f].config.cancel) =>
          Active(f) = {} /\ forks[f].result \in Merged(f)

ForkingInv ==
    /\ made \subseteq ForkIds
    /\ forks \in [ForkIds -> Fork \cup {NoFork}]
    /\ \A f \in Tracked : ForkGood(f)

LEMMA ForkingTypes == ForkingInv => ForksTypeOK
BY DEF ForkingInv, ForkGood, ForksTypeOK, Tracked

LEMMA ForkingFacts ==
  /\ Sizes \subseteq Nat /\ Needs \subseteq Nat /\ MaxScore \in Nat
  /\ NoOutput \notin Outputs /\ NoFork \notin Fork
BY ForkingAssumption, NoForkAssumption

\* The invariant gives what the winner is said to be.
LEMMA ForkingWinner ==
  ASSUME ForkingInv
  PROVE  WinnerWins
<1>1. ASSUME NEW f \in Tracked,
             forks[f].status = "merged", forks[f].config.cancel,
             forks[f].result.winner # 0
      PROVE  LET w == forks[f].result.winner IN
             /\ w \in Completed(f)
             /\ forks[f].result.output = <<Output(f, w)>>
             /\ forks[f].config.strategy = "best_score" => w \in Bests(f)
             /\ forks[f].config.strategy = "majority" =>
                   \A b \in Completed(f) :
                      Votes(f, b) <= forks[f].result.count
  <2> DEFINE r == forks[f].result
             done == Completed(f)
             strategy == forks[f].config.strategy
  <2>1. forks[f] \in Fork /\ MaxScore \in Nat
    BY ForkingFacts DEF ForkingInv, Tracked
  <2>2. r \in Merged(f)
    BY <1>1 DEF ForkingInv, ForkGood
  <2>3. done # {}
    BY <1>1, <2>2 DEF Merged, NoResult
  <2>4. /\ Min(done) \in done
        /\ BestScored(f) \in done /\ BestScored(f) \in Bests(f)
        /\ MostAgreed(f) \in done
        /\ \A b \in done : Votes(f, b) <= Votes(f, MostAgreed(f))
    BY <2>1, <2>3, Winners DEF Bests, Mosts
  <2>5. \/ strategy = "first_wins" /\ r \in Winner(f, Min(done), 1)
        \/ /\ strategy = "majority"
           /\ r \in Winner(f, MostAgreed(f),
                                    Votes(f, MostAgreed(f)))
        \/ /\ strategy \notin {"first_wins", "majority"}
           /\ r \in Winner(f, BestScored(f), 1)
    BY <1>1, <2>2, <2>3 DEF Merged, Votes
  <2> HIDE DEF done, strategy
  <2>6. QED
    BY <2>4, <2>5 DEF Winner, strategy, done
<1>2. QED
  BY <1>1, ForkingTypes DEF WinnerWins, Bests, Votes

-----------------------------------------------------------------------------
(* What a step does to a fork: nothing, a branch ends, a merge, or removal.*)

Turns(f, b, r) == forks'[f] = [forks[f] EXCEPT !.branches = [@ EXCEPT ![b] = r]]

Ended(r) == r \in Branch /\ (r.status = "completed" <=> r.output \in Outputs)

CancelSet(f) == IF forks[f].config.cancel THEN Active(f) ELSE {}

Merges(f, r) ==
    /\ Cardinality(Completed(f)) >= forks[f].config.need
    /\ r \in Merged(f)
    /\ forks'[f] = [forks[f] EXCEPT !.branches = Cancelled(f, CancelSet(f)),
                                   !.result = r, !.status = "merged"]

Evolves(f) ==
    \/ forks'[f] = forks[f]
    \/ \E b \in Active(f) : \E r : Ended(r) /\ Turns(f, b, r)
    \/ \E r : Merges(f, r)
    \/ forks'[f] = NoFork /\ Removable(f)

Begins(f) ==
    /\ f \in made'
    /\ \E s \in Sessions, c \in Config : forks'[f] = New(s, c)

\* A branch is completed, fails or is cancelled.
LEMMA TurnGood ==
  ASSUME NEW f, forks[f] \in Fork, ForkGood(f),
         f \in made', NEW b \in Active(f), NEW r, Ended(r), Turns(f, b, r)
  PROVE  forks'[f] \in Fork /\ ForkGood(f)'
<1> DEFINE n == Len(forks[f].branches)
           more == [forks[f].branches EXCEPT ![b] = r]
<1>1. /\ n \in Nat /\ Branches(f) = 1..n /\ b \in 1..n
      /\ forks[f].branches \in Seq(Branch)
      /\ Completed(f) \subseteq 1..n
  BY BranchSets, ForkFields
<1>2. /\ more \in Seq(Branch) /\ Len(more) = n
      /\ \A c \in 1..n : more[c] = IF c = b THEN r ELSE forks[f].branches[c]
  BY <1>1, ExceptSeq DEF Ended
<1>3. DOMAIN more = 1..n
  BY <1>2, LenProperties
<1>4. forks'[f] = [forks[f] EXCEPT !.branches = more]
  BY DEF Turns
<1> HIDE DEF more, n
<1>5. /\ forks'[f] \in Fork /\ forks'[f].branches = more
      /\ forks'[f].config = forks[f].config
      /\ forks'[f].status = forks[f].status
  BY <1>2, <1>4 DEF Fork
<1>6. Branches(f)' = 1..n
  BY <1>3, <1>5 DEF Branches
<1>7. forks[f].branches[b].status = "running"
  BY DEF Active, WithStatus
<1>8. ASSUME NEW c \in 1..n
      PROVE  /\ (c \in Completed(f))' <=> more[c].status = "completed"
             /\ c \in Completed(f) <=>
                   forks[f].branches[c].status = "completed"
  BY <1>1, <1>5, <1>6 DEF Completed, WithStatus
<1>9. \A c \in 1..n : (c \in Completed(f))' <=>
                          Output(f, c)' \in Outputs
  <2> TAKE c \in 1..n
  <2>1. Output(f, c)' = more[c].output
    BY <1>5 DEF Output
  <2>2. CASE c = b
    BY <1>2, <1>8, <2>1, <2>2 DEF Ended
  <2>3. CASE c # b
    <3>1. more[c] = forks[f].branches[c]
      BY <1>2, <2>3
    <3>2. c \in Completed(f) <=> Output(f, c) \in Outputs
      BY <1>1 DEF ForkGood
    <3>3. QED
      BY <1>8, <2>1, <3>1, <3>2 DEF Output
  <2>4. QED
    BY <2>2, <2>3
<1>10. /\ Completed(f) \subseteq Completed(f)'
       /\ Completed(f)' \subseteq 1..n
  <2>1. Completed(f)' \subseteq 1..n
    BY <1>6 DEF Completed, WithStatus
  <2>2. QED
    BY <1>1, <1>2, <1>7, <1>8, <2>1
<1>11. Cardinality(Completed(f)')
          >= Cardinality(Completed(f))
  <2>1. IsFiniteSet(Completed(f)')
    BY <1>1, <1>10, BranchSet
  <2>2. Cardinality(Completed(f)) <= Cardinality(Completed(f)')
    BY <1>10, <2>1, FS_Subset
  <2>3. /\ Cardinality(Completed(f)) \in 0..n
        /\ Cardinality(Completed(f)') \in 0..n
    BY <1>1, <1>10, BranchSet
  <2>4. \A S : Cardinality(S) = Cardinality(S)
    OBVIOUS
  <2>5. QED
    BY <1>1, <2>2, <2>3, <2>4
<1>12. QED
  <2>1. ~(forks[f].status = "merged" /\ forks[f].config.cancel)
    BY DEF ForkGood
  <2>2. (Len(forks[f].branches) = forks[f].config.size)'
    BY <1>2, <1>5 DEF ForkGood, n
  <2>3. forks[f].status = "merged" =>
          Cardinality(Completed(f)') >= forks[f].config.need
    <3>1. /\ forks[f].config.need \in Nat
          /\ Cardinality(Completed(f)) \in Nat
          /\ Cardinality(Completed(f)') \in Nat
      <4>1. /\ Cardinality(Completed(f)) \in 0..n
            /\ Cardinality(Completed(f)') \in 0..n
        BY <1>1, <1>10, BranchSet
      <4>2. \A S : Cardinality(S) = Cardinality(S)
        OBVIOUS
      <4>3. forks[f].config.need \in Nat
        BY ForkingFacts DEF Fork, Config
      <4>4. QED
        BY <1>1, <4>1, <4>2, <4>3
    <3>2. QED
      BY <1>11, <3>1 DEF ForkGood
  <2>4. QED
    BY <1>5, <1>6, <1>9, <2>1, <2>2, <2>3 DEF ForkGood

\* A merge.
LEMMA MergeGood ==
  ASSUME NEW f, forks[f] \in Fork, ForkGood(f),
         f \in made', NEW r, Merges(f, r)
  PROVE  forks'[f] \in Fork /\ ForkGood(f)'
<1> DEFINE n == Len(forks[f].branches)
           set == CancelSet(f)
           more == Cancelled(f, set)
<1>1. /\ n \in Nat /\ Branches(f) = 1..n
      /\ \A c \in 1..n : forks[f].branches[c] \in Branch
      /\ Completed(f) \subseteq 1..n
  BY BranchSets
<1>2. set \subseteq Active(f)
  BY DEF CancelSet
<1>3. \A c \in 1..n : more[c] = IF c \in set
         THEN [forks[f].branches[c] EXCEPT !.status = "cancelled"]
         ELSE forks[f].branches[c]
  BY <1>1 DEF Cancelled
<1>4. \A c \in 1..n : more[c] \in Branch
                       /\ more[c].output = forks[f].branches[c].output
  <2> HIDE DEF n, more, set
  <2> TAKE c \in 1..n
  <2>1. forks[f].branches[c] \in Branch
    BY <1>1
  <2>2. CASE c \in set
    <3>1. more[c] = [forks[f].branches[c] EXCEPT !.status = "cancelled"]
      BY <1>3, <2>2
    <3>2. QED
      BY <2>1, <3>1 DEF Branch
  <2>3. CASE c \notin set
    <3>1. more[c] = forks[f].branches[c]
      BY <1>3, <2>3
    <3>2. QED
      BY <2>1, <3>1
  <2>4. QED
    BY <2>2, <2>3
<1>5. more \in [1..n -> Branch]
  BY <1>1, <1>4 DEF Cancelled
<1> HIDE DEF n, more
<1>6. more \in Seq(Branch)
  BY <1>1, <1>5, SeqDef
<1>7. DOMAIN more = 1..n /\ Len(more) = n
  <2>1. DOMAIN more = 1..n /\ DOMAIN more = 1..Len(more) /\ Len(more) \in Nat
    BY <1>5, <1>6, LenProperties
  <2>2. QED
    BY <1>1, <2>1
<1>8. MaxScore \in Nat
  BY ForkingFacts
<1>9. r \in Result /\ r \in Merged(f)
  <2>1. \A b \in Completed(f) : Output(f, b) \in Outputs
    BY <1>1 DEF ForkGood
  <2>2. r \in Merged(f)
    BY DEF Merges
  <2>3. QED
    BY <1>8, <2>1, <2>2, MergedResults
<1>10. /\ forks'[f] \in Fork /\ forks'[f].branches = more
       /\ forks'[f].config = forks[f].config /\ forks'[f].result = r
       /\ forks'[f].status = "merged"
  BY <1>6, <1>9 DEF Merges, Fork, more
<1>11. Branches(f)' = 1..n
  BY <1>7, <1>10 DEF Branches
<1>12. ASSUME NEW c \in 1..n
       PROVE  /\ (c \in Completed(f))' <=> more[c].status = "completed"
              /\ c \in Completed(f) <=>
                    forks[f].branches[c].status = "completed"
              /\ (c \in Active(f))' <=> more[c].status = "running"
              /\ c \in Active(f) <=>
                    forks[f].branches[c].status = "running"
  BY <1>1, <1>10, <1>11 DEF Completed, Active, WithStatus
<1>13. ASSUME NEW c \in set
       PROVE  c \in 1..n /\ more[c].status = "cancelled"
              /\ forks[f].branches[c].status = "running"
  <2>1. c \in 1..n /\ forks[f].branches[c].status = "running"
    BY <1>1, <1>2 DEF Active, WithStatus
  <2>2. QED
    BY <1>1, <1>3, <2>1 DEF Branch
<1>14. Completed(f)' = Completed(f)
  <2>1. Completed(f)' \subseteq 1..n
    BY <1>11 DEF Completed, WithStatus
  <2>2. \A c \in 1..n : more[c].status = "completed" <=>
                            forks[f].branches[c].status = "completed"
    BY <1>3, <1>13
  <2>3. QED
    BY <1>1, <1>12, <2>1, <2>2
<1>15. \A c \in Completed(f) :
          forks'[f].branches[c] = forks[f].branches[c]
  BY <1>1, <1>3, <1>10, <1>12, <1>13
<1>16. Merged(f)' = Merged(f)
  BY <1>8, <1>10, <1>14, <1>15, MergedSame
<1>17. forks[f].config.cancel => Active(f)' = {}
  <2>1. Active(f)' \subseteq 1..n
    BY <1>11 DEF Active, WithStatus
  <2>2. forks[f].config.cancel => set = Active(f)
    BY DEF CancelSet
  <2>3. QED
    BY <1>3, <1>12, <1>13, <2>1, <2>2
<1>18. \A c \in 1..n : (c \in Completed(f))' <=>
                           Output(f, c)' \in Outputs
  <2>1. \A c \in 1..n : Output(f, c)' = Output(f, c)
    BY <1>4, <1>10 DEF Output
  <2>2. QED
    BY <1>1, <1>14, <2>1 DEF ForkGood
<1>19. (Len(forks[f].branches) = forks[f].config.size)'
  BY <1>7, <1>10 DEF ForkGood, n
<1>20. Cardinality(Completed(f)') >= forks'[f].config.need
  BY <1>10, <1>14 DEF Merges
<1>21. QED
  BY <1>9, <1>10, <1>11, <1>16, <1>17, <1>18, <1>19, <1>20 DEF ForkGood

\* A new fork.
LEMMA BeginGood ==
  ASSUME NEW f, Begins(f)
  PROVE  forks'[f] \in Fork /\ ForkGood(f)'
<1>1. PICK s \in Sessions, c \in Config : forks'[f] = New(s, c)
  BY DEF Begins
<1> DEFINE one == [status |-> "running", output |-> NoOutput, score |-> 0]
           all == [b \in 1..c.size |-> one]
<1>2. c.size \in Nat
  BY ForkingFacts DEF Config
<1>3. one \in Branch
  BY ForkingFacts DEF Branch
<1> HIDE DEF one
<1>4. all \in [1..c.size -> Branch] /\ \A b \in 1..c.size : all[b] = one
  BY <1>3
<1>5. all \in Seq(Branch)
  BY <1>2, <1>4, SeqDef
<1>6. DOMAIN all = 1..c.size /\ Len(all) = c.size
  <2>1. DOMAIN all = 1..c.size /\ DOMAIN all = 1..Len(all) /\ Len(all) \in Nat
    BY <1>4, <1>5, LenProperties
  <2>2. QED
    BY <1>2, <2>1
<1>7. forks'[f] = [session |-> s, config |-> c, status |-> "running",
                  result |-> NoResult, branches |-> all]
  BY <1>1 DEF New, one
<1>8. NoResult \in Result
  <2>1. <<>> \in Seq(Outputs)
    BY EmptySeq
  <2>2. QED
    BY <2>1, ResultRecord DEF NoResult
<1> HIDE DEF all
<1>9. forks'[f] \in Fork
  BY <1>5, <1>7, <1>8 DEF Fork
<1>10. Branches(f)' = 1..c.size
  BY <1>6, <1>7 DEF Branches
<1>11. Completed(f)' = {}
  BY <1>4, <1>7, <1>10 DEF Completed, WithStatus, one
<1>12. \A b \in 1..c.size : Output(f, b)' = NoOutput
  BY <1>4, <1>7 DEF Output, one
<1>13. f \in made' /\ forks'[f].status = "running"
       /\ forks'[f].branches = all /\ forks'[f].config = c
  BY <1>7 DEF Begins
<1>14. QED
  BY <1>6, <1>9, <1>10, <1>11, <1>12, <1>13, ForkingFacts DEF ForkGood

\* A fork that nothing happens to.
LEMMA QuietGood ==
  ASSUME NEW f, forks[f] \in Fork, ForkGood(f),
         f \in made', forks'[f] = forks[f]
  PROVE  forks'[f] \in Fork /\ ForkGood(f)'
<1>1. /\ Branches(f)' = Branches(f)
      /\ Completed(f)' = Completed(f)
      /\ Active(f)' = Active(f)
      /\ \A b : Output(f, b)' = Output(f, b)
  BY DEF Branches, Completed, Active,
         WithStatus, Output
<1>2. Merged(f)' = Merged(f)
  BY <1>1, MergedSame, ForkingFacts
<1>3. forks'[f] \in Fork
  BY DEF Fork
<1>4. QED
  BY <1>1, <1>2, <1>3 DEF ForkGood

\* Of a step it is enough to know what becomes of every fork.
StepShape ==
    /\ made \subseteq made' /\ made' \subseteq ForkIds
    /\ forks' = [f \in ForkIds |-> forks'[f]]
    /\ \A f \in Tracked : Evolves(f)
    /\ \A f \in ForkIds \ Tracked : forks'[f] = forks[f] \/ Begins(f)

LEMMA ShapeKeeps ==
  ASSUME ForkingInv, StepShape
  PROVE  ForkingInv'
<1>1. ASSUME NEW f \in ForkIds
      PROVE  \/ forks'[f] = NoFork
             \/ forks'[f] \in Fork /\ ForkGood(f)'
  <2>1. CASE f \in Tracked
    <3>1. forks[f] \in Fork /\ ForkGood(f) /\ f \in made'
      BY <2>1 DEF ForkingInv, StepShape, ForkGood, Tracked
    <3>2. Evolves(f)
      BY <2>1 DEF StepShape
    <3>3. QED
      BY <3>1, <3>2, QuietGood, TurnGood, MergeGood DEF Evolves
  <2>2. CASE f \notin Tracked
    <3>1. forks[f] = NoFork
      BY <2>2 DEF Tracked
    <3>2. QED
      BY <2>2, <3>1, BeginGood DEF StepShape
  <2>3. QED
    BY <2>1, <2>2
<1>2. (forks \in [ForkIds -> Fork \cup {NoFork}])'
  <2>1. \A f \in ForkIds : forks'[f] \in Fork \cup {NoFork}
    BY <1>1
  <2>2. QED
    BY <2>1 DEF StepShape, Fork
<1>3. (\A f \in Tracked : ForkGood(f))'
  BY <1>1 DEF Tracked
<1>4. QED
  BY <1>2, <1>3 DEF ForkingInv, StepShape

LEMMA RemoveShape ==
  ASSUME ForkingInv, NEW gone, Remove(gone),
         \A f \in gone : f \in Tracked /\ Removable(f)
  PROVE  StepShape
<1>1. /\ forks' = [f \in ForkIds |-> IF f \in gone THEN NoFork ELSE forks[f]]
      /\ made' = made /\ made \subseteq ForkIds
  BY DEF Remove, ForkingInv
<1>2. \A f \in ForkIds : \/ forks'[f] = forks[f]
                         \/ forks'[f] = NoFork /\ f \in gone
  BY <1>1
<1>3. forks' = [f \in ForkIds |-> forks'[f]]
  BY <1>1
<1>4. QED
  BY <1>1, <1>2, <1>3 DEF StepShape, Evolves, Tracked

\* One fork changes.
LEMMA OneShape ==
  ASSUME ForkingInv, NEW f \in Tracked, NEW F,
         forks' = [forks EXCEPT ![f] = F], made' = made, Evolves(f)
  PROVE  StepShape
<1>1. /\ forks \in [ForkIds -> Fork \cup {NoFork}] /\ f \in ForkIds
      /\ made \subseteq ForkIds
  BY DEF ForkingInv, Tracked
<1>2. \A g \in ForkIds : g = f \/ forks'[g] = forks[g]
  BY <1>1
<1>3. forks' = [g \in ForkIds |-> forks'[g]]
  BY <1>1
<1>4. QED
  BY <1>1, <1>2, <1>3 DEF StepShape, Evolves, Tracked

LEMMA FinishShape ==
  ASSUME ForkingInv, NEW f \in Tracked, NEW b \in Active(f),
         NEW r, Ended(r), Finish(f, b, r)
  PROVE  StepShape
<1>1. /\ forks \in [ForkIds -> Fork \cup {NoFork}] /\ f \in ForkIds
  BY DEF ForkingInv, Tracked
<1> DEFINE F == [forks[f] EXCEPT !.branches = [@ EXCEPT ![b] = r]]
<1>2. forks' = [forks EXCEPT ![f] = F] /\ made' = made
  BY DEF Finish
<1>3. forks'[f] = F
  BY <1>1, <1>2
<1>4. Evolves(f)
  BY <1>3 DEF Evolves, Turns
<1>5. QED
  BY <1>2, <1>4, OneShape

LEMMA BranchEnds ==
  ASSUME ForkingInv, NEW f \in Tracked,
         NEW b \in Branches(f),
         \/ CompleteBranch(f, b)
         \/ FailBranch(f, b) \/ CancelBranch(f, b)
  PROVE  StepShape
<1>1. b \in Active(f)
  BY DEF CompleteBranch, FailBranch, CancelBranch
<1>2. forks[f] \in Fork /\ ForkGood(f)
  BY DEF ForkingInv, Tracked
<1> DEFINE old == forks[f].branches[b]
<1>3. old \in Branch /\ old.status = "running"
  BY <1>1, <1>2, BranchSets DEF Active, WithStatus
<1>4. old.output \notin Outputs
  <2>1. b \notin Completed(f)
    BY <1>3 DEF Completed, WithStatus
  <2>2. QED
    BY <1>2, <2>1 DEF ForkGood, Output
<1>5. CASE CompleteBranch(f, b)
  <2>1. PICK o \in Outputs, s \in 0..MaxScore :
           Finish(f, b, [status |-> "completed", output |-> o, score |-> s])
    BY <1>5 DEF CompleteBranch
  <2>2. Ended([status |-> "completed", output |-> o, score |-> s])
    BY DEF Ended, Branch
  <2>3. QED
    BY <1>1, <2>1, <2>2, FinishShape
<1>6. CASE FailBranch(f, b)
  <2>1. Ended([old EXCEPT !.status = "failed"])
    BY <1>3, <1>4 DEF Ended, Branch
  <2>2. QED
    BY <1>1, <1>6, <2>1, FinishShape DEF FailBranch
<1>7. CASE CancelBranch(f, b)
  <2>1. Ended([old EXCEPT !.status = "cancelled"])
    BY <1>3, <1>4 DEF Ended, Branch
  <2>2. QED
    BY <1>1, <1>7, <2>1, FinishShape DEF CancelBranch
<1>8. QED
  BY <1>5, <1>6, <1>7

LEMMA MergeShape ==
  ASSUME ForkingInv, NEW f \in Tracked, Merge(f)
  PROVE  StepShape
<1>1. /\ forks \in [ForkIds -> Fork \cup {NoFork}] /\ f \in ForkIds
  BY DEF ForkingInv, Tracked
<1>2. PICK r \in Merged(f) :
         forks' = [forks EXCEPT ![f].branches = Cancelled(f, CancelSet(f)),
                                ![f].result = r, ![f].status = "merged"]
  BY DEF Merge, MergeWith, CancelSet
<1>3. /\ made' = made
      /\ Cardinality(Completed(f)) >= forks[f].config.need
  BY DEF Merge, MergeWith
<1> DEFINE F == [forks[f] EXCEPT !.branches = Cancelled(f, CancelSet(f)),
                               !.result = r, !.status = "merged"]
<1>4. forks' = [forks EXCEPT ![f] = F]
  BY <1>1, <1>2
<1>5. forks'[f] = F
  BY <1>1, <1>4
<1>6. Evolves(f)
  BY <1>3, <1>5 DEF Evolves, Merges
<1>7. QED
  BY <1>3, <1>4, <1>6, OneShape

LEMMA CreateShape ==
  ASSUME ForkingInv, NEW s \in Sessions, NEW c \in Config,
         CreateFork(s, c)
  PROVE  StepShape
<1>1. PICK f \in ForkIds \ made :
         /\ forks' = [forks EXCEPT ![f] = New(s, c)]
         /\ made' = made \cup {f}
  BY DEF CreateFork
<1>2. /\ forks \in [ForkIds -> Fork \cup {NoFork}]
      /\ made \subseteq ForkIds
      /\ \A g \in Tracked : g \in made
  BY DEF ForkingInv, ForkGood
<1>3. \A g \in ForkIds : g = f \/ forks'[g] = forks[g]
  BY <1>1, <1>2
<1>4. Begins(f)
  BY <1>1, <1>2 DEF Begins
<1>5. forks' = [g \in ForkIds |-> forks'[g]]
  BY <1>1, <1>2
<1>6. QED
  BY <1>1, <1>2, <1>3, <1>4, <1>5 DEF StepShape, Evolves, Tracked

LEMMA ForkingSteps ==
  ASSUME ForkingInv, [ForksNext]_forkVars
  PROVE  StepShape
<1>1. CASE UNCHANGED forkVars
  <2>1. /\ forks' = forks /\ made' = made
        /\ forks \in [ForkIds -> Fork \cup {NoFork}]
        /\ made \subseteq ForkIds
    BY <1>1 DEF forkVars, ForkingInv
  <2>2. forks' = [f \in ForkIds |-> forks'[f]]
    BY <2>1
  <2>3. QED
    BY <2>1, <2>2 DEF StepShape, Evolves
<1>2. ASSUME NEW s \in Sessions, NEW c \in Config,
             CreateFork(s, c)
      PROVE  StepShape
  BY <1>2, CreateShape
<1>3. ASSUME NEW f \in Tracked, NEW b \in Branches(f),
             \/ CompleteBranch(f, b)
             \/ FailBranch(f, b) \/ CancelBranch(f, b)
      PROVE  StepShape
  BY <1>3, BranchEnds
<1>4. ASSUME NEW f \in Tracked, Merge(f)
      PROVE  StepShape
  BY <1>4, MergeShape
<1>5. CASE CleanupCompleted
  BY <1>5, RemoveShape DEF CleanupCompleted
<1>6. QED
  BY <1>1, <1>2, <1>3, <1>4, <1>5 DEF ForksNext

-----------------------------------------------------------------------------
(* The theorems about forks.                                               *)

LEMMA ForkingInit ==
  ASSUME ForksInit
  PROVE  ForkingInv
<1>1. forks = [f \in ForkIds |-> NoFork] /\ made = {}
  BY DEF ForksInit
<1>2. Tracked = {}
  BY <1>1 DEF Tracked
<1>3. QED
  BY <1>1, <1>2 DEF ForkingInv

LEMMA ForkingAlways == ForksSpec => []ForkingInv
<1>1. ForksInit => ForkingInv
  BY ForkingInit
<1>2. ForkingInv /\ [ForksNext]_forkVars => ForkingInv'
  BY ForkingSteps, ShapeKeeps
<1>3. QED
  BY <1>1, <1>2, PTL DEF ForksSpec

\* With auto_cancel_on_merge the winner that merge reports stays the winner: no
\* completed branch has a higher score under best_score, or an output returned
\* more often under majority, for any number of branches and any outputs.
THEOREM WinnerCorrect == ForksSpec => []WinnerWins
<1>1. ForkingInv => WinnerWins
  BY ForkingWinner
<1>2. QED
  BY <1>1, ForkingAlways, PTL

\* What MergeSettles says of a fork.
Settled(f) ==
    forks'[f] # NoFork =>
      /\ \A b \in Branches(f) \ Active(f) :
            forks'[f].branches[b] = forks[f].branches[b]
      /\ (/\ forks[f].status = "merged"
          /\ forks[f].config.cancel
          /\ forks[f].config.strategy # "custom")
         => forks'[f].result = forks[f].result

LEMMA EvolvesSettled ==
  ASSUME ForkingInv, NEW f \in Tracked, Evolves(f)
  PROVE  Settled(f)
<1> DEFINE n == Len(forks[f].branches)
<1>1. forks[f] \in Fork /\ ForkGood(f) /\ MaxScore \in Nat
  BY ForkingFacts DEF ForkingInv, Tracked
<1>2. /\ Branches(f) = 1..n
      /\ forks[f].branches \in [1..n -> Branch]
  BY <1>1, BranchSets, ForkFields
<1> HIDE DEF n
<1>3. CASE forks'[f] = forks[f]
  BY <1>3 DEF Settled
<1>4. ASSUME NEW b \in Active(f), NEW r, Turns(f, b, r)
      PROVE  Settled(f)
  <2>1. /\ forks'[f].branches = [forks[f].branches EXCEPT ![b] = r]
        /\ forks'[f].result = forks[f].result
    BY <1>1, <1>4 DEF Turns, Fork
  <2>2. \A c \in 1..n : c # b => forks'[f].branches[c] = forks[f].branches[c]
    BY <1>2, <2>1
  <2>3. QED
    BY <1>2, <2>1, <2>2 DEF Settled
<1>5. ASSUME NEW r, Merges(f, r)
      PROVE  Settled(f)
  <2>1. /\ forks'[f].branches = Cancelled(f, CancelSet(f))
        /\ forks'[f].result = r /\ r \in Merged(f)
    BY <1>1, <1>5 DEF Merges, Fork
  <2>2. CancelSet(f) \subseteq Active(f)
    BY DEF CancelSet
  <2>3. \A c \in 1..n \ Active(f) :
           forks'[f].branches[c] = forks[f].branches[c]
    BY <1>2, <2>1, <2>2 DEF Cancelled
  <2>4. (/\ forks[f].status = "merged" /\ forks[f].config.cancel
         /\ forks[f].config.strategy # "custom")
        => forks[f].result = r
    <3>1. \A b \in Completed(f) : Output(f, b) \in Outputs
      <4>1. Completed(f) \subseteq 1..n
        BY <1>1, BranchSets DEF n
      <4>2. QED
        BY <1>1, <1>2, <4>1 DEF ForkGood
    <3>2. forks[f].config.strategy # "custom" =>
             \A q \in Merged(f) : q = r
      BY <1>1, <2>1, <3>1, MergedResults
    <3>3. QED
      BY <1>1, <3>2 DEF ForkGood
  <2>5. QED
    BY <1>2, <2>1, <2>3, <2>4 DEF Settled
<1>6. CASE forks'[f] = NoFork
  BY <1>6 DEF Settled
<1>7. QED
  BY <1>3, <1>4, <1>5, <1>6 DEF Evolves

\* A finished branch keeps its status, output and score through every merge,
\* completion and cancellation, and merging again a fork merged with
\* auto_cancel_on_merge gives the first result.
THEOREM MergeCorrect == ForksSpec => MergeSettles
<1>1. ForkingInv /\ [ForksNext]_forkVars =>
        \A f \in Tracked : Settled(f)
  BY ForkingSteps, EvolvesSettled DEF StepShape
<1>2. QED
  BY <1>1, ForkingAlways, PTL DEF ForksSpec, MergeSettles, Settled

\* What CleanupLosesNoWork says of a fork.
Saved(f) ==
    (forks'[f] = NoFork /\ forks[f].config.cancel) => Active(f) = {}

LEMMA EvolvesSaved ==
  ASSUME ForkingInv, StepShape,
         NEW f \in Tracked, Evolves(f)
  PROVE  Saved(f)
<1>1. /\ forks[f] \in Fork /\ ForkGood(f) /\ f \in made'
      /\ forks[f] # NoFork /\ NoFork \notin Fork
  BY ForkingFacts DEF ForkingInv, ForkGood, StepShape, Tracked
<1>2. CASE forks'[f] = forks[f]
  BY <1>1, <1>2 DEF Saved
<1>3. ASSUME NEW b \in Active(f), NEW r, Ended(r), Turns(f, b, r)
      PROVE  Saved(f)
  BY <1>1, <1>3, TurnGood DEF Saved, Fork
<1>4. ASSUME NEW r, Merges(f, r)
      PROVE  Saved(f)
  BY <1>1, <1>4, MergeGood DEF Saved, Fork
<1>5. CASE Removable(f)
  BY <1>1, <1>5 DEF Removable, ForkGood, Saved
<1>6. QED
  BY <1>2, <1>3, <1>4, <1>5 DEF Evolves

\* cleanup_completed removes no fork of auto_cancel_on_merge that has a branch
\* still running.
THEOREM CleanupSpares == ForksSpec => CleanupLosesNoWork
<1>1. ForkingInv /\ [ForksNext]_forkVars =>
        \A f \in Tracked : Saved(f)
  BY ForkingSteps, EvolvesSaved DEF StepShape
<1>2. QED
  BY <1>1, ForkingAlways, PTL DEF ForksSpec, CleanupLosesNoWork, Saved
=============================================================================
