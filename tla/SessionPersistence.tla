-------------------------- MODULE SessionPersistence --------------------------
(***************************************************************************)
(* SessionPersistence of sessions/persistence.py over a DynamoDB table     *)
(* shared by several clients (handlers of separate processes).  Every      *)
(* operation of the backend is one step; what a client has read it holds   *)
(* in rec[c] until it writes it back, and the table may change meanwhile.  *)
(*                                                                         *)
(* Time is counted in fractions of a second: Second of them make one.      *)
(* SessionRecord.to_dict stores int(expires_at), so the table only holds   *)
(* whole seconds.                                                          *)
(***************************************************************************)
EXTENDS Integers, FiniteSets

CONSTANTS Sids,         \* session ids that uuid4 may produce
          Clients,      \* callers of SessionPersistence
          Keys,         \* keys of the context
          TTLs,         \* values of ttl_seconds clients ask for
          Extensions,   \* values of additional_seconds
          MaxTTL,       \* max_ttl_seconds
          AutoExtends,  \* values of enable_auto_extend among the clients
          BatchSize,    \* cleanup_batch_size
          Second, MaxClock,   \* time units in a second; bound on the clock
          Absent, NoRecord    \* no item in the table; nothing in hand

ASSUME TTLAssumption ==
    /\ TTLs \subseteq Nat \ {0}
    /\ Extensions \subseteq Int
    /\ MaxTTL \in Nat /\ MaxClock \in Nat /\ Second \in Nat \ {0}
    /\ AutoExtends \subseteq BOOLEAN

Status == {"active", "expired", "terminated"}

\* The fields of a SessionRecord that the operations tell apart; ctx is the
\* set of keys the context has.
Record == [status : Status, expires : Int, ttl : Nat, ctx : SUBSET Keys]

ASSUME AbsentAssumption == Absent \notin Record /\ NoRecord \notin Record

VARIABLES clock,
          store,   \* the table
          born,    \* ids that were given to a session
          pc, sid, rec,   \* per client: the call, its session, the record
          victims, \* per client: keys cleanup_expired still has to delete
          added, ended, rewritten   \* history: see Remember

call == <<pc, sid, rec, victims>>
history == <<added, ended, rewritten>>
vars == <<clock, store, born, call, history>>

Init ==
    /\ clock = 0
    /\ store = [s \in Sids |-> Absent]
    /\ born = {}
    /\ pc = [c \in Clients |-> "idle"]
    /\ sid = [c \in Clients |-> Absent]
    /\ rec = [c \in Clients |-> NoRecord]
    /\ victims = [c \in Clients |-> {}]
    /\ added = [c \in Clients |-> {}]
    /\ ended = [c \in Clients |-> FALSE]
    /\ rewritten = [c \in Clients |-> {}]

MinOf(a, b) == IF a < b THEN a ELSE b
MaxOf(a, b) == IF a > b THEN a ELSE b

\* to_dict: int(expires_at).
Stored(r) == [r EXCEPT !.expires = @ - (@ % Second)]

IsExpired(r) == clock > r.expires

\* touch: the TTL counts from now, whatever was left of it.
Touch(r) == [r EXCEPT !.expires = clock + r.ttl * Second]

\* The call of client c returns.
Return(c) ==
    /\ pc' = [pc EXCEPT ![c] = "idle"]
    /\ sid' = [sid EXCEPT ![c] = Absent]
    /\ rec' = [rec EXCEPT ![c] = NoRecord]
    /\ victims' = [victims EXCEPT ![c] = {}]

\* The call goes on at label with r in hand.
Continue(c, label, s, r) ==
    /\ pc' = [pc EXCEPT ![c] = label]
    /\ sid' = [sid EXCEPT ![c] = s]
    /\ rec' = [rec EXCEPT ![c] = r]
    /\ UNCHANGED victims

Put(s, r) == store' = [store EXCEPT ![s] = Stored(r)]

Live(s) == store[s] # Absent

-----------------------------------------------------------------------------
(* History: what the table went through while a client was between its     *)
(* read and its write.  It is a function of the other variables and        *)
(* restricts no step.                                                      *)

\* The client holds a record that it will write back.
Holds(c) == pc[c] \in {"put get", "put update", "update", "put"}

Context(s) == IF Live(s) THEN store[s].ctx ELSE {}
Open(s) == Live(s) /\ store[s].status = "active"

\* added[c]: keys that the context of its session has got since c read it;
\* ended[c]: the session was terminated, marked expired or deleted since;
\* rewritten[c]: sessions that were written since c scanned the table.
Remember ==
    /\ added' = [c \in Clients |->
          IF Holds(c) /\ Holds(c)'
          THEN added[c] \cup (Context(sid[c])' \ Context(sid[c])) ELSE {}]
    /\ ended' = [c \in Clients |->
          /\ Holds(c) /\ Holds(c)'
          /\ \/ ended[c]
             \/ Open(sid[c]) /\ ~Open(sid[c])'
             \/ Live(sid[c]) /\ ~Live(sid[c])']
    /\ rewritten' = [c \in Clients |->
          {s \in victims[c] \cap victims'[c] :
              s \in rewritten[c] \/ (Live(s)' /\ store'[s] # store[s])}]

-----------------------------------------------------------------------------
(* The operations.                                                         *)

\* create_session: a fresh id, the TTL capped.
Create(c) ==
    /\ pc[c] = "idle"
    /\ \E s \in Sids \ born, t \in TTLs :
          /\ Put(s, Touch([status |-> "active", expires |-> 0,
                           ttl |-> MinOf(t, MaxTTL), ctx |-> {}]))
          /\ born' = born \cup {s}
    /\ Return(c)
    /\ UNCHANGED clock
    /\ Remember

\* get_session on an item that has time left, when it is auto-extended.  Every
\* other answer (no item, an expired one, no auto-extension) changes nothing.
GetSession(c) ==
    /\ pc[c] = "idle"
    /\ TRUE \in AutoExtends
    /\ \E s \in born :
          /\ Live(s) /\ ~IsExpired(store[s])
          /\ Continue(c, "put get", s, Touch(store[s]))
    /\ UNCHANGED <<clock, store, born>>
    /\ Remember

\* update_session starts with get_session.  An expired record is marked in the
\* hand but not in the table, and the update goes on with it.
UpdateSession(c) ==
    /\ pc[c] = "idle"
    /\ \E s \in born :
          /\ Live(s)
          /\ LET r == store[s] IN
             \/ /\ IsExpired(r)
                /\ Continue(c, "update", s, [r EXCEPT !.status = "expired"])
             \/ /\ ~IsExpired(r) /\ TRUE \in AutoExtends
                /\ Continue(c, "put update", s, Touch(r))
             \/ /\ ~IsExpired(r) /\ FALSE \in AutoExtends
                /\ Continue(c, "update", s, r)
    /\ UNCHANGED <<clock, store, born>>
    /\ Remember

\* The auto-extension of get_session is written back.
PutExtended(c) ==
    /\ \/ pc[c] = "put get" /\ Return(c)
       \/ pc[c] = "put update" /\ Continue(c, "update", sid[c], rec[c])
    /\ Put(sid[c], rec[c])
    /\ UNCHANGED <<clock, born>>
    /\ Remember

PutReplacing(c) ==
    /\ pc[c] = "update"
    /\ \E k \in Keys :
          Put(sid[c], Touch([rec[c] EXCEPT !.ctx = {k}]))
    /\ Return(c)
    /\ UNCHANGED <<clock, born>>
    /\ Remember

PutReviving(c) ==
    /\ pc[c] = "update"
    /\ \E k \in Keys :
          Put(sid[c], Touch([rec[c] EXCEPT !.ctx = @ \cup {k},
                                           !.status = "active"]))
    /\ Return(c)
    /\ UNCHANGED <<clock, born>>
    /\ Remember

\* update_session merges, touches and writes the record it holds, expired or
\* terminated as it may be.
PutUpdated(c) ==
    /\ pc[c] = "update"
    /\ \E k \in Keys :
          Put(sid[c], Touch([rec[c] EXCEPT !.ctx = @ \cup {k}]))
    /\ Return(c)
    /\ UNCHANGED <<clock, born>>
    /\ Remember

\* terminate_session and extend_ttl read the item themselves ...
TerminateSession(c) ==
    /\ pc[c] = "idle"
    /\ \E s \in born :
          /\ Live(s)
          /\ Continue(c, "put", s, [store[s] EXCEPT !.status = "terminated",
                                                    !.expires = clock])
    /\ UNCHANGED <<clock, store, born>>
    /\ Remember

ExtendUncapped(c) ==
    /\ pc[c] = "idle"
    /\ \E s \in born, extra \in Extensions :
          /\ Live(s)
          /\ Continue(c, "put", s,
                      [store[s] EXCEPT !.expires = MaxOf(@, clock)
                                                   + extra * Second])
    /\ UNCHANGED <<clock, store, born>>
    /\ Remember

ExtendTTL(c) ==
    /\ pc[c] = "idle"
    /\ \E s \in born, extra \in Extensions :
          /\ Live(s)
          /\ LET longer == MaxOf(store[s].expires, clock) + extra * Second
             IN Continue(c, "put", s,
                         [store[s] EXCEPT
                            !.expires = MinOf(longer, clock + MaxTTL * Second)])
    /\ UNCHANGED <<clock, store, born>>
    /\ Remember

\* ... and write back what they hold.
PutBack(c) ==
    /\ pc[c] = "put"
    /\ Put(sid[c], rec[c])
    /\ Return(c)
    /\ UNCHANGED <<clock, born>>
    /\ Remember

DeleteSession(c) ==
    /\ pc[c] = "idle"
    /\ \E s \in born :
          /\ Live(s)
          /\ Continue(c, "delete", s, store[s])
    /\ UNCHANGED <<clock, store, born>>
    /\ Remember

DropItem(c) ==
    /\ pc[c] = "delete"
    /\ store' = [store EXCEPT ![sid[c]] = Absent]
    /\ Return(c)
    /\ UNCHANGED <<clock, born>>
    /\ Remember

\* What cleanup_expired deletes.
Due(r) == r.expires < clock \/ r.status \in {"expired", "terminated"}

ScanDueSoon(c) ==
    /\ pc[c] = "idle"
    /\ LET due == {s \in born : Live(s)
                                /\ (Due(store[s]) \/ store[s].expires <= clock)}
       IN /\ due # {}
          /\ victims' = [victims EXCEPT ![c] = due]
    /\ pc' = [pc EXCEPT ![c] = "cleanup"]
    /\ UNCHANGED <<clock, store, born, sid, rec>>
    /\ Remember

\* cleanup_expired scans the table once ...
ScanExpired(c) ==
    /\ pc[c] = "idle"
    /\ LET due == {s \in born : Live(s) /\ Due(store[s])}
       IN /\ due # {}
          /\ victims' = [victims EXCEPT ![c] = due]
    /\ pc' = [pc EXCEPT ![c] = "cleanup"]
    /\ UNCHANGED <<clock, store, born, sid, rec>>
    /\ Remember

\* ... and deletes the keys it found batch by batch; a batch may fail, and its
\* keys are then left for the next cleanup.
DeleteBatch(c) ==
    /\ pc[c] = "cleanup"
    /\ \E batch \in SUBSET victims[c] :
          /\ Cardinality(batch) = MinOf(BatchSize, Cardinality(victims[c]))
          /\ \/ store' = [s \in Sids |-> IF s \in batch THEN Absent
                                         ELSE store[s]]
             \/ UNCHANGED store
          /\ IF batch = victims[c]
             THEN Return(c)
             ELSE /\ victims' = [victims EXCEPT ![c] = @ \ batch]
                  /\ UNCHANGED <<pc, sid, rec>>
    /\ UNCHANGED <<clock, born>>
    /\ Remember

Tick ==
    /\ clock < MaxClock
    /\ clock' = clock + 1
    /\ UNCHANGED <<store, born, call, history>>

Step(c) ==
    \/ Create(c) \/ GetSession(c) \/ UpdateSession(c)
    \/ PutExtended(c) \/ PutUpdated(c)
    \/ TerminateSession(c) \/ ExtendTTL(c) \/ PutBack(c)
    \/ DeleteSession(c) \/ DropItem(c)
    \/ ScanExpired(c) \/ DeleteBatch(c)

Next == Tick \/ \E c \in Clients : Step(c)

Spec == Init /\ [][Next]_vars

-----------------------------------------------------------------------------
(* Properties.                                                             *)

Labels == {"idle", "put get", "put update", "update", "put", "delete",
           "cleanup"}

\* The types of the table and of the calls in progress.
TypeOK ==
    /\ clock \in 0..MaxClock
    /\ store \in [Sids -> Record \cup {Absent}]
    /\ born \in SUBSET Sids
    /\ pc \in [Clients -> Labels]
    /\ sid \in [Clients -> Sids \cup {Absent}]
    /\ rec \in [Clients -> Record \cup {NoRecord}]
    /\ victims \in [Clients -> SUBSET Sids]
    /\ \A c \in Clients : Holds(c) => sid[c] \in Sids /\ rec[c] \in Record

\* No item of the table, and no record on its way to it, outlives the present
\* by more than max_ttl_seconds, whatever mix of create, touch and extend_ttl
\* by concurrent clients produced it.
TTLBounded ==
    /\ \A s \in Sids : Live(s) => /\ store[s].expires <= clock + MaxTTL * Second
                                  /\ store[s].ttl <= MaxTTL
    /\ \A c \in Clients :
          rec[c] # NoRecord => /\ rec[c].expires <= clock + MaxTTL * Second
                               /\ rec[c].ttl <= MaxTTL

\* The step is the write of session s by client c.
Writes(c, s) == Holds(c) /\ sid[c] = s /\ pc'[c] # pc[c]

\* update_session: "merged with existing".  No condition guards the write, so
\* an update may be lost; but only to a write whose caller had read the session
\* before that update was acknowledged, however calls and clients overlap.
UpdatesMerged ==
    [][\A s \in Sids : Live(s) /\ Live(s)' =>
          \A k \in store[s].ctx \ store'[s].ctx :
             \E c \in Clients : Writes(c, s) /\ k \in added[c]]_vars

\* A session that ended (was terminated, marked expired, or deleted) is active,
\* or in the table, again only by the write of a caller that had read it before
\* it ended: no call that begins later brings it back.
EndsForGood ==
    [][\A s \in born :
          (Live(s) /\ ~Open(s) /\ Open(s)') \/ (~Live(s) /\ Live(s)')
            => \E c \in Clients : Writes(c, s) /\ ended[c]]_vars

\* cleanup_expired: "Clean up expired sessions": a batch deletes a session that
\* is active and has time left only if it was written after the scan.
CleanupOnlyExpired ==
    [][\A c \in Clients : \A s \in victims[c] \ victims'[c] :
          Live(s) /\ ~Live(s)' => Due(store[s]) \/ s \in rewritten[c]]_vars
================================================================================
