--------------------------- MODULE SessionManager ---------------------------
(***************************************************************************)
(* SessionManager and Session of session/manager.py.  The table maps a     *)
(* session id to a Session object; invocations hold references to objects, *)
(* so an object may live on after the table has dropped it.                *)
(***************************************************************************)
EXTENDS Naturals, Sequences, SessionIds

CONSTANTS Objects,   \* Session objects that may be created
          NoObject   \* no entry in the table

ASSUME NoObjectAssumption == NoObject \notin Objects

VARIABLES table,   \* _sessions
          msgs,    \* the messages of each object
          stale    \* objects whose last_active is older than the TTL

store == <<table, msgs, stale>>

StoreInit ==
    /\ table = [s \in Sids |-> NoObject]
    /\ msgs = [o \in Objects |-> <<>>]
    /\ stale = {}

Roles == {"user", "assistant"}

StoreTypeOK(turns) ==
    /\ table \in [Sids -> Objects \cup {NoObject}]
    /\ msgs \in [Objects -> Seq([role : Roles, turn : turns])]
    /\ stale \in SUBSET Objects

GetUnrefreshed(s) ==
    /\ table[s] # NoObject
    /\ UNCHANGED store

\* get_or_create of an id the table knows: no look at the TTL.
GetExisting(s) ==
    /\ table[s] # NoObject
    /\ stale' = stale \ {table[s]}
    /\ UNCHANGED <<table, msgs>>

Expired == {s \in Sids : table[s] \in stale}

\* get_or_create of an unknown id: a new object, then _cleanup of the table.
\* max_sessions is not consulted.
CreateSession(s, o) ==
    /\ table[s] = NoObject
    /\ stale' = stale \ {o}
    /\ msgs' = [msgs EXCEPT ![o] = <<>>]
    /\ table' = [x \in Sids |-> IF x = s THEN o
                                ELSE IF x \in Expired THEN NoObject
                                ELSE table[x]]

\* The same in two: the object is stored, whatever the table holds by then ...
StoreSession(s, o) ==
    /\ stale' = stale \ {o}
    /\ msgs' = [msgs EXCEPT ![o] = <<>>]
    /\ table' = [table EXCEPT ![s] = o]

\* ... and the ids in gone are dropped.
Cleanup(gone) ==
    /\ table' = [s \in Sids |-> IF s \in gone THEN NoObject ELSE table[s]]
    /\ UNCHANGED <<msgs, stale>>

GetAlwaysNew(s, o) ==
    /\ stale' = stale \ {o}
    /\ msgs' = [msgs EXCEPT ![o] = <<>>]
    /\ table' = [table EXCEPT ![s] = o]

\* get_or_create(s), where o is the object made if one is made.
GetOrCreate(s, o) == GetExisting(s) \/ CreateSession(s, o)

Holder(s, o) == IF table[s] = NoObject THEN o ELSE table[s]

\* Session.add_message
AddMessage(o, role, turn) ==
    /\ msgs' = [msgs EXCEPT ![o] = Append(@, [role |-> role, turn |-> turn])]
    /\ stale' = stale \ {o}
    /\ UNCHANGED table

\* save: the table's entry is overwritten, or brought back.
Save(s, o) ==
    /\ table' = [table EXCEPT ![s] = o]
    /\ UNCHANGED <<msgs, stale>>

Delete(s) ==
    /\ table[s] # NoObject
    /\ table' = [table EXCEPT ![s] = NoObject]
    /\ UNCHANGED <<msgs, stale>>

\* Time passes: nobody has touched o for ttl_seconds.
Age(o) ==
    /\ o \notin stale
    /\ stale' = stale \cup {o}
    /\ UNCHANGED <<table, msgs>>
=============================================================================
