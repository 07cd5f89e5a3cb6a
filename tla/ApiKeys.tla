------------------------------ MODULE ApiKeys ------------------------------
(***************************************************************************)
(* APIKeyManager of auth/api_keys.py on discrete time: the keys of several *)
(* tenants from generation through rotation and its grace period to expiry *)
(* or revocation and to the clean-up.  A call runs whole.  The raw key and *)
(* its hash are left out: a key is known by its id.                        *)
(***************************************************************************)
EXTENDS Integers, FiniteSetsExt

CONSTANTS Tenants,
          MaxKeys,     \* bound: keys generated
          MaxTime,     \* bound: when the clock stops
          Lifetimes,   \* the values of expires_in_days tried
          Interval,    \* rotation_interval, 0 for none
          Grace,       \* grace_period
          Notice,      \* notify_before
          NoKey        \* rotate_key without old_key_id

KeyIds == 1..MaxKeys

ASSUME KeyAssumption ==
    /\ MaxKeys \in Nat /\ MaxTime \in Nat /\ Lifetimes \subseteq Nat
    /\ Interval \in Nat /\ Grace \in Nat /\ Notice \in Nat
    /\ NoKey \notin KeyIds

VARIABLES now,
          next,       \* the id of the next key
          keys,       \* _keys: the stored keys by id
          index,      \* _tenant_keys: the ids of each tenant; in the list they
                      \* are ascending, so the set of them says it all
          promised,   \* history: until when each id was to be valid
          condemned,  \* history: ids that met revoke_all since last rotated,
                      \* and when
          neglected   \* history: tenants whose due rotation was not made, or
                      \* that lost a key in another way

past == <<promised, condemned, neglected>>
vars == <<now, next, keys, index, past>>

Never == -1   \* no expiry, no promise

Until(expires) == IF expires = Never THEN MaxTime ELSE expires

Stored == DOMAIN keys
Of(t) == {k \in Stored : keys[k].tenant = t}

IsExpired(k) == keys[k].expires # Never /\ now > keys[k].expires
IsActive(k) == keys[k].status = "active" /\ ~IsExpired(k)

\* What validate_key answers for the key with id k.
Valid(k) == k \in Stored /\ keys[k].status # "revoked" /\ ~IsExpired(k)

Init ==
    /\ now = 0 /\ next = 1
    /\ keys = [k \in {} |-> 0]
    /\ index = [t \in Tenants |-> {}]
    /\ promised = [k \in KeyIds |-> Never]
    /\ condemned = [k \in {} |-> 0]
    /\ neglected = {}

-----------------------------------------------------------------------------
(* The operations.                                                         *)

NewKey(t, expires) == [tenant |-> t, status |-> "active", expires |-> expires]
PolicyExpiry == IF Interval = 0 THEN Never ELSE now + Interval

\* The next key of tenant t enters the table, which otherwise is as kept.
Generated(t, expires, kept) ==
    /\ next <= MaxKeys
    /\ next' = next + 1
    /\ keys' = [k \in DOMAIN kept \cup {next} |->
                   IF k = next THEN NewKey(t, expires) ELSE kept[k]]
    /\ index' = [index EXCEPT ![t] = @ \cup {next}]

GenerateKey(t) ==
    \E expires \in {now + life : life \in Lifetimes} \cup {PolicyExpiry} :
        /\ Generated(t, expires, keys)
        /\ promised' = [promised EXCEPT ![next] = Until(expires)]
        /\ UNCHANGED <<now, condemned, neglected>>

WithStatus(ids, status) ==
    [k \in Stored |-> IF k \in ids THEN [keys[k] EXCEPT !.status = status]
                                   ELSE keys[k]]

RevokeKey(k) ==
    /\ k \in Stored
    /\ keys' = WithStatus({k}, "revoked")
    /\ promised' = [promised EXCEPT ![k] = Never]
    /\ neglected' = neglected \cup {keys[k].tenant}
    /\ UNCHANGED <<now, next, index, condemned>>

ActiveKeys(t) == {k \in index[t] : IsActive(k)}
Oldest(ids) == IF ids = {} THEN {} ELSE {Min(ids)}

RevocableOldest(t) == Oldest(ActiveKeys(t))

\* The keys that revoke_all_tenant_keys revokes: not those in their grace period.
Revocable(t) == {k \in index[t] : keys[k].status = "active"}

RevokeAll(t) ==
    /\ keys' = WithStatus(Revocable(t), "revoked")
    /\ promised' = [k \in KeyIds |-> IF k \in Revocable(t) THEN Never
                                                           ELSE promised[k]]
    /\ condemned' = [k \in DOMAIN condemned \cup Of(t) |->
                       IF k \in Of(t) THEN now ELSE condemned[k]]
    /\ neglected' = neglected \cup {t}
    /\ UNCHANGED <<now, next, index>>

\* The key that rotate_key replaces when it is given old.
ToRotate(t, old) ==
    (IF old # NoKey THEN {old} ELSE Oldest(ActiveKeys(t))) \cap Stored

\* old may be any id, of any tenant and status.  The hook is called last and
\* changes nothing here, even when it raises and the caller never sees the key.
RotateKey(t, old) ==
    LET retired == ToRotate(t, old)
        kept == [k \in Stored |->
                   IF k \in retired
                   THEN [keys[k] EXCEPT !.status = "rotating",
                                        !.expires = now + Grace]
                   ELSE keys[k]]
    IN  /\ Generated(t, PolicyExpiry, kept)
        /\ promised' = [k \in KeyIds |->
                          IF k = next THEN Until(PolicyExpiry)
                          ELSE IF k \in retired THEN now + Grace
                          ELSE promised[k]]
        /\ condemned' = [k \in DOMAIN condemned \ retired |-> condemned[k]]
        /\ neglected' = neglected \cup ({keys[k].tenant : k \in retired} \ {t})
        /\ UNCHANGED now

NeedsRotationLate ==
    {k \in Stored : /\ keys[k].status = "active" /\ keys[k].expires # Never
                    /\ keys[k].expires - now < Notice}

\* check_rotation_needed.
NeedsRotation ==
    {k \in Stored : /\ keys[k].status = "active" /\ keys[k].expires # Never
                    /\ keys[k].expires - now <= Notice}

RemovableNotActive == {k \in Stored : keys[k].status # "active"}

Removable ==
    {k \in Stored : \/ keys[k].status = "revoked"
                    \/ IsExpired(k) /\ now - keys[k].expires > Grace}

CleanupKeysOnly ==
    /\ keys' = [k \in Stored \ Removable |-> keys[k]]
    /\ UNCHANGED <<now, next, index, past>>

\* cleanup_expired_keys.
Cleanup ==
    /\ keys' = [k \in Stored \ Removable |-> keys[k]]
    /\ index' = [t \in Tenants |-> index[t] \ Removable]
    /\ UNCHANGED <<now, next, past>>

Tick ==
    /\ now < MaxTime
    /\ now' = now + 1
    /\ neglected' = neglected \cup {keys[k].tenant : k \in NeedsRotation}
    /\ UNCHANGED <<next, keys, index, promised, condemned>>

Next ==
    \/ \E t \in Tenants : \/ GenerateKey(t) \/ RevokeAll(t)
                          \/ \E old \in KeyIds \cup {NoKey} : RotateKey(t, old)
    \/ \E k \in KeyIds : RevokeKey(k)
    \/ Cleanup
    \/ Tick

Spec == Init /\ [][Next]_vars

-----------------------------------------------------------------------------
(* Properties.                                                             *)

Key == [tenant : Tenants, status : {"active", "rotating", "revoked"},
        expires : Nat \cup {Never}]

\* The types of the tables; and each tenant's list names exactly its stored
\* keys, which revoke_all and the choice of the oldest active key rely on.
TypeOK ==
    /\ now \in 0..MaxTime /\ next \in 1..(MaxKeys + 1)
    /\ Stored \subseteq 1..(next - 1)
    /\ keys \in [Stored -> Key]
    /\ index = [t \in Tenants |-> Of(t)]
    /\ promised \in [KeyIds -> Nat \cup {Never}]
    /\ DOMAIN condemned \subseteq 1..(next - 1)
    /\ condemned \in [DOMAIN condemned -> 0..now]
    /\ neglected \subseteq Tenants

\* A key works up to the end of its lifetime, or of the grace period of its
\* last rotation, and no longer, unless it is revoked: neither a clean-up nor
\* what happens to other keys changes it.
ValidAsPromised ==
    \A k \in 1..(next - 1) : Valid(k) <=> now <= promised[k]

\* Of the keys a tenant had when revoke_all was called none works for longer
\* than a grace period, unless it is rotated again by its id.
RevokeAllEnds ==
    \A k \in DOMAIN condemned : now > condemned[k] + Grace => ~Valid(k)

\* A tenant whose keys are rotated as soon as check_rotation_needed names them,
\* and who loses none in another way, always has an active key.
ActiveKept ==
    \A t \in Tenants \ neglected :
        Of(t) # {} => \E k \in Of(t) : IsActive(k)
==============================================================================
