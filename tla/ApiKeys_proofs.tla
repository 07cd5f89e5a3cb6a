--------------------------- MODULE ApiKeys_proofs ---------------------------
(***************************************************************************)
(* The promises of module ApiKeys for every number of keys and tenants,    *)
(* every length of the grace period, of the notice and of a lifetime.      *)
(***************************************************************************)
EXTENDS ApiKeys, TLAPS

\* What the table says of a key is what was promised; what it no longer holds
\* or has revoked was promised until a time that has passed.
Promises ==
    \A k \in 1..(next - 1) :
        IF k \in Stored /\ keys[k].status # "revoked"
        THEN promised[k] = Until(keys[k].expires)
        ELSE promised[k] < now

\* A key in its grace period expires at the latest a grace period from now,
\* and one that revoke_all passed over a grace period from then.
GraceBounded ==
    \A k \in Stored :
        keys[k].status = "rotating" =>
            keys[k].expires # Never /\ keys[k].expires <= now + Grace

CondemnedEnd ==
    \A k \in DOMAIN condemned :
        k \in Stored /\ keys[k].status # "revoked" =>
            /\ keys[k].status = "rotating"
            /\ keys[k].expires # Never
            /\ keys[k].expires <= condemned[k] + Grace

KeysInv == TypeOK /\ Promises /\ GraceBounded /\ CondemnedEnd /\ ActiveKept

LEMMA InitInv == Init => KeysInv
  <1> SUFFICES ASSUME Init PROVE KeysInv
    OBVIOUS
  <1> USE KeyAssumption
  <1>1. Stored = {}
    BY DEF Init, Stored
  <1>2. TypeOK
    <2>1. keys \in [Stored -> Key]
      BY <1>1 DEF Init, Stored
    <2>2. index = [t \in Tenants |-> Of(t)]
      BY <1>1 DEF Init, Of
    <2>3. promised \in [KeyIds -> Nat \cup {Never}]
      BY DEF Init, Never
    <2>4. /\ DOMAIN condemned \subseteq 1..(next - 1)
          /\ condemned \in [DOMAIN condemned -> 0..now]
      BY DEF Init
    <2> QED BY <1>1, <2>1, <2>2, <2>3, <2>4 DEF Init, TypeOK
  <1>3. Promises /\ GraceBounded /\ CondemnedEnd /\ ActiveKept
    BY <1>1 DEF Init, Promises, GraceBounded, CondemnedEnd, ActiveKept, Of
  <1> QED BY <1>2, <1>3 DEF KeysInv

\* What an operation that generates a key does to the tables, whatever else it
\* did to the keys before.
LEMMA GeneratedType ==
    ASSUME TypeOK, NEW t \in Tenants, NEW expires \in Nat \cup {Never},
           NEW kept \in [Stored -> Key],
           \A k \in Stored : kept[k].tenant = keys[k].tenant,
           Generated(t, expires, kept)
    PROVE  /\ next' \in 1..(MaxKeys + 1)
           /\ next' = next + 1
           /\ next \in KeyIds /\ next \notin Stored
           /\ Stored' = Stored \cup {next}
           /\ keys' \in [Stored' -> Key]
           /\ keys'[next] = NewKey(t, expires)
           /\ \A k \in Stored : keys'[k] = kept[k]
           /\ index' = [s \in Tenants |-> Of(s)']
           /\ Stored' \subseteq 1..(next' - 1)
  <1> USE KeyAssumption
  <1>1. /\ next \in KeyIds /\ next \notin Stored /\ next' = next + 1
        /\ next' \in 1..(MaxKeys + 1)
    BY DEF TypeOK, Generated, KeyIds
  <1>2. Stored' = Stored \cup {next}
    BY DEF Generated, Stored
  <1>3. keys' = [k \in Stored' |-> IF k = next THEN NewKey(t, expires)
                                               ELSE kept[k]]
    BY <1>2 DEF Generated, Stored
  <1>4. NewKey(t, expires) \in Key
    BY DEF NewKey, Key
  <1>5. keys' \in [Stored' -> Key]
    BY <1>2, <1>3, <1>4
  <1>6. \A k \in Stored : keys'[k] = kept[k]
    BY <1>1, <1>2, <1>3
  <1>7. keys'[next] = NewKey(t, expires)
    BY <1>2, <1>3
  <1>8. index' = [s \in Tenants |-> Of(s)']
    <2>1. index = [s \in Tenants |-> Of(s)]
      BY DEF TypeOK
    <2>2. index' = [index EXCEPT ![t] = @ \cup {next}]
      BY DEF Generated
    <2>3. ASSUME NEW s \in Tenants
          PROVE  Of(s)' = IF s = t THEN Of(s) \cup {next} ELSE Of(s)
      <3>1. Of(s)' = {k \in Stored' : keys'[k].tenant = s}
        BY DEF Of
      <3>2. Of(s) = {k \in Stored : keys[k].tenant = s}
        BY DEF Of
      <3>3. keys'[next].tenant = t
        BY <1>7 DEF NewKey
      <3>4. \A k \in Stored : keys'[k].tenant = keys[k].tenant
        BY <1>6
      <3> HIDE DEF Stored, Of
      <3> QED BY <1>1, <1>2, <3>1, <3>2, <3>3, <3>4
    <2> QED BY <2>1, <2>2, <2>3
  <1>9. Stored' \subseteq 1..(next' - 1)
    BY <1>1, <1>2 DEF TypeOK
  <1> QED BY <1>1, <1>2, <1>5, <1>6, <1>7, <1>8, <1>9

\* The expiry that the rotation policy gives a key.
LEMMA PolicyExpiryType == TypeOK => PolicyExpiry \in Nat \cup {Never}
  BY KeyAssumption DEF TypeOK, PolicyExpiry

LEMMA GenerateKeyInv ==
    ASSUME KeysInv, NEW t \in Tenants, GenerateKey(t)
    PROVE  KeysInv'
  <1> USE KeyAssumption
  <1> PICK expires \in {now + life : life \in Lifetimes} \cup {PolicyExpiry} :
          /\ Generated(t, expires, keys)
          /\ promised' = [promised EXCEPT ![next] = Until(expires)]
          /\ UNCHANGED <<now, condemned, neglected>>
    BY DEF GenerateKey
  <1>0. TypeOK /\ expires \in Nat \cup {Never}
    BY PolicyExpiryType DEF KeysInv, TypeOK
  <1>a. /\ expires # Never => expires >= now
        /\ Until(expires) \in Nat
    BY <1>0 DEF PolicyExpiry, Until, Never, TypeOK
  <1>1. /\ next' \in 1..(MaxKeys + 1)
        /\ next' = next + 1
        /\ next \in KeyIds /\ next \notin Stored
        /\ Stored' = Stored \cup {next}
        /\ keys' \in [Stored' -> Key]
        /\ keys'[next] = NewKey(t, expires)
        /\ \A k \in Stored : keys'[k] = keys[k]
        /\ index' = [s \in Tenants |-> Of(s)']
        /\ Stored' \subseteq 1..(next' - 1)
    <2>1. keys \in [Stored -> Key]
      BY <1>0 DEF TypeOK
    <2> QED BY <1>0, <2>1, GeneratedType
  <1>2. /\ keys'[next].status = "active" /\ keys'[next].expires = expires
        /\ keys'[next].tenant = t
    BY <1>1 DEF NewKey
  <1>3. promised' \in [KeyIds -> Nat \cup {Never}]
    BY <1>0, <1>1, <1>a DEF TypeOK
  <1>4. TypeOK'
    <2>1. /\ DOMAIN condemned' \subseteq 1..(next' - 1)
          /\ condemned' \in [DOMAIN condemned' -> 0..now']
      BY <1>0, <1>1 DEF TypeOK
    <2>2. now' \in 0..MaxTime /\ neglected' \subseteq Tenants
      BY <1>0 DEF TypeOK
    <2> QED BY <1>1, <1>3, <2>1, <2>2 DEF TypeOK
  <1>5. Promises'
    <2> SUFFICES ASSUME NEW k \in (1..(next - 1)) \cup {next}
                 PROVE  IF k \in Stored' /\ keys'[k].status # "revoked"
                        THEN promised'[k] = Until(keys'[k].expires)
                        ELSE promised'[k] < now'
      BY <1>0, <1>1 DEF Promises, TypeOK, Until
    <2>1. CASE k = next
      BY <2>1, <1>0, <1>1, <1>2 DEF TypeOK
    <2>2. CASE k # next
      <3>1. k \in Stored' <=> k \in Stored
        BY <2>2, <1>1
      <3>2. promised'[k] = promised[k] /\ now' = now
        BY <2>2, <1>0, <1>1 DEF TypeOK
      <3>3. k \in 1..(next - 1)
        BY <2>2
      <3> QED BY <1>1, <3>1, <3>2, <3>3 DEF KeysInv, Promises
    <2> QED BY <2>1, <2>2
  <1>6. GraceBounded'
    BY <1>1, <1>2 DEF KeysInv, GraceBounded
  <1>7. CondemnedEnd'
    <2>1. \A k \in DOMAIN condemned : k # next
      BY <1>0, <1>1 DEF TypeOK
    <2> QED BY <1>1, <2>1 DEF KeysInv, CondemnedEnd
  <1>8. ActiveKept'
    <2> SUFFICES ASSUME NEW s \in Tenants \ neglected', Of(s)' # {}
                 PROVE  \E k \in Of(s)' : IsActive(k)'
      BY DEF ActiveKept
    <2>1. CASE s = t
      <3> PICK j \in KeyIds : j = next
        BY <1>1
      <3>1. j \in Of(s)'
        BY <2>1, <1>1, <1>2 DEF Of
      <3>2. IsActive(j)'
        <4>1. ~(now' > expires) \/ expires = Never
          BY <1>0, <1>a DEF TypeOK, Never
        <4> QED BY <4>1, <1>2 DEF IsActive, IsExpired
      <3> QED BY <3>1, <3>2
    <2>2. CASE s # t
      <3>1. Of(s) # {}
        BY <2>2, <1>1, <1>2 DEF Of
      <3>2. PICK k \in Of(s) : IsActive(k)
        BY <3>1 DEF KeysInv, ActiveKept
      <3>3. k \in Of(s)' /\ IsActive(k)'
        BY <1>1, <3>2 DEF Of, IsActive, IsExpired
      <3> QED BY <3>3
    <2> QED BY <2>1, <2>2
  <1> QED BY <1>4, <1>5, <1>6, <1>7, <1>8 DEF KeysInv

\* The change of a status to "revoked", for one key or for many.
LEMMA RevokedType ==
    ASSUME TypeOK, NEW ids, keys' = WithStatus(ids, "revoked"),
           UNCHANGED <<next, index>>
    PROVE  /\ Stored' = Stored
           /\ keys' \in [Stored' -> Key]
           /\ \A k \in Stored : /\ keys'[k].tenant = keys[k].tenant
                                /\ keys'[k].expires = keys[k].expires
                                /\ k \notin ids => keys'[k] = keys[k]
                                /\ k \in ids => keys'[k].status = "revoked"
           /\ \A s \in Tenants : Of(s)' = Of(s)
           /\ index' = [s \in Tenants |-> Of(s)']
  <1>1. Stored' = Stored
    BY DEF WithStatus, Stored
  <1>2. \A k \in Stored : keys'[k] = IF k \in ids
                                     THEN [keys[k] EXCEPT !.status = "revoked"]
                                     ELSE keys[k]
    BY DEF WithStatus
  <1>3. \A k \in Stored : keys[k] \in Key
    BY DEF TypeOK
  <1>4. ASSUME NEW k \in Stored
        PROVE  /\ keys'[k] \in Key
               /\ keys'[k].tenant = keys[k].tenant
               /\ keys'[k].expires = keys[k].expires
               /\ k \notin ids => keys'[k] = keys[k]
               /\ k \in ids => keys'[k].status = "revoked"
    BY <1>2, <1>3 DEF Key
  <1>5. keys' \in [Stored' -> Key]
    <2>1. keys' = [k \in Stored |-> IF k \in ids
                                    THEN [keys[k] EXCEPT !.status = "revoked"]
                                    ELSE keys[k]]
      BY DEF WithStatus
    <2> QED BY <1>1, <1>4, <2>1
  <1>6. \A s \in Tenants : Of(s)' = Of(s)
    BY <1>1, <1>4 DEF Of
  <1>7. index' = [s \in Tenants |-> Of(s)']
    BY <1>6 DEF TypeOK
  <1> QED BY <1>1, <1>4, <1>5, <1>6, <1>7

LEMMA RevokeKeyInv ==
    ASSUME KeysInv, NEW k \in KeyIds, RevokeKey(k)
    PROVE  KeysInv'
  <1> USE KeyAssumption
  <1>0. TypeOK /\ k \in Stored
    BY DEF KeysInv, RevokeKey
  <1>1. /\ Stored' = Stored
        /\ keys' \in [Stored' -> Key]
        /\ \A j \in Stored : /\ keys'[j].tenant = keys[j].tenant
                             /\ keys'[j].expires = keys[j].expires
                             /\ j \notin {k} => keys'[j] = keys[j]
                             /\ j \in {k} => keys'[j].status = "revoked"
        /\ \A s \in Tenants : Of(s)' = Of(s)
        /\ index' = [s \in Tenants |-> Of(s)']
    BY <1>0, RevokedType DEF RevokeKey
  <1>2. /\ promised' = [promised EXCEPT ![k] = Never]
        /\ neglected' = neglected \cup {keys[k].tenant}
        /\ now' = now /\ next' = next /\ condemned' = condemned
    BY DEF RevokeKey
  <1>3. TypeOK'
    <2>1. promised' \in [KeyIds -> Nat \cup {Never}]
      BY <1>0, <1>2 DEF TypeOK
    <2>2. keys[k].tenant \in Tenants
      BY <1>0 DEF TypeOK, Key
    <2> QED BY <1>0, <1>1, <1>2, <2>1, <2>2 DEF TypeOK
  <1>4. Promises'
    <2> SUFFICES ASSUME NEW j \in 1..(next - 1)
                 PROVE  IF j \in Stored' /\ keys'[j].status # "revoked"
                        THEN promised'[j] = Until(keys'[j].expires)
                        ELSE promised'[j] < now'
      BY <1>2 DEF Promises, Until
    <2>0. j \in KeyIds
      BY <1>0 DEF TypeOK, KeyIds
    <2>1. CASE j = k
      BY <2>0, <2>1, <1>0, <1>1, <1>2 DEF TypeOK, Never
    <2>2. CASE j # k
      <3>1. promised'[j] = promised[j]
        BY <2>0, <2>2, <1>0, <1>2 DEF TypeOK
      <3> QED BY <2>2, <3>1, <1>1, <1>2 DEF KeysInv, Promises
    <2> QED BY <2>1, <2>2
  <1>5. GraceBounded' /\ CondemnedEnd'
    BY <1>1, <1>2 DEF KeysInv, GraceBounded, CondemnedEnd
  <1>6. ActiveKept'
    <2> SUFFICES ASSUME NEW s \in Tenants \ neglected', Of(s)' # {}
                 PROVE  \E j \in Of(s)' : IsActive(j)'
      BY DEF ActiveKept
    <2>1. s # keys[k].tenant /\ s \notin neglected
      BY <1>2
    <2>2. PICK j \in Of(s) : IsActive(j)
      BY <1>1, <2>1 DEF KeysInv, ActiveKept
    <2>3. j # k /\ j \in Stored
      BY <2>1, <2>2 DEF Of
    <2> QED BY <1>1, <1>2, <2>2, <2>3 DEF IsActive, IsExpired
  <1> QED BY <1>3, <1>4, <1>5, <1>6 DEF KeysInv

LEMMA RevokeAllInv ==
    ASSUME KeysInv, NEW t \in Tenants, RevokeAll(t)
    PROVE  KeysInv'
  <1> USE KeyAssumption
  <1>0. TypeOK
    BY DEF KeysInv
  <1>1. /\ Stored' = Stored
        /\ keys' \in [Stored' -> Key]
        /\ \A j \in Stored : /\ keys'[j].tenant = keys[j].tenant
                             /\ keys'[j].expires = keys[j].expires
                             /\ j \notin Revocable(t) => keys'[j] = keys[j]
                             /\ j \in Revocable(t) => keys'[j].status = "revoked"
        /\ \A s \in Tenants : Of(s)' = Of(s)
        /\ index' = [s \in Tenants |-> Of(s)']
    BY <1>0, RevokedType DEF RevokeAll
  <1>2. /\ promised' = [k \in KeyIds |-> IF k \in Revocable(t) THEN Never
                                                               ELSE promised[k]]
        /\ condemned' = [k \in DOMAIN condemned \cup Of(t) |->
                           IF k \in Of(t) THEN now ELSE condemned[k]]
        /\ neglected' = neglected \cup {t}
        /\ now' = now /\ next' = next
    BY DEF RevokeAll
  <1>3. /\ index[t] = Of(t)
        /\ Of(t) \subseteq Stored
        /\ Revocable(t) = {k \in Of(t) : keys[k].status = "active"}
    BY <1>0 DEF TypeOK, Revocable, Of
  <1>4. TypeOK'
    <2>1. promised' \in [KeyIds -> Nat \cup {Never}]
      BY <1>0, <1>2 DEF TypeOK
    <2>2. /\ DOMAIN condemned' \subseteq 1..(next' - 1)
          /\ condemned' \in [DOMAIN condemned' -> 0..now']
      <3>1. now \in 0..now
        BY <1>0 DEF TypeOK
      <3> QED BY <1>0, <1>2, <1>3, <3>1 DEF TypeOK
    <2> QED BY <1>0, <1>1, <1>2, <2>1, <2>2 DEF TypeOK
  <1>5. Promises'
    <2> SUFFICES ASSUME NEW j \in 1..(next - 1)
                 PROVE  IF j \in Stored' /\ keys'[j].status # "revoked"
                        THEN promised'[j] = Until(keys'[j].expires)
                        ELSE promised'[j] < now'
      BY <1>2 DEF Promises, Until
    <2>0. j \in KeyIds
      BY <1>0 DEF TypeOK, KeyIds
    <2>1. CASE j \in Revocable(t)
      BY <2>0, <2>1, <1>0, <1>1, <1>2, <1>3 DEF TypeOK, Never
    <2>2. CASE j \notin Revocable(t)
      <3>1. promised'[j] = promised[j]
        BY <2>0, <2>2, <1>2
      <3> QED BY <2>2, <3>1, <1>1, <1>2 DEF KeysInv, Promises
    <2> QED BY <2>1, <2>2
  <1>6. GraceBounded'
    BY <1>1, <1>2 DEF KeysInv, GraceBounded
  <1>7. CondemnedEnd'
    <2> SUFFICES ASSUME NEW k \in DOMAIN condemned', k \in Stored,
                        keys'[k].status # "revoked"
                 PROVE  /\ keys'[k].status = "rotating"
                        /\ keys'[k].expires # Never
                        /\ keys'[k].expires <= condemned'[k] + Grace
      BY <1>1 DEF CondemnedEnd
    <2>1. k \notin Revocable(t) /\ keys'[k] = keys[k]
      BY <1>1
    <2>2. CASE k \in Of(t)
      <3>1. condemned'[k] = now
        BY <2>2, <1>2
      <3>2. keys[k].status = "rotating"
        <4>1. keys[k] \in Key
          BY <1>0 DEF TypeOK
        <4> QED BY <2>1, <2>2, <1>3, <4>1 DEF Key
      <3> QED BY <2>1, <3>1, <3>2 DEF KeysInv, GraceBounded
    <2>3. CASE k \notin Of(t)
      <3>1. k \in DOMAIN condemned /\ condemned'[k] = condemned[k]
        BY <2>3, <1>2
      <3> QED BY <2>1, <3>1 DEF KeysInv, CondemnedEnd
    <2> QED BY <2>2, <2>3
  <1>8. ActiveKept'
    <2> SUFFICES ASSUME NEW s \in Tenants \ neglected', Of(s)' # {}
                 PROVE  \E j \in Of(s)' : IsActive(j)'
      BY DEF ActiveKept
    <2>1. s # t /\ s \notin neglected
      BY <1>2
    <2>2. PICK j \in Of(s) : IsActive(j)
      BY <1>1, <2>1 DEF KeysInv, ActiveKept
    <2>3. j \notin Revocable(t) /\ j \in Stored
      BY <2>1, <2>2, <1>3 DEF Of
    <2> QED BY <1>1, <1>2, <2>2, <2>3 DEF IsActive, IsExpired
  <1> QED BY <1>4, <1>5, <1>6, <1>7, <1>8 DEF KeysInv

LEMMA RotateKeyInv ==
    ASSUME KeysInv, NEW t \in Tenants, NEW old \in KeyIds \cup {NoKey},
           RotateKey(t, old)
    PROVE  KeysInv'
  <1> USE KeyAssumption
  <1>0. TypeOK /\ PolicyExpiry \in Nat \cup {Never}
    BY PolicyExpiryType DEF KeysInv
  <1> DEFINE retired == ToRotate(t, old)
             kept == [k \in Stored |->
                        IF k \in retired
                        THEN [keys[k] EXCEPT !.status = "rotating",
                                             !.expires = now + Grace]
                        ELSE keys[k]]
  <1>a. /\ PolicyExpiry # Never => PolicyExpiry >= now
        /\ Until(PolicyExpiry) \in Nat /\ now + Grace \in Nat
    BY <1>0 DEF PolicyExpiry, Until, Never, TypeOK
  <1>b. \A k \in Stored :
            /\ kept[k] \in Key
            /\ kept[k].tenant = keys[k].tenant
            /\ k \notin retired => kept[k] = keys[k]
            /\ k \in retired => /\ kept[k].status = "rotating"
                                /\ kept[k].expires = now + Grace
    <2> SUFFICES ASSUME NEW k \in Stored
                 PROVE  /\ kept[k] \in Key
                        /\ kept[k].tenant = keys[k].tenant
                        /\ k \notin retired => kept[k] = keys[k]
                        /\ k \in retired => /\ kept[k].status = "rotating"
                                            /\ kept[k].expires = now + Grace
      OBVIOUS
    <2>1. keys[k] \in Key
      BY <1>0 DEF TypeOK
    <2> HIDE DEF retired
    <2> QED BY <2>1, <1>a DEF Key
  <1>c. kept \in [Stored -> Key]
    BY <1>b
  <1>2. /\ Generated(t, PolicyExpiry, kept)
        /\ promised' = [k \in KeyIds |->
                          IF k = next THEN Until(PolicyExpiry)
                          ELSE IF k \in retired THEN now + Grace
                          ELSE promised[k]]
        /\ condemned' = [k \in DOMAIN condemned \ retired |-> condemned[k]]
        /\ neglected' = neglected \cup ({keys[k].tenant : k \in retired} \ {t})
        /\ now' = now
    BY DEF RotateKey
  <1>3. retired \subseteq Stored
    BY DEF ToRotate
  <1> HIDE DEF retired, kept
  <1>1. /\ next' \in 1..(MaxKeys + 1)
        /\ next' = next + 1
        /\ next \in KeyIds /\ next \notin Stored
        /\ Stored' = Stored \cup {next}
        /\ keys' \in [Stored' -> Key]
        /\ keys'[next] = NewKey(t, PolicyExpiry)
        /\ \A k \in Stored : keys'[k] = kept[k]
        /\ index' = [s \in Tenants |-> Of(s)']
        /\ Stored' \subseteq 1..(next' - 1)
    BY <1>0, <1>b, <1>c, <1>2, GeneratedType
  <1>4. /\ keys'[next].status = "active"
        /\ keys'[next].expires = PolicyExpiry
        /\ keys'[next].tenant = t
    BY <1>1 DEF NewKey
  <1>5. TypeOK'
    <2>1. promised' \in [KeyIds -> Nat \cup {Never}]
      BY <1>0, <1>2, <1>a DEF TypeOK
    <2>2. /\ DOMAIN condemned' \subseteq 1..(next' - 1)
          /\ condemned' \in [DOMAIN condemned' -> 0..now']
      BY <1>0, <1>1, <1>2 DEF TypeOK
    <2>3. now' \in 0..MaxTime
      BY <1>0, <1>2 DEF TypeOK
    <2>4. neglected' \subseteq Tenants
      <3>1. \A k \in Stored : keys[k].tenant \in Tenants
        BY <1>0 DEF TypeOK, Key
      <3> QED BY <1>0, <1>2, <1>3, <3>1 DEF TypeOK
    <2> QED BY <1>1, <2>1, <2>2, <2>3, <2>4 DEF TypeOK
  <1>6. Promises'
    <2> SUFFICES ASSUME NEW k \in (1..(next - 1)) \cup {next}
                 PROVE  IF k \in Stored' /\ keys'[k].status # "revoked"
                        THEN promised'[k] = Until(keys'[k].expires)
                        ELSE promised'[k] < now'
      BY <1>0, <1>1 DEF Promises, TypeOK, Until
    <2>1. CASE k = next
      BY <2>1, <1>0, <1>1, <1>2, <1>4 DEF TypeOK
    <2>2. CASE k # next /\ k \in retired
      <3>1. k \in Stored /\ k \in KeyIds
        BY <2>2, <1>0, <1>3 DEF TypeOK, KeyIds
      <3>2. promised'[k] = now + Grace
        BY <2>2, <3>1, <1>2
      <3>3. keys'[k].status = "rotating" /\ keys'[k].expires = now + Grace
        BY <2>2, <3>1, <1>1, <1>b
      <3>4. Until(keys'[k].expires) = now + Grace
        BY <3>3, <1>a DEF Until, Never
      <3> QED BY <1>1, <3>1, <3>2, <3>3, <3>4
    <2>3. CASE k # next /\ k \notin retired
      <3>1. k \in 1..(next - 1) /\ k \in KeyIds
        BY <2>3, <1>0 DEF TypeOK, KeyIds
      <3>2. promised'[k] = promised[k]
        BY <2>3, <3>1, <1>2
      <3>3. k \in Stored' <=> k \in Stored
        BY <2>3, <1>1
      <3>4. k \in Stored => keys'[k] = keys[k]
        BY <2>3, <1>1, <1>b
      <3> QED BY <1>2, <3>1, <3>2, <3>3, <3>4 DEF KeysInv, Promises
    <2> QED BY <2>1, <2>2, <2>3
  <1>7. GraceBounded'
    <2> SUFFICES ASSUME NEW k \in Stored \cup {next},
                        keys'[k].status = "rotating"
                 PROVE  /\ keys'[k].expires # Never
                        /\ keys'[k].expires <= now + Grace
      BY <1>1, <1>2 DEF GraceBounded
    <2>1. k # next
      BY <1>4
    <2>2. CASE k \in retired
      BY <2>1, <2>2, <1>0, <1>1, <1>a, <1>b DEF TypeOK, Never
    <2>3. CASE k \notin retired
      BY <2>1, <2>3, <1>1, <1>b DEF KeysInv, GraceBounded
    <2> QED BY <2>2, <2>3
  <1>8. CondemnedEnd'
    <2> SUFFICES ASSUME NEW k \in DOMAIN condemned', k \in Stored',
                        keys'[k].status # "revoked"
                 PROVE  /\ keys'[k].status = "rotating"
                        /\ keys'[k].expires # Never
                        /\ keys'[k].expires <= condemned'[k] + Grace
      BY DEF CondemnedEnd
    <2>1. k \in DOMAIN condemned /\ k \notin retired
          /\ condemned'[k] = condemned[k]
      BY <1>2
    <2>2. k # next
      BY <2>1, <1>0 DEF TypeOK
    <2>3. k \in Stored /\ keys'[k] = keys[k]
      BY <2>1, <2>2, <1>1, <1>b
    <2> QED BY <2>1, <2>3 DEF KeysInv, CondemnedEnd
  <1>9. ActiveKept'
    <2> SUFFICES ASSUME NEW s \in Tenants \ neglected', Of(s)' # {}
                 PROVE  \E k \in Of(s)' : IsActive(k)'
      BY DEF ActiveKept
    <2>1. CASE s = t
      <3> PICK j \in KeyIds : j = next
        BY <1>1
      <3>1. j \in Of(s)'
        BY <2>1, <1>1, <1>4 DEF Of
      <3>2. IsActive(j)'
        <4>1. ~(now' > PolicyExpiry) \/ PolicyExpiry = Never
          BY <1>0, <1>2, <1>a DEF TypeOK, Never
        <4>2. /\ keys'[j].status = "active" /\ keys'[j].expires = PolicyExpiry
          BY <1>4
        <4> QED BY <4>1, <4>2 DEF IsActive, IsExpired
      <3> QED BY <3>1, <3>2
    <2>2. CASE s # t
      <3>1. Of(s) # {}
        BY <2>2, <1>1, <1>4, <1>b DEF Of
      <3>2. s \notin neglected
        BY <1>2
      <3>3. PICK k \in Of(s) : IsActive(k)
        BY <3>1, <3>2 DEF KeysInv, ActiveKept
      <3>4. k \notin retired
        BY <2>2, <3>3, <1>2 DEF Of
      <3>5. k \in Stored /\ keys'[k] = keys[k]
        BY <3>3, <3>4, <1>1, <1>b DEF Of
      <3>6. k \in Of(s)'
        BY <3>3, <3>5, <1>1 DEF Of
      <3>7. IsActive(k)'
        BY <3>3, <3>5, <1>2 DEF IsActive, IsExpired
      <3> QED BY <3>6, <3>7
    <2> QED BY <2>1, <2>2
  <1> QED BY <1>5, <1>6, <1>7, <1>8, <1>9 DEF KeysInv

LEMMA CleanupInv ==
    ASSUME KeysInv, Cleanup
    PROVE  KeysInv'
  <1> USE KeyAssumption
  <1>0. TypeOK
    BY DEF KeysInv
  <1>1. /\ Stored' = Stored \ Removable
        /\ \A k \in Stored' : k \in Stored /\ keys'[k] = keys[k]
        /\ now' = now /\ next' = next /\ promised' = promised
        /\ condemned' = condemned /\ neglected' = neglected
    BY DEF Cleanup, Stored, past
  <1>2. keys' \in [Stored' -> Key]
    <2>1. keys' = [k \in Stored' |-> keys[k]]
      BY <1>1 DEF Cleanup
    <2>2. \A k \in Stored : keys[k] \in Key
      BY <1>0 DEF TypeOK
    <2> QED BY <1>1, <2>1, <2>2
  <1>3. TypeOK'
    <2>1. \A t \in Tenants : Of(t)' = Of(t) \ Removable
      BY <1>1 DEF Of
    <2>2. index' = [t \in Tenants |-> Of(t)']
      <3>1. index' = [t \in Tenants |-> index[t] \ Removable]
        BY DEF Cleanup
      <3> QED BY <1>0, <2>1, <3>1 DEF TypeOK
    <2> QED BY <1>0, <1>1, <1>2, <2>2 DEF TypeOK
  <1>4. Promises'
    <2> SUFFICES ASSUME NEW k \in 1..(next - 1)
                 PROVE  IF k \in Stored' /\ keys'[k].status # "revoked"
                        THEN promised[k] = Until(keys'[k].expires)
                        ELSE promised[k] < now
      BY <1>1 DEF Promises, Until
    <2>1. CASE k \in Stored' \/ k \notin Stored
      BY <2>1, <1>1 DEF KeysInv, Promises
    <2>2. CASE k \in Stored /\ k \notin Stored'
      <3>1. k \in Removable
        BY <2>2, <1>1
      <3>2. CASE keys[k].status = "revoked"
        BY <2>2, <3>2 DEF KeysInv, Promises
      <3>3. CASE keys[k].status # "revoked"
        <4>1. keys[k].expires # Never /\ now > keys[k].expires
          BY <3>1, <3>3 DEF Removable, IsExpired
        <4>2. promised[k] = keys[k].expires
          BY <2>2, <3>3, <4>1 DEF KeysInv, Promises, Until
        <4>3. keys[k].expires \in Nat /\ now \in Nat
          BY <2>2, <4>1, <1>0 DEF TypeOK, Key
        <4> QED BY <2>2, <4>1, <4>2, <4>3
      <3> QED BY <3>2, <3>3
    <2> QED BY <2>1, <2>2
  <1>5. GraceBounded' /\ CondemnedEnd'
    BY <1>1 DEF KeysInv, GraceBounded, CondemnedEnd
  <1>6. ActiveKept'
    <2> SUFFICES ASSUME NEW s \in Tenants \ neglected, Of(s)' # {}
                 PROVE  \E k \in Of(s)' : IsActive(k)'
      BY <1>1 DEF ActiveKept
    <2>1. Of(s) # {}
      BY <1>1 DEF Of
    <2>2. PICK k \in Of(s) : IsActive(k)
      BY <2>1 DEF KeysInv, ActiveKept
    <2>3. k \notin Removable
      BY <2>2 DEF Removable, IsActive
    <2>4. k \in Stored'
      BY <2>2, <2>3, <1>1 DEF Of
    <2>5. k \in Of(s)'
      BY <2>2, <2>4, <1>1 DEF Of
    <2> QED BY <2>2, <2>4, <2>5, <1>1 DEF IsActive, IsExpired
  <1> QED BY <1>3, <1>4, <1>5, <1>6 DEF KeysInv

LEMMA TickInv ==
    ASSUME KeysInv, Tick
    PROVE  KeysInv'
  <1> USE KeyAssumption
  <1>0. TypeOK
    BY DEF KeysInv
  <1>1. /\ now' = now + 1 /\ now < MaxTime
        /\ neglected' = neglected \cup {keys[k].tenant : k \in NeedsRotation}
        /\ next' = next /\ keys' = keys /\ index' = index
        /\ promised' = promised /\ condemned' = condemned
    BY DEF Tick
  <1>2. Stored' = Stored /\ \A t \in Tenants : Of(t)' = Of(t)
    BY <1>1 DEF Stored, Of
  <1>3. TypeOK'
    <2>1. now' \in 0..MaxTime /\ condemned' \in [DOMAIN condemned' -> 0..now']
      BY <1>0, <1>1 DEF TypeOK
    <2>2. neglected' \subseteq Tenants
      <3>1. \A k \in NeedsRotation : keys[k].tenant \in Tenants
        BY <1>0 DEF TypeOK, NeedsRotation, Key
      <3> QED BY <1>0, <1>1, <3>1 DEF TypeOK
    <2>3. index' = [t \in Tenants |-> Of(t)']
      BY <1>0, <1>1, <1>2 DEF TypeOK
    <2>4. keys' \in [Stored' -> Key]
      BY <1>0, <1>1, <1>2 DEF TypeOK
    <2> QED BY <1>0, <1>1, <1>2, <2>1, <2>2, <2>3, <2>4 DEF TypeOK
  <1>4. Promises'
    <2>1. \A k \in 1..(next - 1) : promised[k] \in Int
      BY <1>0 DEF TypeOK, KeyIds, Never
    <2>2. \A k \in 1..(next - 1) : promised[k] < now => promised[k] < now + 1
      BY <2>1, <1>0 DEF TypeOK
    <2> QED BY <2>2, <1>1, <1>2 DEF KeysInv, Promises, Until
  <1>5. GraceBounded'
    <2>1. \A k \in Stored : keys[k].expires \in Int
      BY <1>0 DEF TypeOK, Key, Never
    <2>2. now + Grace <= now' + Grace /\ now + Grace \in Int /\ now' + Grace \in Int
      BY <1>0, <1>1 DEF TypeOK
    <2>3. \A k \in Stored : keys[k].expires <= now + Grace
                              => keys[k].expires <= now' + Grace
      BY <2>1, <2>2
    <2> QED BY <2>3, <1>1, <1>2 DEF KeysInv, GraceBounded
  <1>6. CondemnedEnd'
    BY <1>1, <1>2 DEF KeysInv, CondemnedEnd
  <1>7. ActiveKept'
    <2> SUFFICES ASSUME NEW s \in Tenants \ neglected', Of(s) # {}
                 PROVE  \E k \in Of(s) : IsActive(k)'
      BY <1>1, <1>2 DEF ActiveKept
    <2>1. PICK k \in Of(s) : IsActive(k)
      BY <1>1 DEF KeysInv, ActiveKept
    <2>2. k \in Stored /\ keys[k].tenant = s /\ keys[k].status = "active"
      BY <2>1 DEF Of, IsActive
    <2>3. k \notin NeedsRotation
      BY <2>2, <1>1
    <2>4. keys[k].expires = Never \/ ~(keys[k].expires - now <= Notice)
      BY <2>2, <2>3 DEF NeedsRotation
    <2>5. CASE keys[k].expires = Never
      BY <2>2, <2>5, <1>1, <2>1 DEF IsActive, IsExpired
    <2>6. CASE keys[k].expires # Never
      <3>1. keys[k].expires \in Nat /\ now \in Nat
        BY <2>2, <2>6, <1>0 DEF TypeOK, Key
      <3>2. ~(now + 1 > keys[k].expires)
        BY <2>4, <2>6, <3>1
      <3> QED BY <2>1, <2>2, <3>2, <1>1 DEF IsActive, IsExpired
    <2> QED BY <2>5, <2>6
  <1> QED BY <1>3, <1>4, <1>5, <1>6, <1>7 DEF KeysInv

LEMMA Invariance == Spec => []KeysInv
  <1>1. ASSUME KeysInv, [Next]_vars
        PROVE  KeysInv'
    <2>1. ASSUME NEW t \in Tenants, GenerateKey(t)
          PROVE  KeysInv'
      BY <1>1, <2>1, GenerateKeyInv
    <2>2. ASSUME NEW t \in Tenants, RevokeAll(t)
          PROVE  KeysInv'
      BY <1>1, <2>2, RevokeAllInv
    <2>3. ASSUME NEW t \in Tenants, NEW old \in KeyIds \cup {NoKey},
                 RotateKey(t, old)
          PROVE  KeysInv'
      BY <1>1, <2>3, RotateKeyInv
    <2>4. ASSUME NEW k \in KeyIds, RevokeKey(k)
          PROVE  KeysInv'
      BY <1>1, <2>4, RevokeKeyInv
    <2>5. CASE Cleanup
      BY <1>1, <2>5, CleanupInv
    <2>6. CASE Tick
      BY <1>1, <2>6, TickInv
    <2>7. CASE UNCHANGED vars
      BY <1>1, <2>7
         DEF vars, past, KeysInv, TypeOK, Promises, GraceBounded,
             CondemnedEnd, ActiveKept, Stored, Of, Until, IsActive, IsExpired
    <2> QED BY <1>1, <2>1, <2>2, <2>3, <2>4, <2>5, <2>6, <2>7 DEF Next
  <1> QED BY <1>1, InitInv, PTL DEF Spec

\* The table of keys and the lists of the tenants always agree
\* (generate_key, cleanup_expired_keys).
THEOREM TypeCorrect == Spec => []TypeOK
  <1>1. KeysInv => TypeOK
    BY DEF KeysInv
  <1> QED BY <1>1, Invariance, PTL

\* validate_key accepts a key exactly as long as generate_key, or the last
\* rotate_key that named it, promised.
THEOREM PromisesKept == Spec => []ValidAsPromised
  <1>1. KeysInv => ValidAsPromised
    <2> SUFFICES ASSUME KeysInv, NEW k \in 1..(next - 1)
                 PROVE  Valid(k) <=> now <= promised[k]
      BY DEF ValidAsPromised
    <2>0. /\ TypeOK /\ now \in Nat /\ now <= MaxTime
          /\ promised[k] \in Int
      <3>1. TypeOK
        BY DEF KeysInv
      <3>2. k \in KeyIds
        BY <3>1, KeyAssumption DEF TypeOK, KeyIds
      <3>3. promised[k] \in Int
        BY <3>1, <3>2 DEF TypeOK, Never
      <3>4. now \in Nat /\ now <= MaxTime
        BY <3>1, KeyAssumption DEF TypeOK
      <3> QED BY <3>1, <3>3, <3>4
    <2>1. CASE k \in Stored /\ keys[k].status # "revoked"
      <3>1. promised[k] = Until(keys[k].expires)
        BY <2>1 DEF KeysInv, Promises
      <3>2. keys[k].expires \in Nat \cup {Never}
        BY <2>0, <2>1 DEF TypeOK, Key
      <3>3. CASE keys[k].expires = Never
        BY <2>0, <2>1, <3>1, <3>3 DEF Valid, IsExpired, Until
      <3>4. CASE keys[k].expires # Never
        BY <2>0, <2>1, <3>1, <3>2, <3>4 DEF Valid, IsExpired, Until
      <3> QED BY <3>3, <3>4
    <2>2. CASE ~(k \in Stored /\ keys[k].status # "revoked")
      <3>1. promised[k] < now
        BY <2>2 DEF KeysInv, Promises
      <3>2. ~(now <= promised[k])
        BY <2>0, <3>1
      <3> QED BY <2>2, <3>2 DEF Valid
    <2> QED BY <2>1, <2>2
  <1> QED BY <1>1, Invariance, PTL

\* What revoke_all_tenant_keys passes over ends with its grace period.
THEOREM RevocationReaches == Spec => []RevokeAllEnds
  <1>1. KeysInv => RevokeAllEnds
    <2> SUFFICES ASSUME KeysInv, NEW k \in DOMAIN condemned,
                        now > condemned[k] + Grace, Valid(k)
                 PROVE  FALSE
      BY DEF RevokeAllEnds
    <2>1. k \in Stored /\ keys[k].status # "revoked" /\ ~IsExpired(k)
      BY DEF Valid
    <2>2. keys[k].expires # Never /\ keys[k].expires <= condemned[k] + Grace
      BY <2>1 DEF KeysInv, CondemnedEnd
    <2>3. ~(now > keys[k].expires)
      BY <2>1, <2>2 DEF IsExpired
    <2>4. keys[k].expires \in Int
      BY <2>1 DEF KeysInv, TypeOK, Key, Never
    <2>5. now \in Int /\ condemned[k] + Grace \in Int
      BY KeyAssumption DEF KeysInv, TypeOK
    <2> QED BY <2>2, <2>3, <2>4, <2>5
  <1> QED BY <1>1, Invariance, PTL

\* A tenant whose keys are rotated when check_rotation_needed says so is never
\* without an active key.
THEOREM RotationInTime == Spec => []ActiveKept
  <1>1. KeysInv => ActiveKept
    BY DEF KeysInv
  <1> QED BY <1>1, Invariance, PTL
=============================================================================
