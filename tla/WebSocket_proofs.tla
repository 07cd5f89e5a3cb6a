--------------------------- MODULE WebSocket_proofs ---------------------------
(***************************************************************************)
(* Proofs about module WebSocket, for any number of connections, tenants   *)
(* and streams, and for any chunk size.                                    *)
(***************************************************************************)
EXTENDS WebSocket, TLAPS, FiniteSetTheorems

USE WebSocketAssumption

-----------------------------------------------------------------------------
(* The inductive invariant, sorted by what it is about.                    *)

ConnTypes ==
    /\ clock \in 0..MaxClock
    /\ table \in SUBSET Connections /\ streaming \in SUBSET Connections
    /\ gone \in SUBSET Connections
    /\ state \in [Connections -> ActiveStates \cup {"new", "closed"}]
    /\ tenant \in [Connections -> Tenants]
    /\ lastActivity \in [Connections -> 0..MaxClock]

\* The table holds the active connections, within the limit of each tenant.
TableOK ==
    /\ table = {c \in Connections : state[c] \in ActiveStates}
    /\ \A t \in Tenants : Cardinality(Held(t)) <= MaxConnections

\* What on_disconnect was called for is closed and no longer streams.
GoneOK == \A c \in gone : state[c] = "closed" /\ c \notin streaming

ConnInv == ConnTypes /\ TableOK /\ GoneOK

StreamTypes ==
    /\ pc \in [Streams -> Labels]
    /\ conn \in [Streams -> Connections \cup {NoConnection}]
    /\ \A g \in Streams : pc[g] \notin Ended => conn[g] \in Connections
    /\ buffer \in [Streams -> 0..(ChunkSize - 1)]
    /\ total \in [Streams -> 0..MaxTokens]
    /\ yielded \in [Streams -> 0..MaxTokens]
    /\ cut \in [Streams -> BOOLEAN] /\ failed \in [Streams -> BOOLEAN]

\* Every token that was taken is in a frame or in the buffer until the source
\* fails or the stream is given up.
Account(g) ==
    /\ yielded[g] <= total[g]
    /\ pc[g] \in {"idle", "starting", "started"} =>
          yielded[g] = 0 /\ total[g] = 0 /\ buffer[g] = 0
    /\ pc[g] \in {"waiting", "yielded"} => yielded[g] + buffer[g] = total[g]
    /\ pc[g] = "flushed" => yielded[g] = total[g]
    /\ pc[g] = "error" => failed[g]
    /\ pc[g] = "ended" /\ ~failed[g] => yielded[g] = total[g]

StreamInv == StreamTypes /\ \A g \in Streams : Account(g)

CrossedType == crossed \in [Streams -> BOOLEAN]

Running == InTry \cup {"starting", "started"}

\* Why a stream may be unregistered before its own finally clause.
Excused(g) == state[conn[g]] = "closed" \/ crossed[g]

\* Until its finally clause a stream is registered or excused, and what was cut
\* is excused.
CutInv ==
    \A g \in Streams :
       /\ pc[g] \in Running => Excused(g) \/ conn[g] \in streaming
       /\ cut[g] => pc[g] # "idle" /\ conn[g] \in Connections /\ Excused(g)

-----------------------------------------------------------------------------
(* The connections.                                                        *)

LEMMA InitConn == Init => ConnInv
<1> SUFFICES ASSUME Init PROVE ConnInv
  OBVIOUS
<1>1. ConnTypes
  BY DEF Init, ConnTypes
<1>2. table = {c \in Connections : state[c] \in ActiveStates}
  BY DEF Init, ActiveStates
<1>3. ASSUME NEW t \in Tenants PROVE Cardinality(Held(t)) <= MaxConnections
  <2>1. Held(t) = {}
    BY DEF Init, Held
  <2>2. QED
    BY <2>1, FS_EmptySet
<1>4. QED
  BY <1>1, <1>2, <1>3 DEF ConnInv, TableOK, GoneOK, Init

\* A connection closes, or nothing changes: no tenant holds more than before.
LEMMA FewerHeld ==
  ASSUME ConnTypes, TableOK, ConnTypes',
         table' = {c \in Connections : state'[c] \in ActiveStates},
         table' \subseteq table, tenant' = tenant
  PROVE  TableOK'
<1>1. ASSUME NEW t \in Tenants PROVE Cardinality(Held(t)') <= MaxConnections
  <2>1. Held(t)' \subseteq Held(t)
    BY DEF Held, TableOK
  <2>2. IsFiniteSet(Held(t))
    BY FS_Subset DEF Held, ConnTypes
  <2>3. /\ Cardinality(Held(t)') <= Cardinality(Held(t))
        /\ Cardinality(Held(t)') \in Nat /\ Cardinality(Held(t)) \in Nat
    BY <2>1, <2>2, FS_Subset, FS_CardinalityType
  <2>4. Cardinality(Held(t)) <= MaxConnections
    BY DEF TableOK
  <2>5. QED
    BY <2>3, <2>4
<1>2. QED
  BY <1>1 DEF TableOK

\* The finally clause does not open or close a connection.
LEMMA FinallyKeeps ==
  ASSUME ConnInv, NEW g \in Streams, conn[g] \in Connections, Finally(g),
         UNCHANGED <<clock, table, tenant, lastActivity, gone>>
  PROVE  ConnInv'
<1>1. \/ state' = state
      \/ /\ state[conn[g]] \in ActiveStates
         /\ state' = [state EXCEPT ![conn[g]] = "connected"]
  BY DEF Finally
<1>2. ConnTypes'
  <2>1. streaming' \in SUBSET Connections
    BY DEF Finally, Unregister, ConnInv, ConnTypes
  <2>2. state' \in [Connections -> ActiveStates \cup {"new", "closed"}]
    BY <1>1 DEF ConnInv, ConnTypes, ActiveStates
  <2>3. QED
    BY <2>1, <2>2 DEF ConnInv, ConnTypes
<1>3. \A c \in Connections : state'[c] \in ActiveStates <=> state[c] \in ActiveStates
  BY <1>1 DEF ConnInv, ConnTypes, ActiveStates
<1>4. TableOK'
  BY <1>2, <1>3, FewerHeld DEF ConnInv, TableOK
<1>5. GoneOK'
  <2>1. ASSUME NEW c \in gone PROVE state'[c] = "closed" /\ c \notin streaming'
    <3>1. c \in Connections /\ state[c] = "closed" /\ c \notin streaming
      BY <2>1 DEF ConnInv, ConnTypes, GoneOK
    <3>2. c \notin streaming'
      BY <3>1 DEF Finally, Unregister
    <3>3. state'[c] = "closed"
      BY <1>1, <3>1 DEF ConnInv, ConnTypes, ActiveStates
    <3>4. QED
      BY <3>2, <3>3
  <2>2. QED
    BY <2>1 DEF GoneOK
<1>6. QED
  BY <1>2, <1>4, <1>5 DEF ConnInv

\* on_connect: one more connection of its tenant, and the stale ones go.
LEMMA ConnectKeeps ==
  ASSUME ConnInv, NEW c \in Connections, OnConnect(c)
  PROVE  ConnInv'
<1> DEFINE stale == {d \in table : Stale(d)}
<1>1. /\ state[c] = "new" /\ Cardinality(Held(tenant[c])) < MaxConnections
      /\ table' = (table \cup {c}) \ stale
      /\ state' = [d \in Connections |->
                     CASE d = c -> "connected"
                       [] d # c /\ d \in stale -> "closed"
                       [] OTHER -> state[d]]
      /\ lastActivity' = [lastActivity EXCEPT ![c] = clock]
      /\ UNCHANGED <<clock, tenant, streaming, gone>>
  BY DEF OnConnect
<1>2. stale \subseteq table
  OBVIOUS
<1> HIDE DEF stale
<1>3. /\ \A d \in Connections : d \in table <=> state[d] \in ActiveStates
      /\ c \notin table /\ c \notin stale
  BY <1>1, <1>2 DEF ConnInv, TableOK, ActiveStates
<1>4. /\ state'[c] = "connected"
      /\ \A d \in Connections : d # c =>
            state'[d] = IF d \in stale THEN "closed" ELSE state[d]
      /\ state' \in [Connections -> ActiveStates \cup {"new", "closed"}]
  BY <1>1 DEF ConnInv, ConnTypes, ActiveStates
<1>5. ConnTypes'
  BY <1>1, <1>4 DEF ConnInv, ConnTypes
<1>6. table' = {d \in Connections : state'[d] \in ActiveStates}
  BY <1>1, <1>3, <1>4 DEF ActiveStates, ConnInv, ConnTypes
<1>7. ASSUME NEW t \in Tenants PROVE Cardinality(Held(t)') <= MaxConnections
  <2>1. Held(t)' \subseteq IF t = tenant[c] THEN Held(t) \cup {c} ELSE Held(t)
    BY <1>1, <1>3, <1>6 DEF Held
  <2>2. IsFiniteSet(Held(t)) /\ Cardinality(Held(t)) \in Nat
    BY FS_Subset, FS_CardinalityType DEF Held, ConnInv, ConnTypes
  <2>3. CASE t = tenant[c]
    <3>1. /\ IsFiniteSet(Held(t) \cup {c})
          /\ Cardinality(Held(t) \cup {c}) \in Nat
          /\ Cardinality(Held(t) \cup {c}) <= Cardinality(Held(t)) + 1
      <4>1. c \notin Held(t)
        BY <1>3 DEF Held
      <4> DEFINE H == Held(t)
      <4>2. IsFiniteSet(H) /\ c \notin H /\ Cardinality(H) \in Nat
        BY <2>2, <4>1
      <4> HIDE DEF H
      <4>3. IsFiniteSet(H \cup {c}) /\ Cardinality(H \cup {c}) = Cardinality(H) + 1
        BY <4>2, FS_AddElement
      <4>4. QED
        BY <4>2, <4>3 DEF H
    <3>2. Cardinality(Held(t)') <= Cardinality(Held(t) \cup {c})
          /\ Cardinality(Held(t)') \in Nat
      BY <2>1, <2>3, <3>1, FS_Subset, FS_CardinalityType
    <3>3. Cardinality(Held(t)) + 1 <= MaxConnections
      BY <1>1, <2>2, <2>3
    <3>4. QED
      BY <2>2, <3>1, <3>2, <3>3
  <2>4. CASE t # tenant[c]
    <3>1. Cardinality(Held(t)') <= Cardinality(Held(t))
          /\ Cardinality(Held(t)') \in Nat
      BY <2>1, <2>2, <2>4, FS_Subset, FS_CardinalityType
    <3>2. Cardinality(Held(t)) <= MaxConnections
      BY DEF ConnInv, TableOK
    <3>3. QED
      BY <2>2, <3>1, <3>2
  <2>5. QED
    BY <2>3, <2>4
<1>8. GoneOK'
  <2>1. ASSUME NEW d \in gone PROVE state'[d] = "closed" /\ d \notin streaming'
    <3>1. d \in Connections /\ state[d] = "closed" /\ d \notin streaming
      BY <2>1 DEF ConnInv, ConnTypes, GoneOK
    <3>2. d # c
      BY <1>1, <3>1
    <3>3. QED
      BY <1>1, <1>4, <3>1, <3>2
  <2>2. QED
    BY <1>1, <2>1 DEF GoneOK
<1>9. QED
  BY <1>5, <1>6, <1>7, <1>8 DEF ConnInv, TableOK

LEMMA ConnStep == ConnInv /\ StreamTypes /\ [Next]_vars => ConnInv'
<1> SUFFICES ASSUME ConnInv, StreamTypes, [Next]_vars PROVE ConnInv'
  OBVIOUS
<1> USE DEF ConnInv
<1>0. ASSUME NEW g \in Streams, pc[g] \notin Ended PROVE conn[g] \in Connections
  BY <1>0 DEF StreamTypes
\* Steps that leave the table, the states and _active_streams alone.
<1>1. ASSUME UNCHANGED <<table, state, tenant, streaming, gone>>, ConnTypes'
      PROVE  ConnInv'
  <2>1. TableOK'
    BY <1>1, FewerHeld DEF TableOK
  <2>2. GoneOK'
    BY <1>1 DEF GoneOK
  <2>3. QED
    BY <1>1, <2>1, <2>2
<1>2. ASSUME UNCHANGED <<clock, connection, streaming, gone>> PROVE ConnInv'
  BY <1>1, <1>2 DEF connection, ConnTypes
<1>3. ASSUME NEW c \in Connections, OnDisconnect(c) PROVE ConnInv'
  <2>1. /\ table' = table \ {c} /\ streaming' = streaming \ {c}
        /\ state' = [state EXCEPT ![c] = "closed"] /\ gone' = gone \cup {c}
        /\ UNCHANGED <<clock, tenant, lastActivity>>
    BY <1>3 DEF OnDisconnect
  <2>2. ConnTypes'
    BY <2>1 DEF ConnTypes
  <2>3. table' = {d \in Connections : state'[d] \in ActiveStates}
    BY <2>1 DEF ConnTypes, TableOK, ActiveStates
  <2>4. TableOK'
    BY <2>1, <2>2, <2>3, FewerHeld
  <2>5. GoneOK'
    BY <2>1 DEF GoneOK, ConnTypes
  <2>6. QED
    BY <2>2, <2>4, <2>5
<1>4. ASSUME NEW c \in Connections, OnDisconnectLate(c) PROVE ConnInv'
  <2>1. /\ state[c] = "closed" /\ streaming' = streaming \ {c}
        /\ gone' = gone \cup {c} /\ UNCHANGED <<clock, connection>>
    BY <1>4 DEF OnDisconnectLate
  <2>2. ConnTypes'
    BY <2>1 DEF ConnTypes, connection
  <2>3. TableOK'
    BY <2>1, <2>2, FewerHeld DEF TableOK, connection
  <2>4. GoneOK'
    BY <2>1 DEF GoneOK, connection
  <2>5. QED
    BY <2>2, <2>3, <2>4
<1>5. ASSUME NEW c \in Connections, Activity(c) PROVE ConnInv'
  BY <1>1, <1>5 DEF Activity, ConnTypes
<1>6. ASSUME NEW c \in Connections, NEW g \in Streams, StreamTokens(g, c)
      PROVE  ConnInv'
  <2>1. /\ c \in table /\ state' = [state EXCEPT ![c] = "streaming"]
        /\ streaming' = streaming \cup {c}
        /\ UNCHANGED <<clock, table, tenant, lastActivity, gone>>
    BY <1>6 DEF StreamTokens
  <2>2. state[c] \in ActiveStates
    BY <2>1 DEF TableOK
  <2>3. ConnTypes'
    BY <2>1 DEF ConnTypes, ActiveStates
  <2>4. TableOK'
    <3>1. \A d \in Connections : state'[d] \in ActiveStates
                                   <=> state[d] \in ActiveStates
      BY <2>1, <2>2 DEF ConnTypes, ActiveStates
    <3>2. QED
      BY <2>1, <2>3, <3>1, FewerHeld DEF TableOK
  <2>5. GoneOK'
    <3>1. c \notin gone
      BY <2>2 DEF GoneOK, ActiveStates
    <3>2. QED
      BY <2>1, <3>1 DEF GoneOK, ConnTypes
  <2>6. QED
    BY <2>3, <2>4, <2>5
<1>7. ASSUME NEW g \in Streams,
             StreamNowhere(g) \/ StreamStart(g) \/ TakeToken(g)
               \/ SourceFails(g) \/ Exhaust(g)
      PROVE  ConnInv'
  BY <1>2, <1>7 DEF StreamNowhere, StreamStart, TakeToken, SourceFails, Exhaust
<1>8. ASSUME NEW g \in Streams, pc[g] \notin Ended, LeaveLoop(g),
             UNCHANGED <<clock, table, tenant, lastActivity, gone>>
      PROVE  ConnInv'
  <2>1. Finally(g) \/ UNCHANGED <<state, streaming>>
    BY <1>8 DEF LeaveLoop
  <2>2. QED
    BY <1>0, <1>2, <1>8, <2>1, FinallyKeeps DEF connection
<1>9. ASSUME NEW g \in Streams, BreakOff(g) \/ SourceEnds(g) PROVE ConnInv'
  BY <1>8, <1>9 DEF BreakOff, SourceEnds, Ended
<1>10. ASSUME NEW g \in Streams, Resume(g) PROVE ConnInv'
  <2>1. conn[g] \in Connections
    BY <1>0, <1>10 DEF Resume, Ended
  <2>2. ConnTypes'
    BY <1>10, <2>1 DEF Resume, ConnTypes
  <2>3. QED
    BY <1>1, <1>10, <2>2 DEF Resume
<1>11. ASSUME NEW g \in Streams, StreamEnd(g) PROVE ConnInv'
  BY <1>0, <1>11, FinallyKeeps DEF StreamEnd, Ended
<1>12. ASSUME NEW g \in Streams, Abandon(g) PROVE ConnInv'
  <2>1. Finally(g) \/ UNCHANGED <<state, streaming>>
    BY <1>12 DEF Abandon
  <2>2. QED
    BY <1>0, <1>2, <1>12, <2>1, FinallyKeeps DEF Abandon, connection
<1>13. CASE Tick
  BY <1>1, <1>13 DEF Tick, ConnTypes, connection
<1>14. CASE UNCHANGED vars
  BY <1>2, <1>14 DEF vars
<1>15. QED
  BY <1>3, <1>4, <1>5, <1>6, <1>7, <1>9, <1>10, <1>11, <1>12, <1>13, <1>14,
     ConnectKeeps DEF Next

-----------------------------------------------------------------------------
(* The streams.                                                            *)

LEMMA InitStreams == Init => StreamInv
  BY DEF Init, StreamInv, StreamTypes, Account, Ended, Labels

\* The tokens of the other streams, and of a stream whose counters stay, are
\* accounted for as before.
LEMMA OneStream ==
  ASSUME StreamInv, NEW g \in Streams, StreamTypes', Account(g)',
         \A h \in Streams \ {g} :
            /\ pc'[h] = pc[h] /\ buffer'[h] = buffer[h] /\ total'[h] = total[h]
            /\ yielded'[h] = yielded[h] /\ failed'[h] = failed[h]
  PROVE  StreamInv'
<1>1. ASSUME NEW h \in Streams PROVE Account(h)'
  <2>1. CASE h = g
    BY <2>1
  <2>2. CASE h # g
    <3>1. Account(h)
      BY DEF StreamInv
    <3>2. QED
      BY <2>2, <3>1 DEF Account
  <2>3. QED
    BY <2>1, <2>2
<1>2. QED
  BY <1>1 DEF StreamInv

\* A stream moves on without touching a token.
LEMMA MoveOn ==
  ASSUME StreamInv, NEW g \in Streams, NEW label \in Labels, Goto(g, label),
         conn' \in [Streams -> Connections \cup {NoConnection}],
         label \notin Ended => conn'[g] \in Connections,
         \A h \in Streams \ {g} : conn'[h] = conn[h],
         UNCHANGED <<buffer, total, yielded, cut, failed>>,
         Account(g)'
  PROVE  StreamInv'
<1>1. /\ pc'[g] = label /\ pc' \in [Streams -> Labels]
      /\ \A h \in Streams \ {g} : pc'[h] = pc[h]
  BY DEF Goto, StreamInv, StreamTypes
<1>2. \A h \in Streams : pc'[h] \notin Ended => conn'[h] \in Connections
  BY <1>1 DEF StreamInv, StreamTypes
<1>3. /\ buffer' \in [Streams -> 0..(ChunkSize - 1)]
      /\ total' \in [Streams -> 0..MaxTokens]
      /\ yielded' \in [Streams -> 0..MaxTokens]
  BY DEF StreamInv, StreamTypes
<1>4. cut' \in [Streams -> BOOLEAN] /\ failed' \in [Streams -> BOOLEAN]
  BY DEF StreamInv, StreamTypes
<1>5. StreamTypes'
  BY <1>1, <1>2, <1>3, <1>4 DEF StreamTypes
<1>6. QED
  BY <1>1, <1>5, OneStream

LEMMA LeaveLoopKeeps ==
  ASSUME StreamInv, NEW g \in Streams, pc[g] = "waiting", LeaveLoop(g),
         cut' \in [Streams -> BOOLEAN], UNCHANGED <<conn, buffer, total, failed>>
  PROVE  StreamInv'
<1>1. /\ Account(g) /\ buffer[g] \in Nat /\ total[g] \in 0..MaxTokens
      /\ yielded[g] \in 0..MaxTokens /\ conn[g] \in Connections
  BY DEF StreamInv, StreamTypes, Ended
<1>2. yielded[g] + buffer[g] = total[g]
  BY <1>1 DEF Account
<1>3. CASE buffer[g] > 0
  <2>1. /\ yielded' = [yielded EXCEPT ![g] = @ + buffer[g]]
        /\ pc' = [pc EXCEPT ![g] = "flushed"]
    BY <1>3 DEF LeaveLoop, Goto
  <2>2. /\ yielded'[g] = total[g] /\ pc'[g] = "flushed"
        /\ \A h \in Streams \ {g} : yielded'[h] = yielded[h] /\ pc'[h] = pc[h]
    BY <1>1, <1>2, <2>1 DEF StreamInv, StreamTypes
  <2>3. /\ yielded' \in [Streams -> 0..MaxTokens]
        /\ pc' \in [Streams -> Labels]
    BY <1>1, <1>2, <2>1 DEF StreamInv, StreamTypes, Labels, InTry
  <2>4. StreamTypes'
    BY <1>1, <2>2, <2>3 DEF StreamInv, StreamTypes
  <2>5. Account(g)'
    BY <1>1, <2>2 DEF Account
  <2>6. QED
    BY <2>2, <2>4, <2>5, OneStream
<1>4. CASE ~(buffer[g] > 0)
  <2>1. pc' = [pc EXCEPT ![g] = "ended"] /\ yielded' = yielded
    BY <1>4 DEF LeaveLoop, Goto
  <2>2. /\ pc'[g] = "ended" /\ pc' \in [Streams -> Labels]
        /\ \A h \in Streams \ {g} : pc'[h] = pc[h]
    BY <2>1 DEF StreamInv, StreamTypes, Labels
  <2>3. StreamTypes'
    BY <1>1, <2>1, <2>2 DEF StreamInv, StreamTypes
  <2>4. yielded[g] = total[g]
    BY <1>1, <1>2, <1>4
  <2>5. Account(g)'
    BY <1>1, <2>1, <2>2, <2>4 DEF Account
  <2>6. QED
    BY <2>1, <2>2, <2>3, <2>5, OneStream
<1>5. QED
  BY <1>3, <1>4

LEMMA TakeTokenKeeps ==
  ASSUME StreamInv, NEW g \in Streams, TakeToken(g)
  PROVE  StreamInv'
<1>1. /\ Account(g) /\ buffer[g] \in 0..(ChunkSize - 1)
      /\ total[g] \in 0..MaxTokens /\ yielded[g] \in 0..MaxTokens
      /\ conn[g] \in Connections /\ pc[g] = "waiting" /\ total[g] < MaxTokens
  BY DEF StreamInv, StreamTypes, Ended, TakeToken
<1>2. yielded[g] + buffer[g] = total[g]
  BY <1>1 DEF Account
<1>3. /\ total' = [total EXCEPT ![g] = @ + 1] /\ UNCHANGED <<conn, cut, failed>>
      /\ total' \in [Streams -> 0..MaxTokens] /\ total'[g] = total[g] + 1
      /\ \A h \in Streams \ {g} : total'[h] = total[h]
  BY <1>1 DEF TakeToken, StreamInv, StreamTypes
<1>4. CASE buffer[g] + 1 >= ChunkSize
  <2>1. /\ yielded' = [yielded EXCEPT ![g] = @ + buffer[g] + 1]
        /\ buffer' = [buffer EXCEPT ![g] = 0]
        /\ pc' = [pc EXCEPT ![g] = "yielded"]
    BY <1>4 DEF TakeToken, Goto
  <2>2. /\ yielded'[g] = total[g] + 1 /\ buffer'[g] = 0 /\ pc'[g] = "yielded"
        /\ \A h \in Streams \ {g} : /\ yielded'[h] = yielded[h]
                                    /\ buffer'[h] = buffer[h] /\ pc'[h] = pc[h]
    BY <1>1, <1>2, <2>1 DEF StreamInv, StreamTypes
  <2>3. total[g] + 1 \in 0..MaxTokens
    BY <1>1
  <2>4. yielded' \in [Streams -> 0..MaxTokens]
    BY <2>1, <2>2, <2>3 DEF StreamInv, StreamTypes
  <2>5. /\ buffer' \in [Streams -> 0..(ChunkSize - 1)]
        /\ pc' \in [Streams -> Labels]
    BY <2>1 DEF StreamInv, StreamTypes, Labels, InTry
  <2>6. StreamTypes'
    BY <1>1, <1>3, <2>2, <2>4, <2>5 DEF StreamInv, StreamTypes
  <2>7. Account(g)'
    BY <1>1, <1>3, <2>2 DEF Account
  <2>8. QED
    BY <1>3, <2>2, <2>6, <2>7, OneStream
<1>5. CASE ~(buffer[g] + 1 >= ChunkSize)
  <2>1. buffer' = [buffer EXCEPT ![g] = @ + 1] /\ UNCHANGED <<yielded, pc>>
    BY <1>5 DEF TakeToken
  <2>2. /\ buffer'[g] = buffer[g] + 1
        /\ \A h \in Streams \ {g} : buffer'[h] = buffer[h]
    BY <2>1 DEF StreamInv, StreamTypes
  <2>3. buffer[g] + 1 \in 0..(ChunkSize - 1)
    BY <1>1, <1>5
  <2>4. buffer' \in [Streams -> 0..(ChunkSize - 1)]
    BY <2>1, <2>3 DEF StreamInv, StreamTypes
  <2>5. StreamTypes'
    BY <1>3, <2>1, <2>4 DEF StreamInv, StreamTypes
  <2>6. Account(g)'
    BY <1>1, <1>2, <1>3, <2>1, <2>2 DEF Account
  <2>7. QED
    BY <1>3, <2>1, <2>2, <2>5, <2>6, OneStream
<1>6. QED
  BY <1>4, <1>5

LEMMA StreamStep == StreamInv /\ ConnTypes /\ [Next]_vars => StreamInv'
<1> SUFFICES ASSUME StreamInv, ConnTypes, [Next]_vars PROVE StreamInv'
  OBVIOUS
<1>0. StreamTypes /\ \A g \in Streams : Account(g)
  BY DEF StreamInv
<1>a. \A g \in Streams : pc[g] \notin Ended => conn[g] \in Connections
  BY <1>0 DEF StreamTypes
<1>1. ASSUME UNCHANGED stream PROVE StreamInv'
  BY <1>0, <1>1 DEF stream, StreamInv, StreamTypes, Account
<1>2. ASSUME NEW c \in Connections,
             OnConnect(c) \/ OnDisconnect(c) \/ OnDisconnectLate(c) \/ Activity(c)
      PROVE  StreamInv'
  BY <1>1, <1>2 DEF OnConnect, OnDisconnect, OnDisconnectLate, Activity
\* A stream that is under way moves on without a token.
<1>3. ASSUME NEW g \in Streams, NEW label \in Labels, Goto(g, label),
             label \notin Ended => pc[g] \notin Ended,
             UNCHANGED <<conn, buffer, total, yielded, cut, failed>>, Account(g)'
      PROVE  StreamInv'
  BY <1>0, <1>3, <1>a, MoveOn DEF StreamTypes
<1>4. ASSUME NEW g \in Streams, NEW label \in Labels, Goto(g, label)
      PROVE  pc'[g] = label
  BY <1>0, <1>4 DEF Goto, StreamTypes
<1>5. ASSUME NEW g \in Streams, NEW c \in Connections, StreamTokens(g, c)
      PROVE  StreamInv'
  <2>1. /\ pc[g] = "idle" /\ conn' = [conn EXCEPT ![g] = c]
        /\ Goto(g, "starting")
        /\ UNCHANGED <<buffer, total, yielded, cut, failed>>
    BY <1>5 DEF StreamTokens
  <2>2. "starting" \in Labels
    BY DEF Labels
  <2>3. Account(g)'
    BY <1>0, <1>4, <2>1, <2>2 DEF Account
  <2>4. /\ conn' \in [Streams -> Connections \cup {NoConnection}]
        /\ conn'[g] \in Connections
        /\ \A h \in Streams \ {g} : conn'[h] = conn[h]
    BY <1>0, <2>1 DEF StreamTypes
  <2>5. QED
    BY <2>1, <2>2, <2>3, <2>4, MoveOn
<1>6. ASSUME NEW g \in Streams, StreamNowhere(g) \/ Exhaust(g) \/ Abandon(g)
      PROVE  StreamInv'
  <2>1. Goto(g, "done") /\ "done" \in Labels /\ "done" \in Ended
        /\ UNCHANGED <<conn, buffer, total, yielded, cut, failed>>
    BY <1>6 DEF StreamNowhere, Exhaust, Abandon, Labels, Ended
  <2>2. pc'[g] = "done" /\ yielded[g] <= total[g]
    BY <1>0, <1>4, <2>1 DEF Account
  <2>3. Account(g)'
    BY <2>1, <2>2 DEF Account
  <2>4. QED
    BY <1>3, <2>1, <2>3
<1>7. ASSUME NEW g \in Streams, StreamStart(g) PROVE StreamInv'
  <2>1. PICK label \in {"started", "waiting"} :
          /\ Goto(g, label) /\ pc[g] \in {"starting", "started"}
          /\ UNCHANGED <<conn, buffer, total, yielded, cut, failed>>
    BY <1>7 DEF StreamStart
  <2>2. label \in Labels /\ pc[g] \notin Ended
    BY <2>1 DEF Labels, Ended, InTry
  <2>3. pc'[g] = label
    BY <1>4, <2>1, <2>2
  <2>4. Account(g)'
    BY <1>0, <2>1, <2>3 DEF Account
  <2>5. QED
    BY <1>3, <2>1, <2>2, <2>4
<1>8. ASSUME NEW g \in Streams, BreakOff(g) \/ SourceEnds(g) PROVE StreamInv'
  <2>1. /\ pc[g] = "waiting" /\ LeaveLoop(g)
        /\ UNCHANGED <<conn, buffer, total, failed>>
    BY <1>8 DEF BreakOff, SourceEnds
  <2>2. cut' \in [Streams -> BOOLEAN]
    BY <1>0, <1>8 DEF BreakOff, SourceEnds, StreamTypes
  <2>3. QED
    BY <2>1, <2>2, LeaveLoopKeeps
<1>9. ASSUME NEW g \in Streams, SourceFails(g) PROVE StreamInv'
  <2>1. /\ pc[g] = "waiting" /\ failed' = [failed EXCEPT ![g] = TRUE]
        /\ pc' = [pc EXCEPT ![g] = "error"]
        /\ UNCHANGED <<conn, buffer, total, yielded, cut>>
    BY <1>9 DEF SourceFails, Goto
  <2>2. /\ pc'[g] = "error" /\ failed'[g]
        /\ \A h \in Streams \ {g} : pc'[h] = pc[h] /\ failed'[h] = failed[h]
        /\ pc' \in [Streams -> Labels] /\ failed' \in [Streams -> BOOLEAN]
    BY <1>0, <2>1 DEF StreamTypes, Labels, InTry
  <2>3. StreamTypes'
    BY <1>0, <1>a, <2>1, <2>2 DEF StreamTypes, Ended
  <2>4. Account(g)'
    BY <1>0, <2>1, <2>2 DEF Account
  <2>5. QED
    BY <2>1, <2>2, <2>3, <2>4, OneStream
<1>10. ASSUME NEW g \in Streams, Resume(g) PROVE StreamInv'
  <2>1. Goto(g, "waiting") /\ "waiting" \in Labels /\ pc[g] = "yielded"
        /\ UNCHANGED <<conn, buffer, total, yielded, cut, failed>>
    BY <1>10 DEF Resume, Labels, InTry
  <2>2. Account(g)'
    BY <1>0, <1>4, <2>1 DEF Account
  <2>3. QED
    BY <1>3, <2>1, <2>2 DEF Ended
<1>11. ASSUME NEW g \in Streams, StreamEnd(g) PROVE StreamInv'
  <2>1. Goto(g, "ended") /\ "ended" \in Labels /\ pc[g] \in {"flushed", "error"}
        /\ UNCHANGED <<conn, buffer, total, yielded, cut, failed>>
    BY <1>11 DEF StreamEnd, Labels
  <2>2. Account(g)'
    BY <1>0, <1>4, <2>1 DEF Account
  <2>3. QED
    BY <1>3, <2>1, <2>2 DEF Ended
<1>12. CASE Tick \/ UNCHANGED vars
  BY <1>1, <1>12 DEF Tick, vars
<1>13. QED
  BY <1>2, <1>5, <1>6, <1>7, <1>8, <1>9, <1>10, <1>11, <1>12, TakeTokenKeeps
     DEF Next

-----------------------------------------------------------------------------
(* Streams that overlap on a connection.                                   *)

LEMMA InitCut == Init => CrossedType /\ CutInv
  BY DEF Init, CrossedType, CutInv, Running, InTry

\* Only a finally clause crosses streams.
LEMMA CrossedStep == CrossedType /\ [Next]_vars => CrossedType'
<1> SUFFICES ASSUME CrossedType, [Next]_vars PROVE CrossedType'
  OBVIOUS
<1>1. ASSUME NEW g \in Streams, Finally(g) PROVE CrossedType'
  <2>1. crossed' = [h \in Streams |-> crossed[h] \/ h \in On(conn[g]) \ {g}]
    BY <1>1 DEF Finally, Unregister
  <2>2. QED
    BY <2>1, Zenon DEF CrossedType
<1>2. CASE UNCHANGED crossed
  BY <1>2 DEF CrossedType
<1>3. ASSUME NEW g \in Streams, LeaveLoop(g) PROVE CrossedType'
  BY <1>1, <1>2, <1>3 DEF LeaveLoop
<1>4. ASSUME NEW g \in Streams, BreakOff(g) \/ SourceEnds(g) PROVE CrossedType'
  BY <1>3, <1>4 DEF BreakOff, SourceEnds
<1>5. ASSUME NEW g \in Streams, StreamEnd(g) \/ Abandon(g) PROVE CrossedType'
  BY <1>1, <1>2, <1>5 DEF StreamEnd, Abandon
<1>6. ASSUME NEW g \in Streams,
             \/ StreamNowhere(g) \/ StreamStart(g) \/ TakeToken(g)
             \/ SourceFails(g) \/ Resume(g) \/ Exhaust(g)
      PROVE  CrossedType'
  BY <1>2, <1>6 DEF StreamNowhere, StreamStart, TakeToken, SourceFails, Resume,
                    Exhaust
<1>7. ASSUME NEW c \in Connections,
             \/ OnConnect(c) \/ OnDisconnect(c) \/ OnDisconnectLate(c)
             \/ Activity(c) \/ \E g \in Streams : StreamTokens(g, c)
      PROVE  CrossedType'
  BY <1>2, <1>7 DEF OnConnect, OnDisconnect, OnDisconnectLate, Activity,
                    StreamTokens, stream
<1>8. CASE Tick \/ UNCHANGED vars
  BY <1>2, <1>8 DEF Tick, vars, stream
<1>9. QED
  BY <1>4, <1>5, <1>6, <1>7, <1>8 DEF Next

\* No stream starts.
NoneStarts ==
    \A g \in Streams : /\ pc[g] # "idle" => pc'[g] # "idle"
                       /\ pc'[g] \in Running => pc[g] \in Running

\* A stream is cut only when it is not registered.
CutsUnregistered ==
    \A g \in Streams :
       cut'[g] => cut[g] \/ (pc[g] \in Running /\ conn[g] \notin streaming)

\* What is closed stays closed, what is crossed stays crossed, and who loses its
\* registration is excused.
ReleasesExcuse ==
    /\ \A c \in Connections :
          /\ state[c] = "closed" => state'[c] = "closed"
          /\ c \in streaming =>
                \/ c \in streaming'
                \/ state'[c] = "closed"
                \/ \A h \in On(c) : pc'[h] \in Running => crossed'[h]
    /\ \A h \in Streams : crossed[h] => crossed'[h]

LEMMA QuietCut ==
  ASSUME CutInv, StreamTypes, conn' = conn, NoneStarts, CutsUnregistered,
         ReleasesExcuse
  PROVE  CutInv'
<1> SUFFICES ASSUME NEW g \in Streams
             PROVE  /\ pc'[g] \in Running =>
                          Excused(g)' \/ conn[g] \in streaming'
                    /\ cut'[g] => /\ pc'[g] # "idle" /\ conn[g] \in Connections
                                  /\ Excused(g)'
  BY Zenon DEF CutInv
<1>1. ASSUME conn[g] \in Connections, Excused(g) PROVE Excused(g)'
  BY <1>1 DEF Excused, ReleasesExcuse
<1>2. ASSUME pc[g] \in Running
      PROVE  /\ conn[g] \in Connections /\ g \in On(conn[g]) /\ pc[g] # "idle"
             /\ Excused(g) \/ conn[g] \in streaming
  BY <1>2 DEF Running, InTry, Ended, On, StreamTypes, CutInv
<1>3. ASSUME pc'[g] \in Running
      PROVE  Excused(g)' \/ conn[g] \in streaming'
  <2>1. pc[g] \in Running
    BY <1>3 DEF NoneStarts
  <2>2. CASE Excused(g)
    BY <1>1, <1>2, <2>1, <2>2
  <2>3. CASE conn[g] \in streaming
    BY <1>2, <1>3, <2>1, <2>3 DEF ReleasesExcuse, Excused
  <2>4. QED
    BY <1>2, <2>1, <2>2, <2>3
<1>4. ASSUME cut'[g]
      PROVE  pc'[g] # "idle" /\ conn[g] \in Connections /\ Excused(g)'
  <2>1. CASE cut[g]
    BY <1>1, <2>1 DEF CutInv, NoneStarts
  <2>2. CASE pc[g] \in Running /\ conn[g] \notin streaming
    BY <1>1, <1>2, <2>2 DEF NoneStarts
  <2>3. QED
    BY <1>4, <2>1, <2>2, Zenon DEF CutsUnregistered
<1>5. QED
  BY <1>3, <1>4, Zenon

\* The finally clause of a stream on its way out excuses the others.
LEMMA FinallyExcuses ==
  ASSUME ConnTypes, StreamTypes, NEW g \in Streams, Finally(g),
         pc'[g] \notin Running
  PROVE  ReleasesExcuse
<1>1. /\ streaming' = streaming \ {conn[g]}
      /\ crossed' = [h \in Streams |-> crossed[h] \/ h \in On(conn[g]) \ {g}]
  BY DEF Finally, Unregister
<1>2. \A c \in Connections : state[c] = "closed" => state'[c] = "closed"
  BY DEF Finally, ConnTypes, ActiveStates
<1>3. \A h \in Streams : crossed'[h] = (crossed[h] \/ h \in On(conn[g]) \ {g})
  BY <1>1
<1>4. \A h \in On(conn[g]) : h \in Streams
  BY DEF On
<1>5. \A h \in On(conn[g]) : pc'[h] \in Running => crossed'[h]
  BY <1>3, <1>4
<1>6. QED
  BY <1>1, <1>2, <1>3, <1>5 DEF ReleasesExcuse

\* A stream that starts registers its connection, which is not closed.
LEMMA StartCut ==
  ASSUME CutInv, ConnInv, StreamTypes, NEW g \in Streams, NEW c \in Connections,
         StreamTokens(g, c)
  PROVE  CutInv'
<1>1. /\ pc[g] = "idle" /\ c \in table /\ conn' = [conn EXCEPT ![g] = c]
      /\ state' = [state EXCEPT ![c] = "streaming"]
      /\ streaming' = streaming \cup {c} /\ pc' = [pc EXCEPT ![g] = "starting"]
      /\ UNCHANGED <<cut, crossed>>
  BY DEF StreamTokens, Goto
<1>2. /\ conn'[g] = c /\ pc'[g] = "starting" /\ c \in streaming' /\ ~cut'[g]
      /\ \A h \in Streams \ {g} : conn'[h] = conn[h] /\ pc'[h] = pc[h]
  BY <1>1 DEF StreamTypes, CutInv
<1>3. \A d \in Connections : state[d] = "closed" => state'[d] = "closed"
  BY <1>1 DEF ConnInv, TableOK, ConnTypes, ActiveStates
<1>4. ASSUME NEW h \in Streams \ {g}
      PROVE  /\ pc'[h] \in Running => Excused(h)' \/ conn'[h] \in streaming'
             /\ cut'[h] => /\ pc'[h] # "idle" /\ conn'[h] \in Connections
                           /\ Excused(h)'
  <2>1. /\ pc[h] \in Running => Excused(h) \/ conn[h] \in streaming
        /\ cut[h] => pc[h] # "idle" /\ conn[h] \in Connections /\ Excused(h)
    BY DEF CutInv
  <2>2. pc[h] \in Running => conn[h] \in Connections
    BY DEF StreamTypes, Running, InTry, Ended
  <2>3. conn[h] \in Connections /\ Excused(h) => Excused(h)'
    BY <1>1, <1>2, <1>3 DEF Excused
  <2>4. QED
    BY <1>1, <1>2, <2>1, <2>2, <2>3
<1>5. QED
  BY <1>2, <1>4, Zenon DEF CutInv

LEMMA CutStep == ConnInv /\ StreamInv /\ CutInv /\ [Next]_vars => CutInv'
<1> SUFFICES ASSUME ConnInv, StreamInv, CutInv, [Next]_vars PROVE CutInv'
  OBVIOUS
<1>0. ConnTypes /\ StreamTypes
  BY DEF ConnInv, StreamInv
<1>a. ASSUME cut' = cut PROVE CutsUnregistered
  BY <1>a, Zenon DEF CutsUnregistered
<1>b. ASSUME UNCHANGED <<state, streaming, crossed>> PROVE ReleasesExcuse
  BY <1>b, Zenon DEF ReleasesExcuse
\* What a step does to the streams, where it starts none.
<1>1. ASSUME NEW g \in Streams, NEW label \in Labels, Goto(g, label),
             label # "idle", label \in Running => pc[g] \in Running
      PROVE  NoneStarts /\ pc'[g] = label
  <2>1. pc'[g] = label /\ \A h \in Streams \ {g} : pc'[h] = pc[h]
    BY <1>0, <1>1 DEF Goto, StreamTypes
  <2>2. QED
    BY <1>1, <2>1 DEF NoneStarts
<1>2. ASSUME UNCHANGED <<pc, conn, cut>>, ReleasesExcuse PROVE CutInv'
  <2>1. NoneStarts
    BY <1>2 DEF NoneStarts
  <2>2. QED
    BY <1>0, <1>2, <1>a, <2>1, QuietCut
<1>3. ASSUME NEW g \in Streams, NEW label \in Labels, Goto(g, label),
             label # "idle", label \in Running => pc[g] \in Running,
             UNCHANGED <<conn, cut, state, streaming, crossed>>
      PROVE  CutInv'
  BY <1>0, <1>1, <1>3, <1>a, <1>b, QuietCut
<1>4. ASSUME NEW g \in Streams, NEW label \in {"ended", "done"}, Goto(g, label),
             Finally(g), UNCHANGED conn, CutsUnregistered
      PROVE  CutInv'
  <2>1. label \in Labels /\ label # "idle" /\ label \notin Running
    BY <1>4 DEF Labels, Ended, Running, InTry
  <2>2. NoneStarts /\ pc'[g] \notin Running
    BY <1>1, <1>4, <2>1
  <2>3. QED
    BY <1>0, <1>4, <2>2, FinallyExcuses, QuietCut
<1>5. ASSUME NEW c \in Connections, OnConnect(c) PROVE CutInv'
  <2>1. /\ state[c] = "new" /\ UNCHANGED <<pc, conn, cut, streaming, crossed>>
        /\ \A d \in Connections : d # c =>
              state'[d] = state[d] \/ state'[d] = "closed"
    BY <1>5 DEF OnConnect, stream
  <2>2. QED
    BY <1>2, <2>1 DEF ReleasesExcuse
<1>6. ASSUME NEW c \in Connections, OnDisconnect(c) PROVE CutInv'
  <2>1. /\ UNCHANGED <<pc, conn, cut, crossed>> /\ streaming' = streaming \ {c}
        /\ state' = [state EXCEPT ![c] = "closed"]
    BY <1>6 DEF OnDisconnect, stream
  <2>2. \A d \in Connections : state'[d] = IF d = c THEN "closed" ELSE state[d]
    BY <1>0, <2>1 DEF ConnTypes
  <2>3. QED
    BY <1>2, <2>1, <2>2 DEF ReleasesExcuse
<1>7. ASSUME NEW c \in Connections, OnDisconnectLate(c) PROVE CutInv'
  BY <1>2, <1>7 DEF OnDisconnectLate, stream, connection, ReleasesExcuse
<1>8. ASSUME NEW c \in Connections, Activity(c) PROVE CutInv'
  BY <1>2, <1>8, <1>b DEF Activity, stream
<1>9. ASSUME NEW g \in Streams, NEW c \in Connections, StreamTokens(g, c)
      PROVE  CutInv'
  BY <1>0, <1>9, StartCut
<1>10. ASSUME NEW g \in Streams, StreamNowhere(g) \/ Exhaust(g) PROVE CutInv'
  <2>1. /\ Goto(g, "done") /\ "done" \in Labels /\ "done" \notin Running
        /\ UNCHANGED <<conn, cut, state, streaming, crossed>>
    BY <1>10 DEF StreamNowhere, Exhaust, Labels, Ended, Running, InTry, connection
  <2>2. QED
    BY <1>3, <2>1
<1>11. ASSUME NEW g \in Streams,
              StreamStart(g) \/ SourceFails(g) \/ Resume(g)
       PROVE  CutInv'
  <2>1. PICK label \in {"started", "waiting", "error"} :
          /\ Goto(g, label)
          /\ pc[g] \in {"starting", "started", "waiting", "yielded"}
          /\ UNCHANGED <<conn, cut, state, streaming, crossed>>
    BY <1>11 DEF StreamStart, SourceFails, Resume, connection
  <2>2. label \in Labels /\ pc[g] \in Running /\ label # "idle"
    BY <2>1 DEF Labels, Ended, Running, InTry
  <2>3. QED
    BY <1>3, <2>1, <2>2
<1>12. ASSUME NEW g \in Streams, TakeToken(g) PROVE CutInv'
  <2>1. /\ pc[g] = "waiting"
        /\ UNCHANGED <<conn, cut, state, streaming, crossed>>
        /\ Goto(g, "yielded") \/ UNCHANGED pc
    BY <1>12 DEF TakeToken, connection
  <2>2. "yielded" \in Labels /\ pc[g] \in Running /\ "yielded" # "idle"
    BY <2>1 DEF Labels, Running, InTry
  <2>3. QED
    BY <1>2, <1>3, <1>b, <2>1, <2>2
\* The loop is left, by a break only where the stream is not registered.
<1>13. ASSUME NEW g \in Streams, BreakOff(g) \/ SourceEnds(g) PROVE CutInv'
  <2>1. pc[g] = "waiting" /\ LeaveLoop(g) /\ UNCHANGED conn
    BY <1>13 DEF BreakOff, SourceEnds
  <2>2. pc[g] \in Running
    BY <2>1 DEF Running, InTry
  <2>3. CutsUnregistered
    <3>1. CASE SourceEnds(g)
      BY <1>a, <3>1 DEF SourceEnds
    <3>2. CASE BreakOff(g)
      <4>1. conn[g] \notin streaming /\ cut' = [cut EXCEPT ![g] = TRUE]
        BY <3>2 DEF BreakOff
      <4>2. \A h \in Streams \ {g} : cut'[h] = cut[h]
        BY <1>0, <4>1 DEF StreamTypes
      <4>3. QED
        BY <2>2, <4>1, <4>2 DEF CutsUnregistered
    <3>3. QED
      BY <1>13, <3>1, <3>2
  <2>4. CASE Finally(g) /\ Goto(g, "ended")
    BY <1>4, <2>1, <2>3, <2>4
  <2>5. CASE Goto(g, "flushed") /\ UNCHANGED <<state, streaming, crossed>>
    <3>1. "flushed" \in Labels /\ "flushed" # "idle"
      BY DEF Labels, InTry
    <3>2. NoneStarts
      BY <1>1, <2>2, <2>5, <3>1
    <3>3. QED
      BY <1>0, <1>b, <2>1, <2>3, <2>5, <3>2, QuietCut
  <2>6. QED
    BY <2>1, <2>4, <2>5 DEF LeaveLoop
<1>14. ASSUME NEW g \in Streams, StreamEnd(g) PROVE CutInv'
  <2>1. Finally(g) /\ Goto(g, "ended") /\ UNCHANGED <<conn, cut>>
    BY <1>14 DEF StreamEnd
  <2>2. QED
    BY <1>4, <1>a, <2>1
<1>15. ASSUME NEW g \in Streams, Abandon(g) PROVE CutInv'
  <2>1. /\ Goto(g, "done") /\ UNCHANGED <<conn, cut>>
        /\ Finally(g) \/ UNCHANGED <<state, streaming, crossed>>
    BY <1>15 DEF Abandon
  <2>2. "done" \in Labels /\ "done" # "idle" /\ "done" \notin Running
    BY DEF Labels, Ended, Running, InTry
  <2>3. QED
    BY <1>3, <1>4, <1>a, <2>1, <2>2
<1>16. CASE Tick \/ UNCHANGED vars
  <2>1. UNCHANGED <<pc, conn, cut, state, streaming, crossed>>
    BY <1>16 DEF Tick, vars, connection, stream
  <2>2. QED
    BY <1>2, <1>b, <2>1
<1>17. QED
  BY <1>5, <1>6, <1>7, <1>8, <1>9, <1>10, <1>11, <1>12, <1>13, <1>14,
     <1>15, <1>16 DEF Next

-----------------------------------------------------------------------------
(* The theorems.                                                           *)

LEMMA Inductive == Spec => [](ConnInv /\ StreamInv /\ CrossedType /\ CutInv)
<1>1. Init => ConnInv /\ StreamInv /\ CrossedType /\ CutInv
  BY InitConn, InitStreams, InitCut
<1>2. ConnInv /\ StreamInv /\ CrossedType /\ CutInv /\ [Next]_vars
        => (ConnInv /\ StreamInv /\ CrossedType /\ CutInv)'
  BY ConnStep, StreamStep, CrossedStep, CutStep DEF ConnInv, StreamInv
<1>3. QED
  BY <1>1, <1>2, PTL DEF Spec

\* The manager holds exactly the active connections (connected or streaming),
\* whatever the order of connects, disconnects, stale clean-ups and endings of
\* streams, and no tenant has more than max_connections_per_tenant of them.
THEOREM HeldCorrect == Spec => []ActiveIsHeld
<1>1. ConnInv /\ StreamInv /\ CrossedType => ActiveIsHeld
  <2> SUFFICES ASSUME ConnInv, StreamInv, CrossedType PROVE ActiveIsHeld
    OBVIOUS
  <2>1. TypeOK
    BY DEF ConnInv, ConnTypes, StreamInv, StreamTypes, CrossedType, TypeOK
  <2>2. QED
    BY <2>1, Zenon DEF ConnInv, TableOK, ActiveIsHeld
<1>2. QED
  BY <1>1, Inductive, PTL

\* When STREAM_END is sent, every token counted, from a source that did not fail,
\* is in a frame: the loop may be left at its end or by its break, with the
\* buffer empty or not, for any chunk size.
THEOREM EndCorrect == Spec => []EndIsComplete
<1>1. StreamInv => EndIsComplete
  BY Zenon DEF StreamInv, Account, EndIsComplete
<1>2. QED
  BY <1>1, Inductive, PTL

\* Once on_disconnect was called for its connection, a stream takes no token and
\* sends at most what it holds back, even if the connection had several streams.
THEOREM DisconnectStops == Spec => StopsAtDisconnect
<1>1. ASSUME ConnInv, StreamInv, Next, NEW g \in Streams, conn[g] \in gone
      PROVE  /\ total'[g] = total[g]
             /\ yielded'[g] \in {yielded[g], yielded[g] + buffer[g]}
  <2>0. StreamTypes /\ state[conn[g]] = "closed" /\ conn[g] \notin streaming
    BY <1>1 DEF ConnInv, GoneOK, StreamInv
  <2>1. ASSUME UNCHANGED <<total, yielded>>
        PROVE  /\ total'[g] = total[g]
               /\ yielded'[g] \in {yielded[g], yielded[g] + buffer[g]}
    BY <2>1
  <2>2. ASSUME NEW c \in Connections,
               OnConnect(c) \/ OnDisconnect(c) \/ OnDisconnectLate(c) \/ Activity(c)
        PROVE  UNCHANGED <<total, yielded>>
    BY <2>2 DEF OnConnect, OnDisconnect, OnDisconnectLate, Activity, stream
  <2>3. ASSUME NEW c \in Connections, NEW h \in Streams, StreamTokens(h, c)
        PROVE  UNCHANGED <<total, yielded>>
    BY <2>3 DEF StreamTokens
  <2>4. ASSUME NEW h \in Streams,
               \/ StreamNowhere(h) \/ StreamStart(h) \/ SourceFails(h)
               \/ Resume(h) \/ StreamEnd(h) \/ Exhaust(h) \/ Abandon(h)
        PROVE  UNCHANGED <<total, yielded>>
    BY <2>4 DEF StreamNowhere, StreamStart, SourceFails, Resume, StreamEnd,
                Exhaust, Abandon
  <2>5. ASSUME NEW h \in Streams, TakeToken(h)
        PROVE  /\ total'[g] = total[g]
               /\ yielded'[g] \in {yielded[g], yielded[g] + buffer[g]}
    <3>1. h # g
      BY <2>0, <2>5 DEF TakeToken
    <3>2. total'[g] = total[g]
      BY <2>0, <2>5, <3>1 DEF TakeToken, StreamTypes
    <3>3. yielded'[g] = yielded[g]
      BY <2>0, <2>5, <3>1 DEF TakeToken, StreamTypes
    <3>4. QED
      BY <3>2, <3>3
  <2>6. ASSUME NEW h \in Streams, BreakOff(h) \/ SourceEnds(h)
        PROVE  /\ total'[g] = total[g]
               /\ yielded'[g] \in {yielded[g], yielded[g] + buffer[g]}
    <3>1. UNCHANGED total
      BY <2>6 DEF BreakOff, SourceEnds
    <3>2. \/ UNCHANGED yielded
          \/ yielded' = [yielded EXCEPT ![h] = @ + buffer[h]]
      BY <2>6 DEF BreakOff, SourceEnds, LeaveLoop
    <3>3. yielded'[g] \in {yielded[g], yielded[g] + buffer[g]}
      BY <2>0, <3>2 DEF StreamTypes
    <3>4. QED
      BY <3>1, <3>3
  <2>7. CASE Tick
    BY <2>1, <2>7 DEF Tick, stream
  <2>8. QED
    BY <1>1, <2>1, <2>2, <2>3, <2>4, <2>5, <2>6, <2>7 DEF Next
<1>2. ConnInv /\ StreamInv /\ [Next]_vars =>
         [\A g \in Streams : conn[g] \in gone =>
             /\ total'[g] = total[g]
             /\ yielded'[g] \in {yielded[g], yielded[g] + buffer[g]}]_vars
  BY <1>1, Zenon
<1>3. QED
  BY <1>2, Inductive, PTL DEF Spec, StopsAtDisconnect

\* With streams that overlap at will: a stream is broken off only because its
\* connection was closed, or because another stream that was under way beside it
\* ran its finally clause.
THEOREM CutCorrect == Spec => []CutOnlyWhenClosed
<1>1. CutInv => CutOnlyWhenClosed
  BY DEF CutInv, Excused, CutOnlyWhenClosed
<1>2. QED
  BY <1>1, Inductive, PTL
===============================================================================
