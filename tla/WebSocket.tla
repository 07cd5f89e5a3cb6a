------------------------------ MODULE WebSocket ------------------------------
(***************************************************************************)
(* ConnectionManager and WebSocketHandler of streaming/websocket.py on an  *)
(* asyncio loop: a step runs from one await or yield to the next.  Streams *)
(* are the generators made by stream_tokens; pc says where each of them is *)
(* suspended.  An API Gateway connection id names one connection for ever, *)
(* so the Connection object is identified with it.                         *)
(***************************************************************************)
EXTENDS Integers, FiniteSets

CONSTANTS Connections, Tenants, Streams,
          MaxConnections,   \* max_connections_per_tenant
          TTL,              \* ttl_seconds
          ChunkSize,        \* chunk_size
          MaxTokens,        \* bound: tokens a source yields
          MaxClock,         \* bound on the clock
          Abandons,         \* consumers may give up a stream
          NoConnection

ASSUME WebSocketAssumption ==
    /\ MaxConnections \in Nat /\ TTL \in Nat /\ ChunkSize \in Nat \ {0}
    /\ MaxTokens \in Nat /\ MaxClock \in Nat
    /\ Abandons \in BOOLEAN
    /\ NoConnection \notin Connections
    /\ IsFiniteSet(Connections)

VARIABLES clock,
          table,           \* ids in _connections
          streaming,       \* _active_streams
          state, tenant, lastActivity,   \* per connection
          pc, conn,        \* per stream: where it waits, its connection
          buffer, total,   \* per stream: tokens held back, tokens taken
          yielded,         \* history: tokens in the frames of the stream
          cut, failed,     \* history: left by break; the source failed
          crossed,         \* history: beside a stream that left its try
          gone             \* history: ids on_disconnect was called for

connection == <<table, state, tenant, lastActivity>>
stream == <<pc, conn, buffer, total, yielded, cut, failed, crossed>>
vars == <<clock, connection, streaming, stream, gone>>

Init ==
    /\ clock = 0
    /\ table = {} /\ streaming = {} /\ gone = {}
    /\ state = [c \in Connections |-> "new"]
    /\ tenant \in [Connections -> Tenants]
    /\ lastActivity = [c \in Connections |-> 0]
    /\ pc = [g \in Streams |-> "idle"]
    /\ conn = [g \in Streams |-> NoConnection]
    /\ buffer = [g \in Streams |-> 0]
    /\ total = [g \in Streams |-> 0]
    /\ yielded = [g \in Streams |-> 0]
    /\ cut = [g \in Streams |-> FALSE]
    /\ failed = [g \in Streams |-> FALSE]
    /\ crossed = [g \in Streams |-> FALSE]

ActiveStates == {"connected", "streaming"}
Held(t) == {c \in table : tenant[c] = t /\ state[c] \in ActiveStates}

Ended == {"idle", "done"}
On(c) == {g \in Streams : conn[g] = c /\ pc[g] \notin Ended}

-----------------------------------------------------------------------------
(* The connections.                                                        *)

Stale(c) == lastActivity[c] < clock - TTL

\* connect: the limit is checked first; _cleanup_stale comes last.
OnConnect(c) ==
    /\ state[c] = "new"
    /\ Cardinality(Held(tenant[c])) < MaxConnections
    /\ LET stale == {d \in table : Stale(d)} IN
          /\ table' = (table \cup {c}) \ stale
          /\ state' = [d \in Connections |->
                         CASE d = c -> "connected"
                           [] d # c /\ d \in stale -> "closed"
                           [] OTHER -> state[d]]
    /\ lastActivity' = [lastActivity EXCEPT ![c] = clock]
    /\ UNCHANGED <<clock, tenant, streaming, stream, gone>>

DisconnectQuietly(c) ==
    /\ c \in table
    /\ table' = table \ {c}
    /\ state' = [state EXCEPT ![c] = "closed"]
    /\ gone' = gone \cup {c}
    /\ UNCHANGED <<clock, tenant, lastActivity, streaming, stream>>

OnDisconnect(c) ==
    /\ c \in table
    /\ streaming' = streaming \ {c}
    /\ table' = table \ {c}
    /\ state' = [state EXCEPT ![c] = "closed"]
    /\ gone' = gone \cup {c}
    /\ UNCHANGED <<clock, tenant, lastActivity, stream>>

\* $disconnect for a connection that _cleanup_stale has already removed.
OnDisconnectLate(c) ==
    /\ state[c] = "closed" /\ c \notin gone
    /\ streaming' = streaming \ {c}
    /\ gone' = gone \cup {c}
    /\ UNCHANGED <<clock, connection, stream>>

\* on_message and send_message refresh last_activity.
Activity(c) ==
    /\ c \in table
    /\ lastActivity' = [lastActivity EXCEPT ![c] = clock]
    /\ UNCHANGED <<clock, table, state, tenant, streaming, stream, gone>>

-----------------------------------------------------------------------------
(* stream_tokens.                                                          *)

Goto(g, label) == pc' = [pc EXCEPT ![g] = label]

StreamUnregistered(g, c) ==
    /\ pc[g] = "idle"
    /\ c \in table
    /\ conn' = [conn EXCEPT ![g] = c]
    /\ state' = [state EXCEPT ![c] = "streaming"]
    /\ Goto(g, "starting")
    /\ UNCHANGED <<clock, table, tenant, lastActivity, streaming, crossed,
                   gone, buffer, total, yielded, cut, failed>>

\* The connection is looked up, marked, and on_stream_start awaited.
StreamTokens(g, c) ==
    /\ pc[g] = "idle"
    /\ c \in table
    /\ conn' = [conn EXCEPT ![g] = c]
    /\ state' = [state EXCEPT ![c] = "streaming"]
    /\ streaming' = streaming \cup {c}
    /\ Goto(g, "starting")
    /\ UNCHANGED <<clock, table, tenant, lastActivity, gone, buffer, total,
                   yielded, cut, failed, crossed>>

\* An unknown connection gets an error frame and nothing else.
StreamNowhere(g) ==
    /\ pc[g] = "idle"
    /\ \E c \in Connections \ table : state[c] = "closed"
    /\ Goto(g, "done")
    /\ UNCHANGED <<clock, connection, streaming, crossed, gone, conn, buffer,
                   total, yielded, cut, failed>>

\* The STREAM_START frame is yielded; when the consumer asks for more, the
\* source is awaited.
StreamStart(g) ==
    /\ \/ pc[g] = "starting" /\ Goto(g, "started")
       \/ pc[g] = "started" /\ Goto(g, "waiting")
    /\ UNCHANGED <<clock, connection, streaming, crossed, gone, conn, buffer,
                   total, yielded, cut, failed>>

\* The other streams of the connection lose their registration too.
Unregister(g) ==
    /\ streaming' = streaming \ {conn[g]}
    /\ crossed' = [h \in Streams |-> crossed[h] \/ h \in On(conn[g]) \ {g}]

FinallyReopens(g) ==
    /\ Unregister(g)
    /\ state' = [state EXCEPT ![conn[g]] = "connected"]

\* The finally clause: the connection stops streaming.
Finally(g) ==
    /\ Unregister(g)
    /\ state' = IF state[conn[g]] \in ActiveStates
                THEN [state EXCEPT ![conn[g]] = "connected"] ELSE state

LeaveWithBuffer(g) ==
    Finally(g) /\ Goto(g, "ended") /\ UNCHANGED yielded

\* After the loop: what is left in the buffer is yielded, or the finally
\* clause runs and STREAM_END is yielded.
LeaveLoop(g) ==
    IF buffer[g] > 0
    THEN /\ yielded' = [yielded EXCEPT ![g] = @ + buffer[g]]
         /\ Goto(g, "flushed")
         /\ UNCHANGED <<state, streaming, crossed>>
    ELSE Finally(g) /\ Goto(g, "ended") /\ UNCHANGED yielded

TakeToken(g) ==
    /\ pc[g] = "waiting" /\ conn[g] \in streaming
    /\ total[g] < MaxTokens
    /\ total' = [total EXCEPT ![g] = @ + 1]
    /\ IF buffer[g] + 1 >= ChunkSize
       THEN /\ yielded' = [yielded EXCEPT ![g] = @ + buffer[g] + 1]
            /\ buffer' = [buffer EXCEPT ![g] = 0]
            /\ Goto(g, "yielded")
       ELSE /\ buffer' = [buffer EXCEPT ![g] = @ + 1]
            /\ UNCHANGED <<yielded, pc>>
    /\ UNCHANGED <<clock, connection, streaming, crossed, gone, conn, cut,
                   failed>>

\* A token arrives and the connection is no longer in _active_streams: break.
BreakOff(g) ==
    /\ pc[g] = "waiting" /\ conn[g] \notin streaming
    /\ total[g] < MaxTokens
    /\ cut' = [cut EXCEPT ![g] = TRUE]
    /\ LeaveLoop(g)
    /\ UNCHANGED <<clock, table, tenant, lastActivity, gone, conn, buffer,
                   total, failed>>

SourceEnds(g) ==
    /\ pc[g] = "waiting"
    /\ LeaveLoop(g)
    /\ UNCHANGED <<clock, table, tenant, lastActivity, gone, conn, buffer,
                   total, cut, failed>>

\* The source raises: an ERROR frame, whatever the buffer holds.
SourceFails(g) ==
    /\ pc[g] = "waiting"
    /\ failed' = [failed EXCEPT ![g] = TRUE]
    /\ Goto(g, "error")
    /\ UNCHANGED <<clock, connection, streaming, crossed, gone, conn, buffer,
                   total, yielded, cut>>

\* The consumer asks for more after a TOKEN frame: the statistics and
\* last_activity are updated, the flush interval and the source awaited.
Resume(g) ==
    /\ pc[g] = "yielded"
    /\ lastActivity' = [lastActivity EXCEPT ![conn[g]] = clock]
    /\ Goto(g, "waiting")
    /\ UNCHANGED <<clock, table, state, tenant, streaming, crossed, gone, conn,
                   buffer, total, yielded, cut, failed>>

\* After the last TOKEN frame, or the ERROR frame and on_error: STREAM_END.
StreamEnd(g) ==
    /\ pc[g] \in {"flushed", "error"}
    /\ Finally(g)
    /\ Goto(g, "ended")
    /\ UNCHANGED <<clock, table, tenant, lastActivity, gone, conn, buffer,
                   total, yielded, cut, failed>>

\* on_stream_end, and the generator is exhausted.
Exhaust(g) ==
    /\ pc[g] = "ended"
    /\ Goto(g, "done")
    /\ UNCHANGED <<clock, connection, streaming, crossed, gone, conn, buffer,
                   total, yielded, cut, failed>>

\* The consumer closes the generator, its task is cancelled, or a callback
\* raises: only the statements inside the try have the finally clause.
Abandon(g) ==
    /\ Abandons
    /\ pc[g] \notin Ended
    /\ IF pc[g] \in {"waiting", "yielded", "flushed", "error"}
       THEN Finally(g)
       ELSE UNCHANGED <<state, streaming, crossed>>
    /\ Goto(g, "done")
    /\ UNCHANGED <<clock, table, tenant, lastActivity, gone, conn, buffer,
                   total, yielded, cut, failed>>

Tick ==
    /\ clock < MaxClock
    /\ clock' = clock + 1
    /\ UNCHANGED <<connection, streaming, stream, gone>>

Next ==
    \/ Tick
    \/ \E c \in Connections :
          \/ OnConnect(c) \/ OnDisconnect(c) \/ OnDisconnectLate(c)
          \/ Activity(c)
          \/ \E g \in Streams : StreamTokens(g, c)
    \/ \E g \in Streams :
          \/ StreamNowhere(g) \/ StreamStart(g) \/ TakeToken(g) \/ BreakOff(g)
          \/ SourceEnds(g) \/ SourceFails(g) \/ Resume(g) \/ StreamEnd(g)
          \/ Exhaust(g) \/ Abandon(g)

Spec == Init /\ [][Next]_vars

-----------------------------------------------------------------------------
(* Properties.                                                             *)

InTry == {"waiting", "yielded", "flushed", "error"}
Labels == Ended \cup InTry \cup {"starting", "started", "ended"}

\* The types of the connections and of the streams.
TypeOK ==
    /\ clock \in 0..MaxClock
    /\ table \subseteq Connections /\ streaming \subseteq Connections
    /\ gone \subseteq Connections
    /\ state \in [Connections -> ActiveStates \cup {"new", "closed"}]
    /\ tenant \in [Connections -> Tenants]
    /\ lastActivity \in [Connections -> 0..MaxClock]
    /\ pc \in [Streams -> Labels]
    /\ conn \in [Streams -> Connections \cup {NoConnection}]
    /\ \A g \in Streams : pc[g] \notin Ended => conn[g] \in Connections
    /\ buffer \in [Streams -> 0..(ChunkSize - 1)]
    /\ total \in [Streams -> 0..MaxTokens]
    /\ yielded \in [Streams -> 0..MaxTokens]
    /\ cut \in [Streams -> BOOLEAN] /\ failed \in [Streams -> BOOLEAN]
    /\ crossed \in [Streams -> BOOLEAN]

\* A connection is active exactly while the manager holds it: a stream that
\* ends after its connection was closed does not reopen it, so that a tenant
\* never has more than max_connections_per_tenant.
ActiveIsHeld ==
    /\ TypeOK
    /\ table = {c \in Connections : state[c] \in ActiveStates}
    /\ \A t \in Tenants : Cardinality(Held(t)) <= MaxConnections

\* on_disconnect "stops any active streams": wherever a stream of the
\* connection is suspended, it takes no more token from its source, and at most
\* sends what it holds back.
StopsAtDisconnect ==
    [][\A g \in Streams : conn[g] \in gone =>
          /\ total'[g] = total[g]
          /\ yielded'[g] \in {yielded[g], yielded[g] + buffer[g]}]_vars

\* _active_streams has one entry for all streams of a connection.  A stream is
\* broken off only when the connection was closed, or when another stream that
\* was under way on the connection beside it has left its try: never by one
\* that had ended before, nor by one of another connection.
CutOnlyWhenClosed ==
    \A g \in Streams : cut[g] => state[conn[g]] = "closed" \/ crossed[g]

\* When STREAM_END is sent every token that was counted (total_tokens), from a
\* source that did not fail, has been sent, whatever the chunk size and wherever
\* the loop was left.  (The token that arrives at the break is not counted.)
EndIsComplete ==
    \A g \in Streams :
        pc[g] = "ended" /\ ~failed[g] => yielded[g] = total[g]
==============================================================================
