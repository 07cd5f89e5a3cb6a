---- MODULE MCWebSocket ----
EXTENDS WebSocket, TLC

Symmetry == Permutations(Connections) \cup Permutations(Streams)
====
