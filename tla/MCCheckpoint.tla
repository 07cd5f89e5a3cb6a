---- MODULE MCCheckpoint ----
EXTENDS Checkpoint
====
