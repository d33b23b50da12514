----------------------------- MODULE MCIngestion -----------------------------
(* Model values, batches and symmetry for the runs of Ingestion. *)
EXTENDS Ingestion, TLC

CONSTANTS r1, r2, a, u, j1, w1, meta

Event(id) == [id |-> id, heartbeat |-> FALSE, stale |-> FALSE]
Beat      == [id |-> None, heartbeat |-> TRUE, stale |-> FALSE]
Stale(id) == [id |-> id, heartbeat |-> FALSE, stale |-> TRUE]

Mixed == {<<Event(a)>>, <<Beat, Event(a)>>, <<Event(None), Stale(a)>>}

Symmetry == Permutations(Requests) \cup Permutations(Jobs)
==============================================================================
