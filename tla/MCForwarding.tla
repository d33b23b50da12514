---------------------------- MODULE MCForwarding ----------------------------
(* Model values and symmetry for the runs of Forwarding, in two parts.  Two   *)
(* callers race and workers die, and a job that stalls is given up; or there  *)
(* is one caller, and a job that stalls is run again, while the worker that   *)
(* lost its lock may live on.                                                 *)
EXTENDS Forwarding, TLC

CONSTANTS c1, c2, w1, w2, j1, j2, e1, e2, meta, google

VARIABLE part

\* BullMQ configured with maxStalledCount 0.
Strict == INSTANCE Forwarding WITH MaxStalls <- 0

\* A run is taken for stalled only when its worker has died.
OnlyDeadStall ==
    \A j \in Jobs : job'[j].stalls > job[j].stalls =>
        \A w \in Workers : worker[w].job # j

OneCalls == \A c, d \in Callers : c = d \/ caller'[c].pc = "idle" \/ caller'[d].pc = "idle"

MCInit == Init /\ part \in {"race", "stall"}

MCNext ==
    /\ UNCHANGED part
    /\ \/ part = "race" /\ Strict!Next /\ OnlyDeadStall
       \/ part = "stall" /\ Next /\ OneCalls

MCSpec == MCInit /\ [][MCNext]_<<vars, part>>

Symmetry == Permutations(Callers) \cup Permutations(Workers) \cup Permutations(Jobs)
=============================================================================
