-------------------------------- MODULE MCSdk --------------------------------
(* Sdk in one run: its two parts share nothing that changes, and one moves.  *)
EXTENDS Sdk, TLC

CONSTANTS t1, t2, v1, v2, s1, s2, s3, e1, e2, p1, p2

VARIABLE part

queueVars == <<load, online, outages, untracked, dedup, store, requests, sent, refused>>

all == <<vars, queueVars, part>>

AllInit == Init /\ Queue!Init /\ part \in {"queue", "identity"}

AllNext ==
    /\ UNCHANGED part
    /\ \/ part = "identity" /\ Next /\ UNCHANGED queueVars
       \/ part = "queue" /\ Queue!Next /\ UNCHANGED vars

AllSpec == AllInit /\ [][AllNext]_all

Symmetry == Permutations(Tabs) \cup Permutations(VisitorIds) \cup
            Permutations(SessionIds) \cup Permutations(Events)
==============================================================================
