------------------------------ MODULE MCSettling ------------------------------
(* The liveness of Forwarding, of SdkQueue and of Tracker in one run: they    *)
(* share nothing, and one of them moves.  (Nothing that fairness drives is    *)
(* enabled in any before somebody hands it an event or a request, so the      *)
(* others may rest for ever.)                                                 *)
EXTENDS Forwarding

CONSTANTS c1, w1, j1, e1, e2, google

\* SdkQueue's constants and variables.
CONSTANTS Loads, Tracked, BatchMaxSize, MaxRetries, MaxOutages, t1, p1, p2

VARIABLES load, online, outages, untracked, dedup, store, requests, sent, refused

Queue == INSTANCE SdkQueue WITH Events <- Tracked, MaxAttempts <- MaxRetries

\* Tracker's.
CONSTANTS Requests, Visitors, SessionIds, Reply, r1, r2, v1, s1, s2

VARIABLES visitorHash, sessionHash, request

Visit == INSTANCE Tracker

VARIABLE part

queueVars == <<load, online, outages, untracked, dedup, store, requests, sent, refused>>
visitVars == <<visitorHash, sessionHash, request>>
all == <<vars, queueVars, visitVars, part>>

\* An instance that dies answers nobody: that of these requests does not.
InstanceStays == \A r \in Requests : request'[r].pc # "crashed"

AllNext ==
    /\ UNCHANGED part
    /\ \/ part = "forwarding" /\ Next /\ UNCHANGED <<queueVars, visitVars>>
       \/ part = "queue" /\ Queue!Next /\ UNCHANGED <<vars, visitVars>>
       \/ part = "visit" /\ Visit!Next /\ InstanceStays /\ UNCHANGED <<vars, queueVars>>

AllInit == Init /\ Queue!Init /\ Visit!Init /\ part \in {"forwarding", "queue", "visit"}

AllSpec ==
    /\ AllInit /\ [][AllNext]_all
    /\ Fairness /\ Queue!Fairness /\ Visit!Fairness

-------------------------------------------------------------------------------
\* No event of a browser goes round in buffer, flight and retries for ever, nor
\* waits for a flush that never comes.
EveryEventSettles == Queue!EveryEventSettles

\* Whichever Redis commands fail, a request that passed its guards is answered,
\* unless its instance dies.
OutageNeverSurfaces == Visit!OutageNeverSurfaces
================================================================================
