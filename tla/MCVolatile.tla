------------------------------ MODULE MCVolatile ------------------------------
(* VolatileState in one run: its four parts share nothing, and one moves.     *)
(* The tracker moves twice: two requests any of whose commands may fail, and  *)
(* three while Redis answers, so that two returning requests overlap.         *)
EXTENDS VolatileState, TLC

CONSTANTS c1, c2, c3, c4, r1, r2, r3, v1, v2, s1, s2, s3, source, gclid

VARIABLE part

visitVars == <<visitorHash, sessionHash, request>>
touchVars == <<touch, ttl, touching>>
tokenVars == <<cached, send, clock>>
all == <<vars, visitVars, touchVars, tokenVars, part>>

AllInit ==
    /\ Init /\ Visit!Init /\ Touch!Init /\ Token!Init
    /\ part \in {"breaker", "visit", "calm", "touch", "token"}

\* Requests start, and session ids are minted, in an order: the tracker knows
\* no other difference between them.
InOrder ==
    /\ \A p \in {<<r1, r2>>, <<r2, r3>>} :
          request[p[2]].pc # "new" => request[p[1]].pc # "new"
    /\ \A p \in {<<s1, s2>>, <<s2, s3>>} :
          (\E r \in Requests : request[r].session = p[2])
             => \E r \in Requests : request[r].session = p[1]

\* Two requests of any visitors; two of a visitor after a first one of it.
Two == request[r3].pc = "new"
Returning == request[r2].pc # "new" => /\ request[r1].pc \in Visit!Ended
                                       /\ request[r2].visitor = request[r1].visitor
                                       /\ request[r3].visitor \in {request[r1].visitor, None}

AllNext ==
    /\ UNCHANGED part
    /\ \/ part = "breaker" /\ Next /\ UNCHANGED <<visitVars, touchVars, tokenVars>>
       \/ part = "visit" /\ Visit!Next /\ Two' /\ InOrder'
          /\ UNCHANGED <<vars, touchVars, tokenVars>>
       \/ part = "calm" /\ Calm!Next /\ Returning' /\ InOrder'
          /\ UNCHANGED <<vars, touchVars, tokenVars>>
       \/ part = "touch" /\ Touch!Next /\ UNCHANGED <<vars, visitVars, tokenVars>>
       \/ part = "token" /\ Token!Next /\ UNCHANGED <<vars, visitVars, touchVars>>

AllSpec == AllInit /\ [][AllNext]_all

\* Touching and Sends hold the same three model values, of the four of Calls.
Symmetry == Permutations(Touching) \cup Permutations(Visitors)

===============================================================================
