------------------------------- MODULE LastTouch -------------------------------
(***************************************************************************)
(* The last touch of one visitor: AttributionEngineService.resolve over    *)
(* the Redis hash lt:attribution:<project>:<visitor>.  A request that      *)
(* carries attribution fields replaces the hash; one that carries none     *)
(* reads it, writes it back to renew its TTL, and is answered with it.     *)
(*                                                                         *)
(* setAttribution is three Redis commands, and requests of the visitor     *)
(* interleave between them.  A value is named by the request it came with. *)
(***************************************************************************)
CONSTANTS
    Requests,
    Fields,     \* ATTRIBUTION_FIELDS
    Reply       \* how a Redis command may end, as in Tracker: a bound on what fails

VARIABLES
    touch,      \* the hash: a value for some of the fields
    ttl,        \* the key has an expiry
    request     \* where each request is

vars == <<touch, ttl, request>>

Nothing == [f \in {} |-> {}]                 \* no key, no hash, {}
Touches == UNION {[S -> Requests] : S \in SUBSET Fields}

Ended == {"answered", "crashed"}

RequestState ==
    [pc : {"new", "get", "del", "hset", "expire"} \cup Ended,
     own       : BOOLEAN,          \* it carries a touch
     hand      : Touches,          \* what it writes, and is answered with
     before    : SUBSET Requests,  \* those that had ended when it began
     written   : BOOLEAN,          \* its HSET was executed
     unexpired : BOOLEAN]          \* it executed an HSET and no EXPIRE after

TypeOK ==
    /\ touch \in Touches
    /\ ttl \in BOOLEAN
    /\ request \in [Requests -> RequestState]

Init ==
    /\ touch = Nothing
    /\ ttl = FALSE
    /\ request = [r \in Requests |->
          [pc |-> "new", own |-> FALSE, hand |-> Nothing, before |-> {},
           written |-> FALSE, unexpired |-> FALSE]]

-------------------------------------------------------------------------------
(* AttributionEngineService.resolve                                         *)

\* pickAttribution keeps the fields the DTO fills: S.
Start(r, S) ==
    /\ request[r].pc = "new"
    /\ request' = [request EXCEPT ![r] = [@ EXCEPT
          !.pc     = IF S = {} THEN "get" ELSE "del",
          !.own    = S # {},
          !.hand   = [f \in S |-> r],
          !.before = {q \in Requests : request[q].pc \in Ended}]]
    /\ UNCHANGED <<touch, ttl>>

\* getAttribution: nothing cached, or an outage, answers {}.
GetAttribution(r) ==
    /\ request[r].pc = "get"
    /\ \E cached \in {touch} \cup IF Reply = {"ok"} THEN {} ELSE {Nothing} :
          request' = [request EXCEPT ![r] = [@ EXCEPT
              !.pc = IF cached = Nothing THEN "answered" ELSE "del", !.hand = cached]]
    /\ UNCHANGED <<touch, ttl>>

-------------------------------------------------------------------------------
(* TrackerRepository.setAttribution: DEL, HSET, EXPIRE.  When one fails,    *)
(* safeRedis skips the rest and the request is answered all the same.       *)

\* Mutant of Deleted: the DEL is forgotten.
NotDeleted == UNCHANGED <<touch, ttl>>

Deleted == touch' = Nothing /\ ttl' = FALSE

Del(r) ==
    /\ request[r].pc = "del"
    /\ \E reply \in Reply :
          /\ IF reply = "refused" THEN UNCHANGED <<touch, ttl>> ELSE Deleted
          /\ request' = [request EXCEPT ![r].pc =
                            IF reply = "ok" THEN "hset" ELSE "answered"]

\* HSET adds to what is there, and leaves an existing key's TTL alone.
Over(hand) == [f \in DOMAIN hand \cup DOMAIN touch |->
                  IF f \in DOMAIN hand THEN hand[f] ELSE touch[f]]

Hset(r) ==
    /\ touch' = Over(request[r].hand)
    /\ ttl' = (touch # Nothing /\ ttl)

SetFields(r) ==
    /\ request[r].pc = "hset"
    /\ \E reply \in Reply :
          /\ IF reply = "refused" THEN UNCHANGED <<touch, ttl>> ELSE Hset(r)
          /\ request' = [request EXCEPT ![r] = [@ EXCEPT
                !.pc = IF reply = "ok" THEN "expire" ELSE "answered",
                !.written = (reply # "refused"),
                !.unexpired = (reply = "lost")]]

\* EXPIRE of an absent key does nothing.
Expire == ttl' = (touch # Nothing)

SetExpiry(r) ==
    /\ request[r].pc = "expire"
    /\ \E reply \in Reply :
          /\ IF reply = "refused" THEN UNCHANGED ttl ELSE Expire
          /\ request' = [request EXCEPT ![r] = [@ EXCEPT
                !.pc = "answered", !.unexpired = (reply = "refused")]]
    /\ UNCHANGED touch

-------------------------------------------------------------------------------
Crash(r) ==
    /\ request[r].pc \notin Ended \cup {"new"}
    /\ request' = [request EXCEPT ![r] = [@ EXCEPT !.pc = "crashed",
          !.unexpired = (request[r].pc = "expire")]]
    /\ UNCHANGED <<touch, ttl>>

\* ATTRIBUTION_TTL_SECONDS elapse.
Elapse ==
    /\ touch # Nothing /\ ttl
    /\ touch' = Nothing /\ ttl' = FALSE
    /\ UNCHANGED request

Next ==
    \/ Elapse
    \/ \E r \in Requests :
          \/ \E S \in SUBSET Fields : Start(r, S)
          \/ GetAttribution(r) \/ Del(r) \/ SetFields(r) \/ SetExpiry(r)
          \/ Crash(r)

Spec == Init /\ [][Next]_vars

-------------------------------------------------------------------------------
\* r's touch reached Redis undisturbed and is the newest: r overlapped nobody,
\* and nobody after it carries a touch.
Newest(r) ==
    /\ request[r].own /\ request[r].written /\ request[r].pc \in Ended
    /\ \A q \in Requests \ {r} :
          \/ request[q].pc = "new"
          \/ q \in request[r].before
          \/ r \in request[q].before /\ ~request[q].own

\* The newest touch stays whole: however many events without a touch write it
\* back at once, expire it, fail halfway or die, what is cached and what they
\* are answered with is that touch, all of it, or nothing.
NewestTouchStays ==
    \A r \in Requests : Newest(r) =>
        /\ touch \in {Nothing, request[r].hand}
        /\ \A q \in Requests : r \in request[q].before =>
              request[q].hand \in {Nothing, request[r].hand}

\* The hash has an expiry, unless a request is about to set it, or died or was
\* failed by Redis before it could.
TouchExpires ==
    touch = Nothing \/ ttl \/
    \E r \in Requests : request[r].pc = "expire" \/ request[r].unexpired
================================================================================
