-------------------------------- MODULE Tracker --------------------------------
(***************************************************************************)
(* The tracker's view of a visitor: TrackerService.processIngestion with   *)
(* VisitorManager and SessionManager over the Redis hashes of              *)
(* TrackerRepository.  What it does next, the last touch, is module        *)
(* LastTouch.                                                              *)
(*                                                                         *)
(* Every Redis command is a step of its own, and requests of one visitor   *)
(* interleave between them: the code reads a hash, computes, and writes it *)
(* back.  A command may fail, before or after Redis executed it; the       *)
(* repository then falls back and the request goes on.  Hashes with a TTL  *)
(* may expire at any moment, and an instance may die between two commands. *)
(***************************************************************************)
EXTENDS Integers, FiniteSets

CONSTANTS
    Requests,    \* calls of processIngestion
    Visitors,
    SessionIds,  \* ids generateSessionId may return
    Reply,       \* how a Redis command may end: a bound on what fails
    None

VARIABLES
    visitorHash,   \* lt:visitor:<project>:<visitor>, None when absent
    sessionHash,   \* lt:session:<project>:<session>, None when absent
    request        \* where each request is, and what it has in hand

vars == <<visitorHash, sessionHash, request>>

\* What the code reads back of a hash, besides the dates that nothing depends on;
\* firstSeenAt is the request that set it, and ttl says whether the key has an
\* expiry.
VisitorHash == [sessionCount : Nat, firstSeenAt : Requests, ttl : BOOLEAN]
SessionHash == [visitor : Visitors, ttl : BOOLEAN]

\* A Redis command is executed and answered ("ok"), or executed and its answer
\* lost, or refused.  safeRedis cannot tell the last two apart; a failed read
\* gives its fallback, null.
Read(hash) == {hash} \cup IF Reply = {"ok"} THEN {} ELSE {None}

Answered == {"ignored", "ok", "event"}
Ended == Answered \cup {"threw", "crashed"}

RequestState ==
    [pc : {"new", "getVisitor", "setVisitor", "expireVisitor", "session",
           "setSession", "expireSession", "touchSession", "getCount", "setCount",
           "expireCount", "finish"} \cup Ended,
     visitor      : Visitors \cup {None},
     before       : SUBSET Requests,  \* of its visitor, those ended when it began
     sent         : SessionIds \cup {None},     \* the DTO's sessionId
     existing     : VisitorHash \cup {None},    \* the visitor hash it read
     isNewVisitor : BOOLEAN,
     written      : BOOLEAN,     \* an HSET of its visitor was executed
     session      : SessionIds \cup {None},     \* the session it answers with
     isNewSession : BOOLEAN,
     unexpired    : BOOLEAN]     \* it executed an HSET and not the EXPIRE after

NewRequest ==
    [pc |-> "new", visitor |-> None, before |-> {}, sent |-> None, existing |-> None,
     isNewVisitor |-> FALSE, written |-> FALSE, session |-> None,
     isNewSession |-> FALSE, unexpired |-> FALSE]

TypeOK ==
    /\ visitorHash \in [Visitors -> VisitorHash \cup {None}]
    /\ sessionHash \in [SessionIds -> SessionHash \cup {None}]
    /\ request \in [Requests -> RequestState]

Init ==
    /\ visitorHash = [v \in Visitors |-> None]
    /\ sessionHash = [s \in SessionIds |-> None]
    /\ request = [r \in Requests |-> NewRequest]

Visitor(r) == request[r].visitor

-------------------------------------------------------------------------------
(* TrackerService.processIngestion                                          *)

\* The ids a client can know: those it was answered with, and those of others.
Issued == {request[r].session : r \in {q \in Requests : request[q].pc \in Answered}}

\* The config is read; the event's name is allowed.
Start(r) ==
    /\ request[r].pc = "new"
    /\ \E v \in Visitors, s \in Issued \cup {None} :
          request' = [request EXCEPT ![r] = [@ EXCEPT !.pc = "getVisitor",
              !.visitor = v, !.sent = s,
              !.before = {q \in Requests : request[q].pc \in Ended /\ Visitor(q) = v}]]
    /\ UNCHANGED <<visitorHash, sessionHash>>

\* The event's name is blocked; or the config's Postgres read throws.
Refuse(r) ==
    /\ request[r].pc = "new"
    /\ \E pc \in {"ignored", "threw"} : request' = [request EXCEPT ![r].pc = pc]
    /\ UNCHANGED <<visitorHash, sessionHash>>

\* A heartbeat is answered here, an event goes on to its attribution.
Finish(r) ==
    /\ request[r].pc = "finish"
    /\ \E pc \in {"ok", "event"} : request' = [request EXCEPT ![r].pc = pc]
    /\ UNCHANGED <<visitorHash, sessionHash>>

-------------------------------------------------------------------------------
(* VisitorManagerService.resolve                                            *)

\* getVisitorHash
GetVisitor(r) ==
    /\ request[r].pc = "getVisitor"
    /\ \E h \in Read(visitorHash[Visitor(r)]) :
          request' = [request EXCEPT ![r] = [@ EXCEPT !.pc = "setVisitor",
              !.existing = h, !.isNewVisitor = (h = None)]]
    /\ UNCHANGED <<visitorHash, sessionHash>>

\* HSET leaves the key's TTL alone.
Hset(v, hash) ==
    visitorHash' = [visitorHash EXCEPT ![v] =
        [sessionCount |-> hash.sessionCount, firstSeenAt |-> hash.firstSeenAt,
         ttl |-> IF visitorHash[v] = None THEN FALSE ELSE visitorHash[v].ttl]]

FirstVisit(r) == [sessionCount |-> 0, firstSeenAt |-> r]

\* Mutants of Seen: what is stored as the count of a first visit is no number;
\* every visit counts as a session; and every visit is the first.
SeenUncounted(r) == [sessionCount |-> None, firstSeenAt |-> r]
SeenAndCounted(r) ==
    IF request[r].existing = None THEN FirstVisit(r)
    ELSE [request[r].existing EXCEPT !.sessionCount = @ + 1]
SeenFirst(r) ==
    IF request[r].existing = None THEN FirstVisit(r)
    ELSE [request[r].existing EXCEPT !.firstSeenAt = r]

\* What resolve writes: the hash of a first visit, or what it read.
Seen(r) == IF request[r].existing = None THEN FirstVisit(r) ELSE request[r].existing

\* Mutant of SetHash: safeRedis rethrows.
SetHashThrows(r, expire, past, hash) ==
    \E reply \in Reply :
        /\ IF reply = "refused" THEN UNCHANGED visitorHash ELSE Hset(Visitor(r), hash)
        /\ request' = [request EXCEPT ![r].pc = IF reply = "ok" THEN expire ELSE "threw"]

\* An HSET by r: the request goes on to the EXPIRE, or falls back past it.
SetHash(r, expire, past, hash) ==
    \E reply \in Reply :
        /\ IF reply = "refused" THEN UNCHANGED visitorHash ELSE Hset(Visitor(r), hash)
        /\ request' = [request EXCEPT ![r] = [@ EXCEPT
              !.pc = IF reply = "ok" THEN expire ELSE past,
              !.written = (request[r].written \/ reply # "refused"),
              !.unexpired = (request[r].unexpired \/ reply = "lost")]]

\* Mutant of ExpireHash: setVisitorHash forgets the EXPIRE.
NoExpireHash(r, next) ==
    /\ request' = [request EXCEPT ![r].pc = next]
    /\ UNCHANGED visitorHash

\* An EXPIRE by r of its visitor's key, which may be gone by now.
ExpireHash(r, next) ==
    \E reply \in Reply :
        /\ visitorHash' =
              IF reply # "refused" /\ visitorHash[Visitor(r)] # None
              THEN [visitorHash EXCEPT ![Visitor(r)] = [visitorHash[Visitor(r)] EXCEPT !.ttl = TRUE]]
              ELSE visitorHash
        /\ request' = [request EXCEPT ![r] = [@ EXCEPT !.pc = next,
              !.unexpired = (request[r].unexpired \/ reply = "refused")]]

SetVisitor(r) ==
    /\ request[r].pc = "setVisitor"
    /\ SetHash(r, "expireVisitor", "session", Seen(r))
    /\ UNCHANGED sessionHash

ExpireVisitor(r) ==
    /\ request[r].pc = "expireVisitor"
    /\ ExpireHash(r, "session")
    /\ UNCHANGED sessionHash

-------------------------------------------------------------------------------
(* SessionManagerService.resolve                                            *)

\* Mutant of Theirs: the visitor of the session is not compared.
AnyonesSession(r, h) == h # None

\* existing && existing.visitorId === visitorId
Theirs(r, h) == h # None /\ h.visitor = Visitor(r)

\* getSessionHash, when the DTO has a sessionId: renew the session or mint one.
GetSession(r) ==
    /\ request[r].pc = "session"
    /\ request[r].sent # None
    /\ \E h \in Read(sessionHash[request[r].sent]) :
          \/ /\ Theirs(r, h)
             /\ request' = [request EXCEPT ![r] = [@ EXCEPT !.pc = "touchSession",
                    !.session = request[r].sent]]
          \/ /\ ~Theirs(r, h)
             /\ request' = [request EXCEPT ![r].pc = "setSession"]
    /\ UNCHANGED <<visitorHash, sessionHash>>

NoSessionSent(r) ==
    /\ request[r].pc = "session"
    /\ request[r].sent = None
    /\ request' = [request EXCEPT ![r].pc = "setSession"]
    /\ UNCHANGED <<visitorHash, sessionHash>>

\* The session hashes after an EXPIRE of s, which may be gone by now.
SessionExpire(s, reply) ==
    IF reply # "refused" /\ sessionHash[s] # None
    THEN [sessionHash EXCEPT ![s] = [sessionHash[s] EXCEPT !.ttl = TRUE]]
    ELSE sessionHash

\* touchSessionTtl
TouchSession(r) ==
    /\ request[r].pc = "touchSession"
    /\ \E reply \in Reply : sessionHash' = SessionExpire(request[r].session, reply)
    /\ request' = [request EXCEPT ![r].pc = "finish"]
    /\ UNCHANGED visitorHash

\* Where a request with a new session goes on: a returning visitor's session
\* is counted.
AfterSession(r) == IF request[r].isNewVisitor THEN "finish" ELSE "getCount"

\* setSessionHash of a fresh id: HSET ...
SetSession(r) ==
    /\ request[r].pc = "setSession"
    /\ \E s \in SessionIds, reply \in Reply :
          /\ \A q \in Requests : request[q].session # s
          /\ sessionHash' = IF reply = "refused" THEN sessionHash
                ELSE [sessionHash EXCEPT ![s] =
                        [visitor |-> Visitor(r), ttl |-> FALSE]]
          /\ request' = [request EXCEPT ![r] = [@ EXCEPT
                !.pc = IF reply = "ok" THEN "expireSession" ELSE AfterSession(r),
                !.session = s, !.isNewSession = TRUE,
                !.unexpired = (request[r].unexpired \/ reply = "lost")]]
    /\ UNCHANGED visitorHash

\* ... and EXPIRE.
ExpireSession(r) ==
    /\ request[r].pc = "expireSession"
    /\ \E reply \in Reply :
          /\ sessionHash' = SessionExpire(request[r].session, reply)
          /\ request' = [request EXCEPT ![r] = [@ EXCEPT !.pc = AfterSession(r),
                !.unexpired = (request[r].unexpired \/ reply = "refused")]]
    /\ UNCHANGED visitorHash

-------------------------------------------------------------------------------
(* VisitorManagerService.incrementSessionCount                              *)

\* A second read: no hash, no count.
GetCount(r) ==
    /\ request[r].pc = "getCount"
    /\ \E h \in Read(visitorHash[Visitor(r)]) :
          request' = [request EXCEPT ![r] = [@ EXCEPT
              !.pc = IF h = None THEN "finish" ELSE "setCount", !.existing = h]]
    /\ UNCHANGED <<visitorHash, sessionHash>>

Incremented(h) == [h EXCEPT !.sessionCount = @ + 1]

SetCount(r) ==
    /\ request[r].pc = "setCount"
    /\ SetHash(r, "expireCount", "finish", Incremented(request[r].existing))
    /\ UNCHANGED sessionHash

ExpireCount(r) ==
    /\ request[r].pc = "expireCount"
    /\ ExpireHash(r, "finish")
    /\ UNCHANGED sessionHash

-------------------------------------------------------------------------------
RequestStep(r) ==
    \/ Start(r) \/ Refuse(r)
    \/ GetVisitor(r) \/ SetVisitor(r) \/ ExpireVisitor(r)
    \/ GetSession(r) \/ NoSessionSent(r) \/ TouchSession(r)
    \/ SetSession(r) \/ ExpireSession(r)
    \/ GetCount(r) \/ SetCount(r) \/ ExpireCount(r)
    \/ Finish(r)

\* The instance dies with the request in hand.
Crash(r) ==
    /\ request[r].pc \notin Ended \cup {"new"}
    /\ request' = [request EXCEPT ![r] = [@ EXCEPT !.pc = "crashed",
          !.unexpired = (request[r].unexpired \/
              request[r].pc \in {"expireVisitor", "expireSession", "expireCount"})]]
    /\ UNCHANGED <<visitorHash, sessionHash>>

\* A TTL elapses: VISITOR_TTL_SECONDS, or the project's session timeout.
Elapse ==
    \/ \E v \in Visitors :
          /\ visitorHash[v] # None /\ visitorHash[v].ttl
          /\ visitorHash' = [visitorHash EXCEPT ![v] = None]
          /\ UNCHANGED <<sessionHash, request>>
    \/ \E s \in SessionIds :
          /\ sessionHash[s] # None /\ sessionHash[s].ttl
          /\ sessionHash' = [sessionHash EXCEPT ![s] = None]
          /\ UNCHANGED <<visitorHash, request>>

Next == Elapse \/ \E r \in Requests : RequestStep(r) \/ Crash(r)

\* Node runs every ready continuation.  Nobody owes a request.
Fairness == \A r \in Requests : WF_vars(request[r].pc # "new" /\ RequestStep(r))

Spec == Init /\ [][Next]_vars
FairSpec == Spec /\ Fairness

-------------------------------------------------------------------------------
\* A session is one visitor's: whatever ids clients send, two requests that
\* were given the same session are of the same visitor.
SessionsArePrivate ==
    \A q, r \in Requests :
        /\ request[q].session # None
        /\ request[q].session = request[r].session
        => Visitor(q) = Visitor(r)

\* The requests that began a session of a visitor they had found.
Began(v) == {r \in Requests : /\ Visitor(r) = v
                              /\ request[r].isNewSession
                              /\ ~request[r].isNewVisitor}

\* A visitor's sessionCount never exceeds the sessions begun, however the
\* read-modify-writes of resolve and incrementSessionCount overlap.  (It may
\* fall behind: they overwrite each other.)
SessionsNotOvercounted ==
    \A v \in Visitors : visitorHash[v] # None =>
        visitorHash[v].sessionCount <= Cardinality(Began(v))

\* q's is the first visit that counts: q found no hash and wrote one while no
\* other request of its visitor was under way, and none after it found no hash.
FirstVisitStands(q) ==
    /\ request[q].isNewVisitor /\ request[q].written
    /\ \A r \in Requests \ {q} : Visitor(r) = Visitor(q) =>
          \/ r \in request[q].before
          \/ q \in request[r].before /\ ~request[r].isNewVisitor

\* Once a first visit stands, the visitor's firstSeenAt is its own, or Redis has
\* none any more, however the requests after it write their copies back over each
\* other's or over an expired hash.  Whatever stands, a firstSeenAt is that of a
\* request that found no hash (there was none yet, it had expired, or Redis did
\* not answer), and a request that found one follows another that did not.
FirstVisitsKept ==
    /\ \A q \in Requests : FirstVisitStands(q) =>
          visitorHash[Visitor(q)] = None \/ visitorHash[Visitor(q)].firstSeenAt = q
    /\ \A v \in Visitors : visitorHash[v] # None =>
          LET q == visitorHash[v].firstSeenAt IN Visitor(q) = v /\ request[q].isNewVisitor
    /\ \A r \in Requests : request[r].existing # None =>
          \E q \in Requests \ {r} : Visitor(q) = Visitor(r) /\ request[q].isNewVisitor

\* No key outlives its data for want of a TTL: a hash without one belongs to
\* a request that is about to set it, or whose EXPIRE failed, was skipped by
\* the fallback of a lost HSET, or was cut off by a crash.
KeysExpire ==
    /\ \A v \in Visitors : visitorHash[v] # None /\ ~visitorHash[v].ttl =>
          \E r \in Requests : Visitor(r) = v /\
             (request[r].pc \in {"expireVisitor", "expireCount"} \/ request[r].unexpired)
    /\ \A s \in SessionIds : sessionHash[s] # None /\ ~sessionHash[s].ttl =>
          \E r \in Requests : request[r].session = s /\
             (request[r].pc = "expireSession" \/ request[r].unexpired)

\* Redis is enrichment: whichever commands fail, a request that passed its
\* guards is answered, unless its instance dies.
OutageNeverSurfaces ==
    \A r \in Requests : request[r].pc = "getVisitor" ~>
        request[r].pc \in {"ok", "event", "crashed"}
================================================================================
