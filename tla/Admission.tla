-------------------------------- MODULE Admission --------------------------------
(***************************************************************************)
(* What POST /events goes through before the pipeline: ProjectApiKeyGuard, *)
(* ProjectRateLimitGuard, ThrottlerGuard and assertDomainAllowed, while    *)
(* the dashboard's calls (module Accounts) change the rows they read.      *)
(*                                                                         *)
(* The rate limiter counts in Redis, in a key per project and minute that  *)
(* is incremented first and given its TTL by a second command; any failure *)
(* of Redis lets the request through.  A command whose answer is lost with *)
(* the connection is no failure yet: ioredis sends it again when it is     *)
(* connected again (autoResendUnfulfilledCommands), though Redis may have  *)
(* executed it.                                                            *)
(***************************************************************************)
EXTENDS Accounts, FiniteSets

CONSTANTS
    Hosts,         \* host names pages have
    Requests,      \* calls of POST /events, each made at most once
    DefaultLimit,  \* DEFAULT_PROJECT_RATE_LIMIT_PER_MINUTE
    MaxWindow,     \* how many minutes pass: a bound
    MaxSends       \* how often an INCR is executed for one request: a bound

ASSUME AdmissionAssumption ==
    /\ IsFiniteSet(Requests)
    /\ None \notin Hosts
    /\ DefaultLimit \in Nat \ {0}
    /\ MaxWindow \in Nat \ {0}
    /\ MaxSends \in Nat \ {0}

Windows == 1..MaxWindow

VARIABLES
    request,  \* where each request is, and what it has in hand
    counter,  \* lt:ratelimit:<project>:<window>; count 0 is an absent key
    now       \* the current minute

admissionVars == <<request, counter, now>>
vars == <<accountVars, admissionVars>>

RequestState ==
    [pc      : {"idle", "key", "limit", "incr", "expire", "throttle", "origin",
                "admitted", "unauthorized", "limited", "throttled", "forbidden",
                "failed"},
     apiKey  : Keys \cup {None},
     origin  : Hosts \cup {None},    \* the host of Origin or Referer
     project : Projects \cup {None}, \* request.project, as it was looked up
     domain  : Domains \cup {None},    \* its domain then
     limit   : Limits \cup {DefaultLimit},
     window  : Windows,
     incrs   : 0..MaxSends,          \* how often Redis executed its INCR
     count   : Nat,                  \* what INCR answered, 0 when it did not
     late    : BOOLEAN,              \* the window was over by then
     cut     : BOOLEAN]              \* the guard's Redis commands failed

IdleRequest == [pc |-> "idle", apiKey |-> None, origin |-> None,
                project |-> None, domain |-> None, limit |-> DefaultLimit,
                window |-> 1, incrs |-> 0, count |-> 0, late |-> FALSE,
                cut |-> FALSE]

CounterKeys == Projects \X Windows
Absent == [count |-> 0, ttl |-> FALSE]

TypeOK ==
    /\ AccountsTypeOK
    /\ request \in [Requests -> RequestState]
    /\ counter \in [CounterKeys -> [count : Nat, ttl : BOOLEAN]]
    /\ now \in Windows

Init ==
    /\ AccountsInit
    /\ request = [r \in Requests |-> IdleRequest]
    /\ counter = [k \in CounterKeys |-> Absent]
    /\ now = 1

RequestTo(r, pc) == request' = [request EXCEPT ![r].pc = pc]

\* The request is let through to the pipeline, or answered with an error.
EndRequest(r, pc) ==
    request' = [request EXCEPT ![r] = [@ EXCEPT !.pc = pc, !.origin = None,
                   !.domain = None]]

-------------------------------------------------------------------------------
(* ProjectApiKeyGuard                                                       *)

\* The key may be current, replaced, or not written yet.
Send(r) ==
    /\ request[r].pc = "idle"
    /\ \E key \in Keys, origin \in Hosts \cup {None} :
          request' = [request EXCEPT ![r] = [@ EXCEPT !.pc = "key",
                         !.apiKey = key, !.origin = origin]]
    /\ UNCHANGED <<accountVars, counter, now>>

\* findUnique({ apiKeyHash })
FindProject(r) ==
    /\ request[r].pc = "key"
    /\ \/ \E p \in Projects :
             /\ IsProject(p)
             /\ project[p].apiKey = request[r].apiKey
             /\ request' = [request EXCEPT ![r] = [@ EXCEPT !.pc = "limit",
                               !.project = p, !.domain = project[p].domain]]
       \/ /\ \A p \in Projects : IsProject(p) => project[p].apiKey # request[r].apiKey
          /\ EndRequest(r, "unauthorized")
    /\ UNCHANGED <<accountVars, counter, now>>

-------------------------------------------------------------------------------
(* ProjectRateLimitGuard                                                    *)

\* resolveTrackerConfig: absent fields have defaults.
LimitOf(config) == IF config.rateLimitPerMinute = None THEN DefaultLimit
                   ELSE config.rateLimitPerMinute

\* The configuration is read, then the clock: the window is fixed here.
ReadLimit(r) ==
    /\ request[r].pc = "limit"
    /\ request' = [request EXCEPT ![r] = [@ EXCEPT !.pc = "incr",
                      !.limit = LimitOf(project[request[r].project].config),
                      !.window = now]]
    /\ UNCHANGED <<accountVars, counter, now>>

CounterOf(r) == <<request[r].project, request[r].window>>

\* Mutant of OverLimit: the request that fills the window is refused.
AtLimit(count, limit) == count >= limit

OverLimit(count, limit) == count > limit

\* Mutant of FirstOfWindow: it is the second request that sets the TTL.
SecondOfWindow(count) == count = 2

FirstOfWindow(count) == count = 1

Judged(count, limit) ==
    IF FirstOfWindow(count) THEN "expire"
    ELSE IF OverLimit(count, limit) THEN "limited" ELSE "throttle"

\* INCR is executed, and answered, or its answer is lost and it may be sent again.
Incr(r) ==
    LET count == counter[CounterOf(r)].count + 1 IN
    /\ request[r].pc = "incr"
    /\ request[r].incrs < MaxSends
    /\ counter' = [counter EXCEPT ![CounterOf(r)].count = count]
    /\ \/ request' = [request EXCEPT ![r] = [@ EXCEPT !.incrs = request[r].incrs + 1,
             !.late = (now > request[r].window), !.count = count,
             !.pc = Judged(count, request[r].limit)]]
       \/ request' = [request EXCEPT ![r].incrs = request[r].incrs + 1]
    /\ UNCHANGED <<accountVars, now>>

\* EXPIRE is executed, which does nothing to a key that is gone; it is sent again
\* likewise.
Expire(r) ==
    /\ request[r].pc = "expire"
    /\ counter' = [counter EXCEPT ![CounterOf(r)].ttl = (counter[CounterOf(r)].count > 0)]
    /\ \/ RequestTo(r, IF OverLimit(request[r].count, request[r].limit)
                       THEN "limited" ELSE "throttle")
       \/ UNCHANGED request
    /\ UNCHANGED <<accountVars, now>>

\* Redis refuses INCR or EXPIRE, or is away for longer than ioredis sends them again:
\* fail open.
RedisFails(r) ==
    /\ request[r].pc \in {"incr", "expire"}
    /\ request' = [request EXCEPT ![r] = [@ EXCEPT !.pc = "throttle", !.cut = TRUE]]
    /\ UNCHANGED <<accountVars, counter, now>>

-------------------------------------------------------------------------------
(* ThrottlerGuard and TrackerService.assertDomainAllowed                    *)

\* 60 requests a minute and address, in the memory of the instance.
Throttle(r) ==
    /\ request[r].pc = "throttle"
    /\ RequestTo(r, "origin") \/ EndRequest(r, "throttled")
    /\ UNCHANGED <<accountVars, counter, now>>

\* [project.domain, ...config.allowedDomains]: the domain as the guard found
\* it, the configuration as it is now.
AllowedHosts(r) ==
    LET config == project[request[r].project].config IN
    ({request[r].domain} \cup
     IF config.allowedDomains = None THEN {} ELSE config.allowedDomains) \ {None}

IsDomainAllowed(host, allowed) == host = None \/ allowed = {} \/ host \in allowed

CheckOrigin(r) ==
    /\ request[r].pc = "origin"
    /\ EndRequest(r, IF IsDomainAllowed(request[r].origin, AllowedHosts(r))
                     THEN "admitted" ELSE "forbidden")
    /\ UNCHANGED <<accountVars, counter, now>>

\* A read of Postgres fails; without an origin none is made.
FailRequest(r) ==
    /\ request[r].pc \in {"key", "limit", "origin"}
    /\ request[r].pc = "origin" => request[r].origin # None
    /\ EndRequest(r, "failed")
    /\ UNCHANGED <<accountVars, counter, now>>

\* The instance dies between the guard's Redis commands.
Die(r) ==
    /\ request[r].pc \in {"incr", "expire"}
    /\ request' = [request EXCEPT ![r] = [@ EXCEPT !.pc = "failed", !.cut = TRUE]]
    /\ UNCHANGED <<accountVars, counter, now>>

RequestStep(r) ==
    \/ Send(r) \/ FindProject(r) \/ ReadLimit(r) \/ Incr(r) \/ Expire(r)
    \/ RedisFails(r) \/ Throttle(r) \/ CheckOrigin(r) \/ FailRequest(r) \/ Die(r)

-------------------------------------------------------------------------------
Tick ==
    /\ now < MaxWindow
    /\ now' = now + 1
    /\ UNCHANGED <<accountVars, request, counter>>

\* The TTL is a window long and starts within the window, or after it.
ExpireKey(k) ==
    /\ counter[k].ttl
    /\ now > k[2]
    /\ counter' = [counter EXCEPT ![k] = Absent]
    /\ UNCHANGED <<accountVars, request, now>>

Next ==
    \/ AccountsNext /\ UNCHANGED admissionVars
    \/ \E r \in Requests : RequestStep(r)
    \/ Tick
    \/ \E k \in CounterKeys : ExpireKey(k)

Spec == Init /\ [][Next]_vars

-------------------------------------------------------------------------------
\* Tenants stay apart: a request acts for the project its key was generated
\* for, whichever rotations and creations overlap with it, and nobody changes
\* a project of another workspace.
TenantsApart ==
    /\ ProjectsApart
    /\ \A r \in Requests : request[r].project # None =>
          IssuedFor(request[r].apiKey, request[r].project)

\* The requests Redis counted for key k, and the INCRs it executed for them.
CountedIn(k) == {r \in Requests : request[r].incrs > 0 /\ CounterOf(r) = k}
Increments(k) ==
    {i \in Requests \X (1..MaxSends) : CounterOf(i[1]) = k /\ i[2] <= request[i[1]].incrs}

\* The requests of window k, counted in time, that the guard let through by
\* their count.
LetThrough(k) ==
    {r \in CountedIn(k) : /\ request[r].count # 0 /\ ~request[r].late
                          /\ request[r].pc # "limited"}

\* The limit is exact, though it may be changed in the middle of a minute: no
\* more requests pass by their count than a limit allows, and one is answered
\* 429 only when Redis executed more INCRs than its limit in its minute: its own,
\* which it may have executed several times, and those of others.
LimitExact ==
    \A k \in CounterKeys :
        /\ \A r \in LetThrough(k) :
              Cardinality({s \in LetThrough(k) : request[s].limit <= request[r].limit})
                  <= request[r].limit
        /\ \A r \in CountedIn(k) : request[r].pc = "limited" =>
              Cardinality(Increments(k)) > request[r].limit

\* Request q may have opened a counter and not have given it its TTL: it has no
\* answer yet, is about to set it, was cut off, or had its INCR executed again and
\* was not told that it was the first of its window.
MayOwe(q) ==
    \/ q.pc \in {"incr", "expire"}
    \/ q.cut
    \/ q.incrs > 1 /\ q.count # 1

\* A counter without a TTL stays for ever: there is none but of such a request.
CountersExpire ==
    \A k \in CounterKeys : counter[k].count > 0 /\ ~counter[k].ttl =>
        \E r \in CountedIn(k) : MayOwe(request[r])
===============================================================================
