-------------------------------- MODULE Pipeline --------------------------------
(***************************************************************************)
(* EventPipelineService.run: one DTO through the seven stages, each called *)
(* through the middlewares of MiddlewareRegistry, which nest like the      *)
(* skins of an onion.  The registry is public and empty by default; what a *)
(* middleware does with the next() it is given is its own business:        *)
(*                                                                         *)
(*   it may call it once, twice, later, after it has settled, or never;    *)
(*   it may settle without waiting for it, and hide its failure; and it    *)
(*   may answer the request itself.                                        *)
(*                                                                         *)
(* The list of middlewares is read live, while runs are under way.  What   *)
(* the stages do to Postgres, Redis and the queue is module Ingestion; here *)
(* they are what they read and write of the context, and how they end.     *)
(***************************************************************************)
EXTENDS Canonical

CONSTANTS
    Runs,            \* calls of EventPipelineService.run
    Dtos,            \* the DTOs they may carry
    MaxMiddlewares,  \* how many middlewares are registered at most: a bound
    MaxMeddling,     \* how often a run's middlewares meddle: a bound
    MaxChanges       \* how often the registry changes: a bound

ASSUME PipelineAssumption ==
    /\ MaxMiddlewares \in Nat
    /\ MaxMeddling \in Nat
    /\ MaxChanges \in Nat
    /\ Dtos \subseteq Dto
    /\ \A dto \in Dtos : \/ dto.via = "events" /\ Admitted(dto)
                         \/ dto.via = "redirect" /\ Clicked(dto)

VARIABLES
    middlewares,   \* the length of the registry's list
    changes,       \* how often it changed, of MaxChanges
    run            \* the context of each run, and where it is

vars == <<middlewares, changes, run>>

\* The stages by their position.
Validate == 1
Normalize == 2
Enrich == 3
Persist == 4
EmitDomainEvents == 5
Forward == 6
Metrics == 7
Stage == Validate..Metrics

\* Positions in the onion: the middlewares, and the stage after the last one.
Depth == 0..MaxMiddlewares

\* One MiddlewareRegistry.run: its index, its calls of chain(i), and where the
\* stage was called.  A call is "open" while its middleware has not settled,
\* and "stage" while the stage is under way in it.
Dispatch ==
    [index : Depth \cup {-1},
     call  : [Depth -> {"none", "open", "stage", "resolved", "rejected"}],
     at    : Depth \cup {-1},
     times : Nat,         \* how often the stage was executed
     saw   : BOOLEAN]     \* it found what it needs in the context

NewDispatch ==
    [index |-> -1, call |-> [i \in Depth |-> "none"], at |-> -1, times |-> 0,
     saw |-> FALSE]

Run ==
    [pc       : {"new", "running", "answered", "threw"},
     dto      : Dtos,
     stage    : 0..Metrics,              \* the stage whose dispatch is awaited
     dispatch : [Stage -> Dispatch],
     inherits : BOOLEAN,                 \* the visitor's last touch, in Redis, holds a NUL
     decision : BOOLEAN,                 \* ctx.decision is set
     event    : BOOLEAN,                 \* ctx.event is set
     response : {"none", "ignored", "ok", "replayed", "middleware"},
     errors   : SUBSET Fields,           \* ctx.errors
     did      : SUBSET {"published", "enqueued", "counted"},
     meddled  : 0..MaxMeddling,   \* how often one resolved where its next() did not
     fault    : BOOLEAN]          \* a middleware, a database or a queue failed

NewRun(dto, inherits) ==
    [pc |-> "new", dto |-> dto, stage |-> 0,
     dispatch |-> [k \in Stage |-> NewDispatch],
     inherits |-> inherits, decision |-> FALSE, event |-> FALSE, response |-> "none", errors |-> {},
     did |-> {}, meddled |-> 0, fault |-> FALSE]

TypeOK ==
    /\ middlewares \in Depth
    /\ changes \in 0..MaxChanges
    /\ run \in [Runs -> Run]

Init ==
    /\ middlewares \in Depth
    /\ changes \in 0..MaxChanges
    /\ run \in [Runs -> {NewRun(dto, inherits) : dto \in Dtos, inherits \in BOOLEAN}]

-------------------------------------------------------------------------------
(* The stages, as what they make of a run s                                 *)

\* Mutant of Violated: violations reject the event.
ViolatedThrows(s) == s.errors # {}

\* ValidateStage only records what it finds.
Violated(s) == FALSE

\* Mutant of Needs: Forward does not look for the event.
NeedsNoEvent(s, k) == IF k = Persist THEN s.decision ELSE TRUE

\* What a stage looks for in the context first, and does nothing without:
\* Persist the decision, the stages after it the event.
Needs(s, k) ==
    CASE k = Persist -> s.decision
      [] k > Persist -> s.event
      [] OTHER       -> TRUE

\* The call at depth i for stage k settles; and the one that is the stage's.
Settled(s, k, i, how) == [s EXCEPT !.dispatch[k].call[i] = how]
Ended(s, k, how) == Settled(s, k, s.dispatch[k].at, how)
Failed(s, k) == [Ended(s, k, "rejected") EXCEPT !.fault = TRUE]

Validated(s) ==
    LET t == [s EXCEPT !.errors = Violations(ToCanonical(s.dto))]
    IN  Ended(t, Validate, IF Violated(t) THEN "rejected" ELSE "resolved")

Normalized(s) ==
    Ended(s, Normalize, IF Normalizes(ToCanonical(s.dto)) THEN "resolved" ELSE "rejected")

Did(s, k, what) ==
    Ended(IF s.dispatch[k].saw THEN [s EXCEPT !.did = @ \cup {what}] ELSE s, k, "resolved")

\* EnrichStage: the tracker blocks the event, takes it for a heartbeat, decides, or
\* fails; the decision is in the context while the geolocation is still awaited,
\* which never fails.
Enriched(s) ==
    IF s.decision THEN {Ended(s, Enrich, "resolved")}
    ELSE {Failed(s, Enrich), [s EXCEPT !.decision = TRUE]} \cup
         {Ended([s EXCEPT !.response = r], Enrich, "resolved") : r \in {"ok", "ignored"}}

\* The fields that become columns of the event.
Columns == {"visitorId", "eventId", "utm", "clickId", "sourceUrl", "metadata"}

\* Postgres takes no NUL in a text or a jsonb, and a Decimal(12, 2) has ten digits
\* before its point.
HoldsNul(dto) == \E f \in Columns : dto[f].nul
TooLarge(v) == v.type = "number" /\ v.len > 10

\* The event gets the visitor's last touch, if it brings no campaign and no click id
\* of its own: AttributionEngine put it into Redis for an earlier event, before
\* anyone had looked at it.
Inherits(s) == s.inherits /\ ~Truthy(s.dto.utm) /\ ~Truthy(s.dto.clickId)

\* What the upsert cannot take: resolveOccurredAt throws for a stale occurredAt,
\* Prisma for one that is no date, an eventType that the schema does not know, an
\* array and a null metadata.
Refused(s) ==
    \/ s.dto.occurredAt # "fine"
    \/ s.dto.eventType.form # "enum"
    \/ \E f \in {"visitorId", "utm", "clickId"} : s.dto[f] = Repeated
    \/ s.dto.metadata = Null
    \/ TooLarge(s.dto.value)
    \/ HoldsNul(s.dto) \/ Inherits(s)

\* A row of the index on visitorId has at most 2704 bytes, of which a character takes
\* up to three, once Postgres has compressed it as far as it goes.
Overlong(v) == v.type = "string" /\ v.len > 800

\* PersistStage: Postgres may fail as well; the loser of a race answers with the
\* row it finds; the event is in the context while its attribution, which never
\* fails, is still awaited.
Persisted(s) ==
    IF ~s.dispatch[Persist].saw \/ s.event THEN {Ended(s, Persist, "resolved")}
    ELSE IF Refused(s) THEN {Ended(s, Persist, "rejected")}
    ELSE {Failed(s, Persist), [s EXCEPT !.event = TRUE],
          Ended([s EXCEPT !.response = "replayed"], Persist, "resolved")} \cup
         IF Overlong(s.dto.visitorId) THEN {Ended(s, Persist, "rejected")} ELSE {}

Forwarded(s) ==
    {Did(s, Forward, "enqueued")} \cup
    IF s.dispatch[Forward].saw THEN {Failed(s, Forward)} ELSE {}

\* The outcomes of executing stage k, once it was called.
Executed(s, k) ==
    CASE k = Validate         -> {Validated(s)}
      [] k = Normalize        -> {Normalized(s)}
      [] k = Enrich           -> Enriched(s)
      [] k = Persist          -> Persisted(s)
      [] k = EmitDomainEvents -> {Did(s, k, "published")}
      [] k = Forward          -> Forwarded(s)
      [] k = Metrics          -> {Did(s, k, "counted")}

\* The stages that await nothing are through when their call returns.
Synchronous == {Validate, Normalize, EmitDomainEvents, Metrics}

-------------------------------------------------------------------------------
(* MiddlewareRegistry.run                                                   *)

\* Mutant of FirstCall: a second call of the same next() is let through.
SecondCall(d, i) == i >= d.index

\* i <= index throws: next() called multiple times.
FirstCall(d, i) == i > d.index

\* What chain(i) makes of a dispatch d: it calls the middleware at i, or the stage.
Deeper(d, i) == [d EXCEPT !.index = i, !.call[i] = "open"]
Reached(d, i, saw) ==
    [index |-> i, call |-> [d.call EXCEPT ![i] = "stage"], at |-> i,
     times |-> d.times + 1, saw |-> saw]

\* chain(i) in the dispatch of stage k.
Chained(s, k, i) ==
    IF i < middlewares THEN {[s EXCEPT !.dispatch[k] = Deeper(@, i)]}
    ELSE LET t == [s EXCEPT !.dispatch[k] = Reached(@, i, Needs(s, k))]
         IN  IF k \in Synchronous THEN Executed(t, k) ELSE {t}

\* A middleware was called at depth i for stage k of run r: it has a next().
HasNext(r, k, i) ==
    run[r].dispatch[k].call[i] # "none" /\ run[r].dispatch[k].at # i

\* It calls next(), for the first time; a second call throws, and changes nothing.
CallNext(r, k, i) ==
    /\ i + 1 \in Depth
    /\ HasNext(r, k, i)
    /\ FirstCall(run[r].dispatch[k], i + 1)
    /\ \E s \in Chained(run[r], k, i + 1) : run' = [run EXCEPT ![r] = s]
    /\ UNCHANGED <<middlewares, changes>>

\* What next() came to, seen from depth i.
Outcome(d, i) == IF i + 1 \in Depth THEN d.call[i + 1] ELSE "none"

\* It resolves after its next() did, or meddles and resolves all the same.
Resolve(r, k, i) ==
    /\ run[r].dispatch[k].call[i] = "open"
    /\ LET meddles == IF Outcome(run[r].dispatch[k], i) = "resolved" THEN 0 ELSE 1 IN
       /\ run[r].meddled + meddles <= MaxMeddling
       /\ run' = [run EXCEPT ![r] =
             [Settled(run[r], k, i, "resolved") EXCEPT !.meddled = run[r].meddled + meddles]]
    /\ UNCHANGED <<middlewares, changes>>

\* It passes a failure on, or throws.
Reject(r, k, i) ==
    /\ run[r].dispatch[k].call[i] = "open"
    /\ LET throws == Outcome(run[r].dispatch[k], i) # "rejected" IN
          run' = [run EXCEPT ![r] =
             [Settled(run[r], k, i, "rejected") EXCEPT !.fault = run[r].fault \/ throws]]
    /\ UNCHANGED <<middlewares, changes>>

\* It answers the request itself.
Respond(r, k, i) ==
    /\ run[r].dispatch[k].call[i] = "open"
    /\ run[r].response = "none"
    /\ run' = [run EXCEPT ![r].response = "middleware"]
    /\ UNCHANGED <<middlewares, changes>>

\* An asynchronous stage goes on.
Execute(r, k) ==
    /\ \E i \in Depth : run[r].dispatch[k].call[i] = "stage"
    /\ \E s \in Executed(run[r], k) : run' = [run EXCEPT ![r] = s]
    /\ UNCHANGED <<middlewares, changes>>

\* use and clear
Register ==
    /\ changes < MaxChanges
    /\ changes' = changes + 1
    /\ \/ /\ middlewares < MaxMiddlewares
          /\ middlewares' = middlewares + 1
       \/ /\ middlewares > 0
          /\ middlewares' = 0
    /\ UNCHANGED run

-------------------------------------------------------------------------------
(* EventPipelineService.run                                                 *)

\* The loop comes to its next stage, or ends.
Continued(s) ==
    IF s.response # "none" \/ s.stage = Metrics
    THEN {[s EXCEPT !.pc = "answered"]}
    ELSE Chained([s EXCEPT !.pc = "running", !.stage = @ + 1], s.stage + 1, 0)

\* Mutant of Awaited: the loop goes on without waiting for the stage.
NotAwaited(s) == "resolved"

\* How the dispatch that the loop awaits has settled, if it has.
Awaited(s) == IF s.stage = 0 THEN "resolved" ELSE s.dispatch[s.stage].call[0]

Advance(r) ==
    /\ run[r].pc \in {"new", "running"}
    /\ \/ /\ Awaited(run[r]) = "resolved"
          /\ \E s \in Continued(run[r]) : run' = [run EXCEPT ![r] = s]
       \/ /\ Awaited(run[r]) = "rejected"
          /\ run' = [run EXCEPT ![r].pc = "threw"]
    /\ UNCHANGED <<middlewares, changes>>

Next ==
    \/ Register
    \/ \E r \in Runs :
          \/ Advance(r)
          \/ \E k \in Stage :
                \/ Execute(r, k)
                \/ \E i \in Depth :
                      \/ CallNext(r, k, i) \/ Resolve(r, k, i)
                      \/ Reject(r, k, i) \/ Respond(r, k, i)

Spec == Init /\ [][Next]_vars

-------------------------------------------------------------------------------
\* Whatever middlewares do with their next(), and however the registry changes
\* under a run, a stage is executed at most once in it.
StageRunsOnce == \A r \in Runs, k \in Stage : run[r].dispatch[k].times <= 1

\* Nothing goes out for an event that this run did not store, nor is one stored
\* that the tracker blocked or took for a heartbeat, in whatever order
\* middlewares let the stages run, and whichever they skip.
OnlyStoredGoesOut ==
    \A r \in Runs :
        /\ run[r].did # {} => run[r].event
        /\ run[r].event => run[r].decision
        /\ run[r].response \in {"ignored", "ok"} => ~run[r].event
        /\ run[r].response = "replayed" => run[r].did = {}

\* As long as no middleware resolves where its next() did not, stages run one
\* after the other, and a run that is answered as accepted went through all of
\* them.
AcceptedWentThrough ==
    \A r \in Runs : run[r].meddled = 0 =>
        /\ \A j, k \in Stage : j < k /\ run[r].dispatch[k].times > 0 =>
              run[r].dispatch[j].call[0] = "resolved" /\ run[r].dispatch[j].times = 1
        /\ run[r].pc = "answered" /\ run[r].response = "none" =>
              run[r].event /\ run[r].did = {"published", "enqueued", "counted"}

\* ValidateStage "records, never throws", and the edge and the engine, which keep
\* their limits in two places, agree on them.  Unless something fails, and as far as
\* the values of module Canonical tell DTOs apart:
\*
\*   either is rejected for a NUL in what is stored of it, or in the last touch it
\*   takes over; and besides
\*
\*   an event that the edge admitted only for an occurredAt that is stale or no
\*   date, an unknown event type, a browser or device type that is no string,
\*   which the normalizers cannot trim, a null metadata or a value of more than
\*   ten digits; and the engine questions only what the edge does not look at, the
\*   shape of ids, the landing page, and an empty event type;
\*
\*   a click, whose visitor is then not redirected, only for a repeated parameter
\*   or a visitor id too long for the index, whatever else the URL says.
RejectedForCause ==
    \A r \in Runs :
        LET dto   == run[r].dto
            threw == run[r].pc = "threw" /\ ~run[r].fault /\ ~HoldsNul(dto) /\ ~Inherits(run[r])
        IN  \/ /\ dto.via = "events"
               /\ run[r].errors \subseteq {"visitorId", "eventId", "landingPage", "eventType"}
               /\ threw => \/ dto.occurredAt # "fine" \/ dto.eventType.form # "enum"
                           \/ ~Trims(dto.browser) \/ ~Trims(dto.deviceType)
                           \/ dto.metadata = Null \/ TooLarge(dto.value)
            \/ /\ dto.via = "redirect"
               /\ threw => \/ Repeated \in {dto.visitorId, dto.utm, dto.clickId}
                           \/ Overlong(dto.visitorId)
================================================================================
