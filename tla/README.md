# Liberty Tracker API: a formal model

Liberty Tracker is a NestJS service that ingests events from web sites
(`POST /events`), enriches them with what it knows of the visitor, stores them
in Postgres, attributes conversions, and forwards the events to ad platforms
(Meta, GA4, Google Ads) through BullMQ jobs. A JavaScript SDK, served by the API
itself, queues the events in the browser.

This directory holds TLA+ models of its concurrent parts, TLC configurations
that check them on small instances, and proofs of the most important
invariants for instances of any size. Paths below are relative to `src/`
of the repository checkout.

## 1. Inventory

| Component | State it keeps | Operations | Model |
|---|---|---|---|
| Event pipeline (`src/events`) | `Event` rows, unique by (project, eventId) | `createEvent(s)`: Validate, Normalize, Enrich, Persist, EmitDomainEvents, Forward, Metrics for each DTO | `Ingestion`, abstractly `IdempotentStore`; the stages in `Pipeline` |
| Middleware registry (`src/events/pipeline`) | a list of middlewares, and an index per dispatch | `use`, `clear`, `run` | `Pipeline` |
| Validation and normalization (`src/validation`, `src/normalization`) | none | the edge's DTO, `validate`, `normalize` | `Canonical` |
| WhatsApp redirect (`src/redirect`) | none | a click becomes an event, then a redirect | its DTO in `Canonical`, its run in `Pipeline` |
| Forwarding (`src/forwarding`) | `EventForward` rows, BullMQ jobs | `enqueueForwards`, `process(job)` | `Forwarding` |
| Credentials (`src/credentials`) | `PlatformCredential` rows | set; switched off by hand | in `Forwarding` |
| Tracker engine (`src/tracker`) | Redis hashes of visitors and sessions | `processIngestion` | `Tracker` |
| Last touch (`src/tracker/attribution-engine*`) | a Redis hash per visitor | `resolve` | `LastTouch` |
| Durable attribution (`src/attribution`) | `Visitor` and `Touchpoint` rows | `resolve`, `calculate`, `convert`, `assign` | `Attribution` |
| Circuit breaker (`src/common/resilience`) | state, failures, openedAt | `execute`, `getState` | `CircuitBreaker` |
| Browser SDK queue (`src/snippet`) | buffer, sent ids, retries, IndexedDB | track, flush, retry, drain | `SdkQueue` |
| Browser SDK identity (`src/snippet`) | `_lt_vid` and `_lt_sid` in storages and cookies | `stickyId`, `sessionId`, taking over the ids of an answer | `SdkIdentity` |
| Dashboard writes (`src/auth`, `src/projects`, `TrackerService.updateConfig`) | `Workspace`, `User` and `Project` rows, the tracker configuration in a JSON column | `register`, `create`, `update`, `rotateApiKey`, `updateConfig` | `Accounts` |
| Guards of `POST /events` (`src/common/guards`, `src/tracker/guards`) | a Redis counter per project and minute | API key, rate limit, throttler, domain check | `Admission` |
| Platform senders (`src/forwarding/platforms`) | an OAuth token cache | `send`, `getAccessToken` | outcomes in `Forwarding`; the cache in `TokenCache` |
| Geolocation (`src/geolocation`) | a cached location per address | `locate` | not modelled |
| Login and other reads, analytics, feature flags, observability, domain events, plugins | rows, counters | single-statement CRUD, read-only queries, an emitter nobody subscribes to | not modelled |

How they interact. A request runs the guards, which read the rows the dashboard's
calls write, and then the pipeline, one DTO after the other. Enrich calls the
tracker engine (Redis), Persist upserts the event and calls the durable attribution
(Postgres), Forward calls `enqueueForwards`, which writes a row and adds a job for
each platform with an active credential. A BullMQ worker in the same process runs
the jobs. A click of the redirect is an event of its own, and waits for the
pipeline. Requests, jobs and instances interleave at every `await`; they share rows,
hashes and jobs, and in one instance the list of middlewares and the token of Google
Ads. The SDK is coupled to the API only by HTTP.

What is hard here: `upsert` is a read and a write, and loses a race with P2002;
every Redis hash is read, computed with and written back; HSET and EXPIRE, or DEL
and HSET, are separate commands; the row of a forward and its job live in different
stores; a send and the update that records it are separate, and BullMQ runs a job
again if the process dies between them; the dashboard looks for a free name, or
checks an owner, in one call and writes in another; most failures are swallowed on
purpose, because enrichment must not break ingestion; the SDK marks an event as sent
before it sends it, and its tabs read, make up and write ids that they share; and
the list of middlewares is read while runs are under way. `PROJECT.json` lists each
hazard at its line.

## 2. The modules

| Module | Models | Depends on |
|---|---|---|
| `Forwarding` | the rows, the jobs and the platforms; callers run `enqueueForwards`, workers run `process`; BullMQ's locks, retries, backoff and stalled check as the code uses them | |
| `Forwarding_proofs` | five theorems | `Forwarding` |
| `IdempotentStore` | what the API promises of `eventId`: the first insert of an id wins, every answer names that row | |
| `Ingestion` | requests with batches of DTOs, the stages, the `Event` table; its items are the callers of `Forwarding` | `INSTANCE Forwarding`, refines `IdempotentStore` and `Forwarding` |
| `Ingestion_proofs` | eight theorems | `Ingestion`, `INSTANCE Forwarding_proofs` |
| `CircuitBreaker` | the breaker with overlapping calls | |
| `Tracker` | `processIngestion` up to the last touch: visitor and session hashes | |
| `LastTouch` | the last-touch hash of a visitor | |
| `TokenCache` | the sends that share one access token, on a clock | |
| `VolatileState` | what is kept in memory and in Redis: the four modules above, which share nothing | `EXTENDS CircuitBreaker`, `INSTANCE` of the others |
| `VolatileState_proofs` | ten theorems | `VolatileState` |
| `Attribution`, `Attribution_proofs` | the `Visitor` row, the timeline, the attribution models; six theorems | the proofs: `Recursion` |
| `SdkQueue` | the loads of pages of one site, and what they share | |
| `SdkIdentity` | the visitor and session ids of the tabs of one browser, and the server that answers with its own | |
| `Sdk` | the two parts of the SDK | `EXTENDS SdkIdentity`, `INSTANCE SdkQueue` |
| `Sdk_proofs` | five theorems | `Sdk`, `Recursion` |
| `Recursion` | no code: lemmas that the proofs about folds over sequences rest on | |
| `Canonical` | a DTO by the type, length and form of its fields: what the edge admits, what the engine questions, what a normalizer throws for, what a click becomes | |
| `Pipeline`, `Pipeline_proofs` | one run through the stages, each dispatched through the middlewares; five theorems | `Canonical` |
| `Accounts` | the dashboard's calls over `Workspace`, `User` and `Project` | |
| `Admission` | the guards and the domain check of requests, over the rows of `Accounts` | `Accounts` |
| `Admission_proofs` | seven theorems, three of them about `Accounts` | `Admission` |
| `MCVolatile`, `MCSdk`, `MCSettling` | components that share nothing, checked in one run: `part` says which of them moves | the components |
| other `MC*` | model values, inputs and symmetry for TLC | |

State and code. One action is one step between two `await`s, that is one
call to Postgres, Redis, BullMQ or a platform with the computation that follows
it; in the SDK it is one JavaScript callback. An actor's `pc` names the call it
makes next. Names follow the source: `forward` is the table `EventForward` with
`status`, `attempt` and `sentAt`; `job[j].attempts` is BullMQ's `attemptsMade`;
`visitorHash` is `lt:visitor:...`; `load[t].sentIds` is the SDK's `sentIds`.
`PROJECT.json` maps every definition to its lines.

What is abstracted. Payloads, UTM values, PII and formatting are left out; a click
id is the name of its key, a date the name or rank of its event, a session id a
model value that no two requests draw. Of a row or hash only the fields are kept
that a property or another field depends on: the context, geo and campaign columns
of `Visitor` are not among them, nor the dates of visitor and session hashes, but
for `firstSeenAt`. Of a DTO's field `Canonical` keeps its type, its length (of a number, the digits
before its point), whether it has the form of an id, a URL or a member of an enum, and
whether it holds a NUL; of `occurredAt`, whether it is in time, and a date at all. A stage of
`Pipeline` is what it reads and writes of the context and how it ends; what it does
to the stores is in `Ingestion`. A middleware of `Pipeline` is any: it calls its
`next` once, twice, late or never, waits for it or not, hides its failure, or
answers itself. An access token is the moment it was issued. Of the tracker's
configuration the rate limit and the allowed domains are kept, and one flag for the
fields its DTO lacks. A slug is the sequence of its parts, so that a project may be
called `site-1` on its own account; a row and a key are named after the call that
generates them, since nanoid and `randomBytes` do not repeat. What a platform
answers to a send is a status, a partial failure, whether the body can be read to its
end and parsed, and whether it took the event. The
attribution weights are integers, before `normalizeWeights` divides them. The
attribution configuration is raw JSON that nobody validates: the model takes any
numbers from zero on for its window, half-life and weights, and any model name, but no
negative numbers, fractions or other types. Halving a weight gives 0 after
`Halvings` times, as it does for a double (1074). In
`Ingestion` the tracker is one step, and the durable attribution is one count per
event.

Failures. A database or Redis command may be refused, or take effect with its
answer lost. `ioredis` sends a command whose answer was lost with the connection once
more (its defaults, `src/redis/redis.service.ts:10`); that is modelled where it
counts, of INCR and EXPIRE in `Admission`. The commands of `Tracker` and `LastTouch` (HSET,
DEL, EXPIRE) write what they wrote: a command of theirs takes effect once, and
is answered, refused, or not answered in time. An instance may die between any two steps (`Crash`,
`CallerCrash`, `WorkerCrash`); in `Attribution`, where an error is swallowed
and ends the call, `Degrade` is both. Keys with a TTL may expire at any time. A
platform may accept an event and still answer with an error; Google Ads may refuse
one in the body of a 200, and that body may be cut off. A worker that is too busy to
renew its job's lock loses the job to another one and goes on all the same. A Redis
failure lets a request through the rate limiter. A browser page may be
hidden, left or killed.

## 3. The runs

Each configuration finishes within a few minutes on two cores.

| Run | Instance | Shows |
|---|---|---|
| `Forwarding_race` | 2 workers, 2 jobs, 1 event, Google Ads with its partial failures, 2 attempts; in one part 2 callers, where a job is given up when its worker dies, in the other 1 caller, where a stalled job is run once more, its first worker dead or alive | `RowCoherent`, `NoSilentStrand`, `SendsAccounted` with replays, and overtaken runs, racing workers |
| `Ingestion_race` | 2 requests, batches of up to 2, one shared id, one generated | idempotency, one first pass, batch order, an accepted event is forwarded or there is a trace, and both refinements |
| `Pipeline_stages` | 1 run, up to 2 middlewares that meddle once, a registry that changes once; with the empty registry, DTOs odd in one field and clicks | no stage runs twice, nothing goes out unstored, an accepted event went through every stage, nothing is rejected but for a named cause |
| `Volatile_state` | the breaker with 4 calls, threshold 2 and a clock; the tracker with 2 requests of 2 visitors any of whose commands may fail, and with 3 requests, of which 2 of one visitor overlap after the first, while Redis answers; 3 session ids; the last touch with 3 requests, 2 fields; the token with 3 sends and a clock | the breaker's fields agree and refusals are exact; privacy of sessions, TTLs, counts, first visits; the newest touch stays whole; no send uses a dead token |
| `Attribution_journey` | 3 events: touches in and out of the window and after the conversion, conversions, all models, weights and half-lives of zero | counters and positions agree with the timeline, results can be recalculated, credit goes where it is due |
| `Sdk_tabs` | 2 tabs; 2 events, batches of 2, 1 retry; 2 loads, 2 mishaps | nothing leaves a living page's hands unsent and unkept; one browser stays one visitor, and ids told go together |
| `Admission_guards` | 2 dashboard calls, or 1 and 2 requests; 2 minutes, limits 1 and 2, an INCR executed up to twice | names are assigned once and without gaps, tenants stay apart, the rate limit is exact, counters expire |
| `Settling_live` | forwarding: 1 caller, 1 worker, 2 events, Google Ads, 2 attempts, 1 stall; the SDK: 1 page, 2 events, 1 outage; the tracker: 2 requests | every PENDING row settles or leaves a trace; every event of a page settles; no Redis failure keeps a request from its answer |
| `Admission_partial` | 2 updates of a configuration | violated: the second resets what it does not name |
| `SdkQueue_recovered` | 2 loads, 1 event, 1 retry | violated: a drain drops a record |
| `SdkQueue_unload` | 2 loads, 2 events | violated: the API refuses what a page flushes when it is hidden |
| `SdkIdentity_batch` | 1 tab, 2 events | violated: one page's events are stored with two sessions |

No run follows an event from request to platform under fairness; three facts do. By
`AcceptedIsForwarded` an accepted event was handed to `enqueueForwards`, or
its answer came from a request that lost the race to one that did not finish. By
`ForwardingSpec` what happens to its rows and jobs then is a behaviour of
`Forwarding`; and there `NoSilentStrand` and `EveryRowSettles` say that each row
settles or leaves a trace.

Why the bounds are enough. The races of this code are between two actors on one key
(two requests with an id, two callers on a row, two tabs on a store), so two actors,
and a third one where a reader between two writers matters (`LastTouch`,
`Attribution`), meet every pair of steps. One id or platform suffices because no
step touches two keys; the proofs do not depend on it. In `Forwarding_race` a failed
attempt and a replay, or a failed attempt and a stall, repeat a job; an overtaken run
beside a replay is left to the theorems. In the tracker's part of `Volatile_state` two
requests meet every failure; the third one, for two that read a hash a first one left
and write it back over each other, meets none; failures beside three requests
are left to the theorems too. In `Pipeline_stages` one run is
enough: runs share the registry alone, and it changes at any step; two middlewares
are a first, a last, and one inside the other. A DTO that is odd in one field meets
the empty registry only: a middleware may do anything with the plain one already.
The components in one run share nothing, so that the states of each are those it has
on its own. The token lives for 4 units, of which the margin is 2 and an upload
takes 1: a token is renewed twice before the clock stops at `MaxTokenTime`. Type
invariants that are proved are not run. Named bounds: `MaxAttempts` (5 in the code),
`MaxStalls` (BullMQ's `maxStalledCount`), `MaxBatch` (50), `BatchMaxSize` (20),
`MaxOutages` and the number of `Jobs`, `Requests`, `Calls` and `Loads`, each of
which is used once, `MaxWindow`, the minutes that pass, and `MaxSends`, how often one INCR is executed;
`Halvings`, 1 in the run, so that half-lives credit nobody within 3 units of time; `MaxTime` and
`MaxTokenTime`, where the clocks stop; `MaxMiddlewares`, `MaxMeddling` and
`MaxChanges` of `Pipeline`; `MaxLoads` and `MaxMishaps` (lost copies and expired
sessions) of `SdkIdentity`. `Admission_guards` also bounds how much is under way at
a time (`Load` in `MCAdmission`): two calls, or a call and two requests, which are
all the pairs there are of a writer with a reader; the proofs need no such bound.
`Edited` names the platforms whose credential may change during a run. Deadlock is
not checked where the system may stop: when every request was answered and every job
is done.

Fairness. Node runs every continuation that is ready, BullMQ's timers
promote delayed jobs and find stalled ones, and a browser runs timers, settles
every `fetch` and serves IndexedDB while the page lives; hence weak fairness of each
actor's own step, of `QueueStep(j)` for each job, and of each kind of browser
callback. Nobody owes a request, an event, a credential, a connection, the end
of an outage, or a crash. In the tracker's part of `Settling_live` the instance of
the requests does not die (`InstanceStays`): a client's own connection dies with
it. `Forwarding!Spec` without fairness is what `Ingestion`
refines; the modules that are in no part of `Settling_live` state no liveness.

## 4. Where documentation and code part

Four runs state what a comment says and show that the code does not do it.

* `Admission_partial`: `tracker.controller.ts:30` says the configuration is
  updated partially. The DTO is a class instance, compiled for ES2023 with its
  fields as own properties, and `{ ...existing, ...dto }` (`tracker.service.ts:177`)
  overwrites with `undefined` what the request left out.
* `SdkQueue_recovered`: `snippet.service.ts:402` drains the offline store to
  recover what was left. A record kept after its last retry is still marked as
  sent, so the next drain skips it, and then clears the store.
* `SdkQueue_unload`: `snippet.service.ts:396` flushes on unload. The beacon it
  flushes with has no `x-api-key` header, and `project-api-key.guard.ts:24` refuses
  it; the events are marked as sent.
* `SdkIdentity_batch`: `create-event.dto.ts:30` speaks of a session id made by the
  browser that is recovered if it expired. The server never takes one that it did not make itself,
  and only the answer to a single event tells the browser which one that is: the
  events of a first batch begin a session each.

More such places were met while modelling. The models follow the code in each; they
have no run of their own:

* `attribution.repository.ts:90` calls click ids sticky. `mergeClickIds` reads,
  merges and writes back, and `upsertVisitor` writes the merge once more; two
  overlapping events lose one another's ids.
* `forwarding.service.ts:57` takes the P2002 of a row to mean its job was added.
  The winner has only created the row; it may fail before `queue.add`.
* `stages.ts:298-299` says the winner of an insert has "already persisted,
  forwarded and attributed" the event, and that the loser answers the "same
  idempotent response". The winner may still be attributing, or fail; and
  `isNewVisitor` is each request's own.
* An event sent again after it was answered is attributed again: `update: {}`
  goes on like an insert.
* `events.service.ts:48` promises one response per event; a DTO that throws takes
  the responses of those before it with it.
* `circuit-breaker.ts:10`: a late success of an old call closes the circuit before
  `resetTimeoutMs`.
* `visitor-manager.service.spec.ts:30` preserves `firstSeenAt`; a miss, an outage
  read as one, or a first request that overlaps another, overwrites it.
* `attribution.types.ts:37` says that the weights of a result sum to 1. Position
  weights of [0, 0] over two touches, and half-lives that are 0 or short against the
  age of every touch, credit nobody: their sum is 0 (`Worthless`).
* `google-ads.service.ts:129` takes a partial failure for the failure it is, but line
  111 takes a body that cannot be read for one that reports none: the row says SUCCESS
  of a conversion that Google may have refused.
* `project-rate-limit.guard.ts:45` sets the TTL of a counter when INCR answers 1. An
  INCR that was sent again answers 2 to the first request of its window: nobody sets
  a TTL, and one request may be refused for the count of two. No request fails by it.
* `tracker.repository.ts:165` puts a touch into Redis before Persist stores its event.
  One with a NUL in the campaign, which Postgres refuses, stays there: every event
  of the visitor without a campaign or click id takes it over and is refused as well.
* `stages.ts:104-107` records violations and rejects no payload; the normalizer
  after it throws for a `browser` or `deviceType` that is no string.
* The edge admits any string as `eventType`, and Persist fails for one that the
  schema does not know: what the client sees is a server error.
* An empty `eventId` is an id like any other, so that all events of a project that
  carry it are one row.
* The geo normalizer looks for a location that nobody has put into the event yet; of
  the canonical event only `landingPage` and `occurredAt` are used.
* A click whose query repeats a parameter fails in the pipeline, and its visitor is
  not redirected.
* A `fetch` that was answered counts as sent, whatever the status.
* `attribution-engine.service.spec.ts:34` replaces the whole touch; two overlapping
  writers merge field by field, and a reader between DEL and HSET finds nothing.

## 5. What is proved

TLAPS checks these for every value of the constants that satisfies the `ASSUME` of
the module, with no bound on actors, ids, jobs or attempts. Sets are counted only
where a property counts: there they are assumed finite. A theorem is about the
specification without fairness. Type invariants are among them; the rest follow.

Forwarding and ingestion:

* `RowsCoherent`, `NothingStrandsSilently`. `RowCoherent` is not inductive: a worker
  between its send and its update carries what it will write. The strengthening says
  what each caller and worker has in hand (the key of its job, and of what it will
  record as sent, that the platform did accept it or refused it in a 200 that could
  not be read), that no two workers are at one run of a job and one of them at most
  has its lock (`WorkerHoldsJob`), and that an unsettled row has a live job, a caller
  about to add one, or a trace: an enqueue failure, a crash, a job that was given up.
  A worker that lost its lock writes the row as well: the `FAILED` of a run that was
  overtaken may stay though nobody retries it (`Overtaken`), its `PENDING` may not.
* `SendsAreAccounted`, for a finite set of jobs. The runs of a key's jobs are a set
  of pairs; `Accounted` bounds the copies by those runs that have left the send behind,
  and the attempts by those that have left the update behind. A run of a worker that
  lost its lock counts like any other (`PastRuns`).
* `CallsLeaveTheirRows`: a call that ended well has left its rows. `CallLeaves`
  says so of the platforms a call is through with, while it goes on.
* `ImplementsForwarding`: every step of the pipeline is a step of `Forwarding` or
  leaves it alone. `IngestedNothingStrands` and the types of its rows follow.
* `ImplementsStore`: the table and the answers implement `IdempotentStore`. It needs
  that an item past its upsert carries the owner the table holds, and that a row once
  stored is never replaced. `OnlyTheWinnerForwards` needs the same.
* `ForwardsAreStored`, `AcceptedAreForwarded`: what was proved of calls holds of the
  items that make them; an item that was accepted made the call itself
  (`OwnersForward`), or lost a race (`AcceptedHow`).
* `BatchesAreStoredInOrder`: a request's items are handled in turn (`BatchOrder`).

The pipeline:

* `StagesRunOnce`. The calls of a dispatch reach as deep as its index, and the stage
  is at the bottom: once it was executed there is nothing left to call.
* `OnlyStoredEverGoesOut`. A stage found in the context what it needs, and nobody
  takes that away; a stage that answered without an event is not under way any more.
* `AcceptedRunsAreComplete`. Where no middleware resolves by itself, a dispatch whose
  outermost call resolved has executed its stage (`Straight`, `Complete`), and a stage
  is dispatched only after the one before it (`Through`).
* `RejectionsHaveACause`, for all DTOs that class-validator admits, and all clicks.
  `Blamed` says what may have thrown at each stage; that the limits of the edge are
  those of the engine is a fact about `Canonical`, and numbers of any size. The causes
  are: an `occurredAt` that is stale, or an ISO date that `Date` cannot parse; an
  unknown event type; a browser or device type that is no string; null metadata; a
  `value` beyond `Decimal(12, 2)`; of a click, a repeated parameter or a visitor id
  that may exceed a row of its index; and of either, a NUL in what is stored, or in
  the last touch taken over. "All DTOs" means all that `Canonical` can tell apart.

The stores in memory and in Redis (`VolatileState_proofs`; `None` is not an id):

* The breaker's `FieldsAlwaysAgree`, `AlwaysCoolsDown` and `RefusalsExact`.
* `TokensStayValid`: the cache dates a token by its answer, an upload began with more
  than the margin left by that date, or right at the answer.
* `SessionsStayPrivate`: a session that Redis holds was begun by a request, and every
  request that has it is of its visitor (`SessionsOwned`); ids are generated once.
* `FirstVisitsStay`: the `firstSeenAt` of every hash and of every copy in hand is
  that of a request that found no hash (`FirstsFound`); once one of those was alone
  with its visitor and wrote, it is that one's until another finds none. Two first
  requests that overlap, and a read that fails, are what the code does not cope with:
  the property exempts them.
* `SessionsAreNotOvercounted`, for a finite set of requests. A hash, and a copy that a
  request read and will write back, count no more sessions than there are requests that
  have counted theirs (`CopiesBounded`).
* `NewestTouchIsKept`: the HSET of a request that is alone finds the hash deleted, and
  from then on the hash, and what the requests after it have in hand, is its touch or
  nothing (`Whole`).
* `KeysAlwaysExpire`: a step that leaves a key without a TTL has an author.

Durable attribution (`None` is not a row; the first four hold whatever the
models compute, the last two are about what they do):

* `ConversionsAreCounted`, `JourneyIsAccounted`: the row is ahead of the timeline by
  the events between the two writes, and conversions by those that wait to be
  recorded (`Counted`).
* `PositionsFollow`: a position in hand is one more than the rows there were when it
  was counted, and the timeline has only grown since. So a touchpoint is behind every
  one that was inserted before it was counted, and next to the last of them when no
  other call came between: duplicates and gaps are of calls that overlap.
* `AttributionIsReplayable`: a timeline only grows, so that what was computed from a
  prefix is computed from it again (`Replayed`).
* `CreditIsGiven` (`CreditWhereDue`) and the types (`TypesHold`), for every
  configuration of numbers from zero on. Each model credits touches of the window
  before the conversion only, and one of them with more than zero, but for the two
  kinds of configuration that credit nobody (`Worthless`): an order lists each touch once, so that the first of two is not the
  last, and one of the two shares is above zero unless both weights are zero; a power of two is above zero, by
  `SetInduction` over the recursion that computes it. `ResultsCredit` puts the models
  and the parameters together; the rest is what a call has in hand.

The SDK:

* `OneBrowserIsOneVisitor`. An id is made up by a load that found neither copy; one
  that is alone (`Alone`) does so before another load looks; and while both copies are empty, nobody has an id
  but a load that is about to write one (`One`).
* `ToldIdsGoTogether`: the session of a stored event is its visitor's (`Matches`), and
  a session's owner never changes.
* `BatchesStayInSize` and `QueueDropsNothing`, of loads that are `Fitting`: of the type,
  with a buffer below `maxSize` and no batch above it. Every step leaves every load
  fitting, and accounts for what it had in hand (`Moves`): `Keeps` says that nothing of a
  load is missing in another, `Takes` that all of a batch is in one. A rejected batch
  and a drain fold over a sequence; the theorems of the library that do induction
  cannot be cited, so `Recursion` goes by a least counterexample (`SetInduction`)
  and proves that a recursion over numbers defines a function (`RecursionExists`).
  The drain's `SetToSeq` lists a finite set: only finitely many records are ever put.
* The types of both parts (`TypesHold`).

Dashboard and guards:

* `NamesAreAssigned` and `ProjectsStayApart` need what a call has in hand
  (`CallsFit`): one that looks for a name has seen every smaller suffix taken, and
  names are never given back; one that passed its ownership check names a project of
  its workspace, and projects do not move.
* `TenantsStayApart`, over the same invariant, and `CountersDoExpire`.
* `CountersExpire` names who may leave a counter without a TTL: a request under way,
  one whose commands failed, and one whose INCR was executed again and that was not
  told 1.
* `LimitIsExact`. `LimitExact` is about requests only, and the counter
  they share may expire while they are under way. The strengthening ranks the
  requests of a minute: answers of INCR never exceed the number of INCRs that Redis
  executed, those given in time are distinct, and while the minute lasts the counter
  bounds them. From it the limit follows by the pigeonhole principle: no more than
  the limit pass by their count, and a 429 means that Redis executed more INCRs than
  the limit in that minute, be it several of one request.

Model-checked only: `EveryRowSettles`, `OutageNeverSurfaces` and
`EveryEventSettles`, since liveness under fairness is beyond the prover. The safety
properties that the passing runs check are all stated by theorems.

What the prover reads otherwise: `tlapm` misreads an `@` inside an `EXCEPT` that is
itself inside an `EXCEPT`; the modules name such a record by an operator instead.

## 6. Plan

Next: a property of the click ids that overlapping merges of one visitor write
(`mergeClickIds` and `upsertVisitor` each write back what an earlier read found); and
the enabling conditions that the liveness runs rest on, as invariants.

Not modelled. Geolocation: one lookup for each event that times out or fails into
an empty answer, and a cache by address that nothing else reads, so that there is
no state two parts could disagree on. Dashboards and analytics are read-only; login
and renaming are single statements; the emitter of domain events has no subscriber,
and plugins register at start-up. Of the SDK, the consent flags, the fingerprint and
the page context are pure or read once; the click ids that two tabs keep are written
whole, the last writer's stay. The formatting of platform payloads and the
cryptography of credentials have no protocol. The flags that turn the queue's
batching, retries or offline store off leave less of what is modelled.

## 7. Running it

    tlc -config Forwarding_race.cfg MCForwarding
    tlapm Forwarding_proofs.tla

A definition whose comment starts with "Mutant of" is not part of a
specification: it is the definition it names with a plausible bug, kept to show
that a property can fail.
