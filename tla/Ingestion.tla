------------------------------- MODULE Ingestion -------------------------------
(***************************************************************************)
(* Ingestion of events: the pipeline Validate, Normalize, Enrich, Persist, *)
(* EmitDomainEvents, Forward, Metrics that every DTO of a request runs     *)
(* through, and the Event table it fills.                                  *)
(*                                                                         *)
(* A request carries a batch of DTOs and runs the pipeline for one after   *)
(* the other; requests interleave at every await.  What the pipeline does  *)
(* beyond the Event row is here by its effect: the tracker, module Tracker,  *)
(* by its answer, the durable attribution by one more touch, and the        *)
(* forwarding, which is module Forwarding with this module's items as its  *)
(* callers.  Validate only logs and Normalize only computes.               *)
(***************************************************************************)
EXTENDS Integers, Sequences

CONSTANTS
    Requests,     \* HTTP requests, each received at most once
    MaxBatch,     \* the longest batch (MAX_BATCH_SIZE, 50 in the code)
    Batches,      \* the batches a request may carry: sequences of DTOs
    Ids,          \* event ids the clients supply
    FreshIds,     \* ids randomUUID may return
    Workers, Jobs, Platforms, GoogleAds, WithGclid, Edited, MaxAttempts,
    MaxStalls,    \* as in Forwarding
    None

Dto == [id : Ids \cup {None},       \* eventId, the idempotency key
        heartbeat : BOOLEAN,        \* eventType HEARTBEAT
        stale : BOOLEAN]            \* occurredAt beyond the accepted window

Items == Requests \X (1..MaxBatch)   \* a DTO: its request and its position

ASSUME IngestionAssumption ==
    /\ MaxBatch \in Nat \ {0}
    /\ Batches \subseteq {b \in Seq(Dto) : Len(b) \in 1..MaxBatch}
    /\ Ids \cap FreshIds = {}
    /\ None \notin Ids \cup FreshIds \cup Items \cup Platforms \cup Jobs
    /\ WithGclid \subseteq Ids \cup FreshIds
    /\ Edited \subseteq Platforms
    /\ MaxAttempts \in Nat \ {0}
    /\ MaxStalls \in Nat

RowIds == Ids \cup FreshIds

VARIABLES
    batch,      \* what each request carries, <<>> until it is received
    item,       \* where each DTO is in the pipeline
    eventRow,   \* the Event table: which item created the row of an id
    touches,    \* how often the durable attribution absorbed an event
    forward, credential, caller, job, worker, accepted, missed, enqueueFailures

ingestVars  == <<batch, item, eventRow, touches>>
forwardVars == <<forward, credential, caller, job, worker, accepted,
                 missed, enqueueFailures>>
vars == <<ingestVars, forwardVars>>

F == INSTANCE Forwarding WITH Callers <- Items, Events <- RowIds

\* owner is the identity of the row an answer names (Event.id).
WaitingItem == [pc |-> "waiting", id |-> None, found |-> FALSE,
                owner |-> None]

Answered == {"ignored", "ok", "accepted"}
InFlight == {"persist", "insert", "attribute", "forward"}

ItemState == [pc    : {"waiting", "threw", "crashed"} \cup InFlight \cup Answered,
              id    : RowIds \cup {None},
              found : BOOLEAN,               \* the upsert saw a row
              owner : Items \cup {None}]

TypeOK ==
    /\ batch \in [Requests -> Batches \cup {<<>>}]
    /\ item \in [Items -> ItemState]
    /\ eventRow \in [RowIds -> Items \cup {None}]
    /\ touches \in [RowIds -> Nat]
    /\ F!TypeOK

Init ==
    /\ batch = [r \in Requests |-> <<>>]
    /\ item = [x \in Items |-> WaitingItem]
    /\ eventRow = [id \in RowIds |-> None]
    /\ touches = [id \in RowIds |-> 0]
    /\ F!Init

-------------------------------------------------------------------------------
(* EventsController.create and EventsService.createEvents                   *)

\* The guards and the validation of every DTO come before any processing.
Receive(r) ==
    /\ batch[r] = <<>>
    /\ \E b \in Batches : batch' = [batch EXCEPT ![r] = b]
    /\ UNCHANGED <<item, eventRow, touches, forwardVars>>

DtoOf(x) == batch[x[1]][x[2]]

\* Mutant of IsTurn: the batch is run with Promise.all.
IsTurnAtOnce(x) == x[2] <= Len(batch[x[1]]) /\ item[x].pc = "waiting"

\* createEvents awaits each DTO in turn; an exception ends the loop.
IsTurn(x) ==
    /\ x[2] <= Len(batch[x[1]])
    /\ item[x].pc = "waiting"
    /\ \A i \in 1..(x[2] - 1) : item[<<x[1], i>>].pc \in Answered

ItemTo(x, pc) == item' = [item EXCEPT ![x].pc = pc]

-------------------------------------------------------------------------------
(* EnrichStage and TrackerService.processIngestion                          *)

\* The configuration does not allow the event's name: nothing is kept.
Block(x) ==
    /\ IsTurn(x)
    /\ ItemTo(x, "ignored")
    /\ UNCHANGED <<batch, eventRow, touches, forwardVars>>

\* Validate, which only logs what it finds, Normalize and Enrich: the event is
\* allowed, and its visitor and session are known.  A heartbeat is answered here.
Track(x) ==
    /\ IsTurn(x)
    /\ ItemTo(x, IF DtoOf(x).heartbeat THEN "ok" ELSE "persist")
    /\ UNCHANGED <<batch, eventRow, touches, forwardVars>>

-------------------------------------------------------------------------------
(* PersistStage                                                             *)

\* resolveOccurredAt throws once the tracker has counted the event.
RejectStale(x) ==
    /\ item[x].pc = "persist"
    /\ DtoOf(x).stale
    /\ ItemTo(x, "threw")
    /\ UNCHANGED <<batch, eventRow, touches, forwardVars>>

\* dto.eventId ?? randomUUID()
EventIdOf(x) ==
    IF DtoOf(x).id # None THEN {DtoOf(x).id}
    ELSE {id \in FreshIds : \A y \in Items : item[y].id # id}

\* The read half of event.upsert.
FindEvent(x) ==
    /\ item[x].pc = "persist"
    /\ ~DtoOf(x).stale
    /\ \E id \in EventIdOf(x) :
          item' = [item EXCEPT ![x].pc = "insert", ![x].id = id,
                               ![x].found = (eventRow[id] # None)]
    /\ UNCHANGED <<batch, eventRow, touches, forwardVars>>

\* Mutant of UniqueId: @@unique([projectId, eventId]) is missing.
NoUniqueId(id) == TRUE

\* The insert may go ahead: @@unique([projectId, eventId]).
UniqueId(id) == eventRow[id] = None

\* Mutant of Inserted: the row is answered but not written.
NotInserted(id, x) == eventRow

Inserted(id, x) == [eventRow EXCEPT ![id] = x]

\* The write half: `update: {}` keeps an existing row as it is.
UpsertEvent(x) ==
    LET id == item[x].id IN
    /\ item[x].pc = "insert"
    /\ \/ /\ item[x].found
          /\ item' = [item EXCEPT ![x].pc = "attribute",
                                  ![x].owner = eventRow[id]]
          /\ UNCHANGED eventRow
       \/ /\ ~item[x].found
          /\ UniqueId(id)
          /\ eventRow' = Inserted(id, x)
          /\ item' = [item EXCEPT ![x].pc = "attribute", ![x].owner = x]
    /\ UNCHANGED <<batch, touches, forwardVars>>

\* Mutant of AfterLostRace: the loser goes on like the winner.
CarryOn == "attribute"

\* ctx.response is set, which ends EventPipelineService.run.
AfterLostRace == "accepted"

\* P2002: another request inserted the id first.  The stored row is read and
\* answered, and the pipeline stops.
LoseInsert(x) ==
    LET id == item[x].id IN
    /\ item[x].pc = "insert"
    /\ ~item[x].found
    /\ ~UniqueId(id)
    /\ item' = [item EXCEPT ![x].pc = AfterLostRace, ![x].owner = eventRow[id]]
    /\ UNCHANGED <<batch, eventRow, touches, forwardVars>>

\* AttributionService.resolve, which swallows its own failures, then
\* EmitDomainEvents and the call of enqueueForwards.
AttributeAndForward(x) ==
    LET id == item[x].id IN
    /\ item[x].pc = "attribute"
    /\ \E n \in {0, 1} : touches' = [touches EXCEPT ![id] = @ + n]
    /\ ItemTo(x, "forward")
    /\ F!StartEnqueue(x, id)
    /\ UNCHANGED <<batch, eventRow>>

-------------------------------------------------------------------------------
(* ForwardStage returns or throws, and MetricsStage                         *)

\* Mutant of Enqueued: the call of enqueueForwards is not awaited.
NotAwaited(x) == TRUE

Enqueued(x) == caller[x].pc = "done"

Accept(x) ==
    /\ item[x].pc = "forward"
    /\ Enqueued(x)
    /\ ItemTo(x, "accepted")
    /\ UNCHANGED <<batch, eventRow, touches, forwardVars>>

ForwardThrows(x) ==
    /\ item[x].pc = "forward"
    /\ caller[x].pc = "error"
    /\ ItemTo(x, "threw")
    /\ UNCHANGED <<batch, eventRow, touches, forwardVars>>

\* A Postgres call of processIngestion or Persist fails: the request answers 500.
DatabaseFails(x) ==
    /\ IsTurn(x) \/ item[x].pc \in {"persist", "insert"}
    /\ ItemTo(x, "threw")
    /\ UNCHANGED <<batch, eventRow, touches, forwardVars>>

\* So it does when the insert was committed, and only its answer got lost.
InsertUnanswered(x) ==
    LET id == item[x].id IN
    /\ item[x].pc = "insert"
    /\ ~item[x].found
    /\ UniqueId(id)
    /\ eventRow' = Inserted(id, x)
    /\ ItemTo(x, "threw")
    /\ UNCHANGED <<batch, touches, forwardVars>>

ItemStep(x) ==
    \/ Block(x) \/ Track(x)
    \/ RejectStale(x) \/ FindEvent(x) \/ UpsertEvent(x) \/ LoseInsert(x)
    \/ AttributeAndForward(x) \/ Accept(x) \/ ForwardThrows(x)
    \/ DatabaseFails(x) \/ InsertUnanswered(x)

\* Mutant of Crash: the restarted instance runs the call again.
CrashAndRerun(x) ==
    /\ item[x].pc = "forward"
    /\ caller' = [caller EXCEPT ![x] = F!IdleCaller]
    /\ UNCHANGED <<ingestVars, forward, credential, job, worker, accepted,
                   missed, enqueueFailures>>

\* The instance dies with the request in hand.
Crash(x) ==
    /\ item[x].pc \in InFlight
    /\ ItemTo(x, "crashed")
    /\ \/ F!CallerCrash(x)
       \/ caller[x].pc \in {"idle", "done", "error"} /\ UNCHANGED forwardVars
    /\ UNCHANGED <<batch, eventRow, touches>>

Next ==
    \/ \E r \in Requests : Receive(r)
    \/ \E x \in Items : ItemStep(x) \/ Crash(x)
    \/ F!Deliver /\ UNCHANGED ingestVars

Spec == Init /\ [][Next]_vars

-------------------------------------------------------------------------------
\* What the pipeline promises of eventId: module IdempotentStore.
Answers == [x \in Items |-> IF item[x].pc = "accepted"
                            THEN [id |-> item[x].id, owner |-> item[x].owner]
                            ELSE None]

Store == INSTANCE IdempotentStore
            WITH Askers <- Items, Ids <- RowIds, stored <- eventRow,
                 answer <- Answers

\* The Event table and the answers form an idempotent store: the first insert
\* of an id wins, and every accepted answer, to winners, losers of the P2002
\* race and replays alike, names that row.
StoreSpec == Store!Spec

\* The pipeline drives forwarding only in the ways module Forwarding allows a
\* caller to, so what holds of Forwarding holds of the rows and jobs here.
ForwardingSpec == F!Spec

\* An item that did not find the row when it looked, and went on to forward.
FirstPass(x) == ~item[x].found /\ caller[x].pc # "idle"

\* Of the requests that race on a new eventId at most one attributes and
\* forwards it; the P2002 losers do neither.  (PersistStage's catch, and the
\* test "without double-enqueueing or re-attributing on a P2002 race".)
OneFirstPass ==
    \A x, y \in Items :
        FirstPass(x) /\ FirstPass(y) /\ item[x].id = item[y].id => x = y

\* Nothing is forwarded, queued or attributed for an id that is not in the
\* Event table, whatever fails in between.
ForwardedIsStored ==
    \A id \in RowIds : eventRow[id] = None =>
        /\ touches[id] = 0
        /\ \A p \in Platforms : forward[<<id, p>>].status = "none"
        /\ \A j \in Jobs : job[j].key[1] # id

\* A batch is stored as far as it got and no further: a stored DTO is neither
\* a heartbeat nor stale, and every DTO before it was answered.
StoredInBatchOrder ==
    \A id \in RowIds : eventRow[id] # None =>
        LET x == eventRow[id] IN
        /\ ~DtoOf(x).heartbeat /\ ~DtoOf(x).stale
        /\ \A i \in 1..(x[2] - 1) :
              item[<<x[1], i>>].pc \in {"ignored", "ok", "accepted"}

\* A P2002 loser whose winner is still at work, failed, or died.
LostToUnfinished(x) ==
    /\ caller[x].pc = "idle"
    /\ item[item[x].owner].pc \in InFlight \cup {"threw", "crashed"}

\* An accepted event has its row on every platform with an active credential,
\* whoever of several requests for it was accepted; the one exception is the
\* loser of a race, who is answered while the winner may still fail.  (From the
\* row on, NoSilentStrand and EveryRowSettles of Forwarding take over.)
AcceptedIsForwarded ==
    \A x \in Items, p \in Platforms \ Edited :
        item[x].pc = "accepted" /\ credential[p] = "active" =>
            \/ forward[<<item[x].id, p>>].status # "none"
            \/ LostToUnfinished(x)
===============================================================================
