-------------------------------- MODULE SdkQueue --------------------------------
(***************************************************************************)
(* The queue of the browser SDK (tracker.js): every load of a page tracks  *)
(* events into a buffer, flushes them in batches, retries a batch whose    *)
(* fetch rejects, and keeps what it cannot send in IndexedDB, which every  *)
(* load drains when it starts and when the browser comes online again.     *)
(*                                                                         *)
(* One JavaScript callback is one step.  Loads (other tabs, or the next    *)
(* page of the same one) share the IndexedDB store and the list of sent    *)
(* ids in localStorage, which each reads once.  The flags batch, retry and *)
(* offlineQueue are on, as they are unless a project turns them off.       *)
(***************************************************************************)
EXTENDS Integers, SequencesExt

CONSTANTS
    Loads,          \* loads of pages that run the snippet
    Events,         \* events the site tracks, named by their eventId
    BatchMaxSize,   \* CFG.batch.maxSize, 20
    MaxAttempts,    \* CFG.retry.maxAttempts, 8
    MaxOutages      \* how often the browser goes offline: a bound

\* What a load of the snippet is configured with.
QueueAssumption ==
    /\ BatchMaxSize \in Nat \ {0}
    /\ MaxAttempts \in Nat
    /\ MaxOutages \in Nat

VARIABLES
    load,       \* the state of each load
    online,     \* navigator.onLine
    outages,    \* how often it went offline
    untracked,  \* events nobody tracked yet
    dedup,      \* the sent ids in localStorage
    store,      \* the ids of the records in IndexedDB
    requests,   \* IndexedDB's transactions, which it runs one after the other
    sent,       \* events counted in Metrics.sent
    refused     \* events in a request that the API answered 401

vars == <<load, online, outages, untracked, dedup, store, requests, sent, refused>>

Item == [id : Events, attempt : 0..MaxAttempts]

\* What a load asks of IndexedDB: the records and then their removal, or a put.
Request == [op : {"drain", "clear"}] \cup [op : {"put"}, id : Events]

NewLoad == [page     |-> "new",
            buffer   |-> <<>>,
            old      |-> FALSE,    \* the oldest event has waited maxWaitMs
            timer    |-> FALSE,    \* flushTimer is set
            sentIds  |-> {},
            flying   |-> <<>>,     \* batches whose fetch is under way
            retrying |-> <<>>,     \* items whose retry timer is running
            opening  |-> <<>>]     \* requests that wait for indexedDB.open

Load == [page     : {"new", "open", "gone"},
         buffer   : Seq(Item),
         old      : BOOLEAN,
         timer    : BOOLEAN,
         sentIds  : SUBSET Events,
         flying   : Seq(Seq(Item)),
         retrying : Seq(Item),
         opening  : Seq(Request)]

TypeOK ==
    /\ load \in [Loads -> Load]
    /\ online \in BOOLEAN
    /\ outages \in 0..MaxOutages
    /\ untracked \subseteq Events
    /\ dedup \subseteq Events
    /\ store \subseteq Events
    /\ requests \in Seq([load : Loads, do : Request])
    /\ sent \subseteq Events
    /\ refused \subseteq Events

Init ==
    /\ load = [t \in Loads |-> NewLoad]
    /\ online = TRUE
    /\ outages = 0
    /\ untracked = Events
    /\ dedup = {}
    /\ store = {}
    /\ requests = <<>>
    /\ sent = {}
    /\ refused = {}

-------------------------------------------------------------------------------
(* What the functions of Queue make of a load.                              *)

Ids(items) == {items[i].id : i \in DOMAIN items}

\* flush: the buffer goes out as one batch, marked sent before it is sent.
Flushed(l) ==
    [l EXCEPT !.buffer = <<>>, !.old = FALSE,
              !.sentIds = @ \cup Ids(l.buffer),
              !.flying = Append(@, l.buffer)]

\* Mutant of ShouldFlush: one event too late.
ShouldFlushLate(l) == Len(l.buffer) > BatchMaxSize \/ l.old

\* shouldFlushBatch, when nothing forces it.
ShouldFlush(l) == Len(l.buffer) >= BatchMaxSize \/ l.old

\* Mutant of MaybeFlush: a flush that is not due yet is not scheduled again.
MaybeFlushOnce(l) == IF ShouldFlush(l) THEN Flushed(l) ELSE l

\* maybeFlush(false) and scheduleFlush
MaybeFlush(l) == IF ShouldFlush(l) THEN Flushed(l) ELSE [l EXCEPT !.timer = TRUE]

\* enqueue: skipped, kept offline, or buffered.
Enqueued(l, item) ==
    IF item.id \in l.sentIds THEN l
    ELSE IF ~online THEN [l EXCEPT !.opening = Append(@, [op |-> "put", id |-> item.id])]
    ELSE MaybeFlush([l EXCEPT !.buffer = Append(@, item)])

\* Mutant of Retried: one attempt too many.
RetriedOnceMore(l, item) ==
    IF item.attempt > MaxAttempts
    THEN [l EXCEPT !.opening = Append(@, [op |-> "put", id |-> item.id])]
    ELSE [l EXCEPT !.retrying = Append(@, [item EXCEPT !.attempt = @ + 1])]

\* retry: wait for the backoff, or give up and keep the record offline.
Retried(l, item) ==
    IF item.attempt + 1 > MaxAttempts
    THEN [l EXCEPT !.opening = Append(@, [op |-> "put", id |-> item.id])]
    ELSE [l EXCEPT !.retrying = Append(@, [item EXCEPT !.attempt = @ + 1])]

\* Every item of a batch is retried, one after the other.
RetriedAll(l, items) ==
    LET after[i \in 0..Len(items)] ==
            IF i = 0 THEN l ELSE Retried(after[i - 1], items[i])
    IN  after[Len(items)]

\* Records are enqueued as new, one after the other.
EnqueuedAll(l, ids) ==
    LET after[i \in 0..Len(ids)] ==
            IF i = 0 THEN l ELSE Enqueued(after[i - 1], [id |-> ids[i], attempt |-> 0])
    IN  after[Len(ids)]

\* A fetch under way is over.
Landed(l, i) == [l EXCEPT !.flying = RemoveAt(@, i)]

\* What is buffered goes out by sendBeacon.
Beaconed(l, page) ==
    [l EXCEPT !.page = page, !.buffer = <<>>, !.old = FALSE,
              !.sentIds = @ \cup Ids(l.buffer)]

\* The load becomes l; a flush has saved its sent ids over everyone's.
Becomes(t, l) ==
    /\ load' = [load EXCEPT ![t] = l]
    /\ dedup' = IF l.flying = load[t].flying THEN dedup ELSE l.sentIds

\* The headers of sendBatch's two ways out, and ProjectApiKeyGuard's demand.
FetchHeaders == {"Content-Type", "x-api-key"}
BeaconHeaders == {"Content-Type"}
HasApiKey(headers) == "x-api-key" \in headers

\* The events of a request that the guard turns away.
Unauthorized(headers, items) == IF HasApiKey(headers) THEN {} ELSE Ids(items)

IsOpen(t) == load[t].page = "open"

-------------------------------------------------------------------------------
\* The snippet runs: it reads the sent ids and drains what earlier loads left.
Start(t) ==
    /\ load[t].page = "new"
    /\ load' = [load EXCEPT ![t].page = "open", ![t].sentIds = dedup,
                            ![t].opening = <<[op |-> "drain"]>>]
    /\ UNCHANGED <<online, outages, untracked, dedup, store, requests, sent, refused>>

\* track, and the page view every load starts with.
Track(t, e) ==
    /\ IsOpen(t)
    /\ e \in untracked
    /\ untracked' = untracked \ {e}
    /\ Becomes(t, Enqueued(load[t], [id |-> e, attempt |-> 0]))
    /\ UNCHANGED <<online, outages, store, requests, sent, refused>>

\* maxWaitMs pass.
Age(t) ==
    /\ IsOpen(t)
    /\ load[t].buffer # <<>>
    /\ ~load[t].old
    /\ load' = [load EXCEPT ![t].old = TRUE]
    /\ UNCHANGED <<online, outages, untracked, dedup, store, requests, sent, refused>>

\* The flush timer fires.
TimerFires(t) ==
    /\ IsOpen(t)
    /\ load[t].timer
    /\ Becomes(t, MaybeFlush([load[t] EXCEPT !.timer = FALSE]))
    /\ UNCHANGED <<online, outages, untracked, store, requests, sent, refused>>

\* fetch resolves, with whatever HTTP status: a project's key is valid, but the
\* rest of the API may answer as it likes.
Resolve(t, i) ==
    /\ IsOpen(t)
    /\ i \in DOMAIN load[t].flying
    /\ sent' = sent \cup Ids(load[t].flying[i])
    /\ refused' = refused \cup Unauthorized(FetchHeaders, load[t].flying[i])
    /\ load' = [load EXCEPT ![t] = Landed(@, i)]
    /\ UNCHANGED <<online, outages, untracked, dedup, store, requests>>

\* fetch rejects: every item of the batch is retried by itself.
Reject(t, i) ==
    /\ IsOpen(t)
    /\ i \in DOMAIN load[t].flying
    /\ load' = [load EXCEPT ![t] = RetriedAll(Landed(@, i), load[t].flying[i])]
    /\ UNCHANGED <<online, outages, untracked, dedup, store, requests, sent, refused>>

\* Mutant of Unmarked: the id stays marked as sent.
StillMarked(l, id) == l

\* delete sentIds[item.id]
Unmarked(l, id) == [l EXCEPT !.sentIds = @ \ {id}]

\* A backoff elapses: the item is no longer sent, and enqueued again.
RetryFires(t, i) ==
    /\ IsOpen(t)
    /\ i \in DOMAIN load[t].retrying
    /\ LET item == load[t].retrying[i]
           l    == [load[t] EXCEPT !.retrying = RemoveAt(@, i)]
       IN  Becomes(t, Enqueued(Unmarked(l, item.id), item))
    /\ UNCHANGED <<online, outages, untracked, store, requests, sent, refused>>

-------------------------------------------------------------------------------
(* Leaving a page                                                           *)

\* The buffer goes out by sendBeacon, whose answer nobody looks at.
Beacon(t, page) ==
    LET l == load[t] IN
    /\ load' = [load EXCEPT ![t] = Beaconed(@, page)]
    /\ dedup' = IF l.buffer = <<>> THEN dedup ELSE l.sentIds \cup Ids(l.buffer)
    /\ sent' = sent \cup Ids(l.buffer)
    /\ refused' = refused \cup Unauthorized(BeaconHeaders, l.buffer)

\* The page is hidden, and lives on.
Hide(t) ==
    /\ IsOpen(t)
    /\ load[t].buffer # <<>>
    /\ Beacon(t, "open")
    /\ UNCHANGED <<online, outages, untracked, store, requests>>

\* The transactions that are left when those of t are aborted that do one of ops.
Without(t, ops) ==
    LET rest[i \in 0..Len(requests)] ==
            IF i = 0 THEN <<>>
            ELSE IF requests[i].load = t /\ requests[i].do.op \in ops THEN rest[i - 1]
            ELSE Append(rest[i - 1], requests[i])
    IN  rest[Len(requests)]

\* Of a page that is gone IndexedDB runs the writes, or aborts them too.
Orphaned(t) == {Without(t, {"drain"}), Without(t, {"drain", "put", "clear"})}

\* pagehide
Leave(t) ==
    /\ IsOpen(t)
    /\ Beacon(t, "gone")
    /\ requests' \in Orphaned(t)
    /\ UNCHANGED <<online, outages, untracked, store>>

\* The browser kills the page.
Die(t) ==
    /\ IsOpen(t)
    /\ load' = [load EXCEPT ![t].page = "gone"]
    /\ requests' \in Orphaned(t)
    /\ UNCHANGED <<online, outages, untracked, dedup, store, sent, refused>>

-------------------------------------------------------------------------------
(* idbPut and idbDrain                                                      *)

\* indexedDB.open succeeds, and the transaction is created; or it fails, which
\* safe() swallows.
Opened(t) ==
    /\ IsOpen(t)
    /\ load[t].opening # <<>>
    /\ load' = [load EXCEPT ![t].opening = Tail(@)]
    /\ \/ requests' = Append(requests, [load |-> t, do |-> Head(load[t].opening)])
       \/ UNCHANGED requests
    /\ UNCHANGED <<online, outages, untracked, dedup, store, sent, refused>>

\* Every record that was not sent is enqueued by load l.
Drained(l) == EnqueuedAll(l, SetToSeq(store))

\* The next transaction runs, and with it the callback of a drain's getAll.
RunRequest ==
    /\ requests # <<>>
    /\ LET t == Head(requests).load
           do == Head(requests).do
       IN  \/ /\ do.op = "put"
              /\ store' = store \cup {do.id}
              /\ requests' = Tail(requests)
              /\ UNCHANGED <<load, dedup>>
           \/ /\ do.op = "clear"
              /\ store' = {}
              /\ requests' = Tail(requests)
              /\ UNCHANGED <<load, dedup>>
           \/ /\ do.op = "drain"
              /\ Becomes(t, Drained(load[t]))
              /\ requests' = Append(Tail(requests), [load |-> t, do |-> [op |-> "clear"]])
              /\ UNCHANGED store
    /\ UNCHANGED <<online, outages, untracked, sent, refused>>

GoOffline ==
    /\ online
    /\ outages < MaxOutages
    /\ online' = FALSE
    /\ outages' = outages + 1
    /\ UNCHANGED <<load, untracked, dedup, store, requests, sent, refused>>

\* The event "online" reaches every load.
GoOnline ==
    /\ ~online
    /\ online' = TRUE
    /\ load' = [t \in Loads |-> IF ~IsOpen(t) THEN load[t]
          ELSE [load[t] EXCEPT !.opening = Append(@, [op |-> "drain"])]]
    /\ UNCHANGED <<outages, untracked, dedup, store, requests, sent, refused>>

-------------------------------------------------------------------------------
Answer(t) == \E i \in DOMAIN load[t].flying : Resolve(t, i) \/ Reject(t, i)
Backoff(t) == \E i \in DOMAIN load[t].retrying : RetryFires(t, i)

Next ==
    \/ \E t \in Loads :
          \/ Start(t) \/ Age(t) \/ TimerFires(t) \/ Answer(t) \/ Backoff(t)
          \/ Hide(t) \/ Leave(t) \/ Die(t) \/ Opened(t)
          \/ \E e \in Events : Track(t, e)
    \/ RunRequest \/ GoOffline \/ GoOnline

\* The browser runs timers, settles every fetch and serves IndexedDB, while
\* the page lives.  Nobody owes an event, a page or a connection.
Fairness ==
    /\ \A t \in Loads :
          /\ WF_vars(Age(t)) /\ WF_vars(TimerFires(t))
          /\ WF_vars(Answer(t)) /\ WF_vars(Backoff(t))
          /\ WF_vars(Opened(t))
    /\ WF_vars(RunRequest)

Spec == Init /\ [][Next]_vars
FairSpec == Spec /\ Fairness

-------------------------------------------------------------------------------
\* Load t still has event e: in its buffer, in flight, or waiting for a retry.
InHand(t, e) ==
    /\ IsOpen(t)
    /\ \/ e \in Ids(load[t].buffer) \cup Ids(load[t].retrying)
       \/ \E i \in DOMAIN load[t].flying : e \in Ids(load[t].flying[i])

\* A put of the record of e is on its way to IndexedDB.
Queued(e) ==
    \/ \E i \in DOMAIN requests : requests[i].do = [op |-> "put", id |-> e]
    \/ \E t \in Loads : IsOpen(t) /\
          \E i \in DOMAIN load[t].opening : load[t].opening[i] = [op |-> "put", id |-> e]

Kept(e) == e \in store \/ Queued(e)

\* While its page lives, an event leaves the hands of the queue only by an
\* answered fetch, by a beacon or into the offline store: flushes that mark it
\* sent beforehand, retries that are deduplicated against those marks, and
\* drains never drop it.
NothingDropped ==
    [][\A t \in Loads, e \in Events :
          InHand(t, e) /\ load'[t].page = "open" =>
              InHand(t, e)' \/ e \in sent' \/ Kept(e)']_vars

\* No batch outgrows maxSize, whichever of track, retries and drains fill the
\* buffer.  (The API rejects a batch of more than 50 events as a whole, and the
\* SDK would count it as sent.)
BatchesFit ==
    \A t \in Loads :
        /\ Len(load[t].buffer) < BatchMaxSize
        /\ \A i \in DOMAIN load[t].flying : Len(load[t].flying[i]) <= BatchMaxSize

\* No event goes round in buffer, flight and retries for ever, nor waits for a
\* flush that never comes.
EveryEventSettles ==
    \A t \in Loads, e \in Events : InHand(t, e) ~> ~InHand(t, e)

\* snippet.service.ts drains the store "when connectivity returns" and to
\* "recover anything left offline from a previous load": a record that a drain
\* reads, and will clear, is sent, in the hands of a load, or put back.
OfflineRecovered ==
    [][\A e \in store :
          /\ requests # <<>>
          /\ Head(requests).do = [op |-> "drain"]
          /\ requests' = Append(Tail(requests),
                                [load |-> Head(requests).load, do |-> [op |-> "clear"]])
          => e \in sent \/ Queued(e)' \/ \E t \in Loads : InHand(t, e)']_vars

\* "flush on unload", says snippet.service.ts of the beacons: what the page still
\* has in hand when it is left or hidden reaches the API, which takes it.
UnloadFlushes == refused = {}
===============================================================================
