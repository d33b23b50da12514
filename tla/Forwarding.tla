------------------------------ MODULE Forwarding ------------------------------
(***************************************************************************)
(* Delivery of a stored event to the advertising platforms.                *)
(*                                                                         *)
(* A caller (an ingestion request that reached the Forward stage) runs     *)
(* ForwardingService.enqueueForwards: one EventForward row and one BullMQ  *)
(* job per active credential.  A worker runs                               *)
(* EventForwardingProcessor.process for each job: it re-reads the          *)
(* credential, sends, and records the outcome on the row.                  *)
(*                                                                         *)
(* Every await of the code ends a step, so callers and workers interleave  *)
(* there.  Prisma's upsert is its read and its insert-or-update: the code  *)
(* catches the P2002 of the insert, so it does not rely on it being one    *)
(* statement.  Postgres, Redis and the platforms may fail any call, and    *)
(* an instance may die between any two of them.                            *)
(***************************************************************************)
EXTENDS Integers, FiniteSets

CONSTANTS
    Callers,      \* invocations of enqueueForwards
    Workers,      \* BullMQ workers (one per instance, concurrency 1)
    Jobs,         \* job ids BullMQ may hand out: the bound on queue.add
    Events,       \* stored events
    Platforms,    \* META, GA4, GOOGLE_ADS
    GoogleAds,    \* the platform whose sends need a gclid
    WithGclid,    \* the stored events that have a gclid
    Edited,       \* platforms whose credential changes while we look: a bound
    MaxAttempts,  \* attempts: 5 in queue.add
    MaxStalls,    \* BullMQ's maxStalledCount, 1 unless configured
    None          \* no event, platform or job

ASSUME ForwardingAssumption ==
    /\ None \notin Callers \cup Events \cup Platforms \cup Jobs
    /\ WithGclid \subseteq Events
    /\ Edited \subseteq Platforms
    /\ MaxAttempts \in Nat \ {0}
    /\ MaxStalls \in Nat

VARIABLES
    forward,          \* the EventForward table, by event and platform
    credential,       \* PlatformCredential.isActive, "none" without a row
    caller,           \* where each invocation of enqueueForwards is
    job,              \* the BullMQ queue, by job id
    worker,           \* where each worker is in process(job)
    accepted,         \* copies each platform has accepted of each event
    missed,           \* refusals in the body of a 200 that nobody could read
    enqueueFailures   \* the metric, by event and platform

vars == <<forward, credential, caller, job, worker, accepted, missed, enqueueFailures>>

Keys == Events \X Platforms

NoRow  == [status |-> "none", attempt |-> 0, sent |-> FALSE]
NewRow == [status |-> "PENDING", attempt |-> 0, sent |-> FALSE]

IdleCaller == [pc |-> "idle", event |-> None, todo |-> {}, platform |-> None,
               found |-> FALSE]
FreeJob    == [state |-> "free", key |-> <<None, None>>, attempts |-> 0,
               stalls |-> 0]
IdleWorker == [pc |-> "idle", job |-> None, run |-> 0, ok |-> FALSE]

Row == [status  : {"none", "PENDING", "SUCCESS", "FAILED", "SKIPPED"},
        attempt : Nat,
        sent    : BOOLEAN]          \* sentAt is not null

CallerState == [pc : {"idle", "list", "next", "write", "add", "done", "error",
                      "crashed"},
                event    : Events \cup {None},
                todo     : SUBSET Platforms,            \* not yet dealt with
                platform : Platforms \cup {None},       \* in hand
                found    : BOOLEAN]                     \* the upsert saw a row

JobState == [state : {"free", "waiting", "active", "delayed", "completed",
                      "failed"},
             key : Keys \cup {<<None, None>>},
             attempts : Nat, stalls : Nat]

WorkerState == [pc  : {"idle", "load", "skip", "send", "record", "threw", "done"},
                job : Jobs \cup {None},
                run : Nat,                              \* the lock's token
                ok  : BOOLEAN]                          \* result.success

TypeOK ==
    /\ forward \in [Keys -> Row]
    /\ credential \in [Platforms -> {"none", "active", "inactive"}]
    /\ caller \in [Callers -> CallerState]
    /\ job \in [Jobs -> JobState]
    /\ worker \in [Workers -> WorkerState]
    /\ accepted \in [Keys -> Nat]
    /\ missed \subseteq Keys
    /\ enqueueFailures \in [Keys -> Nat]

Init ==
    /\ forward = [k \in Keys |-> NoRow]
    /\ credential \in [Platforms -> {"none", "active"}]
    /\ caller = [c \in Callers |-> IdleCaller]
    /\ job = [j \in Jobs |-> FreeJob]
    /\ worker = [w \in Workers |-> IdleWorker]
    /\ accepted = [k \in Keys |-> 0]
    /\ missed = {}
    /\ enqueueFailures = [k \in Keys |-> 0]

-------------------------------------------------------------------------------
(* CredentialsService and whoever edits the table by hand.                  *)

\* set*Credential upserts the row and always leaves it active.
SetCredential(p) ==
    /\ credential' = [credential EXCEPT ![p] = "active"]
    /\ UNCHANGED <<forward, caller, job, worker, accepted, missed, enqueueFailures>>

\* No code path writes isActive = FALSE; the readers allow for it.
DeactivateCredential(p) ==
    /\ credential[p] = "active"
    /\ credential' = [credential EXCEPT ![p] = "inactive"]
    /\ UNCHANGED <<forward, caller, job, worker, accepted, missed, enqueueFailures>>

-------------------------------------------------------------------------------
(* ForwardingService.enqueueForwards(event, project)                        *)

Key(c) == <<caller[c].event, caller[c].platform>>

\* The caller leaves the platform in hand, having dealt with it.
NextPlatform(c) ==
    caller' = [caller EXCEPT ![c] = [@ EXCEPT !.pc = "next", !.platform = None,
        !.todo = caller[c].todo \ {caller[c].platform}]]

StartEnqueue(c, e) ==
    /\ caller[c].pc = "idle"
    /\ caller' = [caller EXCEPT ![c] = [@ EXCEPT !.pc = "list", !.event = e]]
    /\ UNCHANGED <<forward, credential, job, worker, accepted, missed, enqueueFailures>>

\* findMany of the active credentials; no order is asked for.
ListCredentials(c) ==
    /\ caller[c].pc = "list"
    /\ \/ caller' = [caller EXCEPT ![c] = [@ EXCEPT !.pc = "next",
             !.todo = {p \in Platforms : credential[p] = "active"}]]
       \/ caller' = [caller EXCEPT ![c].pc = "error"]
    /\ UNCHANGED <<forward, credential, job, worker, accepted, missed, enqueueFailures>>

\* The read half of eventForward.upsert for one of the listed credentials.
ReadRow(c, p) ==
    /\ caller[c].pc = "next"
    /\ p \in caller[c].todo
    /\ caller' = [caller EXCEPT ![c] = [@ EXCEPT !.pc = "write", !.platform = p,
             !.found = (forward[<<caller[c].event, p>>].status # "none")]]
    /\ UNCHANGED <<forward, credential, job, worker, accepted, missed, enqueueFailures>>

\* Mutant of ResetRow: the attempts of the earlier run are kept.
ResetStatusOnly(row) == [row EXCEPT !.status = "PENDING"]

\* update: { status: PENDING, attempt: 0 }
ResetRow(row) == [row EXCEPT !.status = "PENDING", !.attempt = 0]

\* The write half: create a PENDING row, or reset the existing one.
PutRow(c) ==
    \/ /\ caller[c].found
       /\ forward' = [forward EXCEPT ![Key(c)] = ResetRow(@)]
    \/ /\ ~caller[c].found
       /\ forward[Key(c)].status = "none"
       /\ forward' = [forward EXCEPT ![Key(c)] = NewRow]

WriteRow(c) ==
    /\ caller[c].pc = "write"
    /\ PutRow(c)
    /\ caller' = [caller EXCEPT ![c].pc = "add"]
    /\ UNCHANGED <<credential, job, worker, accepted, missed, enqueueFailures>>

\* P2002: a concurrent caller created the row after this one looked.
LoseRow(c) ==
    /\ caller[c].pc = "write"
    /\ ~caller[c].found
    /\ forward[Key(c)].status # "none"
    /\ NextPlatform(c)
    /\ UNCHANGED <<forward, credential, job, worker, accepted, missed, enqueueFailures>>

\* Any other database error is rethrown and the loop ends there.  The row may
\* be written all the same, when it was Postgres' answer that got lost.
FailRow(c) ==
    /\ caller[c].pc = "write"
    /\ UNCHANGED forward \/ PutRow(c)
    /\ caller' = [caller EXCEPT ![c].pc = "error"]
    /\ UNCHANGED <<credential, job, worker, accepted, missed, enqueueFailures>>

NewJob(c, j) ==
    /\ job[j].state = "free"
    /\ job' = [job EXCEPT ![j] = [@ EXCEPT !.state = "waiting", !.key = Key(c)]]

AddJob(c) ==
    /\ caller[c].pc = "add"
    /\ \E j \in Jobs : NewJob(c, j)
    /\ NextPlatform(c)
    /\ UNCHANGED <<forward, credential, worker, accepted, missed, enqueueFailures>>

\* Mutant of CountFailure: the catch swallows the error and counts nothing.
CountNothing(c) == enqueueFailures

\* incrementQueueEnqueueFailures
CountFailure(c) == [enqueueFailures EXCEPT ![Key(c)] = @ + 1]

\* queue.add rejects: counted, logged and swallowed.  Redis may have taken
\* the job all the same, when it was the answer that got lost.
AddJobFails(c) ==
    /\ caller[c].pc = "add"
    /\ UNCHANGED job \/ \E j \in Jobs : NewJob(c, j)
    /\ enqueueFailures' = CountFailure(c)
    /\ NextPlatform(c)
    /\ UNCHANGED <<forward, credential, worker, accepted, missed>>

FinishEnqueue(c) ==
    /\ caller[c].pc = "next"
    /\ caller[c].todo = {}
    /\ caller' = [caller EXCEPT ![c].pc = "done"]
    /\ UNCHANGED <<forward, credential, job, worker, accepted, missed, enqueueFailures>>

CallerStep(c) ==
    \/ ListCredentials(c)
    \/ \E p \in Platforms : ReadRow(c, p)
    \/ WriteRow(c) \/ LoseRow(c) \/ FailRow(c)
    \/ AddJob(c) \/ AddJobFails(c)
    \/ FinishEnqueue(c)

\* The instance dies; event, platform and todo keep what was in hand.
CallerCrash(c) ==
    /\ caller[c].pc \in {"list", "next", "write", "add"}
    /\ caller' = [caller EXCEPT ![c].pc = "crashed"]
    /\ UNCHANGED <<forward, credential, job, worker, accepted, missed, enqueueFailures>>

-------------------------------------------------------------------------------
(* EventForwardingProcessor.process(job)                                    *)

WorkerTo(w, pc) == worker' = [worker EXCEPT ![w].pc = pc]

WorkerKey(w) == job[worker[w].job].key

\* The runs of a job that are over: attempts that failed, and stalls.
RunsOver(j) == job[j].attempts + job[j].stalls

\* The worker still holds its job's lock: nobody took its run for stalled.
Owns(w) ==
    /\ job[worker[w].job].state = "active"
    /\ worker[w].run = RunsOver(worker[w].job) + 1

\* BullMQ hands a waiting job to a free worker, with its lock.
Fetch(w, j) ==
    /\ worker[w].pc = "idle"
    /\ job[j].state = "waiting"
    /\ job' = [job EXCEPT ![j].state = "active"]
    /\ worker' = [worker EXCEPT ![w] = [pc |-> "load", job |-> j,
                                        run |-> RunsOver(j) + 1, ok |-> FALSE]]
    /\ UNCHANGED <<forward, credential, caller, accepted, missed, enqueueFailures>>

\* Reads the event and its credential, and decrypts the payload.
Load(w) ==
    /\ worker[w].pc = "load"
    /\ LET e == WorkerKey(w)[1]
           p == WorkerKey(w)[2]
       IN  \/ /\ credential[p] # "active" \/ (p = GoogleAds /\ e \notin WithGclid)
              /\ WorkerTo(w, "skip")
           \/ /\ credential[p] = "active"
              /\ p = GoogleAds => e \in WithGclid
              /\ WorkerTo(w, "send")
    /\ UNCHANGED <<forward, credential, caller, job, accepted, missed, enqueueFailures>>

\* Any of those reads, the decryption or the parse throws; or the send does,
\* which decrypts the event's e-mail and phone before its own try.
LoadFails(w) ==
    /\ worker[w].pc \in {"load", "send"}
    /\ WorkerTo(w, "threw")
    /\ UNCHANGED <<forward, credential, caller, job, accepted, missed, enqueueFailures>>

SkipRow(w) ==
    /\ worker[w].pc = "skip"
    /\ forward' = [forward EXCEPT ![WorkerKey(w)].status = "SKIPPED"]

Skip(w) ==
    /\ SkipRow(w)
    /\ WorkerTo(w, "done")
    /\ UNCHANGED <<credential, caller, job, accepted, missed, enqueueFailures>>

\* How the fetch of a send ends: a status, a body, whether that can be read to
\* its end and parsed, and whether the platform took the event.  No answer (an
\* abort after 10 s, no OAuth token) is no 2xx.
Answer == [http2xx : BOOLEAN, partialFailure : BOOLEAN, readable : BOOLEAN,
           taken : BOOLEAN]

\* Only Google Ads answers 2xx to a conversion it did not take; an error tells
\* nothing, since the platform may have taken the event before it.
Answered(p, answer) ==
    /\ answer.partialFailure => p = GoogleAds /\ answer.http2xx
    /\ answer.http2xx => answer.taken = ~answer.partialFailure

\* META and GA4 go by the status; Google Ads looks into the body, if it gets
\* one: response.json().catch(() => null) reports no partial failure.
StatusOk(answer) == answer.http2xx

GoogleAdsOk(answer) == answer.http2xx /\ ~(answer.readable /\ answer.partialFailure)

\* result.success
Success(p, answer) ==
    IF p = GoogleAds THEN GoogleAdsOk(answer) ELSE StatusOk(answer)

Send(w) ==
    /\ worker[w].pc = "send"
    /\ \E answer \in Answer :
          LET p == WorkerKey(w)[2] IN
          /\ Answered(p, answer)
          /\ worker' = [worker EXCEPT ![w] = [@ EXCEPT !.pc = "record",
                            !.ok = Success(p, answer)]]
          /\ accepted' = [accepted EXCEPT ![WorkerKey(w)] =
                             IF answer.taken THEN @ + 1 ELSE @]
          /\ missed' = IF answer.partialFailure /\ ~answer.readable
                       THEN missed \cup {WorkerKey(w)} ELSE missed
    /\ UNCHANGED <<forward, credential, caller, job, enqueueFailures>>

\* The columns after a send.  sentAt is only ever set: undefined leaves the
\* column alone.
Outcome(row, ok) ==
    [status  |-> IF ok THEN "SUCCESS" ELSE "FAILED",
     attempt |-> row.attempt + 1,
     sent    |-> (row.sent \/ ok)]

RecordRow(w) ==
    /\ worker[w].pc = "record"
    /\ forward' = [forward EXCEPT ![WorkerKey(w)] = Outcome(@, worker[w].ok)]

\* Writes the outcome; a failure is then thrown so that BullMQ retries.
Record(w) ==
    /\ RecordRow(w)
    /\ WorkerTo(w, IF worker[w].ok THEN "done" ELSE "threw")
    /\ UNCHANGED <<credential, caller, job, accepted, missed, enqueueFailures>>

\* The row update itself fails, after the send, or its answer is lost.
WriteFails(w) ==
    /\ \/ worker[w].pc \in {"skip", "record"} /\ UNCHANGED forward
       \/ SkipRow(w)
       \/ RecordRow(w)
    /\ WorkerTo(w, "threw")
    /\ UNCHANGED <<credential, caller, job, accepted, missed, enqueueFailures>>

\* process() returned: BullMQ completes the job.  A run that lost its lock is
\* over too, but leaves the job as it is, here and below.
Complete(w) ==
    /\ worker[w].pc = "done"
    /\ \/ Owns(w) /\ job' = [job EXCEPT ![worker[w].job].state = "completed"]
       \/ ~Owns(w) /\ UNCHANGED job
    /\ worker' = [worker EXCEPT ![w] = IdleWorker]
    /\ UNCHANGED <<forward, credential, caller, accepted, missed, enqueueFailures>>

\* Mutant of AfterFailure: one attempt too many.
AfterFailureOffByOne(attempts) == IF attempts <= MaxAttempts THEN "delayed" ELSE "failed"

\* attempts: 5 with exponential backoff
AfterFailure(attempts) == IF attempts < MaxAttempts THEN "delayed" ELSE "failed"

\* process() threw: BullMQ schedules a retry, or gives up.
Retry(w) ==
    /\ worker[w].pc = "threw"
    /\ \/ LET j == worker[w].job IN
             /\ Owns(w)
             /\ job' = [job EXCEPT ![j] = [@ EXCEPT !.attempts = job[j].attempts + 1,
                                   !.state = AfterFailure(job[j].attempts + 1)]]
       \/ ~Owns(w) /\ UNCHANGED job
    /\ worker' = [worker EXCEPT ![w] = IdleWorker]
    /\ UNCHANGED <<forward, credential, caller, accepted, missed, enqueueFailures>>

WorkerStep(w) ==
    \/ \E j \in Jobs : Fetch(w, j)
    \/ Load(w) \/ LoadFails(w) \/ Skip(w) \/ Send(w) \/ Record(w)
    \/ WriteFails(w) \/ Complete(w) \/ Retry(w)

\* The worker's instance dies with a job in hand, which stays active.
WorkerCrash(w) ==
    /\ worker[w].pc # "idle"
    /\ worker' = [worker EXCEPT ![w] = IdleWorker]
    /\ UNCHANGED <<forward, credential, caller, job, accepted, missed, enqueueFailures>>

\* The backoff of a failed attempt elapses.
Promote(j) ==
    /\ job[j].state = "delayed"
    /\ job' = [job EXCEPT ![j].state = "waiting"]
    /\ UNCHANGED <<forward, credential, caller, worker, accepted, missed, enqueueFailures>>

\* BullMQ finds an active job whose lock expired: its worker died, or was too
\* busy to renew it and goes on with a run that is no longer its own.
Stall(j) ==
    /\ job[j].state = "active"
    /\ job' = [job EXCEPT ![j] = [@ EXCEPT !.stalls = job[j].stalls + 1,
          !.state = IF job[j].stalls < MaxStalls THEN "waiting" ELSE "failed"]]
    /\ UNCHANGED <<forward, credential, caller, worker, accepted, missed, enqueueFailures>>

\* Mutant of QueueStep: nobody looks for stalled jobs.
QueueStepNoStalledCheck(j) == Promote(j)

QueueStep(j) == Promote(j) \/ Stall(j)

-------------------------------------------------------------------------------
\* What goes on whatever becomes of the requests behind the callers.
Deliver ==
    \/ \E p \in Edited : SetCredential(p) \/ DeactivateCredential(p)
    \/ \E c \in Callers : CallerStep(c)
    \/ \E w \in Workers : WorkerStep(w) \/ WorkerCrash(w)
    \/ \E j \in Jobs : QueueStep(j)

Next ==
    \/ Deliver
    \/ \E c \in Callers : CallerCrash(c) \/ \E e \in Events : StartEnqueue(c, e)

\* Node runs every ready continuation, and BullMQ its timers and its stalled
\* check.  New callers, crashes and credential changes are not owed.
Fairness ==
    /\ \A c \in Callers : WF_vars(CallerStep(c))
    /\ \A w \in Workers : WF_vars(WorkerStep(w))
    /\ \A j \in Jobs : WF_vars(QueueStep(j))

Spec == Init /\ [][Next]_vars
FairSpec == Spec /\ Fairness

-------------------------------------------------------------------------------
\* A job that will still run process() for key k.
Live(j, k) ==
    /\ job[j].key = k
    /\ job[j].state \in {"waiting", "active", "delayed"}
    /\ \A w \in Workers : worker[w].job = j /\ Owns(w) => worker[w].pc # "done"

\* A caller that wrote the row and is about to add its job.
Held(k) == \E c \in Callers : caller[c].pc = "add" /\ Key(c) = k

\* What is to be found of a forward that nothing will run any more: the failure
\* metric, a failed job in BullMQ, or a request that answered 500, or whose
\* instance died, with it in hand.
Traced(k) ==
    \/ enqueueFailures[k] > 0
    \/ \E j \in Jobs : job[j].key = k /\ job[j].state = "failed"
    \/ \E c \in Callers : caller[c].pc \in {"error", "crashed"} /\ Key(c) = k

\* A run for k was taken for stalled.  If its worker lives it may write the row
\* last, after the run that took over and ended the job.
Overtaken(k) == \E j \in Jobs : job[j].key = k /\ job[j].stalls > 0

\* No forward is lost without a trace: while a row says PENDING or FAILED, a
\* job will still run for it, or a caller is about to add one, or there is a
\* trace of why not; a FAILED that nobody retries may also be the late word of
\* an overtaken run.  (enqueueForwards' swallowed queue.add failures, its
\* P2002 path that adds nothing, and the processor's throws before its update.)
NoSilentStrand ==
    \A k \in Keys : forward[k].status \in {"PENDING", "FAILED"} =>
        \/ \E j \in Jobs : Live(j, k)
        \/ Held(k)
        \/ Traced(k)
        \/ forward[k].status = "FAILED" /\ Overtaken(k)

\* The columns of a row agree, whoever wrote them last: PENDING rows start
\* from attempt 0, a recorded outcome counted its attempt, and SUCCESS or a
\* sentAt means the platform did accept the event, unless Google Ads refused it
\* in the body of a 200 that could not be read.
RowCoherent ==
    \A k \in Keys :
        /\ forward[k].status \in {"none", "PENDING"} => forward[k].attempt = 0
        /\ forward[k].status \in {"SUCCESS", "FAILED"} => forward[k].attempt > 0
        /\ forward[k].status = "SUCCESS" => forward[k].sent
        /\ forward[k].sent => accepted[k] > 0 \/ k \in missed

\* How often process() was entered for a job: finished attempts, runs that
\* died, and the run under way or completed.
RunsOf(j) == RunsOver(j) +
             (IF job[j].state \in {"active", "completed"} THEN 1 ELSE 0)

\* The runs of the jobs of k.
Runs(k) == UNION {{j} \X (1..RunsOf(j)) : j \in {i \in Jobs : job[i].key = k}}

\* Delivery is at least once but never unaccountably more: neither the
\* copies a platform accepted nor the attempts the row counts exceed the runs
\* of the jobs added for it, each of which BullMQ bounds.
SendsAccounted ==
    /\ \A k \in Keys : /\ accepted[k] <= Cardinality(Runs(k))
                      /\ forward[k].attempt <= Cardinality(Runs(k))
    /\ \A j \in Jobs : job[j].attempts <= MaxAttempts /\ job[j].stalls <= MaxStalls + 1

\* Every forward is settled: a PENDING row gets an outcome or leaves a trace.
EveryRowSettles ==
    \A k \in Keys : forward[k].status = "PENDING" ~>
        (forward[k].status # "PENDING" \/ Traced(k))
===============================================================================
