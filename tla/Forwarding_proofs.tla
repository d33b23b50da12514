--------------------------- MODULE Forwarding_proofs ---------------------------
(***************************************************************************)
(* Proofs about module Forwarding, for any callers, workers, jobs, events, *)
(* platforms and retry limits: the types, the columns of a row, and that   *)
(* no forward is lost without a trace.                                     *)
(***************************************************************************)
EXTENDS Forwarding, FiniteSetTheorems, TLAPS

\* A worker inside process() is at a run of a job that has begun, and only a
\* stall takes the job's lock from it.
AtRun(w) ==
    /\ worker[w].job \in Jobs /\ job[worker[w].job].state # "free"
    /\ worker[w].run >= 1 /\ worker[w].run <= RunsOf(worker[w].job)
    /\ Owns(w) \/ job[worker[w].job].stalls > 0

\* What BullMQ's locks give: no two workers are at the same run.
WorkerHoldsJob ==
    /\ \A w \in Workers : worker[w].pc # "idle" => AtRun(w)
    /\ \A v, w \in Workers :
          /\ worker[v].pc # "idle" /\ worker[w].pc # "idle"
          /\ worker[v].job = worker[w].job /\ worker[v].run = worker[w].run
          => v = w

\* A job in the queue is for an event and a platform; one not yet added has
\* not run.
JobsHaveKeys ==
    \A j \in Jobs : /\ job[j].state # "free" => job[j].key \in Keys
                    /\ job[j].state = "free" => job[j].stalls = 0

\* A caller past its start has an event in hand, and past the read a platform.
CallerHoldsKey ==
    \A c \in Callers :
        /\ caller[c].pc \in {"list", "next", "write", "add"} =>
              caller[c].event \in Events
        /\ caller[c].pc \in {"write", "add"} => caller[c].platform \in Platforms

Shape == TypeOK /\ WorkerHoldsJob /\ JobsHaveKeys /\ CallerHoldsKey

LEMMA InitShape == Init => Shape
  BY DEF Init, Shape, TypeOK, WorkerHoldsJob, JobsHaveKeys, CallerHoldsKey,
     Keys, NoRow, IdleCaller, FreeJob, IdleWorker, Row, CallerState, JobState,
     WorkerState

\* The key a caller is at, and the one a worker is at, are keys of the table.
LEMMA CallerKey ==
  ASSUME Shape, NEW c \in Callers, caller[c].pc \in {"write", "add"}
  PROVE  Key(c) \in Keys
  BY DEF Shape, CallerHoldsKey, Key, Keys

LEMMA WorkerJob ==
  ASSUME Shape, NEW w \in Workers, worker[w].pc # "idle"
  PROVE  /\ worker[w].job \in Jobs
         /\ WorkerKey(w) \in Keys
         /\ job[worker[w].job].state # "free"
  BY DEF Shape, WorkerHoldsJob, AtRun, JobsHaveKeys, WorkerKey

\* Of the workers at a job only one has its lock.
LEMMA OneOwner ==
  ASSUME Shape, NEW v \in Workers, NEW w \in Workers,
         worker[v].pc # "idle", worker[w].pc # "idle",
         worker[v].job = worker[w].job, Owns(v), Owns(w)
  PROVE  v = w
  BY DEF Shape, WorkerHoldsJob, Owns

\* A worker moves on in its run, or is through with it.
LEMMA WorkerMoves ==
  ASSUME Shape, NEW w \in Workers, NEW s \in WorkerState,
         worker' = [worker EXCEPT ![w] = s], UNCHANGED job,
         s.pc # "idle" => /\ worker[w].pc # "idle"
                          /\ s.job = worker[w].job /\ s.run = worker[w].run
  PROVE  worker' \in [Workers -> WorkerState] /\ WorkerHoldsJob' /\ JobsHaveKeys'
<1>0. worker \in [Workers -> WorkerState] BY DEF Shape, TypeOK
<1>1. worker' \in [Workers -> WorkerState] /\ JobsHaveKeys'
  BY <1>0 DEF Shape, JobsHaveKeys
<1>2. ASSUME NEW v \in Workers, worker'[v].pc # "idle"
      PROVE  /\ worker[v].pc # "idle"
             /\ worker'[v].job = worker[v].job /\ worker'[v].run = worker[v].run
  BY <1>0, <1>2
<1>3. ASSUME NEW v \in Workers, worker'[v].pc # "idle" PROVE AtRun(v)'
  <2>1. AtRun(v) BY <1>2, <1>3 DEF Shape, WorkerHoldsJob
  <2> QED BY <1>2, <1>3, <2>1 DEF AtRun, Owns, RunsOf, RunsOver
<1> QED BY <1>1, <1>2, <1>3 DEF Shape, WorkerHoldsJob

LEMMA HeldStay ==
  ASSUME Shape, UNCHANGED <<job, worker>>
  PROVE  WorkerHoldsJob' /\ JobsHaveKeys'
  BY DEF Shape, WorkerHoldsJob, AtRun, Owns, RunsOf, RunsOver, JobsHaveKeys

\* A job moves on: it keeps its key and loses no run, and of the workers at it
\* one that had the lock goes or lost it to a stall.
LEMMA JobMoves ==
  ASSUME Shape, NEW i \in Jobs, NEW s \in JobState,
         job' = [job EXCEPT ![i] = s],
         s.state # "free", s.key \in Keys, s.stalls >= job[i].stalls,
         s.attempts + s.stalls +
            (IF s.state \in {"active", "completed"} THEN 1 ELSE 0) >= RunsOf(i),
         \A w \in Workers : worker'[w].pc # "idle" =>
            worker'[w] = worker[w] /\ (worker[w].job = i => s.stalls > 0)
  PROVE  job' \in [Jobs -> JobState] /\ WorkerHoldsJob' /\ JobsHaveKeys'
<1>0. job \in [Jobs -> JobState] /\ worker \in [Workers -> WorkerState]
  BY DEF Shape, TypeOK
<1>1. /\ job' \in [Jobs -> JobState] /\ job'[i] = s
      /\ \A j \in Jobs : j # i => job'[j] = job[j]
  BY <1>0
<1>2. JobsHaveKeys' BY <1>1 DEF Shape, JobsHaveKeys
<1>3. ASSUME NEW w \in Workers, worker'[w].pc # "idle" PROVE AtRun(w)'
  <2>1. AtRun(w) /\ worker'[w] = worker[w] BY <1>3 DEF Shape, WorkerHoldsJob
  <2>2. CASE worker[w].job # i
    BY <1>1, <2>1, <2>2 DEF AtRun, Owns, RunsOf, RunsOver
  <2>3. CASE worker[w].job = i
    <3>1. RunsOf(i)' >= RunsOf(i) BY <1>1 DEF RunsOf, RunsOver
    <3>2. RunsOf(i) \in Nat /\ RunsOf(i)' \in Nat /\ worker[w].run \in Nat
      BY <1>0, <1>1 DEF RunsOf, RunsOver, JobState, WorkerState
    <3>3. worker[w].run <= RunsOf(i)' BY <2>1, <2>3, <3>1, <3>2 DEF AtRun
    <3> QED BY <1>1, <1>3, <2>1, <2>3, <3>3 DEF AtRun
  <2> QED BY <2>2, <2>3
<1>4. \A w \in Workers : worker'[w].pc # "idle" => worker'[w] = worker[w]
  OBVIOUS
<1> QED BY <1>1, <1>2, <1>3, <1>4 DEF Shape, WorkerHoldsJob

\* One caller moves to a well-formed state and keeps what it must hold.
LEMMA CallerMoves ==
  ASSUME Shape, NEW c \in Callers, NEW s \in CallerState,
         caller' = [caller EXCEPT ![c] = s],
         s.pc \in {"list", "next", "write", "add"} => s.event \in Events,
         s.pc \in {"write", "add"} => s.platform \in Platforms
  PROVE  caller' \in [Callers -> CallerState] /\ CallerHoldsKey'
  BY DEF Shape, TypeOK, CallerHoldsKey

\* A job is added for the key in hand.
LEMMA JobAdded ==
  ASSUME Shape, NEW c \in Callers, NEW j \in Jobs, NewJob(c, j), Key(c) \in Keys,
         UNCHANGED worker
  PROVE  job' \in [Jobs -> JobState] /\ JobsHaveKeys' /\ WorkerHoldsJob'
<1> DEFINE s == [job[j] EXCEPT !.state = "waiting", !.key = Key(c)]
<1>1. s \in JobState /\ s.state = "waiting" /\ s.key = Key(c)
  BY DEF Shape, TypeOK, JobState
<1>2. job' = [job EXCEPT ![j] = s] /\ job[j].state = "free"
  BY DEF NewJob
<1>3. s.attempts = job[j].attempts /\ s.stalls = job[j].stalls
  BY DEF Shape, TypeOK, JobState
<1>4. /\ s.stalls >= job[j].stalls
      /\ s.attempts + s.stalls +
           (IF s.state \in {"active", "completed"} THEN 1 ELSE 0) >= RunsOf(j)
  BY <1>1, <1>2, <1>3 DEF RunsOf, RunsOver, Shape, TypeOK, JobState
<1>5. \A w \in Workers : worker[w].pc # "idle" => worker[w].job # j
  BY <1>2 DEF Shape, WorkerHoldsJob, AtRun
<1> HIDE DEF s
<1> QED BY <1>1, <1>2, <1>4, <1>5, JobMoves

\* The row a caller puts is a fresh PENDING one, or an old one reset to it.
PutsPending(k, r) ==
    /\ forward' = [forward EXCEPT ![k] = r]
    /\ r.status = "PENDING" /\ r.attempt = 0
    /\ r.sent => forward[k].sent

LEMMA RowPut ==
  ASSUME Shape, NEW c \in Callers, caller[c].pc = "write", PutRow(c)
  PROVE  Key(c) \in Keys /\ \E r \in Row : PutsPending(Key(c), r)
<1>1. Key(c) \in Keys BY CallerKey
<1>2. forward[Key(c)] \in Row BY <1>1 DEF Shape, TypeOK
<1>3. /\ ResetRow(forward[Key(c)]) \in Row
      /\ ResetRow(forward[Key(c)]).status = "PENDING"
      /\ ResetRow(forward[Key(c)]).attempt = 0
      /\ ResetRow(forward[Key(c)]).sent = forward[Key(c)].sent
  BY <1>2 DEF ResetRow, Row
<1>4. NewRow \in Row /\ NewRow.status = "PENDING" /\ NewRow.attempt = 0 /\ ~NewRow.sent
  BY DEF NewRow, Row
<1>5. \/ forward' = [forward EXCEPT ![Key(c)] = ResetRow(forward[Key(c)])]
      \/ forward' = [forward EXCEPT ![Key(c)] = NewRow]
  BY DEF PutRow
<1> QED BY <1>1, <1>3, <1>4, <1>5 DEF PutsPending

\* The row a worker leaves is settled, or FAILED, and says what was sent.
LEMMA RowOutcome ==
  ASSUME Shape, NEW w \in Workers, SkipRow(w) \/ RecordRow(w)
  PROVE  /\ worker[w].pc \in {"skip", "record"} /\ WorkerKey(w) \in Keys
         /\ \E r \in Row :
              /\ forward' = [forward EXCEPT ![WorkerKey(w)] = r]
              /\ r.status \in {"SUCCESS", "FAILED", "SKIPPED"}
              /\ r.status \in {"SUCCESS", "FAILED"} => r.attempt > 0
              /\ r.status = "SUCCESS" => r.sent
              /\ r.sent => \/ forward[WorkerKey(w)].sent
                           \/ worker[w].pc = "record" /\ worker[w].ok
<1> DEFINE k == WorkerKey(w)
<1>1. worker[w].pc \in {"skip", "record"} /\ k \in Keys
  BY WorkerJob DEF SkipRow, RecordRow
<1>2. forward[k] \in Row /\ worker[w] \in WorkerState BY <1>1 DEF Shape, TypeOK
<1>3. CASE SkipRow(w)
  <2> DEFINE r == [forward[k] EXCEPT !.status = "SKIPPED"]
  <2>1. r \in Row /\ r.status = "SKIPPED" /\ r.sent = forward[k].sent BY <1>2 DEF Row
  <2>2. forward' = [forward EXCEPT ![k] = r] BY <1>3 DEF SkipRow
  <2> HIDE DEF r
  <2> QED BY <1>1, <2>1, <2>2
<1>4. CASE RecordRow(w)
  <2> DEFINE ok == worker[w].ok
  <2> DEFINE r == Outcome(forward[k], ok)
  <2>1. ok \in BOOLEAN BY <1>2 DEF WorkerState
  <2>2. /\ r \in Row /\ r.status \in {"SUCCESS", "FAILED"} /\ r.attempt > 0
        /\ r.status = "SUCCESS" => ok
        /\ ok => r.sent
        /\ r.sent => forward[k].sent \/ ok
    BY <1>2, <2>1 DEF Outcome, Row
  <2>3. forward' = [forward EXCEPT ![k] = r] /\ worker[w].pc = "record"
    BY <1>4 DEF RecordRow
  <2> HIDE DEF r
  <2> QED BY <1>1, <2>2, <2>3
<1> QED BY <1>3, <1>4

LEMMA CallerShape ==
  ASSUME Shape, NEW c \in Callers, CallerStep(c)
  PROVE  Shape'
<1> USE DEF Shape
<1>0. caller[c] \in CallerState BY DEF TypeOK
<1>1. CASE ListCredentials(c)
  <2> DEFINE t == {p \in Platforms : credential[p] = "active"}
  <2> DEFINE s == [caller[c] EXCEPT !.pc = "next", !.todo = t]
  <2> DEFINE e == [caller[c] EXCEPT !.pc = "error"]
  <2>1. t \in SUBSET Platforms OBVIOUS
  <2> HIDE DEF t
  <2>2. s \in CallerState /\ e \in CallerState
    BY <1>0, <2>1 DEF CallerState
  <2>3. caller[c].event \in Events BY <1>1 DEF ListCredentials, CallerHoldsKey
  <2>4. s.event = caller[c].event /\ s.pc = "next" /\ e.pc = "error"
    BY <1>0 DEF CallerState
  <2>5. \/ caller' = [caller EXCEPT ![c] = s]
        \/ caller' = [caller EXCEPT ![c] = e]
    BY <1>1 DEF ListCredentials, t
  <2> HIDE DEF s, e
  <2>6. caller' \in [Callers -> CallerState] /\ CallerHoldsKey'
    BY <2>2, <2>3, <2>4, <2>5, CallerMoves
  <2> QED BY <1>1, <2>6, HeldStay DEF ListCredentials, TypeOK
<1>2. ASSUME NEW p \in Platforms, ReadRow(c, p) PROVE Shape'
  <2> DEFINE b == (forward[<<caller[c].event, p>>].status # "none")
  <2> DEFINE s == [caller[c] EXCEPT !.pc = "write", !.platform = p, !.found = b]
  <2>1. b \in BOOLEAN OBVIOUS
  <2>2. caller' = [caller EXCEPT ![c] = s]
    BY <1>2 DEF ReadRow
  <2> HIDE DEF b
  <2>3. s \in CallerState BY <1>0, <2>1 DEF CallerState
  <2>4. s.event = caller[c].event /\ s.platform = p
    BY <1>0 DEF CallerState
  <2>5. caller[c].event \in Events BY <1>2 DEF ReadRow, CallerHoldsKey
  <2> HIDE DEF s
  <2>6. caller' \in [Callers -> CallerState] /\ CallerHoldsKey'
    BY <2>2, <2>3, <2>4, <2>5, CallerMoves
  <2> QED BY <1>2, <2>6, HeldStay DEF ReadRow, TypeOK
<1>3. CASE WriteRow(c)
  <2> DEFINE s == [caller[c] EXCEPT !.pc = "add"]
  <2>1. caller[c].pc = "write" /\ PutRow(c) BY <1>3 DEF WriteRow
  <2>2. PICK r \in Row : PutsPending(Key(c), r) BY <2>1, RowPut
  <2>5. forward' \in [Keys -> Row] BY <2>2 DEF TypeOK, PutsPending
  <2>6. s \in CallerState /\ s.event = caller[c].event /\ s.platform = caller[c].platform
    BY <1>0 DEF CallerState
  <2>7. caller[c].event \in Events /\ caller[c].platform \in Platforms
    BY <1>3 DEF WriteRow, CallerHoldsKey
  <2>8. caller' = [caller EXCEPT ![c] = s] BY <1>3 DEF WriteRow
  <2> HIDE DEF s
  <2>9. caller' \in [Callers -> CallerState] /\ CallerHoldsKey'
    BY <2>6, <2>7, <2>8, CallerMoves
  <2> QED BY <1>3, <2>5, <2>9, HeldStay DEF WriteRow, TypeOK
<1>4. ASSUME NextPlatform(c), caller[c].event \in Events
      PROVE  caller' \in [Callers -> CallerState] /\ CallerHoldsKey'
  <2> DEFINE t == caller[c].todo \ {caller[c].platform}
  <2> DEFINE s == [caller[c] EXCEPT !.pc = "next", !.platform = None, !.todo = t]
  <2>1. t \in SUBSET Platforms BY <1>0 DEF CallerState
  <2>2. caller' = [caller EXCEPT ![c] = s] BY <1>4 DEF NextPlatform
  <2> HIDE DEF t
  <2>3. s \in CallerState /\ s.pc = "next" /\ s.event = caller[c].event
    BY <1>0, <2>1 DEF CallerState
  <2> HIDE DEF s
  <2> QED BY <1>4, <2>2, <2>3, CallerMoves
<1>5. CASE LoseRow(c)
  <2>1. caller[c].event \in Events BY <1>5 DEF LoseRow, CallerHoldsKey
  <2> QED BY <1>4, <1>5, <2>1, HeldStay DEF LoseRow, TypeOK
<1>6. CASE FailRow(c)
  <2> DEFINE s == [caller[c] EXCEPT !.pc = "error"]
  <2>1. s \in CallerState /\ s.pc = "error" BY <1>0 DEF CallerState
  <2>2. caller' = [caller EXCEPT ![c] = s] BY <1>6 DEF FailRow
  <2> HIDE DEF s
  <2>3. caller' \in [Callers -> CallerState] /\ CallerHoldsKey'
    BY <2>1, <2>2, CallerMoves
  <2>4. forward' \in [Keys -> Row]
    <3>1. CASE UNCHANGED forward BY <3>1 DEF TypeOK
    <3>2. CASE PutRow(c)
      <4>1. caller[c].pc = "write" BY <1>6 DEF FailRow
      <4>2. PICK r \in Row : PutsPending(Key(c), r) BY <3>2, <4>1, RowPut
      <4> QED BY <4>2 DEF TypeOK, PutsPending
    <3> QED BY <1>6, <3>1, <3>2 DEF FailRow
  <2> QED BY <1>6, <2>3, <2>4, HeldStay DEF FailRow, TypeOK
<1>7. CASE AddJob(c)
  <2>1. caller[c].event \in Events BY <1>7 DEF AddJob, CallerHoldsKey
  <2>2. Key(c) \in Keys BY <1>7, CallerKey DEF AddJob
  <2>3. job' \in [Jobs -> JobState] /\ JobsHaveKeys' /\ WorkerHoldsJob'
    BY <1>7, <2>2, JobAdded DEF AddJob
  <2> QED BY <1>4, <1>7, <2>1, <2>3 DEF AddJob, TypeOK
<1>8. CASE AddJobFails(c)
  <2>1. caller[c].event \in Events BY <1>8 DEF AddJobFails, CallerHoldsKey
  <2>2. Key(c) \in Keys BY <1>8, CallerKey DEF AddJobFails
  <2>3. ASSUME UNCHANGED <<job, worker>>
        PROVE  job' \in [Jobs -> JobState] /\ JobsHaveKeys' /\ WorkerHoldsJob'
    BY <2>3, HeldStay DEF TypeOK
  <2>4. job' \in [Jobs -> JobState] /\ JobsHaveKeys' /\ WorkerHoldsJob'
    BY <1>8, <2>2, <2>3, JobAdded DEF AddJobFails
  <2>5. enqueueFailures' \in [Keys -> Nat]
    BY <1>8, <2>2 DEF AddJobFails, CountFailure, TypeOK
  <2> QED BY <1>4, <1>8, <2>1, <2>4, <2>5 DEF AddJobFails, TypeOK
<1>9. CASE FinishEnqueue(c)
  <2> DEFINE s == [caller[c] EXCEPT !.pc = "done"]
  <2>1. s \in CallerState /\ s.pc = "done" BY <1>0 DEF CallerState
  <2>2. caller' = [caller EXCEPT ![c] = s] BY <1>9 DEF FinishEnqueue
  <2> HIDE DEF s
  <2>3. caller' \in [Callers -> CallerState] /\ CallerHoldsKey'
    BY <2>1, <2>2, CallerMoves
  <2> QED BY <1>9, <2>3, HeldStay DEF FinishEnqueue, TypeOK
<1> QED
  BY <1>1, <1>2, <1>3, <1>5, <1>6, <1>7, <1>8, <1>9 DEF CallerStep

\* What a send reports as a success was taken by the platform, whichever it is,
\* or refused in a body that nobody could read.
LEMMA SendOutcome ==
  ASSUME NEW w \in Workers, Send(w)
  PROVE  \E ok \in BOOLEAN, taken \in BOOLEAN :
           /\ ok => taken \/ WorkerKey(w) \in missed'
           /\ missed' = missed \/ missed' = missed \cup {WorkerKey(w)}
           /\ worker' = [worker EXCEPT ![w] = [@ EXCEPT !.pc = "record", !.ok = ok]]
           /\ accepted' = [accepted EXCEPT ![WorkerKey(w)] =
                             IF taken THEN @ + 1 ELSE @]
<1> DEFINE p == WorkerKey(w)[2]
<1>1. PICK answer \in Answer :
        /\ Answered(p, answer)
        /\ worker' = [worker EXCEPT ![w] = [@ EXCEPT !.pc = "record",
                          !.ok = Success(p, answer)]]
        /\ accepted' = [accepted EXCEPT ![WorkerKey(w)] =
                           IF answer.taken THEN @ + 1 ELSE @]
        /\ missed' = IF answer.partialFailure /\ ~answer.readable
                     THEN missed \cup {WorkerKey(w)} ELSE missed
  BY DEF Send
<1> HIDE DEF p
<1>2. Success(p, answer) \in BOOLEAN /\ answer.taken \in BOOLEAN
  BY DEF Success, GoogleAdsOk, StatusOk, Answer
<1>3. Success(p, answer) => answer.taken \/ WorkerKey(w) \in missed'
  BY <1>1 DEF Answered, Success, GoogleAdsOk, StatusOk, Answer
<1> QED BY <1>1, <1>2, <1>3

\* A waiting job is handed out, with the next run's lock.
LEMMA FetchShape ==
  ASSUME Shape, NEW w \in Workers, NEW j \in Jobs, Fetch(w, j)
  PROVE  Shape'
<1>0. /\ job \in [Jobs -> JobState] /\ worker \in [Workers -> WorkerState]
      /\ job[j] \in JobState /\ job[j].attempts \in Nat /\ job[j].stalls \in Nat
  BY DEF Shape, TypeOK, JobState
<1> DEFINE n == RunsOver(j) + 1
<1> DEFINE s == [pc |-> "load", job |-> j, run |-> n, ok |-> FALSE]
<1> DEFINE a == [job[j] EXCEPT !.state = "active"]
<1>1. /\ worker[w].pc = "idle" /\ job[j].state = "waiting"
      /\ job' = [job EXCEPT ![j] = a] /\ worker' = [worker EXCEPT ![w] = s]
  BY DEF Fetch
<1>2. /\ a \in JobState /\ a.state = "active" /\ a.key = job[j].key
      /\ a.attempts = job[j].attempts /\ a.stalls = job[j].stalls
  BY <1>0 DEF JobState
<1>3. RunsOver(j) \in Nat /\ RunsOf(j) = RunsOver(j) /\ n \in Nat /\ n > RunsOf(j)
  BY <1>0, <1>1 DEF RunsOf, RunsOver
<1> HIDE DEF n
<1>4. s \in WorkerState /\ s.pc = "load" /\ s.job = j /\ s.run = n BY <1>3 DEF WorkerState
<1> HIDE DEF s, a
<1>5. job'[j] = a /\ worker'[w] = s /\ \A i \in Jobs : i # j => job'[i] = job[i]
  BY <1>0, <1>1
<1>6. \A v \in Workers : v # w => worker'[v] = worker[v] BY <1>0, <1>1
<1>7. RunsOver(j)' = RunsOver(j) /\ RunsOf(j)' = n
  BY <1>0, <1>2, <1>5 DEF RunsOf, RunsOver, n
<1>8. ASSUME NEW v \in Workers, worker'[v].pc # "idle" PROVE AtRun(v)'
  <2>1. CASE v = w
    <3>1. Owns(w)' BY <1>2, <1>4, <1>5, <1>7 DEF Owns, n
    <3> QED BY <1>2, <1>3, <1>4, <1>5, <1>7, <2>1, <3>1 DEF AtRun
  <2>2. CASE v # w /\ worker[v].job = j
    <3>1. AtRun(v) /\ ~Owns(v) /\ worker[v].run \in Nat
      BY <1>0, <1>1, <1>6, <1>8, <2>2 DEF Shape, WorkerHoldsJob, Owns, WorkerState
    <3> QED BY <1>2, <1>3, <1>5, <1>6, <1>7, <2>2, <3>1 DEF AtRun
  <2>3. CASE v # w /\ worker[v].job # j
    <3>1. AtRun(v) BY <1>6, <1>8, <2>3 DEF Shape, WorkerHoldsJob
    <3> QED BY <1>5, <1>6, <2>3, <3>1 DEF AtRun, Owns, RunsOf, RunsOver
  <2> QED BY <2>1, <2>2, <2>3
<1>9. ASSUME NEW v \in Workers, v # w, worker'[v].pc # "idle", worker'[v].job = j
      PROVE  worker'[v].run # n
  <2>1. AtRun(v) /\ worker[v].job = j /\ worker[v].run \in Nat
    BY <1>0, <1>6, <1>9 DEF Shape, WorkerHoldsJob, WorkerState
  <2>2. worker[v].run <= RunsOf(j) BY <2>1 DEF AtRun
  <2> QED BY <1>3, <1>6, <1>9, <2>1, <2>2
<1>10. WorkerHoldsJob'
  BY <1>4, <1>5, <1>6, <1>8, <1>9 DEF Shape, WorkerHoldsJob
<1>11. JobsHaveKeys' BY <1>1, <1>2, <1>5 DEF Shape, JobsHaveKeys
<1>12. TypeOK'
  <2>1. job' \in [Jobs -> JobState] /\ worker' \in [Workers -> WorkerState]
    BY <1>0, <1>1, <1>2, <1>4
  <2> QED BY <2>1 DEF Fetch, Shape, TypeOK
<1> QED BY <1>10, <1>11, <1>12 DEF Shape, Fetch, CallerHoldsKey

\* A run that ends with its lock ends the job's latest run.
LEMMA RunEnds ==
  ASSUME Shape, NEW w \in Workers, worker[w].pc # "idle", Owns(w),
         NEW s \in JobState, s.state # "free", s.key = WorkerKey(w),
         s.stalls = job[worker[w].job].stalls,
         s.attempts + s.stalls +
            (IF s.state \in {"active", "completed"} THEN 1 ELSE 0)
              = RunsOver(worker[w].job) + 1,
         job' = [job EXCEPT ![worker[w].job] = s],
         worker' = [worker EXCEPT ![w] = IdleWorker]
  PROVE  /\ job' \in [Jobs -> JobState] /\ worker' \in [Workers -> WorkerState]
         /\ WorkerHoldsJob' /\ JobsHaveKeys'
<1> DEFINE j == worker[w].job
<1>0. /\ job \in [Jobs -> JobState] /\ worker \in [Workers -> WorkerState]
      /\ IdleWorker \in WorkerState /\ IdleWorker.pc = "idle"
  BY DEF Shape, TypeOK, IdleWorker, WorkerState
<1>1. j \in Jobs /\ WorkerKey(w) \in Keys BY WorkerJob
<1>2. /\ job[j].state = "active" /\ RunsOf(j) = RunsOver(j) + 1
      /\ job[j].stalls \in Nat /\ RunsOver(j) \in Nat
  BY <1>0, <1>1 DEF Owns, RunsOf, RunsOver, JobState
<1>3. ASSUME NEW v \in Workers, worker'[v].pc # "idle"
      PROVE  worker'[v] = worker[v] /\ (worker[v].job = j => s.stalls > 0)
  <2>1. v # w /\ worker'[v] = worker[v] BY <1>0, <1>3
  <2>2. ASSUME worker[v].job = j PROVE s.stalls > 0
    <3>1. ~Owns(v) BY <1>3, <2>1, <2>2, OneOwner
    <3> QED BY <1>3, <2>1, <2>2, <3>1 DEF Shape, WorkerHoldsJob, AtRun
  <2> QED BY <2>1, <2>2
<1>4. /\ s.stalls >= job[j].stalls
      /\ s.attempts + s.stalls +
           (IF s.state \in {"active", "completed"} THEN 1 ELSE 0) >= RunsOf(j)
  BY <1>2
<1>5. worker' \in [Workers -> WorkerState] BY <1>0
<1> HIDE DEF j
<1>6. job' = [job EXCEPT ![j] = s] /\ s.key \in Keys BY <1>1 DEF j
<1> QED BY <1>1, <1>3, <1>4, <1>5, <1>6, JobMoves

\* A worker's step: its own state, and at most a job, a row or a count.
LEMMA WorkerShape ==
  ASSUME Shape, NEW w \in Workers, WorkerStep(w)
  PROVE  Shape'
<1> USE DEF Shape
<1>0. worker[w] \in WorkerState BY DEF TypeOK
<1>1. ASSUME NEW j \in Jobs, Fetch(w, j) PROVE Shape'
  BY <1>1, FetchShape
<1>2. ASSUME NEW pc \in {"skip", "send", "threw", "done"}, WorkerTo(w, pc),
             worker[w].pc # "idle",
             UNCHANGED job
      PROVE  worker' \in [Workers -> WorkerState] /\ WorkerHoldsJob' /\ JobsHaveKeys'
  <2> DEFINE s == [worker[w] EXCEPT !.pc = pc]
  <2>1. s \in WorkerState /\ s.job = worker[w].job /\ s.run = worker[w].run
    BY <1>0 DEF WorkerState
  <2>2. worker' = [worker EXCEPT ![w] = s] BY <1>2 DEF WorkerTo
  <2> HIDE DEF s
  <2> QED BY <1>2, <2>1, <2>2, WorkerMoves
<1>3. CASE Load(w) \/ LoadFails(w)
  BY <1>2, <1>3 DEF Load, LoadFails, TypeOK, CallerHoldsKey
<1>4. CASE Skip(w) \/ Record(w) \/ WriteFails(w)
  <2>1. worker[w].pc # "idle" /\ UNCHANGED <<credential, caller, job, accepted, missed, enqueueFailures>>
    BY <1>4 DEF Skip, Record, WriteFails, SkipRow, RecordRow
  <2>2. forward' \in [Keys -> Row]
    BY <1>4, RowOutcome DEF Skip, Record, WriteFails, TypeOK
  <2>3. WorkerTo(w, "done") \/ WorkerTo(w, "threw")
    BY <1>4 DEF Skip, Record, WriteFails
  <2> QED BY <1>2, <2>1, <2>2, <2>3 DEF TypeOK, CallerHoldsKey
<1>5. CASE Send(w)
  <2>1. WorkerKey(w) \in Keys BY <1>5, WorkerJob DEF Send
  <2>2. PICK ok \in BOOLEAN, taken \in BOOLEAN :
          /\ missed' = missed \/ missed' = missed \cup {WorkerKey(w)}
          /\ worker' = [worker EXCEPT ![w] = [@ EXCEPT !.pc = "record", !.ok = ok]]
          /\ accepted' = [accepted EXCEPT ![WorkerKey(w)] =
                             IF taken THEN @ + 1 ELSE @]
    BY <1>5, SendOutcome
  <2>3. accepted' \in [Keys -> Nat] /\ missed' \subseteq Keys BY <2>1, <2>2 DEF TypeOK
  <2> DEFINE s == [worker[w] EXCEPT !.pc = "record", !.ok = ok]
  <2>4. s \in WorkerState /\ s.job = worker[w].job /\ s.run = worker[w].run
    BY <1>0 DEF WorkerState
  <2>5. worker' = [worker EXCEPT ![w] = s] BY <2>2
  <2> HIDE DEF s
  <2>6. worker' \in [Workers -> WorkerState] /\ WorkerHoldsJob' /\ JobsHaveKeys'
    BY <1>5, <2>4, <2>5, WorkerMoves DEF Send
  <2> QED BY <1>5, <2>3, <2>6 DEF Send, TypeOK, CallerHoldsKey
<1>6. ASSUME worker[w].pc # "idle", worker' = [worker EXCEPT ![w] = IdleWorker],
             UNCHANGED job
      PROVE  worker' \in [Workers -> WorkerState] /\ WorkerHoldsJob' /\ JobsHaveKeys'
  <2>1. IdleWorker \in WorkerState /\ IdleWorker.pc = "idle"
    BY DEF IdleWorker, WorkerState
  <2> QED BY <1>6, <2>1, WorkerMoves
<1>7. ASSUME worker[w].pc # "idle"
      PROVE  /\ worker[w].job \in Jobs /\ job[worker[w].job] \in JobState
             /\ job[worker[w].job].attempts \in Nat /\ job[worker[w].job].stalls \in Nat
  BY <1>7, WorkerJob DEF TypeOK, JobState
<1>8. CASE Complete(w)
  <2>1. CASE ~Owns(w) BY <1>6, <1>8, <2>1 DEF Complete, TypeOK, CallerHoldsKey
  <2>2. CASE Owns(w)
    <3> DEFINE j == worker[w].job
    <3> DEFINE s == [job[j] EXCEPT !.state = "completed"]
    <3>1. j \in Jobs /\ job[j] \in JobState /\ job[j].attempts \in Nat /\ job[j].stalls \in Nat
      BY <1>7, <1>8 DEF Complete
    <3>2. /\ s \in JobState /\ s.state = "completed" /\ s.key = WorkerKey(w)
          /\ s.attempts = job[j].attempts /\ s.stalls = job[j].stalls
      BY <3>1 DEF JobState, WorkerKey
    <3>3. job' = [job EXCEPT ![worker[w].job] = s] BY <1>8, <2>2 DEF Complete
    <3> HIDE DEF s
    <3>4. s.attempts + s.stalls +
            (IF s.state \in {"active", "completed"} THEN 1 ELSE 0)
              = RunsOver(worker[w].job) + 1
      BY <3>2 DEF RunsOver
    <3> QED BY <1>8, <2>2, <3>2, <3>3, <3>4, RunEnds DEF Complete, TypeOK, CallerHoldsKey
  <2> QED BY <2>1, <2>2
<1>9. CASE Retry(w)
  <2>1. CASE ~Owns(w) BY <1>6, <1>9, <2>1 DEF Retry, TypeOK, CallerHoldsKey
  <2>2. CASE Owns(w)
    <3> DEFINE j == worker[w].job
    <3> DEFINE next == AfterFailure(job[j].attempts + 1)
    <3> DEFINE n == job[j].attempts + 1
    <3> DEFINE s == [job[j] EXCEPT !.attempts = n, !.state = next]
    <3>1. j \in Jobs /\ job[j] \in JobState /\ job[j].attempts \in Nat /\ job[j].stalls \in Nat
      BY <1>7, <1>9 DEF Retry
    <3>2. next \in {"delayed", "failed"} /\ n \in Nat
      BY <3>1 DEF AfterFailure
    <3>3. job' = [job EXCEPT ![worker[w].job] = s] BY <1>9, <2>2 DEF Retry
    <3> HIDE DEF next
    <3>4. /\ s \in JobState /\ s.state = next /\ s.key = WorkerKey(w)
          /\ s.attempts = n /\ s.stalls = job[j].stalls
      BY <3>1, <3>2 DEF JobState, WorkerKey
    <3> HIDE DEF s
    <3>5. s.attempts + s.stalls +
            (IF s.state \in {"active", "completed"} THEN 1 ELSE 0)
              = RunsOver(worker[w].job) + 1
      BY <3>1, <3>2, <3>4 DEF RunsOver
    <3> QED BY <1>9, <2>2, <3>2, <3>3, <3>4, <3>5, RunEnds DEF Retry, TypeOK, CallerHoldsKey
  <2> QED BY <2>1, <2>2
<1> QED
  BY <1>1, <1>3, <1>4, <1>5, <1>8, <1>9 DEF WorkerStep

\* Everybody else: the queue's own timers, the crashes, the credentials.
LEMMA OtherShape ==
  ASSUME Shape,
         \/ \E p \in Edited : SetCredential(p) \/ DeactivateCredential(p)
         \/ \E c \in Callers : CallerCrash(c) \/ \E e \in Events : StartEnqueue(c, e)
         \/ \E w \in Workers : WorkerCrash(w)
         \/ \E j \in Jobs : QueueStep(j)
  PROVE  Shape'
<1> USE DEF Shape
<1>1. CASE \E p \in Edited : SetCredential(p) \/ DeactivateCredential(p)
  BY <1>1, HeldStay, ForwardingAssumption
     DEF SetCredential, DeactivateCredential, TypeOK, CallerHoldsKey
<1>2. ASSUME NEW c \in Callers, CallerCrash(c) PROVE Shape'
  <2> DEFINE s == [caller[c] EXCEPT !.pc = "crashed"]
  <2>1. s \in CallerState /\ s.pc = "crashed" BY DEF TypeOK, CallerState
  <2>2. caller' = [caller EXCEPT ![c] = s] BY <1>2 DEF CallerCrash
  <2> HIDE DEF s
  <2>3. caller' \in [Callers -> CallerState] /\ CallerHoldsKey'
    BY <2>1, <2>2, CallerMoves
  <2> QED BY <1>2, <2>3, HeldStay DEF CallerCrash, TypeOK
<1>3. ASSUME NEW c \in Callers, NEW e \in Events, StartEnqueue(c, e) PROVE Shape'
  <2> DEFINE s == [caller[c] EXCEPT !.pc = "list", !.event = e]
  <2>1. s \in CallerState /\ s.pc = "list" /\ s.event = e
    BY DEF TypeOK, CallerState
  <2>2. caller' = [caller EXCEPT ![c] = s] BY <1>3 DEF StartEnqueue
  <2> HIDE DEF s
  <2>3. caller' \in [Callers -> CallerState] /\ CallerHoldsKey'
    BY <2>1, <2>2, CallerMoves
  <2> QED BY <1>3, <2>3, HeldStay DEF StartEnqueue, TypeOK
<1>4. ASSUME NEW w \in Workers, WorkerCrash(w) PROVE Shape'
  <2>1. IdleWorker \in WorkerState /\ IdleWorker.pc = "idle"
    BY DEF IdleWorker, WorkerState
  <2>2. worker' \in [Workers -> WorkerState] /\ WorkerHoldsJob' /\ JobsHaveKeys'
    BY <1>4, <2>1, WorkerMoves DEF WorkerCrash
  <2> QED BY <1>4, <2>2 DEF WorkerCrash, TypeOK, CallerHoldsKey
<1>5. ASSUME NEW j \in Jobs, QueueStep(j) PROVE Shape'
  <2>0. /\ job[j] \in JobState /\ job[j].attempts \in Nat /\ job[j].stalls \in Nat
    BY DEF TypeOK, JobState
  <2>1. job[j].state # "free" /\ job[j].key \in Keys
    BY <1>5 DEF QueueStep, Promote, Stall, JobsHaveKeys
  <2>2. UNCHANGED <<forward, credential, caller, worker, accepted, missed, enqueueFailures>>
    BY <1>5 DEF QueueStep, Promote, Stall
  <2>3. CASE Promote(j)
    <3> DEFINE p == [job[j] EXCEPT !.state = "waiting"]
    <3>1. job' = [job EXCEPT ![j] = p] /\ job[j].state = "delayed" BY <2>3 DEF Promote
    <3>2. /\ p \in JobState /\ p.state = "waiting" /\ p.key = job[j].key
          /\ p.attempts = job[j].attempts /\ p.stalls = job[j].stalls
      BY <2>0 DEF JobState
    <3> HIDE DEF p
    <3>3. /\ p.stalls >= job[j].stalls
          /\ p.attempts + p.stalls +
               (IF p.state \in {"active", "completed"} THEN 1 ELSE 0) >= RunsOf(j)
      BY <2>0, <3>1, <3>2 DEF RunsOf, RunsOver
    <3>4. ASSUME NEW w \in Workers, worker'[w].pc # "idle"
          PROVE  worker'[w] = worker[w] /\ (worker[w].job = j => p.stalls > 0)
      BY <2>2, <3>1, <3>2, <3>4 DEF WorkerHoldsJob, AtRun, Owns
    <3>5. job' \in [Jobs -> JobState] /\ WorkerHoldsJob' /\ JobsHaveKeys'
      BY <2>1, <3>1, <3>2, <3>3, <3>4, JobMoves
    <3> QED BY <2>2, <3>5 DEF TypeOK, CallerHoldsKey
  <2>4. CASE Stall(j)
    <3> DEFINE next == IF job[j].stalls < MaxStalls THEN "waiting" ELSE "failed"
    <3> DEFINE n == job[j].stalls + 1
    <3> DEFINE s == [job[j] EXCEPT !.stalls = n, !.state = next]
    <3>1. job' = [job EXCEPT ![j] = s] /\ job[j].state = "active" BY <2>4 DEF Stall
    <3>2. next \in {"waiting", "failed"} /\ n \in Nat BY <2>0
    <3> HIDE DEF next
    <3>3. /\ s \in JobState /\ s.state = next /\ s.key = job[j].key
          /\ s.attempts = job[j].attempts /\ s.stalls = n
      BY <2>0, <3>2 DEF JobState
    <3> HIDE DEF s
    <3>4. /\ s.stalls >= job[j].stalls /\ s.stalls > 0
          /\ s.attempts + s.stalls +
               (IF s.state \in {"active", "completed"} THEN 1 ELSE 0) >= RunsOf(j)
      BY <2>0, <3>1, <3>2, <3>3 DEF RunsOf, RunsOver
    <3>5. ASSUME NEW w \in Workers, worker'[w].pc # "idle"
          PROVE  worker'[w] = worker[w] /\ (worker[w].job = j => s.stalls > 0)
      BY <2>2, <3>4
    <3>6. job' \in [Jobs -> JobState] /\ WorkerHoldsJob' /\ JobsHaveKeys'
      BY <2>1, <3>1, <3>2, <3>3, <3>4, <3>5, JobMoves
    <3> QED BY <2>2, <3>6 DEF TypeOK, CallerHoldsKey
  <2> QED BY <1>5, <2>3, <2>4 DEF QueueStep
<1> QED BY <1>1, <1>2, <1>3, <1>4, <1>5

LEMMA NextShape == Shape /\ [Next]_vars => Shape'
<1> SUFFICES ASSUME Shape, [Next]_vars PROVE Shape'
  OBVIOUS
<1>1. CASE UNCHANGED vars
  BY <1>1, HeldStay DEF vars, Shape, TypeOK, CallerHoldsKey
<1>2. CASE Next
  BY <1>2, CallerShape, WorkerShape, OtherShape DEF Next, Deliver
<1> QED BY <1>1, <1>2

\* The types hold throughout, for any number of callers, workers and jobs and
\* any retry limits.
THEOREM TypeCorrect == Spec => []TypeOK
<1>1. Shape => TypeOK BY DEF Shape
<1> QED BY <1>1, InitShape, NextShape, PTL DEF Spec

LEMMA ShapeCorrect == Spec => []Shape
  BY InitShape, NextShape, PTL DEF Spec

-------------------------------------------------------------------------------
\* The columns of a row.

\* The platform took the event, or its refusal could not be read.
TakenOrMissed(k) == accepted[k] > 0 \/ k \in missed

\* A worker about to record a success has had the event taken so.
SentBeforeRecord ==
    \A w \in Workers : worker[w].pc = "record" /\ worker[w].ok =>
        TakenOrMissed(WorkerKey(w))

Coherent == RowCoherent /\ SentBeforeRecord

LEMMA InitCoherent == Init => Coherent
  BY DEF Init, Coherent, RowCoherent, SentBeforeRecord, TakenOrMissed, NoRow, IdleWorker

\* Whatever happens, a job keeps the key it was added for.
LEMMA JobKeysStay ==
  ASSUME Shape, Next
  PROVE  \A j \in Jobs : job[j].state # "free" => job'[j].key = job[j].key
<1>0. job \in [Jobs -> JobState] BY DEF Shape, TypeOK
<1>1. CASE UNCHANGED job
  BY <1>1
<1>2. ASSUME NEW c \in Callers, NEW i \in Jobs, NewJob(c, i)
      PROVE  \A j \in Jobs : job[j].state # "free" => job'[j].key = job[j].key
  BY <1>0, <1>2 DEF NewJob
<1>3. ASSUME NEW i \in Jobs, NEW s, job' = [job EXCEPT ![i] = s], s.key = job[i].key
      PROVE  \A j \in Jobs : job[j].state # "free" => job'[j].key = job[j].key
  BY <1>0, <1>3
<1>4. ASSUME NEW w \in Workers, WorkerStep(w)
      PROVE  \A j \in Jobs : job[j].state # "free" => job'[j].key = job[j].key
  <2>1. ASSUME NEW i \in Jobs, Fetch(w, i)
        PROVE  \A j \in Jobs : job[j].state # "free" => job'[j].key = job[j].key
    BY <1>0, <2>1 DEF Fetch, JobState
  <2> DEFINE i == worker[w].job
  <2>2. ASSUME worker[w].pc # "idle" PROVE i \in Jobs
    BY <2>2, WorkerJob
  <2>3. CASE Complete(w) /\ Owns(w)
    <3> DEFINE s == [job[i] EXCEPT !.state = "completed"]
    <3>1. i \in Jobs BY <2>2, <2>3 DEF Complete
    <3>2. s.key = job[i].key BY <1>0, <3>1 DEF JobState
    <3>3. job' = [job EXCEPT ![i] = s] BY <2>3 DEF Complete
    <3> HIDE DEF s, i
    <3> QED BY <1>3, <3>1, <3>2, <3>3
  <2>4. CASE Retry(w) /\ Owns(w)
    <3> DEFINE n == job[i].attempts + 1
    <3> DEFINE next == AfterFailure(job[i].attempts + 1)
    <3> DEFINE s == [job[i] EXCEPT !.attempts = n, !.state = next]
    <3>1. i \in Jobs BY <2>2, <2>4 DEF Retry
    <3>3. job' = [job EXCEPT ![i] = s] BY <2>4 DEF Retry
    <3> HIDE DEF n, next
    <3>2. s.key = job[i].key BY <1>0, <3>1 DEF JobState
    <3> HIDE DEF s, i
    <3> QED BY <1>3, <3>1, <3>2, <3>3
  <2> QED
    BY <1>1, <1>4, <2>1, <2>3, <2>4 DEF WorkerStep, Load, LoadFails, Skip, Send,
       Record, WriteFails, Complete, Retry
<1>5. ASSUME NEW i \in Jobs, QueueStep(i)
      PROVE  \A j \in Jobs : job[j].state # "free" => job'[j].key = job[j].key
  <2> DEFINE n == job[i].stalls + 1
  <2> DEFINE next == IF job[i].stalls < MaxStalls THEN "waiting" ELSE "failed"
  <2> DEFINE p == [job[i] EXCEPT !.state = "waiting"]
  <2> DEFINE s == [job[i] EXCEPT !.stalls = n, !.state = next]
  <2>1. job' = [job EXCEPT ![i] = p] \/ job' = [job EXCEPT ![i] = s]
    BY <1>5 DEF QueueStep, Promote, Stall
  <2> HIDE DEF n, next
  <2>2. p.key = job[i].key /\ s.key = job[i].key BY <1>0 DEF JobState
  <2> HIDE DEF p, s
  <2> QED BY <1>3, <2>1, <2>2
<1> QED
  BY <1>1, <1>2, <1>4, <1>5 DEF Next, Deliver, CallerStep, SetCredential,
     DeactivateCredential, ListCredentials, ReadRow, WriteRow, LoseRow, FailRow,
     AddJob, AddJobFails, FinishEnqueue, CallerCrash, StartEnqueue, WorkerCrash

\* Nor does it lose a stall or a run.
Grows(j) == job'[j].stalls >= job[j].stalls /\ RunsOf(j)' >= RunsOf(j)

LEMMA JobSteps ==
  ASSUME Shape, Next, NEW j \in Jobs
  PROVE  Grows(j)
<1>0. /\ job \in [Jobs -> JobState]
      /\ \A i \in Jobs : /\ job[i] \in JobState
                         /\ job[i].attempts \in Nat /\ job[i].stalls \in Nat
  BY DEF Shape, TypeOK, JobState
<1>r. \A i \in Jobs : RunsOf(i) = job[i].attempts + job[i].stalls +
                          (IF job[i].state \in {"active", "completed"} THEN 1 ELSE 0)
  BY DEF RunsOf, RunsOver
<1>1. ASSUME job'[j] = job[j] PROVE Grows(j)
  BY <1>0, <1>1 DEF Grows, RunsOf, RunsOver
<1>2. ASSUME NEW i \in Jobs, NEW s, job' = [job EXCEPT ![i] = s],
             s.stalls >= job[i].stalls,
             s.attempts + s.stalls +
               (IF s.state \in {"active", "completed"} THEN 1 ELSE 0) >= RunsOf(i)
      PROVE  Grows(j)
  <2>1. CASE i # j BY <1>0, <1>1, <1>2, <2>1
  <2>2. CASE i = j
    <3>1. job'[j] = s BY <1>0, <1>2, <2>2
    <3> QED BY <1>0, <1>2, <2>2, <3>1 DEF Grows, RunsOf, RunsOver
  <2> QED BY <2>1, <2>2
<1>3. ASSUME NEW c \in Callers, NEW i \in Jobs, NewJob(c, i) PROVE Grows(j)
  <2> DEFINE s == [job[i] EXCEPT !.state = "waiting", !.key = Key(c)]
  <2>1. job' = [job EXCEPT ![i] = s] /\ job[i].state = "free" BY <1>3 DEF NewJob
  <2>2. s.state = "waiting" /\ s.attempts = job[i].attempts /\ s.stalls = job[i].stalls
    BY <1>0 DEF JobState
  <2> HIDE DEF s
  <2>3. s.stalls >= job[i].stalls BY <1>0, <2>2
  <2>4. s.attempts + s.stalls +
          (IF s.state \in {"active", "completed"} THEN 1 ELSE 0) >= RunsOf(i)
    BY <1>0, <1>r, <2>1, <2>2
  <2> QED BY <1>2, <2>1, <2>3, <2>4
<1>4. ASSUME NEW i \in Jobs, NEW st, job' = [job EXCEPT ![i].state = st],
             st \in {"active", "completed"} \/ job[i].state \notin {"active", "completed"}
      PROVE  Grows(j)
  <2> DEFINE s == [job[i] EXCEPT !.state = st]
  <2>1. job' = [job EXCEPT ![i] = s] BY <1>4
  <2>2. s.state = st /\ s.attempts = job[i].attempts /\ s.stalls = job[i].stalls
    BY <1>0 DEF JobState
  <2> HIDE DEF s
  <2>3. s.attempts + s.stalls +
          (IF s.state \in {"active", "completed"} THEN 1 ELSE 0) >= RunsOf(i)
    BY <1>0, <1>4, <1>r, <2>2
  <2>4. s.stalls >= job[i].stalls BY <1>0, <2>2
  <2> QED BY <1>2, <2>1, <2>3, <2>4
<1>5. ASSUME NEW w \in Workers, WorkerStep(w) PROVE Grows(j)
  <2> DEFINE i == worker[w].job
  <2>1. ASSUME NEW x \in Jobs, Fetch(w, x) PROVE Grows(j)
    BY <1>4, <2>1 DEF Fetch
  <2>2. ASSUME worker[w].pc # "idle" PROVE i \in Jobs
    BY <2>2, WorkerJob
  <2>3. CASE Complete(w) /\ Owns(w)
    <3>1. i \in Jobs /\ job' = [job EXCEPT ![i].state = "completed"]
      BY <2>2, <2>3 DEF Complete
    <3> QED BY <1>4, <3>1
  <2>4. CASE Retry(w) /\ Owns(w)
    <3> DEFINE n == job[i].attempts + 1
    <3> DEFINE next == AfterFailure(job[i].attempts + 1)
    <3> DEFINE s == [job[i] EXCEPT !.attempts = n, !.state = next]
    <3>1. i \in Jobs /\ job[i].state = "active" BY <2>2, <2>4 DEF Retry, Owns
    <3>2. job' = [job EXCEPT ![i] = s] BY <2>4 DEF Retry
    <3> HIDE DEF next
    <3>3. /\ s.attempts = job[i].attempts + 1 /\ s.stalls = job[i].stalls
      BY <1>0, <3>1 DEF JobState
    <3> HIDE DEF s
    <3>4. s.attempts + s.stalls +
            (IF s.state \in {"active", "completed"} THEN 1 ELSE 0) >= RunsOf(i)
      BY <1>0, <1>r, <3>1, <3>3
    <3>5. s.stalls >= job[i].stalls BY <1>0, <3>1, <3>3
    <3> QED BY <1>2, <3>1, <3>2, <3>4, <3>5
  <2> QED
    BY <1>1, <1>5, <2>1, <2>3, <2>4 DEF WorkerStep, Load, LoadFails, Skip, Send,
       Record, WriteFails, Complete, Retry
<1>6. ASSUME NEW i \in Jobs, QueueStep(i) PROVE Grows(j)
  <2>1. CASE Promote(i)
    BY <1>4, <2>1 DEF Promote
  <2>2. CASE Stall(i)
    <3> DEFINE n == job[i].stalls + 1
    <3> DEFINE next == IF job[i].stalls < MaxStalls THEN "waiting" ELSE "failed"
    <3> DEFINE s == [job[i] EXCEPT !.stalls = n, !.state = next]
    <3>1. job' = [job EXCEPT ![i] = s] /\ job[i].state = "active" BY <2>2 DEF Stall
    <3> HIDE DEF next
    <3>2. s.attempts = job[i].attempts /\ s.stalls = job[i].stalls + 1
      BY <1>0 DEF JobState
    <3> HIDE DEF s
    <3>3. s.attempts + s.stalls +
            (IF s.state \in {"active", "completed"} THEN 1 ELSE 0) >= RunsOf(i)
      BY <1>0, <1>r, <3>1, <3>2
    <3>4. s.stalls >= job[i].stalls BY <1>0, <3>2
    <3> QED BY <1>2, <3>1, <3>3, <3>4
  <2> QED BY <1>6, <2>1, <2>2 DEF QueueStep
<1>7. CASE UNCHANGED job BY <1>1, <1>7
<1>8. ASSUME NEW c \in Callers, CallerStep(c) PROVE Grows(j)
  BY <1>3, <1>7, <1>8 DEF CallerStep, ListCredentials, ReadRow, WriteRow, LoseRow,
     FailRow, AddJob, AddJobFails, FinishEnqueue
<1> QED
  BY <1>5, <1>6, <1>7, <1>8 DEF Next, Deliver, SetCredential,
     DeactivateCredential, CallerCrash, StartEnqueue, WorkerCrash

\* Steps that leave rows, counts and workers alone, and no job in hand changes.
LEMMA CoherentCaller ==
  ASSUME Shape, Coherent, NEW c \in Callers, CallerStep(c)
  PROVE  Coherent'
<1> USE DEF Coherent, Shape
<1>1. \A w \in Workers : worker[w].pc # "idle" => WorkerKey(w)' = WorkerKey(w)
  BY WorkerJob DEF CallerStep, ListCredentials, ReadRow, WriteRow, LoseRow,
     FailRow, AddJob, AddJobFails, FinishEnqueue, NewJob, WorkerKey, TypeOK
<1>2. UNCHANGED <<worker, accepted, missed>>
  BY DEF CallerStep, ListCredentials, ReadRow, WriteRow, LoseRow,
     FailRow, AddJob, AddJobFails, FinishEnqueue
<1>3. SentBeforeRecord'
  BY <1>1, <1>2 DEF SentBeforeRecord, TakenOrMissed
<1>4. CASE UNCHANGED forward
  BY <1>2, <1>3, <1>4 DEF RowCoherent
<1>5. CASE caller[c].pc = "write" /\ PutRow(c)
  <2>1. forward \in [Keys -> Row] BY DEF TypeOK
  <2>2. PICK r \in Row : PutsPending(Key(c), r) BY <1>5, RowPut
  <2>3. Key(c) \in Keys BY <1>5, CallerKey
  <2>4. RowCoherent' BY <1>2, <2>1, <2>2, <2>3 DEF RowCoherent, PutsPending
  <2> QED BY <1>3, <2>4
<1> QED
  BY <1>4, <1>5 DEF CallerStep, ListCredentials, ReadRow, WriteRow, LoseRow,
     FailRow, AddJob, AddJobFails, FinishEnqueue

\* A worker's step: only Send touches the count, only Skip and Record a row.
LEMMA CoherentWorker ==
  ASSUME Shape, Coherent, NEW w \in Workers, WorkerStep(w)
  PROVE  Coherent'
<1> USE DEF Coherent, Shape
<1>0. /\ forward \in [Keys -> Row] /\ accepted \in [Keys -> Nat]
      /\ worker \in [Workers -> WorkerState]
  BY DEF TypeOK
<1>1. \A v \in Workers : worker[v].pc # "idle" =>
          WorkerKey(v) \in Keys /\ worker[v].job \in Jobs
             /\ job'[worker[v].job].key = WorkerKey(v)
  BY WorkerJob, JobKeysStay DEF WorkerKey, Next, Deliver
<1>2. \A v \in Workers : v # w => worker'[v] = worker[v]
  BY <1>0 DEF WorkerStep, Fetch, Load, LoadFails, Skip, Send, Record, WriteFails,
     Complete, Retry, WorkerTo
<1>3. ASSUME UNCHANGED <<forward, accepted, missed>>, worker'[w].pc # "record"
      PROVE  Coherent'
  BY <1>1, <1>2, <1>3 DEF RowCoherent, SentBeforeRecord, TakenOrMissed, WorkerKey
<1>4. CASE \E j \in Jobs : Fetch(w, j)
  BY <1>0, <1>3, <1>4 DEF Fetch
<1>5. CASE Load(w) \/ LoadFails(w) \/ (WriteFails(w) /\ UNCHANGED forward)
  BY <1>0, <1>3, <1>5 DEF Load, LoadFails, WriteFails, WorkerTo, WorkerState
<1>6. CASE Complete(w) \/ Retry(w)
  BY <1>0, <1>3, <1>6 DEF Complete, Retry, IdleWorker
<1>7. CASE SkipRow(w) \/ RecordRow(w)
  <2> DEFINE k == WorkerKey(w)
  <2>1. /\ worker[w].pc # "idle" /\ UNCHANGED <<accepted, missed, job>>
        /\ worker'[w].pc # "record"
    BY <1>0, <1>7 DEF WorkerStep, Fetch, Load, LoadFails, Skip, Send, Record,
       WriteFails, Complete, Retry, SkipRow, RecordRow, WorkerTo, WorkerState
  <2>2. SentBeforeRecord'
    BY <1>1, <1>2, <2>1 DEF SentBeforeRecord, TakenOrMissed, WorkerKey
  <2>3. forward[k].sent \/ (worker[w].pc = "record" /\ worker[w].ok) => TakenOrMissed(k)
    BY <1>1, <2>1 DEF RowCoherent, SentBeforeRecord, TakenOrMissed
  <2>4. RowCoherent'
    BY <1>0, <1>7, <2>1, <2>3, RowOutcome DEF RowCoherent, TakenOrMissed
  <2> QED BY <2>2, <2>4
<1>10. CASE Send(w)
  <2>1. PICK k \in Keys : k = WorkerKey(w) BY <1>1, <1>10 DEF Send
  <2>2. PICK ok \in BOOLEAN, taken \in BOOLEAN :
          /\ ok => taken \/ k \in missed'
          /\ missed' = missed \/ missed' = missed \cup {k}
          /\ worker' = [worker EXCEPT ![w] = [@ EXCEPT !.pc = "record", !.ok = ok]]
          /\ accepted' = [accepted EXCEPT ![k] = IF taken THEN @ + 1 ELSE @]
    BY <1>10, <2>1, SendOutcome
  <2> DEFINE n == IF taken THEN accepted[k] + 1 ELSE accepted[k]
  <2>3. n \in Nat /\ n >= accepted[k] /\ (ok => n > 0 \/ k \in missed')
    BY <1>0, <2>1, <2>2
  <2>4. accepted' = [accepted EXCEPT ![k] = n] BY <2>2
  <2>5. worker'[w].ok = ok /\ worker'[w].job = worker[w].job
    BY <1>0, <2>2 DEF WorkerState
  <2>6. UNCHANGED <<forward, job>> /\ worker[w].pc # "idle" BY <1>10 DEF Send
  <2> HIDE DEF n
  <2>7. /\ accepted'[k] = n /\ accepted' \in [Keys -> Nat] /\ missed \subseteq missed'
        /\ \A x \in Keys : accepted'[x] >= accepted[x]
    BY <1>0, <2>1, <2>2, <2>3, <2>4
  <2> HIDE DEF Coherent
  <2>8. ASSUME NEW x \in Keys, TakenOrMissed(x) PROVE TakenOrMissed(x)'
    BY <1>0, <2>7, <2>8 DEF TakenOrMissed
  <2>9. RowCoherent'
    <3>1. ASSUME NEW x \in Keys, forward[x].sent PROVE TakenOrMissed(x)'
      BY <2>8, <3>1 DEF Coherent, RowCoherent, TakenOrMissed
    <3> QED BY <2>6, <3>1 DEF Coherent, RowCoherent, TakenOrMissed
  <2>10. WorkerKey(w)' = k BY <2>1, <2>5, <2>6 DEF WorkerKey
  <2>11. TakenOrMissed(k)' \/ ~worker'[w].ok
    BY <2>3, <2>5, <2>7 DEF TakenOrMissed
  <2>12. ASSUME NEW v \in Workers, v # w, worker'[v].pc = "record", worker'[v].ok
         PROVE  TakenOrMissed(WorkerKey(v))'
    <3>1. worker[v].pc = "record" /\ worker[v].ok BY <1>2, <2>12
    <3>2. WorkerKey(v)' = WorkerKey(v) /\ WorkerKey(v) \in Keys
      BY <1>1, <1>2, <2>6, <2>12, <3>1 DEF WorkerKey
    <3>3. TakenOrMissed(WorkerKey(v)) BY <3>1 DEF Coherent, SentBeforeRecord
    <3>4. PICK x \in Keys : x = WorkerKey(v) BY <3>2
    <3>5. TakenOrMissed(x)' BY <2>8, <3>3, <3>4
    <3> QED BY <3>2, <3>4, <3>5 DEF TakenOrMissed
  <2>13. ASSUME worker'[w].pc = "record", worker'[w].ok PROVE TakenOrMissed(WorkerKey(w))'
    BY <2>10, <2>11, <2>13 DEF TakenOrMissed
  <2>14. SentBeforeRecord' BY <2>12, <2>13 DEF SentBeforeRecord
  <2> QED BY <2>9, <2>14 DEF Coherent
<1> QED
  BY <1>4, <1>5, <1>6, <1>7, <1>10 DEF WorkerStep, Skip, Record, WriteFails

LEMMA NextCoherent == Shape /\ Coherent /\ [Next]_vars => Coherent'
<1> SUFFICES ASSUME Shape, Coherent, [Next]_vars PROVE Coherent'
  OBVIOUS
<1> USE DEF Coherent
<1>1. ASSUME UNCHANGED <<forward, accepted, missed>>,
             \A w \in Workers : worker'[w] = worker[w] \/ worker'[w] = IdleWorker,
             \A j \in Jobs : job[j].state # "free" => job'[j].key = job[j].key
      PROVE  Coherent'
  BY <1>1, WorkerJob
     DEF RowCoherent, SentBeforeRecord, TakenOrMissed, WorkerKey, IdleWorker
<1>2. CASE UNCHANGED vars
  BY <1>2 DEF vars, RowCoherent, SentBeforeRecord, TakenOrMissed, WorkerKey
<1>3. CASE \/ \E p \in Edited : SetCredential(p) \/ DeactivateCredential(p)
           \/ \E c \in Callers : CallerCrash(c) \/ \E e \in Events : StartEnqueue(c, e)
           \/ \E w \in Workers : WorkerCrash(w)
           \/ \E j \in Jobs : QueueStep(j)
  <2>1. Next BY <1>3 DEF Next, Deliver
  <2>2. UNCHANGED <<forward, accepted, missed>>
    BY <1>3 DEF SetCredential, DeactivateCredential, CallerCrash, StartEnqueue,
                WorkerCrash, QueueStep, Promote, Stall
  <2>3. \A w \in Workers : worker'[w] = worker[w] \/ worker'[w] = IdleWorker
    BY <1>3 DEF SetCredential, DeactivateCredential, CallerCrash, StartEnqueue,
                WorkerCrash, QueueStep, Promote, Stall, Shape, TypeOK
  <2> QED BY <1>1, <2>1, <2>2, <2>3, JobKeysStay
<1> QED
  BY <1>2, <1>3, CoherentCaller, CoherentWorker DEF Next, Deliver

\* The columns of a row agree, and no SUCCESS was recorded of an event that the
\* platform did not accept, but where Google Ads said so in the body of a 200
\* that could not be read.
THEOREM RowsCoherent == Spec => []RowCoherent
<1>1. Coherent => RowCoherent BY DEF Coherent
<1> QED BY <1>1, InitCoherent, NextCoherent, ShapeCorrect, PTL DEF Spec

-------------------------------------------------------------------------------
\* No forward is lost without a trace.

\* A trace is never wiped out.
LEMMA TracedStays ==
  ASSUME Shape, Next, NEW k \in Keys, Traced(k)
  PROVE  Traced(k)'
<1>0. /\ job \in [Jobs -> JobState] /\ caller \in [Callers -> CallerState]
      /\ enqueueFailures \in [Keys -> Nat]
  BY DEF Shape, TypeOK
<1>1. \A c \in Callers : caller[c].pc \in {"error", "crashed"} => caller'[c] = caller[c]
  BY <1>0 DEF Next, Deliver, CallerStep, SetCredential, DeactivateCredential,
     ListCredentials, ReadRow, WriteRow, LoseRow, FailRow, AddJob, AddJobFails,
     NextPlatform, FinishEnqueue, CallerCrash, StartEnqueue, WorkerStep, Fetch,
     Load, LoadFails, Skip, Send, Record, WriteFails, Complete, Retry,
     WorkerCrash, QueueStep, Promote, Stall
<1>2. \A j \in Jobs : job[j].state = "failed" => job'[j] = job[j]
  <2>1. ASSUME NEW c \in Callers, NEW i \in Jobs, NewJob(c, i)
        PROVE  \A j \in Jobs : job[j].state = "failed" => job'[j] = job[j]
    BY <1>0, <2>1 DEF NewJob
  <2>2. ASSUME NEW w \in Workers, WorkerStep(w)
        PROVE  \A j \in Jobs : job[j].state = "failed" => job'[j] = job[j]
    BY <1>0, <2>2, WorkerJob DEF WorkerStep, Fetch, Load, LoadFails, Skip, Send,
       Record, WriteFails, Complete, Retry, Owns
  <2>3. ASSUME NEW i \in Jobs, QueueStep(i)
        PROVE  \A j \in Jobs : job[j].state = "failed" => job'[j] = job[j]
    BY <1>0, <2>3 DEF QueueStep, Promote, Stall
  <2> QED
    BY <2>1, <2>2, <2>3 DEF Next, Deliver, CallerStep, SetCredential,
       DeactivateCredential, ListCredentials, ReadRow, WriteRow, LoseRow, FailRow,
       AddJob, AddJobFails, FinishEnqueue, CallerCrash, StartEnqueue, WorkerCrash
<1>3. enqueueFailures'[k] >= enqueueFailures[k]
  <2>1. ASSUME NEW c \in Callers, AddJobFails(c)
        PROVE  enqueueFailures'[k] >= enqueueFailures[k]
    BY <1>0, <2>1 DEF AddJobFails, CountFailure
  <2>2. ASSUME UNCHANGED enqueueFailures
        PROVE  enqueueFailures'[k] >= enqueueFailures[k]
    BY <1>0, <2>2
  <2> QED
    BY <2>1, <2>2 DEF Next, Deliver, CallerStep, SetCredential,
       DeactivateCredential, ListCredentials, ReadRow, WriteRow, LoseRow, FailRow,
       AddJob, FinishEnqueue, CallerCrash, StartEnqueue, WorkerStep, Fetch, Load,
       LoadFails, Skip, Send, Record, WriteFails, Complete, Retry, WorkerCrash,
       QueueStep, Promote, Stall
<1>4. CASE enqueueFailures[k] > 0
  <2>1. enqueueFailures[k] \in Nat /\ enqueueFailures'[k] \in Nat
    BY <1>0, NextShape DEF Shape, TypeOK
  <2> QED BY <1>3, <1>4, <2>1 DEF Traced
<1>5. CASE \E j \in Jobs : job[j].key = k /\ job[j].state = "failed"
  BY <1>2, <1>5 DEF Traced
<1>6. CASE \E c \in Callers : caller[c].pc \in {"error", "crashed"} /\ Key(c) = k
  BY <1>1, <1>6 DEF Traced, Key
<1> QED BY <1>4, <1>5, <1>6 DEF Traced

\* Nor is the stall of a job.
LEMMA OvertakenStays ==
  ASSUME Shape, Next, NEW k \in Keys, Overtaken(k)
  PROVE  Overtaken(k)'
<1>1. PICK j \in Jobs : job[j].key = k /\ job[j].stalls > 0 BY DEF Overtaken
<1>2. job[j].stalls \in Nat /\ job'[j].stalls \in Nat
  BY NextShape DEF Shape, TypeOK, JobState
<1>3. job[j].state # "free" BY <1>1 DEF Shape, JobsHaveKeys
<1>4. job'[j].key = k BY <1>1, <1>3, JobKeysStay
<1>5. job'[j].stalls >= job[j].stalls BY JobSteps DEF Grows
<1> QED BY <1>1, <1>2, <1>4, <1>5 DEF Overtaken

\* What NoSilentStrand asks of a key.
Followed(k) == (\E j \in Jobs : Live(j, k)) \/ Held(k) \/ Traced(k)

\* A caller's step keeps a followed key followed: a platform in hand ends up
\* with a job, or with a count.
LEMMA CallerFollows ==
  ASSUME Shape, NEW c \in Callers, CallerStep(c), NEW k \in Keys, Followed(k)
  PROVE  Followed(k)'
<1>0. /\ job \in [Jobs -> JobState] /\ caller \in [Callers -> CallerState]
      /\ enqueueFailures \in [Keys -> Nat]
  BY DEF Shape, TypeOK
<1>n. Next BY DEF Next, Deliver
<1>1. UNCHANGED worker
  BY DEF CallerStep, ListCredentials, ReadRow, WriteRow, LoseRow, FailRow,
     AddJob, AddJobFails, FinishEnqueue
<1>2. \A j \in Jobs : job[j].state # "free" => job'[j] = job[j]
  BY <1>0 DEF CallerStep, ListCredentials, ReadRow, WriteRow, LoseRow, FailRow,
     AddJob, AddJobFails, FinishEnqueue, NewJob
<1>3. ASSUME NEW j \in Jobs, Live(j, k) PROVE Followed(k)'
  BY <1>1, <1>2, <1>3 DEF Live, Owns, RunsOver, Followed
<1>4. CASE Traced(k)
  BY <1>4, <1>n, TracedStays DEF Followed
<1>5. ASSUME NEW d \in Callers, caller[d].pc = "add", Key(d) = k PROVE Followed(k)'
  <2>1. CASE d # c
    <3>1. caller'[d] = caller[d]
      BY <1>0, <2>1 DEF CallerStep, ListCredentials, ReadRow, WriteRow, LoseRow,
         FailRow, AddJob, AddJobFails, FinishEnqueue, NextPlatform
    <3> QED BY <1>5, <3>1 DEF Followed, Held, Key
  <2>2. CASE d = c /\ AddJob(c)
    <3>1. PICK j \in Jobs : NewJob(c, j) BY <2>2 DEF AddJob
    <3>2. job[j].state = "free" BY <3>1 DEF NewJob
    <3>3. job'[j].state = "waiting" /\ job'[j].key = k
      BY <1>0, <1>5, <2>2, <3>1 DEF NewJob, JobState
    <3>4. Live(j, k)' BY <1>1, <3>2, <3>3 DEF Live, Owns
    <3> QED BY <3>4 DEF Followed
  <2>3. CASE d = c /\ AddJobFails(c)
    <3>1. enqueueFailures'[k] = enqueueFailures[k] + 1
      BY <1>0, <1>5, <2>3 DEF AddJobFails, CountFailure
    <3>2. enqueueFailures'[k] > 0 BY <1>0, <3>1
    <3> QED BY <3>2 DEF Followed, Traced
  <2> QED
    BY <1>5, <2>1, <2>2, <2>3 DEF CallerStep, ListCredentials, ReadRow, WriteRow,
       LoseRow, FailRow, FinishEnqueue
<1> QED BY <1>3, <1>4, <1>5 DEF Followed, Held

\* A worker's step keeps a key followed while its row is unsettled: only an
\* outcome that settles the row ends the job's claim to be live.
LEMMA WorkerFollows ==
  ASSUME Shape, NEW w \in Workers, WorkerStep(w), NEW k \in Keys, Followed(k),
         forward'[k].status \in {"PENDING", "FAILED"}
  PROVE  Followed(k)'
<1>0. /\ job \in [Jobs -> JobState] /\ worker \in [Workers -> WorkerState]
      /\ forward \in [Keys -> Row]
  BY DEF Shape, TypeOK
<1>n. Next BY DEF Next, Deliver
<1>1. UNCHANGED caller
  BY DEF WorkerStep, Fetch, Load, LoadFails, Skip, Send, Record, WriteFails,
     Complete, Retry
<1>2. CASE Traced(k)
  BY <1>2, <1>n, TracedStays DEF Followed
<1>3. CASE Held(k)
  BY <1>1, <1>3 DEF Followed, Held, Key
<1>4. ASSUME NEW j \in Jobs, Live(j, k) PROVE Followed(k)'
  <2>0. /\ job[j].key = k /\ job[j].state \in {"waiting", "active", "delayed"}
        /\ \A v \in Workers : worker[v].job = j /\ Owns(v) => worker[v].pc # "done"
    BY <1>4 DEF Live
  <2>u. ASSUME job'[j] = job[j],
               \A v \in Workers : worker'[v].job = j /\ worker'[v].pc = "done" =>
                  worker'[v] = worker[v]
        PROVE  Followed(k)'
    <3>1. \A v \in Workers : worker'[v].job = j /\ Owns(v)' => worker'[v].pc # "done"
      BY <2>0, <2>u DEF Owns, RunsOver
    <3> QED BY <2>0, <2>u, <3>1 DEF Followed, Live
  <2>1. ASSUME NEW s \in WorkerState, worker' = [worker EXCEPT ![w] = s],
               s.pc # "done" \/ s.job # j, UNCHANGED job
        PROVE  Followed(k)'
    BY <1>0, <2>1, <2>u
  <2>2. ASSUME NEW i \in Jobs, Fetch(w, i) PROVE Followed(k)'
    <3> DEFINE s == [pc |-> "load", job |-> i, run |-> RunsOver(i) + 1, ok |-> FALSE]
    <3>1. /\ worker' = [worker EXCEPT ![w] = s] /\ s.pc = "load"
          /\ job' = [job EXCEPT ![i].state = "active"] /\ job[i].state = "waiting"
      BY <2>2 DEF Fetch
    <3> HIDE DEF s
    <3>2. CASE i # j BY <1>0, <2>u, <3>1, <3>2
    <3>3. CASE i = j
      <4>1. /\ job'[j].key = k /\ job'[j].state = "active"
            /\ job'[j].attempts = job[j].attempts /\ job'[j].stalls = job[j].stalls
        BY <1>0, <2>0, <3>1, <3>3 DEF JobState
      <4>2. ASSUME NEW v \in Workers, worker'[v].job = j, worker'[v].pc = "done"
            PROVE  ~Owns(v)'
        <5>1. worker'[v] = worker[v] BY <1>0, <3>1, <4>2
        <5>2. worker[v].run <= RunsOf(j)
          BY <4>2, <5>1 DEF Shape, WorkerHoldsJob, AtRun
        <5>3. RunsOf(j) = RunsOver(j) /\ RunsOver(j) \in Nat /\ worker[v].run \in Nat
          BY <1>0, <3>1, <3>3 DEF RunsOf, RunsOver, JobState, WorkerState
        <5>4. RunsOver(j)' = RunsOver(j) BY <4>1 DEF RunsOver
        <5>5. worker[v].run # RunsOver(j) + 1 BY <5>2, <5>3
        <5> QED BY <4>2, <5>1, <5>4, <5>5 DEF Owns
      <4> QED BY <4>1, <4>2 DEF Followed, Live
    <3> QED BY <3>2, <3>3
  <2>3. ASSUME NEW pc \in {"skip", "send", "threw"}, WorkerTo(w, pc), UNCHANGED job
        PROVE  Followed(k)'
    <3> DEFINE s == [worker[w] EXCEPT !.pc = pc]
    <3>1. s \in WorkerState /\ s.pc = pc BY <1>0 DEF WorkerState
    <3>2. worker' = [worker EXCEPT ![w] = s] BY <2>3 DEF WorkerTo
    <3> HIDE DEF s
    <3> QED BY <2>1, <2>3, <3>1, <3>2
  <2>4. CASE Load(w) \/ LoadFails(w) \/ WriteFails(w)
    BY <2>3, <2>4 DEF Load, LoadFails, WriteFails
  <2>5. CASE Send(w)
    <3>1. PICK ok \in BOOLEAN :
            worker' = [worker EXCEPT ![w] = [@ EXCEPT !.pc = "record", !.ok = ok]]
      BY <2>5, SendOutcome
    <3> DEFINE s == [worker[w] EXCEPT !.pc = "record", !.ok = ok]
    <3>2. s \in WorkerState /\ s.pc = "record" BY <1>0 DEF WorkerState
    <3>3. worker' = [worker EXCEPT ![w] = s] /\ UNCHANGED job BY <2>5, <3>1 DEF Send
    <3> HIDE DEF s
    <3> QED BY <2>1, <3>2, <3>3
  <2>6. ASSUME WorkerTo(w, "done"), UNCHANGED job, WorkerKey(w) # k
        PROVE  Followed(k)'
    <3> DEFINE s == [worker[w] EXCEPT !.pc = "done"]
    <3>1. s \in WorkerState /\ s.job = worker[w].job BY <1>0 DEF WorkerState
    <3>2. worker' = [worker EXCEPT ![w] = s] BY <2>6 DEF WorkerTo
    <3>3. worker[w].job # j BY <2>0, <2>6 DEF WorkerKey
    <3> HIDE DEF s
    <3> QED BY <2>1, <2>6, <3>1, <3>2, <3>3
  <2>7. CASE Skip(w)
    <3>1. WorkerKey(w) \in Keys BY <2>7, WorkerJob DEF Skip, SkipRow
    <3>2. forward'[WorkerKey(w)].status = "SKIPPED"
      BY <1>0, <2>7, <3>1 DEF Skip, SkipRow, Row
    <3>3. WorkerKey(w) # k BY <3>2
    <3> QED BY <2>6, <2>7, <3>3 DEF Skip
  <2>8. CASE Record(w)
    <3>1. WorkerKey(w) \in Keys BY <2>8, WorkerJob DEF Record, RecordRow
    <3>2. CASE worker[w].ok
      <4>1. forward'[WorkerKey(w)].status = "SUCCESS"
        BY <1>0, <2>8, <3>1, <3>2 DEF Record, RecordRow, Outcome
      <4>2. WorkerKey(w) # k BY <4>1
      <4> QED BY <2>6, <2>8, <3>2, <4>2 DEF Record
    <3>3. CASE ~worker[w].ok
      BY <2>3, <2>8, <3>3 DEF Record
    <3> QED BY <3>2, <3>3
  <2>v. ASSUME worker' = [worker EXCEPT ![w] = IdleWorker], job'[j] = job[j]
        PROVE  Followed(k)'
    BY <1>0, <2>u, <2>v DEF IdleWorker
  <2>9. CASE Complete(w)
    <3>1. worker[w].job # j \/ ~Owns(w) BY <2>0, <2>9 DEF Complete
    <3>2. job'[j] = job[j] BY <1>0, <2>9, <3>1 DEF Complete
    <3>3. worker' = [worker EXCEPT ![w] = IdleWorker] BY <2>9 DEF Complete
    <3> QED BY <2>v, <3>2, <3>3
  <2>10. CASE Retry(w)
    <3>0. worker' = [worker EXCEPT ![w] = IdleWorker] BY <2>10 DEF Retry
    <3>1. CASE worker[w].job # j \/ ~Owns(w)
      <4>1. job'[j] = job[j] BY <1>0, <2>10, <3>1 DEF Retry
      <4> QED BY <2>v, <3>0, <4>1
    <3>2. CASE worker[w].job = j /\ Owns(w)
      <4> DEFINE n == job[j].attempts + 1
      <4> DEFINE next == AfterFailure(job[j].attempts + 1)
      <4>1. job' = [job EXCEPT ![j] = [job[j] EXCEPT !.attempts = n, !.state = next]]
        BY <2>10, <3>2 DEF Retry
      <4>2. next \in {"delayed", "failed"} BY DEF AfterFailure
      <4> HIDE DEF n, next
      <4>3. job'[j].key = k /\ job'[j].state = next
        BY <1>0, <2>0, <4>1 DEF JobState
      <4>4. CASE next = "delayed" BY <4>3, <4>4 DEF Followed, Live, Owns
      <4>5. CASE next = "failed" BY <4>3, <4>5 DEF Followed, Traced
      <4> QED BY <4>2, <4>4, <4>5
    <3> QED BY <3>1, <3>2
  <2> QED
    BY <2>2, <2>4, <2>5, <2>7, <2>8, <2>9, <2>10 DEF WorkerStep
<1> QED BY <1>2, <1>3, <1>4 DEF Followed

\* Crashes, timers, credentials and new requests keep a followed key followed.
LEMMA OtherFollows ==
  ASSUME Shape, NEW k \in Keys, Followed(k),
         \/ \E p \in Edited : SetCredential(p) \/ DeactivateCredential(p)
         \/ \E c \in Callers : CallerCrash(c) \/ \E e \in Events : StartEnqueue(c, e)
         \/ \E w \in Workers : WorkerCrash(w)
         \/ \E j \in Jobs : QueueStep(j)
  PROVE  Followed(k)'
<1>0. /\ job \in [Jobs -> JobState] /\ worker \in [Workers -> WorkerState]
      /\ caller \in [Callers -> CallerState]
  BY DEF Shape, TypeOK
<1>n. Next BY DEF Next, Deliver
<1>1. CASE Traced(k)
  BY <1>1, <1>n, TracedStays DEF Followed
<1>2. CASE \E p \in Edited : SetCredential(p) \/ DeactivateCredential(p)
  BY <1>2 DEF SetCredential, DeactivateCredential, Followed, Live, Owns, RunsOver,
     Held, Traced, Key
<1>3. ASSUME NEW c \in Callers, CallerCrash(c) \/ \E e \in Events : StartEnqueue(c, e)
      PROVE  Followed(k)'
  <2>1. UNCHANGED <<job, worker>> /\ \A d \in Callers \ {c} : caller'[d] = caller[d]
    BY <1>0, <1>3 DEF CallerCrash, StartEnqueue
  <2>2. CASE \E j \in Jobs : Live(j, k)
    BY <2>1, <2>2 DEF Followed, Live, Owns, RunsOver
  <2>3. CASE \E d \in Callers \ {c} : caller[d].pc = "add" /\ Key(d) = k
    BY <2>1, <2>3 DEF Followed, Held, Key
  <2>4. CASE caller[c].pc = "add" /\ Key(c) = k
    <3>1. caller' = [caller EXCEPT ![c].pc = "crashed"]
      BY <1>3, <2>4 DEF CallerCrash, StartEnqueue
    <3>2. /\ caller'[c].pc = "crashed" /\ caller'[c].event = caller[c].event
          /\ caller'[c].platform = caller[c].platform
      BY <1>0, <3>1 DEF CallerState
    <3> QED BY <2>4, <3>2 DEF Followed, Traced, Key
  <2> QED BY <1>1, <2>2, <2>3, <2>4 DEF Followed, Held
<1>4. CASE \E w \in Workers : WorkerCrash(w)
  <2>1. PICK w \in Workers : WorkerCrash(w) BY <1>4
  <2>2. UNCHANGED <<job, caller>> /\ worker' = [worker EXCEPT ![w] = IdleWorker]
    BY <2>1 DEF WorkerCrash
  <2>3. CASE Held(k) BY <2>2, <2>3 DEF Followed, Held, Key
  <2>4. ASSUME NEW j \in Jobs, Live(j, k) PROVE Followed(k)'
    <3>1. \A v \in Workers : worker'[v].pc = "done" => worker'[v] = worker[v]
      BY <1>0, <2>2 DEF IdleWorker
    <3>2. \A v \in Workers : worker'[v].job = j /\ Owns(v)' => worker'[v].pc # "done"
      BY <2>2, <2>4, <3>1 DEF Live, Owns, RunsOver
    <3> QED BY <2>2, <2>4, <3>2 DEF Live, Followed
  <2> QED BY <1>1, <2>3, <2>4 DEF Followed
<1>5. ASSUME NEW i \in Jobs, QueueStep(i) PROVE Followed(k)'
  <2>1. UNCHANGED <<caller, worker>> BY <1>5 DEF QueueStep, Promote, Stall
  <2>2. CASE Held(k) BY <2>1, <2>2 DEF Followed, Held, Key
  <2>3. ASSUME NEW j \in Jobs, Live(j, k) PROVE Followed(k)'
    <3>1. CASE j # i
      <4>1. job'[j] = job[j] BY <1>0, <1>5, <3>1 DEF QueueStep, Promote, Stall
      <4> QED BY <2>1, <2>3, <4>1 DEF Followed, Live, Owns, RunsOver
    <3>2. CASE j = i /\ Promote(i)
      <4>1. job'[j].key = k /\ job'[j].state = "waiting"
        BY <1>0, <2>3, <3>2 DEF Promote, Live, JobState
      <4> QED BY <4>1 DEF Followed, Live, Owns
    <3>3. CASE j = i /\ Stall(i)
      <4> DEFINE n == job[i].stalls + 1
      <4> DEFINE next == IF job[i].stalls < MaxStalls THEN "waiting" ELSE "failed"
      <4>1. job' = [job EXCEPT ![i] = [job[i] EXCEPT !.stalls = n, !.state = next]]
        BY <3>3 DEF Stall
      <4>2. next \in {"waiting", "failed"} OBVIOUS
      <4> HIDE DEF n, next
      <4>3. job'[j].key = k /\ job'[j].state = next
        BY <1>0, <2>3, <3>3, <4>1 DEF Live, JobState
      <4> QED BY <4>2, <4>3 DEF Followed, Live, Owns, Traced
    <3> QED BY <1>5, <3>1, <3>2, <3>3 DEF QueueStep
  <2> QED BY <1>1, <2>2, <2>3 DEF Followed
<1> QED BY <1>2, <1>3, <1>4, <1>5

\* ... or the late FAILED of a run that was overtaken.
Kept(k) == Followed(k) \/ (forward[k].status = "FAILED" /\ Overtaken(k))

LEMMA InitFollowed == Init => NoSilentStrand
  BY DEF Init, NoSilentStrand, NoRow

\* A worker at a row of k has a job that follows k, or was overtaken.
LEMMA AtWork ==
  ASSUME Shape, NEW w \in Workers, worker[w].pc \in {"skip", "record"},
         NEW k \in Keys, WorkerKey(w) = k
  PROVE  Followed(k) \/ Overtaken(k)
<1> DEFINE j == worker[w].job
<1>1. j \in Jobs /\ job[j].key = k BY WorkerJob DEF WorkerKey
<1>2. CASE Owns(w)
  <2>1. job[j].state = "active" BY <1>2 DEF Owns
  <2>2. ASSUME NEW v \in Workers, worker[v].job = j, Owns(v), worker[v].pc = "done"
        PROVE  FALSE
    BY <1>2, <2>2, OneOwner
  <2> QED BY <1>1, <2>1, <2>2 DEF Live, Followed
<1>3. CASE ~Owns(w)
  <2>1. job[j].stalls > 0 BY <1>3 DEF Shape, WorkerHoldsJob, AtRun
  <2> QED BY <1>1, <2>1 DEF Overtaken
<1> QED BY <1>2, <1>3

LEMMA NextFollowed == Shape /\ NoSilentStrand /\ [Next]_vars => NoSilentStrand'
<1> SUFFICES ASSUME Shape, NoSilentStrand, [Next]_vars, NEW k \in Keys,
                    forward'[k].status \in {"PENDING", "FAILED"}
             PROVE  Kept(k)'
  BY DEF NoSilentStrand, Kept, Followed
<1>0. forward \in [Keys -> Row] /\ caller \in [Callers -> CallerState]
  BY DEF Shape, TypeOK
<1>1. ASSUME forward[k].status \in {"PENDING", "FAILED"} PROVE Kept(k)
  BY <1>1 DEF NoSilentStrand, Kept, Followed
<1>2. CASE UNCHANGED vars
  BY <1>1, <1>2 DEF vars, Kept, Overtaken, Followed, Live, Owns, RunsOver, Held,
     Traced, Key
<1> SUFFICES ASSUME Next PROVE Kept(k)'
  BY <1>2
<1>3. CASE Followed(k)
  BY <1>3, CallerFollows, WorkerFollows, OtherFollows DEF Next, Deliver, Kept
<1>4. ASSUME Overtaken(k), forward'[k].status = "FAILED" PROVE Kept(k)'
  BY <1>4, OvertakenStays DEF Kept
<1>5. ASSUME forward'[k] = forward[k] PROVE Kept(k)'
  BY <1>1, <1>3, <1>4, <1>5 DEF Kept
<1>6. ASSUME NEW c \in Callers, caller[c].pc = "write", PutRow(c), Key(c) # k
      PROVE  Kept(k)'
  BY <1>0, <1>5, <1>6 DEF PutRow
<1>7. ASSUME NEW c \in Callers, WriteRow(c), Key(c) = k PROVE Kept(k)'
  <2>1. caller' = [caller EXCEPT ![c].pc = "add"] BY <1>7 DEF WriteRow
  <2>2. /\ caller'[c].pc = "add" /\ caller'[c].event = caller[c].event
        /\ caller'[c].platform = caller[c].platform
    BY <1>0, <2>1 DEF CallerState
  <2> QED BY <1>7, <2>2 DEF Kept, Followed, Held, Key
<1>8. ASSUME NEW c \in Callers, FailRow(c), Key(c) = k PROVE Kept(k)'
  <2>1. caller' = [caller EXCEPT ![c].pc = "error"] BY <1>8 DEF FailRow
  <2>2. /\ caller'[c].pc = "error" /\ caller'[c].event = caller[c].event
        /\ caller'[c].platform = caller[c].platform
    BY <1>0, <2>1 DEF CallerState
  <2> QED BY <1>8, <2>2 DEF Kept, Followed, Traced, Key
<1>9. ASSUME NEW w \in Workers, SkipRow(w) \/ RecordRow(w) PROVE Kept(k)'
  <2>1. CASE WorkerKey(w) # k
    BY <1>0, <1>5, <1>9, <2>1, RowOutcome
  <2>2. CASE WorkerKey(w) = k
    <3>1. worker[w].pc \in {"skip", "record"} BY <1>9 DEF SkipRow, RecordRow
    <3>2. forward'[k].status # "PENDING"
      BY <1>0, <1>9, <2>2 DEF SkipRow, RecordRow, Outcome, Row
    <3> QED BY <1>3, <1>4, <2>2, <3>1, <3>2, AtWork
  <2> QED BY <2>1, <2>2
<1>10. CASE UNCHANGED forward
  BY <1>5, <1>10
<1> QED
  BY <1>6, <1>7, <1>8, <1>9, <1>10 DEF Next, Deliver, CallerStep, SetCredential,
     DeactivateCredential, ListCredentials, ReadRow, WriteRow, FailRow, LoseRow,
     AddJob, AddJobFails, FinishEnqueue, CallerCrash, StartEnqueue, WorkerStep,
     Fetch, Load, LoadFails, Send, WriteFails, Skip, Record, Complete, Retry,
     WorkerCrash, QueueStep, Promote, Stall

\* No forward is lost without a trace, for any number of instances, events and
\* platforms, and whatever fails: an unsettled row has a live job, a caller
\* about to add one or a trace of why it has neither, unless it says FAILED and a
\* job of its was taken for stalled, whose worker may have said so late.
THEOREM NothingStrandsSilently == Spec => []NoSilentStrand
  BY InitFollowed, NextFollowed, ShapeCorrect, PTL DEF Spec

-------------------------------------------------------------------------------
\* What a call of enqueueForwards leaves behind.

\* Somebody called enqueueForwards for event e.
Called(e) == \E c \in Callers : caller[c].pc # "idle" /\ caller[c].event = e

\* There are rows and jobs only for events that somebody called for.
OnlyCalled ==
    /\ \A k \in Keys : forward[k].status # "none" => Called(k[1])
    /\ \A j \in Jobs : job[j].key = <<None, None>> \/ Called(job[j].key[1])

HasRow(c, p) == forward[<<caller[c].event, p>>].status # "none"

\* A call has a row for every platform it is through with, of those whose
\* credential is active all the time.
CallLeaves(c) ==
    /\ caller[c].pc = "add" => HasRow(c, caller[c].platform)
    /\ \A p \in Platforms \ Edited : credential[p] = "active" =>
          /\ caller[c].pc \in {"next", "write", "add"} =>
                p \in caller[c].todo \/ HasRow(c, p)
          /\ caller[c].pc = "done" => caller[c].event \in Events /\ HasRow(c, p)

CallsLeaveRows == \A c \in Callers : CallLeaves(c)

\* An event that was called for remains so, and a caller keeps its event.
LEMMA CalledStays ==
  ASSUME Shape, Next
  PROVE  \A c \in Callers : caller[c].pc # "idle" =>
            caller'[c].pc # "idle" /\ caller'[c].event = caller[c].event
<1>0. caller \in [Callers -> CallerState] BY DEF Shape, TypeOK
<1>1. CASE UNCHANGED caller
  BY <1>1
<1>2. ASSUME NEW c \in Callers, NEW s, caller' = [caller EXCEPT ![c] = s],
             caller[c].pc # "idle" => s.pc # "idle" /\ s.event = caller[c].event
      PROVE  \A d \in Callers : caller[d].pc # "idle" =>
                caller'[d].pc # "idle" /\ caller'[d].event = caller[d].event
  BY <1>0, <1>2
<1>3. ASSUME NEW c \in Callers, CallerStep(c)
      PROVE  \A d \in Callers : caller[d].pc # "idle" =>
                caller'[d].pc # "idle" /\ caller'[d].event = caller[d].event
  <2>1. ASSUME NEW t, caller' = [caller EXCEPT ![c] = [@ EXCEPT !.pc = "next",
                                    !.todo = t]]
        PROVE  \A d \in Callers : caller[d].pc # "idle" =>
                caller'[d].pc # "idle" /\ caller'[d].event = caller[d].event
    BY <1>0, <2>1 DEF CallerState
  <2>2. ASSUME NEW t, NEW p, caller' = [caller EXCEPT ![c] = [@ EXCEPT !.pc = "next",
                                           !.platform = p, !.todo = t]]
        PROVE  \A d \in Callers : caller[d].pc # "idle" =>
                caller'[d].pc # "idle" /\ caller'[d].event = caller[d].event
    BY <1>0, <2>2 DEF CallerState
  <2>3. ASSUME NEW p, NEW f, caller' = [caller EXCEPT ![c] = [@ EXCEPT !.pc = "write",
                                           !.platform = p, !.found = f]]
        PROVE  \A d \in Callers : caller[d].pc # "idle" =>
                caller'[d].pc # "idle" /\ caller'[d].event = caller[d].event
    BY <1>0, <2>3 DEF CallerState
  <2>4. ASSUME NEW pc \in {"error", "add", "done"}, caller' = [caller EXCEPT ![c].pc = pc]
        PROVE  \A d \in Callers : caller[d].pc # "idle" =>
                caller'[d].pc # "idle" /\ caller'[d].event = caller[d].event
    BY <1>0, <2>4 DEF CallerState
  <2>5. CASE ListCredentials(c)
    BY <2>1, <2>4, <2>5 DEF ListCredentials
  <2>6. CASE \E p \in Platforms : ReadRow(c, p)
    BY <2>3, <2>6 DEF ReadRow
  <2>7. CASE WriteRow(c) \/ FailRow(c) \/ FinishEnqueue(c)
    BY <2>4, <2>7 DEF WriteRow, FailRow, FinishEnqueue
  <2>8. CASE LoseRow(c) \/ AddJob(c) \/ AddJobFails(c)
    BY <2>2, <2>8 DEF LoseRow, AddJob, AddJobFails, NextPlatform
  <2> QED BY <1>3, <2>5, <2>6, <2>7, <2>8 DEF CallerStep
<1>4. ASSUME NEW c \in Callers, CallerCrash(c) \/ \E e \in Events : StartEnqueue(c, e)
      PROVE  \A d \in Callers : caller[d].pc # "idle" =>
                caller'[d].pc # "idle" /\ caller'[d].event = caller[d].event
  <2>1. CASE CallerCrash(c)
    BY <1>0, <2>1 DEF CallerCrash, CallerState
  <2>2. CASE \E e \in Events : StartEnqueue(c, e)
    BY <1>0, <2>2 DEF StartEnqueue
  <2> QED BY <1>4, <2>1, <2>2
<1> QED
  BY <1>1, <1>3, <1>4 DEF Next, Deliver, SetCredential, DeactivateCredential,
     WorkerStep, Fetch, Load, LoadFails, Skip, Send, Record, WriteFails, Complete,
     Retry, WorkerCrash, QueueStep, Promote, Stall

\* A call that is over is over, and none begins by itself.
LEMMA CallsEnd ==
  ASSUME Shape, Next, NEW c \in Callers
  PROVE  /\ caller[c].pc \in {"done", "error", "crashed"} => caller'[c] = caller[c]
         /\ caller[c].pc = "idle" /\ caller'[c].pc # "idle" =>
               \E e \in Events : StartEnqueue(c, e)
<1>0. caller \in [Callers -> CallerState] BY DEF Shape, TypeOK
<1>1. CASE UNCHANGED caller
  BY <1>1
<1>2. ASSUME NEW d \in Callers,
             \/ CallerStep(d) \/ CallerCrash(d)
             \/ \E e \in Events : StartEnqueue(d, e)
      PROVE  /\ caller[d].pc \notin {"done", "error", "crashed"}
             /\ caller[d].pc = "idle" => \E e \in Events : StartEnqueue(d, e)
             /\ d # c => caller'[c] = caller[c]
  BY <1>0, <1>2 DEF CallerStep, ListCredentials, ReadRow, WriteRow, LoseRow, FailRow,
     AddJob, AddJobFails, NextPlatform, FinishEnqueue, CallerCrash, StartEnqueue
<1> QED
  BY <1>1, <1>2 DEF Next, Deliver, SetCredential, DeactivateCredential,
     WorkerStep, Fetch, Load, LoadFails, Skip, Send, Record, WriteFails, Complete,
     Retry, WorkerCrash, QueueStep, Promote, Stall

\* A row appears only at a caller's key, and never goes away.
LEMMA RowsAppear ==
  ASSUME Shape, Next
  PROVE  \A k \in Keys :
            /\ forward[k].status # "none" => forward'[k].status # "none"
            /\ forward'[k].status # "none" =>
                  \/ forward[k].status # "none"
                  \/ \E c \in Callers : caller[c].pc = "write" /\ Key(c) = k
                  \/ \E w \in Workers : worker[w].pc # "idle" /\ WorkerKey(w) = k
<1>0. forward \in [Keys -> Row] BY DEF Shape, TypeOK
<1>1. CASE UNCHANGED forward
  BY <1>1
<1>2. ASSUME NEW c \in Callers, caller[c].pc = "write", PutRow(c),
             NEW k \in Keys
      PROVE  /\ forward[k].status # "none" => forward'[k].status # "none"
             /\ forward'[k].status # "none" => forward[k].status # "none" \/ Key(c) = k
  <2>1. PICK r \in Row : PutsPending(Key(c), r) BY <1>2, RowPut
  <2> QED BY <1>0, <2>1 DEF PutsPending
<1>3. ASSUME NEW w \in Workers, SkipRow(w) \/ RecordRow(w), NEW k \in Keys
      PROVE  /\ forward[k].status # "none" => forward'[k].status # "none"
             /\ forward'[k].status # "none" =>
                   \/ forward[k].status # "none"
                   \/ worker[w].pc # "idle" /\ WorkerKey(w) = k
  BY <1>0, <1>3, RowOutcome
<1>4. CASE \E c \in Callers : caller[c].pc = "write" /\ PutRow(c)
  BY <1>2, <1>4
<1>5. CASE \E w \in Workers : SkipRow(w) \/ RecordRow(w)
  BY <1>3, <1>5
<1> QED
  BY <1>1, <1>4, <1>5 DEF Next, Deliver, CallerStep, SetCredential,
     DeactivateCredential, ListCredentials, ReadRow, WriteRow, LoseRow, FailRow,
     AddJob, AddJobFails, FinishEnqueue, CallerCrash, StartEnqueue, WorkerStep,
     Fetch, Load, LoadFails, Skip, Send, Record, WriteFails, Complete, Retry,
     WorkerCrash, QueueStep, Promote, Stall

\* A job has the key of the caller that added it, from then on.
LEMMA JobKeysFrom ==
  ASSUME Shape, Next
  PROVE  \A j \in Jobs : \/ job'[j].key = job[j].key
                         \/ \E c \in Callers : caller[c].pc = "add" /\ job'[j].key = Key(c)
<1>0. job \in [Jobs -> JobState] BY DEF Shape, TypeOK
<1>1. CASE \E c \in Callers : AddJob(c) \/ AddJobFails(c)
  <2>1. PICK c \in Callers : AddJob(c) \/ AddJobFails(c) BY <1>1
  <2>2. caller[c].pc = "add" /\ (UNCHANGED job \/ \E i \in Jobs : NewJob(c, i))
    BY <2>1 DEF AddJob, AddJobFails
  <2>3. ASSUME NEW i \in Jobs, NewJob(c, i), NEW j \in Jobs
        PROVE  job'[j].key = job[j].key \/ job'[j].key = Key(c)
    BY <1>0, <2>3 DEF NewJob, JobState
  <2> QED BY <2>2, <2>3
<1>2. CASE ~\E c \in Callers : AddJob(c) \/ AddJobFails(c)
  <2>1. \A j \in Jobs : job[j].state = "free" => job'[j] = job[j]
    <3>1. CASE UNCHANGED job BY <3>1
    <3>2. ASSUME NEW i \in Jobs, NEW s, job' = [job EXCEPT ![i] = s],
                 job[i].state # "free"
          PROVE  \A j \in Jobs : job[j].state = "free" => job'[j] = job[j]
      BY <1>0, <3>2
    <3>3. ASSUME NEW w \in Workers, NEW i \in Jobs, Fetch(w, i)
          PROVE  \A j \in Jobs : job[j].state = "free" => job'[j] = job[j]
      BY <1>0, <3>3 DEF Fetch
    <3>4. ASSUME NEW w \in Workers, Complete(w) \/ Retry(w)
          PROVE  \A j \in Jobs : job[j].state = "free" => job'[j] = job[j]
      <4>1. job[worker[w].job].state # "free" /\ worker[w].job \in Jobs
        BY <3>4, WorkerJob DEF Complete, Retry
      <4> QED BY <3>1, <3>2, <3>4, <4>1 DEF Complete, Retry
    <3>5. ASSUME NEW i \in Jobs, QueueStep(i)
          PROVE  \A j \in Jobs : job[j].state = "free" => job'[j] = job[j]
      BY <3>2, <3>5 DEF QueueStep, Promote, Stall
    <3> QED
      BY <1>2, <3>1, <3>3, <3>4, <3>5 DEF Next, Deliver, CallerStep, SetCredential,
         DeactivateCredential, ListCredentials, ReadRow, WriteRow, LoseRow, FailRow,
         FinishEnqueue, CallerCrash, StartEnqueue, WorkerStep, Load, LoadFails,
         Skip, Send, Record, WriteFails, WorkerCrash
  <2> QED BY <2>1, JobKeysStay
<1> QED BY <1>1, <1>2

LEMMA InitLeft == Init => OnlyCalled /\ CallsLeaveRows
  BY DEF Init, OnlyCalled, CallsLeaveRows, CallLeaves, NoRow, FreeJob, IdleCaller

LEMMA NextCalled == Shape /\ OnlyCalled /\ [Next]_vars => OnlyCalled'
<1> SUFFICES ASSUME Shape, OnlyCalled, [Next]_vars PROVE OnlyCalled'
  OBVIOUS
<1>1. CASE UNCHANGED vars
  BY <1>1 DEF vars, OnlyCalled, Called
<1>2. CASE Next
  <2>1. ASSUME NEW c \in Callers, caller[c].pc # "idle"
        PROVE  caller'[c].pc # "idle" /\ caller'[c].event = caller[c].event
    BY <1>2, <2>1, CalledStays
  <2>2. ASSUME NEW k \in Keys, Called(k[1]) PROVE Called(k[1])'
    BY <2>1, <2>2 DEF Called
  <2>3. ASSUME NEW c \in Callers, caller[c].pc \in {"write", "add"}
        PROVE  Key(c) \in Keys /\ Called(Key(c)[1])
    BY <2>3, CallerKey DEF Called, Key
  <2>4. ASSUME NEW w \in Workers, worker[w].pc # "idle"
        PROVE  WorkerKey(w) \in Keys /\ Called(WorkerKey(w)[1])
    <3>1. worker[w].job \in Jobs /\ WorkerKey(w) \in Keys BY <2>4, WorkerJob
    <3>2. WorkerKey(w) # <<None, None>> BY <3>1, ForwardingAssumption DEF Keys
    <3> QED BY <3>1, <3>2 DEF OnlyCalled, WorkerKey
  <2>5. ASSUME NEW k \in Keys, forward'[k].status # "none" PROVE Called(k[1])
    BY <1>2, <2>3, <2>4, <2>5, RowsAppear DEF OnlyCalled
  <2>6. ASSUME NEW j \in Jobs, job'[j].key # <<None, None>>
        PROVE  job'[j].key \in Keys /\ Called(job'[j].key[1])
    <3>1. CASE job'[j].key = job[j].key
      <4>1. job[j].key \in Keys BY <2>6, <3>1 DEF Shape, TypeOK, JobState
      <4> QED BY <2>6, <3>1, <4>1 DEF OnlyCalled
    <3>2. CASE \E c \in Callers : caller[c].pc = "add" /\ job'[j].key = Key(c)
      BY <2>3, <3>2
    <3> QED BY <1>2, <3>1, <3>2, JobKeysFrom
  <2>7. \A k \in Keys : (forward[k].status # "none")' => Called(k[1])'
    BY <2>2, <2>5
  <2>8. ASSUME NEW j \in Jobs
        PROVE  (job[j].key = <<None, None>> \/ Called(job[j].key[1]))'
    <3>1. CASE job'[j].key # <<None, None>>
      <4>1. PICK c \in Callers : caller[c].pc # "idle" /\ caller[c].event = job'[j].key[1]
        BY <2>6, <3>1 DEF Called
      <4>2. caller'[c].pc # "idle" /\ caller'[c].event = job'[j].key[1]
        BY <2>1, <4>1
      <4> QED BY <4>2 DEF Called
    <3> QED BY <3>1
  <2> QED BY <2>7, <2>8 DEF OnlyCalled
<1> QED BY <1>1, <1>2

LEMMA CalledCorrect == Spec => []OnlyCalled
  BY InitLeft, NextCalled, ShapeCorrect, PTL DEF Spec

\* Calls that do not move keep what they left: rows stay.
LEMMA CallLeavesStays ==
  ASSUME Shape, Next, NEW c \in Callers, CallLeaves(c),
         caller'[c] = caller[c],
         \A p \in Platforms \ Edited : credential'[p] = credential[p]
  PROVE  CallLeaves(c)'
<1>1. \A k \in Keys : forward[k].status # "none" => forward'[k].status # "none"
  BY RowsAppear
<1>2. ASSUME caller[c].pc \in {"next", "write", "add"}, NEW p \in Platforms
      PROVE  <<caller[c].event, p>> \in Keys
  BY <1>2 DEF Shape, CallerHoldsKey, Keys
<1>3. caller[c].pc = "add" => caller[c].platform \in Platforms
  BY DEF Shape, CallerHoldsKey
<1>4. (caller[c].pc = "add" => HasRow(c, caller[c].platform))'
  BY <1>1, <1>2, <1>3 DEF CallLeaves, HasRow
<1>5. ASSUME NEW p \in Platforms \ Edited, credential[p] = "active"
      PROVE  /\ (caller[c].pc \in {"next", "write", "add"} =>
                    p \in caller[c].todo \/ HasRow(c, p))'
             /\ (caller[c].pc = "done" => caller[c].event \in Events /\ HasRow(c, p))'
  <2>1. CASE caller[c].pc \in {"next", "write", "add"}
    BY <1>1, <1>2, <1>5, <2>1 DEF CallLeaves, HasRow
  <2>2. CASE caller[c].pc = "done"
    <3>1. <<caller[c].event, p>> \in Keys BY <1>5, <2>2 DEF CallLeaves, Keys
    <3> QED BY <1>1, <1>5, <2>2, <3>1 DEF CallLeaves, HasRow
  <2> QED BY <2>1, <2>2
<1> QED BY <1>4, <1>5 DEF CallLeaves

\* A caller's step leaves a row behind for the platform it is through with.
LEMMA CallerLeaves ==
  ASSUME Shape, NEW c \in Callers, CallLeaves(c), CallerStep(c)
  PROVE  CallLeaves(c)'
<1>0. caller \in [Callers -> CallerState] /\ caller[c] \in CallerState
      /\ forward \in [Keys -> Row]
  BY DEF Shape, TypeOK
<1>n. Next BY DEF Next, Deliver
<1>r. \A k \in Keys : forward[k].status # "none" => forward'[k].status # "none"
  BY <1>n, RowsAppear
<1>c. UNCHANGED credential
  BY DEF CallerStep, ListCredentials, ReadRow, WriteRow, LoseRow, FailRow,
     AddJob, AddJobFails, FinishEnqueue
<1>k. ASSUME caller[c].pc \in {"list", "next", "write", "add"}
      PROVE  /\ caller[c].event \in Events
             /\ \A p \in Platforms : <<caller[c].event, p>> \in Keys
  BY <1>k DEF Shape, CallerHoldsKey, Keys
<1>1. CASE ListCredentials(c)
  <2> DEFINE t == {p \in Platforms : credential[p] = "active"}
  <2>1. \/ caller' = [caller EXCEPT ![c] = [@ EXCEPT !.pc = "next", !.todo = t]]
        \/ caller' = [caller EXCEPT ![c].pc = "error"]
    BY <1>1 DEF ListCredentials
  <2>2. \A p \in Platforms : credential[p] = "active" => p \in t
    OBVIOUS
  <2> HIDE DEF t
  <2>3. \/ caller'[c].pc = "next" /\ caller'[c].todo = t
        \/ caller'[c].pc = "error"
    <3>1. CASE caller' = [caller EXCEPT ![c] = [@ EXCEPT !.pc = "next", !.todo = t]]
      BY <1>0, <3>1 DEF CallerState
    <3>2. CASE caller' = [caller EXCEPT ![c].pc = "error"]
      BY <1>0, <3>2 DEF CallerState
    <3> QED BY <2>1, <3>1, <3>2
  <2> QED BY <1>c, <2>2, <2>3 DEF CallLeaves
<1>2. ASSUME NEW q \in Platforms, ReadRow(c, q) PROVE CallLeaves(c)'
  <2>1. /\ caller'[c].pc = "write" /\ caller'[c].todo = caller[c].todo
        /\ caller'[c].event = caller[c].event
        /\ caller[c].pc = "next" /\ UNCHANGED forward
    BY <1>0, <1>2 DEF ReadRow, CallerState
  <2> QED BY <1>c, <2>1 DEF CallLeaves, HasRow
<1>3. CASE WriteRow(c)
  <2>1. caller[c].pc = "write" /\ PutRow(c) BY <1>3 DEF WriteRow
  <2>2. PICK r \in Row : PutsPending(Key(c), r) BY <2>1, RowPut
  <2>3. Key(c) \in Keys BY <2>1, CallerKey
  <2>4. forward'[Key(c)].status # "none" BY <1>0, <2>2, <2>3 DEF PutsPending
  <2>5. /\ caller'[c].pc = "add" /\ caller'[c].todo = caller[c].todo
        /\ caller'[c].event = caller[c].event
        /\ caller'[c].platform = caller[c].platform
    BY <1>0, <1>3 DEF WriteRow, CallerState
  <2>6. \A p \in Platforms : <<caller[c].event, p>> \in Keys BY <1>k, <2>1
  <2> QED BY <1>c, <1>r, <2>1, <2>4, <2>5, <2>6 DEF CallLeaves, HasRow, Key
<1>4. ASSUME NextPlatform(c), caller[c].pc \in {"write", "add"},
             forward'[Key(c)].status # "none"
      PROVE  CallLeaves(c)'
  <2> DEFINE t == caller[c].todo \ {caller[c].platform}
  <2>1. caller' = [caller EXCEPT ![c] = [@ EXCEPT !.pc = "next", !.platform = None,
                                             !.todo = t]]
    BY <1>4 DEF NextPlatform
  <2>2. \A p \in caller[c].todo : p \in t \/ p = caller[c].platform
    OBVIOUS
  <2> HIDE DEF t
  <2>3. /\ caller'[c].pc = "next" /\ caller'[c].todo = t
        /\ caller'[c].event = caller[c].event
    BY <1>0, <2>1 DEF CallerState
  <2>4. \A p \in Platforms : <<caller[c].event, p>> \in Keys BY <1>k, <1>4
  <2> QED BY <1>4, <1>c, <1>r, <2>2, <2>3, <2>4 DEF CallLeaves, HasRow, Key
<1>5. CASE LoseRow(c)
  BY <1>4, <1>5 DEF LoseRow
<1>6. CASE AddJob(c) \/ AddJobFails(c)
  <2>1. /\ caller[c].pc = "add" /\ NextPlatform(c) /\ UNCHANGED forward
    BY <1>6 DEF AddJob, AddJobFails
  <2>2. forward[Key(c)].status # "none" BY <2>1 DEF CallLeaves, HasRow, Key
  <2> QED BY <1>4, <2>1, <2>2
<1>7. CASE FinishEnqueue(c)
  <2>1. /\ caller'[c].pc = "done" /\ caller'[c].event = caller[c].event
        /\ caller[c].pc = "next" /\ caller[c].todo = {} /\ UNCHANGED forward
    BY <1>0, <1>7 DEF FinishEnqueue, CallerState
  <2>2. caller[c].event \in Events BY <1>k, <2>1
  <2> QED BY <1>c, <2>1, <2>2 DEF CallLeaves, HasRow
<1>8. CASE FailRow(c)
  <2>1. caller'[c].pc = "error" BY <1>0, <1>8 DEF FailRow, CallerState
  <2> QED BY <2>1 DEF CallLeaves
<1> QED
  BY <1>1, <1>2, <1>3, <1>5, <1>6, <1>7, <1>8 DEF CallerStep

LEMMA NextLeaves == Shape /\ CallsLeaveRows /\ [Next]_vars => CallsLeaveRows'
<1> SUFFICES ASSUME Shape, CallsLeaveRows, [Next]_vars, NEW c \in Callers
             PROVE  CallLeaves(c)'
  BY DEF CallsLeaveRows
<1>0. caller \in [Callers -> CallerState] /\ CallLeaves(c)
      /\ credential \in [Platforms -> {"none", "active", "inactive"}]
  BY DEF CallsLeaveRows, Shape, TypeOK
<1>1. CASE UNCHANGED vars
  BY <1>0, <1>1 DEF vars, CallLeaves, HasRow
<1>2. CASE CallerStep(c)
  BY <1>0, <1>2, CallerLeaves
<1>3. CASE CallerCrash(c) \/ \E e \in Events : StartEnqueue(c, e)
  <2>1. CASE CallerCrash(c)
    <3>1. caller'[c].pc = "crashed" BY <1>0, <2>1 DEF CallerCrash, CallerState
    <3> QED BY <3>1 DEF CallLeaves
  <2>2. CASE \E e \in Events : StartEnqueue(c, e)
    <3>1. caller'[c].pc = "list" BY <1>0, <2>2 DEF StartEnqueue, CallerState
    <3> QED BY <3>1 DEF CallLeaves
  <2> QED BY <1>3, <2>1, <2>2
<1>4. CASE /\ Next
           /\ caller'[c] = caller[c]
           /\ \A p \in Platforms \ Edited : credential'[p] = credential[p]
  BY <1>0, <1>4, CallLeavesStays
<1>5. ASSUME NEW d \in Callers, d # c,
             \/ CallerStep(d) \/ CallerCrash(d)
             \/ \E e \in Events : StartEnqueue(d, e)
      PROVE  caller'[c] = caller[c] /\ UNCHANGED credential
  BY <1>0, <1>5 DEF CallerStep, ListCredentials, ReadRow, WriteRow, LoseRow, FailRow,
     AddJob, AddJobFails, NextPlatform, FinishEnqueue, CallerCrash, StartEnqueue
<1>6. ASSUME NEW q \in Edited, SetCredential(q) \/ DeactivateCredential(q)
      PROVE  UNCHANGED caller /\ \A p \in Platforms \ Edited : credential'[p] = credential[p]
  BY <1>0, <1>6 DEF SetCredential, DeactivateCredential
<1>7. ASSUME \/ \E w \in Workers : WorkerStep(w) \/ WorkerCrash(w)
             \/ \E j \in Jobs : QueueStep(j)
      PROVE  UNCHANGED <<caller, credential>>
  BY <1>7 DEF WorkerStep, Fetch, Load, LoadFails, Skip, Send, Record, WriteFails,
     Complete, Retry, WorkerCrash, QueueStep, Promote, Stall
<1> QED
  BY <1>1, <1>2, <1>3, <1>4, <1>5, <1>6, <1>7 DEF Next, Deliver

\* A call that ended well has a row for each platform whose credential is active
\* all the time, whatever other calls, workers and crashes did meanwhile.
THEOREM CallsLeaveTheirRows == Spec => []CallsLeaveRows
  BY InitLeft, NextLeaves, ShapeCorrect, PTL DEF Spec

-------------------------------------------------------------------------------
\* No platform takes, and no row counts, more than the queue has run.

\* What BullMQ's limits make of a job.
JobsBounded ==
    \A j \in Jobs :
        /\ job[j].state # "failed" =>
              job[j].attempts < MaxAttempts /\ job[j].stalls <= MaxStalls
        /\ job[j].attempts <= MaxAttempts
        /\ job[j].stalls <= MaxStalls + 1
        /\ job[j].attempts + job[j].stalls <= MaxAttempts + MaxStalls
        /\ job[j].state = "free" => job[j].attempts + job[j].stalls = 0

\* The stages of a run that precede its send, and its write of the outcome.
BeforeSend == {"load", "skip", "send"}
BeforeRecord == {"load", "skip", "send", "record"}

\* The runs for k that have left the stages E behind, or whose worker died.
PastRuns(k, E) ==
    {r \in Jobs \X (1..(MaxAttempts + MaxStalls)) :
        /\ job[r[1]].key = k /\ r[2] <= RunsOf(r[1])
        /\ \A w \in Workers : worker[w].pc \in E =>
              ~(worker[w].job = r[1] /\ worker[w].run = r[2])}

\* Only a run past its send can have delivered, and only one past its write can
\* have counted an attempt on the row.
Accounted ==
    \A k \in Keys :
        /\ accepted[k] <= Cardinality(PastRuns(k, BeforeSend))
        /\ forward[k].attempt <= Cardinality(PastRuns(k, BeforeRecord))

\* A step of one job stays within the limits.
LEMMA BoundedStep ==
  ASSUME Shape, JobsBounded, NEW i \in Jobs, NEW s \in JobState,
         job' = [job EXCEPT ![i] = s],
         s.state # "failed" => s.attempts < MaxAttempts /\ s.stalls <= MaxStalls,
         s.attempts <= MaxAttempts, s.stalls <= MaxStalls + 1,
         s.attempts + s.stalls <= MaxAttempts + MaxStalls,
         s.state # "free"
  PROVE  JobsBounded'
  BY DEF JobsBounded, Shape, TypeOK

LEMMA InitBounded == Init => JobsBounded
  BY ForwardingAssumption DEF Init, JobsBounded, FreeJob, ForwardingAssumption

LEMMA NextBounded == Shape /\ JobsBounded /\ [Next]_vars => JobsBounded'
<1> SUFFICES ASSUME Shape, JobsBounded, [Next]_vars PROVE JobsBounded'
  OBVIOUS
<1> USE ForwardingAssumption DEF ForwardingAssumption
<1>0. job \in [Jobs -> JobState] BY DEF Shape, TypeOK
<1>b. ASSUME NEW j \in Jobs
      PROVE  /\ job[j] \in JobState
             /\ job[j].attempts \in Nat /\ job[j].stalls \in Nat
             /\ job[j].state # "failed" =>
                   job[j].attempts < MaxAttempts /\ job[j].stalls <= MaxStalls
             /\ job[j].attempts <= MaxAttempts
             /\ job[j].stalls <= MaxStalls + 1
             /\ job[j].attempts + job[j].stalls <= MaxAttempts + MaxStalls
  BY <1>0 DEF JobsBounded, JobState
<1>1. CASE UNCHANGED job
  BY <1>1 DEF JobsBounded
<1>2. ASSUME NEW i \in Jobs, NEW st \in {"waiting", "active", "completed"},
             job' = [job EXCEPT ![i].state = st], job[i].state # "failed"
      PROVE  JobsBounded'
  <2> DEFINE s == [job[i] EXCEPT !.state = st]
  <2>1. /\ s \in JobState /\ s.state = st /\ s.attempts = job[i].attempts
        /\ s.stalls = job[i].stalls
    BY <1>b DEF JobState
  <2>2. job' = [job EXCEPT ![i] = s] BY <1>2
  <2> HIDE DEF s
  <2> QED BY <1>2, <1>b, <2>1, <2>2, BoundedStep
<1>3. ASSUME NEW c \in Callers, NEW i \in Jobs, NewJob(c, i), Key(c) \in Keys
      PROVE  JobsBounded'
  <2> DEFINE s == [job[i] EXCEPT !.state = "waiting", !.key = Key(c)]
  <2>1. /\ s \in JobState /\ s.state = "waiting" /\ s.attempts = job[i].attempts
        /\ s.stalls = job[i].stalls
    BY <1>3, <1>b DEF JobState
  <2>2. job' = [job EXCEPT ![i] = s] /\ job[i].state = "free" BY <1>3 DEF NewJob
  <2> HIDE DEF s
  <2> QED BY <1>b, <2>1, <2>2, BoundedStep
<1>4. ASSUME NEW c \in Callers, AddJob(c) \/ AddJobFails(c) PROVE JobsBounded'
  <2>1. Key(c) \in Keys BY <1>4, CallerKey DEF AddJob, AddJobFails
  <2> QED BY <1>1, <1>3, <1>4, <2>1 DEF AddJob, AddJobFails
<1>5. ASSUME NEW w \in Workers, WorkerStep(w) PROVE JobsBounded'
  <2>1. ASSUME NEW j \in Jobs, Fetch(w, j) PROVE JobsBounded'
    BY <1>2, <2>1 DEF Fetch
  <2>2. ASSUME worker[w].pc # "idle"
        PROVE  worker[w].job \in Jobs
    BY <2>2, WorkerJob
  <2>3. CASE Complete(w) /\ Owns(w)
    BY <1>2, <2>2, <2>3 DEF Complete, Owns
  <2>4. CASE Retry(w) /\ Owns(w)
    <3> DEFINE j == worker[w].job
    <3> DEFINE n == job[j].attempts + 1
    <3> DEFINE st == AfterFailure(job[j].attempts + 1)
    <3> DEFINE s == [job[j] EXCEPT !.attempts = n, !.state = st]
    <3>1. j \in Jobs /\ job[j].state = "active" BY <2>2, <2>4 DEF Retry, Owns
    <3>2. /\ n \in Nat /\ n <= MaxAttempts /\ n + job[j].stalls <= MaxAttempts + MaxStalls
          /\ st \in {"delayed", "failed"} /\ (st # "failed" => n < MaxAttempts)
      BY <1>b, <3>1 DEF AfterFailure
    <3>3. job' = [job EXCEPT ![j] = s] BY <2>4 DEF Retry
    <3> HIDE DEF n, st
    <3>4. /\ s \in JobState /\ s.state = st /\ s.attempts = n
          /\ s.stalls = job[j].stalls
      <4>1. job[j] \in JobState BY <1>b, <3>1
      <4>2. n \in Nat /\ st \in {"delayed", "failed"} BY <3>2
      <4> HIDE DEF j
      <4> QED BY <4>1, <4>2 DEF JobState
    <3> HIDE DEF s
    <3> QED BY <1>b, <3>1, <3>2, <3>3, <3>4, BoundedStep
  <2> QED
    BY <1>1, <1>5, <2>1, <2>3, <2>4 DEF WorkerStep, Load, LoadFails, Skip, Send,
       Record, WriteFails, Complete, Retry
<1>6. ASSUME NEW i \in Jobs, QueueStep(i) PROVE JobsBounded'
  <2>1. CASE Promote(i)
    BY <1>2, <2>1 DEF Promote
  <2>2. CASE Stall(i)
    <3> DEFINE n == job[i].stalls + 1
    <3> DEFINE st == IF job[i].stalls < MaxStalls THEN "waiting" ELSE "failed"
    <3> DEFINE s == [job[i] EXCEPT !.stalls = n, !.state = st]
    <3>1. job[i].state = "active" BY <2>2 DEF Stall
    <3>2. /\ n \in Nat /\ n <= MaxStalls + 1
          /\ job[i].attempts + n <= MaxAttempts + MaxStalls
          /\ st \in {"waiting", "failed"} /\ (st # "failed" => n <= MaxStalls)
      BY <1>b, <3>1
    <3>3. job' = [job EXCEPT ![i] = s] BY <2>2 DEF Stall
    <3> HIDE DEF n, st
    <3>4. /\ s \in JobState /\ s.state = st /\ s.attempts = job[i].attempts
          /\ s.stalls = n
      <4>1. job[i] \in JobState BY <1>b
      <4>2. n \in Nat /\ st \in {"waiting", "failed"} BY <3>2
      <4> QED BY <4>1, <4>2 DEF JobState
    <3> HIDE DEF s
    <3> QED BY <1>b, <3>1, <3>2, <3>3, <3>4, BoundedStep
  <2> QED BY <1>6, <2>1, <2>2 DEF QueueStep
<1> QED
  BY <1>1, <1>4, <1>5, <1>6 DEF Next, vars, Deliver, CallerStep, SetCredential,
     DeactivateCredential, ListCredentials, ReadRow, WriteRow, LoseRow, FailRow,
     FinishEnqueue, CallerCrash, StartEnqueue, WorkerCrash

LEMMA BoundedCorrect == Spec => []JobsBounded
  BY InitBounded, NextBounded, ShapeCorrect, PTL DEF Spec

\* The runs of a job are within its limits.
LEMMA RunsType ==
  ASSUME Shape, JobsBounded, NEW j \in Jobs
  PROVE  /\ RunsOf(j) \in Nat /\ RunsOf(j) <= MaxAttempts + MaxStalls
         /\ job[j].state = "free" => RunsOf(j) = 0
<1>1. /\ job[j] \in JobState /\ job[j].attempts \in Nat /\ job[j].stalls \in Nat
  BY DEF Shape, TypeOK, JobState
<1> DEFINE a == job[j].attempts
           s == job[j].stalls
<1>2. a \in Nat /\ s \in Nat BY <1>1
<1>3. /\ MaxAttempts \in Nat /\ MaxStalls \in Nat
      /\ a + s <= MaxAttempts + MaxStalls
      /\ job[j].state # "failed" => a < MaxAttempts /\ s <= MaxStalls
      /\ job[j].state = "free" => a + s = 0
  BY ForwardingAssumption DEF JobsBounded, ForwardingAssumption
<1>4. RunsOf(j) = a + s + (IF job[j].state \in {"active", "completed"} THEN 1 ELSE 0)
  BY DEF RunsOf, RunsOver
<1> HIDE DEF a, s
<1> QED BY <1>2, <1>3, <1>4

\* Sets of runs are finite as there are finitely many jobs.
LEMMA RunsFinite ==
  ASSUME Shape, JobsBounded, IsFiniteSet(Jobs), NEW k \in Keys, NEW E
  PROVE  /\ IsFiniteSet(PastRuns(k, E))
         /\ Cardinality(PastRuns(k, E)) \in Nat
         /\ IsFiniteSet(Runs(k))
         /\ PastRuns(k, E) \subseteq Runs(k)
<1> DEFINE All == Jobs \X (1..(MaxAttempts + MaxStalls))
<1>1. MaxAttempts + MaxStalls \in Int
  BY ForwardingAssumption DEF ForwardingAssumption
<1>2. IsFiniteSet(1..(MaxAttempts + MaxStalls)) BY <1>1, FS_Interval
<1>3. IsFiniteSet(All) BY <1>2, FS_Product
<1>4. PastRuns(k, E) \subseteq All BY DEF PastRuns
<1>5. Runs(k) \subseteq All
  <2>1. ASSUME NEW j \in Jobs PROVE {j} \X (1..RunsOf(j)) \subseteq All
    <3>1. RunsOf(j) \in Nat /\ RunsOf(j) <= MaxAttempts + MaxStalls BY RunsType
    <3> QED BY <1>1, <3>1
  <2> QED BY <2>1 DEF Runs
<1>6. PastRuns(k, E) \subseteq Runs(k)
  <2>1. ASSUME NEW r \in PastRuns(k, E) PROVE r \in Runs(k)
    <3>1. r[1] \in Jobs /\ job[r[1]].key = k /\ r[2] \in Int /\ r[2] >= 1
          /\ r[2] <= RunsOf(r[1]) /\ r = <<r[1], r[2]>>
      BY <1>1 DEF PastRuns
    <3>2. RunsOf(r[1]) \in Nat BY <3>1, RunsType
    <3>3. r \in {r[1]} \X (1..RunsOf(r[1])) BY <3>1, <3>2
    <3> QED BY <3>1, <3>3 DEF Runs
  <2> QED BY <2>1
<1> HIDE DEF All
<1>7. IsFiniteSet(PastRuns(k, E)) BY <1>3, <1>4, FS_Subset
<1>8. IsFiniteSet(Runs(k)) BY <1>3, <1>5, FS_Subset
<1> QED BY <1>6, <1>7, <1>8, FS_CardinalityType

\* A worker comes to the stages E with a run of its own that was not there
\* before, or was in them already.
LEMMA RunsEnter ==
  ASSUME Shape, Next, NEW E \in {BeforeSend, BeforeRecord},
         NEW v \in Workers, worker'[v].pc \in E
  PROVE  \/ /\ worker[v].pc \in E /\ worker'[v].job = worker[v].job
            /\ worker'[v].run = worker[v].run
         \/ /\ worker'[v].job \in Jobs
            /\ worker'[v].run = RunsOf(worker'[v].job) + 1
<1>0. /\ worker \in [Workers -> WorkerState] /\ worker[v] \in WorkerState
      /\ job \in [Jobs -> JobState]
  BY DEF Shape, TypeOK
<1>e. /\ E \subseteq {"load", "skip", "send", "record"} /\ "load" \in E
      /\ "record" \in E => "send" \in E
  BY DEF BeforeSend, BeforeRecord
<1>1. CASE worker'[v] = worker[v] BY <1>1
<1>2. ASSUME NEW w \in Workers, NEW s, worker' = [worker EXCEPT ![w] = s], w # v
      PROVE  worker'[v] = worker[v]
  BY <1>0, <1>2
<1>3. CASE \E w \in Workers : worker' = [worker EXCEPT ![w] = IdleWorker]
  BY <1>0, <1>1, <1>2, <1>3, <1>e DEF IdleWorker
<1>4. ASSUME NEW w \in Workers, NEW j \in Jobs, Fetch(w, j)
      PROVE  \/ worker'[v] = worker[v]
             \/ /\ worker'[v].job \in Jobs
                /\ worker'[v].run = RunsOf(worker'[v].job) + 1
  <2> DEFINE n == RunsOver(j) + 1
  <2> DEFINE s == [pc |-> "load", job |-> j, run |-> n, ok |-> FALSE]
  <2>1. worker' = [worker EXCEPT ![w] = s] /\ job[j].state = "waiting"
    BY <1>4 DEF Fetch
  <2>2. s.job = j /\ s.run = n OBVIOUS
  <2>3. n = RunsOf(j) + 1
    BY <1>0, <2>1 DEF RunsOf, RunsOver, JobState
  <2> HIDE DEF s, n
  <2> QED BY <1>0, <2>1, <2>2, <2>3
<1>5. ASSUME NEW w \in Workers, NEW pc, WorkerTo(w, pc),
             pc \in E => worker[w].pc \in E
      PROVE  /\ worker[v].pc \in E /\ worker'[v].job = worker[v].job
             /\ worker'[v].run = worker[v].run
  <2> DEFINE s == [worker[w] EXCEPT !.pc = pc]
  <2>1. worker' = [worker EXCEPT ![w] = s] BY <1>5 DEF WorkerTo
  <2>2. w = v => s.pc = pc /\ s.job = worker[w].job /\ s.run = worker[w].run
    BY <1>0 DEF WorkerState
  <2> HIDE DEF s
  <2> QED BY <1>0, <1>5, <2>1, <2>2
<1>6. ASSUME NEW w \in Workers, Send(w)
      PROVE  /\ worker[v].pc \in E /\ worker'[v].job = worker[v].job
             /\ worker'[v].run = worker[v].run
  <2>1. PICK ok \in BOOLEAN :
          worker' = [worker EXCEPT ![w] = [@ EXCEPT !.pc = "record", !.ok = ok]]
    BY <1>6, SendOutcome
  <2> DEFINE s == [worker[w] EXCEPT !.pc = "record", !.ok = ok]
  <2>2. worker' = [worker EXCEPT ![w] = s] BY <2>1
  <2>3. w = v => s.pc = "record" /\ s.job = worker[w].job /\ s.run = worker[w].run
    BY <1>0 DEF WorkerState
  <2>4. worker[w].pc = "send" BY <1>6 DEF Send
  <2> HIDE DEF s
  <2> QED BY <1>0, <1>e, <2>2, <2>3, <2>4
<1>7. ASSUME NEW w \in Workers,
             Load(w) \/ LoadFails(w) \/ Skip(w) \/ Record(w) \/ WriteFails(w)
      PROVE  \E pc : WorkerTo(w, pc) /\ (pc \in E => worker[w].pc \in E)
  BY <1>7, <1>e DEF Load, LoadFails, Skip, SkipRow, Record, RecordRow, WriteFails
<1>8. CASE \E w \in Workers : WorkerStep(w) \/ WorkerCrash(w)
  BY <1>1, <1>3, <1>4, <1>5, <1>6, <1>7, <1>8 DEF WorkerStep, WorkerCrash, Complete, Retry
<1>9. CASE UNCHANGED worker BY <1>1, <1>9
<1> QED
  BY <1>8, <1>9 DEF Next, Deliver, CallerStep, SetCredential,
     DeactivateCredential, ListCredentials, ReadRow, WriteRow, LoseRow, FailRow,
     AddJob, AddJobFails, FinishEnqueue, CallerCrash, StartEnqueue, QueueStep,
     Promote, Stall

LEMMA NextRunsFinite ==
  ASSUME IsFiniteSet(Jobs), NEW k, NEW E
  PROVE  IsFiniteSet(PastRuns(k, E)')
<1> DEFINE All == Jobs \X (1..(MaxAttempts + MaxStalls))
<1>1. MaxAttempts + MaxStalls \in Int
  BY ForwardingAssumption DEF ForwardingAssumption
<1>2. IsFiniteSet(1..(MaxAttempts + MaxStalls)) BY <1>1, FS_Interval
<1>3. IsFiniteSet(All) BY <1>2, FS_Product
<1>4. PastRuns(k, E)' \subseteq All BY DEF PastRuns
<1> HIDE DEF All
<1> QED BY <1>3, <1>4, FS_Subset

\* So the runs past E only become more: a run that is over stays over, whether
\* its worker ended it, died, or goes on after it was taken for stalled.
LEMMA PastRunsGrow ==
  ASSUME Shape, JobsBounded, Next, IsFiniteSet(Jobs),
         NEW E \in {BeforeSend, BeforeRecord}, NEW k \in Keys
  PROVE  /\ PastRuns(k, E) \subseteq PastRuns(k, E)'
         /\ Cardinality(PastRuns(k, E)') \in Nat
         /\ Cardinality(PastRuns(k, E)') >= Cardinality(PastRuns(k, E))
<1>1. Shape' /\ JobsBounded' BY NextShape, NextBounded
<1>2. PastRuns(k, E) \subseteq PastRuns(k, E)'
  <2>1. ASSUME NEW r \in PastRuns(k, E) PROVE r \in PastRuns(k, E)'
    <3>1. /\ r \in Jobs \X (1..(MaxAttempts + MaxStalls)) /\ r[1] \in Jobs
          /\ r[2] \in Int /\ r[2] >= 1
          /\ job[r[1]].key = k /\ r[2] <= RunsOf(r[1])
          /\ \A w \in Workers : worker[w].pc \in E =>
                ~(worker[w].job = r[1] /\ worker[w].run = r[2])
      BY ForwardingAssumption DEF PastRuns, ForwardingAssumption
    <3>2. job[r[1]].state # "free" BY <3>1, RunsType
    <3>3. job'[r[1]].key = k BY <3>1, <3>2, JobKeysStay
    <3>4. RunsOf(r[1])' >= RunsOf(r[1]) BY <3>1, JobSteps DEF Grows
    <3>5. RunsOf(r[1]) \in Nat BY <3>1, RunsType
    <3>6. RunsOf(r[1])' \in Nat
      <4>1. job'[r[1]].attempts \in Nat /\ job'[r[1]].stalls \in Nat
        BY <1>1, <3>1 DEF Shape, TypeOK, JobState
      <4> QED BY <4>1 DEF RunsOf, RunsOver
    <3>7. r[2] <= RunsOf(r[1])' BY <3>1, <3>4, <3>5, <3>6
    <3>8. ASSUME NEW v \in Workers, worker'[v].pc \in E, worker'[v].job = r[1],
                 worker'[v].run = r[2]
          PROVE  FALSE
      <4>1. worker'[v].run # RunsOf(worker'[v].job) + 1 BY <3>1, <3>5, <3>8
      <4> QED BY <3>1, <3>8, <4>1, RunsEnter
    <3> QED BY <3>1, <3>3, <3>7, <3>8 DEF PastRuns
  <2> QED BY <2>1
<1>3. IsFiniteSet(PastRuns(k, E)') BY NextRunsFinite
<1> QED BY <1>2, <1>3, FS_Subset, FS_CardinalityType

\* A step that takes a worker beyond E, overtaken or not, makes them more by one.
LEMMA PastRunsGrowByOne ==
  ASSUME Shape, JobsBounded, Next, IsFiniteSet(Jobs),
         NEW E \in {BeforeSend, BeforeRecord}, NEW k \in Keys,
         NEW w \in Workers, worker[w].pc \in E, WorkerKey(w) = k,
         worker' = [worker EXCEPT ![w] = worker'[w]], worker'[w].pc \notin E,
         UNCHANGED job
  PROVE  /\ Cardinality(PastRuns(k, E)') \in Nat
         /\ Cardinality(PastRuns(k, E)') >= Cardinality(PastRuns(k, E)) + 1
<1>1. worker[w].pc # "idle" /\ worker \in [Workers -> WorkerState]
  BY DEF Shape, TypeOK, BeforeSend, BeforeRecord
<1>a. PICK j \in Jobs : j = worker[w].job BY <1>1, WorkerJob
<1>b. PICK n \in Nat : n = worker[w].run BY <1>1 DEF WorkerState
<1>2. job[j].key = k /\ n >= 1 /\ n <= RunsOf(j)
  BY <1>1, <1>a, <1>b DEF WorkerKey, Shape, WorkerHoldsJob, AtRun
<1>3. n \in 1..(MaxAttempts + MaxStalls)
  BY <1>2, RunsType, ForwardingAssumption DEF ForwardingAssumption
<1>4. RunsOf(j)' = RunsOf(j) BY DEF RunsOf, RunsOver
<1>5. ASSUME NEW v \in Workers, worker'[v].pc \in E, worker'[v].job = j,
             worker'[v].run = n
      PROVE  FALSE
  <2>1. v # w BY <1>5
  <2>2. worker'[v] = worker[v] BY <1>1, <2>1
  <2>3. worker[v].pc # "idle" BY <1>5, <2>2 DEF BeforeSend, BeforeRecord
  <2> QED BY <1>1, <1>5, <1>a, <1>b, <2>1, <2>2, <2>3 DEF Shape, WorkerHoldsJob
<1>8. <<j, n>> \notin PastRuns(k, E) BY <1>a, <1>b DEF PastRuns
<1>9. <<j, n>> \in PastRuns(k, E)' BY <1>2, <1>3, <1>4, <1>5 DEF PastRuns
<1>10. PastRuns(k, E) \cup {<<j, n>>} \in SUBSET PastRuns(k, E)'
  BY <1>9, PastRunsGrow
<1>11. IsFiniteSet(PastRuns(k, E)) BY RunsFinite
<1>12. IsFiniteSet(PastRuns(k, E)') BY NextRunsFinite
<1>13. Cardinality(PastRuns(k, E) \cup {<<j, n>>}) = Cardinality(PastRuns(k, E)) + 1
  BY <1>8, <1>11, FS_AddElement
<1> QED BY <1>10, <1>12, <1>13, FS_Subset, FS_CardinalityType

\* Accepted copies and recorded attempts stay accounted for by runs.
LEMMA NextAccounted ==
  ASSUME Shape, JobsBounded, Accounted, [Next]_vars, IsFiniteSet(Jobs)
  PROVE  Accounted'
<1> SUFFICES ASSUME NEW k \in Keys
             PROVE  /\ accepted'[k] <= Cardinality(PastRuns(k, BeforeSend)')
                    /\ forward'[k].attempt <= Cardinality(PastRuns(k, BeforeRecord)')
  BY DEF Accounted
<1>0. /\ accepted \in [Keys -> Nat] /\ forward \in [Keys -> Row]
      /\ worker \in [Workers -> WorkerState]
      /\ accepted[k] \in Nat /\ forward[k] \in Row /\ forward[k].attempt \in Nat
      /\ \A w \in Workers : worker[w] \in WorkerState
  BY DEF Shape, TypeOK, Row
<1>1. /\ accepted[k] <= Cardinality(PastRuns(k, BeforeSend))
      /\ forward[k].attempt <= Cardinality(PastRuns(k, BeforeRecord))
      /\ Cardinality(PastRuns(k, BeforeSend)) \in Nat
      /\ Cardinality(PastRuns(k, BeforeRecord)) \in Nat
  BY RunsFinite DEF Accounted
<1>2. CASE UNCHANGED vars
  <2>1. /\ PastRuns(k, BeforeSend)' = PastRuns(k, BeforeSend)
        /\ PastRuns(k, BeforeRecord)' = PastRuns(k, BeforeRecord)
    BY <1>2 DEF vars, PastRuns, RunsOf, RunsOver
  <2> QED BY <1>1, <1>2, <2>1 DEF vars
<1>3. CASE Next
  <2>1. ASSUME NEW E \in {BeforeSend, BeforeRecord}
        PROVE  /\ Cardinality(PastRuns(k, E)') \in Nat
               /\ Cardinality(PastRuns(k, E)') >= Cardinality(PastRuns(k, E))
    BY <1>3, PastRunsGrow
  <2>2. ASSUME accepted'[k] # accepted[k]
        PROVE  accepted'[k] <= Cardinality(PastRuns(k, BeforeSend)')
    <3>1. PICK w \in Workers : Send(w)
      BY <1>3, <2>2 DEF Next, Deliver, CallerStep, SetCredential,
         DeactivateCredential, ListCredentials, ReadRow, WriteRow, LoseRow, FailRow,
         AddJob, AddJobFails, FinishEnqueue, CallerCrash, StartEnqueue, WorkerStep,
         Fetch, Load, LoadFails, Skip, Record, WriteFails, Complete, Retry,
         WorkerCrash, QueueStep, Promote, Stall
    <3>2. PICK ok \in BOOLEAN, taken \in BOOLEAN :
            /\ worker' = [worker EXCEPT ![w] = [@ EXCEPT !.pc = "record", !.ok = ok]]
            /\ accepted' = [accepted EXCEPT ![WorkerKey(w)] =
                              IF taken THEN @ + 1 ELSE @]
      BY <3>1, SendOutcome
    <3>3. WorkerKey(w) = k /\ accepted'[k] = accepted[k] + 1
      BY <1>0, <2>2, <3>2
    <3>4. worker[w].pc = "send" /\ UNCHANGED job BY <3>1 DEF Send
    <3>5. worker' = [worker EXCEPT ![w] = worker'[w]] /\ worker'[w].pc = "record"
      BY <1>0, <3>2 DEF WorkerState
    <3>6. worker[w].pc \in BeforeSend /\ worker'[w].pc \notin BeforeSend
      BY <3>4, <3>5 DEF BeforeSend
    <3>7. /\ Cardinality(PastRuns(k, BeforeSend)') \in Nat
          /\ Cardinality(PastRuns(k, BeforeSend)') >=
                Cardinality(PastRuns(k, BeforeSend)) + 1
      BY <1>3, <3>3, <3>4, <3>5, <3>6, PastRunsGrowByOne
    <3> QED BY <1>0, <1>1, <3>3, <3>7
  <2>3. ASSUME forward'[k].attempt # forward[k].attempt
        PROVE  forward'[k].attempt <= Cardinality(PastRuns(k, BeforeRecord)')
    <3>0. UNCHANGED forward \/ (\E c \in Callers : WriteRow(c) \/ FailRow(c))
          \/ (\E w \in Workers : Skip(w) \/ Record(w) \/ WriteFails(w))
      BY <1>3 DEF Next, Deliver, CallerStep, SetCredential,
         DeactivateCredential, ListCredentials, ReadRow, LoseRow,
         AddJob, AddJobFails, FinishEnqueue, CallerCrash, StartEnqueue, WorkerStep,
         Fetch, Load, LoadFails, Send, Complete, Retry,
         WorkerCrash, QueueStep, Promote, Stall
    <3>1. ASSUME NEW c \in Callers, caller[c].pc = "write", PutRow(c)
          PROVE  forward'[k].attempt = 0
      <4>1. PICK r \in Row : PutsPending(Key(c), r) BY <3>1, RowPut
      <4>2. Key(c) = k BY <1>0, <2>3, <4>1 DEF PutsPending
      <4> QED BY <1>0, <4>1, <4>2 DEF PutsPending
    <3>2. CASE \E c \in Callers : WriteRow(c) \/ FailRow(c)
      <4>1. forward'[k].attempt = 0 BY <2>3, <3>1, <3>2 DEF WriteRow, FailRow
      <4> QED BY <2>1, <4>1
    <3>3. ASSUME NEW w \in Workers, Skip(w) \/ Record(w) \/ WriteFails(w)
          PROVE  forward'[k].attempt <= Cardinality(PastRuns(k, BeforeRecord)')
      <4>1. ~SkipRow(w)
        <5>1. ASSUME SkipRow(w) PROVE forward'[k].attempt = forward[k].attempt
          <6>1. forward' = [forward EXCEPT ![WorkerKey(w)].status = "SKIPPED"]
            BY <5>1 DEF SkipRow
          <6> QED BY <1>0, <6>1 DEF Row
        <5> QED BY <2>3, <5>1
      <4>2. RecordRow(w) BY <2>3, <3>3, <4>1 DEF Skip, Record, WriteFails
      <4>3. WorkerKey(w) = k BY <1>0, <2>3, <4>2 DEF RecordRow
      <4>4. forward'[k].attempt = forward[k].attempt + 1
        BY <1>0, <4>2, <4>3 DEF RecordRow, Outcome
      <4>5. worker[w].pc = "record" BY <4>2 DEF RecordRow
      <4>6. UNCHANGED job /\ (WorkerTo(w, "done") \/ WorkerTo(w, "threw"))
        BY <3>3 DEF Skip, Record, WriteFails
      <4>7. /\ worker' = [worker EXCEPT ![w] = worker'[w]]
            /\ worker'[w].pc \in {"done", "threw"}
        BY <1>0, <4>6 DEF WorkerTo, WorkerState
      <4>8. worker[w].pc \in BeforeRecord /\ worker'[w].pc \notin BeforeRecord
        BY <4>5, <4>7 DEF BeforeRecord
      <4>9. /\ Cardinality(PastRuns(k, BeforeRecord)') \in Nat
            /\ Cardinality(PastRuns(k, BeforeRecord)') >=
                  Cardinality(PastRuns(k, BeforeRecord)) + 1
        BY <1>3, <4>3, <4>6, <4>7, <4>8, PastRunsGrowByOne
      <4> QED BY <1>0, <1>1, <4>4, <4>9
    <3> QED BY <2>3, <3>0, <3>2, <3>3
  <2>4. /\ Cardinality(PastRuns(k, BeforeSend)') \in Nat
        /\ Cardinality(PastRuns(k, BeforeSend)') >= Cardinality(PastRuns(k, BeforeSend))
        /\ Cardinality(PastRuns(k, BeforeRecord)') \in Nat
        /\ Cardinality(PastRuns(k, BeforeRecord)') >= Cardinality(PastRuns(k, BeforeRecord))
    BY <2>1
  <2> QED BY <1>0, <1>1, <2>2, <2>3, <2>4
<1> QED BY <1>2, <1>3

LEMMA InitAccounted ==
  ASSUME Init, IsFiniteSet(Jobs)
  PROVE  Accounted
<1>1. Shape /\ JobsBounded BY InitShape, InitBounded
<1>2. ASSUME NEW k \in Keys, NEW E PROVE Cardinality(PastRuns(k, E)) \in Nat
  BY <1>1, RunsFinite
<1> QED BY <1>2 DEF Init, Accounted, NoRow

\* However often jobs are retried, stalled or run twice, and however often their
\* workers die: no platform took more copies of an event, and no row counts more
\* attempts, than there were runs, which BullMQ's limits bound for every job.
THEOREM SendsAreAccounted ==
  ASSUME IsFiniteSet(Jobs)
  PROVE  Spec => []SendsAccounted
<1>1. Init => Accounted BY InitAccounted
<1>2. Shape /\ JobsBounded /\ Accounted /\ [Next]_vars => Accounted'
  BY NextAccounted
<1>3. Shape /\ JobsBounded /\ Accounted => SendsAccounted
  <2> SUFFICES ASSUME Shape, JobsBounded, Accounted PROVE SendsAccounted
    OBVIOUS
  <2>1. ASSUME NEW k \in Keys
        PROVE  accepted[k] <= Cardinality(Runs(k)) /\ forward[k].attempt <= Cardinality(Runs(k))
    <3>1. accepted[k] \in Nat /\ forward[k].attempt \in Nat
      BY DEF Shape, TypeOK, Row
    <3>2. IsFiniteSet(Runs(k)) /\ Cardinality(Runs(k)) \in Nat
      BY RunsFinite, FS_CardinalityType
    <3>3. ASSUME NEW E PROVE /\ Cardinality(PastRuns(k, E)) \in Nat
                             /\ Cardinality(PastRuns(k, E)) <= Cardinality(Runs(k))
      BY <3>2, RunsFinite, FS_Subset
    <3> QED BY <3>1, <3>2, <3>3 DEF Accounted
  <2>2. \A j \in Jobs : job[j].attempts <= MaxAttempts /\ job[j].stalls <= MaxStalls + 1
    BY DEF JobsBounded
  <2> QED BY <2>1, <2>2 DEF SendsAccounted
<1> QED BY <1>1, <1>2, <1>3, ShapeCorrect, BoundedCorrect, PTL DEF Spec
================================================================================
