--------------------------- MODULE Ingestion_proofs ---------------------------
(***************************************************************************)
(* Proofs about module Ingestion, for any requests, batches and ids: what  *)
(* the pipeline does to Forwarding is what Forwarding allows its callers   *)
(* to do, so Forwarding's own theorems hold of it; and the Event table     *)
(* with the answers is an idempotent store.                                *)
(***************************************************************************)
EXTENDS Ingestion, TLAPS

\* Forwarding with its theorems, for this module's items and row ids.
FP == INSTANCE Forwarding_proofs WITH Callers <- Items, Events <- RowIds

USE IngestionAssumption DEF IngestionAssumption

ItemTypes ==
    /\ batch \in [Requests -> Batches \cup {<<>>}]
    /\ item \in [Items -> ItemState]
    /\ eventRow \in [RowIds -> Items \cup {None}]
    /\ touches \in [RowIds -> Nat]

\* What an item has in hand at each stage: its DTO once it has begun, an id
\* once it has looked for the row, and the row's owner once it has upserted.
ItemHolds ==
    \A x \in Items :
        /\ item[x].pc # "waiting" => x[2] <= Len(batch[x[1]])
        /\ item[x].pc \in {"insert", "attribute", "forward"} => item[x].id \in RowIds
        /\ item[x].pc = "insert" /\ item[x].found => eventRow[item[x].id] # None
        /\ item[x].pc \in {"attribute", "forward"} =>
              /\ item[x].owner = eventRow[item[x].id]
              /\ item[x].owner # None

Shape == ItemTypes /\ ItemHolds

LEMMA InitShape == Init => Shape
  BY DEF Init, Shape, ItemTypes, ItemHolds, WaitingItem, ItemState, RowIds

LEMMA ItemMoves ==
  ASSUME Shape, NEW x \in Items, NEW s \in ItemState,
         item' = [item EXCEPT ![x] = s],
         UNCHANGED batch,
         eventRow' \in [RowIds -> Items \cup {None}],
         \A id \in RowIds : eventRow[id] # None => eventRow'[id] = eventRow[id],
         x[2] <= Len(batch[x[1]]),
         s.pc \in {"insert", "attribute", "forward"} => s.id \in RowIds,
         s.pc = "insert" /\ s.found => eventRow[s.id] # None,
         s.pc \in {"attribute", "forward"} =>
            s.owner = eventRow'[s.id] /\ s.owner # None
  PROVE  item' \in [Items -> ItemState] /\ ItemHolds'
  BY DEF Shape, ItemTypes, ItemHolds

\* The DTO of an item that has begun, and the ids it may have.
LEMMA DtoKnown ==
  ASSUME Shape, NEW x \in Items, x[2] <= Len(batch[x[1]])
  PROVE  DtoOf(x) \in Dto /\ EventIdOf(x) \subseteq RowIds
<1>1. x[1] \in Requests /\ x[2] \in 1..MaxBatch
  BY DEF Items
<1>2. batch[x[1]] \in Batches \cup {<<>>}
  BY <1>1 DEF Shape, ItemTypes
<1>3. batch[x[1]] \in Seq(Dto) /\ x[2] \in 1..Len(batch[x[1]])
  BY <1>1, <1>2
<1>4. DtoOf(x) \in Dto
  BY <1>3 DEF DtoOf
<1>5. EventIdOf(x) \subseteq RowIds
  BY <1>4 DEF EventIdOf, Dto, RowIds
<1> QED BY <1>4, <1>5

LEMMA StepShape ==
  ASSUME Shape, NEW x \in Items, ItemStep(x) \/ Crash(x)
  PROVE  Shape'
<1> USE DEF Shape
<1>0. item \in [Items -> ItemState] /\ item[x] \in ItemState
  BY DEF ItemTypes
<1>1. ASSUME NEW s \in ItemState, item' = [item EXCEPT ![x] = s],
             UNCHANGED <<batch, eventRow>>,
             touches' \in [RowIds -> Nat],
             x[2] <= Len(batch[x[1]]),
             s.pc \in {"insert", "attribute", "forward"} => s.id \in RowIds,
             s.pc = "insert" /\ s.found => eventRow[s.id] # None,
             s.pc \in {"attribute", "forward"} =>
                s.owner = eventRow[s.id] /\ s.owner # None
      PROVE  Shape'
  BY <1>1, ItemMoves DEF ItemTypes
<1>2. ASSUME NEW pc \in {"ignored", "ok", "accepted", "threw", "crashed", "persist"},
             ItemTo(x, pc), x[2] <= Len(batch[x[1]]),
             UNCHANGED <<batch, eventRow, touches>>
      PROVE  Shape'
  <2> DEFINE s == [item[x] EXCEPT !.pc = pc]
  <2>1. s \in ItemState /\ s.pc = pc BY <1>0, <1>2 DEF ItemState, InFlight, Answered
  <2>2. item' = [item EXCEPT ![x] = s] BY <1>2 DEF ItemTo
  <2> HIDE DEF s
  <2> QED BY <1>1, <1>2, <2>1, <2>2 DEF ItemTypes
<1>3. ASSUME item[x].pc # "waiting" PROVE x[2] <= Len(batch[x[1]])
  BY <1>3 DEF ItemHolds
<1>5. CASE Block(x) \/ RejectStale(x) \/ DatabaseFails(x) \/ Accept(x) \/ ForwardThrows(x)
  BY <1>2, <1>3, <1>5
     DEF Block, RejectStale, DatabaseFails, Accept, ForwardThrows, IsTurn
<1>6. CASE Track(x)
  <2>1. ItemTo(x, "ok") \/ ItemTo(x, "persist") BY <1>6 DEF Track
  <2> QED BY <1>2, <1>6, <2>1 DEF Track, IsTurn
<1>8. CASE FindEvent(x)
  <2>1. x[2] <= Len(batch[x[1]]) BY <1>3, <1>8 DEF FindEvent
  <2>2. PICK id \in RowIds :
          item' = [item EXCEPT ![x].pc = "insert", ![x].id = id,
                               ![x].found = (eventRow[id] # None)]
    BY <1>8, <2>1, DtoKnown DEF FindEvent
  <2> DEFINE b == (eventRow[id] # None)
  <2> DEFINE s == [item[x] EXCEPT !.pc = "insert", !.id = id, !.found = b]
  <2>3. b \in BOOLEAN OBVIOUS
  <2>4. item' = [item EXCEPT ![x] = s] BY <1>0, <2>2
  <2> HIDE DEF b
  <2>5. s \in ItemState /\ s.pc = "insert" /\ s.id = id /\ s.found = b
    BY <1>0, <2>3 DEF ItemState, InFlight
  <2> HIDE DEF s
  <2>6. s.found => eventRow[s.id] # None BY <2>5 DEF b
  <2> QED BY <1>1, <1>8, <2>1, <2>4, <2>5, <2>6 DEF FindEvent, ItemTypes
<1>9. CASE UpsertEvent(x)
  <2> DEFINE id == item[x].id
  <2>1. x[2] <= Len(batch[x[1]]) /\ id \in RowIds
    BY <1>3, <1>9 DEF UpsertEvent, ItemHolds
  <2>2. CASE item[x].found
    <3> DEFINE s == [item[x] EXCEPT !.pc = "attribute", !.owner = eventRow[id]]
    <3>1. eventRow[id] \in Items \cup {None} BY <2>1 DEF ItemTypes
    <3>2. s \in ItemState /\ s.pc = "attribute" /\ s.id = id /\ s.owner = eventRow[id]
      BY <1>0, <3>1 DEF ItemState, InFlight
    <3>3. item' = [item EXCEPT ![x] = s] /\ UNCHANGED eventRow
      BY <1>0, <1>9, <2>2 DEF UpsertEvent
    <3>4. eventRow[id] # None BY <1>9, <2>2 DEF UpsertEvent, ItemHolds
    <3> HIDE DEF s
    <3> QED BY <1>1, <1>9, <2>1, <3>2, <3>3, <3>4 DEF UpsertEvent, ItemTypes
  <2>3. CASE ~item[x].found
    <3> DEFINE s == [item[x] EXCEPT !.pc = "attribute", !.owner = x]
    <3>1. x # None OBVIOUS
    <3>2. s \in ItemState /\ s.pc = "attribute" /\ s.id = id /\ s.owner = x
      BY <1>0 DEF ItemState, InFlight
    <3>3. /\ item' = [item EXCEPT ![x] = s]
          /\ eventRow[id] = None /\ eventRow' = [eventRow EXCEPT ![id] = x]
      BY <1>0, <1>9, <2>3 DEF UpsertEvent, UniqueId, Inserted
    <3> HIDE DEF s
    <3>4. /\ eventRow' \in [RowIds -> Items \cup {None}] /\ eventRow'[id] = x
          /\ \A i \in RowIds : eventRow[i] # None => eventRow'[i] = eventRow[i]
      BY <2>1, <3>3 DEF ItemTypes
    <3>5. item' \in [Items -> ItemState] /\ ItemHolds'
      BY <1>9, <2>1, <3>1, <3>2, <3>3, <3>4, ItemMoves DEF UpsertEvent
    <3> QED BY <1>9, <3>4, <3>5 DEF UpsertEvent, ItemTypes
  <2> QED BY <2>2, <2>3
<1>10. CASE LoseInsert(x)
  <2> DEFINE id == item[x].id
  <2>1. x[2] <= Len(batch[x[1]]) /\ id \in RowIds
    BY <1>3, <1>10 DEF LoseInsert, ItemHolds
  <2> DEFINE s == [item[x] EXCEPT !.pc = "accepted", !.owner = eventRow[id]]
  <2>2. eventRow[id] \in Items \cup {None} BY <2>1 DEF ItemTypes
  <2>3. s \in ItemState /\ s.pc = "accepted"
    BY <1>0, <2>2 DEF ItemState, Answered
  <2>4. item' = [item EXCEPT ![x] = s]
    BY <1>0, <1>10 DEF LoseInsert, AfterLostRace
  <2> HIDE DEF s
  <2> QED BY <1>1, <1>10, <2>1, <2>3, <2>4 DEF LoseInsert, ItemTypes
<1>11. CASE AttributeAndForward(x)
  <2> DEFINE id == item[x].id
  <2>1. /\ x[2] <= Len(batch[x[1]]) /\ id \in RowIds
        /\ item[x].owner = eventRow[id] /\ item[x].owner # None
    BY <1>3, <1>11 DEF AttributeAndForward, ItemHolds
  <2> DEFINE s == [item[x] EXCEPT !.pc = "forward"]
  <2>2. s \in ItemState /\ s.pc = "forward" /\ s.id = id /\ s.owner = item[x].owner
    BY <1>0 DEF ItemState, InFlight
  <2>3. item' = [item EXCEPT ![x] = s] BY <1>11 DEF AttributeAndForward, ItemTo
  <2>4. touches' \in [RowIds -> Nat]
    BY <1>11, <2>1 DEF AttributeAndForward, ItemTypes
  <2> HIDE DEF s
  <2> QED BY <1>1, <1>11, <2>1, <2>2, <2>3, <2>4 DEF AttributeAndForward
<1>12. CASE Crash(x)
  BY <1>2, <1>3, <1>12 DEF Crash, InFlight
<1>13. CASE InsertUnanswered(x)
  <2> DEFINE id == item[x].id
  <2> DEFINE s == [item[x] EXCEPT !.pc = "threw"]
  <2>1. x[2] <= Len(batch[x[1]]) /\ id \in RowIds
    BY <1>3, <1>13 DEF InsertUnanswered, ItemHolds
  <2>2. s \in ItemState /\ s.pc = "threw" BY <1>0 DEF ItemState
  <2>3. /\ item' = [item EXCEPT ![x] = s] /\ UNCHANGED batch
        /\ eventRow[id] = None /\ eventRow' = [eventRow EXCEPT ![id] = x]
    BY <1>13 DEF InsertUnanswered, ItemTo, UniqueId, Inserted
  <2> HIDE DEF s
  <2>4. /\ eventRow' \in [RowIds -> Items \cup {None}]
        /\ \A i \in RowIds : eventRow[i] # None => eventRow'[i] = eventRow[i]
    BY <2>1, <2>3 DEF ItemTypes
  <2>5. item' \in [Items -> ItemState] /\ ItemHolds'
    BY <2>1, <2>2, <2>3, <2>4, ItemMoves
  <2> QED BY <1>13, <2>4, <2>5 DEF InsertUnanswered, ItemTypes
<1> QED
  BY <1>5, <1>6, <1>8, <1>9, <1>10, <1>11, <1>12, <1>13 DEF ItemStep

LEMMA NextShape == Shape /\ [Next]_vars => Shape'
<1> SUFFICES ASSUME Shape, [Next]_vars PROVE Shape'
  OBVIOUS
<1>1. CASE UNCHANGED ingestVars
  BY <1>1 DEF ingestVars, Shape, ItemTypes, ItemHolds
<1>2. ASSUME NEW r \in Requests, Receive(r) PROVE Shape'
  <2>1. /\ batch' \in [Requests -> Batches \cup {<<>>}]
        /\ UNCHANGED <<item, eventRow, touches>>
    BY <1>2 DEF Receive, Shape, ItemTypes
  <2>2. ASSUME NEW x \in Items, item[x].pc # "waiting"
        PROVE  x[2] <= Len(batch'[x[1]])
    <3>1. x[1] \in Requests /\ x[2] \in Nat \ {0} BY DEF Items
    <3>2. x[2] <= Len(batch[x[1]]) BY <2>2 DEF Shape, ItemHolds
    <3>3. Len(<<>>) = 0 OBVIOUS
    <3>4. x[1] # r BY <1>2, <3>1, <3>2, <3>3 DEF Receive
    <3>5. batch'[x[1]] = batch[x[1]]
      BY <1>2, <3>1, <3>4 DEF Receive, Shape, ItemTypes
    <3> QED BY <3>2, <3>5
  <2> QED BY <2>1, <2>2 DEF Shape, ItemTypes, ItemHolds
<1> QED
  BY <1>1, <1>2, StepShape DEF Next, vars

-------------------------------------------------------------------------------
\* Every step of the pipeline is a step of Forwarding or leaves it alone: what
\* is proved of Forwarding holds of the rows and the jobs of ingestion.
THEOREM ImplementsForwarding == Spec => ForwardingSpec
<1>1. Init => F!Init BY DEF Init
<1>2. ASSUME Shape, [Next]_vars PROVE [F!Next]_(F!vars)
  <2>1. CASE UNCHANGED forwardVars
    BY <2>1 DEF forwardVars, F!vars
  <2>2. CASE F!Deliver
    BY <2>2 DEF F!Next
  <2>3. ASSUME NEW x \in Items, AttributeAndForward(x) PROVE F!Next
    <3>1. item[x].id \in RowIds
      BY <1>2, <2>3 DEF AttributeAndForward, Shape, ItemHolds
    <3> QED BY <2>3, <3>1 DEF AttributeAndForward, F!Next
  <2>4. ASSUME NEW x \in Items, Crash(x) PROVE [F!Next]_(F!vars)
    BY <2>1, <2>4 DEF Crash, F!Next
  <2> QED
    BY <1>2, <2>1, <2>2, <2>3, <2>4 DEF Next, vars, Receive, ItemStep, Block,
       Track, RejectStale, FindEvent, UpsertEvent, LoseInsert,
       Accept, ForwardThrows, DatabaseFails, InsertUnanswered
<1> QED
  BY <1>1, <1>2, InitShape, NextShape, PTL DEF Spec, ForwardingSpec, F!Spec

LEMMA ForwardingConstants == FP!ForwardingAssumption
  BY DEF FP!ForwardingAssumption, RowIds

\* FP names the same formulas as F, by way of the module of the proofs.
LEMMA SameForwarding ==
  /\ F!TypeOK <=> FP!TypeOK
  /\ F!Init <=> FP!Init
  /\ F!Next <=> FP!Next
  /\ F!vars = FP!vars
<1>1. F!TypeOK <=> FP!TypeOK
  BY DEF F!TypeOK, FP!TypeOK, F!Keys, FP!Keys, F!Row, FP!Row, F!CallerState,
     FP!CallerState, F!JobState, FP!JobState, F!WorkerState,
     FP!WorkerState
<1>2. F!Init <=> FP!Init
  BY DEF F!Init, FP!Init, F!Keys, FP!Keys, F!NoRow, FP!NoRow, F!IdleCaller,
     FP!IdleCaller, F!FreeJob, FP!FreeJob, F!IdleWorker, FP!IdleWorker
<1>3. F!Next <=> FP!Next
  BY DEF F!Next, FP!Next, F!vars, FP!vars, F!Deliver, FP!Deliver,
     F!SetCredential, FP!SetCredential, F!DeactivateCredential,
     FP!DeactivateCredential, F!CallerStep, FP!CallerStep, F!WorkerStep,
     FP!WorkerStep, F!QueueStep, FP!QueueStep, F!Key, FP!Key,
     F!NextPlatform, FP!NextPlatform, F!StartEnqueue, FP!StartEnqueue,
     F!ListCredentials, FP!ListCredentials, F!ReadRow, FP!ReadRow,
     F!ResetRow, FP!ResetRow, F!PutRow, FP!PutRow, F!WriteRow, FP!WriteRow, F!LoseRow,
     FP!LoseRow, F!FailRow, FP!FailRow, F!NewJob, FP!NewJob, F!AddJob,
     FP!AddJob, F!CountFailure, FP!CountFailure, F!AddJobFails,
     FP!AddJobFails, F!FinishEnqueue, FP!FinishEnqueue, F!CallerCrash,
     FP!CallerCrash, F!WorkerTo, FP!WorkerTo, F!WorkerKey, FP!WorkerKey,
     F!Fetch, FP!Fetch, F!Load, FP!Load, F!LoadFails, FP!LoadFails,
     F!SkipRow, FP!SkipRow, F!RecordRow, FP!RecordRow,
     F!Skip, FP!Skip, F!Send, FP!Send, F!Outcome, FP!Outcome, F!Record,
     FP!Record, F!WriteFails, FP!WriteFails, F!Complete, FP!Complete,
     F!AfterFailure, FP!AfterFailure, F!Retry, FP!Retry, F!WorkerCrash,
     FP!WorkerCrash, F!Promote, FP!Promote, F!Stall, FP!Stall, F!NewRow,
     FP!NewRow, F!IdleWorker, FP!IdleWorker, F!Answer, FP!Answer, F!Answered,
     FP!Answered, F!StatusOk, FP!StatusOk, F!GoogleAdsOk, FP!GoogleAdsOk,
     F!Success, FP!Success, F!RunsOver, FP!RunsOver, F!Owns, FP!Owns
<1>4. F!vars = FP!vars
  BY DEF F!vars, FP!vars
<1> QED BY <1>1, <1>2, <1>3, <1>4

\* The types of the pipeline and, through ForwardingSpec, of the forwarding.
THEOREM TypeCorrect == Spec => []TypeOK
<1>1. /\ F!TypeOK <=> FP!TypeOK
      /\ F!Init <=> FP!Init
      /\ [F!Next]_(F!vars) <=> [FP!Next]_(FP!vars)
  BY SameForwarding DEF F!vars, FP!vars
<1>2. ForwardingSpec => FP!Spec
  BY <1>1, PTL DEF ForwardingSpec, F!Spec, FP!Spec
<1>3. FP!Spec => []FP!TypeOK
  BY ForwardingConstants, FP!TypeCorrect
<1>4. Shape /\ F!TypeOK => TypeOK
  BY DEF Shape, ItemTypes, TypeOK
<1> QED
  BY <1>1, <1>2, <1>3, <1>4, InitShape, NextShape, ImplementsForwarding, PTL
     DEF Spec

LEMMA ShapeCorrect == Spec => []Shape
  BY InitShape, NextShape, PTL DEF Spec

-------------------------------------------------------------------------------
\* The Event table with the answers is an idempotent store: the first insert
\* of an id is final, and every accepted request is told that row.
THEOREM ImplementsStore == Spec => StoreSpec
<1>1. Init => Store!Init
  BY DEF Init, Store!Init, Answers, WaitingItem
<1>2. ASSUME Shape, [Next]_vars PROVE [Store!Next]_(Store!vars)
  <2> USE <1>2
  <2>0. item \in [Items -> ItemState] BY DEF Shape, ItemTypes
  <2>1. ASSUME UNCHANGED eventRow,
               \A x \in Items :
                  /\ (item'[x].pc = "accepted") <=> (item[x].pc = "accepted")
                  /\ item[x].pc = "accepted" => item'[x] = item[x]
        PROVE  UNCHANGED <<eventRow, Answers>>
    BY <2>1 DEF Answers
  <2>2. CASE UNCHANGED <<item, eventRow>>
    BY <2>1, <2>2 DEF Store!vars
  <2>3. ASSUME NEW x \in Items, NEW s, item' = [item EXCEPT ![x] = s],
               item[x].pc # "accepted", s.pc # "accepted"
        PROVE  UNCHANGED Answers
    <3>1. \A y \in Items :
            /\ (item'[y].pc = "accepted") <=> (item[y].pc = "accepted")
            /\ item[y].pc = "accepted" => item'[y] = item[y]
      BY <2>0, <2>3
    <3> QED BY <3>1 DEF Answers
  <2>4. ASSUME NEW x \in Items, NEW s, item' = [item EXCEPT ![x] = s],
               UNCHANGED eventRow, item[x].pc # "accepted", s.pc = "accepted",
               s.id \in RowIds, s.owner = eventRow[s.id], s.owner # None
        PROVE  Store!Next
    <3> DEFINE a == [id |-> s.id, owner |-> s.owner]
    <3>1. Answers[x] = None BY <2>4 DEF Answers
    <3>2. Answers' = [Answers EXCEPT ![x] = a]
      <4>1. \A y \in Items : item'[y] = IF y = x THEN s ELSE item[y]
        BY <2>0, <2>4
      <4>2. \A y \in Items : Answers'[y] = IF y = x THEN a ELSE Answers[y]
        BY <2>4, <4>1 DEF Answers
      <4>3. /\ Answers = [y \in Items |-> Answers[y]]
            /\ Answers' = [y \in Items |-> Answers'[y]]
        BY DEF Answers
      <4> HIDE DEF a
      <4> QED BY <4>2, <4>3
    <3>3. Store!Tell(x, s.id) BY <2>4, <3>1, <3>2 DEF Store!Tell
    <3> QED BY <2>4, <3>3 DEF Store!Next
  <2>5. ASSUME NEW x \in Items, item[x].pc # "accepted",
               NEW pc \in {"ignored", "ok", "threw", "crashed", "persist", "forward"},
               ItemTo(x, pc)
        PROVE  UNCHANGED Answers
    <3> DEFINE s == [item[x] EXCEPT !.pc = pc]
    <3>1. item' = [item EXCEPT ![x] = s] BY <2>5 DEF ItemTo
    <3>2. s.pc # "accepted" BY <2>0, <2>5 DEF ItemState
    <3> HIDE DEF s
    <3> QED BY <2>3, <2>5, <3>1, <3>2
  <2>6. ASSUME NEW x \in Items, Block(x) \/ Track(x) \/ RejectStale(x)
               \/ AttributeAndForward(x) \/ ForwardThrows(x) \/ DatabaseFails(x)
               \/ Crash(x)
        PROVE  UNCHANGED <<eventRow, Answers>>
    <3>1. item[x].pc # "accepted" /\ UNCHANGED eventRow
      BY <2>6 DEF Block, Track, RejectStale, AttributeAndForward,
         ForwardThrows, DatabaseFails, Crash, IsTurn, InFlight
    <3>2. \E pc \in {"ignored", "ok", "threw", "crashed", "persist", "forward"} :
            ItemTo(x, pc)
      BY <2>6 DEF Block, Track, RejectStale, AttributeAndForward,
         ForwardThrows, DatabaseFails, Crash
    <3> QED BY <2>5, <3>1, <3>2
  <2>8. ASSUME NEW x \in Items, FindEvent(x) PROVE UNCHANGED <<eventRow, Answers>>
    <3>1. PICK id : item' = [item EXCEPT ![x].pc = "insert", ![x].id = id,
                                         ![x].found = (eventRow[id] # None)]
      BY <2>8 DEF FindEvent
    <3> DEFINE b == (eventRow[id] # None)
    <3> DEFINE s == [item[x] EXCEPT !.pc = "insert", !.id = id, !.found = b]
    <3>2. item' = [item EXCEPT ![x] = s] BY <2>0, <3>1
    <3> HIDE DEF b
    <3>3. s.pc # "accepted" BY <2>0 DEF ItemState
    <3> HIDE DEF s
    <3> QED BY <2>3, <2>8, <3>2, <3>3 DEF FindEvent
  <2>9. ASSUME NEW x \in Items, UpsertEvent(x) PROVE [Store!Next]_(Store!vars)
    <3> DEFINE id == item[x].id
    <3> DEFINE s(owner) == [item[x] EXCEPT !.pc = "attribute", !.owner = owner]
    <3>1. id \in RowIds /\ item[x].pc = "insert"
      BY <2>9 DEF UpsertEvent, Shape, ItemHolds
    <3>2. \E owner : item' = [item EXCEPT ![x] = s(owner)]
      BY <2>0, <2>9 DEF UpsertEvent
    <3>3. \A owner : s(owner).pc # "accepted" BY <2>0 DEF ItemState
    <3> HIDE DEF s
    <3>4. UNCHANGED Answers BY <2>3, <3>1, <3>2, <3>3
    <3>5. CASE UNCHANGED eventRow BY <3>4, <3>5 DEF Store!vars
    <3>6. CASE eventRow[id] = None /\ eventRow' = [eventRow EXCEPT ![id] = x]
      BY <3>1, <3>4, <3>6 DEF Store!Put, Store!Next
    <3> QED BY <2>9, <3>5, <3>6 DEF UpsertEvent, UniqueId, Inserted
  <2>10. ASSUME NEW x \in Items, LoseInsert(x) PROVE Store!Next
    <3> DEFINE id == item[x].id
    <3> DEFINE s == [item[x] EXCEPT !.pc = "accepted", !.owner = eventRow[id]]
    <3>1. id \in RowIds /\ item[x].pc = "insert" /\ eventRow[id] # None
      BY <2>10 DEF LoseInsert, UniqueId, Shape, ItemHolds
    <3>2. item' = [item EXCEPT ![x] = s] /\ UNCHANGED eventRow
      BY <2>0, <2>10 DEF LoseInsert, AfterLostRace
    <3>3. s.pc = "accepted" /\ s.id = id /\ s.owner = eventRow[id]
      BY <2>0 DEF ItemState
    <3> HIDE DEF s
    <3> QED BY <2>4, <3>1, <3>2, <3>3
  <2>11. ASSUME NEW x \in Items, Accept(x) PROVE Store!Next
    <3> DEFINE s == [item[x] EXCEPT !.pc = "accepted"]
    <3>1. /\ item[x].pc = "forward" /\ item[x].id \in RowIds
          /\ item[x].owner = eventRow[item[x].id] /\ item[x].owner # None
      BY <2>11 DEF Accept, Shape, ItemHolds
    <3>2. item' = [item EXCEPT ![x] = s] /\ UNCHANGED eventRow
      BY <2>11 DEF Accept, ItemTo
    <3>3. s.pc = "accepted" /\ s.id = item[x].id /\ s.owner = item[x].owner
      BY <2>0 DEF ItemState
    <3> HIDE DEF s
    <3> QED BY <2>4, <3>1, <3>2, <3>3
  <2>12. CASE UNCHANGED <<eventRow, Answers>>
    BY <2>12 DEF Store!vars
  <2>14. ASSUME NEW x \in Items, InsertUnanswered(x) PROVE Store!Next
    <3>1. item[x].pc = "insert" /\ item[x].id \in RowIds /\ ItemTo(x, "threw")
      BY <2>14 DEF InsertUnanswered, Shape, ItemHolds
    <3>2. UNCHANGED Answers BY <2>5, <3>1
    <3> QED BY <2>14, <3>1, <3>2
            DEF InsertUnanswered, UniqueId, Inserted, Store!Put, Store!Next
  <2>13. CASE \E x \in Items : ItemStep(x) \/ Crash(x)
    BY <2>6, <2>8, <2>9, <2>10, <2>11, <2>12, <2>13, <2>14 DEF ItemStep
  <2> QED
    BY <2>2, <2>13 DEF Next, vars, ingestVars, Receive
<1> QED
  BY <1>1, <1>2, ShapeCorrect, PTL DEF Spec, StoreSpec, Store!Spec

\* Nothing that ingestion forwards is lost without a trace: Forwarding's own
\* theorem, for the callers the pipeline makes.
THEOREM IngestedNothingStrands == Spec => []FP!NoSilentStrand
<1>1. /\ F!Init <=> FP!Init
      /\ [F!Next]_(F!vars) <=> [FP!Next]_(FP!vars)
  BY SameForwarding DEF F!vars, FP!vars
<1>2. ForwardingSpec => FP!Spec
  BY <1>1, PTL DEF ForwardingSpec, F!Spec, FP!Spec
<1>3. FP!Spec => []FP!NoSilentStrand
  BY ForwardingConstants, FP!NothingStrandsSilently
<1> QED
  BY <1>2, <1>3, ImplementsForwarding, PTL

-------------------------------------------------------------------------------
\* One request attributes and forwards a new id.

\* Forwarding begins only after Persist, and an item that did not find the row
\* gets that far only as the one that inserted it.
WinnerHolds ==
    \A x \in Items :
        /\ item[x].pc \in {"waiting", "persist", "insert", "attribute"}
              => caller[x].pc = "idle"
        /\ ~item[x].found /\ (item[x].pc = "attribute" \/ caller[x].pc # "idle")
              => item[x].id \in RowIds /\ eventRow[item[x].id] = x

\* Delivering neither begins nor undoes a call of enqueueForwards.
LEMMA DeliverKeepsIdle ==
  ASSUME TypeOK, F!Deliver
  PROVE  \A x \in Items : (caller'[x].pc = "idle") <=> (caller[x].pc = "idle")
<1>0. caller \in [Items -> F!CallerState]
  BY DEF TypeOK, F!TypeOK
<1>1. CASE UNCHANGED caller
  BY <1>1
<1>2. ASSUME NEW c \in Items, F!CallerStep(c),
             NEW x \in Items
      PROVE  (caller'[x].pc = "idle") <=> (caller[x].pc = "idle")
  <2>1. CASE x # c
    BY <1>0, <1>2, <2>1 DEF F!CallerStep, F!ListCredentials, F!ReadRow, F!WriteRow,
       F!LoseRow, F!FailRow, F!AddJob, F!AddJobFails, F!FinishEnqueue, F!NextPlatform
  <2>2. CASE x = c
    <3>1. caller[c].pc # "idle"
      BY <1>2 DEF F!CallerStep, F!ListCredentials, F!ReadRow, F!WriteRow, F!LoseRow,
         F!FailRow, F!AddJob, F!AddJobFails, F!FinishEnqueue
    <3> SUFFICES caller'[c].pc # "idle" BY <2>2, <3>1
    <3>2. ASSUME NEW t, caller' = [caller EXCEPT ![c] = [@ EXCEPT !.pc = "next",
                             !.todo = t]]
          PROVE  caller'[c].pc # "idle"
      BY <1>0, <3>2 DEF F!CallerState
    <3>3. ASSUME NEW t, NEW p, caller' = [caller EXCEPT ![c] = [@ EXCEPT !.pc = "next",
                             !.platform = p, !.todo = t]]
          PROVE  caller'[c].pc # "idle"
      BY <1>0, <3>3 DEF F!CallerState
    <3>4. ASSUME NEW p, NEW f, caller' = [caller EXCEPT ![c] = [@ EXCEPT !.pc = "write",
                             !.platform = p, !.found = f]]
          PROVE  caller'[c].pc # "idle"
      BY <1>0, <3>4 DEF F!CallerState
    <3>5. ASSUME NEW pc \in {"error", "add", "done"},
                 caller' = [caller EXCEPT ![c].pc = pc]
          PROVE  caller'[c].pc # "idle"
      BY <1>0, <3>5 DEF F!CallerState
    <3>6. CASE F!ListCredentials(c)
      BY <3>2, <3>5, <3>6 DEF F!ListCredentials
    <3>7. CASE \E p \in Platforms : F!ReadRow(c, p)
      BY <3>4, <3>7 DEF F!ReadRow
    <3>8. CASE F!WriteRow(c) \/ F!FailRow(c) \/ F!FinishEnqueue(c)
      BY <3>5, <3>8 DEF F!WriteRow, F!FailRow, F!FinishEnqueue
    <3>9. CASE F!LoseRow(c) \/ F!AddJob(c) \/ F!AddJobFails(c)
      BY <3>3, <3>9 DEF F!LoseRow, F!AddJob, F!AddJobFails, F!NextPlatform
    <3> QED
      BY <1>2, <3>6, <3>7, <3>8, <3>9 DEF F!CallerStep
  <2> QED BY <2>1, <2>2
<1> QED
  BY <1>1, <1>2 DEF F!Deliver, F!SetCredential, F!DeactivateCredential,
     F!WorkerStep, F!Fetch, F!Load, F!LoadFails, F!Skip, F!Send, F!Record,
     F!WriteFails, F!Complete, F!Retry, F!WorkerCrash, F!QueueStep, F!Promote,
     F!Stall

LEMMA InitWinner == Init => WinnerHolds
  BY DEF Init, WinnerHolds, WaitingItem, F!Init, F!IdleCaller

LEMMA NextWinner == Shape /\ TypeOK /\ WinnerHolds /\ [Next]_vars => WinnerHolds'
<1> SUFFICES ASSUME Shape, TypeOK, WinnerHolds, [Next]_vars PROVE WinnerHolds'
  OBVIOUS
<1>0. item \in [Items -> ItemState] /\ eventRow \in [RowIds -> Items \cup {None}]
      /\ caller \in [Items -> F!CallerState]
  BY DEF TypeOK, F!TypeOK
<1>1. CASE UNCHANGED vars
  BY <1>1 DEF vars, ingestVars, forwardVars, WinnerHolds
<1>2. CASE F!Deliver /\ UNCHANGED ingestVars
  BY <1>2, DeliverKeepsIdle DEF ingestVars, WinnerHolds
<1>3. CASE \E r \in Requests : Receive(r)
  BY <1>3 DEF Receive, forwardVars, WinnerHolds
<1>4. ASSUME NEW x \in Items, NEW s, item' = [item EXCEPT ![x] = s],
             UNCHANGED <<eventRow, caller>>,
             s.pc \in {"persist", "insert"} => caller[x].pc = "idle",
             s.pc \notin {"waiting", "attribute"},
             caller[x].pc # "idle" => s.found = item[x].found /\ s.id = item[x].id
      PROVE  WinnerHolds'
  BY <1>0, <1>4 DEF WinnerHolds
<1>5. ASSUME NEW x \in Items, NEW pc \in {"ignored", "ok", "accepted", "threw",
                                          "crashed", "persist"},
             ItemTo(x, pc), UNCHANGED <<eventRow, caller>>,
             pc = "persist" => item[x].pc = "waiting"
      PROVE  WinnerHolds'
  <2> DEFINE s == [item[x] EXCEPT !.pc = pc]
  <2>1. item' = [item EXCEPT ![x] = s] BY <1>5 DEF ItemTo
  <2>2. s.pc = pc /\ s.found = item[x].found /\ s.id = item[x].id
    BY <1>0 DEF ItemState
  <2>3. pc = "persist" => caller[x].pc = "idle" BY <1>5 DEF WinnerHolds
  <2> HIDE DEF s
  <2> QED BY <1>4, <1>5, <2>1, <2>2, <2>3
<1>6. ASSUME NEW x \in Items, Block(x) \/ Track(x) \/ RejectStale(x)
             \/ Accept(x) \/ ForwardThrows(x) \/ DatabaseFails(x)
      PROVE  WinnerHolds'
  <2>1. UNCHANGED <<eventRow, caller>>
    BY <1>6 DEF Block, Track, RejectStale, Accept, ForwardThrows,
       DatabaseFails, forwardVars
  <2>2. \E pc \in {"ignored", "ok", "accepted", "threw", "persist"} :
          ItemTo(x, pc) /\ (pc = "persist" => item[x].pc = "waiting")
    <3>1. CASE Track(x)
      <4>1. ItemTo(x, "ok") \/ ItemTo(x, "persist") BY <3>1 DEF Track
      <4>2. item[x].pc = "waiting" BY <3>1 DEF Track, IsTurn
      <4> QED BY <4>1, <4>2
    <3> QED
      BY <1>6, <3>1 DEF Block, RejectStale, Accept, ForwardThrows, DatabaseFails
  <2> QED BY <1>5, <2>1, <2>2
<1>8. ASSUME NEW x \in Items, FindEvent(x) PROVE WinnerHolds'
  <2>1. PICK id : item' = [item EXCEPT ![x].pc = "insert", ![x].id = id,
                                       ![x].found = (eventRow[id] # None)]
    BY <1>8 DEF FindEvent
  <2> DEFINE b == (eventRow[id] # None)
  <2> DEFINE s == [item[x] EXCEPT !.pc = "insert", !.id = id, !.found = b]
  <2>2. item' = [item EXCEPT ![x] = s] BY <1>0, <2>1
  <2> HIDE DEF b
  <2>3. s.pc = "insert" BY <1>0 DEF ItemState
  <2>4. caller[x].pc = "idle" BY <1>8 DEF FindEvent, WinnerHolds
  <2> HIDE DEF s
  <2> QED BY <1>4, <1>8, <2>2, <2>3, <2>4 DEF FindEvent, forwardVars
<1>9. ASSUME NEW x \in Items, UpsertEvent(x) PROVE WinnerHolds'
  <2> DEFINE id == item[x].id
  <2> DEFINE s(owner) == [item[x] EXCEPT !.pc = "attribute", !.owner = owner]
  <2>1. id \in RowIds /\ caller[x].pc = "idle" /\ UNCHANGED caller
    BY <1>9 DEF UpsertEvent, Shape, ItemHolds, WinnerHolds, forwardVars
  <2>2. PICK owner : item' = [item EXCEPT ![x] = s(owner)]
    BY <1>0, <1>9 DEF UpsertEvent
  <2>3. /\ s(owner).pc = "attribute" /\ s(owner).id = id
        /\ s(owner).found = item[x].found
    BY <1>0 DEF ItemState
  <2> HIDE DEF s
  <2>4. \A i \in RowIds : eventRow[i] # None => eventRow'[i] = eventRow[i]
    BY <1>0, <1>9, <2>1 DEF UpsertEvent, UniqueId, Inserted
  <2>5. ~item[x].found => eventRow'[id] = x
    BY <1>0, <1>9, <2>1 DEF UpsertEvent, Inserted
  <2>6. \A y \in Items : y # None OBVIOUS
  <2> QED BY <1>0, <2>1, <2>2, <2>3, <2>4, <2>5, <2>6 DEF WinnerHolds
<1>10. ASSUME NEW x \in Items, LoseInsert(x) PROVE WinnerHolds'
  <2> DEFINE id == item[x].id
  <2> DEFINE s == [item[x] EXCEPT !.pc = "accepted", !.owner = eventRow[id]]
  <2>1. item' = [item EXCEPT ![x] = s]
    BY <1>0, <1>10 DEF LoseInsert, AfterLostRace
  <2>2. s.pc = "accepted" BY <1>0 DEF ItemState
  <2>3. caller[x].pc = "idle" BY <1>10 DEF LoseInsert, WinnerHolds
  <2> HIDE DEF s
  <2> QED BY <1>4, <1>10, <2>1, <2>2, <2>3 DEF LoseInsert, forwardVars
<1>11. ASSUME NEW x \in Items, AttributeAndForward(x) PROVE WinnerHolds'
  <2>1. item'[x].pc = "forward" /\ item'[x].found = item[x].found
        /\ item'[x].id = item[x].id
    BY <1>0, <1>11 DEF AttributeAndForward, ItemTo, ItemState
  <2>2. \A y \in Items \ {x} : item'[y] = item[y] /\ caller'[y] = caller[y]
    BY <1>0, <1>11 DEF AttributeAndForward, ItemTo, F!StartEnqueue
  <2>3. UNCHANGED eventRow BY <1>11 DEF AttributeAndForward
  <2>4. ~item[x].found => item[x].id \in RowIds /\ eventRow[item[x].id] = x
    BY <1>11 DEF AttributeAndForward, WinnerHolds
  <2> QED BY <2>1, <2>2, <2>3, <2>4 DEF WinnerHolds
<1>12. ASSUME NEW x \in Items, Crash(x) PROVE WinnerHolds'
  <2>1. item'[x].pc = "crashed" /\ item'[x].found = item[x].found
        /\ item'[x].id = item[x].id
    BY <1>0, <1>12 DEF Crash, ItemTo, ItemState
  <2>2. \A y \in Items \ {x} : item'[y] = item[y] /\ caller'[y] = caller[y]
    BY <1>0, <1>12 DEF Crash, ItemTo, F!CallerCrash, forwardVars
  <2>3. UNCHANGED eventRow BY <1>12 DEF Crash
  <2>4. caller[x].pc = "idle" => UNCHANGED caller
    BY <1>12 DEF Crash, F!CallerCrash, forwardVars
  <2> QED BY <2>1, <2>2, <2>3, <2>4 DEF WinnerHolds
<1>13. ASSUME NEW x \in Items, InsertUnanswered(x) PROVE WinnerHolds'
  <2>1. item'[x].pc = "threw" /\ item'[x].found = item[x].found
        /\ item'[x].id = item[x].id /\ item[x].pc = "insert"
    BY <1>0, <1>13 DEF InsertUnanswered, ItemTo, ItemState
  <2>2. \A y \in Items \ {x} : item'[y] = item[y]
    BY <1>0, <1>13 DEF InsertUnanswered, ItemTo
  <2>3. caller[x].pc = "idle" /\ UNCHANGED caller
    BY <1>13 DEF InsertUnanswered, WinnerHolds, forwardVars
  <2>4. \A i \in RowIds : eventRow[i] # None => eventRow'[i] = eventRow[i]
    BY <1>0, <1>13 DEF InsertUnanswered, UniqueId, Inserted
  <2>5. \A y \in Items : y # None OBVIOUS
  <2> QED BY <2>1, <2>2, <2>3, <2>4, <2>5 DEF WinnerHolds
<1> QED
  BY <1>1, <1>2, <1>3, <1>6, <1>8, <1>9, <1>10, <1>11, <1>12, <1>13
     DEF Next, ItemStep

\* Of any number of requests that race on a new id, at most one goes on to
\* attribute and forward it.
THEOREM OnlyTheWinnerForwards == Spec => []OneFirstPass
<1>1. WinnerHolds => OneFirstPass
  BY DEF WinnerHolds, OneFirstPass, FirstPass
<1> QED
  BY <1>1, InitWinner, NextWinner, ShapeCorrect, TypeCorrect, PTL DEF Spec

-------------------------------------------------------------------------------
\* What the steps of an item do, for the invariants below.

\* An item goes through the stages in their order, and keeps its id from the
\* read of the row on.
LEMMA ItemSteps ==
  ASSUME Shape, NEW x \in Items, ItemStep(x) \/ Crash(x)
  PROVE  /\ UNCHANGED batch
         /\ \A y \in Items \ {x} : item'[y] = item[y]
         /\ \/ /\ item[x].pc = "waiting" /\ IsTurn(x)
               /\ item'[x].pc \in {"ignored", "ok", "persist", "threw"}
            \/ item[x].pc = "persist" /\ item'[x].pc \in {"insert", "threw", "crashed"}
            \/ /\ item[x].pc = "insert"
               /\ item'[x].pc \in {"attribute", "accepted", "threw", "crashed"}
            \/ item[x].pc = "attribute" /\ item'[x].pc \in {"forward", "crashed"}
            \/ item[x].pc = "forward" /\ item'[x].pc \in {"accepted", "threw", "crashed"}
         /\ item'[x].pc = "persist" => ~DtoOf(x).heartbeat
         /\ item'[x].pc = "insert" => ~DtoOf(x).stale
         /\ item[x].pc # "persist" => item'[x].id = item[x].id
         /\ item[x].pc # "insert" => item'[x].owner = item[x].owner
<1>0. item \in [Items -> ItemState] /\ item[x] \in ItemState
  BY DEF Shape, ItemTypes
<1>1. ASSUME NEW pc, ItemTo(x, pc)
      PROVE  /\ \A y \in Items \ {x} : item'[y] = item[y]
             /\ item'[x].pc = pc /\ item'[x].id = item[x].id
             /\ item'[x].owner = item[x].owner
  BY <1>0, <1>1 DEF ItemTo, ItemState
<1>2. CASE Block(x) \/ RejectStale(x) \/ AttributeAndForward(x) \/ Accept(x)
           \/ ForwardThrows(x) \/ DatabaseFails(x) \/ InsertUnanswered(x)
  BY <1>1, <1>2 DEF Block, RejectStale, AttributeAndForward, Accept,
     ForwardThrows, DatabaseFails, InsertUnanswered, IsTurn
<1>3. CASE Track(x)
  <2>1. CASE DtoOf(x).heartbeat
    BY <1>1, <1>3, <2>1 DEF Track, IsTurn
  <2>2. CASE ~DtoOf(x).heartbeat
    BY <1>1, <1>3, <2>2 DEF Track, IsTurn
  <2> QED BY <2>1, <2>2
<1>4. CASE Crash(x)
  BY <1>1, <1>4 DEF Crash, InFlight
<1>5. CASE FindEvent(x)
  <2>1. PICK id : item' = [item EXCEPT ![x].pc = "insert", ![x].id = id,
                                       ![x].found = (eventRow[id] # None)]
    BY <1>5 DEF FindEvent
  <2> DEFINE b == (eventRow[id] # None)
  <2> DEFINE s == [item[x] EXCEPT !.pc = "insert", !.id = id, !.found = b]
  <2>2. item' = [item EXCEPT ![x] = s] BY <1>0, <2>1
  <2> HIDE DEF b
  <2>3. s.pc = "insert" /\ s.owner = item[x].owner BY <1>0 DEF ItemState
  <2> HIDE DEF s
  <2> QED BY <1>0, <1>5, <2>2, <2>3 DEF FindEvent
<1>6. CASE UpsertEvent(x) \/ LoseInsert(x)
  <2> DEFINE s(pc, owner) == [item[x] EXCEPT !.pc = pc, !.owner = owner]
  <2>1. \E owner : \/ item' = [item EXCEPT ![x] = s("attribute", owner)]
                    \/ item' = [item EXCEPT ![x] = s("accepted", owner)]
    <3>1. CASE UpsertEvent(x) BY <1>0, <3>1 DEF UpsertEvent
    <3>2. CASE LoseInsert(x) BY <1>0, <3>2 DEF LoseInsert, AfterLostRace
    <3> QED BY <1>6, <3>1, <3>2
  <2>2. \A owner, pc : s(pc, owner).pc = pc /\ s(pc, owner).id = item[x].id
    BY <1>0 DEF ItemState
  <2> HIDE DEF s
  <2> QED BY <1>0, <1>6, <2>1, <2>2 DEF UpsertEvent, LoseInsert
<1> QED BY <1>2, <1>3, <1>4, <1>5, <1>6 DEF ItemStep

\* Rows are only ever inserted, by the item whose insert it is.
LEMMA RowSteps ==
  ASSUME Shape, NEW x \in Items, ItemStep(x) \/ Crash(x), NEW id \in RowIds
  PROVE  /\ eventRow[id] # None => eventRow'[id] = eventRow[id]
         /\ eventRow'[id] # None =>
               \/ eventRow'[id] = eventRow[id]
               \/ /\ eventRow'[id] = x /\ item[x].pc = "insert" /\ item[x].id = id
                  /\ item'[x].pc \in {"attribute", "threw"}
<1>0. /\ item \in [Items -> ItemState] /\ eventRow \in [RowIds -> Items \cup {None}]
  BY DEF Shape, ItemTypes
<1>1. CASE UNCHANGED eventRow BY <1>1
<1>2. ASSUME item[x].pc = "insert", UniqueId(item[x].id),
             eventRow' = Inserted(item[x].id, x), item'[x].pc \in {"attribute", "threw"}
      PROVE  /\ eventRow[id] # None => eventRow'[id] = eventRow[id]
             /\ eventRow'[id] # None =>
                   \/ eventRow'[id] = eventRow[id]
                   \/ /\ eventRow'[id] = x /\ item[x].pc = "insert" /\ item[x].id = id
                      /\ item'[x].pc \in {"attribute", "threw"}
  BY <1>0, <1>2 DEF UniqueId, Inserted
<1>3. CASE UpsertEvent(x)
  <2>1. item[x].pc = "insert" BY <1>3 DEF UpsertEvent
  <2>2. item'[x].pc = "attribute"
    <3> DEFINE s(owner) == [item[x] EXCEPT !.pc = "attribute", !.owner = owner]
    <3>1. \E owner : item' = [item EXCEPT ![x] = s(owner)]
      BY <1>0, <1>3 DEF UpsertEvent
    <3>2. \A owner : s(owner).pc = "attribute" BY <1>0 DEF ItemState
    <3> HIDE DEF s
    <3> QED BY <1>0, <3>1, <3>2
  <2> QED BY <1>1, <1>2, <1>3, <2>1, <2>2 DEF UpsertEvent
<1>4. CASE InsertUnanswered(x)
  <2>1. item'[x].pc = "threw" BY <1>0, <1>4 DEF InsertUnanswered, ItemTo, ItemState
  <2> QED BY <1>2, <1>4, <2>1 DEF InsertUnanswered
<1> QED
  BY <1>1, <1>3, <1>4 DEF ItemStep, Block, Track, RejectStale, FindEvent,
     LoseInsert, AttributeAndForward, Accept, ForwardThrows, DatabaseFails, Crash

\* An item begins its own call of enqueueForwards, once, for its own id.
LEMMA CallSteps ==
  ASSUME Shape, TypeOK, WinnerHolds, NEW x \in Items, ItemStep(x) \/ Crash(x)
  PROVE  /\ \A y \in Items \ {x} : caller'[y] = caller[y]
         /\ caller[x].pc = "idle" =>
               \/ caller'[x].pc = "idle"
               \/ /\ item[x].pc = "attribute" /\ item'[x].pc = "forward"
                  /\ caller'[x].pc = "list" /\ caller'[x].event = item[x].id
         /\ caller[x].pc # "idle" => /\ caller'[x].pc # "idle"
                                     /\ caller'[x].event = caller[x].event
                                     /\ (caller[x].pc = "done" <=> caller'[x].pc = "done")
<1>0. item \in [Items -> ItemState] /\ caller \in [Items -> F!CallerState]
  BY DEF TypeOK, F!TypeOK
<1>1. CASE UNCHANGED caller BY <1>1
<1>2. CASE AttributeAndForward(x)
  <2>1. /\ item[x].pc = "attribute" /\ item'[x].pc = "forward"
        /\ F!StartEnqueue(x, item[x].id)
    BY <1>0, <1>2 DEF AttributeAndForward, ItemTo, ItemState
  <2>2. caller[x].pc = "idle" BY <2>1 DEF F!StartEnqueue
  <2>3. /\ caller'[x].pc = "list" /\ caller'[x].event = item[x].id
        /\ \A y \in Items \ {x} : caller'[y] = caller[y]
    BY <1>0, <2>1 DEF F!StartEnqueue, F!CallerState
  <2> QED BY <2>1, <2>2, <2>3
<1>3. CASE F!CallerCrash(x)
  BY <1>0, <1>3 DEF F!CallerCrash, F!CallerState
<1> QED
  BY <1>1, <1>2, <1>3 DEF ItemStep, Block, Track, RejectStale, FindEvent, UpsertEvent,
     LoseInsert, Accept, ForwardThrows, DatabaseFails, InsertUnanswered, Crash,
     forwardVars

\* What the calls leave behind, as Forwarding's own theorems have it.
Forwarded == FP!Shape /\ FP!OnlyCalled /\ FP!CallsLeaveRows

LEMMA ForwardedCorrect == Spec => []Forwarded
<1>1. /\ F!Init <=> FP!Init
      /\ [F!Next]_(F!vars) <=> [FP!Next]_(FP!vars)
  BY SameForwarding DEF F!vars, FP!vars
<1>2. ForwardingSpec => FP!Spec
  BY <1>1, PTL DEF ForwardingSpec, F!Spec, FP!Spec
<1>3. FP!Spec => []FP!Shape
  BY ForwardingConstants, FP!ShapeCorrect
<1>4. FP!Spec => []FP!OnlyCalled
  BY ForwardingConstants, FP!CalledCorrect
<1>5. FP!Spec => []FP!CallsLeaveRows
  BY ForwardingConstants, FP!CallsLeaveTheirRows
<1> QED
  BY <1>2, <1>3, <1>4, <1>5, ImplementsForwarding, PTL DEF Forwarded

\* Delivering keeps every call's event, and neither begins nor undoes a call.
LEMMA DeliverKeepsCalls ==
  ASSUME TypeOK, Forwarded, F!Deliver, NEW x \in Items
  PROVE  /\ (caller'[x].pc = "idle") <=> (caller[x].pc = "idle")
         /\ caller[x].pc # "idle" => caller'[x].event = caller[x].event
         /\ caller[x].pc = "done" => caller'[x].pc = "done"
<1>1. FP!Next BY SameForwarding DEF F!Next
<1>2. FP!Shape /\ FP!ForwardingAssumption BY ForwardingConstants DEF Forwarded
<1>3. caller[x].pc # "idle" => caller'[x].pc # "idle" /\ caller'[x].event = caller[x].event
  BY <1>1, <1>2, FP!CalledStays
<1>4. caller[x].pc = "done" => caller'[x] = caller[x]
  BY <1>1, <1>2, FP!CallsEnd
<1> QED BY <1>3, <1>4, DeliverKeepsIdle

-------------------------------------------------------------------------------
\* Nothing is forwarded or attributed for an id without a row.

\* A call of enqueueForwards is for the id of its item, whose row is there.
CallsMatch ==
    /\ \A x \in Items : caller[x].pc # "idle" =>
          /\ item[x].id \in RowIds
          /\ caller[x].event = item[x].id
          /\ eventRow[item[x].id] # None
    /\ \A id \in RowIds : touches[id] > 0 => eventRow[id] # None

LEMMA InitMatch == Init => CallsMatch
  BY DEF Init, CallsMatch, F!Init, F!IdleCaller

LEMMA NextMatch ==
  ASSUME Shape, TypeOK, WinnerHolds, Forwarded, CallsMatch, [Next]_vars
  PROVE  CallsMatch'
<1>0. touches \in [RowIds -> Nat] BY DEF TypeOK
<1>1. CASE UNCHANGED vars
  BY <1>1 DEF vars, ingestVars, forwardVars, CallsMatch
<1>2. CASE \E r \in Requests : Receive(r)
  BY <1>2 DEF Receive, forwardVars, CallsMatch
<1>3. CASE F!Deliver /\ UNCHANGED ingestVars
  BY <1>3, DeliverKeepsCalls DEF ingestVars, CallsMatch
<1>4. ASSUME NEW x \in Items, ItemStep(x) \/ Crash(x) PROVE CallsMatch'
  <2>1. \A id \in RowIds : eventRow[id] # None => eventRow'[id] # None
    BY <1>4, RowSteps
  <2>2. ASSUME NEW y \in Items, caller'[y].pc # "idle"
        PROVE  /\ item'[y].id \in RowIds
               /\ caller'[y].event = item'[y].id
               /\ eventRow'[item'[y].id] # None
    <3>1. CASE y # x
      <4>1. item'[y] = item[y] /\ caller'[y] = caller[y]
        BY <1>4, <3>1, ItemSteps, CallSteps
      <4> QED BY <2>1, <2>2, <4>1 DEF CallsMatch
    <3>2. CASE y = x /\ caller[x].pc # "idle"
      <4>1. item[x].pc # "persist" BY <3>2 DEF WinnerHolds
      <4>2. item'[x].id = item[x].id /\ caller'[x].event = caller[x].event
        BY <1>4, <3>2, <4>1, ItemSteps, CallSteps
      <4> QED BY <2>1, <3>2, <4>2 DEF CallsMatch
    <3>3. CASE y = x /\ caller[x].pc = "idle"
      <4>1. item[x].pc = "attribute" /\ caller'[x].event = item[x].id
        BY <1>4, <2>2, <3>3, CallSteps
      <4>2. item'[x].id = item[x].id BY <1>4, <4>1, ItemSteps
      <4>3. item[x].id \in RowIds /\ eventRow[item[x].id] # None
        BY <4>1 DEF Shape, ItemHolds
      <4> QED BY <2>1, <3>3, <4>1, <4>2, <4>3
    <3> QED BY <3>1, <3>2, <3>3
  <2>3. ASSUME NEW id \in RowIds, touches'[id] > 0 PROVE eventRow'[id] # None
    <3>1. CASE touches'[id] = touches[id]
      BY <2>1, <2>3, <3>1 DEF CallsMatch
    <3>2. CASE AttributeAndForward(x) /\ touches'[id] # touches[id]
      <4>1. item[x].pc = "attribute" /\ id = item[x].id
        BY <1>0, <3>2 DEF AttributeAndForward
      <4>2. eventRow[id] # None BY <4>1 DEF Shape, ItemHolds
      <4> QED BY <2>1, <4>2
    <3>3. AttributeAndForward(x) \/ UNCHANGED touches
      BY <1>4 DEF ItemStep, Block, Track, RejectStale, FindEvent, UpsertEvent,
         LoseInsert, Accept, ForwardThrows, DatabaseFails, InsertUnanswered, Crash
    <3> QED BY <3>1, <3>2, <3>3
  <2> QED BY <2>2, <2>3 DEF CallsMatch
<1> QED BY <1>1, <1>2, <1>3, <1>4 DEF Next

LEMMA WinnerCorrect == Spec => []WinnerHolds
  BY InitWinner, NextWinner, ShapeCorrect, TypeCorrect, PTL DEF Spec

LEMMA MatchCorrect == Spec => []CallsMatch
  BY InitMatch, NextMatch, ShapeCorrect, TypeCorrect, WinnerCorrect,
     ForwardedCorrect, PTL DEF Spec

\* Nothing is forwarded, queued or attributed for an id that has no row in the
\* Event table, for any number of requests, losers of races, crashes and retries.
THEOREM ForwardsAreStored == Spec => []ForwardedIsStored
<1>1. TypeOK /\ Forwarded /\ CallsMatch => ForwardedIsStored
  <2> SUFFICES ASSUME TypeOK, Forwarded, CallsMatch,
                      NEW id \in RowIds, eventRow[id] = None
               PROVE  /\ touches[id] = 0
                      /\ \A p \in Platforms : forward[<<id, p>>].status = "none"
                      /\ \A j \in Jobs : job[j].key[1] # id
    BY DEF ForwardedIsStored
  <2>1. touches[id] = 0 BY DEF TypeOK, CallsMatch
  <2>2. ~FP!Called(id) BY DEF FP!Called, CallsMatch
  <2>3. ASSUME NEW p \in Platforms PROVE forward[<<id, p>>].status = "none"
    <3>1. <<id, p>> \in FP!Keys BY DEF FP!Keys
    <3>2. <<id, p>>[1] = id OBVIOUS
    <3> QED BY <2>2, <3>1, <3>2 DEF Forwarded, FP!OnlyCalled
  <2>4. ASSUME NEW j \in Jobs PROVE job[j].key[1] # id
    <3>1. CASE job[j].key = <<None, None>>
      <4>1. id # None BY DEF RowIds
      <4> QED BY <3>1, <4>1
    <3>2. CASE FP!Called(job[j].key[1])
      BY <2>2, <3>2
    <3> QED BY <3>1, <3>2 DEF Forwarded, FP!OnlyCalled
  <2> QED BY <2>1, <2>3, <2>4
<1> QED BY <1>1, TypeCorrect, ForwardedCorrect, MatchCorrect, PTL

-------------------------------------------------------------------------------
\* A batch is stored in its order.

\* An item that has begun had the items before it answered; what it may not
\* carry once it is past a stage, and what the item behind a row did not carry.
BatchOrder ==
    /\ \A x \in Items :
          /\ item[x].pc # "waiting" =>
                \A i \in 1..(x[2] - 1) : item[<<x[1], i>>].pc \in Answered
          /\ item[x].pc \in InFlight => ~DtoOf(x).heartbeat
          /\ item[x].pc \in {"insert", "attribute", "forward"} => ~DtoOf(x).stale
    /\ \A id \in RowIds : eventRow[id] # None =>
          /\ item[eventRow[id]].pc # "waiting"
          /\ ~DtoOf(eventRow[id]).heartbeat
          /\ ~DtoOf(eventRow[id]).stale

\* The items before an item in its batch.
LEMMA Earlier ==
  ASSUME NEW x \in Items, NEW i \in 1..(x[2] - 1)
  PROVE  <<x[1], i>> \in Items
  BY DEF Items

LEMMA InitOrder == Init => BatchOrder
  BY DEF Init, BatchOrder, WaitingItem, InFlight

LEMMA NextOrder ==
  ASSUME Shape, BatchOrder, [Next]_vars
  PROVE  BatchOrder'
<1>0. /\ eventRow \in [RowIds -> Items \cup {None}] /\ item \in [Items -> ItemState]
      /\ batch \in [Requests -> Batches \cup {<<>>}]
  BY DEF Shape, ItemTypes
<1>1. CASE UNCHANGED ingestVars
  BY <1>1 DEF ingestVars, BatchOrder, DtoOf
<1>2. ASSUME NEW r \in Requests, Receive(r) PROVE BatchOrder'
  <2>1. ASSUME NEW x \in Items, item[x].pc # "waiting"
        PROVE  batch'[x[1]] = batch[x[1]]
    <3>1. x[1] \in Requests /\ x[2] \in Nat \ {0} BY DEF Items
    <3>2. x[2] <= Len(batch[x[1]]) BY <2>1 DEF Shape, ItemHolds
    <3>3. Len(<<>>) = 0 OBVIOUS
    <3>4. x[1] # r BY <1>2, <3>1, <3>2, <3>3 DEF Receive
    <3> QED BY <1>0, <1>2, <3>1, <3>4 DEF Receive
  <2>2. ASSUME NEW x \in Items, item[x].pc # "waiting" PROVE DtoOf(x)' = DtoOf(x)
    BY <2>1, <2>2 DEF DtoOf
  <2>3. UNCHANGED <<item, eventRow>> BY <1>2 DEF Receive
  <2>4. InFlight \subseteq {"persist", "insert", "attribute", "forward"} BY DEF InFlight
  <2>5. \A id \in RowIds : eventRow[id] # None => eventRow[id] \in Items BY <1>0
  <2>6. ASSUME NEW x \in Items
        PROVE  (/\ item[x].pc # "waiting" =>
                      \A i \in 1..(x[2] - 1) : item[<<x[1], i>>].pc \in Answered
                /\ item[x].pc \in InFlight => ~DtoOf(x).heartbeat
                /\ item[x].pc \in {"insert", "attribute", "forward"} => ~DtoOf(x).stale)'
    BY <2>2, <2>3, <2>4 DEF BatchOrder
  <2>7. ASSUME NEW id \in RowIds, eventRow'[id] # None
        PROVE  (/\ item[eventRow[id]].pc # "waiting"
                /\ ~DtoOf(eventRow[id]).heartbeat
                /\ ~DtoOf(eventRow[id]).stale)'
    <3>1. PICK y \in Items : y = eventRow[id] BY <2>3, <2>5, <2>7
    <3>2. item[y].pc # "waiting" /\ ~DtoOf(y).heartbeat /\ ~DtoOf(y).stale
      BY <2>3, <2>7, <3>1 DEF BatchOrder
    <3>3. eventRow'[id] = y /\ item'[y] = item[y] BY <2>3, <3>1
    <3>4. (DtoOf(y))' = DtoOf(y) BY <2>2, <3>2
    <3> QED BY <3>2, <3>3, <3>4 DEF DtoOf
  <2> QED BY <2>6, <2>7 DEF BatchOrder
<1>3. ASSUME NEW x \in Items, ItemStep(x) \/ Crash(x) PROVE BatchOrder'
  <2>1. UNCHANGED batch /\ \A y \in Items \ {x} : item'[y] = item[y]
    BY <1>3, ItemSteps
  <2>2. \A y \in Items : item[y].pc \in Answered => item'[y].pc \in Answered
    BY <1>3, <2>1, ItemSteps DEF Answered
  <2>3. item'[x].pc # "waiting" BY <1>3, ItemSteps
  <2>4. \A y \in Items : DtoOf(y)' = DtoOf(y) BY <2>1 DEF DtoOf
  <2>5. ASSUME NEW y \in Items, item'[y].pc # "waiting", NEW i \in 1..(y[2] - 1)
        PROVE  item'[<<y[1], i>>].pc \in Answered
    <3>1. <<y[1], i>> \in Items BY Earlier
    <3>2. item[<<y[1], i>>].pc \in Answered
      <4>1. CASE item[y].pc # "waiting" BY <4>1 DEF BatchOrder
      <4>2. CASE y = x /\ IsTurn(x) BY <4>2 DEF IsTurn
      <4> QED BY <1>3, <2>1, <2>5, <4>1, <4>2, ItemSteps
    <3> QED BY <2>2, <3>1, <3>2
  <2>6. ASSUME NEW y \in Items, item'[y].pc \in InFlight PROVE ~DtoOf(y).heartbeat
    <3>1. CASE y # x BY <2>1, <2>6, <3>1 DEF BatchOrder
    <3>2. CASE item'[x].pc = "persist" /\ y = x BY <1>3, <3>2, ItemSteps
    <3>3. CASE item'[x].pc # "persist" /\ y = x
      <4>1. item[x].pc \in InFlight BY <1>3, <2>6, <3>3, ItemSteps DEF InFlight
      <4> QED BY <3>3, <4>1 DEF BatchOrder
    <3> QED BY <3>1, <3>2, <3>3
  <2>7. ASSUME NEW y \in Items, item'[y].pc \in {"insert", "attribute", "forward"}
        PROVE  ~DtoOf(y).stale
    <3>1. CASE y # x BY <2>1, <2>7, <3>1 DEF BatchOrder
    <3>2. CASE item'[x].pc = "insert" /\ y = x BY <1>3, <3>2, ItemSteps
    <3>3. CASE item'[x].pc # "insert" /\ y = x
      <4>1. item[x].pc \in {"insert", "attribute"} BY <1>3, <2>7, <3>3, ItemSteps
      <4> QED BY <3>3, <4>1 DEF BatchOrder
    <3> QED BY <3>1, <3>2, <3>3
  <2>8. ASSUME NEW id \in RowIds, eventRow'[id] # None
        PROVE  (/\ item[eventRow[id]].pc # "waiting"
                /\ ~DtoOf(eventRow[id]).heartbeat
                /\ ~DtoOf(eventRow[id]).stale)'
    <3>1. CASE eventRow'[id] = eventRow[id]
      <4>1. PICK y \in Items : y = eventRow[id] BY <1>0, <2>8, <3>1
      <4>2. item[y].pc # "waiting" /\ ~DtoOf(y).heartbeat /\ ~DtoOf(y).stale
        BY <2>8, <3>1, <4>1 DEF BatchOrder
      <4>3. eventRow'[id] = y /\ item'[y].pc # "waiting" BY <2>1, <2>3, <3>1, <4>1, <4>2
      <4> QED BY <2>1, <4>2, <4>3 DEF DtoOf
    <3>2. CASE eventRow'[id] = x /\ item[x].pc = "insert"
      <4>1. ~DtoOf(x).heartbeat /\ ~DtoOf(x).stale BY <3>2 DEF BatchOrder, InFlight
      <4> QED BY <2>1, <2>3, <3>2, <4>1 DEF DtoOf
    <3> QED BY <1>3, <2>8, <3>1, <3>2, RowSteps
  <2>9. ASSUME NEW y \in Items
        PROVE  (/\ item[y].pc # "waiting" =>
                      \A i \in 1..(y[2] - 1) : item[<<y[1], i>>].pc \in Answered
                /\ item[y].pc \in InFlight => ~DtoOf(y).heartbeat
                /\ item[y].pc \in {"insert", "attribute", "forward"} => ~DtoOf(y).stale)'
    BY <2>4, <2>5, <2>6, <2>7
  <2> QED BY <2>8, <2>9 DEF BatchOrder
<1> QED BY <1>1, <1>2, <1>3 DEF Next, vars

LEMMA OrderCorrect == Spec => []BatchOrder
  BY InitOrder, NextOrder, ShapeCorrect, PTL DEF Spec

\* Of any batch, a stored DTO is neither a heartbeat nor stale, and every DTO
\* before it was answered, whichever of them fails and whoever crashes.
THEOREM BatchesAreStoredInOrder == Spec => []StoredInBatchOrder
<1>1. Shape /\ BatchOrder => StoredInBatchOrder
  BY DEF Shape, ItemTypes, BatchOrder, StoredInBatchOrder, Answered
<1> QED BY <1>1, ShapeCorrect, OrderCorrect, PTL

-------------------------------------------------------------------------------
\* An accepted event is forwarded.

\* The item that inserted a row goes on to forward it, unless it fails; it is
\* accepted only when its call of enqueueForwards is done.
OwnersForward ==
    \A id \in RowIds : \A y \in Items : eventRow[id] = y =>
        /\ item[y].id = id
        /\ item[y].pc \in {"attribute", "forward", "accepted", "threw", "crashed"}
        /\ item[y].pc = "accepted" => caller[y].pc = "done"

\* An item is accepted after its call, or as the loser of the P2002 race.
AcceptedHow ==
    \A x \in Items : item[x].pc = "accepted" =>
        /\ item[x].id \in RowIds
        /\ \/ caller[x].pc = "done"
           \/ /\ caller[x].pc = "idle"
              /\ item[x].owner = eventRow[item[x].id]
              /\ item[x].owner \in Items

LEMMA InitAnswering == Init => OwnersForward /\ AcceptedHow
  BY DEF Init, OwnersForward, AcceptedHow, WaitingItem

LEMMA NextOwners ==
  ASSUME Shape, TypeOK, WinnerHolds, Forwarded, OwnersForward, [Next]_vars
  PROVE  OwnersForward'
<1>0. eventRow \in [RowIds -> Items \cup {None}] /\ item \in [Items -> ItemState]
  BY DEF TypeOK
<1>1. CASE UNCHANGED vars
  BY <1>1 DEF vars, ingestVars, forwardVars, OwnersForward
<1>2. CASE \E r \in Requests : Receive(r)
  BY <1>2 DEF Receive, forwardVars, OwnersForward
<1>3. CASE F!Deliver /\ UNCHANGED ingestVars
  BY <1>3, DeliverKeepsCalls DEF ingestVars, OwnersForward
<1>4. ASSUME NEW x \in Items, ItemStep(x) \/ Crash(x), NEW id \in RowIds, NEW y \in Items,
             eventRow'[id] = y
      PROVE  /\ item'[y].id = id
             /\ item'[y].pc \in {"attribute", "forward", "accepted", "threw", "crashed"}
             /\ item'[y].pc = "accepted" => caller'[y].pc = "done"
  <2>0. y # None OBVIOUS
  <2>1. CASE eventRow[id] = y /\ y # x
    <3>1. item'[y] = item[y] /\ caller'[y] = caller[y]
      BY <1>4, <2>1, ItemSteps, CallSteps
    <3> QED BY <2>1, <3>1 DEF OwnersForward
  <2>2. CASE eventRow[id] = y /\ y = x
    <3>1. /\ item[x].id = id
          /\ item[x].pc \in {"attribute", "forward", "accepted", "threw", "crashed"}
      BY <2>2 DEF OwnersForward
    <3>2. /\ item[x].pc \in {"attribute", "forward"} /\ item'[x].id = id
          /\ item'[x].pc \in {"forward", "accepted", "threw", "crashed"}
          /\ item'[x].pc = "accepted" => item[x].pc = "forward"
      BY <1>4, <3>1, ItemSteps
    <3>3. ASSUME item'[x].pc = "accepted" PROVE caller'[x].pc = "done"
      <4>1. item[x].pc = "forward" BY <3>2, <3>3
      <4>2. Accept(x)
        <5>1. ASSUME NEW pc \in {"threw", "crashed"}, ItemTo(x, pc) PROVE FALSE
          BY <1>0, <3>3, <5>1 DEF ItemTo, ItemState
        <5> QED BY <1>4, <4>1, <5>1 DEF ItemStep, Block, Track, RejectStale, FindEvent,
               UpsertEvent, LoseInsert, AttributeAndForward, ForwardThrows,
               DatabaseFails, InsertUnanswered, Crash, IsTurn
      <4> QED BY <4>2 DEF Accept, Enqueued, forwardVars
    <3> QED BY <2>2, <3>2, <3>3
  <2>3. CASE y = x /\ item[x].pc = "insert" /\ item[x].id = id
             /\ item'[x].pc \in {"attribute", "threw"}
    <3>1. item'[x].id = id BY <1>4, <2>3, ItemSteps
    <3> QED BY <2>3, <3>1
  <2> QED BY <1>4, <2>0, <2>1, <2>2, <2>3, RowSteps
<1> QED BY <1>1, <1>2, <1>3, <1>4 DEF Next, OwnersForward

LEMMA NextAccepted ==
  ASSUME Shape, TypeOK, WinnerHolds, Forwarded, AcceptedHow, [Next]_vars
  PROVE  AcceptedHow'
<1>0. eventRow \in [RowIds -> Items \cup {None}] /\ item \in [Items -> ItemState]
  BY DEF TypeOK
<1>1. CASE UNCHANGED vars
  BY <1>1 DEF vars, ingestVars, forwardVars, AcceptedHow
<1>2. CASE \E r \in Requests : Receive(r)
  BY <1>2 DEF Receive, forwardVars, AcceptedHow
<1>3. CASE F!Deliver /\ UNCHANGED ingestVars
  BY <1>3, DeliverKeepsCalls DEF ingestVars, AcceptedHow
<1>4. ASSUME NEW x \in Items, ItemStep(x) \/ Crash(x), NEW y \in Items,
             item'[y].pc = "accepted"
      PROVE  /\ item'[y].id \in RowIds
             /\ \/ caller'[y].pc = "done"
                \/ /\ caller'[y].pc = "idle"
                   /\ item'[y].owner = eventRow'[item'[y].id]
                   /\ item'[y].owner \in Items
  <2>0. \A i \in Items : i # None OBVIOUS
  <2>1. CASE y # x
    <3>1. item'[y] = item[y] /\ caller'[y] = caller[y]
      BY <1>4, <2>1, ItemSteps, CallSteps
    <3>2. item[y].id \in RowIds BY <1>4, <3>1 DEF AcceptedHow
    <3>3. eventRow[item[y].id] # None => eventRow'[item[y].id] = eventRow[item[y].id]
      BY <1>4, <3>2, RowSteps
    <3> QED BY <1>4, <2>0, <3>1, <3>2, <3>3 DEF AcceptedHow
  <2>2. CASE y = x /\ item[x].pc = "forward"
    <3>1. item'[x].id = item[x].id /\ item[x].id \in RowIds
      BY <1>4, <2>2, ItemSteps DEF Shape, ItemHolds
    <3>2. Accept(x)
      <4>1. ASSUME NEW pc \in {"threw", "crashed"}, ItemTo(x, pc) PROVE FALSE
        BY <1>0, <1>4, <2>2, <4>1 DEF ItemTo, ItemState
      <4> QED BY <1>4, <2>2, <4>1 DEF ItemStep, Block, Track, RejectStale, FindEvent,
             UpsertEvent, LoseInsert, AttributeAndForward, ForwardThrows,
             DatabaseFails, InsertUnanswered, Crash, IsTurn
    <3>3. caller'[x].pc = "done" BY <3>2 DEF Accept, Enqueued, forwardVars
    <3> QED BY <2>2, <3>1, <3>3
  <2>3. CASE y = x /\ item[x].pc = "insert"
    <3>1. item'[x].id = item[x].id /\ item[x].id \in RowIds
      BY <1>4, <2>3, ItemSteps DEF Shape, ItemHolds
    <3>2. caller[x].pc = "idle" BY <2>3 DEF WinnerHolds
    <3>3. LoseInsert(x)
      <4>1. ASSUME NEW pc \in {"threw", "crashed"}, ItemTo(x, pc) PROVE FALSE
        BY <1>0, <1>4, <2>3, <4>1 DEF ItemTo, ItemState
      <4>2. ~UpsertEvent(x)
        <5> DEFINE s(owner) == [item[x] EXCEPT !.pc = "attribute", !.owner = owner]
        <5>1. ASSUME NEW owner, item' = [item EXCEPT ![x] = s(owner)] PROVE FALSE
          <6>1. s(owner).pc = "attribute" BY <1>0 DEF ItemState
          <6> HIDE DEF s
          <6> QED BY <1>0, <1>4, <2>3, <5>1, <6>1
        <5>2. UpsertEvent(x) => \E owner : item' = [item EXCEPT ![x] = s(owner)]
          BY <1>0 DEF UpsertEvent
        <5> HIDE DEF s
        <5> QED BY <5>1, <5>2
      <4> QED BY <1>4, <2>3, <4>1, <4>2 DEF ItemStep, Block, Track, RejectStale,
             FindEvent, AttributeAndForward, Accept, ForwardThrows,
             DatabaseFails, InsertUnanswered, Crash, IsTurn
    <3> DEFINE id == item[x].id
    <3> DEFINE s == [item[x] EXCEPT !.pc = "accepted", !.owner = eventRow[id]]
    <3>4. item' = [item EXCEPT ![x] = s] /\ UNCHANGED <<eventRow, caller>>
          /\ eventRow[id] # None
      BY <1>0, <3>3 DEF LoseInsert, AfterLostRace, UniqueId, forwardVars
    <3>5. s.owner = eventRow[id] BY <1>0 DEF ItemState
    <3> HIDE DEF s
    <3>6. item'[x].owner = eventRow[id] BY <1>0, <3>4, <3>5
    <3> QED BY <1>0, <2>3, <3>1, <3>2, <3>4, <3>6
  <2>4. y # x \/ item[x].pc \in {"insert", "forward"}
    BY <1>4, ItemSteps
  <2> QED BY <2>1, <2>2, <2>3, <2>4
<1> QED BY <1>1, <1>2, <1>3, <1>4 DEF Next, AcceptedHow

LEMMA AnsweringCorrect == Spec => [](OwnersForward /\ AcceptedHow)
  BY InitAnswering, NextOwners, NextAccepted, ShapeCorrect, TypeCorrect,
     WinnerCorrect, ForwardedCorrect, PTL DEF Spec

\* An accepted event has a row for each platform whose credential is active all
\* the time, whoever of any number of requests for it was accepted; the one
\* exception is the loser of a race, answered while the winner may still fail.
THEOREM AcceptedAreForwarded == Spec => []AcceptedIsForwarded
<1>1. TypeOK /\ Forwarded /\ CallsMatch /\ OwnersForward /\ AcceptedHow
      => AcceptedIsForwarded
  <2> SUFFICES ASSUME TypeOK, Forwarded, CallsMatch, OwnersForward, AcceptedHow,
                      NEW x \in Items, NEW p \in Platforms \ Edited,
                      item[x].pc = "accepted", credential[p] = "active"
               PROVE  \/ forward[<<item[x].id, p>>].status # "none"
                      \/ LostToUnfinished(x)
    BY DEF AcceptedIsForwarded
  <2>1. ASSUME NEW y \in Items, caller[y].pc = "done"
        PROVE  forward[<<item[y].id, p>>].status # "none"
    <3>1. caller[y].event = item[y].id BY <2>1 DEF CallsMatch
    <3>2. FP!CallLeaves(y) BY DEF Forwarded, FP!CallsLeaveRows
    <3> QED BY <2>1, <3>1, <3>2 DEF FP!CallLeaves, FP!HasRow
  <2>2. CASE caller[x].pc = "done" BY <2>1, <2>2
  <2>3. CASE /\ caller[x].pc = "idle"
             /\ item[x].owner = eventRow[item[x].id]
             /\ item[x].owner \in Items
    <3> DEFINE y == item[x].owner
    <3>1. /\ item[x].id \in RowIds /\ item[y].id = item[x].id
          /\ item[y].pc \in {"attribute", "forward", "accepted", "threw", "crashed"}
          /\ item[y].pc = "accepted" => caller[y].pc = "done"
      BY <2>3 DEF OwnersForward, AcceptedHow
    <3>2. CASE item[y].pc = "accepted" BY <2>1, <2>3, <3>1, <3>2
    <3>3. CASE item[y].pc # "accepted"
      BY <2>3, <3>1, <3>3 DEF LostToUnfinished, InFlight
    <3> QED BY <3>2, <3>3
  <2> QED BY <2>2, <2>3 DEF AcceptedHow
<1> QED
  BY <1>1, TypeCorrect, ForwardedCorrect, MatchCorrect, AnsweringCorrect, PTL
================================================================================
