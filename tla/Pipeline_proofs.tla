---------------------------- MODULE Pipeline_proofs ----------------------------
(***************************************************************************)
(* Proofs about module Pipeline, for any number of runs and middlewares,   *)
(* however often they meddle and however often the registry changes.       *)
(***************************************************************************)
EXTENDS Pipeline, TLAPS

\* A dispatch is called as deep as its index says, at the bottom of which is the
\* stage: once it was executed, nothing is left to call.
Good(d) ==
    /\ d \in Dispatch
    /\ \A i \in Depth : d.call[i] # "none" <=> i <= d.index
    /\ \A i \in Depth : d.call[i] = "stage" => i = d.at
    /\ d.at = -1 \/ d.at = d.index
    /\ d.times = IF d.at = -1 THEN 0 ELSE 1

\* Nothing was called of the stages that the loop has not come to.
Fits(s) ==
    /\ s \in Run
    /\ \A k \in Stage : Good(s.dispatch[k])
    /\ \A k \in Stage : k > s.stage => s.dispatch[k] = NewDispatch

RunsFit == \A r \in Runs : Fits(run[r])

IInv == TypeOK /\ RunsFit

LEMMA StageFact == /\ Stage = 1..7 /\ Validate = 1 /\ Normalize = 2 /\ Enrich = 3
                   /\ Persist = 4 /\ EmitDomainEvents = 5 /\ Forward = 6 /\ Metrics = 7
  BY DEF Stage, Validate, Normalize, Enrich, Persist, EmitDomainEvents, Forward, Metrics

LEMMA DepthFact == Depth \subseteq Nat /\ 0 \in Depth /\ -1 \notin Depth
  BY PipelineAssumption DEF PipelineAssumption, Depth

LEMMA NewIsGood == Good(NewDispatch) /\ NewDispatch.index = -1
  BY DepthFact DEF Good, NewDispatch, Dispatch

-------------------------------------------------------------------------------
(* What a step may do to a run, and it still fits                           *)

\* A step that leaves the dispatches alone.
LEMMA ContextFits ==
    ASSUME NEW s, Fits(s), NEW t, t \in Run, t.dispatch = s.dispatch, t.stage = s.stage
    PROVE  Fits(t)
  BY DEF Fits

\* A step that changes one of them, of a stage the loop has come to.
LEMMA DispatchFits ==
    ASSUME NEW s, Fits(s), NEW k \in Stage, k <= s.stage, NEW d, Good(d),
           NEW t, t = [s EXCEPT !.dispatch[k] = d]
    PROVE  Fits(t)
<1>1. s \in Run /\ s.dispatch \in [Stage -> Dispatch] BY DEF Fits, Run
<1>2. d \in Dispatch BY DEF Good
<1>3. [s.dispatch EXCEPT ![k] = d] \in [Stage -> Dispatch] BY <1>1, <1>2
<1>4. t \in Run BY <1>1, <1>3 DEF Run
<1>5. t.dispatch = [s.dispatch EXCEPT ![k] = d] /\ t.stage = s.stage BY <1>1 DEF Run
<1>6. \A j \in Stage : t.dispatch[j] = IF j = k THEN d ELSE s.dispatch[j]
  BY <1>1, <1>5
<1>7. k \in 1..7 /\ Stage = 1..7 /\ s.stage \in 0..7 BY <1>1, StageFact DEF Run
<1>8. \A j \in Stage : j > t.stage => j # k BY <1>5, <1>7
<1> QED BY <1>4, <1>5, <1>6, <1>8 DEF Fits

\* What was called is of such a stage.
LEMMA CalledIsReached ==
    ASSUME NEW s, Fits(s), NEW k \in Stage, s.dispatch[k].index # -1
    PROVE  k <= s.stage
<1>1. k \in 1..7 /\ s.stage \in 0..7 BY StageFact DEF Fits, Run
<1> QED BY <1>1, NewIsGood DEF Fits

\* A call that was made settles.
LEMMA SettledIsGood ==
    ASSUME NEW d, Good(d), NEW i \in Depth, d.call[i] # "none",
           NEW how \in {"resolved", "rejected"}
    PROVE  Good([d EXCEPT !.call[i] = how])
<1> DEFINE e == [d EXCEPT !.call[i] = how]
<1>1. d \in Dispatch /\ d.call \in [Depth -> {"none", "open", "stage", "resolved", "rejected"}]
  BY DEF Good, Dispatch
<1>2. e \in Dispatch BY <1>1 DEF Dispatch
<1>3. /\ e.index = d.index /\ e.at = d.at /\ e.times = d.times
      /\ \A j \in Depth : e.call[j] = IF j = i THEN how ELSE d.call[j]
  BY <1>1 DEF Dispatch
<1> HIDE DEF e
<1>4. Good(e) BY <1>2, <1>3 DEF Good
<1> QED BY <1>4 DEF e

\* The stage was called in the dispatch of stage k, and not more often than once.
Called(s, k) == Fits(s) /\ k \in Stage /\ s.dispatch[k].at # -1

LEMMA EndedFits ==
    ASSUME NEW s, NEW k, Called(s, k), NEW how \in {"resolved", "rejected"}
    PROVE  Fits(Ended(s, k, how))
<1> DEFINE d == s.dispatch[k]
<1>1. Good(d) /\ d \in Dispatch /\ s \in Run /\ k \in Stage BY DEF Called, Fits, Good
<1>2. d.at \in Depth /\ d.at = d.index /\ d.index \in Depth
  BY <1>1 DEF Called, Good, Dispatch
<1>3. d.call[d.at] # "none"
  <2>1. d.index \in Nat BY <1>2, DepthFact
  <2> QED BY <1>1, <1>2, <2>1 DEF Good
<1>4. Good([d EXCEPT !.call[d.at] = how]) BY <1>1, <1>2, <1>3, SettledIsGood
<1>5. k <= s.stage BY <1>1, <1>2, CalledIsReached, DepthFact DEF Called
<1>6. Ended(s, k, how) = [s EXCEPT !.dispatch[k] = [d EXCEPT !.call[d.at] = how]]
  BY DEF Ended, Settled
<1> QED BY <1>1, <1>4, <1>5, <1>6, DispatchFits DEF Called

-------------------------------------------------------------------------------
(* The stages                                                               *)

\* The context is what it was but for what a stage may set.
LEMMA SetFits ==
    ASSUME NEW s, NEW k, Called(s, k)
    PROVE  /\ \A e \in SUBSET Fields : Called([s EXCEPT !.errors = e], k)
           /\ \A x \in {"published", "enqueued", "counted"} :
                 Called([s EXCEPT !.did = @ \cup {x}], k)
           /\ \A x \in {"ok", "ignored", "replayed"} : Called([s EXCEPT !.response = x], k)
           /\ Called([s EXCEPT !.decision = TRUE], k)
           /\ Called([s EXCEPT !.event = TRUE], k)
<1> USE DEF Called
<1>1. s \in Run BY DEF Fits
<1>2. \A e \in SUBSET Fields : Called([s EXCEPT !.errors = e], k)
  <2> TAKE e \in SUBSET Fields
  <2> DEFINE t == [s EXCEPT !.errors = e]
  <2>1. t \in Run /\ t.dispatch = s.dispatch /\ t.stage = s.stage BY <1>1 DEF Run
  <2> QED BY <2>1, ContextFits
<1>3. \A x \in {"published", "enqueued", "counted"} : Called([s EXCEPT !.did = @ \cup {x}], k)
  <2> TAKE x \in {"published", "enqueued", "counted"}
  <2> DEFINE t == [s EXCEPT !.did = @ \cup {x}]
  <2>1. t \in Run /\ t.dispatch = s.dispatch /\ t.stage = s.stage BY <1>1 DEF Run
  <2> QED BY <2>1, ContextFits
<1>4. \A x \in {"ok", "ignored", "replayed"} : Called([s EXCEPT !.response = x], k)
  <2> TAKE x \in {"ok", "ignored", "replayed"}
  <2> DEFINE t == [s EXCEPT !.response = x]
  <2>1. t \in Run /\ t.dispatch = s.dispatch /\ t.stage = s.stage BY <1>1 DEF Run
  <2> QED BY <2>1, ContextFits
<1>5. Called([s EXCEPT !.decision = TRUE], k)
  <2> DEFINE t == [s EXCEPT !.decision = TRUE]
  <2>1. t \in Run /\ t.dispatch = s.dispatch /\ t.stage = s.stage BY <1>1 DEF Run
  <2> QED BY <2>1, ContextFits
<1>6. Called([s EXCEPT !.event = TRUE], k)
  <2> DEFINE t == [s EXCEPT !.event = TRUE]
  <2>1. t \in Run /\ t.dispatch = s.dispatch /\ t.stage = s.stage BY <1>1 DEF Run
  <2> QED BY <2>1, ContextFits
<1> QED BY <1>2, <1>3, <1>4, <1>5, <1>6

LEMMA FailedFits == ASSUME NEW s, NEW k, Called(s, k) PROVE Fits(Failed(s, k))
<1> DEFINE e == Ended(s, k, "rejected")
           t == [e EXCEPT !.fault = TRUE]
<1>1. Fits(e) BY EndedFits
<1> HIDE DEF e
<1>2. e \in Run BY <1>1 DEF Fits
<1>3. t \in Run /\ t.dispatch = e.dispatch /\ t.stage = e.stage BY <1>2 DEF Run
<1>4. Fits(t) BY <1>1, <1>3, ContextFits
<1> QED BY <1>4 DEF Failed, e

LEMMA DidFits ==
    ASSUME NEW s, NEW k, Called(s, k), NEW x \in {"published", "enqueued", "counted"}
    PROVE  Fits(Did(s, k, x))
  BY SetFits, EndedFits DEF Did

LEMMA ExecutedFits ==
    ASSUME NEW s, NEW k, Called(s, k), NEW t \in Executed(s, k)
    PROVE  Fits(t)
<1>0. k \in 1..7 BY StageFact DEF Called
<1>1. CASE k = Validate
  <2> DEFINE u == [s EXCEPT !.errors = Violations(ToCanonical(s.dto))]
  <2>1. Called(u, k) BY SetFits DEF Violations
  <2>2. t = Ended(u, k, "resolved") BY <1>1, StageFact DEF Executed, Validated, Violated
  <2> QED BY <2>1, <2>2, EndedFits
<1>2. CASE k = Normalize
  <2>1. \E how \in {"resolved", "rejected"} : t = Ended(s, k, how)
    BY <1>2, StageFact DEF Executed, Normalized
  <2> QED BY <2>1, EndedFits
<1>3. CASE k = Enrich
  <2>1. t \in Enriched(s) BY <1>3, StageFact DEF Executed
  <2>2. \/ t = Ended(s, k, "resolved")
        \/ t = Failed(s, k)
        \/ t = [s EXCEPT !.decision = TRUE]
        \/ \E x \in {"ok", "ignored"} : t = Ended([s EXCEPT !.response = x], k, "resolved")
    BY <2>1, <1>3 DEF Enriched
  <2>3. \A u : Called(u, k) => Fits(u) BY DEF Called
  <2> QED BY <2>2, <2>3, EndedFits, FailedFits, SetFits
<1>4. CASE k = Persist
  <2>1. t \in Persisted(s) BY <1>4, StageFact DEF Executed
  <2>2. \/ \E how \in {"resolved", "rejected"} : t = Ended(s, k, how)
        \/ t = Failed(s, k)
        \/ t = [s EXCEPT !.event = TRUE]
        \/ t = Ended([s EXCEPT !.response = "replayed"], k, "resolved")
    BY <2>1, <1>4 DEF Persisted
  <2>3. \A u : Called(u, k) => Fits(u) BY DEF Called
  <2> QED BY <2>2, <2>3, EndedFits, FailedFits, SetFits
<1>5. CASE k = Forward
  <2>1. t = Did(s, k, "enqueued") \/ t = Failed(s, k)
    BY <1>5, StageFact DEF Executed, Forwarded
  <2> QED BY <2>1, DidFits, FailedFits
<1>6. CASE k = EmitDomainEvents
  <2>1. t = Did(s, k, "published") BY <1>6, StageFact DEF Executed
  <2> QED BY <2>1, DidFits
<1>7. CASE k = Metrics
  <2>1. t = Did(s, k, "counted") BY <1>7, StageFact DEF Executed
  <2> QED BY <2>1, DidFits
<1> QED BY <1>0, <1>1, <1>2, <1>3, <1>4, <1>5, <1>6, <1>7, StageFact

-------------------------------------------------------------------------------
(* The onion                                                                *)

\* The next call in a dispatch whose stage was not called yet, of a stage the
\* loop has come to.
LEMMA DispatchShape ==
    ASSUME NEW s, Fits(s), NEW k \in Stage, NEW i \in Depth,
           s.dispatch[k].index = i - 1, s.dispatch[k].at = -1
    PROVE  LET d == s.dispatch[k]
           IN  /\ d \in Dispatch
               /\ d.call \in [Depth -> {"none", "open", "stage", "resolved", "rejected"}]
               /\ d.times = 0
               /\ \A j \in Depth : d.call[j] # "none" <=> j <= i - 1
               /\ \A j \in Depth : d.call[j] # "stage"
<1> DEFINE d == s.dispatch[k]
<1>1. Good(d) BY DEF Fits
<1> QED BY <1>1, DepthFact DEF Good, Dispatch

LEMMA UpTo == \A i, j \in Depth : j <= i <=> (j <= i - 1 \/ j = i)
  BY DepthFact

\* The call is a middleware's, or the stage's.
LEMMA DeeperFits ==
    ASSUME NEW s, Fits(s), NEW k \in Stage, k <= s.stage, NEW i \in Depth,
           s.dispatch[k].index = i - 1, s.dispatch[k].at = -1
    PROVE  Fits([s EXCEPT !.dispatch[k] = Deeper(s.dispatch[k], i)])
<1> DEFINE d == s.dispatch[k]
           e == Deeper(d, i)
<1>1. /\ d \in Dispatch
      /\ d.call \in [Depth -> {"none", "open", "stage", "resolved", "rejected"}]
      /\ d.times = 0
      /\ \A j \in Depth : d.call[j] # "none" <=> j <= i - 1
      /\ \A j \in Depth : d.call[j] # "stage"
  BY DispatchShape
<1>2. e \in Dispatch BY <1>1 DEF Dispatch, Deeper
<1>3. /\ e.index = i /\ e.at = -1 /\ e.times = 0
      /\ \A j \in Depth : e.call[j] = IF j = i THEN "open" ELSE d.call[j]
  BY <1>1 DEF Dispatch, Deeper
<1> HIDE DEF e
<1>4. Good(e) BY <1>1, <1>2, <1>3, UpTo DEF Good
<1>5. Fits([s EXCEPT !.dispatch[k] = e]) BY <1>4, DispatchFits
<1> QED BY <1>5 DEF e

LEMMA ReachedFits ==
    ASSUME NEW s, Fits(s), NEW k \in Stage, k <= s.stage, NEW i \in Depth,
           s.dispatch[k].index = i - 1, s.dispatch[k].at = -1
    PROVE  Fits([s EXCEPT !.dispatch[k] = Reached(s.dispatch[k], i, Needs(s, k))])
<1> DEFINE d == s.dispatch[k]
           e == Reached(d, i, Needs(s, k))
           call == [d.call EXCEPT ![i] = "stage"]
<1>1. /\ d \in Dispatch
      /\ d.call \in [Depth -> {"none", "open", "stage", "resolved", "rejected"}]
      /\ d.times = 0
      /\ \A j \in Depth : d.call[j] # "none" <=> j <= i - 1
      /\ \A j \in Depth : d.call[j] # "stage"
  BY DispatchShape
<1>2. Needs(s, k) \in BOOLEAN BY DEF Needs, Run, Fits
<1>3. call \in [Depth -> {"none", "open", "stage", "resolved", "rejected"}]
  BY <1>1
<1>4. e = [index |-> i, call |-> call, at |-> i, times |-> d.times + 1, saw |-> Needs(s, k)]
  BY DEF Reached
<1>5. \A j \in Depth : call[j] = IF j = i THEN "stage" ELSE d.call[j]
  BY <1>1
<1> HIDE DEF e, call
<1>6. e \in Dispatch BY <1>1, <1>2, <1>3, <1>4 DEF Dispatch
<1>7. e.index = i /\ e.at = i /\ e.times = 1 /\ e.call = call BY <1>1, <1>4
<1>8. Good(e) BY <1>1, <1>5, <1>6, <1>7, UpTo, DepthFact DEF Good
<1>9. Fits([s EXCEPT !.dispatch[k] = e]) BY <1>8, DispatchFits
<1> QED BY <1>9 DEF e

LEMMA ChainedFits ==
    ASSUME NEW s, Fits(s), NEW k \in Stage, k <= s.stage, NEW i \in Depth,
           s.dispatch[k].index = i - 1, s.dispatch[k].at = -1,
           NEW t \in Chained(s, k, i)
    PROVE  Fits(t)
<1>1. CASE i < middlewares
  BY <1>1, DeeperFits DEF Chained
<1>2. CASE ~(i < middlewares)
  <2> DEFINE e == Reached(s.dispatch[k], i, Needs(s, k))
             u == [s EXCEPT !.dispatch[k] = e]
  <2>1. t = u \/ t \in Executed(u, k) BY <1>2 DEF Chained
  <2>2. Fits(u) BY ReachedFits
  <2>3. e.at = i BY DEF Reached
  <2> HIDE DEF e
  <2>4. u.dispatch[k] = e BY DEF Fits, Run
  <2>5. Called(u, k) BY <2>2, <2>3, <2>4, DepthFact DEF Called
  <2> HIDE DEF u
  <2> QED BY <2>1, <2>2, <2>5, ExecutedFits
<1> QED BY <1>1, <1>2

\* A middleware settles, or the loop goes on to its next stage.
LEMMA SettleFits ==
    ASSUME NEW s, Fits(s), NEW k \in Stage, NEW i \in Depth,
           s.dispatch[k].call[i] # "none", NEW how \in {"resolved", "rejected"}
    PROVE  Fits(Settled(s, k, i, how))
<1> DEFINE d == s.dispatch[k]
<1>1. Good(d) BY DEF Fits
<1>2. Good([d EXCEPT !.call[i] = how]) BY <1>1, SettledIsGood
<1>3. d.index # -1 BY <1>1, DepthFact DEF Good
<1>4. k <= s.stage BY <1>3, CalledIsReached
<1> QED BY <1>2, <1>4, DispatchFits DEF Settled

LEMMA ComesToFits ==
    ASSUME NEW s, Fits(s), s.stage # Metrics
    PROVE  LET k == s.stage + 1
               u == [s EXCEPT !.pc = "running", !.stage = @ + 1]
           IN  /\ Fits(u) /\ k \in Stage /\ k <= u.stage
               /\ u.dispatch[k].index = 0 - 1 /\ u.dispatch[k].at = -1
<1> DEFINE k == s.stage + 1
           u == [s EXCEPT !.pc = "running", !.stage = @ + 1]
<1>1. s \in Run /\ s.stage \in 0..7 BY StageFact DEF Fits, Run
<1>2. k \in Stage /\ k > s.stage /\ k \in 0..7 BY <1>1, StageFact
<1>3. u.dispatch = s.dispatch /\ u.stage = k /\ u \in Run
  BY <1>1, <1>2, StageFact DEF Run
<1>4. \A j \in Stage : j > k => j > s.stage BY <1>1, StageFact
<1>5. Fits(u) BY <1>3, <1>4 DEF Fits
<1>6. u.dispatch[k] = NewDispatch BY <1>2, <1>3 DEF Fits
<1>7. u.dispatch[k].index = 0 - 1 /\ u.dispatch[k].at = -1 BY <1>6 DEF NewDispatch
<1> QED BY <1>2, <1>3, <1>5, <1>7

LEMMA ContinuedFits ==
    ASSUME NEW s, Fits(s), NEW t \in Continued(s)
    PROVE  Fits(t)
<1>1. s \in Run BY DEF Fits
<1>2. CASE t = [s EXCEPT !.pc = "answered"]
  <2>1. t \in Run /\ t.dispatch = s.dispatch /\ t.stage = s.stage BY <1>1, <1>2 DEF Run
  <2> QED BY <2>1, ContextFits
<1>3. CASE s.stage # Metrics /\
           t \in Chained([s EXCEPT !.pc = "running", !.stage = @ + 1], s.stage + 1, 0)
  <2> DEFINE k == s.stage + 1
             u == [s EXCEPT !.pc = "running", !.stage = @ + 1]
  <2>1. /\ Fits(u) /\ k \in Stage /\ k <= u.stage
        /\ u.dispatch[k].index = 0 - 1 /\ u.dispatch[k].at = -1
    BY <1>3, ComesToFits
  <2>2. t \in Chained(u, k, 0) BY <1>3
  <2> HIDE DEF u, k
  <2> QED BY <2>1, <2>2, DepthFact, ChainedFits
<1> QED BY <1>2, <1>3 DEF Continued

\* The stage that goes on was called.
LEMMA RunningIsCalled ==
    ASSUME NEW s, Fits(s), NEW k \in Stage, NEW i \in Depth,
           s.dispatch[k].call[i] = "stage"
    PROVE  Called(s, k) /\ s.dispatch[k].at = i
<1>1. i = s.dispatch[k].at BY DEF Fits, Good
<1> QED BY <1>1, DepthFact DEF Called

\* A middleware that may call its next() did not do so before.
LEMMA NextIsNew ==
    ASSUME NEW s, Fits(s), NEW k \in Stage, NEW i \in Depth, i + 1 \in Depth,
           s.dispatch[k].call[i] # "none", s.dispatch[k].at # i,
           FirstCall(s.dispatch[k], i + 1)
    PROVE  s.dispatch[k].index = i /\ s.dispatch[k].at = -1 /\ k <= s.stage
<1> DEFINE d == s.dispatch[k]
<1>1. Good(d) /\ d \in Dispatch BY DEF Fits, Good
<1>2. i <= d.index /\ i + 1 > d.index BY <1>1 DEF Good, FirstCall
<1>3. d.index \in Depth \cup {-1} BY <1>1 DEF Dispatch
<1>4. d.index = i
  <2>1. \A j \in Depth \cup {-1} : j \in Int BY DepthFact
  <2>2. i \in Int /\ d.index \in Int BY <1>3, <2>1
  <2> HIDE DEF d
  <2> QED BY <1>2, <2>2
<1>5. d.at = -1 BY <1>1, <1>4 DEF Good
<1>6. k <= s.stage BY <1>4, DepthFact, CalledIsReached
<1> QED BY <1>4, <1>5, <1>6

-------------------------------------------------------------------------------
(* Every step                                                               *)

\* What a step makes of the one run it moves.
Moves(r, t) == run' = [run EXCEPT ![r] = t] /\ middlewares' = middlewares /\ changes' = changes

LEMMA MovesFit ==
    ASSUME IInv, NEW r \in Runs, NEW t, Fits(t), Moves(r, t)
    PROVE  IInv'
<1>1. t \in Run BY DEF Fits
<1>2. run' \in [Runs -> Run] BY <1>1 DEF Moves, IInv, TypeOK
<1>3. \A q \in Runs : run'[q] = IF q = r THEN t ELSE run[q] BY DEF Moves, IInv, TypeOK
<1>4. \A q \in Runs : Fits(run'[q]) BY <1>3 DEF IInv, RunsFit
<1>5. TypeOK' BY <1>2 DEF Moves, IInv, TypeOK
<1>6. RunsFit' BY <1>4 DEF RunsFit
<1> QED BY <1>5, <1>6 DEF IInv

LEMMA InitFits == Init => IInv
<1> SUFFICES ASSUME Init PROVE IInv
  OBVIOUS
<1>1. NewDispatch \in Dispatch BY NewIsGood DEF Good
<1>2. \A dto \in Dtos, b \in BOOLEAN : NewRun(dto, b) \in Run
  BY <1>1, StageFact, PipelineAssumption DEF PipelineAssumption, NewRun, Run
<1>3. \A dto \in Dtos, b \in BOOLEAN : Fits(NewRun(dto, b))
  BY <1>2, NewIsGood DEF Fits, NewRun
<1>4. \A r \in Runs : \E dto \in Dtos, b \in BOOLEAN : run[r] = NewRun(dto, b)
  BY DEF Init
<1>5. run \in [Runs -> Run] BY <1>2 DEF Init
<1>6. TypeOK BY <1>5 DEF Init, TypeOK
<1> QED BY <1>3, <1>4, <1>6 DEF IInv, RunsFit

LEMMA NextFits == IInv /\ [Next]_vars => IInv'
<1> SUFFICES ASSUME IInv, [Next]_vars PROVE IInv'
  OBVIOUS
<1>1. CASE UNCHANGED vars
  BY <1>1 DEF vars, IInv, TypeOK, RunsFit
<1>2. CASE Register
  <2>1. middlewares' \in Depth /\ changes' \in 0..MaxChanges
    BY <1>2, PipelineAssumption
    DEF PipelineAssumption, Register, IInv, TypeOK, Depth
  <2>2. run' = run BY <1>2 DEF Register
  <2> QED BY <2>1, <2>2 DEF IInv, TypeOK, RunsFit
<1>3. ASSUME NEW r \in Runs, Advance(r) PROVE IInv'
  <2>1. Fits(run[r]) BY DEF IInv, RunsFit
  <2>2. CASE \E t \in Continued(run[r]) : Moves(r, t)
    BY <2>1, <2>2, ContinuedFits, MovesFit
  <2>3. CASE Moves(r, [run[r] EXCEPT !.pc = "threw"])
    <3> DEFINE t == [run[r] EXCEPT !.pc = "threw"]
    <3>1. t \in Run /\ t.dispatch = run[r].dispatch /\ t.stage = run[r].stage
      BY <2>1 DEF Fits, Run
    <3> QED BY <2>1, <2>3, <3>1, ContextFits, MovesFit
  <2> QED BY <1>3, <2>2, <2>3 DEF Advance, Moves
<1>4. ASSUME NEW r \in Runs, NEW k \in Stage, Execute(r, k) PROVE IInv'
  <2>1. Fits(run[r]) BY DEF IInv, RunsFit
  <2>2. Called(run[r], k) BY <1>4, <2>1, RunningIsCalled DEF Execute
  <2>3. PICK t \in Executed(run[r], k) : Moves(r, t) BY <1>4 DEF Execute, Moves
  <2> QED BY <2>2, <2>3, ExecutedFits, MovesFit
<1>5. ASSUME NEW r \in Runs, NEW k \in Stage, NEW i \in Depth, CallNext(r, k, i) PROVE IInv'
  <2>1. Fits(run[r]) BY DEF IInv, RunsFit
  <2>2. /\ run[r].dispatch[k].index = (i + 1) - 1 /\ run[r].dispatch[k].at = -1
        /\ k <= run[r].stage /\ i + 1 \in Depth
    BY <1>5, <2>1, DepthFact, NextIsNew DEF CallNext, HasNext
  <2>3. PICK t \in Chained(run[r], k, i + 1) : Moves(r, t) BY <1>5 DEF CallNext, Moves
  <2> QED BY <2>1, <2>2, <2>3, ChainedFits, MovesFit
<1>6. ASSUME NEW r \in Runs, NEW k \in Stage, NEW i \in Depth, Resolve(r, k, i) PROVE IInv'
  <2>1. Fits(run[r]) BY DEF IInv, RunsFit
  <2> DEFINE u == Settled(run[r], k, i, "resolved")
             t(n) == [u EXCEPT !.meddled = run[r].meddled + n]
  <2>2. PICK n \in {0, 1} : run[r].meddled + n <= MaxMeddling /\ Moves(r, t(n))
    BY <1>6 DEF Resolve, Moves
  <2>3. Fits(u) BY <1>6, <2>1, SettleFits DEF Resolve
  <2>4. run[r].meddled \in Nat BY <2>1 DEF Fits, Run
  <2>5. run[r].meddled + n \in 0..MaxMeddling
    BY <2>2, <2>4, PipelineAssumption DEF PipelineAssumption
  <2> HIDE DEF u
  <2>6. u \in Run BY <2>3 DEF Fits
  <2>7. t(n) \in Run /\ t(n).dispatch = u.dispatch /\ t(n).stage = u.stage
    BY <2>5, <2>6 DEF Run
  <2> QED BY <2>2, <2>3, <2>7, ContextFits, MovesFit
<1>7. ASSUME NEW r \in Runs, NEW k \in Stage, NEW i \in Depth, Reject(r, k, i) PROVE IInv'
  <2>1. Fits(run[r]) BY DEF IInv, RunsFit
  <2> DEFINE u == Settled(run[r], k, i, "rejected")
             f == run[r].fault \/ Outcome(run[r].dispatch[k], i) # "rejected"
             t == [u EXCEPT !.fault = f]
  <2>2. Moves(r, t) BY <1>7 DEF Reject, Moves
  <2>3. Fits(u) BY <1>7, <2>1, SettleFits DEF Reject
  <2>4. f \in BOOLEAN BY <2>1 DEF Fits, Run
  <2> HIDE DEF u, f
  <2>5. u \in Run BY <2>3 DEF Fits
  <2>6. t \in Run /\ t.dispatch = u.dispatch /\ t.stage = u.stage
    BY <2>4, <2>5 DEF Run
  <2> QED BY <2>2, <2>3, <2>6, ContextFits, MovesFit
<1>8. ASSUME NEW r \in Runs, NEW k \in Stage, NEW i \in Depth, Respond(r, k, i) PROVE IInv'
  <2> DEFINE t == [run[r] EXCEPT !.response = "middleware"]
  <2>1. Fits(run[r]) BY DEF IInv, RunsFit
  <2>2. Moves(r, t) BY <1>8 DEF Respond, Moves
  <2>3. t \in Run /\ t.dispatch = run[r].dispatch /\ t.stage = run[r].stage
    BY <2>1 DEF Fits, Run
  <2> QED BY <2>1, <2>2, <2>3, ContextFits, MovesFit
<1> QED BY <1>1, <1>2, <1>3, <1>4, <1>5, <1>6, <1>7, <1>8 DEF Next

LEMMA FitsAlways == Spec => []IInv
  BY InitFits, NextFits, PTL DEF Spec

-------------------------------------------------------------------------------
\* Every context of the pipeline is well typed.
THEOREM TypeCorrect == Spec => []TypeOK
<1>1. IInv => TypeOK BY DEF IInv
<1> QED BY <1>1, FitsAlways, PTL

\* A stage is executed at most once in a run, whatever any number of middlewares do
\* with their next(), and however the registry changes meanwhile.
THEOREM StagesRunOnce == Spec => []StageRunsOnce
<1>1. IInv => StageRunsOnce BY DEF IInv, RunsFit, Fits, Good, StageRunsOnce
<1> QED BY <1>1, FitsAlways, PTL

-------------------------------------------------------------------------------
(* What goes out was stored                                                 *)

\* The stage k of s was executed, and is not under way any more.
Over(s, k) ==
    /\ s.dispatch[k].at # -1
    /\ \A i \in Depth : s.dispatch[k].call[i] # "stage"

\* The strengthening of OnlyStoredGoesOut: what a stage found in the context is
\* still there, and who answered without an event is through.
Stored(s) ==
    /\ \A k \in Stage : s.dispatch[k].saw => Needs(s, k)
    /\ s.did # {} => s.event
    /\ s.event => s.decision
    /\ s.response \in {"ok", "ignored"} => ~s.decision /\ Over(s, Enrich)
    /\ s.response = "replayed" => ~s.event /\ Over(s, Persist)

\* What Stored looks at, besides the dispatches.
SameContext(s, t) ==
    /\ t.decision = s.decision /\ t.event = s.event
    /\ t.did = s.did /\ t.response = s.response

LEMMA ContextStored ==
    ASSUME NEW s, Stored(s), NEW t, SameContext(s, t), t.dispatch = s.dispatch
    PROVE  Stored(t)
  BY DEF Stored, SameContext, Needs, Over

\* What the dispatch of a stage may become.
Quiet(s, k, d) ==
    /\ d.saw => Needs(s, k)
    /\ Over(s, k) => d.at # -1 /\ \A i \in Depth : d.call[i] # "stage"

LEMMA DispatchStored ==
    ASSUME NEW s, Fits(s), Stored(s), NEW k \in Stage, NEW d, Quiet(s, k, d),
           NEW t, t = [s EXCEPT !.dispatch[k] = d]
    PROVE  Stored(t)
<1>1. s \in Run /\ s.dispatch \in [Stage -> Dispatch] BY DEF Fits, Run
<1>2. t.dispatch = [s.dispatch EXCEPT ![k] = d] /\ SameContext(s, t)
  BY <1>1 DEF Run, SameContext
<1>3. \A j \in Stage : t.dispatch[j] = IF j = k THEN d ELSE s.dispatch[j]
  BY <1>1, <1>2
<1>4. \A j \in Stage : Needs(t, j) = Needs(s, j) BY <1>2 DEF Needs, SameContext
<1>5. \A j \in Stage : t.dispatch[j].saw => Needs(t, j) BY <1>3, <1>4 DEF Stored, Quiet
<1>6. \A j \in Stage : Over(s, j) => Over(t, j) BY <1>3 DEF Over, Quiet
<1>7. Enrich \in Stage /\ Persist \in Stage BY StageFact
<1> QED BY <1>2, <1>5, <1>6, <1>7 DEF Stored, SameContext

LEMMA DispatchSame ==
    ASSUME NEW s, Fits(s), NEW k \in Stage, NEW d
    PROVE  LET t == [s EXCEPT !.dispatch[k] = d]
           IN  SameContext(s, t) /\ t.dispatch[k] = d
<1>1. s \in Run /\ s.dispatch \in [Stage -> Dispatch] BY DEF Fits, Run
<1> QED BY <1>1 DEF Run, SameContext

\* A call settles.
LEMMA SettleStored ==
    ASSUME NEW s, Fits(s), Stored(s), NEW k \in Stage, NEW i \in Depth,
           NEW how \in {"resolved", "rejected"}
    PROVE  Stored(Settled(s, k, i, how))
<1> DEFINE d == s.dispatch[k]
           e == [d EXCEPT !.call[i] = how]
<1>1. d \in Dispatch /\ d.call \in [Depth -> {"none", "open", "stage", "resolved", "rejected"}]
  BY DEF Fits, Good, Dispatch
<1>2. /\ e.saw = d.saw /\ e.at = d.at
      /\ \A j \in Depth : e.call[j] = IF j = i THEN how ELSE d.call[j]
  BY <1>1 DEF Dispatch
<1>3. Settled(s, k, i, how) = [s EXCEPT !.dispatch[k] = e] BY DEF Settled
<1> HIDE DEF e
<1>4. Quiet(s, k, e) BY <1>2 DEF Stored, Over, Quiet
<1> QED BY <1>3, <1>4, DispatchStored

\* The stage k of s is under way.
Running(s, k) == Called(s, k) /\ ~Over(s, k)

LEMMA EndedStored ==
    ASSUME NEW s, NEW k, Called(s, k), Stored(s), NEW how \in {"resolved", "rejected"}
    PROVE  /\ Stored(Ended(s, k, how)) /\ SameContext(s, Ended(s, k, how))
           /\ Over(Ended(s, k, how), k)
<1> DEFINE d == s.dispatch[k]
           e == [d EXCEPT !.call[d.at] = how]
           t == Ended(s, k, how)
<1>1. Good(d) /\ d \in Dispatch /\ k \in Stage /\ Fits(s) BY DEF Called, Fits, Good
<1>2. d.at \in Depth BY <1>1 DEF Called, Dispatch
<1>3. Stored(t) BY <1>1, <1>2, SettleStored DEF Ended
<1>4. t = [s EXCEPT !.dispatch[k] = e] BY DEF Ended, Settled
<1>5. e.at = d.at /\ \A j \in Depth : e.call[j] = IF j = d.at THEN how ELSE d.call[j]
  BY <1>1, <1>2 DEF Dispatch
<1> HIDE DEF e, t
<1>6. e.at # -1 /\ \A j \in Depth : e.call[j] # "stage"
  BY <1>1, <1>5 DEF Good, Called
<1>7. SameContext(s, t) /\ t.dispatch[k] = e BY <1>1, <1>4, DispatchSame
<1>8. Over(t, k) BY <1>6, <1>7 DEF Over
<1> QED BY <1>3, <1>7, <1>8 DEF t

LEMMA FailedStored ==
    ASSUME NEW s, NEW k, Called(s, k), Stored(s)
    PROVE  Stored(Failed(s, k))
<1> DEFINE e == Ended(s, k, "rejected")
           t == [e EXCEPT !.fault = TRUE]
<1>1. Fits(e) /\ Stored(e) BY EndedFits, EndedStored
<1> HIDE DEF e
<1>2. e \in Run BY <1>1 DEF Fits
<1>3. SameContext(e, t) /\ t.dispatch = e.dispatch BY <1>2 DEF Run, SameContext
<1>4. Stored(t) BY <1>1, <1>3, ContextStored
<1> QED BY <1>4 DEF Failed, e

\* What the stages set, if they found what they need.
LEMMA DidStored ==
    ASSUME NEW s, NEW k, Called(s, k), Stored(s), k > Persist,
           NEW x \in {"published", "enqueued", "counted"}
    PROVE  Stored(Did(s, k, x))
<1>1. CASE ~s.dispatch[k].saw
  BY <1>1, EndedStored DEF Did
<1>2. CASE s.dispatch[k].saw
  <2> DEFINE t == [s EXCEPT !.did = @ \cup {x}]
  <2>1. s \in Run /\ k \in Stage BY DEF Called, Fits
  <2>2. s.event BY <1>2, <2>1, StageFact DEF Stored, Needs
  <2>3. /\ t.dispatch = s.dispatch /\ t.event = s.event /\ t.decision = s.decision
        /\ t.response = s.response
    BY <2>1 DEF Run
  <2>4. Called(t, k) BY SetFits
  <2>5. Did(s, k, x) = Ended(t, k, "resolved") BY <1>2 DEF Did
  <2> HIDE DEF t
  <2>6. Stored(t) BY <2>2, <2>3 DEF Stored, Needs, Over
  <2> QED BY <2>4, <2>5, <2>6, EndedStored
<1> QED BY <1>1, <1>2

LEMMA EnrichedStored ==
    ASSUME NEW s, Running(s, Enrich), Stored(s), NEW t \in Enriched(s)
    PROVE  Stored(t)
<1>0. s \in Run /\ Called(s, Enrich) BY DEF Running, Called, Fits
<1>1. CASE t = Ended(s, Enrich, "resolved") \/ t = Failed(s, Enrich)
  BY <1>0, <1>1, EndedStored, FailedStored
<1>2. CASE t = [s EXCEPT !.decision = TRUE]
  <2>1. /\ t.dispatch = s.dispatch /\ t.event = s.event /\ t.decision
        /\ t.response = s.response /\ t.did = s.did
    BY <1>0, <1>2 DEF Run
  <2>2. s.response \notin {"ok", "ignored"} BY DEF Running, Stored
  <2> QED BY <2>1, <2>2 DEF Stored, Needs, Over
<1>3. CASE \E x \in {"ok", "ignored"} :
              ~s.decision /\ t = Ended([s EXCEPT !.response = x], Enrich, "resolved")
  <2>1. PICK x \in {"ok", "ignored"} :
              ~s.decision /\ t = Ended([s EXCEPT !.response = x], Enrich, "resolved")
    BY <1>3
  <2> DEFINE e == Ended(s, Enrich, "resolved")
  <2>2. Fits(e) /\ Stored(e) /\ SameContext(s, e) /\ Over(e, Enrich)
    BY <1>0, EndedFits, EndedStored
  <2>3. t = [e EXCEPT !.response = x]
    BY <1>0, <2>1 DEF Ended, Settled, Run
  <2> HIDE DEF e
  <2>4. e \in Run BY <2>2 DEF Fits
  <2>5. /\ t.dispatch = e.dispatch /\ t.event = e.event /\ t.decision = e.decision
        /\ t.did = e.did /\ t.response = x
    BY <2>3, <2>4 DEF Run
  <2>6. ~e.decision BY <2>1, <2>2 DEF SameContext
  <2> QED BY <2>2, <2>5, <2>6 DEF Stored, Needs, Over
<1> QED BY <1>1, <1>2, <1>3 DEF Enriched

LEMMA PersistedStored ==
    ASSUME NEW s, Running(s, Persist), Stored(s), NEW t \in Persisted(s)
    PROVE  Stored(t)
<1>0. s \in Run /\ Called(s, Persist) /\ Persist \in Stage
  BY DEF Running, Called, Fits
<1>1. CASE \/ \E how \in {"resolved", "rejected"} : t = Ended(s, Persist, how)
           \/ t = Failed(s, Persist)
  BY <1>0, <1>1, EndedStored, FailedStored
<1>2. CASE s.dispatch[Persist].saw /\ t = [s EXCEPT !.event = TRUE]
  <2>1. /\ t.dispatch = s.dispatch /\ t.event /\ t.decision = s.decision
        /\ t.response = s.response /\ t.did = s.did
    BY <1>0, <1>2 DEF Run
  <2>2. s.decision BY <1>0, <1>2 DEF Stored, Needs
  <2>3. s.response # "replayed" BY DEF Running, Stored
  <2> QED BY <2>1, <2>2, <2>3 DEF Stored, Needs, Over
<1>3. CASE ~s.event /\ t = Ended([s EXCEPT !.response = "replayed"], Persist, "resolved")
  <2> DEFINE e == Ended(s, Persist, "resolved")
  <2>2. Fits(e) /\ Stored(e) /\ SameContext(s, e) /\ Over(e, Persist)
    BY <1>0, EndedFits, EndedStored
  <2>3. t = [e EXCEPT !.response = "replayed"]
    BY <1>0, <1>3 DEF Ended, Settled, Run
  <2> HIDE DEF e
  <2>4. e \in Run BY <2>2 DEF Fits
  <2>5. /\ t.dispatch = e.dispatch /\ t.event = e.event /\ t.decision = e.decision
        /\ t.did = e.did /\ t.response = "replayed"
    BY <2>3, <2>4 DEF Run
  <2>6. ~e.event BY <1>3, <2>2 DEF SameContext
  <2> QED BY <2>2, <2>5, <2>6 DEF Stored, Needs, Over
<1> QED BY <1>1, <1>2, <1>3 DEF Persisted

LEMMA ExecutedStored ==
    ASSUME NEW s, NEW k, Running(s, k), Stored(s), NEW t \in Executed(s, k)
    PROVE  Stored(t)
<1>0. Called(s, k) /\ s \in Run /\ k \in 1..7
  BY StageFact DEF Running, Called, Fits
<1>1. CASE k = Validate
  <2> DEFINE u == [s EXCEPT !.errors = Violations(ToCanonical(s.dto))]
  <2>1. Called(u, k) BY <1>0, SetFits DEF Violations
  <2>2. SameContext(s, u) /\ u.dispatch = s.dispatch BY <1>0 DEF SameContext, Run
  <2>3. Stored(u) BY <2>2, ContextStored
  <2>4. t = Ended(u, k, "resolved") BY <1>1, StageFact DEF Executed, Validated, Violated
  <2> QED BY <2>1, <2>3, <2>4, EndedStored
<1>2. CASE k = Normalize
  <2>1. \E how \in {"resolved", "rejected"} : t = Ended(s, k, how)
    BY <1>2, StageFact DEF Executed, Normalized
  <2> QED BY <1>0, <2>1, EndedStored
<1>3. CASE k = Enrich
  <2>1. t \in Enriched(s) BY <1>3, StageFact DEF Executed
  <2> QED BY <1>3, <2>1, EnrichedStored
<1>4. CASE k = Persist
  <2>1. t \in Persisted(s) BY <1>4, StageFact DEF Executed
  <2> QED BY <1>4, <2>1, PersistedStored
<1>5. CASE k = Forward
  <2>1. t = Did(s, k, "enqueued") \/ t = Failed(s, k)
    BY <1>5, StageFact DEF Executed, Forwarded
  <2>2. k > Persist BY <1>5, StageFact
  <2> QED BY <1>0, <2>1, <2>2, DidStored, FailedStored
<1>6. CASE k = EmitDomainEvents \/ k = Metrics
  <2>1. \E x \in {"published", "counted"} : t = Did(s, k, x)
    BY <1>6, StageFact DEF Executed
  <2>2. k > Persist BY <1>6, StageFact
  <2> QED BY <1>0, <2>1, <2>2, DidStored
<1> QED BY <1>0, <1>1, <1>2, <1>3, <1>4, <1>5, <1>6, StageFact

LEMMA ChainedStored ==
    ASSUME NEW s, Fits(s), Stored(s), NEW k \in Stage, k <= s.stage, NEW i \in Depth,
           s.dispatch[k].index = i - 1, s.dispatch[k].at = -1,
           NEW t \in Chained(s, k, i)
    PROVE  Stored(t)
<1> DEFINE d == s.dispatch[k]
<1>1. d \in Dispatch /\ s \in Run BY DEF Fits, Good
<1>2. d.call \in [Depth -> {"none", "open", "stage", "resolved", "rejected"}] /\ ~Over(s, k)
  BY <1>1 DEF Dispatch, Over
<1>3. CASE i < middlewares
  <2>1. t = [s EXCEPT !.dispatch[k] = Deeper(d, i)] BY <1>3 DEF Chained
  <2>2. Deeper(d, i).saw = d.saw BY <1>1 DEF Deeper, Dispatch
  <2>3. Quiet(s, k, Deeper(d, i)) BY <1>2, <2>2 DEF Stored, Quiet
  <2> QED BY <2>1, <2>3, DispatchStored
<1>4. CASE ~(i < middlewares)
  <2> DEFINE e == Reached(d, i, Needs(s, k))
             u == [s EXCEPT !.dispatch[k] = e]
  <2>1. e.saw = Needs(s, k) /\ e.at = i /\ e.call[i] = "stage"
    BY <1>2 DEF Reached
  <2>2. t = u \/ t \in Executed(u, k) BY <1>4 DEF Chained
  <2>3. Fits(u) BY <1>4, ReachedFits
  <2> HIDE DEF e
  <2>4. Quiet(s, k, e) BY <1>2, <2>1 DEF Quiet
  <2>5. Stored(u) BY <2>4, DispatchStored
  <2>6. u.dispatch[k] = e BY DispatchSame
  <2>7. Running(u, k) BY <2>1, <2>3, <2>6, DepthFact DEF Running, Called, Over
  <2> HIDE DEF u
  <2> QED BY <2>2, <2>5, <2>7, ExecutedStored
<1> QED BY <1>3, <1>4

LEMMA ContinuedStored ==
    ASSUME NEW s, Fits(s), Stored(s), NEW t \in Continued(s)
    PROVE  Stored(t)
<1>1. s \in Run /\ s.stage \in 0..7 BY StageFact DEF Fits, Run
<1>2. CASE t = [s EXCEPT !.pc = "answered"]
  <2>1. SameContext(s, t) /\ t.dispatch = s.dispatch BY <1>1, <1>2 DEF Run, SameContext
  <2> QED BY <2>1, ContextStored
<1>3. CASE s.stage # Metrics /\
           t \in Chained([s EXCEPT !.pc = "running", !.stage = @ + 1], s.stage + 1, 0)
  <2> DEFINE k == s.stage + 1
             u == [s EXCEPT !.pc = "running", !.stage = @ + 1]
  <2>1. Fits(u) /\ k \in Stage /\ k <= u.stage
        /\ u.dispatch[k].index = 0 - 1 /\ u.dispatch[k].at = -1
    BY <1>3, ComesToFits
  <2>2. SameContext(s, u) /\ u.dispatch = s.dispatch BY <1>1 DEF Run, SameContext
  <2>3. Stored(u) BY <2>2, ContextStored
  <2>4. t \in Chained(u, k, 0) BY <1>3
  <2> HIDE DEF u, k
  <2> QED BY <2>1, <2>3, <2>4, DepthFact, ChainedStored
<1> QED BY <1>2, <1>3 DEF Continued

RunsStored == \A r \in Runs : Stored(run[r])

LEMMA MovesStored ==
    ASSUME IInv, RunsStored, NEW r \in Runs, NEW t, Stored(t), Moves(r, t)
    PROVE  RunsStored'
<1>1. \A q \in Runs : run'[q] = IF q = r THEN t ELSE run[q] BY DEF Moves, IInv, TypeOK
<1> QED BY <1>1 DEF RunsStored

LEMMA InitStored == Init => RunsStored
<1> SUFFICES ASSUME Init, NEW r \in Runs PROVE Stored(run[r])
  BY DEF RunsStored
<1>1. PICK dto \in Dtos, b \in BOOLEAN : run[r] = NewRun(dto, b) BY DEF Init
<1>2. \A k \in Stage : ~run[r].dispatch[k].saw BY <1>1 DEF NewRun, NewDispatch
<1>3. run[r].did = {} /\ ~run[r].event /\ run[r].response = "none" BY <1>1 DEF NewRun
<1> QED BY <1>2, <1>3 DEF Stored

LEMMA NextStored == IInv /\ RunsStored /\ [Next]_vars => RunsStored'
<1> SUFFICES ASSUME IInv, RunsStored, [Next]_vars PROVE RunsStored'
  OBVIOUS
<1>0. \A r \in Runs : Fits(run[r]) /\ Stored(run[r]) /\ run[r] \in Run
  BY DEF IInv, RunsFit, RunsStored, Fits
<1>1. CASE UNCHANGED vars \/ Register
  BY <1>1 DEF vars, Register, RunsStored
<1>2. ASSUME NEW r \in Runs, Advance(r) PROVE RunsStored'
  <2>1. CASE \E t \in Continued(run[r]) : Moves(r, t)
    BY <1>0, <2>1, ContinuedStored, MovesStored
  <2>2. CASE Moves(r, [run[r] EXCEPT !.pc = "threw"])
    <3> DEFINE t == [run[r] EXCEPT !.pc = "threw"]
    <3>1. SameContext(run[r], t) /\ t.dispatch = run[r].dispatch
      BY <1>0 DEF Run, SameContext
    <3> QED BY <1>0, <2>2, <3>1, ContextStored, MovesStored
  <2> QED BY <1>2, <2>1, <2>2 DEF Advance, Moves
<1>3. ASSUME NEW r \in Runs, NEW k \in Stage, Execute(r, k) PROVE RunsStored'
  <2>1. Called(run[r], k) BY <1>0, <1>3, RunningIsCalled DEF Execute
  <2>2. Running(run[r], k) BY <1>3, <2>1 DEF Running, Over, Execute
  <2>3. PICK t \in Executed(run[r], k) : Moves(r, t) BY <1>3 DEF Execute, Moves
  <2> QED BY <1>0, <2>2, <2>3, ExecutedStored, MovesStored
<1>4. ASSUME NEW r \in Runs, NEW k \in Stage, NEW i \in Depth, CallNext(r, k, i)
      PROVE  RunsStored'
  <2>1. /\ run[r].dispatch[k].index = (i + 1) - 1 /\ run[r].dispatch[k].at = -1
        /\ k <= run[r].stage /\ i + 1 \in Depth
    BY <1>0, <1>4, DepthFact, NextIsNew DEF CallNext, HasNext
  <2>2. PICK t \in Chained(run[r], k, i + 1) : Moves(r, t) BY <1>4 DEF CallNext, Moves
  <2> QED BY <1>0, <2>1, <2>2, ChainedStored, MovesStored
<1>5. ASSUME NEW r \in Runs, NEW k \in Stage, NEW i \in Depth,
             Resolve(r, k, i) \/ Reject(r, k, i)
      PROVE  RunsStored'
  <2>1. PICK how \in {"resolved", "rejected"} :
           LET u == Settled(run[r], k, i, how)
           IN  \/ \E n : Moves(r, [u EXCEPT !.meddled = n])
               \/ \E f : Moves(r, [u EXCEPT !.fault = f])
    <3>1. CASE Resolve(r, k, i) BY <3>1 DEF Resolve, Moves
    <3>2. CASE Reject(r, k, i) BY <3>2 DEF Reject, Moves
    <3> QED BY <1>5, <3>1, <3>2
  <2> DEFINE u == Settled(run[r], k, i, how)
  <2>2. run[r].dispatch[k].call[i] # "none"
    BY <1>5 DEF Resolve, Reject
  <2>3. Fits(u) /\ Stored(u) BY <1>0, <2>2, SettleFits, SettleStored
  <2>4. \/ \E n : Moves(r, [u EXCEPT !.meddled = n])
        \/ \E f : Moves(r, [u EXCEPT !.fault = f])
    BY <2>1
  <2> HIDE DEF u
  <2>5. u \in Run BY <2>3 DEF Fits
  <2>6. PICK t : Moves(r, t) /\ SameContext(u, t) /\ t.dispatch = u.dispatch
    <3>1. /\ \A n : LET t == [u EXCEPT !.meddled = n]
                   IN  SameContext(u, t) /\ t.dispatch = u.dispatch
          /\ \A f : LET t == [u EXCEPT !.fault = f]
                   IN  SameContext(u, t) /\ t.dispatch = u.dispatch
      BY <2>5 DEF Run, SameContext
    <3> QED BY <2>4, <3>1
  <2> QED BY <2>3, <2>6, ContextStored, MovesStored
<1>6. ASSUME NEW r \in Runs, NEW k \in Stage, NEW i \in Depth, Respond(r, k, i)
      PROVE  RunsStored'
  <2> DEFINE t == [run[r] EXCEPT !.response = "middleware"]
  <2>1. Moves(r, t) BY <1>6 DEF Respond, Moves
  <2>2. /\ t.dispatch = run[r].dispatch /\ t.event = run[r].event
        /\ t.decision = run[r].decision /\ t.did = run[r].did /\ t.response = "middleware"
    BY <1>0 DEF Run
  <2> HIDE DEF t
  <2>3. Stored(t) BY <1>0, <2>2 DEF Stored, Needs, Over
  <2> QED BY <2>1, <2>3, MovesStored
<1> QED BY <1>1, <1>2, <1>3, <1>4, <1>5, <1>6 DEF Next

\* In whatever order middlewares let the stages run, and whichever they skip,
\* nothing is published, enqueued or counted for an event that the run did not
\* store, and none is stored that the tracker blocked.
THEOREM OnlyStoredEverGoesOut == Spec => []OnlyStoredGoesOut
<1>1. ASSUME RunsStored, NEW r \in Runs
      PROVE  /\ run[r].did # {} => run[r].event
             /\ run[r].event => run[r].decision
             /\ run[r].response \in {"ignored", "ok"} => ~run[r].event
             /\ run[r].response = "replayed" => run[r].did = {}
  BY <1>1 DEF RunsStored, Stored
<1>2. RunsStored => OnlyStoredGoesOut BY <1>1 DEF OnlyStoredGoesOut
<1>3. Spec => []RunsStored BY InitStored, NextStored, FitsAlways, PTL DEF Spec
<1> QED BY <1>2, <1>3, PTL

-------------------------------------------------------------------------------
(* What the edge and the engine make of a DTO                               *)

LEMMA FieldsAreValues ==
    \A dto \in Dto, f \in Fields \ {"metadata"} :
        dto[f] \in Value /\ ToCanonical(dto)[f] \in Value /\ Fields \subseteq DOMAIN dto
<1> SUFFICES ASSUME NEW dto \in Dto
             PROVE  \A f \in Fields \ {"metadata"} : /\ dto[f] \in Value /\ ToCanonical(dto)[f] \in Value
                                      /\ Fields \subseteq DOMAIN dto
  OBVIOUS
<1>1. Empty \in Value /\ Absent \in Value BY DEF Empty, Text, Absent, Value
<1> QED BY <1>1 DEF Dto, Fields, ToCanonical

\* A string within its limit is none too long, and what is absent is no violation.
LEMMA ValueFacts ==
    \A v \in Value :
        /\ ~Given(v) => v = Absent /\ ~Truthy(v)
        /\ ~NotUuidLike(Absent) /\ ~NotUrl(Absent) /\ ~NotNumber(Absent)
        /\ \A n \in Nat : ~Exceeds(Absent, n)
        /\ \A n \in Nat : StringUpTo(v, n) => ~Exceeds(v, n)
  BY DEF Value, Given, Truthy, Absent, NotUuidLike, NotUrl, NotNumber, Exceeds, StringUpTo

LEMMA CanonicalFields ==
    ASSUME NEW dto \in Dto
    PROVE  LET event == ToCanonical(dto)
           IN  /\ \A f \in {"visitorId", "eventType", "utm", "value", "browser", "deviceType"} :
                     event[f] = dto[f]
               /\ event["clickId"] = IF Truthy(dto.clickId) THEN dto.clickId ELSE Absent
               /\ event["eventId"] = IF Given(dto.eventId) THEN dto.eventId ELSE Empty
               /\ event["landingPage"] = IF Given(dto.landingPage) THEN dto.landingPage
                                                                  ELSE dto.sourceUrl
  BY DEF Dto, ToCanonical

\* The engine questions of an event that the edge admitted what the edge does not
\* look at.
LEMMA AdmittedIsQuestioned ==
    ASSUME NEW dto \in Dto, Admitted(dto)
    PROVE  Violations(ToCanonical(dto)) \subseteq {"visitorId", "eventId", "landingPage", "eventType"}
<1> DEFINE event == ToCanonical(dto)
<1>1. event["utm"] = dto.utm /\ event["value"] = dto.value BY CanonicalFields
<1>2. /\ dto.utm \in Value /\ dto.clickId \in Value /\ dto.value \in Value
  BY DEF Dto
<1>3. ~Exceeds(event["utm"], 256)
  BY <1>1, <1>2, ValueFacts DEF Admitted, Optional
<1>4. /\ event["clickId"] = Absent \/ event["clickId"].type = "string"
      /\ ~Exceeds(event["clickId"], 512)
  <2>1. event["clickId"] = IF Truthy(dto.clickId) THEN dto.clickId ELSE Absent
    BY CanonicalFields
  <2>2. CASE Truthy(dto.clickId)
    <3>1. Given(dto.clickId) BY <1>2, <2>2, ValueFacts
    <3>2. StringUpTo(dto.clickId, 512) BY <3>1 DEF Admitted, Optional
    <3> QED BY <1>2, <2>1, <2>2, <3>2, ValueFacts DEF StringUpTo
  <2>3. CASE ~Truthy(dto.clickId)
    BY <1>2, <2>1, <2>3, ValueFacts
  <2> QED BY <2>2, <2>3
<1>5. ~NotNumber(event["value"])
  <2>1. ~Given(dto.value) \/ dto.value.type = "number" BY DEF Admitted, Optional
  <2> QED BY <1>1, <2>1 DEF NotNumber, Given
<1>6. ~Given(Absent) BY DEF Given, Absent
<1> HIDE DEF event
<1>7. \A f \in Violations(event) : f \in Fields /\ f \notin {"utm", "clickId", "value"}
  BY <1>3, <1>4, <1>5, <1>6 DEF Violations
<1>8. \A f \in Violations(event) : f \notin {"sourceUrl", "browser", "deviceType", "metadata"}
  BY DEF Violations
<1> QED BY <1>7, <1>8 DEF Fields, event

\* What makes a stage reject without that anything fails.
Causes(s, k) ==
    \/ k = Normalize /\ ~Normalizes(ToCanonical(s.dto))
    \/ k = Persist /\ (Refused(s) \/ Overlong(s.dto.visitorId))

LEMMA CauseOfAdmitted ==
    ASSUME NEW s, NEW dto \in Dto, s.dto = dto, Admitted(dto), NEW k \in Stage, Causes(s, k),
           ~HoldsNul(dto), ~Inherits(s)
    PROVE  \/ dto.occurredAt # "fine" \/ dto.eventType.form # "enum"
           \/ ~Trims(dto.browser) \/ ~Trims(dto.deviceType)
           \/ dto.metadata = Null \/ TooLarge(dto.value)
<1>1. /\ dto.utm \in Value /\ dto.clickId \in Value /\ dto.visitorId \in Value
  BY DEF Dto
<1>2. CASE ~Normalizes(ToCanonical(dto))
  <2>1. Trims(dto.utm)
    <3>1. ~Given(dto.utm) \/ dto.utm.type = "string" BY DEF Admitted, Optional, StringUpTo
    <3> QED BY <1>1, <3>1, ValueFacts DEF Trims
  <2>2. \A f \in {"utm", "browser", "deviceType"} : ToCanonical(dto)[f] = dto[f]
    BY CanonicalFields
  <2> QED BY <1>2, <2>1, <2>2 DEF Normalizes
<1>3. CASE Refused(s)
  <2>1. Repeated.type = "object" /\ Given(Repeated) BY DEF Repeated, Json, Given
  <2>2. \A f \in {"visitorId", "utm", "clickId"} : dto[f] # Repeated
    BY <2>1 DEF Admitted, Optional, StringUpTo
  <2> QED BY <1>3, <2>2 DEF Refused
<1>4. ~Overlong(dto.visitorId)
  BY <1>1 DEF Admitted, StringUpTo, Overlong, Value
<1> QED BY <1>2, <1>3, <1>4 DEF Causes

LEMMA CauseOfClick ==
    ASSUME NEW s, NEW dto \in Dto, s.dto = dto, Clicked(dto), NEW k \in Stage, Causes(s, k),
           ~HoldsNul(dto), ~Inherits(s)
    PROVE  Repeated \in {dto.visitorId, dto.utm, dto.clickId} \/ Overlong(dto.visitorId)
<1>1. PICK nul \in BOOLEAN : \A f \in Fields :
         dto[f] = Click(WithNul(Text(1, "other"), nul),
                        [vid |-> dto.visitorId, utm |-> dto.utm, clickId |-> dto.clickId])[f]
  BY DEF Clicked
<1>2. /\ dto["browser"] = Absent /\ dto["deviceType"] = Absent /\ dto["value"] = Absent
      /\ dto["eventType"] = Text(14, "enum")
      /\ dto["metadata"] = WithNul(Json("object", 1), WithNul(Text(1, "other"), nul).nul)
  BY <1>1 DEF Click, Fields
<1>3. CASE ~Normalizes(ToCanonical(dto))
  <2>1. \A f \in {"utm", "browser", "deviceType"} : ToCanonical(dto)[f] = dto[f]
    BY CanonicalFields
  <2>2. Trims(Absent) BY DEF Trims, Absent, Truthy
  <2>3. ~Trims(dto["utm"]) BY <1>2, <1>3, <2>1, <2>2 DEF Normalizes
  <2>4. Given(dto.utm) /\ Parameter(dto.utm) BY DEF Clicked
  <2> QED BY <2>3, <2>4 DEF Trims, Parameter
<1>4. CASE Refused(s)
  <2>1. dto.occurredAt = "fine" /\ dto.eventType.form = "enum" BY <1>2 DEF Clicked, Text
  <2>2. ~TooLarge(dto.value) BY <1>2 DEF TooLarge, Absent
  <2>3. dto.metadata.type = "object" BY <1>2 DEF WithNul, Json
  <2>4. dto.metadata # Null BY <2>3 DEF Null, Json
  <2> QED BY <1>4, <2>1, <2>2, <2>4 DEF Refused
<1> QED BY <1>3, <1>4 DEF Causes

-------------------------------------------------------------------------------
(* What executing a stage does to a run                                     *)

\* The stage has the effect that the stages after it rely on.
Effect(s, k) ==
    /\ k = Enrich => s.decision
    /\ k = Persist => s.event
    /\ k = EmitDomainEvents => "published" \in s.did
    /\ k = Forward => "enqueued" \in s.did
    /\ k = Metrics => "counted" \in s.did

\* Where the run is, and whose it is.
SameCourse(s, t) ==
    /\ t.dto = s.dto /\ t.pc = s.pc /\ t.stage = s.stage /\ t.meddled = s.meddled
    /\ t.inherits = s.inherits

LEMMA SameCauses ==
    ASSUME NEW s, NEW t, t.dto = s.dto, t.inherits = s.inherits
    PROVE  \A k : Causes(t, k) <=> Causes(s, k)
  BY DEF Causes, Refused, Inherits

\* The context only grows.
Grows(s, t) ==
    /\ s.decision => t.decision
    /\ s.event => t.event
    /\ s.did \subseteq t.did
    /\ s.fault => t.fault
    /\ t.response = "none" => s.response = "none"
    /\ t.errors \subseteq s.errors \cup Violations(ToCanonical(s.dto))

\* The call of a dispatch that is its stage's, once it has settled.
Ending(d, how) == [d EXCEPT !.call[d.at] = how]

\* Stage k of s goes on, or is through: then it had its effect, or answered, or
\* something made it fail.
Executes(s, k, t) ==
    /\ SameCourse(s, t)
    /\ Grows(s, t)
    /\ \/ t.dispatch = s.dispatch
       \/ /\ t.dispatch = [s.dispatch EXCEPT ![k] = Ending(s.dispatch[k], "resolved")]
          /\ s.dispatch[k].saw /\ t.response = "none" => Effect(t, k)
       \/ /\ t.dispatch = [s.dispatch EXCEPT ![k] = Ending(s.dispatch[k], "rejected")]
          /\ t.fault \/ Causes(s, k)

\* What Ended leaves alone: all but the dispatches.
SameBesides(s, t) ==
    /\ SameCourse(s, t) /\ SameContext(s, t)
    /\ t.errors = s.errors /\ t.fault = s.fault

LEMMA EndedIs ==
    ASSUME NEW s, NEW k, Called(s, k), NEW how
    PROVE  LET t == Ended(s, k, how)
           IN  /\ SameBesides(s, t)
               /\ t.dispatch = [s.dispatch EXCEPT ![k] = Ending(s.dispatch[k], how)]
<1>1. s \in Run /\ k \in Stage BY DEF Called, Fits
<1>2. Ended(s, k, how) = [s EXCEPT !.dispatch[k] = Ending(s.dispatch[k], how)]
  BY DEF Ended, Settled, Ending
<1> HIDE DEF Ending
<1> QED BY <1>1, <1>2 DEF Run, SameBesides, SameCourse, SameContext

\* It ends in the context it has come to.
LEMMA EndedExecutes ==
    ASSUME NEW s, NEW k, Called(s, k), NEW u, u.dispatch = s.dispatch, Called(u, k),
           SameCourse(s, u), Grows(s, u), NEW how,
           \/ how = "resolved" /\ (s.dispatch[k].saw /\ u.response = "none" => Effect(u, k))
           \/ how = "rejected" /\ (u.fault \/ Causes(s, k))
    PROVE  Executes(s, k, Ended(u, k, how))
<1> DEFINE t == Ended(u, k, how)
<1>1. SameBesides(u, t) /\ t.dispatch = [s.dispatch EXCEPT ![k] = Ending(s.dispatch[k], how)]
  BY EndedIs
<1> HIDE DEF t
<1>2. SameCourse(s, t) /\ Grows(s, t)
  BY <1>1 DEF SameBesides, SameCourse, SameContext, Grows
<1>3. Effect(u, k) => Effect(t, k) BY <1>1 DEF Effect, SameBesides, SameContext
<1>4. t.response = u.response /\ t.fault = u.fault BY <1>1 DEF SameBesides, SameContext
<1>5. Executes(s, k, t) BY <1>1, <1>2, <1>3, <1>4 DEF Executes
<1> QED BY <1>5 DEF t

LEMMA FailedExecutes ==
    ASSUME NEW s, NEW k, Called(s, k) PROVE Executes(s, k, Failed(s, k))
<1> DEFINE e == Ended(s, k, "rejected")
           t == [e EXCEPT !.fault = TRUE]
<1>1. Fits(e) BY EndedFits
<1>2. SameBesides(s, e) /\ e.dispatch = [s.dispatch EXCEPT ![k] = Ending(s.dispatch[k], "rejected")]
  BY EndedIs
<1> HIDE DEF e
<1>3. e \in Run BY <1>1 DEF Fits
<1>4. SameCourse(e, t) /\ SameContext(e, t) /\ t.dispatch = e.dispatch /\ t.fault
      /\ t.errors = e.errors
  BY <1>3 DEF Run, SameCourse, SameContext
<1> HIDE DEF t
<1>5. SameCourse(s, t) /\ Grows(s, t)
  BY <1>2, <1>4 DEF SameBesides, SameCourse, SameContext, Grows
<1>6. Executes(s, k, t) BY <1>2, <1>4, <1>5 DEF Executes
<1> QED BY <1>6 DEF Failed, e, t

LEMMA DidExecutes ==
    ASSUME NEW s, NEW k, Called(s, k), NEW x \in {"published", "enqueued", "counted"},
           \/ k = EmitDomainEvents /\ x = "published"
           \/ k = Forward /\ x = "enqueued"
           \/ k = Metrics /\ x = "counted"
    PROVE  Executes(s, k, Did(s, k, x))
<1>1. CASE ~s.dispatch[k].saw
  <2>1. SameCourse(s, s) /\ Grows(s, s) BY DEF SameCourse, Grows
  <2> QED BY <1>1, <2>1, EndedExecutes DEF Did
<1>2. CASE s.dispatch[k].saw
  <2> DEFINE u == [s EXCEPT !.did = @ \cup {x}]
  <2>1. s \in Run /\ k \in Stage BY DEF Called, Fits
  <2>2. Called(u, k) BY SetFits
  <2>3. u.dispatch = s.dispatch /\ SameCourse(s, u) /\ Grows(s, u) /\ x \in u.did
    BY <2>1 DEF Run, SameCourse, Grows
  <2>4. Did(s, k, x) = Ended(u, k, "resolved") BY <1>2 DEF Did
  <2> HIDE DEF u
  <2>5. Effect(u, k) BY <2>3, StageFact DEF Effect
  <2> QED BY <2>2, <2>3, <2>4, <2>5, EndedExecutes
<1> QED BY <1>1, <1>2

LEMMA EnrichedExecutes ==
    ASSUME NEW s, Called(s, Enrich), NEW t \in Enriched(s)
    PROVE  Executes(s, Enrich, t)
<1>0. s \in Run BY DEF Called, Fits
<1>1. SameCourse(s, s) /\ Grows(s, s) BY DEF SameCourse, Grows
<1>2. CASE s.decision /\ t = Ended(s, Enrich, "resolved")
  <2>1. Effect(s, Enrich) BY <1>2, StageFact DEF Effect
  <2> QED BY <1>1, <1>2, <2>1, EndedExecutes
<1>3. CASE t = Failed(s, Enrich)
  BY <1>3, FailedExecutes
<1>4. CASE t = [s EXCEPT !.decision = TRUE]
  <2>1. SameCourse(s, t) /\ Grows(s, t) /\ t.dispatch = s.dispatch
    BY <1>0, <1>4 DEF Run, SameCourse, Grows
  <2> QED BY <2>1 DEF Executes
<1>5. CASE \E x \in {"ok", "ignored"} : t = Ended([s EXCEPT !.response = x], Enrich, "resolved")
  <2>1. PICK x \in {"ok", "ignored"} : t = Ended([s EXCEPT !.response = x], Enrich, "resolved")
    BY <1>5
  <2> DEFINE u == [s EXCEPT !.response = x]
  <2>2. Called(u, Enrich) BY SetFits
  <2>3. SameCourse(s, u) /\ Grows(s, u) /\ u.dispatch = s.dispatch /\ u.response = x
    BY <1>0 DEF Run, SameCourse, Grows
  <2> HIDE DEF u
  <2>4. t = Ended(u, Enrich, "resolved") BY <2>1 DEF u
  <2> QED BY <2>2, <2>3, <2>4, EndedExecutes
<1> QED BY <1>2, <1>3, <1>4, <1>5 DEF Enriched

LEMMA PersistedExecutes ==
    ASSUME NEW s, Called(s, Persist), NEW t \in Persisted(s)
    PROVE  Executes(s, Persist, t)
<1>0. s \in Run BY DEF Called, Fits
<1>1. SameCourse(s, s) /\ Grows(s, s) BY DEF SameCourse, Grows
<1>2. CASE (~s.dispatch[Persist].saw \/ s.event) /\ t = Ended(s, Persist, "resolved")
  <2>1. s.event => Effect(s, Persist) BY StageFact DEF Effect
  <2> QED BY <1>1, <1>2, <2>1, EndedExecutes
<1>3. CASE (Refused(s) \/ Overlong(s.dto.visitorId)) /\ t = Ended(s, Persist, "rejected")
  BY <1>1, <1>3, EndedExecutes DEF Causes
<1>4. CASE t = Failed(s, Persist)
  BY <1>4, FailedExecutes
<1>5. CASE t = [s EXCEPT !.event = TRUE]
  <2>1. SameCourse(s, t) /\ Grows(s, t) /\ t.dispatch = s.dispatch
    BY <1>0, <1>5 DEF Run, SameCourse, Grows
  <2> QED BY <2>1 DEF Executes
<1>6. CASE t = Ended([s EXCEPT !.response = "replayed"], Persist, "resolved")
  <2> DEFINE u == [s EXCEPT !.response = "replayed"]
  <2>2. Called(u, Persist) BY SetFits
  <2>3. SameCourse(s, u) /\ Grows(s, u) /\ u.dispatch = s.dispatch /\ u.response = "replayed"
    BY <1>0 DEF Run, SameCourse, Grows
  <2> HIDE DEF u
  <2>4. t = Ended(u, Persist, "resolved") BY <1>6 DEF u
  <2> QED BY <2>2, <2>3, <2>4, EndedExecutes
<1> QED BY <1>2, <1>3, <1>4, <1>5, <1>6 DEF Persisted

LEMMA ExecutedExecutes ==
    ASSUME NEW s, NEW k, Called(s, k), NEW t \in Executed(s, k)
    PROVE  Executes(s, k, t)
<1>0. k \in 1..7 /\ s \in Run BY StageFact DEF Called, Fits
<1>1. CASE k = Validate
  <2> DEFINE u == [s EXCEPT !.errors = Violations(ToCanonical(s.dto))]
  <2>1. Called(u, k) BY SetFits DEF Violations
  <2>2. SameCourse(s, u) /\ Grows(s, u) /\ u.dispatch = s.dispatch
    BY <1>0 DEF Run, SameCourse, Grows
  <2>3. t = Ended(u, k, "resolved") BY <1>1, StageFact DEF Executed, Validated, Violated
  <2>4. Effect(u, k) BY <1>1, StageFact DEF Effect
  <2> HIDE DEF u
  <2> QED BY <2>1, <2>2, <2>3, <2>4, EndedExecutes
<1>2. CASE k = Normalize
  <2>1. t = Ended(s, k, IF Normalizes(ToCanonical(s.dto)) THEN "resolved" ELSE "rejected")
    BY <1>2, StageFact DEF Executed, Normalized
  <2>2. SameCourse(s, s) /\ Grows(s, s) BY DEF SameCourse, Grows
  <2>3. Effect(s, k) BY <1>2, StageFact DEF Effect
  <2>4. ~Normalizes(ToCanonical(s.dto)) => Causes(s, k) BY <1>2 DEF Causes
  <2>5. CASE Normalizes(ToCanonical(s.dto))
    BY <2>1, <2>2, <2>3, <2>5, EndedExecutes
  <2>6. CASE ~Normalizes(ToCanonical(s.dto))
    BY <2>1, <2>2, <2>4, <2>6, EndedExecutes
  <2> QED BY <2>5, <2>6
<1>3. CASE k = Enrich
  BY <1>3, EnrichedExecutes, StageFact DEF Executed
<1>4. CASE k = Persist
  BY <1>4, PersistedExecutes, StageFact DEF Executed
<1>5. CASE k = Forward
  <2>1. t = Did(s, k, "enqueued") \/ t = Failed(s, k)
    BY <1>5, StageFact DEF Executed, Forwarded
  <2>2. Executes(s, k, Did(s, k, "enqueued")) BY <1>5, DidExecutes
  <2>3. Executes(s, k, Failed(s, k)) BY FailedExecutes
  <2> QED BY <2>1, <2>2, <2>3
<1>6. CASE k = EmitDomainEvents
  <2>1. t = Did(s, k, "published") BY <1>6, StageFact DEF Executed
  <2>2. Executes(s, k, Did(s, k, "published")) BY <1>6, DidExecutes
  <2> QED BY <2>1, <2>2
<1>7. CASE k = Metrics
  <2>1. t = Did(s, k, "counted") BY <1>7, StageFact DEF Executed
  <2>2. Executes(s, k, Did(s, k, "counted")) BY <1>7, DidExecutes
  <2> QED BY <2>1, <2>2
<1> QED BY <1>0, <1>1, <1>2, <1>3, <1>4, <1>5, <1>6, <1>7, StageFact

-------------------------------------------------------------------------------
(* Who was accepted went through, and who was rejected has a cause          *)

\* A middleware that has resolved stands above a stage that has.
Straight(d) == \A i \in Depth : d.call[i] = "resolved" => d.at # -1 /\ d.call[d.at] = "resolved"

\* The stage k, called in the dispatch d of s, found what it needs, and had its effect.
Complete(s, k, d) ==
    d.at # -1 => d.saw /\ (d.call[d.at] = "resolved" => Effect(s, k))

\* The strengthening of AcceptedWentThrough, of a run that no middleware meddled with.
Through(s) ==
    /\ \A k \in Stage : Straight(s.dispatch[k])
    /\ \A j \in Stage : j < s.stage => s.dispatch[j].call[0] = "resolved"
    /\ s.response = "none" => \A k \in Stage : Complete(s, k, s.dispatch[k])
    /\ s.pc = "answered" /\ s.response = "none" => s.dispatch[Metrics].call[0] = "resolved"

\* The strengthening of RejectedForCause: whatever rejects passes on a failure, or
\* finds a cause in the DTO.
Blamed(s) ==
    /\ s.errors \subseteq Violations(ToCanonical(s.dto))
    /\ \A k \in Stage, i \in Depth :
          s.dispatch[k].call[i] = "rejected" => s.fault \/ Causes(s, k)
    /\ s.pc = "threw" => s.fault \/ \E k \in Stage : Causes(s, k)

Bears(s) == Blamed(s) /\ (s.meddled = 0 => Through(s))

\* What the dispatch of stage k may become in t.
Blames(s, k, d, t) ==
    \A i \in Depth : d.call[i] = "rejected" =>
        s.dispatch[k].call[i] = "rejected" \/ t.fault \/ Causes(s, k)
Leads(s, k, d, t) ==
    /\ Straight(d)
    /\ s.dispatch[k].call[0] = "resolved" => d.call[0] = "resolved"
    /\ t.response = "none" => Complete(t, k, d)

LEMMA DispatchBlamed ==
    ASSUME NEW s, Fits(s), Blamed(s), NEW k \in Stage, NEW d, NEW t,
           t.dispatch = [s.dispatch EXCEPT ![k] = d],
           SameCourse(s, t), Grows(s, t), Blames(s, k, d, t)
    PROVE  Blamed(t)
<1>1. s.dispatch \in [Stage -> Dispatch] BY DEF Fits, Run
<1>2. \A j \in Stage : t.dispatch[j] = IF j = k THEN d ELSE s.dispatch[j]
  BY <1>1
<1>3. /\ t.dto = s.dto /\ t.pc = s.pc /\ (s.fault => t.fault)
      /\ \A j : Causes(t, j) <=> Causes(s, j)
  BY SameCauses DEF SameCourse, Grows
<1>4. t.errors \subseteq Violations(ToCanonical(t.dto))
  BY <1>3 DEF Blamed, Grows
<1>5. ASSUME NEW j \in Stage, NEW i \in Depth, t.dispatch[j].call[i] = "rejected"
      PROVE  t.fault \/ Causes(t, j)
  <2>1. CASE j = k BY <1>2, <1>3, <1>5, <2>1 DEF Blamed, Blames
  <2>2. CASE j # k BY <1>2, <1>3, <1>5, <2>2 DEF Blamed
  <2> QED BY <2>1, <2>2
<1>6. t.pc = "threw" => t.fault \/ \E j \in Stage : Causes(t, j)
  BY <1>3 DEF Blamed
<1> QED BY <1>4, <1>5, <1>6 DEF Blamed

LEMMA DispatchThrough ==
    ASSUME NEW s, Fits(s), Through(s), NEW k \in Stage, NEW d, NEW t,
           t.dispatch = [s.dispatch EXCEPT ![k] = d],
           SameCourse(s, t), Grows(s, t), Leads(s, k, d, t)
    PROVE  Through(t)
<1>1. s.dispatch \in [Stage -> Dispatch] BY DEF Fits, Run
<1>2. \A j \in Stage : t.dispatch[j] = IF j = k THEN d ELSE s.dispatch[j]
  BY <1>1
<1>3. t.pc = s.pc /\ t.stage = s.stage /\ (t.response = "none" => s.response = "none")
  BY DEF SameCourse, Grows
<1>4. \A j \in Stage : Straight(t.dispatch[j]) BY <1>2 DEF Through, Leads
<1>5. \A j \in Stage : s.dispatch[j].call[0] = "resolved" => t.dispatch[j].call[0] = "resolved"
  BY <1>2 DEF Leads
<1>6. \A j \in Stage : j < t.stage => t.dispatch[j].call[0] = "resolved"
  BY <1>3, <1>5 DEF Through
<1>7. ASSUME t.response = "none", NEW j \in Stage PROVE Complete(t, j, t.dispatch[j])
  <2>1. CASE j = k BY <1>2, <1>7, <2>1 DEF Leads
  <2>2. CASE j # k
    <3>1. Complete(s, j, s.dispatch[j]) BY <1>3, <1>7 DEF Through
    <3>2. Effect(s, j) => Effect(t, j) BY DEF Effect, Grows
    <3> QED BY <1>2, <2>2, <3>1, <3>2 DEF Complete
  <2> QED BY <2>1, <2>2
<1>8. t.pc = "answered" /\ t.response = "none" => t.dispatch[Metrics].call[0] = "resolved"
  BY <1>3, <1>5, StageFact DEF Through
<1> QED BY <1>4, <1>6, <1>7, <1>8 DEF Through

LEMMA DispatchBears ==
    ASSUME NEW s, Fits(s), Bears(s), NEW k \in Stage, NEW d, NEW t,
           t.dispatch = [s.dispatch EXCEPT ![k] = d],
           SameCourse(s, t), Grows(s, t), Blames(s, k, d, t),
           s.meddled = 0 => Leads(s, k, d, t)
    PROVE  Bears(t)
<1>1. Blamed(t) BY DispatchBlamed DEF Bears
<1>2. t.meddled = s.meddled BY DEF SameCourse
<1>3. s.meddled = 0 => Through(t) BY DispatchThrough DEF Bears
<1> QED BY <1>1, <1>2, <1>3 DEF Bears

\* The stage under way has not settled; now it may.
LEMMA ExecutesBears ==
    ASSUME NEW s, NEW k, Running(s, k), Bears(s), NEW t, Executes(s, k, t)
    PROVE  Bears(t)
<1> DEFINE d == s.dispatch[k]
<1>1. /\ Fits(s) /\ k \in Stage /\ Good(d) /\ d \in Dispatch /\ d.at \in Depth
      /\ s.dispatch \in [Stage -> Dispatch]
      /\ d.call \in [Depth -> {"none", "open", "stage", "resolved", "rejected"}]
  BY DEF Running, Called, Fits, Good, Dispatch, Run
<1>2. d.call[d.at] = "stage" BY <1>1 DEF Running, Over, Called, Good
<1>3. SameCourse(s, t) /\ Grows(s, t) BY DEF Executes
<1>4. CASE t.dispatch = s.dispatch
  <2>1. t.dispatch = [s.dispatch EXCEPT ![k] = d] BY <1>1, <1>4
  <2>2. Blames(s, k, d, t) BY DEF Blames
  <2>3. s.meddled = 0 => Leads(s, k, d, t)
    <3>1. Effect(s, k) => Effect(t, k) BY <1>3 DEF Effect, Grows
    <3>2. t.response = "none" => s.response = "none" BY <1>3 DEF Grows
    <3> QED BY <1>1, <3>1, <3>2 DEF Leads, Bears, Through, Complete
  <2> QED BY <1>1, <1>3, <2>1, <2>2, <2>3, DispatchBears
<1>5. ASSUME NEW how \in {"resolved", "rejected"},
             t.dispatch = [s.dispatch EXCEPT ![k] = Ending(d, how)],
             how = "resolved" => (d.saw /\ t.response = "none" => Effect(t, k)),
             how = "rejected" => t.fault \/ Causes(s, k)
      PROVE  Bears(t)
  <2> DEFINE e == Ending(d, how)
  <2>1. /\ e.at = d.at /\ e.saw = d.saw
        /\ \A i \in Depth : e.call[i] = IF i = d.at THEN how ELSE d.call[i]
    BY <1>1 DEF Ending, Dispatch
  <2> HIDE DEF e
  <2>2. Blames(s, k, e, t) BY <1>5, <2>1 DEF Blames
  <2>3. ASSUME s.meddled = 0 PROVE Leads(s, k, e, t)
    <3>1. Straight(d) /\ (s.response = "none" => Complete(s, k, d))
      BY <1>1, <2>3 DEF Bears, Through
    <3>2. \A i \in Depth : d.call[i] # "resolved" BY <1>2, <3>1 DEF Straight
    <3>3. Straight(e) BY <1>1, <2>1, <3>2, DepthFact DEF Straight
    <3>4. d.call[0] # "resolved" BY <3>2, DepthFact
    <3>5. t.response = "none" => Complete(t, k, e)
      BY <1>1, <1>3, <1>5, <2>1, <3>1 DEF Complete, Grows
    <3> QED BY <3>3, <3>4, <3>5 DEF Leads
  <2> QED BY <1>1, <1>3, <1>5, <2>2, <2>3, DispatchBears DEF e
<1>6. \/ t.dispatch = s.dispatch
      \/ /\ t.dispatch = [s.dispatch EXCEPT ![k] = Ending(d, "resolved")]
         /\ d.saw /\ t.response = "none" => Effect(t, k)
      \/ /\ t.dispatch = [s.dispatch EXCEPT ![k] = Ending(d, "rejected")]
         /\ t.fault \/ Causes(s, k)
  BY DEF Executes
<1>7. \/ t.dispatch = s.dispatch
      \/ \E how \in {"resolved", "rejected"} :
            /\ t.dispatch = [s.dispatch EXCEPT ![k] = Ending(d, how)]
            /\ how = "resolved" => (d.saw /\ t.response = "none" => Effect(t, k))
            /\ how = "rejected" => t.fault \/ Causes(s, k)
  BY <1>6
<1> QED BY <1>4, <1>5, <1>7

\* In a run that no middleware meddled with, a stage finds what it needs, unless the
\* run is answered already.
LEMMA FindsItsNeeds ==
    ASSUME NEW s, Fits(s), Through(s), NEW k \in Stage, k <= s.stage, s.response = "none"
    PROVE  Needs(s, k)
<1>1. k \in 1..7 /\ s.stage \in 0..7 BY StageFact DEF Fits, Run
<1>2. ASSUME NEW j \in Stage, j < k PROVE Effect(s, j)
  <2>1. j < s.stage /\ j \in 1..7 BY <1>1, <1>2, StageFact
  <2>2. s.dispatch[j].call[0] = "resolved" BY <2>1 DEF Through
  <2>3. Straight(s.dispatch[j]) /\ Complete(s, j, s.dispatch[j]) BY DEF Through
  <2> QED BY <2>2, <2>3, DepthFact DEF Straight, Complete
<1>3. CASE k <= Enrich BY <1>1, <1>3, StageFact DEF Needs
<1>4. CASE k = Persist
  <2>1. Enrich < k /\ Enrich \in Stage BY <1>4, StageFact
  <2>2. Effect(s, Enrich) BY <1>2, <2>1
  <2> QED BY <1>4, <2>2, StageFact DEF Effect, Needs
<1>5. CASE k > Persist
  <2>1. Persist < k /\ Persist \in Stage BY <1>1, <1>5, StageFact
  <2>2. Effect(s, Persist) BY <1>2, <2>1
  <2> QED BY <1>1, <1>5, <2>2, StageFact DEF Effect, Needs
<1> QED BY <1>1, <1>3, <1>4, <1>5, StageFact

LEMMA SameGrows == \A s : SameCourse(s, s) /\ Grows(s, s)
  BY DEF SameCourse, Grows

LEMMA ChainedBears ==
    ASSUME NEW s, Fits(s), Bears(s), NEW k \in Stage, k <= s.stage, NEW i \in Depth,
           s.dispatch[k].index = i - 1, s.dispatch[k].at = -1,
           NEW t \in Chained(s, k, i)
    PROVE  Bears(t)
<1> DEFINE d == s.dispatch[k]
<1>1. d \in Dispatch /\ s \in Run BY DEF Fits, Good
<1>2. /\ d.call \in [Depth -> {"none", "open", "stage", "resolved", "rejected"}] /\ ~Over(s, k)
      /\ s.dispatch \in [Stage -> Dispatch]
  BY <1>1 DEF Dispatch, Over, Run
<1>3. s.meddled = 0 => \A j \in Depth : d.call[j] # "resolved"
  BY DEF Bears, Through, Straight
<1>4. \A e, u : u = [s EXCEPT !.dispatch[k] = e] =>
         u.dispatch = [s.dispatch EXCEPT ![k] = e] /\ SameCourse(s, u) /\ Grows(s, u)
                    /\ SameContext(s, u)
  BY <1>1 DEF Run, SameCourse, Grows, SameContext
<1>5. CASE i < middlewares
  <2> DEFINE e == Deeper(d, i)
  <2>1. t = [s EXCEPT !.dispatch[k] = e] BY <1>5 DEF Chained
  <2>2. e.at = -1 /\ \A j \in Depth : e.call[j] = IF j = i THEN "open" ELSE d.call[j]
    BY <1>1, <1>2 DEF Deeper, Dispatch
  <2> HIDE DEF e
  <2>3. Blames(s, k, e, t) BY <2>2 DEF Blames
  <2>4. ASSUME s.meddled = 0 PROVE Leads(s, k, e, t)
    <3>1. \A j \in Depth : d.call[j] # "resolved" /\ e.call[j] # "resolved"
      BY <1>3, <2>2, <2>4
    <3>2. Straight(e) /\ Complete(t, k, e) BY <2>2, <3>1 DEF Straight, Complete
    <3> QED BY <3>1, <3>2, DepthFact DEF Leads
  <2> QED BY <1>4, <2>1, <2>3, <2>4, DispatchBears
<1>6. CASE ~(i < middlewares)
  <2> DEFINE e == Reached(d, i, Needs(s, k))
             u == [s EXCEPT !.dispatch[k] = e]
  <2>1. /\ e.saw = Needs(s, k) /\ e.at = i
        /\ \A j \in Depth : e.call[j] = IF j = i THEN "stage" ELSE d.call[j]
    BY <1>2 DEF Reached
  <2>2. t = u \/ t \in Executed(u, k) BY <1>6 DEF Chained
  <2>3. Fits(u) BY <1>6, ReachedFits
  <2>4. u.dispatch = [s.dispatch EXCEPT ![k] = e] /\ SameCourse(s, u) /\ Grows(s, u)
        /\ SameContext(s, u)
    BY <1>4
  <2> HIDE DEF e, u
  <2>5. Blames(s, k, e, u) BY <2>1 DEF Blames
  <2>6. ASSUME s.meddled = 0 PROVE Leads(s, k, e, u)
    <3>1. \A j \in Depth : d.call[j] # "resolved" /\ e.call[j] # "resolved"
      BY <1>3, <2>1, <2>6
    <3>2. Straight(e) BY <3>1 DEF Straight
    <3>3. u.response = "none" => e.saw
      BY <2>1, <2>4, <2>6, FindsItsNeeds DEF Bears, SameContext
    <3>4. u.response = "none" => Complete(u, k, e) BY <2>1, <3>1, <3>3 DEF Complete
    <3> QED BY <3>1, <3>2, <3>4, DepthFact DEF Leads
  <2>7. Bears(u) BY <2>4, <2>5, <2>6, DispatchBears
  <2>8. u.dispatch[k] = e BY <1>2, <2>4
  <2>9. Running(u, k) BY <2>1, <2>3, <2>8, DepthFact DEF Running, Called, Over
  <2>10. t = u \/ Executes(u, k, t) BY <2>2, <2>9, ExecutedExecutes DEF Running
  <2> QED BY <2>7, <2>9, <2>10, ExecutesBears
<1> QED BY <1>5, <1>6

\* A step that leaves the dispatches alone.
LEMMA AnsweredBears ==
    ASSUME NEW s, s \in Run, Bears(s),
           s.response = "none" => s.dispatch[Metrics].call[0] = "resolved"
    PROVE  Bears([s EXCEPT !.pc = "answered"])
<1> DEFINE t == [s EXCEPT !.pc = "answered"]
<1>1. /\ t.dispatch = s.dispatch /\ t.dto = s.dto /\ t.errors = s.errors /\ t.fault = s.fault
      /\ t.meddled = s.meddled /\ t.stage = s.stage /\ t.pc = "answered" /\ SameContext(s, t)
      /\ t.inherits = s.inherits
  BY DEF Run, SameContext
<1> HIDE DEF t
<1>2. Blamed(t) BY <1>1, SameCauses DEF Bears, Blamed
<1>3. ASSUME s.meddled = 0 PROVE Through(t)
  <2>1. Through(s) BY <1>3 DEF Bears
  <2>2. \A k \in Stage : Complete(s, k, s.dispatch[k]) => Complete(t, k, t.dispatch[k])
    BY <1>1 DEF Complete, Effect, SameContext
  <2> QED BY <1>1, <2>1, <2>2 DEF Through, SameContext
<1> QED BY <1>1, <1>2, <1>3 DEF Bears, t

LEMMA ThrewBears ==
    ASSUME NEW s, s \in Run, Bears(s), NEW k \in Stage, s.dispatch[k].call[0] = "rejected"
    PROVE  Bears([s EXCEPT !.pc = "threw"])
<1> DEFINE t == [s EXCEPT !.pc = "threw"]
<1>1. /\ t.dispatch = s.dispatch /\ t.dto = s.dto /\ t.errors = s.errors /\ t.fault = s.fault
      /\ t.meddled = s.meddled /\ t.stage = s.stage /\ t.pc = "threw" /\ SameContext(s, t)
      /\ t.inherits = s.inherits
  BY DEF Run, SameContext
<1> HIDE DEF t
<1>2. s.fault \/ Causes(s, k) BY DepthFact DEF Bears, Blamed
<1>3. Blamed(t) BY <1>1, <1>2, SameCauses DEF Bears, Blamed
<1>4. ASSUME s.meddled = 0 PROVE Through(t)
  <2>1. Through(s) BY <1>4 DEF Bears
  <2>2. \A j \in Stage : Complete(s, j, s.dispatch[j]) => Complete(t, j, t.dispatch[j])
    BY <1>1 DEF Complete, Effect, SameContext
  <2> QED BY <1>1, <2>1, <2>2 DEF Through, SameContext
<1> QED BY <1>1, <1>3, <1>4 DEF Bears, t

\* The loop comes to its next stage, when the one it awaits has resolved.
LEMMA OnwardBears ==
    ASSUME NEW s, Fits(s), Bears(s), s.stage # Metrics, Awaited(s) = "resolved"
    PROVE  Bears([s EXCEPT !.pc = "running", !.stage = @ + 1])
<1> DEFINE t == [s EXCEPT !.pc = "running", !.stage = @ + 1]
<1>0. s \in Run /\ s.stage \in 0..7 /\ Stage = 1..7 BY StageFact DEF Fits, Run
<1>1. /\ t.dispatch = s.dispatch /\ t.dto = s.dto /\ t.errors = s.errors /\ t.fault = s.fault
      /\ t.meddled = s.meddled /\ t.stage = s.stage + 1 /\ t.pc = "running" /\ SameContext(s, t)
      /\ t.inherits = s.inherits
  BY <1>0 DEF Run, SameContext
<1> HIDE DEF t
<1>2. Blamed(t) BY <1>1, SameCauses DEF Bears, Blamed
<1>3. ASSUME s.meddled = 0 PROVE Through(t)
  <2>1. Through(s) BY <1>3 DEF Bears
  <2>2. \A j \in Stage : Complete(s, j, s.dispatch[j]) => Complete(t, j, t.dispatch[j])
    BY <1>1 DEF Complete, Effect, SameContext
  <2>3. ASSUME NEW j \in Stage, j < t.stage PROVE t.dispatch[j].call[0] = "resolved"
    <3>1. j < s.stage \/ j = s.stage BY <1>0, <1>1, <2>3
    <3>2. j = s.stage => s.dispatch[j].call[0] = "resolved" BY <1>0 DEF Awaited
    <3> QED BY <1>1, <2>1, <3>1, <3>2 DEF Through
  <2> QED BY <1>1, <2>1, <2>2, <2>3 DEF Through, SameContext
<1> QED BY <1>1, <1>2, <1>3 DEF Bears, t

LEMMA ContinuedBears ==
    ASSUME NEW s, Fits(s), Bears(s), Awaited(s) = "resolved", NEW t \in Continued(s)
    PROVE  Bears(t)
<1>1. s \in Run BY DEF Fits
<1>2. CASE /\ s.response # "none" \/ s.stage = Metrics
           /\ t = [s EXCEPT !.pc = "answered"]
  <2>1. s.response = "none" => s.dispatch[Metrics].call[0] = "resolved"
    BY <1>2, StageFact DEF Awaited
  <2> QED BY <1>1, <1>2, <2>1, AnsweredBears
<1>3. CASE s.stage # Metrics /\
           t \in Chained([s EXCEPT !.pc = "running", !.stage = @ + 1], s.stage + 1, 0)
  <2> DEFINE k == s.stage + 1
             u == [s EXCEPT !.pc = "running", !.stage = @ + 1]
  <2>1. Fits(u) /\ k \in Stage /\ k <= u.stage
        /\ u.dispatch[k].index = 0 - 1 /\ u.dispatch[k].at = -1
    BY <1>3, ComesToFits
  <2>2. Bears(u) BY <1>3, OnwardBears
  <2>3. t \in Chained(u, k, 0) BY <1>3
  <2> HIDE DEF u, k
  <2> QED BY <2>1, <2>2, <2>3, DepthFact, ChainedBears
<1> QED BY <1>2, <1>3 DEF Continued

\* A middleware settles: it passes on what its next() came to, or it meddles or fails.
LEMMA ResolvedBears ==
    ASSUME NEW s, Fits(s), Bears(s), NEW k \in Stage, NEW i \in Depth,
           s.dispatch[k].call[i] = "open", NEW n \in {0, 1},
           n = 0 => Outcome(s.dispatch[k], i) = "resolved"
    PROVE  Bears([Settled(s, k, i, "resolved") EXCEPT !.meddled = s.meddled + n])
<1> DEFINE d == s.dispatch[k]
           e == [d EXCEPT !.call[i] = "resolved"]
           u == Settled(s, k, i, "resolved")
           t == [u EXCEPT !.meddled = s.meddled + n]
<1>1. d \in Dispatch /\ s \in Run /\ s.meddled \in Nat BY DEF Fits, Good, Run
<1>2. e.at = d.at /\ e.saw = d.saw /\ \A j \in Depth : e.call[j] = IF j = i THEN "resolved" ELSE d.call[j]
  BY <1>1 DEF Dispatch
<1>3. u = [s EXCEPT !.dispatch[k] = e] BY DEF Settled
<1>4. Fits(u) BY SettleFits
<1> HIDE DEF e
<1>5. u.dispatch = [s.dispatch EXCEPT ![k] = e] /\ SameCourse(s, u) /\ Grows(s, u)
  BY <1>1, <1>3 DEF Run, SameCourse, Grows
<1>6. Blames(s, k, e, u) BY <1>2 DEF Blames
<1> HIDE DEF u
<1>7. u \in Run BY <1>4 DEF Fits
<1>8. /\ t.dispatch = u.dispatch /\ t.dto = u.dto /\ t.errors = u.errors /\ t.fault = u.fault
      /\ t.pc = u.pc /\ t.meddled = s.meddled + n
      /\ t.inherits = u.inherits
  BY <1>7 DEF Run
<1>9. CASE n = 0
  <2>1. ASSUME s.meddled = 0 PROVE Leads(s, k, e, u)
    <3>1. Straight(d) /\ (s.response = "none" => Complete(s, k, d))
      BY <2>1 DEF Bears, Through
    <3>2. i + 1 \in Depth /\ d.call[i + 1] = "resolved" BY <1>9 DEF Outcome
    <3>3. d.at # -1 /\ d.call[d.at] = "resolved" BY <3>1, <3>2 DEF Straight
    <3>4. d.at \in Depth /\ d.at # i BY <1>1, <3>3 DEF Dispatch
    <3>5. Straight(e) BY <1>2, <3>3, <3>4 DEF Straight
    <3>6. Effect(s, k) => Effect(u, k) BY <1>5 DEF Effect, Grows
    <3>7. u.response = "none" => Complete(u, k, e)
      BY <1>2, <1>5, <3>1, <3>3, <3>4, <3>6 DEF Complete, Grows
    <3> QED BY <1>2, <3>5, <3>7, DepthFact DEF Leads
  <2>2. Bears(u) BY <1>5, <1>6, <2>1, DispatchBears
  <2>3. t = u BY <1>1, <1>5, <1>7, <1>9 DEF Run, SameCourse
  <2> QED BY <2>2, <2>3 DEF u
<1>10. CASE n = 1
  <2>1. Blamed(u) BY <1>5, <1>6, DispatchBlamed DEF Bears
  <2>2. Blamed(t) BY <1>8, <2>1, SameCauses DEF Blamed
  <2>3. t.meddled # 0 BY <1>1, <1>8, <1>10
  <2> QED BY <2>2, <2>3 DEF Bears, u
<1> QED BY <1>9, <1>10

LEMMA RejectedBears ==
    ASSUME NEW s, Fits(s), Bears(s), NEW k \in Stage, NEW i \in Depth,
           s.dispatch[k].call[i] = "open", NEW f \in BOOLEAN,
           s.fault => f, ~f => Outcome(s.dispatch[k], i) = "rejected"
    PROVE  Bears([Settled(s, k, i, "rejected") EXCEPT !.fault = f])
<1> DEFINE d == s.dispatch[k]
           e == [d EXCEPT !.call[i] = "rejected"]
           u == Settled(s, k, i, "rejected")
           t == [u EXCEPT !.fault = f]
<1>1. d \in Dispatch /\ s \in Run BY DEF Fits, Good
<1>2. /\ e.at = d.at /\ e.saw = d.saw
      /\ \A j \in Depth : e.call[j] = IF j = i THEN "rejected" ELSE d.call[j]
  BY <1>1 DEF Dispatch
<1>3. u = [s EXCEPT !.dispatch[k] = e] BY DEF Settled
<1>4. Fits(u) BY SettleFits
<1> HIDE DEF e
<1>5. u.dispatch = [s.dispatch EXCEPT ![k] = e] /\ SameCourse(s, u) /\ SameContext(s, u)
      /\ u.errors = s.errors
  BY <1>1, <1>3 DEF Run, SameCourse, SameContext
<1> HIDE DEF u
<1>6. u \in Run BY <1>4 DEF Fits
<1>7. /\ t.dispatch = u.dispatch /\ t.errors = u.errors /\ t.fault = f
      /\ SameCourse(u, t) /\ SameContext(u, t)
  BY <1>6 DEF Run, SameCourse, SameContext
<1> HIDE DEF t
<1>8. t.dispatch = [s.dispatch EXCEPT ![k] = e] /\ SameCourse(s, t) /\ Grows(s, t)
  BY <1>5, <1>7 DEF SameCourse, SameContext, Grows
<1>9. Blames(s, k, e, t)
  <2>1. CASE f BY <1>7, <2>1 DEF Blames
  <2>2. CASE ~f
    <3>1. i + 1 \in Depth /\ d.call[i + 1] = "rejected" BY <2>2 DEF Outcome
    <3>2. s.fault \/ Causes(s, k) BY <3>1 DEF Bears, Blamed
    <3> QED BY <2>2, <3>2 DEF Blames
  <2> QED BY <2>1, <2>2
<1>10. ASSUME s.meddled = 0 PROVE Leads(s, k, e, t)
  <2>1. Straight(d) /\ (s.response = "none" => Complete(s, k, d))
    BY <1>10 DEF Bears, Through
  <2>2. Straight(e)
    <3> SUFFICES ASSUME NEW j \in Depth, e.call[j] = "resolved"
                 PROVE  e.at # -1 /\ e.call[e.at] = "resolved"
      BY DEF Straight
    <3>1. d.call[j] = "resolved" BY <1>2
    <3>2. d.at # -1 /\ d.call[d.at] = "resolved" BY <2>1, <3>1 DEF Straight
    <3>3. d.at \in Depth /\ d.at # i BY <1>1, <3>2 DEF Dispatch
    <3> QED BY <1>2, <3>2, <3>3
  <2>3. Effect(s, k) => Effect(t, k) BY <1>8 DEF Effect, Grows
  <2>4. ASSUME t.response = "none" PROVE Complete(t, k, e)
    <3>1. Complete(s, k, d) BY <1>8, <2>1, <2>4 DEF Grows
    <3>2. d.at # -1 => d.at \in Depth BY <1>1 DEF Dispatch
    <3> QED BY <1>2, <2>3, <3>1, <3>2 DEF Complete
  <2>5. d.call[0] = "resolved" => e.call[0] = "resolved" BY <1>2, DepthFact
  <2> QED BY <2>2, <2>4, <2>5 DEF Leads
<1>11. Bears(t) BY <1>8, <1>9, <1>10, DispatchBears
<1> QED BY <1>11 DEF t, u

LEMMA RespondedBears ==
    ASSUME NEW s, s \in Run, Bears(s)
    PROVE  Bears([s EXCEPT !.response = "middleware"])
<1> DEFINE t == [s EXCEPT !.response = "middleware"]
<1>1. /\ t.dispatch = s.dispatch /\ SameCourse(s, t) /\ t.errors = s.errors
      /\ t.fault = s.fault /\ t.response = "middleware"
  BY DEF Run, SameCourse
<1> HIDE DEF t
<1>2. Blamed(t) BY <1>1, SameCauses DEF Bears, Blamed, SameCourse
<1>3. s.meddled = 0 => Through(t) BY <1>1 DEF Bears, Through, SameCourse
<1> QED BY <1>1, <1>2, <1>3 DEF Bears, SameCourse, t

RunsBear == \A r \in Runs : Bears(run[r])

LEMMA MovesBear ==
    ASSUME IInv, RunsBear, NEW r \in Runs, NEW t, Bears(t), Moves(r, t)
    PROVE  RunsBear'
<1>1. \A q \in Runs : run'[q] = IF q = r THEN t ELSE run[q] BY DEF Moves, IInv, TypeOK
<1> QED BY <1>1 DEF RunsBear

LEMMA InitBears == Init => RunsBear
<1> SUFFICES ASSUME Init, NEW r \in Runs PROVE Bears(run[r])
  BY DEF RunsBear
<1>1. PICK dto \in Dtos, b \in BOOLEAN : run[r] = NewRun(dto, b) BY DEF Init
<1>2. \A k \in Stage : run[r].dispatch[k] = NewDispatch BY <1>1 DEF NewRun
<1>3. NewDispatch.at = -1 /\ \A i \in Depth : NewDispatch.call[i] = "none" BY DEF NewDispatch
<1>4. run[r].pc = "new" /\ run[r].errors = {} /\ run[r].stage = 0 BY <1>1 DEF NewRun
<1>5. Blamed(run[r]) BY <1>2, <1>3, <1>4 DEF Blamed
<1>6. \A k \in Stage : Straight(run[r].dispatch[k]) /\ Complete(run[r], k, run[r].dispatch[k])
  BY <1>2, <1>3 DEF Straight, Complete
<1>7. \A k \in Stage : ~(k < 0) BY StageFact
<1>8. Through(run[r]) BY <1>4, <1>6, <1>7 DEF Through
<1> QED BY <1>5, <1>8 DEF Bears

LEMMA NextBears == IInv /\ RunsBear /\ [Next]_vars => RunsBear'
<1> SUFFICES ASSUME IInv, RunsBear, [Next]_vars PROVE RunsBear'
  OBVIOUS
<1>0. \A r \in Runs : Fits(run[r]) /\ Bears(run[r]) /\ run[r] \in Run
  BY DEF IInv, RunsFit, RunsBear, Fits
<1>1. CASE UNCHANGED vars \/ Register
  BY <1>1 DEF vars, Register, RunsBear
<1>2. ASSUME NEW r \in Runs, Advance(r) PROVE RunsBear'
  <2>1. CASE Awaited(run[r]) = "resolved" /\ \E t \in Continued(run[r]) : Moves(r, t)
    BY <1>0, <2>1, ContinuedBears, MovesBear
  <2>2. CASE Awaited(run[r]) = "rejected" /\ Moves(r, [run[r] EXCEPT !.pc = "threw"])
    <3>1. run[r].stage \in Stage /\ run[r].dispatch[run[r].stage].call[0] = "rejected"
      <4>1. run[r].stage \in 0..7 BY <1>0, StageFact DEF Run
      <4> QED BY <2>2, <4>1, StageFact DEF Awaited
    <3>2. Bears([run[r] EXCEPT !.pc = "threw"]) BY <1>0, <3>1, ThrewBears
    <3> QED BY <2>2, <3>2, MovesBear
  <2> QED BY <1>2, <2>1, <2>2 DEF Advance, Moves
<1>3. ASSUME NEW r \in Runs, NEW k \in Stage, Execute(r, k) PROVE RunsBear'
  <2>1. Called(run[r], k) BY <1>0, <1>3, RunningIsCalled DEF Execute
  <2>2. Running(run[r], k) BY <1>3, <2>1 DEF Running, Over, Execute
  <2>3. PICK t \in Executed(run[r], k) : Moves(r, t) BY <1>3 DEF Execute, Moves
  <2>4. Executes(run[r], k, t) BY <2>1, <2>3, ExecutedExecutes
  <2> QED BY <1>0, <2>2, <2>3, <2>4, ExecutesBears, MovesBear
<1>4. ASSUME NEW r \in Runs, NEW k \in Stage, NEW i \in Depth, CallNext(r, k, i)
      PROVE  RunsBear'
  <2>1. /\ run[r].dispatch[k].index = (i + 1) - 1 /\ run[r].dispatch[k].at = -1
        /\ k <= run[r].stage /\ i + 1 \in Depth
    BY <1>0, <1>4, DepthFact, NextIsNew DEF CallNext, HasNext
  <2>2. PICK t \in Chained(run[r], k, i + 1) : Moves(r, t) BY <1>4 DEF CallNext, Moves
  <2> QED BY <1>0, <2>1, <2>2, ChainedBears, MovesBear
<1>5. ASSUME NEW r \in Runs, NEW k \in Stage, NEW i \in Depth, Resolve(r, k, i)
      PROVE  RunsBear'
  <2> DEFINE t(n) == [Settled(run[r], k, i, "resolved") EXCEPT !.meddled = run[r].meddled + n]
  <2>1. PICK n \in {0, 1} : /\ n = 0 => Outcome(run[r].dispatch[k], i) = "resolved"
                            /\ Moves(r, t(n))
    <3>1. CASE Outcome(run[r].dispatch[k], i) = "resolved"
      <4>1. Moves(r, t(0)) BY <1>5, <3>1 DEF Resolve, Moves
      <4> QED BY <3>1, <4>1
    <3>2. CASE Outcome(run[r].dispatch[k], i) # "resolved"
      <4>1. Moves(r, t(1)) BY <1>5, <3>2 DEF Resolve, Moves
      <4> QED BY <4>1
    <3> QED BY <3>1, <3>2
  <2>2. run[r].dispatch[k].call[i] = "open" BY <1>5 DEF Resolve
  <2>3. Bears(t(n)) BY <1>0, <2>1, <2>2, ResolvedBears
  <2> QED BY <2>1, <2>3, MovesBear
<1>6. ASSUME NEW r \in Runs, NEW k \in Stage, NEW i \in Depth, Reject(r, k, i)
      PROVE  RunsBear'
  <2> DEFINE f == run[r].fault \/ Outcome(run[r].dispatch[k], i) # "rejected"
             t == [Settled(run[r], k, i, "rejected") EXCEPT !.fault = f]
  <2>1. Moves(r, t) BY <1>6 DEF Reject, Moves
  <2>2. f \in BOOLEAN /\ (run[r].fault => f)
        /\ (~f => Outcome(run[r].dispatch[k], i) = "rejected")
    BY <1>0 DEF Run
  <2>3. run[r].dispatch[k].call[i] = "open" BY <1>6 DEF Reject
  <2> HIDE DEF f
  <2>4. Bears(t) BY <1>0, <2>2, <2>3, RejectedBears
  <2> QED BY <2>1, <2>4, MovesBear
<1>7. ASSUME NEW r \in Runs, NEW k \in Stage, NEW i \in Depth, Respond(r, k, i)
      PROVE  RunsBear'
  <2>1. Moves(r, [run[r] EXCEPT !.response = "middleware"]) BY <1>7 DEF Respond, Moves
  <2> QED BY <1>0, <2>1, RespondedBears, MovesBear
<1> QED BY <1>1, <1>2, <1>3, <1>4, <1>5, <1>6, <1>7 DEF Next

LEMMA BearsAlways == Spec => []RunsBear
  BY InitBears, NextBears, FitsAlways, PTL DEF Spec

\* Unless a middleware resolves where its next() did not, the stages run one after the
\* other, and a run that is answered as accepted was stored, published, enqueued and
\* counted: however many middlewares there are, whenever they call next() and settle,
\* and however the registry changes under the run.
THEOREM AcceptedRunsAreComplete == Spec => []AcceptedWentThrough
<1>1. ASSUME IInv, RunsBear, NEW r \in Runs, run[r].meddled = 0
      PROVE  /\ \A j, k \in Stage : j < k /\ run[r].dispatch[k].times > 0 =>
                   run[r].dispatch[j].call[0] = "resolved" /\ run[r].dispatch[j].times = 1
             /\ run[r].pc = "answered" /\ run[r].response = "none" =>
                   run[r].event /\ run[r].did = {"published", "enqueued", "counted"}
  <2> DEFINE s == run[r]
  <2>1. Fits(s) /\ Through(s) BY <1>1 DEF IInv, RunsFit, RunsBear, Bears
  <2> HIDE DEF s
  <2>2. \A j \in Stage : s.dispatch[j].call[0] = "resolved" =>
           s.dispatch[j].times = 1 /\ (s.response = "none" => Effect(s, j))
    BY <2>1, DepthFact DEF Fits, Good, Through, Straight, Complete
  <2>3. ASSUME NEW j \in Stage, NEW k \in Stage, j < k, s.dispatch[k].times > 0
        PROVE  s.dispatch[j].call[0] = "resolved" /\ s.dispatch[j].times = 1
    <3>1. s.dispatch[k].index # -1 BY <2>1, <2>3 DEF Fits, Good
    <3>2. k <= s.stage BY <2>1, <3>1, CalledIsReached
    <3>3. j < s.stage
      <4>1. j \in 1..7 /\ k \in 1..7 /\ s.stage \in 0..7 BY <2>1, StageFact DEF Fits, Run
      <4> QED BY <2>3, <3>2, <4>1
    <3> QED BY <2>1, <2>2, <3>3 DEF Through
  <2>4. ASSUME s.pc = "answered", s.response = "none"
        PROVE  s.event /\ s.did = {"published", "enqueued", "counted"}
    <3>1. s.dispatch[Metrics].call[0] = "resolved" BY <2>1, <2>4 DEF Through
    <3>2. s.dispatch[Metrics].index # -1 BY <2>1, <3>1, StageFact, DepthFact DEF Fits, Good
    <3>3. Metrics <= s.stage BY <2>1, <3>2, CalledIsReached, StageFact
    <3>4. \A j \in Stage : s.dispatch[j].call[0] = "resolved"
      <4>1. s.stage \in 0..7 BY <2>1, StageFact DEF Fits, Run
      <4>2. \A j \in Stage : j < s.stage \/ j = Metrics BY <3>3, <4>1, StageFact
      <4> QED BY <2>1, <3>1, <4>2 DEF Through
    <3>5. \A j \in Stage : Effect(s, j) BY <2>2, <2>4, <3>4
    <3>6. s.event /\ "published" \in s.did /\ "enqueued" \in s.did /\ "counted" \in s.did
      BY <3>5, StageFact DEF Effect
    <3>7. s.did \subseteq {"published", "enqueued", "counted"} BY <2>1 DEF Fits, Run
    <3> QED BY <3>6, <3>7
  <2> QED BY <2>3, <2>4 DEF s
<1>2. IInv /\ RunsBear => AcceptedWentThrough BY <1>1 DEF AcceptedWentThrough
<1> QED BY <1>2, FitsAlways, BearsAlways, PTL

\* Unless a middleware, a database or a queue fails, or there is a NUL in what is stored
\* of it or in the last touch it takes over, an event that the edge admitted is rejected
\* only for what the edge does not look at, and a click only for a repeated parameter or
\* an overlong visitor id: of whatever the edge lets in or RedirectService makes, as far
\* as module Canonical tells it apart.
THEOREM RejectionsHaveACause == Spec => []RejectedForCause
<1>1. ASSUME IInv, RunsBear, NEW r \in Runs
      PROVE  LET dto   == run[r].dto
                 threw == run[r].pc = "threw" /\ ~run[r].fault /\ ~HoldsNul(dto) /\ ~Inherits(run[r])
             IN  \/ /\ dto.via = "events"
                    /\ run[r].errors \subseteq {"visitorId", "eventId", "landingPage", "eventType"}
                    /\ threw => \/ dto.occurredAt # "fine" \/ dto.eventType.form # "enum"
                                \/ ~Trims(dto.browser) \/ ~Trims(dto.deviceType)
                                \/ dto.metadata = Null \/ TooLarge(dto.value)
                 \/ /\ dto.via = "redirect"
                    /\ threw => \/ Repeated \in {dto.visitorId, dto.utm, dto.clickId}
                                \/ Overlong(dto.visitorId)
  <2> DEFINE dto == run[r].dto
  <2>1. /\ dto \in Dtos /\ run[r].errors \subseteq Violations(ToCanonical(dto))
        /\ run[r].pc = "threw" /\ ~run[r].fault => \E k \in Stage : Causes(run[r], k)
    BY <1>1 DEF IInv, TypeOK, Run, RunsBear, Bears, Blamed
  <2> HIDE DEF dto
  <2>2. dto \in Dto BY <2>1, PipelineAssumption DEF PipelineAssumption
  <2>3. CASE dto.via = "events" /\ Admitted(dto)
    BY <2>1, <2>2, <2>3, AdmittedIsQuestioned, CauseOfAdmitted DEF dto
  <2>4. CASE dto.via = "redirect" /\ Clicked(dto)
    BY <2>1, <2>2, <2>4, CauseOfClick DEF dto
  <2> QED BY <2>1, <2>3, <2>4, PipelineAssumption DEF PipelineAssumption
<1>2. IInv /\ RunsBear => RejectedForCause BY <1>1 DEF RejectedForCause
<1> QED BY <1>2, FitsAlways, BearsAlways, PTL
================================================================================
