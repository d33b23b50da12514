------------------------------ MODULE Attribution ------------------------------
(***************************************************************************)
(* The durable attribution of one visitor: AttributionService.resolve      *)
(* keeps the Visitor row, appends to its timeline of touchpoints, and on a *)
(* conversion calculates who deserves the credit and stores the result.    *)
(*                                                                         *)
(* Every Prisma call is a step of its own, and resolve() runs for several  *)
(* events at once.  A call may fail before or after it took effect: resolve *)
(* and convert swallow the error and stop, which to the database is the    *)
(* same as an instance that dies there.                                    *)
(***************************************************************************)
EXTENDS Integers, FiniteSets, SequencesExt

CONSTANTS
    Events,      \* calls of resolve
    ClickKeys,   \* kinds of click id: gclid, fbclid, ...
    Configs,     \* attribution configurations of the project
    Inputs,      \* what resolve may be called with
    Halvings,    \* how often 1 can be halved before it is 0: 1074 for a double
    None

Models == {"first-touch", "last-touch", "linear", "position-based",
           "time-decay", "data-driven", "unknown"}

\* Window and half-life are in the unit of time, positionWeights in tenths.  The
\* configuration is raw JSON nobody validates: a zero is as good as any number.
Config == [model : Models, window : Nat, halfLife : Nat, first : Nat, last : Nat]

Input == [keys : SUBSET ClickKeys, newSession : BOOLEAN, conversion : BOOLEAN,
          at : Nat]

ASSUME AttributionAssumption ==
    /\ IsFiniteSet(Events)
    /\ Configs \subseteq Config
    /\ Inputs \subseteq Input
    /\ None \notin Inputs
    /\ Halvings \in Nat

VARIABLES
    visitor,      \* the Visitor row: what the other columns depend on
    touchpoints,  \* the Touchpoint rows, in the order of their insertion
    event         \* where each call of resolve is, and what it has in hand

vars == <<visitor, touchpoints, event>>

\* `after` is for the properties: how many rows there were when it was counted.
Touchpoint == [at : Nat, conversion : BOOLEAN, position : Nat, after : Nat]

\* A weight that is not a number.
NaN == -1

\* The credit of a result, by touchpoint.  Weights are kept as they are before
\* normalizeWeights divides them by their sum.
IsCredit(r) == r = None \/ \A t \in DOMAIN r : t \in Nat /\ r[t] \in Nat \cup {NaN}

\* `rows` is for the properties: it becomes the touchpoint's `after`.
NewEvent == [pc |-> "new", in |-> None, clicks |-> {}, found |-> FALSE,
             count |-> 0, rows |-> 0, result |-> None]

InFlight == {"findClicks", "mergeClicks", "findVisitor", "putVisitor", "count",
             "append", "journey", "record", "save"}

TypeOK ==
    /\ visitor # None =>
          /\ visitor.clicks \subseteq ClickKeys
          /\ visitor.events \in Nat \ {0}
          /\ visitor.conversions \in Nat
          /\ IsCredit(visitor.attribution)
    /\ touchpoints \in Seq(Touchpoint)
    /\ \A e \in Events :
          /\ event[e].pc \in {"new", "done", "degraded"} \cup InFlight
          /\ event[e].in \in Inputs \cup {None}
          /\ event[e].clicks \subseteq ClickKeys
          /\ event[e].count \in Nat /\ event[e].rows \in Nat
          /\ IsCredit(event[e].result)

Init ==
    /\ visitor = None
    /\ touchpoints = <<>>
    /\ event = [e \in Events |-> NewEvent]

-------------------------------------------------------------------------------
(* The attribution models                                                   *)

\* Mutant of InWindow: touches after the conversion are kept.
InWindowOpen(c, at, tps) ==
    {i \in DOMAIN tps : ~tps[i].conversion /\ tps[i].at >= at - c.window}

\* The touchpoints a conversion at `at` may credit, of timeline tps.
InWindow(c, at, tps) ==
    {i \in DOMAIN tps : /\ ~tps[i].conversion
                        /\ tps[i].at >= at - c.window
                        /\ tps[i].at <= at}

\* They are ordered by time; Postgres breaks ties as it likes.
Ordered(tps, S) ==
    {s \in SetToSeqs(S) : \A i, k \in DOMAIN s : i < k => tps[s[i]].at <= tps[s[k]].at}

FirstTouch(s) == [t \in {Head(s)} |-> 1]
LastTouch(s)  == [t \in {Last(s)} |-> 1]
Linear(s)     == [t \in ToSet(s) |-> 1]

\* First and last get their weights, those between share what is left of 1:
\* here all are multiplied by the number of those between.
PositionBased(c, s) ==
    LET n      == Len(s)
        middle == IF c.first + c.last > 10 THEN 0 ELSE 10 - c.first - c.last
    IN  CASE n = 1 -> FirstTouch(s)
          [] n = 2 -> [t \in ToSet(s) |-> IF t = Head(s) THEN c.first ELSE c.last]
          [] OTHER -> [t \in ToSet(s) |-> IF t = Head(s) THEN c.first * (n - 2)
                                          ELSE IF t = Last(s) THEN c.last * (n - 2)
                                          ELSE middle]

\* 2^n
Doubled(n) == LET p[i \in 0..n] == IF i = 0 THEN 1 ELSE 2 * p[i - 1] IN p[n]

\* 2^(-age/halfLife) by whole half-lives, in units of the smallest double.
Decayed(h, age) ==
    IF h = 0 /\ age = 0 THEN NaN
    ELSE IF age >= (Halvings + 1) * h THEN 0
    ELSE Doubled(Halvings - Cardinality({k \in 1..Halvings : k * h <= age}))

TimeDecay(c, at, tps, s) ==
    [t \in ToSet(s) |-> Decayed(c.halfLife, at - tps[t].at)]

\* data-driven is linear for now, and an unknown model is last-touch.
Weights(c, at, tps, s) ==
    CASE s = <<>> -> <<>>
      [] OTHER ->
         CASE c.model = "first-touch"                -> FirstTouch(s)
           [] c.model \in {"linear", "data-driven"}  -> Linear(s)
           [] c.model = "position-based"             -> PositionBased(c, s)
           [] c.model = "time-decay"                 -> TimeDecay(c, at, tps, s)
           [] c.model \in {"last-touch", "unknown"}  -> LastTouch(s)

\* normalizeWeights: weights that sum to nothing credit nobody, and one that is
\* not a number makes all of them such.
Normalized(w) ==
    IF \E t \in DOMAIN w : w[t] = NaN THEN [t \in DOMAIN w |-> NaN]
    ELSE IF \A t \in DOMAIN w : w[t] = 0 THEN <<>> ELSE w

\* What calculate may return.
Results(c, at, tps) ==
    {Normalized(Weights(c, at, tps, s)) : s \in Ordered(tps, InWindow(c, at, tps))}

-------------------------------------------------------------------------------
(* resolve: the visitor                                                     *)

\* e goes on at pc; or its call took effect, and its answer got lost.
GoesOn(e, pc) == \E to \in {pc, "degraded"} : event' = [event EXCEPT ![e].pc = to]

Start(e) ==
    /\ event[e].pc = "new"
    /\ \E in \in Inputs :
          event' = [event EXCEPT ![e] = [@ EXCEPT !.in = in,
              !.pc = IF in.keys = {} THEN "findVisitor" ELSE "findClicks"]]
    /\ UNCHANGED <<visitor, touchpoints>>

\* mergeClickIds reads what is stored ...
FindClicks(e) ==
    /\ event[e].pc = "findClicks"
    /\ event' = [event EXCEPT ![e] = [@ EXCEPT
          !.clicks = event[e].in.keys \cup (IF visitor = None THEN {} ELSE visitor.clicks),
          !.pc = IF visitor = None THEN "findVisitor" ELSE "mergeClicks"]]
    /\ UNCHANGED <<visitor, touchpoints>>

\* ... and writes it back merged.
MergeClicks(e) ==
    /\ event[e].pc = "mergeClicks"
    /\ visitor' = [visitor EXCEPT !.clicks = event[e].clicks]
    /\ GoesOn(e, "findVisitor")
    /\ UNCHANGED touchpoints

\* The read half of visitor.upsert.
FindVisitor(e) ==
    /\ event[e].pc = "findVisitor"
    /\ event' = [event EXCEPT ![e].pc = "putVisitor", ![e].found = (visitor # None)]
    /\ UNCHANGED <<visitor, touchpoints>>

\* Mutant of Seen: the update forgets to count the event.
SeenUncounted(e) ==
    [visitor EXCEPT !.clicks = IF event[e].clicks = {} THEN @ ELSE event[e].clicks]

\* The row once it has seen event e.
Seen(e) ==
    [visitor EXCEPT !.events = @ + 1,
                    !.clicks = IF event[e].clicks = {} THEN @ ELSE event[e].clicks]

\* Mutant of Created: eventCount is left to its default.
CreatedByDefault(e) == [clicks |-> event[e].clicks, events |-> 0,
                        conversions |-> 0, attribution |-> None]

Created(e) == [clicks |-> event[e].clicks, events |-> 1,
               conversions |-> 0, attribution |-> None]

\* A touchpoint is appended for a new session and for a conversion.
IsTouch(e) == event[e].in.newSession \/ event[e].in.conversion

\* The write half: the row is updated or created.
PutVisitor(e) ==
    /\ event[e].pc = "putVisitor"
    /\ \/ event[e].found /\ visitor' = Seen(e)
       \/ ~event[e].found /\ visitor = None /\ visitor' = Created(e)
    /\ GoesOn(e, IF IsTouch(e) THEN "count" ELSE "done")
    /\ UNCHANGED touchpoints

\* Another event created the row first: P2002 ends resolve.
LoseVisitor(e) ==
    /\ event[e].pc = "putVisitor"
    /\ ~event[e].found /\ visitor # None
    /\ event' = [event EXCEPT ![e].pc = "degraded"]
    /\ UNCHANGED <<visitor, touchpoints>>

-------------------------------------------------------------------------------
(* resolve: the timeline, and convert                                       *)

\* Mutant of RowCount: conversions are left out of the count.
TouchCount(tps) == Cardinality({i \in DOMAIN tps : ~tps[i].conversion})

\* touchpoint.count: the visitor's rows.
RowCount(tps) == Len(tps)

\* appendTouchpoint counts ...
CountTouchpoints(e) ==
    /\ event[e].pc = "count"
    /\ event' = [event EXCEPT ![e].pc = "append", ![e].count = RowCount(touchpoints),
                              ![e].rows = Len(touchpoints)]
    /\ UNCHANGED <<visitor, touchpoints>>

\* Mutant of Recorded: a conversion overwrites the latest touchpoint.
RecordedOver(e) ==
    LET tp == [at |-> event[e].in.at, conversion |-> event[e].in.conversion,
               position |-> event[e].count + 1, after |-> event[e].rows]
    IN  IF touchpoints # <<>> /\ event[e].in.conversion
        THEN ReplaceAt(touchpoints, Len(touchpoints), tp)
        ELSE Append(touchpoints, tp)

Recorded(e) ==
    Append(touchpoints, [at |-> event[e].in.at,
                         conversion |-> event[e].in.conversion,
                         position |-> event[e].count + 1,
                         after |-> event[e].rows])

\* ... and creates: rows are only ever inserted.
AppendTouchpoint(e) ==
    /\ event[e].pc = "append"
    /\ touchpoints' = Recorded(e)
    /\ GoesOn(e, IF event[e].in.conversion THEN "journey" ELSE "done")
    /\ UNCHANGED visitor

\* calculate, under the configuration c the event was enriched with.
ReadJourney(e, c) ==
    /\ event[e].pc = "journey"
    /\ \E r \in Results(c, event[e].in.at, touchpoints) :
          event' = [event EXCEPT ![e].pc = "record", ![e].result = r]
    /\ UNCHANGED <<visitor, touchpoints>>

\* Mutant of Converted: the count is set, not incremented.
ConvertedOnce(e) == [visitor EXCEPT !.conversions = 1, !.attribution = event[e].result]

\* The row once conversion e is recorded.
Converted(e) ==
    [visitor EXCEPT !.conversions = @ + 1, !.attribution = event[e].result]

RecordConversion(e) ==
    /\ event[e].pc = "record"
    /\ visitor' = Converted(e)
    /\ GoesOn(e, "save")
    /\ UNCHANGED touchpoints

\* assign writes the result once more.
SaveAttribution(e) ==
    /\ event[e].pc = "save"
    /\ visitor' = [visitor EXCEPT !.attribution = event[e].result]
    /\ GoesOn(e, "done")
    /\ UNCHANGED touchpoints

\* The call under way fails: resolve degrades.
Degrade(e) ==
    /\ event[e].pc \in InFlight
    /\ event' = [event EXCEPT ![e].pc = "degraded"]
    /\ UNCHANGED <<visitor, touchpoints>>

EventStep(e) ==
    \/ Start(e) \/ FindClicks(e) \/ MergeClicks(e)
    \/ FindVisitor(e) \/ PutVisitor(e) \/ LoseVisitor(e)
    \/ CountTouchpoints(e) \/ AppendTouchpoint(e)
    \/ (\E c \in Configs : ReadJourney(e, c)) \/ RecordConversion(e) \/ SaveAttribution(e)
    \/ Degrade(e)

Next == \E e \in Events : EventStep(e)

Spec == Init /\ [][Next]_vars

-------------------------------------------------------------------------------
Conversions == {i \in DOMAIN touchpoints : touchpoints[i].conversion}

\* What was counted: no conversion that resolve finished is missing from
\* conversionCount, and none is there without its touchpoint in the timeline,
\* however calls overlap and wherever they degrade.
ConversionsCounted ==
    LET counted == IF visitor = None THEN 0 ELSE visitor.conversions
    IN  /\ Cardinality({e \in Events : event[e].pc = "done" /\ event[e].in.conversion})
              <= counted
        /\ counted <= Cardinality(Conversions)

\* The timeline never holds a touch of an event that eventCount left out.
JourneyAccounted ==
    Len(touchpoints) <= IF visitor = None THEN 0 ELSE visitor.events

\* Positions start from 1 and never run ahead of the timeline.  A touchpoint is
\* behind every one that was inserted before it was counted, and next to the last
\* of them when no other call came between: only calls that overlap get the same
\* position or leave a gap.
PositionsFollowJourney ==
    \A i \in DOMAIN touchpoints :
        LET tp == touchpoints[i]
        IN  /\ tp.position \in 1..i
            /\ \A k \in 1..(i - 1) : k <= tp.after => touchpoints[k].position < tp.position
            /\ tp.after = i - 1 => tp.position = i

\* The timeline is "append-only by design (audit/replay/recalculation)": the
\* stored attribution is what the models give for some conversion over the
\* timeline as it was, when that conversion was in it.
AttributionReplayable ==
    visitor # None /\ visitor.attribution # None =>
        \E i \in Conversions, n \in DOMAIN touchpoints, c \in Configs :
            /\ i <= n
            /\ visitor.attribution \in
                  Results(c, touchpoints[i].at, SubSeq(touchpoints, 1, n))

\* The touches within the window before a conversion: credit may go to no other.
Deserving(c, at) ==
    {t \in DOMAIN touchpoints : LET tp == touchpoints[t] IN
        ~tp.conversion /\ at - c.window <= tp.at /\ tp.at <= at}

\* Configurations nobody validates under which the deserving get nothing: two
\* touches whose weights are zero, and half-lives too short for any of them.
Worthless(c, at) ==
    \/ /\ c.model = "position-based" /\ c.first = 0 /\ c.last = 0
       /\ Cardinality(Deserving(c, at)) = 2
    \/ /\ c.model = "time-decay"
       /\ \A t \in Deserving(c, at) : at - touchpoints[t].at >= (Halvings + 1) * c.halfLife

\* Credit goes to touches in the window before the conversion and to no other;
\* and "weights across a result sum to 1" (attribution.types.ts:37): if there is
\* such a touch one is credited, unless the configuration is worth nothing.
CreditWhereDue ==
    [][\A e \in Events, c \in Configs : ReadJourney(e, c) =>
          LET at     == event[e].in.at
              credit == event'[e].result
          IN  /\ DOMAIN credit \subseteq Deserving(c, at)
              /\ Deserving(c, at) # {} /\ ~Worthless(c, at) =>
                    \E t \in DOMAIN credit : credit[t] > 0]_event
===============================================================================
