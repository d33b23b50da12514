--------------------------- MODULE Attribution_proofs ---------------------------
(***************************************************************************)
(* Proofs about module Attribution: the counts of the Visitor row, the     *)
(* timeline, the stored result and whom it credits, for any finite number  *)
(* of overlapping events, any inputs and any configurations.               *)
(***************************************************************************)
EXTENDS Attribution, Recursion, FiniteSetTheorems, SequenceTheorems, TLAPS

\* None is told from a Visitor row.
NoneIsNoRow ==
    \A clicks, events, conversions, attribution :
        None # [clicks |-> clicks, events |-> events,
                conversions |-> conversions, attribution |-> attribution]

-------------------------------------------------------------------------------
(* The shape of the state: what TypeOK says, but of the credit in a result  *)

IsRecord(x) ==
    x = [pc |-> x.pc, in |-> x.in, clicks |-> x.clicks, found |-> x.found,
         count |-> x.count, rows |-> x.rows, result |-> x.result]

IsEvent(x) ==
    /\ IsRecord(x)
    /\ x.pc \in {"new", "done", "degraded"} \cup InFlight
    /\ x.pc # "new" => x.in \in Inputs
    /\ x.count \in Nat /\ x.rows \in Nat

IsRow(v) ==
    /\ v = [clicks |-> v.clicks, events |-> v.events,
            conversions |-> v.conversions, attribution |-> v.attribution]
    /\ v.events \in Nat
    /\ v.conversions \in Nat

\* The events that read or write back the row find it.
FindsRow(x) ==
    \/ x.pc \in {"mergeClicks", "count", "append", "journey", "record", "save"}
    \/ x.pc = "putVisitor" /\ x.found

Shape ==
    /\ visitor # None => IsRow(visitor)
    /\ touchpoints \in Seq(Touchpoint)
    /\ event = [e \in Events |-> event[e]]
    /\ \A e \in Events : IsEvent(event[e])
    /\ \A e \in Events : FindsRow(event[e]) => visitor # None

\* What the row says, and says when there is none.
EventsOf(v) == IF v = None THEN 0 ELSE v.events
ConversionsOf(v) == IF v = None THEN 0 ELSE v.conversions
AttributionOf(v) == IF v = None THEN None ELSE v.attribution

\* The row stays, and says the same.
SameRow == /\ (visitor # None => visitor' # None /\ IsRow(visitor'))
           /\ (visitor = None => visitor' = None)
           /\ EventsOf(visitor') = EventsOf(visitor)
           /\ ConversionsOf(visitor') = ConversionsOf(visitor)
           /\ AttributionOf(visitor') = AttributionOf(visitor)

-------------------------------------------------------------------------------
(* What a step of event e, which becomes x, does to what is counted         *)

\* It is on its way to the row, or ends.
Passes(e, x) ==
    /\ SameRow /\ touchpoints' = touchpoints
    /\ x.pc \in {"findClicks", "findVisitor", "mergeClicks", "putVisitor", "degraded"}
    /\ FindsRow(x) => visitor # None

\* It is counted in the row.
Puts(e, x) ==
    /\ visitor' # None /\ IsRow(visitor')
    /\ EventsOf(visitor') = EventsOf(visitor) + 1
    /\ ConversionsOf(visitor') = ConversionsOf(visitor)
    /\ AttributionOf(visitor') = AttributionOf(visitor)
    /\ touchpoints' = touchpoints
    /\ x.pc \in {"count", "degraded"} \/ (x.pc = "done" /\ ~x.in.conversion)

\* It counts the timeline.
CountsTimeline(e, x) ==
    /\ SameRow /\ visitor # None /\ touchpoints' = touchpoints
    /\ event[e].pc = "count" /\ x.pc = "append"
    /\ x.count = Len(touchpoints) /\ x.rows = Len(touchpoints)

\* Its touchpoint is appended.
Appends(e, x) ==
    /\ SameRow /\ visitor # None /\ touchpoints' = Recorded(e)
    /\ event[e].pc = "append"
    /\ \/ x.pc = "degraded"
       \/ x.pc = "journey" /\ x.in.conversion
       \/ x.pc = "done" /\ ~x.in.conversion

\* It reads its journey.
Reads(e, x) ==
    /\ SameRow /\ visitor # None /\ touchpoints' = touchpoints
    /\ event[e].pc = "journey" /\ x.pc = "record"
    /\ \E c \in Configs : x.result \in Results(c, event[e].in.at, touchpoints)

\* It records its conversion.
Records(e, x) ==
    /\ visitor' # None /\ IsRow(visitor')
    /\ EventsOf(visitor') = EventsOf(visitor)
    /\ ConversionsOf(visitor') = ConversionsOf(visitor) + 1
    /\ AttributionOf(visitor') = event[e].result
    /\ touchpoints' = touchpoints
    /\ event[e].pc = "record" /\ x.pc \in {"save", "degraded"} /\ x.result = event[e].result

\* It writes its result once more.
Saves(e, x) ==
    /\ visitor' # None /\ IsRow(visitor')
    /\ EventsOf(visitor') = EventsOf(visitor)
    /\ ConversionsOf(visitor') = ConversionsOf(visitor)
    /\ AttributionOf(visitor') = event[e].result
    /\ touchpoints' = touchpoints
    /\ event[e].pc = "save" /\ x.pc \in {"done", "degraded"}

Does(e, x) ==
    \/ Passes(e, x) \/ Puts(e, x) \/ CountsTimeline(e, x) \/ Appends(e, x)
    \/ Reads(e, x) \/ Records(e, x) \/ Saves(e, x)

\* It becomes x, which carries the same input.
Becomes(e, x) ==
    /\ event' = [event EXCEPT ![e] = x]
    /\ IsEvent(x)
    /\ event[e].pc # "new" => x.in = event[e].in

EventDoes(e) == \E x : Becomes(e, x) /\ Does(e, x)

LEMMA EventUpdates ==
    ASSUME Shape, NEW e \in Events
    PROVE  /\ \A pc \in ({"done", "degraded"} \cup InFlight) :
                 event[e].pc # "new" =>
                 LET x == [event[e] EXCEPT !.pc = pc]
                 IN  /\ IsEvent(x) /\ x.pc = pc /\ x.in = event[e].in
                     /\ x.count = event[e].count /\ x.result = event[e].result
                     /\ x.found = event[e].found
           /\ event[e].pc \in {"new", "done", "degraded"} \cup InFlight
<1> DEFINE y == event[e]
<1>1. IsEvent(y) BY DEF Shape
<1> HIDE DEF y
<1>2. \A pc \in ({"done", "degraded"} \cup InFlight) : y.pc # "new" =>
         LET x == [y EXCEPT !.pc = pc]
         IN  /\ IsEvent(x) /\ x.pc = pc /\ x.in = y.in
             /\ x.count = y.count /\ x.result = y.result /\ x.found = y.found
  BY <1>1 DEF IsEvent, IsRecord
<1> QED BY <1>1, <1>2 DEF y, IsEvent

\* e goes on at pc, or its answer got lost.
LEMMA Goes ==
    ASSUME Shape, NEW e \in Events, NEW pc \in InFlight \cup {"done"}, event[e].pc # "new",
           GoesOn(e, pc)
    PROVE  \E x : /\ Becomes(e, x) /\ x.pc \in {pc, "degraded"} /\ x.in = event[e].in
                  /\ x.count = event[e].count /\ x.result = event[e].result
                  /\ x.found = event[e].found
<1>1. PICK to \in {pc, "degraded"} : event' = [event EXCEPT ![e].pc = to] BY DEF GoesOn
<1> DEFINE x == [event[e] EXCEPT !.pc = to]
<1>2. to \in {"done", "degraded"} \cup InFlight OBVIOUS
<1>3. /\ IsEvent(x) /\ x.pc = to /\ x.in = event[e].in
      /\ x.count = event[e].count /\ x.result = event[e].result /\ x.found = event[e].found
  BY <1>2, EventUpdates
<1>4. event' = [event EXCEPT ![e] = x] BY <1>1
<1> HIDE DEF x
<1> QED BY <1>3, <1>4 DEF Becomes

LEMMA SameIsSame == Shape /\ visitor' = visitor => SameRow
  BY DEF Shape, SameRow

LEMMA PcFacts == /\ "findClicks" \in InFlight /\ "mergeClicks" \in InFlight
                 /\ "findVisitor" \in InFlight /\ "putVisitor" \in InFlight
                 /\ "count" \in InFlight /\ "append" \in InFlight /\ "journey" \in InFlight
                 /\ "record" \in InFlight /\ "save" \in InFlight
                 /\ "new" \notin InFlight
  BY DEF InFlight

LEMMA StartDoes == ASSUME Shape, NEW e \in Events, Start(e) PROVE EventDoes(e)
<1>1. PICK in \in Inputs :
         event' = [event EXCEPT ![e] = [event[e] EXCEPT !.in = in,
                      !.pc = IF in.keys = {} THEN "findVisitor" ELSE "findClicks"]]
  BY DEF Start
<1> DEFINE pc == IF in.keys = {} THEN "findVisitor" ELSE "findClicks"
           y == event[e]
           x == [y EXCEPT !.in = in, !.pc = pc]
<1>2. pc \in {"findVisitor", "findClicks"} OBVIOUS
<1>3. IsEvent(y) /\ y.pc = "new" BY DEF Shape, Start
<1> HIDE DEF y, pc
<1>4. IsEvent(x) /\ x.pc = pc
  <2> DEFINE z == [y EXCEPT !.in = in]
  <2>1. /\ IsRecord(z) /\ z.in = in
        /\ z.clicks = y.clicks /\ z.found = y.found /\ z.count = y.count /\ z.rows = y.rows /\ z.result = y.result
    BY <1>3 DEF IsEvent, IsRecord
  <2>2. x = [z EXCEPT !.pc = pc] BY <1>3 DEF IsEvent, IsRecord
  <2> HIDE DEF z, x
  <2>3. /\ IsRecord(x) /\ x.pc = pc
        /\ x.in = z.in /\ x.clicks = z.clicks /\ x.found = z.found /\ x.count = z.count /\ x.rows = z.rows /\ x.result = z.result
    BY <2>1, <2>2 DEF IsRecord
  <2> QED BY <1>2, <1>3, <2>1, <2>3, PcFacts DEF IsEvent
<1>5. event' = [event EXCEPT ![e] = x] BY <1>1 DEF y, pc
<1> HIDE DEF x
<1>6. Becomes(e, x) BY <1>3, <1>4, <1>5 DEF Becomes, y
<1>7. SameRow /\ touchpoints' = touchpoints BY SameIsSame DEF Start
<1>8. ~FindsRow(x) BY <1>2, <1>4 DEF FindsRow
<1>9. Passes(e, x) BY <1>2, <1>4, <1>7, <1>8 DEF Passes
<1> QED BY <1>6, <1>9 DEF EventDoes, Does

LEMMA FindClicksDoes == ASSUME Shape, NEW e \in Events, FindClicks(e) PROVE EventDoes(e)
<1> DEFINE clicks == event[e].in.keys \cup (IF visitor = None THEN {} ELSE visitor.clicks)
           pc == IF visitor = None THEN "findVisitor" ELSE "mergeClicks"
           y == event[e]
           x == [y EXCEPT !.clicks = clicks, !.pc = pc]
<1>1. event' = [event EXCEPT ![e] = x] BY DEF FindClicks
<1>2. pc \in {"findVisitor", "mergeClicks"} /\ (pc = "mergeClicks" => visitor # None) OBVIOUS
<1>3. IsEvent(y) /\ y.pc = "findClicks" BY DEF Shape, FindClicks
<1> HIDE DEF y, pc, clicks
<1>4. IsEvent(x) /\ x.pc = pc /\ x.in = y.in
  <2> DEFINE z == [y EXCEPT !.clicks = clicks]
  <2>1. /\ IsRecord(z) /\ z.clicks = clicks
        /\ z.in = y.in /\ z.found = y.found /\ z.count = y.count /\ z.rows = y.rows /\ z.result = y.result
    BY <1>3 DEF IsEvent, IsRecord
  <2>2. x = [z EXCEPT !.pc = pc] BY <1>3 DEF IsEvent, IsRecord
  <2> HIDE DEF z, x
  <2>3. /\ IsRecord(x) /\ x.pc = pc
        /\ x.in = z.in /\ x.clicks = z.clicks /\ x.found = z.found /\ x.count = z.count /\ x.rows = z.rows /\ x.result = z.result
    BY <2>1, <2>2 DEF IsRecord
  <2> QED BY <1>2, <1>3, <2>1, <2>3, PcFacts DEF IsEvent
<1> HIDE DEF x
<1>6. Becomes(e, x) BY <1>1, <1>4 DEF Becomes, y
<1>7. SameRow /\ touchpoints' = touchpoints BY SameIsSame DEF FindClicks
<1>8. FindsRow(x) => visitor # None BY <1>2, <1>4 DEF FindsRow
<1>9. Passes(e, x) BY <1>2, <1>4, <1>7, <1>8 DEF Passes
<1> QED BY <1>6, <1>9 DEF EventDoes, Does

LEMMA MergeClicksDoes ==
    ASSUME NoneIsNoRow, Shape, NEW e \in Events, MergeClicks(e) PROVE EventDoes(e)
<1>1. event[e].pc = "mergeClicks" BY DEF MergeClicks
<1>2. visitor # None /\ IsRow(visitor) BY <1>1 DEF Shape, FindsRow
<1>3. visitor' = [visitor EXCEPT !.clicks = event[e].clicks] BY DEF MergeClicks
<1>4. /\ visitor' = [clicks |-> event[e].clicks, events |-> visitor.events,
                     conversions |-> visitor.conversions, attribution |-> visitor.attribution]
  BY <1>2, <1>3 DEF IsRow
<1>5. visitor' # None BY <1>4 DEF NoneIsNoRow
<1>6. SameRow BY <1>2, <1>4, <1>5 DEF SameRow, IsRow, EventsOf, ConversionsOf, AttributionOf
<1>7. PICK x : Becomes(e, x) /\ x.pc \in {"findVisitor", "degraded"}
  BY <1>1, Goes, PcFacts DEF MergeClicks
<1>8. Passes(e, x) BY <1>6, <1>7 DEF Passes, MergeClicks, FindsRow
<1> QED BY <1>7, <1>8 DEF EventDoes, Does

LEMMA FindVisitorDoes == ASSUME Shape, NEW e \in Events, FindVisitor(e) PROVE EventDoes(e)
<1> DEFINE found == visitor # None
           y == event[e]
           x == [y EXCEPT !.pc = "putVisitor", !.found = found]
<1>1. event' = [event EXCEPT ![e] = x]
  <2>1. event' = [event EXCEPT ![e].pc = "putVisitor", ![e].found = found]
    BY DEF FindVisitor
  <2>2. event = [q \in Events |-> event[q]] BY DEF Shape
  <2> HIDE DEF found
  <2> QED BY <2>1, <2>2
<1>3. IsEvent(y) /\ y.pc = "findVisitor" BY DEF Shape, FindVisitor
<1> HIDE DEF y, found
<1>4. IsEvent(x) /\ x.pc = "putVisitor" /\ x.in = y.in /\ x.found = found
  <2> DEFINE z == [y EXCEPT !.found = found]
  <2>1. /\ IsRecord(z) /\ z.found = found
        /\ z.in = y.in /\ z.clicks = y.clicks /\ z.count = y.count /\ z.rows = y.rows /\ z.result = y.result
    BY <1>3 DEF IsEvent, IsRecord
  <2>2. x = [z EXCEPT !.pc = "putVisitor"] BY <1>3 DEF IsEvent, IsRecord
  <2> HIDE DEF z, x
  <2>3. /\ IsRecord(x) /\ x.pc = "putVisitor"
        /\ x.in = z.in /\ x.clicks = z.clicks /\ x.found = z.found /\ x.count = z.count /\ x.rows = z.rows /\ x.result = z.result
    BY <2>1, <2>2 DEF IsRecord
  <2> QED BY <1>3, <2>1, <2>3, PcFacts DEF IsEvent
<1> HIDE DEF x
<1>6. Becomes(e, x) BY <1>1, <1>4 DEF Becomes, y
<1>7. SameRow /\ touchpoints' = touchpoints BY SameIsSame DEF FindVisitor
<1>8. FindsRow(x) => visitor # None BY <1>4 DEF FindsRow, found
<1>9. Passes(e, x) BY <1>4, <1>7, <1>8 DEF Passes
<1> QED BY <1>6, <1>9 DEF EventDoes, Does

LEMMA PutVisitorDoes ==
    ASSUME NoneIsNoRow, Shape, NEW e \in Events, PutVisitor(e) PROVE EventDoes(e)
<1>1. event[e].pc = "putVisitor" BY DEF PutVisitor
<1>2. PICK pc \in {"count", "done"} : GoesOn(e, pc) /\ (pc = "done" => ~event[e].in.conversion)
  BY DEF PutVisitor, IsTouch
<1>3. PICK x : /\ Becomes(e, x) /\ x.pc \in {pc, "degraded"} /\ x.in = event[e].in
  BY <1>1, <1>2, Goes, PcFacts
<1>4. touchpoints' = touchpoints BY DEF PutVisitor
<1>5. CASE event[e].found /\ visitor' = Seen(e)
  <2>1. visitor # None /\ IsRow(visitor) BY <1>1, <1>5 DEF Shape, FindsRow
  <2>2. PICK clicks : visitor' = [visitor EXCEPT !.events = visitor.events + 1, !.clicks = clicks]
    BY <1>5 DEF Seen
  <2>3. visitor' = [clicks |-> clicks, events |-> visitor.events + 1,
                    conversions |-> visitor.conversions, attribution |-> visitor.attribution]
    BY <2>1, <2>2 DEF IsRow
  <2>4. visitor' # None BY <2>3 DEF NoneIsNoRow
  <2>5. Puts(e, x)
    BY <1>2, <1>3, <1>4, <2>1, <2>3, <2>4
    DEF Puts, IsRow, EventsOf, ConversionsOf, AttributionOf
  <2> QED BY <1>3, <2>5 DEF EventDoes, Does
<1>6. CASE visitor = None /\ visitor' = Created(e)
  <2>1. visitor' = [clicks |-> event[e].clicks, events |-> 1,
                    conversions |-> 0, attribution |-> None]
    BY <1>6 DEF Created
  <2>2. visitor' # None BY <2>1 DEF NoneIsNoRow
  <2>3. Puts(e, x)
    BY <1>2, <1>3, <1>4, <1>6, <2>1, <2>2
    DEF Puts, IsRow, EventsOf, ConversionsOf, AttributionOf
  <2> QED BY <1>3, <2>3 DEF EventDoes, Does
<1> QED BY <1>5, <1>6 DEF PutVisitor

LEMMA EndsDoes ==
    ASSUME Shape, NEW e \in Events, LoseVisitor(e) \/ Degrade(e) PROVE EventDoes(e)
<1>1. /\ event[e].pc # "new" /\ event' = [event EXCEPT ![e].pc = "degraded"]
      /\ visitor' = visitor /\ touchpoints' = touchpoints
  BY PcFacts DEF LoseVisitor, Degrade
<1>2. GoesOn(e, "done") BY <1>1 DEF GoesOn
<1> DEFINE x == [event[e] EXCEPT !.pc = "degraded"]
<1>3. IsEvent(x) /\ x.pc = "degraded" /\ x.in = event[e].in BY <1>1, EventUpdates
<1>4. event' = [event EXCEPT ![e] = x] BY <1>1
<1> HIDE DEF x
<1>5. Becomes(e, x) BY <1>3, <1>4 DEF Becomes
<1>6. Passes(e, x) BY <1>1, <1>3, SameIsSame DEF Passes, FindsRow
<1> QED BY <1>5, <1>6 DEF EventDoes, Does

LEMMA CountTouchpointsDoes ==
    ASSUME Shape, NEW e \in Events, CountTouchpoints(e) PROVE EventDoes(e)
<1> DEFINE n == Len(touchpoints)
           y == event[e]
           x == [y EXCEPT !.pc = "append", !.count = n, !.rows = n]
<1>1. event' = [event EXCEPT ![e] = x]
  <2>1. event' = [event EXCEPT ![e].pc = "append", ![e].count = n, ![e].rows = n]
    BY DEF CountTouchpoints, RowCount
  <2>2. event = [q \in Events |-> event[q]] BY DEF Shape
  <2> HIDE DEF n
  <2> QED BY <2>1, <2>2
<1>2. n \in Nat BY DEF Shape
<1>3. IsEvent(y) /\ y.pc = "count" BY DEF Shape, CountTouchpoints
<1>4. visitor # None BY <1>3 DEF Shape, FindsRow
<1> HIDE DEF y, n
<1>5. IsEvent(x) /\ x.pc = "append" /\ x.in = y.in /\ x.count = n /\ x.rows = n
  <2> DEFINE u == [y EXCEPT !.count = n]
  <2>0. /\ IsRecord(u) /\ u.count = n
        /\ u.in = y.in /\ u.clicks = y.clicks /\ u.found = y.found /\ u.result = y.result
    BY <1>3 DEF IsEvent, IsRecord
  <2> DEFINE z == [u EXCEPT !.rows = n]
  <2> HIDE DEF u
  <2>1. /\ IsRecord(z) /\ z.count = n /\ z.rows = n
        /\ z.in = u.in /\ z.clicks = u.clicks /\ z.found = u.found /\ z.result = u.result
    BY <2>0 DEF IsRecord
  <2>2. x = [z EXCEPT !.pc = "append"] BY <1>3 DEF IsEvent, IsRecord, u
  <2> HIDE DEF z, x
  <2>3. /\ IsRecord(x) /\ x.pc = "append"
        /\ x.in = z.in /\ x.clicks = z.clicks /\ x.found = z.found /\ x.count = z.count /\ x.rows = z.rows /\ x.result = z.result
    BY <2>1, <2>2 DEF IsRecord
  <2> QED BY <1>2, <1>3, <2>0, <2>1, <2>3, PcFacts DEF IsEvent
<1> HIDE DEF x
<1>6. Becomes(e, x) BY <1>1, <1>5 DEF Becomes, y
<1>7. SameRow /\ touchpoints' = touchpoints BY SameIsSame DEF CountTouchpoints
<1>8. CountsTimeline(e, x) BY <1>3, <1>4, <1>5, <1>7 DEF CountsTimeline, y, n
<1> QED BY <1>6, <1>8 DEF EventDoes, Does

LEMMA AppendTouchpointDoes ==
    ASSUME Shape, NEW e \in Events, AppendTouchpoint(e) PROVE EventDoes(e)
<1>1. event[e].pc = "append" BY DEF AppendTouchpoint
<1>2. PICK pc \in {"journey", "done"} : /\ GoesOn(e, pc)
                                        /\ pc = "journey" <=> event[e].in.conversion
  BY DEF AppendTouchpoint
<1>3. PICK x : Becomes(e, x) /\ x.pc \in {pc, "degraded"} /\ x.in = event[e].in
  BY <1>1, <1>2, Goes, PcFacts
<1>4. visitor # None BY <1>1 DEF Shape, FindsRow
<1>5. SameRow /\ touchpoints' = Recorded(e) BY SameIsSame DEF AppendTouchpoint
<1>6. Appends(e, x) BY <1>1, <1>2, <1>3, <1>4, <1>5 DEF Appends
<1> QED BY <1>3, <1>6 DEF EventDoes, Does

LEMMA ReadJourneyDoes ==
    ASSUME Shape, NEW e \in Events, NEW c \in Configs, ReadJourney(e, c)
    PROVE  EventDoes(e)
<1>1. PICK r \in Results(c, event[e].in.at, touchpoints) :
         event' = [event EXCEPT ![e].pc = "record", ![e].result = r]
  BY DEF ReadJourney
<1> DEFINE y == event[e]
           x == [y EXCEPT !.pc = "record", !.result = r]
<1>2. event' = [event EXCEPT ![e] = x]
  <2>1. event = [q \in Events |-> event[q]] BY DEF Shape
  <2> QED BY <1>1, <2>1
<1>3. IsEvent(y) /\ y.pc = "journey" BY DEF Shape, ReadJourney
<1>4. visitor # None BY <1>3 DEF Shape, FindsRow
<1> HIDE DEF y
<1>5. IsEvent(x) /\ x.pc = "record" /\ x.in = y.in /\ x.result = r
  <2> DEFINE z == [y EXCEPT !.result = r]
  <2>1. /\ IsRecord(z) /\ z.result = r
        /\ z.in = y.in /\ z.clicks = y.clicks /\ z.found = y.found /\ z.count = y.count /\ z.rows = y.rows
    BY <1>3 DEF IsEvent, IsRecord
  <2>2. x = [z EXCEPT !.pc = "record"] BY <1>3 DEF IsEvent, IsRecord
  <2> HIDE DEF z, x
  <2>3. /\ IsRecord(x) /\ x.pc = "record"
        /\ x.in = z.in /\ x.clicks = z.clicks /\ x.found = z.found /\ x.count = z.count /\ x.rows = z.rows /\ x.result = z.result
    BY <2>1, <2>2 DEF IsRecord
  <2> QED BY <1>2, <1>3, <2>1, <2>3, PcFacts DEF IsEvent
<1> HIDE DEF x
<1>6. Becomes(e, x) BY <1>2, <1>5 DEF Becomes, y
<1>7. SameRow /\ touchpoints' = touchpoints BY SameIsSame DEF ReadJourney
<1>8. Reads(e, x) BY <1>1, <1>3, <1>4, <1>5, <1>7 DEF Reads, y
<1> QED BY <1>6, <1>8 DEF EventDoes, Does

LEMMA RecordConversionDoes ==
    ASSUME NoneIsNoRow, Shape, NEW e \in Events, RecordConversion(e) PROVE EventDoes(e)
<1>1. event[e].pc = "record" BY DEF RecordConversion
<1>2. PICK x : Becomes(e, x) /\ x.pc \in {"save", "degraded"} /\ x.result = event[e].result
  BY <1>1, Goes, PcFacts DEF RecordConversion
<1>3. visitor # None /\ IsRow(visitor) BY <1>1 DEF Shape, FindsRow
<1>4. visitor' = [clicks |-> visitor.clicks, events |-> visitor.events,
                  conversions |-> visitor.conversions + 1, attribution |-> event[e].result]
  BY <1>3 DEF RecordConversion, Converted, IsRow
<1>5. visitor' # None BY <1>4 DEF NoneIsNoRow
<1>6. touchpoints' = touchpoints BY DEF RecordConversion
<1>7. Records(e, x)
  BY <1>1, <1>2, <1>3, <1>4, <1>5, <1>6
  DEF Records, IsRow, EventsOf, ConversionsOf, AttributionOf
<1> QED BY <1>2, <1>7 DEF EventDoes, Does

LEMMA SaveAttributionDoes ==
    ASSUME NoneIsNoRow, Shape, NEW e \in Events, SaveAttribution(e) PROVE EventDoes(e)
<1>1. event[e].pc = "save" BY DEF SaveAttribution
<1>2. PICK x : Becomes(e, x) /\ x.pc \in {"done", "degraded"}
  BY <1>1, Goes, PcFacts DEF SaveAttribution
<1>3. visitor # None /\ IsRow(visitor) BY <1>1 DEF Shape, FindsRow
<1>4. visitor' = [clicks |-> visitor.clicks, events |-> visitor.events,
                  conversions |-> visitor.conversions, attribution |-> event[e].result]
  BY <1>3 DEF SaveAttribution, IsRow
<1>5. visitor' # None BY <1>4 DEF NoneIsNoRow
<1>6. touchpoints' = touchpoints BY DEF SaveAttribution
<1>7. Saves(e, x)
  BY <1>1, <1>2, <1>3, <1>4, <1>5, <1>6
  DEF Saves, IsRow, EventsOf, ConversionsOf, AttributionOf
<1> QED BY <1>2, <1>7 DEF EventDoes, Does

LEMMA StepDoes ==
    ASSUME NoneIsNoRow, Shape, NEW e \in Events, EventStep(e) PROVE EventDoes(e)
  BY StartDoes, FindClicksDoes, MergeClicksDoes, FindVisitorDoes, PutVisitorDoes, EndsDoes,
     CountTouchpointsDoes, AppendTouchpointDoes, ReadJourneyDoes, RecordConversionDoes,
     SaveAttributionDoes
  DEF EventStep

-------------------------------------------------------------------------------
(* The shape holds                                                          *)

LEMMA BecomesMoves ==
    ASSUME Shape, NEW e \in Events, NEW x, Becomes(e, x)
    PROVE  /\ event'[e] = x /\ IsEvent(x)
           /\ \A q \in Events : q # e => event'[q] = event[q]
           /\ event' = [q \in Events |-> event'[q]]
  BY DEF Becomes, Shape

LEMMA Inserted ==
    ASSUME Shape, NEW e \in Events, event[e].pc # "new"
    PROVE  /\ event[e].in \in Input
           /\ Recorded(e) \in Seq(Touchpoint)
           /\ Len(Recorded(e)) = Len(touchpoints) + 1
           /\ \A i \in DOMAIN touchpoints : Recorded(e)[i] = touchpoints[i]
           /\ Recorded(e)[Len(touchpoints) + 1] =
                 [at |-> event[e].in.at, conversion |-> event[e].in.conversion,
                  position |-> event[e].count + 1, after |-> event[e].rows]
<1>1. event[e].in \in Input /\ event[e].count + 1 \in Nat /\ event[e].rows \in Nat
  BY AttributionAssumption DEF Shape, IsEvent
<1> DEFINE tp == [at |-> event[e].in.at, conversion |-> event[e].in.conversion,
                  position |-> event[e].count + 1, after |-> event[e].rows]
<1>2. tp \in Touchpoint BY <1>1 DEF Input, Touchpoint
<1>3. touchpoints \in Seq(Touchpoint) BY DEF Shape
<1>4. Recorded(e) = Append(touchpoints, tp) BY DEF Recorded
<1> HIDE DEF tp
<1>5. /\ Recorded(e) \in Seq(Touchpoint)
      /\ Len(Recorded(e)) = Len(touchpoints) + 1
      /\ \A i \in DOMAIN touchpoints : Recorded(e)[i] = touchpoints[i]
      /\ Recorded(e)[Len(touchpoints) + 1] = tp
  BY <1>2, <1>3, <1>4
<1> QED BY <1>1, <1>5 DEF tp

LEMMA ShapeInit == Init => Shape
<1> SUFFICES ASSUME Init PROVE Shape OBVIOUS
<1>1. IsEvent(NewEvent) /\ NewEvent.pc = "new" BY DEF IsEvent, IsRecord, NewEvent
<1>2. \A e \in Events : event[e] = NewEvent BY DEF Init
<1>3. \A e \in Events : IsEvent(event[e]) /\ ~FindsRow(event[e]) BY <1>1, <1>2 DEF FindsRow
<1> QED BY <1>3 DEF Init, Shape

LEMMA ShapeNext == ASSUME NoneIsNoRow, Shape, [Next]_vars PROVE Shape'
<1>1. CASE UNCHANGED vars BY <1>1 DEF Shape, vars
<1>2. ASSUME NEW e \in Events, EventStep(e) PROVE Shape'
  <2>1. EventDoes(e) BY <1>2, StepDoes
  <2>2. PICK x : Becomes(e, x) /\ Does(e, x) BY <2>1 DEF EventDoes
  <2>3. /\ event'[e] = x /\ IsEvent(x)
        /\ \A q \in Events : q # e => event'[q] = event[q]
        /\ event' = [q \in Events |-> event'[q]]
    BY <2>2, BecomesMoves
  <2>4. /\ visitor' # None => IsRow(visitor')
        /\ visitor # None => visitor' # None
        /\ FindsRow(x) => visitor' # None
    BY <2>2
    DEF Does, Passes, Puts, CountsTimeline, Appends, Reads, Records, Saves, SameRow, Shape
  <2>5. touchpoints' \in Seq(Touchpoint)
    BY <2>2, Inserted
    DEF Does, Passes, Puts, CountsTimeline, Appends, Reads, Records, Saves, Shape
  <2>6. \A q \in Events : IsEvent(event'[q]) BY <2>3 DEF Shape
  <2>7. \A q \in Events : FindsRow(event'[q]) => visitor' # None BY <2>3, <2>4 DEF Shape
  <2> QED BY <2>3, <2>4, <2>5, <2>6, <2>7 DEF Shape
<1> QED BY <1>1, <1>2 DEF Next

-------------------------------------------------------------------------------
(* What is counted, in the row and in the timeline                          *)

Awaits(x)   == x.pc \in {"count", "append"}
Converts(x) == x.pc \in {"journey", "record"}
Books(x)    == x.pc \in {"save", "done"} /\ x.in.conversion

\* The events that are in eventCount but whose touchpoint is still to come, the
\* conversions in the timeline but not yet in conversionCount, and those in it.
Awaiting   == {e \in Events : Awaits(event[e])}
Converting == {e \in Events : Converts(event[e])}
Booked     == {e \in Events : Books(event[e])}

Counted ==
    /\ Len(touchpoints) + Cardinality(Awaiting) <= EventsOf(visitor)
    /\ ConversionsOf(visitor) + Cardinality(Converting) <= Cardinality(Conversions)
    /\ Cardinality(Booked) <= ConversionsOf(visitor)

\* Two sets of events that differ in e only.
LEMMA OneOff ==
    ASSUME NEW e, NEW S \in SUBSET Events, NEW T \in SUBSET Events,
           \A q \in Events : q # e => (q \in T <=> q \in S)
    PROVE  /\ Cardinality(S) \in Nat /\ Cardinality(T) \in Nat
           /\ (e \in S <=> e \in T) => Cardinality(T) = Cardinality(S)
           /\ e \in S /\ e \notin T => Cardinality(T) = Cardinality(S) - 1
           /\ e \notin S /\ e \in T => Cardinality(T) = Cardinality(S) + 1
<1>1. IsFiniteSet(S) /\ IsFiniteSet(T) BY FS_Subset, AttributionAssumption
<1>2. Cardinality(S) \in Nat /\ Cardinality(T) \in Nat BY <1>1, FS_CardinalityType
<1>3. ASSUME e \in S <=> e \in T PROVE Cardinality(T) = Cardinality(S)
  <2>1. S = T BY <1>3
  <2> QED BY <2>1
<1>4. ASSUME e \in S, e \notin T PROVE Cardinality(T) = Cardinality(S) - 1
  <2>1. T = S \ {e} BY <1>4
  <2> QED BY <1>1, <1>4, <2>1, FS_RemoveElement
<1>5. ASSUME e \notin S, e \in T PROVE Cardinality(T) = Cardinality(S) + 1
  <2>1. T = S \cup {e} BY <1>5
  <2> QED BY <1>1, <1>5, <2>1, FS_AddElement
<1> QED BY <1>2, <1>3, <1>4, <1>5

\* How the three counts of events move when e becomes x.
LEMMA CountsMove ==
    ASSUME Shape, NEW e \in Events, NEW x, Becomes(e, x)
    PROVE  LET a == Cardinality(Awaiting)    c == Cardinality(Converting)
               b == Cardinality(Booked)
               y == event[e]
           IN  /\ a \in Nat /\ b \in Nat /\ c \in Nat
               /\ a' \in Nat /\ b' \in Nat /\ c' \in Nat
               /\ a' = a + (IF Awaits(x) THEN 1 ELSE 0) - (IF Awaits(y) THEN 1 ELSE 0)
               /\ c' = c + (IF Converts(x) THEN 1 ELSE 0) - (IF Converts(y) THEN 1 ELSE 0)
               /\ b' = b + (IF Books(x) THEN 1 ELSE 0) - (IF Books(y) THEN 1 ELSE 0)
<1>1. /\ event'[e] = x /\ \A q \in Events : q # e => event'[q] = event[q]
  BY BecomesMoves
<1>2. /\ Awaiting \in SUBSET Events /\ Awaiting' \in SUBSET Events
      /\ Awaiting' = {q \in Events : Awaits(event'[q])}
  BY DEF Awaiting
<1>3. /\ Converting \in SUBSET Events /\ Converting' \in SUBSET Events
      /\ Converting' = {q \in Events : Converts(event'[q])}
  BY DEF Converting
<1>4. /\ Booked \in SUBSET Events /\ Booked' \in SUBSET Events
      /\ Booked' = {q \in Events : Books(event'[q])}
  BY DEF Booked
<1>5. /\ e \in Awaiting <=> Awaits(event[e])
      /\ e \in Awaiting' <=> Awaits(x)
      /\ \A q \in Events : q # e => (q \in Awaiting' <=> q \in Awaiting)
  BY <1>1, <1>2 DEF Awaiting
<1>6. /\ e \in Converting <=> Converts(event[e])
      /\ e \in Converting' <=> Converts(x)
      /\ \A q \in Events : q # e => (q \in Converting' <=> q \in Converting)
  BY <1>1, <1>3 DEF Converting
<1>7. /\ e \in Booked <=> Books(event[e])
      /\ e \in Booked' <=> Books(x)
      /\ \A q \in Events : q # e => (q \in Booked' <=> q \in Booked)
  BY <1>1, <1>4 DEF Booked
<1>8. PICK A, B : A = Awaiting /\ B = Awaiting' OBVIOUS
<1>9. PICK C, D : C = Converting /\ D = Converting' OBVIOUS
<1>10. PICK F, G : F = Booked /\ G = Booked' OBVIOUS
<1>11. /\ Cardinality(A) \in Nat /\ Cardinality(B) \in Nat
       /\ Cardinality(B) = Cardinality(A) + (IF Awaits(x) THEN 1 ELSE 0)
                              - (IF Awaits(event[e]) THEN 1 ELSE 0)
  <2>1. /\ A \in SUBSET Events /\ B \in SUBSET Events
        /\ \A q \in Events : q # e => (q \in B <=> q \in A)
        /\ e \in A <=> Awaits(event[e])
        /\ e \in B <=> Awaits(x)
    BY <1>2, <1>5, <1>8
  <2>2. /\ Cardinality(A) \in Nat /\ Cardinality(B) \in Nat
        /\ (e \in A <=> e \in B) => Cardinality(B) = Cardinality(A)
        /\ e \in A /\ e \notin B => Cardinality(B) = Cardinality(A) - 1
        /\ e \notin A /\ e \in B => Cardinality(B) = Cardinality(A) + 1
    BY <2>1, OneOff
  <2> QED BY <2>1, <2>2
<1>12. /\ Cardinality(C) \in Nat /\ Cardinality(D) \in Nat
       /\ Cardinality(D) = Cardinality(C) + (IF Converts(x) THEN 1 ELSE 0)
                              - (IF Converts(event[e]) THEN 1 ELSE 0)
  <2>1. /\ C \in SUBSET Events /\ D \in SUBSET Events
        /\ \A q \in Events : q # e => (q \in D <=> q \in C)
        /\ e \in C <=> Converts(event[e])
        /\ e \in D <=> Converts(x)
    BY <1>3, <1>6, <1>9
  <2>2. /\ Cardinality(C) \in Nat /\ Cardinality(D) \in Nat
        /\ (e \in C <=> e \in D) => Cardinality(D) = Cardinality(C)
        /\ e \in C /\ e \notin D => Cardinality(D) = Cardinality(C) - 1
        /\ e \notin C /\ e \in D => Cardinality(D) = Cardinality(C) + 1
    BY <2>1, OneOff
  <2> QED BY <2>1, <2>2
<1>13. /\ Cardinality(F) \in Nat /\ Cardinality(G) \in Nat
       /\ Cardinality(G) = Cardinality(F) + (IF Books(x) THEN 1 ELSE 0)
                              - (IF Books(event[e]) THEN 1 ELSE 0)
  <2>1. /\ F \in SUBSET Events /\ G \in SUBSET Events
        /\ \A q \in Events : q # e => (q \in G <=> q \in F)
        /\ e \in F <=> Books(event[e])
        /\ e \in G <=> Books(x)
    BY <1>4, <1>7, <1>10
  <2>2. /\ Cardinality(F) \in Nat /\ Cardinality(G) \in Nat
        /\ (e \in F <=> e \in G) => Cardinality(G) = Cardinality(F)
        /\ e \in F /\ e \notin G => Cardinality(G) = Cardinality(F) - 1
        /\ e \notin F /\ e \in G => Cardinality(G) = Cardinality(F) + 1
    BY <2>1, OneOff
  <2> QED BY <2>1, <2>2
<1> QED BY <1>8, <1>9, <1>10, <1>11, <1>12, <1>13

LEMMA ConversionsFinite ==
    ASSUME Shape PROVE IsFiniteSet(Conversions) /\ Cardinality(Conversions) \in Nat
<1>1. DOMAIN touchpoints = 1..Len(touchpoints) /\ Len(touchpoints) \in Nat BY DEF Shape
<1>2. IsFiniteSet(1..Len(touchpoints)) BY <1>1, FS_Interval
<1>3. Conversions \in SUBSET (1..Len(touchpoints)) BY <1>1 DEF Conversions
<1> QED BY <1>2, <1>3, FS_Subset, FS_CardinalityType

\* A conversion that is appended is one more in the timeline.
LEMMA ConversionsMove ==
    ASSUME Shape, NEW e \in Events, event[e].pc # "new", touchpoints' = Recorded(e)
    PROVE  /\ Conversions \subseteq Conversions'
           /\ Cardinality(Conversions') \in Nat
           /\ Cardinality(Conversions') >= Cardinality(Conversions)
           /\ event[e].in.conversion =>
                 /\ Cardinality(Conversions') = Cardinality(Conversions) + 1
                 /\ Len(touchpoints) + 1 \in Conversions'
<1> DEFINE n == Len(touchpoints)
<1>1. /\ DOMAIN touchpoints = 1..n /\ n \in Nat
      /\ DOMAIN touchpoints' = 1..(n + 1)
      /\ \A i \in 1..n : touchpoints'[i] = touchpoints[i]
      /\ touchpoints'[n + 1].conversion = event[e].in.conversion
      /\ event[e].in.conversion \in BOOLEAN
  <2>1. /\ event[e].in \in Input /\ Recorded(e) \in Seq(Touchpoint)
        /\ Len(Recorded(e)) = n + 1
        /\ \A i \in DOMAIN touchpoints : Recorded(e)[i] = touchpoints[i]
        /\ Recorded(e)[n + 1] = [at |-> event[e].in.at, conversion |-> event[e].in.conversion,
                                 position |-> event[e].count + 1, after |-> event[e].rows]
    BY Inserted
  <2>2. DOMAIN touchpoints = 1..n /\ n \in Nat BY DEF Shape
  <2>3. event[e].in.conversion \in BOOLEAN BY <2>1 DEF Input
  <2> HIDE DEF n
  <2>4. DOMAIN Recorded(e) = 1..(n + 1) BY <2>1
  <2> QED BY <2>1, <2>2, <2>3, <2>4
<1> HIDE DEF n
<1>2. Conversions' = {i \in DOMAIN touchpoints' : touchpoints'[i].conversion} BY DEF Conversions
<1>3. Conversions \subseteq 1..n /\ n + 1 \notin Conversions BY <1>1 DEF Conversions
<1>4. CASE event[e].in.conversion
  <2>2. Conversions' = Conversions \cup {n + 1}
    <3>1. \A i : i \in Conversions <=> i \in 1..n /\ touchpoints[i].conversion
      BY <1>1 DEF Conversions
    <3>2. \A i : i \in Conversions' <=> i \in 1..(n + 1) /\ touchpoints'[i].conversion
      BY <1>1, <1>2
    <3>3. touchpoints'[n + 1].conversion BY <1>1, <1>4
    <3>4. \A i \in 1..n : touchpoints'[i].conversion <=> touchpoints[i].conversion BY <1>1
    <3>5. \A i : i \in 1..(n + 1) <=> i \in 1..n \/ i = n + 1 BY <1>1
    <3>6. \A i : i \in Conversions' <=> i \in Conversions \/ i = n + 1
      BY <3>1, <3>2, <3>3, <3>4, <3>5
    <3> QED BY <3>6
  <2>3. IsFiniteSet(Conversions) /\ Cardinality(Conversions) \in Nat BY ConversionsFinite
  <2>4. Cardinality(Conversions \cup {n + 1}) = Cardinality(Conversions) + 1
    BY <1>3, <2>3, FS_AddElement
  <2> QED BY <2>2, <2>3, <2>4 DEF n
<1>5. CASE ~event[e].in.conversion
  <2>1. Conversions' = Conversions BY <1>1, <1>2, <1>5 DEF Conversions
  <2> QED BY <1>5, <2>1, ConversionsFinite
<1> QED BY <1>4, <1>5

LEMMA SameConversions == touchpoints' = touchpoints => Conversions' = Conversions
  BY DEF Conversions

LEMMA CountedInit == Init => Counted
<1> SUFFICES ASSUME Init PROVE Counted OBVIOUS
<1>1. \A e \in Events : event[e].pc = "new" BY DEF Init, NewEvent
<1>2. Awaiting = {} /\ Converting = {} /\ Booked = {}
  BY <1>1 DEF Awaiting, Awaits, Converting, Converts, Booked, Books
<1>3. Conversions = {} BY DEF Init, Conversions
<1> QED BY <1>2, <1>3, FS_EmptySet DEF Init, Counted, EventsOf, ConversionsOf

LEMMA CountedNext == ASSUME NoneIsNoRow, Shape, Counted, [Next]_vars PROVE Counted'
<1>1. CASE UNCHANGED vars
  <2>1. visitor' = visitor /\ touchpoints' = touchpoints /\ event' = event BY <1>1 DEF vars
  <2> QED BY <2>1 DEF Counted, Awaiting, Converting, Booked, Conversions
<1>2. ASSUME NEW e \in Events, EventStep(e) PROVE Counted'
  <2>1. EventDoes(e) BY <1>2, StepDoes
  <2>2. PICK x : Becomes(e, x) /\ Does(e, x) BY <2>1 DEF EventDoes
  <2> DEFINE a == Cardinality(Awaiting)      a1 == a'
             c == Cardinality(Converting)    c1 == c'
             b == Cardinality(Booked)        b1 == b'
             n == Cardinality(Conversions)   n1 == n'
             l == Len(touchpoints)           l1 == l'
             ev == EventsOf(visitor)         ev1 == ev'
             cv == ConversionsOf(visitor)    cv1 == cv'
             y == event[e]
  <2>3. /\ a \in Nat /\ b \in Nat /\ c \in Nat /\ a1 \in Nat /\ b1 \in Nat /\ c1 \in Nat
        /\ a1 = a + (IF Awaits(x) THEN 1 ELSE 0) - (IF Awaits(y) THEN 1 ELSE 0)
        /\ c1 = c + (IF Converts(x) THEN 1 ELSE 0) - (IF Converts(y) THEN 1 ELSE 0)
        /\ b1 = b + (IF Books(x) THEN 1 ELSE 0) - (IF Books(y) THEN 1 ELSE 0)
    BY <2>2, CountsMove
  <2>4. n \in Nat /\ l \in Nat /\ ev \in Nat /\ cv \in Nat
    BY ConversionsFinite DEF Shape, IsRow, EventsOf, ConversionsOf
  <2>5. y.pc # "new" => x.in = y.in BY <2>2 DEF Becomes
  <2>6. l + a <= ev /\ cv + c <= n /\ b <= cv BY DEF Counted
  <2>7. touchpoints' = touchpoints => l1 = l /\ n1 = n BY SameConversions
  <2>8. SameRow => ev1 = ev /\ cv1 = cv BY DEF SameRow
  <2> SUFFICES l1 + a1 <= ev1 /\ cv1 + c1 <= n1 /\ b1 <= cv1
    BY DEF Counted
  <2>9. CASE Passes(e, x)
    <3>1. touchpoints' = touchpoints /\ SameRow BY <2>9 DEF Passes
    <3>2. ~Awaits(x) /\ ~Converts(x) /\ ~Books(x)
      BY <2>9 DEF Passes, Awaits, Converts, Books
    <3> HIDE DEF a, b, c, a1, b1, c1, n, n1, l, l1, ev, ev1, cv, cv1
    <3> QED BY <2>3, <2>4, <2>6, <2>7, <2>8, <3>1, <3>2
  <2>10. CASE Puts(e, x)
    <3>1. touchpoints' = touchpoints /\ ev1 = ev + 1 /\ cv1 = cv BY <2>10 DEF Puts
    <3>2. ~Converts(x) /\ ~Books(x) BY <2>10 DEF Puts, Converts, Books
    <3> HIDE DEF a, b, c, a1, b1, c1, n, n1, l, l1, ev, ev1, cv, cv1
    <3> QED BY <2>3, <2>4, <2>6, <2>7, <3>1, <3>2
  <2>11. CASE CountsTimeline(e, x)
    <3>1. touchpoints' = touchpoints /\ SameRow BY <2>11 DEF CountsTimeline
    <3>2. Awaits(y) /\ ~Converts(x) /\ ~Books(x)
      BY <2>11 DEF CountsTimeline, Awaits, Converts, Books
    <3> HIDE DEF a, b, c, a1, b1, c1, n, n1, l, l1, ev, ev1, cv, cv1
    <3> QED BY <2>3, <2>4, <2>6, <2>7, <2>8, <3>1, <3>2
  <2>12. CASE Appends(e, x)
    <3>1. SameRow /\ y.pc = "append" /\ touchpoints' = Recorded(e) BY <2>12 DEF Appends
    <3>2. l1 = l + 1 BY <3>1, Inserted
    <3>3. n1 \in Nat /\ n1 >= n /\ (y.in.conversion => n1 = n + 1) BY <3>1, ConversionsMove
    <3>4. /\ Awaits(y) /\ ~Converts(y) /\ ~Books(y)
          /\ ~Awaits(x) /\ ~Books(x) /\ (Converts(x) => y.in.conversion)
      BY <2>5, <2>12 DEF Appends, Awaits, Converts, Books
    <3> HIDE DEF a, b, c, a1, b1, c1, n, n1, l, l1, ev, ev1, cv, cv1
    <3> QED BY <2>3, <2>4, <2>6, <2>8, <3>1, <3>2, <3>3, <3>4
  <2>13. CASE Reads(e, x)
    <3>1. touchpoints' = touchpoints /\ SameRow BY <2>13 DEF Reads
    <3>2. ~Awaits(x) /\ Converts(y) /\ ~Books(x)
      BY <2>13 DEF Reads, Awaits, Converts, Books
    <3> HIDE DEF a, b, c, a1, b1, c1, n, n1, l, l1, ev, ev1, cv, cv1
    <3> QED BY <2>3, <2>4, <2>6, <2>7, <2>8, <3>1, <3>2
  <2>14. CASE Records(e, x)
    <3>1. touchpoints' = touchpoints /\ ev1 = ev /\ cv1 = cv + 1 BY <2>14 DEF Records
    <3>2. ~Awaits(x) /\ Converts(y) /\ ~Converts(x) /\ ~Books(y)
      BY <2>14 DEF Records, Awaits, Converts, Books
    <3> HIDE DEF a, b, c, a1, b1, c1, n, n1, l, l1, ev, ev1, cv, cv1
    <3> QED BY <2>3, <2>4, <2>6, <2>7, <3>1, <3>2
  <2>15. CASE Saves(e, x)
    <3>1. touchpoints' = touchpoints /\ ev1 = ev /\ cv1 = cv BY <2>15 DEF Saves
    <3>2. ~Awaits(x) /\ ~Converts(x) /\ (Books(x) => Books(y))
      BY <2>5, <2>15 DEF Saves, Awaits, Converts, Books
    <3> HIDE DEF a, b, c, a1, b1, c1, n, n1, l, l1, ev, ev1, cv, cv1
    <3> QED BY <2>3, <2>4, <2>6, <2>7, <3>1, <3>2
  <2> QED BY <2>2, <2>9, <2>10, <2>11, <2>12, <2>13, <2>14, <2>15 DEF Does
<1> QED BY <1>1, <1>2 DEF Next

-------------------------------------------------------------------------------
(* Positions, and the timeline a stored result was calculated over          *)

\* What i says of the timeline up to it.
Follows(i) ==
    LET tp == touchpoints[i]
    IN  /\ tp.position \in 1..i
        /\ \A k \in 1..(i - 1) : k <= tp.after => touchpoints[k].position < tp.position
        /\ tp.after = i - 1 => tp.position = i

\* Rows are never deleted: what a call counted is still there when it inserts.
Positions ==
    /\ \A e \in Events : event[e].pc = "append" =>
          event[e].count = event[e].rows /\ event[e].count <= Len(touchpoints)
    /\ \A i \in DOMAIN touchpoints : Follows(i)

LEMMA PositionsSuffice == Positions => PositionsFollowJourney
  BY DEF Positions, Follows, PositionsFollowJourney

LEMMA PositionsInit == Init => Positions
  BY DEF Init, NewEvent, Positions

LEMMA PositionsNext == ASSUME NoneIsNoRow, Shape, Positions, [Next]_vars PROVE Positions'
<1>1. CASE UNCHANGED vars BY <1>1 DEF vars, Positions, Follows
<1>2. ASSUME NEW e \in Events, EventStep(e) PROVE Positions'
  <2>1. EventDoes(e) BY <1>2, StepDoes
  <2>2. PICK x : Becomes(e, x) /\ Does(e, x) BY <2>1 DEF EventDoes
  <2>3. /\ event'[e] = x /\ IsEvent(x)
        /\ \A q \in Events : q # e => event'[q] = event[q]
    BY <2>2, BecomesMoves
  <2> DEFINE n == Len(touchpoints)
  <2>4. n \in Nat /\ DOMAIN touchpoints = 1..n /\ \A q \in Events : event[q].count \in Nat
    BY DEF Shape, IsEvent
  <2>5. CASE Appends(e, x)
    <3> DEFINE tps == Recorded(e)
    <3>1. event[e].pc = "append" /\ x.pc # "append" /\ touchpoints' = tps
      BY <2>5 DEF Appends
    <3>0. /\ tps \in Seq(Touchpoint) /\ Len(tps) = n + 1
          /\ \A i \in DOMAIN touchpoints : tps[i] = touchpoints[i]
          /\ tps[n + 1] = [at |-> event[e].in.at, conversion |-> event[e].in.conversion,
                           position |-> event[e].count + 1, after |-> event[e].rows]
      BY <3>1, Inserted
    <3>2. /\ tps \in Seq(Touchpoint) /\ Len(tps) = n + 1
          /\ \A i \in DOMAIN touchpoints : tps[i] = touchpoints[i]
          /\ tps[n + 1].position = event[e].count + 1 /\ tps[n + 1].after = event[e].rows
      <4> HIDE DEF tps
      <4> QED BY <3>0
    <3>3. event[e].count \in 0..n /\ event[e].rows = event[e].count
      BY <2>4, <3>1 DEF Positions
    <3> HIDE DEF n, tps
    <3>4. DOMAIN tps = 1..(n + 1) BY <3>2
    <3>5. \A i \in 1..n : tps[i] = touchpoints[i] /\ Follows(i)
      BY <2>4, <3>2 DEF Positions
    <3>6. \A i \in 1..n : /\ tps[i].position \in 1..i
                          /\ \A k \in 1..(i - 1) : k <= tps[i].after =>
                                                     tps[k].position < tps[i].position
                          /\ tps[i].after = i - 1 => tps[i].position = i
      <4> SUFFICES ASSUME NEW i \in 1..n
                   PROVE  /\ tps[i].position \in 1..i
                          /\ \A k \in 1..(i - 1) : k <= tps[i].after =>
                                                     tps[k].position < tps[i].position
                          /\ tps[i].after = i - 1 => tps[i].position = i
        OBVIOUS
      <4>1. \A k \in 1..(i - 1) : k \in 1..n BY <2>4
      <4> QED BY <3>5, <4>1 DEF Follows
    <3>7. /\ tps[n + 1].position \in 1..(n + 1)
          /\ \A k \in 1..n : k <= tps[n + 1].after => tps[k].position < tps[n + 1].position
          /\ tps[n + 1].after = n => tps[n + 1].position = n + 1
      <4>1. \A k \in 1..n : tps[k].position \in 1..k BY <3>6
      <4> QED BY <2>4, <3>2, <3>3, <4>1
    <3>8. \A i \in 1..(n + 1) : Follows(i)'
      <4> SUFFICES ASSUME NEW i \in 1..(n + 1) PROVE Follows(i)' OBVIOUS
      <4>1. CASE i = n + 1 BY <2>4, <3>1, <3>7, <4>1 DEF Follows
      <4>2. CASE i \in 1..n BY <3>1, <3>6, <4>2 DEF Follows
      <4> QED BY <2>4, <4>1, <4>2
    <3>9. \A q \in Events : event'[q].pc = "append" =>
             event'[q].count = event'[q].rows /\ event'[q].count <= n + 1
      BY <2>3, <2>4, <3>1 DEF Positions, n
    <3> QED BY <3>1, <3>2, <3>4, <3>8, <3>9 DEF Positions
  <2>6. CASE ~Appends(e, x)
    <3>1. /\ touchpoints' = touchpoints
          /\ x.pc = "append" => x.count = n /\ x.rows = n
      BY <2>2, <2>6 DEF Does, Passes, Puts, CountsTimeline, Reads, Records, Saves
    <3>2. \A q \in Events : event'[q].pc = "append" =>
             event'[q].count = event'[q].rows /\ event'[q].count <= n
      BY <2>3, <2>4, <3>1 DEF Positions
    <3> QED BY <3>1, <3>2 DEF Positions, Follows
  <2> QED BY <2>5, <2>6
<1> QED BY <1>1, <1>2 DEF Next

\* The result of some conversion over the timeline as it was.
Replays(r) ==
    \E i \in Conversions, n \in DOMAIN touchpoints, c \in Configs :
        i <= n /\ r \in Results(c, touchpoints[i].at, SubSeq(touchpoints, 1, n))

Replayed ==
    /\ \A e \in Events : event[e].pc = "journey" =>
          \E i \in Conversions : touchpoints[i].at = event[e].in.at
    /\ \A e \in Events : event[e].pc \in {"record", "save"} => Replays(event[e].result)
    /\ AttributionOf(visitor) # None => Replays(AttributionOf(visitor))

\* What replays over a timeline replays over a longer one.
LEMMA ReplaysOn ==
    ASSUME Shape, NEW e \in Events, event[e].pc # "new",
           touchpoints' \in {touchpoints, Recorded(e)}, NEW r, Replays(r)
    PROVE  Replays(r)'
<1>1. CASE touchpoints' = touchpoints BY <1>1 DEF Replays, Conversions
<1>2. CASE touchpoints' = Recorded(e)
  <2>1. PICK i \in Conversions, n \in DOMAIN touchpoints, c \in Configs :
           i <= n /\ r \in Results(c, touchpoints[i].at, SubSeq(touchpoints, 1, n))
    BY DEF Replays
  <2>2. /\ touchpoints' \in Seq(Touchpoint) /\ Len(touchpoints') = Len(touchpoints) + 1
        /\ \A k \in DOMAIN touchpoints : touchpoints'[k] = touchpoints[k]
    BY <1>2, Inserted
  <2>3. touchpoints \in Seq(Touchpoint) BY DEF Shape
  <2>4. n \in DOMAIN touchpoints' BY <2>2, <2>3
  <2>5. i \in Conversions' BY <1>2, ConversionsMove
  <2>6. touchpoints'[i].at = touchpoints[i].at BY <2>2 DEF Conversions
  <2>7. SubSeq(touchpoints', 1, n) = SubSeq(touchpoints, 1, n)
    BY <2>2, <2>3
  <2> QED BY <2>1, <2>4, <2>5, <2>6, <2>7 DEF Replays
<1> QED BY <1>1, <1>2

LEMMA ReplayedInit == Init => Replayed
  BY DEF Init, NewEvent, Replayed, AttributionOf

LEMMA ReplayedNext == ASSUME NoneIsNoRow, Shape, Replayed, [Next]_vars PROVE Replayed'
<1>1. CASE UNCHANGED vars
  <2>1. visitor' = visitor /\ touchpoints' = touchpoints /\ event' = event BY <1>1 DEF vars
  <2> QED BY <2>1 DEF Replayed, Replays, Conversions
<1>2. ASSUME NEW e \in Events, EventStep(e) PROVE Replayed'
  <2>1. EventDoes(e) BY <1>2, StepDoes
  <2>2. PICK x : Becomes(e, x) /\ Does(e, x) BY <2>1 DEF EventDoes
  <2>3. /\ event'[e] = x /\ IsEvent(x)
        /\ \A q \in Events : q # e => event'[q] = event[q]
    BY <2>2, BecomesMoves
  <2>4. \/ touchpoints' = touchpoints
        \/ event[e].pc # "new" /\ touchpoints' = Recorded(e)
    BY <2>2 DEF Does, Passes, Puts, CountsTimeline, Appends, Reads, Records, Saves
  <2>5. \A r : Replays(r) => Replays(r)'
    BY <2>4, ReplaysOn DEF Replays, Conversions
  <2>6. \A i \in Conversions : i \in Conversions' /\ touchpoints'[i] = touchpoints[i]
    BY <2>4, SameConversions, ConversionsMove, Inserted DEF Conversions
  <2>7. \A q \in Events : event'[q].pc = "journey" =>
           \E i \in Conversions' : touchpoints'[i].at = event'[q].in.at
    <3>1. CASE x.pc = "journey"
      <4>1. /\ event[e].pc = "append" /\ x.in.conversion /\ touchpoints' = Recorded(e)
        BY <2>2, <3>1
        DEF Does, Passes, Puts, CountsTimeline, Appends, Reads, Records, Saves
      <4>2. x.in = event[e].in BY <2>2, <4>1 DEF Becomes
      <4>3. Len(touchpoints) + 1 \in Conversions' BY <4>1, <4>2, ConversionsMove
      <4>4. touchpoints'[Len(touchpoints) + 1] =
               [at |-> event[e].in.at, conversion |-> event[e].in.conversion,
                position |-> event[e].count + 1, after |-> event[e].rows]
        BY <4>1, Inserted
      <4> QED BY <2>3, <2>6, <4>2, <4>3, <4>4 DEF Replayed
    <3>2. CASE x.pc # "journey" BY <2>3, <2>6, <3>2 DEF Replayed
    <3> QED BY <3>1, <3>2
  <2>8. x.pc \in {"record", "save"} => Replays(x.result)'
    <3>1. CASE Reads(e, x)
      <4>1. PICK c \in Configs : x.result \in Results(c, event[e].in.at, touchpoints)
        BY <3>1 DEF Reads
      <4>2. PICK i \in Conversions : touchpoints[i].at = event[e].in.at
        BY <3>1 DEF Reads, Replayed
      <4>3. touchpoints \in Seq(Touchpoint) BY DEF Shape
      <4>4. SubSeq(touchpoints, 1, Len(touchpoints)) = touchpoints BY <4>3, SubSeqFull
      <4>5. /\ i \in DOMAIN touchpoints /\ i <= Len(touchpoints)
            /\ Len(touchpoints) \in DOMAIN touchpoints
        BY <4>3 DEF Conversions
      <4>6. Replays(x.result) BY <4>1, <4>2, <4>4, <4>5 DEF Replays
      <4> QED BY <2>5, <4>6
    <3>2. CASE Records(e, x) BY <2>5, <3>2 DEF Records, Replayed
    <3>3. CASE ~Reads(e, x) /\ ~Records(e, x)
      BY <2>2, <3>3 DEF Does, Passes, Puts, CountsTimeline, Appends, Saves
    <3> QED BY <3>1, <3>2, <3>3
  <2>9. ASSUME NEW q \in Events, event'[q].pc \in {"record", "save"}, NEW r,
               r = event'[q].result
        PROVE  Replays(r)'
    BY <2>3, <2>5, <2>8, <2>9 DEF Replayed
  <2>10. ASSUME NEW r, r # None, r = AttributionOf(visitor') PROVE Replays(r)'
    <3>1. \/ AttributionOf(visitor') = AttributionOf(visitor)
          \/ event[e].pc \in {"record", "save"} /\ AttributionOf(visitor') = event[e].result
      BY <2>2
      DEF Does, Passes, Puts, CountsTimeline, Appends, Reads, Records, Saves, SameRow
    <3> QED BY <2>5, <2>10, <3>1 DEF Replayed
  <2>11. \A q \in Events :
            event'[q].pc \in {"record", "save"} => Replays(event[q].result)'
    BY <2>9 DEF Replays
  <2>12. AttributionOf(visitor') # None => Replays(AttributionOf(visitor))'
    BY <2>10 DEF Replays
  <2> QED BY <2>7, <2>11, <2>12 DEF Replayed
<1> QED BY <1>1, <1>2 DEF Next

-------------------------------------------------------------------------------
Inv == Shape /\ Counted /\ Positions /\ Replayed

LEMMA InvHolds == ASSUME NoneIsNoRow PROVE Spec => []Inv
<1>1. Init => Inv BY ShapeInit, CountedInit, PositionsInit, ReplayedInit DEF Inv
<1>2. Inv /\ [Next]_vars => Inv'
  BY ShapeNext, CountedNext, PositionsNext, ReplayedNext DEF Inv
<1> QED BY <1>1, <1>2, PTL DEF Spec

LEMMA InvCounts == Inv => ConversionsCounted
<1> SUFFICES ASSUME Inv PROVE ConversionsCounted OBVIOUS
<1> DEFINE D == {e \in Events : event[e].pc = "done" /\ event[e].in.conversion}
<1>1. D \in SUBSET Booked /\ Booked \in SUBSET Events BY DEF Booked, Books
<1>2. IsFiniteSet(Booked) BY <1>1, AttributionAssumption, FS_Subset
<1>3. Cardinality(D) <= Cardinality(Booked) /\ Cardinality(D) \in Nat
  BY <1>1, <1>2, FS_Subset, FS_CardinalityType
<1>4. IsFiniteSet(Converting) /\ Cardinality(Converting) \in Nat
  BY AttributionAssumption, FS_Subset, FS_CardinalityType DEF Converting
<1>5. /\ Cardinality(Booked) \in Nat /\ Cardinality(Conversions) \in Nat
      /\ ConversionsOf(visitor) \in Nat
  BY <1>2, FS_CardinalityType, ConversionsFinite DEF Inv, Shape, IsRow, ConversionsOf
<1>6. /\ Cardinality(D) <= ConversionsOf(visitor)
      /\ ConversionsOf(visitor) <= Cardinality(Conversions)
  BY <1>3, <1>4, <1>5 DEF Inv, Counted
<1> QED BY <1>6 DEF ConversionsCounted, ConversionsOf

LEMMA InvAccounts == Inv => JourneyAccounted
<1> SUFFICES ASSUME Inv PROVE JourneyAccounted OBVIOUS
<1>1. IsFiniteSet(Awaiting) /\ Cardinality(Awaiting) \in Nat
  BY AttributionAssumption, FS_Subset, FS_CardinalityType DEF Awaiting
<1>2. Len(touchpoints) \in Nat /\ EventsOf(visitor) \in Nat
  BY DEF Inv, Shape, IsRow, EventsOf
<1>3. Len(touchpoints) <= EventsOf(visitor) BY <1>1, <1>2 DEF Inv, Counted
<1> QED BY <1>3 DEF JourneyAccounted, EventsOf

\* However calls of resolve overlap and wherever they degrade, conversionCount
\* holds every conversion that was resolved, and none that the timeline lacks.
THEOREM ConversionsAreCounted ==
    ASSUME NoneIsNoRow PROVE Spec => []ConversionsCounted
  BY InvHolds, InvCounts, PTL

\* No touchpoint is in the timeline whose event the row did not count.
THEOREM JourneyIsAccounted ==
    ASSUME NoneIsNoRow PROVE Spec => []JourneyAccounted
  BY InvHolds, InvAccounts, PTL

\* A touchpoint is behind every one inserted before appendTouchpoint counted it,
\* and next to the last of them where no call came between; positions start from 1.
THEOREM PositionsFollow ==
    ASSUME NoneIsNoRow PROVE Spec => []PositionsFollowJourney
<1>1. Inv => PositionsFollowJourney BY PositionsSuffice DEF Inv
<1> QED BY <1>1, InvHolds, PTL

\* The stored attribution is what the models give for some conversion over the
\* timeline as it once was.
THEOREM AttributionIsReplayable ==
    ASSUME NoneIsNoRow PROVE Spec => []AttributionReplayable
<1>1. Inv => AttributionReplayable
  BY DEF Inv, Replayed, Replays, AttributionOf, AttributionReplayable
<1> QED BY <1>1, InvHolds, PTL

-------------------------------------------------------------------------------
(* The weights                                                              *)

\* A credit that goes to touchpoints of S, and to one of them for certain.
Credits(r, S) ==
    /\ DOMAIN r \subseteq S
    /\ \A t \in DOMAIN r : r[t] \in Nat
    /\ S # {} => \E t \in DOMAIN r : r[t] > 0

\* Weights of S that are numbers; and some that pay.
Weighs(r, S) == DOMAIN r \subseteq S /\ \A t \in DOMAIN r : r[t] \in Nat
Pays(r) == \E t \in DOMAIN r : r[t] > 0

LEMMA CreditsWeigh ==
    ASSUME NEW S, S # {}, NEW r, Credits(r, S) PROVE Weighs(r, S) /\ Pays(r)
  BY DEF Credits, Weighs, Pays

LEMMA NormalizedFits ==
    ASSUME NEW S, NEW w, DOMAIN w \subseteq S, \A t \in DOMAIN w : w[t] \in Nat \cup {NaN}
    PROVE  /\ DOMAIN Normalized(w) \subseteq S
           /\ \A t \in DOMAIN Normalized(w) : Normalized(w)[t] \in Nat \cup {NaN}
<1>1. DOMAIN <<>> = {} OBVIOUS
<1>2. Normalized(w) \in {[t \in DOMAIN w |-> NaN], <<>>, w} BY DEF Normalized
<1> QED BY <1>1, <1>2

LEMMA NormalizedPays ==
    ASSUME NEW S, NEW w, Weighs(w, S), Pays(w) PROVE Pays(Normalized(w))
<1>1. \A t \in DOMAIN w : w[t] # NaN BY DEF Weighs, NaN
<1>2. ~\A t \in DOMAIN w : w[t] = 0 BY DEF Pays
<1>3. Normalized(w) = w BY <1>1, <1>2 DEF Normalized
<1> QED BY <1>3

LEMMA DoubledIsPositive == ASSUME NEW n \in Nat PROVE Doubled(n) \in Nat \ {0}
<1> DEFINE S == Nat \ {0}
           step == [i \in 1..n |-> [m \in S |-> 2 * m]]
           p[i \in 0..n] == IF i = 0 THEN 1 ELSE 2 * p[i - 1]
<1>1. Doubled(n) = p[n] BY DEF Doubled
<1>2. 1 \in S /\ step \in [1..n -> [S -> S]] OBVIOUS
<1>3. PICK f \in [0..n -> S] : f[0] = 1 /\ \A i \in 1..n : f[i] = step[i][f[i - 1]]
  <2> HIDE DEF step, S
  <2>1. \E f : Walk(S, n, 1, step, f) BY <1>2, RecursionExists
  <2> QED BY <2>1 DEF Walk
<1>4. f = [i \in 0..n |-> IF i = 0 THEN 1 ELSE 2 * f[i - 1]]
  <2>1. \A i \in 1..n : f[i - 1] \in S OBVIOUS
  <2>2. \A i \in 1..n : f[i] = 2 * f[i - 1] BY <1>3, <2>1
  <2>3. \A i \in 0..n : f[i] = IF i = 0 THEN 1 ELSE 2 * f[i - 1] BY <1>3, <2>2
  <2>4. f = [i \in 0..n |-> f[i]] OBVIOUS
  <2> QED BY <2>3, <2>4
<1>5. p = CHOOSE g : g = [i \in 0..n |-> IF i = 0 THEN 1 ELSE 2 * g[i - 1]] OBVIOUS
<1> HIDE DEF p
<1>6. p = [i \in 0..n |-> IF i = 0 THEN 1 ELSE 2 * p[i - 1]] BY <1>4, <1>5
<1>7. p[0] = 1 /\ \A i \in 1..n : p[i] = 2 * p[i - 1] BY <1>6
<1> DEFINE T == {i \in 0..n : p[i] \in S}
<1>8. 0 \in T BY <1>7
<1>9. ASSUME NEW i \in 1..n, i - 1 \in T PROVE i \in T BY <1>7, <1>9
<1>10. n \in T
  <2> HIDE DEF T
  <2>1. \A i \in 0..n : i \in T BY <1>8, <1>9, SetInduction
  <2> QED BY <2>1
<1> QED BY <1>1, <1>10

\* A sequence of a finite set's elements, each of them once.
LEMMA SeqsOfSet ==
    ASSUME NEW S, IsFiniteSet(S), NEW s \in SetToSeqs(S)
    PROVE  /\ Len(s) = Cardinality(S) /\ Len(s) \in Nat /\ DOMAIN s = 1..Len(s)
           /\ \A i \in 1..Len(s) : s[i] \in S
           /\ \A i, j \in 1..Len(s) : i # j => s[i] # s[j]
           /\ ToSet(s) = {s[i] : i \in 1..Len(s)}
           /\ S # {} => Len(s) > 0
           /\ S = {} => s = <<>>
<1> DEFINE n == Cardinality(S)
<1>1. n \in Nat BY FS_CardinalityType
<1>2. s \in [1..n -> S] /\ \A i, j \in 1..n : i # j => s[i] # s[j] BY DEF SetToSeqs
<1>3. S # {} => n > 0 BY <1>1, FS_EmptySet
<1>4. S = {} => n = 0 BY FS_EmptySet
<1> HIDE DEF n
<1>5. s \in Seq(S) BY <1>1, <1>2, SeqDef
<1>6. Len(s) = n BY <1>1, <1>2, <1>5, LenProperties
<1>7. S = {} => s = <<>> BY <1>4, <1>5, <1>6, EmptySeq
<1> QED BY <1>1, <1>2, <1>3, <1>6, <1>7 DEF ToSet, n

\* It names all of them.
LEMMA SeqsOnto ==
    ASSUME NEW S, IsFiniteSet(S), NEW s \in SetToSeqs(S) PROVE ToSet(s) = S
<1> DEFINE n == Cardinality(S)
<1>1. n \in Nat BY FS_CardinalityType
<1>2. s \in [1..n -> S] /\ \A i, j \in 1..n : i # j => s[i] # s[j] BY DEF SetToSeqs
<1>3. ToSet(s) = {s[i] : i \in 1..n} /\ ToSet(s) \subseteq S BY SeqsOfSet
<1> HIDE DEF n
<1>4. s \in Injection(1..n, ToSet(s)) /\ IsFiniteSet(1..n) /\ Cardinality(1..n) = n
  <2>1. s \in [1..n -> ToSet(s)] BY <1>2, <1>3
  <2>2. IsFiniteSet(1..n) /\ Cardinality(1..n) = n BY <1>1, FS_Interval
  <2>3. s \in Injection(1..n, ToSet(s)) BY <1>2, <2>1 DEF Injection, IsInjective
  <2> QED BY <2>2, <2>3
<1>5. IsFiniteSet(ToSet(s)) BY <1>3, FS_Subset
<1>6. n <= Cardinality(ToSet(s)) BY <1>4, <1>5, FS_Injection
<1> QED BY <1>3, <1>5, <1>6, FS_Subset, FS_CardinalityType DEF n

LEMMA EndsCredit ==
    ASSUME NEW S, IsFiniteSet(S), S # {}, NEW s \in SetToSeqs(S)
    PROVE  /\ Credits(FirstTouch(s), S) /\ Credits(LastTouch(s), S)
           /\ Head(s) \in S /\ Last(s) \in S /\ Head(s) \in ToSet(s) /\ Last(s) \in ToSet(s)
           /\ Len(s) # 1 => Head(s) # Last(s)
           /\ Head(s) = s[1] /\ Last(s) = s[Len(s)]
<1>1. /\ Len(s) \in Nat /\ Len(s) > 0 /\ ToSet(s) = {s[i] : i \in 1..Len(s)}
      /\ \A i \in 1..Len(s) : s[i] \in S
      /\ \A i, j \in 1..Len(s) : i # j => s[i] # s[j]
  BY SeqsOfSet
<1>2. Head(s) = s[1] /\ Last(s) = s[Len(s)]
  <2>1. s \in [1..Cardinality(S) -> S] BY DEF SetToSeqs
  <2>2. s \in Seq(S) BY <2>1, FS_CardinalityType, SeqDef
  <2> QED BY <2>2 DEF Last
<1>3. 1 \in 1..Len(s) /\ Len(s) \in 1..Len(s) BY <1>1
<1>4. /\ Head(s) \in S /\ Last(s) \in S /\ Head(s) \in ToSet(s) /\ Last(s) \in ToSet(s)
      /\ Len(s) # 1 => Head(s) # Last(s)
  BY <1>1, <1>2, <1>3
<1> QED BY <1>2, <1>4 DEF Credits, FirstTouch, LastTouch

LEMMA LinearCredits ==
    ASSUME NEW S, IsFiniteSet(S), S # {}, NEW s \in SetToSeqs(S)
    PROVE  Credits(Linear(s), S)
<1>1. ToSet(s) \subseteq S BY SeqsOfSet
<1> QED BY <1>1, EndsCredit DEF Credits, Linear

LEMMA PositionBasedWeighs ==
    ASSUME NEW S, IsFiniteSet(S), S # {}, NEW s \in SetToSeqs(S), NEW c \in Config
    PROVE  /\ Weighs(PositionBased(c, s), S)
           /\ ~(c.first = 0 /\ c.last = 0 /\ Cardinality(S) = 2) => Pays(PositionBased(c, s))
<1> DEFINE n == Len(s)
           middle == IF c.first + c.last > 10 THEN 0 ELSE 10 - c.first - c.last
           r == PositionBased(c, s)
<1>1. c.first \in Nat /\ c.last \in Nat BY DEF Config
<1>2. /\ n \in Nat /\ n > 0 /\ ToSet(s) \subseteq S /\ n = Cardinality(S)
      /\ ToSet(s) = {s[i] : i \in 1..n}
      /\ \A i, j \in 1..n : i # j => s[i] # s[j]
  BY SeqsOfSet
<1>3. /\ Head(s) \in ToSet(s) /\ Last(s) \in ToSet(s) /\ (n # 1 => Head(s) # Last(s))
      /\ Head(s) = s[1] /\ Last(s) = s[n] /\ Credits(FirstTouch(s), S)
  BY EndsCredit
<1>4. middle \in Nat /\ (c.first = 0 /\ c.last = 0 => middle > 0) BY <1>1
<1>5. CASE n = 1 BY <1>2, <1>3, <1>5, CreditsWeigh DEF PositionBased
<1>6. CASE n = 2
  <2>1. r = [t \in ToSet(s) |-> IF t = Head(s) THEN c.first ELSE c.last]
    BY <1>6 DEF PositionBased
  <2>2. r[Head(s)] = c.first /\ r[Last(s)] = c.last BY <1>3, <1>6, <2>1
  <2>3. c.first # 0 \/ c.last # 0 => Pays(r) BY <1>1, <1>3, <2>1, <2>2 DEF Pays
  <2>4. \A t \in DOMAIN r : r[t] \in Nat BY <1>1, <2>1
  <2> QED BY <1>2, <1>6, <2>1, <2>3, <2>4 DEF Weighs
<1>7. CASE n # 1 /\ n # 2
  <2> DEFINE first == c.first * (n - 2)
             last == c.last * (n - 2)
  <2>1. r = [t \in ToSet(s) |-> IF t = Head(s) THEN first
                                ELSE IF t = Last(s) THEN last ELSE middle]
    BY <1>7 DEF PositionBased
  <2>2. \A a \in Nat, b \in Nat : a * b \in Nat /\ (a > 0 /\ b > 0 => a * b > 0) OBVIOUS
  <2>3. n - 2 \in Nat /\ n - 2 > 0
    <3> HIDE DEF n
    <3> QED BY <1>2, <1>7
  <2>4. first \in Nat /\ last \in Nat /\ (first > 0 \/ last > 0 \/ middle > 0)
    <3>1. c.first \in Nat /\ c.last \in Nat /\ (c.first > 0 \/ c.last > 0 \/ middle > 0)
      BY <1>1, <1>4
    <3> QED BY <2>2, <2>3, <3>1
  <2>5. s[2] \in ToSet(s) /\ s[2] # Head(s) /\ s[2] # Last(s)
    <3> HIDE DEF n
    <3>1. 1 \in 1..n /\ 2 \in 1..n /\ n \in 1..n /\ n # 2 BY <1>2, <1>7
    <3> QED BY <1>2, <1>3, <3>1
  <2> HIDE DEF first, last, middle, r, n
  <2>6. r[Head(s)] = first /\ r[Last(s)] = last /\ r[s[2]] = middle
    BY <1>3, <1>7, <2>1, <2>5
  <2>7. Pays(r) BY <1>3, <2>1, <2>4, <2>5, <2>6 DEF Pays
  <2>8. \A t \in DOMAIN r : r[t] \in Nat BY <1>4, <2>1, <2>4
  <2>9. Weighs(r, S) BY <1>2, <2>1, <2>8 DEF Weighs
  <2> QED BY <2>7, <2>9 DEF r
<1> QED BY <1>5, <1>6, <1>7

\* No touch in S is young enough for time decay to leave it anything.
Decays(c, at, tps, S) == \A t \in S : at - tps[t].at >= (Halvings + 1) * c.halfLife

LEMMA TimeDecayWeighs ==
    ASSUME NEW c \in Config, NEW at \in Nat, NEW tps \in Seq(Touchpoint),
           IsFiniteSet(InWindow(c, at, tps)), InWindow(c, at, tps) # {},
           NEW s \in SetToSeqs(InWindow(c, at, tps))
    PROVE  LET r == TimeDecay(c, at, tps, s)
               S == InWindow(c, at, tps)
           IN  /\ DOMAIN r \subseteq S /\ \A t \in DOMAIN r : r[t] \in Nat \cup {NaN}
               /\ ~Decays(c, at, tps, S) => Weighs(r, S) /\ Pays(r)
<1> DEFINE S == InWindow(c, at, tps)
           h == c.halfLife
           age(t) == at - tps[t].at
           gone == (Halvings + 1) * h
           past(t) == {k \in 1..Halvings : k * h <= age(t)}
           r == TimeDecay(c, at, tps, s)
<1>1. h \in Nat /\ Halvings \in Nat BY AttributionAssumption DEF Config
<1>2. gone \in Nat /\ (h = 0 => gone = 0) BY <1>1
<1>3. \A t \in S : age(t) \in Nat
  <2>1. \A t \in DOMAIN tps : tps[t] \in Touchpoint BY ElementOfSeq, LenProperties
  <2>2. ASSUME NEW t \in S PROVE age(t) \in Nat
    <3>1. tps[t].at \in Nat /\ tps[t].at <= at BY <2>1 DEF InWindow, Touchpoint
    <3> QED BY <3>1
  <2> QED BY <2>2
<1>4. \A t \in S : Halvings - Cardinality(past(t)) \in Nat
  <2> TAKE t \in S
  <2> DEFINE P == past(t)
  <2>1. P \subseteq 1..Halvings OBVIOUS
  <2>2. IsFiniteSet(1..Halvings) /\ Cardinality(1..Halvings) = Halvings
    <3> DEFINE m == Halvings
    <3>1. m \in Nat BY <1>1
    <3> HIDE DEF m
    <3>2. IsFiniteSet(1..m) /\ Cardinality(1..m) = IF 1 > m THEN 0 ELSE m - 1 + 1
      BY <3>1, FS_Interval
    <3>3. IsFiniteSet(1..m) /\ Cardinality(1..m) = m BY <3>1, <3>2
    <3> QED BY <3>3 DEF m
  <2> HIDE DEF P
  <2>3. Cardinality(P) \in Nat /\ Cardinality(P) <= Halvings
    BY <2>1, <2>2, FS_Subset, FS_CardinalityType
  <2>4. Halvings - Cardinality(P) \in Nat BY <1>1, <2>3
  <2> QED BY <2>4 DEF P
<1>5. ToSet(s) = S BY SeqsOnto
<1>6. r = [t \in S |-> IF h = 0 /\ age(t) = 0 THEN NaN
                      ELSE IF age(t) >= gone THEN 0
                      ELSE Doubled(Halvings - Cardinality(past(t)))]
  BY <1>5 DEF TimeDecay, Decayed
<1> HIDE DEF past, age, gone, h, S, r
<1>7. \A t \in S : Doubled(Halvings - Cardinality(past(t))) \in Nat \ {0}
  BY <1>4, DoubledIsPositive
<1>8. DOMAIN r = S /\ \A t \in DOMAIN r : r[t] \in Nat \cup {NaN} BY <1>6, <1>7
<1>9. ASSUME NEW t \in S, ~(age(t) >= gone) PROVE Weighs(r, S) /\ Pays(r)
  <2>1. h # 0 BY <1>2, <1>3, <1>9
  <2>2. \A q \in S : r[q] \in Nat BY <1>6, <1>7, <2>1
  <2>3. r[t] \in Nat \ {0} BY <1>6, <1>7, <1>9, <2>1
  <2> QED BY <1>8, <2>2, <2>3 DEF Weighs, Pays
<1>10. ~Decays(c, at, tps, S) => \E t \in S : ~(age(t) >= gone)
  BY DEF Decays, age, gone, h
<1>11. /\ DOMAIN r \subseteq S /\ \A t \in DOMAIN r : r[t] \in Nat \cup {NaN}
       /\ ~Decays(c, at, tps, S) => Weighs(r, S) /\ Pays(r)
  BY <1>8, <1>9, <1>10
<1> QED BY <1>11 DEF r, S

\* Configurations that give those in S nothing.
Void(c, at, tps, S) ==
    \/ c.model = "position-based" /\ c.first = 0 /\ c.last = 0 /\ Cardinality(S) = 2
    \/ c.model = "time-decay" /\ Decays(c, at, tps, S)

\* Whatever the model and the tie-break, what calculate returns credits the
\* touches in the window alone, and one of them if there is one, unless the
\* configuration gives them nothing.
LEMMA ResultsCredit ==
    ASSUME NEW c \in Configs, NEW at \in Nat, NEW tps \in Seq(Touchpoint),
           NEW r \in Results(c, at, tps)
    PROVE  LET S == InWindow(c, at, tps)
           IN  /\ DOMAIN r \subseteq S /\ \A t \in DOMAIN r : r[t] \in Nat \cup {NaN}
               /\ S # {} /\ ~Void(c, at, tps, S) => Pays(r)
<1> DEFINE S == InWindow(c, at, tps)
<1>1. IsFiniteSet(S)
  <2>1. S \subseteq 1..Len(tps) /\ Len(tps) \in Nat BY LenProperties DEF InWindow
  <2>2. IsFiniteSet(1..Len(tps)) BY <2>1, FS_Interval
  <2> QED BY <2>1, <2>2, FS_Subset
<1>2. c \in Config BY AttributionAssumption
<1>3. PICK s \in SetToSeqs(S) : r = Normalized(Weights(c, at, tps, s))
  BY DEF Results, Ordered
<1> DEFINE w == Weights(c, at, tps, s)
<1>4. CASE S = {}
  <2>1. s = <<>> BY <1>1, <1>4, SeqsOfSet
  <2>2. w = <<>> BY <2>1 DEF Weights
  <2>3. r = <<>> BY <1>3, <2>2 DEF Normalized
  <2>4. DOMAIN r = {} BY <2>3
  <2> QED BY <1>4, <2>4
<1>5. CASE S # {}
  <2>1. s # <<>>
    <3>1. Len(s) > 0 BY <1>1, <1>5, SeqsOfSet
    <3>2. Len(<<>>) = 0 OBVIOUS
    <3> QED BY <3>1, <3>2
  <2> DEFINE void == Void(c, at, tps, S)
             fit(x) == DOMAIN x \subseteq S /\ \A t \in DOMAIN x : x[t] \in Nat \cup {NaN}
  <2>2. fit(w) /\ (~void => Weighs(w, S) /\ Pays(w))
    <3> DEFINE m == c.model
    <3>1. m \in Models BY <1>2 DEF Config
    <3>2. \A x : Credits(x, S) => Weighs(x, S) /\ Pays(x) BY <1>5, CreditsWeigh
    <3>3. \A x : Weighs(x, S) => fit(x) BY DEF Weighs
    <3>4. CASE m = "position-based"
      <4>1. w = PositionBased(c, s) BY <2>1, <3>4 DEF Weights
      <4>2. Weighs(w, S) /\ (~void => Pays(w))
        BY <1>1, <1>2, <1>5, <3>4, <4>1, PositionBasedWeighs DEF Void
      <4> QED BY <3>3, <4>2
    <3>5. CASE m = "time-decay"
      <4>1. w = TimeDecay(c, at, tps, s) BY <2>1, <3>5 DEF Weights
      <4> QED BY <1>1, <1>2, <1>5, <3>5, <4>1, TimeDecayWeighs DEF Void
    <3>6. CASE m \notin {"position-based", "time-decay"}
      <4>1. w \in {FirstTouch(s), LastTouch(s), Linear(s)}
        BY <2>1, <3>1, <3>6 DEF Weights, Models
      <4>2. Credits(w, S) BY <1>1, <1>5, <4>1, EndsCredit, LinearCredits
      <4> HIDE DEF w, S
      <4> QED BY <3>2, <3>3, <4>2
    <3> QED BY <3>4, <3>5, <3>6
  <2> HIDE DEF w, S, void
  <2>3. r = Normalized(w) BY <1>3 DEF w
  <2>4. fit(r) BY <2>2, <2>3, NormalizedFits
  <2>5. ~void => Pays(r) BY <2>2, <2>3, NormalizedPays
  <2> QED BY <2>4, <2>5 DEF S, void
<1> QED BY <1>4, <1>5

-------------------------------------------------------------------------------
(* The types, with the credit                                               *)

EventIn(x) == x.in \in Inputs \cup {None} /\ x.clicks \subseteq ClickKeys /\ IsCredit(x.result)

RowIn(v) == v.clicks \subseteq ClickKeys /\ v.events > 0 /\ IsCredit(v.attribution)

Types == (visitor # None => RowIn(visitor)) /\ \A e \in Events : EventIn(event[e])

LEMMA TypesSuffice == Shape /\ Types => TypeOK
  BY DEF Shape, Types, IsEvent, IsRow, EventIn, RowIn, TypeOK

LEMMA EventsTyped ==
    ASSUME Shape, Types, NEW e \in Events, NEW x, EventIn(x), event' = [event EXCEPT ![e] = x]
    PROVE  \A q \in Events : EventIn(event'[q])
<1>1. event = [q \in Events |-> event[q]] BY DEF Shape
<1>2. event'[e] = x /\ \A q \in Events : q # e => event'[q] = event[q] BY <1>1
<1> QED BY <1>2 DEF Types

LEMMA GoesTyped ==
    ASSUME Shape, Types, NEW e \in Events, NEW pc, event' = [event EXCEPT ![e].pc = pc]
    PROVE  \A q \in Events : EventIn(event'[q])
<1> DEFINE y == event[e]
           x == [y EXCEPT !.pc = pc]
<1>1. IsRecord(y) /\ EventIn(y) BY DEF Shape, IsEvent, Types
<1>2. event' = [event EXCEPT ![e] = x] OBVIOUS
<1> HIDE DEF y
<1>3. x.in = y.in /\ x.clicks = y.clicks /\ x.result = y.result BY <1>1 DEF IsRecord
<1> HIDE DEF x
<1>4. EventIn(x) BY <1>1, <1>3 DEF EventIn
<1> QED BY <1>2, <1>4, EventsTyped

LEMMA InputTypes ==
    ASSUME Shape, NEW e \in Events, event[e].pc # "new"
    PROVE  event[e].in \in Inputs /\ event[e].in.keys \subseteq ClickKeys /\ event[e].in.at \in Nat
  BY AttributionAssumption DEF Shape, IsEvent, Input

LEMMA StartTypes == ASSUME Shape, Types, NEW e \in Events, Start(e) PROVE Types'
<1>1. PICK in \in Inputs :
         event' = [event EXCEPT ![e] = [event[e] EXCEPT !.in = in,
                      !.pc = IF in.keys = {} THEN "findVisitor" ELSE "findClicks"]]
  BY DEF Start
<1> DEFINE pc == IF in.keys = {} THEN "findVisitor" ELSE "findClicks"
           y == event[e]
           x == [y EXCEPT !.in = in, !.pc = pc]
<1>2. IsRecord(y) /\ EventIn(y) BY DEF Shape, IsEvent, Types
<1>3. event' = [event EXCEPT ![e] = x] BY <1>1
<1> HIDE DEF y, pc
<1>4. x.in = in /\ x.clicks = y.clicks /\ x.result = y.result BY <1>2 DEF IsRecord
<1> HIDE DEF x
<1>5. EventIn(x) BY <1>2, <1>4 DEF EventIn
<1>6. \A q \in Events : EventIn(event'[q]) BY <1>3, <1>5, EventsTyped
<1> QED BY <1>6 DEF Types, Start

LEMMA FindClicksTypes == ASSUME Shape, Types, NEW e \in Events, FindClicks(e) PROVE Types'
<1> DEFINE clicks == event[e].in.keys \cup (IF visitor = None THEN {} ELSE visitor.clicks)
           pc == IF visitor = None THEN "findVisitor" ELSE "mergeClicks"
           y == event[e]
           x == [y EXCEPT !.clicks = clicks, !.pc = pc]
<1>1. event' = [event EXCEPT ![e] = x] BY DEF FindClicks
<1>2. IsRecord(y) /\ EventIn(y) BY DEF Shape, IsEvent, Types
<1>3. clicks \subseteq ClickKeys BY InputTypes DEF FindClicks, Types, RowIn
<1> HIDE DEF y, clicks, pc
<1>4. x.in = y.in /\ x.clicks = clicks /\ x.result = y.result BY <1>2 DEF IsRecord
<1> HIDE DEF x
<1>5. EventIn(x) BY <1>2, <1>3, <1>4 DEF EventIn
<1>6. \A q \in Events : EventIn(event'[q]) BY <1>1, <1>5, EventsTyped
<1> QED BY <1>6 DEF Types, FindClicks

LEMMA FindVisitorTypes == ASSUME Shape, Types, NEW e \in Events, FindVisitor(e) PROVE Types'
<1> DEFINE found == visitor # None
           y == event[e]
           x == [y EXCEPT !.pc = "putVisitor", !.found = found]
<1>1. event' = [event EXCEPT ![e] = x]
  <2>1. event' = [event EXCEPT ![e].pc = "putVisitor", ![e].found = found]
    BY DEF FindVisitor
  <2>2. event = [q \in Events |-> event[q]] BY DEF Shape
  <2> HIDE DEF found
  <2> QED BY <2>1, <2>2
<1>2. IsRecord(y) /\ EventIn(y) BY DEF Shape, IsEvent, Types
<1> HIDE DEF y, found
<1>4. x.in = y.in /\ x.clicks = y.clicks /\ x.result = y.result BY <1>2 DEF IsRecord
<1> HIDE DEF x
<1>5. EventIn(x) BY <1>2, <1>4 DEF EventIn
<1>6. \A q \in Events : EventIn(event'[q]) BY <1>1, <1>5, EventsTyped
<1> QED BY <1>6 DEF Types, FindVisitor

LEMMA CountTouchpointsTypes ==
    ASSUME Shape, Types, NEW e \in Events, CountTouchpoints(e) PROVE Types'
<1> DEFINE n == Len(touchpoints)
           y == event[e]
           x == [y EXCEPT !.pc = "append", !.count = n, !.rows = n]
<1>1. event' = [event EXCEPT ![e] = x]
  <2>1. event' = [event EXCEPT ![e].pc = "append", ![e].count = n, ![e].rows = n]
    BY DEF CountTouchpoints, RowCount
  <2>2. event = [q \in Events |-> event[q]] BY DEF Shape
  <2> HIDE DEF n
  <2> QED BY <2>1, <2>2
<1>2. IsRecord(y) /\ EventIn(y) BY DEF Shape, IsEvent, Types
<1> HIDE DEF y, n
<1>4. x.in = y.in /\ x.clicks = y.clicks /\ x.result = y.result BY <1>2 DEF IsRecord
<1> HIDE DEF x
<1>5. EventIn(x) BY <1>2, <1>4 DEF EventIn
<1>6. \A q \in Events : EventIn(event'[q]) BY <1>1, <1>5, EventsTyped
<1> QED BY <1>6 DEF Types, CountTouchpoints

\* What ReadJourney makes of an event.
LEMMA JourneyRead ==
    ASSUME Shape, NEW e \in Events, NEW c \in Configs, ReadJourney(e, c)
    PROVE  \E r :
              /\ LET at == event[e].in.at
                     S  == InWindow(c, at, touchpoints)
                 IN  /\ DOMAIN r \subseteq S /\ \A t \in DOMAIN r : r[t] \in Nat \cup {NaN}
                     /\ S # {} /\ ~Void(c, at, touchpoints, S) => Pays(r)
              /\ event' = [event EXCEPT ![e] = [event[e] EXCEPT !.pc = "record", !.result = r]]
              /\ event'[e].result = r
<1>2. PICK r \in Results(c, event[e].in.at, touchpoints) :
         event' = [event EXCEPT ![e].pc = "record", ![e].result = r]
  BY DEF ReadJourney
<1>3. event' = [event EXCEPT ![e] = [event[e] EXCEPT !.pc = "record", !.result = r]]
  <2>1. event = [q \in Events |-> event[q]] BY DEF Shape
  <2> QED BY <1>2, <2>1
<1>4. event[e].in.at \in Nat /\ touchpoints \in Seq(Touchpoint)
  BY InputTypes DEF ReadJourney, Shape
<1>5. LET at == event[e].in.at
          S  == InWindow(c, at, touchpoints)
      IN  /\ DOMAIN r \subseteq S /\ \A t \in DOMAIN r : r[t] \in Nat \cup {NaN}
          /\ S # {} /\ ~Void(c, at, touchpoints, S) => Pays(r)
  BY <1>4, ResultsCredit
<1>6. event'[e].result = r
  <2> DEFINE y == event[e]
             x == [y EXCEPT !.pc = "record", !.result = r]
  <2>1. event'[e] = x
    <3>1. event = [q \in Events |-> event[q]] BY DEF Shape
    <3> QED BY <1>3, <3>1
  <2>2. IsRecord(y) BY DEF Shape, IsEvent
  <2> HIDE DEF y
  <2>3. x.result = r BY <2>2 DEF IsRecord
  <2> QED BY <2>1, <2>3
<1> QED BY <1>3, <1>5, <1>6

LEMMA ReadJourneyTypes ==
    ASSUME Shape, Types, NEW e \in Events, NEW c \in Configs, ReadJourney(e, c)
    PROVE  Types'
<1>2. PICK r : /\ DOMAIN r \subseteq InWindow(c, event[e].in.at, touchpoints)
               /\ \A t \in DOMAIN r : r[t] \in Nat \cup {NaN}
               /\ event' = [event EXCEPT ![e] = [event[e] EXCEPT !.pc = "record", !.result = r]]
  BY JourneyRead
<1>3. IsCredit(r)
  <2>1. \A t \in DOMAIN touchpoints : t \in Nat
    <3>1. DOMAIN touchpoints = 1..Len(touchpoints) /\ Len(touchpoints) \in Nat
      BY LenProperties DEF Shape
    <3> QED BY <3>1
  <2>2. DOMAIN r \subseteq DOMAIN touchpoints BY <1>2 DEF InWindow
  <2> QED BY <1>2, <2>1, <2>2 DEF IsCredit
<1> DEFINE y == event[e]
           x == [y EXCEPT !.pc = "record", !.result = r]
<1>4. event' = [event EXCEPT ![e] = x] BY <1>2
<1>5. IsRecord(y) /\ EventIn(y) BY DEF Shape, IsEvent, Types
<1> HIDE DEF y
<1>6. x.in = y.in /\ x.clicks = y.clicks /\ x.result = r BY <1>5 DEF IsRecord
<1> HIDE DEF x
<1>7. EventIn(x) BY <1>3, <1>5, <1>6 DEF EventIn
<1>8. \A q \in Events : EventIn(event'[q]) BY <1>4, <1>7, EventsTyped
<1> QED BY <1>8 DEF Types, ReadJourney

\* A step that goes on, or ends, and leaves the row well typed.
LEMMA RowTyped ==
    ASSUME Shape, Types, NEW e \in Events, NEW pc,
           GoesOn(e, pc) \/ event' = [event EXCEPT ![e].pc = "degraded"],
           visitor' # None => RowIn(visitor')
    PROVE  Types'
<1>1. PICK to : event' = [event EXCEPT ![e].pc = to] BY DEF GoesOn
<1>2. \A q \in Events : EventIn(event'[q]) BY <1>1, GoesTyped
<1> QED BY <1>2 DEF Types

LEMMA MergeClicksTypes == ASSUME Shape, Types, NEW e \in Events, MergeClicks(e) PROVE Types'
<1>1. visitor # None /\ IsRow(visitor) /\ RowIn(visitor) /\ EventIn(event[e])
  BY DEF Shape, FindsRow, MergeClicks, Types
<1>2. visitor' = [clicks |-> event[e].clicks, events |-> visitor.events,
                  conversions |-> visitor.conversions, attribution |-> visitor.attribution]
  BY <1>1 DEF MergeClicks, IsRow
<1>3. RowIn(visitor') BY <1>1, <1>2 DEF RowIn, EventIn
<1> QED BY <1>3, RowTyped DEF MergeClicks

LEMMA PutVisitorTypes == ASSUME Shape, Types, NEW e \in Events, PutVisitor(e) PROVE Types'
<1>1. EventIn(event[e]) BY DEF Types
<1>2. PICK pc : GoesOn(e, pc) BY DEF PutVisitor
<1>3. CASE event[e].found /\ visitor' = Seen(e)
  <2>1. visitor # None /\ IsRow(visitor) /\ RowIn(visitor)
    BY <1>3 DEF Shape, FindsRow, PutVisitor, Types
  <2>2. PICK clicks \in {visitor.clicks, event[e].clicks} :
           visitor' = [visitor EXCEPT !.events = visitor.events + 1, !.clicks = clicks]
    BY <1>3 DEF Seen
  <2>3. visitor' = [clicks |-> clicks, events |-> visitor.events + 1,
                    conversions |-> visitor.conversions, attribution |-> visitor.attribution]
    BY <2>1, <2>2 DEF IsRow
  <2>4. visitor.events + 1 > 0 BY <2>1 DEF IsRow
  <2>5. RowIn(visitor') BY <1>1, <2>1, <2>2, <2>3, <2>4 DEF RowIn, EventIn
  <2> QED BY <1>2, <2>5, RowTyped
<1>4. CASE visitor' = Created(e)
  <2>1. RowIn(visitor') BY <1>1, <1>4 DEF RowIn, EventIn, Created, IsCredit
  <2> QED BY <1>2, <2>1, RowTyped
<1> QED BY <1>3, <1>4 DEF PutVisitor

LEMMA SaveTypes ==
    ASSUME Shape, Types, NEW e \in Events, RecordConversion(e) \/ SaveAttribution(e)
    PROVE  Types'
<1>1. visitor # None /\ IsRow(visitor) /\ RowIn(visitor) /\ EventIn(event[e])
  BY DEF Shape, FindsRow, RecordConversion, SaveAttribution, Types
<1>2. PICK n : visitor' = [clicks |-> visitor.clicks, events |-> visitor.events,
                          conversions |-> n, attribution |-> event[e].result]
  BY <1>1 DEF RecordConversion, Converted, SaveAttribution, IsRow
<1>3. RowIn(visitor') BY <1>1, <1>2 DEF RowIn, EventIn
<1> QED BY <1>3, RowTyped DEF RecordConversion, SaveAttribution

LEMMA EndsTypes ==
    ASSUME Shape, Types, NEW e \in Events, LoseVisitor(e) \/ Degrade(e) \/ AppendTouchpoint(e)
    PROVE  Types'
<1>1. visitor' # None => RowIn(visitor') BY DEF LoseVisitor, Degrade, AppendTouchpoint, Types
<1> QED BY <1>1, RowTyped DEF LoseVisitor, Degrade, AppendTouchpoint

LEMMA TypesInit == Init => Types
  BY DEF Init, NewEvent, Types, EventIn, IsCredit

LEMMA TypesNext == ASSUME Shape, Types, [Next]_vars PROVE Types'
<1>1. CASE UNCHANGED vars BY <1>1 DEF vars, Types
<1>2. ASSUME NEW e \in Events, EventStep(e) PROVE Types'
  BY <1>2, StartTypes, FindClicksTypes, MergeClicksTypes, FindVisitorTypes, PutVisitorTypes,
     CountTouchpointsTypes, ReadJourneyTypes, SaveTypes, EndsTypes DEF EventStep
<1> QED BY <1>1, <1>2 DEF Next

\* The types of the row, its timeline, what each call has in hand, and of every
\* credit that a model gives.
THEOREM TypesHold == ASSUME NoneIsNoRow PROVE Spec => []TypeOK
<1>1. Init => Shape /\ Types BY ShapeInit, TypesInit
<1>2. Shape /\ Types /\ [Next]_vars => Shape' /\ Types' BY ShapeNext, TypesNext
<1>3. Shape /\ Types => TypeOK BY TypesSuffice
<1> QED BY <1>1, <1>2, <1>3, PTL DEF Spec

-------------------------------------------------------------------------------
\* What the property calls deserving is what the models find in the window.
LEMMA DeservingInWindow ==
    ASSUME Shape, NEW c \in Configs, NEW at \in Nat
    PROVE  /\ Deserving(c, at) = InWindow(c, at, touchpoints)
           /\ Void(c, at, touchpoints, Deserving(c, at)) => Worthless(c, at)
<1>1. c.window \in Nat BY AttributionAssumption DEF Config
<1>2. \A t \in DOMAIN touchpoints : touchpoints[t].at \in Nat
  <2>1. \A t \in DOMAIN touchpoints : touchpoints[t] \in Touchpoint
    BY ElementOfSeq, LenProperties DEF Shape
  <2> QED BY <2>1 DEF Touchpoint
<1>3. \A a \in Nat : at - c.window <= a <=> a >= at - c.window BY <1>1
<1> QED BY <1>2, <1>3 DEF Deserving, InWindow, Void, Decays, Worthless

\* Whatever the configuration and the order of ties, a conversion credits only
\* touches that precede it within the window; and where there is one it credits
\* somebody, but for the configurations Worthless names (the models,
\* normalizeWeights, calculate).
THEOREM CreditIsGiven == ASSUME NoneIsNoRow PROVE Spec => CreditWhereDue
<1>1. Shape => [\A e \in Events, c \in Configs : ReadJourney(e, c) =>
          LET at     == event[e].in.at
              credit == event'[e].result
          IN  /\ DOMAIN credit \subseteq Deserving(c, at)
              /\ Deserving(c, at) # {} /\ ~Worthless(c, at) =>
                    \E t \in DOMAIN credit : credit[t] > 0]_event
  <2> SUFFICES ASSUME Shape, NEW e \in Events, NEW c \in Configs, ReadJourney(e, c)
               PROVE  LET at     == event[e].in.at
                          credit == event'[e].result
                      IN  /\ DOMAIN credit \subseteq Deserving(c, at)
                          /\ Deserving(c, at) # {} /\ ~Worthless(c, at) =>
                                \E t \in DOMAIN credit : credit[t] > 0
    OBVIOUS
  <2>1. event[e].in.at \in Nat BY InputTypes DEF ReadJourney
  <2> DEFINE at == event[e].in.at
             S == InWindow(c, at, touchpoints)
  <2>2. PICK r : /\ DOMAIN r \subseteq S
                 /\ S # {} /\ ~Void(c, at, touchpoints, S) => Pays(r)
                 /\ event'[e].result = r
    BY JourneyRead
  <2> QED BY <2>1, <2>2, DeservingInWindow DEF Pays
<1>2. Inv => Shape BY DEF Inv
<1> QED BY <1>1, <1>2, InvHolds, PTL DEF Spec, CreditWhereDue
================================================================================
