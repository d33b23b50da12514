------------------------------- MODULE Sdk_proofs -------------------------------
(***************************************************************************)
(* Proofs about module Sdk, for any tabs, ids, events and batch size, and  *)
(* any number of loads, mishaps and outages: first about SdkIdentity, then *)
(* about SdkQueue.                                                         *)
(***************************************************************************)
EXTENDS Sdk, Recursion, FiniteSetTheorems, SequenceTheorems, TLAPS

-------------------------------------------------------------------------------
(* Types                                                                    *)

LEMMA TypesInit == Init => TypeOK
<1> SUFFICES ASSUME Init PROVE TypeOK OBVIOUS
<1>1. [pc |-> "closed", storage |-> None, visitor |-> None, session |-> None,
       alone |-> TRUE, told |-> FALSE] \in Tab
  BY DEF Tab, Visitor, Session
<1>2. [pc |-> "new", tab |-> None, batch |-> {}, visitor |-> None, session |-> None,
       row |-> None] \in Event
  BY DEF Event, Visitor, Session
<1>3. tab \in [Tabs -> Tab] /\ event \in [Events -> Event] BY <1>1, <1>2 DEF Init
<1>4. local \in Visitor /\ cookie \in [visitor : Visitor, session : Session]
  BY DEF Init, Visitor, Session
<1>5. owner \in [SessionIds -> Visitor \cup {"sdk"}] /\ live \subseteq SessionIds
  BY DEF Init, Visitor
<1>6. loads \in 0..MaxLoads /\ mishaps \in 0..MaxMishaps
  <2>1. loads = 0 /\ mishaps = 0 BY DEF Init
  <2>2. MaxLoads \in Nat /\ MaxMishaps \in Nat BY IdentityAssumption
  <2> QED BY <2>1, <2>2
<1>7. divided \in BOOLEAN BY DEF Init
<1> QED BY <1>3, <1>4, <1>5, <1>6, <1>7 DEF TypeOK

\* What the steps of a tab and of an event make of them.
LEMMA TabTypes ==
    ASSUME NEW x \in Tab, NEW v \in Visitor, NEW s \in Session,
           NEW pc \in {"closed", "local", "cookie", "setLocal", "setCookie", "session", "open"},
           NEW b \in BOOLEAN
    PROVE  /\ [x EXCEPT !.pc = pc] \in Tab
           /\ [x EXCEPT !.alone = b] \in Tab
           /\ [x EXCEPT !.visitor = v, !.pc = pc] \in Tab
           /\ [x EXCEPT !.storage = s, !.session = s, !.pc = pc] \in Tab
           /\ [x EXCEPT !.pc = pc, !.storage = s, !.visitor = v, !.session = None,
                        !.told = FALSE] \in Tab
           /\ [x EXCEPT !.session = s, !.storage = s, !.visitor = v, !.told = TRUE] \in Tab
  BY DEF Tab, Session

LEMMA EventTypes ==
    ASSUME NEW x \in Event, NEW v \in Visitor, NEW s \in Session, NEW r \in Session,
           NEW pc \in {"new", "buffered", "flying", "served", "kept", "done"},
           NEW t \in Tabs, NEW b \in SUBSET Events
    PROVE  /\ [x EXCEPT !.pc = pc, !.batch = b] \in Event
           /\ [x EXCEPT !.pc = pc, !.tab = t] \in Event
           /\ [x EXCEPT !.pc = pc, !.tab = t, !.visitor = v, !.session = s] \in Event
           /\ [x EXCEPT !.pc = pc, !.row = r] \in Event
  BY DEF Event

\* The server accepts session s for event e, or begins it.
Serves(e, s) ==
    /\ \/ s \in live /\ owner[s] = event[e].visitor
       \/ owner[s] = None
    /\ owner' = [owner EXCEPT ![s] = event[e].visitor]
    /\ live' = live \cup {s}
    /\ event' = [event EXCEPT ![e] = Stored(e, s)]

LEMMA ServeServes ==
    ASSUME TypeOK, NEW e \in Events, Serve(e)
    PROVE  \E s \in SessionIds : Serves(e, s)
<1> DEFINE S == IF event[e].session \in live /\ owner[event[e].session] = event[e].visitor
                THEN {event[e].session} ELSE FreshSessions
<1>1. PICK s \in S :
         /\ owner' = [owner EXCEPT ![s] = event[e].visitor]
         /\ live' = live \cup {s}
         /\ event' = [event EXCEPT ![e] = Stored(e, s)]
  BY DEF Serve
<1>2. /\ s \in SessionIds
      /\ \/ s \in live /\ owner[s] = event[e].visitor
         \/ owner[s] = None
  BY DEF TypeOK, FreshSessions
<1> QED BY <1>1, <1>2 DEF Serves

LEMMA TypesNext == TypeOK /\ [Next]_vars => TypeOK'
<1> SUFFICES ASSUME TypeOK, [Next]_vars PROVE TypeOK' OBVIOUS
<1>1. CASE UNCHANGED vars BY <1>1 DEF TypeOK, vars
<1>2. CASE Clear
  <2>1. tab' \in [Tabs -> Tab]
    BY <1>2, TabTypes, Zenon DEF TypeOK, Clear
  <2> QED BY <1>2, <2>1, IdentityAssumption DEF TypeOK, Clear, Visitor, Session
<1>3. ASSUME NEW s \in SessionIds, Expire(s) PROVE TypeOK'
  BY <1>3, IdentityAssumption DEF TypeOK, Expire
<1>4. ASSUME NEW e \in Events, Serve(e) PROVE TypeOK'
  <2>1. PICK s \in SessionIds : Serves(e, s) BY <1>4, ServeServes
  <2>2. event[e] \in Event BY DEF TypeOK
  <2>3. event[e].visitor \in Visitor /\ event[e].row \in Session BY <2>2 DEF Event
  <2>4. event' \in [Events -> Event]
    <3>1. Stored(e, s) \in Event BY <2>2, <2>3 DEF Stored, Event, Session
    <3> QED BY <2>1, <3>1 DEF Serves, TypeOK
  <2> QED BY <1>4, <2>1, <2>3, <2>4 DEF Serve, Serves, TypeOK
<1>5. ASSUME NEW t \in Tabs, Load(t) PROVE TypeOK'
  <2>1. tab[t] \in Tab /\ [tab[t] EXCEPT !.pc = "local"] \in Tab BY TabTypes, Zenon DEF TypeOK
  <2>2. [tab EXCEPT ![t] = [tab[t] EXCEPT !.pc = "local"]] \in [Tabs -> Tab]
    BY <2>1 DEF TypeOK
  <2>3. \A tabs \in [Tabs -> Tab] : Joined(t, tabs) \in [Tabs -> Tab]
    <3> SUFFICES ASSUME NEW tabs \in [Tabs -> Tab], NEW u \in Tabs
                 PROVE  Joined(t, tabs)[u] \in Tab
      BY DEF Joined
    <3>1. tabs[u] \in Tab /\ tabs[t] \in Tab OBVIOUS
    <3>2. \A b \in BOOLEAN : [tabs[u] EXCEPT !.alone = b] \in Tab
      BY <3>1, TabTypes, Zenon DEF Visitor, Session
    <3>3. (\A w \in Tabs \ {t} : ~Looking(w)) \in BOOLEAN OBVIOUS
    <3> QED BY <3>1, <3>2, <3>3 DEF Joined
  <2>4. tab' \in [Tabs -> Tab] BY <1>5, <2>2, <2>3, Zenon DEF Load
  <2>5. loads' \in 0..MaxLoads BY <1>5, IdentityAssumption DEF TypeOK, Load
  <2> QED BY <1>5, <2>4, <2>5 DEF TypeOK, Load
<1>6. ASSUME NEW t \in Tabs, ReadLocal(t) PROVE TypeOK'
  <2>1. tab[t] \in Tab BY DEF TypeOK
  <2>2. tab' \in [Tabs -> Tab] BY <1>6, <2>1, TabTypes, Zenon DEF TypeOK, ReadLocal
  <2> QED BY <1>6, <2>2 DEF TypeOK, ReadLocal
<1>7. ASSUME NEW t \in Tabs, ReadCookie(t) PROVE TypeOK'
  <2>1. tab[t] \in Tab BY DEF TypeOK
  <2>2. PICK v \in Visitor :
           tab' = [tab EXCEPT ![t] = [tab[t] EXCEPT !.visitor = v, !.pc = "setLocal"]]
    BY <1>7, Zenon DEF TypeOK, ReadCookie, Found, FreshVisitors, Visitor
  <2>3. tab' \in [Tabs -> Tab] BY <2>1, <2>2, TabTypes, Zenon DEF TypeOK
  <2>4. divided' \in BOOLEAN BY <1>7 DEF ReadCookie
  <2> QED BY <1>7, <2>3, <2>4 DEF TypeOK, ReadCookie
<1>8. ASSUME NEW t \in Tabs, SetLocal(t) PROVE TypeOK'
  <2>1. tab[t] \in Tab /\ tab[t].visitor \in Visitor BY DEF TypeOK, Tab
  <2>2. tab' \in [Tabs -> Tab] BY <1>8, <2>1, TabTypes, Zenon DEF TypeOK, SetLocal
  <2> QED BY <1>8, <2>1, <2>2 DEF TypeOK, SetLocal
<1>9. ASSUME NEW t \in Tabs, SetCookie(t) PROVE TypeOK'
  <2>1. tab[t] \in Tab /\ tab[t].visitor \in Visitor BY DEF TypeOK, Tab
  <2>2. tab' \in [Tabs -> Tab] BY <1>9, <2>1, TabTypes, Zenon DEF TypeOK, SetCookie
  <2> QED BY <1>9, <2>1, <2>2 DEF TypeOK, SetCookie
<1>10. ASSUME NEW t \in Tabs, StickySession(t) PROVE TypeOK'
  <2>1. tab[t] \in Tab BY DEF TypeOK
  <2>2. PICK s \in SessionIds :
           /\ tab' = [tab EXCEPT ![t] =
                 [tab[t] EXCEPT !.storage = s, !.session = s, !.pc = "open"]]
           /\ cookie' = [cookie EXCEPT !.session = s]
           /\ owner' = IF owner[s] = None THEN [owner EXCEPT ![s] = "sdk"] ELSE owner
    BY <1>10, <2>1, Zenon DEF TypeOK, Tab, StickySession, FreshSessions, Session
  <2>3. tab' \in [Tabs -> Tab] BY <2>1, <2>2, TabTypes, Zenon DEF TypeOK, Session
  <2> QED BY <1>10, <2>2, <2>3 DEF TypeOK, StickySession, Session
<1>11. ASSUME NEW t \in Tabs, Leave(t) PROVE TypeOK'
  <2>1. tab[t] \in Tab /\ tab[t].storage \in Session BY DEF TypeOK, Tab
  <2>2. PICK s \in Session :
           tab' = [tab EXCEPT ![t] = [tab[t] EXCEPT !.pc = "closed", !.storage = s,
                     !.visitor = None, !.session = None, !.told = FALSE]]
    BY <1>11, <2>1, Zenon DEF Leave, Session
  <2>3. tab' \in [Tabs -> Tab] BY <2>1, <2>2, TabTypes, Zenon DEF TypeOK, Visitor
  <2>4. event' \in [Events -> Event]
    <3>1. PICK pc \in {"done", "kept"} :
             event' = [e \in Events |->
                 IF event[e].tab = t /\ event[e].pc \in {"buffered", "flying", "served"}
                 THEN [event[e] EXCEPT !.pc = pc, !.batch = {}] ELSE event[e]]
      BY <1>11, Zenon DEF Leave
    <3>2. \A e \in Events : event[e] \in Event /\ [event[e] EXCEPT !.pc = pc, !.batch = {}] \in Event
      BY EventTypes, Zenon DEF TypeOK
    <3> QED BY <3>1, <3>2, Zenon
  <2> QED BY <1>11, <2>3, <2>4, Zenon DEF TypeOK, Leave
<1>12. ASSUME NEW t \in Tabs, Flush(t) PROVE TypeOK'
  <2>1. Buffer(t) \in SUBSET Events BY DEF Buffer
  <2>2. event' \in [Events -> Event] BY <1>12, <2>1, EventTypes, Zenon DEF TypeOK, Flush
  <2> QED BY <1>12, <2>2, Zenon DEF TypeOK, Flush
<1>13. ASSUME NEW t \in Tabs, NEW e \in Events, Track(t, e) PROVE TypeOK'
  <2>1. event[e] \in Event /\ tab[t].visitor \in Visitor /\ tab[t].session \in Session
    BY DEF TypeOK, Tab
  <2>2. event' \in [Events -> Event] BY <1>13, <2>1, EventTypes, Zenon DEF TypeOK, Track
  <2> QED BY <1>13, <2>2 DEF TypeOK, Track
<1>14. ASSUME NEW t \in Tabs, NEW e \in Events, Drain(t, e) PROVE TypeOK'
  <2>1. event[e] \in Event BY DEF TypeOK
  <2>2. event' \in [Events -> Event] BY <1>14, <2>1, EventTypes, Zenon DEF TypeOK, Drain
  <2> QED BY <1>14, <2>2 DEF TypeOK, Drain
<1>15. ASSUME NEW t \in Tabs, NEW e \in Events, Answer(t, e) PROVE TypeOK'
  <2>1. /\ tab[t] \in Tab /\ event[e] \in Event
        /\ event[e].visitor \in Visitor /\ event[e].row \in Session
    BY DEF TypeOK, Event
  <2>2. event' \in [Events -> Event] BY <1>15, EventTypes, Zenon DEF TypeOK, Answer
  <2>3. CASE event[e].batch = {e}
    <3>1. /\ tab' = [u \in Tabs |->
                IF u = t THEN Takes(t, e)
                ELSE IF Looking(u) /\ event[e].visitor # tab[t].visitor
                THEN [tab[u] EXCEPT !.alone = FALSE]
                ELSE tab[u]]
          /\ cookie' = [visitor |-> IF event[e].visitor # tab[t].visitor
                                    THEN event[e].visitor ELSE cookie.visitor,
                        session |-> IF event[e].row # tab[t].session
                                    THEN event[e].row ELSE cookie.session]
          /\ local' = IF event[e].visitor # tab[t].visitor THEN event[e].visitor ELSE local
      BY <1>15, <2>3, Zenon DEF Answer
    <3>2. Takes(t, e) \in Tab BY <2>1, TabTypes, Zenon DEF Takes
    <3>3. \A u \in Tabs : tab[u] \in Tab /\ [tab[u] EXCEPT !.alone = FALSE] \in Tab
      BY TabTypes, Zenon DEF TypeOK
    <3>4. tab' \in [Tabs -> Tab] BY <3>1, <3>2, <3>3
    <3>5. local' \in Visitor /\ cookie' \in [visitor : Visitor, session : Session]
      BY <2>1, <3>1 DEF TypeOK
    <3> QED BY <1>15, <2>2, <3>4, <3>5, Zenon DEF TypeOK, Answer
  <2>4. CASE event[e].batch # {e} BY <1>15, <2>2, <2>4, Zenon DEF TypeOK, Answer
  <2> QED BY <2>3, <2>4
<1>16. ASSUME NEW t \in Tabs, NEW e \in Events, Reject(t, e) PROVE TypeOK'
  <2>1. PICK pc \in {"buffered", "kept"} :
           event' = [f \in Events |->
               IF f \in event[e].batch THEN [event[f] EXCEPT !.pc = pc, !.batch = {}]
               ELSE event[f]]
    BY <1>16, Zenon DEF Reject
  <2>2. \A f \in Events : event[f] \in Event /\ [event[f] EXCEPT !.pc = pc, !.batch = {}] \in Event
    BY EventTypes, Zenon DEF TypeOK
  <2>3. event' \in [Events -> Event] BY <2>1, <2>2, Zenon
  <2>4. mishaps' \in 0..MaxMishaps
    <3>1. mishaps \in 0..MaxMishaps /\ MaxMishaps \in Nat BY IdentityAssumption DEF TypeOK
    <3>2. mishaps < MaxMishaps /\ mishaps' = mishaps + 1 BY <1>16 DEF Reject
    <3> QED BY <3>1, <3>2
  <2> QED BY <1>16, <2>3, <2>4, Zenon DEF TypeOK, Reject
<1> QED
  BY <1>1, <1>2, <1>3, <1>4, <1>5, <1>6, <1>7, <1>8, <1>9, <1>10, <1>11, <1>12, <1>13,
     <1>14, <1>15, <1>16 DEF Next

-------------------------------------------------------------------------------
(* What a tab and an event have in hand                                     *)

TabFits(x) ==
    /\ x.pc \in {"closed", "local", "cookie"} => x.visitor = None
    /\ x.pc \in {"setLocal", "setCookie", "session", "open"} => x.visitor # None
    /\ x.pc = "open" => x.session # None
    /\ x.told => x.pc = "open"

EventFits(y) ==
    /\ y.pc # "new" => y.visitor # None
    /\ y.pc = "new" => y.row = None
    /\ y.pc = "served" => y.row # None
    /\ y.batch # {} => y.pc \in {"flying", "served"}

Fits ==
    /\ \A t \in Tabs : TabFits(tab[t])
    /\ \A e \in Events : EventFits(event[e])
    /\ \A e, f \in Events : f \in event[e].batch => event[f].pc # "new"

-------------------------------------------------------------------------------
(* What a step does to the ids in use                                       *)

\* A session that is somebody's stays his.
OwnersStay == \A s \in SessionIds : owner[s] # None => owner'[s] = owner[s]

\* An event keeps its ids; or it is tracked with those of an open tab; or the
\* server stores its row, under a session of its visitor.
EventMoves(f) ==
    \/ event'[f].visitor = event[f].visitor /\ event'[f].row = event[f].row
    \/ /\ event[f].pc = "new" /\ event'[f].row = event[f].row
       /\ \E t \in Tabs : tab[t].pc = "open" /\ event'[f].visitor = tab[t].visitor
    \/ /\ event'[f].visitor = event[f].visitor /\ event'[f].row \in SessionIds
       /\ owner'[event'[f].row] = event[f].visitor

\* A tab was told no new ids; or those of an event's row.
TabMoves(u) ==
    \/ tab'[u].told => /\ tab[u].told /\ tab'[u].session = tab[u].session
                       /\ tab'[u].visitor = tab[u].visitor
    \/ \E e \in Events : /\ event[e].row # None /\ tab'[u].session = event[e].row
                         /\ tab'[u].visitor = event[e].visitor

\* No visitor id comes into use; or tab t makes one up.
NoNew == UsedVisitors' \subseteq UsedVisitors \cup {None}

Mints(t) ==
    /\ tab[t].pc = "cookie" /\ cookie.visitor = None
    /\ \A u \in Tabs : u # t => tab'[u] = tab[u]
    /\ tab'[t].pc = "setLocal" /\ tab'[t].visitor # None
    /\ local' = local /\ cookie' = cookie /\ event' = event
    /\ divided' = (divided \/ ~tab[t].alone)

\* Both copies are empty only if they were, and whoever has an id has just made
\* it up, had one already, or was told one.
Empties ==
    ~divided' /\ local' = None /\ cookie'.visitor = None =>
        /\ local = None /\ cookie.visitor = None
        /\ \A u \in Tabs : tab'[u].visitor # None =>
              \/ tab'[u].pc = "setLocal"
              \/ tab[u].visitor # None /\ tab[u].pc # "setLocal"
              \/ \E e \in Events : event[e].visitor # None

Does ==
    /\ OwnersStay
    /\ \A f \in Events : EventMoves(f)
    /\ \A u \in Tabs : TabMoves(u)
    /\ NoNew \/ \E t \in Tabs : Mints(t)
    /\ Empties
    /\ divided => divided'

\* The ids of tab u, and of event f, stay.
TabKeeps(u) ==
    /\ tab'[u].visitor = tab[u].visitor /\ tab'[u].session = tab[u].session
    /\ tab'[u].told = tab[u].told /\ tab'[u].pc = tab[u].pc

EventKeeps(f) == event'[f].visitor = event[f].visitor /\ event'[f].row = event[f].row

\* A step in which all tabs but t and all events keep their ids.
LEMMA TabStep ==
    ASSUME TypeOK, NEW t \in Tabs,
           \A u \in Tabs : u # t => TabKeeps(u),
           \A f \in Events : EventKeeps(f),
           local' \in UsedVisitors, cookie'.visitor \in UsedVisitors,
           tab'[t].visitor \in UsedVisitors \cup {None}
    PROVE  /\ \A f \in Events : EventMoves(f)
           /\ NoNew
           /\ TabMoves(t) => \A u \in Tabs : TabMoves(u)
<1>1. \A f \in Events : EventMoves(f) BY DEF EventMoves, EventKeeps
<1>2. \A u \in Tabs : tab'[u].visitor \in UsedVisitors \cup {None}
  BY DEF TabKeeps, UsedVisitors
<1>3. \A f \in Events : event'[f].visitor \in UsedVisitors
  BY DEF EventKeeps, UsedVisitors
<1>4. NoNew BY <1>2, <1>3 DEF NoNew, UsedVisitors
<1>5. TabMoves(t) => \A u \in Tabs : TabMoves(u) BY DEF TabMoves, TabKeeps
<1> QED BY <1>1, <1>4, <1>5

LEMMA TypeFacts ==
    ASSUME TypeOK
    PROVE  /\ \A t \in Tabs :
                 /\ tab[t] \in Tab /\ tab[t].visitor \in Visitor /\ tab[t].session \in Session
                 /\ tab[t].storage \in Session
           /\ \A e \in Events :
                 /\ event[e] \in Event /\ event[e].visitor \in Visitor
                 /\ event[e].row \in Session /\ event[e].batch \subseteq Events
           /\ local \in UsedVisitors /\ cookie.visitor \in UsedVisitors
           /\ \A t \in Tabs : tab[t].visitor \in UsedVisitors
           /\ \A e \in Events : event[e].visitor \in UsedVisitors
  BY DEF TypeOK, Tab, Event, UsedVisitors

LEMMA LoadDoes ==
    ASSUME TypeOK, Fits, NEW t \in Tabs, Load(t) PROVE Fits' /\ Does
<1>1. tab[t].pc = "closed" BY DEF Load
<1>2. /\ tab'[t].pc = "local" /\ tab'[t].visitor = tab[t].visitor
      /\ tab'[t].session = tab[t].session /\ tab'[t].told = tab[t].told
  BY DEF Load, Joined, TypeOK, Tab
<1>3. \A u \in Tabs : u # t => TabKeeps(u)
  BY DEF Load, Joined, TypeOK, Tab, TabKeeps
<1>4. \A f \in Events : EventKeeps(f) BY DEF Load, EventKeeps
<1>5. tab[t].visitor = None BY <1>1 DEF Fits, TabFits
<1>6. Fits'
  BY <1>1, <1>2, <1>3, <1>5 DEF Fits, TabFits, TabKeeps, Load
<1>7. TabMoves(t) BY <1>2 DEF TabMoves
<1>8. Empties BY <1>2, <1>3, <1>5 DEF Empties, Load, TabKeeps
<1> QED BY <1>2, <1>3, <1>4, <1>6, <1>7, <1>8, TabStep, TypeFacts DEF Does, Load, OwnersStay

LEMMA ReadLocalDoes ==
    ASSUME TypeOK, Fits, NEW t \in Tabs, ReadLocal(t) PROVE Fits' /\ Does
<1>1. tab[t].pc = "local" BY DEF ReadLocal
<1>2. /\ tab'[t].pc = IF local = None THEN "cookie" ELSE "setLocal"
      /\ tab'[t].visitor = local
      /\ tab'[t].session = tab[t].session /\ tab'[t].told = tab[t].told
  BY DEF ReadLocal, TypeOK, Tab
<1>3. \A u \in Tabs : u # t => TabKeeps(u) BY DEF ReadLocal, TypeOK, TabKeeps
<1>4. \A f \in Events : EventKeeps(f) BY DEF ReadLocal, EventKeeps
<1>5. ~tab[t].told BY <1>1 DEF Fits, TabFits
<1>6. Fits' BY <1>1, <1>2, <1>3, <1>5 DEF Fits, TabFits, TabKeeps, ReadLocal
<1>7. TabMoves(t) BY <1>2, <1>5 DEF TabMoves
<1>8. Empties BY <1>2, <1>3 DEF Empties, ReadLocal, TabKeeps
<1> QED
  BY <1>2, <1>3, <1>4, <1>6, <1>7, <1>8, TabStep, TypeFacts DEF Does, ReadLocal, OwnersStay

LEMMA ReadCookieDoes ==
    ASSUME TypeOK, Fits, NEW t \in Tabs, ReadCookie(t) PROVE Fits' /\ Does
<1>1. tab[t].pc = "cookie" BY DEF ReadCookie
<1>2. PICK v \in IF cookie.visitor = None THEN FreshVisitors ELSE {cookie.visitor} :
         tab' = [tab EXCEPT ![t] = [tab[t] EXCEPT !.visitor = v, !.pc = "setLocal"]]
  BY DEF ReadCookie, Found
<1>3. v # None /\ (cookie.visitor # None => v = cookie.visitor)
  BY <1>2, IdentityAssumption DEF FreshVisitors
<1>4. /\ tab'[t].pc = "setLocal" /\ tab'[t].visitor = v
      /\ tab'[t].session = tab[t].session /\ tab'[t].told = tab[t].told
  BY <1>2 DEF TypeOK, Tab
<1>5. \A u \in Tabs : u # t => tab'[u] = tab[u] BY <1>2 DEF TypeOK
<1>6. \A u \in Tabs : u # t => TabKeeps(u) BY <1>5 DEF TabKeeps
<1>7. \A f \in Events : EventKeeps(f) BY DEF ReadCookie, EventKeeps
<1>8. ~tab[t].told BY <1>1 DEF Fits, TabFits
<1>9. Fits' BY <1>3, <1>4, <1>6, <1>8 DEF Fits, TabFits, TabKeeps, ReadCookie
<1>10. TabMoves(t) BY <1>4, <1>8 DEF TabMoves
<1>11. Empties BY <1>4, <1>5, <1>6 DEF Empties, ReadCookie, TabKeeps
<1>12. OwnersStay /\ (divided => divided') BY DEF ReadCookie, OwnersStay
<1>13. \A f \in Events : EventMoves(f) BY <1>7 DEF EventMoves, EventKeeps
<1>14. \A u \in Tabs : TabMoves(u) BY <1>6, <1>10 DEF TabMoves, TabKeeps
<1>15. NoNew \/ Mints(t)
  <2>1. CASE cookie.visitor = None
    BY <1>1, <1>3, <1>4, <1>5, <2>1 DEF Mints, ReadCookie, Found
  <2>2. CASE cookie.visitor # None
    BY <1>3, <1>4, <1>6, <1>7, <2>2, TabStep, TypeFacts DEF ReadCookie
  <2> QED BY <2>1, <2>2
<1> QED BY <1>9, <1>11, <1>12, <1>13, <1>14, <1>15 DEF Does

LEMMA SetLocalDoes ==
    ASSUME TypeOK, Fits, NEW t \in Tabs, SetLocal(t) PROVE Fits' /\ Does
<1>1. tab[t].pc = "setLocal" BY DEF SetLocal
<1>2. /\ tab'[t].pc = "setCookie" /\ tab'[t].visitor = tab[t].visitor
      /\ tab'[t].session = tab[t].session /\ tab'[t].told = tab[t].told
  BY DEF SetLocal, TypeOK, Tab
<1>3. \A u \in Tabs : u # t => TabKeeps(u) BY DEF SetLocal, TypeOK, TabKeeps
<1>4. \A f \in Events : EventKeeps(f) BY DEF SetLocal, EventKeeps
<1>5. ~tab[t].told /\ tab[t].visitor # None BY <1>1 DEF Fits, TabFits
<1>6. Fits' BY <1>2, <1>3, <1>5 DEF Fits, TabFits, TabKeeps, SetLocal
<1>7. TabMoves(t) BY <1>2, <1>5 DEF TabMoves
<1>8. Empties BY <1>5 DEF Empties, SetLocal
<1> QED
  BY <1>2, <1>3, <1>4, <1>6, <1>7, <1>8, TabStep, TypeFacts DEF Does, SetLocal, OwnersStay

LEMMA SetCookieDoes ==
    ASSUME TypeOK, Fits, NEW t \in Tabs, SetCookie(t) PROVE Fits' /\ Does
<1>1. tab[t].pc = "setCookie" BY DEF SetCookie
<1>2. /\ tab'[t].pc = "session" /\ tab'[t].visitor = tab[t].visitor
      /\ tab'[t].session = tab[t].session /\ tab'[t].told = tab[t].told
  BY DEF SetCookie, TypeOK, Tab
<1>3. \A u \in Tabs : u # t => TabKeeps(u) BY DEF SetCookie, TypeOK, TabKeeps
<1>4. \A f \in Events : EventKeeps(f) BY DEF SetCookie, EventKeeps
<1>5. ~tab[t].told /\ tab[t].visitor # None BY <1>1 DEF Fits, TabFits
<1>6. Fits' BY <1>2, <1>3, <1>5 DEF Fits, TabFits, TabKeeps, SetCookie
<1>7. TabMoves(t) BY <1>2, <1>5 DEF TabMoves
<1>8. cookie'.visitor = tab[t].visitor BY DEF SetCookie, TypeOK
<1>9. Empties BY <1>5, <1>8 DEF Empties
<1> QED
  BY <1>2, <1>3, <1>4, <1>6, <1>7, <1>8, <1>9, TabStep, TypeFacts
  DEF Does, SetCookie, OwnersStay

LEMMA StickySessionDoes ==
    ASSUME TypeOK, Fits, NEW t \in Tabs, StickySession(t) PROVE Fits' /\ Does
<1>1. tab[t].pc = "session" BY DEF StickySession
<1>2. PICK s \in IF tab[t].storage # None THEN {tab[t].storage}
                 ELSE IF cookie.session # None THEN {cookie.session}
                 ELSE FreshSessions :
         /\ tab' = [tab EXCEPT ![t] =
               [tab[t] EXCEPT !.storage = s, !.session = s, !.pc = "open"]]
         /\ cookie' = [cookie EXCEPT !.session = s]
         /\ owner' = IF owner[s] = None THEN [owner EXCEPT ![s] = "sdk"] ELSE owner
  BY DEF StickySession
<1>3. s # None BY <1>2, IdentityAssumption DEF FreshSessions
<1>4. /\ tab'[t].pc = "open" /\ tab'[t].visitor = tab[t].visitor
      /\ tab'[t].session = s /\ tab'[t].told = tab[t].told
  BY <1>2 DEF TypeOK, Tab
<1>5. \A u \in Tabs : u # t => TabKeeps(u) BY <1>2 DEF TypeOK, TabKeeps
<1>6. \A f \in Events : EventKeeps(f) BY DEF StickySession, EventKeeps
<1>7. ~tab[t].told /\ tab[t].visitor # None BY <1>1 DEF Fits, TabFits
<1>8. Fits' BY <1>3, <1>4, <1>5, <1>7 DEF Fits, TabFits, TabKeeps, StickySession
<1>9. TabMoves(t) BY <1>4, <1>7 DEF TabMoves
<1>10. cookie'.visitor = cookie.visitor /\ local' = local /\ divided' = divided
  BY <1>2 DEF StickySession, TypeOK
<1>11. Empties BY <1>1, <1>4, <1>5, <1>10 DEF Empties, TabKeeps
<1>12. OwnersStay BY <1>2 DEF OwnersStay, TypeOK
<1> QED
  BY <1>4, <1>5, <1>6, <1>8, <1>9, <1>10, <1>11, <1>12, TabStep, TypeFacts DEF Does

LEMMA LeaveDoes ==
    ASSUME TypeOK, Fits, NEW t \in Tabs, Leave(t) PROVE Fits' /\ Does
<1>1. PICK s : tab' = [tab EXCEPT ![t] = [tab[t] EXCEPT !.pc = "closed", !.storage = s,
                         !.visitor = None, !.session = None, !.told = FALSE]]
  BY DEF Leave
<1>2. PICK pc \in {"done", "kept"} :
         event' = [e \in Events |->
             IF event[e].tab = t /\ event[e].pc \in {"buffered", "flying", "served"}
             THEN [event[e] EXCEPT !.pc = pc, !.batch = {}] ELSE event[e]]
  BY DEF Leave
<1>3. /\ tab'[t].pc = "closed" /\ tab'[t].visitor = None
      /\ tab'[t].session = None /\ tab'[t].told = FALSE
  BY <1>1 DEF TypeOK, Tab
<1>4. \A u \in Tabs : u # t => TabKeeps(u) BY <1>1 DEF TypeOK, TabKeeps
<1>5. \A f \in Events :
         /\ EventKeeps(f)
         /\ \/ event'[f] = event[f]
            \/ event[f].pc # "new" /\ event'[f].pc = pc /\ event'[f].batch = {}
  <2> SUFFICES ASSUME NEW f \in Events
               PROVE  /\ EventKeeps(f)
                      /\ \/ event'[f] = event[f]
                         \/ event[f].pc # "new" /\ event'[f].pc = pc /\ event'[f].batch = {}
    OBVIOUS
  <2>1. event[f] \in Event BY TypeFacts
  <2>2. CASE event[f].tab = t /\ event[f].pc \in {"buffered", "flying", "served"}
    <3>1. event'[f] = [event[f] EXCEPT !.pc = pc, !.batch = {}] BY <1>2, <2>2
    <3> QED BY <2>1, <2>2, <3>1 DEF EventKeeps, Event
  <2>3. CASE ~(event[f].tab = t /\ event[f].pc \in {"buffered", "flying", "served"})
    <3>1. event'[f] = event[f] BY <1>2, <2>3
    <3> QED BY <3>1 DEF EventKeeps
  <2> QED BY <2>2, <2>3
<1>6. \A u \in Tabs : TabFits(tab'[u]) BY <1>3, <1>4 DEF Fits, TabFits, TabKeeps
<1>7. \A f \in Events : EventFits(event'[f]) BY <1>5 DEF Fits, EventFits, EventKeeps
<1>8. TabMoves(t) BY <1>3 DEF TabMoves
<1>9. Empties BY <1>3, <1>4 DEF Empties, Leave, TabKeeps
<1>10. \A e, f \in Events : f \in event'[e].batch => event'[f].pc # "new"
  BY <1>2, <1>5 DEF Fits
<1> QED
  BY <1>3, <1>4, <1>5, <1>6, <1>7, <1>8, <1>9, <1>10, TabStep, TypeFacts
  DEF Does, Leave, OwnersStay, Fits

\* A step in which the events alone move.
LEMMA EventStep ==
    ASSUME TypeOK, UNCHANGED <<local, cookie, tab, divided>>,
           \A f \in Events : event'[f].visitor \in UsedVisitors
    PROVE  (\A u \in Tabs : TabMoves(u)) /\ NoNew /\ Empties /\ (divided => divided')
<1>1. NoNew BY TypeFacts DEF NoNew, UsedVisitors
<1>2. \A u \in Tabs : tab'[u] = tab[u] OBVIOUS
<1>3. Empties
  <2>1. \A u \in Tabs : tab'[u].visitor # None =>
           \/ tab'[u].pc = "setLocal"
           \/ tab[u].visitor # None /\ tab[u].pc # "setLocal"
    BY <1>2
  <2> QED BY <2>1 DEF Empties
<1> QED BY <1>1, <1>2, <1>3 DEF TabMoves

LEMMA TrackDoes ==
    ASSUME TypeOK, Fits, NEW t \in Tabs, NEW e \in Events, Track(t, e) PROVE Fits' /\ Does
<1>1. tab[t].pc = "open" /\ event[e].pc = "new" BY DEF Track
<1>2. /\ event'[e].pc = "buffered" /\ event'[e].visitor = tab[t].visitor
      /\ event'[e].row = event[e].row /\ event'[e].batch = event[e].batch
      /\ \A f \in Events : f # e => event'[f] = event[f]
  BY DEF Track, TypeOK, Event
<1>3. tab[t].visitor # None /\ event[e].batch = {} BY <1>1 DEF Fits, TabFits, EventFits
<1>4. Fits' BY <1>2, <1>3 DEF Fits, TabFits, EventFits, Track
<1>5. \A f \in Events : EventMoves(f) BY <1>1, <1>2 DEF EventMoves
<1>6. \A f \in Events : event'[f].visitor \in UsedVisitors BY <1>2, TypeFacts
<1> QED BY <1>4, <1>5, <1>6, EventStep DEF Does, Track, OwnersStay

\* A step that moves events, but not their ids.
LEMMA MoveDoes ==
    ASSUME TypeOK, Fits, UNCHANGED <<local, cookie, tab, divided, owner>>,
           \A f \in Events :
              /\ EventKeeps(f)
              /\ \/ event'[f] = event[f]
                 \/ /\ event[f].pc # "new" /\ event'[f].pc \notin {"new", "served"}
                    /\ event'[f].batch # {} => event'[f].pc = "flying"
              /\ \A g \in event'[f].batch : g \in event[f].batch \/ event[g].pc # "new"
    PROVE  Fits' /\ Does
<1>1. \A f \in Events : EventFits(event'[f]) BY DEF Fits, EventFits, EventKeeps
<1>2. \A f \in Events : event'[f].pc = "new" => event[f].pc = "new" OBVIOUS
<1>4. \A f, g \in Events : g \in event'[f].batch => event'[g].pc # "new" BY <1>2 DEF Fits
<1>5. Fits' BY <1>1, <1>4 DEF Fits, TabFits
<1>3. \A f \in Events : EventMoves(f) /\ event'[f].visitor \in UsedVisitors
  BY TypeFacts DEF EventMoves, EventKeeps
<1> QED BY <1>3, <1>5, EventStep DEF Does, OwnersStay

LEMMA DrainDoes ==
    ASSUME TypeOK, Fits, NEW t \in Tabs, NEW e \in Events, Drain(t, e) PROVE Fits' /\ Does
<1>1. event[e].pc = "kept" BY DEF Drain
<1>2. /\ event'[e].pc = "buffered" /\ EventKeeps(e) /\ event'[e].batch = event[e].batch
      /\ \A f \in Events : f # e => event'[f] = event[f] /\ EventKeeps(f)
  BY DEF Drain, TypeOK, Event, EventKeeps
<1>3. event[e].batch = {} BY <1>1 DEF Fits, EventFits
<1> QED BY <1>1, <1>2, <1>3, MoveDoes DEF Drain

LEMMA FlushDoes ==
    ASSUME TypeOK, Fits, NEW t \in Tabs, Flush(t) PROVE Fits' /\ Does
<1>1. \A f \in Events :
         /\ EventKeeps(f)
         /\ \/ event'[f] = event[f]
            \/ event[f].pc = "buffered" /\ event'[f].pc = "flying"
         /\ \A g \in event'[f].batch : g \in event[f].batch \/ event[g].pc # "new"
  BY TypeFacts DEF Flush, Buffer, Event, EventKeeps
<1> QED BY <1>1, MoveDoes DEF Flush

\* Those of a request change where they are.
LEMMA BatchMoves ==
    ASSUME TypeOK, Fits, NEW e \in Events, NEW pc,
           event' = [f \in Events |->
               IF f \in event[e].batch THEN [event[f] EXCEPT !.pc = pc, !.batch = {}]
               ELSE event[f]]
    PROVE  \A f \in Events :
              /\ EventKeeps(f)
              /\ \/ event'[f] = event[f]
                 \/ event[f].pc # "new" /\ event'[f].pc = pc /\ event'[f].batch = {}
<1> SUFFICES ASSUME NEW f \in Events
             PROVE  /\ EventKeeps(f)
                    /\ \/ event'[f] = event[f]
                       \/ event[f].pc # "new" /\ event'[f].pc = pc /\ event'[f].batch = {}
  OBVIOUS
<1>1. event[f] \in Event BY TypeFacts
<1>2. CASE f \in event[e].batch
  <2>1. event'[f] = [event[f] EXCEPT !.pc = pc, !.batch = {}] BY <1>2
  <2>2. event[f].pc # "new" BY <1>2 DEF Fits
  <2> QED BY <1>1, <2>1, <2>2 DEF EventKeeps, Event
<1>3. CASE f \notin event[e].batch BY <1>3 DEF EventKeeps
<1> QED BY <1>2, <1>3

LEMMA RejectDoes ==
    ASSUME TypeOK, Fits, NEW t \in Tabs, NEW e \in Events, Reject(t, e) PROVE Fits' /\ Does
<1>1. PICK pc \in {"buffered", "kept"} :
         event' = [f \in Events |->
             IF f \in event[e].batch THEN [event[f] EXCEPT !.pc = pc, !.batch = {}]
             ELSE event[f]]
  BY DEF Reject
<1>2. \A f \in Events :
         /\ EventKeeps(f)
         /\ \/ event'[f] = event[f]
            \/ event[f].pc # "new" /\ event'[f].pc = pc /\ event'[f].batch = {}
  BY <1>1, BatchMoves
<1> QED BY <1>1, <1>2, MoveDoes DEF Reject

LEMMA ServeDoes ==
    ASSUME TypeOK, Fits, NEW e \in Events, Serve(e) PROVE Fits' /\ Does
<1>1. PICK s \in SessionIds : Serves(e, s) BY ServeServes
<1>2. event[e].pc = "flying" BY DEF Serve
<1>3. event[e] \in Event /\ event[e].row \in Session BY TypeFacts
<1>4. Stored(e, s) = [event[e] EXCEPT !.pc = "served",
                          !.row = IF event[e].row = None THEN s ELSE event[e].row]
  BY DEF Stored
<1>5. /\ event'[e].pc = "served" /\ event'[e].visitor = event[e].visitor
      /\ event'[e].batch = event[e].batch
      /\ event'[e].row = IF event[e].row = None THEN s ELSE event[e].row
      /\ \A f \in Events : f # e => event'[f] = event[f]
  BY <1>1, <1>3, <1>4 DEF Serves, TypeOK, Event
<1>6. event'[e].row # None BY <1>5, IdentityAssumption
<1>7. \A f \in Events : EventFits(event'[f]) BY <1>2, <1>5, <1>6 DEF Fits, EventFits
<1>8. Fits' BY <1>5, <1>7 DEF Fits, TabFits, Serve
<1>9. OwnersStay BY <1>1 DEF Serves, OwnersStay, TypeOK
<1>10. owner'[s] = event[e].visitor BY <1>1 DEF Serves, TypeOK
<1>11. \A f \in Events : EventMoves(f) BY <1>5, <1>10 DEF EventMoves
<1>12. \A f \in Events : event'[f].visitor \in UsedVisitors BY <1>5, TypeFacts
<1> QED BY <1>8, <1>9, <1>11, <1>12, EventStep DEF Does, Serve

LEMMA ClearDoes == ASSUME TypeOK, Fits, Clear PROVE Fits' /\ Does
<1>1. \A u \in Tabs : TabKeeps(u) BY TypeFacts DEF Clear, TabKeeps, Tab
<1>2. Fits' BY <1>1 DEF Fits, TabFits, TabKeeps, Clear
<1>3. \A u \in Tabs : TabMoves(u) BY <1>1 DEF TabMoves, TabKeeps
<1>4. \A f \in Events : EventMoves(f) BY DEF EventMoves, Clear
<1>5. \/ local' = None /\ cookie' = cookie
      \/ local' = local /\ cookie'.visitor = None
  BY DEF Clear
<1>6. NoNew
  <2>1. local' \in UsedVisitors \cup {None} /\ cookie'.visitor \in UsedVisitors \cup {None}
    BY <1>5, TypeFacts
  <2>2. \A u \in Tabs : tab'[u].visitor \in UsedVisitors BY <1>1, TypeFacts DEF TabKeeps
  <2>3. \A f \in Events : event'[f].visitor \in UsedVisitors BY TypeFacts DEF Clear
  <2> QED BY <2>1, <2>2, <2>3 DEF NoNew, UsedVisitors
<1>7. Empties BY DEF Empties, Clear
<1> QED BY <1>2, <1>3, <1>4, <1>6, <1>7 DEF Does, Clear, OwnersStay

LEMMA ExpireDoes ==
    ASSUME TypeOK, Fits, NEW s \in SessionIds, Expire(s) PROVE Fits' /\ Does
<1>1. \A f \in Events : event'[f] = event[f] BY DEF Expire
<1> QED BY <1>1, MoveDoes DEF Expire, EventKeeps

LEMMA AnswerDoes ==
    ASSUME TypeOK, Fits, NEW t \in Tabs, NEW e \in Events, Answer(t, e) PROVE Fits' /\ Does
<1>1. event' = [f \in Events |->
          IF f \in event[e].batch THEN [event[f] EXCEPT !.pc = "done", !.batch = {}]
          ELSE event[f]]
  BY DEF Answer
<1>2. \A f \in Events :
         /\ EventKeeps(f)
         /\ \/ event'[f] = event[f]
            \/ event[f].pc # "new" /\ event'[f].pc = "done" /\ event'[f].batch = {}
  BY <1>1, BatchMoves
<1>3. CASE event[e].batch # {e}
  BY <1>2, <1>3, MoveDoes DEF Answer
<1>4. CASE event[e].batch = {e}
  <2>1. event[e].pc = "served" /\ tab[t].pc = "open" BY <1>4 DEF Answer
  <2>2. event[e].row # None /\ event[e].visitor # None BY <2>1 DEF Fits, EventFits
  <2>3. /\ tab' = [u \in Tabs |->
              IF u = t THEN Takes(t, e)
              ELSE IF Looking(u) /\ event[e].visitor # tab[t].visitor
              THEN [tab[u] EXCEPT !.alone = FALSE]
              ELSE tab[u]]
        /\ cookie'.visitor = IF event[e].visitor # tab[t].visitor
                             THEN event[e].visitor ELSE cookie.visitor
        /\ local' = IF event[e].visitor # tab[t].visitor THEN event[e].visitor ELSE local
    <3>1. cookie' = [visitor |-> IF event[e].visitor # tab[t].visitor
                                 THEN event[e].visitor ELSE cookie.visitor,
                     session |-> IF event[e].row # tab[t].session
                                 THEN event[e].row ELSE cookie.session]
      BY <1>4 DEF Answer
    <3>2. cookie'.visitor = IF event[e].visitor # tab[t].visitor
                           THEN event[e].visitor ELSE cookie.visitor
      BY <3>1
    <3> QED BY <1>4, <3>2 DEF Answer
  <2>4. /\ tab'[t].pc = tab[t].pc /\ tab'[t].session = event[e].row
        /\ tab'[t].visitor = event[e].visitor /\ tab'[t].told = TRUE
    <3>1. tab'[t] = Takes(t, e) BY <2>3
    <3> QED BY <3>1, TypeFacts DEF Takes, Tab
  <2>5. \A u \in Tabs : u # t => TabKeeps(u)
    <3> SUFFICES ASSUME NEW u \in Tabs, u # t PROVE TabKeeps(u) OBVIOUS
    <3>1. tab'[u] = tab[u] \/ tab'[u] = [tab[u] EXCEPT !.alone = FALSE] BY <2>3
    <3> QED BY <3>1, TypeFacts DEF TabKeeps, Tab
  <2>6. \A u \in Tabs : TabFits(tab'[u])
    BY <2>1, <2>2, <2>4, <2>5 DEF Fits, TabFits, TabKeeps
  <2>7. \A f \in Events : EventFits(event'[f]) BY <1>2 DEF Fits, EventFits, EventKeeps
  <2>8. \A f, g \in Events : g \in event'[f].batch => event'[g].pc # "new"
    BY <1>2 DEF Fits
  <2>9. Fits' BY <2>6, <2>7, <2>8 DEF Fits
  <2>10. TabMoves(t) BY <2>2, <2>4 DEF TabMoves
  <2>11. Empties BY <2>2, <2>3 DEF Empties, Answer
  <2>12. OwnersStay /\ (divided => divided') BY DEF Answer, OwnersStay
  <2>13. /\ local' \in UsedVisitors /\ cookie'.visitor \in UsedVisitors
         /\ tab'[t].visitor \in UsedVisitors
    BY <2>3, <2>4, TypeFacts
  <2> QED BY <1>2, <2>5, <2>9, <2>10, <2>11, <2>12, <2>13, TabStep DEF Does
<1> QED BY <1>3, <1>4

LEMMA StepDoes == ASSUME TypeOK, Fits, [Next]_vars PROVE Fits' /\ Does
<1>1. CASE UNCHANGED vars
  <2>1. \A f \in Events : event'[f] = event[f] BY <1>1 DEF vars
  <2> QED BY <1>1, <2>1, MoveDoes DEF vars, EventKeeps
<1>2. CASE Next
  BY <1>2, ClearDoes, ExpireDoes, ServeDoes, LoadDoes, ReadLocalDoes, ReadCookieDoes,
     SetLocalDoes, SetCookieDoes, StickySessionDoes, LeaveDoes, FlushDoes, TrackDoes,
     DrainDoes, AnswerDoes, RejectDoes
  DEF Next
<1> QED BY <1>1, <1>2

-------------------------------------------------------------------------------
(* The ids a tab was told, and those of a row, go together                  *)

Matches ==
    /\ \A t \in Tabs : tab[t].told =>
          tab[t].visitor # None /\ owner[tab[t].session] = tab[t].visitor
    /\ \A e \in Events : event[e].row # None =>
          event[e].visitor # None /\ owner[event[e].row] = event[e].visitor

LEMMA MatchesNext == ASSUME TypeOK, Fits, Matches, [Next]_vars PROVE Matches'
<1>1. Does BY StepDoes
<1>2. \A s \in SessionIds : owner[s] # None => owner'[s] = owner[s]
  BY <1>1 DEF Does, OwnersStay
<1>3. \A t \in Tabs : tab[t].told => tab[t].session \in SessionIds
  BY TypeFacts DEF Fits, TabFits, Session
<1>4. \A e \in Events : event[e].row # None =>
         event[e].row \in SessionIds /\ owner'[event[e].row] = event[e].visitor
  BY <1>2, TypeFacts DEF Matches, Session
<1>5. ASSUME NEW t \in Tabs, tab'[t].told
      PROVE  tab'[t].visitor # None /\ owner'[tab'[t].session] = tab'[t].visitor
  <2>1. TabMoves(t) BY <1>1 DEF Does
  <2>2. CASE /\ tab[t].told /\ tab'[t].session = tab[t].session
             /\ tab'[t].visitor = tab[t].visitor
    BY <1>2, <1>3, <2>2 DEF Matches
  <2>3. ASSUME NEW e \in Events, event[e].row # None, tab'[t].session = event[e].row,
               tab'[t].visitor = event[e].visitor
        PROVE  tab'[t].visitor # None /\ owner'[tab'[t].session] = tab'[t].visitor
    BY <1>4, <2>3 DEF Matches
  <2> QED BY <1>5, <2>1, <2>2, <2>3 DEF TabMoves
<1>6. ASSUME NEW e \in Events, event'[e].row # None
      PROVE  event'[e].visitor # None /\ owner'[event'[e].row] = event'[e].visitor
  <2>1. EventMoves(e) /\ EventFits(event'[e]) /\ EventFits(event[e])
    BY <1>1, StepDoes DEF Does, Fits
  <2>2. event'[e].visitor # None BY <1>6, <2>1 DEF EventFits
  <2>3. CASE event'[e].visitor = event[e].visitor /\ event'[e].row = event[e].row
    BY <1>4, <1>6, <2>2, <2>3
  <2>4. CASE event[e].pc = "new" /\ event'[e].row = event[e].row
    BY <1>6, <2>1, <2>4 DEF EventFits
  <2>5. CASE /\ event'[e].visitor = event[e].visitor
             /\ owner'[event'[e].row] = event[e].visitor
    BY <2>2, <2>5
  <2> QED BY <2>1, <2>3, <2>4, <2>5 DEF EventMoves
<1> QED BY <1>5, <1>6 DEF Matches

-------------------------------------------------------------------------------
(* Who looks for the visitor id alone                                       *)

Alone ==
    /\ \A t, u \in Tabs : t # u /\ Looking(t) /\ tab[t].alone => ~Looking(u)
    /\ \A t \in Tabs : tab[t].pc = "cookie" /\ tab[t].alone => local = None

LEMMA AloneStep ==
    ASSUME Alone,
           \A u \in Tabs : tab'[u].pc \in {"local", "cookie", "setLocal", "setCookie"} =>
              Looking(u) /\ (tab'[u].alone => tab[u].alone),
           \A u \in Tabs : tab'[u].pc = "cookie" /\ tab'[u].alone => local' = None
    PROVE  Alone'
  BY DEF Alone, Looking

LEMMA AloneNext == ASSUME TypeOK, Fits, Alone, [Next]_vars PROVE Alone'
<1>1. ASSUME tab' = tab, local' = local PROVE Alone' BY <1>1 DEF Alone, Looking
<1>2. CASE Clear
  <2>1. \A u \in Tabs : tab'[u] = IF Looking(u) THEN [tab[u] EXCEPT !.alone = FALSE] ELSE tab[u]
    BY <1>2 DEF Clear
  <2>2. \A u \in Tabs : /\ tab'[u].pc = tab[u].pc
                        /\ Looking(u) => tab'[u].alone = FALSE
    BY <2>1, TypeFacts DEF Tab
  <2> QED BY <2>2, AloneStep DEF Looking
<1>3. ASSUME NEW t \in Tabs, Load(t) PROVE Alone'
  <2>1. \A u \in Tabs : u # t =>
           /\ tab'[u].pc = tab[u].pc
           /\ Looking(u) => tab'[u].alone = FALSE
           /\ ~Looking(u) => tab'[u] = tab[u]
    BY <1>3, TypeFacts DEF Load, Joined, TypeOK, Tab
  <2>2. tab'[t].pc = "local" /\ (tab'[t].alone <=> \A w \in Tabs \ {t} : ~Looking(w))
    BY <1>3, TypeFacts DEF Load, Joined, TypeOK, Tab
  <2>3. local' = local BY <1>3 DEF Load
  <2> QED BY <2>1, <2>2, <2>3 DEF Alone, Looking
<1>4. ASSUME NEW t \in Tabs, ReadLocal(t) PROVE Alone'
  <2>1. tab[t].pc = "local" BY <1>4 DEF ReadLocal
  <2>2. /\ tab'[t].pc = "cookie" => local = None
        /\ tab'[t].alone = tab[t].alone
        /\ \A u \in Tabs : u # t => tab'[u] = tab[u]
        /\ local' = local
    BY <1>4 DEF ReadLocal, TypeOK, Tab
  <2> QED BY <2>1, <2>2, AloneStep DEF Looking, Alone
<1>5. ASSUME NEW t \in Tabs, ReadCookie(t) PROVE Alone'
  <2>1. tab[t].pc = "cookie" BY <1>5 DEF ReadCookie
  <2>2. PICK v : tab' = [tab EXCEPT ![t] = [tab[t] EXCEPT !.visitor = v, !.pc = "setLocal"]]
    BY <1>5 DEF ReadCookie
  <2>3. /\ tab'[t].pc = "setLocal" /\ tab'[t].alone = tab[t].alone
        /\ \A u \in Tabs : u # t => tab'[u] = tab[u]
        /\ local' = local
    BY <1>5, <2>2 DEF ReadCookie, TypeOK, Tab
  <2> QED BY <2>1, <2>3, AloneStep DEF Looking, Alone
<1>6. ASSUME NEW t \in Tabs, SetLocal(t) PROVE Alone'
  <2>1. tab[t].pc = "setLocal" BY <1>6 DEF SetLocal
  <2>2. /\ tab'[t].pc = "setCookie" /\ tab'[t].alone = tab[t].alone
        /\ \A u \in Tabs : u # t => tab'[u] = tab[u]
    BY <1>6 DEF SetLocal, TypeOK, Tab
  <2>3. \A u \in Tabs : u # t /\ tab[u].pc = "cookie" => ~tab[u].alone
    BY <2>1 DEF Alone, Looking
  <2> QED BY <2>1, <2>2, <2>3, AloneStep DEF Looking
<1>7. ASSUME NEW t \in Tabs, SetCookie(t) PROVE Alone'
  <2>1. /\ tab'[t].pc = "session" /\ \A u \in Tabs : u # t => tab'[u] = tab[u]
        /\ local' = local
    BY <1>7 DEF SetCookie, TypeOK, Tab
  <2> QED BY <2>1, AloneStep DEF Looking, Alone
<1>8. ASSUME NEW t \in Tabs, StickySession(t) PROVE Alone'
  <2>1. PICK s : tab' = [tab EXCEPT ![t] =
                   [tab[t] EXCEPT !.storage = s, !.session = s, !.pc = "open"]]
    BY <1>8 DEF StickySession
  <2>2. /\ tab'[t].pc = "open" /\ \A u \in Tabs : u # t => tab'[u] = tab[u]
        /\ local' = local
    BY <1>8, <2>1 DEF StickySession, TypeOK, Tab
  <2> QED BY <2>2, AloneStep DEF Looking, Alone
<1>9. ASSUME NEW t \in Tabs, Leave(t) PROVE Alone'
  <2>1. PICK s : tab' = [tab EXCEPT ![t] = [tab[t] EXCEPT !.pc = "closed", !.storage = s,
                           !.visitor = None, !.session = None, !.told = FALSE]]
    BY <1>9 DEF Leave
  <2>2. tab'[t].pc = "closed" BY <2>1, TypeFacts DEF TypeOK, Tab
  <2>3. \A u \in Tabs : u # t => tab'[u] = tab[u] BY <2>1 DEF TypeOK
  <2>4. local' = local BY <1>9 DEF Leave
  <2> QED BY <2>2, <2>3, <2>4, AloneStep DEF Looking, Alone
<1>10. ASSUME NEW t \in Tabs, NEW e \in Events, Answer(t, e) PROVE Alone'
  <2>1. CASE event[e].batch # {e} BY <1>1, <1>10, <2>1 DEF Answer
  <2>2. CASE event[e].batch = {e}
    <3>1. /\ tab[t].pc = "open"
          /\ tab' = [u \in Tabs |->
                IF u = t THEN Takes(t, e)
                ELSE IF Looking(u) /\ event[e].visitor # tab[t].visitor
                THEN [tab[u] EXCEPT !.alone = FALSE]
                ELSE tab[u]]
          /\ event[e].visitor = tab[t].visitor => local' = local
      BY <1>10, <2>2 DEF Answer
    <3>2. tab'[t].pc = "open"
      <4>1. tab'[t] = Takes(t, e) BY <3>1
      <4> QED BY <3>1, <4>1, TypeFacts DEF Takes, Tab
    <3>3. \A u \in Tabs : u # t =>
             /\ tab'[u].pc = tab[u].pc
             /\ \/ tab'[u] = tab[u] /\ (Looking(u) => event[e].visitor = tab[t].visitor)
                \/ tab'[u].alone = FALSE
      BY <3>1, TypeFacts DEF Tab
    <3> QED BY <3>1, <3>2, <3>3, AloneStep DEF Looking, Alone
  <2> QED BY <2>1, <2>2
<1> QED
  BY <1>1, <1>2, <1>3, <1>4, <1>5, <1>6, <1>7, <1>8, <1>9, <1>10
  DEF Next, vars, Expire, Serve, Flush, Track, Drain, Reject

-------------------------------------------------------------------------------
(* One browser is one visitor                                               *)

One ==
    ~divided =>
        /\ \A v, w \in UsedVisitors : v # None /\ w # None => v = w
        /\ local = None /\ cookie.visitor = None =>
              /\ \A e \in Events : event[e].visitor = None
              /\ \A t \in Tabs : tab[t].visitor # None => tab[t].pc = "setLocal"

LEMMA OneNext == ASSUME TypeOK, Fits, Alone, One, [Next]_vars PROVE One'
<1> SUFFICES ASSUME ~divided'
             PROVE  /\ \A v, w \in UsedVisitors' : v # None /\ w # None => v = w
                    /\ local' = None /\ cookie'.visitor = None =>
                          /\ \A e \in Events : event'[e].visitor = None
                          /\ \A t \in Tabs : tab'[t].visitor # None => tab'[t].pc = "setLocal"
  BY DEF One
<1>1. Does BY StepDoes
<1>2. ~divided BY <1>1 DEF Does
<1>3. \A v, w \in UsedVisitors' : v # None /\ w # None => v = w
  <2>1. CASE NoNew BY <1>2, <2>1 DEF One, NoNew
  <2>2. ASSUME NEW t \in Tabs, Mints(t)
        PROVE  \A v, w \in UsedVisitors' : v # None /\ w # None => v = w
    <3>1. tab[t].pc = "cookie" /\ tab[t].alone /\ cookie.visitor = None
      BY <2>2 DEF Mints
    <3>2. local = None /\ \A u \in Tabs : u # t => ~Looking(u)
      BY <3>1 DEF Alone, Looking
    <3>3. \A e \in Events : event[e].visitor = None BY <1>2, <3>1, <3>2 DEF One
    <3>4. \A u \in Tabs : u # t => tab[u].visitor = None
      BY <1>2, <3>1, <3>2 DEF One, Looking
    <3>5. UsedVisitors' \subseteq {None, tab'[t].visitor}
      BY <2>2, <3>1, <3>2, <3>3, <3>4 DEF UsedVisitors, Mints
    <3> QED BY <3>5
  <2> QED BY <1>1, <2>1, <2>2 DEF Does
<1>4. ASSUME local' = None, cookie'.visitor = None
      PROVE  /\ \A e \in Events : event'[e].visitor = None
             /\ \A t \in Tabs : tab'[t].visitor # None => tab'[t].pc = "setLocal"
  <2>1. Empties BY <1>1 DEF Does
  <2>2. local = None /\ cookie.visitor = None BY <1>4, <2>1 DEF Empties
  <2>3. /\ \A e \in Events : event[e].visitor = None
        /\ \A t \in Tabs : tab[t].visitor # None => tab[t].pc = "setLocal"
    BY <1>2, <2>2 DEF One
  <2>4. \A t \in Tabs : tab'[t].visitor # None => tab'[t].pc = "setLocal"
    BY <1>4, <2>1, <2>3 DEF Empties
  <2>5. \A t \in Tabs : tab[t].pc # "open" BY <2>3 DEF Fits, TabFits
  <2>6. \A e \in Events : event'[e].visitor = None
    BY <1>1, <2>3, <2>5 DEF Does, EventMoves
  <2> QED BY <2>4, <2>6
<1> QED BY <1>3, <1>4

-------------------------------------------------------------------------------
Inv == TypeOK /\ Fits /\ Matches /\ Alone /\ One

LEMMA InvInit == Init => Inv
<1> SUFFICES ASSUME Init PROVE Inv OBVIOUS
<1>1. \A t \in Tabs : tab[t] = [pc |-> "closed", storage |-> None, visitor |-> None,
                                session |-> None, alone |-> TRUE, told |-> FALSE]
  BY DEF Init
<1>2. \A e \in Events : event[e] = [pc |-> "new", tab |-> None, batch |-> {},
                                    visitor |-> None, session |-> None, row |-> None]
  BY DEF Init
<1>3. Fits BY <1>1, <1>2 DEF Fits, TabFits, EventFits
<1>4. Matches BY <1>1, <1>2 DEF Matches
<1>5. Alone BY <1>1 DEF Alone, Looking
<1>6. UsedVisitors \subseteq {None} BY <1>1, <1>2 DEF UsedVisitors, Init
<1>7. One BY <1>1, <1>2, <1>6 DEF One
<1> QED BY <1>3, <1>4, <1>5, <1>7, TypesInit DEF Inv

LEMMA InvHolds == Spec => []Inv
<1>1. Inv /\ [Next]_vars => Inv'
  BY TypesNext, StepDoes, MatchesNext, AloneNext, OneNext DEF Inv
<1> QED BY <1>1, InvInit, PTL DEF Spec

LEMMA IdTypesHold == Spec => []TypeOK
<1>1. Inv => TypeOK BY DEF Inv
<1> QED BY <1>1, InvHolds, PTL

\* However loads, losses of one copy, retries and answers interleave: as long as
\* no load makes up an id while another is at it, and the copies are never lost
\* together, all tabs, both copies and every event have the same visitor id.
THEOREM OneBrowserIsOneVisitor == Spec => []OneVisitor
<1>1. Inv => OneVisitor
  <2> SUFFICES ASSUME Inv, ~divided PROVE Cardinality(UsedVisitors \ {None}) <= 1
    BY DEF OneVisitor
  <2>1. \A v, w \in UsedVisitors \ {None} : v = w BY DEF Inv, One
  <2>2. CASE UsedVisitors \ {None} = {} BY <2>2, FS_EmptySet
  <2>3. ASSUME NEW v \in UsedVisitors \ {None}
        PROVE  Cardinality(UsedVisitors \ {None}) <= 1
    <3>1. UsedVisitors \ {None} = {v} BY <2>1
    <3>2. Cardinality({v}) = 1 BY FS_Singleton
    <3> QED BY <3>1, <3>2
  <2> QED BY <2>2, <2>3
<1> QED BY <1>1, InvHolds, PTL

\* In whatever order answers arrive, of other loads' events and other identities
\* even, the session a tab was told is its visitor's.
THEOREM ToldIdsGoTogether == Spec => []ToldIdsMatch
<1>1. Inv => ToldIdsMatch BY DEF Inv, Matches, ToldIdsMatch
<1> QED BY <1>1, InvHolds, PTL

-------------------------------------------------------------------------------
(* The queue                                                                *)

\* r has the elements of s but the one at i, and those of s and x.
Reduced(s, i, r) ==
    /\ \A j \in DOMAIN s : j # i => \E k \in DOMAIN r : r[k] = s[j]
    /\ \A k \in DOMAIN r : \E j \in DOMAIN s : r[k] = s[j]
Extended(s, x, r) ==
    /\ \A j \in DOMAIN s : \E k \in DOMAIN r : r[k] = s[j]
    /\ \E k \in DOMAIN r : r[k] = x
    /\ \A k \in DOMAIN r : r[k] = x \/ \E j \in DOMAIN s : r[k] = s[j]

LEMMA RemoveAtReduces ==
    ASSUME NEW S, NEW s \in Seq(S), NEW i \in DOMAIN s
    PROVE  Queue!RemoveAt(s, i) \in Seq(S) /\ Reduced(s, i, Queue!RemoveAt(s, i))
<1> DEFINE a == SubSeq(s, 1, i - 1)
           b == SubSeq(s, i + 1, Len(s))
<1>1. i \in 1..Len(s) /\ Len(s) \in Nat /\ DOMAIN s = 1..Len(s) /\ \A j \in 1..Len(s) : s[j] \in S
  BY LenProperties, ElementOfSeq
<1>2. /\ a \in Seq(S) /\ Len(a) = i - 1
      /\ \A j \in 1..(i - 1) : a[j] = s[j]
  <2>1. 1 \in Int /\ i - 1 \in Int /\ \A j \in 1..(i - 1) : s[j] \in S BY <1>1
  <2>2. /\ a \in Seq(S) /\ Len(a) = IF 1 <= i - 1 THEN i - 1 - 1 + 1 ELSE 0
        /\ \A j \in 1..(i - 1 - 1 + 1) : a[j] = s[1 + j - 1]
    BY <2>1, SubSeqProperties
  <2> HIDE DEF a
  <2> QED BY <1>1, <2>2
<1>3. /\ b \in Seq(S) /\ Len(b) = Len(s) - i
      /\ \A j \in 1..(Len(s) - i) : b[j] = s[i + j]
  <2>1. i + 1 \in Int /\ Len(s) \in Int /\ \A j \in (i + 1)..Len(s) : s[j] \in S BY <1>1
  <2>2. /\ b \in Seq(S) /\ Len(b) = IF i + 1 <= Len(s) THEN Len(s) - (i + 1) + 1 ELSE 0
        /\ \A j \in 1..(Len(s) - (i + 1) + 1) : b[j] = s[(i + 1) + j - 1]
    BY <2>1, SubSeqProperties
  <2> HIDE DEF b
  <2>3. Len(b) = Len(s) - i BY <1>1, <2>2
  <2>4. \A j \in 1..(Len(s) - i) : (i + 1) + j - 1 = i + j BY <1>1
  <2>5. Len(s) - (i + 1) + 1 = Len(s) - i BY <1>1
  <2>6. \A j \in 1..(Len(s) - i) : b[j] = s[(i + 1) + j - 1] BY <2>2, <2>5
  <2> QED BY <2>2, <2>3, <2>4, <2>6
<1> DEFINE r == a \o b
<1> HIDE DEF a, b
<1>4. /\ r \in Seq(S) /\ Len(r) = Len(s) - 1 /\ DOMAIN r = 1..(Len(s) - 1)
      /\ \A j \in 1..(Len(s) - 1) : r[j] = IF j <= i - 1 THEN a[j] ELSE b[j - (i - 1)]
  <2>1. /\ r \in Seq(S) /\ Len(r) = Len(a) + Len(b)
        /\ \A j \in 1..(Len(a) + Len(b)) : r[j] = IF j <= Len(a) THEN a[j] ELSE b[j - Len(a)]
    BY <1>2, <1>3, ConcatProperties
  <2>2. DOMAIN r = 1..Len(r) BY <2>1, LenProperties
  <2> HIDE DEF r
  <2> QED BY <2>1, <2>2, <1>1, <1>2, <1>3
<1>5. Queue!RemoveAt(s, i) = r BY DEF Queue!RemoveAt, a, b
<1> HIDE DEF r
<1>6. ASSUME NEW j \in DOMAIN s, j # i PROVE \E k \in DOMAIN r : r[k] = s[j]
  <2>1. CASE j < i
    <3>1. j \in DOMAIN r /\ r[j] = s[j] BY <2>1, <1>1, <1>2, <1>4, <1>6
    <3> QED BY <3>1
  <2>2. CASE j > i
    <3>1. j - 1 \in DOMAIN r /\ j - i \in 1..(Len(s) - i) /\ ~(j - 1 <= i - 1) BY <2>2, <1>1, <1>4, <1>6
    <3>2. r[j - 1] = b[(j - 1) - (i - 1)] /\ (j - 1) - (i - 1) = j - i BY <3>1, <1>1, <1>4, <1>6
    <3>3. b[j - i] = s[i + (j - i)] /\ i + (j - i) = j BY <3>1, <1>1, <1>3, <1>6
    <3> QED BY <3>1, <3>2, <3>3
  <2> QED BY <2>1, <2>2, <1>1, <1>6
<1>7. ASSUME NEW k \in DOMAIN r PROVE \E j \in DOMAIN s : r[k] = s[j]
  <2>1. CASE k <= i - 1 BY <2>1, <1>1, <1>2, <1>4, <1>7
  <2>2. CASE ~(k <= i - 1)
    <3>1. k + 1 \in DOMAIN s /\ k - (i - 1) \in 1..(Len(s) - i) BY <2>2, <1>1, <1>4, <1>7
    <3>2. r[k] = b[k - (i - 1)] BY <2>2, <1>4, <1>7
    <3>3. b[k - (i - 1)] = s[i + (k - (i - 1))] /\ i + (k - (i - 1)) = k + 1 BY <3>1, <1>3, <1>1, <1>4, <1>7
    <3> QED BY <3>1, <3>2, <3>3
  <2> QED BY <2>1, <2>2
<1>8. Reduced(s, i, r) BY <1>6, <1>7 DEF Reduced
<1> QED BY <1>4, <1>5, <1>8

LEMMA AppendExtends ==
    ASSUME NEW S, NEW s \in Seq(S), NEW x \in S
    PROVE  /\ Append(s, x) \in Seq(S) /\ Len(Append(s, x)) = Len(s) + 1
           /\ Extended(s, x, Append(s, x))
<1> DEFINE r == Append(s, x)
<1>1. /\ r \in Seq(S) /\ Len(r) = Len(s) + 1 /\ r[Len(s) + 1] = x
      /\ \A j \in 1..Len(s) : r[j] = s[j]
  BY AppendProperties
<1>2. DOMAIN r = 1..Len(r) /\ DOMAIN s = 1..Len(s) /\ Len(s) \in Nat
  BY <1>1, LenProperties
<1> HIDE DEF r
<1>3. \A j \in DOMAIN s : j \in DOMAIN r /\ r[j] = s[j] BY <1>1, <1>2
<1>4. Len(s) + 1 \in DOMAIN r BY <1>1, <1>2
<1>5. \A k \in DOMAIN r : k \in DOMAIN s \/ k = Len(s) + 1 BY <1>1, <1>2
<1>6. Extended(s, x, r) BY <1>1, <1>3, <1>4, <1>5 DEF Extended
<1> QED BY <1>1, <1>6 DEF r

\* SetToSeq of a finite set is a sequence of its elements.
LEMMA SetToSeqType ==
    ASSUME NEW S, IsFiniteSet(S) PROVE Queue!SetToSeq(S) \in Seq(S)
<1> DEFINE n == Cardinality(S)
<1>1. n \in Nat /\ ExistsBijection(1..n, S) BY FS_CardinalityType
<1>2. PICK f \in [1..n -> S] : Queue!IsInjective(f)
  BY <1>1 DEF ExistsBijection, Bijection, Injection, IsInjective, Queue!IsInjective
<1>3. Queue!Cardinality(S) = n BY DEF Queue!Cardinality, Cardinality
<1>4. Queue!SetToSeq(S) = CHOOSE g \in [1..n -> S] : Queue!IsInjective(g)
  BY <1>3 DEF Queue!SetToSeq
<1> HIDE DEF n
<1>5. Queue!SetToSeq(S) \in [1..n -> S] BY <1>2, <1>4
<1> QED BY <1>1, <1>5, SeqDef

-------------------------------------------------------------------------------
(* What the functions of the queue make of a load                           *)

BatchSize == BatchMaxSize \in Nat \ {0} /\ MaxAttempts \in Nat /\ MaxOutages \in Nat

FlyingFits(l) == \A i \in DOMAIN l.flying : Len(l.flying[i]) <= BatchMaxSize

\* A load within its limits, and one whose buffer is about to be flushed.
Fitting == {l \in Queue!Load : Len(l.buffer) < BatchMaxSize /\ FlyingFits(l)}
Filled  == {l \in Queue!Load : Len(l.buffer) <= BatchMaxSize /\ FlyingFits(l)}

Has(items, e) == \E i \in DOMAIN items : items[i].id = e

\* What l has in hand, and what it is about to put into the store.
Hands(l, e) ==
    \/ Has(l.buffer, e) \/ Has(l.retrying, e)
    \/ \E i \in DOMAIN l.flying : Has(l.flying[i], e)
Puts(l, e) == \E i \in DOMAIN l.opening : l.opening[i] = [op |-> "put", id |-> e]

\* Nothing of l is missing in n.
Keeps(l, n) ==
    /\ n.page = l.page
    /\ \A e \in Tracked : (Hands(l, e) => Hands(n, e)) /\ (Puts(l, e) => Puts(n, e))

\* n has in hand, or is about to put, every one of items.
Secures(n, items) ==
    \A e \in Tracked : Has(items, e) => Hands(n, e) \/ Puts(n, e)

\* Of an open page, n has or puts what l has in hand, but for what is done.
Accounts(l, n, done) ==
    l.page = "open" /\ n.page = "open" =>
        \A e \in Tracked : Hands(l, e) => Hands(n, e) \/ Puts(n, e) \/ e \in done

LEMMA Sizes == BatchSize BY SdkAssumption DEF BatchSize, Queue!QueueAssumption

LEMMA KeepsOn ==
    ASSUME NEW l, NEW m, NEW n, Keeps(l, m), Keeps(m, n) PROVE Keeps(l, n)
  BY DEF Keeps

LEMMA IdsTracked ==
    ASSUME NEW items \in Seq(Queue!Item) PROVE Queue!Ids(items) \subseteq Tracked
<1>1. \A i \in DOMAIN items : items[i] \in Queue!Item
  BY ElementOfSeq, LenProperties
<1> QED BY <1>1 DEF Queue!Ids, Queue!Item

LEMMA PutKeeps ==
    ASSUME NEW l \in Fitting, NEW e \in Tracked
    PROVE  LET n == [l EXCEPT !.opening = Append(@, [op |-> "put", id |-> e])]
           IN  n \in Fitting /\ Keeps(l, n) /\ Puts(n, e)
<1> DEFINE q == [op |-> "put", id |-> e]
           n == [l EXCEPT !.opening = Append(@, q)]
<1>1. l \in Queue!Load /\ l.opening \in Seq(Queue!Request) BY DEF Fitting, Queue!Load
<1>2. q \in Queue!Request BY DEF Queue!Request
<1> HIDE DEF q
<1>3. Append(l.opening, q) \in Seq(Queue!Request) BY <1>1, <1>2, AppendExtends
<1>4. n \in Queue!Load BY <1>1, <1>3 DEF Queue!Load
<1>5. /\ n.page = l.page /\ n.buffer = l.buffer /\ n.flying = l.flying
      /\ n.retrying = l.retrying /\ n.opening = Append(l.opening, q)
  BY <1>1 DEF Queue!Load
<1> HIDE DEF n
<1>6. n \in Fitting BY <1>4, <1>5 DEF Fitting, FlyingFits
<1>a. Extended(l.opening, q, n.opening) BY <1>1, <1>2, <1>5, AppendExtends
<1>7. \A f \in Tracked : Puts(l, f) => Puts(n, f)
  <2> SUFFICES ASSUME NEW f \in Tracked, NEW j \in DOMAIN l.opening,
                      l.opening[j] = [op |-> "put", id |-> f]
               PROVE  \E k \in DOMAIN n.opening : n.opening[k] = [op |-> "put", id |-> f]
    BY DEF Puts
  <2> QED BY <1>a DEF Extended
<1>8. Keeps(l, n) BY <1>5, <1>7 DEF Keeps, Hands
<1>9. Puts(n, e) BY <1>a DEF Puts, q, Extended
<1> QED BY <1>6, <1>8, <1>9 DEF n, q

LEMMA MaybeFlushKeeps ==
    ASSUME NEW l \in Filled
    PROVE  Queue!MaybeFlush(l) \in Fitting /\ Keeps(l, Queue!MaybeFlush(l))
<1>0. BatchSize BY Sizes
<1>1. /\ l \in Queue!Load /\ l.buffer \in Seq(Queue!Item) /\ l.flying \in Seq(Seq(Queue!Item))
      /\ l.sentIds \in SUBSET Tracked
  BY DEF Filled, Queue!Load
<1>2. CASE Queue!ShouldFlush(l)
  <2> DEFINE n == Queue!Flushed(l)
  <2>1. Append(l.flying, l.buffer) \in Seq(Seq(Queue!Item)) BY <1>1, AppendExtends
  <2>2. Queue!Ids(l.buffer) \subseteq Tracked BY <1>1, IdsTracked
  <2>3. n \in Queue!Load
    <3>1. <<>> \in Seq(Queue!Item) BY EmptySeq
    <3>2. l.sentIds \cup Queue!Ids(l.buffer) \in SUBSET Tracked BY <1>1, <2>2
    <3> QED BY <1>1, <2>1, <3>1, <3>2 DEF Queue!Load, Queue!Flushed
  <2>4. /\ n.page = l.page /\ n.buffer = <<>> /\ n.flying = Append(l.flying, l.buffer)
        /\ n.retrying = l.retrying /\ n.opening = l.opening
    BY <1>1 DEF Queue!Load, Queue!Flushed
  <2> HIDE DEF n
  <2>a. Extended(l.flying, l.buffer, n.flying) BY <1>1, <2>4, AppendExtends
  <2>5. FlyingFits(n)
    <3> SUFFICES ASSUME NEW i \in DOMAIN n.flying PROVE Len(n.flying[i]) <= BatchMaxSize
      BY DEF FlyingFits
    <3>1. n.flying[i] = l.buffer \/ \E j \in DOMAIN l.flying : n.flying[i] = l.flying[j]
      BY <2>a DEF Extended
    <3> QED BY <3>1 DEF Filled, FlyingFits
  <2>6. Len(n.buffer) < BatchMaxSize
    <3>1. Len(n.buffer) = 0 BY <2>4, EmptySeq
    <3> QED BY <1>0, <3>1 DEF BatchSize
  <2>7. n \in Fitting BY <2>3, <2>5, <2>6 DEF Fitting
  <2>8. ASSUME NEW e \in Tracked, Hands(l, e) PROVE Hands(n, e)
    <3>1. CASE Has(l.buffer, e) BY <2>a, <3>1 DEF Hands, Extended
    <3>2. CASE Has(l.retrying, e) BY <2>4, <3>2 DEF Hands
    <3>3. CASE \E i \in DOMAIN l.flying : Has(l.flying[i], e) BY <2>a, <3>3 DEF Hands, Extended
    <3> QED BY <2>8, <3>1, <3>2, <3>3 DEF Hands
  <2>9. Keeps(l, n) BY <2>4, <2>8 DEF Keeps, Puts
  <2> QED BY <1>2, <2>7, <2>9 DEF Queue!MaybeFlush, n
<1>3. CASE ~Queue!ShouldFlush(l)
  <2> DEFINE n == [l EXCEPT !.timer = TRUE]
  <2>1. n \in Queue!Load BY <1>1 DEF Queue!Load
  <2>2. /\ n.page = l.page /\ n.buffer = l.buffer /\ n.flying = l.flying
        /\ n.retrying = l.retrying /\ n.opening = l.opening
    BY <1>1 DEF Queue!Load
  <2>3. Queue!MaybeFlush(l) = n BY <1>3 DEF Queue!MaybeFlush
  <2> HIDE DEF n
  <2>4. Len(l.buffer) \in Nat /\ ~(Len(l.buffer) >= BatchMaxSize)
    BY <1>1, <1>3, LenProperties DEF Queue!ShouldFlush
  <2>5. n \in Fitting BY <1>0, <2>1, <2>2, <2>4 DEF Filled, Fitting, FlyingFits, BatchSize
  <2> QED BY <2>2, <2>3, <2>5 DEF Keeps, Hands, Puts
<1> QED BY <1>2, <1>3

\* An item that is not marked as sent ends up in hand or on its way to the store.
LEMMA EnqueuedKeeps ==
    ASSUME NEW l \in Fitting, NEW item \in Queue!Item
    PROVE  LET n == Queue!Enqueued(l, item)
           IN  /\ n \in Fitting /\ Keeps(l, n)
               /\ item.id \notin l.sentIds => Hands(n, item.id) \/ Puts(n, item.id)
<1> DEFINE n == Queue!Enqueued(l, item)
<1>0. BatchSize BY Sizes
<1>1. item.id \in Tracked BY DEF Queue!Item
<1>2. CASE item.id \in l.sentIds
  <2>1. n = l BY <1>2 DEF Queue!Enqueued
  <2> QED BY <1>2, <2>1 DEF Keeps
<1>3. CASE item.id \notin l.sentIds /\ ~online
  <2>1. n = [l EXCEPT !.opening = Append(@, [op |-> "put", id |-> item.id])]
    BY <1>3 DEF Queue!Enqueued
  <2> HIDE DEF n
  <2>2. n \in Fitting /\ Keeps(l, n) /\ Puts(n, item.id) BY <1>1, <2>1, PutKeeps
  <2> QED BY <2>2 DEF n
<1>4. CASE item.id \notin l.sentIds /\ online
  <2> DEFINE m == [l EXCEPT !.buffer = Append(@, item)]
  <2>1. n = Queue!MaybeFlush(m) BY <1>4 DEF Queue!Enqueued
  <2>2. /\ l \in Queue!Load /\ l.buffer \in Seq(Queue!Item) /\ Len(l.buffer) \in Nat
        /\ Len(l.buffer) < BatchMaxSize /\ FlyingFits(l)
    BY LenProperties DEF Fitting, Queue!Load
  <2>3. /\ Append(l.buffer, item) \in Seq(Queue!Item)
        /\ Len(Append(l.buffer, item)) = Len(l.buffer) + 1
        /\ Extended(l.buffer, item, Append(l.buffer, item))
    BY <2>2, AppendExtends
  <2>4. m \in Queue!Load BY <2>2, <2>3 DEF Queue!Load
  <2>5. /\ m.page = l.page /\ m.buffer = Append(l.buffer, item) /\ m.flying = l.flying
        /\ m.retrying = l.retrying /\ m.opening = l.opening
    BY <2>2 DEF Queue!Load
  <2> HIDE DEF n, m
  <2>6. Len(m.buffer) <= BatchMaxSize BY <1>0, <2>2, <2>3, <2>5 DEF BatchSize
  <2>7. m \in Filled BY <2>2, <2>4, <2>5, <2>6 DEF Filled, FlyingFits
  <2>8. n \in Fitting /\ Keeps(m, n) BY <2>1, <2>7, MaybeFlushKeeps
  <2>9. \A e \in Tracked : Has(l.buffer, e) => Has(m.buffer, e)
    BY <2>3, <2>5 DEF Has, Extended
  <2>10. Keeps(l, m) BY <2>5, <2>9 DEF Keeps, Hands, Puts
  <2>11. Hands(m, item.id) BY <2>3, <2>5 DEF Hands, Has, Extended
  <2>12. Hands(n, item.id) BY <1>1, <2>8, <2>11 DEF Keeps
  <2>13. Keeps(l, n) BY <2>8, <2>10, KeepsOn
  <2> QED BY <2>8, <2>12, <2>13 DEF n
<1> QED BY <1>2, <1>3, <1>4

\* An item whose request failed waits for its next attempt, or is put.
LEMMA RetriedKeeps ==
    ASSUME NEW l \in Fitting, NEW item \in Queue!Item
    PROVE  LET n == Queue!Retried(l, item)
           IN  n \in Fitting /\ Keeps(l, n) /\ (Hands(n, item.id) \/ Puts(n, item.id))
<1> DEFINE n == Queue!Retried(l, item)
<1>0. BatchSize BY Sizes
<1>1. item.id \in Tracked /\ item.attempt \in 0..MaxAttempts BY DEF Queue!Item
<1>2. CASE item.attempt + 1 > MaxAttempts
  <2>1. n = [l EXCEPT !.opening = Append(@, [op |-> "put", id |-> item.id])]
    BY <1>2 DEF Queue!Retried
  <2> HIDE DEF n
  <2>2. n \in Fitting /\ Keeps(l, n) /\ Puts(n, item.id) BY <1>1, <2>1, PutKeeps
  <2> QED BY <2>2 DEF n
<1>3. CASE ~(item.attempt + 1 > MaxAttempts)
  <2> DEFINE x == [item EXCEPT !.attempt = @ + 1]
  <2>1. n = [l EXCEPT !.retrying = Append(@, x)] BY <1>3 DEF Queue!Retried
  <2>2. x \in Queue!Item /\ x.id = item.id
    <3>1. item.attempt + 1 \in 0..MaxAttempts BY <1>0, <1>1, <1>3 DEF BatchSize
    <3> QED BY <3>1 DEF Queue!Item
  <2> HIDE DEF x
  <2>3. l \in Queue!Load /\ l.retrying \in Seq(Queue!Item) BY DEF Fitting, Queue!Load
  <2>4. /\ Append(l.retrying, x) \in Seq(Queue!Item)
        /\ Extended(l.retrying, x, Append(l.retrying, x))
    BY <2>2, <2>3, AppendExtends
  <2> HIDE DEF n
  <2>5. n \in Queue!Load BY <2>1, <2>3, <2>4 DEF Queue!Load
  <2>6. /\ n.page = l.page /\ n.buffer = l.buffer /\ n.flying = l.flying
        /\ n.retrying = Append(l.retrying, x) /\ n.opening = l.opening
    BY <2>1, <2>3 DEF Queue!Load
  <2>7. n \in Fitting BY <2>5, <2>6 DEF Fitting, FlyingFits
  <2>8. \A e \in Tracked : Has(l.retrying, e) => Has(n.retrying, e)
    BY <2>4, <2>6 DEF Has, Extended
  <2>9. Keeps(l, n) BY <2>6, <2>8 DEF Keeps, Hands, Puts
  <2>10. Hands(n, item.id) BY <2>2, <2>4, <2>6 DEF Hands, Has, Extended
  <2> QED BY <2>7, <2>9, <2>10 DEF n
<1> QED BY <1>2, <1>3

\* A whole batch is.
LEMMA RetriedAllKeeps ==
    ASSUME NEW l \in Fitting, NEW items \in Seq(Queue!Item)
    PROVE  LET n == Queue!RetriedAll(l, items)
           IN  n \in Fitting /\ Keeps(l, n) /\ Secures(n, items)
<1> DEFINE N == Len(items)
           step == [i \in 1..N |-> [m \in Fitting |-> Queue!Retried(m, items[i])]]
           after[i \in 0..N] == IF i = 0 THEN l ELSE Queue!Retried(after[i - 1], items[i])
<1>1. N \in Nat /\ \A i \in 1..N : items[i] \in Queue!Item BY LenProperties, ElementOfSeq
<1>2. Queue!RetriedAll(l, items) = after[N] BY DEF Queue!RetriedAll
<1>3. step \in [1..N -> [Fitting -> Fitting]]
  <2>1. \A i \in 1..N : \A m \in Fitting : Queue!Retried(m, items[i]) \in Fitting
    BY <1>1, RetriedKeeps
  <2> QED BY <2>1
<1>4. PICK f \in [0..N -> Fitting] : f[0] = l /\ \A i \in 1..N : f[i] = step[i][f[i - 1]]
  <2> HIDE DEF step, N
  <2>1. \E f : Walk(Fitting, N, l, step, f) BY <1>1, <1>3, RecursionExists
  <2> QED BY <2>1 DEF Walk
<1>5. f = [i \in 0..N |-> IF i = 0 THEN l ELSE Queue!Retried(f[i - 1], items[i])]
  <2>1. \A i \in 1..N : f[i - 1] \in Fitting BY <1>1
  <2>2. \A i \in 1..N : f[i] = Queue!Retried(f[i - 1], items[i]) BY <1>4, <2>1
  <2>3. \A i \in 0..N : f[i] = IF i = 0 THEN l ELSE Queue!Retried(f[i - 1], items[i])
    BY <1>1, <1>4, <2>2
  <2>4. f = [i \in 0..N |-> f[i]] OBVIOUS
  <2> QED BY <2>3, <2>4
<1>6. after = CHOOSE g : g = [i \in 0..N |-> IF i = 0 THEN l ELSE Queue!Retried(g[i - 1], items[i])]
  OBVIOUS
<1> HIDE DEF after
<1>7. after = [i \in 0..N |-> IF i = 0 THEN l ELSE Queue!Retried(after[i - 1], items[i])]
  BY <1>5, <1>6
<1>8. after[0] = l /\ \A i \in 1..N : after[i] = Queue!Retried(after[i - 1], items[i])
  BY <1>1, <1>7
<1> DEFINE Sound(i) ==
        /\ after[i] \in Fitting /\ Keeps(l, after[i])
        /\ \A j \in 1..i : Hands(after[i], items[j].id) \/ Puts(after[i], items[j].id)
           T == {i \in 0..N : Sound(i)}
<1>9. 0 \in T
  <2>1. Sound(0) BY <1>8 DEF Keeps
  <2> QED BY <1>1, <2>1
<1>10. ASSUME NEW i \in 1..N, i - 1 \in T PROVE i \in T
  <2>1. Sound(i - 1) BY <1>10
  <2>2. /\ after[i] \in Fitting /\ Keeps(after[i - 1], after[i])
        /\ Hands(after[i], items[i].id) \/ Puts(after[i], items[i].id)
    BY <1>1, <1>8, <2>1, RetriedKeeps
  <2>3. Keeps(l, after[i]) BY <2>1, <2>2, KeepsOn
  <2>4. ASSUME NEW j \in 1..i
        PROVE  Hands(after[i], items[j].id) \/ Puts(after[i], items[j].id)
    <3>1. CASE j = i BY <2>2, <3>1
    <3>2. CASE j # i
      <4>1. j \in 1..(i - 1) /\ j \in 1..N BY <3>2
      <4>2. items[j].id \in Tracked BY <1>1, <4>1 DEF Queue!Item
      <4>3. Hands(after[i - 1], items[j].id) \/ Puts(after[i - 1], items[j].id)
        BY <2>1, <4>1
      <4> QED BY <2>2, <4>2, <4>3 DEF Keeps
    <3> QED BY <3>1, <3>2
  <2>5. Sound(i) BY <2>2, <2>3, <2>4
  <2> HIDE DEF Sound
  <2> QED BY <2>5
<1>11. Sound(N)
  <2>1. N \in T
    <3> HIDE DEF T, N
    <3>1. \A i \in 0..N : i \in T BY <1>1, <1>9, <1>10, SetInduction
    <3> QED BY <1>1, <3>1
  <2> HIDE DEF Sound
  <2> QED BY <2>1
<1>12. ASSUME NEW e \in Tracked, Has(items, e) PROVE Hands(after[N], e) \/ Puts(after[N], e)
  <2>1. PICK i \in DOMAIN items : items[i].id = e BY <1>12 DEF Has
  <2>2. i \in 1..N BY <1>1, LenProperties
  <2> QED BY <1>11, <2>1, <2>2
<1>13. Secures(after[N], items) BY <1>12 DEF Secures
<1> QED BY <1>2, <1>11, <1>13

\* A drain may only add.
LEMMA EnqueuedAllKeeps ==
    ASSUME NEW l \in Fitting, NEW ids \in Seq(Tracked)
    PROVE  Queue!EnqueuedAll(l, ids) \in Fitting /\ Keeps(l, Queue!EnqueuedAll(l, ids))
<1> DEFINE N == Len(ids)
           item(i) == [id |-> ids[i], attempt |-> 0]
           step == [i \in 1..N |-> [m \in Fitting |-> Queue!Enqueued(m, item(i))]]
           after[i \in 0..N] == IF i = 0 THEN l ELSE Queue!Enqueued(after[i - 1], item(i))
<1>1. N \in Nat /\ \A i \in 1..N : item(i) \in Queue!Item
  <2>1. N \in Nat /\ \A i \in 1..N : ids[i] \in Tracked BY LenProperties, ElementOfSeq
  <2>2. 0 \in 0..MaxAttempts BY Sizes DEF BatchSize
  <2> QED BY <2>1, <2>2 DEF Queue!Item
<1>2. Queue!EnqueuedAll(l, ids) = after[N] BY DEF Queue!EnqueuedAll
<1> HIDE DEF item
<1>3. step \in [1..N -> [Fitting -> Fitting]]
  <2>1. \A i \in 1..N : \A m \in Fitting : Queue!Enqueued(m, item(i)) \in Fitting
    BY <1>1, EnqueuedKeeps
  <2> QED BY <2>1
<1>4. PICK f \in [0..N -> Fitting] : f[0] = l /\ \A i \in 1..N : f[i] = step[i][f[i - 1]]
  <2> HIDE DEF step, N
  <2>1. \E f : Walk(Fitting, N, l, step, f) BY <1>1, <1>3, RecursionExists
  <2> QED BY <2>1 DEF Walk
<1>5. f = [i \in 0..N |-> IF i = 0 THEN l ELSE Queue!Enqueued(f[i - 1], item(i))]
  <2>1. \A i \in 1..N : f[i - 1] \in Fitting BY <1>1
  <2>2. \A i \in 1..N : f[i] = Queue!Enqueued(f[i - 1], item(i)) BY <1>4, <2>1
  <2>3. \A i \in 0..N : f[i] = IF i = 0 THEN l ELSE Queue!Enqueued(f[i - 1], item(i))
    BY <1>1, <1>4, <2>2
  <2>4. f = [i \in 0..N |-> f[i]] OBVIOUS
  <2> QED BY <2>3, <2>4
<1>6. after = CHOOSE g : g = [i \in 0..N |-> IF i = 0 THEN l ELSE Queue!Enqueued(g[i - 1], item(i))]
  OBVIOUS
<1> HIDE DEF after
<1>7. after = [i \in 0..N |-> IF i = 0 THEN l ELSE Queue!Enqueued(after[i - 1], item(i))]
  BY <1>5, <1>6
<1>8. after[0] = l /\ \A i \in 1..N : after[i] = Queue!Enqueued(after[i - 1], item(i))
  BY <1>1, <1>7
<1> DEFINE Sound(i) == after[i] \in Fitting /\ Keeps(l, after[i])
           T == {i \in 0..N : Sound(i)}
<1>9. 0 \in T
  <2>1. Sound(0) BY <1>8 DEF Keeps
  <2> QED BY <1>1, <2>1
<1>10. ASSUME NEW i \in 1..N, i - 1 \in T PROVE i \in T
  <2>1. Sound(i - 1) BY <1>10
  <2>2. after[i] \in Fitting /\ Keeps(after[i - 1], after[i])
    BY <1>1, <1>8, <2>1, EnqueuedKeeps
  <2>3. Sound(i) BY <2>1, <2>2, KeepsOn
  <2> HIDE DEF Sound
  <2> QED BY <2>3
<1>11. Sound(N)
  <2>1. N \in T
    <3> HIDE DEF T, N
    <3>1. \A i \in 0..N : i \in T BY <1>1, <1>9, <1>10, SetInduction
    <3> QED BY <1>1, <3>1
  <2> HIDE DEF Sound
  <2> QED BY <2>1
<1> QED BY <1>2, <1>11

\* A transaction, and what is left of them when some are aborted.
Transaction == [load : Tabs, do : Queue!Request]

LEMMA WithoutType ==
    ASSUME requests \in Seq(Transaction), NEW t, NEW ops
    PROVE  Queue!Without(t, ops) \in Seq(Transaction)
<1> DEFINE N == Len(requests)
           S == Seq(Transaction)
           drops(i) == requests[i].load = t /\ requests[i].do.op \in ops
           goes(i, m) == IF drops(i) THEN m ELSE Append(m, requests[i])
           step == [i \in 1..N |-> [m \in S |-> goes(i, m)]]
           rest[i \in 0..N] == IF i = 0 THEN <<>> ELSE goes(i, rest[i - 1])
<1>1. N \in Nat /\ \A i \in 1..N : requests[i] \in Transaction BY LenProperties, ElementOfSeq
<1>2. Queue!Without(t, ops) = rest[N]
  <2>1. Queue!Without(t, ops) =
          (CHOOSE g : g = [i \in 0..N |->
             IF i = 0 THEN <<>>
             ELSE IF requests[i].load = t /\ requests[i].do.op \in ops THEN g[i - 1]
             ELSE Append(g[i - 1], requests[i])])[N]
    BY DEF Queue!Without
  <2> QED BY <2>1
<1>3. <<>> \in S BY EmptySeq
<1>4. step \in [1..N -> [S -> S]]
  <2>1. \A i \in 1..N : \A m \in S : goes(i, m) \in S BY <1>1, AppendExtends
  <2> HIDE DEF S, goes
  <2> QED BY <2>1
<1> HIDE DEF goes
<1>5. PICK f \in [0..N -> S] : f[0] = <<>> /\ \A i \in 1..N : f[i] = step[i][f[i - 1]]
  <2> HIDE DEF step, N, S
  <2>1. \E f : Walk(S, N, <<>>, step, f) BY <1>1, <1>3, <1>4, RecursionExists
  <2> QED BY <2>1 DEF Walk
<1>6. f = [i \in 0..N |-> IF i = 0 THEN <<>> ELSE goes(i, f[i - 1])]
  <2> HIDE DEF S
  <2>1. \A i \in 1..N : f[i - 1] \in S BY <1>1
  <2>2. \A i \in 1..N : f[i] = goes(i, f[i - 1]) BY <1>5, <2>1
  <2>3. \A i \in 0..N : f[i] = IF i = 0 THEN <<>> ELSE goes(i, f[i - 1]) BY <1>1, <1>5, <2>2
  <2>4. f = [i \in 0..N |-> f[i]] OBVIOUS
  <2> QED BY <2>3, <2>4
<1>7. rest = CHOOSE g : g = [i \in 0..N |-> IF i = 0 THEN <<>> ELSE goes(i, g[i - 1])]
  OBVIOUS
<1> HIDE DEF rest
<1>8. rest = [i \in 0..N |-> IF i = 0 THEN <<>> ELSE goes(i, rest[i - 1])] BY <1>6, <1>7
<1>9. rest[0] = <<>> /\ \A i \in 1..N : rest[i] = goes(i, rest[i - 1]) BY <1>1, <1>8
<1> DEFINE T == {i \in 0..N : rest[i] \in S}
<1>10. 0 \in T
  <2> HIDE DEF S
  <2>1. rest[0] \in S BY <1>3, <1>9
  <2> QED BY <1>1, <2>1
<1>11. ASSUME NEW i \in 1..N, i - 1 \in T PROVE i \in T
  <2>1. rest[i - 1] \in S BY <1>11
  <2>2. goes(i, rest[i - 1]) \in S BY <1>1, <2>1, AppendExtends DEF goes
  <2> QED BY <1>9, <2>2
<1>12. N \in T
  <2> HIDE DEF T, N
  <2>1. \A i \in 0..N : i \in T BY <1>1, <1>10, <1>11, SetInduction
  <2> QED BY <1>1, <2>1
<1> QED BY <1>2, <1>12

-------------------------------------------------------------------------------
(* The steps of the queue                                                   *)

QueueInv == Queue!TypeOK /\ IsFiniteSet(store) /\ load \in [Tabs -> Fitting]

\* Every load stays within its limits, and accounts for what it had in hand.
Moves ==
    /\ load' \in [Tabs -> Fitting]
    /\ \A u \in Tabs : Accounts(load[u], load'[u], sent')

LEMMA FittingTypes ==
    ASSUME NEW l \in Fitting
    PROVE  /\ l \in Queue!Load /\ l.page \in {"new", "open", "gone"}
           /\ l.buffer \in Seq(Queue!Item) /\ l.flying \in Seq(Seq(Queue!Item))
           /\ l.retrying \in Seq(Queue!Item) /\ l.opening \in Seq(Queue!Request)
           /\ l.sentIds \in SUBSET Tracked
  BY DEF Fitting, Queue!Load

LEMMA FitsAsWell ==
    ASSUME NEW l \in Fitting, NEW n \in Queue!Load, n.buffer = l.buffer, n.flying = l.flying
    PROVE  n \in Fitting
  BY DEF Fitting, FlyingFits

LEMMA KeepsAccounts ==
    ASSUME NEW l, NEW n, NEW done, Keeps(l, n) PROVE Accounts(l, n, done)
  BY DEF Keeps, Accounts

LEMMA NoneMoves ==
    ASSUME QueueInv, load' = load PROVE Moves
  BY DEF QueueInv, Moves, Accounts

LEMMA OneMoves ==
    ASSUME QueueInv, NEW t \in Tabs, NEW n \in Fitting,
           load' = [load EXCEPT ![t] = n], Accounts(load[t], n, sent')
    PROVE  Moves
<1>1. load \in [Tabs -> Fitting] BY DEF QueueInv
<1>2. load' \in [Tabs -> Fitting] BY <1>1
<1>3. ASSUME NEW u \in Tabs PROVE Accounts(load[u], load'[u], sent')
  <2>1. CASE u = t BY <1>1, <2>1
  <2>2. CASE u # t
    <3>1. load'[u] = load[u] BY <1>1, <2>2
    <3> QED BY <3>1 DEF Accounts
  <2> QED BY <2>1, <2>2
<1> QED BY <1>2, <1>3 DEF Moves

LEMMA BecomesMoves ==
    ASSUME QueueInv, NEW t \in Tabs, NEW n \in Fitting,
           Queue!Becomes(t, n), Accounts(load[t], n, sent')
    PROVE  Moves /\ dedup' \subseteq Tracked
<1>1. Moves BY OneMoves DEF Queue!Becomes
<1>2. n.sentIds \subseteq Tracked /\ dedup \subseteq Tracked
  BY FittingTypes DEF QueueInv, Queue!TypeOK
<1> QED BY <1>1, <1>2 DEF Queue!Becomes

\* An answered fetch leaves the other batches in flight.
LEMMA LandedLoses ==
    ASSUME NEW l \in Fitting, NEW i \in DOMAIN l.flying
    PROVE  LET n == Queue!Landed(l, i)
           IN  /\ n \in Fitting /\ n.page = l.page
               /\ l.flying[i] \in Seq(Queue!Item) /\ n.opening = l.opening
               /\ \A e \in Tracked : Hands(l, e) => Hands(n, e) \/ Has(l.flying[i], e)
<1> DEFINE r == Queue!RemoveAt(l.flying, i)
           n == Queue!Landed(l, i)
<1>1. /\ l \in Queue!Load /\ l.flying \in Seq(Seq(Queue!Item)) BY FittingTypes
<1>2. r \in Seq(Seq(Queue!Item)) /\ Reduced(l.flying, i, r) BY <1>1, RemoveAtReduces
<1>3. l.flying[i] \in Seq(Queue!Item) BY <1>1, ElementOfSeq, LenProperties
<1> HIDE DEF r
<1>4. n = [l EXCEPT !.flying = r] BY DEF r, Queue!Landed
<1> HIDE DEF n
<1>5. n \in Queue!Load BY <1>1, <1>2, <1>4 DEF Queue!Load
<1>6. /\ n.page = l.page /\ n.buffer = l.buffer /\ n.flying = r
      /\ n.retrying = l.retrying /\ n.opening = l.opening
  BY <1>1, <1>4 DEF Queue!Load
<1>7. FlyingFits(n) BY <1>2, <1>6 DEF FlyingFits, Reduced, Fitting
<1>8. n \in Fitting BY <1>5, <1>6, <1>7 DEF Fitting
<1>9. ASSUME NEW e \in Tracked, Hands(l, e), ~Has(l.flying[i], e) PROVE Hands(n, e)
  <2>1. CASE \E j \in DOMAIN l.flying : Has(l.flying[j], e)
    BY <1>2, <1>6, <1>9, <2>1 DEF Hands, Reduced
  <2> QED BY <1>6, <1>9, <2>1 DEF Hands
<1> QED BY <1>3, <1>6, <1>8, <1>9 DEF n

\* So does a backoff that elapses leave the others.
LEMMA WaitedLoses ==
    ASSUME NEW l \in Fitting, NEW i \in DOMAIN l.retrying
    PROVE  LET m == [l EXCEPT !.retrying = Queue!RemoveAt(@, i)]
               n == Queue!Unmarked(m, l.retrying[i].id)
           IN  /\ n \in Fitting /\ n.page = l.page /\ l.retrying[i] \in Queue!Item
               /\ l.retrying[i].id \notin n.sentIds
               /\ \A e \in Tracked : Hands(l, e) => Hands(n, e) \/ e = l.retrying[i].id
<1> DEFINE r == Queue!RemoveAt(l.retrying, i)
           m == [l EXCEPT !.retrying = Queue!RemoveAt(@, i)]
           id == l.retrying[i].id
           n == Queue!Unmarked(m, id)
<1>1. l \in Queue!Load /\ l.retrying \in Seq(Queue!Item) BY FittingTypes
<1>2. r \in Seq(Queue!Item) /\ Reduced(l.retrying, i, r) BY <1>1, RemoveAtReduces
<1>3. l.retrying[i] \in Queue!Item BY <1>1, ElementOfSeq, LenProperties
<1> HIDE DEF r
<1>4. n = [l EXCEPT !.retrying = r, !.sentIds = @ \ {id}]
  BY <1>1 DEF Queue!Unmarked, Queue!Load, r
<1> HIDE DEF n, m, id
<1>5. n \in Queue!Load BY <1>1, <1>2, <1>4 DEF Queue!Load
<1>6. /\ n.page = l.page /\ n.buffer = l.buffer /\ n.flying = l.flying
      /\ n.retrying = r /\ n.opening = l.opening /\ id \notin n.sentIds
  BY <1>1, <1>4 DEF Queue!Load
<1>7. n \in Fitting BY <1>5, <1>6, FitsAsWell
<1>8. ASSUME NEW e \in Tracked, Hands(l, e), e # id PROVE Hands(n, e)
  <2>1. CASE Has(l.retrying, e) BY <1>2, <1>6, <1>8, <2>1 DEF Hands, Has, Reduced, id
  <2> QED BY <1>6, <1>8, <2>1 DEF Hands
<1> QED BY <1>3, <1>6, <1>7, <1>8 DEF n, m, id

\* What is left to show of a step when the loads are accounted for.
Rest ==
    /\ online' \in BOOLEAN /\ outages' \in 0..MaxOutages
    /\ untracked' \subseteq Tracked /\ dedup' \subseteq Tracked
    /\ store' \subseteq Tracked /\ IsFiniteSet(store')
    /\ requests' \in Seq(Transaction)
    /\ sent' \subseteq Tracked /\ refused' \subseteq Tracked

LEMMA InvTypes ==
    ASSUME QueueInv
    PROVE  /\ online \in BOOLEAN /\ outages \in 0..MaxOutages
           /\ untracked \subseteq Tracked /\ dedup \subseteq Tracked
           /\ store \subseteq Tracked /\ IsFiniteSet(store)
           /\ requests \in Seq(Transaction)
           /\ sent \subseteq Tracked /\ refused \subseteq Tracked
           /\ \A t \in Tabs : load[t] \in Fitting
  BY DEF QueueInv, Queue!TypeOK, Transaction

LEMMA MovesPreserve == Moves /\ Rest => QueueInv'
<1> SUFFICES ASSUME Moves, Rest PROVE QueueInv' OBVIOUS
<1>1. load' \in [Tabs -> Fitting] BY DEF Moves
<1>2. load' \in [Tabs -> Queue!Load] BY <1>1 DEF Fitting
<1>3. Queue!TypeOK' BY <1>2 DEF Rest, Queue!TypeOK, Transaction
<1> QED BY <1>1, <1>3 DEF Rest, QueueInv

LEMMA StartMoves ==
    ASSUME QueueInv, NEW t \in Tabs, Queue!Start(t) PROVE Moves /\ Rest
<1>1. load[t] \in Fitting /\ load[t].page = "new" /\ dedup \in SUBSET Tracked
  BY InvTypes DEF Queue!Start
<1> DEFINE q == <<[op |-> "drain"]>>
           n == [load[t] EXCEPT !.page = "open", !.sentIds = dedup, !.opening = q]
<1>2. q \in Seq(Queue!Request)
  <2>1. [op |-> "drain"] \in Queue!Request BY DEF Queue!Request
  <2> QED BY <2>1
<1> HIDE DEF q
<1>3. n \in Queue!Load /\ n.buffer = load[t].buffer /\ n.flying = load[t].flying
  <2> DEFINE l == load[t]
  <2>1. l \in Queue!Load BY <1>1, FittingTypes
  <2> HIDE DEF l
  <2>2. l.page = "new" BY <1>1 DEF l
  <2>3. [l EXCEPT !.page = "open", !.sentIds = dedup, !.opening = q] \in Queue!Load
    BY <1>1, <1>2, <2>1 DEF Queue!Load
  <2>4. /\ [l EXCEPT !.page = "open", !.sentIds = dedup, !.opening = q].buffer = l.buffer
        /\ [l EXCEPT !.page = "open", !.sentIds = dedup, !.opening = q].flying = l.flying
    BY <2>1 DEF Queue!Load
  <2> QED BY <2>3, <2>4 DEF l
<1>4. n \in Fitting BY <1>1, <1>3, FitsAsWell
<1>5. Accounts(load[t], n, sent') BY <1>1 DEF Accounts
<1>6. load' = [load EXCEPT ![t] = n] BY DEF Queue!Start, q, QueueInv
<1>7. Moves BY <1>4, <1>5, <1>6, OneMoves
<1>8. Rest BY InvTypes DEF Rest, Queue!Start
<1> QED BY <1>7, <1>8

LEMMA TrackMoves ==
    ASSUME QueueInv, NEW t \in Tabs, NEW e \in Tracked, Queue!Track(t, e) PROVE Moves /\ Rest
<1> DEFINE item == [id |-> e, attempt |-> 0]
           n == Queue!Enqueued(load[t], item)
<1>1. item \in Queue!Item
  <2>1. 0 \in 0..MaxAttempts BY Sizes DEF BatchSize
  <2> QED BY <2>1 DEF Queue!Item
<1> HIDE DEF item
<1>2. n \in Fitting /\ Keeps(load[t], n) BY <1>1, InvTypes, EnqueuedKeeps
<1>3. Accounts(load[t], n, sent') BY <1>2, KeepsAccounts
<1>4. Queue!Becomes(t, n) BY DEF Queue!Track, item
<1> HIDE DEF n
<1>5. Moves /\ dedup' \subseteq Tracked BY <1>2, <1>3, <1>4, BecomesMoves
<1>6. Rest BY <1>5, InvTypes DEF Rest, Queue!Track
<1> QED BY <1>5, <1>6

LEMMA AgeMoves ==
    ASSUME QueueInv, NEW t \in Tabs, Queue!Age(t) PROVE Moves /\ Rest
<1> DEFINE n == [load[t] EXCEPT !.old = TRUE]
<1>1. load[t] \in Fitting BY InvTypes
<1>2. /\ n \in Queue!Load /\ n.buffer = load[t].buffer /\ n.flying = load[t].flying
      /\ n.retrying = load[t].retrying /\ n.opening = load[t].opening /\ n.page = load[t].page
  BY <1>1, FittingTypes DEF Queue!Load
<1>3. load' = [load EXCEPT ![t] = n] BY DEF Queue!Age, QueueInv
<1> HIDE DEF n
<1>4. n \in Fitting BY <1>1, <1>2, FitsAsWell
<1>5. Accounts(load[t], n, sent') BY <1>2 DEF Accounts, Hands
<1>6. Moves BY <1>3, <1>4, <1>5, OneMoves
<1>7. Rest BY InvTypes DEF Rest, Queue!Age
<1> QED BY <1>6, <1>7

LEMMA TimerFiresMoves ==
    ASSUME QueueInv, NEW t \in Tabs, Queue!TimerFires(t) PROVE Moves /\ Rest
<1> DEFINE m == [load[t] EXCEPT !.timer = FALSE]
           n == Queue!MaybeFlush(m)
<1>1. load[t] \in Fitting BY InvTypes
<1>2. /\ m \in Queue!Load /\ m.buffer = load[t].buffer /\ m.flying = load[t].flying
      /\ m.retrying = load[t].retrying /\ m.opening = load[t].opening /\ m.page = load[t].page
  BY <1>1, FittingTypes DEF Queue!Load
<1>3. Queue!Becomes(t, n) BY DEF Queue!TimerFires
<1> HIDE DEF m
<1>4. m \in Fitting BY <1>1, <1>2, FitsAsWell
<1>5. m \in Filled
  <2>1. Len(m.buffer) \in Nat /\ BatchMaxSize \in Nat
    BY <1>4, FittingTypes, LenProperties, Sizes DEF BatchSize
  <2> QED BY <1>4, <2>1 DEF Fitting, Filled
<1>6. n \in Fitting /\ Keeps(m, n) BY <1>5, MaybeFlushKeeps
<1>7. Keeps(load[t], m) BY <1>2 DEF Keeps, Hands, Puts
<1>8. Accounts(load[t], n, sent') BY <1>6, <1>7, KeepsOn, KeepsAccounts
<1> HIDE DEF n
<1>9. Moves /\ dedup' \subseteq Tracked BY <1>3, <1>6, <1>8, BecomesMoves
<1>10. Rest BY <1>9, InvTypes DEF Rest, Queue!TimerFires
<1> QED BY <1>9, <1>10

\* Those that a batch has are the ids that a fetch or a beacon counts.
LEMMA HasIds ==
    ASSUME NEW items, NEW e, Has(items, e) PROVE e \in Queue!Ids(items)
  BY DEF Has, Queue!Ids

LEMMA ResolveMoves ==
    ASSUME QueueInv, NEW t \in Tabs, NEW i \in DOMAIN load[t].flying, Queue!Resolve(t, i)
    PROVE  Moves /\ Rest
<1> DEFINE l == load[t]
           n == Queue!Landed(l, i)
           batch == l.flying[i]
<1>1. l \in Fitting BY InvTypes
<1>2. /\ n \in Fitting /\ batch \in Seq(Queue!Item)
      /\ \A e \in Tracked : Hands(l, e) => Hands(n, e) \/ Has(batch, e)
  <2> HIDE DEF l
  <2> QED BY <1>1, LandedLoses DEF l
<1>3. load' = [load EXCEPT ![t] = n] BY DEF Queue!Resolve
<1>4. sent' = sent \cup Queue!Ids(batch) BY DEF Queue!Resolve
<1>5. refused' = refused \cup Queue!Unauthorized(Queue!FetchHeaders, batch) BY DEF Queue!Resolve
<1> HIDE DEF n, batch, l
<1>6. Queue!Ids(batch) \subseteq Tracked BY <1>2, IdsTracked
<1>7. Accounts(l, n, sent') BY <1>2, <1>4, HasIds DEF Accounts
<1>8. Moves BY <1>2, <1>3, <1>7, OneMoves DEF l
<1>9. sent' \subseteq Tracked /\ refused' \subseteq Tracked
  BY <1>4, <1>5, <1>6, InvTypes DEF Queue!Unauthorized
<1>10. Rest BY <1>9, InvTypes DEF Rest, Queue!Resolve
<1> QED BY <1>8, <1>10

LEMMA RejectMoves ==
    ASSUME QueueInv, NEW t \in Tabs, NEW i \in DOMAIN load[t].flying, Queue!Reject(t, i)
    PROVE  Moves /\ Rest
<1> DEFINE l == load[t]
           m == Queue!Landed(l, i)
           batch == l.flying[i]
           n == Queue!RetriedAll(m, batch)
<1>1. l \in Fitting BY InvTypes
<1>2. /\ m \in Fitting /\ batch \in Seq(Queue!Item) /\ m.page = l.page
      /\ \A e \in Tracked : Hands(l, e) => Hands(m, e) \/ Has(batch, e)
  <2> HIDE DEF l
  <2> QED BY <1>1, LandedLoses DEF l
<1>3. load' = [load EXCEPT ![t] = n] BY DEF Queue!Reject
<1> HIDE DEF m, batch, l
<1>4. n \in Fitting /\ Keeps(m, n) /\ Secures(n, batch) BY <1>2, RetriedAllKeeps
<1> HIDE DEF n
<1>5. Accounts(l, n, sent') BY <1>2, <1>4 DEF Accounts, Keeps, Secures
<1>6. Moves BY <1>3, <1>4, <1>5, OneMoves DEF l
<1>7. Rest BY InvTypes DEF Rest, Queue!Reject
<1> QED BY <1>6, <1>7

LEMMA RetryFiresMoves ==
    ASSUME QueueInv, NEW t \in Tabs, NEW i \in DOMAIN load[t].retrying, Queue!RetryFires(t, i)
    PROVE  Moves /\ Rest
<1> DEFINE l == load[t]
           item == l.retrying[i]
           m == Queue!Unmarked([l EXCEPT !.retrying = Queue!RemoveAt(@, i)], item.id)
           n == Queue!Enqueued(m, item)
<1>1. l \in Fitting BY InvTypes
<1>2. /\ m \in Fitting /\ m.page = l.page /\ item \in Queue!Item /\ item.id \notin m.sentIds
      /\ \A e \in Tracked : Hands(l, e) => Hands(m, e) \/ e = item.id
  <2> HIDE DEF l
  <2> QED BY <1>1, WaitedLoses DEF l
<1>3. Queue!Becomes(t, n) BY DEF Queue!RetryFires
<1> HIDE DEF m, item, l
<1>4. n \in Fitting /\ Keeps(m, n) /\ (Hands(n, item.id) \/ Puts(n, item.id))
  BY <1>2, EnqueuedKeeps
<1> HIDE DEF n
<1>5. Accounts(l, n, sent') BY <1>2, <1>4 DEF Accounts, Keeps
<1>6. Moves /\ dedup' \subseteq Tracked BY <1>3, <1>4, <1>5, BecomesMoves DEF l
<1>7. Rest BY <1>6, InvTypes DEF Rest, Queue!RetryFires
<1> QED BY <1>6, <1>7

\* A beacon carries the buffer, and nothing else leaves.
LEMMA BeaconMoves ==
    ASSUME QueueInv, NEW t \in Tabs, NEW page \in {"open", "gone"}, Queue!Beacon(t, page)
    PROVE  Moves /\ dedup' \subseteq Tracked /\ sent' \subseteq Tracked /\ refused' \subseteq Tracked
<1> DEFINE l == load[t]
           n == Queue!Beaconed(l, page)
<1>1. l \in Fitting BY InvTypes
<1>2. /\ load' = [load EXCEPT ![t] = n] /\ sent' = sent \cup Queue!Ids(l.buffer)
      /\ dedup' = IF l.buffer = <<>> THEN dedup ELSE l.sentIds \cup Queue!Ids(l.buffer)
      /\ refused' = refused \cup Queue!Unauthorized(Queue!BeaconHeaders, l.buffer)
  BY DEF Queue!Beacon
<1> HIDE DEF l
<1>3. /\ l \in Queue!Load /\ l.buffer \in Seq(Queue!Item) /\ l.sentIds \in SUBSET Tracked
      /\ l.flying \in Seq(Seq(Queue!Item))
  BY <1>1, FittingTypes
<1>4. Queue!Ids(l.buffer) \subseteq Tracked BY <1>3, IdsTracked
<1>5. n \in Queue!Load
  <2>1. <<>> \in Seq(Queue!Item) BY EmptySeq
  <2>2. l.sentIds \cup Queue!Ids(l.buffer) \in SUBSET Tracked BY <1>3, <1>4
  <2> QED BY <1>3, <2>1, <2>2 DEF Queue!Load, Queue!Beaconed
<1>6. /\ n.page = page /\ n.buffer = <<>> /\ n.flying = l.flying
      /\ n.retrying = l.retrying /\ n.opening = l.opening
  BY <1>3 DEF Queue!Load, Queue!Beaconed
<1> HIDE DEF n
<1>7. n \in Fitting
  <2>1. Len(n.buffer) = 0 /\ BatchMaxSize \in Nat \ {0}
    BY <1>6, EmptySeq, Sizes DEF BatchSize
  <2>2. FlyingFits(n) BY <1>1, <1>6 DEF Fitting, FlyingFits
  <2> QED BY <1>5, <2>1, <2>2 DEF Fitting
<1>8. Accounts(l, n, sent')
  <2> SUFFICES ASSUME NEW e \in Tracked, Hands(l, e) PROVE Hands(n, e) \/ e \in sent'
    BY DEF Accounts
  <2>1. CASE Has(l.buffer, e) BY <1>2, <2>1, HasIds
  <2>2. CASE ~Has(l.buffer, e) BY <1>6, <2>2 DEF Hands
  <2> QED BY <2>1, <2>2
<1>9. Moves BY <1>2, <1>7, <1>8, OneMoves DEF l
<1> QED BY <1>2, <1>3, <1>4, <1>9, InvTypes DEF Queue!Unauthorized

LEMMA HideMoves ==
    ASSUME QueueInv, NEW t \in Tabs, Queue!Hide(t) PROVE Moves /\ Rest
<1>1. Moves /\ dedup' \subseteq Tracked /\ sent' \subseteq Tracked /\ refused' \subseteq Tracked
  <2>1. Queue!Beacon(t, "open") BY DEF Queue!Hide
  <2> QED BY <2>1, BeaconMoves
<1>2. Rest BY <1>1, InvTypes DEF Rest, Queue!Hide
<1> QED BY <1>1, <1>2

\* Orphaned transactions are transactions.
LEMMA OrphanedType ==
    ASSUME QueueInv, NEW t, requests' \in Queue!Orphaned(t)
    PROVE  requests' \in Seq(Transaction)
  BY InvTypes, WithoutType DEF Queue!Orphaned

LEMMA LeaveMoves ==
    ASSUME QueueInv, NEW t \in Tabs, Queue!Leave(t) PROVE Moves /\ Rest
<1>1. Moves /\ dedup' \subseteq Tracked /\ sent' \subseteq Tracked /\ refused' \subseteq Tracked
  <2>1. Queue!Beacon(t, "gone") BY DEF Queue!Leave
  <2> QED BY <2>1, BeaconMoves
<1>2. requests' \in Seq(Transaction) BY OrphanedType DEF Queue!Leave
<1>3. Rest BY <1>1, <1>2, InvTypes DEF Rest, Queue!Leave
<1> QED BY <1>1, <1>3

LEMMA DieMoves ==
    ASSUME QueueInv, NEW t \in Tabs, Queue!Die(t) PROVE Moves /\ Rest
<1> DEFINE n == [load[t] EXCEPT !.page = "gone"]
<1>1. load[t] \in Fitting BY InvTypes
<1>2. /\ n \in Queue!Load /\ n.buffer = load[t].buffer /\ n.flying = load[t].flying
      /\ n.page = "gone"
  BY <1>1, FittingTypes DEF Queue!Load
<1>3. load' = [load EXCEPT ![t] = n] BY DEF Queue!Die
<1> HIDE DEF n
<1>4. n \in Fitting BY <1>1, <1>2, FitsAsWell
<1>5. Accounts(load[t], n, sent') BY <1>2 DEF Accounts
<1>6. Moves BY <1>3, <1>4, <1>5, OneMoves
<1>7. requests' \in Seq(Transaction) BY OrphanedType DEF Queue!Die
<1>8. Rest BY <1>7, InvTypes DEF Rest, Queue!Die
<1> QED BY <1>6, <1>8

LEMMA OpenedMoves ==
    ASSUME QueueInv, NEW t \in Tabs, Queue!Opened(t) PROVE Moves /\ Rest
<1> DEFINE l == load[t]
           n == [l EXCEPT !.opening = Tail(@)]
           do == Head(l.opening)
<1>1. l \in Fitting /\ l.opening # <<>> BY InvTypes DEF Queue!Opened
<1>2. load' = [load EXCEPT ![t] = n] BY DEF Queue!Opened
<1>3. requests' = Append(requests, [load |-> t, do |-> do]) \/ requests' = requests
  BY DEF Queue!Opened
<1> HIDE DEF l
<1>4. Tail(l.opening) \in Seq(Queue!Request) /\ do \in Queue!Request
  <2>1. l.opening \in Seq(Queue!Request) BY <1>1, FittingTypes
  <2> QED BY <1>1, <2>1, HeadTailProperties
<1>5. /\ n \in Queue!Load /\ n.buffer = l.buffer /\ n.flying = l.flying
      /\ n.retrying = l.retrying /\ n.page = l.page
  BY <1>1, <1>4, FittingTypes DEF Queue!Load
<1> HIDE DEF n, do
<1>6. n \in Fitting BY <1>1, <1>5, FitsAsWell
<1>7. Accounts(l, n, sent') BY <1>5 DEF Accounts, Hands
<1>8. Moves BY <1>2, <1>6, <1>7, OneMoves DEF l
<1>9. requests' \in Seq(Transaction)
  <2>1. [load |-> t, do |-> do] \in Transaction BY <1>4 DEF Transaction
  <2>2. requests \in Seq(Transaction) BY InvTypes
  <2> QED BY <1>3, <2>1, <2>2, AppendExtends
<1>10. Rest BY <1>9, InvTypes DEF Rest, Queue!Opened
<1> QED BY <1>8, <1>10

LEMMA RunRequestMoves ==
    ASSUME QueueInv, Queue!RunRequest PROVE Moves /\ Rest
<1> DEFINE t == Head(requests).load
           do == Head(requests).do
<1>1. requests \in Seq(Transaction) /\ requests # <<>> BY InvTypes DEF Queue!RunRequest
<1>2. Head(requests) \in Transaction /\ Tail(requests) \in Seq(Transaction)
  BY <1>1, HeadTailProperties
<1>3. t \in Tabs /\ do \in Queue!Request BY <1>2 DEF Transaction
<1>4. CASE /\ do.op = "put" /\ store' = store \cup {do.id}
           /\ requests' = Tail(requests) /\ UNCHANGED <<load, dedup>>
  <2>1. do.id \in Tracked BY <1>3, <1>4 DEF Queue!Request
  <2>2. store' \subseteq Tracked BY <1>4, <2>1, InvTypes
  <2>3. IsFiniteSet(store') BY <1>4, InvTypes, FS_AddElement
  <2>4. Moves BY <1>4, NoneMoves
  <2>5. Rest BY <1>2, <1>4, <2>2, <2>3, InvTypes DEF Rest, Queue!RunRequest
  <2> QED BY <2>4, <2>5
<1>5. CASE /\ do.op = "clear" /\ store' = {}
           /\ requests' = Tail(requests) /\ UNCHANGED <<load, dedup>>
  <2>1. IsFiniteSet(store') BY <1>5, FS_EmptySet
  <2>2. Moves BY <1>5, NoneMoves
  <2>3. Rest BY <1>2, <1>5, <2>1, InvTypes DEF Rest, Queue!RunRequest
  <2> QED BY <2>2, <2>3
<1>6. CASE /\ do.op = "drain" /\ Queue!Becomes(t, Queue!Drained(load[t]))
           /\ requests' = Append(Tail(requests), [load |-> t, do |-> [op |-> "clear"]])
           /\ UNCHANGED store
  <2> DEFINE n == Queue!Drained(load[t])
  <2>1. n \in Fitting /\ Keeps(load[t], n)
    <3>1. Queue!SetToSeq(store) \in Seq(store) BY InvTypes, SetToSeqType
    <3>2. Queue!SetToSeq(store) \in Seq(Tracked)
      <4>1. store \subseteq Tracked BY InvTypes
      <4> HIDE DEF t
      <4> QED BY <3>1, <4>1
    <3>3. load[t] \in Fitting BY <1>3, InvTypes
    <3> QED BY <3>2, <3>3, EnqueuedAllKeeps DEF Queue!Drained
  <2>2. [load |-> t, do |-> [op |-> "clear"]] \in Transaction
    BY <1>3 DEF Transaction, Queue!Request
  <2>3. Accounts(load[t], n, sent') BY <2>1, KeepsAccounts
  <2>4. Queue!Becomes(t, n) BY <1>6
  <2> HIDE DEF n, t
  <2>5. Moves /\ dedup' \subseteq Tracked BY <1>3, <2>1, <2>3, <2>4, BecomesMoves
  <2>6. requests' \in Seq(Transaction) BY <1>2, <1>6, <2>2, AppendExtends
  <2>7. Rest BY <1>6, <2>5, <2>6, InvTypes DEF Rest, Queue!RunRequest
  <2> QED BY <2>5, <2>7
<1> QED BY <1>4, <1>5, <1>6 DEF Queue!RunRequest

LEMMA GoOfflineMoves ==
    ASSUME QueueInv, Queue!GoOffline PROVE Moves /\ Rest
<1>1. Moves BY NoneMoves DEF Queue!GoOffline
<1>2. outages' \in 0..MaxOutages BY InvTypes, Sizes DEF Queue!GoOffline, BatchSize
<1>3. Rest BY <1>2, InvTypes DEF Rest, Queue!GoOffline
<1> QED BY <1>1, <1>3

LEMMA GoOnlineMoves ==
    ASSUME QueueInv, Queue!GoOnline PROVE Moves /\ Rest
<1> DEFINE q == [op |-> "drain"]
           n(t) == [load[t] EXCEPT !.opening = Append(@, q)]
<1>1. q \in Queue!Request BY DEF Queue!Request
<1>2. ASSUME NEW t \in Tabs PROVE n(t) \in Fitting /\ Accounts(load[t], n(t), sent')
  <2>1. load[t] \in Fitting BY InvTypes
  <2> HIDE DEF q
  <2>2. Append(load[t].opening, q) \in Seq(Queue!Request)
    BY <1>1, <2>1, FittingTypes, AppendExtends
  <2>3. /\ n(t) \in Queue!Load /\ n(t).buffer = load[t].buffer /\ n(t).flying = load[t].flying
        /\ n(t).retrying = load[t].retrying /\ n(t).page = load[t].page
    BY <2>1, <2>2, FittingTypes DEF Queue!Load
  <2> HIDE DEF n
  <2>4. n(t) \in Fitting BY <2>1, <2>3, FitsAsWell
  <2>5. Accounts(load[t], n(t), sent') BY <2>3 DEF Accounts, Hands
  <2> QED BY <2>4, <2>5
<1>3. load' = [t \in Tabs |-> IF ~Queue!IsOpen(t) THEN load[t] ELSE n(t)]
  BY DEF Queue!GoOnline
<1> HIDE DEF n
<1>4. Moves
  <2>1. ASSUME NEW t \in Tabs PROVE load'[t] \in Fitting /\ Accounts(load[t], load'[t], sent')
    <3>1. CASE Queue!IsOpen(t) BY <1>2, <1>3, <3>1
    <3>2. CASE ~Queue!IsOpen(t) BY <1>3, <3>2, InvTypes DEF Accounts
    <3> QED BY <3>1, <3>2
  <2> QED BY <1>3, <2>1 DEF Moves
<1>5. Rest BY InvTypes DEF Rest, Queue!GoOnline
<1> QED BY <1>4, <1>5

LEMMA StutterMoves ==
    ASSUME QueueInv, UNCHANGED Queue!vars PROVE Moves /\ Rest
<1>1. Moves BY NoneMoves DEF Queue!vars
<1>2. Rest BY InvTypes DEF Rest, Queue!vars
<1> QED BY <1>1, <1>2

LEMMA NextMoves == QueueInv /\ [Queue!Next]_Queue!vars => Moves /\ Rest
<1> SUFFICES ASSUME QueueInv, [Queue!Next]_Queue!vars PROVE Moves /\ Rest OBVIOUS
<1>1. CASE UNCHANGED Queue!vars BY <1>1, StutterMoves
<1>2. ASSUME NEW t \in Tabs, Queue!Start(t) \/ Queue!Age(t) \/ Queue!TimerFires(t)
      PROVE  Moves /\ Rest
  BY <1>2, StartMoves, AgeMoves, TimerFiresMoves
<1>3. ASSUME NEW t \in Tabs, Queue!Answer(t) PROVE Moves /\ Rest
  BY <1>3, ResolveMoves, RejectMoves DEF Queue!Answer
<1>4. ASSUME NEW t \in Tabs, Queue!Backoff(t) PROVE Moves /\ Rest
  BY <1>4, RetryFiresMoves DEF Queue!Backoff
<1>5. ASSUME NEW t \in Tabs, Queue!Hide(t) \/ Queue!Leave(t) \/ Queue!Die(t) \/ Queue!Opened(t)
      PROVE  Moves /\ Rest
  BY <1>5, HideMoves, LeaveMoves, DieMoves, OpenedMoves
<1>6. ASSUME NEW t \in Tabs, NEW e \in Tracked, Queue!Track(t, e) PROVE Moves /\ Rest
  BY <1>6, TrackMoves
<1>7. CASE Queue!RunRequest \/ Queue!GoOffline \/ Queue!GoOnline
  BY <1>7, RunRequestMoves, GoOfflineMoves, GoOnlineMoves
<1> QED BY <1>1, <1>2, <1>3, <1>4, <1>5, <1>6, <1>7 DEF Queue!Next

LEMMA InitQueueInv == Queue!Init => QueueInv
<1> SUFFICES ASSUME Queue!Init PROVE QueueInv OBVIOUS
<1>1. Queue!NewLoad \in Queue!Load
  <2>1. /\ <<>> \in Seq(Queue!Item) /\ <<>> \in Seq(Seq(Queue!Item))
        /\ <<>> \in Seq(Queue!Request)
    BY EmptySeq
  <2> QED BY <2>1 DEF Queue!NewLoad, Queue!Load
<1>2. Queue!NewLoad \in Fitting
  <2>1. /\ Queue!NewLoad.buffer = <<>> /\ Queue!NewLoad.flying = <<>>
    BY DEF Queue!NewLoad
  <2>2. Len(<<>>) = 0 /\ DOMAIN <<>> = 1..0 /\ BatchMaxSize \in Nat \ {0}
    BY EmptySeq, LenProperties, Sizes DEF BatchSize
  <2>3. Len(Queue!NewLoad.buffer) < BatchMaxSize BY <2>1, <2>2
  <2>4. FlyingFits(Queue!NewLoad) BY <2>1, <2>2 DEF FlyingFits
  <2> QED BY <1>1, <2>3, <2>4 DEF Fitting
<1>3. IsFiniteSet(store) BY FS_EmptySet DEF Queue!Init
<1>4. requests \in Seq([load : Tabs, do : Queue!Request]) BY EmptySeq DEF Queue!Init
<1>5. load = [t \in Tabs |-> Queue!NewLoad] BY DEF Queue!Init
<1>6. load \in [Tabs -> Queue!Load] /\ load \in [Tabs -> Fitting] BY <1>1, <1>2, <1>5
<1>7. 0 \in 0..MaxOutages BY Sizes DEF BatchSize
<1> QED BY <1>3, <1>4, <1>6, <1>7 DEF QueueInv, Queue!TypeOK, Queue!Init

-------------------------------------------------------------------------------
LEMMA HandsAreInHand ==
    ASSUME NEW t \in Tabs, NEW e \in Tracked
    PROVE  Queue!InHand(t, e) <=> load[t].page = "open" /\ Hands(load[t], e)
  BY DEF Queue!InHand, Queue!IsOpen, Queue!Ids, Hands, Has

\* Loads that account for what they had in hand dropped nothing.
LEMMA MovesDropNothing ==
    ASSUME Moves, NEW t \in Tabs, NEW e \in Tracked,
           Queue!InHand(t, e), load'[t].page = "open"
    PROVE  Queue!InHand(t, e)' \/ e \in sent' \/ Queue!Kept(e)'
<1>1. load[t].page = "open" /\ Hands(load[t], e) BY HandsAreInHand
<1>2. Accounts(load[t], load'[t], sent') BY DEF Moves
<1>3. Hands(load'[t], e) \/ Puts(load'[t], e) \/ e \in sent' BY <1>1, <1>2 DEF Accounts
<1>4. CASE Hands(load'[t], e)
  <2>1. Queue!InHand(t, e)' BY <1>4 DEF Queue!InHand, Queue!IsOpen, Queue!Ids, Hands, Has
  <2> QED BY <2>1
<1>5. CASE Puts(load'[t], e)
  <2>1. Queue!Queued(e)' BY <1>5 DEF Queue!Queued, Queue!IsOpen, Puts
  <2> QED BY <2>1 DEF Queue!Kept
<1> QED BY <1>3, <1>4, <1>5

LEMMA QueueStep == QueueInv /\ [Queue!Next]_Queue!vars => QueueInv'
  BY NextMoves, MovesPreserve

LEMMA QueueInvHolds == Queue!Spec => []QueueInv
  BY InitQueueInv, QueueStep, PTL DEF Queue!Spec

\* However tracking, retries and drains fill the buffer of a load, it stays
\* below maxSize and no batch exceeds it (Queue.enqueue, maybeFlush and flush).
THEOREM BatchesStayInSize == Queue!Spec => []BatchesFit
<1>1. QueueInv => BatchesFit
  <2>1. SUFFICES ASSUME QueueInv, NEW t \in Tabs
                 PROVE  /\ Len(load[t].buffer) < BatchMaxSize
                        /\ \A i \in DOMAIN load[t].flying :
                              Len(load[t].flying[i]) <= BatchMaxSize
    BY DEF BatchesFit, Queue!BatchesFit
  <2>2. load[t] \in Fitting BY <2>1, InvTypes
  <2> QED BY <2>2 DEF Fitting, FlyingFits
<1> QED BY <1>1, QueueInvHolds, PTL

\* While its page lives, what the queue has in hand it keeps, has seen answered,
\* gave to a beacon, or is putting into IndexedDB (Queue, and its flush on
\* unload), for any number of loads, events, batches and outages.
THEOREM QueueDropsNothing == Queue!Spec => NothingDropped
<1> DEFINE Drops ==
        \A t \in Tabs, e \in Tracked :
            Queue!InHand(t, e) /\ load'[t].page = "open" =>
                Queue!InHand(t, e)' \/ e \in sent' \/ Queue!Kept(e)'
<1>1. QueueInv /\ [Queue!Next]_Queue!vars => [Drops]_Queue!vars
  <2> SUFFICES ASSUME QueueInv, [Queue!Next]_Queue!vars PROVE Drops OBVIOUS
  <2>1. Moves BY NextMoves
  <2> QED BY <2>1, MovesDropNothing
<1>2. QueueInv /\ [Queue!Next]_Queue!vars => [\A t \in Tabs, e \in Tracked :
            Queue!InHand(t, e) /\ load'[t].page = "open" =>
                Queue!InHand(t, e)' \/ e \in sent' \/ Queue!Kept(e)']_Queue!vars
  BY <1>1
<1> QED BY <1>2, QueueInvHolds, PTL DEF Queue!Spec, NothingDropped, Queue!NothingDropped

\* The types of the ids, of where tabs and events are, and of what loads, the
\* offline store and its transactions hold.
THEOREM TypesHold == Spec /\ Queue!Spec => []SdkTypeOK
<1>1. TypeOK /\ QueueInv => SdkTypeOK BY DEF SdkTypeOK, QueueInv
<1> QED BY <1>1, IdTypesHold, QueueInvHolds, PTL
================================================================================
