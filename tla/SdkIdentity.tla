------------------------------ MODULE SdkIdentity ------------------------------
(***************************************************************************)
(* Who the browser SDK says it is: the visitor id, kept in localStorage    *)
(* and a cookie that all tabs share, and the session id, kept in the tab's *)
(* sessionStorage and a cookie that all tabs share.  A load of a page      *)
(* reads them, mints what it does not find, and writes both copies.  The   *)
(* server answers an event that was sent by itself with the ids it stored, *)
(* which the tab takes over; an answer to a batch holds no ids.            *)
(*                                                                         *)
(* Tabs are processes of their own: their accesses to what they share      *)
(* interleave.  Copies may get lost; requests may fail and be sent again,  *)
(* by a later load even, with the ids they were tracked with.              *)
(***************************************************************************)
EXTENDS FiniteSets, Naturals

CONSTANTS
    Tabs,
    VisitorIds,
    SessionIds,
    Events,       \* what is tracked, in all
    MaxLoads,     \* how many loads of pages, in all: a bound
    MaxMishaps,   \* how often a copy is lost, or a session expires: a bound
    None

ASSUME IdentityAssumption ==
    /\ None \notin VisitorIds
    /\ None \notin SessionIds
    /\ MaxLoads \in Nat /\ MaxMishaps \in Nat

VARIABLES
    local,      \* _lt_vid in localStorage
    cookie,     \* the cookies _lt_vid and _lt_sid
    tab,        \* each tab: its sessionStorage, and its load's memory
    event,      \* each event: its ids, and where it is
    owner,      \* of a session id: whose it is at the server, or who made it up
    live,       \* the sessions the server's Redis has
    loads,
    mishaps,
    divided     \* a load made up a visitor id while another one was at it, or
                \* while a copy got lost, or when both had been lost

vars == <<local, cookie, tab, event, owner, live, loads, mishaps, divided>>

Visitor == VisitorIds \cup {None}
Session == SessionIds \cup {None}

Tab == [pc      : {"closed", "local", "cookie", "setLocal", "setCookie",
                   "session", "open"},
        storage : Session,      \* _lt_sid in sessionStorage
        visitor : Visitor,      \* Identity.visitorId
        session : Session,      \* Identity.sessionId
        alone   : BOOLEAN,      \* nothing disturbed stickyId of the visitor id
        told    : BOOLEAN]      \* its ids are those of an answer

Event == [pc      : {"new", "buffered", "flying", "served", "kept", "done"},
          tab     : Tabs \cup {None},
          batch   : SUBSET Events,
          visitor : Visitor,
          session : Session,    \* the sessionId of the DTO
          row     : Session]    \* the session of the stored row

TypeOK ==
    /\ local \in Visitor
    /\ cookie \in [visitor : Visitor, session : Session]
    /\ tab \in [Tabs -> Tab]
    /\ event \in [Events -> Event]
    /\ owner \in [SessionIds -> Visitor \cup {"sdk"}]
    /\ live \subseteq SessionIds
    /\ loads \in 0..MaxLoads
    /\ mishaps \in 0..MaxMishaps
    /\ divided \in BOOLEAN

Init ==
    /\ local = None
    /\ cookie = [visitor |-> None, session |-> None]
    /\ tab = [t \in Tabs |-> [pc |-> "closed", storage |-> None, visitor |-> None,
          session |-> None, alone |-> TRUE, told |-> FALSE]]
    /\ event = [e \in Events |-> [pc |-> "new", tab |-> None, batch |-> {},
          visitor |-> None, session |-> None, row |-> None]]
    /\ owner = [s \in SessionIds |-> None]
    /\ live = {}
    /\ loads = 0
    /\ mishaps = 0
    /\ divided = FALSE

-------------------------------------------------------------------------------
(* The ids in use                                                           *)

UsedVisitors ==
    {local, cookie.visitor} \cup {tab[t].visitor : t \in Tabs} \cup
    {event[e].visitor : e \in Events}

\* uuid() and generateSessionId() never return an id twice.
FreshVisitors == VisitorIds \ UsedVisitors
FreshSessions == {s \in SessionIds : owner[s] = None}

-------------------------------------------------------------------------------
(* A load of a page: stickyId of the visitor id                             *)

Looking(t) == tab[t].pc \in {"local", "cookie", "setLocal", "setCookie"}

\* The tabs when t begins to look for the visitor id: it, and those who are at
\* it already, are not alone.
Joined(t, tabs) ==
    [u \in Tabs |->
        IF u = t THEN [tabs[t] EXCEPT !.alone = \A w \in Tabs \ {t} : ~Looking(w)]
        ELSE IF Looking(u) THEN [tabs[u] EXCEPT !.alone = FALSE]
        ELSE tabs[u]]

Load(t) ==
    /\ tab[t].pc = "closed"
    /\ loads < MaxLoads
    /\ loads' = loads + 1
    /\ tab' = Joined(t, [tab EXCEPT ![t] =
          [@ EXCEPT !.pc = "local"]])
    /\ UNCHANGED <<local, cookie, event, owner, live, mishaps, divided>>

ReadLocal(t) ==
    /\ tab[t].pc = "local"
    /\ tab' = [tab EXCEPT ![t] = [@ EXCEPT !.visitor = local,
          !.pc = IF local = None THEN "cookie" ELSE "setLocal"]]
    /\ UNCHANGED <<local, cookie, event, owner, live, loads, mishaps, divided>>

\* Mutant of Found: the id is made up when localStorage has none.
FoundNowhere == None

\* The visitor id of the cookie.
Found == cookie.visitor

ReadCookie(t) ==
    /\ tab[t].pc = "cookie"
    /\ \E v \in IF Found = None THEN FreshVisitors ELSE {Found} :
          tab' = [tab EXCEPT ![t] = [@ EXCEPT !.visitor = v, !.pc = "setLocal"]]
    /\ divided' = (divided \/ (Found = None /\ ~tab[t].alone))
    /\ UNCHANGED <<local, cookie, event, owner, live, loads, mishaps>>

SetLocal(t) ==
    /\ tab[t].pc = "setLocal"
    /\ local' = tab[t].visitor
    /\ tab' = [tab EXCEPT ![t].pc = "setCookie"]
    /\ UNCHANGED <<cookie, event, owner, live, loads, mishaps, divided>>

SetCookie(t) ==
    /\ tab[t].pc = "setCookie"
    /\ cookie' = [cookie EXCEPT !.visitor = tab[t].visitor]
    /\ tab' = [tab EXCEPT ![t].pc = "session"]
    /\ UNCHANGED <<local, event, owner, live, loads, mishaps, divided>>

-------------------------------------------------------------------------------
(* ... and of the session id                                                *)

\* sessionStorage is the tab's own, and which of two tabs reads or writes the
\* shared cookie first only decides between their sessions.
StickySession(t) ==
    /\ tab[t].pc = "session"
    /\ \E s \in IF tab[t].storage # None THEN {tab[t].storage}
                ELSE IF cookie.session # None THEN {cookie.session}
                ELSE FreshSessions :
          /\ tab' = [tab EXCEPT ![t] =
                [@ EXCEPT !.storage = s, !.session = s, !.pc = "open"]]
          /\ cookie' = [cookie EXCEPT !.session = s]
          /\ owner' = IF owner[s] = None THEN [owner EXCEPT ![s] = "sdk"] ELSE owner
    /\ UNCHANGED <<local, event, live, loads, mishaps, divided>>

\* The page is left, or dies at any point of its load; the tab's sessionStorage
\* stays, unless the tab is closed.  What its queue holds is lost, or kept in
\* IndexedDB.
Leave(t) ==
    /\ tab[t].pc # "closed"
    /\ \E s \in {tab[t].storage, None} :
          tab' = [tab EXCEPT ![t] = [@ EXCEPT !.pc = "closed", !.storage = s,
              !.visitor = None, !.session = None, !.told = FALSE]]
    /\ \E pc \in {"done", "kept"} :
          event' = [e \in Events |->
              IF event[e].tab = t /\ event[e].pc \in {"buffered", "flying", "served"}
              THEN [event[e] EXCEPT !.pc = pc, !.batch = {}] ELSE event[e]]
    /\ UNCHANGED <<local, cookie, owner, live, loads, mishaps, divided>>

-------------------------------------------------------------------------------
(* Events                                                                   *)

\* baseEvent
Track(t, e) ==
    /\ tab[t].pc = "open"
    /\ event[e].pc = "new"
    /\ event' = [event EXCEPT ![e] = [@ EXCEPT !.pc = "buffered", !.tab = t,
          !.visitor = tab[t].visitor, !.session = tab[t].session]]
    /\ UNCHANGED <<local, cookie, tab, owner, live, loads, mishaps, divided>>

\* idbDrain: a tab takes over what another load kept, as it was tracked.
Drain(t, e) ==
    /\ tab[t].pc = "open"
    /\ event[e].pc = "kept"
    /\ event' = [event EXCEPT ![e] = [@ EXCEPT !.pc = "buffered", !.tab = t]]
    /\ UNCHANGED <<local, cookie, tab, owner, live, loads, mishaps, divided>>

Buffer(t) == {e \in Events : event[e].tab = t /\ event[e].pc = "buffered"}

\* flush: the whole buffer is one request.
Flush(t) ==
    /\ tab[t].pc = "open"
    /\ Buffer(t) # {}
    /\ event' = [e \in Events |->
          IF e \in Buffer(t) THEN [event[e] EXCEPT !.pc = "flying", !.batch = Buffer(t)]
          ELSE event[e]]
    /\ UNCHANGED <<local, cookie, tab, owner, live, loads, mishaps, divided>>

\* The row of an eventId is stored once, whichever session a retry is given.
Stored(e, s) == [event[e] EXCEPT !.pc = "served", !.row = IF @ = None THEN s ELSE @]

\* The server takes the events of a request in turn: SessionManager accepts the
\* session or begins one.
Serve(e) ==
    /\ event[e].pc = "flying"
    /\ \E s \in IF event[e].session \in live /\ owner[event[e].session] = event[e].visitor
                THEN {event[e].session} ELSE FreshSessions :
          /\ owner' = [owner EXCEPT ![s] = event[e].visitor]
          /\ live' = live \cup {s}
          /\ event' = [event EXCEPT ![e] = Stored(e, s)]
    /\ UNCHANGED <<local, cookie, tab, loads, mishaps, divided>>

\* Mutant of Takes: a tab takes over the session of an answer alone.
TakesSession(t, e) ==
    [tab[t] EXCEPT !.session = event[e].row, !.storage = event[e].row, !.told = TRUE]

\* syncFromResponse
Takes(t, e) ==
    [tab[t] EXCEPT !.session = event[e].row, !.storage = event[e].row,
                   !.visitor = event[e].visitor, !.told = TRUE]

\* The answer to the request of e arrives.
Answer(t, e) ==
    /\ tab[t].pc = "open"
    /\ event[e].tab = t
    /\ event[e].batch # {} /\ \A f \in event[e].batch : event[f].pc = "served"
    /\ event' = [f \in Events |->
          IF f \in event[e].batch THEN [event[f] EXCEPT !.pc = "done", !.batch = {}]
          ELSE event[f]]
    /\ IF event[e].batch = {e}
       THEN /\ tab' = [u \in Tabs |->
                  IF u = t THEN Takes(t, e)
                  ELSE IF Looking(u) /\ event[e].visitor # tab[t].visitor
                  THEN [tab[u] EXCEPT !.alone = FALSE]
                  ELSE tab[u]]
            /\ cookie' = [visitor |-> IF event[e].visitor # tab[t].visitor
                                      THEN event[e].visitor ELSE cookie.visitor,
                          session |-> IF event[e].row # tab[t].session
                                      THEN event[e].row ELSE cookie.session]
            /\ local' = IF event[e].visitor # tab[t].visitor
                        THEN event[e].visitor ELSE local
       ELSE UNCHANGED <<local, cookie, tab>>
    /\ UNCHANGED <<owner, live, loads, mishaps, divided>>

\* fetch rejects, before or after the server was there: every event of the
\* request is enqueued again, or kept.
Reject(t, e) ==
    /\ tab[t].pc = "open"
    /\ event[e].tab = t
    /\ event[e].batch # {}
    /\ mishaps < MaxMishaps
    /\ mishaps' = mishaps + 1
    /\ \E pc \in {"buffered", "kept"} :
          event' = [f \in Events |->
              IF f \in event[e].batch THEN [event[f] EXCEPT !.pc = pc, !.batch = {}]
              ELSE event[f]]
    /\ UNCHANGED <<local, cookie, tab, owner, live, loads, divided>>

-------------------------------------------------------------------------------
\* The user, or the browser's tracking prevention, clears a copy, while loads
\* may be at it.
Clear ==
    /\ mishaps < MaxMishaps
    /\ mishaps' = mishaps + 1
    /\ \/ local' = None /\ UNCHANGED cookie
       \/ cookie' = [visitor |-> None, session |-> None] /\ UNCHANGED local
    /\ tab' = [t \in Tabs |-> IF Looking(t) THEN [tab[t] EXCEPT !.alone = FALSE] ELSE tab[t]]
    /\ divided' = (divided \/ (local' = None /\ cookie'.visitor = None))
    /\ UNCHANGED <<event, owner, live, loads>>

\* The session timeout of a project elapses.
Expire(s) ==
    /\ s \in live
    /\ mishaps < MaxMishaps
    /\ mishaps' = mishaps + 1
    /\ live' = live \ {s}
    /\ UNCHANGED <<local, cookie, tab, event, owner, loads, divided>>

Next ==
    \/ Clear
    \/ \E s \in SessionIds : Expire(s)
    \/ \E e \in Events : Serve(e)
    \/ \E t \in Tabs :
          \/ Load(t) \/ ReadLocal(t) \/ ReadCookie(t) \/ SetLocal(t) \/ SetCookie(t)
          \/ StickySession(t) \/ Leave(t) \/ Flush(t)
          \/ \E e \in Events : Track(t, e) \/ Drain(t, e) \/ Answer(t, e) \/ Reject(t, e)

Spec == Init /\ [][Next]_vars

-------------------------------------------------------------------------------
\* One browser is one visitor: as long as no load makes up an id while another
\* is at it, and the two copies are never lost together, every tab has the same
\* visitor id, and so have both copies and every event, however loads, losses of
\* one copy, retries and answers interleave.
OneVisitor ==
    ~divided => Cardinality(UsedVisitors \ {None}) <= 1

\* The ids a tab was told go together: the session is the visitor's, in whatever
\* order answers arrive, of other loads' events and of other identities even.
ToldIdsMatch ==
    \A t \in Tabs : tab[t].told /\ tab[t].pc = "open" => owner[tab[t].session] = tab[t].visitor

\* create-event.dto.ts: the sessionId is "generated by tracker.js; absent or
\* expired, it is recovered automatically by the Session Manager".  Events of a
\* visitor that carry the same sessionId are of the same session, as long as no
\* session expires.
SameSessionId ==
    \A e, f \in Events :
        /\ mishaps = 0 /\ event[e].row # None /\ event[f].row # None
        /\ event[e].visitor = event[f].visitor /\ event[e].session = event[f].session
        => event[e].row = event[f].row
================================================================================
