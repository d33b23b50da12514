------------------------- MODULE VolatileState_proofs -------------------------
(***************************************************************************)
(* Proofs about the state that nobody keeps for good, part by part: the    *)
(* circuit breaker, the token cache, the visitors and sessions in Redis,   *)
(* and the last touch, for any requests, visitors, calls and times.        *)
(***************************************************************************)
EXTENDS VolatileState, FiniteSetTheorems, TLAPS

-------------------------------------------------------------------------------
(* The circuit breaker                                                      *)

\* Together these are inductive: the fields agree, and what is half open has
\* cooled down.
Coherent == TypeOK /\ FieldsAgree /\ CoolsDown

LEMMA InitCoherent == Init => Coherent
  BY BreakerAssumption DEF Init, Coherent, TypeOK, FieldsAgree, CoolsDown

LEMMA NextCoherent == Coherent /\ [Next]_vars => Coherent'
<1> SUFFICES ASSUME Coherent, [Next]_vars PROVE Coherent'
  OBVIOUS
<1> USE BreakerAssumption DEF Coherent, TypeOK, FieldsAgree, CoolsDown
<1>1. CASE UNCHANGED vars
  BY <1>1 DEF vars
<1>2. CASE GetState
  BY <1>2 DEF GetState, HalfOpened
<1>3. CASE Tick
  BY <1>3 DEF Tick
<1>4. ASSUME NEW c \in Calls, Execute(c) PROVE Coherent'
  BY <1>4 DEF Execute, HalfOpened
<1>5. ASSUME NEW c \in Calls, Resolve(c) PROVE Coherent'
  BY <1>5 DEF Resolve, OnSuccess
<1>6. ASSUME NEW c \in Calls, Reject(c) PROVE Coherent'
  BY <1>6 DEF Reject, OnFailure
<1> QED BY <1>1, <1>2, <1>3, <1>4, <1>5, <1>6 DEF Next

LEMMA CoherentAlways == Spec => []Coherent
  BY InitCoherent, NextCoherent, PTL DEF Spec

\* However many calls overlap, the state, the count and the opening time agree.
THEOREM FieldsAlwaysAgree == Spec => []FieldsAgree
<1>1. Coherent => FieldsAgree BY DEF Coherent
<1> QED BY <1>1, CoherentAlways, PTL

\* A half open circuit has had its reset timeout.
THEOREM AlwaysCoolsDown == Spec => []CoolsDown
<1>1. Coherent => CoolsDown BY DEF Coherent
<1> QED BY <1>1, CoherentAlways, PTL

\* The decision of execute depends on the opening time alone.
THEOREM RefusalsExact == Spec => RefusesExactlyWhileHot
<1> DEFINE Exact == \A c \in Calls : call[c] = "idle" /\ call'[c] # "idle" =>
          ((call'[c] = "refused") <=>
             (openedAt # None /\ now - openedAt < ResetTimeout))
<1>1. ASSUME Coherent, [Next]_vars PROVE [Exact]_vars
  <2> USE <1>1, BreakerAssumption DEF Coherent, TypeOK, FieldsAgree, CoolsDown
  <2>1. ASSUME NEW d \in Calls, Execute(d) PROVE Exact
    BY <2>1 DEF Execute, HalfOpened
  <2>2. ASSUME NEW d \in Calls, Resolve(d) \/ Reject(d) PROVE Exact
    BY <2>2 DEF Resolve, Reject
  <2>3. CASE GetState \/ Tick
    BY <2>3 DEF GetState, Tick
  <2> QED BY <2>1, <2>2, <2>3 DEF Next
<1> QED
  BY <1>1, CoherentAlways, PTL DEF Spec, RefusesExactlyWhileHot

-------------------------------------------------------------------------------
(* The token cache                                                          *)

\* The cache dates a token by its answer, which came at some time so far.
CacheDated ==
    cached # None =>
        /\ cached.issued + Lifetime <= cached.expiresAt
        /\ cached.expiresAt <= clock + Lifetime

\* A token that is under way was issued at some time so far.
AnswersDated ==
    \A s \in Sends : send[s].pc = "issued" => send[s].token \in Nat /\ send[s].token <= clock

\* An upload began with a token that had, as the cache reckons, more than the
\* margin to live, or was just answered; and it has not outlived its timeout.
UploadsDated ==
    \A s \in Sends : send[s].pc = "uploading" =>
        /\ send[s].token \in Nat
        /\ clock <= send[s].since + Timeout
        /\ send[s].since + Margin < send[s].token + send[s].late + Lifetime

Dated == Token!TypeOK /\ CacheDated /\ AnswersDated /\ UploadsDated

LEMMA InitDated == ASSUME Token!Times PROVE Token!Init => Dated
  BY
        DEF Token!Times, Token!Init, Dated, Token!TypeOK, CacheDated, AnswersDated, UploadsDated,
             Token!Send

\* Whatever send uploads next began it with a token that has its time.
LEMMA UploadingDated ==
    ASSUME Token!Times, Dated, NEW s \in Sends, NEW token \in Nat, NEW late \in Nat,
           send' = Token!Uploading(s, token, late), clock' = clock,
           clock + Margin < token + late + Lifetime
    PROVE  send' \in [Sends -> Token!Send] /\ AnswersDated' /\ UploadsDated'
<1> DEFINE new == [pc |-> "uploading", token |-> token, late |-> late, since |-> clock]
<1>1. send' = [send EXCEPT ![s] = new] BY DEF Token!Uploading
<1>2. clock \in Nat BY DEF Token!Times, Dated, Token!TypeOK
<1>3. new \in Token!Send BY <1>2 DEF Token!Send
<1>4. send' \in [Sends -> Token!Send] BY <1>1, <1>3 DEF Dated, Token!TypeOK
<1>5. new.pc = "uploading" /\ new.token = token /\ new.late = late /\ new.since = clock
  OBVIOUS
<1>6. \A r \in Sends : send'[r] = IF r = s THEN new ELSE send[r]
  BY <1>1 DEF Dated, Token!TypeOK
<1> HIDE DEF new
<1>7. AnswersDated' BY <1>5, <1>6 DEF Dated, AnswersDated
<1>8. UploadsDated'
  BY <1>2, <1>5, <1>6 DEF Token!Times, Dated, UploadsDated
<1> QED BY <1>4, <1>7, <1>8

LEMMA NextDated == ASSUME Token!Times PROVE Dated /\ [Token!Next]_Token!vars => Dated'
<1> SUFFICES ASSUME Dated, [Token!Next]_Token!vars PROVE Dated'
  OBVIOUS
<1> USE DEF Dated
<1>1. CASE UNCHANGED Token!vars
  BY <1>1 DEF Token!vars, Token!TypeOK, CacheDated, AnswersDated, UploadsDated
<1>2. CASE Token!Tick
  <2>1. Token!TypeOK' BY <1>2 DEF Token!Tick, Token!TypeOK, Token!Times
  <2>2. CacheDated' BY <1>2 DEF Token!Tick, Token!TypeOK, CacheDated, Token!Times, Token!Token
  <2>3. AnswersDated' BY <1>2 DEF Token!Tick, Token!TypeOK, AnswersDated, Token!Times
  <2>4. UploadsDated'
    BY <1>2 DEF Token!Tick, Token!TypeOK, UploadsDated, Token!Times, Token!Send
  <2> QED BY <2>1, <2>2, <2>3, <2>4
<1>3. ASSUME NEW s \in Sends, Token!Reuse(s) PROVE Dated'
  <2> DEFINE late == cached.expiresAt - Lifetime - cached.issued
  <2>1. cached \in Token!Token BY <1>3 DEF Token!Reuse, Token!Usable, Token!TypeOK
  <2>2. cached.issued \in Nat /\ late \in Nat
    BY <2>1, <1>3 DEF Token!Token, Token!Times, CacheDated, Token!Reuse, Token!Usable
  <2>3. clock + Margin < cached.issued + late + Lifetime
    BY <2>1, <2>2, <1>3 DEF Token!Reuse, Token!Usable, Token!Token, Token!Times, Token!TypeOK
  <2>4. send' = Token!Uploading(s, cached.issued, late) /\ clock' = clock /\ cached' = cached
    BY <1>3 DEF Token!Reuse
  <2> HIDE DEF late
  <2>5. send' \in [Sends -> Token!Send] /\ AnswersDated' /\ UploadsDated'
    BY <2>2, <2>3, <2>4, UploadingDated
  <2> QED BY <2>4, <2>5 DEF Token!TypeOK, CacheDated
<1>4. ASSUME NEW s \in Sends, Token!Ask(s) \/ Token!Issue(s) \/ Token!Fail(s) \/ Token!Uploaded(s)
      PROVE  Dated'
  <2>1. /\ UNCHANGED <<cached, clock>>
        /\ \E pc \in {"asking", "issued", "ended"}, token \in Nat \cup {None} :
              /\ send' = [send EXCEPT ![s] = [@ EXCEPT !.pc = pc, !.token = token]]
              /\ pc = "issued" => token = clock
    <3>1. send[s] \in Token!Send BY DEF Token!TypeOK
    <3>2. clock \in Nat BY DEF Token!TypeOK, Token!Times
    <3>3. CASE Token!Issue(s)
      BY <3>1, <3>2, <3>3 DEF Token!Issue, Token!TypeOK, Token!Send
    <3>4. CASE Token!Ask(s)
      BY <3>1, <3>4 DEF Token!Ask, Token!TypeOK, Token!Send
    <3>5. CASE Token!Fail(s)
      BY <3>1, <3>5 DEF Token!Fail, Token!TypeOK, Token!Send
    <3>6. CASE Token!Uploaded(s)
      BY <3>1, <3>6 DEF Token!Uploaded, Token!TypeOK, Token!Send
    <3> QED BY <1>4, <3>3, <3>4, <3>5, <3>6
  <2>2. PICK pc \in {"asking", "issued", "ended"}, token \in Nat \cup {None} :
              /\ send' = [send EXCEPT ![s] = [@ EXCEPT !.pc = pc, !.token = token]]
              /\ pc = "issued" => token = clock
    BY <2>1
  <2>3. clock \in Nat BY DEF Token!TypeOK, Token!Times
  <2>4. Token!TypeOK' BY <2>1, <2>2 DEF Token!TypeOK, Token!Send
  <2>5. CacheDated' BY <2>1 DEF CacheDated
  <2>6. AnswersDated' BY <2>1, <2>2, <2>3 DEF AnswersDated, Token!TypeOK, Token!Send
  <2>7. UploadsDated' BY <2>1, <2>2 DEF UploadsDated, Token!TypeOK, Token!Send
  <2> QED BY <2>4, <2>5, <2>6, <2>7
<1>5. ASSUME NEW s \in Sends, Token!Answer(s) PROVE Dated'
  <2> DEFINE late == clock - send[s].token
  <2>1. send[s].token \in Nat /\ late \in Nat
    BY <1>5 DEF Token!Answer, AnswersDated, Token!TypeOK, Token!Times
  <2>2. clock + Margin < send[s].token + late + Lifetime
    BY <2>1 DEF Token!Times, Token!TypeOK
  <2>3. send' = Token!Uploading(s, send[s].token, late) /\ clock' = clock
    BY <1>5 DEF Token!Answer
  <2>4. cached' = [issued |-> send[s].token, expiresAt |-> clock + Lifetime]
    BY <1>5 DEF Token!Answer
  <2>5. cached' \in Token!Token BY <2>1, <2>4 DEF Token!Token, Token!TypeOK, Token!Times
  <2>6. CacheDated' BY <2>1, <2>3, <2>4 DEF CacheDated, Token!TypeOK, Token!Times
  <2> HIDE DEF late
  <2>7. send' \in [Sends -> Token!Send] /\ AnswersDated' /\ UploadsDated'
    BY <2>1, <2>2, <2>3, UploadingDated
  <2> QED BY <2>3, <2>5, <2>6, <2>7 DEF Token!TypeOK
<1> QED BY <1>1, <1>2, <1>3, <1>4, <1>5 DEF Token!Next

LEMMA DatedAlways == Token!Spec => []Dated
  BY InitDated, NextDated, TimesAssumption, PTL DEF Token!Spec

LEMMA DatedIsValid == ASSUME Token!Times PROVE Dated => Token!TokensValid
<1> SUFFICES ASSUME Dated, NEW s \in Sends, send[s].pc = "uploading",
                    send[s].late + Timeout <= Margin
             PROVE  clock < send[s].token + Lifetime
  BY DEF Token!TokensValid
<1>1. /\ send[s].token \in Nat /\ send[s].late \in Nat /\ send[s].since \in Nat
      /\ clock \in Nat
  BY DEF Dated, Token!TypeOK, UploadsDated, Token!Send, Token!Times
<1> QED BY <1>1 DEF Dated, UploadsDated, Token!Times

\* No conversion is uploaded with a token that Google no longer takes, however many
\* sends renew the token at once and in whatever order its answers arrive, as long
\* as the margin covers the upload and the answer's own delay.
THEOREM TokensStayValid == Token!Spec => []TokensValid
<1>1. Dated => TokensValid BY DatedIsValid, TimesAssumption DEF TokensValid
<1> QED BY <1>1, DatedAlways, PTL

-------------------------------------------------------------------------------
(* Visitors and sessions                                                    *)

\* What a request has in hand at each of its places.
Shaped(x) ==
    /\ x.pc = "new" => x.visitor = None
    /\ x.pc \notin {"new", "ignored", "threw"} => x.visitor \in Visitors
    /\ x.pc \in {"new", "ignored", "threw", "getVisitor"} => x.existing = None /\ ~x.isNewVisitor
    /\ x.pc = "setVisitor" => (x.isNewVisitor <=> x.existing = None)
    /\ x.existing # None => ~x.isNewVisitor
    /\ x.pc \in {"new", "ignored", "threw", "getVisitor", "setVisitor", "expireVisitor",
                  "session", "setSession"}
          => x.session = None /\ ~x.isNewSession
    /\ x.isNewSession => x.session # None
    /\ x.pc = "touchSession" => x.session # None
    /\ x.pc \in {"expireSession", "getCount", "setCount", "expireCount"} => x.isNewSession
    /\ x.pc \in {"getCount", "setCount", "expireCount"} => ~x.isNewVisitor
    /\ x.pc = "setCount" => x.existing # None
    /\ x.pc \in {"new", "ignored", "threw", "getVisitor", "setVisitor"} => ~x.written
    /\ x.pc = "new" => x.before = {}

\* A returning visitor's request that has been through incrementSessionCount.
Counts(x) == /\ x.isNewSession /\ ~x.isNewVisitor
             /\ x.pc \notin {"expireSession", "getCount", "setCount"}

\* What no step of a request takes back.
Grows(x, y) ==
    /\ y.pc # "new"
    /\ x.pc # "new" => y.visitor = x.visitor
    /\ x.session # None => y.session = x.session
    /\ x.pc \notin {"session", "setSession"} => y.session = x.session
    /\ x.isNewSession => y.isNewSession
    /\ x.isNewVisitor => y.isNewVisitor
    /\ x.unexpired => y.unexpired
    /\ x.written => y.written
    /\ x.pc \notin {"setVisitor", "setCount"} => y.written = x.written
    /\ x.pc # "getVisitor" => y.isNewVisitor = x.isNewVisitor
    /\ Counts(x) \/ x.pc = "setCount" => Counts(y)

\* A copy in hand is one it had, or what Redis holds.
Reads(x, y) ==
    y.existing # None =>
        \/ y.existing = x.existing
        \/ x.visitor \in Visitors /\ y.existing = visitorHash[x.visitor]

\* Whom a request that begins finds ended, of its visitor.
EndedOf(v) == {q \in Requests : request[q].pc \in Visit!Ended /\ request[q].visitor = v}

Begins(x, y) ==
    y.before = IF x.pc = "new" /\ y.pc = "getVisitor" THEN EndedOf(y.visitor) ELSE x.before

\* The request of r goes from x to y.
VisitGoes(r, x, y) ==
    /\ request[r] = x
    /\ request' = [request EXCEPT ![r] = y]
    /\ x \in Visit!RequestState /\ y \in Visit!RequestState
    /\ Shaped(x) /\ Shaped(y) /\ Grows(x, y) /\ Reads(x, y)
    /\ Begins(x, y) /\ x.pc \notin Visit!Ended

VisitSound == Visit!TypeOK /\ \A r \in Requests : Shaped(request[r])

LEMMA ReadsHash ==
    ASSUME VisitSound, NEW v \in Visitors, NEW h \in Visit!Read(visitorHash[v])
    PROVE  h \in Visit!VisitorHash \cup {None} /\ (h # None => h = visitorHash[v])
  BY DEF VisitSound, Visit!TypeOK, Visit!Read

LEMMA ReadsSession ==
    ASSUME VisitSound, NEW s \in SessionIds, NEW h \in Visit!Read(sessionHash[s])
    PROVE  h \in Visit!SessionHash \cup {None} /\ (h # None => h = sessionHash[s])
  BY DEF VisitSound, Visit!TypeOK, Visit!Read

LEMMA SetHashGoes ==
    ASSUME VisitSound, NEW r \in Requests, NEW hash,
           NEW expire \in {"expireVisitor", "expireCount"}, NEW past \in {"session", "finish"},
           \/ request[r].pc = "setVisitor" /\ expire = "expireVisitor" /\ past = "session"
           \/ request[r].pc = "setCount" /\ expire = "expireCount" /\ past = "finish",
           Visit!SetHash(r, expire, past, hash)
    PROVE  \E y \in Visit!RequestState : VisitGoes(r, request[r], y)
<1> DEFINE x == request[r]
<1>1. x \in Visit!RequestState /\ Shaped(x) BY DEF VisitSound, Visit!TypeOK
<1>2. PICK reply \in Reply :
        request' = [request EXCEPT ![r] = [x EXCEPT
              !.pc = IF reply = "ok" THEN expire ELSE past,
              !.written = (x.written \/ reply # "refused"),
              !.unexpired = (x.unexpired \/ reply = "lost")]]
  BY <1>1, Zenon DEF Visit!SetHash, VisitSound, Visit!TypeOK
<1> DEFINE pc == IF reply = "ok" THEN expire ELSE past
           un == (x.unexpired \/ reply = "lost")
           wr == (x.written \/ reply # "refused")
           y == [x EXCEPT !.pc = pc, !.written = wr, !.unexpired = un]
<1>3. /\ pc \in {expire, past} /\ un \in BOOLEAN /\ (x.unexpired => un)
      /\ wr \in BOOLEAN /\ (x.written => wr)
  OBVIOUS
<1>4. request' = [request EXCEPT ![r] = y] BY <1>2
<1> HIDE DEF pc, un, wr
<1>5. y \in Visit!RequestState BY <1>1, <1>3 DEF Visit!RequestState
<1>6. /\ Shaped(y) /\ Grows(x, y) /\ Reads(x, y) /\ Begins(x, y)
      /\ x.pc \notin Visit!Ended
  BY <1>1, <1>3 DEF Shaped, Grows, Reads, Counts, Begins, Visit!RequestState,
                    Visit!Ended, Visit!Answered
<1> QED BY <1>1, <1>4, <1>5, <1>6 DEF VisitGoes

LEMMA ExpireHashGoes ==
    ASSUME VisitSound, NEW r \in Requests, NEW next \in {"session", "finish"},
           \/ request[r].pc = "expireVisitor" /\ next = "session"
           \/ request[r].pc = "expireCount" /\ next = "finish",
           Visit!ExpireHash(r, next)
    PROVE  \E y \in Visit!RequestState : VisitGoes(r, request[r], y)
<1> DEFINE x == request[r]
<1>1. x \in Visit!RequestState /\ Shaped(x) BY DEF VisitSound, Visit!TypeOK
<1>2. PICK reply \in Reply :
        request' = [request EXCEPT ![r] = [x EXCEPT !.pc = next,
              !.unexpired = (x.unexpired \/ reply = "refused")]]
  BY <1>1, Zenon DEF Visit!ExpireHash, VisitSound, Visit!TypeOK
<1> DEFINE un == (x.unexpired \/ reply = "refused")
           y == [x EXCEPT !.pc = next, !.unexpired = un]
<1>3. un \in BOOLEAN /\ (x.unexpired => un) OBVIOUS
<1>4. request' = [request EXCEPT ![r] = y] BY <1>2
<1> HIDE DEF un
<1>5. y \in Visit!RequestState BY <1>1, <1>3 DEF Visit!RequestState
<1>6. /\ Shaped(y) /\ Grows(x, y) /\ Reads(x, y) /\ Begins(x, y)
      /\ x.pc \notin Visit!Ended
  BY <1>1, <1>3 DEF Shaped, Grows, Reads, Counts, Begins, Visit!RequestState,
                    Visit!Ended, Visit!Answered
<1> QED BY <1>1, <1>4, <1>5, <1>6 DEF VisitGoes

\* Every step of a request.
LEMMA VisitStepGoes ==
    ASSUME VisitSound, NEW r \in Requests, Visit!RequestStep(r) \/ Visit!Crash(r)
    PROVE  \E y \in Visit!RequestState : VisitGoes(r, request[r], y)
<1> DEFINE x == request[r]
<1>0. x \in Visit!RequestState /\ Shaped(x) /\ x.pc \notin Visit!Ended
  <2>1. x.pc \notin Visit!Ended
    BY DEF Visit!RequestStep, Visit!Start, Visit!Refuse, Visit!GetVisitor, Visit!SetVisitor,
           Visit!ExpireVisitor, Visit!GetSession, Visit!NoSessionSent, Visit!TouchSession,
           Visit!SetSession, Visit!ExpireSession, Visit!GetCount, Visit!SetCount,
           Visit!ExpireCount, Visit!Finish, Visit!Crash, Visit!Ended, Visit!Answered
  <2> QED BY <2>1 DEF VisitSound, Visit!TypeOK
<1> USE DEF VisitGoes
<1>1. CASE Visit!Start(r)
  <2>1. PICK v \in Visitors, s \in Visit!Issued \cup {None} :
          request' = [request EXCEPT ![r] = [x EXCEPT !.pc = "getVisitor",
              !.visitor = v, !.sent = s, !.before = EndedOf(v)]]
    BY <1>1, <1>0, Zenon DEF Visit!Start, VisitSound, Visit!TypeOK, EndedOf, Visit!Visitor
  <2>2. s \in SessionIds \cup {None}
    BY <2>1 DEF Visit!Issued, VisitSound, Visit!TypeOK, Visit!RequestState
  <2> DEFINE y == [x EXCEPT !.pc = "getVisitor", !.visitor = v, !.sent = s,
                            !.before = EndedOf(v)]
  <2>3. y \in Visit!RequestState
    <3>1. EndedOf(v) \in SUBSET Requests BY DEF EndedOf
    <3> QED BY <1>0, <2>2, <3>1 DEF Visit!RequestState
  <2>4. Shaped(y) /\ Grows(x, y) /\ Reads(x, y) /\ Begins(x, y)
    BY <1>0, <1>1 DEF Visit!Start, Shaped, Grows, Reads, Counts, Begins, Visit!RequestState
  <2> QED BY <1>0, <2>1, <2>3, <2>4
<1>2. CASE Visit!Refuse(r) \/ Visit!Finish(r) \/ Visit!NoSessionSent(r)
  <2>1. PICK pc \in {"ignored", "threw", "ok", "event", "setSession"} :
          /\ request' = [request EXCEPT ![r] = [x EXCEPT !.pc = pc]]
          /\ \/ x.pc = "new" /\ pc \in {"ignored", "threw"}
             \/ x.pc = "finish" /\ pc \in {"ok", "event"}
             \/ x.pc = "session" /\ pc = "setSession"
    <3>1. CASE Visit!Refuse(r)
      BY <3>1, <1>0, Zenon DEF Visit!Refuse, VisitSound, Visit!TypeOK
    <3>2. CASE Visit!Finish(r)
      BY <3>2, <1>0, Zenon DEF Visit!Finish, VisitSound, Visit!TypeOK
    <3>3. CASE Visit!NoSessionSent(r)
      BY <3>3, <1>0, Zenon DEF Visit!NoSessionSent, VisitSound, Visit!TypeOK
    <3> QED BY <1>2, <3>1, <3>2, <3>3
  <2> DEFINE y == [x EXCEPT !.pc = pc]
  <2>3. y \in Visit!RequestState BY <1>0, <2>1 DEF Visit!RequestState, Visit!Ended, Visit!Answered
  <2>4. Shaped(y) /\ Grows(x, y) /\ Reads(x, y) /\ Begins(x, y)
    BY <1>0, <2>1 DEF Shaped, Grows, Reads, Counts, Begins, Visit!RequestState
  <2> QED BY <1>0, <2>1, <2>3, <2>4
<1>3. CASE Visit!GetVisitor(r)
  <2>1. x.visitor \in Visitors /\ x.pc = "getVisitor"
    BY <1>0, <1>3 DEF Shaped, Visit!GetVisitor
  <2>2. PICK h \in Visit!Read(visitorHash[x.visitor]) :
          request' = [request EXCEPT ![r] = [x EXCEPT !.pc = "setVisitor",
              !.existing = h, !.isNewVisitor = (h = None)]]
    BY <1>3, <1>0, Zenon DEF Visit!GetVisitor, Visit!Visitor, VisitSound, Visit!TypeOK
  <2>3. h \in Visit!VisitorHash \cup {None} /\ (h # None => h = visitorHash[x.visitor])
    BY <2>1, ReadsHash
  <2> DEFINE b == (h = None)
             y == [x EXCEPT !.pc = "setVisitor", !.existing = h, !.isNewVisitor = b]
  <2>4. b \in BOOLEAN /\ (b <=> h = None) OBVIOUS
  <2>5. request' = [request EXCEPT ![r] = y] BY <2>2
  <2> HIDE DEF b
  <2>6. y \in Visit!RequestState BY <1>0, <2>3, <2>4 DEF Visit!RequestState
  <2>7. Shaped(y) /\ Grows(x, y) /\ Reads(x, y) /\ Begins(x, y)
    BY <1>0, <2>1, <2>3, <2>4 DEF Shaped, Grows, Reads, Counts, Begins, Visit!RequestState
  <2> QED BY <1>0, <2>5, <2>6, <2>7
<1>4. CASE Visit!SetVisitor(r)
  BY <1>4, SetHashGoes, Zenon DEF Visit!SetVisitor
<1>5. CASE Visit!ExpireVisitor(r)
  BY <1>5, ExpireHashGoes, Zenon DEF Visit!ExpireVisitor
<1>6. CASE Visit!GetSession(r)
  <2>1. x.pc = "session" /\ x.sent \in SessionIds
    BY <1>0, <1>6 DEF Visit!GetSession, Visit!RequestState
  <2>2. \/ request' = [request EXCEPT ![r] = [x EXCEPT !.pc = "touchSession", !.session = x.sent]]
        \/ request' = [request EXCEPT ![r] = [x EXCEPT !.pc = "setSession"]]
    BY <1>6, <1>0, Zenon DEF Visit!GetSession, VisitSound, Visit!TypeOK
  <2>3. CASE request' =
               [request EXCEPT ![r] = [x EXCEPT !.pc = "touchSession", !.session = x.sent]]
    <3> DEFINE y == [x EXCEPT !.pc = "touchSession", !.session = x.sent]
    <3>1. y \in Visit!RequestState BY <1>0, <2>1 DEF Visit!RequestState
    <3>2. Shaped(y) /\ Grows(x, y) /\ Reads(x, y) /\ Begins(x, y)
      BY <1>0, <2>1, VisitAssumption DEF Shaped, Grows, Reads, Counts, Begins, Visit!RequestState
    <3> QED BY <1>0, <2>3, <3>1, <3>2
  <2>4. CASE request' = [request EXCEPT ![r] = [x EXCEPT !.pc = "setSession"]]
    <3> DEFINE y == [x EXCEPT !.pc = "setSession"]
    <3>1. y \in Visit!RequestState BY <1>0 DEF Visit!RequestState
    <3>2. Shaped(y) /\ Grows(x, y) /\ Reads(x, y) /\ Begins(x, y)
      BY <1>0, <2>1 DEF Shaped, Grows, Reads, Counts, Begins, Visit!RequestState
    <3> QED BY <1>0, <2>4, <3>1, <3>2
  <2> QED BY <2>2, <2>3, <2>4
<1>7. CASE Visit!TouchSession(r)
  <2> DEFINE y == [x EXCEPT !.pc = "finish"]
  <2>1. request' = [request EXCEPT ![r] = y] /\ x.pc = "touchSession"
    BY <1>7, <1>0, Zenon DEF Visit!TouchSession, VisitSound, Visit!TypeOK
  <2>2. y \in Visit!RequestState BY <1>0 DEF Visit!RequestState
  <2>3. Shaped(y) /\ Grows(x, y) /\ Reads(x, y) /\ Begins(x, y)
    BY <1>0, <2>1 DEF Shaped, Grows, Reads, Counts, Begins, Visit!RequestState
  <2> QED BY <1>0, <2>1, <2>2, <2>3
<1>8. CASE Visit!SetSession(r)
  <2>1. x.pc = "setSession" BY <1>8 DEF Visit!SetSession
  <2>2. PICK s \in SessionIds, reply \in Reply :
          request' = [request EXCEPT ![r] = [x EXCEPT
                !.pc = IF reply = "ok" THEN "expireSession" ELSE Visit!AfterSession(r),
                !.session = s, !.isNewSession = TRUE,
                !.unexpired = (x.unexpired \/ reply = "lost")]]
    BY <1>8, <1>0, Zenon DEF Visit!SetSession, VisitSound, Visit!TypeOK
  <2> DEFINE pc == IF reply = "ok" THEN "expireSession" ELSE Visit!AfterSession(r)
             un == (x.unexpired \/ reply = "lost")
             y == [x EXCEPT !.pc = pc, !.session = s, !.isNewSession = TRUE, !.unexpired = un]
  <2>3. /\ un \in BOOLEAN /\ (x.unexpired => un)
        /\ pc \in {"expireSession", "finish", "getCount"}
        /\ pc = "getCount" => ~x.isNewVisitor
    BY DEF Visit!AfterSession
  <2>30. pc = "finish" => x.isNewVisitor BY DEF Visit!AfterSession
  <2>4. request' = [request EXCEPT ![r] = y] BY <2>2
  <2> HIDE DEF pc, un
  <2>5. y \in Visit!RequestState BY <1>0, <2>3 DEF Visit!RequestState
  <2>6. Shaped(y) /\ Grows(x, y) /\ Reads(x, y) /\ Begins(x, y)
    BY <1>0, <2>1, <2>3, <2>30, VisitAssumption
          DEF Shaped, Grows, Reads, Counts, Begins, Visit!RequestState
  <2> QED BY <1>0, <2>4, <2>5, <2>6
<1>9. CASE Visit!ExpireSession(r)
  <2>1. x.pc = "expireSession" BY <1>9 DEF Visit!ExpireSession
  <2>2. PICK reply \in Reply :
          request' = [request EXCEPT ![r] = [x EXCEPT !.pc = Visit!AfterSession(r),
                !.unexpired = (x.unexpired \/ reply = "refused")]]
    BY <1>9, <1>0, Zenon DEF Visit!ExpireSession, VisitSound, Visit!TypeOK
  <2> DEFINE pc == Visit!AfterSession(r)
             un == (x.unexpired \/ reply = "refused")
             y == [x EXCEPT !.pc = pc, !.unexpired = un]
  <2>3. /\ un \in BOOLEAN /\ (x.unexpired => un)
        /\ pc \in {"finish", "getCount"}
        /\ pc = "getCount" => ~x.isNewVisitor
    BY DEF Visit!AfterSession
  <2>4. request' = [request EXCEPT ![r] = y] BY <2>2
  <2> HIDE DEF pc, un
  <2>5. y \in Visit!RequestState BY <1>0, <2>3 DEF Visit!RequestState
  <2>6. Shaped(y) /\ Grows(x, y) /\ Reads(x, y) /\ Begins(x, y)
    BY <1>0, <2>1, <2>3 DEF Shaped, Grows, Reads, Counts, Begins, Visit!RequestState
  <2> QED BY <1>0, <2>4, <2>5, <2>6
<1>10. CASE Visit!GetCount(r)
  <2>1. x.visitor \in Visitors /\ x.pc = "getCount" BY <1>0, <1>10 DEF Shaped, Visit!GetCount
  <2>2. PICK h \in Visit!Read(visitorHash[x.visitor]) :
          request' = [request EXCEPT ![r] = [x EXCEPT
              !.pc = IF h = None THEN "finish" ELSE "setCount", !.existing = h]]
    BY <1>10, <1>0, Zenon DEF Visit!GetCount, Visit!Visitor, VisitSound, Visit!TypeOK
  <2>3. h \in Visit!VisitorHash \cup {None} /\ (h # None => h = visitorHash[x.visitor])
    BY <2>1, ReadsHash
  <2> DEFINE pc == IF h = None THEN "finish" ELSE "setCount"
             y == [x EXCEPT !.pc = pc, !.existing = h]
  <2>4. pc \in {"finish", "setCount"} /\ (pc = "setCount" => h # None) OBVIOUS
  <2>5. request' = [request EXCEPT ![r] = y] BY <2>2
  <2> HIDE DEF pc
  <2>6. y \in Visit!RequestState BY <1>0, <2>3, <2>4 DEF Visit!RequestState
  <2>7. Shaped(y) /\ Grows(x, y) /\ Reads(x, y) /\ Begins(x, y)
    BY <1>0, <2>1, <2>3, <2>4 DEF Shaped, Grows, Reads, Counts, Begins, Visit!RequestState
  <2> QED BY <1>0, <2>5, <2>6, <2>7
<1>11. CASE Visit!SetCount(r)
  BY <1>11, SetHashGoes, Zenon DEF Visit!SetCount
<1>12. CASE Visit!ExpireCount(r)
  BY <1>12, ExpireHashGoes, Zenon DEF Visit!ExpireCount
<1>13. CASE Visit!Crash(r)
  <2> DEFINE un == (x.unexpired \/ x.pc \in {"expireVisitor", "expireSession", "expireCount"})
             y == [x EXCEPT !.pc = "crashed", !.unexpired = un]
  <2>1. x.pc \notin {"new", "ignored", "threw"} BY <1>13 DEF Visit!Crash, Visit!Ended, Visit!Answered
  <2>2. un \in BOOLEAN /\ (x.unexpired => un) OBVIOUS
  <2>3. request' = [request EXCEPT ![r] = y]
    BY <1>13, <1>0, Zenon DEF Visit!Crash, VisitSound, Visit!TypeOK
  <2> HIDE DEF un
  <2>4. y \in Visit!RequestState BY <1>0, <2>2 DEF Visit!RequestState, Visit!Ended
  <2>5. Shaped(y) /\ Grows(x, y) /\ Reads(x, y) /\ Begins(x, y)
    BY <1>0, <2>1, <2>2 DEF Shaped, Grows, Reads, Counts, Begins, Visit!RequestState
  <2> QED BY <1>0, <2>3, <2>4, <2>5
<1> QED BY <1>1, <1>2, <1>3, <1>4, <1>5, <1>6, <1>7, <1>8, <1>9, <1>10, <1>11, <1>12, <1>13
        DEF Visit!RequestStep

-------------------------------------------------------------------------------
\* Somebody is about to set the expiry, or failed to.
VisitorDue(x) == x.pc \in {"expireVisitor", "expireCount"} \/ x.unexpired
SessionDue(x) == x.pc = "expireSession" \/ x.unexpired

\* What r makes of its visitor's hash, with x in hand: it sets the expiry, writes
\* a first visit, or writes a copy back, with or without a session more.
Writes(r, x, h) ==
    \/ /\ x.pc \in {"expireVisitor", "expireCount"} /\ visitorHash[x.visitor] # None
       /\ h.sessionCount = visitorHash[x.visitor].sessionCount
       /\ h.firstSeenAt = visitorHash[x.visitor].firstSeenAt
    \/ /\ x.pc = "setVisitor" /\ x.existing = None
       /\ h.sessionCount = 0 /\ h.firstSeenAt = r
    \/ /\ x.existing # None
       /\ h.sessionCount = x.existing.sessionCount /\ h.firstSeenAt = x.existing.firstSeenAt
    \/ /\ x.pc = "setCount"
       /\ h.sessionCount = x.existing.sessionCount + 1
       /\ h.firstSeenAt = x.existing.firstSeenAt

\* A step of r from x to y, as the visitor's hash sees it ...
VisitorMoves(r, x, y) ==
    \/ /\ visitorHash' = visitorHash /\ (y.written => x.written)
       /\ VisitorDue(x) => VisitorDue(y) \/ visitorHash[x.visitor] = None
    \/ /\ x.visitor \in Visitors /\ x.pc # "new"
       /\ \E h \in Visit!VisitorHash :
             /\ visitorHash' = [visitorHash EXCEPT ![x.visitor] = h]
             /\ h.ttl \/ VisitorDue(y)
             /\ Writes(r, x, h)

\* ... and as the sessions see it: none is touched, one is renewed, one is begun,
\* one is given its expiry.
SessionMoves(x, y) ==
    \/ /\ sessionHash' = sessionHash /\ y.session = x.session
       /\ SessionDue(x) => SessionDue(y) \/ x.session = None \/ sessionHash[x.session] = None
    \/ /\ sessionHash' = sessionHash /\ x.session = None /\ y.session \in SessionIds
       /\ sessionHash[y.session] # None
       /\ sessionHash[y.session].visitor = y.visitor
    \/ /\ x.session = None /\ y.session \in SessionIds
       /\ \A q \in Requests : request[q].session # y.session
       /\ \/ sessionHash' = sessionHash
          \/ /\ sessionHash' = [sessionHash EXCEPT ![y.session] =
                                  [visitor |-> y.visitor, ttl |-> FALSE]]
             /\ SessionDue(y)
    \/ /\ y.session = x.session /\ x.session \in SessionIds
       /\ sessionHash[x.session] # None
       /\ sessionHash' = [sessionHash EXCEPT ![x.session] =
                            [sessionHash[x.session] EXCEPT !.ttl = TRUE]]

VisitMoves(r, x, y) == VisitGoes(r, x, y) /\ VisitorMoves(r, x, y) /\ SessionMoves(x, y)

LEMMA HsetMoves ==
    ASSUME VisitSound, NEW r \in Requests, NEW hash, NEW y,
           hash.sessionCount \in Nat, hash.firstSeenAt \in Requests,
           NEW expire \in {"expireVisitor", "expireCount"}, NEW past \in {"session", "finish"},
           request[r].pc \in {"setVisitor", "setCount"},
           request' = [request EXCEPT ![r] = y],
           Visit!SetHash(r, expire, past, hash),
           \A h : h.sessionCount = hash.sessionCount /\ h.firstSeenAt = hash.firstSeenAt
              => Writes(r, request[r], h)
    PROVE  VisitorMoves(r, request[r], y)
<1> DEFINE x == request[r]
<1>1. x \in Visit!RequestState /\ x.visitor \in Visitors /\ y = request'[r]
  BY DEF VisitSound, Visit!TypeOK, Shaped
<1>2. PICK reply \in Reply :
        /\ IF reply = "refused" THEN UNCHANGED visitorHash ELSE Visit!Hset(Visit!Visitor(r), hash)
        /\ request' = [request EXCEPT ![r] = [x EXCEPT
              !.pc = IF reply = "ok" THEN expire ELSE past,
              !.written = (x.written \/ reply # "refused"),
              !.unexpired = (x.unexpired \/ reply = "lost")]]
  BY <1>1, Zenon DEF Visit!SetHash, VisitSound, Visit!TypeOK
<1>3. /\ y.pc = (IF reply = "ok" THEN expire ELSE past)
      /\ y.unexpired <=> x.unexpired \/ reply = "lost"
      /\ y.written <=> x.written \/ reply # "refused"
  <2> DEFINE pc == IF reply = "ok" THEN expire ELSE past
             un == (x.unexpired \/ reply = "lost")
             wr == (x.written \/ reply # "refused")
  <2>1. request' = [request EXCEPT ![r] = [x EXCEPT !.pc = pc, !.written = wr, !.unexpired = un]]
    BY <1>2
  <2> HIDE DEF pc, un, wr
  <2>2. y = [x EXCEPT !.pc = pc, !.written = wr, !.unexpired = un]
    BY <1>1, <2>1 DEF VisitSound, Visit!TypeOK
  <2>3. y.pc = pc /\ y.unexpired = un /\ y.written = wr BY <1>1, <2>2 DEF Visit!RequestState
  <2> QED BY <2>3 DEF pc, un, wr
<1>4. CASE reply = "refused"
  BY <1>1, <1>2, <1>3, <1>4 DEF VisitorMoves, VisitorDue
<1>5. CASE reply # "refused"
  <2> DEFINE expiry == IF visitorHash[x.visitor] = None THEN FALSE ELSE visitorHash[x.visitor].ttl
             h == [sessionCount |-> hash.sessionCount, firstSeenAt |-> hash.firstSeenAt,
                   ttl |-> expiry]
  <2>1. visitorHash' = [visitorHash EXCEPT ![x.visitor] = h]
    BY <1>2, <1>5 DEF Visit!Hset, Visit!Visitor
  <2>2. expiry \in BOOLEAN BY <1>1 DEF VisitSound, Visit!TypeOK, Visit!VisitorHash
  <2>3. h \in Visit!VisitorHash BY <2>2 DEF Visit!VisitorHash
  <2>4. Writes(r, x, h) OBVIOUS
  <2>5. h.ttl \/ VisitorDue(y)
    <3>1. CASE reply = "ok" BY <1>3, <3>1 DEF VisitorDue
    <3>2. CASE reply = "lost" BY <1>3, <3>2 DEF VisitorDue
    <3> QED BY <1>5, <3>1, <3>2, ReplyAssumption
  <2> QED BY <1>1, <2>1, <2>3, <2>4, <2>5 DEF VisitorMoves
<1> QED BY <1>4, <1>5

LEMMA ExpireMoves ==
    ASSUME VisitSound, NEW r \in Requests, NEW y,
           NEW next \in {"session", "finish"},
           request[r].pc \in {"expireVisitor", "expireCount"},
           request' = [request EXCEPT ![r] = y],
           Visit!ExpireHash(r, next), y.written = request[r].written
    PROVE  VisitorMoves(r, request[r], y)
<1> DEFINE x == request[r]
<1>1. x \in Visit!RequestState /\ x.visitor \in Visitors /\ y = request'[r]
  BY DEF VisitSound, Visit!TypeOK, Shaped
<1>2. PICK reply \in Reply :
        /\ visitorHash' =
              IF reply # "refused" /\ visitorHash[x.visitor] # None
              THEN [visitorHash EXCEPT ![x.visitor] =
                        [visitorHash[x.visitor] EXCEPT !.ttl = TRUE]]
              ELSE visitorHash
        /\ request' = [request EXCEPT ![r] = [x EXCEPT !.pc = next,
              !.unexpired = (x.unexpired \/ reply = "refused")]]
  BY <1>1, Zenon DEF Visit!ExpireHash, Visit!Visitor, VisitSound, Visit!TypeOK
<1>3. y.pc = next /\ (y.unexpired <=> x.unexpired \/ reply = "refused")
  <2> DEFINE un == (x.unexpired \/ reply = "refused")
  <2>1. request' = [request EXCEPT ![r] = [x EXCEPT !.pc = next, !.unexpired = un]] BY <1>2
  <2> HIDE DEF un
  <2>2. y = [x EXCEPT !.pc = next, !.unexpired = un]
    BY <1>1, <2>1 DEF VisitSound, Visit!TypeOK
  <2>3. y.pc = next /\ y.unexpired = un BY <1>1, <2>2 DEF Visit!RequestState
  <2> QED BY <2>3 DEF un
<1>4. CASE reply # "refused" /\ visitorHash[x.visitor] # None
  <2> DEFINE h == [visitorHash[x.visitor] EXCEPT !.ttl = TRUE]
  <2>1. visitorHash[x.visitor] \in Visit!VisitorHash
    BY <1>1, <1>4 DEF VisitSound, Visit!TypeOK
  <2>2. h \in Visit!VisitorHash /\ h.ttl BY <2>1 DEF Visit!VisitorHash
  <2>3. Writes(r, x, h) BY <1>4, <2>1 DEF Writes, Visit!VisitorHash
  <2> QED BY <1>1, <1>2, <1>4, <2>2, <2>3 DEF VisitorMoves
<1>5. CASE ~(reply # "refused" /\ visitorHash[x.visitor] # None)
  BY <1>2, <1>3, <1>5 DEF VisitorMoves, VisitorDue
<1> QED BY <1>4, <1>5

\* Every step of a request moves its visitor's hash and its session as said.
LEMMA VisitStepMoves ==
    ASSUME VisitSound, NEW r \in Requests, Visit!RequestStep(r) \/ Visit!Crash(r)
    PROVE  \E y \in Visit!RequestState : VisitMoves(r, request[r], y)
<1> DEFINE x == request[r]
<1>1. PICK y \in Visit!RequestState : VisitGoes(r, x, y) BY VisitStepGoes
<1>2. /\ x \in Visit!RequestState /\ Shaped(x) /\ Shaped(y) /\ Grows(x, y)
      /\ request' = [request EXCEPT ![r] = y] /\ request'[r] = y
  BY <1>1 DEF VisitGoes, VisitSound, Visit!TypeOK
<1> SUFFICES VisitorMoves(r, x, y) /\ SessionMoves(x, y)
  BY <1>1, Zenon DEF VisitMoves
<1>3. ASSUME visitorHash' = visitorHash,
             x.pc \notin {"setVisitor", "expireVisitor", "setCount", "expireCount"}
      PROVE  VisitorMoves(r, x, y)
  BY <1>2, <1>3 DEF VisitorMoves, VisitorDue, Grows
<1>4. ASSUME sessionHash' = sessionHash, x.pc # "expireSession", y.session = x.session
      PROVE  SessionMoves(x, y)
  BY <1>2, <1>4 DEF SessionMoves, SessionDue, Grows
<1>5. ASSUME Visit!Start(r) \/ Visit!Refuse(r) \/ Visit!Finish(r) \/ Visit!NoSessionSent(r)
             \/ Visit!GetVisitor(r) \/ Visit!GetCount(r)
      PROVE  /\ UNCHANGED <<visitorHash, sessionHash>> /\ y.session = x.session
             /\ x.pc \notin {"setVisitor", "expireVisitor", "setCount", "expireCount",
                             "expireSession"}
  <2>1. CASE Visit!NoSessionSent(r)
    <3>1. y = [x EXCEPT !.pc = "setSession"]
      BY <1>2, <2>1 DEF Visit!NoSessionSent, VisitSound, Visit!TypeOK
    <3>2. y.session = x.session BY <1>2, <3>1 DEF Visit!RequestState
    <3> QED BY <2>1, <3>2 DEF Visit!NoSessionSent
  <2>2. CASE \/ Visit!Start(r) \/ Visit!Refuse(r) \/ Visit!Finish(r)
             \/ Visit!GetVisitor(r) \/ Visit!GetCount(r)
    BY <1>2, <2>2
          DEF Visit!Start, Visit!Refuse, Visit!Finish, Visit!GetVisitor, Visit!GetCount, Grows
  <2> QED BY <1>5, <2>1, <2>2
<1>6. CASE \/ Visit!Start(r) \/ Visit!Refuse(r) \/ Visit!Finish(r) \/ Visit!NoSessionSent(r)
           \/ Visit!GetVisitor(r) \/ Visit!GetCount(r)
  BY <1>3, <1>4, <1>5, <1>6
<1>7. CASE Visit!SetVisitor(r)
  <2>1. x.pc = "setVisitor" /\ sessionHash' = sessionHash BY <1>7 DEF Visit!SetVisitor
  <2>2. y.session = x.session BY <1>2, <2>1 DEF Grows
  <2>3. Visit!Seen(r).sessionCount \in Nat /\ Visit!Seen(r).firstSeenAt \in Requests
    BY <1>2 DEF Visit!Seen, Visit!FirstVisit, Visit!RequestState, Visit!VisitorHash
  <2>4. ASSUME NEW h, h.sessionCount = Visit!Seen(r).sessionCount,
               h.firstSeenAt = Visit!Seen(r).firstSeenAt
        PROVE  Writes(r, x, h)
    BY <2>1, <2>4 DEF Visit!Seen, Visit!FirstVisit, Writes
  <2>5. VisitorMoves(r, x, y)
    BY <1>2, <1>7, <2>1, <2>3, <2>4, HsetMoves DEF Visit!SetVisitor
  <2> QED BY <1>4, <2>1, <2>2, <2>5
<1>8. CASE Visit!SetCount(r)
  <2>1. x.pc = "setCount" /\ sessionHash' = sessionHash BY <1>8 DEF Visit!SetCount
  <2>2. y.session = x.session BY <1>2, <2>1 DEF Grows
  <2>3. x.existing \in Visit!VisitorHash BY <1>2, <2>1 DEF Shaped, Visit!RequestState
  <2> DEFINE hash == Visit!Incremented(x.existing)
  <2>4. /\ hash.sessionCount = x.existing.sessionCount + 1
        /\ hash.firstSeenAt = x.existing.firstSeenAt
        /\ hash.sessionCount \in Nat /\ hash.firstSeenAt \in Requests
    BY <2>3 DEF Visit!Incremented, Visit!VisitorHash
  <2>5. Visit!SetHash(r, "expireCount", "finish", hash) BY <1>8 DEF Visit!SetCount
  <2> HIDE DEF hash
  <2>6. ASSUME NEW h, h.sessionCount = hash.sessionCount, h.firstSeenAt = hash.firstSeenAt
        PROVE  Writes(r, x, h)
    BY <2>1, <2>4, <2>6 DEF Writes
  <2>7. VisitorMoves(r, x, y) BY <1>2, <2>1, <2>4, <2>5, <2>6, HsetMoves
  <2> QED BY <1>4, <2>1, <2>2, <2>7
<1>9. CASE Visit!ExpireVisitor(r) \/ Visit!ExpireCount(r)
  <2>1. PICK next \in {"session", "finish"} : Visit!ExpireHash(r, next)
    BY <1>9 DEF Visit!ExpireVisitor, Visit!ExpireCount
  <2>2. x.pc \in {"expireVisitor", "expireCount"} /\ sessionHash' = sessionHash
    BY <1>9 DEF Visit!ExpireVisitor, Visit!ExpireCount
  <2>3. y.session = x.session BY <1>2, <2>2 DEF Grows
  <2>4. y.written = x.written BY <1>2, <2>2 DEF Grows
  <2>5. VisitorMoves(r, x, y) BY <1>2, <2>1, <2>2, <2>4, ExpireMoves
  <2> QED BY <1>4, <2>2, <2>3, <2>5
<1>10. CASE Visit!GetSession(r)
  <2>1. x.pc = "session" /\ x.sent \in SessionIds /\ UNCHANGED <<visitorHash, sessionHash>>
    BY <1>2, <1>10 DEF Visit!GetSession, Visit!RequestState
  <2>2. PICK h \in Visit!Read(sessionHash[x.sent]) :
          \/ /\ Visit!Theirs(r, h)
             /\ request' = [request EXCEPT ![r] = [x EXCEPT !.pc = "touchSession",
                    !.session = x.sent]]
          \/ /\ ~Visit!Theirs(r, h)
             /\ request' = [request EXCEPT ![r] = [x EXCEPT !.pc = "setSession"]]
    BY <1>2, <1>10, Zenon DEF Visit!GetSession, VisitSound, Visit!TypeOK
  <2>3. h # None => h = sessionHash[x.sent] BY <2>1, ReadsSession
  <2>4. CASE /\ Visit!Theirs(r, h)
             /\ request' = [request EXCEPT ![r] =
                    [x EXCEPT !.pc = "touchSession", !.session = x.sent]]
    <3>0. y = [x EXCEPT !.pc = "touchSession", !.session = x.sent]
      BY <1>2, <2>4 DEF VisitSound, Visit!TypeOK
    <3>1. y.session = x.sent BY <1>2, <3>0 DEF Visit!RequestState
    <3>2. x.session = None /\ y.visitor = x.visitor BY <1>2, <2>1 DEF Shaped, Grows
    <3>3. SessionMoves(x, y)
      BY <2>1, <2>3, <2>4, <3>1, <3>2 DEF SessionMoves, Visit!Theirs, Visit!Visitor
    <3> QED BY <1>3, <2>1, <3>3
  <2>5. CASE request' = [request EXCEPT ![r] = [x EXCEPT !.pc = "setSession"]]
    <3>0. y = [x EXCEPT !.pc = "setSession"] BY <1>2, <2>5 DEF VisitSound, Visit!TypeOK
    <3>1. y.session = x.session BY <1>2, <3>0 DEF Visit!RequestState
    <3> QED BY <1>3, <1>4, <2>1, <3>1
  <2> QED BY <2>2, <2>4, <2>5
<1>11. CASE Visit!TouchSession(r) \/ Visit!ExpireSession(r)
  <2>1. /\ x.pc \in {"touchSession", "expireSession"} /\ visitorHash' = visitorHash
        /\ x.session \in SessionIds
    BY <1>2, <1>11 DEF Visit!TouchSession, Visit!ExpireSession, Shaped, Visit!RequestState
  <2>2. PICK reply \in Reply :
          /\ sessionHash' = Visit!SessionExpire(x.session, reply)
          /\ x.pc = "expireSession" => (reply = "refused" => y.unexpired)
    <3>1. CASE Visit!TouchSession(r) BY <3>1 DEF Visit!TouchSession
    <3>2. CASE Visit!ExpireSession(r)
      <4>1. PICK reply \in Reply :
              /\ sessionHash' = Visit!SessionExpire(x.session, reply)
              /\ request' = [request EXCEPT ![r] = [x EXCEPT !.pc = Visit!AfterSession(r),
                    !.unexpired = (x.unexpired \/ reply = "refused")]]
        BY <1>2, <3>2, Zenon DEF Visit!ExpireSession, VisitSound, Visit!TypeOK
      <4> DEFINE un == (x.unexpired \/ reply = "refused")
      <4>2. request' = [request EXCEPT ![r] =
               [x EXCEPT !.pc = Visit!AfterSession(r), !.unexpired = un]]
        BY <4>1
      <4> HIDE DEF un
      <4>3. y = [x EXCEPT !.pc = Visit!AfterSession(r), !.unexpired = un]
        BY <1>2, <4>2 DEF VisitSound, Visit!TypeOK
      <4>4. y.unexpired = un BY <1>2, <4>3 DEF Visit!RequestState
      <4> QED BY <4>1, <4>4 DEF un
    <3> QED BY <1>11, <3>1, <3>2
  <2>3. y.session = x.session BY <1>2, <2>1 DEF Grows
  <2>4. CASE reply # "refused" /\ sessionHash[x.session] # None
    <3>3. sessionHash' = [sessionHash EXCEPT ![x.session] =
             [sessionHash[x.session] EXCEPT !.ttl = TRUE]]
      BY <2>2, <2>4 DEF Visit!SessionExpire
    <3>4. SessionMoves(x, y) BY <2>1, <2>3, <2>4, <3>3 DEF SessionMoves
    <3> QED BY <1>3, <2>1, <3>4
  <2>5. CASE ~(reply # "refused" /\ sessionHash[x.session] # None)
    <3>1. sessionHash' = sessionHash BY <2>2, <2>5 DEF Visit!SessionExpire
    <3>2. SessionMoves(x, y)
      BY <1>2, <2>1, <2>2, <2>3, <2>5, <3>1 DEF SessionMoves, SessionDue, Grows
    <3> QED BY <1>3, <2>1, <3>2
  <2> QED BY <2>4, <2>5
<1>12. CASE Visit!SetSession(r)
  <2>1. x.pc = "setSession" /\ visitorHash' = visitorHash BY <1>12 DEF Visit!SetSession
  <2>2. PICK s \in SessionIds, reply \in Reply :
          /\ \A q \in Requests : request[q].session # s
          /\ sessionHash' = IF reply = "refused" THEN sessionHash
                ELSE [sessionHash EXCEPT ![s] = [visitor |-> x.visitor, ttl |-> FALSE]]
          /\ request' = [request EXCEPT ![r] = [x EXCEPT
                !.pc = IF reply = "ok" THEN "expireSession" ELSE Visit!AfterSession(r),
                !.session = s, !.isNewSession = TRUE,
                !.unexpired = (x.unexpired \/ reply = "lost")]]
    BY <1>2, <1>12, Zenon DEF Visit!SetSession, Visit!Visitor, VisitSound, Visit!TypeOK
  <2> DEFINE pc == IF reply = "ok" THEN "expireSession" ELSE Visit!AfterSession(r)
             un == (x.unexpired \/ reply = "lost")
  <2>3. request' = [request EXCEPT ![r] = [x EXCEPT !.pc = pc, !.session = s,
                      !.isNewSession = TRUE, !.unexpired = un]] BY <2>2
  <2> HIDE DEF pc, un
  <2>4. y = [x EXCEPT !.pc = pc, !.session = s, !.isNewSession = TRUE, !.unexpired = un]
    BY <1>2, <2>3 DEF VisitSound, Visit!TypeOK
  <2>40. y.session = s /\ y.pc = pc /\ y.unexpired = un BY <1>2, <2>4 DEF Visit!RequestState
  <2>41. reply # "refused" => SessionDue(y) BY <2>40, ReplyAssumption DEF pc, un, SessionDue
  <2>5. x.session = None /\ y.visitor = x.visitor BY <1>2, <2>1 DEF Shaped, Grows
  <2>6. SessionMoves(x, y) BY <2>2, <2>40, <2>41, <2>5 DEF SessionMoves
  <2> QED BY <1>3, <2>1, <2>6
<1>13. CASE Visit!Crash(r)
  <2> DEFINE un == (x.unexpired \/ x.pc \in {"expireVisitor", "expireSession", "expireCount"})
  <2>1. request' = [request EXCEPT ![r] = [x EXCEPT !.pc = "crashed", !.unexpired = un]]
    BY <1>2, <1>13, Zenon DEF Visit!Crash, VisitSound, Visit!TypeOK
  <2> HIDE DEF un
  <2>2. y = [x EXCEPT !.pc = "crashed", !.unexpired = un]
    BY <1>2, <2>1 DEF VisitSound, Visit!TypeOK
  <2>3. y.session = x.session /\ y.unexpired = un /\ y.written = x.written
    BY <1>2, <2>2 DEF Visit!RequestState
  <2>4. UNCHANGED <<visitorHash, sessionHash>> BY <1>13 DEF Visit!Crash
  <2>5. VisitorMoves(r, x, y) BY <2>3, <2>4 DEF un, VisitorMoves, VisitorDue
  <2>6. SessionMoves(x, y) BY <2>3, <2>4 DEF un, SessionMoves, SessionDue
  <2> QED BY <2>5, <2>6
<1> QED BY <1>6, <1>7, <1>8, <1>9, <1>10, <1>11, <1>12, <1>13 DEF Visit!RequestStep

\* A step of the tracker is a step of a request, or a TTL that elapses.
LEMMA VisitNextMoves ==
    ASSUME VisitSound, [Visit!Next]_Visit!vars
    PROVE  \/ UNCHANGED Visit!vars
           \/ Visit!Elapse
           \/ \E r \in Requests : \E y \in Visit!RequestState : VisitMoves(r, request[r], y)
<1>1. ASSUME NEW r \in Requests, Visit!RequestStep(r) \/ Visit!Crash(r)
      PROVE  \E y \in Visit!RequestState : VisitMoves(r, request[r], y)
  BY <1>1, VisitStepMoves
<1> QED BY <1>1, Zenon DEF Visit!Next

LEMMA VisitSoundInit == Visit!Init => VisitSound
<1> SUFFICES ASSUME Visit!Init PROVE VisitSound OBVIOUS
<1>1. Visit!NewRequest \in Visit!RequestState BY DEF Visit!NewRequest, Visit!RequestState
<1>2. Shaped(Visit!NewRequest) BY DEF Visit!NewRequest, Shaped
<1>3. \A r \in Requests : request[r] = Visit!NewRequest BY DEF Visit!Init
<1>4. request \in [Requests -> Visit!RequestState] BY <1>1 DEF Visit!Init
<1> QED BY <1>2, <1>3, <1>4 DEF VisitSound, Visit!TypeOK, Visit!Init

LEMMA VisitElapseSound == ASSUME VisitSound, Visit!Elapse PROVE VisitSound'
<1>1. /\ visitorHash' \in [Visitors -> Visit!VisitorHash \cup {None}]
      /\ sessionHash' \in [SessionIds -> Visit!SessionHash \cup {None}]
      /\ request' = request
  BY DEF VisitSound, Visit!TypeOK, Visit!Elapse
<1> QED BY <1>1 DEF VisitSound, Visit!TypeOK

LEMMA VisitSoundNext == VisitSound /\ [Visit!Next]_Visit!vars => VisitSound'
<1> SUFFICES ASSUME VisitSound, [Visit!Next]_Visit!vars PROVE VisitSound' OBVIOUS
<1>1. CASE UNCHANGED Visit!vars BY <1>1 DEF Visit!vars, VisitSound, Visit!TypeOK
<1>2. CASE Visit!Elapse BY <1>2, VisitElapseSound
<1>3. ASSUME NEW r \in Requests, NEW y \in Visit!RequestState, VisitMoves(r, request[r], y)
      PROVE  VisitSound'
  <2> DEFINE x == request[r]
  <2>1. /\ VisitGoes(r, x, y) /\ VisitorMoves(r, x, y) /\ SessionMoves(x, y)
        /\ request' = [request EXCEPT ![r] = y] /\ Shaped(y)
    BY <1>3 DEF VisitMoves, VisitGoes
  <2>2. request' \in [Requests -> Visit!RequestState] /\ \A q \in Requests : Shaped(request'[q])
    BY <2>1 DEF VisitSound, Visit!TypeOK
  <2>3. visitorHash' \in [Visitors -> Visit!VisitorHash \cup {None}]
    BY <2>1 DEF VisitorMoves, VisitSound, Visit!TypeOK
  <2>4. sessionHash' \in [SessionIds -> Visit!SessionHash \cup {None}]
    <3>1. ASSUME NEW s \in SessionIds, sessionHash[s] # None
          PROVE  [sessionHash[s] EXCEPT !.ttl = TRUE] \in Visit!SessionHash
      BY <3>1 DEF VisitSound, Visit!TypeOK, Visit!SessionHash
    <3>2. ASSUME y.session \in SessionIds,
                 \A q \in Requests : request[q].session # y.session,
                 sessionHash' = [sessionHash EXCEPT ![y.session] =
                                  [visitor |-> y.visitor, ttl |-> FALSE]]
          PROVE  [visitor |-> y.visitor, ttl |-> FALSE] \in Visit!SessionHash
      <4>1. y.session # None BY <3>2, VisitAssumption
      <4>2. y.pc \notin {"new", "ignored", "threw"}
        BY <2>1, <4>1 DEF VisitGoes, Grows, Shaped
      <4> QED BY <2>1, <4>2 DEF Shaped, Visit!SessionHash
    <3> QED BY <2>1, <3>1, <3>2 DEF SessionMoves, VisitSound, Visit!TypeOK
  <2> QED BY <2>2, <2>3, <2>4 DEF VisitSound, Visit!TypeOK
<1> QED BY <1>1, <1>2, <1>3, VisitNextMoves

LEMMA VisitSoundAlways == Visit!Spec => []VisitSound
  BY VisitSoundInit, VisitSoundNext, PTL DEF Visit!Spec

-------------------------------------------------------------------------------
(* Sessions                                                                 *)

\* A session that Redis holds was begun by a request, and every request that has
\* it is of its visitor.
SessionsOwned ==
    \A s \in SessionIds : sessionHash[s] # None =>
        /\ \E q \in Requests : request[q].session = s
        /\ \A q \in Requests : request[q].session = s => Visit!Visitor(q) = sessionHash[s].visitor

Private == VisitSound /\ SessionsOwned /\ Visit!SessionsArePrivate

LEMMA PrivateNext == Private /\ [Visit!Next]_Visit!vars => Private'
<1> SUFFICES ASSUME Private, [Visit!Next]_Visit!vars PROVE Private' OBVIOUS
<1>0. VisitSound /\ VisitSound' BY VisitSoundNext DEF Private
<1>1. CASE UNCHANGED Visit!vars
  BY <1>0, <1>1
        DEF Visit!vars, Private, SessionsOwned, Visit!SessionsArePrivate, Visit!Visitor
<1>2. CASE Visit!Elapse
  <2>1. /\ request' = request
        /\ \A s \in SessionIds : sessionHash'[s] \in {sessionHash[s], None}
    BY <1>0, <1>2 DEF Visit!Elapse, VisitSound, Visit!TypeOK
  <2> QED BY <1>0, <2>1 DEF Private, SessionsOwned, Visit!SessionsArePrivate, Visit!Visitor
<1>3. ASSUME NEW r \in Requests, NEW y \in Visit!RequestState, VisitMoves(r, request[r], y)
      PROVE  Private'
  <2> DEFINE x == request[r]
  <2>1. /\ SessionMoves(x, y) /\ Grows(x, y) /\ Shaped(x)
        /\ \A q \in Requests : request'[q] = IF q = r THEN y ELSE request[q]
    BY <1>0, <1>3 DEF VisitMoves, VisitGoes, VisitSound, Visit!TypeOK
  <2>2. \A q \in Requests : request[q].session # None =>
           request'[q].session = request[q].session /\ request'[q].visitor = request[q].visitor
    BY <2>1 DEF Grows, Shaped
  <2>3. \A q \in Requests \ {r} : request'[q] = request[q] BY <2>1
  <2>4. request'[r] = y BY <2>1
  <2>5. x \in Visit!RequestState BY <1>0 DEF VisitSound, Visit!TypeOK
  <2>6. \A q \in Requests : request[q].session \in SessionIds \cup {None}
    BY <1>0 DEF VisitSound, Visit!TypeOK, Visit!RequestState
  <2>7. None \notin SessionIds BY VisitAssumption
  <2>8. CASE sessionHash' = sessionHash /\ y.session = x.session
    BY <1>0, <2>2, <2>3, <2>4, <2>6, <2>7, <2>8
       DEF Private, SessionsOwned, Visit!SessionsArePrivate, Visit!Visitor
  <2>9. CASE /\ sessionHash' = sessionHash /\ x.session = None /\ y.session \in SessionIds
             /\ sessionHash[y.session] # None
             /\ sessionHash[y.session].visitor = y.visitor
    BY <1>0, <2>2, <2>3, <2>4, <2>6, <2>7, <2>9
       DEF Private, SessionsOwned, Visit!SessionsArePrivate, Visit!Visitor
  <2>10. CASE /\ x.session = None /\ y.session \in SessionIds
              /\ \A q \in Requests : request[q].session # y.session
              /\ \/ sessionHash' = sessionHash
                 \/ sessionHash' = [sessionHash EXCEPT ![y.session] =
                                      [visitor |-> y.visitor, ttl |-> FALSE]]
    <3>1. sessionHash[y.session] = None BY <2>10 DEF Private, SessionsOwned
    <3>2. Visit!SessionsArePrivate'
      BY <2>2, <2>3, <2>4, <2>6, <2>7, <2>10
            DEF Private, Visit!SessionsArePrivate, Visit!Visitor
    <3>3. SessionsOwned'
      <4> SUFFICES ASSUME NEW s \in SessionIds, sessionHash'[s] # None
                   PROVE  /\ \E q \in Requests : request'[q].session = s
                          /\ \A q \in Requests : request'[q].session = s =>
                                request'[q].visitor = sessionHash'[s].visitor
        BY DEF SessionsOwned, Visit!Visitor
      <4>1. CASE s = y.session
        <5>1. sessionHash'[s].visitor = y.visitor
          BY <1>0, <2>10, <3>1, <4>1 DEF VisitSound, Visit!TypeOK
        <5> QED BY <2>3, <2>4, <2>10, <4>1, <5>1
      <4>2. CASE s # y.session
        <5>1. sessionHash'[s] = sessionHash[s]
          BY <1>0, <2>10, <4>2 DEF VisitSound, Visit!TypeOK
        <5> QED
          BY <2>2, <2>3, <2>4, <2>7, <2>10, <4>2, <5>1
              DEF Private, SessionsOwned, Visit!Visitor
      <4> QED BY <4>1, <4>2
    <3> QED BY <1>0, <3>2, <3>3 DEF Private
  <2>11. CASE /\ y.session = x.session /\ x.session \in SessionIds
              /\ sessionHash[x.session] # None
              /\ sessionHash' = [sessionHash EXCEPT ![x.session] =
                                   [sessionHash[x.session] EXCEPT !.ttl = TRUE]]
    <3>1. sessionHash[x.session] \in Visit!SessionHash
      BY <1>0, <2>11 DEF VisitSound, Visit!TypeOK
    <3>2. [sessionHash[x.session] EXCEPT !.ttl = TRUE].visitor = sessionHash[x.session].visitor
      BY <3>1 DEF Visit!SessionHash
    <3>3. \A s \in SessionIds : sessionHash'[s] # None =>
             sessionHash[s] # None /\ sessionHash'[s].visitor = sessionHash[s].visitor
      BY <1>0, <2>11, <3>2 DEF VisitSound, Visit!TypeOK
    <3> QED BY <1>0, <2>2, <2>3, <2>4, <2>6, <2>7, <2>11, <3>3
            DEF Private, SessionsOwned, Visit!SessionsArePrivate, Visit!Visitor
  <2> QED BY <2>1, <2>8, <2>9, <2>10, <2>11 DEF SessionMoves
<1> QED BY <1>0, <1>1, <1>2, <1>3, VisitNextMoves

\* Whatever session ids clients send, a session stays one visitor's.
THEOREM SessionsStayPrivate == Visit!Spec => []SessionsArePrivate
<1>1. Visit!Init => Private
  <2> SUFFICES ASSUME Visit!Init PROVE Private OBVIOUS
  <2>1. VisitSound BY VisitSoundInit
  <2>2. \A r \in Requests : request[r].session = None BY DEF Visit!Init, Visit!NewRequest
  <2> QED BY <2>1, <2>2 DEF Private, SessionsOwned, Visit!SessionsArePrivate, Visit!Init
<1>2. Private => SessionsArePrivate BY DEF Private, SessionsArePrivate
<1> QED BY <1>1, <1>2, PrivateNext, PTL DEF Visit!Spec

-------------------------------------------------------------------------------
(* Expiry                                                                   *)

\* Of a key without an expiry, whoever owes it one keeps owing it.
LEMMA KeysExpireNext ==
    VisitSound /\ Visit!KeysExpire /\ [Visit!Next]_Visit!vars => Visit!KeysExpire'
<1> SUFFICES ASSUME VisitSound, Visit!KeysExpire, [Visit!Next]_Visit!vars
             PROVE  Visit!KeysExpire'
  OBVIOUS
<1> DEFINE VisitorsDue == \A v \in Visitors : visitorHash[v] # None /\ ~visitorHash[v].ttl =>
              \E r \in Requests : request[r].visitor = v /\ VisitorDue(request[r])
           SessionsDue == \A s \in SessionIds : sessionHash[s] # None /\ ~sessionHash[s].ttl =>
              \E r \in Requests : request[r].session = s /\ SessionDue(request[r])
<1>0. /\ Visit!KeysExpire <=> VisitorsDue /\ SessionsDue
      /\ Visit!KeysExpire' <=> VisitorsDue' /\ SessionsDue'
  BY DEF Visit!KeysExpire, VisitorDue, SessionDue, Visit!Visitor
<1>1. CASE UNCHANGED Visit!vars
  BY <1>0, <1>1 DEF Visit!vars, VisitorDue, SessionDue
<1>2. CASE Visit!Elapse
  <2>1. /\ request' = request
        /\ \A v \in Visitors : visitorHash'[v] \in {visitorHash[v], None}
        /\ \A s \in SessionIds : sessionHash'[s] \in {sessionHash[s], None}
    BY <1>2 DEF Visit!Elapse, VisitSound, Visit!TypeOK
  <2> QED BY <1>0, <2>1 DEF VisitorDue, SessionDue
<1>3. ASSUME NEW r \in Requests, NEW y \in Visit!RequestState, VisitMoves(r, request[r], y)
      PROVE  Visit!KeysExpire'
  <2> DEFINE x == request[r]
  <2>1. /\ VisitorMoves(r, x, y) /\ SessionMoves(x, y) /\ Grows(x, y) /\ Shaped(x)
        /\ \A q \in Requests \ {r} : request'[q] = request[q]
        /\ request'[r] = y
    BY <1>3 DEF VisitMoves, VisitGoes, VisitSound, Visit!TypeOK
  <2>2. VisitorsDue /\ SessionsDue BY <1>0
  <2>3. None \notin Visitors /\ None \notin SessionIds BY VisitAssumption
  <2>4. VisitorsDue'
    <3> SUFFICES ASSUME NEW v \in Visitors, visitorHash'[v] # None, ~visitorHash'[v].ttl
                 PROVE  \E q \in Requests : request'[q].visitor = v /\ VisitorDue(request'[q])
      BY DEF VisitorDue
    <3>1. ASSUME NEW q \in Requests, request[q].visitor = v, VisitorDue(request[q]),
                 q = r => VisitorDue(y)
          PROVE  request'[q].visitor = v /\ VisitorDue(request'[q])
      <4>1. q = r => y.visitor = v BY <2>1, <2>3, <3>1 DEF Grows, Shaped
      <4> QED BY <2>1, <3>1, <4>1
    <3>2. CASE /\ visitorHash' = visitorHash
               /\ VisitorDue(x) => VisitorDue(y) \/ visitorHash[x.visitor] = None
      BY <2>2, <3>1, <3>2
    <3>3. ASSUME NEW h \in Visit!VisitorHash, x.visitor \in Visitors, x.pc # "new",
                 visitorHash' = [visitorHash EXCEPT ![x.visitor] = h], h.ttl \/ VisitorDue(y)
          PROVE  \E q \in Requests : request'[q].visitor = v /\ VisitorDue(request'[q])
      <4>1. CASE v = x.visitor
        <5>1. visitorHash'[v] = h BY <3>3, <4>1 DEF VisitSound, Visit!TypeOK
        <5>2. VisitorDue(y) /\ y.visitor = v BY <2>1, <3>3, <4>1, <5>1 DEF Grows
        <5> QED BY <2>1, <5>2
      <4>2. CASE v # x.visitor
        <5>1. visitorHash'[v] = visitorHash[v] BY <3>3, <4>2 DEF VisitSound, Visit!TypeOK
        <5>2. PICK q \in Requests : request[q].visitor = v /\ VisitorDue(request[q])
          BY <2>2, <5>1
        <5> QED BY <3>1, <4>2, <5>2
      <4> QED BY <4>1, <4>2
    <3> QED BY <2>1, <3>2, <3>3 DEF VisitorMoves
  <2>5. SessionsDue'
    <3> SUFFICES ASSUME NEW s \in SessionIds, sessionHash'[s] # None, ~sessionHash'[s].ttl
                 PROVE  \E q \in Requests : request'[q].session = s /\ SessionDue(request'[q])
      BY DEF SessionDue
    <3>1. ASSUME NEW q \in Requests, request[q].session = s, SessionDue(request[q]),
                 q = r => SessionDue(y)
          PROVE  request'[q].session = s /\ SessionDue(request'[q])
      <4>1. q = r => y.session = s BY <2>1, <2>3, <3>1 DEF Grows
      <4> QED BY <2>1, <3>1, <4>1
    <3>2. CASE /\ sessionHash' = sessionHash
               /\ SessionDue(x) => \/ SessionDue(y) \/ x.session = None
                                   \/ sessionHash[x.session] = None
      BY <2>2, <2>3, <3>1, <3>2
    <3>3. CASE sessionHash' = sessionHash /\ x.session = None
      BY <2>2, <2>3, <3>1, <3>3
    <3>4. CASE /\ x.session = None /\ y.session \in SessionIds
               /\ sessionHash' = [sessionHash EXCEPT ![y.session] =
                                    [visitor |-> y.visitor, ttl |-> FALSE]]
               /\ SessionDue(y)
      <4>1. CASE s = y.session BY <2>1, <3>4, <4>1
      <4>2. CASE s # y.session
        <5>1. sessionHash'[s] = sessionHash[s] BY <3>4, <4>2 DEF VisitSound, Visit!TypeOK
        <5> QED BY <2>2, <3>1, <3>4, <5>1
      <4> QED BY <4>1, <4>2
    <3>5. CASE /\ x.session \in SessionIds /\ sessionHash[x.session] # None
               /\ sessionHash' = [sessionHash EXCEPT ![x.session] =
                                    [sessionHash[x.session] EXCEPT !.ttl = TRUE]]
      <4>1. s # x.session
        <5>1. sessionHash[x.session] \in Visit!SessionHash
          BY <3>5 DEF VisitSound, Visit!TypeOK
        <5>2. [sessionHash[x.session] EXCEPT !.ttl = TRUE].ttl = TRUE
          BY <5>1 DEF Visit!SessionHash
        <5> QED BY <3>5, <5>2 DEF VisitSound, Visit!TypeOK
      <4>2. sessionHash'[s] = sessionHash[s] BY <3>5, <4>1 DEF VisitSound, Visit!TypeOK
      <4> QED BY <2>2, <3>1, <4>1, <4>2
    <3> QED BY <2>1, <3>2, <3>3, <3>4, <3>5 DEF SessionMoves
  <2> QED BY <1>0, <2>4, <2>5
<1> QED BY <1>1, <1>2, <1>3, VisitNextMoves

LEMMA VisitKeysExpire == Visit!Spec => []Visit!KeysExpire
<1>1. Visit!Init => Visit!KeysExpire BY DEF Visit!Init, Visit!KeysExpire
<1> QED BY <1>1, KeysExpireNext, VisitSoundAlways, PTL DEF Visit!Spec

-------------------------------------------------------------------------------
(* First visits                                                             *)

\* The request that a hash of v, or a copy of one, names as its first found v new.
FirstOf(v, h) ==
    /\ h.firstSeenAt \in Requests
    /\ Visit!Visitor(h.firstSeenAt) = v /\ request[h.firstSeenAt].isNewVisitor

FirstsFound ==
    /\ \A v \in Visitors : visitorHash[v] # None => FirstOf(v, visitorHash[v])
    /\ \A r \in Requests : request[r].existing # None =>
          FirstOf(Visit!Visitor(r), request[r].existing)

LEMMA FirstsNext == VisitSound /\ FirstsFound /\ [Visit!Next]_Visit!vars => FirstsFound'
<1> SUFFICES ASSUME VisitSound, FirstsFound, [Visit!Next]_Visit!vars PROVE FirstsFound' OBVIOUS
<1>1. CASE UNCHANGED Visit!vars
  BY <1>1 DEF Visit!vars, FirstsFound, FirstOf, Visit!Visitor
<1>2. CASE Visit!Elapse
  <2>1. /\ request' = request
        /\ \A v \in Visitors : visitorHash'[v] \in {visitorHash[v], None}
    BY <1>2 DEF Visit!Elapse, VisitSound, Visit!TypeOK
  <2> QED BY <2>1 DEF FirstsFound, FirstOf, Visit!Visitor
<1>3. ASSUME NEW r \in Requests, NEW y \in Visit!RequestState, VisitMoves(r, request[r], y)
      PROVE  FirstsFound'
  <2> DEFINE x == request[r]
  <2>1. /\ VisitorMoves(r, x, y) /\ Grows(x, y) /\ Shaped(x) /\ Reads(x, y)
        /\ \A q \in Requests \ {r} : request'[q] = request[q]
        /\ request'[r] = y
    BY <1>3 DEF VisitMoves, VisitGoes, VisitSound, Visit!TypeOK
  <2>2. None \notin Visitors BY VisitAssumption
  <2>3. ASSUME NEW v \in Visitors, NEW h, FirstOf(v, h) PROVE FirstOf(v, h)'
    BY <2>1, <2>2, <2>3 DEF FirstOf, Visit!Visitor, Grows, Shaped
  <2>4. ASSUME NEW v \in Visitors, visitorHash'[v] # None PROVE FirstOf(v, visitorHash[v])'
    <3>1. CASE visitorHash'[v] = visitorHash[v]
      BY <2>3, <2>4, <3>1 DEF FirstsFound, FirstOf
    <3>2. CASE visitorHash'[v] # visitorHash[v]
      <4>1. PICK h \in Visit!VisitorHash :
              /\ x.visitor \in Visitors /\ x.pc # "new"
              /\ visitorHash' = [visitorHash EXCEPT ![x.visitor] = h]
              /\ Writes(r, x, h)
        BY <2>1, <3>2 DEF VisitorMoves
      <4>2. v = x.visitor /\ visitorHash'[v] = h BY <3>2, <4>1 DEF VisitSound, Visit!TypeOK
      <4>3. FirstOf(v, h)'
        <5>1. CASE x.pc = "setVisitor" /\ x.existing = None /\ h.firstSeenAt = r
          BY <2>1, <4>1, <4>2, <5>1 DEF FirstOf, Visit!Visitor, Grows, Shaped
        <5>2. CASE visitorHash[v] # None /\ h.firstSeenAt = visitorHash[v].firstSeenAt
          <6>1. FirstOf(v, h) BY <5>2 DEF FirstsFound, FirstOf
          <6> QED BY <2>3, <6>1
        <5>3. CASE x.existing # None /\ h.firstSeenAt = x.existing.firstSeenAt
          <6>1. FirstOf(v, h) BY <4>2, <5>3 DEF FirstsFound, FirstOf, Visit!Visitor
          <6> QED BY <2>3, <6>1
        <5> QED BY <2>1, <4>1, <4>2, <5>1, <5>2, <5>3 DEF Writes, Shaped
      <4> QED BY <4>2, <4>3 DEF FirstOf
    <3> QED BY <3>1, <3>2
  <2>5. ASSUME NEW q \in Requests, request'[q].existing # None
        PROVE  FirstOf(Visit!Visitor(q), request[q].existing)'
    <3>0. PICK h \in Visit!VisitorHash : request'[q].existing = h
      BY <2>1, <2>5 DEF VisitSound, Visit!TypeOK, Visit!RequestState
    <3>1. PICK v \in Visitors : request'[q].visitor = v /\ FirstOf(v, h)
      <4>1. CASE q # r
        <5>1. request'[q] = request[q] BY <2>1, <4>1
        <5>2. request[q].visitor \in Visitors
          BY <2>5, <5>1
                DEF FirstsFound, FirstOf, Visit!Visitor, VisitSound, Shaped, Visit!TypeOK,
                 Visit!RequestState
        <5> QED BY <2>5, <3>0, <5>1, <5>2 DEF FirstsFound, Visit!Visitor
      <4>2. CASE q = r
        <5>1. \/ x.existing # None /\ y.existing = x.existing
              \/ x.visitor \in Visitors /\ y.existing = visitorHash[x.visitor]
          BY <2>1, <2>5, <4>2 DEF Reads
        <5>2. x.visitor \in Visitors /\ y.visitor = x.visitor
          BY <2>1, <2>2, <5>1 DEF Grows, Shaped
        <5> QED BY <2>1, <2>5, <3>0, <4>2, <5>1, <5>2 DEF FirstsFound, Visit!Visitor
      <4> QED BY <4>1, <4>2
    <3>2. FirstOf(v, h)' BY <2>3, <3>1
    <3> QED BY <3>0, <3>1, <3>2 DEF FirstOf, Visit!Visitor
  <2> QED BY <2>4, <2>5 DEF FirstsFound
<1> QED BY <1>1, <1>2, <1>3, VisitNextMoves

\* Nobody but q finds v new, and nobody overlaps q: what FirstVisitStands says
\* before q has written.
First(q) ==
    /\ request[q].isNewVisitor
    /\ \A r \in Requests \ {q} : request[r].visitor = request[q].visitor =>
          \/ r \in request[q].before
          \/ q \in request[r].before /\ ~request[r].isNewVisitor

\* Whoever ended before another began has ended.  Once a first visit has written,
\* its visitor's hash, and what those after it have read of it, is its own.
FirstStays ==
    /\ \A q, r \in Requests : q \in request[r].before =>
          request[q].pc \in Visit!Ended /\ request[q].visitor = request[r].visitor
    /\ \A q \in Requests : First(q) /\ request[q].written =>
          /\ LET h == visitorHash[request[q].visitor] IN h = None \/ h.firstSeenAt = q
          /\ \A r \in Requests : q \in request[r].before =>
                request[r].existing = None \/ request[r].existing.firstSeenAt = q

LEMMA FirstStaysNext == VisitSound /\ FirstStays /\ [Visit!Next]_Visit!vars => FirstStays'
<1> SUFFICES ASSUME VisitSound, FirstStays, [Visit!Next]_Visit!vars PROVE FirstStays'
  OBVIOUS
<1>1. CASE UNCHANGED Visit!vars BY <1>1 DEF Visit!vars, FirstStays, First
<1>2. CASE Visit!Elapse
  <2>1. /\ request' = request
        /\ \A v \in Visitors : visitorHash'[v] \in {visitorHash[v], None}
    BY <1>2 DEF Visit!Elapse, VisitSound, Visit!TypeOK
  <2>2. \A q \in Requests : request[q].isNewVisitor => request[q].visitor \in Visitors
    BY DEF VisitSound, Shaped
  <2> QED BY <2>1, <2>2 DEF FirstStays, First
<1>3. ASSUME NEW p \in Requests, NEW y \in Visit!RequestState, VisitMoves(p, request[p], y)
      PROVE  FirstStays'
  <2> DEFINE x == request[p]
  <2>1. /\ VisitorMoves(p, x, y) /\ Grows(x, y) /\ Shaped(x) /\ Shaped(y) /\ Reads(x, y)
        /\ Begins(x, y) /\ x.pc \notin Visit!Ended /\ y.pc # "new"
        /\ \A q \in Requests \ {p} : request'[q] = request[q]
        /\ request'[p] = y
    BY <1>3 DEF VisitMoves, VisitGoes, VisitSound, Visit!TypeOK, Grows
  <2>2. \A q \in Requests : p \notin request[q].before BY <2>1 DEF FirstStays
  <2>3. p \notin y.before BY <2>1, <2>2 DEF Begins, EndedOf
  <2>4. None \notin Visitors BY VisitAssumption
  <2>5. ASSUME NEW q \in Requests, NEW r \in Requests, q \in request'[r].before
        PROVE  request'[q].pc \in Visit!Ended /\ request'[q].visitor = request'[r].visitor
    <3>1. q # p BY <2>1, <2>2, <2>3, <2>5
    <3>2. CASE r # p BY <2>1, <2>5, <3>1, <3>2 DEF FirstStays
    <3>3. CASE r = p
      <4>1. CASE y.before = EndedOf(y.visitor)
        BY <2>1, <2>5, <3>1, <3>3, <4>1 DEF EndedOf
      <4>2. CASE y.before = x.before
        <5>1. q \in x.before BY <2>1, <2>5, <3>3, <4>2
        <5>2. x.pc # "new" BY <2>1, <5>1 DEF Shaped
        <5>3. y.visitor = x.visitor BY <2>1, <5>2 DEF Grows
        <5> QED BY <2>1, <3>1, <3>3, <5>1, <5>3 DEF FirstStays
      <4> QED BY <2>1, <4>1, <4>2 DEF Begins
    <3> QED BY <3>2, <3>3
  <2>6. ASSUME NEW q \in Requests, First(q)', request'[q].written
        PROVE  /\ LET h == visitorHash'[request'[q].visitor] IN h = None \/ h.firstSeenAt = q
               /\ \A r \in Requests : q \in request'[r].before =>
                     request'[r].existing = None \/ request'[r].existing.firstSeenAt = q
    <3> DEFINE v == request'[q].visitor
    <3>0. v \in Visitors /\ request'[q].isNewVisitor
      <4>1. Shaped(request'[q]) BY <2>1 DEF VisitSound
      <4> QED BY <2>6, <4>1 DEF First, Shaped
    <3>1. CASE q = p
      <4>1. \A r \in Requests : q \notin request'[r].before BY <2>1, <2>2, <2>3, <3>1
      <4>2. /\ y.isNewVisitor /\ y.written /\ v = y.visitor
            /\ x.pc \notin {"new", "getVisitor"} /\ x.visitor = v
            /\ x.isNewVisitor /\ x.existing = None /\ x.pc # "setCount"
        BY <2>1, <2>6, <3>0, <3>1 DEF Shaped, Grows, First
      <4>3. CASE x.written
        <5>1. First(p)
          BY <2>1, <2>2, <2>3, <2>6, <3>1, <4>2 DEF First, Begins
        <5>2. visitorHash[v] = None \/ visitorHash[v].firstSeenAt = p
          BY <4>2, <4>3, <5>1 DEF FirstStays
        <5>3. x.pc # "setVisitor" BY <2>1, <4>3 DEF Shaped
        <5> QED
          BY <2>1, <3>0, <3>1, <4>1, <4>2, <5>2, <5>3
             DEF VisitorMoves, Writes, VisitSound, Visit!TypeOK
      <4>4. CASE ~x.written
        <5>1. x.pc = "setVisitor" BY <2>1, <4>2, <4>4 DEF Grows
        <5> QED
          BY <2>1, <3>0, <3>1, <4>1, <4>2, <4>4, <5>1
             DEF VisitorMoves, Writes, VisitSound, Visit!TypeOK
      <4> QED BY <4>3, <4>4
    <3>2. CASE q # p
      <4>1. request'[q] = request[q] /\ v = request[q].visitor BY <2>1, <3>2
      <4>2. p \notin request[q].before BY <2>2
      <4>3. y.visitor = v => q \in y.before /\ ~y.isNewVisitor
        BY <2>1, <2>6, <3>2, <4>1, <4>2 DEF First
      <4>4. x.pc # "new" => y.visitor = x.visitor /\ y.before = x.before
                            /\ (x.isNewVisitor => y.isNewVisitor)
        BY <2>1 DEF Grows, Begins
      <4>5. x.pc = "new" => x.visitor = None BY <2>1 DEF Shaped
      <4>6. First(q)
        <5> SUFFICES ASSUME NEW r \in Requests \ {q}, request[r].visitor = v
                     PROVE  \/ r \in request[q].before
                            \/ q \in request[r].before /\ ~request[r].isNewVisitor
          BY <2>6, <4>1 DEF First
        <5>1. CASE r = p BY <2>4, <3>0, <4>3, <4>4, <4>5, <5>1
        <5>2. CASE r # p BY <2>1, <2>6, <4>1, <5>2 DEF First
        <5> QED BY <5>1, <5>2
      <4>7. /\ visitorHash[v] = None \/ visitorHash[v].firstSeenAt = q
            /\ \A r \in Requests : q \in request[r].before =>
                  request[r].existing = None \/ request[r].existing.firstSeenAt = q
        BY <2>6, <4>1, <4>6 DEF FirstStays
      <4>8. x.visitor = v /\ x.existing # None => x.existing.firstSeenAt = q
        BY <2>4, <3>0, <4>3, <4>4, <4>5, <4>7
      <4>9. visitorHash'[v] = None \/ visitorHash'[v].firstSeenAt = q
        <5>1. CASE visitorHash'[v] = visitorHash[v] BY <4>7, <5>1
        <5>2. CASE visitorHash'[v] # visitorHash[v]
          <6>1. PICK h \in Visit!VisitorHash :
                  /\ x.visitor \in Visitors /\ x.pc # "new"
                  /\ visitorHash' = [visitorHash EXCEPT ![x.visitor] = h]
                  /\ Writes(p, x, h)
            BY <2>1, <5>2 DEF VisitorMoves
          <6>2. v = x.visitor /\ visitorHash'[v] = h
            BY <3>0, <5>2, <6>1 DEF VisitSound, Visit!TypeOK
          <6>3. ~x.isNewVisitor BY <4>3, <4>4, <6>1, <6>2
          <6>4. x.pc \in {"setVisitor", "setCount"} => x.existing # None
            BY <2>1, <6>3 DEF Shaped
          <6> QED BY <4>7, <4>8, <6>1, <6>2, <6>4 DEF Writes
        <5> QED BY <5>1, <5>2
      <4>10. ASSUME NEW r \in Requests, q \in request'[r].before
             PROVE  request'[r].existing = None \/ request'[r].existing.firstSeenAt = q
        <5>1. CASE r # p BY <2>1, <4>7, <4>10, <5>1
        <5>2. CASE r = p
          <6>1. y.visitor = v BY <2>1, <2>5, <4>10, <5>2
          <6>2. y.existing # None => x.visitor = v
            BY <2>1, <2>4, <4>4, <4>5, <6>1 DEF Reads, Shaped
          <6> QED BY <2>1, <4>7, <4>8, <5>2, <6>2 DEF Reads
        <5> QED BY <5>1, <5>2
      <4> QED BY <4>9, <4>10
    <3> QED BY <3>1, <3>2
  <2> QED BY <2>5, <2>6 DEF FirstStays
<1> QED BY <1>1, <1>2, <1>3, VisitNextMoves

\* Once a first visit that nothing disturbed has written, its visitor's firstSeenAt
\* is its own until a request finds no hash; and a firstSeenAt is always that of a
\* request that found none.
THEOREM FirstVisitsStay == Visit!Spec => []FirstVisitsKept
<1>1. Visit!Init => FirstsFound /\ FirstStays
  BY DEF Visit!Init, FirstsFound, FirstStays, First, Visit!NewRequest
<1>2. ASSUME VisitSound, FirstsFound, FirstStays PROVE FirstVisitsKept
  <2>1. ASSUME NEW q \in Requests, Visit!FirstVisitStands(q)
        PROVE  visitorHash[Visit!Visitor(q)] = None
                  \/ visitorHash[Visit!Visitor(q)].firstSeenAt = q
    <3>1. First(q) /\ request[q].written
      BY <2>1 DEF Visit!FirstVisitStands, First, Visit!Visitor
    <3> QED BY <1>2, <3>1 DEF FirstStays, Visit!Visitor
  <2>2. ASSUME NEW v \in Visitors, visitorHash[v] # None
        PROVE  LET q == visitorHash[v].firstSeenAt
               IN  Visit!Visitor(q) = v /\ request[q].isNewVisitor
    BY <1>2, <2>2 DEF FirstsFound, FirstOf
  <2>3. ASSUME NEW r \in Requests, request[r].existing # None
        PROVE  \E q \in Requests \ {r} :
                  Visit!Visitor(q) = Visit!Visitor(r) /\ request[q].isNewVisitor
    <3>1. ~request[r].isNewVisitor BY <1>2, <2>3 DEF VisitSound, Shaped
    <3>2. FirstOf(Visit!Visitor(r), request[r].existing) BY <1>2, <2>3 DEF FirstsFound
    <3> QED BY <3>1, <3>2 DEF FirstOf
  <2> QED BY <2>1, <2>2, <2>3 DEF FirstVisitsKept, Visit!FirstVisitsKept
<1> QED BY <1>1, <1>2, FirstsNext, FirstStaysNext, VisitSoundAlways, PTL DEF Visit!Spec

-------------------------------------------------------------------------------
(* The count of sessions                                                    *)

\* Tracker counts with the Cardinality of FiniteSets.
LEMMA SameCardinality == ASSUME NEW S PROVE Visit!Cardinality(S) = Cardinality(S)
  BY DEF Visit!Cardinality, Cardinality

\* The requests that have counted, or will not count any more, a session of v.
Counted(v) == {r \in Requests : Visit!Visitor(r) = v /\ Counts(request[r])}

CopiesBounded ==
    /\ \A v \in Visitors : visitorHash[v] # None =>
          visitorHash[v].sessionCount <= Cardinality(Counted(v))
    /\ \A r \in Requests : request[r].existing # None =>
          request[r].existing.sessionCount <= Cardinality(Counted(Visit!Visitor(r)))

\* The bound of a visitor only grows, by r when r counts.
LEMMA CountedGrows ==
    ASSUME VisitSound, NEW r \in Requests, NEW y \in Visit!RequestState,
           VisitMoves(r, request[r], y), NEW v \in Visitors
    PROVE  /\ Cardinality(Counted(v)) \in Nat /\ Cardinality(Counted(v)') \in Nat
           /\ Cardinality(Counted(v)) <= Cardinality(Counted(v)')
           /\ request[r].pc = "setCount" /\ Visit!Visitor(r) = v
                 => Cardinality(Counted(v)) + 1 <= Cardinality(Counted(v)')
<1> DEFINE x == request[r]
<1>1. /\ Grows(x, y) /\ Shaped(x) /\ Shaped(y)
      /\ \A q \in Requests \ {r} : request'[q] = request[q]
      /\ request'[r] = y
      /\ None \notin Visitors
  BY VisitAssumption DEF VisitMoves, VisitGoes, VisitSound, Visit!TypeOK
<1>2. IsFiniteSet(Counted(v)) /\ IsFiniteSet(Counted(v)')
  BY VisitAssumption, FS_Subset DEF Counted
<1>3. Counted(v) \subseteq Counted(v)' BY <1>1 DEF Counted, Visit!Visitor, Grows, Shaped
<1>4. Cardinality(Counted(v)) \in Nat /\ Cardinality(Counted(v)') \in Nat
  BY <1>2, FS_CardinalityType
<1>5. Cardinality(Counted(v)) <= Cardinality(Counted(v)') BY <1>2, <1>3, FS_Subset
<1>6. ASSUME x.pc = "setCount", Visit!Visitor(r) = v
      PROVE  Cardinality(Counted(v)) + 1 <= Cardinality(Counted(v)')
  <2>1. r \notin Counted(v) BY <1>6 DEF Counted, Counts
  <2>2. r \in Counted(v)'
    BY <1>1, <1>6 DEF Counted, Visit!Visitor, Grows, Shaped
  <2>3. Cardinality(Counted(v) \cup {r}) = Cardinality(Counted(v)) + 1
    BY <1>2, <2>1, FS_AddElement
  <2>4. Counted(v) \cup {r} \subseteq Counted(v)' BY <1>3, <2>2
  <2> QED BY <1>2, <2>3, <2>4, FS_Subset
<1> QED BY <1>4, <1>5, <1>6

LEMMA CountedSame ==
    ASSUME request' = request, NEW v
    PROVE  Counted(v)' = Counted(v)
  BY DEF Counted, Visit!Visitor

LEMMA CopiesNext ==
    VisitSound /\ CopiesBounded /\ [Visit!Next]_Visit!vars => CopiesBounded'
<1> SUFFICES ASSUME VisitSound, CopiesBounded, [Visit!Next]_Visit!vars
             PROVE  CopiesBounded'
  OBVIOUS
<1>1. CASE UNCHANGED Visit!vars
  BY <1>1, CountedSame DEF Visit!vars, CopiesBounded, Visit!Visitor
<1>2. CASE Visit!Elapse
  <2>1. /\ request' = request
        /\ \A v \in Visitors : visitorHash'[v] \in {visitorHash[v], None}
    BY <1>2 DEF Visit!Elapse, VisitSound, Visit!TypeOK
  <2> QED BY <2>1, CountedSame DEF CopiesBounded, Visit!Visitor
<1>3. ASSUME NEW r \in Requests, NEW y \in Visit!RequestState, VisitMoves(r, request[r], y)
      PROVE  CopiesBounded'
  <2> DEFINE x == request[r]
             old(v) == Cardinality(Counted(v))
             new(v) == Cardinality(Counted(v)')
  <2>1. /\ VisitorMoves(r, x, y) /\ Grows(x, y) /\ Shaped(x) /\ Reads(x, y)
        /\ \A q \in Requests \ {r} : request'[q] = request[q]
        /\ request'[r] = y /\ x \in Visit!RequestState
    BY <1>3 DEF VisitMoves, VisitGoes, VisitSound, Visit!TypeOK
  <2>2. \A v \in Visitors : /\ old(v) \in Nat /\ new(v) \in Nat /\ old(v) <= new(v)
                            /\ x.pc = "setCount" /\ x.visitor = v => old(v) + 1 <= new(v)
    BY <1>3, CountedGrows DEF Visit!Visitor
  <2>3. \A v \in Visitors : visitorHash[v] # None =>
           /\ visitorHash[v].sessionCount \in Nat /\ visitorHash[v].sessionCount <= old(v)
    BY DEF CopiesBounded, VisitSound, Visit!TypeOK, Visit!VisitorHash
  <2>4. \A q \in Requests : request[q].existing # None =>
           /\ request[q].visitor \in Visitors
           /\ request[q].existing.sessionCount \in Nat
           /\ request[q].existing.sessionCount <= old(request[q].visitor)
    <3> SUFFICES ASSUME NEW q \in Requests, request[q].existing # None
                 PROVE  /\ request[q].visitor \in Visitors
                        /\ request[q].existing.sessionCount \in Nat
                        /\ request[q].existing.sessionCount <= old(request[q].visitor)
      OBVIOUS
    <3>1. request[q] \in Visit!RequestState /\ Shaped(request[q])
      BY DEF VisitSound, Visit!TypeOK
    <3>2. request[q].existing \in Visit!VisitorHash BY <3>1 DEF Visit!RequestState
    <3>3. request[q].visitor \in Visitors BY <3>1 DEF Shaped
    <3> QED BY <3>2, <3>3 DEF CopiesBounded, Visit!Visitor, Visit!VisitorHash
  <2> HIDE DEF old, new
  <2>5. ASSUME NEW v \in Visitors, visitorHash'[v] # None
        PROVE  visitorHash'[v].sessionCount <= new(v)
    <3>1. CASE visitorHash'[v] = visitorHash[v] BY <2>2, <2>3, <2>5, <3>1
    <3>2. CASE visitorHash'[v] # visitorHash[v]
      <4>1. PICK h \in Visit!VisitorHash :
              /\ x.visitor \in Visitors
              /\ visitorHash' = [visitorHash EXCEPT ![x.visitor] = h]
              /\ Writes(r, x, h)
        BY <2>1, <3>2 DEF VisitorMoves
      <4>2. v = x.visitor /\ visitorHash'[v] = h BY <3>2, <4>1 DEF VisitSound, Visit!TypeOK
      <4>3. h.sessionCount \in Nat BY DEF Visit!VisitorHash
      <4>4. h.sessionCount <= new(v)
        <5>1. CASE x.pc = "setVisitor" /\ h.sessionCount = 0 BY <2>2, <5>1
        <5>2. CASE visitorHash[v] # None /\ h.sessionCount = visitorHash[v].sessionCount
          BY <2>2, <2>3, <5>2
        <5>3. CASE x.existing # None /\ h.sessionCount = x.existing.sessionCount
          BY <2>2, <2>4, <4>2, <5>3
        <5>4. CASE x.pc = "setCount" /\ h.sessionCount = x.existing.sessionCount + 1
          <6>1. x.existing # None BY <2>1, <5>4 DEF Shaped
          <6> QED BY <2>2, <2>4, <4>2, <5>4, <6>1
        <5> QED BY <4>1, <4>2, <5>1, <5>2, <5>3, <5>4 DEF Writes
      <4> QED BY <4>2, <4>4
    <3> QED BY <3>1, <3>2
  <2>6. ASSUME NEW q \in Requests, request'[q].existing # None
        PROVE  \E v \in Visitors : /\ v = request'[q].visitor
                                   /\ request'[q].existing.sessionCount <= new(v)
    <3>1. CASE q # r
      <4>1. request'[q] = request[q] BY <2>1, <3>1
      <4> QED BY <2>2, <2>4, <2>6, <4>1
    <3>2. CASE q = r
      <4>1. \/ x.existing # None /\ y.existing = x.existing
            \/ x.visitor \in Visitors /\ y.existing = visitorHash[x.visitor]
        BY <2>1, <2>6, <3>2 DEF Reads
      <4>2. x.visitor \in Visitors /\ y.visitor = x.visitor
        BY <2>1, <2>4, <4>1, VisitAssumption DEF Grows, Shaped
      <4> QED BY <2>1, <2>2, <2>3, <2>4, <2>6, <3>2, <4>1, <4>2
    <3> QED BY <3>1, <3>2
  <2>7. ASSUME NEW q \in Requests, request'[q].existing # None
        PROVE  (request[q].existing.sessionCount <= Cardinality(Counted(Visit!Visitor(q))))'
    <3>1. PICK v \in Visitors : /\ v = request'[q].visitor
                                /\ request'[q].existing.sessionCount <= new(v)
      BY <2>6, <2>7
    <3>2. Counted(Visit!Visitor(q))' = Counted(v)' BY <3>1 DEF Counted, Visit!Visitor
    <3>3. request'[q].existing.sessionCount <= Cardinality(Counted(v)') BY <3>1 DEF new
    <3> QED BY <3>2, <3>3
  <2>8. ASSUME NEW v \in Visitors, visitorHash'[v] # None
        PROVE  (visitorHash[v].sessionCount <= Cardinality(Counted(v)))'
    BY <2>5, <2>8 DEF new
  <2> QED BY <2>7, <2>8 DEF CopiesBounded
<1> QED BY <1>1, <1>2, <1>3, VisitNextMoves

\* However resolve and incrementSessionCount overlap, no visitor has more
\* sessions than were begun.
THEOREM SessionsAreNotOvercounted ==
    Visit!Spec => []SessionsNotOvercounted
<1>1. Visit!Init => CopiesBounded BY DEF Visit!Init, CopiesBounded, Visit!NewRequest
<1>2. ASSUME VisitSound, CopiesBounded PROVE SessionsNotOvercounted
  <2> SUFFICES ASSUME NEW v \in Visitors, visitorHash[v] # None
               PROVE  visitorHash[v].sessionCount <= Cardinality(Visit!Began(v))
    BY SameCardinality DEF SessionsNotOvercounted, Visit!SessionsNotOvercounted
  <2>1. /\ Counted(v) \subseteq Visit!Began(v)
        /\ IsFiniteSet(Visit!Began(v)) /\ IsFiniteSet(Counted(v))
    BY VisitAssumption, FS_Subset DEF Counted, Counts, Visit!Began
  <2>2. /\ Cardinality(Counted(v)) <= Cardinality(Visit!Began(v))
        /\ Cardinality(Counted(v)) \in Nat /\ Cardinality(Visit!Began(v)) \in Nat
    BY <2>1, FS_Subset, FS_CardinalityType
  <2>3. visitorHash[v].sessionCount \in Nat
    BY <1>2 DEF VisitSound, Visit!TypeOK, Visit!VisitorHash
  <2> QED BY <1>2, <2>2, <2>3 DEF CopiesBounded
<1> QED BY <1>1, <1>2, CopiesNext, VisitSoundAlways, PTL DEF Visit!Spec

-------------------------------------------------------------------------------
(* The last touch                                                           *)

\* Only a request that has ended may have left the hash without its expiry, and
\* none has written before its HSET.
Fresh(x) ==
    /\ x.pc \in {"new", "get", "del", "hset"} => ~x.written
    /\ x.pc \notin Touch!Ended => ~x.unexpired

\* The request of r goes from x to y ...
TouchGoes(r, x, y) ==
    /\ touching[r] = x
    /\ touching' = [touching EXCEPT ![r] = y]
    /\ x \in Touch!RequestState /\ y \in Touch!RequestState /\ Fresh(y)
    /\ x.pc \notin Touch!Ended /\ y.pc # "new"
    /\ x.pc = "new" => /\ y.before = {q \in Touching : touching[q].pc \in Touch!Ended}
                       /\ ~y.own => y.hand = Touch!Nothing
    /\ x.pc # "new" => y.before = x.before /\ y.own = x.own
    /\ x.pc = "get" => y.hand \in {x.hand, touch, Touch!Nothing}
    /\ x.pc \notin {"new", "get"} => y.hand = x.hand

\* ... and the hash is as it was, is deleted, or takes what is in hand.
HashMoves(x, y) ==
    \/ /\ touch' = touch
       /\ y.pc # "hset"
       /\ y.written => x.written
       /\ \/ ttl' = ttl /\ x.pc # "expire"
          \/ x.pc = "expire" /\ (y.unexpired \/ ttl' \/ touch' = Touch!Nothing)
    \/ /\ touch' = Touch!Nothing
       /\ y.written => x.written
       /\ x.pc # "expire"
    \/ /\ x.pc = "hset"
       /\ touch' = Touch!Over(x.hand)
       /\ y.pc = "expire" \/ y.unexpired

TouchMoves(r, x, y) == TouchGoes(r, x, y) /\ HashMoves(x, y) /\ ttl' \in BOOLEAN

TouchSound == Touch!TypeOK /\ \A r \in Touching : Fresh(touching[r])

LEMMA TouchStepMoves ==
    ASSUME TouchSound, NEW r \in Touching,
           \/ \E S \in SUBSET Fields : Touch!Start(r, S)
           \/ Touch!GetAttribution(r) \/ Touch!Del(r) \/ Touch!SetFields(r)
           \/ Touch!SetExpiry(r) \/ Touch!Crash(r)
    PROVE  \E y \in Touch!RequestState : TouchMoves(r, touching[r], y)
<1> DEFINE x == touching[r]
<1>0. x \in Touch!RequestState /\ Fresh(x) /\ ttl \in BOOLEAN BY DEF TouchSound, Touch!TypeOK
<1> USE DEF TouchMoves, TouchGoes
<1>1. ASSUME NEW S \in SUBSET Fields, Touch!Start(r, S)
      PROVE  \E y \in Touch!RequestState : TouchMoves(r, x, y)
  <2> DEFINE pc == IF S = {} THEN "get" ELSE "del"
             own == (S # {})
             hand == [f \in S |-> r]
             before == {q \in Touching : touching[q].pc \in Touch!Ended}
             y == [x EXCEPT !.pc = pc, !.own = own, !.hand = hand, !.before = before]
  <2>1. touching' = [touching EXCEPT ![r] = y]
    BY <1>0, <1>1, Zenon DEF Touch!Start, TouchSound, Touch!TypeOK
  <2>2. hand \in Touch!Touches BY DEF Touch!Touches
  <2>3. ~own => hand = Touch!Nothing BY DEF Touch!Nothing
  <2>4. pc \in {"get", "del"} /\ own \in BOOLEAN /\ before \in SUBSET Touching OBVIOUS
  <2>5. x.pc = "new" /\ UNCHANGED <<touch, ttl>> BY <1>1 DEF Touch!Start
  <2> HIDE DEF pc, own, hand
  <2>6. y \in Touch!RequestState BY <1>0, <2>2, <2>4 DEF Touch!RequestState
  <2>7. /\ y.pc = pc /\ y.own = own /\ y.hand = hand /\ y.before = before
        /\ y.written = x.written /\ y.unexpired = x.unexpired
    BY <1>0 DEF Touch!RequestState
  <2>8. Fresh(y) BY <1>0, <2>4, <2>5, <2>7 DEF Fresh, Touch!Ended
  <2>9. HashMoves(x, y) BY <2>4, <2>5, <2>7 DEF HashMoves
  <2> HIDE DEF y
  <2>10. TouchGoes(r, x, y)
    BY <1>0, <2>1, <2>3, <2>4, <2>5, <2>6, <2>7, <2>8 DEF Touch!Ended
  <2> QED BY <1>0, <2>5, <2>6, <2>9, <2>10
<1>2. CASE Touch!GetAttribution(r)
  <2>1. PICK found \in {touch, Touch!Nothing} :
          touching' = [touching EXCEPT ![r] = [x EXCEPT
              !.pc = IF found = Touch!Nothing THEN "answered" ELSE "del", !.hand = found]]
    BY <1>0, <1>2, Zenon DEF Touch!GetAttribution, TouchSound, Touch!TypeOK
  <2> DEFINE pc == IF found = Touch!Nothing THEN "answered" ELSE "del"
             y == [x EXCEPT !.pc = pc, !.hand = found]
  <2>2. Touch!Nothing \in Touch!Touches
    <3>1. Touch!Nothing \in [{} -> Touching] BY DEF Touch!Nothing
    <3> QED BY <3>1 DEF Touch!Touches
  <2>3. found \in Touch!Touches BY <2>2 DEF TouchSound, Touch!TypeOK
  <2>4. x.pc = "get" /\ UNCHANGED <<touch, ttl>> BY <1>2 DEF Touch!GetAttribution
  <2>5. touching' = [touching EXCEPT ![r] = y] /\ pc \in {"answered", "del"} BY <2>1
  <2> HIDE DEF pc
  <2>6. y \in Touch!RequestState BY <1>0, <2>3, <2>5 DEF Touch!RequestState, Touch!Ended
  <2>7. /\ y.pc = pc /\ y.hand = found /\ y.own = x.own /\ y.before = x.before
        /\ y.written = x.written /\ y.unexpired = x.unexpired
    BY <1>0 DEF Touch!RequestState
  <2>8. Fresh(y) BY <1>0, <2>4, <2>5, <2>7 DEF Fresh, Touch!Ended
  <2>9. HashMoves(x, y) BY <2>4, <2>5, <2>7 DEF HashMoves
  <2> HIDE DEF y
  <2>10. TouchGoes(r, x, y) BY <1>0, <2>4, <2>5, <2>6, <2>7, <2>8 DEF Touch!Ended
  <2> QED BY <1>0, <2>4, <2>6, <2>9, <2>10
<1>3. CASE Touch!Del(r)
  <2>1. PICK reply \in Reply :
          /\ IF reply = "refused" THEN UNCHANGED <<touch, ttl>> ELSE Touch!Deleted
          /\ touching' = [touching EXCEPT ![r] = [x EXCEPT !.pc =
                            IF reply = "ok" THEN "hset" ELSE "answered"]]
    BY <1>0, <1>3, Zenon DEF Touch!Del, TouchSound, Touch!TypeOK
  <2> DEFINE pc == IF reply = "ok" THEN "hset" ELSE "answered"
             y == [x EXCEPT !.pc = pc]
  <2>2. /\ touching' = [touching EXCEPT ![r] = y] /\ pc \in {"answered", "hset"}
        /\ pc = "hset" => reply # "refused"
    BY <2>1
  <2>3. x.pc = "del" BY <1>3 DEF Touch!Del
  <2> HIDE DEF pc
  <2>4. y \in Touch!RequestState BY <1>0, <2>2 DEF Touch!RequestState, Touch!Ended
  <2>5. /\ y.pc = pc /\ y.hand = x.hand /\ y.own = x.own /\ y.before = x.before
        /\ y.written = x.written /\ y.unexpired = x.unexpired
    BY <1>0 DEF Touch!RequestState
  <2>6. Fresh(y) BY <1>0, <2>2, <2>3, <2>5 DEF Fresh, Touch!Ended
  <2>7. HashMoves(x, y) /\ ttl' \in BOOLEAN
    BY <1>0, <2>1, <2>2, <2>3, <2>5 DEF HashMoves, Touch!Deleted
  <2> HIDE DEF y
  <2>8. TouchGoes(r, x, y) BY <1>0, <2>2, <2>3, <2>4, <2>5, <2>6 DEF Touch!Ended
  <2> QED BY <2>4, <2>7, <2>8
<1>4. CASE Touch!SetFields(r)
  <2>1. PICK reply \in Reply :
          /\ IF reply = "refused" THEN UNCHANGED <<touch, ttl>> ELSE Touch!Hset(r)
          /\ touching' = [touching EXCEPT ![r] = [x EXCEPT
                !.pc = IF reply = "ok" THEN "expire" ELSE "answered",
                !.written = (reply # "refused"),
                !.unexpired = (reply = "lost")]]
    BY <1>0, <1>4, Zenon DEF Touch!SetFields, TouchSound, Touch!TypeOK
  <2> DEFINE pc == IF reply = "ok" THEN "expire" ELSE "answered"
             wr == (reply # "refused")
             un == (reply = "lost")
             y == [x EXCEPT !.pc = pc, !.written = wr, !.unexpired = un]
  <2>2. /\ touching' = [touching EXCEPT ![r] = y] /\ pc \in {"answered", "expire"}
        /\ wr \in BOOLEAN /\ un \in BOOLEAN /\ (pc = "expire" => ~un)
        /\ (wr <=> reply # "refused") /\ (wr => pc = "expire" \/ un)
    BY <2>1, ReplyAssumption
  <2>3. x.pc = "hset" BY <1>4 DEF Touch!SetFields
  <2> HIDE DEF pc, wr, un
  <2>4. y \in Touch!RequestState BY <1>0, <2>2 DEF Touch!RequestState, Touch!Ended
  <2>5. /\ y.pc = pc /\ y.hand = x.hand /\ y.own = x.own /\ y.before = x.before
        /\ y.written = wr /\ y.unexpired = un
    BY <1>0 DEF Touch!RequestState
  <2>6. Fresh(y) BY <1>0, <2>2, <2>3, <2>5 DEF Fresh, Touch!Ended
  <2>7. HashMoves(x, y) /\ ttl' \in BOOLEAN
    <3>1. CASE reply = "refused"
      BY <1>0, <2>1, <2>2, <2>3, <2>5, <3>1 DEF HashMoves
    <3>2. CASE reply # "refused"
      <4>1. touch' = Touch!Over(x.hand) /\ ttl' = (touch # Touch!Nothing /\ ttl)
        BY <2>1, <3>2 DEF Touch!Hset
      <4> QED BY <2>2, <2>3, <2>5, <3>2, <4>1 DEF HashMoves
    <3> QED BY <3>1, <3>2
  <2> HIDE DEF y
  <2>8. TouchGoes(r, x, y) BY <1>0, <2>2, <2>3, <2>4, <2>5, <2>6 DEF Touch!Ended
  <2> QED BY <2>4, <2>7, <2>8
<1>5. CASE Touch!SetExpiry(r)
  <2>1. PICK reply \in Reply :
          /\ IF reply = "refused" THEN UNCHANGED ttl ELSE Touch!Expire
          /\ touching' = [touching EXCEPT ![r] = [x EXCEPT
                !.pc = "answered", !.unexpired = (reply = "refused")]]
    BY <1>0, <1>5, Zenon DEF Touch!SetExpiry, TouchSound, Touch!TypeOK
  <2> DEFINE un == (reply = "refused")
             y == [x EXCEPT !.pc = "answered", !.unexpired = un]
  <2>2. /\ touching' = [touching EXCEPT ![r] = y] /\ un \in BOOLEAN
        /\ un <=> reply = "refused"
    BY <2>1
  <2>3. x.pc = "expire" /\ touch' = touch BY <1>5 DEF Touch!SetExpiry
  <2> HIDE DEF un
  <2>4. y \in Touch!RequestState BY <1>0, <2>2 DEF Touch!RequestState, Touch!Ended
  <2>5. /\ y.pc = "answered" /\ y.hand = x.hand /\ y.own = x.own /\ y.before = x.before
        /\ y.written = x.written /\ y.unexpired = un
    BY <1>0 DEF Touch!RequestState
  <2>6. Fresh(y) BY <2>5 DEF Fresh, Touch!Ended
  <2>7. ttl' \in BOOLEAN /\ (un \/ ttl' \/ touch' = Touch!Nothing)
    BY <1>0, <2>1, <2>2, <2>3 DEF Touch!Expire
  <2>8. HashMoves(x, y) BY <2>3, <2>5, <2>7 DEF HashMoves
  <2> HIDE DEF y
  <2>9. TouchGoes(r, x, y) BY <1>0, <2>2, <2>3, <2>4, <2>5, <2>6 DEF Touch!Ended
  <2> QED BY <2>4, <2>7, <2>8, <2>9
<1>6. CASE Touch!Crash(r)
  <2> DEFINE un == (x.pc = "expire")
             y == [x EXCEPT !.pc = "crashed", !.unexpired = un]
  <2>1. touching' = [touching EXCEPT ![r] = y]
    BY <1>0, <1>6, Zenon DEF Touch!Crash, TouchSound, Touch!TypeOK
  <2>2. un \in BOOLEAN /\ (un <=> x.pc = "expire") OBVIOUS
  <2>3. x.pc \notin Touch!Ended \cup {"new"} /\ UNCHANGED <<touch, ttl>>
    BY <1>6 DEF Touch!Crash
  <2> HIDE DEF un
  <2>4. y \in Touch!RequestState BY <1>0, <2>2 DEF Touch!RequestState, Touch!Ended
  <2>5. /\ y.pc = "crashed" /\ y.own = x.own /\ y.before = x.before
        /\ y.written = x.written /\ y.unexpired = un /\ y.hand = x.hand
    BY <1>0 DEF Touch!RequestState
  <2>6. Fresh(y) BY <2>5 DEF Fresh, Touch!Ended
  <2>7. HashMoves(x, y) BY <2>2, <2>3, <2>5 DEF HashMoves
  <2> HIDE DEF y
  <2>8. TouchGoes(r, x, y) BY <1>0, <2>1, <2>3, <2>4, <2>5, <2>6 DEF Touch!Ended
  <2> QED BY <1>0, <2>3, <2>4, <2>7, <2>8
<1> QED BY <1>1, <1>2, <1>3, <1>4, <1>5, <1>6

LEMMA TouchNextMoves ==
    ASSUME TouchSound, [Touch!Next]_Touch!vars
    PROVE  \/ UNCHANGED Touch!vars
           \/ Touch!Elapse
           \/ \E r \in Touching : \E y \in Touch!RequestState : TouchMoves(r, touching[r], y)
<1>1. ASSUME NEW r \in Touching,
             \/ \E S \in SUBSET Fields : Touch!Start(r, S)
             \/ Touch!GetAttribution(r) \/ Touch!Del(r) \/ Touch!SetFields(r)
             \/ Touch!SetExpiry(r) \/ Touch!Crash(r)
      PROVE  \E y \in Touch!RequestState : TouchMoves(r, touching[r], y)
  BY <1>1, TouchStepMoves
<1> QED BY <1>1, Zenon DEF Touch!Next

LEMMA NothingIsATouch == Touch!Nothing \in Touch!Touches
<1>1. Touch!Nothing \in [{} -> Touching] BY DEF Touch!Nothing
<1> QED BY <1>1 DEF Touch!Touches

LEMMA OverIsATouch ==
    ASSUME NEW h \in Touch!Touches, touch \in Touch!Touches
    PROVE  Touch!Over(h) \in Touch!Touches
<1>1. PICK S \in SUBSET Fields : h \in [S -> Touching] BY DEF Touch!Touches
<1>2. PICK T \in SUBSET Fields : touch \in [T -> Touching] BY DEF Touch!Touches
<1>3. Touch!Over(h) \in [S \cup T -> Touching] BY <1>1, <1>2 DEF Touch!Over
<1>4. S \cup T \in SUBSET Fields BY <1>1, <1>2
<1> QED BY <1>3, <1>4 DEF Touch!Touches

LEMMA TouchSoundInit == Touch!Init => TouchSound
<1> SUFFICES ASSUME Touch!Init PROVE TouchSound OBVIOUS
<1> DEFINE new == [pc |-> "new", own |-> FALSE, hand |-> Touch!Nothing, before |-> {},
                   written |-> FALSE, unexpired |-> FALSE]
<1>1. new \in Touch!RequestState BY NothingIsATouch DEF Touch!RequestState
<1>2. Fresh(new) BY DEF Fresh
<1>3. touching = [r \in Touching |-> new] BY DEF Touch!Init
<1> HIDE DEF new
<1> QED BY <1>1, <1>2, <1>3, NothingIsATouch DEF TouchSound, Touch!TypeOK, Touch!Init

LEMMA TouchSoundNext == TouchSound /\ [Touch!Next]_Touch!vars => TouchSound'
<1> SUFFICES ASSUME TouchSound, [Touch!Next]_Touch!vars PROVE TouchSound' OBVIOUS
<1>1. CASE UNCHANGED Touch!vars BY <1>1 DEF Touch!vars, TouchSound, Touch!TypeOK
<1>2. CASE Touch!Elapse BY <1>2, NothingIsATouch DEF Touch!Elapse, TouchSound, Touch!TypeOK
<1>3. ASSUME NEW r \in Touching, NEW y \in Touch!RequestState, TouchMoves(r, touching[r], y)
      PROVE  TouchSound'
  <2> DEFINE x == touching[r]
  <2>1. /\ touching' = [touching EXCEPT ![r] = y] /\ Fresh(y) /\ x.hand \in Touch!Touches
        /\ HashMoves(x, y) /\ ttl' \in BOOLEAN
    BY <1>3 DEF TouchMoves, TouchGoes, Touch!RequestState
  <2>2. touching' \in [Touching -> Touch!RequestState] /\ \A q \in Touching : Fresh(touching'[q])
    BY <2>1 DEF TouchSound, Touch!TypeOK
  <2>3. touch' \in Touch!Touches
    BY <2>1, NothingIsATouch, OverIsATouch DEF HashMoves, TouchSound, Touch!TypeOK
  <2> QED BY <2>1, <2>2, <2>3 DEF TouchSound, Touch!TypeOK
<1> QED BY <1>1, <1>2, <1>3, TouchNextMoves

LEMMA TouchSoundAlways == Touch!Spec => []TouchSound
  BY TouchSoundInit, TouchSoundNext, PTL DEF Touch!Spec

-------------------------------------------------------------------------------
\* Whoever owes the hash its expiry keeps owing it.
LEMMA ExpiresNext ==
    TouchSound /\ Touch!TouchExpires /\ [Touch!Next]_Touch!vars => Touch!TouchExpires'
<1> SUFFICES ASSUME TouchSound, Touch!TouchExpires, [Touch!Next]_Touch!vars
             PROVE  Touch!TouchExpires'
  OBVIOUS
<1>1. CASE UNCHANGED Touch!vars BY <1>1 DEF Touch!vars, Touch!TouchExpires
<1>2. CASE Touch!Elapse BY <1>2 DEF Touch!Elapse, Touch!TouchExpires
<1>3. ASSUME NEW r \in Touching, NEW y \in Touch!RequestState, TouchMoves(r, touching[r], y)
      PROVE  Touch!TouchExpires'
  <2> DEFINE x == touching[r]
  <2>1. /\ HashMoves(x, y) /\ x.pc \notin Touch!Ended /\ Fresh(x)
        /\ \A q \in Touching \ {r} : touching'[q] = touching[q]
        /\ touching'[r] = y
    BY <1>3 DEF TouchMoves, TouchGoes, TouchSound, Touch!TypeOK
  <2>2. ~x.unexpired BY <2>1 DEF Fresh
  <2>3. CASE touch' = touch /\ ttl' = ttl /\ x.pc # "expire"
    BY <2>1, <2>2, <2>3 DEF Touch!TouchExpires
  <2>4. CASE x.pc = "expire" /\ (y.unexpired \/ ttl' \/ touch' = Touch!Nothing)
    BY <2>1, <2>4 DEF Touch!TouchExpires
  <2>5. CASE touch' = Touch!Nothing BY <2>5 DEF Touch!TouchExpires
  <2>6. CASE y.pc = "expire" \/ y.unexpired BY <2>1, <2>6 DEF Touch!TouchExpires
  <2> QED BY <2>1, <2>3, <2>4, <2>5, <2>6 DEF HashMoves
<1> QED BY <1>1, <1>2, <1>3, TouchNextMoves

LEMMA TouchAlwaysExpires == Touch!Spec => []Touch!TouchExpires
<1>1. Touch!Init => Touch!TouchExpires BY DEF Touch!Init, Touch!TouchExpires
<1> QED BY <1>1, ExpiresNext, TouchSoundAlways, PTL DEF Touch!Spec

-------------------------------------------------------------------------------
\* Nobody overlaps r, and nobody after r carries a touch.
Alone(r) ==
    \A q \in Touching \ {r} :
        \/ touching[q].pc = "new"
        \/ q \in touching[r].before
        \/ r \in touching[q].before /\ ~touching[q].own

\* Whoever ended before another began has ended.  When r is alone, its HSET finds
\* the hash deleted, and from then on the hash and what the others have in hand is
\* r's touch or nothing.
Whole ==
    /\ \A q, r \in Touching : q \in touching[r].before => touching[q].pc \in Touch!Ended
    /\ \A r \in Touching : Alone(r) =>
          /\ touching[r].pc = "hset" => touch = Touch!Nothing
          /\ touching[r].written =>
                /\ touch \in {Touch!Nothing, touching[r].hand}
                /\ \A q \in Touching : r \in touching[q].before =>
                      touching[q].hand \in {Touch!Nothing, touching[r].hand}

LEMMA WholeNext == TouchSound /\ Whole /\ [Touch!Next]_Touch!vars => Whole'
<1> SUFFICES ASSUME TouchSound, Whole, [Touch!Next]_Touch!vars PROVE Whole' OBVIOUS
<1>1. CASE UNCHANGED Touch!vars BY <1>1 DEF Touch!vars, Whole, Alone
<1>2. CASE Touch!Elapse BY <1>2 DEF Touch!Elapse, Whole, Alone
<1>3. ASSUME NEW p \in Touching, NEW y \in Touch!RequestState, TouchMoves(p, touching[p], y)
      PROVE  Whole'
  <2> DEFINE x == touching[p]
  <2>1. /\ TouchGoes(p, x, y) /\ HashMoves(x, y)
        /\ x.pc \notin Touch!Ended /\ y.pc # "new" /\ Fresh(x) /\ Fresh(y)
        /\ x \in Touch!RequestState
        /\ \A q \in Touching \ {p} : touching'[q] = touching[q]
        /\ touching'[p] = y
    BY <1>3 DEF TouchMoves, TouchGoes, TouchSound, Touch!TypeOK
  <2>2. \A q \in Touching : p \notin touching[q].before BY <2>1 DEF Whole
  <2>3. ASSUME NEW q \in Touching, NEW r \in Touching, q \in touching'[r].before
        PROVE  touching'[q].pc \in Touch!Ended
    <3>1. touching[q].pc \in Touch!Ended
      <4>1. CASE r # p BY <2>1, <2>3, <4>1 DEF Whole
      <4>2. CASE r = p BY <2>1, <2>3, <4>2 DEF TouchGoes, Whole
      <4> QED BY <4>1, <4>2
    <3> QED BY <2>1, <3>1
  <2>4. p \notin y.before BY <2>1, <2>2 DEF TouchGoes
  <2>5. ASSUME NEW r \in Touching, Alone(r)'
        PROVE  /\ touching'[r].pc = "hset" => touch' = Touch!Nothing
               /\ touching'[r].written =>
                    /\ touch' \in {Touch!Nothing, touching'[r].hand}
                    /\ \A q \in Touching : r \in touching'[q].before =>
                          touching'[q].hand \in {Touch!Nothing, touching'[r].hand}
    <3>1. CASE r = p
      <4>1. x.pc # "new" => Alone(r)
        BY <2>1, <2>2, <2>5, <3>1 DEF Alone, TouchGoes
      <4>2. \A q \in Touching : p \notin touching'[q].before BY <2>1, <2>2, <2>4
      <4>3. CASE touch' = touch /\ y.pc # "hset" /\ (y.written => x.written)
        <5>1. y.written => x.pc \notin {"new", "get"} BY <2>1, <4>3 DEF Fresh
        <5> QED BY <2>1, <3>1, <4>1, <4>2, <4>3, <5>1 DEF Whole, TouchGoes
      <4>4. CASE touch' = Touch!Nothing /\ (y.written => x.written)
        BY <2>1, <3>1, <4>2, <4>4
      <4>5. CASE x.pc = "hset" /\ touch' = Touch!Over(x.hand) /\ (y.pc = "expire" \/ y.unexpired)
        <5>1. touch = Touch!Nothing BY <3>1, <4>1, <4>5 DEF Whole
        <5>2. y.hand = x.hand BY <2>1, <4>5 DEF TouchGoes
        <5>3. PICK S \in SUBSET Fields : x.hand \in [S -> Touching]
          BY <2>1 DEF Touch!RequestState, Touch!Touches
        <5>4. Touch!Over(x.hand) = x.hand BY <5>1, <5>3 DEF Touch!Over, Touch!Nothing
        <5>5. y.pc # "hset" BY <2>1, <4>5 DEF Fresh, Touch!Ended
        <5> QED BY <2>1, <3>1, <4>2, <4>5, <5>2, <5>4, <5>5
      <4> QED BY <2>1, <4>3, <4>4, <4>5 DEF HashMoves
    <3>2. CASE r # p
      <4>1. touching'[r] = touching[r] BY <2>1, <3>2
      <4>2. r \in y.before /\ ~y.own
        <5>1. p \notin touching[r].before BY <2>2
        <5> QED BY <2>1, <2>5, <3>2, <4>1, <5>1 DEF Alone
      <4>3. touching[r].pc \in Touch!Ended BY <2>3, <2>1, <4>1, <4>2
      <4>4. touching[r].pc # "hset" BY <4>3 DEF Touch!Ended
      <4>5. Alone(r)
        <5> SUFFICES ASSUME NEW q \in Touching \ {r}
                     PROVE  \/ touching[q].pc = "new"
                            \/ q \in touching[r].before
                            \/ r \in touching[q].before /\ ~touching[q].own
          BY DEF Alone
        <5>1. CASE q = p BY <2>1, <4>2, <5>1 DEF TouchGoes
        <5>2. CASE q # p BY <2>1, <2>5, <4>1, <5>2 DEF Alone
        <5> QED BY <5>1, <5>2
      <4> SUFFICES ASSUME touching[r].written
                   PROVE  /\ touch' \in {Touch!Nothing, touching[r].hand}
                          /\ \A q \in Touching : r \in touching'[q].before =>
                                touching'[q].hand \in {Touch!Nothing, touching[r].hand}
        BY <4>1, <4>4
      <4>6. /\ touch \in {Touch!Nothing, touching[r].hand}
            /\ \A q \in Touching : r \in touching[q].before =>
                  touching[q].hand \in {Touch!Nothing, touching[r].hand}
        BY <4>5 DEF Whole
      <4>7. x.pc # "new" => x.hand \in {Touch!Nothing, touching[r].hand}
        BY <2>1, <4>2, <4>6 DEF TouchGoes
      <4>8. y.hand \in {Touch!Nothing, touching[r].hand}
        BY <2>1, <4>2, <4>6, <4>7 DEF TouchGoes
      <4>9. touch' \in {Touch!Nothing, touching[r].hand}
        <5>1. CASE touch' \in {Touch!Nothing, touch} BY <4>6, <5>1
        <5>2. CASE x.pc = "hset" /\ touch' = Touch!Over(x.hand)
          <6>1. touching[r].hand \in Touch!Touches
            BY DEF TouchSound, Touch!TypeOK, Touch!RequestState
          <6>2. PICK S \in SUBSET Fields : touching[r].hand \in [S -> Touching]
            BY <6>1 DEF Touch!Touches
          <6>3. Touch!Nothing \in [{} -> Touching] BY DEF Touch!Nothing
          <6>4. CASE x.hand = Touch!Nothing
            <7>1. PICK T \in SUBSET Fields : touch \in [T -> Touching]
              BY DEF TouchSound, Touch!TypeOK, Touch!Touches
            <7>2. Touch!Over(x.hand) = touch BY <6>3, <6>4, <7>1 DEF Touch!Over
            <7> QED BY <4>6, <5>2, <7>2
          <6>5. CASE x.hand = touching[r].hand
            <7>1. Touch!Over(x.hand) = x.hand
              BY <4>6, <6>2, <6>3, <6>5 DEF Touch!Over
            <7> QED BY <5>2, <6>5, <7>1
          <6> QED BY <4>7, <5>2, <6>4, <6>5
        <5> QED BY <2>1, <5>1, <5>2 DEF HashMoves
      <4> QED BY <2>1, <4>6, <4>8, <4>9
    <3> QED BY <3>1, <3>2
  <2> QED BY <2>3, <2>5 DEF Whole
<1> QED BY <1>1, <1>2, <1>3, TouchNextMoves

\* The newest touch stays whole.
THEOREM NewestTouchIsKept == Touch!Spec => []NewestTouchStays
<1>1. Touch!Init => Whole BY DEF Touch!Init, Whole
<1>2. Whole => NewestTouchStays
  BY DEF Whole, Alone, NewestTouchStays, Touch!NewestTouchStays, Touch!Newest
<1> QED BY <1>1, <1>2, WholeNext, TouchSoundAlways, PTL DEF Touch!Spec
-------------------------------------------------------------------------------
(* The four of them                                                         *)

\* Whatever Redis fails, the keys of a visitor, a session and a touch have an
\* expiry, or somebody is about to set it, or was failed or killed before he could.
THEOREM KeysAlwaysExpire == Visit!Spec /\ Touch!Spec => []KeysExpire
<1>1. Visit!KeysExpire /\ Touch!TouchExpires => KeysExpire BY DEF KeysExpire
<1> QED BY <1>1, VisitKeysExpire, TouchAlwaysExpires, PTL

\* The four have their types.
THEOREM TypesHold == Spec /\ Visit!Spec /\ Touch!Spec /\ Token!Spec => []VolatileTypeOK
<1>1. Coherent /\ VisitSound /\ TouchSound /\ Dated => VolatileTypeOK
  BY DEF Coherent, VisitSound, TouchSound, Dated, VolatileTypeOK
<1> QED BY <1>1, CoherentAlways, VisitSoundAlways, TouchSoundAlways, DatedAlways, PTL
===============================================================================
