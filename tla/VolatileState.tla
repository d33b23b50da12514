----------------------------- MODULE VolatileState -----------------------------
(***************************************************************************)
(* The state that nobody keeps for good: CircuitBreaker and TokenCache in  *)
(* the memory of an instance, Tracker and LastTouch in Redis.  They share  *)
(* nothing but None and the ways in which a Redis command may end.         *)
(***************************************************************************)
EXTENDS CircuitBreaker, FiniteSets

\* The constants and variables of Tracker, LastTouch and TokenCache.
CONSTANTS Requests, Visitors, SessionIds, Touching, Fields, Reply,
          Sends, Lifetime, Margin, Timeout, MaxTokenTime

VARIABLES visitorHash, sessionHash, request,
          touch, ttl, touching,
          cached, send, clock

Visit == INSTANCE Tracker
Calm == INSTANCE Tracker WITH Reply <- {"ok"}
Touch == INSTANCE LastTouch WITH Requests <- Touching, request <- touching
Token == INSTANCE TokenCache WITH MaxTime <- MaxTokenTime

ASSUME ReplyAssumption ==
    {"ok"} \subseteq Reply /\ Reply \subseteq {"ok", "lost", "refused"}

\* None is not an id and not a hash.
ASSUME VisitAssumption ==
    /\ IsFiniteSet(Requests)
    /\ None \notin Visitors \cup SessionIds \cup Visit!VisitorHash \cup Visit!SessionHash

ASSUME TimesAssumption == Token!Times

-------------------------------------------------------------------------------
\* Every state of the four is well typed.
VolatileTypeOK == TypeOK /\ Visit!TypeOK /\ Touch!TypeOK /\ Token!TypeOK

\* Two requests that were given the same session are of the same visitor.
SessionsArePrivate == Visit!SessionsArePrivate

\* A visitor's sessionCount never exceeds the sessions begun.
SessionsNotOvercounted == Visit!SessionsNotOvercounted

\* A first visit that nothing disturbed keeps its firstSeenAt.
FirstVisitsKept == Visit!FirstVisitsKept

\* No key of the tracker outlives its data for want of a TTL.
KeysExpire == Visit!KeysExpire /\ Touch!TouchExpires

\* The newest touch stays whole.
NewestTouchStays == Touch!NewestTouchStays

\* A conversion is uploaded with a token that Google still takes.
TokensValid == Token!TokensValid
================================================================================
