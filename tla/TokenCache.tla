------------------------------ MODULE TokenCache ------------------------------
(***************************************************************************)
(* The access token of Google Ads: GoogleAdsOAuthService.getAccessToken    *)
(* keeps one in memory and renews it shortly before it expires, for every  *)
(* send of GoogleAdsService.                                               *)
(*                                                                         *)
(* Sends overlap, and each that finds no usable token asks for one: the    *)
(* answers arrive in any order, as late as the network pleases (the        *)
(* request has no timeout), and the last one stays.  A token's life begins *)
(* when Google issues it, but the cache counts from the answer.            *)
(***************************************************************************)
EXTENDS Naturals

CONSTANTS
    Sends,      \* calls of GoogleAdsService.send
    Lifetime,   \* expires_in, an hour
    Margin,     \* REFRESH_MARGIN_MS
    Timeout,    \* of an upload: it is aborted then
    MaxTime,    \* how far the clock runs: a bound
    None

\* A new token lives longer than the margin.
Times ==
    /\ Lifetime \in Nat /\ Margin \in Nat /\ Timeout \in Nat /\ MaxTime \in Nat
    /\ Margin < Lifetime
    /\ None \notin Nat

VARIABLES
    cached,   \* the token in memory, or None
    send,     \* where each send is
    clock     \* Date.now()

vars == <<cached, send, clock>>

\* A token is known by when Google issued it; expiresAt is the cache's idea.
Token == [issued : Nat, expiresAt : Nat]

Send == [pc     : {"idle", "asking", "issued", "uploading", "ended"},
         token  : Nat \cup {None},   \* when the token in hand was issued
         late   : Nat,               \* how long its answer took
         since  : Nat]               \* when the upload began

TypeOK ==
    /\ cached \in Token \cup {None}
    /\ send \in [Sends -> Send]
    /\ clock \in 0..MaxTime

Init ==
    /\ cached = None
    /\ send = [s \in Sends |-> [pc |-> "idle", token |-> None, late |-> 0, since |-> 0]]
    /\ clock = 0

-------------------------------------------------------------------------------
\* Mutant of Usable: the margin is forgotten.
UsableToTheEnd == cached # None /\ cached.expiresAt > clock

\* The cached token will do.
Usable == cached # None /\ cached.expiresAt > clock + Margin

\* The upload starts as soon as the token is there.
Uploading(s, token, late) ==
    [send EXCEPT ![s] = [pc |-> "uploading", token |-> token, late |-> late, since |-> clock]]

\* getAccessToken with a usable token, how late it was answered once included.
Reuse(s) ==
    /\ send[s].pc = "idle"
    /\ Usable
    /\ send' = Uploading(s, cached.issued, cached.expiresAt - Lifetime - cached.issued)
    /\ UNCHANGED <<cached, clock>>

\* ... and without one: Google is asked, by every such send for itself.
Ask(s) ==
    /\ send[s].pc = "idle"
    /\ ~Usable
    /\ send' = [send EXCEPT ![s].pc = "asking"]
    /\ UNCHANGED <<cached, clock>>

\* Google issues a token, and its answer is under way.
Issue(s) ==
    /\ send[s].pc = "asking"
    /\ send' = [send EXCEPT ![s].pc = "issued", ![s].token = clock]
    /\ UNCHANGED <<cached, clock>>

\* The answer is here, and the cache takes it whatever it holds by now.
Answer(s) ==
    /\ send[s].pc = "issued"
    /\ cached' = [issued |-> send[s].token, expiresAt |-> clock + Lifetime]
    /\ send' = Uploading(s, send[s].token, clock - send[s].token)
    /\ UNCHANGED clock

\* Google or the network fails, or a credential is not configured: the send is
\* over, and the cache as it was.
Fail(s) ==
    /\ send[s].pc \in {"idle", "asking", "issued"}
    /\ send' = [send EXCEPT ![s].pc = "ended"]
    /\ UNCHANGED <<cached, clock>>

\* The upload is answered, or aborted.
Uploaded(s) ==
    /\ send[s].pc = "uploading"
    /\ send' = [send EXCEPT ![s].pc = "ended"]
    /\ UNCHANGED <<cached, clock>>

\* Time passes; no upload outlives its timeout.
Tick ==
    /\ clock < MaxTime
    /\ \A s \in Sends : send[s].pc = "uploading" => clock < send[s].since + Timeout
    /\ clock' = clock + 1
    /\ UNCHANGED <<cached, send>>

Next ==
    \/ Tick
    \/ \E s \in Sends :
          \/ Reuse(s) \/ Ask(s) \/ Issue(s) \/ Answer(s) \/ Fail(s) \/ Uploaded(s)

Spec == Init /\ [][Next]_vars

-------------------------------------------------------------------------------
\* A conversion is uploaded with a token that Google still takes, until the upload
\* is over, as long as the margin covers the upload and the time the token's own
\* answer took, whichever sends renewed the token meanwhile, in whatever order,
\* and whichever failed to.
TokensValid ==
    \A s \in Sends :
        send[s].pc = "uploading" /\ send[s].late + Timeout <= Margin
        => clock < send[s].token + Lifetime
===============================================================================
