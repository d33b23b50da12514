---------------------------------- MODULE Sdk ----------------------------------
(***************************************************************************)
(* The browser SDK: SdkIdentity, the ids it sends, and SdkQueue, the queue *)
(* it sends them through, whose events are those Tracked.  They share the  *)
(* tabs, each a load of a page for the queue, and nothing else.            *)
(***************************************************************************)
EXTENDS SdkIdentity

\* The constants and variables of SdkQueue.
CONSTANTS Tracked, BatchMaxSize, MaxAttempts, MaxOutages

VARIABLES load, online, outages, untracked, dedup, store, requests, sent, refused

Queue == INSTANCE SdkQueue WITH Loads <- Tabs, Events <- Tracked

ASSUME SdkAssumption == Queue!QueueAssumption

-------------------------------------------------------------------------------
\* Every state of the identity and of the queue is well typed.
SdkTypeOK == TypeOK /\ Queue!TypeOK

\* No batch outgrows maxSize.
BatchesFit == Queue!BatchesFit

\* While its page lives, an event leaves the hands of the queue only by an
\* answered fetch, by a beacon or into the offline store.
NothingDropped == Queue!NothingDropped
================================================================================
