---------------------------- MODULE IdempotentStore ----------------------------
(***************************************************************************)
(* What an idempotency key promises: the first put of an id wins for good, *)
(* and whoever is answered about an id is told who won, once.              *)
(***************************************************************************)
CONSTANTS Askers, Ids, None

VARIABLES
    stored,   \* who put each id, None before
    answer    \* what each asker was told

vars == <<stored, answer>>

Init ==
    /\ stored = [id \in Ids |-> None]
    /\ answer = [x \in Askers |-> None]

Put(x, id) ==
    /\ stored[id] = None
    /\ stored' = [stored EXCEPT ![id] = x]
    /\ UNCHANGED answer

Tell(x, id) ==
    /\ stored[id] # None
    /\ answer[x] = None
    /\ answer' = [answer EXCEPT ![x] = [id |-> id, owner |-> stored[id]]]
    /\ UNCHANGED stored

Next == \E x \in Askers, id \in Ids : Put(x, id) \/ Tell(x, id)

Spec == Init /\ [][Next]_vars
================================================================================
