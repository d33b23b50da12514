------------------------------ MODULE MCAdmission ------------------------------
(* Model values, names and symmetry for the runs of Admission. *)
EXTENDS Admission, TLC

CONSTANTS d1, d2, r1, r2, home, site, ann, bob, shop, blog

\* "site", and "site-1", which is also the first suffix of "site".
SiteName  == <<0>>
SiteNames == {<<0>>, <<0, 1>>}

\* The bound of the run: two calls, or one call and one request, or two requests and
\* a call that changes what they read.  The minute ends while a request is in the rate
\* limiter, where alone it matters.
Load == 2 * Cardinality({c \in Calls : call[c].pc # "idle"})
          + Cardinality({r \in Requests : request[r].pc # "idle"})

Creating == \E c \in Calls : call[c].kind \in {"register", "create"} /\ call[c].pc # "idle"

BoundedNext ==
    \/ \E c \in Calls : /\ call[c].pc = "idle" => Load <= 2
                        /\ CallStep(c)
                        /\ UNCHANGED admissionVars
                        /\ Creating' => \E r \in Requests : request[r].pc = "idle"
    \/ \E r \in Requests : /\ request[r].pc = "idle" => Load <= IF Creating THEN 2 ELSE 3
                           /\ RequestStep(r)
    \/ Tick /\ \E r \in Requests : request[r].pc \in {"limit", "incr", "expire"}
    \/ \E k \in CounterKeys : ExpireKey(k)

BoundedSpec == Init /\ [][BoundedNext]_vars

Symmetry == Permutations(Calls) \cup Permutations(Requests)
================================================================================
