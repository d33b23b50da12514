----------------------------- MODULE MCAttribution -----------------------------
(* Model values, inputs and symmetry for the runs of Attribution. *)
EXTENDS Attribution

CONSTANTS e1, e2, e3, gclid, fbclid

Conf(m, w) == [model |-> m, window |-> w, halfLife |-> 1, first |-> 4, last |-> 4]

\* Every model; a shorter window; weights that leave nothing to those between, or
\* to anybody; half-lives that outlast the window, and none.
AllConfigs ==
    {Conf(m, 2) : m \in Models} \cup {Conf("last-touch", 1)}
    \cup {[Conf("position-based", 2) EXCEPT !.first = f, !.last = l] :
              f \in {0, 10}, l \in {0, 10}}
    \cup {[Conf("time-decay", 2) EXCEPT !.halfLife = h] : h \in {0, 2}}

Touch(keys, at) ==
    [keys |-> keys, newSession |-> TRUE, conversion |-> FALSE, at |-> at]
Sale == [keys |-> {}, newSession |-> FALSE, conversion |-> TRUE, at |-> 2]

\* Touches with and without a click id, a conversion, and a touch that it must
\* not credit whenever it is inserted.
Journeys == {Touch({gclid}, 0), Touch({}, 1), Sale, Touch({}, 3)}

Symmetry == Permutations(Events)
================================================================================
