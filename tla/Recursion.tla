-------------------------------- MODULE Recursion --------------------------------
(***************************************************************************)
(* Induction over numbers by way of sets, and that a recursion over        *)
(* numbers defines a function: lemmas for the proofs about folds.          *)
(***************************************************************************)
EXTENDS Integers, WellFoundedInduction, TLAPS

\* A set of numbers has a least element.
LEMMA LeastNatural ==
    ASSUME NEW T \in SUBSET Nat, T # {}
    PROVE  \E m \in T : \A n \in T : m <= n
<1>1. IsWellFoundedOn(OpToRel(<, Nat), Nat) BY NatLessThanWellFounded
<1>2. PICK m \in T : \A n \in T : ~(<<n, m>> \in OpToRel(<, Nat)) BY <1>1, WFMin
<1>3. \A n \in T : ~(n < m) BY <1>2 DEF OpToRel
<1> QED BY <1>3

\* A set that has 0 and with a number the next one, up to N, has all of them.
LEMMA SetInduction ==
    ASSUME NEW N \in Nat, NEW T, 0 \in T, \A i \in 1..N : i - 1 \in T => i \in T
    PROVE  \A i \in 0..N : i \in T
<1> DEFINE Missing == {i \in 0..N : i \notin T}
<1>1. CASE Missing = {} BY <1>1
<1>2. CASE Missing # {}
  <2>1. PICK m \in Missing : \A n \in Missing : m <= n
    <3>1. Missing \in SUBSET Nat OBVIOUS
    <3> HIDE DEF Missing
    <3> QED BY <3>1, <1>2, LeastNatural
  <2>2. m \in 1..N BY <2>1
  <2>3. m - 1 \in 0..N /\ ~(m <= m - 1) BY <2>2
  <2>4. m - 1 \in T BY <2>1, <2>3
  <2> QED BY <2>1, <2>2, <2>4
<1> QED BY <1>1, <1>2

\* f takes N steps from base within S.
Walk(S, N, base, step, f) ==
    f \in [0..N -> S] /\ f[0] = base /\ \A i \in 1..N : f[i] = step[i][f[i - 1]]

\* When each step is a function on S, they can be taken.
LEMMA RecursionExists ==
    ASSUME NEW S, NEW N \in Nat, NEW base \in S, NEW step \in [1..N -> [S -> S]]
    PROVE  \E f : Walk(S, N, base, step, f)
<1> DEFINE Goes(n) == \E f : Walk(S, n, base, step, f)
           T == {n \in 0..N : Goes(n)}
<1>1. 0 \in T
  <2> DEFINE f == [i \in 0..0 |-> base]
  <2>1. f \in [0..0 -> S] /\ f[0] = base /\ \A i \in 1..0 : f[i] = step[i][f[i - 1]]
    OBVIOUS
  <2> HIDE DEF f
  <2>2. Goes(0) BY <2>1 DEF Walk
  <2> HIDE DEF Goes
  <2> QED BY <2>2
<1>2. ASSUME NEW n \in 1..N, n - 1 \in T PROVE n \in T
  <2>0. Goes(n - 1)
    <3> HIDE DEF Goes
    <3> QED BY <1>2
  <2>1. PICK f : /\ f \in [0..(n - 1) -> S]
                 /\ f[0] = base /\ \A i \in 1..(n - 1) : f[i] = step[i][f[i - 1]]
    BY <2>0 DEF Walk
  <2> DEFINE g == [i \in 0..n |-> IF i = n THEN step[n][f[n - 1]] ELSE f[i]]
  <2>2. step[n][f[n - 1]] \in S
    <3>1. step[n] \in [S -> S] OBVIOUS
    <3>2. f[n - 1] \in S BY <2>1
    <3> QED BY <3>1, <3>2
  <2>3. g \in [0..n -> S] BY <2>1, <2>2
  <2>4. g[0] = base /\ \A i \in 1..n : g[i] = step[i][g[i - 1]] BY <2>1
  <2> HIDE DEF g
  <2>5. Goes(n) BY <2>3, <2>4 DEF Walk
  <2> HIDE DEF Goes
  <2> QED BY <2>5
<1>3. N \in T
  <2> HIDE DEF T
  <2>1. \A i \in 0..N : i \in T BY <1>1, <1>2, SetInduction
  <2> QED BY <2>1
<1>4. Goes(N)
  <2> HIDE DEF Goes
  <2> QED BY <1>3
<1> QED BY <1>4
================================================================================
