---------------------------- MODULE MCSdkIdentity ----------------------------
(* Model values and symmetry for the runs of SdkIdentity. *)
EXTENDS SdkIdentity, TLC

CONSTANTS t1, t2, v1, v2, s1, s2, s3, e1, e2

Symmetry == Permutations(Tabs) \cup Permutations(VisitorIds) \cup
            Permutations(SessionIds) \cup Permutations(Events)
==============================================================================
