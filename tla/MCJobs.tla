------------------------------- MODULE MCJobs -------------------------------
(***************************************************************************)
(* Finite instances of Jobs.  Services s1 and s2 belong to tenants t1 and  *)
(* t2; j1 and j3 are captured for s1, j2 for s2.  Workers w1 and w2 are    *)
(* slots of process h1, w3 of h2.                                          *)
(***************************************************************************)
EXTENDS Jobs, TLC

CONSTANTS j1, j2, j3, s1, s2, t1, t2, h1, h2, w1, w2, w3

Restricted(f, S) == [x \in S |-> f[x]]

MCServiceOf == Restricted((j1 :> s1) @@ (j2 :> s2) @@ (j3 :> s1), Jobs)
MCTenantOf == Restricted((s1 :> t1) @@ (s2 :> t2), Services)
MCHostOf == Restricted((w1 :> h1) @@ (w2 :> h1) @@ (w3 :> h2), Workers)
MCBackoff == [n \in 1 .. MaxAttempts - 1 |-> n]

\* w1 and w2 are interchangeable slots of one process.
SlotSymmetry == Permutations({w1, w2})
=============================================================================
