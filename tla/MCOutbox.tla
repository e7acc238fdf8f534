------------------------------ MODULE MCOutbox ------------------------------
(***************************************************************************)
(* Finite instances of Outbox.  Endpoints b1 (tenant t1) and b2 (tenant t2)*)
(* share the secret slot s1 where an instance has one; b3 belongs to t1    *)
(* and uses no secret.  Slots w1 and w2 belong to the process of directory *)
(* d1, w3 to that of d2.                                                   *)
(***************************************************************************)
EXTENDS Outbox, TLC

CONSTANTS e1, e2, e3, b1, b2, b3, t1, t2, s1, d1, d2, w1, w2, w3

Restricted(f, S) == [x \in S |-> f[x]]

MCEndpointOf == Restricted((e1 :> b1) @@ (e2 :> b2) @@ (e3 :> b3), Effects)
MCTenantOf == Restricted((b1 :> t1) @@ (b2 :> t2) @@ (b3 :> t1), Endpoints)
MCSlotOf ==
    [b \in Endpoints |-> IF b = b3 \/ Slots = {} THEN NoSlot ELSE s1]
MCHomeOf == Restricted((w1 :> d1) @@ (w2 :> d1) @@ (w3 :> d2), Workers)
MCBackoff == [n \in 1 .. MaxAttempts - 1 |-> n]

\* Delays below one instant of the explored time.
MCShortBackoff == [n \in 1 .. MaxAttempts - 1 |-> 0]

\* w1 and w2 are interchangeable slots of one process.
SlotSymmetry == Permutations({w1, w2})
=============================================================================
