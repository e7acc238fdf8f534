------------------------------ MODULE MCBlobs ------------------------------
(***************************************************************************)
(* Finite instances of Blobs: slot 1 belongs to an account, slot 2 to an   *)
(* anonymous capability.                                                   *)
(***************************************************************************)
EXTENDS Blobs

CONSTANTS account, capability, x

MCSubjectOf == [s \in Slots |-> IF s = 1 THEN account ELSE capability]
=============================================================================
