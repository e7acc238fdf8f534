------------------------------ MODULE MCGuests ------------------------------
(***************************************************************************)
(* A finite instance of Guests: requests of one account and of nobody.     *)
(***************************************************************************)
EXTENDS Guests, TLC

CONSTANTS key1, a1, a2

MCOffers == {<<key1, "route">>, <<Anonymous, "action">>, <<Anonymous, "bare">>}
MCPublicOffers == {<<Anonymous, "route">>, <<Anonymous, "bare">>}
MCMaxStarts == [size \in 1 .. 2 |-> IF size = 1 THEN 3 ELSE 2]
MCMaxMade == [size \in 1 .. 2 |-> IF size = 1 THEN 3 ELSE 2]

\* Attempts are interchangeable: no action names one.
Alike == Permutations(Attempts)
=============================================================================
