------------------------------ MODULE MCGateway ------------------------------
(***************************************************************************)
(* A finite instance of what stands between a visitor and guest code, and  *)
(* of what waits behind it: the accounts and lanes of the gateway, the     *)
(* pool of guest workers, and an outbox (as MCOutbox instantiates it) that *)
(* is full with the capture of one tenant.  They share no state, so a      *)
(* behaviour explores one and the others keep their first state.           *)
(***************************************************************************)
EXTENDS Accounts, MCGuests, MCOutbox

CONSTANTS ann, bob, cat, code1

MCCost == [Get |-> 1, AuthenticatedAction |-> 1, PasswordHash |-> 2]
Plainly(kind, peer) == [kind |-> kind, peer |-> peer, name |-> Nobody, code |-> Nobody, right |-> FALSE]
MCTraffic ==
    {Plainly("logout", Nobody), Plainly("optional", 3)}
      \cup {[Plainly("login", 1) EXCEPT !.name = ann, !.right = TRUE], [Plainly("login", 2) EXCEPT !.name = ann]}
      \cup {[Plainly("register", Nobody) EXCEPT !.name = n, !.code = code1] : n \in {bob, cat}}

VARIABLE part   \* the component this behaviour explores
gatewayVars == <<part, accountsVars, guestVars, vars>>

GatewayInit ==
    /\ part \in {"accounts", "guests", "outbox"}
    /\ AccountsInit /\ GuestsInit /\ Init
    /\ part # "guests" => pool.size = 1
GatewayNext ==
    \/ part = "accounts" /\ AccountsNext /\ UNCHANGED <<part, guestVars, vars>>
    \/ part = "guests" /\ GuestsNext /\ UNCHANGED <<part, accountsVars, vars>>
    \/ part = "outbox" /\ Next /\ UNCHANGED <<part, accountsVars, guestVars>>
GatewaySpec == GatewayInit /\ [][GatewayNext]_gatewayVars

=============================================================================
