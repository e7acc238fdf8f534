----------------------------- MODULE MCAdmission -----------------------------
(***************************************************************************)
(* A finite instance of what decides which storage work runs: the limits   *)
(* on transactions and provider sessions, the admission of a manifest, the *)
(* lists and aggregates it declares, and the admission of its component.   *)
(* They share no state, so a behaviour explores one of them and the others *)
(* keep their first state.                                                 *)
(***************************************************************************)
EXTENDS Store, MCManifest, MCListing, Expansion

VARIABLE part   \* the component this behaviour explores
Parts == {"store", "manifest", "listing", "expansion"}
vars == <<part, storeVars, manifestVars, listingVars, expansionVars>>

Init ==
    /\ ManifestInit
    /\ part \in {p \in Parts : p # "manifest" => manifest = Blank}
    /\ StoreInit
    /\ ListingInit /\ (part # "listing" => rows[1] = StoredRow(Mine, 1))
    /\ ExpansionInit /\ (part # "expansion" => scopes[1].bytes = 1)
Next ==
    \/ part = "store" /\ StoreNext /\ UNCHANGED <<part, manifestVars, listingVars, expansionVars>>
    \/ part = "manifest" /\ ManifestNext /\ UNCHANGED <<part, storeVars, listingVars, expansionVars>>
    \/ part = "listing" /\ ListingNext /\ UNCHANGED <<part, storeVars, manifestVars, expansionVars>>
    \/ part = "expansion" /\ ExpansionNext /\ UNCHANGED <<part, storeVars, manifestVars, listingVars>>
\* Fairness is the store's; behaviours of the other parts only count for safety.
Spec == Init /\ [][Next]_vars /\ StoreFairness
=============================================================================
