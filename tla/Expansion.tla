----------------------------- MODULE Expansion ------------------------------
(***************************************************************************)
(* The admission check of a guest component: one pass over the payloads of *)
(* its binary that bounds what instantiating it would expand to, without   *)
(* expanding it.  The reference is the tree of instantiations itself, kept *)
(* beside the summaries.                                                   *)
(***************************************************************************)
EXTENDS Naturals, Sequences, SequencesExt

CONSTANTS
    MAX_EXPANDED_INSTANCES,         \* 1024
    MAX_EXPANDED_COMPONENT_BYTES,   \* 8 MiB
    MAX_COMPONENT_DEPTH,            \* 32
    MAX_FUNCTIONS,                  \* 4096
    Lengths,                        \* byte lengths of a nested component
    MaxPayloads                     \* payloads of a component

ASSUME ExpansionAssumption ==
    {MAX_EXPANDED_INSTANCES, MAX_EXPANDED_COMPONENT_BYTES, MAX_COMPONENT_DEPTH} \subseteq Nat \ {0}

VARIABLES
    scopes,     \* the open components: [instances, bytes, components], a stack
    core,       \* inside a core module
    functions,  \* functions counted so far
    judged,     \* "reading", "admitted", "limit" or "refused"
    read,       \* payloads read
    trees       \* the same stack: [tree, defined], the reference

expansionVars == <<scopes, core, functions, judged, read, trees>>

Scope(bytes) == [instances |-> 1, bytes |-> bytes, components |-> << >>]
Leaf(bytes) == [bytes |-> bytes, parts |-> << >>]
Top == Len(scopes)
NextPayload == judged = "reading" /\ read < MaxPayloads /\ read' = read + 1
Judge(why) == judged' = why /\ UNCHANGED <<scopes, core, functions, trees>>
Carry == UNCHANGED <<judged, functions>>

(* `Expansion::add`. *)
WithinLimits(e) == e.instances <= MAX_EXPANDED_INSTANCES /\ e.bytes <= MAX_EXPANDED_COMPONENT_BYTES
\* Slip: an instantiation costs one instance, whatever it holds.
SumShallow(e, other) == [e EXCEPT !.instances = @ + 1, !.bytes = @ + other.bytes]
Sum(e, other) == [e EXCEPT !.instances = @ + other.instances, !.bytes = @ + other.bytes]
Summary(scope) == [instances |-> scope.instances, bytes |-> scope.bytes]

(* A core module hides its payloads up to its end. *)
ModuleSection == NextPayload /\ ~core /\ core' = TRUE /\ UNCHANGED <<scopes, trees>> /\ Carry
ModuleEnd == NextPayload /\ core /\ core' = FALSE /\ UNCHANGED <<scopes, trees>> /\ Carry
ComponentSection(bytes) ==
    /\ NextPayload /\ ~core
    /\ IF Top < MAX_COMPONENT_DEPTH
       THEN /\ scopes' = Append(scopes, Scope(bytes)) /\ UNCHANGED core /\ Carry
            /\ trees' = Append(trees, [tree |-> Leaf(bytes), defined |-> << >>])
       ELSE Judge("limit")
End ==
    /\ NextPayload /\ ~core
    /\ IF Top > 1
       THEN /\ scopes' = [Front(scopes) EXCEPT ![Top - 1].components = Append(@, Summary(scopes[Top]))]
            /\ trees' = [Front(trees) EXCEPT ![Top - 1].defined = Append(@, trees[Top].tree)]
            /\ UNCHANGED core /\ Carry
       ELSE Judge("admitted")
(* `ComponentInstanceSection`, `InstanceSection`: the callee's whole cost. *)
Grown(part, tree) ==
    LET sum == Sum(scopes[Top], part) IN
    IF WithinLimits(sum)
    THEN /\ scopes' = [scopes EXCEPT ![Top] = sum] /\ UNCHANGED core /\ Carry
         /\ trees' = [trees EXCEPT ![Top].tree.parts = Append(@, tree)]
    ELSE Judge("limit")
InstantiateComponent(index) ==
    /\ NextPayload /\ ~core
    /\ IF index \in DOMAIN scopes[Top].components
       THEN Grown(scopes[Top].components[index], trees[Top].defined[index])
       ELSE Judge("refused")
CoreInstance == NextPayload /\ ~core /\ Grown([instances |-> 1, bytes |-> 0], Leaf(0))
(* Outer aliases and exports append to the component index space. *)
OuterAlias(count, index) ==
    LET outer == Top - count IN
    /\ NextPayload /\ ~core
    /\ IF outer >= 1 /\ index \in DOMAIN scopes[outer].components
       THEN /\ scopes' = [scopes EXCEPT ![Top].components = Append(@, scopes[outer].components[index])]
            /\ trees' = [trees EXCEPT ![Top].defined = Append(@, trees[outer].defined[index])]
            /\ UNCHANGED core /\ Carry
       ELSE Judge("refused")
ExportComponent(index) ==
    /\ NextPayload /\ ~core
    /\ IF index \in DOMAIN scopes[Top].components
       THEN /\ scopes' = [scopes EXCEPT ![Top].components = Append(@, scopes[Top].components[index])]
            /\ trees' = [trees EXCEPT ![Top].defined = Append(@, trees[Top].defined[index])]
            /\ UNCHANGED core /\ Carry
       ELSE Judge("refused")
(* Component-valued imports and instance aliases, and canonical options with *)
(* cleanup or concurrency, are not admitted.                                 *)
Unsupported == NextPayload /\ ~core /\ Judge("refused")
(* `check` counts the functions of the core modules, and their operators in  *)
(* the same way.                                                             *)
FunctionSection(count) ==
    /\ NextPayload /\ core /\ UNCHANGED <<scopes, core, trees>>
    /\ functions' = functions + count
    /\ judged' = IF functions' <= MAX_FUNCTIONS THEN judged ELSE "limit"

ExpansionInit ==
    \E bytes \in Lengths :
       /\ scopes = <<Scope(bytes)>> /\ trees = <<[tree |-> Leaf(bytes), defined |-> << >>]>>
       /\ core = FALSE /\ functions = 0 /\ judged = "reading" /\ read = 0
ExpansionNext ==
    \/ ModuleSection \/ ModuleEnd \/ End \/ CoreInstance \/ Unsupported
    \/ \E bytes \in Lengths : ComponentSection(bytes)
    \/ \E index \in 1 .. 2 : InstantiateComponent(index) \/ ExportComponent(index) \/ \E count \in 0 .. 1 : OuterAlias(count, index)
    \/ \E count \in 1 .. 2 : FunctionSection(count)
ExpansionSpec == ExpansionInit /\ [][ExpansionNext]_expansionVars

-----------------------------------------------------------------------------
(* The reference: what instantiating a component really makes. *)
RECURSIVE Whole(_)
Whole(tree) ==
    FoldLeft(LAMBDA e, part : LET w == Whole(part) IN
                [instances |-> e.instances + w.instances, bytes |-> e.bytes + w.bytes],
             [instances |-> 1, bytes |-> tree.bytes], tree.parts)

(* The pass is exact and never too late: every open and every finished      *)
(* component, reached through any alias or export, is summarised as what    *)
(* its instantiation really expands to, so nothing whose expansion exceeds  *)
(* a limit is ever admitted.                                                *)
ExpansionExact ==
    /\ Len(trees) = Len(scopes)
    /\ \A s \in DOMAIN scopes :
          /\ Summary(scopes[s]) = Whole(trees[s].tree) /\ Len(scopes[s].components) = Len(trees[s].defined)
          /\ \A i \in DOMAIN scopes[s].components : scopes[s].components[i] = Whole(trees[s].defined[i])
    /\ judged = "admitted" => WithinLimits(Whole(trees[1].tree))
=============================================================================
