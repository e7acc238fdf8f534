------------------------------ MODULE Manifest ------------------------------
(***************************************************************************)
(* Admission: the checks an application's manifest passes before the host  *)
(* serves it (noxide-admission), and the executor that later trusts them   *)
(* (noxide-repository's typed computations).  A manifest is a record of    *)
(* functions from identifiers to declarations, so the duplicate-identifier *)
(* checks of `unique` hold by the shape of the data; identifier syntax,    *)
(* labels and byte budgets are left out.  Integers live in LOW..HIGH, the  *)
(* i64 range scaled down so that overflow happens.                         *)
(***************************************************************************)
EXTENDS Integers, Sequences, FiniteSets, SequencesExt, FiniteSetsExt

CONSTANTS Manifests,     \* the manifests offered for admission
          Times,         \* transaction times
          Texts, Term,   \* text values, and the one a search for Term finds
          User,          \* the signed-in account
          Paths,         \* request paths: sequences of segments
          LOW, HIGH,     \* the width of an integer
          MAX_EXPRESSION_NODES, MAX_EXPRESSION_DEPTH, MAX_GUARDS,
          MAX_STEPS, MAX_CREATES,
          None

VARIABLES manifest,      \* the manifest under admission
          verdict,       \* "offered", "refused" or "admitted"
          outcome        \* what the last execution of an admitted action did

manifestVars == <<manifest, verdict, outcome>>

Missing == None
Width == LOW .. HIGH
Opaque == {"Blob", "UploadHandle"}
Fixed(f) == f.immutable \/ f.kind \in {"Reference", "Account", "Blob"}
Named(fields, n) == n \in DOMAIN fields
Lower(f) == IF f.lo = None THEN LOW ELSE f.lo
Upper(f) == IF f.hi = None THEN HIGH ELSE f.hi

-----------------------------------------------------------------------------
(* Lookups and small predicates on declarations. *)

Atoms(op) == UNION op.policy
IsPublic(op) == \E p \in Atoms(op) : p.p = "Public"
IsCapability(op) == \E p \in Atoms(op) : p.p = "Capability"
AnonymousAction(op) == IsCapability(op) \/ (IsPublic(op) /\ op.kind = "Create")
IsPreview(op) == op.list # None /\ op.list.preview # None
Selects(op) == op.kind \in {"List", "Aggregate"}
FieldsOf(m, r) == m.resources[r].fields
References(m, r) == {f \in DOMAIN FieldsOf(m, r) : FieldsOf(m, r)[f].kind = "Reference"}
ReferenceTo(m, r, f) == IF f \in References(m, r) THEN FieldsOf(m, r)[f].to ELSE None
DirectRead(m, id, r) ==
    /\ id \in DOMAIN m.operations
    /\ m.operations[id].kind = "Read"
    /\ m.operations[id].via = None
    /\ m.operations[id].resource = r
Canonical(f, value) ==
    \/ f.optional /\ value = Missing
    \/ value # Missing /\ CASE f.kind = "Choice" -> value \in f.keys
                            [] f.kind = "Boolean" -> value \in BOOLEAN
                            [] f.kind = "Integer" -> value \in Lower(f) .. Upper(f)
                            [] f.kind = "Duration" -> value \in 0 .. Upper(f)
                            [] f.kind = "Timestamp" -> value \in 0 .. HIGH
                            [] OTHER -> TRUE
Enumerated(f) == f.kind \in {"Boolean", "Choice"}
TestsField(fields, test) ==
    /\ Named(fields, test.field)
    /\ Enumerated(fields[test.field])
    /\ Canonical(fields[test.field], test.equals)

-----------------------------------------------------------------------------
(* Resources, gates, expiry and membership tuples. *)

ValidField(m, f) ==
    /\ f.initial # None => Enumerated(f) /\ ~f.optional /\ Canonical(f, f.initial)
    /\ CASE f.kind = "UploadHandle" -> FALSE
         [] f.kind = "Blob" -> f.initial = None
         [] f.kind = "Reference" -> ~f.optional /\ f.initial = None /\ f.to \in DOMAIN m.resources
         [] f.kind = "Account" -> ~f.optional /\ f.initial = None
         [] f.kind = "Integer" -> (f.lo # None /\ f.hi # None) => f.lo <= f.hi
         [] f.kind = "Choice" -> f.keys # {}
         [] OTHER -> TRUE
ValidResources(m) ==
    /\ m.resources # << >>
    /\ \A r \in DOMAIN m.resources :
          /\ DOMAIN FieldsOf(m, r) # {}
          /\ \A f \in DOMAIN FieldsOf(m, r) : ValidField(m, FieldsOf(m, r)[f])
ValidGates(m) ==
    \A r \in DOMAIN m.resources : LET gate == m.resources[r].gate IN
       gate # None =>
          /\ gate.field \in References(m, r)
          /\ LET target == ReferenceTo(m, r, gate.field) IN
                /\ m.resources[target].gate = None
                /\ TestsField(FieldsOf(m, target), gate.visible)
                /\ TestsField(FieldsOf(m, target), gate.create_when)
RequiredTimestamp(fields, name) ==
    Named(fields, name) /\ fields[name].kind = "Timestamp" /\ ~fields[name].optional
ValidLifecycles(m) ==
    \A r \in DOMAIN m.resources :
       /\ m.resources[r].expiry # None => RequiredTimestamp(FieldsOf(m, r), m.resources[r].expiry)
       /\ \A tuple \in m.resources[r].unique :
             /\ tuple.reference \in References(m, r)
             /\ Named(FieldsOf(m, r), tuple.account)
             /\ FieldsOf(m, r)[tuple.account].kind = "Account"
ValidRelated(m, r, p) ==
    /\ p.resource \in DOMAIN m.resources
    /\ p.reference \in References(m, p.resource)
    /\ ReferenceTo(m, p.resource, p.reference)
          = IF p.target = None THEN r ELSE ReferenceTo(m, r, p.target)
    /\ Named(FieldsOf(m, p.resource), p.account)
    /\ FieldsOf(m, p.resource)[p.account].kind = "Account"

-----------------------------------------------------------------------------
(* Operations: shape, selection, query extension, policy, disclosure. *)

Inferred(op, names) ==
    IF IsPublic(op) THEN {n \in names : op.fields = None \/ n \notin op.fields} ELSE {}
ValidSelection(m, op) ==
    LET fields == FieldsOf(m, op.resource) IN
    /\ DOMAIN op.filter # {} => Selects(op)
    /\ op.disclose # {} => Selects(op) /\ IsPublic(op)
    /\ \A f \in DOMAIN op.filter :
          /\ Named(fields, f)
          /\ Enumerated(fields[f])
          /\ op.filter[f].lit => Canonical(fields[f], op.filter[f].value)
          /\ op.visibility # None => op.visibility.field # f
    /\ op.disclose = Inferred(op, DOMAIN op.filter)

(* A sort or range key: `scalar_field`. *)
ScalarKey(fields, name) ==
    Named(fields, name) /\ ~fields[name].optional /\ fields[name].kind \notin Opaque
SameEnvelope(op, source) ==
    \A part \in {"resource", "policy", "scope", "via", "bind", "filter", "disclose",
                 "visibility", "fields"} : op[part] = source[part]
ValidAggregate(m, id, op) ==
    LET aggregate == op.query.aggregate
        fields == FieldsOf(m, op.resource) IN
    /\ op.query.search = None /\ op.query.range = None /\ op.list = None
    /\ aggregate.source \in DOMAIN m.operations \ {id}
    /\ LET source == m.operations[aggregate.source] IN
          /\ source.kind = "List" /\ source.via = None /\ ~IsPreview(source)
          /\ SameEnvelope(op, source)
    /\ aggregate.function # "count" =>
          /\ Named(fields, aggregate.field)
          /\ ~fields[aggregate.field].optional
          /\ fields[aggregate.field].kind
                \in IF aggregate.function = "sum" THEN {"Integer"} ELSE {"Integer", "Timestamp"}
Ordered(op) == op.list # None /\ op.list.order # None
\* Slip: ordering by an unprojected field is not counted as an inference.
OrderInferenceNone(op) == {}
OrderInference(op) ==
    IF Ordered(op) THEN {<<"order", f>> : f \in Inferred(op, {op.list.order.field})} ELSE {}
QueryInference(op) ==
    OrderInference(op) \cup
    IF op.query = None THEN {} ELSE UNION {
       IF op.query.search = None THEN {}
       ELSE {<<"search", f>> : f \in Inferred(op, op.query.search.fields)},
       IF op.query.range = None THEN {}
       ELSE {<<"range", f>> : f \in Inferred(op, {op.query.range.field})},
       IF op.query.aggregate = None \/ ~IsPublic(op) THEN {}
       ELSE {<<"aggregate", op.query.aggregate.field>>} }
DeclaredInference(op) == IF op.query = None THEN {} ELSE op.query.disclose
ValidQuery(m, id, op) ==
    LET fields == FieldsOf(m, op.resource) IN
    /\ Ordered(op) => /\ op.kind = "List"
                      /\ ScalarKey(fields, op.list.order.field)
                      /\ \/ op.list.order.live
                         \/ Fixed(fields[op.list.order.field])
    /\ op.query # None /\ op.query.search # None =>
          /\ op.kind = "List"
          /\ op.query.search.fields # {}
          /\ op.query.search.fields \subseteq m.resources[op.resource].search
    /\ op.query # None /\ op.query.range # None =>
          /\ op.kind = "List"
          /\ Ordered(op) /\ op.list.order.field = op.query.range.field
          /\ ScalarKey(fields, op.query.range.field)
          /\ LET range == op.query.range
                 Value(bound) == bound.at.value IN
                /\ range.lower # None \/ range.upper # None
                /\ (/\ range.lower # None /\ range.upper # None
                    /\ range.lower.at.lit /\ range.upper.at.lit)
                      => \/ Value(range.lower) < Value(range.upper)
                         \/ /\ Value(range.lower) = Value(range.upper)
                            /\ range.lower.inclusive /\ range.upper.inclusive
    /\ (op.kind = "Aggregate") = (op.query # None /\ op.query.aggregate # None)
    /\ op.kind = "Aggregate" => ValidAggregate(m, id, op)
    /\ DeclaredInference(op) = QueryInference(op)
ValidSearchIndexes(m) ==
    \A r \in DOMAIN m.resources : \A f \in m.resources[r].search :
       Named(FieldsOf(m, r), f) /\ FieldsOf(m, r)[f].kind = "Text"

ValidPolicy(m, op) ==
    /\ op.policy # {}
    /\ \A rule \in op.policy : rule # {} /\ \A p \in rule :
          /\ p.p = "PrincipalIs" =>
                /\ op.kind \in {"Read", "List", "Aggregate", "Create"}
                /\ Named(FieldsOf(m, op.resource), p.field)
                /\ FieldsOf(m, op.resource)[p.field].kind = "Account"
          /\ p.p = "ExistsRelated" => ValidRelated(m, op.resource, p)
ValidFollow(m, op) ==
    op.via # None =>
       /\ op.kind = "Read" /\ op.scope = None
       /\ op.via.source \in DOMAIN m.operations
       /\ LET source == m.operations[op.via.source] IN
             /\ source.via = None /\ source.kind \in {"Read", "List"}
             /\ ReferenceTo(m, source.resource, op.via.field) = op.resource
             /\ source.fields # None => op.via.field \in source.fields
ValidOperations(m) ==
    \A id \in DOMAIN m.operations : LET op == m.operations[id] IN
       /\ op.resource \in DOMAIN m.resources
       /\ op.scope # None => Selects(op) /\ op.scope \in References(m, op.resource)
       /\ Selects(op) /\ m.resources[op.resource].gate # None
             => op.scope = m.resources[op.resource].gate.field
       /\ ValidFollow(m, op)
       /\ DOMAIN op.bind = IF op.kind = "Create" THEN References(m, op.resource) ELSE {}
       /\ \A f \in DOMAIN op.bind : DirectRead(m, op.bind[f], ReferenceTo(m, op.resource, f))
       /\ ValidSelection(m, op)
       /\ op.list # None => op.kind = "List" /\ op.list.size > 0
       /\ ValidPolicy(m, op)
       /\ ValidQuery(m, id, op)
ValidPublicOperations(m) ==
    \A id \in DOMAIN m.operations : LET op == m.operations[id] IN
       IF ~IsPublic(op) THEN op.visibility = None /\ op.fields = None
       ELSE /\ op.policy = {{[p |-> "Public"]}}
            /\ \/ op.kind = "Create" /\ op.visibility = None /\ op.fields = None
               \/ /\ op.kind \in {"List", "Read", "Aggregate"}
                  /\ op.visibility # None /\ TestsField(FieldsOf(m, op.resource), op.visibility)
                  /\ op.fields # None /\ op.fields # {}
                  /\ op.fields \subseteq DOMAIN FieldsOf(m, op.resource)
ValidCapabilityOperations(m) ==
    \A id \in DOMAIN m.operations : LET op == m.operations[id] IN
       IsCapability(op) => op.policy = {{[p |-> "Capability"]}} /\ op.kind \in {"Update", "Delete"}

-----------------------------------------------------------------------------
(* Routes: a path is a sequence of segments, "{}" standing for the target. *)

Target == "{}"
\* The identifiers that read as canonical record IDs are those in IDs.
IDs == {"1", "2"}
\* Slip: only identical patterns are refused.
PathsOverlapExact(left, right) == left.path = right.path
PathsOverlap(left, right) ==
    /\ Len(left.path) = Len(right.path)
    /\ \A i \in DOMAIN left.path :
          \/ left.path[i] = right.path[i]
          \/ left.path[i] = Target /\ right.path[i] \in IDs
          \/ right.path[i] = Target /\ left.path[i] \in IDs
MatchPath(route, path) ==
    /\ Len(route.path) = Len(path)
    /\ \A i \in DOMAIN path : \/ route.path[i] = path[i] /\ path[i] # Target
                              \/ route.path[i] = Target /\ path[i] \in IDs
ValidPath(route) ==
    Cardinality({i \in DOMAIN route.path : route.path[i] = Target})
       = IF route.resource = None THEN 0 ELSE 1
Source(m, op) == IF op.kind = "Aggregate" THEN m.operations[op.query.aggregate.source] ELSE op
(* The field each route parameter must parse as: `parameter_fields`. *)
ParameterUses(m, route) ==
    UNION {LET op == Source(m, m.operations[id]) IN UNION {
       {<<op.filter[f].param, <<op.resource, f>>>> : f \in {g \in DOMAIN op.filter : ~op.filter[g].lit}},
       IF op.query = None \/ op.query.search = None THEN {}
       ELSE {<<op.query.search.param, None>>},
       IF op.query = None \/ op.query.range = None THEN {}
       ELSE {<<b.at.param, <<op.resource, op.query.range.field>>>> :
                b \in {x \in {op.query.range.lower, op.query.range.upper} : x # None /\ ~x.at.lit}} }
       : id \in route.operations}
UsedField(m, use) == FieldsOf(m, use[2][1])[use[2][2]]
(* A kind is compared with its own attributes: keys, bounds, target. *)
UseKind(m, use) ==
    IF use[2] = None THEN <<"Search">>
    ELSE LET f == UsedField(m, use) IN <<f.kind, f.keys, f.lo, f.hi, f.to>>
MayBeAbsent(m, route, p) ==
    \A u \in ParameterUses(m, route) : u[1] = p => u[2] # None /\ UsedField(m, u).optional
ValidRouteParams(m, route) ==
    LET uses == ParameterUses(m, route) IN
    /\ {u[1] : u \in uses} = route.params
    /\ \A u, v \in uses : u[1] = v[1] => UseKind(m, u) = UseKind(m, v)
    /\ route.path = << >> => route.params = {}
(* Every parameter of the preview's page fits the one it is filled from. *)
CompatibleDestination(m, route, there) ==
    /\ there.params \subseteq route.params
    /\ \A v \in ParameterUses(m, there) :
          /\ \A u \in ParameterUses(m, route) : u[1] = v[1] => UseKind(m, u) = UseKind(m, v)
          /\ MayBeAbsent(m, route, v[1]) => MayBeAbsent(m, there, v[1])
SeeAll(m, route, op) ==
    op.list.preview \in DOMAIN m.routes /\ LET there == m.routes[op.list.preview] IN
       /\ CompatibleDestination(m, route, there)
       /\ \E id \in there.operations \cap DOMAIN m.operations : LET full == m.operations[id] IN
             /\ full.kind = "List" /\ ~IsPreview(full)
             /\ \A part \in {"resource", "policy", "visibility", "scope", "filter"} :
                   full[part] = op[part]
SignedResources(a) ==
    {a.targets[t].resource : t \in {u \in DOMAIN a.targets : a.targets[u].source = "Page"}}
ValidRoute(m, route) ==
    LET ops == {m.operations[id] : id \in route.operations}
        lists == {op \in ops : op.kind = "List"} IN
    /\ route.operations \subseteq DOMAIN m.operations
    /\ route.forms \subseteq DOMAIN m.web_bindings
    /\ ValidPath(route)
    /\ ValidRouteParams(m, route)
    /\ route.public => route.forms = {} /\ \A op \in ops : IsPublic(op)
    /\ Cardinality({op \in lists : ~IsPreview(op)}) <= 1
    /\ \A op \in lists : IsPreview(op) => SeeAll(m, route, op)
    /\ \A op \in ops :
          CASE op.via # None -> op.via.source \in route.operations
            [] op.via = None /\ Selects(op) ->
                  route.resource = IF op.scope = None THEN None
                                   ELSE ReferenceTo(m, op.resource, op.scope)
            [] OTHER -> op.kind = "Read" /\ route.resource = op.resource
    /\ route.resource # None =>
          \E op \in ops : op.kind = "Read" /\ op.via = None /\ op.resource = route.resource
    /\ \A form \in route.forms : LET a == m.actions[m.web_bindings[form].action] IN
          /\ SignedResources(a) \subseteq {route.resource}
          /\ \A s \in DOMAIN a.steps : \A f \in DOMAIN a.steps[s].assign :
                LET change == a.steps[s].assign[f] IN
                (/\ change.how = "set" /\ change.value.op = "Target"
                 /\ a.targets[change.value.name].source = "Page")
                   => LET op == m.operations[a.steps[s].operation] IN
                      f \in DOMAIN op.bind /\ op.bind[f] \in route.operations
ValidRoutes(m) ==
    /\ \A r \in DOMAIN m.routes : ValidRoute(m, m.routes[r])
    /\ \A r, s \in DOMAIN m.routes : r # s => ~PathsOverlap(m.routes[r], m.routes[s])
    /\ DOMAIN m.routes # {} =>
          \E r \in DOMAIN m.routes : m.routes[r].path = << >> /\ m.routes[r].resource = None
-----------------------------------------------------------------------------
(* Expressions: their domains at admission. *)

Arithmetic == {"Add", "Subtract", "Multiply"}
RECURSIVE Leaves(_), Nodes(_), Depth(_)
Leaves(v) == IF v.op \in Arithmetic THEN Leaves(v.left) \cup Leaves(v.right) ELSE {v}
Nodes(v) == IF v.op \in Arithmetic THEN 1 + Nodes(v.left) + Nodes(v.right) ELSE 1
Depth(v) == IF v.op \in Arithmetic THEN 1 + Max({Depth(v.left), Depth(v.right)}) ELSE 1

Domain(kind, lo, hi) ==
    [kind |-> kind, lo |-> lo, hi |-> hi, keys |-> {}, to |-> None, optional |-> FALSE]
Identity(r) == [Domain("Reference", None, None) EXCEPT !.to = r]
LiteralDomain(v) ==
    CASE v.kind = "Integer" -> Domain("Integer", v.value, v.value)
      [] v.kind = "Duration" -> Domain("Duration", 0, v.value)
      [] v.kind = "Choice" -> [Domain("Choice", None, None) EXCEPT !.keys = {v.value}]
      [] OTHER -> Domain(v.kind, None, None)
Clamp(n) == Max({LOW, Min({HIGH, n})})
Interval(op, l, r) ==
    LET ends == CASE op = "Add" -> {Lower(l) + Lower(r), Upper(l) + Upper(r)}
                  [] op = "Subtract" -> {Lower(l) - Upper(r), Upper(l) - Lower(r)}
                  [] OTHER -> {x * y : x \in {Lower(l), Upper(l)}, y \in {Lower(r), Upper(r)}}
    IN  <<Min(ends), Max(ends)>>
\* Slip: a product's bounds are taken from the lower and the upper operands alone.
CombineNaive(op, l, r) ==
    IF l.kind = "Timestamp" THEN {Domain("Timestamp", None, None)}
    ELSE {Domain("Integer", Clamp(Lower(l) * Lower(r)), Clamp(Upper(l) * Upper(r)))}
Combine(op, l, r) ==
    IF l.optional \/ r.optional THEN {}
    ELSE IF op = "Add" /\ l.kind = "Timestamp" /\ r.kind = "Duration"
    THEN {Domain("Timestamp", None, None)}
    ELSE IF l.kind # "Integer" \/ r.kind # "Integer" THEN {}
    ELSE LET i == Interval(op, l, r) IN
         IF i[1] > HIGH \/ i[2] < LOW THEN {}
         ELSE {Domain("Integer", Clamp(i[1]), Clamp(i[2]))}

(* A site is where a value stands: [at, index, guard].  The result is the  *)
(* set of its one domain, or {} when admission refuses the value.          *)
RECURSIVE Walk(_, _, _, _)
Walk(m, a, site, v) ==
    CASE v.op = "Input" ->
            {i \in {a.inputs[n] : n \in DOMAIN a.inputs \cap {v.name}} : i.kind \notin Opaque}
      [] v.op = "Literal" -> {LiteralDomain(v)}
      [] v.op = "Principal" ->
            IF \/ site.at = "effect"
               \/ /\ site.at = "step" /\ ~site.guard
                  /\ m.operations[a.steps[site.index].operation].kind = "Create"
            THEN {Domain("Account", None, None)} ELSE {}
      [] v.op = "TransactionTime" -> {Domain("Timestamp", None, None)}
      [] v.op = "Target" ->
            IF site.at = "schedule" THEN {}
            ELSE {Identity(a.targets[t].resource) : t \in DOMAIN a.targets \cap {v.name}}
      [] v.op = "Created" ->
            LET bound == IF site.at = "effect" THEN Len(a.steps) + 1 ELSE site.index IN
            IF site.at = "schedule" \/ v.step \notin 1 .. bound - 1 THEN {}
            ELSE LET op == m.operations[a.steps[v.step].operation] IN
                 IF op.kind = "Create" THEN {Identity(op.resource)} ELSE {}
      [] v.op \in {"Snapshot", "Current"} ->
            LET t == a.targets[v.target] IN
            IF /\ v.target \in DOMAIN a.targets
               /\ v.op = "Snapshot" /\ v.reviewed => t.exact
               /\ v.op = "Current" => /\ site.at = "step" /\ site.guard
                                      /\ a.steps[site.index].target = v.target
               /\ t.projection # None /\ v.field \in t.projection.fields
            THEN {f \in {FieldsOf(m, t.resource)[v.field]} : f.kind \notin Opaque}
            ELSE {}
      [] OTHER ->
            UNION {Combine(v.op, l, r) : l \in Walk(m, a, site, v.left), r \in Walk(m, a, site, v.right)}

Fits(d, f) ==
    /\ d.optional => f.optional
    /\ d.kind = f.kind
    /\ CASE f.kind = "Integer" -> Lower(d) >= Lower(f) /\ Upper(d) <= Upper(f)
         [] f.kind = "Duration" -> Upper(d) <= Upper(f)
         [] f.kind = "Choice" -> d.keys \subseteq f.keys
         [] f.kind = "Reference" -> d.to = f.to
         [] OTHER -> f.kind \notin Opaque
AllFit(m, a, site, v, f) == \E d \in Walk(m, a, site, v) : Fits(d, f)
ValidCondition(m, a, site, c) ==
    \E l \in Walk(m, a, site, c.left), r \in Walk(m, a, site, c.right) :
       /\ l.kind = r.kind /\ l.to = r.to
       /\ c.cmp \notin {"eq", "ne"} => /\ ~l.optional /\ ~r.optional
                                      /\ l.kind \in {"Integer", "Timestamp", "Duration"}

-----------------------------------------------------------------------------
(* Actions, the jobs they schedule and the effects they emit. *)

At(i, guard) == [at |-> "step", index |-> i, guard |-> guard]
ScheduleSite == [at |-> "schedule", index |-> 0, guard |-> FALSE]
EffectSite == [at |-> "effect", index |-> 0, guard |-> FALSE]
Schedules(m, id) == {s \in m.schedules : s.source = id}
Emissions(m, id) == {e \in m.emissions : e.source = id}
ChangeValue(change) == IF change.how = "set" THEN change.value ELSE change.by
(* Every value an action evaluates, tagged with where it stands. *)
ActionValues(m, id) ==
    LET steps == m.actions[id].steps IN
    UNION {{<<<<"set", i, f>>, ChangeValue(steps[i].assign[f])>> : f \in DOMAIN steps[i].assign}
             \cup UNION {{<<<<"left", i, c>>, c.left>>, <<<<"right", i, c>>, c.right>>} : c \in steps[i].guards}
           : i \in DOMAIN steps}
      \cup UNION {{<<<<"input", s, n>>, s.inputs[n]>> : n \in DOMAIN s.inputs} \cup {<<<<"due", s>>, s.due>>}
                   : s \in Schedules(m, id)}
      \cup UNION {{<<<<"payload", e, n>>, e.fields[n].value>> : n \in DOMAIN e.fields} : e \in Emissions(m, id)}
InputsUsed(vs) == {l.name : l \in {x \in UNION {Leaves(v[2]) : v \in vs} : x.op = "Input"}}
Within(vs) ==
    /\ MapThenSumSet(LAMBDA v : Nodes(v[2]), vs) <= MAX_EXPRESSION_NODES
    /\ \A v \in vs : Depth(v[2]) <= MAX_EXPRESSION_DEPTH

ProjectionWithin(m, t, p, guest) ==
    /\ DirectRead(m, p.operation, t.resource)
    /\ p.fields \subseteq DOMAIN FieldsOf(m, t.resource)
    /\ LET read == m.operations[p.operation] IN
          /\ read.fields # None => p.fields \subseteq read.fields
          /\ guest => ~IsPublic(read) /\ p.fields # {}
ValidTarget(m, a, name) ==
    LET t == a.targets[name] IN
    /\ t.resource \in DOMAIN m.resources
    /\ t.projection # None => ProjectionWithin(m, t, t.projection, FALSE)
    /\ t.inspect # None => ProjectionWithin(m, t, t.inspect, TRUE) /\ t.exact
    /\ IF t.source = "Page"
       THEN /\ \A r \in t.reads : DirectRead(m, r, t.resource)
            /\ t.reads = {} => \E i \in DOMAIN a.steps :
                  a.steps[i].target = name /\ IsCapability(m.operations[a.steps[i].operation])
       ELSE /\ DirectRead(m, t.eligible, t.resource)
            /\ t.projection # None /\ t.projection.operation = t.eligible
    /\ t.source = "Selected" =>
          /\ t.query \in DOMAIN m.operations
          /\ LET q == m.operations[t.query] IN
                /\ q.kind = "List" /\ q.via = None /\ q.scope = None /\ q.resource = t.resource
                /\ \A f \in DOMAIN q.filter : q.filter[f].lit
          /\ t.label \subseteq t.projection.fields
    /\ t.source = "Reference" =>
          /\ t.parent \in DOMAIN a.targets
          /\ LET p == a.targets[t.parent] IN
                /\ p.source # "Reference"
                /\ ReferenceTo(m, p.resource, t.field) = t.resource
                /\ p.projection # None /\ t.field \in p.projection.fields
ValidChange(m, a, i, name) ==
    LET step == a.steps[i]
        op == m.operations[step.operation]
        fields == FieldsOf(m, op.resource)
        change == step.assign[name] IN
    /\ Named(fields, name)
    /\ op.kind = "Create" => fields[name].initial = None
    /\ op.kind = "Update" => ~Fixed(fields[name])
    /\ IF change.how = "set"
       THEN IF fields[name].kind = "Blob"
            THEN /\ op.kind = "Create" /\ change.value.op = "Input"
                 /\ change.value.name \in DOMAIN a.inputs
                 /\ a.inputs[change.value.name].kind = "UploadHandle"
                 /\ a.inputs[change.value.name].optional => fields[name].optional
            ELSE /\ AllFit(m, a, At(i, FALSE), change.value, fields[name])
                 /\ fields[name].kind = "Reference" => change.value.op \in {"Target", "Created"}
       ELSE /\ op.kind = "Update" /\ step.target # None
            /\ fields[name].kind = "Integer" /\ fields[name].lo # None /\ fields[name].hi # None
            /\ \E d \in Walk(m, a, At(i, FALSE), change.by) :
                  /\ d.kind = "Integer" /\ d.lo # None /\ d.hi # None /\ ~d.optional
                  /\ d.lo >= 1 /\ d.hi <= fields[name].hi - fields[name].lo
ValidStep(m, a, i) ==
    LET step == a.steps[i]
        op == m.operations[step.operation]
        fields == FieldsOf(m, op.resource) IN
    /\ step.operation \in DOMAIN m.operations
    /\ Len(a.steps) > 1 => ~IsPublic(op) /\ ~IsCapability(op)
    /\ CASE op.kind = "Create" -> step.target = None /\ DOMAIN step.assign # {}
         [] op.kind \in {"Update", "Delete"} ->
               /\ step.target \in DOMAIN a.targets
               /\ a.targets[step.target].resource = op.resource
               /\ IF op.kind = "Delete" THEN Len(a.steps) = 1 /\ DOMAIN step.assign = {}
                  ELSE DOMAIN step.assign # {}
         [] OTHER -> FALSE
    /\ \A c \in step.guards : ValidCondition(m, a, At(i, TRUE), c)
    /\ \A f \in DOMAIN step.assign : ValidChange(m, a, i, f)
    /\ op.kind = "Create" =>
          DOMAIN step.assign =
             {f \in DOMAIN fields : /\ fields[f].initial = None
                                    /\ ~(/\ fields[f].optional /\ fields[f].kind = "Blob"
                                         /\ f \notin DOMAIN step.assign)}
NeedsExact(m, a) ==
    {a.steps[i].target : i \in {j \in DOMAIN a.steps :
        \/ m.operations[a.steps[j].operation].kind = "Delete"
        \/ \E f \in DOMAIN a.steps[j].assign : a.steps[j].assign[f].how = "set"}} \ {None}
ValidInput(input) ==
    /\ input.kind \notin {"Blob", "Reference"}
    /\ input.kind = "Integer" /\ input.lo # None /\ input.hi # None => input.lo <= input.hi
    /\ input.kind = "Choice" => input.keys # {}
    /\ input.kind = "Account" => ~input.optional
ValidScheduleValues(m, a, s) ==
    LET called == m.actions[s.action] IN
    /\ s.action \in DOMAIN m.actions
    /\ \A n \in DOMAIN s.inputs :
          n \in DOMAIN called.inputs /\ AllFit(m, a, ScheduleSite, s.inputs[n], called.inputs[n])
    /\ AllFit(m, a, ScheduleSite, s.due, Domain("Timestamp", None, None))
ValidAction(m, id) ==
    LET a == m.actions[id] IN
    /\ Len(a.steps) \in 1 .. MAX_STEPS
    /\ Cardinality(SignedResources(a)) <= 1
    /\ \A t \in DOMAIN a.targets : ValidTarget(m, a, t)
    /\ \A n \in DOMAIN a.inputs : ValidInput(a.inputs[n])
    /\ \A i \in DOMAIN a.steps : ValidStep(m, a, i)
    /\ Cardinality({i \in DOMAIN a.steps : m.operations[a.steps[i].operation].kind = "Create"})
          <= MAX_CREATES
    /\ \A s \in Schedules(m, id) : ValidScheduleValues(m, a, s)
    /\ \A e \in Emissions(m, id) : \A n \in DOMAIN e.fields :
          AllFit(m, a, EffectSite, e.fields[n].value, e.fields[n].schema)
    /\ \A t \in NeedsExact(m, a) : a.targets[t].exact \/ a.targets[t].source \in {"Service", "Reference"}
    /\ Within(ActionValues(m, id))
    /\ Cardinality(UNION {a.steps[i].guards : i \in DOMAIN a.steps}) <= MAX_GUARDS
    /\ InputsUsed(ActionValues(m, id)) = DOMAIN a.inputs

-----------------------------------------------------------------------------
(* Web bindings, workers, schedules, recurrences, effects and uploads. *)

ValidBinding(m, b) ==
    LET binding == m.web_bindings[b]
        a == m.actions[binding.action]
        there == m.routes[binding.redirect.route]
        deletes == /\ Len(a.steps) = 1
                   /\ m.operations[a.steps[1].operation].kind = "Delete"
        step == m.operations[a.steps[binding.redirect.step].operation] IN
    /\ binding.action \in DOMAIN m.actions
    /\ binding.redirect.route \in DOMAIN m.routes
    /\ there.params = {}
    /\ CASE binding.redirect.to = "Target" ->
               /\ binding.redirect.name \in DOMAIN a.targets
               /\ there.resource = IF deletes /\ a.steps[1].target = binding.redirect.name
                                   THEN None ELSE a.targets[binding.redirect.name].resource
         [] binding.redirect.to = "Step" ->
               /\ binding.redirect.step \in DOMAIN a.steps
               /\ there.resource = IF step.kind = "Delete" THEN None ELSE step.resource
         [] OTHER ->
               /\ binding.redirect.step \in DOMAIN a.steps
               /\ ReferenceTo(m, step.resource, binding.redirect.name) # None
               /\ there.resource = ReferenceTo(m, step.resource, binding.redirect.name)
               /\ Cardinality({o \in there.operations : DirectRead(m, o, there.resource)}) = 1

WorkerRule(m, w, id) == w \in DOMAIN m.workers /\ id \in DOMAIN m.workers[w]
ValidWorkerAction(m, w, id) ==
    LET a == m.actions[id]
        rule == m.workers[w][id] IN
    /\ id \in DOMAIN m.actions
    /\ \A b \in DOMAIN m.web_bindings : m.web_bindings[b].action # id
    /\ DOMAIN rule = DOMAIN a.targets
    /\ \A t \in DOMAIN rule :
          /\ rule[t].resource = a.targets[t].resource
          /\ a.targets[t].source \in {"Service", "Reference"}
          /\ rule[t].eligible = a.targets[t].eligible
          /\ rule[t].eligible \in DOMAIN m.operations
          /\ m.operations[rule[t].eligible].kind = "Read"
          /\ m.operations[rule[t].eligible].resource = rule[t].resource
    /\ \A i \in DOMAIN a.steps : m.operations[a.steps[i].operation].kind \in {"Update", "Delete"}
    /\ \A n \in DOMAIN a.inputs : a.inputs[n].kind \notin Opaque \cup {"Reference"}
Unpersisted == {"Principal", "Current", "Target", "Created"}
ValidSchedule(m, s) ==
    /\ s.source \in DOMAIN m.actions
    /\ WorkerRule(m, s.worker, s.action)
    /\ DOMAIN s.targets = DOMAIN m.workers[s.worker][s.action]
    /\ DOMAIN s.inputs = DOMAIN m.actions[s.action].inputs
    /\ \A alias \in DOMAIN s.targets :
          LET bound == s.targets[alias]
              source == m.actions[s.source]
              wanted == m.workers[s.worker][s.action][alias].resource IN
          IF bound.created
          THEN /\ bound.step \in DOMAIN source.steps
               /\ m.operations[source.steps[bound.step].operation].kind = "Create"
               /\ m.operations[source.steps[bound.step].operation].resource = wanted
          ELSE bound.name \in DOMAIN source.targets /\ source.targets[bound.name].resource = wanted
    /\ \A v \in {s.inputs[n] : n \in DOMAIN s.inputs} \cup {s.due} :
          \A l \in Leaves(v) : l.op \notin Unpersisted
Calls(m, id) == {s.action : s \in Schedules(m, id)}
\* Slip: only a schedule that calls its own action is refused.
VisitShallow(m, id, visiting) == id \notin Calls(m, id)
(* The depth-first walk that refuses an action met again on its own path. *)
RECURSIVE Visit(_, _, _)
Visit(m, id, visiting) ==
    id \notin visiting /\ \A next \in Calls(m, id) : Visit(m, next, visiting \cup {id})
ValidRecurring(m, r) ==
    LET called == m.actions[r.action]
        rule == m.workers[r.worker][r.action] IN
    /\ WorkerRule(m, r.worker, r.action)
    /\ DOMAIN r.inputs = DOMAIN called.inputs
    /\ \A n \in DOMAIN r.inputs : Fits(LiteralDomain(r.inputs[n]), called.inputs[n])
    /\ IF r.selection = None THEN DOMAIN rule = {}
       ELSE LET root == r.selection.target
                q == m.operations[r.selection.operation] IN
            /\ root \in DOMAIN called.targets /\ called.targets[root].source = "Service"
            /\ \A t \in DOMAIN called.targets \ {root} :
                  called.targets[t].source = "Reference" /\ called.targets[t].parent = root
            /\ r.selection.operation \in DOMAIN m.operations
            /\ q.kind = "List" /\ q.resource = rule[root].resource
            /\ q.scope = None /\ q.via = None /\ q.query = None /\ ~IsPreview(q) /\ ~Ordered(q)
            /\ \A f \in DOMAIN q.filter : q.filter[f].lit
            /\ q.policy = {{[p |-> "Service", worker |-> r.worker], [p |-> "SameTenant"]}}
            /\ r.selection.expiry_repair =>
                  /\ m.resources[q.resource].expiry # None
                  /\ q.maintenance /\ m.operations[called.targets[root].eligible].maintenance
                  /\ \A i \in DOMAIN called.steps : m.operations[called.steps[i].operation].maintenance
TargetOperations(t) ==
    {t.eligible} \cup t.reads \cup
       {p.operation : p \in {x \in {t.projection, t.inspect} : x # None}}
ActionOperations(a) ==
    {a.steps[i].operation : i \in DOMAIN a.steps}
      \cup UNION {TargetOperations(a.targets[t]) : t \in DOMAIN a.targets}
ServiceOperations(m, w) ==
    UNION {ActionOperations(m.actions[id]) : id \in DOMAIN m.workers[w]}
      \cup {m.recurring[n].selection.operation :
              n \in {x \in DOMAIN m.recurring : /\ m.recurring[x].worker = w
                                               /\ m.recurring[x].selection # None}}
ServiceNames(rule) == {p.worker : p \in {x \in rule : x.p = "Service"}}
ValidMaintenance(m, id) ==
    LET op == m.operations[id] IN
    /\ op.kind \in {"Read", "List", "Update", "Delete"} /\ op.via = None
    /\ \A rule \in op.policy : \E w \in DOMAIN m.workers :
          ServiceNames(rule) = {w} /\ id \in ServiceOperations(m, w)
    /\ \A r \in DOMAIN m.routes : id \notin m.routes[r].operations
    /\ \A b \in DOMAIN m.web_bindings : id \notin ActionOperations(m.actions[m.web_bindings[b].action])
ValidJobs(m) ==
    /\ \A w \in DOMAIN m.workers :
          DOMAIN m.workers[w] # {} /\ \A id \in DOMAIN m.workers[w] : ValidWorkerAction(m, w, id)
    /\ \A s \in m.schedules : ValidSchedule(m, s)
    /\ \A s \in m.schedules : Visit(m, s.source, {})
    /\ \A n \in DOMAIN m.recurring : ValidRecurring(m, m.recurring[n])
    /\ \A id \in DOMAIN m.actions :
          (\E t \in DOMAIN m.actions[id].targets : m.actions[id].targets[t].source = "Service")
             => \E w \in DOMAIN m.workers : id \in DOMAIN m.workers[w]
    /\ \A id \in DOMAIN m.operations :
          /\ UNION {ServiceNames(rule) : rule \in m.operations[id].policy} \subseteq DOMAIN m.workers
          /\ m.operations[id].maintenance => ValidMaintenance(m, id)
ValidEffects(m) ==
    \A e \in m.emissions :
       /\ e.source \in DOMAIN m.actions
       /\ e.endpoint \in m.endpoints
       /\ \A n \in DOMAIN e.fields : LET schema == e.fields[n].schema IN
             IF schema.kind = "Reference" THEN schema.to \in DOMAIN m.resources ELSE ValidInput(schema)
UploadInputs(a) == {n \in DOMAIN a.inputs : a.inputs[n].kind = "UploadHandle"}
ValidUploads(m) ==
    /\ \A u \in m.uploads :
          LET id == m.web_bindings[u.binding].action
              a == m.actions[id] IN
          /\ u.binding \in DOMAIN m.web_bindings
          /\ u.input \in UploadInputs(a)
          /\ Cardinality({<<i, f>> \in UNION {{<<j, g>> : g \in DOMAIN a.steps[j].assign} : j \in DOMAIN a.steps} :
                a.steps[i].assign[f].how = "set" /\ a.steps[i].assign[f].value.op = "Input"
                  /\ a.steps[i].assign[f].value.name = u.input}) = 1
          /\ AnonymousAction(m.operations[a.steps[1].operation]) = u.anonymous
          /\ u.anonymous => Len(a.steps) = 1
          /\ Cardinality({b \in DOMAIN m.web_bindings : m.web_bindings[b].action = id}) = 1
          /\ \A v \in m.uploads : m.web_bindings[v.binding].action = id => v = u
    /\ \A id \in DOMAIN m.actions :
          /\ Cardinality(UploadInputs(m.actions[id])) <= 1
          /\ UploadInputs(m.actions[id]) # {} =>
                \E u \in m.uploads : m.web_bindings[u.binding].action = id

Valid(m) ==
    /\ ValidResources(m) /\ ValidSearchIndexes(m) /\ ValidGates(m) /\ ValidLifecycles(m)
    /\ ValidOperations(m) /\ ValidPublicOperations(m) /\ ValidCapabilityOperations(m)
    /\ \A id \in DOMAIN m.actions : ValidAction(m, id)
    /\ ValidRoutes(m)
    /\ \A b \in DOMAIN m.web_bindings : ValidBinding(m, b)
    /\ ValidJobs(m) /\ ValidEffects(m) /\ ValidUploads(m)

-----------------------------------------------------------------------------
(* The executor: typed evaluation, guards, assignments, one step at a time. *)

Scalar(kind, value) == [kind |-> kind, value |-> value]
Errors == {"Overflow", "Mismatch", "Unavailable", "Failed", "Guard"}
Stored(f, value) == IF f.optional /\ value = Missing THEN Scalar("Missing", Missing) ELSE Scalar(f.kind, value)
Checked(kind, n, range) == IF n \in range THEN Scalar(kind, n) ELSE Scalar("Overflow", n)
RECURSIVE Evaluate(_, _, _, _)
Evaluate(m, a, env, v) ==
    CASE v.op = "Input" -> Stored(a.inputs[v.name], env.inputs[v.name])
      [] v.op = "Literal" -> Scalar(v.kind, v.value)
      [] v.op = "Principal" ->
            IF env.user = None THEN Scalar("Unavailable", None) ELSE Scalar("Account", env.user)
      [] v.op = "TransactionTime" -> Scalar("Timestamp", env.time)
      [] v.op = "Target" -> Scalar("Reference", 1)
      [] v.op = "Created" ->
            IF v.step \in DOMAIN env.created /\ env.created[v.step] # None
            THEN Scalar("Reference", 2) ELSE Scalar("Mismatch", None)
      [] v.op \in {"Snapshot", "Current"} ->
            LET row == IF v.op = "Snapshot" THEN env.snapshots[v.target] ELSE env.current[v.target] IN
            Stored(FieldsOf(m, a.targets[v.target].resource)[v.field], row[v.field])
      [] OTHER ->
            LET l == Evaluate(m, a, env, v.left)
                r == Evaluate(m, a, env, v.right) IN
            CASE l.kind \in Errors -> l
              [] r.kind \in Errors -> r
              [] l.kind = "Integer" /\ r.kind = "Integer" ->
                    Checked("Integer", CASE v.op = "Add" -> l.value + r.value
                                         [] v.op = "Subtract" -> l.value - r.value
                                         [] OTHER -> l.value * r.value, Width)
              [] v.op = "Add" /\ l.kind = "Timestamp" /\ r.kind = "Duration" ->
                    Checked("Timestamp", l.value + r.value, 0 .. HIGH)
              [] OTHER -> Scalar("Mismatch", None)
(* A comparison of two scalars: "true", "false" or the error it meets. *)
Compare(l, cmp, r) ==
    CASE l.kind \in Errors -> l.kind
      [] r.kind \in Errors -> r.kind
      [] "Missing" \in {l.kind, r.kind} -> IF (l.kind = r.kind) = (cmp = "eq") THEN "true" ELSE "false"
      [] l.kind # r.kind -> "Mismatch"
      [] cmp = "eq" -> IF l.value = r.value THEN "true" ELSE "false"
      [] cmp = "ne" -> IF l.value # r.value THEN "true" ELSE "false"
      [] OTHER -> IF l.value >= r.value THEN "true" ELSE "false"
GuardErrors(m, a, env, step) ==
    {IF r = "false" THEN "Guard" ELSE r :
        r \in {Compare(Evaluate(m, a, env, c.left), c.cmp, Evaluate(m, a, env, c.right)) :
                 c \in step.guards} \ {"true"}}
\* Slip: the field's own bounds are not checked again.
AdjustUnbounded(m, a, env, row, name, f, change) ==
    LET by == Evaluate(m, a, env, change.by) IN
    CASE by.kind \in Errors -> by
      [] row[name] = Missing -> Scalar("Failed", None)
      [] OTHER -> Scalar("Integer", row[name] + by.value)
Adjust(m, a, env, row, name, f, change) ==
    LET by == Evaluate(m, a, env, change.by)
        new == IF change.how = "increase" THEN row[name] + by.value ELSE row[name] - by.value IN
    CASE row[name] = Missing -> Scalar("Failed", None)
      [] by.kind \in Errors -> by
      [] by.kind # "Integer" \/ by.value <= 0 -> Scalar("Mismatch", None)
      [] new \notin Lower(f) .. Upper(f) -> Scalar("Guard", None)
      [] OTHER -> Scalar("Integer", new)
Assigned(m, a, env, step, row, name) ==
    LET f == FieldsOf(m, m.operations[step.operation].resource)[name] IN
    IF step.assign[name].how = "set"
    THEN IF f.kind = "Blob" THEN Scalar("Blob", env.inputs[step.assign[name].value.name])
         ELSE Evaluate(m, a, env, step.assign[name].value)
    ELSE Adjust(m, a, env, row, name, f, step.assign[name])
(* create_step and update_step: the row the step would write. *)
Written(fields, row, values) ==
    [n \in DOMAIN fields |->
       IF n \in DOMAIN values THEN values[n].value
       ELSE IF row # None THEN row[n]
       ELSE IF fields[n].initial # None THEN fields[n].initial ELSE Missing]
ValidFields(fields, row) == \A n \in DOMAIN fields : Canonical(fields[n], row[n])
Step(m, a, env, acc, i) ==
    LET step == a.steps[i]
        op == m.operations[step.operation]
        fields == FieldsOf(m, op.resource)
        stored == IF step.target = None THEN None ELSE acc.rows[step.target]
        here == [env EXCEPT !.current = acc.rows, !.created = acc.created]
        values == [n \in DOMAIN step.assign |-> Assigned(m, a, here, step, stored, n)]
        early == IF op.kind = "Create" THEN {} ELSE GuardErrors(m, a, here, step)
        wrong == {values[n].kind : n \in DOMAIN values} \cap Errors
        row == Written(fields, stored, values)
        late == IF op.kind = "Create" THEN GuardErrors(m, a, here, step) ELSE {}
        stop == CASE early # {} -> early
                  [] wrong # {} -> wrong
                  [] op.kind # "Delete" /\ ~ValidFields(fields, row) -> {"Failed"}
                  [] op.kind = "Update" /\ \E n \in DOMAIN values : Fixed(fields[n]) -> {"Failed"}
                  [] OTHER -> late IN
    IF acc.errors # {} THEN acc
    ELSE IF stop # {} THEN [acc EXCEPT !.errors = stop]
    ELSE [acc EXCEPT !.created = Append(@, IF op.kind = "Create" THEN row ELSE None),
                     !.rows = IF op.kind = "Update" THEN [@ EXCEPT ![step.target] = row] ELSE @]
(* What the committed action schedules and emits, checked against its schema. *)
Captures(m, id, env) ==
    UNION {{<<m.actions[s.action].inputs[n], Evaluate(m, m.actions[id], env, s.inputs[n])>> :
              n \in DOMAIN s.inputs} : s \in Schedules(m, id)}
      \cup UNION {{<<e.fields[n].schema, Evaluate(m, m.actions[id], env, e.fields[n].value)>> :
              n \in DOMAIN e.fields} : e \in Emissions(m, id)}
CaptureErrors(captures) ==
    ({c[2].kind : c \in captures} \cap Errors)
      \cup {"Failed" : c \in {x \in captures : x[2].kind \notin Errors /\ ~Canonical(x[1], x[2].value)}}
Execute(m, id, env) ==
    LET a == m.actions[id]
        done == FoldLeftDomain(LAMBDA acc, i : Step(m, a, env, acc, i),
                   [errors |-> {}, rows |-> env.snapshots, created |-> << >>], a.steps)
        captures == Captures(m, id, [env EXCEPT !.created = done.created]) IN
    IF done.errors # {} THEN [errors |-> done.errors, created |-> << >>, captures |-> {}]
    ELSE [errors |-> CaptureErrors(captures), created |-> done.created, captures |-> captures]

(* Sources an approver is shown: `action_disclosures`, `effect_disclosures`. *)
\* Slip: an adjustment is not shown to depend on the field it bounds.
DisclosedValues(m, id) ==
    {<<l.target, l.field>> : l \in {x \in UNION {Leaves(v[2]) : v \in ActionValues(m, id)} :
                                     x.op \in {"Snapshot", "Current"}}}
Disclosed(m, id) ==
    {<<l.target, l.field>> : l \in {x \in UNION {Leaves(v[2]) : v \in ActionValues(m, id)} :
                                     x.op \in {"Snapshot", "Current"}}}
      \cup {<<m.actions[id].steps[i].target, f>> : <<i, f>> \in UNION {
                LET assign == m.actions[id].steps[j].assign IN
                {<<j, g>> : g \in {h \in DOMAIN assign : assign[h].how # "set"}}
                : j \in DOMAIN m.actions[id].steps}}

-----------------------------------------------------------------------------
(* What a public list or aggregate answers for a table of rows. *)

Bounded(bound, value, below) ==
    \/ bound = None
    \/ ~bound.at.lit
    \/ IF below THEN value > bound.at.value ELSE value < bound.at.value
    \/ bound.inclusive /\ value = bound.at.value
Selected(op, row) ==
    /\ op.visibility # None => row[op.visibility.field] = op.visibility.equals
    /\ \A f \in DOMAIN op.filter : op.filter[f].lit => row[f] = op.filter[f].value
    /\ op.query # None /\ op.query.search # None => \E f \in op.query.search.fields : row[f] = Term
    /\ op.query # None /\ op.query.range # None =>
          /\ Bounded(op.query.range.lower, row[op.query.range.field], TRUE)
          /\ Bounded(op.query.range.upper, row[op.query.range.field], FALSE)
Before(op, table, i, j) ==
    IF ~Ordered(op) THEN i < j
    ELSE LET f == op.list.order.field IN
         table[i][f] < table[j][f] \/ (table[i][f] = table[j][f] /\ i < j)
Page(op, table) ==
    LET ids == SetToSortSeq({i \in DOMAIN table : Selected(op, table[i])},
                            LAMBDA i, j : Before(op, table, i, j))
        size == IF op.list = None THEN Len(ids) ELSE Min({op.list.size, Len(ids)}) IN
    [k \in 1 .. size |-> [f \in op.fields |-> table[ids[k]][f]]]
Aggregated(op, source, table) ==
    LET ids == {i \in DOMAIN table : Selected(source, table[i])}
        of == {table[i][op.query.aggregate.field] : i \in ids} IN
    CASE op.query.aggregate.function = "count" -> Cardinality(ids)
      [] op.query.aggregate.function = "sum" ->
            MapThenSumSet(LAMBDA i : table[i][op.query.aggregate.field], ids)
      [] ids = {} -> None
      [] OTHER -> IF op.query.aggregate.function = "min" THEN Min(of) ELSE Max(of)
Answer(m, op, table) ==
    IF op.kind = "Aggregate" THEN Aggregated(op, Source(m, op), table) ELSE Page(op, table)

-----------------------------------------------------------------------------
(* Admission, then execution of what was admitted. *)

Sample(f) ==
    (IF f.optional THEN {Missing} ELSE {}) \cup
    CASE f.kind = "Integer" -> {Lower(f), Upper(f)}
      [] f.kind = "Choice" -> f.keys
      [] f.kind = "Boolean" -> BOOLEAN
      [] f.kind = "Timestamp" -> Times
      [] f.kind = "Duration" -> {0, Upper(f)}
      [] f.kind = "Account" -> {User}
      [] f.kind = "Reference" -> {1}
      [] OTHER -> Texts
RowsOf(fields) == {row \in [DOMAIN fields -> UNION {Sample(fields[n]) : n \in DOMAIN fields}] :
                      \A n \in DOMAIN fields : row[n] \in Sample(fields[n])}

ManifestInit == manifest \in Manifests /\ verdict = "offered" /\ outcome = None
AdmitManifest ==
    /\ verdict = "offered"
    /\ verdict' = IF Valid(manifest) THEN "admitted" ELSE "refused"
    /\ UNCHANGED <<manifest, outcome>>
Targets(m, a) ==
    {rows \in [DOMAIN a.targets -> UNION {RowsOf(FieldsOf(m, a.targets[t].resource)) : t \in DOMAIN a.targets}] :
        \A t \in DOMAIN a.targets : rows[t] \in RowsOf(FieldsOf(m, a.targets[t].resource))}
Run(id) ==
    /\ verdict = "admitted" /\ outcome = None
    /\ \E inputs \in RowsOf(manifest.actions[id].inputs), rows \in Targets(manifest, manifest.actions[id]),
          time \in Times, user \in {User, None} :
          LET env == [inputs |-> inputs, snapshots |-> rows, current |-> rows, created |-> << >>,
                      time |-> time, user |-> user] IN
          outcome' = [action |-> id, env |-> env, result |-> Execute(manifest, id, env)]
    /\ UNCHANGED <<manifest, verdict>>
ManifestNext == AdmitManifest \/ (verdict = "admitted" /\ \E id \in DOMAIN manifest.actions : Run(id))
ManifestSpec == ManifestInit /\ [][ManifestNext]_manifestVars

-----------------------------------------------------------------------------
(* Properties. *)

(***************************************************************************)
(* Admission's interval arithmetic and type rules cover the executor: an   *)
(* admitted action never meets operands of the wrong type, writes a value  *)
(* its field, scheduled input or payload schema refuses, or adjusts by a   *)
(* non-positive amount.  The one internal failure left is adjusting an     *)
(* optional field that is empty, which `validate_assignment` does not      *)
(* refuse and `adjusted_value` cannot parse.                               *)
(***************************************************************************)
AdmittedExecutes ==
    outcome # None =>
       /\ "Mismatch" \notin outcome.result.errors
       /\ "Unavailable" \in outcome.result.errors => outcome.env.user = None
       /\ "Failed" \in outcome.result.errors =>
             \E i \in DOMAIN manifest.actions[outcome.action].steps :
                LET step == manifest.actions[outcome.action].steps[i] IN
                \E f \in DOMAIN step.assign : /\ step.assign[f].how # "set"
                                              /\ outcome.env.snapshots[step.target][f] = Missing

(***************************************************************************)
(* What an approver is shown is all that a result can depend on: changing  *)
(* one field of a target that no disclosure names leaves the action's      *)
(* verdict, its creations and its captured payloads as they were.          *)
(***************************************************************************)
ActionsDisclosed ==
    outcome # None =>
       LET a == manifest.actions[outcome.action] IN
       \A t \in DOMAIN a.targets :
          LET fields == FieldsOf(manifest, a.targets[t].resource) IN
          \A f \in DOMAIN fields : <<t, f>> \notin Disclosed(manifest, outcome.action) =>
             \A x \in Sample(fields[f]) :
                Execute(manifest, outcome.action, [outcome.env EXCEPT !.snapshots[t][f] = x])
                   = outcome.result

(***************************************************************************)
(* A public list answers from projected, disclosed and visibility fields   *)
(* only: rows that differ elsewhere cannot be told apart by its pages or   *)
(* its aggregates.                                                         *)
(***************************************************************************)
DisclosedTo(m, op) ==
    op.fields \cup {op.visibility.field} \cup op.disclose
       \cup {d[2] : d \in DeclaredInference(op) \cup DeclaredInference(Source(m, op))}
PublicDisclosed ==
    (verdict = "admitted" /\ outcome = None) =>
       \A id \in DOMAIN manifest.operations : LET op == manifest.operations[id]
                                                 fields == FieldsOf(manifest, op.resource) IN
          (IsPublic(op) /\ Selects(op)) =>
             \A one, two \in RowsOf(fields) : \A f \in DOMAIN fields \ DisclosedTo(manifest, op) :
                \A x \in Sample(fields[f]) :
                   Answer(manifest, op, <<one, two>>)
                      = Answer(manifest, op, <<one, [two EXCEPT ![f] = x]>>)

(***************************************************************************)
(* An admitted manifest is decidable at run time: at most one route        *)
(* matches a request path, and every chain of scheduled actions ends.      *)
(***************************************************************************)
Decidable ==
    verdict = "admitted" =>
       /\ \A path \in Paths :
             Cardinality({r \in DOMAIN manifest.routes : MatchPath(manifest.routes[r], path)}) <= 1
       /\ \A loop \in SUBSET DOMAIN manifest.actions :
             loop # {} => \E id \in loop : Calls(manifest, id) \cap loop = {}

\* An admitted manifest runs without an internal failure of its types, and every
\* path and every chain of its schedules has an end.
AdmissionSound == AdmittedExecutes /\ Decidable

\* Nothing leaks that no approver or visitor was told of.
InferenceDisclosed == ActionsDisclosed /\ PublicDisclosed
=============================================================================
