----------------------------- MODULE MCManifest -----------------------------
(* A shop: products sold to signed-in users, orders, and a worker that     *)
(* closes products.  Every manifest one or two edits away from it is       *)
(* offered for admission.                                                  *)
EXTENDS Manifest, TLC

CONSTANTS OpenKey, ShutKey    \* the keys of a product's state

F(kind, lo, hi) == [kind |-> kind, lo |-> lo, hi |-> hi, keys |-> {}, to |-> None,
                    optional |-> FALSE, initial |-> None, immutable |-> FALSE]
Choice(keys) == [F("Choice", None, None) EXCEPT !.keys = keys]
Ref(r) == [F("Reference", None, None) EXCEPT !.to = r]
In(n) == [op |-> "Input", name |-> n]
Num(n) == [op |-> "Literal", kind |-> "Integer", value |-> n]
Key(k) == [op |-> "Literal", kind |-> "Choice", value |-> k]
Wait(n) == [op |-> "Literal", kind |-> "Duration", value |-> n]
Now == [op |-> "TransactionTime"]
Me == [op |-> "Principal"]
Snap(t, f) == [op |-> "Snapshot", target |-> t, field |-> f, reviewed |-> FALSE]
Cur(t, f) == [op |-> "Current", target |-> t, field |-> f]
Bin(o, l, r) == [op |-> o, left |-> l, right |-> r]
Set(v) == [how |-> "set", value |-> v]
By(how, v) == [how |-> how, by |-> v]
Is(l, c, r) == [left |-> l, cmp |-> c, right |-> r]
P(p) == [p |-> p]
Service(w) == [p |-> "Service", worker |-> w]
Lit(v) == [lit |-> TRUE, value |-> v]
Param(p) == [lit |-> FALSE, param |-> p]

Op(kind, r, policy) ==
    [kind |-> kind, resource |-> r, policy |-> policy, maintenance |-> FALSE, scope |-> None,
     via |-> None, bind |-> << >>, filter |-> << >>, visibility |-> None, fields |-> None,
     disclose |-> {}, list |-> None, query |-> None]
Public(kind) ==
    [Op(kind, "product", {{P("Public")}}) EXCEPT
        !.visibility = [field |-> "state", equals |-> OpenKey], !.fields = {"stock", "state"}]
OrderBy(f, live) == [order |-> [field |-> f, live |-> live], size |-> 1, preview |-> None]
Query(range, aggregate, disclose) ==
    [search |-> None, range |-> range, aggregate |-> aggregate, disclose |-> disclose]
AtLeast(n) == [at |-> Lit(n), inclusive |-> TRUE]
T(r, source, eligible, projection) ==
    [resource |-> r, source |-> source, eligible |-> eligible, reads |-> {}, parent |-> None,
     field |-> None, query |-> None, label |-> {}, exact |-> FALSE, projection |-> projection,
     inspect |-> None]
Reads(op, fields) == [operation |-> op, fields |-> fields]
Own == {{P("Owner")}}
Worker == {{Service("w"), P("SameTenant")}}

Shop ==
  [resources |->
     [product |-> [fields |-> [stock |-> F("Integer", 0, 2), price |-> F("Integer", -1, 3),
                               state |-> Choice({OpenKey, ShutKey})],
                   gate |-> None, expiry |-> None, unique |-> {}, search |-> {}],
      order |-> [fields |-> [item |-> Ref("product"), total |-> F("Integer", -2, 6),
                             note |-> [F("Text", None, None) EXCEPT !.optional = TRUE]],
                 gate |-> None, expiry |-> None, unique |-> {}, search |-> {}]],
   operations |->
     1 :> Public("List") @@ 2 :> Op("Read", "product", {{P("SameTenant")}})
     @@ 3 :> Op("Update", "product", {{P("SameTenant")}})
     @@ 4 :> [Op("Create", "order", Own) EXCEPT !.bind = [item |-> 2]]
     @@ 5 :> Op("Read", "order", Own)
     @@ 6 :> [Op("Read", "product", Worker) EXCEPT !.maintenance = TRUE]
     @@ 7 :> [Op("Update", "product", Worker) EXCEPT !.maintenance = TRUE]
     @@ 8 :> Op("List", "product", Worker),
   routes |->
     1 :> [path |-> << >>, resource |-> None, operations |-> {1}, forms |-> {}, params |-> {}, public |-> TRUE]
     @@ 2 :> [path |-> <<"p", "{}">>, resource |-> "product", operations |-> {2}, forms |-> {1},
              params |-> {}, public |-> FALSE]
     @@ 3 :> [path |-> <<"o", "{}">>, resource |-> "order", operations |-> {5}, forms |-> {},
              params |-> {}, public |-> FALSE],
   actions |->
     1 :> [targets |-> [item |-> [T("product", "Page", None, Reads(2, {"price", "stock"})) EXCEPT !.reads = {2}]],
           inputs |-> [n |-> F("Integer", 1, 2), note |-> [F("Text", None, None) EXCEPT !.optional = TRUE]],
           steps |-> <<
             [operation |-> 4, target |-> None, guards |-> {},
              assign |-> [item |-> Set([op |-> "Target", name |-> "item"]),
                          total |-> Set(Bin("Multiply", Snap("item", "price"), In("n"))),
                          note |-> Set(In("note"))]],
             [operation |-> 3, target |-> "item", guards |-> {Is(Cur("item", "stock"), "ge", In("n"))},
              assign |-> [stock |-> By("decrease", In("n"))]] >>]
     @@ 2 :> [targets |-> [root |-> T("product", "Service", 6, Reads(6, {"stock"}))],
              inputs |-> [most |-> F("Integer", 0, 2)],
              steps |-> << [operation |-> 7, target |-> "root",
                            guards |-> {Is(In("most"), "ge", Snap("root", "stock"))},
                            assign |-> [state |-> Set(Key(ShutKey))]] >>],
   web_bindings |-> 1 :> [action |-> 1, redirect |-> [route |-> 3, to |-> "Step", step |-> 1, name |-> None]],
   workers |-> [w |-> 2 :> [root |-> [resource |-> "product", eligible |-> 6]]],
   schedules |-> {[source |-> 1, worker |-> "w", action |-> 2, due |-> Bin("Add", Now, Wait(1)),
                   inputs |-> [most |-> In("n")],
                   targets |-> [root |-> [created |-> FALSE, name |-> "item"]]]},
   recurring |-> [daily |-> [worker |-> "w", action |-> 2, inputs |-> [most |-> Num(0)],
                             selection |-> [operation |-> 8, target |-> "root", expiry_repair |-> FALSE]]],
   endpoints |-> {"mail"},
   emissions |-> {[source |-> 1, endpoint |-> "mail",
                   fields |-> [due |-> [schema |-> F("Timestamp", None, None), value |-> Now],
                               sum |-> [schema |-> F("Integer", -2, 6),
                                        value |-> Bin("Multiply", In("n"), Snap("item", "price"))]]]},
   uploads |-> {}]

(* One edit of a manifest: a field's schema, an operation, a route, an     *)
(* expression, a target, a schedule, an emission or a worker's reach.      *)
TotalOf(m, v) == [m EXCEPT !.actions[1].steps[1].assign.total = Set(v)]
Edits(m) ==
  {[m EXCEPT !.resources["product"].fields["price"] = f] :
      f \in {F("Integer", None, 3), F("Integer", -2, 2), F("Integer", 1, 3),
             [F("Integer", -1, 3) EXCEPT !.immutable = TRUE]}}
  \cup {[m EXCEPT !.resources["product"].fields["stock"] = f] :
      f \in {F("Integer", 0, None), F("Integer", -1, 1), [F("Integer", 0, 2) EXCEPT !.optional = TRUE],
             [F("Integer", 0, 2) EXCEPT !.immutable = TRUE]}}
  \cup {[m EXCEPT !.resources["order"].fields["total"] = f] :
      f \in {F("Integer", None, None), F("Integer", 0, 6), F("Integer", -2, 5)}}
  \cup {[m EXCEPT !.resources["product"].gate = [field |-> "item", visible |-> [field |-> "state", equals |-> OpenKey],
                                                 create_when |-> [field |-> "state", equals |-> OpenKey]]],
        [m EXCEPT !.resources["order"].gate = [field |-> "item", visible |-> [field |-> "state", equals |-> OpenKey],
                                               create_when |-> [field |-> "state", equals |-> OpenKey]]],
        [m EXCEPT !.resources["product"].expiry = "price"]}
  \cup {TotalOf(m, v) : v \in {Bin("Add", Snap("item", "price"), In("n")), Bin("Subtract", In("n"), Snap("item", "price")),
            Bin("Multiply", Snap("item", "price"), Snap("item", "price")), Snap("item", "state"), In("note"), Me,
            Bin("Multiply", Num(6), Num(6)), Bin("Add", Now, Wait(1))}}
  \cup {[m EXCEPT !.operations[1] = o] :
      o \in {[Public("List") EXCEPT !.fields = {"stock"}, !.list = OrderBy("price", TRUE)],
             [Public("List") EXCEPT !.list = OrderBy("price", TRUE), !.query = Query(None, None, {<<"order", "price">>})],
             [Public("List") EXCEPT !.list = OrderBy("stock", FALSE)],
             [Public("List") EXCEPT !.list = OrderBy("price", TRUE),
                 !.query = Query([field |-> "price", lower |-> AtLeast(1), upper |-> None], None,
                                 {<<"order", "price">>, <<"range", "price">>})],
             [Public("List") EXCEPT !.list = OrderBy("stock", TRUE),
                 !.query = Query([field |-> "stock", lower |-> AtLeast(1), upper |-> AtLeast(0)], None, {})],
             [Public("List") EXCEPT !.filter = [state |-> Lit(OpenKey)]],
             [Public("List") EXCEPT !.fields = {"stock"}, !.visibility = None],
             [Public("List") EXCEPT !.policy = {{P("Public"), P("Owner")}}],
             Public("Update"), Op("List", "product", Own)}}
  \cup {[m EXCEPT !.operations = (9 :> [Public("Aggregate") EXCEPT !.query = Query(None, a, d)]) @@ @,
                  !.routes[1].operations = @ \cup {9}] :
      a \in {[source |-> 1, function |-> "sum", field |-> "price"], [source |-> 1, function |-> "count", field |-> None],
             [source |-> 2, function |-> "max", field |-> "stock"]},
      d \in {{}, {<<"aggregate", "price">>}, {<<"aggregate", None>>}}}
  \cup {[m EXCEPT !.operations[4].bind = b] : b \in {<< >>, [item |-> 5]}}
  \cup {[m EXCEPT !.operations[2].maintenance = TRUE], [m EXCEPT !.operations[8].policy = Own],
        [m EXCEPT !.operations[3].policy = {{P("Capability")}}], [m EXCEPT !.operations[7].policy = Worker \cup Own]}
  \cup {[m EXCEPT !.routes[3].path = p] : p \in {<<"p", "1">>, <<"p", "{}">>, <<"p", "o">>, <<"{}", "p">>, << >>}}
  \cup {[m EXCEPT !.routes = (4 :> [@[1] EXCEPT !.path = p, !.operations = {}]) @@ @] :
           p \in {<<"p", "1">>, <<"p", "new">>}}
  \cup {[m EXCEPT !.routes[2].operations = {2, 6}], [m EXCEPT !.routes[2].public = TRUE],
        [m EXCEPT !.web_bindings[1].redirect.to = "Target", !.web_bindings[1].redirect.name = "item"]}
  \cup {[m EXCEPT !.actions[1].steps[2].assign = a] :
      a \in {[stock |-> By("increase", In("n"))], [stock |-> By("decrease", Snap("item", "price"))],
             [stock |-> Set(In("n"))], [state |-> Set(Key(ShutKey))], [state |-> Set(Key(Term))]}}
  \cup {[m EXCEPT !.actions[1].steps[2].guards = {g}] :
      g \in {Is(Cur("item", "price"), "eq", In("note")), Is(In("note"), "ge", In("note")),
             Is(Now, "ge", Num(0)), Is(Cur("item", "stock"), "eq", Snap("item", "stock"))}}
  \cup {[m EXCEPT !.actions[1].steps[2].guards = {}]}
  \cup {[m EXCEPT !.actions[1].targets["item"] = t] :
      t \in {[T("product", "Page", None, Reads(2, {"price", "stock"})) EXCEPT !.reads = {2}, !.exact = TRUE],
             [T("product", "Page", None, Reads(2, {"price"})) EXCEPT !.reads = {2}],
             [T("product", "Page", None, Reads(2, {"price", "stock"})) EXCEPT !.reads = {5}]}}
  \cup {[m EXCEPT !.actions[1].inputs["n"] = f] : f \in {F("Integer", 0, 2), F("Integer", 1, None), F("Integer", 1, 3)}}
  \cup {[m EXCEPT !.schedules = {[s EXCEPT !.inputs.most = v] : s \in @}] :
      v \in {Snap("item", "stock"), Cur("item", "stock"), Me, Bin("Subtract", In("n"), Num(1)), Snap("item", "price")}}
  \cup {[m EXCEPT !.schedules = @ \cup {[source |-> 2, worker |-> "w", action |-> 2, due |-> Now, inputs |-> [most |-> Num(1)],
                                         targets |-> [root |-> [created |-> FALSE, name |-> "root"]]]}],
        [m EXCEPT !.actions = (3 :> @[2]) @@ @, !.workers.w = (3 :> @[2]) @@ @,
                  !.schedules = @ \cup {[source |-> x, worker |-> "w", action |-> 5 - x, due |-> Now, inputs |-> [most |-> Num(1)],
                                         targets |-> [root |-> [created |-> FALSE, name |-> "root"]]] : x \in {2, 3}}]}
  \cup {[m EXCEPT !.emissions = {[e EXCEPT !.fields.sum.value = v] : e \in @}] :
      v \in {Snap("item", "stock"), Me, Bin("Add", In("n"), Snap("item", "price"))}}

\* A manifest that declares nothing.
Blank == [Shop EXCEPT !.resources = << >>, !.operations = << >>, !.routes = << >>, !.actions = << >>,
            !.web_bindings = << >>, !.workers = << >>, !.schedules = {}, !.recurring = << >>,
            !.endpoints = {}, !.emissions = {}]

\* The manifests offered: none at all, the shop, every edit of it, and every pair of edits
\* whose first is still admissible on its own.
MCManifests ==
    LET one == Edits(Shop)
        fit == {m \in one : Valid(m)} IN
    {Blank, Shop} \cup one \cup UNION {Edits(m) : m \in fit}
MCLow == -6
MCPaths == {<< >>} \cup {<<a, b>> : a, b \in {"p", "o", "1", "new"}}
=============================================================================
