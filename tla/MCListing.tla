----------------------------- MODULE MCListing -----------------------------
(* Small lists, principals and records for Listing. *)
EXTENDS Listing

UserOf(t, roles) == [kind |-> "user", id |-> "ann", tenant |-> t, roles |-> roles]
MCPrincipals ==
    {UserOf("a", {}), [kind |-> "service", id |-> "worker", tenant |-> "a", roles |-> {}],
     [kind |-> "anonymous", id |-> Nil, tenant |-> Nil, roles |-> {}]}
Row(owner, account, tenant, parent, key, expires) ==
    [owner |-> owner, account |-> account, tenant |-> tenant, parent |-> parent, flag |-> TRUE,
     visible |-> TRUE, key |-> key, words |-> [title |-> {"x"}, body |-> {}], expires |-> expires, bytes |-> 1]
Mine == Row("ann", "bob", "a", 1, 2, 2)
Theirs == Row("bob", "ann", "a", 1, 1, 1)
Foreign == [Row("bob", "bob", "b", 2, 2, 2) EXCEPT !.words = [title |-> {}, body |-> {"x", "y"}]]
Hidden == [Row("bob", "bob", "a", 2, 1, 2) EXCEPT !.flag = FALSE, !.visible = FALSE,
                                                 !.words = [title |-> {"y"}, body |-> {"x"}], !.bytes = 2]
MCProfiles == {Mine, Hidden}
MCTables ==
    {<<Mine, Theirs, Foreign, Mine>>, <<Foreign, Hidden, Hidden, Mine, Hidden>>}

Plain(policy) ==
    [policy |-> policy, public |-> FALSE, scope |-> Nil, filter |-> FALSE, order |-> "created",
     descending |-> FALSE, search |-> Nil, range |-> Nil, size |-> 2, expiry |-> FALSE,
     maintenance |-> FALSE, gated |-> FALSE]
Words(fields, tokens) == [fields |-> fields, tokens |-> tokens]
AnyWay == <<{"Owner"}, {"PrincipalIs", "SameTenant"}, {"Related"}>>
MCLists ==
    {[Plain(<<{"Public"}>>) EXCEPT !.public = TRUE, !.scope = 1, !.gated = TRUE],
     [Plain(<<{"Owner"}, {"SameTenant"}>>) EXCEPT !.descending = TRUE, !.filter = TRUE],
     [Plain(AnyWay) EXCEPT !.size = 1],
     [Plain(AnyWay) EXCEPT !.scope = 1, !.descending = TRUE],
     [Plain(<<{"Owner"}, {"Service"}>>) EXCEPT !.expiry = TRUE, !.maintenance = TRUE],
     [Plain(<<{"PrincipalIs", "SameTenant"}>>) EXCEPT !.order = "field"],
     [Plain(<<{"SameTenant"}, {"Related"}>>) EXCEPT !.search = Words({"title", "body"}, <<"x">>)],
     [Plain(<<{"Public"}>>) EXCEPT !.search = Words({"title", "body"}, <<"x", "y">>), !.descending = TRUE],
     [Plain(<<{"PrincipalIs"}, {"Owner"}>>) EXCEPT !.order = "field", !.range = {1, 2}],
     [Plain(<<{"SameTenant"}>>) EXCEPT !.order = "field", !.descending = TRUE, !.size = 1]}
MCAggregates ==
    {<<Plain(AnyWay), "count">>, <<Plain(<<{"SameTenant"}>>), "sum">>,
     <<[Plain(AnyWay) EXCEPT !.search = Words({"title"}, << >>)], "count">>,
     <<[Plain(<<{"Public"}>>) EXCEPT !.search = Words({"title", "body"}, <<"x">>)], "sum">>,
     <<[Plain(<<{"Owner"}, {"Service"}>>) EXCEPT !.expiry = TRUE], "max">>}
=============================================================================
