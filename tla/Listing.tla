------------------------------ MODULE Listing ------------------------------
(***************************************************************************)
(* Lists, searches, aggregates and followed references, as the repository  *)
(* answers them one transaction at a time while records, memberships and   *)
(* gates change between the pages.                                         *)
(*                                                                         *)
(* A record carries what the query code tells apart: owner and tenant (the *)
(* native columns), the account and parent its policy atoms name, a filter *)
(* field, the public visibility field, an ordered scalar, the words of its *)
(* indexed text fields, its expiry and the size of its answer.  SQL is     *)
(* modelled by the set of rows it selects, in the order it returns them.   *)
(* A list is one admitted operation; Manifest checks what Lists assumes    *)
(* (a range follows the ordered scalar, a gated public list is scoped).    *)
(*                                                                         *)
(* Every transaction is one step: the store serialises writers and a page  *)
(* reads one snapshot.  Membership witnesses are the exception, since they *)
(* are kept across the steps of one action attempt.                        *)
(***************************************************************************)
EXTENDS Naturals, FiniteSets, FiniteSetsExt, Sequences, SequencesExt, Functions

CONSTANTS
    Nil,            \* no cursor, no row, no value
    Lists,          \* the admitted lists a walk may page through
    Aggregates,     \* pairs <<list, function>> of admitted aggregates
    Principals,     \* [kind, id, tenant, roles]: users, services, anonymous visitors
    Profiles,       \* what a new record may hold
    Tables,         \* the sequences of profiles the table may start with
    MAX_ROWS,       \* records ever created
    MAX_EDITS,      \* changes to the table while a walk is open
    STREAM_WIDTH,   \* rows one bounded stream reads (64)
    WINDOW_CAP,     \* rows one window may plan (256)
    SCAN_ALLOWANCE, \* candidates an aggregate may examine (1000)
    RESULT_BYTES,   \* size of one page's answer
    MAX_SUM         \* the largest value the sum's integer holds

ASSUME ListingBounds ==
    /\ {MAX_ROWS, STREAM_WIDTH, WINDOW_CAP, SCAN_ALLOWANCE, RESULT_BYTES} \subseteq Nat \ {0}
    /\ {MAX_EDITS, MAX_SUM} \subseteq Nat
    /\ \A l \in Lists : l.range # Nil => l.order = "field"

VARIABLES
    rows,       \* sequence number of creation -> stored record, Nil when deleted
    postings,   \* the search index: [row, field, token, revision]
    members,    \* parents of which the user is an active member
    parents,    \* parent -> [tenant, open]
    time,       \* attempt time: records expire as it passes
    walk,       \* the browser paging through one list
    attempt,    \* an action attempt with its membership witnesses
    edits       \* changes made so far

listingVars == <<rows, postings, members, parents, time, walk, attempt, edits>>
table == <<rows, postings, members, parents, time>>

Live == {s \in DOMAIN rows : rows[s] # Nil}
NoWalk == [at |-> "closed", list |-> Nil, who |-> Nil, cursor |-> Nil, got |-> << >>,
           page |-> << >>, stable |-> {}, answer |-> Nil, slots |-> << >>, fault |-> FALSE]
NoAttempt == [open |-> FALSE, who |-> Nil, witnesses |-> {}]

-----------------------------------------------------------------------------
(* Policy: binding a principal, the SQL filter and the row decision. *)

(* `bind`: what one predicate requires of a row for this principal. *)
Bound(p, who, row, related) ==
    CASE p = "Public" -> who.kind = "service" => row.tenant = who.tenant
      [] p = "SameTenant" /\ who.kind # "anonymous" -> who.tenant # Nil /\ row.tenant = who.tenant
      [] p = "Service" -> who.kind = "service" /\ row.tenant = who.tenant
      [] p = "Owner" -> who.kind = "user" /\ row.owner = who.id
      [] p = "PrincipalIs" -> who.kind = "user" /\ row.account = who.id
      [] p = "Related" -> who.kind = "user" /\ related
      [] p = "Role" -> who.kind = "user" /\ "site" \in who.roles
      [] p = "TenantRole" ->
            who.kind = "user" /\ "tenant" \in who.roles /\ who.tenant # Nil /\ row.tenant = who.tenant
      [] OTHER -> FALSE
Allowed(policy, who, row, related) ==
    \E i \in DOMAIN policy : policy[i] # {} /\ \A p \in policy[i] : Bound(p, who, row, related)
(* `filter`: the same binding compiled to SQL, memberships denied. *)
BaseFilter(policy, who, row) == Allowed(policy, who, row, FALSE)
(* `exists_sql`: an active membership of the row's parent in the same tenant. *)
Member(who, row) == who.tenant # Nil /\ row.tenant = who.tenant /\ row.parent \in members
Available(list, who, row) ==
    list.expiry => row.expires > time \/ (list.maintenance /\ who.kind = "service")
Authorized(list, who, row) ==
    /\ Available(list, who, row)
    /\ \/ BaseFilter(list.policy, who, row)
       \/ /\ \E i \in DOMAIN list.policy : "Related" \in list.policy[i]
          /\ Allowed(list.policy, who, row, Member(who, row))

IdentityRules == {"Owner", "PrincipalIs"}
Tenanted == {"SameTenant", "Service", "TenantRole"}
Residual(policy) == [i \in DOMAIN policy |-> [rule |-> policy[i], exact |-> FALSE]]
Exact(list, rule) ==
    list.scope = Nil /\ "Related" \notin rule /\ Cardinality(rule \cap IdentityRules) <= 1
(* `compile` and `list_strategy`: one filtered scan, or one stream per rule. *)
SingleScan(list) ==
    ~list.expiry /\ \A i \in DOMAIN list.policy : list.policy[i] \cap {"PrincipalIs", "Related"} = {}
Scans(list) ==
    IF list.expiry THEN Residual(list.policy)
    ELSE [i \in DOMAIN list.policy |->
            [rule |-> list.policy[i], exact |-> Exact(list, list.policy[i])]]
ScanPolicy(scan) ==
    LET kept == CASE scan.exact -> scan.rule
                  [] ~scan.exact /\ "Service" \in scan.rule -> scan.rule \cap {"Service", "SameTenant"}
                  [] OTHER -> IF "Owner" \in scan.rule THEN {"Owner"} ELSE scan.rule \cap IdentityRules IN
    <<IF kept = {} THEN {"Public"} ELSE kept>>
(* `index_prefix`: the equality columns of the index derived for a scan. *)
\* Slip: every tenant predicate leads the index.
IndexPrefixTenant(list, scan) ==
    (IF "Owner" \in scan.rule THEN {"Owner"} ELSE scan.rule \cap IdentityRules)
      \cup (IF scan.rule \cap Tenanted # {} THEN {"tenant"} ELSE {})
IndexPrefix(list, scan) ==
    (IF "Owner" \in scan.rule THEN {"Owner"} ELSE scan.rule \cap IdentityRules)
      \cup (IF scan.rule \cap Tenanted # {} /\ (scan.exact \/ "Service" \in scan.rule)
            THEN {"tenant"} ELSE {})
(* One filtered scan: the columns of its only rule. *)
SinglePrefix(list) ==
    LET rule == list.policy[1]
        identity == IF "Owner" \in rule THEN {"Owner"} ELSE rule \cap IdentityRules IN
    CASE Len(list.policy) > 1 -> {}
      [] Len(list.policy) = 1 /\ identity # {} -> identity
      [] OTHER -> IF rule \cap Tenanted # {} THEN {"tenant"} ELSE {}
(* The equalities the scan's SQL states, whichever principal binds them. *)
Equalities(scan) ==
    LET rule == ScanPolicy(scan)[1] IN
    (rule \cap IdentityRules) \cup (IF rule \cap Tenanted # {} THEN {"tenant"} ELSE {})

-----------------------------------------------------------------------------
(* Order, keysets and restrictions. *)

KeyOf(list, s) == <<IF list.order = "field" THEN rows[s].key ELSE s, s>>
Beyond(list, a, b) ==
    LET less(x, y) == x[1] < y[1] \/ (x[1] = y[1] /\ x[2] < y[2]) IN
    IF list.descending THEN less(b, a) ELSE less(a, b)
Keyset(list, cursor, s) == cursor = Nil \/ Beyond(list, cursor, KeyOf(list, s))
InOrder(list, S) == SetToSortSeq(S, LAMBDA a, b : Beyond(list, KeyOf(list, a), KeyOf(list, b)))
Leading(n, seq) == SubSeq(seq, 1, Min({n, Len(seq)}))
Selection(list, row) == list.filter => row.flag
(* `query_selected`, and the clauses a scan adds to its policy filter. *)
QuerySelected(list, row) ==
    /\ list.public => row.visible
    /\ list.scope # Nil => row.parent = list.scope
    /\ Selection(list, row)
InRange(list, row) == list.range # Nil => row.key \in list.range
Restrictions(list, row) == QuerySelected(list, row) /\ InRange(list, row)
Stream(list, who, policy, cursor, limit) ==
    Leading(limit, InOrder(list, {s \in Live : /\ BaseFilter(policy, who, rows[s])
                                             /\ Restrictions(list, rows[s])
                                             /\ Keyset(list, cursor, s)}))
(* `append_prefix`: the answer keeps whole records within its bytes. *)
HasRoom(got, s) == rows[s].bytes + FoldLeft(LAMBDA n, r : n + rows[r].bytes, 0, got) <= RESULT_BYTES
(* The page loop: skip what is refused, stop at the first that has no room. *)
Collect(list, candidates, kept, cursor) ==
    FoldLeft(LAMBDA acc, s :
                CASE acc.stopped -> acc
                  [] ~acc.stopped /\ s \notin kept -> [acc EXCEPT !.last = KeyOf(list, s)]
                  [] OTHER -> IF Len(acc.got) = list.size \/ ~HasRoom(acc.got, s)
                              THEN [acc EXCEPT !.stopped = TRUE]
                              ELSE [acc EXCEPT !.got = Append(@, s), !.last = KeyOf(list, s)],
             [got |-> << >>, last |-> cursor, stopped |-> FALSE], candidates)
PageAnswer(got, more, fault) == [got |-> got, more |-> more, fault |-> fault]

(* `list_single`: rows in batches, then one row of lookahead. *)
SinglePage(list, who, cursor) ==
    LET found == InOrder(list, {s \in Live : /\ Authorized(list, who, rows[s])
                                             /\ Restrictions(list, rows[s])
                                             /\ Keyset(list, cursor, s)})
        page == Collect(list, found, Range(found), cursor) IN
    PageAnswer(page.got, IF page.stopped THEN page.last ELSE Nil, FALSE)

\* Slip: the merge runs to the farthest row any stream returned.
CutoffFarthest(list, streams, limit) ==
    LET full == {i \in DOMAIN streams : Len(streams[i]) = limit[i]}
        ends == {KeyOf(list, Last(streams[i])) : i \in full} IN
    IF ends = {} THEN Nil ELSE CHOOSE k \in ends : \A e \in ends : ~Beyond(list, k, e)
(* The last key every full stream is known up to: `seal`, `seal_streams`. *)
Cutoff(list, streams, limit) ==
    LET full == {i \in DOMAIN streams : Len(streams[i]) = limit[i]}
        ends == {KeyOf(list, Last(streams[i])) : i \in full} IN
    IF ends = {} THEN Nil ELSE CHOOSE k \in ends : \A e \in ends : ~Beyond(list, e, k)
Through(list, streams, cutoff) ==
    InOrder(list, {s \in UNION {Range(streams[i]) : i \in DOMAIN streams} :
                      cutoff = Nil \/ ~Beyond(list, cutoff, KeyOf(list, s))})
(* `list_merge`: exact streams read one row more than the page, residual ones a bounded window. *)
MergePage(list, who, cursor) ==
    LET scans == Scans(list)
        width(scan) == IF scan.exact THEN list.size + 1
                       ELSE Min({WINDOW_CAP \div Len(list.policy), STREAM_WIDTH})
        streams == [i \in DOMAIN scans |->
                      Stream(list, who, ScanPolicy(scans[i]), cursor, width(scans[i]))]
        bounds == [i \in DOMAIN scans |-> IF scans[i].exact THEN Len(streams[i]) + 1 ELSE width(scans[i])]
        boundary == Cutoff(list, streams, bounds)
        candidates == Through(list, streams, boundary)
        kept == {s \in Range(candidates) :
                   /\ Authorized(list, who, rows[s])
                   /\ list.scope # Nil => rows[s].parent = list.scope}
        page == Collect(list, candidates, kept, cursor) IN
    PageAnswer(page.got,
             IF page.stopped THEN page.last ELSE boundary,
             \E s \in Range(candidates) : ~Selection(list, rows[s]))

-----------------------------------------------------------------------------
(* Searches and scalar orders: windows of candidates. *)

Searches(list) == list.search # Nil
(* A search by creation order seals its postings, any other its policy streams. *)
Posting(list) ==
    Searches(list) /\ list.search.tokens # << >> /\ list.scope = Nil /\ list.order = "created"
StreamRows(list, cap) ==
    Min({cap \div (IF Posting(list) THEN Cardinality(list.search.fields) ELSE Len(list.policy)),
         STREAM_WIDTH})
PostingStream(list, field, cursor, limit) ==
    Leading(limit, InOrder(list, {p.row : p \in {q \in postings :
                                  /\ q.field = field /\ q.token = list.search.tokens[1]
                                  /\ Keyset(list, cursor, q.row)}}))
Window(list, who, cursor, cap) ==
    LET per == StreamRows(list, cap)
        streams == IF Posting(list)
                   THEN LET fields == SetToSeq(list.search.fields) IN
                        [i \in DOMAIN fields |-> PostingStream(list, fields[i], cursor, per)]
                   ELSE [i \in DOMAIN list.policy |->
                           Stream(list, who, ScanPolicy(Residual(list.policy)[i]), cursor, per)]
        cutoff == Cutoff(list, streams, [i \in DOMAIN streams |-> per]) IN
    [rows |-> Through(list, streams, cutoff),
     exhausted |-> cutoff = Nil,
     work |-> FoldLeft(LAMBDA n, stream : n + Len(stream), 0, streams),
     planned |-> per * Len(streams),
     empty |-> per = 0]
(* `search_matches`: every token in one of the fields; postings of the row's revision. *)
Indexed(list, s) ==
    {p \in postings : p.row = s /\ p.field \in list.search.fields /\ p.token \in Range(list.search.tokens)}
\* Slip: any token of the text is enough.
SearchMatchesAny(list, s) == Searches(list) => Indexed(list, s) # {}
SearchMatches(list, s) ==
    Searches(list) => {p.token : p \in Indexed(list, s)} = Range(list.search.tokens)
StaleSearch(list, s) ==
    Searches(list) /\ \E p \in Indexed(list, s) : rows[s] # Nil /\ p.revision # rows[s].revision
(* `list_extended`. *)
ExtendedPage(list, who, cursor) ==
    LET window == Window(list, who, cursor, WINDOW_CAP)
        kept == {s \in Range(window.rows) :
                   /\ SearchMatches(list, s) /\ rows[s] # Nil
                   /\ Authorized(list, who, rows[s])
                   /\ QuerySelected(list, rows[s])}
        page == Collect(list, window.rows, kept, cursor) IN
    PageAnswer(page.got,
             IF page.stopped \/ ~window.exhausted THEN page.last ELSE Nil,
             window.empty \/ \E s \in Range(window.rows) : StaleSearch(list, s))
GateOpen(list) == list.public /\ list.gated => parents[list.scope].open
Extended(list) == Searches(list) \/ list.order = "field"
(* `invoke_internal`: a closed parent answers an empty last page. *)
ListPage(list, who, cursor) ==
    CASE ~GateOpen(list) -> PageAnswer(<< >>, Nil, FALSE)
      [] GateOpen(list) /\ Extended(list) -> ExtendedPage(list, who, cursor)
      [] OTHER -> IF SingleScan(list) THEN SinglePage(list, who, cursor) ELSE MergePage(list, who, cursor)

(* `required_indexes`: an index for every stream that a plain created-order *)
(* scan of the table does not serve.  Posting searches use the postings' own. *)
StreamIndexes(list, scans) ==
    {IndexPrefix(list, scan)
       \cup (IF list.scope # Nil THEN {"scope"} ELSE {})
       \cup (IF list.public THEN {"visible"} ELSE {})
       \cup (IF list.filter THEN {"flag"} ELSE {}) : scan \in scans}
RequiredIndexes(list, aggregated) ==
    CASE Posting(list) -> {}
      [] ~Posting(list) /\ (Extended(list) \/ aggregated) ->
            StreamIndexes(list, Range(Residual(list.policy)))
      [] ~Posting(list) /\ ~Extended(list) /\ ~aggregated /\ list.filter ->
            IF SingleScan(list)
            THEN {SinglePrefix(list) \cup {"flag"} \cup (IF list.public THEN {"visible"} ELSE {})}
            ELSE {IndexPrefix(list, scan) \cup {"flag"} : scan \in Range(Scans(list))}
      [] OTHER -> {}

-----------------------------------------------------------------------------
(* Aggregates: every candidate visited once, a value only when exhausted. *)

Total(function, values) ==
    LET sum == FoldLeft(LAMBDA n, v : n + v, 0, values) IN
    CASE function = "count" -> <<"value", Len(values)>>
      [] function = "sum" -> IF sum > MAX_SUM THEN <<"overflow">> ELSE <<"value", sum>>
      [] OTHER -> <<"value", IF values = << >> THEN Nil ELSE Max(Range(values))>>
LimitExceeded == <<"limit">>
\* Slip: a short window ends the scan.
ConclusionShort(window, function, values) ==
    IF window.exhausted \/ Len(window.rows) < STREAM_WIDTH THEN Total(function, values) ELSE Nil
Conclusion(window, function, values) ==
    CASE window.exhausted -> Total(function, values)
      [] ~window.exhausted /\ window.rows = << >> -> LimitExceeded
      [] OTHER -> Nil
(* `Spec::build`: the facts a candidate is judged by, and no other field of it. *)
Facts(list, function) ==
    (IF \E i \in DOMAIN list.policy : "PrincipalIs" \in list.policy[i] THEN {"account"} ELSE {})
      \cup (IF list.scope # Nil \/ \E i \in DOMAIN list.policy : "Related" \in list.policy[i]
            THEN {"parent"} ELSE {})
      \cup (IF list.expiry THEN {"expires"} ELSE {})
      \cup (IF list.public THEN {"visible"} ELSE {})
      \cup (IF list.filter THEN {"flag"} ELSE {})
      \cup (IF list.order = "field" \/ list.range # Nil \/ function # "count" THEN {"key"} ELSE {})
CandidateFacts(list, function, s) == Restrict(rows[s], Facts(list, function) \cup {"owner", "tenant"})
(* `candidate_policy`: an eligible candidate, decided on its facts alone. *)
CandidatePolicy(list, who, function, s) ==
    LET facts == CandidateFacts(list, function, s) IN
    Authorized(list, who, facts) /\ QuerySelected(list, facts)
(* One turn of the aggregate's loop: plan a window, visit it, go on after it. *)
AggregateTurn(list, who, function, acc) ==
    LET cap == IF Searches(list) THEN acc.left
               ELSE Min({SCAN_ALLOWANCE + 1 - acc.seen, WINDOW_CAP})
        streams == IF Searches(list) /\ list.scope = Nil /\ list.order = "created"
                   THEN Cardinality(list.search.fields) ELSE Len(list.policy)
        window == Window(list, who, acc.after, cap)
        approved == SelectSeq(window.rows, LAMBDA s :
                      SearchMatches(list, s) /\ rows[s] # Nil /\ CandidatePolicy(list, who, function, s))
        values == acc.values \o [i \in DOMAIN approved |-> rows[approved[i]].key]
        limit == IF Searches(list) THEN WINDOW_CAP ELSE SCAN_ALLOWANCE IN
    CASE acc.answer # Nil -> acc
      [] acc.answer = Nil /\ cap < streams -> [acc EXCEPT !.answer = LimitExceeded]
      [] acc.answer = Nil /\ cap >= streams /\ window.empty -> [acc EXCEPT !.answer = <<"fault">>]
      [] OTHER ->
            IF acc.seen + window.work > limit THEN [acc EXCEPT !.answer = LimitExceeded]
            ELSE [acc EXCEPT !.seen = @ + window.work,
                             !.left = @ - window.planned,
                             !.values = values,
                             !.after = IF window.rows = << >> THEN @ ELSE KeyOf(list, Last(window.rows)),
                             !.answer = Conclusion(window, function, values)]
AggregateQuery(list, who, function) ==
    IF ~GateOpen(list) THEN Total(function, << >>)
    ELSE FoldLeft(LAMBDA acc, i : AggregateTurn(list, who, function, acc),
                  [after |-> Nil, seen |-> 0, left |-> WINDOW_CAP, values |-> << >>, answer |-> Nil],
                  [i \in 1 .. MAX_ROWS + 2 |-> i]).answer

-----------------------------------------------------------------------------
(* What the declaration of a list promises, row by row. *)

Wanted(list, who, s) ==
    /\ rows[s] # Nil
    /\ Authorized(list, who, rows[s])
    /\ Restrictions(list, rows[s])
    /\ GateOpen(list)
    /\ Searches(list) => \A t \in Range(list.search.tokens) :
                            \E f \in list.search.fields : t \in rows[s].words[f]
WantedRows(list, who) == {s \in Live : Wanted(list, who, s)}
StillWanted ==
    IF walk.at = "open"
    THEN {s \in walk.stable : \E list \in {walk.list}, who \in {walk.who} : Wanted(list, who, s)'}
    ELSE walk.stable

-----------------------------------------------------------------------------
(* Writes: a record, its revision and its postings move together. *)

PostingsOf(s, profile, revision) ==
    UNION {{[row |-> s, field |-> f, token |-> t, revision |-> revision] : t \in profile.words[f]}
             : f \in DOMAIN profile.words}
StoredRow(profile, revision) == [revision |-> revision] @@ profile
ListingInit ==
    /\ \E chosen \in Tables :
          /\ rows = [s \in 1 .. MAX_ROWS |->
                       IF s \in DOMAIN chosen THEN StoredRow(chosen[s], 1) ELSE Nil]
          /\ postings = UNION {PostingsOf(s, chosen[s], 1) : s \in DOMAIN chosen}
    /\ members = {1}
    /\ parents = [p \in {1, 2} |-> [tenant |-> IF p = 1 THEN "a" ELSE "b", open |-> TRUE]]
    /\ time = 1
    /\ walk = NoWalk
    /\ attempt = NoAttempt
    /\ edits = 0
NoAttemptOpen == attempt.open = FALSE
TableChange == NoAttemptOpen /\ edits < MAX_EDITS /\ edits' = edits + 1 /\ UNCHANGED attempt
(* Only rows of this request's own pages may be followed. *)
Kept == walk' = [walk EXCEPT !.stable = StillWanted, !.page = << >>]
(* Sequences are allocated in order; a deleted record's is never used again. *)
NextSequence == 1 + Max({0} \cup {s \in DOMAIN rows : rows[s] # Nil})
CreateRecord(profile) ==
    LET s == NextSequence IN
    /\ TableChange /\ s \in DOMAIN rows
    /\ rows' = [rows EXCEPT ![s] = StoredRow(profile, 1)]
    /\ postings' = postings \cup PostingsOf(s, profile, 1)
    /\ UNCHANGED <<members, parents, time>> /\ Kept
(* `update_search` replaces a row's postings in the transaction that wrote it. *)
\* Slip: an update leaves the old postings.
UpdateSearchStale(s, profile, revision) == postings
UpdateSearch(s, profile, revision) ==
    {p \in postings : p.row # s} \cup PostingsOf(s, profile, revision)
(* The fields an update may change; identities and the ordered scalar stay. *)
UpdateRecord(s, profile) ==
    /\ TableChange /\ rows[s] # Nil
    /\ LET next == [rows[s] EXCEPT !.flag = profile.flag, !.visible = profile.visible,
                                  !.words = profile.words, !.expires = profile.expires,
                                  !.revision = @ + 1] IN
          /\ rows' = [rows EXCEPT ![s] = next]
          /\ postings' = UpdateSearch(s, profile, next.revision)
    /\ UNCHANGED <<members, parents, time>> /\ Kept
DeleteRecord(s) ==
    /\ TableChange /\ rows[s] # Nil /\ s < NextSequence - 1
    /\ rows' = [rows EXCEPT ![s] = Nil]
    /\ postings' = {p \in postings : p.row # s}
    /\ UNCHANGED <<members, parents, time>> /\ Kept
Toggle(S, x) == IF x \in S THEN S \ {x} ELSE S \cup {x}
ChangeMembership(p) ==
    /\ TableChange /\ members' = Toggle(members, p)
    /\ UNCHANGED <<rows, postings, parents, time>> /\ Kept
ToggleGate(p) ==
    /\ TableChange /\ parents' = [parents EXCEPT ![p].open = ~@]
    /\ UNCHANGED <<rows, postings, members, time>> /\ Kept
Elapse ==
    /\ TableChange /\ time' = time + 1
    /\ UNCHANGED <<rows, postings, members, parents>> /\ Kept

-----------------------------------------------------------------------------
(* Requests: a page and its cursor, an aggregate, a follow. *)

OpenList(list, who) ==
    /\ NoAttemptOpen /\ walk.at = "closed"
    /\ walk' = [NoWalk EXCEPT !.at = "open", !.list = list, !.who = who,
                              !.stable = WantedRows(list, who)]
    /\ UNCHANGED <<table, attempt, edits>>
NextPage ==
    /\ NoAttemptOpen /\ walk.at = "open"
    /\ LET page == ListPage(walk.list, walk.who, walk.cursor) IN
       walk' = [walk EXCEPT !.got = @ \o page.got, !.page = page.got, !.slots = << >>,
                            !.cursor = page.more, !.fault = page.fault,
                            !.at = IF page.more = Nil \/ page.fault THEN "done" ELSE "open"]
    /\ UNCHANGED <<table, attempt, edits>>
Aggregate(list, function, who) ==
    /\ NoAttemptOpen /\ walk.at = "closed"
    /\ walk' = [NoWalk EXCEPT !.at = "done", !.list = list, !.who = who,
                              !.stable = WantedRows(list, who),
                              !.answer = <<function, AggregateQuery(list, who, function)>>]
    /\ UNCHANGED <<table, attempt, edits>>
(* A followed reference answers for rows this request returned, under the *)
(* followed operation's own policy and, for a public one, its open gate.  *)
Followed(who, p) == Allowed(<<{"SameTenant"}>>, who, parents[p], FALSE) /\ parents[p].open
Follow ==
    /\ NoAttemptOpen /\ walk.at \in {"open", "done"} /\ walk.page # << >> /\ walk.slots = << >>
    /\ walk' = [walk EXCEPT !.slots = [i \in DOMAIN walk.page |->
                  IF Followed(walk.who, rows[walk.page[i]].parent) THEN rows[walk.page[i]].parent ELSE Nil]]
    /\ UNCHANGED <<table, attempt, edits>>

(* An action attempt: witnesses are kept between its steps. *)
BeginAttempt(who) ==
    /\ NoAttemptOpen /\ walk.at = "closed" /\ who.kind = "user" /\ who.tenant # Nil
    /\ attempt' = [open |-> TRUE, who |-> who, witnesses |-> {}]
    /\ UNCHANGED <<table, walk, edits>>
(* `authorize`: only rows no ordinary rule grants are looked up, keyed by parent. *)
AuthorizeRow(list, s) ==
    LET row == rows[s]
        looked == /\ Available(list, attempt.who, row)
                  /\ ~BaseFilter(list.policy, attempt.who, row)
                  /\ row.tenant = attempt.who.tenant
                  /\ \A w \in attempt.witnesses : w[1] # row.parent IN
    /\ attempt.open /\ row # Nil /\ \E i \in DOMAIN list.policy : "Related" \in list.policy[i]
    /\ looked
    /\ attempt' = [attempt EXCEPT !.witnesses = @ \cup {<<row.parent, row.parent \in members>>}]
    /\ UNCHANGED <<table, walk, edits>>
\* Slip: witnesses survive a mutation.
InvalidatedLate == attempt.witnesses
Invalidated == {}
(* A mutation step of the attempt may change the memberships it relies on. *)
MutationStep(p) ==
    /\ attempt.open /\ edits < MAX_EDITS /\ edits' = edits + 1
    /\ members' = Toggle(members, p)
    /\ attempt' = [attempt EXCEPT !.witnesses = Invalidated]
    /\ UNCHANGED <<rows, postings, parents, time, walk>>
EndAttempt ==
    /\ attempt.open /\ attempt' = NoAttempt /\ UNCHANGED <<table, walk, edits>>

ListingNext ==
    \/ \E profile \in Profiles : CreateRecord(profile)
    \/ \E s \in DOMAIN rows, profile \in Profiles : UpdateRecord(s, profile)
    \/ \E s \in DOMAIN rows : DeleteRecord(s)
    \/ \E p \in DOMAIN parents : ChangeMembership(p) \/ ToggleGate(p) \/ MutationStep(p)
    \/ Elapse
    \/ \E list \in Lists, who \in Principals : OpenList(list, who)
    \/ NextPage
    \/ \E a \in Aggregates, who \in Principals : Aggregate(a[1], a[2], who)
    \/ Follow
    \/ \E who \in Principals : BeginAttempt(who)
    \/ \E list \in Lists, s \in DOMAIN rows : AuthorizeRow(list, s)
    \/ EndAttempt
ListingSpec == ListingInit /\ [][ListingNext]_listingVars

-----------------------------------------------------------------------------
(* Properties. *)

(* A walk that has reached its last page returned every record that matched *)
(* the list's declaration throughout the walk, and returned none twice,     *)
(* whatever was created, edited, deleted or expired between its pages:      *)
(* list_single, list_merge and list_extended hand over cursors that neither *)
(* skip a row a bounded stream did not reach nor return one again.  None of *)
(* the executor's own consistency checks fails on the way.                  *)
WalkComplete ==
    /\ ~walk.fault
    /\ IsInjective(walk.got)
    /\ walk.at = "done" /\ walk.answer = Nil => walk.stable \subseteq Range(walk.got)

(* A page returns only records that match the declaration in the transaction *)
(* that read them, each page's cursor lies beyond the one before, and a      *)
(* follow answers only for a record of the page and only under the followed  *)
(* operation's own authority.                                                *)
PagesSound ==
    [][walk'.at # "closed" /\ walk' # walk =>
         /\ Len(walk'.got) > Len(walk.got) =>
               \A i \in DOMAIN walk'.page : Wanted(walk'.list, walk'.who, walk'.page[i])
         /\ walk.cursor # Nil /\ walk'.cursor # Nil /\ walk'.cursor # walk.cursor =>
               Beyond(walk'.list, walk.cursor, walk'.cursor)
         /\ walk'.at = "open" /\ walk.at = "open" /\ edits' = edits /\ walk'.slots = << >> =>
               walk'.cursor # walk.cursor
         /\ \A i \in DOMAIN walk'.slots : walk'.slots[i] # Nil =>
               parents'[walk'.slots[i]].tenant = walk'.who.tenant]_walk

(* An aggregate is the exact value over every matching record or says that  *)
(* it gave up; the bounded windows it scans never yield a partial value.    *)
(* The one internal error left is an empty search over more policy rules    *)
(* than its remaining search allowance.                                     *)
AggregateExact ==
    [][walk.at = "closed" /\ walk'.answer # Nil =>
         LET exact == SetToSortSeq(walk'.stable, LAMBDA a, b : a < b)
             given == walk'.answer[2] IN
         \/ given = LimitExceeded
         \/ given = Total(walk'.answer[1], [i \in DOMAIN exact |-> rows[exact[i]].key])
         \/ given = <<"fault">> /\ Searches(walk'.list) /\ walk'.list.search.tokens = << >>]_walk

(* Within an action attempt every membership witness still states the       *)
(* current fact, so a later step is never authorized by a membership an     *)
(* earlier step of the same attempt ended.                                  *)
WitnessesCurrent ==
    attempt.open => \A w \in attempt.witnesses : w[2] = (w[1] \in members)

(* Every column of an index derived for a list is fixed by the SQL of one of *)
(* the list's streams, so that stream's ordered LIMIT reads one contiguous   *)
(* range of it.                                                              *)
IndexServesScan ==
    walk.list # Nil =>
       LET list == walk.list
           fixed(scan) == Equalities(scan) \cup (IF list.scope # Nil THEN {"scope"} ELSE {})
                            \cup (IF list.public THEN {"visible"} ELSE {})
                            \cup (IF list.filter THEN {"flag"} ELSE {})
           whole == [rule |-> list.policy[1], exact |-> TRUE] IN
       \A index \in RequiredIndexes(list, walk.answer # Nil) :
          \E scan \in CASE Extended(list) \/ walk.answer # Nil -> Range(Residual(list.policy))
                      [] OTHER -> IF SingleScan(list) THEN {whole} ELSE Range(Scans(list)) :
             index \subseteq fixed(scan)

\* What a list tells over several pages is whole, under facts that still hold,
\* from streams that an index serves.
ListsSound == WalkComplete /\ WitnessesCurrent /\ IndexServesScan

\* Each single answer is right: of a page, of a follow, of an aggregate.
AnswersExact == PagesSound /\ AggregateExact
=============================================================================
