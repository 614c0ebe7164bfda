---------------------------- MODULE TestCaseList ----------------------------
(***************************************************************************)
(* The page of the test cases of a project: TestCases.js with the form of  *)
(* the filter (TestCasesFilter.js), the form of a new test case            *)
(* (TestCaseForm.js) and the saving of a suite.                            *)
(*                                                                         *)
(* The tree is fetched by pages with an offset.  The filter that is sent   *)
(* and the one the form edits are one object, so what is typed counts for  *)
(* the next page before the filter button is pressed.                      *)
(*                                                                         *)
(* Left out: the sizes of test cases, titles and labels, the number over   *)
(* the tree, the address of the browser (it names the selected test case). *)
(* BulkAttributes has the session and the buttons of the administrator,    *)
(* TestCasePage the test case at the side.                                 *)
(***************************************************************************)
EXTENDS Integers, FiniteSets, FiniteSetsExt

CONSTANTS Ids,          \* ids of test cases: numbers, given one after the other
          Begin,        \* those stored at the start
          PageSize,     \* testCasesFetchLimit
          Filters,      \* [matches : SUBSET Ids, grouped : BOOLEAN]
          Values,       \* offered values of the project's attribute
          Names,        \* names a suite may be given
          None,
          MaxEvents,    \* bound: events of the user
          MaxFaults, \* bound: test cases removed by others,
                     \* and requests that get lost
          MaxInFlight   \* bound: requests under way

VARIABLES
    stored,    \* test cases of the project
    suites,    \* names of the project's suites (a bag)
    net,       \* requests under way, with their answers
    events, elsewhere, losses,  \* bounds
    known,     \* projectAttributes have been fetched
    filter,    \* state.filter of TestCases
    skip,      \* its skip; 0 stands for none too
    listed,    \* testcasesTree.testCases: how many rows a test case has
    grouped,   \* test cases in the groups of testcasesTree
    count,     \* state.count
    moreLink,  \* Load more is rendered
    selected,  \* selectedTestCase
    unchecked, \* state.filter.notFields.id
    edited,    \* testSuite.filter of the form, with its notFields.id
    apart,     \* the form's filter is not the same object as state.filter
    draft,     \* values in the new test case: state.testcaseToEdit
    shown,     \* values its form shows
    suiteName, \* testSuite.name
    loading, failed,
    steady     \* history: none of the excuses of ListingComplete has occurred
               \* since the tree on the page was asked for

bounds == <<events, elsewhere, losses>>
list == <<filter, skip, listed, grouped, count, moreLink, selected, loading, failed>>
suite == <<suiteName, edited, apart>>
form == <<draft, shown, suite>>
project == <<stored, suites>>
vars == <<stored, suites, net, bounds, known, list, unchecked, form, steady>>

NoFilter == [matches |-> Ids, grouped |-> FALSE]
Kinds == {"attributes", "suite", "tree", "more", "count",
          "create", "suites", "save"}

TypeOK ==
    /\ stored \subseteq Ids
    /\ suites \in [Names -> Nat]
    /\ \A m \in net :
          /\ m.no \in 1 .. MaxInFlight /\ m.kind \in Kinds
          /\ m.at \in {"sent", "done", "failed"}
          /\ m.filter \in Filters \cup {NoFilter} /\ m.skip \in Nat
          /\ m.excluded \subseteq Ids
          /\ m.about \in Ids \cup Names \cup {None}
          /\ m.answer \subseteq Ids \cup Names
    /\ filter \in Filters \cup {NoFilter} /\ skip \in Nat
    /\ listed \in [Ids -> Nat]
    /\ grouped \subseteq Ids
    /\ count \in Nat \cup {None}
    /\ selected \in Ids \cup {None}
    /\ unchecked \subseteq Ids
    /\ edited.filter \in Filters \cup {NoFilter} /\ edited.unchecked \subseteq Ids
    /\ draft \subseteq Values /\ shown \subseteq Values
    /\ suiteName \in Names \cup {None}
    /\ \A b \in {known, apart, moreLink, loading, failed, steady} : b \in BOOLEAN

Init ==
    /\ stored = Begin
    /\ suites = [n \in Names |-> 0]
    /\ net = {}
    /\ events = 0 /\ elsewhere = 0 /\ losses = 0
    /\ known = FALSE
    /\ filter = NoFilter /\ skip = 0
    /\ listed = [i \in Ids |-> 0] /\ grouped = {}
    /\ count = None
    /\ moreLink = FALSE
    /\ selected = None
    /\ unchecked = {}
    /\ edited = [filter |-> NoFilter, unchecked |-> {}] /\ apart = TRUE
    /\ draft = {} /\ shown = {} /\ suiteName = None
    /\ loading = TRUE /\ failed = FALSE
    /\ steady = FALSE

-----------------------------------------------------------------------------
(* Requests and the service *)

(* Requests of one kind are told apart by a number.                         *)
Free(n, kind) == {i \in 1 .. MaxInFlight : \A m \in n : m.kind = kind => m.no # i}
With(n, kind, f, s, x) ==
    n \cup {[no |-> Min(Free(n, kind)), kind |-> kind, filter |-> f, skip |-> s,
             excluded |-> edited.unchecked, about |-> x, at |-> "sent", answer |-> {}]}
CanSend(n) == Cardinality(n) < MaxInFlight

Result(f) == stored \cap f.matches
Rank(S, i) == Cardinality({j \in S : j <= i})

(* The page that skip and limit select, in the order of the ids.  A filter  *)
(* with groups is sent with neither (getFilterApiRequestParams).            *)
Page(f, s) ==
    IF f.grouped THEN Result(f)
    ELSE {i \in Result(f) : Rank(Result(f), i) \in s + 1 .. s + PageSize}

(* A count is over the whole result: skip and limit are gone from the       *)
(* filter when it is asked for.                                             *)
Answer(m) ==
    CASE m.kind \in {"tree", "more"}   -> Page(m.filter, m.skip)
      [] m.kind \in {"count"} -> {i \in Result(m.filter) :
                                              Rank(Result(m.filter), i) > m.skip}
      [] m.kind = "create"             -> {Max(stored) + 1}
      [] m.kind = "suites"             -> {n \in Names : suites[n] > 0}
      [] OTHER                         -> {}

Reply(m, outcome, a) ==
    net' = (net \ {m}) \cup {[m EXCEPT !.at = outcome, !.answer = a]}

Listing == {"tree", "more", "count"}
Alone(m) == \A n \in net \ {m} : n.kind \notin Listing

Serve(m) ==
    /\ m.at = "sent"
    /\ m.kind = "create" => Max(stored) + 1 \in Ids
    /\ Reply(m, "done", Answer(m))
    /\ stored' = stored \cup (IF m.kind = "create" THEN Answer(m) ELSE {})
    /\ suites' = IF m.kind = "save" THEN [suites EXCEPT ![m.about] = @ + 1] ELSE suites
    /\ steady' = (steady /\ m.kind # "create")
    /\ UNCHANGED <<bounds, known, list, unchecked, form>>

Lose(m) ==
    /\ m.at \in {"sent", "done"}
    /\ losses + elsewhere < MaxFaults
    /\ losses' = losses + 1
    /\ Reply(m, "failed", {})
    /\ UNCHANGED <<stored, suites, events, elsewhere, known, list,
                   unchecked, form, steady>>

Mounted == net # {} \/ known \/ ~loading

RemoveElsewhere(i) ==
    /\ Mounted
    /\ losses + elsewhere < MaxFaults
    /\ elsewhere' = elsewhere + 1
    /\ i \in stored /\ stored # {i}
    /\ stored' = stored \ {i}
    /\ steady' = FALSE
    /\ UNCHANGED <<suites, net, events, losses, known, list, unchecked, form>>

-----------------------------------------------------------------------------
(* render *)

ShowLoadMore(f, s, c) == ~f.grouped /\ c \notin {None, 0} /\ s + PageSize <= c

(* Whenever the page is rendered the form of the new test case receives it  *)
(* again, with every value of every attribute; what the form shows is kept  *)
(* by its selects.                                                          *)
Rendered ==
    /\ moreLink' = ShowLoadMore(filter', skip', count')
    /\ draft' = IF known' THEN Values ELSE draft
    /\ UNCHANGED shown

InTree == {i \in Ids : listed[i] > 0} \cup grouped

-----------------------------------------------------------------------------
(* onFilter: the tree is fetched from the filter's skip on, and the page    *)
(* takes the filter; what its answer is to select is x                      *)

OnFilter(n, f, s, x) ==
    /\ CanSend(n)
    /\ net' = With(n, "tree", f, s, x)
    /\ filter' = f
    /\ skip' = IF f.grouped THEN 0 ELSE s
    /\ loading' = TRUE
    /\ steady' = FALSE
    /\ UNCHANGED <<listed, grouped, count, failed>>

(* componentDidMount with a filter and perhaps a test case in the address,  *)
(* or with a suite; the project's attributes are fetched too.               *)
MountWithAddress(f, t) ==
    /\ ~Mounted
    /\ OnFilter(With(net, "attributes", NoFilter, 0, None), f, 0, None)
    /\ apart' = FALSE
    /\ edited' = [edited EXCEPT !.filter = f]
    /\ selected' = t
    /\ UNCHANGED <<project, bounds, known, unchecked, suiteName>>
    /\ Rendered

MountWithSuite(f, name) ==
    /\ ~Mounted
    /\ net' = With(With(net, "suite", f, 0, name), "attributes", NoFilter, 0, None)
    /\ UNCHANGED <<project, bounds, known, list, unchecked, form, steady>>

SuiteAnswered(m) ==
    /\ m.kind = "suite" /\ m.at = "done"
    /\ OnFilter(net \ {m}, m.filter, 0, None)
    /\ edited' = [filter |-> m.filter, unchecked |-> {}]
    /\ unchecked' = {}
    /\ apart' = FALSE
    /\ suiteName' = m.about
    /\ UNCHANGED <<project, bounds, known, selected>>
    /\ Rendered

AttributesAnswered(m) ==
    /\ m.kind = "attributes" /\ m.at = "done"
    /\ net' = net \ {m}
    /\ known' = TRUE
    /\ UNCHANGED <<filter, skip, listed, grouped, count, selected, loading, failed>>
    /\ UNCHANGED <<project, bounds, unchecked, suite, steady>>
    /\ Rendered

(* The tree replaces the one on the page, whatever filter it was asked      *)
(* with; the count is asked with the filter as it is now, from which skip   *)
(* and limit have been deleted (getTotalNumberOfTestCases).                 *)
SkipAfterTree_back(s) == s - PageSize   \* slip: one page back
SkipAfterTree(s) == 0

(* The tree was asked for from the first test case of the result on.  It    *)
(* was not when a test case has been created after Load more: handleFilter  *)
(* sets the skip to 0 before the tree is fetched, onTestCaseAdded does not. *)
(* The page then lacks its first part until the next filter, and lists some *)
(* test cases twice once Load more is pressed again, as the skip is gone.   *)
FromTheFirst(m) == m.skip = 0

TreeAnswered(m) ==
    /\ m.kind = "tree" /\ m.at = "done"
    /\ listed' = [i \in Ids |-> IF i \in m.answer /\ ~m.filter.grouped THEN 1 ELSE 0]
    /\ grouped' = IF m.filter.grouped THEN m.answer ELSE {}
    /\ skip' = SkipAfterTree(skip)
    /\ net' = With(net \ {m}, "count", filter, skip', None)
    /\ loading' = FALSE
    /\ selected' = IF m.about = None THEN selected
                   ELSE IF m.about \in m.answer THEN m.about ELSE None
    /\ UNCHANGED <<filter, count, failed>>
    /\ steady' = (/\ Alone(m) /\ m.filter = filter /\ FromTheFirst(m)
                  /\ m.answer = Page(filter, m.skip))
    /\ UNCHANGED <<project, bounds, known, unchecked, suite>>
    /\ Rendered

CountAnswered(m) ==
    /\ m.kind = "count" /\ m.at = "done"
    /\ net' = net \ {m}
    /\ count' = Cardinality(m.answer)
    /\ UNCHANGED <<filter, skip, listed, grouped, selected, loading, failed>>
    /\ UNCHANGED <<project, bounds, known, unchecked, suite, steady>>
    /\ Rendered

(* Whatever fails leaves a message and the page as it was.                  *)
Failed(m) ==
    /\ m.at = "failed"
    /\ net' = net \ {m}
    /\ failed' = TRUE
    /\ loading' = (loading /\ m.kind # "tree")
    /\ steady' = (steady /\ m.kind \notin Listing)
    /\ UNCHANGED <<filter, skip, listed, grouped, count, selected>>
    /\ UNCHANGED <<project, bounds, known, unchecked, suite>>
    /\ IF m.kind \in {"suite", "suites", "save", "create"}
         THEN UNCHANGED <<moreLink, draft, shown>>
         ELSE Rendered

-----------------------------------------------------------------------------
(* The user's events *)

Event == events < MaxEvents /\ events' = events + 1 /\ Mounted
UserKeeps == UNCHANGED <<project, elsewhere, losses, known>>

(* loadMoreTestCases: skip goes on when the page is asked for, not when it  *)
(* has come, and is not taken back when it does not.                        *)
LoadMore ==
    /\ Event
    /\ moreLink
    /\ CanSend(net)
    /\ skip' = IF filter.grouped THEN 0 ELSE skip + PageSize
    /\ net' = With(net, "more", filter, skip', None)
    /\ steady' = (steady /\ \A n \in net : n.kind # "tree")
    /\ UNCHANGED <<filter, listed, grouped, count, moreLink, selected,
                   loading, failed, unchecked, form>>
    /\ UserKeeps

(* The page joins what is listed.                                           *)
Joined_alone(S) == [i \in Ids |-> IF i \in S THEN 1 ELSE 0]  \* slip: it replaces it
Joined(S) == [i \in Ids |-> listed[i] + IF i \in S THEN 1 ELSE 0]

MoreAnswered(m) ==
    /\ m.kind = "more" /\ m.at = "done"
    /\ net' = net \ {m}
    /\ listed' = Joined(m.answer)
    /\ UNCHANGED <<filter, skip, grouped, count, selected, loading, failed>>
    /\ UNCHANGED <<project, bounds, known, unchecked, suite, steady>>
    /\ Rendered

(* handleFilter: the form's filter becomes the page's.                      *)
HandleFilter ==
    /\ Event
    /\ OnFilter(net, edited.filter, 0, None)
    /\ unchecked' = edited.unchecked
    /\ apart' = FALSE
    /\ UNCHANGED <<selected, suiteName, edited>>
    /\ UserKeeps
    /\ Rendered

(* changeFilterAttributeId, changeFilterAttributeValues, removeFilter,      *)
(* changeGrouping, changeFulltext: the page itself is not rendered again.   *)
ChangeFilter(f) ==
    /\ Event
    /\ f # edited.filter
    /\ edited' = [edited EXCEPT !.filter = f]
    /\ filter' = IF apart THEN filter ELSE f
    /\ steady' = (steady /\ apart)
    /\ UNCHANGED <<net, skip, listed, grouped, count, moreLink, selected,
                   loading, failed, unchecked, draft, shown, suiteName, apart>>
    /\ UserKeeps

(* processElementChecked, for a row and for a group.                        *)
Check(S, checked) ==
    /\ Event
    /\ S \subseteq InTree /\ S # {}
    /\ unchecked' = IF checked THEN unchecked \ S ELSE unchecked \cup S
    /\ unchecked' # unchecked
    /\ edited' = IF apart THEN edited ELSE [edited EXCEPT !.unchecked = unchecked']
    /\ UNCHANGED <<filter, skip, listed, grouped, count, selected, loading, failed>>
    /\ UNCHANGED <<net, suiteName, apart, steady>>
    /\ UserKeeps
    /\ Rendered

OnTestcaseSelected(i) ==
    /\ Event
    /\ i \in InTree
    /\ selected' = i
    /\ UNCHANGED <<filter, skip, listed, grouped, count, loading, failed>>
    /\ UNCHANGED <<net, unchecked, suite, steady>>
    /\ UserKeeps
    /\ Rendered

(* The form of a new test case: one of its selects is changed.              *)
EditAttributeValues(v) ==
    /\ Event
    /\ v # shown
    /\ draft' = v /\ shown' = v
    /\ UNCHANGED <<net, list, unchecked, suite, steady>>
    /\ UserKeeps

CreateTestCase ==
    /\ Event
    /\ CanSend(net)
    /\ net' = With(net, "create", NoFilter, 0, None)
    /\ UNCHANGED <<list, unchecked, form, steady>>
    /\ UserKeeps

(* onTestCaseAdded: the tree is fetched from the skip that loading more has *)
(* left, and the test case selected if it is in that page.                  *)
TestCaseAdded(m) ==
    /\ m.kind = "create" /\ m.at = "done"
    /\ OnFilter(net \ {m}, filter, skip, Max(m.answer))
    /\ UNCHANGED <<project, bounds, known, selected, unchecked, suite>>
    /\ Rendered

-----------------------------------------------------------------------------
(* saveSuite: the names are fetched, then the suite is sent *)

SuiteAttrChanged(name) ==
    /\ Event
    /\ name # suiteName
    /\ suiteName' = name
    /\ UNCHANGED <<net, list, unchecked, draft, shown, edited, apart, steady>>
    /\ UserKeeps

SaveSuite ==
    /\ Event
    /\ IF suiteName = None
         THEN failed' = TRUE /\ UNCHANGED net
         ELSE /\ CanSend(net)
              /\ net' = With(net, "suites", edited.filter, 0, suiteName)
              /\ UNCHANGED failed
    /\ UNCHANGED <<filter, skip, listed, grouped, count, moreLink, selected,
                   loading, unchecked, form, steady>>
    /\ UserKeeps

(* What is sent is the suite as it was when Save was pressed.               *)
SuitesAnswered(m) ==
    /\ m.kind = "suites" /\ m.at = "done"
    /\ IF m.about \in m.answer
         THEN net' = net \ {m} /\ failed' = TRUE
         ELSE /\ net' = (net \ {m}) \cup {[m EXCEPT !.kind = "save", !.at = "sent", !.answer = {}]}
              /\ UNCHANGED failed
    /\ UNCHANGED <<filter, skip, listed, grouped, count, moreLink, selected, loading>>
    /\ UNCHANGED <<project, bounds, known, unchecked, form, steady>>

(* The form takes the answer: its filter is no longer that of the page.     *)
SuiteSaved(m) ==
    /\ m.kind = "save" /\ m.at = "done"
    /\ net' = net \ {m}
    /\ suiteName' = m.about
    /\ edited' = [filter |-> m.filter, unchecked |-> m.excluded]
    /\ apart' = TRUE
    /\ UNCHANGED <<project, bounds, known, list, unchecked, draft, shown, steady>>

HandleClose ==
    /\ Event
    /\ suiteName # None
    /\ suiteName' = None
    /\ UNCHANGED <<net, list, unchecked, draft, shown, edited, apart, steady>>
    /\ UserKeeps

-----------------------------------------------------------------------------
User ==
    \/ LoadMore \/ HandleFilter \/ CreateTestCase \/ SaveSuite \/ HandleClose
    \/ \E f \in Filters : ChangeFilter(f)
    \/ \E S \in {{i} : i \in InTree} \cup {grouped}, b \in BOOLEAN : Check(S, b)
    \/ \E i \in Ids : OnTestcaseSelected(i)
    \/ \E v \in SUBSET Values : EditAttributeValues(v)
    \/ \E name \in Names : SuiteAttrChanged(name)

Answered ==
    \E m \in net :
       \/ SuiteAnswered(m) \/ AttributesAnswered(m)
       \/ TreeAnswered(m) \/ CountAnswered(m) \/ MoreAnswered(m)
       \/ TestCaseAdded(m) \/ SuitesAnswered(m) \/ SuiteSaved(m)
       \/ Failed(m)

Next ==
    \/ \E f \in Filters :
          \/ \E t \in Begin \cup {None} : MountWithAddress(f, t)
          \/ \E name \in Names : MountWithSuite(f, name)
    \/ User
    \/ Answered
    \/ \E m \in net : Serve(m) \/ Lose(m)
    \/ \E i \in Ids : RemoveElsewhere(i)

(* The page when another is mounted.                                       *)
Idle == UNCHANGED vars

Spec == Init /\ [][Next]_vars

-----------------------------------------------------------------------------
(* Properties *)

(* The page lists every test case of the result from the first one on, none *)
(* twice, and all of them once Load more is no longer offered.  There are   *)
(* three excuses: requests for the tree, its pages and its count overlapped *)
(* or failed; the filter or the test cases changed since the tree was asked *)
(* for; and the tree was fetched as a test case had been created after Load *)
(* more, from the skip that Load more had left (FromTheFirst): there the    *)
(* code does break this.                                                    *)
ListingComplete ==
    steady =>
       LET rows == IF filter.grouped THEN grouped ELSE {i \in Ids : listed[i] > 0} IN
       /\ \A i \in Ids : listed[i] <= 1
       /\ rows \subseteq Result(filter)
       /\ (\A m \in net : m.kind \notin Listing) =>
             /\ \A i \in rows : \A j \in Result(filter) : j < i => j \in rows
             /\ moreLink \/ rows = Result(filter)
=============================================================================
