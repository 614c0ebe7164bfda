----------------------------- MODULE LaunchPage -----------------------------
(***************************************************************************)
(* The page of a launch, Launch.js with LaunchTestcaseControls.js: a copy  *)
(* of the launch that is fetched every half minute, a tree widget that is  *)
(* rebuilt on some answers and patched on others, and the controls of the  *)
(* selected test case, which keep a copy of their own.                     *)
(*                                                                         *)
(* The launch has its test cases at the root or in one level of groups and *)
(* at most one pair of configuration attributes.  The chart of attributes  *)
(* and the restart dialog (LaunchForm.js) are left out, and so is an       *)
(* address that names a test case, which would start out selected.         *)
(***************************************************************************)
EXTENDS Integers, FiniteSets, Functions

CONSTANTS Tests,       \* test cases of the launch, by uuid
          Filterable,  \* those at the root, or in the first group if none is
          Mapped,      \* those at the root, or in the last group if none is
          Outcomes,    \* those of PASSED, FAILED and BROKEN that are used
          None,
          MaxEvents,   \* bound: events of the user
          MaxFaults, \* bound: statuses set by others,
                     \* and requests that get lost
          MaxInFlight  \* bound: requests under way

ASSUME LaunchPageAssumption ==
    /\ Outcomes \subseteq {"PASSED", "FAILED", "BROKEN"}
    /\ IsFiniteSet(Tests)
    /\ Filterable \subseteq Tests /\ Mapped \subseteq Tests
    /\ MaxInFlight \in Nat \ {0}

VARIABLES
    status,    \* the launch in the service: test case -> launchStatus
    net,       \* requests under way, with their answers
    events, elsewhere, losses,  \* bounds
    launch,    \* statuses in state.launch.testCaseTree, as filtered
    unnamed,   \* test cases of it whose uuid has been set to null
    lacking,   \* its test cases have attributes that are not known (yet)
    selected,  \* state.selectedTestCase
    controls,  \* the controls' state.testcase
    dialog,    \* the dialog of a failure that is open
    built,     \* the widget has been built
    rows,      \* status each of its rows shows
    count,     \* Number of Testcases
    pressed,   \* filter buttons that are pressed
    filter,    \* state.filterLaunch
    stateMap,  \* testCasesStateMap, built once
    refresh,   \* state.refreshTree
    loading, failed,
    builtFrom  \* history: statuses of the launch the rows were last built from

bounds == <<events, elsewhere, losses>>
selection == <<selected, controls, dialog>>
widget == <<built, rows, count, builtFrom>>
buttons == <<pressed, filter>>
page == <<launch, unnamed, lacking, stateMap, refresh, loading, failed>>
vars == <<status, net, bounds, page, selection, widget, buttons>>

Statuses == {"RUNNABLE", "RUNNING"} \cup Outcomes
Buttons == {"RUNNABLE"} \cup Outcomes
Tree == UNION {[T -> Statuses] : T \in SUBSET Tests}
Case == [test : Tests, status : Statuses]

TypeOK ==
    /\ status \in [Tests -> Statuses]
    /\ \A m \in net :
          /\ m.no \in 1 .. MaxInFlight
          /\ m.kind \in {"attributes", "load", "build", "poll", "update", "status"}
          /\ m.at \in {"sent", "done", "failed"}
          /\ m.answer \in Tree
    /\ launch \in Tree /\ rows \in Tree /\ stateMap \in Tree \cup {None}
    /\ unnamed \subseteq Tests
    /\ selected \in Case \cup {None} /\ controls \in Case \cup {None}
    /\ dialog \in {None, "FAILED", "BROKEN"}
    /\ count \in Nat
    /\ pressed \subseteq Buttons /\ builtFrom \in Tree
    /\ filter \subseteq Statuses
    /\ \A b \in {lacking, built, refresh, loading, failed} : b \in BOOLEAN

(* The request for the project's attributes that componentDidMount sends;   *)
(* the launch is fetched when it has been answered.                         *)
Sending(kind) == [no |-> 1, kind |-> kind, test |-> None, to |-> None,
                at |-> "sent", answer |-> <<>>, orphan |-> FALSE]

Init ==
    /\ status = [t \in Tests |-> "RUNNABLE"]
    /\ net = {Sending("attributes")}
    /\ events = 0 /\ elsewhere = 0 /\ losses = 0
    /\ launch = <<>> /\ unnamed = {} /\ lacking \in BOOLEAN
    /\ selected = None /\ controls = None /\ dialog = None
    /\ built = FALSE /\ rows = <<>> /\ count = 0 /\ builtFrom = <<>>
    /\ pressed = {} /\ filter = {}
    /\ stateMap = None
    /\ refresh = FALSE /\ loading = TRUE /\ failed = FALSE

-----------------------------------------------------------------------------
(* Requests *)

Free(n) == {i \in 1 .. MaxInFlight : \A m \in n : m.no # i}
With(n, kind, t, to) ==
    n \cup {[Sending(kind) EXCEPT !.no = CHOOSE i \in Free(n) : TRUE, !.test = t, !.to = to]}

Send(kind, t, to) == Free(net) # {} /\ net' = With(net, kind, t, to)

Reply(m, outcome, answer) ==
    net' = (net \ {m}) \cup {[m EXCEPT !.at = outcome, !.answer = answer]}

(* LaunchExecution: any status is taken, over any other.                    *)
Serve(m) ==
    /\ m.at = "sent"
    /\ status' = IF m.kind = "status" THEN [status EXCEPT ![m.test] = m.to] ELSE status
    /\ Reply(m, "done", IF m.kind = "attributes" THEN <<>> ELSE status')
    /\ UNCHANGED <<bounds, page, selection, widget, buttons>>

(* Before it is handled, or after.                                          *)
Lose(m) ==
    /\ m.at \in {"sent", "done"}
    /\ losses + elsewhere < MaxFaults
    /\ losses' = losses + 1
    /\ Reply(m, "failed", <<>>)
    /\ UNCHANGED <<status, events, elsewhere, page, selection, widget, buttons>>

SetElsewhere(t, s) ==
    /\ losses + elsewhere < MaxFaults
    /\ elsewhere' = elsewhere + 1
    /\ status[t] # s
    /\ status' = [status EXCEPT ![t] = s]
    /\ UNCHANGED <<net, events, losses, page, selection, widget, buttons>>

(* setInterval(this.getLaunch, 30000): without the argument that asks for   *)
(* the widget to be built.                                                  *)
Poll ==
    /\ \A m \in net : m.kind # "poll"
    /\ Send("poll", None, None)
    /\ UNCHANGED <<status, bounds, page, selection, widget, buttons>>

AttributesAnswered(m) ==
    /\ m.kind = "attributes" /\ m.at = "done"
    /\ lacking' = FALSE
    /\ net' = With(net \ {m}, "load", None, None)
    /\ UNCHANGED <<status, bounds, launch, unnamed, stateMap, refresh, loading,
                   failed, selection, widget, buttons>>

(* Nothing is said of it, and the launch is fetched by polls and buttons    *)
(* only: by the first a widget is not built.                                *)
AttributesFailed(m) ==
    /\ m.kind = "attributes" /\ m.at = "failed"
    /\ net' = net \ {m}
    /\ UNCHANGED <<status, bounds, page, selection, widget, buttons>>

-----------------------------------------------------------------------------
(* filterLaunchTestCasesOnStatus, updateCount, buildTree *)

Filtered_all(tree) == tree  \* slip: the filter is forgotten
Filtered(tree) ==
    IF filter = {} THEN tree
    ELSE Restrict(tree, {t \in DOMAIN tree : t \in Filterable => tree[t] \in filter})

Build(tree, from) ==
    /\ built' = TRUE
    /\ rows' = tree
    /\ count' = Cardinality(DOMAIN tree)
    /\ builtFrom' = from

(* The icon of a row that is there. *)
Iconed(r, t, s) == IF t \in DOMAIN r THEN [r EXCEPT ![t] = s] ELSE r

(* setState: the controls receive the selected test case again, when there  *)
(* is one.                                                                  *)
Rendered(s) == controls' = s

-----------------------------------------------------------------------------
(* getLaunch and its answer *)

(* checkUpdatedTestCases: every test case whose status is not the one it    *)
(* has in the map, whatever was shown since.  buildTestCasesStateMap, which *)
(* calls itself for each group, empties the map each time: the last group's *)
(* are left, and a test case of another group counts as changed every time. *)
Changed_run(tree, map) ==  \* slip: those that run are left out
    {t \in DOMAIN tree : tree[t] # "RUNNING" /\ (t \notin DOMAIN map \/ map[t] # tree[t])}
Changed(tree, map) == {t \in DOMAIN tree : t \notin DOMAIN map \/ map[t] # tree[t]}

Selected_kept(tree) == selected  \* slip: the one selected is not looked up again
Selected(tree) ==
    IF selected = None THEN None
    ELSE [test |-> selected.test, status |-> tree[selected.test]]

MapOf(tree) ==
    IF stateMap = None THEN Restrict(tree, DOMAIN tree \cap Mapped) ELSE stateMap

Fetched(m) == m.kind \in {"load", "build", "poll"} /\ m.at = "done"

LaunchAnswered(m) ==
    /\ Fetched(m) /\ ~lacking
    /\ LET tree == Filtered(m.answer)
           changed == Changed(tree, MapOf(tree))
           now == Selected(m.answer)
           again == now # None /\ now.test \in changed
           icons == [t \in DOMAIN rows |-> IF t \in changed THEN tree[t] ELSE rows[t]]
       IN /\ built \/ m.kind # "poll" \/ changed = {}
          /\ launch' = tree
          /\ stateMap' = MapOf(tree)
          /\ selected' = now
          /\ Rendered(now)
          /\ refresh' = again
          /\ IF again \/ m.kind # "poll"
               THEN Build(tree, m.answer)
               ELSE rows' = icons /\ UNCHANGED <<built, count, builtFrom>>
          /\ net' = IF again THEN With(net \ {m}, "update", None, None) ELSE net \ {m}
    /\ unnamed' = {}
    /\ loading' = FALSE
    /\ UNCHANGED <<status, bounds, lacking, failed, dialog, buttons>>

(* buildAttributesStatusMap looks into attributes that are not there: what  *)
(* comes after it is not done, and the page says the launch did not come.   *)
AttributesMissing(m) ==
    /\ Fetched(m) /\ lacking
    /\ launch' = m.answer
    /\ unnamed' = {}
    /\ selected' = Selected(m.answer)
    /\ Rendered(selected')
    /\ loading' = FALSE /\ failed' = TRUE
    /\ net' = net \ {m}
    /\ UNCHANGED <<status, bounds, lacking, stateMap, refresh, dialog, widget, buttons>>

(* onTestcaseStateChanged patches a widget that no answer has built yet.    *)
WidgetMissing(m) ==
    /\ Fetched(m) /\ ~lacking
    /\ ~built /\ m.kind = "poll"
    /\ LET tree == Filtered(m.answer) IN
       /\ Changed(tree, MapOf(tree)) # {}
       /\ launch' = tree
       /\ stateMap' = MapOf(tree)
    /\ unnamed' = {}
    /\ selected' = Selected(m.answer)
    /\ Rendered(selected')
    /\ refresh' = FALSE
    /\ loading' = FALSE /\ failed' = TRUE
    /\ net' = net \ {m}
    /\ UNCHANGED <<status, bounds, lacking, dialog, widget, buttons>>

(* getUpdatedLaunch: the launch as it comes, unfiltered, and neither the    *)
(* selected test case nor the widget.                                       *)
UpdateAnswered(m) ==
    /\ m.kind = "update" /\ m.at = "done"
    /\ launch' = m.answer
    /\ unnamed' = {}
    /\ refresh' = FALSE
    /\ Rendered(selected)
    /\ net' = net \ {m}
    /\ UNCHANGED <<status, bounds, lacking, stateMap, loading, failed, selected,
                   dialog, widget, buttons>>

LaunchFailed(m) ==
    /\ m.kind \in {"load", "build", "poll", "update"} /\ m.at = "failed"
    /\ failed' = TRUE
    /\ loading' = FALSE
    /\ Rendered(selected)
    /\ net' = net \ {m}
    /\ UNCHANGED <<status, bounds, launch, unnamed, lacking, stateMap, refresh,
                   selected, dialog, widget, buttons>>

-----------------------------------------------------------------------------
(* The user's events *)

Event == events < MaxEvents /\ events' = events + 1

(* handleSubmit: a button pressed twice is released; both statuses of a     *)
(* test case that has not been run go with one button.                      *)
FilterOf(button) == IF button = "RUNNABLE" THEN {"RUNNABLE", "RUNNING"} ELSE {button}

PressFilter(button) ==
    /\ Event
    /\ IF button \in pressed
         THEN pressed' = pressed \ {button} /\ filter' = filter \ FilterOf(button)
         ELSE pressed' = pressed \cup {button} /\ filter' = filter \cup FilterOf(button)
    /\ Send("build", None, None)
    /\ UNCHANGED <<status, elsewhere, losses, page, selection, widget>>

(* getTestCaseFromTree: nothing when the test case is not in the tree.      *)
Named == DOMAIN launch \ unnamed

(* Controls that are unmounted no longer belong to the answers they wait    *)
(* for; what they tell the page still counts.                               *)
Orphaned(n) == {[m EXCEPT !.orphan = m.orphan \/ m.kind = "status"] : m \in n}

Select(t) ==
    /\ Event
    /\ dialog = None
    /\ t \in DOMAIN rows
    /\ selected' = IF t \in Named THEN [test |-> t, status |-> launch[t]] ELSE None
    /\ Rendered(selected')
    /\ net' = IF selected' = None THEN Orphaned(net) ELSE net
    /\ UNCHANGED <<status, elsewhere, losses, page, dialog, widget, buttons>>

(* The uuid of the selected test case is set to null, in the launch too.    *)
ShowLaunchStats ==
    /\ Event
    /\ dialog = None
    /\ selected # None
    /\ unnamed' = unnamed \cup {selected.test}
    /\ selected' = None
    /\ Rendered(None)
    /\ net' = Orphaned(net)
    /\ UNCHANGED <<status, elsewhere, losses, launch, lacking, stateMap, refresh,
                   loading, failed, dialog, widget, buttons>>

(* renderButtons: Start; Pass, Fail, Broken, X; X.                          *)
Offered(s) ==
    CASE s = "RUNNABLE" -> {"RUNNING"}
      [] s = "RUNNING" -> {"PASSED", "RUNNABLE"} \cap Statuses
      [] OTHER -> {"RUNNABLE"}

OpenDialog(s) ==
    /\ Event
    /\ dialog = None /\ controls # None /\ controls.status = "RUNNING"
    /\ dialog' = s
    /\ UNCHANGED <<status, net, elsewhere, losses, page, selected, controls,
                   widget, buttons>>

(* The status goes to the test case the controls hold. *)
HandleStatusSubmit(s) ==
    /\ Event
    /\ controls # None
    /\ \/ dialog = None /\ s \in Offered(controls.status)
       \/ dialog # None /\ s = dialog
    /\ Send("status", controls.test, s)
    /\ UNCHANGED <<status, elsewhere, losses, page, selection, widget, buttons>>

-----------------------------------------------------------------------------
(* The answer to a status, and onTestcaseStateChanged *)

Dismissed(m) == IF m.to = dialog THEN None ELSE dialog

(* The controls take the test case of the answer, the selected one or not;  *)
(* the page takes its status, and when it is the selected one fetches the   *)
(* launch again and builds the widget from what it has.                     *)
StatusAnswered(m) ==
    /\ m.kind = "status" /\ m.at = "done"
    /\ m.test \in Named
    /\ LET now == [test |-> m.test, status |-> m.to]
           tree == [launch EXCEPT ![m.test] = m.to]
           mine == selected # None /\ selected.test = m.test
       IN /\ selected' = IF mine THEN now ELSE selected
          /\ IF mine \/ refresh
               THEN /\ launch' = Filtered(tree)
                    /\ Build(launch', tree)
                    /\ refresh' = TRUE
                    /\ Rendered(selected')
                    /\ net' = With(net \ {m}, "update", None, None)
               ELSE /\ launch' = tree
                    /\ rows' = Iconed(rows, m.test, m.to)
                    /\ UNCHANGED <<built, count, builtFrom, refresh>>
                    /\ controls' = IF m.orphan THEN controls ELSE now
                    /\ net' = net \ {m}
    /\ dialog' = Dismissed(m)
    /\ UNCHANGED <<status, bounds, unnamed, lacking, stateMap, loading, failed, buttons>>

(* The test case is not in the tree, having been filtered out: the callback *)
(* throws, and the page says that the status could not be saved.            *)
CallbackThrows(m) ==
    /\ m.kind = "status" /\ m.at = "done"
    /\ m.test \notin Named
    /\ controls' = IF m.orphan THEN controls ELSE [test |-> m.test, status |-> m.to]
    /\ failed' = TRUE
    /\ net' = net \ {m}
    /\ UNCHANGED <<status, bounds, launch, unnamed, lacking, stateMap, refresh,
                   loading, selected, dialog, widget, buttons>>

StatusFailed(m) ==
    /\ m.kind = "status" /\ m.at = "failed"
    /\ failed' = TRUE
    /\ net' = net \ {m}
    /\ UNCHANGED <<status, bounds, launch, unnamed, lacking, stateMap, refresh,
                   loading, selection, widget, buttons>>

-----------------------------------------------------------------------------
User ==
    \/ \E b \in Buttons : PressFilter(b)
    \/ \E t \in Tests : Select(t)
    \/ ShowLaunchStats
    \/ \E s \in Outcomes \ {"PASSED"} : OpenDialog(s)
    \/ \E s \in Statuses : HandleStatusSubmit(s)

Answer ==
    \E m \in net :
       \/ AttributesAnswered(m) \/ AttributesFailed(m)
       \/ LaunchAnswered(m) \/ AttributesMissing(m) \/ WidgetMissing(m)
       \/ UpdateAnswered(m) \/ LaunchFailed(m)
       \/ StatusAnswered(m) \/ CallbackThrows(m) \/ StatusFailed(m)

Next ==
    \/ User
    \/ Answer
    \/ Poll
    \/ \E m \in net : Serve(m) \/ Lose(m)
    \/ \E t \in Tests, s \in Statuses : SetElsewhere(t, s)

(* The timer of the page keeps firing, requests end, and the browser runs   *)
(* its callbacks.                                                           *)
Fairness ==
    /\ WF_vars(Poll)
    /\ WF_vars(\E m \in net : Serve(m))
    /\ WF_vars(Answer)

(* The page when another is mounted.                                       *)
Idle == UNCHANGED vars

Spec == Init /\ [][Next]_vars
FairSpec == Spec /\ Fairness

-----------------------------------------------------------------------------
(* Properties *)

(* Launch.js: unless the page has told of a failure (a request or what its  *)
(* answer is used for) or the answer to a filter button is still under way, *)
(* the rows are those of the test cases, of the launch they were built      *)
(* from, that the pressed buttons ask for, and the number over them is      *)
(* theirs: whatever polls, updates and statuses of test cases were answered *)
(* before or since.                                                         *)
FilterShown ==
    \/ failed
    \/ \E m \in net : m.kind \in {"load", "build"}
    \/ /\ count = Cardinality(DOMAIN rows)
       /\ DOMAIN rows = {t \in DOMAIN builtFrom :
             \/ pressed = {} \/ t \notin Filterable
             \/ \E b \in pressed : builtFrom[t] \in FilterOf(b)}

(* The controls come to show the selected test case and its status, however *)
(* answers overtook each other, because the launch keeps being fetched.     *)
ControlsAgree ==
    IF selected = None THEN controls = None
    ELSE controls = selected /\ selected.status = status[selected.test]
ControlsEventuallyAgree == <>[]ControlsAgree

(* So does the icon of a row, because polls mend it; but not that of a test *)
(* case of the last group (of any, if there are no groups) whose status has *)
(* come back to the one in the map, which it had when the launch was first  *)
(* fetched, nor of one the buttons hide.  Test cases of the other groups    *)
(* are not in the map: their icons are mended by every poll.                *)
RowAgrees(t) ==
    \/ rows[t] = status[t]
    \/ t \in Mapped /\ stateMap # None /\ t \in DOMAIN stateMap /\ stateMap[t] = status[t]
    \/ filter # {} /\ t \in Filterable /\ status[t] \notin filter
StatusEventuallyShown == <>[](\A t \in DOMAIN rows : RowAgrees(t))
=============================================================================
