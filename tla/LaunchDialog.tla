----------------------------- MODULE LaunchDialog -----------------------------
(***************************************************************************)
(* The dialog that starts a launch, LaunchForm.js.  The page of the test   *)
(* cases opens it for a new launch, the page of a launch to start that     *)
(* launch again.  The dialog keeps a launch of its own, which on the page  *)
(* of a launch is the very object the page shows.                          *)
(*                                                                         *)
(* Every render of the page sets restart and failedOnly anew; the page of  *)
(* a launch renders at least every half minute (its poll).                 *)
(*                                                                         *)
(* The suite, the name and the launcher's properties are left out.         *)
(***************************************************************************)
EXTENDS Integers, Sequences, FiniteSets

CONSTANTS Names,        \* names of attributes of type LAUNCH
          Values,
          None,
          MaxEvents,    \* bound: events of the user and renders of the page
          MaxLosses     \* bound: requests that get lost

VARIABLES
    started,   \* launches started with this dialog
    net,       \* requests under way, with their answers
    events, losses,  \* bounds
    host,      \* the page that has the dialog: "cases" or "launch"
    launcher,  \* of the page's launch: "none", "creates" a launch, or only "starts" a build
    source,    \* the page's launch: how often each pair is in its configuration
    asked,     \* the page's restartFailedOnly
    open,      \* the dialog is shown
    offered,   \* names in state.projectAttributes; None before they are known
    launch,    \* state.launch: [id, pairs, triggered], and whether it is the page's
    restart, failedOnly,
    rows,      \* state.noAttributes
    name, value, \* what is chosen in the row "top" and in the row "bottom"
    loading,
    message,
    crashed,   \* a render threw
    excuses    \* history: failures told, and buttons that a render brought back

bounds == <<events, losses>>
page == <<host, launcher, source, asked>>
choice == <<offered, rows, name, value>>
dialog == <<launch, restart, failedOnly, loading>>
vars == <<started, net, bounds, page, open, choice, dialog, message, crashed, excuses>>

Positions == {"top", "bottom"}
Pairs == Names \X (Values \cup {None})
NoPairs == [p \in Pairs |-> 0]
Launch == [id : BOOLEAN, pairs : [Pairs -> Nat], triggered : BOOLEAN, given : BOOLEAN]
NewLaunch == [id |-> FALSE, pairs |-> NoPairs, triggered |-> FALSE, given |-> FALSE]

TypeOK ==
    /\ started \in Nat /\ excuses \in Nat
    /\ \A m \in net : /\ m.kind \in {"attributes", "create", "restart"}
                      /\ m.at \in {"sent", "done", "failed"}
                      /\ m.launch \in Launch
    /\ host \in {None, "cases", "launch"}
    /\ launcher \in {"none", "creates", "starts"}
    /\ source \in [Pairs -> Nat]
    /\ offered \in (SUBSET Names) \cup {None}
    /\ launch \in Launch
    /\ rows \in 0 .. 2
    /\ name \in [Positions -> Names \cup {None}]
    /\ value \in [Positions -> Values \cup {None}]
    /\ message \in {None, "invalid", "maximum", "failed"}
    /\ \A b \in {asked, open, restart, failedOnly, loading, crashed} : b \in BOOLEAN

Init ==
    /\ started = 0 /\ excuses = 0
    /\ net = {}
    /\ events = 0 /\ losses = 0
    /\ host = None /\ launcher = "none" /\ source = NoPairs /\ asked = FALSE
    /\ open = FALSE
    /\ offered = None
    /\ launch = NewLaunch
    /\ restart = FALSE /\ failedOnly = FALSE
    /\ rows = 0
    /\ name = [p \in Positions |-> None] /\ value = [p \in Positions |-> None]
    /\ loading = FALSE
    /\ message = None
    /\ crashed = FALSE

-----------------------------------------------------------------------------
Request(kind) == [kind |-> kind, launch |-> launch, failedOnly |-> failedOnly, at |-> "sent"]
Reply(m, outcome, l) == net' = (net \ {m}) \cup {[m EXCEPT !.at = outcome, !.launch = l]}

(* Requests for the project and the launchers' descriptors change nothing   *)
(* that is modelled.                                                        *)
ComponentDidMount(h, l) ==
    /\ host = None
    /\ host' = h
    /\ launcher' = IF h = "launch" THEN l ELSE "none"
    /\ restart' = (h = "launch")
    /\ net' = {Request("attributes")}
    /\ UNCHANGED <<started, bounds, source, asked, open, choice, launch, failedOnly, loading,
                   message, crashed, excuses>>

(* A launch is created, or with a launcher that needs none only a build is  *)
(* started, and the answer has no id.                                       *)
Serve(m) ==
    /\ m.at = "sent"
    /\ IF m.kind = "attributes"
         THEN Reply(m, "done", m.launch) /\ UNCHANGED started
         ELSE /\ started' = started + 1
              /\ Reply(m, "done", [m.launch EXCEPT !.id = launcher # "starts", !.given = FALSE])
    /\ UNCHANGED <<bounds, page, open, choice, dialog, message, crashed, excuses>>

Lose(m) ==
    /\ m.at \in {"sent", "done"}
    /\ losses < MaxLosses
    /\ losses' = losses + 1
    /\ Reply(m, "failed", m.launch)
    /\ UNCHANGED <<started, events, page, open, choice, dialog, message, crashed, excuses>>

-----------------------------------------------------------------------------
(* render *)

Created == launch.id /\ ~restart
Form == ~Created /\ ~(launch.triggered /\ ~restart)

(* The values of a row's attribute are looked up in the project's           *)
(* attributes: a blank one until they are known, and then perhaps none.     *)
Throws == rows > 0 /\ offered = {} /\ Form
Rendered == crashed' = Throws'

Button_always == ~Created  \* slip: while it is loading too
Button == ~Created /\ ~loading

(* componentWillReceiveProps.  What the page of the test cases gives has no *)
(* id and is not taken; the other page gives its launch, perhaps just       *)
(* fetched.                                                                 *)
ReceiveProps(failed, fresh) ==
    /\ restart' = (host = "launch")
    /\ failedOnly' = failed
    /\ source' = IF fresh THEN NoPairs ELSE source
    /\ launch' = IF host = "launch"
                   THEN [NewLaunch EXCEPT !.id = TRUE, !.pairs = source', !.given = TRUE]
                   ELSE launch
    /\ excuses' = IF Created /\ ~Created' THEN excuses + 1 ELSE excuses

HostRenders(fresh) ==
    /\ host # None /\ ~crashed
    /\ fresh => host = "launch"
    /\ ReceiveProps(asked, fresh)
    /\ UNCHANGED <<started, net, bounds, host, launcher, asked, open, choice, loading, message>>
    /\ Rendered

-----------------------------------------------------------------------------
(* Events *)

Event == ~crashed /\ events < MaxEvents /\ events' = events + 1

(* createLaunchModal, or onLaunchRestart: the page renders and shows it.    *)
Open(failed) ==
    /\ Event
    /\ host # None /\ ~open
    /\ failed => host = "launch"
    /\ asked' = failed
    /\ ReceiveProps(failed, FALSE)
    /\ open' = TRUE
    /\ UNCHANGED <<started, net, losses, host, launcher, choice, loading, message>>
    /\ Rendered

Close ==
    /\ Event
    /\ open /\ open' = FALSE
    /\ UNCHANGED <<started, net, losses, page, choice, dialog, message, crashed, excuses>>

InForm == Event /\ open /\ ~loading /\ Form
FormKeeps == UNCHANGED <<started, losses, page, open, excuses>>

HandleAddAttribute ==
    /\ InForm
    /\ \/ rows < 2 /\ offered # {} /\ rows' = rows + 1 /\ UNCHANGED message
       \/ rows < 2 /\ offered = {} /\ message' = "invalid" /\ UNCHANGED rows
       \/ rows = 2 /\ message' = "maximum" /\ UNCHANGED rows
    /\ UNCHANGED <<net, offered, name, value, dialog, crashed>>
    /\ FormKeeps

Shown(p) == IF p = "top" THEN rows >= 1 ELSE rows = 2

(* A name that is typed and not the project's is not taken.                 *)
ChangeLaunchConfigAttribute(p, n) ==
    /\ InForm
    /\ Shown(p) /\ offered # None /\ n \in offered
    /\ name' = [name EXCEPT ![p] = n]
    /\ UNCHANGED <<net, offered, rows, value, dialog, message, crashed>>
    /\ FormKeeps

(* The last of the chosen values is the one kept.                           *)
ChangeLaunchConfigAttributeValues(p, v) ==
    /\ InForm
    /\ Shown(p)
    /\ value' = [value EXCEPT ![p] = v]
    /\ UNCHANGED <<net, offered, rows, name, dialog, message, crashed>>
    /\ FormKeeps

(* The pairs of the rows are pushed behind those the launch already has, at *)
(* every attempt.                                                           *)
Pushed == [p \in Pairs |-> launch.pairs[p] + Cardinality({q \in Positions : <<name[q], value[q]>> = p})]

HandleSubmit ==
    /\ Event
    /\ open /\ Button
    /\ loading' = TRUE
    /\ launch' = [launch EXCEPT !.pairs = Pushed]
    /\ source' = IF launch.given THEN Pushed ELSE source
    /\ net' = net \cup {[Request(IF restart THEN "restart" ELSE "create") EXCEPT !.launch = launch']}
    /\ UNCHANGED <<started, losses, host, launcher, asked, open, choice, restart, failedOnly,
                   message, crashed, excuses>>

(* Go To Launch: the handler throws and the browser loads the launch's page *)
(* anew.                                                                    *)
GoToLaunch ==
    /\ Event
    /\ open /\ ~loading /\ Created
    /\ losses' = losses
    /\ started' = 0 /\ excuses' = 0 /\ net' = {}
    /\ host' = None /\ launcher' = "none" /\ source' = NoPairs /\ asked' = FALSE
    /\ open' = FALSE /\ offered' = None /\ launch' = NewLaunch
    /\ restart' = FALSE /\ failedOnly' = FALSE /\ rows' = 0
    /\ name' = [p \in Positions |-> None] /\ value' = [p \in Positions |-> None]
    /\ loading' = FALSE /\ message' = None /\ crashed' = FALSE

-----------------------------------------------------------------------------
(* Answers *)

AttributesAnswered(m, names) ==
    /\ ~crashed
    /\ m.kind = "attributes" /\ m.at = "done"
    /\ offered' = names
    /\ net' = net \ {m}
    /\ UNCHANGED <<started, bounds, page, open, rows, name, value, dialog, message, excuses>>
    /\ Rendered

Answered(m) ==
    /\ ~crashed
    /\ m.kind \in {"create", "restart"} /\ m.at = "done"
    /\ launch' = [m.launch EXCEPT !.triggered = ~m.launch.id]
    /\ restart' = FALSE /\ loading' = FALSE
    /\ net' = net \ {m}
    /\ excuses' = IF m.launch.id THEN excuses ELSE excuses + 1
    /\ UNCHANGED <<started, bounds, page, open, choice, failedOnly, message>>
    /\ Rendered

(* That the attributes are not known is not told.                           *)
Failed(m) ==
    /\ ~crashed
    /\ m.at = "failed"
    /\ net' = net \ {m}
    /\ IF m.kind = "attributes" THEN UNCHANGED <<loading, message, excuses>>
       ELSE loading' = FALSE /\ message' = "failed" /\ excuses' = excuses + 1
    /\ UNCHANGED <<started, bounds, page, open, choice, launch, restart, failedOnly>>
    /\ Rendered

-----------------------------------------------------------------------------
User ==
    \/ \E b \in BOOLEAN : Open(b)
    \/ Close
    \/ HandleAddAttribute
    \/ \E p \in Positions :
          \/ \E n \in Names : ChangeLaunchConfigAttribute(p, n)
          \/ \E v \in Values : ChangeLaunchConfigAttributeValues(p, v)
    \/ HandleSubmit
    \/ GoToLaunch

Next ==
    \/ \E h \in {"cases", "launch"}, l \in {"none", "creates", "starts"} : ComponentDidMount(h, l)
    \/ User
    \/ \E fresh \in BOOLEAN : HostRenders(fresh)
    \/ \E m \in net :
          \/ Serve(m) \/ Lose(m)
          \/ \E names \in {{}, Names} : AttributesAnswered(m, names)
          \/ Answered(m) \/ Failed(m)

(* The page when another is mounted.                                       *)
Idle == UNCHANGED vars

Spec == Init /\ [][Next]_vars

-----------------------------------------------------------------------------
(* Properties *)

(* Whoever presses Create Launch starts one launch: a further one takes a   *)
(* failure the dialog has told, an answer without an id, or a render of the *)
(* page of a launch that brought the button back.  An answer that is lost   *)
(* after the launch was created is such a failure.                          *)
LaunchedOnce == started <= 1 + excuses
=============================================================================
