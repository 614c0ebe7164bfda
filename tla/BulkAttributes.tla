--------------------------- MODULE BulkAttributes ---------------------------
(***************************************************************************)
(* The buttons of the administrator over the list of test cases: attributes *)
(* are added to, or removed from, every test case that is listed at the    *)
(* root of the tree and checked (TestCases.js), and all test cases locked  *)
(* or unlocked.  One test case at a time is fetched, changed in the browser *)
(* and saved whole, while the button's message already says it was done.   *)
(*                                                                         *)
(* The rows of the filter are the objects the form edits: their values are *)
(* read when a test case has come.  The service is a compare-and-set on    *)
(* the version, as in TestCasePage.  The list of rows stays as it is here. *)
(***************************************************************************)
EXTENDS Integers, Sequences, FiniteSets, FiniteSetsExt, SequencesExt, Functions

CONSTANTS Cases,        \* test cases listed
          Keys,         \* attributes of the project
          Undefined,    \* the id of the first row of the filter, null that of
          Null,         \* a row added later; no attribute has been chosen for them
          Values,
          Begin,        \* attributes of the test cases at the start
          None,
          MaxEvents,    \* bound: events of the user
          MaxFaults, \* bound: test cases saved by others,
                     \* and requests that get lost
          MaxInFlight   \* bound: requests under way

VARIABLES
    store,     \* test case -> its version, attributes and locked flag
    net,       \* requests under way, with their answers
    events, elsewhere, losses, clicks,  \* bounds
    mounted,
    admin,     \* state.session is that of an administrator
    rows,      \* rows of filters there have been: [id, values]
    form,      \* the rows of the form now, in order
    unchecked, \* filter.notFields.id
    message,   \* errorMessage: what a button said last, or what failed
    pledge     \* history: what the last button was to do, unless the form,
               \* others or another button interfered since

bounds == <<events, elsewhere, losses, clicks>>
page == <<mounted, admin, rows, form, unchecked>>
vars == <<store, net, bounds, page, message, pledge>>

RowIds == Keys \cup {"broken", Undefined, Null}
AttributesOf == UNION {[K -> SUBSET Values] : K \in SUBSET (Keys \cup {"broken", Undefined})}
Row == [id : RowIds, values : SUBSET Values]
Messages == {None, "select", "done", "failed"}

TypeOK ==
    /\ \A t \in Cases : /\ store[t].version \in Nat
                        /\ store[t].attributes \in AttributesOf
                        /\ store[t].locked \in BOOLEAN
    /\ \A m \in net : /\ m.op \in {"session", "add", "remove", "put", "lock", "unlock"}
                      /\ m.at \in {"sent", "done", "failed"}
                      /\ m.case \in Cases \cup {None}
                      /\ Range(m.rows) \subseteq DOMAIN rows
                      /\ Range(m.ids) \subseteq RowIds
                      /\ m.left \subseteq Cases
    /\ rows \in Seq(Row)
    /\ Range(form) \subseteq DOMAIN rows
    /\ unchecked \subseteq Cases
    /\ mounted \in BOOLEAN /\ admin \in BOOLEAN
    /\ message \in Messages

Init ==
    /\ store = [t \in Cases |-> [version |-> 1, attributes |-> Begin[t], locked |-> FALSE]]
    /\ net = {}
    /\ events = 0 /\ elsewhere = 0 /\ losses = 0 /\ clicks = 0
    /\ mounted = FALSE /\ admin = FALSE
    /\ rows = <<[id |-> Undefined, values |-> {}]>>
    /\ form = <<1>>
    /\ unchecked = {}
    /\ message = None
    /\ pledge = None

-----------------------------------------------------------------------------
(* Requests and the service *)

NoTestCase == [version |-> 0, attributes |-> <<>>, locked |-> FALSE]
Request(op, t, d) ==
    [op |-> op, button |-> op, click |-> clicks, case |-> t, doc |-> d, at |-> "sent",
     rows |-> <<>>, ids |-> <<>>, left |-> {}]

Reply(m, outcome, d) == net' = (net \ {m}) \cup {[m EXCEPT !.at = outcome, !.doc = d]}
Outside == UNCHANGED <<bounds, page, message, pledge>>

ServeGet(m) ==
    /\ m.op \in {"session", "add", "remove"} /\ m.at = "sent"
    /\ Reply(m, "done", IF m.op = "session" THEN NoTestCase ELSE store[m.case])
    /\ UNCHANGED store
    /\ Outside

Accepted_stale(m) == m.case \in Cases  \* slip: no version compared
Accepted(m) == m.doc.version = store[m.case].version

ServePut(m) ==
    /\ m.op = "put" /\ m.at = "sent"
    /\ IF Accepted(m)
         THEN /\ store' = [store EXCEPT ![m.case] =
                     [m.doc EXCEPT !.version = store[m.case].version + 1]]
              /\ Reply(m, "done", m.doc)
         ELSE Reply(m, "failed", m.doc) /\ UNCHANGED store
    /\ Outside

(* lockall, unlockall: one test case after the other is saved.              *)
ServeLock(m, t) ==
    LET locked == m.op = "lock" IN
    /\ m.op \in {"lock", "unlock"} /\ m.at = "sent"
    /\ t \in m.left
    /\ store' = IF store[t].locked = locked THEN store
                ELSE [store EXCEPT ![t].locked = locked, ![t].version = @ + 1]
    /\ net' = (net \ {m}) \cup {[m EXCEPT !.left = @ \ {t},
                                          !.at = IF m.left = {t} THEN "done" ELSE "sent"]}
    /\ Outside

Lose(m) ==
    /\ m.at \in {"sent", "done"} /\ m.op # "session"
    /\ losses + elsewhere < MaxFaults
    /\ losses' = losses + 1
    /\ Reply(m, "failed", m.doc)
    /\ UNCHANGED <<store, events, elsewhere, clicks, page, message, pledge>>

SaveElsewhere(t, k, v) ==
    /\ losses + elsewhere < MaxFaults
    /\ elsewhere' = elsewhere + 1
    /\ store' = [store EXCEPT ![t].version = @ + 1,
                              ![t].attributes = [x \in DOMAIN @ \cup {k} |-> IF x = k THEN v ELSE @[x]]]
    /\ store'[t].attributes # store[t].attributes
    /\ pledge' = IF pledge # None /\ k \in DOMAIN pledge.values THEN None ELSE pledge
    /\ UNCHANGED <<net, events, losses, clicks, page, message>>

-----------------------------------------------------------------------------
(* componentDidMount of the form *)

(* With attributes in the address they make the first rows, and the row     *)
(* without one goes behind them; with a suite the session is not fetched.   *)
Mount(k, v) ==
    /\ ~mounted
    /\ mounted' = TRUE
    /\ IF v = {} THEN UNCHANGED <<rows, form>>
       ELSE /\ rows' = Append(rows, [id |-> k, values |-> v])
            /\ form' = <<2, 1>>
    /\ net' = {Request("session", None, NoTestCase)}
    /\ UNCHANGED <<store, bounds, admin, unchecked, message, pledge>>

MountWithSuite(k, v) ==
    /\ ~mounted
    /\ mounted' = TRUE
    /\ rows' = <<[id |-> k, values |-> v]>>
    /\ UNCHANGED <<store, net, bounds, admin, form, unchecked, message, pledge>>

SessionAnswered(m) ==
    /\ m.op = "session" /\ m.at = "done"
    /\ admin' = TRUE
    /\ net' = net \ {m}
    /\ UNCHANGED <<store, bounds, mounted, rows, form, unchecked, message, pledge>>

-----------------------------------------------------------------------------
(* The form of the filter and the checkboxes *)

Event == mounted /\ events < MaxEvents /\ events' = events + 1
UserKeeps == UNCHANGED <<store, elsewhere, losses, mounted, admin>>
EditRow(e, id, values) == [rows EXCEPT ![e] = [id |-> id, values |-> values]]

(* Choosing for a row that had none adds a row without one.                 *)
ChangeFilterAttributeId(i, k) ==
    LET e == form[i]
        changed == EditRow(e, k, IF rows[e].id = k THEN rows[e].values ELSE {})
        first == rows[e].id \in {Undefined, Null} IN
    /\ Event
    /\ k # rows[e].id
    /\ rows' = IF first THEN Append(changed, [id |-> Null, values |-> {}]) ELSE changed
    /\ form' = IF first THEN Append(form, Len(rows) + 1) ELSE form
    /\ pledge' = None
    /\ UNCHANGED <<net, clicks, unchecked, message>>
    /\ UserKeeps

ChangeFilterAttributeValues(i, v) ==
    LET e == form[i] IN
    /\ Event
    /\ rows[e].id \in Keys /\ v # rows[e].values
    /\ rows' = EditRow(e, rows[e].id, v)
    /\ pledge' = None
    /\ UNCHANGED <<net, clicks, form, unchecked, message>>
    /\ UserKeeps

RemoveFilter(i) ==
    /\ Event
    /\ rows[form[i]].id \notin {Undefined, Null}
    /\ form' = RemoveAt(form, i)
    /\ UNCHANGED <<net, clicks, rows, unchecked, message, pledge>>
    /\ UserKeeps

ProcessElementChecked(t) ==
    /\ Event
    /\ unchecked' = IF t \in unchecked THEN unchecked \ {t} ELSE unchecked \cup {t}
    /\ UNCHANGED <<net, clicks, rows, form, message, pledge>>
    /\ UserKeeps

-----------------------------------------------------------------------------
(* handleBulkAddAttributes, handleBulkRemoveAttributes *)

(* newValidAttribs, in the order of the form: the row whose id is undefined *)
(* is one of them.                                                          *)
Valid == Restrict(form, {i \in DOMAIN form : rows[form[i]].id \notin {Null, "broken"}})
Checked == Cases \ unchecked

(* What the button was to do, when no attribute has two rows.               *)
Pledged(op) ==
    LET chosen == {e \in Range(Valid) : rows[e].id # Undefined} IN
    IF \E d, e \in chosen : d # e /\ rows[d].id = rows[e].id THEN None
    ELSE [op |-> op, cases |-> Checked,
          values |-> [k \in {rows[e].id : e \in chosen} |->
                         rows[CHOOSE e \in chosen : rows[e].id = k].values]]

NothingChosen ==
    \/ DOMAIN Valid = {}
    \/ \E i \in DOMAIN Valid : DOMAIN Valid = {i} /\ rows[Valid[i]].values = {}

HandleBulk(op) ==
    /\ Event
    /\ admin
    /\ clicks' = clicks + 1
    /\ IF NothingChosen
         THEN message' = "select" /\ pledge' = None /\ UNCHANGED net
         ELSE /\ Cardinality(net) + Cardinality(Checked) <= MaxInFlight
              /\ net' = net \cup {[Request(op, t, NoTestCase) EXCEPT
                                      !.rows = Valid,
                                      !.ids = [i \in DOMAIN Valid |-> rows[Valid[i]].id]] : t \in Checked}
              /\ message' = "done"
              /\ pledge' = IF net = {} THEN Pledged(op) ELSE None
    /\ UNCHANGED <<rows, form, unchecked>>
    /\ UserKeeps

HandleLockAllTestCases(op) ==
    /\ Event
    /\ admin
    /\ Cardinality(net) < MaxInFlight
    /\ clicks' = clicks + 1
    /\ net' = net \cup {[Request(op, None, NoTestCase) EXCEPT !.left = Cases]}
    /\ pledge' = None
    /\ UNCHANGED <<rows, form, unchecked, message>>
    /\ UserKeeps

-----------------------------------------------------------------------------
(* A test case has come: what the rows say now is done to it *)

RowsOf(m, k) == {i \in DOMAIN m.rows : rows[m.rows[i]].id = k}
FirstValues(m, k) == rows[m.rows[Min(RowsOf(m, k))]].values
LastValues(m, k) == rows[m.rows[Max(RowsOf(m, k))]].values

(* Attributes chosen at the click that the test case lacks.                 *)
Missing(m, a) == {k \in Range(m.ids) : k \notin DOMAIN a /\ k # Undefined}

(* find: the id of every row up to the one found is looked into.            *)
Throws(m, a) ==
    \E k \in Missing(m, a) :
       \/ RowsOf(m, k) = {}
       \/ \E i \in DOMAIN m.rows :
             /\ rows[m.rows[i]].id \in {Undefined, Null}
             /\ \A j \in RowsOf(m, k) : j > i

(* An attribute of the test case is compared with the ids of the rows by    *)
(* ===: one named "undefined" is not that of the row without an id.         *)
Matching(m, k) == IF k = Undefined THEN {} ELSE RowsOf(m, k)

(* Of two rows of one attribute the last one counts, added to what the test *)
(* case had, or to the first row when it had nothing.                       *)
Added(m, a) ==
    IF DOMAIN a = {}
      THEN [k \in {rows[e].id : e \in Range(m.rows)} |-> LastValues(m, k)]
      ELSE [k \in DOMAIN a \cup Missing(m, a) |->
               LET base == IF k \in DOMAIN a THEN a[k] ELSE FirstValues(m, k) IN
               IF Matching(m, k) = {} THEN base ELSE base \cup LastValues(m, k)]

(* An attribute that is left without values goes.                           *)
Removed(m, a) ==
    LET remaining(k) == IF Matching(m, k) = {} THEN a[k] ELSE a[k] \ LastValues(m, k)
    IN [k \in {x \in DOMAIN a : Matching(m, x) = {} \/ remaining(x) # {}} |-> remaining(k)]

Changed(m, a) == IF m.op = "add" THEN Added(m, a) ELSE Removed(m, a)

TestCaseFetched(m) ==
    LET a == m.doc.attributes IN
    /\ m.op \in {"add", "remove"} /\ m.at = "done"
    /\ IF m.op = "add" /\ DOMAIN a # {} /\ Throws(m, a)
         THEN net' = net \ {m} /\ message' = "failed"
         ELSE /\ net' = IF Changed(m, a) = a THEN net \ {m}
                        ELSE (net \ {m}) \cup {[m EXCEPT !.op = "put", !.at = "sent",
                                                         !.doc.attributes = Changed(m, a)]}
              /\ UNCHANGED message
    /\ UNCHANGED <<store, bounds, page, pledge>>

Answered(m) ==
    /\ m.op \in {"put", "lock", "unlock"} /\ m.at = "done"
    /\ net' = net \ {m}
    /\ message' = IF m.op = "put" THEN message ELSE "done"
    /\ UNCHANGED <<store, bounds, page, pledge>>

(* The message of the button gives way to the one of what failed.           *)
Failed_silent(m) == m.at = "failed" /\ net' = net \ {m} /\ UNCHANGED <<store, bounds, page, message, pledge>>  \* slip
Failed(m) ==
    /\ m.at = "failed"
    /\ net' = net \ {m}
    /\ message' = "failed"
    /\ UNCHANGED <<store, bounds, page, pledge>>

-----------------------------------------------------------------------------
User ==
    \/ \E i \in DOMAIN form :
          \/ \E k \in Keys \cup {"broken"} : ChangeFilterAttributeId(i, k)
          \/ \E v \in SUBSET Values : ChangeFilterAttributeValues(i, v)
          \/ RemoveFilter(i)
    \/ \E t \in Cases : ProcessElementChecked(t)
    \/ \E op \in {"add", "remove"} : HandleBulk(op)
    \/ \E op \in {"lock", "unlock"} : HandleLockAllTestCases(op)

Next ==
    \/ \E k \in Keys, v \in SUBSET Values : Mount(k, v) \/ MountWithSuite(k, v)
    \/ User
    \/ \E m \in net :
          \/ ServeGet(m) \/ ServePut(m) \/ Lose(m)
          \/ \E t \in Cases : ServeLock(m, t)
          \/ SessionAnswered(m) \/ TestCaseFetched(m) \/ Answered(m) \/ Failed(m)
    \/ \E t \in Cases, k \in Keys, v \in SUBSET Values : SaveElsewhere(t, k, v)

(* The page when another is mounted.                                       *)
Idle == UNCHANGED vars

Spec == Init /\ [][Next]_vars

-----------------------------------------------------------------------------
(* Properties *)

(* When everything has been answered, either a message of a failure has     *)
(* been shown or every test case that was checked has what was to be added, *)
(* and nothing of what was to be removed.                                   *)
BulkDoneOrTold ==
    pledge # None /\ net = {} /\ message # "failed" =>
       \A t \in pledge.cases : \A k \in DOMAIN pledge.values :
          LET a == store[t].attributes
              has == IF k \in DOMAIN a THEN a[k] ELSE {} IN
          IF pledge.op = "add" THEN pledge.values[k] \subseteq has
          ELSE pledge.values[k] \cap has = {}

(* A save that a button caused takes back nothing that was stored meanwhile *)
(* by others or by another button: Add adds, Remove removes, and neither    *)
(* touches the flag.                                                        *)
BulkKeepsTheRest ==
    [][\A m \in net :
          m.op = "put" /\ m.at = "sent" /\ m \notin net' /\ store' # store =>
             LET old == store[m.case]
                 new == store'[m.case]
                 grown == \A k \in DOMAIN old.attributes :
                             k \in DOMAIN new.attributes /\ old.attributes[k] \subseteq new.attributes[k]
                 shrunk == \A k \in DOMAIN new.attributes :
                             k \in DOMAIN old.attributes /\ new.attributes[k] \subseteq old.attributes[k]
             IN new.locked = old.locked /\ (IF m.button = "add" THEN grown ELSE shrunk)]_vars
=============================================================================
