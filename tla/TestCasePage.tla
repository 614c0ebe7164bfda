---------------------------- MODULE TestCasePage ----------------------------
(***************************************************************************)
(* The page of a test case in the browser, TestCase.js with Attachments.js *)
(* and ConfirmButton.js: a copy of the stored test case that is edited in  *)
(* place, sent whole, and replaced by whatever answer arrives next.        *)
(*                                                                         *)
(* The service is what EntityStore and TestCaseCare show it to be: a       *)
(* compare-and-set on the version of the test case that refuses whoever    *)
(* may not update it.  Requests and their answers travel on their own, in  *)
(* any order.  Left out: project attributes (names and offered values),    *)
(* what a deletion does in the service (EntityStore), and the mounting by  *)
(* the page of a launch, which passes a copy of the test case read only.   *)
(***************************************************************************)
EXTENDS Integers, Sequences, FiniteSets, SequencesExt, Functions

CONSTANTS Cases,        \* test cases of the project
          Texts,        \* fields edited as one text: name, description, ...
          Wordings,     \* what a text or a step may say
          Blank,        \* what a step says that has been added and not written
          Keys,         \* attributes a test case may have
          NoKey,        \* the attribute added and not named yet: key null
          Values,       \* values of an attribute
          Files,        \* files that may be attached
          Begin,        \* test case -> its content at the start
          NoCase, Unknown,
          MaxFaults,    \* bound: versions others save and requests that get lost
          MaxEvents,    \* bound: events of the user on the page
          MaxInFlight   \* bound: requests under way

VARIABLES
    history,  \* test case -> the contents it has had, version by version
    faults,   \* those so far (bound)
    net,      \* requests under way, with their answers
    events,   \* events so far (bound)
    role,     \* role of the user who is logged in
    session,  \* state.session: that role once it has been fetched
    chosen,   \* the test case the address or the parent page names
    doc,      \* state.testcase
    original, \* content of state.originalTestcase
    forms,    \* forms of texts and steps that are toggled open
    inEdit,   \* state.attributesInEdit
    unwritten,\* steps rendered as the form of a blank step
    readonly, loading, failed,  \* state.readonly, loading, errorMessage # ""
    toRemove, \* attachmentToRemove
    asking,   \* the removal of an attachment waits for confirmation
    left,     \* the browser has gone to another address
    touched   \* history: fields changed on the page since doc was received

server == <<history, faults, role>>
dialog == <<toRemove, asking>>
edit == <<doc, original, forms, inEdit, unwritten, touched>>
flags == <<session, chosen, readonly, loading, failed>>
vars == <<server, net, events, flags, edit, dialog, left>>

Fields == Texts \cup {"broken", "locked", "attributes", "steps", "attachments"}

(* Unknown: an attribute left undefined, rendered without values. *)
Attributes == UNION {[D -> (SUBSET Values) \cup {Unknown}] : D \in SUBSET (Keys \cup {NoKey})}

InField(f, v) ==
    CASE f \in Texts -> v \in Wordings \cup {Blank}
      [] f \in {"broken", "locked"} -> v \in BOOLEAN
      [] f = "attributes" -> v \in Attributes
      [] f = "steps" -> v \in Seq(Wordings \cup {Blank})
      [] f = "attachments" -> v \subseteq Files

IsContent(c) == DOMAIN c = Fields /\ \A f \in Fields : InField(f, c[f])

NoContent == [f \in Fields |->
    IF f \in Texts THEN Blank
    ELSE IF f \in {"broken", "locked"} THEN FALSE
    ELSE IF f \in {"steps", "attributes"} THEN <<>> ELSE {}]

Doc(t, n) == [id |-> t, version |-> n, content |-> history[t][n]]
NoForm == <<>>
NoDoc == [id |-> NoCase, version |-> 0, content |-> NoContent]
Current(t) == Len(history[t])

Sends == {"get", "put", "clone", "lock", "unlock", "delete", "upload", "unfile"}

TypeOK ==
    /\ DOMAIN history = Cases
    /\ \A t \in Cases : \A n \in 1 .. Current(t) : IsContent(history[t][n])
    /\ \A m \in net :
          /\ m.no \in 1 .. MaxInFlight /\ m.kind \in Sends
          /\ m.case \in Cases \cup {NoCase} /\ m.at \in {"sent", "done", "failed"}
          /\ m.changed \subseteq Fields
          /\ IsContent(m.doc.content)
    /\ session \in {Unknown, role}
    /\ chosen \in Cases \cup {NoCase}
    /\ doc.id \in Cases \cup {NoCase} /\ IsContent(doc.content)
    /\ forms \subseteq (Texts \X {0}) \cup ({"steps"} \X Nat)
    /\ inEdit \subseteq Keys
    /\ unwritten \subseteq Nat
    /\ touched \subseteq Fields
    /\ \A b \in {readonly, loading, failed, asking, left} : b \in BOOLEAN
    /\ toRemove \in Files \cup {Unknown}

(* The service stores test cases whole, without undefined attributes; a     *)
(* request may always be under way.                                         *)
ASSUME TestCasePageAssumption ==
    /\ NoCase \notin Cases /\ MaxInFlight \in Nat \ {0}
    /\ Texts \cap {"broken", "locked", "attributes", "steps", "attachments"} = {}
    /\ \A t \in Cases :
          /\ Begin[t] = [f \in Fields |-> Begin[t][f]]
          /\ IsContent(Begin[t])
          /\ LET a == Begin[t]["attributes"] IN
             a = Restrict(a, {k \in DOMAIN a : a[k] # Unknown})

(* The page before it is mounted: constructor. *)
Init ==
    /\ history = [t \in Cases |-> <<Begin[t]>>]
    /\ faults = 0
    /\ net = {}
    /\ events = 0
    /\ role = Unknown
    /\ session = Unknown
    /\ chosen = NoCase
    /\ doc = NoDoc
    /\ original = NoContent
    /\ forms = {} /\ inEdit = {} /\ unwritten = {}
    /\ readonly = FALSE /\ loading = TRUE /\ failed = FALSE
    /\ toRemove = Unknown /\ asking = FALSE
    /\ left = FALSE
    /\ touched = {}

-----------------------------------------------------------------------------
(* backend.js: a request and what becomes of it *)

Room == Cardinality(net) < MaxInFlight
Number(n, kind) == CHOOSE i \in 1 .. MaxInFlight :
                      \A j \in 1 .. i : (j < i) <=> \E m \in n : m.kind = kind /\ m.no = j

(* about: the form that the answer toggles, or the file it is about;        *)
(* changed is history: what the user had changed in what is sent.           *)
Request(kind, t, d, about, changed) ==
    [no |-> Number(net, kind), kind |-> kind, case |-> t, doc |-> d,
     about |-> about, changed |-> changed, at |-> "sent"]

Put(d, about, changed) ==
    /\ Room
    /\ net' = net \cup {Request("put", d.id, d, about, changed)}

Send(kind, t, about) ==
    /\ Room
    /\ net' = net \cup {Request(kind, t, NoDoc, about, {})}

Forget(m) == net' = net \ {m}

MayUpdate(t) ==
    role = "ADMIN" \/ (role = "TESTDEVELOPER" /\ ~history[t][Current(t)]["locked"])

Accepted_stale(m) == m.case \in Cases /\ MayUpdate(m.case)  \* slip: no version compared
Accepted(m) ==
    /\ m.case \in Cases
    /\ MayUpdate(m.case)
    /\ m.kind = "put" => m.doc.version = Current(m.case)

(* The content that the request makes of the stored one. *)
Made(m) ==
    LET now == history[m.case][Current(m.case)] IN
    CASE m.kind = "put"    -> m.doc.content
      [] m.kind = "lock"   -> [now EXCEPT !["locked"] = TRUE]
      [] m.kind = "unlock" -> [now EXCEPT !["locked"] = FALSE]
      [] m.kind = "upload" -> [now EXCEPT !["attachments"] = @ \cup {m.about}]
      [] m.kind = "unfile" -> [now EXCEPT !["attachments"] = @ \ {m.about}]

Writes == {"put", "lock", "unlock", "upload", "unfile"}

Reply(m, outcome, d) ==
    net' = (net \ {m}) \cup {[m EXCEPT !.at = outcome, !.doc = d]}

ServeGet(m) ==
    /\ m.kind \in {"get", "clone", "delete"}
    /\ Reply(m, "done", Doc(m.case, Current(m.case)))
    /\ UNCHANGED history

ServeWrite(m) ==
    /\ m.kind \in Writes
    /\ Accepted(m)
    /\ history' = [history EXCEPT ![m.case] = Append(@, Made(m))]
    /\ Reply(m, "done", [id |-> m.case, version |-> Current(m.case) + 1,
                         content |-> Made(m)])

(* To backend.delete an answer is an answer, whatever its status.           *)
Refuse(m) ==
    /\ m.kind \in Writes
    /\ ~Accepted(m)
    /\ Reply(m, IF m.kind = "unfile" THEN "done" ELSE "failed", m.doc)
    /\ UNCHANGED history

Serve(m) ==
    /\ m.at = "sent"
    /\ ServeGet(m) \/ ServeWrite(m) \/ Refuse(m)
    /\ UNCHANGED <<faults, role, events, flags, edit, dialog, left>>

(* The connection breaks, before the request is handled or after. *)
Lose(m) ==
    /\ m.at \in {"sent", "done"}
    /\ faults < MaxFaults
    /\ faults' = faults + 1
    /\ Reply(m, "failed", m.doc)
    /\ UNCHANGED <<history, role, events, flags, edit, dialog, left>>

(* Another user saves the test case. *)
SaveElsewhere(t, f, v) ==
    /\ faults < MaxFaults
    /\ faults' = faults + 1
    /\ v # history[t][Current(t)][f]
    /\ history' = [history EXCEPT ![t] = Append(@, [@[Len(@)] EXCEPT ![f] = v])]
    /\ UNCHANGED <<role, net, events, flags, edit, dialog, left>>

-----------------------------------------------------------------------------
(* Mounting, the session and the test case *)

Event == events < MaxEvents /\ events' = events + 1 /\ ~left
Quiet == UNCHANGED <<server, events>>

Mounted == chosen # NoCase

(* componentDidMount with a test case in the address or from the parent;    *)
(* the user has logged in as r.                                            *)
Mount(t, r) ==
    /\ ~Mounted
    /\ role' = r
    /\ chosen' = t
    /\ Send("get", t, Unknown)
    /\ UNCHANGED <<history, faults, events, session, readonly, loading,
                   failed, edit, dialog, left>>

SessionAnswered ==
    /\ Mounted /\ ~left
    /\ session = Unknown
    /\ session' = role
    /\ UNCHANGED <<net, chosen, readonly, loading, failed, edit, dialog, left>>
    /\ Quiet

(* The parent page names a test case, or renders again with the same one. *)
ReceiveProps(t) ==
    /\ Event /\ Mounted
    /\ readonly' = FALSE
    /\ chosen' = t
    /\ Send("get", t, Unknown)
    /\ UNCHANGED <<server, session, loading, failed, edit, dialog, left>>

BlankSteps(d) == {i \in DOMAIN d.content["steps"] : d.content["steps"][i] = Blank}

(* setState: what is rendered follows the state. *)
Render == unwritten' = BlankSteps(doc')
RenderAgain == doc' = doc /\ Render

(* The answer replaces the test case and what cancelling restores. *)
Receive_part(d) ==  \* slip: not what cancelling restores
    /\ doc' = d
    /\ inEdit' = {}
    /\ touched' = {}
    /\ Render
    /\ UNCHANGED original
Receive(d) ==
    /\ doc' = d
    /\ original' = d.content
    /\ inEdit' = {}
    /\ touched' = {}
    /\ Render

Readonly(d) ==
    \/ readonly
    \/ session = "TESTER"
    \/ session = "TESTDEVELOPER" /\ d.content["locked"]

TestCaseAnswered(m) ==
    /\ m.kind = "get" /\ m.at = "done" /\ ~left
    /\ Forget(m)
    /\ Receive(m.doc)
    /\ readonly' = Readonly(m.doc)
    /\ loading' = FALSE
    /\ UNCHANGED <<session, chosen, failed, forms, dialog, left>>
    /\ Quiet

TestCaseFailed(m) ==
    /\ m.kind = "get" /\ m.at = "failed" /\ ~left
    /\ Forget(m)
    /\ failed' = TRUE
    /\ loading' = FALSE
    /\ RenderAgain
    /\ UNCHANGED <<session, chosen, readonly, original, forms, inEdit,
                   touched, dialog, left>>
    /\ Quiet

-----------------------------------------------------------------------------
(* handleSubmit and its answer *)

(* toggleEdit: the jQuery object's offsetParent is never null, so the       *)
(* content to restore is taken at every toggle, opening or closing.  Index  *)
(* zero counts as no index: the whole array is taken then.                 *)
Form(f) == <<f, 0>>
StepFormOf(i) == <<"steps", i>>
Toggled(form) == (forms \ {form}) \cup ({form} \ forms)

Longer(s, i) == [j \in 1 .. Max({Len(s), i}) |-> IF j \in DOMAIN s THEN s[j] ELSE Blank]

Taken(form, c) ==
    LET f == form[1]
        i == form[2] IN
    IF i \in {0, 1} THEN [original EXCEPT ![f] = c[f]]
    ELSE [original EXCEPT ![f] = [Longer(@, i) EXCEPT ![i] = c[f][i]]]

Toggle(form, c) == forms' = Toggled(form) /\ original' = Taken(form, c)

(* The test case is sent as it is on the page, all its fields; JSON has no   *)
(* undefined attributes.                                                    *)
Sent(d) == [d EXCEPT !.content["attributes"] =
               Restrict(@, {k \in DOMAIN @ : @[k] # Unknown})]

Submit(d, about, changed) == Put(Sent(d), about, changed)

(* The answer replaces the test case, edits made since it was sent and all, *)
(* and toggles the form it was sent from.                                   *)
PutAnswered(m) ==
    /\ m.kind = "put" /\ m.at = "done" /\ ~left
    /\ Forget(m)
    /\ doc' = m.doc
    /\ inEdit' = {}
    /\ touched' = {}
    /\ Render
    /\ original' = m.doc.content
    /\ forms' = IF m.about = NoForm THEN forms ELSE Toggled(m.about)
    /\ UNCHANGED <<flags, dialog, left>>
    /\ Quiet

(* The edit stays on the page, saved or not, with a message. *)
SubmitFailed(m) ==
    /\ m.kind = "put" /\ m.at = "failed" /\ ~left
    /\ Forget(m)
    /\ failed' = TRUE
    /\ RenderAgain
    /\ UNCHANGED <<session, chosen, readonly, loading, original, forms,
                   inEdit, touched, dialog, left>>
    /\ Quiet

-----------------------------------------------------------------------------
(* render: the controls offered *)

IsAdmin == session = "ADMIN"
Editable == Mounted /\ ~readonly

(* The pencil of the name is in the part that its form hides; those of the  *)
(* description and of the preconditions are in the header of their card.    *)
PencilOffered(f) == Editable /\ (f = "name" => Form(f) \notin forms)
FormOffered(form) == Editable /\ form \in forms

(* A step with nothing in it is rendered as a form, whether the page is     *)
(* read only or not.                                                        *)
Written(i) == i \in DOMAIN doc.content["steps"] /\ i \notin unwritten
StepForm(i) == Written(i) /\ FormOffered(StepFormOf(i))
BlankForm(i) == Mounted /\ i \in unwritten /\ i \in DOMAIN doc.content["steps"]
StepLinks(i) == Written(i) /\ Editable /\ StepFormOf(i) \notin forms

Named(k) == k \in DOMAIN doc.content["attributes"] \ {NoKey}
AttributeLinks(k) == Named(k) /\ Editable /\ k \notin inEdit
AttributeForm(k) == Named(k) /\ Editable /\ k \in inEdit
KeyForm == Mounted /\ NoKey \in DOMAIN doc.content["attributes"]

LockOffered == Editable /\ IsAdmin /\ ~doc.content["locked"]
UnlockOffered == Editable /\ IsAdmin /\ doc.content["locked"]
RemoveOffered == Editable /\ IsAdmin

Received == doc.id # NoCase

-----------------------------------------------------------------------------
(* Texts: name, description, preconditions *)

Edited(f, v) == [doc EXCEPT !.content[f] = v]

UserKeeps == UNCHANGED <<server, flags, dialog, left>>

ToggleEdit(f) ==
    /\ Event
    /\ PencilOffered(f)
    /\ Toggle(Form(f), doc.content)
    /\ UNCHANGED <<net, doc, inEdit, unwritten, touched>>
    /\ UserKeeps

HandleChange(f, v) ==
    /\ Event
    /\ FormOffered(Form(f))
    /\ v # doc.content[f]
    /\ doc' = Edited(f, v)
    /\ touched' = touched \cup {f}
    /\ IF f = "name" THEN Render ELSE UNCHANGED unwritten
    /\ UNCHANGED <<net, original, forms, inEdit>>
    /\ UserKeeps

CancelEdit(f) ==
    /\ Event
    /\ FormOffered(Form(f))
    /\ doc' = Edited(f, original[f])
    /\ Toggle(Form(f), doc'.content)
    /\ Render
    /\ UNCHANGED <<net, inEdit, touched>>
    /\ UserKeeps

HandleSubmit(f) ==
    /\ Event
    /\ FormOffered(Form(f))
    /\ Submit(doc, Form(f), touched)
    /\ UNCHANGED edit
    /\ UserKeeps

OnBrokenToggle ==
    /\ Event
    /\ Editable
    /\ doc' = Edited("broken", ~doc.content["broken"])
    /\ touched' = touched \cup {"broken"}
    /\ Submit(doc', NoForm, touched')
    /\ UNCHANGED <<original, forms, inEdit, unwritten>>
    /\ UserKeeps

-----------------------------------------------------------------------------
(* Steps *)

Steps == doc.content["steps"]
PutSteps(s) == doc' = Edited("steps", s) /\ touched' = touched \cup {"steps"}

AddStep ==
    /\ Event
    /\ Editable
    /\ PutSteps(Append(Steps, Blank))
    /\ Render
    /\ UNCHANGED <<net, original, forms, inEdit>>
    /\ UserKeeps

ToggleStep(i) ==
    /\ Event
    /\ StepLinks(i)
    /\ Toggle(StepFormOf(i), doc.content)
    /\ UNCHANGED <<net, doc, inEdit, unwritten, touched>>
    /\ UserKeeps

(* handleStepActionChange, handleStepExpectationChange: nothing is rendered. *)
StepChange(i, v) ==
    /\ Event
    /\ StepForm(i) \/ BlankForm(i)
    /\ v # Steps[i]
    /\ PutSteps([Steps EXCEPT ![i] = v])
    /\ UNCHANGED <<net, original, forms, inEdit, unwritten>>
    /\ UserKeeps

CancelStep(i) ==
    /\ Event
    /\ StepForm(i)
    /\ doc' = IF i = 1 THEN Edited("steps", original["steps"])
              ELSE Edited("steps", [Steps EXCEPT ![i] = Longer(original["steps"], i)[i]])
    /\ Toggle(StepFormOf(i), doc'.content)
    /\ Render
    /\ UNCHANGED <<net, inEdit, touched>>
    /\ UserKeeps

SubmitStep(i) ==
    /\ Event
    /\ \/ StepForm(i) /\ Submit(doc, StepFormOf(i), touched)
       \/ BlankForm(i) /\ Submit(doc, NoForm, touched)
    /\ UNCHANGED edit
    /\ UserKeeps

(* Remove of a step, confirmed, and Cancel of a blank one; it is removed    *)
(* from the page first and stays removed when the save fails.               *)
RemoveStep(i) ==
    /\ Event
    /\ StepLinks(i) \/ BlankForm(i)
    /\ PutSteps(RemoveAt(Steps, i))
    /\ Render
    /\ Submit(doc', NoForm, touched')
    /\ UNCHANGED <<original, forms, inEdit>>
    /\ UserKeeps

-----------------------------------------------------------------------------
(* Attributes *)

Attrs == doc.content["attributes"]
PutAttrs(a) == doc' = Edited("attributes", a) /\ touched' = touched \cup {"attributes"}
Without(a, k) == Restrict(a, DOMAIN a \ {k})
With(a, k, v) == [x \in DOMAIN a \cup {k} |-> IF x = k THEN v ELSE a[x]]
ValueOf(a, k) == IF k \in DOMAIN a THEN a[k] ELSE Unknown

AddAttribute ==
    /\ Event
    /\ RemoveOffered
    /\ PutAttrs(With(Attrs, NoKey, {}))
    /\ Render
    /\ UNCHANGED <<net, original, forms, inEdit>>
    /\ UserKeeps

(* A key that the test case does not have yet is chosen, or a new one typed. *)
EditAttributeKey(k) ==
    /\ Event
    /\ KeyForm /\ k \notin DOMAIN Attrs
    /\ PutAttrs(Without(With(Attrs, k, Attrs[NoKey]), NoKey))
    /\ inEdit' = inEdit \cup {k}
    /\ Render
    /\ UNCHANGED <<net, original, forms>>
    /\ UserKeeps

CancelEditAttributeKey ==
    /\ Event
    /\ KeyForm
    /\ PutAttrs(Without(Attrs, NoKey))
    /\ Render
    /\ UNCHANGED <<net, original, forms, inEdit>>
    /\ UserKeeps

ToggleEditAttribute(k) ==
    /\ Event
    /\ AttributeLinks(k)
    /\ inEdit' = inEdit \cup {k}
    /\ RenderAgain
    /\ UNCHANGED <<net, original, forms, touched>>
    /\ UserKeeps

(* Every change of the values takes the previous ones as what Cancel will   *)
(* restore.                                                                 *)
EditAttributeValues(k, v) ==
    /\ Event
    /\ AttributeForm(k)
    /\ v # Attrs[k]
    /\ original' = [original EXCEPT !["attributes"] = With(@, k, Attrs[k])]
    /\ PutAttrs(With(Attrs, k, v))
    /\ Render
    /\ UNCHANGED <<net, forms, inEdit>>
    /\ UserKeeps

CancelEditAttributeValues(k) ==
    LET v == ValueOf(original["attributes"], k) IN
    /\ Event
    /\ AttributeForm(k)
    /\ doc' = Edited("attributes", With(Attrs, k, v))
    /\ original' = [original EXCEPT !["attributes"] = With(@, k, v)]
    /\ inEdit' = inEdit \ {k}
    /\ Render
    /\ UNCHANGED <<net, forms, touched>>
    /\ UserKeeps

SubmitAttribute(k) ==
    /\ Event
    /\ AttributeForm(k)
    /\ Submit(doc, NoForm, touched)
    /\ UNCHANGED edit
    /\ UserKeeps

RemoveAttribute(k) ==
    /\ Event
    /\ AttributeLinks(k)
    /\ PutAttrs(Without(Attrs, k))
    /\ inEdit' = inEdit \ {k}
    /\ Submit(doc', NoForm, touched')
    /\ UNCHANGED <<original, forms, unwritten>>
    /\ UserKeeps

-----------------------------------------------------------------------------
(* Calls after which the browser goes to another address *)

Calls == {"clone", "lock", "unlock", "delete"}

Offered(kind) ==
    CASE kind = "clone"  -> Editable
      [] kind = "lock"   -> LockOffered
      [] kind = "unlock" -> UnlockOffered
      [] kind = "delete" -> RemoveOffered

Call(kind) ==
    /\ Event
    /\ Received /\ Offered(kind)
    /\ Send(kind, doc.id, Unknown)
    /\ UNCHANGED edit
    /\ UserKeeps

(* For the DELETE this is so also when it was refused. *)
CallAnswered(m) ==
    /\ m.kind \in Calls /\ m.at = "done" /\ ~left
    /\ Forget(m)
    /\ left' = TRUE
    /\ UNCHANGED <<flags, edit, dialog>>
    /\ Quiet

CallFailed(m) ==
    /\ m.kind \in Calls /\ m.at = "failed" /\ ~left
    /\ Forget(m)
    /\ failed' = TRUE
    /\ loading' = IF m.kind = "clone" THEN FALSE ELSE loading
    /\ RenderAgain
    /\ UNCHANGED <<session, chosen, readonly, original, forms, inEdit,
                   touched, dialog, left>>
    /\ Quiet

-----------------------------------------------------------------------------
(* Attachments.js: offered whether the page is read only or not *)

Upload(f) ==
    /\ Event
    /\ Received
    /\ f \notin doc.content["attachments"]
    /\ Send("upload", doc.id, f)
    /\ UNCHANGED edit
    /\ UserKeeps

RemoveAttachmentConfirmation(f) ==
    /\ Event
    /\ ~asking
    /\ f \in doc.content["attachments"]
    /\ toRemove' = f
    /\ asking' = TRUE
    /\ UNCHANGED <<server, net, flags, edit, left>>

(* The attachment stays noted: another variable is cleared. *)
CancelRemoveAttachmentConfirmation ==
    /\ Event
    /\ asking
    /\ asking' = FALSE
    /\ UNCHANGED <<server, net, flags, edit, left, toRemove>>

RemoveAttachment ==
    /\ Event
    /\ asking
    /\ Send("unfile", doc.id, toRemove)
    /\ UNCHANGED edit
    /\ UserKeeps

(* onTestcaseUpdated: the test case on the page is fetched again.  For the  *)
(* DELETE also when it was refused; the list is filtered by the id that has *)
(* just been cleared, so nothing goes from it before that answer.           *)
FileAnswered(m) ==
    /\ m.kind \in {"upload", "unfile"} /\ m.at = "done" /\ ~left
    /\ net' = (net \ {m}) \cup {[m EXCEPT !.no = Number(net \ {m}, "get"), !.kind = "get",
                                          !.case = doc.id, !.at = "sent",
                                          !.doc = NoDoc, !.about = Unknown]}
    /\ IF m.kind = "unfile"
         THEN toRemove' = Unknown /\ asking' = FALSE
         ELSE UNCHANGED dialog
    /\ UNCHANGED <<flags, edit, left>>
    /\ Quiet

FileFailed(m) ==
    /\ m.kind \in {"upload", "unfile"} /\ m.at = "failed" /\ ~left
    /\ Forget(m)
    /\ failed' = (failed \/ m.kind = "unfile")
    /\ UNCHANGED <<session, chosen, readonly, loading, edit, dialog, left>>
    /\ Quiet

-----------------------------------------------------------------------------
User ==
    \/ \E t \in Cases : ReceiveProps(t)
    \/ \E f \in Texts : ToggleEdit(f) \/ CancelEdit(f) \/ HandleSubmit(f)
    \/ \E f \in Texts, v \in Wordings : HandleChange(f, v)
    \/ OnBrokenToggle
    \/ AddStep
    \/ \E i \in DOMAIN Steps :
          \/ ToggleStep(i) \/ CancelStep(i) \/ SubmitStep(i) \/ RemoveStep(i)
          \/ \E v \in Wordings : StepChange(i, v)
    \/ AddAttribute \/ CancelEditAttributeKey
    \/ \E k \in Keys :
          \/ EditAttributeKey(k) \/ ToggleEditAttribute(k) \/ RemoveAttribute(k)
          \/ CancelEditAttributeValues(k) \/ SubmitAttribute(k)
          \/ \E v \in SUBSET Values : EditAttributeValues(k, v)
    \/ \E kind \in Calls : Call(kind)
    \/ \E f \in Files : Upload(f) \/ RemoveAttachmentConfirmation(f)
    \/ CancelRemoveAttachmentConfirmation \/ RemoveAttachment

Answer ==
    \/ SessionAnswered
    \/ \E m \in net :
          \/ TestCaseAnswered(m) \/ TestCaseFailed(m)
          \/ PutAnswered(m) \/ SubmitFailed(m)
          \/ CallAnswered(m) \/ CallFailed(m)
          \/ FileAnswered(m) \/ FileFailed(m)

Elsewhere ==
    \E t \in Cases :
       \/ \E f \in Texts, v \in Wordings : SaveElsewhere(t, f, v)
       \/ \E b \in BOOLEAN : SaveElsewhere(t, "locked", b)

Next ==
    \/ \E t \in Cases, r \in {"ADMIN", "TESTDEVELOPER", "TESTER"} : Mount(t, r)
    \/ User
    \/ Answer
    \/ \E m \in net : Serve(m) \/ Lose(m)
    \/ Elsewhere

Spec == Init /\ [][Next]_vars

-----------------------------------------------------------------------------
(* Properties *)

(* The part of the page that the user has not changed is a version of the   *)
(* test case, as the service stored it.                                     *)
ShownAsStored ==
    Received => \A f \in Fields \ touched :
        doc.content[f] = history[doc.id][doc.version][f]

(* A save from this page never takes back what somebody else saved: every   *)
(* field that it changes in the service is one the user changed on the page *)
(* (the page sends the whole test case).                                    *)
NoForeignChangeOverwritten ==
    [][\A m \in net :
          m.kind = "put" /\ m.at = "sent" /\ history' # history /\ m \notin net' =>
             \A f \in Fields \ m.changed :
                history'[m.case][Current(m.case) + 1][f] = history[m.case][Current(m.case)][f]]_vars
=============================================================================
