----------------------------- MODULE AttributesPage -----------------------------
(***************************************************************************)
(* The attributes of a project, Attributes.js with AttributeForm.js: a     *)
(* list, and a modal form that adds, changes or removes one of them.       *)
(*                                                                         *)
(* The page hands the form an object to edit, which may be one of the      *)
(* list: what is typed then changes the list at once, saved or not.  Close *)
(* and every answer leave the form with an object of its own, until the    *)
(* page is rendered again and hands it that of the page.                   *)
(*                                                                         *)
(* The service is a compare-and-set on the version (EntityStore); what it  *)
(* does with the test cases of an attribute is left out.  Names are equal  *)
(* up to their case.                                                       *)
(***************************************************************************)
EXTENDS Integers, Sequences, FiniteSets, SequencesExt, Functions

CONSTANTS Ids,           \* bound: ids the service gives
          Names, Texts,  \* of attributes and of their values
          Begin,         \* the attributes at the start
          None, Blank,   \* null and undefined; the empty text
          MaxValues,     \* bound: values of an attribute
          MaxEvents,     \* bound: events of the user
          MaxFaults, \* bound: changes made by others,
                     \* and requests that get lost
          MaxInFlight    \* bound: requests under way

VARIABLES
    stored,    \* attributes in the service
    net,       \* requests under way, with their answers
    events, elsewhere, losses,  \* bounds
    attributes,\* the list of the page
    toEdit,    \* attributeToEdit of the page, and whether it is one of the list
    edit,      \* the page's edit
    form,      \* the attribute of the form
    same,      \* it is the object of the page
    open,      \* the modal is shown
    admin,     \* the session is that of an administrator
    message,   \* errorMessage of the form
    typed,     \* history: attributes of the list that were typed over
    foreign,   \* history: attributes others have changed since the list was given
    hasty      \* history: the user went on before an answer was there

bounds == <<events, elsewhere, losses>>
page == <<attributes, toEdit, edit>>
shown == <<form, same, open>>
vars == <<stored, net, bounds, page, shown, admin, message, typed, foreign, hasty>>

Types == {"TESTCASE", "LAUNCH"}
Attribute == [id : Ids \cup {None}, version : Nat, name : Names \cup {Blank},
              type : Types \cup {None, Blank}, values : Seq(Texts \cup {Blank})]
New(type) == [id |-> None, version |-> 0, name |-> Blank, type |-> type, values |-> <<>>]
IdsOf(S) == {a.id : a \in S}
Listed == Range(attributes)

TypeOK ==
    /\ stored \subseteq Attribute /\ Cardinality(IdsOf(stored)) = Cardinality(stored)
    /\ attributes \in Seq(Attribute)
    /\ toEdit.doc \in Attribute /\ toEdit.listed \in BOOLEAN
    /\ form \in Attribute
    /\ same => form = toEdit.doc
    /\ toEdit.listed => toEdit.doc \in Listed
    /\ message \in {None, "duplicate", "invalid", "failed"}
    /\ typed \subseteq Ids /\ foreign \subseteq Ids
    /\ \A b \in {edit, same, open, admin, hasty} : b \in BOOLEAN
    /\ \A m \in net :
          /\ m.no \in 1 .. MaxInFlight
          /\ m.kind \in {"list", "session", "post", "delete"}
          /\ m.at \in {"sent", "done", "failed"}
          /\ m.doc \in Attribute /\ m.list \in Seq(Attribute)

Request(kind, doc) == [no |-> 1, kind |-> kind, doc |-> doc, list |-> <<>>, at |-> "sent"]

(* componentDidMount of both: the form is mounted before the page.          *)
Init ==
    /\ stored = Begin
    /\ net = {Request("session", New("TESTCASE")), Request("list", New("TESTCASE"))}
    /\ events = 0 /\ elsewhere = 0 /\ losses = 0
    /\ attributes = <<>>
    /\ toEdit = [doc |-> New("TESTCASE"), listed |-> FALSE]
    /\ edit = FALSE
    /\ form = toEdit.doc /\ same = TRUE /\ open = FALSE
    /\ admin = FALSE /\ message = None
    /\ typed = {} /\ foreign = {} /\ hasty = FALSE

-----------------------------------------------------------------------------
(* Requests and the service *)

Waiting == \E m \in net : m.kind # "session"
Free(kind) == {i \in 1 .. MaxInFlight : \A m \in net : m.kind = kind => m.no # i}
Send(m) ==
    /\ Cardinality(net) < MaxInFlight
    /\ net' = net \cup {[m EXCEPT !.no = CHOOSE i \in Free(m.kind) : \A j \in Free(m.kind) : i <= j]}

Reply(m, answer) == net' = (net \ {m}) \cup {answer}

(* The members of a set, one after the other.                               *)
InOrder(S, Before(_, _)) ==
    {list \in [1 .. Cardinality(S) -> S] :
        \A i, j \in DOMAIN list : i < j => Before(list[i], list[j])}

Accepted(doc) == \E a \in stored : a.id = doc.id /\ a.version = doc.version

(* The list comes in the order of the ids.  POST creates an attribute that  *)
(* has no id and updates one that has.  DELETE is done whatever its status. *)
Serve(m) ==
    /\ m.at = "sent"
    /\ CASE m.kind = "list" ->
              /\ \E list \in InOrder(stored, LAMBDA a, b : a.id < b.id) :
                    Reply(m, [m EXCEPT !.at = "done", !.list = list])
              /\ foreign' = {}
              /\ UNCHANGED stored
         [] m.kind = "post" /\ m.doc.id = None ->
              /\ \E id \in Ids \ IdsOf(stored) :
                    /\ \A i \in Ids \ IdsOf(stored) : id <= i
                    /\ Reply(m, [m EXCEPT !.at = "done", !.doc.id = id, !.doc.version = 1])
                    /\ stored' = stored \cup {[m.doc EXCEPT !.id = id, !.version = 1]}
              /\ UNCHANGED foreign
         [] m.kind = "post" /\ m.doc.id # None ->
              /\ IF Accepted(m.doc)
                   THEN LET saved == [m.doc EXCEPT !.version = @ + 1] IN
                        /\ stored' = {a \in stored : a.id # saved.id} \cup {saved}
                        /\ Reply(m, [m EXCEPT !.at = "done", !.doc = saved])
                   ELSE Reply(m, [m EXCEPT !.at = "failed"]) /\ UNCHANGED stored
              /\ UNCHANGED foreign
         [] m.kind = "delete" ->
              /\ stored' = {a \in stored : a.id # m.doc.id}
              /\ Reply(m, [m EXCEPT !.at = "done"])
              /\ UNCHANGED foreign
         [] m.kind = "session" ->
              /\ Reply(m, [m EXCEPT !.at = "done"])
              /\ UNCHANGED <<stored, foreign>>
    /\ UNCHANGED <<bounds, page, shown, admin, message, typed, hasty>>

Lose(m) ==
    /\ m.at \in {"sent", "done"}
    /\ losses + elsewhere < MaxFaults
    /\ losses' = losses + 1
    /\ Reply(m, [m EXCEPT !.at = "failed"])
    /\ UNCHANGED <<stored, events, elsewhere, page, shown, admin, message, typed, foreign, hasty>>

ChangeElsewhere(a, b) ==
    /\ losses + elsewhere < MaxFaults
    /\ elsewhere' = elsewhere + 1
    /\ stored' = (stored \ {a}) \cup b
    /\ foreign' = foreign \cup {a.id}
    /\ UNCHANGED <<net, events, losses, page, shown, admin, message, typed, hasty>>

-----------------------------------------------------------------------------
(* Events *)

Event ==
    /\ events < MaxEvents /\ events' = events + 1
    /\ hasty' = (hasty \/ Waiting)
    /\ UNCHANGED <<stored, elsewhere, losses, admin, foreign>>

(* Rendering the page hands the form the page's object.                     *)
Rendered == form' = toEdit'.doc /\ same' = TRUE

Add ==
    /\ Event
    /\ ~open /\ open' = TRUE
    /\ UNCHANGED <<net, page, form, same, message, typed>>

(* edit is set and never reset.                                             *)
EditAttribute(i) ==
    /\ Event
    /\ ~open /\ open' = TRUE
    /\ toEdit' = [doc |-> attributes[i], listed |-> TRUE]
    /\ edit' = TRUE
    /\ UNCHANGED <<net, attributes, message, typed>>
    /\ Rendered

(* The backdrop or Escape closes the modal, and the form is not told.       *)
Dismiss ==
    /\ Event
    /\ open /\ open' = FALSE
    /\ UNCHANGED <<net, page, form, same, message, typed>>

HandleClose ==
    /\ Event
    /\ open /\ open' = FALSE
    /\ form' = New(Blank) /\ same' = FALSE
    /\ message' = None
    /\ UNCHANGED <<net, page, typed>>

(* A change of the form: of the page's object if it is that one, and of the *)
(* list if that is one of the list.                                         *)
Type(doc) ==
    /\ Event
    /\ open /\ doc # form
    /\ form' = doc
    /\ IF same /\ toEdit.listed
         THEN /\ attributes' = [i \in DOMAIN attributes |->
                                  IF attributes[i].id = doc.id THEN doc ELSE attributes[i]]
              /\ typed' = typed \cup {doc.id}
         ELSE UNCHANGED <<attributes, typed>>
    /\ toEdit' = IF same THEN [toEdit EXCEPT !.doc = doc] ELSE toEdit
    /\ UNCHANGED <<net, edit, same, open, message>>

(* Typing the name makes it an attribute of test cases.                     *)
HandleChange(n) == Type([form EXCEPT !.name = n, !.type = "TESTCASE"])

HandleAttributeTypeChange(t) == admin /\ Type([form EXCEPT !.type = t])

AddValue == Len(form.values) < MaxValues /\ Type([form EXCEPT !.values = Append(@, Blank)])
HandleValueChange(i, v) == Type([form EXCEPT !.values[i] = v])
RemoveValue(i) == Type([form EXCEPT !.values = RemoveAt(@, i)])

(* A name that is taken is refused, unless something has been edited.       *)
HandleSubmit ==
    /\ Event
    /\ open
    /\ CASE ~edit /\ (\E a \in Listed : a.name = form.name) -> message' = "duplicate" /\ UNCHANGED net
         [] (edit \/ \A a \in Listed : a.name # form.name) /\ form.name = Blank ->
              message' = "invalid" /\ UNCHANGED net
         [] OTHER -> Send(Request("post", form)) /\ UNCHANGED message
    /\ UNCHANGED <<page, shown, typed>>

HandleRemove ==
    /\ Event
    /\ open /\ form.id # None
    /\ Send(Request("delete", form))
    /\ UNCHANGED <<page, shown, message, typed>>

-----------------------------------------------------------------------------
(* Answers *)

Answer(m, kind) ==
    /\ m.kind = kind /\ m.at = "done"
    /\ net' = net \ {m}
    /\ UNCHANGED <<stored, bounds, message, foreign, hasty>>

ListAnswered(m) ==
    /\ Answer(m, "list")
    /\ attributes' = m.list
    /\ toEdit' = [toEdit EXCEPT !.listed = FALSE]
    /\ typed' = {}
    /\ UNCHANGED <<edit, open, admin>>
    /\ Rendered

SessionAnswered(m, b) ==
    /\ Answer(m, "session")
    /\ admin' = b
    /\ UNCHANGED <<page, shown, typed>>

(* onAttributeAdded: put in the place of the one with its id, or at the end.*)
WithSaved_pushed(list, a) == Append(list, a)  \* slip: not in its place
WithSaved(list, a) ==
    IF \E i \in DOMAIN list : list[i].id = a.id
      THEN [i \in DOMAIN list |-> IF list[i].id = a.id THEN a ELSE list[i]]
      ELSE Append(list, a)

(* The page has a new object, the form one of its own, and the modal goes,  *)
(* whatever is in it by now.                                                *)
Saved(m) ==
    /\ Answer(m, "post")
    /\ attributes' = WithSaved(attributes, m.doc)
    /\ toEdit' = [doc |-> New(None), listed |-> FALSE]
    /\ typed' = typed \ {m.doc.id}
    /\ form' = New(Blank) /\ same' = FALSE /\ open' = FALSE
    /\ UNCHANGED <<edit, admin>>

(* Removes from the list what the form shows when the answer is there.      *)
Removed(m) ==
    /\ Answer(m, "delete")
    /\ \E kept \in InOrder({i \in DOMAIN attributes : attributes[i].id # form.id},
                          LAMBDA i, j : i < j) :
          attributes' = [i \in DOMAIN kept |-> attributes[kept[i]]]
    /\ toEdit' = [toEdit EXCEPT !.listed = @ /\ toEdit.doc.id # form.id]
    /\ form' = New(Blank) /\ same' = FALSE /\ open' = FALSE
    /\ UNCHANGED <<edit, admin, typed>>

Failed(m) ==
    /\ m.at = "failed"
    /\ net' = net \ {m}
    /\ message' = IF m.kind \in {"post", "delete"} THEN "failed" ELSE message
    /\ UNCHANGED <<stored, bounds, page, shown, admin, typed, foreign, hasty>>

-----------------------------------------------------------------------------
User ==
    \/ Add \/ Dismiss \/ HandleClose
    \/ \E i \in DOMAIN attributes : EditAttribute(i)
    \/ \E n \in Names \cup {Blank} : HandleChange(n)
    \/ \E t \in Types : HandleAttributeTypeChange(t)
    \/ AddValue
    \/ \E i \in DOMAIN form.values : RemoveValue(i) \/ \E v \in Texts : HandleValueChange(i, v)
    \/ HandleSubmit \/ HandleRemove

Next ==
    \/ User
    \/ \E m \in net :
          \/ Serve(m) \/ Lose(m)
          \/ ListAnswered(m) \/ Saved(m) \/ Removed(m) \/ Failed(m)
          \/ \E b \in BOOLEAN : SessionAnswered(m, b)
    \/ \E a \in stored :
          \/ ChangeElsewhere(a, {})
          \/ \E n \in Names \ {a.name} :
                ChangeElsewhere(a, {[a EXCEPT !.name = n, !.version = @ + 1]})

(* The page when another is mounted.                                       *)
Idle == UNCHANGED vars

Spec == Init /\ [][Next]_vars

-----------------------------------------------------------------------------
(* Properties *)

(* The list is patched by hand after every save and removal.  For a user    *)
(* who waits for each answer, and with none of them lost, it lists every    *)
(* attribute once, and each as it is stored: except the attributes others   *)
(* have changed, and those whose typed changes were never saved.            *)
AttributesAsStored ==
    ~hasty /\ losses = 0 /\ ~Waiting =>
        LET Known(S) == {a \in S : a.id \notin foreign} IN
        /\ IdsOf(Known(Listed)) = IdsOf(Known(stored))
        /\ Len(attributes) = Cardinality(Listed) /\ Cardinality(IdsOf(Listed)) = Len(attributes)
        /\ \A a \in Known(Listed) : a.id \in typed \/ a \in stored
=============================================================================
