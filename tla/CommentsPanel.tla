---------------------------- MODULE CommentsPanel ----------------------------
(***************************************************************************)
(* The comments under a test case, Comments.js.  The list is fetched when  *)
(* the panel is given another test case; from then on it is patched with   *)
(* the answers to what the user saves and removes.                         *)
(*                                                                         *)
(* Forms belong to places of the list, not to comments: jQuery shows and   *)
(* hides them by index, and React keeps the nodes of a list without keys   *)
(* by index too.  A comment that is removed is the one the dialog is about *)
(* when the answer comes.  DELETE is done whatever its status (backend.js).*)
(*                                                                         *)
(* The service is a compare-and-set on the version (EntityStore); who may  *)
(* write is left to it.  Names and times of comments are left out.         *)
(***************************************************************************)
EXTENDS Integers, Sequences, FiniteSets, Functions

CONSTANTS Entities,     \* test cases
          Ids,          \* ids of comments: numbers, given one after the other
          Begin,        \* test case -> its comments at the start, newest first, with
                        \* the first of the ids
          Texts, Blank, \* what may be typed; the empty text
          None,
          MaxEvents,    \* bound: events of the user
          MaxFaults, \* bound: comments written or removed by others,
                     \* and requests that get lost
          MaxInFlight   \* bound: requests under way

VARIABLES
    stored,    \* test case -> its comments, newest first
    lastId,    \* the last id given
    net,       \* requests under way, with their answers
    events, elsewhere, losses,  \* bounds
    session,   \* state.session: "none" before it is known
    entity,    \* this.entityId
    comments,  \* state.comments
    draft,     \* state.commentToEdit.text
    forms,     \* places whose form is shown
    toRemove,  \* this.commentToRemove
    asking,    \* the dialog of a removal is shown
    badge,     \* the number at the tab: commentsCount of TestCase
    message,   \* errorMessage
    crashed,   \* a render threw: "Something went wrong" in place of the page
    steady,    \* history: no two things have overlapped since the list came
    typed      \* history: comments whose text has been typed over

bounds == <<events, elsewhere, losses>>
page == <<entity, comments, draft, forms, badge>>
dialog == <<toRemove, asking>>
history == <<steady, typed>>
service == <<stored, lastId>>
vars == <<service, net, bounds, session, page, dialog, message, crashed, history>>

Owners == {"me", "other"}
Comment == [id : Ids, version : Nat, text : Texts \cup {Blank}, owner : Owners]
Sent == [id : Ids \cup {0}, version : Nat, text : Texts \cup {Blank}, owner : Owners]
NoComment == [id |-> 0, version |-> 0, text |-> Blank, owner |-> "me"]
Kinds == {"session", "list", "add", "update", "remove"}

TypeOK ==
    /\ \A e \in Entities : stored[e] \in Seq(Comment)
    /\ lastId \in Ids \cup {0}
    /\ \A m \in net :
          /\ m.no \in 1 .. MaxInFlight /\ m.kind \in Kinds
          /\ m.at \in {"sent", "done", "failed"}
          /\ m.comment \in Sent
          /\ m.index \in Nat
          /\ m.answer \in Seq(Comment)
    /\ session \in {"none", "user", "admin"}
    /\ entity \in Entities \cup {None}
    /\ comments \in Seq(Comment \cup {None})
    /\ draft \in Texts \cup {Blank}
    /\ forms \subseteq DOMAIN comments
    /\ toRemove \in Ids \cup {None}
    /\ badge \in Nat
    /\ message \in {None, "failed"}
    /\ typed \subseteq Ids
    /\ \A b \in {asking, crashed, steady} : b \in BOOLEAN

BeginIds == {c.id : c \in UNION {Range(Begin[e]) : e \in Entities}}

(* componentDidMount asks for the session; the test case has no id yet.     *)
Request(kind) == [no |-> 1, kind |-> kind, entity |-> None, comment |-> NoComment,
                  index |-> 0, at |-> "sent", answer |-> <<>>]

Init ==
    /\ stored = Begin
    /\ lastId = Cardinality(BeginIds)
    /\ net = {Request("session")}
    /\ events = 0 /\ elsewhere = 0 /\ losses = 0
    /\ session = "none"
    /\ entity = None /\ comments = <<>> /\ draft = Blank
    /\ forms = {} /\ badge = 0
    /\ toRemove = None /\ asking = FALSE
    /\ message = None /\ crashed = FALSE
    /\ steady = FALSE /\ typed = {}

-----------------------------------------------------------------------------
(* Requests and the service *)

Free(kind) == {i \in 1 .. MaxInFlight : \A m \in net : m.kind = kind => m.no # i}
Send(m) ==
    /\ Cardinality(net) < MaxInFlight
    /\ net' = net \cup {[m EXCEPT !.no = CHOOSE i \in Free(m.kind) : \A j \in Free(m.kind) : i <= j]}

Quiet == \A m \in net : m.kind = "session"
Alone(m) == \A n \in net \ {m} : n.kind = "session"

Reply(m, outcome, answer) ==
    net' = (net \ {m}) \cup {[m EXCEPT !.at = outcome, !.answer = answer]}

(* Where a list has a comment of an id, and of a version too.               *)
Places(list, id) == {i \in DOMAIN list : list[i].id = id}
Fits(list, c) == {i \in Places(list, c.id) : list[i].version = c.version}

(* What a list comes to without the comments of an id.                      *)
Others(list, id) ==
    LET Left == {i \in DOMAIN list : list[i] # None /\ list[i].id # id}
        kept == {k \in [1 .. Cardinality(Left) -> Left] :
                    \A i, j \in DOMAIN k : i < j => k[i] < k[j]} IN
    {[i \in DOMAIN k |-> list[k[i]]] : k \in kept}

Written(e, c) == [stored EXCEPT ![e] = <<c>> \o @]
Removed(e, id) == \E list \in Others(stored[e], id) : stored' = [stored EXCEPT ![e] = list]

Serve(m) ==
    /\ m.at = "sent"
    /\ CASE m.kind = "session" -> Reply(m, "done", <<>>) /\ UNCHANGED service
         [] m.kind = "list" -> Reply(m, "done", stored[m.entity]) /\ UNCHANGED service
         [] m.kind = "add" ->
              LET c == [m.comment EXCEPT !.id = lastId + 1, !.version = 1] IN
              /\ c.id \in Ids
              /\ lastId' = c.id
              /\ stored' = Written(m.entity, c)
              /\ Reply(m, "done", <<c>>)
         [] m.kind = "update" ->
              LET fits == Fits(stored[m.entity], m.comment)
                  c == [m.comment EXCEPT !.version = @ + 1] IN
              /\ IF fits # {}
                   THEN /\ \E i \in fits : stored' = [stored EXCEPT ![m.entity][i] = c]
                        /\ Reply(m, "done", <<c>>)
                   ELSE Reply(m, "failed", <<>>) /\ UNCHANGED stored
              /\ UNCHANGED lastId
         [] m.kind = "remove" ->
              /\ Removed(m.entity, m.comment.id)
              /\ Reply(m, "done", <<>>)
              /\ UNCHANGED lastId
    /\ UNCHANGED <<bounds, session, page, dialog, message, crashed, history>>

(* Before it is handled, or after.                                          *)
Lose(m) ==
    /\ m.at \in {"sent", "done"}
    /\ losses + elsewhere < MaxFaults
    /\ losses' = losses + 1
    /\ Reply(m, "failed", <<>>)
    /\ UNCHANGED <<service, events, elsewhere, session, page, dialog, message, crashed, history>>

WriteElsewhere(e, t) ==
    /\ losses + elsewhere < MaxFaults /\ lastId + 1 \in Ids
    /\ elsewhere' = elsewhere + 1
    /\ lastId' = lastId + 1
    /\ stored' = Written(e, [id |-> lastId', version |-> 1, text |-> t, owner |-> "other"])
    /\ steady' = FALSE
    /\ UNCHANGED <<net, events, losses, session, page, dialog, message, crashed, typed>>

RemoveElsewhere(e, id) ==
    /\ losses + elsewhere < MaxFaults /\ Places(stored[e], id) # {}
    /\ elsewhere' = elsewhere + 1
    /\ Removed(e, id)
    /\ steady' = FALSE
    /\ UNCHANGED <<lastId, net, events, losses, session, page, dialog, message, crashed, typed>>

-----------------------------------------------------------------------------
(* render *)

(* isUserOwnerOrAdmin: whose comments have a pencil.                        *)
MayEdit(c) == session = "admin" \/ (session = "user" /\ c.owner = "me")

(* Before the session is known its person has no roles to look into, and    *)
(* this is found out at the first comment that is rendered.  A node that    *)
(* goes from the end of the list takes its form along.                      *)
Throws(list) == session = "none" /\ \E i \in DOMAIN list : list[i] # None

Rendered(list) ==
    /\ comments' = list
    /\ crashed' = Throws(list)

(* onCommentsNumberChanged renders the page, which comes back to the panel  *)
(* as componentWillReceiveProps: refreshCommentToEdit.                      *)
Counted(list) == badge' = Len(list) /\ draft' = Blank

-----------------------------------------------------------------------------
(* Events *)

Event ==
    /\ ~crashed
    /\ events < MaxEvents /\ events' = events + 1
    /\ UNCHANGED <<service, elsewhere, losses, session, message>>

(* componentWillReceiveProps, whenever the page of the test case renders.   *)
ReceiveProps(e) ==
    /\ Event
    /\ entity' = e
    /\ draft' = Blank
    /\ IF e # entity THEN Send([Request("list") EXCEPT !.entity = e]) /\ UNCHANGED crashed
                     ELSE UNCHANGED net /\ crashed' = Throws(comments)
    /\ steady' = (steady /\ Quiet /\ e = entity)
    /\ UNCHANGED <<comments, forms, badge, dialog, typed>>

HandleChange(t) ==
    /\ Event
    /\ entity # None
    /\ draft' = t /\ t # draft
    /\ crashed' = Throws(comments)
    /\ UNCHANGED <<net, entity, comments, forms, badge, dialog, history>>

HandleSubmit ==
    /\ Event
    /\ entity # None
    /\ Send([Request("add") EXCEPT !.entity = entity, !.comment.text = draft])
    /\ steady' = (steady /\ Quiet)
    /\ UNCHANGED <<page, dialog, crashed, typed>>

ToggleEdit(i) ==
    /\ Event
    /\ comments[i] # None /\ MayEdit(comments[i])
    /\ forms' = forms \cup {i} /\ i \notin forms
    /\ UNCHANGED <<net, entity, comments, draft, badge, dialog, crashed, history>>

CancelEdit(i) ==
    /\ Event
    /\ forms' = forms \ {i} /\ i \in forms
    /\ UNCHANGED <<net, entity, comments, draft, badge, dialog, crashed, history>>

HandleUpdateChange(i, t) ==
    /\ Event
    /\ i \in forms /\ comments[i] # None
    /\ comments[i].text # t
    /\ Rendered([comments EXCEPT ![i].text = t])
    /\ typed' = typed \cup {comments[i].id}
    /\ steady' = (steady /\ Quiet)
    /\ UNCHANGED <<net, entity, draft, forms, badge, dialog>>

HandleUpdateSubmit(i) ==
    /\ Event
    /\ i \in forms /\ comments[i] # None
    /\ Send([Request("update") EXCEPT !.entity = entity, !.comment = comments[i], !.index = i])
    /\ steady' = (steady /\ Quiet)
    /\ UNCHANGED <<page, dialog, crashed, typed>>

RemoveCommentConfirmation(i) ==
    /\ Event
    /\ comments[i] # None /\ MayEdit(comments[i])
    /\ toRemove' = comments[i].id /\ asking' = TRUE
    /\ steady' = (steady /\ Quiet)
    /\ UNCHANGED <<net, page, crashed, typed>>

CancelRemoveCommentConfirmation ==
    /\ Event
    /\ asking
    /\ toRemove' = None /\ asking' = FALSE
    /\ steady' = (steady /\ Quiet)
    /\ UNCHANGED <<net, page, crashed, typed>>

RemoveComment ==
    /\ Event
    /\ asking
    /\ Send([Request("remove") EXCEPT !.entity = entity, !.comment.id = toRemove])
    /\ steady' = (steady /\ Quiet)
    /\ UNCHANGED <<page, dialog, crashed, typed>>

-----------------------------------------------------------------------------
(* Answers *)

Answer(m, kind) ==
    /\ ~crashed
    /\ m.kind = kind /\ m.at = "done"
    /\ net' = net \ {m}
    /\ UNCHANGED <<service, bounds, message>>

(* Nothing is rendered.                                                     *)
SessionAnswered(m, who) ==
    /\ Answer(m, "session")
    /\ session' = who
    /\ UNCHANGED <<page, dialog, crashed, history>>

(* Whatever test case it was asked for.                                     *)
CommentsAnswered(m) ==
    /\ Answer(m, "list")
    /\ Rendered(m.answer)
    /\ Counted(m.answer)
    /\ forms' = forms \cap DOMAIN m.answer
    /\ steady' = (Alone(m) /\ m.entity = entity /\ m.answer = stored[entity])
    /\ typed' = {}
    /\ UNCHANGED <<session, entity, dialog>>

WithNew_last(list, c) == Append(list, c)  \* slip: at the end
WithNew(list, c) == <<c>> \o list

CommentCreated(m) ==
    LET list == WithNew(comments, m.answer[1]) IN
    /\ Answer(m, "add")
    /\ Rendered(list)
    /\ Counted(list)
    /\ UNCHANGED <<session, entity, forms, dialog, history>>

(* An index past the end leaves holes before it, and nobody is told that    *)
(* the list has grown.                                                      *)
CommentUpdated(m) ==
    LET holes == [i \in 1 .. m.index - 1 - Len(comments) |-> None] IN
    /\ Answer(m, "update")
    /\ Rendered(IF m.index <= Len(comments) THEN [comments EXCEPT ![m.index] = m.answer[1]]
                ELSE comments \o holes \o m.answer)
    /\ forms' = forms \ {m.index}
    /\ typed' = typed \ {m.comment.id}
    /\ UNCHANGED <<session, entity, draft, badge, dialog, steady>>

CommentRemoved(m) ==
    /\ Answer(m, "remove")
    /\ \E list \in Others(comments, toRemove) :
          /\ Rendered(list)
          /\ Counted(list)
          /\ forms' = forms \cap DOMAIN list
    /\ toRemove' = None /\ asking' = FALSE
    /\ UNCHANGED <<session, entity, history>>

(* A failed listing and a failed session are not told.                      *)
Failed(m) ==
    /\ ~crashed
    /\ m.at = "failed"
    /\ net' = net \ {m}
    /\ message' = IF m.kind \in {"add", "update", "remove"} THEN "failed" ELSE message
    /\ crashed' = (message' # message /\ Throws(comments))
    /\ steady' = FALSE
    /\ UNCHANGED <<service, bounds, session, page, dialog, typed>>

-----------------------------------------------------------------------------
User ==
    \/ \E e \in Entities : ReceiveProps(e)
    \/ \E t \in Texts : HandleChange(t)
    \/ HandleSubmit
    \/ \E i \in DOMAIN comments :
          \/ ToggleEdit(i) \/ CancelEdit(i) \/ HandleUpdateSubmit(i)
          \/ \E t \in Texts : HandleUpdateChange(i, t)
          \/ RemoveCommentConfirmation(i)
    \/ CancelRemoveCommentConfirmation
    \/ RemoveComment

Next ==
    \/ User
    \/ \E m \in net :
          \/ Serve(m) \/ Lose(m)
          \/ \E who \in {"user", "admin"} : SessionAnswered(m, who)
          \/ CommentsAnswered(m) \/ CommentCreated(m) \/ CommentUpdated(m) \/ CommentRemoved(m)
          \/ Failed(m)
    \/ \E e \in Entities :
          \/ \E t \in Texts : WriteElsewhere(e, t)
          \/ \E id \in Ids : RemoveElsewhere(e, id)

(* The page when another is mounted.                                       *)
Idle == UNCHANGED vars

Spec == Init /\ [][Next]_vars

-----------------------------------------------------------------------------
(* Properties *)

(* The list that is patched is the list that would be fetched: as long as   *)
(* no two things overlap, and others leave the comments alone, the panel    *)
(* shows what is stored in the order in which it is stored, but for text    *)
(* that has been typed and not saved, and the tab shows its number.         *)
CommentsAsStored ==
    steady /\ Quiet =>
       LET now == stored[entity] IN
       /\ badge = Len(now)
       /\ Len(comments) = Len(now)
       /\ \A i \in DOMAIN now :
             comments[i] = [now[i] EXCEPT !.text = IF now[i].id \in typed THEN comments[i].text ELSE @]
=============================================================================
