----------------------------- MODULE SettingsPage -----------------------------
(***************************************************************************)
(* The settings of a project, ProjectSettings.js with LauncherForm.js.     *)
(* The whole project is edited in the browser and saved by one PUT.        *)
(*                                                                         *)
(* originalProject is the same object as project from the first answer on, *)
(* so it remembers nothing: Cancel hides the form and keeps what was typed.*)
(*                                                                         *)
(* A launcher can be added, empty, and removed, and no more.  What is      *)
(* entered for it goes to handleLauncherChange, which is handed to         *)
(* LauncherForm unbound: it finds no project there and throws before       *)
(* anything has changed.  So the descriptors of launchers, which say what  *)
(* may be entered, are left out, and the suggestions of users.             *)
(*                                                                         *)
(* The service is a compare-and-set on the version (EntityStore).          *)
(***************************************************************************)
EXTENDS Integers, Sequences, FiniteSets, SequencesExt

CONSTANTS Values,        \* of the name, the users and the environments
          Begin,         \* launchers of the project at the start
          None,          \* undefined
          MaxLaunchers,  \* bound: launchers of the project
          MaxEvents,     \* bound: events of the user
          MaxFaults, \* bound: projects saved by others,
                     \* and requests that get lost
          MaxInFlight    \* bound: requests under way

VARIABLES
    stored,    \* the project in the service
    net,       \* requests under way, with their answers
    events, elsewhere, losses,  \* bounds
    project,   \* state.project; version 0 before it is known
    shownUsers,\* usersToDisplay
    admin,     \* state.session is that of an administrator
    nameForm,  \* the form of the name is shown
    toRemove,  \* state.launcherIndexToRemove
    asking,    \* the dialog of its removal is shown
    message,   \* errorMessage
    left,      \* the browser has gone to "/"
    touched    \* history: settings changed since the project was last given

bounds == <<events, elsewhere, losses>>
dialog == <<toRemove, asking>>
page == <<project, shownUsers, admin, nameForm, touched>>
vars == <<stored, net, bounds, page, dialog, message, left>>

Plain == {"name", "users", "environments"}
Fields == Plain \cup {"launchers", "deleted"}
NewLauncher == "empty"
Launcher == Range(Begin) \cup {NewLauncher}
Project == [version : Nat, name : Values, users : Values, environments : Values,
            launchers : Seq(Launcher), deleted : BOOLEAN]
First == CHOOSE v \in Values : TRUE

TypeOK ==
    /\ stored \in Project /\ project \in Project
    /\ \A m \in net :
          /\ m.no \in 1 .. MaxInFlight
          /\ m.kind \in {"project", "session", "put", "delete"}
          /\ m.at \in {"sent", "done", "failed"}
          /\ m.doc \in Project /\ m.touched \subseteq Fields /\ m.form \in BOOLEAN
    /\ shownUsers \in Values \cup {None}
    /\ toRemove \in Nat \cup {None}
    /\ message \in {None, "saved", "failed"}
    /\ touched \subseteq Fields
    /\ \A b \in {admin, nameForm, asking, left} : b \in BOOLEAN

NoProject == [version |-> 0, name |-> First, users |-> First, environments |-> First,
            launchers |-> <<>>, deleted |-> FALSE]
Request(kind) == [no |-> 1, kind |-> kind, doc |-> NoProject, touched |-> {},
                  form |-> FALSE, at |-> "sent"]

(* componentWillMount and componentDidMount.                                *)
Init ==
    /\ stored = [NoProject EXCEPT !.version = 1, !.launchers = Begin]
    /\ net = {Request("project"), Request("session")}
    /\ events = 0 /\ elsewhere = 0 /\ losses = 0
    /\ project = NoProject /\ shownUsers = None
    /\ admin = FALSE /\ nameForm = FALSE
    /\ toRemove = None /\ asking = FALSE
    /\ message = None /\ left = FALSE
    /\ touched = {}

-----------------------------------------------------------------------------
(* Requests and the service *)

Free(kind) == {i \in 1 .. MaxInFlight : \A m \in net : m.kind = kind => m.no # i}
Send(m) ==
    /\ Cardinality(net) < MaxInFlight
    /\ net' = net \cup {[m EXCEPT !.no = CHOOSE i \in Free(m.kind) : \A j \in Free(m.kind) : i <= j]}

Reply(m, outcome, doc) == net' = (net \ {m}) \cup {[m EXCEPT !.at = outcome, !.doc = doc]}

Accepted_stale(doc) == doc.version > 0  \* slip: no version compared
Accepted(doc) == doc.version = stored.version

(* A project that is deleted is kept, marked.  DELETE is done whatever its  *)
(* status (backend.js).                                                     *)
Serve(m) ==
    /\ m.at = "sent"
    /\ CASE m.kind = "put" ->
              IF Accepted(m.doc)
                THEN /\ stored' = [m.doc EXCEPT !.version = stored.version + 1]
                     /\ Reply(m, "done", stored')
                ELSE Reply(m, "failed", m.doc) /\ UNCHANGED stored
         [] m.kind = "delete" ->
              /\ stored' = [stored EXCEPT !.deleted = TRUE, !.version = @ + 1]
              /\ Reply(m, "done", m.doc)
         [] OTHER -> Reply(m, "done", stored) /\ UNCHANGED stored
    /\ UNCHANGED <<bounds, page, dialog, message, left>>

Lose(m) ==
    /\ m.at \in {"sent", "done"}
    /\ losses + elsewhere < MaxFaults
    /\ losses' = losses + 1
    /\ Reply(m, "failed", m.doc)
    /\ UNCHANGED <<stored, events, elsewhere, page, dialog, message, left>>

SaveElsewhere(f, v) ==
    /\ losses + elsewhere < MaxFaults
    /\ elsewhere' = elsewhere + 1
    /\ stored[f] # v
    /\ stored' = [stored EXCEPT ![f] = v, !.version = @ + 1]
    /\ UNCHANGED <<net, events, losses, page, dialog, message, left>>

-----------------------------------------------------------------------------
(* Events *)

Event ==
    /\ ~left
    /\ events < MaxEvents /\ events' = events + 1
    /\ UNCHANGED <<stored, elsewhere, losses, admin, left>>

Edit(f, doc) ==
    /\ project' = doc
    /\ touched' = touched \cup {f}

(* submit: with the name when it is the form of the name that is saved.     *)
Submitted(form) == Send([Request("put") EXCEPT !.doc = project', !.touched = touched', !.form = form])

ToggleEdit ==
    /\ Event
    /\ ~nameForm /\ ~project.deleted
    /\ nameForm' = TRUE
    /\ UNCHANGED <<net, project, shownUsers, dialog, message, touched>>

(* Cancel gives the project its own name.                                   *)
CancelEdit ==
    /\ Event
    /\ nameForm
    /\ nameForm' = FALSE
    /\ UNCHANGED <<net, project, shownUsers, dialog, message, touched>>

HandleChange(v) ==
    /\ Event
    /\ nameForm /\ v # project.name
    /\ Edit("name", [project EXCEPT !.name = v])
    /\ UNCHANGED <<net, shownUsers, nameForm, dialog, message>>

ChangeUsers(v) ==
    /\ Event
    /\ admin /\ v # project.users
    /\ Edit("users", [project EXCEPT !.users = v])
    /\ shownUsers' = v
    /\ UNCHANGED <<net, nameForm, dialog, message>>

ChangeEnvironments(v) ==
    /\ Event
    /\ v # project.environments
    /\ Edit("environments", [project EXCEPT !.environments = v])
    /\ UNCHANGED <<net, shownUsers, nameForm, dialog, message>>

AddLauncher ==
    /\ Event
    /\ Len(project.launchers) < MaxLaunchers
    /\ Edit("launchers", [project EXCEPT !.launchers = Append(@, NewLauncher)])
    /\ UNCHANGED <<net, shownUsers, nameForm, dialog, message>>

RemoveLauncherConfirmation(i) ==
    /\ Event
    /\ ~asking
    /\ toRemove' = i /\ asking' = TRUE
    /\ UNCHANGED <<net, project, shownUsers, nameForm, message, touched>>

CancelRemoveLauncherConfirmation ==
    /\ Event
    /\ asking
    /\ toRemove' = None /\ asking' = FALSE
    /\ UNCHANGED <<net, project, shownUsers, nameForm, message, touched>>

(* splice, and the whole project is saved with whatever else was changed.   *)
RemoveLauncher ==
    /\ Event
    /\ asking
    /\ Edit("launchers",
            [project EXCEPT !.launchers = IF toRemove \in DOMAIN @ THEN RemoveAt(@, toRemove) ELSE @])
    /\ toRemove' = None /\ asking' = FALSE
    /\ Submitted(FALSE)
    /\ UNCHANGED <<shownUsers, nameForm, message>>

Submit(form) ==
    /\ Event
    /\ form => nameForm
    /\ UNCHANGED <<project, shownUsers, nameForm, dialog, message, touched>>
    /\ Submitted(form)

Undelete ==
    /\ Event
    /\ project.deleted /\ ~nameForm
    /\ Edit("deleted", [project EXCEPT !.deleted = FALSE])
    /\ Submitted(FALSE)
    /\ UNCHANGED <<shownUsers, nameForm, dialog, message>>

RemoveProject ==
    /\ Event
    /\ ~project.deleted
    /\ Send(Request("delete"))
    /\ UNCHANGED <<project, shownUsers, nameForm, dialog, message, touched>>

-----------------------------------------------------------------------------
(* Answers *)

Answer(m, kind) ==
    /\ ~left
    /\ m.kind = kind /\ m.at = "done"
    /\ net' = net \ {m}
    /\ UNCHANGED <<stored, bounds, dialog>>

ProjectAnswered(m) ==
    /\ Answer(m, "project")
    /\ project' = m.doc /\ shownUsers' = m.doc.users
    /\ touched' = {}
    /\ UNCHANGED <<admin, nameForm, message, left>>

SessionAnswered(m, b) ==
    /\ Answer(m, "session")
    /\ admin' = b
    /\ UNCHANGED <<project, shownUsers, nameForm, message, left, touched>>

(* The answer takes the place of what was typed meanwhile, and the form of  *)
(* the name is toggled, open or not.                                        *)
Saved(m) ==
    /\ Answer(m, "put")
    /\ project' = m.doc
    /\ nameForm' = IF m.form THEN ~nameForm ELSE nameForm
    /\ message' = "saved"
    /\ touched' = {}
    /\ UNCHANGED <<shownUsers, admin, left>>

Removed(m) ==
    /\ Answer(m, "delete")
    /\ left' = TRUE
    /\ UNCHANGED <<page, message>>

Failed(m) ==
    /\ ~left
    /\ m.at = "failed"
    /\ net' = net \ {m}
    /\ message' = IF m.kind \in {"project", "put", "delete"} THEN "failed" ELSE message
    /\ UNCHANGED <<stored, bounds, page, dialog, left>>

-----------------------------------------------------------------------------
User ==
    \/ ToggleEdit \/ CancelEdit
    \/ \E v \in Values : HandleChange(v) \/ ChangeUsers(v) \/ ChangeEnvironments(v)
    \/ AddLauncher
    \/ \E i \in DOMAIN project.launchers : RemoveLauncherConfirmation(i)
    \/ CancelRemoveLauncherConfirmation
    \/ RemoveLauncher
    \/ \E form \in BOOLEAN : Submit(form)
    \/ Undelete
    \/ RemoveProject

Next ==
    \/ User
    \/ \E m \in net :
          \/ Serve(m) \/ Lose(m)
          \/ ProjectAnswered(m) \/ \E b \in BOOLEAN : SessionAnswered(m, b)
          \/ Saved(m) \/ Removed(m) \/ Failed(m)
    \/ \E f \in Plain, v \in Values : SaveElsewhere(f, v)

(* The page when another is mounted.                                       *)
Idle == UNCHANGED vars

Spec == Init /\ [][Next]_vars

-----------------------------------------------------------------------------
(* Properties *)

(* Save sends the whole project.  Of what is stored it changes only         *)
(* settings that the user has changed on this page since it was last given  *)
(* the project (one whose change was cancelled included): what others have  *)
(* saved meanwhile stays, and launchers stay when another is removed in a   *)
(* project that is no longer the stored one.                                *)
SettingsKeepOthers ==
    [][\A m \in net : m.kind = "put" /\ m.at = "sent" /\ m \notin net' =>
          \A f \in Fields : stored'[f] # stored[f] => f \in m.touched]_vars
=============================================================================
