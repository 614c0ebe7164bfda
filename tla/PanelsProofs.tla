----------------------------- MODULE PanelsProofs -----------------------------
(***************************************************************************)
(* What is proved of the pages that keep a copy of what is stored and      *)
(* patch it by hand: the settings of a project, its attributes, and the    *)
(* comments of a test case, as views of the application.  A step of the    *)
(* application is one of the page, or leaves it alone.  The last sections  *)
(* are lemmas on the types of these pages, for WebUIProofs.                *)
(***************************************************************************)
EXTENDS WebUI, TestCasePageProofs, FiniteSetTheorems, NaturalsInduction,
        WellFoundedInduction, TLAPS

-----------------------------------------------------------------------------
(* The settings of a project: saves keep what others have saved *)

Shaped(d) ==
    /\ d = [version |-> d.version, name |-> d.name, users |-> d.users,
            environments |-> d.environments, launchers |-> d.launchers,
            deleted |-> d.deleted]
    /\ d.version \in Nat

(* d is no newer than what is stored, and, when it is as new, differs from  *)
(* it in the settings S only.                                               *)
Based(d, S) ==
    /\ d.version <= settings_stored.version
    /\ d.version = settings_stored.version => \A f \in SettingsView!Fields \ S :
          d[f] = settings_stored[f]

SettingsSent(m) ==
    /\ m = [no |-> m.no, kind |-> m.kind, doc |-> m.doc, touched |-> m.touched,
            form |-> m.form, at |-> m.at]
    /\ m.kind = "put" /\ m.at = "sent" => Shaped(m.doc) /\ Based(m.doc, m.touched)
    /\ m.kind \in {"project", "put"} /\ m.at = "done" => Shaped(m.doc) /\ Based(m.doc, {})

SettingsInv ==
    /\ Shaped(settings_stored) /\ settings_stored.version >= 1
    /\ Shaped(settings_project) /\ Based(settings_project, settings_touched)
    /\ \A m \in settings_net : SettingsSent(m)

(* Each change of what is stored makes a new version of it. *)
ProjectRenewed ==
    \/ UNCHANGED settings_stored
    \/ Shaped(settings_stored)' /\ settings_stored'.version = settings_stored.version + 1

LEMMA BasedStays ==
    ASSUME SettingsInv, ProjectRenewed, NEW d, NEW S, Shaped(d), Based(d, S)
    PROVE  Based(d, S)'
BY DEF SettingsInv, ProjectRenewed, Based, Shaped

LEMMA SettingsSentStays ==
    ASSUME SettingsInv, ProjectRenewed, NEW m, SettingsSent(m)
    PROVE  SettingsSent(m)'
<1>1. \A S : Shaped(m.doc) /\ Based(m.doc, S) => Based(m.doc, S)'
  BY BasedStays
<1> QED BY <1>1 DEF SettingsSent, Shaped

LEMMA ProjectStays ==
    ASSUME SettingsInv, ProjectRenewed
    PROVE  Shaped(settings_stored)' /\ settings_stored'.version >= 1
BY DEF SettingsInv, ProjectRenewed, Shaped

(* Steps that leave the project on the page as it is, and send nothing but  *)
(* r at most.                                                               *)
LEMMA SettingsStay ==
    ASSUME SettingsInv, ProjectRenewed, UNCHANGED <<settings_project, settings_touched>>,
           \/ settings_net' \subseteq settings_net
           \/ \E r : SettingsSent(r)' /\ settings_net' \subseteq settings_net \cup {r}
    PROVE  SettingsInv'
<1>1. Shaped(settings_stored)' /\ settings_stored'.version >= 1
  BY ProjectStays
<1>2. \A m \in settings_net : SettingsSent(m)'
  BY SettingsSentStays DEF SettingsInv
<1>3. Shaped(settings_project)' /\ Based(settings_project, settings_touched)'
  <2>1. \A S :
           Shaped(settings_project) /\ Based(settings_project, S) =>
                 Based(settings_project, S)'
    BY BasedStays DEF Based, ProjectRenewed
  <2> QED BY <2>1 DEF SettingsInv, Based, Shaped
<1> QED BY <1>1, <1>2, <1>3 DEF SettingsInv

LEMMA SettingsInit == SettingsView!Init => SettingsInv
<1> SUFFICES ASSUME SettingsView!Init PROVE SettingsInv
  OBVIOUS
<1>1. Shaped(SettingsView!NoProject) /\ SettingsView!NoProject.version = 0
  BY DEF SettingsView!NoProject, Shaped
<1>2. settings_stored = [version |-> 1, name |-> SettingsView!First,
         users |-> SettingsView!First,
                environments |-> SettingsView!First, launchers |-> Model.settings.Begin,
                      deleted |-> FALSE]
  BY DEF SettingsView!Init, SettingsView!NoProject
<1>3. Shaped(settings_stored) /\ settings_stored.version = 1
  BY <1>2 DEF Shaped
<1>4. \A m \in settings_net : SettingsSent(m)
  BY DEF SettingsView!Init, SettingsView!Request, SettingsSent
<1>5. settings_project = SettingsView!NoProject
  BY DEF SettingsView!Init
<1> HIDE DEF SettingsView!NoProject
<1> QED BY <1>1, <1>3, <1>4, <1>5 DEF SettingsInv, Based

-----------------------------------------------------------------------------
(* The service *)

LEMMA SettingsReplied ==
    ASSUME SettingsInv, ProjectRenewed, NEW m \in settings_net, NEW outcome \in {"done",
           "failed"}, NEW d,
           UNCHANGED <<settings_project, settings_touched>>, SettingsView!Reply(m, outcome,
           d),
           m.kind \in {"project", "put"} /\ outcome = "done" => Shaped(d) /\ Based(d, {})'
    PROVE  SettingsInv'
<1>1. SettingsSent(m)
  BY DEF SettingsInv
<1>2. PICK r : r = [m EXCEPT !.at = outcome, !.doc = d]
  OBVIOUS
<1>3. /\ r = [no |-> m.no, kind |-> m.kind, doc |-> d, touched |-> m.touched,
              form |-> m.form, at |-> outcome]
  BY <1>1, <1>2 DEF SettingsSent
<1>4. SettingsSent(r)'
  BY <1>3 DEF SettingsSent, Shaped
<1>5. settings_net' \subseteq settings_net \cup {r}
  BY <1>2 DEF SettingsView!Reply
<1> QED BY <1>4, <1>5, SettingsStay

LEMMA SettingsPut ==
    ASSUME SettingsInv, NEW m \in settings_net, SettingsView!Serve(m), m.kind = "put",
           SettingsView!Accepted(m.doc)
    PROVE  /\ Shaped(settings_stored)' /\
                 settings_stored'.version = settings_stored.version + 1
           /\ SettingsView!Reply(m, "done", settings_stored')
           /\ \A f \in SettingsView!Fields \ m.touched :
                 settings_stored'[f] = settings_stored[f]
<1>1. /\ settings_stored' = [m.doc EXCEPT !.version = settings_stored.version + 1]
      /\ SettingsView!Reply(m, "done", settings_stored') /\ m.at = "sent"
  BY DEF SettingsView!Serve
<1>2. Shaped(m.doc) /\ Based(m.doc, m.touched)
  BY <1>1 DEF SettingsInv, SettingsSent
<1>3. settings_stored.version \in Nat
  BY DEF SettingsInv, Shaped
<1>4. settings_stored' = [version |-> settings_stored.version + 1, name |-> m.doc.name,
                 users |-> m.doc.users, environments |-> m.doc.environments,
                 launchers |-> m.doc.launchers, deleted |-> m.doc.deleted]
  BY <1>1, <1>2 DEF Shaped
<1>5. \A f \in SettingsView!Fields : settings_stored'[f] = m.doc[f]
  BY <1>4 DEF SettingsView!Fields, SettingsView!Plain
<1> QED BY <1>1, <1>2, <1>3, <1>4, <1>5 DEF Shaped, SettingsView!Accepted, Based

LEMMA SettingsServed ==
    ASSUME SettingsInv, NEW m \in settings_net, SettingsView!Serve(m)
    PROVE  SettingsInv'
<1>1. UNCHANGED <<settings_project, settings_touched>> /\ m.at = "sent"
  BY DEF SettingsView!Serve, SettingsView!page
<1>2. PICK d : d = settings_stored'
  OBVIOUS
<1>3. Shaped(settings_stored) /\ Based(settings_stored, {})
  BY DEF SettingsInv, Based, Shaped
<1>4. CASE m.kind = "put" /\ SettingsView!Accepted(m.doc)
  <2>1. /\ Shaped(d) /\ ProjectRenewed /\ SettingsView!Reply(m, "done", d)
    BY <1>2, <1>4, SettingsPut DEF ProjectRenewed, Shaped
  <2>2. Based(d, {})'
    BY <1>2, <2>1 DEF Based, Shaped
  <2> QED BY <1>1, <2>1, <2>2, SettingsReplied
<1>5. CASE m.kind = "put" /\ ~SettingsView!Accepted(m.doc)
  BY <1>1, <1>5, SettingsReplied DEF SettingsView!Serve, ProjectRenewed
<1>6. CASE m.kind = "delete"
  <2>1. settings_stored' = [settings_stored EXCEPT !.deleted = TRUE, !.version = @ + 1]
        /\ SettingsView!Reply(m, "done", m.doc)
    BY <1>6 DEF SettingsView!Serve
  <2>2. settings_stored' = [version |-> settings_stored.version + 1,
           name |-> settings_stored.name,
                   users |-> settings_stored.users,
                         environments |-> settings_stored.environments,
                   launchers |-> settings_stored.launchers, deleted |-> TRUE]
    BY <1>3, <2>1 DEF Shaped
  <2>3. settings_stored'.version = settings_stored.version + 1 /\
           settings_stored.version \in Nat
    BY <1>3, <2>2 DEF Shaped
  <2>4. ProjectRenewed
    BY <2>2, <2>3 DEF ProjectRenewed, Shaped
  <2> QED BY <1>1, <1>6, <2>1, <2>4, SettingsReplied
<1>7. CASE m.kind \notin {"put", "delete"}
  <2>1. SettingsView!Reply(m, "done", settings_stored) /\ UNCHANGED settings_stored
    BY <1>7 DEF SettingsView!Serve
  <2>2. SettingsView!Reply(m, "done", d) /\ ProjectRenewed /\ Shaped(d)
    BY <1>2, <1>3, <2>1 DEF ProjectRenewed
  <2>3. Based(d, {})'
    BY <1>2, <2>2 DEF Based, Shaped
  <2> QED BY <1>1, <2>2, <2>3, SettingsReplied
<1> QED BY <1>4, <1>5, <1>6, <1>7

-----------------------------------------------------------------------------
(* The page *)

(* An edit of setting f, on the page and in the history. *)
LEMMA SettingsEdited ==
    ASSUME SettingsInv, NEW f \in SettingsView!Fields, NEW v,
           settings_project' = [settings_project EXCEPT ![f] = v],
           settings_touched' = settings_touched \cup {f},
           UNCHANGED settings_stored
    PROVE  Shaped(settings_project)' /\ Based(settings_project, settings_touched)'
<1>1. Shaped(settings_project) /\ Based(settings_project, settings_touched)
  BY DEF SettingsInv
<1>2. /\ settings_project'.version = settings_project.version
      /\ \A g \in SettingsView!Fields \ {f} : settings_project'[g] = settings_project[g]
      /\ Shaped(settings_project')
  BY <1>1 DEF Shaped, SettingsView!Fields, SettingsView!Plain
<1> QED BY <1>1, <1>2 DEF Based, Shaped

LEMMA SettingsSubmitted ==
    ASSUME SettingsInv, UNCHANGED settings_stored, Shaped(settings_project)',
           Based(settings_project, settings_touched)',
           \/ settings_net' = settings_net
           \/ \E form : SettingsView!Submitted(form)
    PROVE  SettingsInv'
<1>1. ProjectRenewed
  BY DEF ProjectRenewed
<1>2. \A m \in settings_net : SettingsSent(m)'
  BY <1>1, SettingsSentStays DEF SettingsInv
<1>3. Shaped(settings_stored)' /\ settings_stored'.version >= 1
  BY <1>1, ProjectStays
<1>4. CASE settings_net' = settings_net
  BY <1>2, <1>3, <1>4 DEF SettingsInv
<1>5. CASE \E form : SettingsView!Submitted(form)
  <2>1. PICK form : SettingsView!Submitted(form)
    BY <1>5
  <2>2. PICK d, S : d = settings_project' /\ S = settings_touched'
    OBVIOUS
  <2>5. PICK p : p = SettingsView!Request("put")
    OBVIOUS
  <2>6. /\ p = [no |-> p.no, kind |-> p.kind, doc |-> p.doc, touched |-> p.touched,
                form |-> p.form, at |-> p.at]
        /\ p.kind = "put" /\ p.at = "sent"
    BY <2>5 DEF SettingsView!Request
  <2>7. PICK q : q = [p EXCEPT !.doc = d, !.touched = S, !.form = form]
    OBVIOUS
  <2>8. q = [no |-> p.no, kind |-> p.kind, doc |-> d, touched |-> S, form |-> form,
             at |-> p.at]
    BY <2>6, <2>7
  <2>9. PICK n : settings_net' = settings_net \cup {[q EXCEPT !.no = n]}
    BY <2>1, <2>2, <2>5, <2>7 DEF SettingsView!Submitted, SettingsView!Send
  <2>10. PICK r : r = [q EXCEPT !.no = n]
    OBVIOUS
  <2>11. r = [no |-> n, kind |-> "put", doc |-> d, touched |-> S, form |-> form,
              at |-> "sent"]
    BY <2>6, <2>8, <2>10
  <2>3. Shaped(d) /\ Based(d, S)'
    BY <2>2 DEF Shaped, Based
  <2>4. SettingsSent(r)'
    BY <2>3, <2>11 DEF SettingsSent, Shaped
  <2> QED BY <1>2, <1>3, <2>4, <2>9, <2>10 DEF SettingsInv
<1> QED BY <1>4, <1>5

LEMMA SettingsUser ==
    ASSUME SettingsInv, SettingsView!User
    PROVE  SettingsInv'
<1> USE DEF SettingsView!Event
<1>1. UNCHANGED settings_stored
  BY DEF SettingsView!User, SettingsView!ToggleEdit, SettingsView!CancelEdit,
     SettingsView!HandleChange, SettingsView!ChangeUsers, SettingsView!ChangeEnvironments,
     SettingsView!AddLauncher, SettingsView!RemoveLauncherConfirmation, SettingsView!CancelRemoveLauncherConfirmation,
     SettingsView!RemoveLauncher, SettingsView!Submit, SettingsView!Undelete,
     SettingsView!RemoveProject
<1>2. ProjectRenewed
  BY <1>1 DEF ProjectRenewed
<1>3. CASE \/ SettingsView!ToggleEdit \/ SettingsView!CancelEdit
           \/ \E i \in DOMAIN settings_project.launchers :
                 SettingsView!RemoveLauncherConfirmation(i)
           \/ SettingsView!CancelRemoveLauncherConfirmation
  <2>1. UNCHANGED <<settings_net, settings_project, settings_touched>>
    BY <1>3 DEF SettingsView!ToggleEdit, SettingsView!CancelEdit,
       SettingsView!RemoveLauncherConfirmation,
       SettingsView!CancelRemoveLauncherConfirmation
  <2> QED BY <1>2, <2>1, SettingsStay
<1>4. CASE \E form \in BOOLEAN : SettingsView!Submit(form)
  <2>1. PICK form \in BOOLEAN : SettingsView!Submit(form)
    BY <1>4
  <2>2. UNCHANGED <<settings_project, settings_touched>> /\ SettingsView!Submitted(form)
    BY <2>1 DEF SettingsView!Submit
  <2>3. Shaped(settings_project)' /\ Based(settings_project, settings_touched)'
    BY <1>1, <2>2 DEF SettingsInv, Shaped, Based
  <2> QED BY <1>1, <2>2, <2>3, SettingsSubmitted
<1>5. CASE SettingsView!RemoveProject
  <2>1. UNCHANGED <<settings_project, settings_touched>> /\
           SettingsView!Send(SettingsView!Request("delete"))
    BY <1>5 DEF SettingsView!RemoveProject
  <2>2. PICK r : /\ settings_net' = settings_net \cup {r}
                 /\ \E n : r = [SettingsView!Request("delete") EXCEPT !.no = n]
    BY <2>1 DEF SettingsView!Send
  <2>3. SettingsSent(r)'
    BY <2>2 DEF SettingsSent, SettingsView!Request
  <2> QED BY <1>2, <2>1, <2>2, <2>3, SettingsStay
<1>6. CASE \/ \E v \in Model.settings.Values :
                 SettingsView!HandleChange(v) \/ SettingsView!ChangeUsers(v) \/
                       SettingsView!ChangeEnvironments(v)
           \/ SettingsView!AddLauncher
           \/ SettingsView!RemoveLauncher \/ SettingsView!Undelete
  <2> DEFINE Set(f, v) == /\ settings_project' = [settings_project EXCEPT ![f] = v]
                          /\ settings_touched' = settings_touched \cup {f}
  <2> USE DEF SettingsView!Edit
  <2>1. {"name", "users", "environments", "launchers", "deleted"} = SettingsView!Fields
    BY DEF SettingsView!Fields, SettingsView!Plain
  <2>2. \E f \in SettingsView!Fields : \E v : Set(f, v)
    <3>1. CASE \E v \in Model.settings.Values : SettingsView!HandleChange(v)
      <4>1. \E v : Set("name", v)
        BY <3>1 DEF SettingsView!HandleChange
      <4> QED BY <2>1, <4>1
    <3>2. CASE \E v \in Model.settings.Values : SettingsView!ChangeUsers(v)
      <4>1. \E v : Set("users", v)
        BY <3>2 DEF SettingsView!ChangeUsers
      <4> QED BY <2>1, <4>1
    <3>3. CASE \E v \in Model.settings.Values : SettingsView!ChangeEnvironments(v)
      <4>1. \E v : Set("environments", v)
        BY <3>3 DEF SettingsView!ChangeEnvironments
      <4> QED BY <2>1, <4>1
    <3>4. CASE SettingsView!AddLauncher
      <4>1. \E v : Set("launchers", v)
        BY <3>4 DEF SettingsView!AddLauncher
      <4> QED BY <2>1, <4>1
    <3>5. CASE SettingsView!RemoveLauncher
      <4>1. \E v : Set("launchers", v)
        BY <3>5 DEF SettingsView!RemoveLauncher
      <4> QED BY <2>1, <4>1
    <3>6. CASE SettingsView!Undelete
      <4>1. \E v : Set("deleted", v)
        BY <3>6 DEF SettingsView!Undelete
      <4> QED BY <2>1, <4>1
    <3> QED BY <1>6, <3>1, <3>2, <3>3, <3>4, <3>5, <3>6
  <2>3. settings_net' = settings_net \/ \E form : SettingsView!Submitted(form)
    BY <1>6 DEF SettingsView!HandleChange, SettingsView!ChangeUsers,
       SettingsView!ChangeEnvironments, SettingsView!AddLauncher,
       SettingsView!RemoveLauncher, SettingsView!Undelete
  <2>4. Shaped(settings_project)' /\ Based(settings_project, settings_touched)'
    BY <1>1, <2>2, SettingsEdited
  <2> QED BY <1>1, <2>3, <2>4, SettingsSubmitted
<1> QED BY <1>3, <1>4, <1>5, <1>6 DEF SettingsView!User

(* An answer gives the page the project, with nothing changed on it yet.    *)
LEMMA SettingsAnswered ==
    ASSUME SettingsInv, NEW m \in settings_net,
           SettingsView!ProjectAnswered(m) \/ SettingsView!Saved(m)
    PROVE  SettingsInv'
<1>1. /\ m.kind \in {"project", "put"} /\ m.at = "done"
      /\ settings_net' = settings_net \ {m} /\ UNCHANGED settings_stored
      /\ settings_project' = m.doc /\ settings_touched' = {}
  BY DEF SettingsView!ProjectAnswered, SettingsView!Saved, SettingsView!Answer
<1>2. ProjectRenewed
  BY <1>1 DEF ProjectRenewed
<1>3. \A l \in settings_net' : SettingsSent(l)'
  BY <1>1, <1>2, SettingsSentStays DEF SettingsInv
<1>4. Shaped(m.doc) /\ Based(m.doc, {})
  BY <1>1 DEF SettingsInv, SettingsSent
<1>5. Shaped(settings_project)' /\ Based(settings_project, settings_touched)'
  BY <1>1, <1>4 DEF Shaped, Based
<1> QED BY <1>2, <1>3, <1>5, ProjectStays DEF SettingsInv

LEMMA SettingsAnsweredElse ==
    ASSUME SettingsInv, NEW m \in settings_net,
           \/ SettingsView!Removed(m) \/ SettingsView!Failed(m)
           \/ \E b \in BOOLEAN : SettingsView!SessionAnswered(m, b)
    PROVE  SettingsInv'
<1>1. UNCHANGED <<settings_stored, settings_project, settings_touched>> /\
         settings_net' \subseteq settings_net
  BY DEF SettingsView!SessionAnswered, SettingsView!Removed, SettingsView!Failed,
     SettingsView!Answer, SettingsView!page
<1> QED BY <1>1, SettingsStay DEF ProjectRenewed

-----------------------------------------------------------------------------
(* Faults and others *)

LEMMA SettingsLost ==
    ASSUME SettingsInv, NEW m \in settings_net, SettingsView!Lose(m)
    PROVE  SettingsInv'
<1>1. UNCHANGED <<settings_stored, settings_project, settings_touched>> /\
         SettingsView!Reply(m, "failed", m.doc)
  BY DEF SettingsView!Lose, SettingsView!page
<1> QED BY <1>1, SettingsReplied DEF ProjectRenewed

LEMMA SettingsSavedElsewhere ==
    ASSUME SettingsInv, NEW f \in SettingsView!Plain, NEW v, SettingsView!SaveElsewhere(f, v)
    PROVE  SettingsInv'
<1>1. /\ settings_stored' = [settings_stored EXCEPT ![f] = v, !.version = @ + 1]
      /\ UNCHANGED <<settings_net, settings_project, settings_touched>>
  BY DEF SettingsView!SaveElsewhere, SettingsView!page
<1>2. Shaped(settings_stored)
  BY DEF SettingsInv
<1>3. PICK s : s = [settings_stored EXCEPT ![f] = v]
  OBVIOUS
<1>4. Shaped(s) /\ s.version = settings_stored.version
  BY <1>2, <1>3 DEF Shaped, SettingsView!Plain
<1>5. settings_stored' = [s EXCEPT !.version = s.version + 1]
  BY <1>1, <1>2, <1>3, <1>4 DEF Shaped, SettingsView!Plain
<1>6. Shaped(settings_stored)' /\ settings_stored'.version = s.version + 1
  BY <1>4, <1>5 DEF Shaped
<1> QED BY <1>1, <1>4, <1>6, SettingsStay DEF ProjectRenewed

-----------------------------------------------------------------------------
LEMMA SettingsNext == SettingsInv /\ [SettingsView!Next]_(SettingsView!vars) => SettingsInv'
<1> SUFFICES ASSUME SettingsInv, [SettingsView!Next]_(SettingsView!vars) PROVE SettingsInv'
  OBVIOUS
<1>1. CASE SettingsView!User
  BY <1>1, SettingsUser
<1>2. ASSUME NEW m \in settings_net,
             \/ SettingsView!Serve(m) \/ SettingsView!Lose(m)
             \/ SettingsView!ProjectAnswered(m)
             \/ \E b \in BOOLEAN : SettingsView!SessionAnswered(m, b)
             \/ SettingsView!Saved(m) \/ SettingsView!Removed(m) \/ SettingsView!Failed(m)
      PROVE  SettingsInv'
  BY <1>2, SettingsServed, SettingsLost, SettingsAnswered, SettingsAnsweredElse
<1>3. CASE \E f \in SettingsView!Plain, v \in Model.settings.Values :
              SettingsView!SaveElsewhere(f, v)
  BY <1>3, SettingsSavedElsewhere
<1>4. CASE UNCHANGED SettingsView!vars
  BY <1>4, SettingsStay DEF SettingsView!vars, SettingsView!page, ProjectRenewed
<1> QED BY <1>1, <1>2, <1>3, <1>4 DEF SettingsView!Next

LEMMA SettingsSteps ==
    [UINext]_uiVars => [SettingsView!Next]_(SettingsView!vars)
BY DEF UINext, OthersIdle, uiVars, SettingsView!Idle

(* The invariant is kept, whatever the user does and others save: the       *)
(* project on the page, and the one in each save under way, differ from a   *)
(* stored project of their version in nothing but what was changed here.    *)
THEOREM SettingsInvariance == UISpec => []SettingsInv
<1>1. UIInit => SettingsInv
  BY SettingsInit DEF UIInit
<1>2. SettingsInv /\ [UINext]_uiVars => SettingsInv'
  BY SettingsSteps, SettingsNext
<1> QED BY <1>1, <1>2, PTL DEF UISpec

(* What becomes of a save that is under way: it stays, or is refused or     *)
(* lost, or stores what was changed on the page.                            *)
LEMMA SettingsSaveStep ==
    ASSUME SettingsInv, [SettingsView!Next]_(SettingsView!vars), NEW m \in settings_net,
           m.kind = "put", m.at = "sent", m \notin settings_net'
    PROVE  \A f \in SettingsView!Fields :
              settings_stored'[f] # settings_stored[f] => f \in m.touched
<1>1. CASE SettingsView!User
  <2>1. settings_net \subseteq settings_net'
    BY <1>1 DEF SettingsView!User, SettingsView!Event, SettingsView!ToggleEdit,
       SettingsView!CancelEdit, SettingsView!HandleChange, SettingsView!ChangeUsers,
       SettingsView!ChangeEnvironments, SettingsView!AddLauncher,
       SettingsView!RemoveLauncherConfirmation,
       SettingsView!CancelRemoveLauncherConfirmation, SettingsView!RemoveLauncher,
       SettingsView!Submit, SettingsView!Undelete, SettingsView!RemoveProject,
       SettingsView!Submitted, SettingsView!Send
  <2> QED BY <2>1
<1>2. ASSUME NEW l \in settings_net, SettingsView!Serve(l)
      PROVE  \A f \in SettingsView!Fields :
                settings_stored'[f] # settings_stored[f] => f \in m.touched
  <2>1. l = m
    BY <1>2 DEF SettingsView!Serve, SettingsView!Reply
  <2>2. CASE SettingsView!Accepted(m.doc)
    BY <1>2, <2>1, <2>2, SettingsPut
  <2>3. CASE ~SettingsView!Accepted(m.doc)
    BY <1>2, <2>1, <2>3 DEF SettingsView!Serve
  <2> QED BY <2>2, <2>3
<1>3. ASSUME NEW l \in settings_net,
             \/ SettingsView!Lose(l)
             \/ SettingsView!ProjectAnswered(l)
             \/ \E b \in BOOLEAN : SettingsView!SessionAnswered(l, b)
             \/ SettingsView!Saved(l) \/ SettingsView!Removed(l) \/ SettingsView!Failed(l)
      PROVE  UNCHANGED settings_stored
  BY <1>3 DEF SettingsView!Lose, SettingsView!ProjectAnswered,
     SettingsView!SessionAnswered, SettingsView!Saved, SettingsView!Removed, SettingsView!Failed, SettingsView!Answer
<1>4. CASE \E f \in SettingsView!Plain, v \in Model.settings.Values :
              SettingsView!SaveElsewhere(f, v)
  BY <1>4 DEF SettingsView!SaveElsewhere
<1>5. CASE UNCHANGED SettingsView!vars
  BY <1>5 DEF SettingsView!vars
<1> QED BY <1>1, <1>2, <1>3, <1>4, <1>5 DEF SettingsView!Next

(* A save of the settings from the application sends the whole project and  *)
(* still takes back nothing that others have saved: the version refuses a   *)
(* project that is no longer the stored one, and one of the same version    *)
(* differs in the user's changes only.                                      *)
THEOREM UISettingsKeepOthers == UISpec => SettingsKeepOthers
<1>1. SettingsInv /\ [UINext]_uiVars =>
        [\A m \in settings_net :
            m.kind = "put" /\ m.at = "sent" /\ m \notin settings_net' =>
               \A f \in SettingsView!Fields :
                  settings_stored'[f] # settings_stored[f] =>
                        f \in m.touched]_(SettingsView!vars)
  BY SettingsSteps, SettingsSaveStep
<1> QED BY <1>1, SettingsInvariance, PTL
        DEF UISpec, SettingsKeepOthers, SettingsView!SettingsKeepOthers

-----------------------------------------------------------------------------
(* The attributes of a project: the page of the attributes, as stored *)

Docs == AttributesView!Attribute
MessagesNumbered(i) ==
    [no : {i}, kind : {"list", "session", "post", "delete"}, doc : Docs, list : Seq(Docs),
     at : {"sent", "done", "failed"}]

EachOnce(list) == \A i, j \in DOMAIN list : list[i].id = list[j].id => i = j

(* What the service has, what the page has, and what is on its way. *)
AttributesKept ==
    /\ attributes_stored \subseteq Docs /\ IsFiniteSet(attributes_stored)
    /\ \A a \in attributes_stored : a.id \in Model.attributes.Ids
    /\ \A a, b \in attributes_stored : a.id = b.id => a = b
AttributesShown ==
    /\ attributes_attributes \in Seq(Docs) /\ EachOnce(attributes_attributes)
    /\ attributes_toEdit \in [doc : Docs, listed : BOOLEAN]
    /\ attributes_form \in Docs
AttributesSent ==
    \A m \in attributes_net : m \in MessagesNumbered(m.no) /\ EachOnce(m.list)

AttributesTyped ==
    AttributesKept /\ AttributesShown /\ AttributesSent /\ attributes_losses \in Nat

(* Attributes that are what is stored, but for those that others changed    *)
(* and some that were typed over.                                           *)
AsStored(L, but) ==
    /\ \A id : id \notin attributes_foreign =>
          ((\E a \in L : a.id = id) <=> (\E a \in attributes_stored : a.id = id))
    /\ \A a \in L : a.id \in attributes_foreign \/ a.id \in but \/ a \in attributes_stored

WithoutId(L, id) == {a \in L : a.id # id}
ListedNow == {attributes_attributes[i] : i \in DOMAIN attributes_attributes}

(* Requests of a user who waits, of which there is one at most.             *)
Calm == ~attributes_hasty /\ attributes_losses = 0
AwaitedAttributes == {m \in attributes_net : m.kind # "session"}

(* What the list will be once the answer has been handled.                  *)
Promise(m) ==
    /\ m.kind = "list" => /\ m.at # "failed"
                          /\ m.at = "done" => AsStored({m.list[i] : i \in DOMAIN m.list}, {})
    /\ m.kind = "post" =>
          IF m.at = "done"
          THEN AsStored(WithoutId(ListedNow, m.doc.id) \cup {m.doc}, attributes_typed \ {m.doc.id})
          ELSE AsStored(ListedNow, attributes_typed)
    /\ m.kind = "delete" =>
          /\ m.at # "failed" /\ m.doc.id = attributes_form.id
          /\ AsStored(IF m.at = "done" THEN WithoutId(ListedNow, attributes_form.id) ELSE ListedNow,
                      attributes_typed)

CalmInv ==
    Calm => /\ \A m, n \in AwaitedAttributes : m = n
            /\ AwaitedAttributes = {} => AsStored(ListedNow, attributes_typed)
            /\ \A m \in AwaitedAttributes : Promise(m)

LEMMA SameSize == \A S : AttributesView!Cardinality(S) = Cardinality(S)
BY Zenon DEF AttributesView!Cardinality, Cardinality

(* Members one after the other are all of them. *)
LEMMA OrderCovers ==
    ASSUME NEW S, IsFiniteSet(S), NEW list \in [1 .. Cardinality(S) -> S],
           \A i, j \in DOMAIN list : i < j => list[i] # list[j]
    PROVE  {list[i] : i \in DOMAIN list} = S
<1>1. Cardinality(S) \in Nat
  BY FS_CardinalityType
<1>2. \A i, j \in 1 .. Cardinality(S) : list[i] = list[j] => i = j
  <2>1. \A i, j \in 1 .. Cardinality(S) : i = j \/ i < j \/ j < i
    BY <1>1
  <2> QED BY <2>1
<1>3. list \in Injection(1 .. Cardinality(S), S)
  BY <1>2 DEF Injection, IsInjective
<1>4. Cardinality(1 .. Cardinality(S)) = Cardinality(S)
  BY <1>1, FS_Interval
<1>5. list \in Surjection(1 .. Cardinality(S), S)
  BY <1>3, <1>4, FS_Injection
<1> QED BY <1>5 DEF Surjection

LEMMA ListOf ==
    ASSUME NEW S, NEW n \in Nat, NEW list \in [1 .. n -> S]
    PROVE  list \in Seq(S)
OBVIOUS

LEMMA ListingOf ==
    ASSUME AttributesKept,
           NEW list \in [1 .. AttributesView!Cardinality(attributes_stored) -> attributes_stored],
           \A i, j \in DOMAIN list : i < j => list[i].id < list[j].id
    PROVE  /\ list \in Seq(Docs) /\ EachOnce(list)
           /\ {list[i] : i \in DOMAIN list} = attributes_stored
<1> DEFINE n == Cardinality(attributes_stored)
<1>1. /\ n \in Nat /\ list \in [1 .. n -> attributes_stored]
      /\ \A i, j \in DOMAIN list : i < j => list[i].id < list[j].id
  BY FS_CardinalityType, SameSize DEF AttributesKept
<1>2. \A i \in DOMAIN list : list[i].id \in Nat
  BY <1>1, AttributesAssumption DEF AttributesKept
<1>3. \A i, j \in DOMAIN list : i < j => list[i].id # list[j].id
  BY <1>1, <1>2
<1>4. {list[i] : i \in DOMAIN list} = attributes_stored
  <2>1. \A i, j \in DOMAIN list : i < j => list[i] # list[j]
    BY <1>3
  <2>2. IsFiniteSet(attributes_stored)
    BY DEF AttributesKept
  <2> QED BY <1>1, <2>1, <2>2, OrderCovers
<1>5. EachOnce(list)
  <2>1. \A i, j \in DOMAIN list : i = j \/ i < j \/ j < i
    BY <1>1
  <2> QED BY <1>3, <2>1 DEF EachOnce
<1>6. list \in Seq(Docs)
  BY <1>1 DEF AttributesKept
<1> QED BY <1>4, <1>5, <1>6

LEMMA KeptOf ==
    ASSUME AttributesShown, NEW id,
           NEW K, K = {i \in DOMAIN attributes_attributes : attributes_attributes[i].id # id},
           NEW kept \in [1 .. AttributesView!Cardinality(K) -> K],
           \A i, j \in DOMAIN kept : i < j => kept[i] < kept[j]
    PROVE  LET list == [i \in DOMAIN kept |-> attributes_attributes[kept[i]]] IN
           /\ list \in Seq(Docs) /\ EachOnce(list)
           /\ {list[i] : i \in DOMAIN list} = WithoutId(ListedNow, id)
<1> DEFINE A == attributes_attributes
           n == Cardinality(K)
           list == [i \in DOMAIN kept |-> A[kept[i]]]
<1>1. A \in Seq(Docs) /\ Len(A) \in Nat /\ DOMAIN A = 1 .. Len(A) /\ EachOnce(A)
  BY DEF AttributesShown
<1>2. IsFiniteSet(K) /\ n \in Nat
  <2>1. IsFiniteSet(1 .. Len(A))
    BY <1>1, FS_Interval
  <2>2. K \in SUBSET (1 .. Len(A))
    BY <1>1
  <2>3. IsFiniteSet(K)
    BY <2>1, <2>2, FS_Subset
  <2> QED BY <2>3, FS_CardinalityType
<1>3. /\ kept \in [1 .. n -> K]
      /\ \A i, j \in DOMAIN kept : i < j => kept[i] < kept[j]
  BY SameSize
<1>4. \A k \in K : k \in Nat /\ k \in DOMAIN A /\ A[k] \in Docs /\ A[k].id # id
  BY <1>1
<1>5. \A i, j \in DOMAIN kept : i < j => kept[i] # kept[j]
  BY <1>3, <1>4
<1>6. {kept[i] : i \in DOMAIN kept} = K
  BY <1>2, <1>3, <1>5, OrderCovers
<1>7. list \in Seq(Docs)
  <2>1. \A i \in 1 .. n : A[kept[i]] \in Docs
    BY <1>3, <1>4
  <2> HIDE DEF A
  <2>2. list \in [1 .. n -> Docs]
    BY <1>3, <2>1
  <2> HIDE DEF list, n
  <2> QED BY <1>2, <2>2, ListOf
<1>8. EachOnce(list)
  <2>1. \A i, j \in DOMAIN kept : i = j \/ i < j \/ j < i
    BY <1>2, <1>3
  <2>2. \A i, j \in DOMAIN kept : kept[i] = kept[j] => i = j
    BY <1>5, <2>1
  <2> QED BY <1>1, <1>3, <1>4, <2>2 DEF EachOnce
<1>9. {list[i] : i \in DOMAIN list} = {A[k] : k \in K}
  <2>1. {list[i] : i \in DOMAIN list} = {A[kept[i]] : i \in DOMAIN kept}
    OBVIOUS
  <2> HIDE DEF A
  <2> QED BY <1>6, <2>1
<1>10. {A[k] : k \in K} = WithoutId(ListedNow, id)
  BY DEF WithoutId, ListedNow
<1> QED BY <1>7, <1>8, <1>9, <1>10

LEMMA SavedOf ==
    ASSUME AttributesShown, NEW a \in Docs
    PROVE  LET list == AttributesView!WithSaved(attributes_attributes, a) IN
           /\ list \in Seq(Docs) /\ EachOnce(list)
           /\ {list[i] : i \in DOMAIN list} = WithoutId(ListedNow, a.id) \cup {a}
<1> DEFINE A == attributes_attributes
           list == AttributesView!WithSaved(A, a)
<1>1. A \in Seq(Docs) /\ Len(A) \in Nat /\ DOMAIN A = 1 .. Len(A) /\ EachOnce(A)
  BY DEF AttributesShown
<1>2. CASE \E i \in DOMAIN A : A[i].id = a.id
  <2>1. list = [i \in DOMAIN A |-> IF A[i].id = a.id THEN a ELSE A[i]]
    BY <1>2 DEF AttributesView!WithSaved
  <2>2. list \in Seq(Docs) /\ DOMAIN list = DOMAIN A
    BY <1>1, <2>1
  <2>3. \A i \in DOMAIN A : list[i] = IF A[i].id = a.id THEN a ELSE A[i]
    BY <2>1
  <2> HIDE DEF list
  <2>4. EachOnce(list)
    BY <1>1, <2>2, <2>3 DEF EachOnce
  <2>5. {list[i] : i \in DOMAIN list} = WithoutId(ListedNow, a.id) \cup {a}
    BY <1>2, <2>2, <2>3 DEF WithoutId, ListedNow
  <2> QED BY <2>2, <2>4, <2>5 DEF list
<1>3. CASE ~\E i \in DOMAIN A : A[i].id = a.id
  <2>1. list = Append(A, a)
    BY <1>3 DEF AttributesView!WithSaved
  <2>2. /\ list \in Seq(Docs) /\ DOMAIN list = 1 .. Len(A) + 1
        /\ \A i \in 1 .. Len(A) : list[i] = A[i]
        /\ list[Len(A) + 1] = a
    BY <1>1, <2>1
  <2> HIDE DEF list
  <2>3. \A i \in DOMAIN list : i \in DOMAIN A \/ i = Len(A) + 1
    BY <1>1, <2>2
  <2>4. EachOnce(list)
    BY <1>1, <1>3, <2>2, <2>3 DEF EachOnce
  <2>5. Len(A) + 1 \in DOMAIN list /\ DOMAIN A \subseteq DOMAIN list
    BY <1>1, <2>2
  <2>6. {list[i] : i \in DOMAIN list} = WithoutId(ListedNow, a.id) \cup {a}
    BY <1>1, <1>3, <2>2, <2>3, <2>5 DEF WithoutId, ListedNow
  <2> QED BY <2>2, <2>4, <2>6 DEF list
<1> QED BY <1>2, <1>3

LEMMA AttributesInit == UIInit => AttributesTyped /\ CalmInv
<1> SUFFICES ASSUME AttributesView!Init PROVE AttributesTyped /\ CalmInv
  BY DEF UIInit
<1> DEFINE d == AttributesView!New("TESTCASE")
<1>1. d \in Docs
  BY DEF Docs, AttributesView!New, AttributesView!Attribute, AttributesView!Types
<1>2. AttributesKept
  BY AttributesAssumption DEF AttributesView!Init, AttributesKept, Docs
<1>3. AttributesShown
  BY <1>1 DEF AttributesView!Init, AttributesShown, EachOnce
<1>4. /\ AttributesView!Request("session", d) \in MessagesNumbered(1)
      /\ AttributesView!Request("list", d) \in MessagesNumbered(1)
      /\ AttributesView!Request("session", d).kind = "session"
      /\ AttributesView!Request("list", d).kind = "list"
      /\ AttributesView!Request("list", d).at = "sent"
      /\ AttributesView!Request("session", d).list = <<>>
      /\ AttributesView!Request("list", d).list = <<>>
  BY <1>1 DEF AttributesView!Request, MessagesNumbered
<1>5. attributes_net = {AttributesView!Request("session", d), AttributesView!Request("list", d)}
      /\ attributes_losses = 0
  BY DEF AttributesView!Init
<1> HIDE DEF d
<1>6. AttributesSent
  BY <1>4, <1>5 DEF AttributesSent, EachOnce, MessagesNumbered
<1>7. CalmInv
  <2>1. AwaitedAttributes = {AttributesView!Request("list", d)}
    BY <1>4, <1>5 DEF AwaitedAttributes
  <2> QED BY <1>4, <2>1 DEF CalmInv, Promise
<1> QED BY <1>2, <1>3, <1>5, <1>6, <1>7 DEF AttributesTyped

(* A request answered by another of its kind. *)
LEMMA AttributesReplied ==
    ASSUME AttributesSent, NEW m \in attributes_net, NEW n \in MessagesNumbered(m.no),
           n.no = m.no, EachOnce(n.list), AttributesView!Reply(m, n)
    PROVE  AttributesSent'
<1>1. attributes_net' = (attributes_net \ {m}) \cup {n}
  BY DEF AttributesView!Reply
<1>2. ASSUME NEW k \in attributes_net'
      PROVE  k \in MessagesNumbered(k.no) /\ EachOnce(k.list)
  BY <1>1, <1>2 DEF AttributesSent
<1> QED BY <1>2 DEF AttributesSent, MessagesNumbered, EachOnce

LEMMA AttributesReplyCalm ==
    ASSUME CalmInv, Calm' => Calm, NEW m \in attributes_net, NEW n, n.kind = m.kind,
           AttributesView!Reply(m, n), m.kind # "session", Calm' => Promise(n)'
    PROVE  CalmInv'
<1> SUFFICES ASSUME Calm, Calm'
             PROVE  /\ \A k, l \in AwaitedAttributes' : k = l
                    /\ AwaitedAttributes' # {}
                    /\ \A k \in AwaitedAttributes' : Promise(k)'
  BY DEF CalmInv
<1>1. AwaitedAttributes = {m}
  BY DEF CalmInv, AwaitedAttributes
<1>2. AwaitedAttributes' = {n}
  BY <1>1 DEF AttributesView!Reply, AwaitedAttributes
<1> QED BY <1>2

LEMMA AttributesLost ==
    ASSUME AttributesTyped, CalmInv, NEW m \in attributes_net, AttributesView!Lose(m)
    PROVE  AttributesTyped' /\ CalmInv'
<1> DEFINE n == [m EXCEPT !.at = "failed"]
<1>1. m \in MessagesNumbered(m.no) /\ EachOnce(m.list)
  BY DEF AttributesTyped, AttributesSent
<1>2. n \in MessagesNumbered(m.no) /\ n.no = m.no /\ n.list = m.list
  BY <1>1 DEF MessagesNumbered
<1>3. AttributesView!Reply(m, n) /\ attributes_losses' = attributes_losses + 1
  BY DEF AttributesView!Lose
<1> HIDE DEF n
<1>4. AttributesSent'
  BY <1>1, <1>2, <1>3, AttributesReplied DEF AttributesTyped
<1>5. attributes_losses' \in Nat /\ attributes_losses' # 0
  BY <1>3 DEF AttributesTyped
<1>6. AttributesKept' /\ AttributesShown'
  BY DEF AttributesView!Lose, AttributesView!page, AttributesView!shown, AttributesTyped,
     AttributesKept, AttributesShown, EachOnce
<1>7. CalmInv'
  BY <1>5 DEF CalmInv, Calm
<1> QED BY <1>4, <1>5, <1>6, <1>7 DEF AttributesTyped

(* An attribute is stored, under an id that is new or that of one that is there. *)
LEMMA PutKept ==
    ASSUME AttributesKept, NEW d \in Docs, d.id \in Model.attributes.Ids,
           attributes_stored' = WithoutId(attributes_stored, d.id) \cup {d}
    PROVE  AttributesKept'
<1>1. WithoutId(attributes_stored, d.id) \in SUBSET attributes_stored
  BY DEF WithoutId
<1>2. IsFiniteSet(attributes_stored')
  BY <1>1, FS_Subset, FS_AddElement DEF AttributesKept
<1> QED BY <1>2 DEF AttributesKept, WithoutId

(* The list with what was saved is what is stored when it is.               *)
LEMMA PutPromise ==
    ASSUME NEW L, NEW d, NEW but, AsStored(L, but),
           attributes_stored' = WithoutId(attributes_stored, d.id) \cup {d},
           attributes_foreign' = attributes_foreign
    PROVE  AsStored(WithoutId(L, d.id) \cup {d}, but \ {d.id})'
<1>1. ASSUME NEW id, id \notin attributes_foreign
      PROVE  (\E a \in WithoutId(L, d.id) \cup {d} : a.id = id)
                <=> (\E a \in attributes_stored' : a.id = id)
  BY <1>1 DEF AsStored, WithoutId
<1>2. ASSUME NEW a \in WithoutId(L, d.id) \cup {d}
      PROVE  \/ a.id \in attributes_foreign \/ a.id \in but \ {d.id}
             \/ a \in attributes_stored'
  BY <1>2 DEF AsStored, WithoutId
<1> QED BY <1>1, <1>2 DEF AsStored

LEMMA RemovePromise ==
    ASSUME NEW L, NEW id, NEW but, AsStored(L, but),
           attributes_stored' = WithoutId(attributes_stored, id),
           attributes_foreign' = attributes_foreign
    PROVE  AsStored(WithoutId(L, id), but)'
BY DEF AsStored, WithoutId

LEMMA ElsewherePromise ==
    ASSUME NEW L, NEW but, AsStored(L, but), NEW a \in attributes_stored, NEW b,
           \A c \in b : c.id = a.id,
           attributes_stored' = (attributes_stored \ {a}) \cup b,
           attributes_foreign' = attributes_foreign \cup {a.id}
    PROVE  AsStored(L, but)'
BY DEF AsStored

LEMMA VersionOf ==
    ASSUME NEW a \in Docs, NEW v \in Nat
    PROVE  [a EXCEPT !.version = v] \in Docs /\ [a EXCEPT !.version = v].id = a.id
BY DEF Docs, AttributesView!Attribute

LEMMA AttributesServed ==
    ASSUME AttributesTyped, CalmInv, NEW m \in attributes_net, AttributesView!Serve(m)
    PROVE  AttributesTyped' /\ CalmInv'
<1>1. /\ m \in MessagesNumbered(m.no) /\ EachOnce(m.list)
      /\ AttributesKept /\ AttributesShown /\ AttributesSent
  BY DEF AttributesTyped, AttributesSent
<1>2. UNCHANGED <<attributes_attributes, attributes_toEdit, attributes_form, attributes_typed,
                  attributes_hasty, attributes_losses>>
  BY DEF AttributesView!Serve, AttributesView!page, AttributesView!shown, AttributesView!bounds
<1>3. AttributesShown' /\ (attributes_losses \in Nat)' /\ (Calm' <=> Calm) /\ ListedNow' = ListedNow
  BY <1>2 DEF AttributesTyped, AttributesShown, EachOnce, Calm, ListedNow
<1>4. ASSUME NEW n \in MessagesNumbered(m.no), n.no = m.no, n.kind = m.kind, EachOnce(n.list),
             AttributesView!Reply(m, n), AttributesKept',
             m.kind # "session", Calm => Promise(n)'
      PROVE  AttributesTyped' /\ CalmInv'
  <2>1. AttributesSent'
    BY <1>1, <1>4, AttributesReplied
  <2>2. CalmInv'
    BY <1>3, <1>4, AttributesReplyCalm
  <2> QED BY <1>3, <1>4, <2>1, <2>2 DEF AttributesTyped
<1>5. Calm /\ m.kind # "session" => Promise(m) /\ m \in AwaitedAttributes
  BY DEF CalmInv, AwaitedAttributes
<1>6. CASE m.kind = "list"
  <2>1. /\ UNCHANGED attributes_stored /\ attributes_foreign' = {}
        /\ \E list \in AttributesView!InOrder(attributes_stored, LAMBDA a, b : a.id < b.id) :
              AttributesView!Reply(m, [m EXCEPT !.at = "done", !.list = list])
    BY <1>6, Zenon DEF AttributesView!Serve
  <2>2. PICK list \in [1 .. AttributesView!Cardinality(attributes_stored) -> attributes_stored] :
           /\ \A i, j \in DOMAIN list : i < j => list[i].id < list[j].id
           /\ AttributesView!Reply(m, [m EXCEPT !.at = "done", !.list = list])
    BY <2>1 DEF AttributesView!InOrder
  <2> DEFINE n == [m EXCEPT !.at = "done", !.list = list]
  <2>3. /\ list \in Seq(Docs) /\ EachOnce(list)
        /\ {list[i] : i \in DOMAIN list} = attributes_stored
    BY <1>1, <2>2, ListingOf
  <2>4. /\ n \in MessagesNumbered(m.no) /\ n.no = m.no /\ n.kind = m.kind
        /\ n.list = list /\ n.at = "done"
    BY <1>1, <2>3 DEF MessagesNumbered
  <2>5. AttributesView!Reply(m, n)
    BY <2>2
  <2> HIDE DEF n
  <2>6. AttributesKept'
    BY <1>1, <2>1 DEF AttributesKept
  <2>7. AsStored({list[i] : i \in DOMAIN list}, {})'
    BY <2>1, <2>3 DEF AsStored
  <2>8. Promise(n)'
    BY <1>6, <2>4, <2>7 DEF Promise
  <2> QED BY <1>4, <1>6, <2>3, <2>4, <2>5, <2>6, <2>8
<1>7. ASSUME NEW d \in Docs, d.id \in Model.attributes.Ids, m.kind = "post",
             attributes_stored' = WithoutId(attributes_stored, d.id) \cup {d},
             UNCHANGED attributes_foreign,
             NEW n \in MessagesNumbered(m.no), n.no = m.no, n.kind = m.kind, n.list = m.list,
             n.at = "done", n.doc = d, AttributesView!Reply(m, n), m.at = "sent"
      PROVE  AttributesTyped' /\ CalmInv'
  <2>1. AttributesKept'
    BY <1>1, <1>7, PutKept
  <2>2. CASE Calm
    <3>1. AsStored(ListedNow, attributes_typed)
      BY <1>5, <1>7, <2>2 DEF Promise
    <3>2. PICK L, but : L = ListedNow /\ but = attributes_typed
      OBVIOUS
    <3>3. AsStored(WithoutId(L, d.id) \cup {d}, but \ {d.id})'
      BY <1>7, <3>1, <3>2, PutPromise
    <3>4. WithoutId(ListedNow, d.id)' = WithoutId(L, d.id) /\ attributes_typed' = but
      BY <1>2, <1>3, <3>2 DEF WithoutId
    <3>5. AsStored(WithoutId(ListedNow, n.doc.id) \cup {n.doc}, attributes_typed \ {n.doc.id})'
      BY <1>7, <3>3, <3>4 DEF AsStored
    <3>6. Promise(n)'
      BY <1>7, <3>5 DEF Promise
    <3> QED BY <1>1, <1>4, <1>7, <2>1, <3>6
  <2>3. CASE ~Calm
    BY <1>1, <1>4, <1>7, <2>1, <2>3
  <2> QED BY <2>2, <2>3
<1>8. CASE m.kind = "post" /\ m.doc.id = Model.attributes.None
  <2>1. PICK id \in Model.attributes.Ids \ AttributesView!IdsOf(attributes_stored) :
           /\ AttributesView!Reply(m, [m EXCEPT !.at = "done", !.doc.id = id, !.doc.version = 1])
           /\ attributes_stored' = attributes_stored \cup {[m.doc EXCEPT !.id = id, !.version = 1]}
    BY <1>8, Zenon DEF AttributesView!Serve
  <2>2. UNCHANGED attributes_foreign /\ m.at = "sent"
    BY <1>8 DEF AttributesView!Serve
  <2> DEFINE d == [m.doc EXCEPT !.id = id, !.version = 1]
             n == [m EXCEPT !.at = "done", !.doc.id = id, !.doc.version = 1]
  <2>3. d \in Docs /\ d.id = id
    BY <1>1, <2>1 DEF MessagesNumbered, Docs, AttributesView!Attribute
  <2>4. n = [m EXCEPT !.at = "done", !.doc = d]
    BY <1>1 DEF MessagesNumbered, Docs, AttributesView!Attribute
  <2>5. /\ n \in MessagesNumbered(m.no) /\ n.no = m.no /\ n.kind = m.kind
        /\ n.list = m.list /\ n.at = "done" /\ n.doc = d
    <3> HIDE DEF d, n
    <3> QED BY <1>1, <2>3, <2>4 DEF MessagesNumbered
  <2>6. attributes_stored' = WithoutId(attributes_stored, d.id) \cup {d}
    <3> HIDE DEF d, n
    <3>1. \A a \in attributes_stored : a.id # id
      BY <2>1 DEF AttributesView!IdsOf
    <3> QED BY <2>1, <2>3, <3>1 DEF WithoutId, d
  <2>7. AttributesView!Reply(m, n)
    BY <2>1
  <2> HIDE DEF d, n
  <2> QED BY <1>7, <1>8, <2>1, <2>2, <2>3, <2>5, <2>6, <2>7
<1>9. CASE m.kind = "post" /\ m.doc.id # Model.attributes.None
  <2>1. m.at = "sent" /\ UNCHANGED attributes_foreign
    BY <1>9 DEF AttributesView!Serve
  <2>2. CASE AttributesView!Accepted(m.doc)
    <3> DEFINE d == [m.doc EXCEPT !.version = @ + 1]
               n == [m EXCEPT !.at = "done", !.doc = d]
    <3>1. /\ attributes_stored' = {a \in attributes_stored : a.id # d.id} \cup {d}
          /\ AttributesView!Reply(m, n)
      BY <1>9, <2>2, Zenon DEF AttributesView!Serve
    <3>2. d \in Docs /\ d.id = m.doc.id
      <4>1. m.doc \in Docs
        BY <1>1 DEF MessagesNumbered
      <4>2. m.doc.version + 1 \in Nat
        BY <4>1 DEF Docs, AttributesView!Attribute
      <4> QED BY <4>1, <4>2, VersionOf
    <3> HIDE DEF d
    <3>3. d.id \in Model.attributes.Ids
      BY <1>1, <2>2, <3>2 DEF AttributesView!Accepted, AttributesKept
    <3>4. /\ n \in MessagesNumbered(m.no) /\ n.no = m.no /\ n.kind = m.kind
          /\ n.list = m.list /\ n.at = "done" /\ n.doc = d
      BY <1>1, <3>2 DEF MessagesNumbered
    <3> HIDE DEF n
    <3>5. attributes_stored' = WithoutId(attributes_stored, d.id) \cup {d}
      BY <3>1 DEF WithoutId
    <3> QED BY <1>7, <1>9, <2>1, <3>1, <3>2, <3>3, <3>4, <3>5
  <2>3. CASE ~AttributesView!Accepted(m.doc)
    <3> DEFINE n == [m EXCEPT !.at = "failed"]
    <3>1. UNCHANGED attributes_stored /\ AttributesView!Reply(m, n)
      BY <1>9, <2>3, Zenon DEF AttributesView!Serve
    <3>2. /\ n \in MessagesNumbered(m.no) /\ n.no = m.no /\ n.kind = m.kind
          /\ n.list = m.list /\ n.at = "failed"
      BY <1>1 DEF MessagesNumbered
    <3> HIDE DEF n
    <3>3. AttributesKept'
      BY <1>1, <3>1 DEF AttributesKept
    <3>4. Calm => AsStored(ListedNow, attributes_typed)
      BY <1>5, <1>9, <2>1 DEF Promise
    <3>5. Calm => AsStored(ListedNow, attributes_typed)'
      BY <1>2, <1>3, <2>1, <3>1, <3>4 DEF AsStored
    <3>6. Calm => Promise(n)'
      BY <1>9, <3>2, <3>5 DEF Promise
    <3> QED BY <1>1, <1>4, <1>9, <3>1, <3>2, <3>3, <3>6
  <2> QED BY <2>2, <2>3
<1>10. CASE m.kind = "delete"
  <2> DEFINE n == [m EXCEPT !.at = "done"]
  <2>1. /\ attributes_stored' = {a \in attributes_stored : a.id # m.doc.id}
        /\ AttributesView!Reply(m, n)
        /\ UNCHANGED attributes_foreign
        /\ m.at = "sent"
    BY <1>10, Zenon DEF AttributesView!Serve
  <2>2. /\ n \in MessagesNumbered(m.no) /\ n.no = m.no /\ n.kind = m.kind
        /\ n.list = m.list /\ n.at = "done" /\ n.doc = m.doc
    BY <1>1 DEF MessagesNumbered
  <2> HIDE DEF n
  <2>3. attributes_stored' = WithoutId(attributes_stored, m.doc.id)
        /\ attributes_stored' \in SUBSET attributes_stored
    BY <2>1 DEF WithoutId
  <2>4. IsFiniteSet(attributes_stored')
    BY <1>1, <2>3, FS_Subset DEF AttributesKept
  <2>5. AttributesKept'
    BY <1>1, <2>3, <2>4 DEF AttributesKept
  <2>6. CASE Calm
    <3>1. AsStored(ListedNow, attributes_typed) /\ m.doc.id = attributes_form.id
      BY <1>5, <1>10, <2>1, <2>6 DEF Promise
    <3>2. PICK L, but, id : L = ListedNow /\ but = attributes_typed /\ id = attributes_form.id
      OBVIOUS
    <3>3. AsStored(WithoutId(L, id), but)'
      BY <2>1, <2>3, <3>1, <3>2, RemovePromise
    <3>4. /\ WithoutId(ListedNow, attributes_form.id)' = WithoutId(L, id)
          /\ attributes_typed' = but /\ attributes_form'.id = id
      BY <1>2, <1>3, <3>2 DEF WithoutId
    <3>5. AsStored(WithoutId(ListedNow, attributes_form.id), attributes_typed)'
      BY <3>3, <3>4 DEF AsStored
    <3>6. Promise(n)'
      BY <1>2, <1>10, <2>2, <3>1, <3>5 DEF Promise
    <3> QED BY <1>1, <1>4, <1>10, <2>1, <2>2, <2>5, <3>6
  <2>7. CASE ~Calm
    BY <1>1, <1>4, <1>10, <2>1, <2>2, <2>5, <2>7
  <2> QED BY <2>6, <2>7
<1>11. CASE m.kind = "session"
  <2> DEFINE n == [m EXCEPT !.at = "done"]
  <2>1. AttributesView!Reply(m, n) /\ UNCHANGED <<attributes_stored, attributes_foreign>>
    BY <1>11, Zenon DEF AttributesView!Serve
  <2>2. /\ n \in MessagesNumbered(m.no) /\ n.no = m.no /\ n.kind = m.kind /\ n.list = m.list
    BY <1>1 DEF MessagesNumbered
  <2> HIDE DEF n
  <2>3. AttributesSent'
    BY <1>1, <2>1, <2>2, AttributesReplied
  <2>4. AwaitedAttributes' = AwaitedAttributes
    BY <1>11, <2>1, <2>2 DEF AwaitedAttributes, AttributesView!Reply
  <2>5. CalmInv'
    BY <1>2, <1>3, <2>1, <2>4 DEF CalmInv, Promise, AsStored, WithoutId
  <2>6. AttributesKept'
    BY <1>1, <2>1 DEF AttributesKept
  <2> QED BY <1>3, <2>3, <2>5, <2>6 DEF AttributesTyped
<1> QED BY <1>1, <1>6, <1>8, <1>9, <1>10, <1>11 DEF MessagesNumbered

LEMMA AttributesElsewhere ==
    ASSUME AttributesTyped, CalmInv, NEW a \in attributes_stored, NEW b,
           AttributesView!ChangeElsewhere(a, b), b \subseteq Docs, IsFiniteSet(b),
           \A c, e \in b : c.id = a.id /\ c = e
    PROVE  AttributesTyped' /\ CalmInv'
<1>1. /\ attributes_stored' = (attributes_stored \ {a}) \cup b
      /\ attributes_foreign' = attributes_foreign \cup {a.id}
      /\ UNCHANGED <<attributes_net, attributes_attributes, attributes_toEdit, attributes_form,
                     attributes_typed, attributes_hasty, attributes_losses>>
  BY DEF AttributesView!ChangeElsewhere, AttributesView!page, AttributesView!shown
<1>2. IsFiniteSet(attributes_stored')
  <2>1. attributes_stored \ {a} \in SUBSET attributes_stored
    OBVIOUS
  <2> QED BY <1>1, <2>1, FS_Subset, FS_Union DEF AttributesTyped, AttributesKept
<1>3. AttributesTyped'
  BY <1>1, <1>2
     DEF AttributesTyped, AttributesKept, AttributesShown, AttributesSent, EachOnce, MessagesNumbered
<1>4. ASSUME NEW L, NEW but, AsStored(L, but) PROVE AsStored(L, but)'
  BY <1>1, <1>4, ElsewherePromise
<1>5. ListedNow' = ListedNow /\ AwaitedAttributes' = AwaitedAttributes /\ (Calm' <=> Calm)
  BY <1>1 DEF ListedNow, AwaitedAttributes, Calm
<1>6. ASSUME NEW m \in AwaitedAttributes, Promise(m) PROVE Promise(m)'
  <2>1. \A id : WithoutId(ListedNow, id)' = WithoutId(ListedNow, id)
    BY <1>5 DEF WithoutId
  <2>2. PICK L, but, id : L = ListedNow /\ but = attributes_typed /\ id = attributes_form.id
    OBVIOUS
  <2>3. ListedNow' = L /\ attributes_typed' = but /\ attributes_form'.id = id
    BY <1>1, <1>5, <2>2
  <2>4. Promise(m) <=>
           /\ m.kind = "list" => /\ m.at # "failed"
                                 /\ m.at = "done" => AsStored({m.list[i] : i \in DOMAIN m.list}, {})
           /\ m.kind = "post" =>
                 IF m.at = "done"
                 THEN AsStored(WithoutId(L, m.doc.id) \cup {m.doc}, but \ {m.doc.id})
                 ELSE AsStored(L, but)
           /\ m.kind = "delete" =>
                 /\ m.at # "failed" /\ m.doc.id = id
                 /\ AsStored(IF m.at = "done" THEN WithoutId(L, id) ELSE L, but)
    BY <2>2 DEF Promise
  <2>5. Promise(m)' <=>
           /\ m.kind = "list" => /\ m.at # "failed"
                                 /\ m.at = "done" => AsStored({m.list[i] : i \in DOMAIN m.list}, {})'
           /\ m.kind = "post" =>
                 IF m.at = "done"
                 THEN AsStored(WithoutId(L, m.doc.id) \cup {m.doc}, but \ {m.doc.id})'
                 ELSE AsStored(L, but)'
           /\ m.kind = "delete" =>
                 /\ m.at # "failed" /\ m.doc.id = id
                 /\ AsStored(IF m.at = "done" THEN WithoutId(L, id) ELSE L, but)'
    BY <2>3 DEF Promise, AsStored, WithoutId
  <2> QED BY <1>4, <1>6, <2>4, <2>5
<1>7. AsStored(ListedNow, attributes_typed) => AsStored(ListedNow, attributes_typed)'
  <2>1. PICK L, but : L = ListedNow /\ but = attributes_typed
    OBVIOUS
  <2>2. AsStored(L, but) => AsStored(L, but)'
    BY <1>4
  <2> QED BY <1>1, <1>5, <2>1, <2>2 DEF AsStored
<1>8. CalmInv'
  BY <1>5, <1>6, <1>7 DEF CalmInv
<1> QED BY <1>3, <1>8

(* An event of a user who waits: nothing is under way but the session.      *)
LEMMA EventCalm ==
    ASSUME CalmInv, AttributesView!Event,
           Calm' /\ AwaitedAttributes = {} /\ AsStored(ListedNow, attributes_typed) =>
              \/ AwaitedAttributes' = {} /\ AsStored(ListedNow, attributes_typed)'
              \/ \E m : AwaitedAttributes' = {m} /\ Promise(m)'
    PROVE  CalmInv'
<1>1. Calm' => Calm /\ AwaitedAttributes = {}
  BY DEF AttributesView!Event, AttributesView!Waiting, Calm, AwaitedAttributes
<1> SUFFICES ASSUME Calm'
             PROVE  /\ \A k, l \in AwaitedAttributes' : k = l
                    /\ AwaitedAttributes' = {} => AsStored(ListedNow, attributes_typed)'
                    /\ \A k \in AwaitedAttributes' : Promise(k)'
  BY DEF CalmInv
<1>2. AwaitedAttributes = {} /\ AsStored(ListedNow, attributes_typed)
  BY <1>1 DEF CalmInv
<1>3. CASE AwaitedAttributes' = {} /\ AsStored(ListedNow, attributes_typed)'
  BY <1>3
<1>4. CASE \E m : AwaitedAttributes' = {m} /\ Promise(m)'
  BY <1>4
<1> QED BY <1>2, <1>3, <1>4

LEMMA AttributesTypedOver ==
    ASSUME AttributesTyped, CalmInv, NEW d \in Docs, d.id = attributes_form.id,
           AttributesView!Type(d)
    PROVE  AttributesTyped' /\ CalmInv'
<1> DEFINE A == attributes_attributes
           B == [i \in DOMAIN A |-> IF A[i].id = d.id THEN d ELSE A[i]]
<1>1. /\ AttributesView!Event
      /\ attributes_form' = d
      /\ \/ attributes_attributes' = B /\ attributes_typed' = attributes_typed \cup {d.id}
         \/ UNCHANGED <<attributes_attributes, attributes_typed>>
      /\ \/ attributes_toEdit' = [attributes_toEdit EXCEPT !.doc = d]
         \/ attributes_toEdit' = attributes_toEdit
      /\ UNCHANGED <<attributes_net, attributes_stored, attributes_losses, attributes_foreign>>
  BY DEF AttributesView!Type, AttributesView!Event
<1>2. A \in Seq(Docs) /\ Len(A) \in Nat /\ DOMAIN A = 1 .. Len(A) /\ EachOnce(A)
  BY DEF AttributesTyped, AttributesShown
<1>3. B \in Seq(Docs) /\ DOMAIN B = DOMAIN A /\ \A i \in DOMAIN A : B[i].id = A[i].id
  BY <1>2
<1>4. \A i \in DOMAIN A : B[i] = A[i] \/ B[i].id = d.id
  OBVIOUS
<1> HIDE DEF B
<1>5. EachOnce(B)
  BY <1>2, <1>3 DEF EachOnce
<1>6. attributes_attributes' \in Seq(Docs) /\ EachOnce(attributes_attributes)'
  BY <1>1, <1>2, <1>3, <1>5 DEF EachOnce
<1>7. AttributesTyped'
  <2>1. AttributesShown'
    BY <1>1, <1>6 DEF AttributesTyped, AttributesShown, EachOnce
  <2> QED BY <1>1, <2>1
          DEF AttributesTyped, AttributesKept, AttributesSent, EachOnce, MessagesNumbered
<1>8. AsStored(ListedNow, attributes_typed) => AsStored(ListedNow, attributes_typed)'
  <2> SUFFICES ASSUME AsStored(ListedNow, attributes_typed)
               PROVE  AsStored(ListedNow, attributes_typed)'
    OBVIOUS
  <2>1. CASE attributes_attributes' = B /\ attributes_typed' = attributes_typed \cup {d.id}
    <3>1. \A id : (\E a \in ListedNow' : a.id = id) <=> (\E a \in ListedNow : a.id = id)
      BY <1>3, <2>1 DEF ListedNow
    <3>2. \A a \in ListedNow' : a \in ListedNow \/ a.id = d.id
      BY <1>3, <1>4, <2>1 DEF ListedNow
    <3> QED BY <1>1, <2>1, <3>1, <3>2 DEF AsStored
  <2>2. CASE UNCHANGED <<attributes_attributes, attributes_typed>>
    BY <1>1, <2>2 DEF AsStored, ListedNow
  <2> QED BY <1>1, <2>1, <2>2
<1>9. AwaitedAttributes' = AwaitedAttributes
  BY <1>1 DEF AwaitedAttributes
<1>10. Calm /\ AttributesView!Event /\ Calm' => AwaitedAttributes = {}
  BY DEF AttributesView!Event, AttributesView!Waiting, Calm, AwaitedAttributes
<1>11. Calm' => Calm
  BY <1>1 DEF AttributesView!Event, Calm
<1>12. CalmInv'
  BY <1>1, <1>8, <1>9, <1>10, <1>11 DEF CalmInv
<1> QED BY <1>7, <1>12

LEMMA AttributeSent ==
    ASSUME AttributesTyped, NEW kind \in {"post", "delete"},
           AttributesView!Send(AttributesView!Request(kind, attributes_form))
    PROVE  /\ AttributesSent'
           /\ \E n : /\ n.kind = kind /\ n.at = "sent" /\ n.doc = attributes_form
                     /\ AwaitedAttributes' = AwaitedAttributes \cup {n}
<1> DEFINE r == AttributesView!Request(kind, attributes_form)
           i == CHOOSE i \in AttributesView!Free(kind) :
                   \A j \in AttributesView!Free(kind) : i <= j
           n == [r EXCEPT !.no = i]
<1>1. r \in MessagesNumbered(1) /\ r.kind = kind /\ r.at = "sent" /\ r.doc = attributes_form
      /\ r.list = <<>>
  BY DEF AttributesView!Request, MessagesNumbered, AttributesTyped, AttributesShown
<1> HIDE DEF r
<1>2. attributes_net' = attributes_net \cup {n}
  BY <1>1 DEF AttributesView!Send, r
<1> HIDE DEF i
<1>3. /\ n \in MessagesNumbered(n.no) /\ n.kind = kind /\ n.at = "sent"
      /\ n.doc = attributes_form /\ n.list = <<>>
  BY <1>1 DEF MessagesNumbered
<1> HIDE DEF n
<1>4. AttributesSent'
  <2>1. EachOnce(n.list)
    BY <1>3 DEF EachOnce
  <2>2. ASSUME NEW k \in attributes_net' PROVE k \in MessagesNumbered(k.no) /\ EachOnce(k.list)
    BY <1>2, <1>3, <2>1, <2>2 DEF AttributesTyped, AttributesSent
  <2> QED BY <2>2 DEF AttributesSent, MessagesNumbered, EachOnce
<1>5. AwaitedAttributes' = AwaitedAttributes \cup {n}
  BY <1>2, <1>3 DEF AwaitedAttributes
<1> QED BY <1>3, <1>4, <1>5

(* The form changes what it shows: an attribute still, of the same id. *)
LEMMA AttributesTypedIn ==
    ASSUME AttributesTyped,
           \/ \E n \in Model.attributes.Names \cup {Model.attributes.Blank} :
                 AttributesView!HandleChange(n)
           \/ \E t \in AttributesView!Types : AttributesView!HandleAttributeTypeChange(t)
           \/ AttributesView!AddValue
           \/ \E i \in DOMAIN attributes_form.values :
                 \/ AttributesView!RemoveValue(i)
                 \/ \E v \in Model.attributes.Texts : AttributesView!HandleValueChange(i, v)
    PROVE  \E d \in Docs : d.id = attributes_form.id /\ AttributesView!Type(d)
<1> DEFINE f == attributes_form
           V == Model.attributes.Texts \cup {Model.attributes.Blank}
<1>1. f \in Docs /\ f.values \in Seq(V)
  BY DEF AttributesTyped, AttributesShown, Docs, AttributesView!Attribute
<1>2. ASSUME NEW w \in Seq(V)
      PROVE  [f EXCEPT !.values = w] \in Docs /\ [f EXCEPT !.values = w].id = f.id
  BY <1>1 DEF Docs, AttributesView!Attribute
<1>3. ASSUME NEW n \in Model.attributes.Names \cup {Model.attributes.Blank},
             AttributesView!HandleChange(n)
      PROVE  \E d \in Docs : d.id = f.id /\ AttributesView!Type(d)
  <2> DEFINE d == [f EXCEPT !.name = n, !.type = "TESTCASE"]
  <2>1. d \in Docs /\ d.id = f.id
    BY <1>1 DEF Docs, AttributesView!Attribute, AttributesView!Types
  <2>2. AttributesView!Type(d)
    BY <1>3 DEF AttributesView!HandleChange
  <2> QED BY <2>1, <2>2
<1>4. ASSUME NEW t \in AttributesView!Types, AttributesView!HandleAttributeTypeChange(t)
      PROVE  \E d \in Docs : d.id = f.id /\ AttributesView!Type(d)
  <2> DEFINE d == [f EXCEPT !.type = t]
  <2>1. d \in Docs /\ d.id = f.id
    BY <1>1 DEF Docs, AttributesView!Attribute
  <2>2. AttributesView!Type(d)
    BY <1>4 DEF AttributesView!HandleAttributeTypeChange
  <2> QED BY <2>1, <2>2
<1>5. CASE AttributesView!AddValue
  <2> DEFINE w == Append(f.values, Model.attributes.Blank)
  <2>1. w \in Seq(V)
    BY <1>1
  <2>2. AttributesView!Type([f EXCEPT !.values = w])
    BY <1>5 DEF AttributesView!AddValue
  <2> QED BY <1>2, <2>1, <2>2
<1>6. ASSUME NEW i \in DOMAIN f.values, AttributesView!RemoveValue(i)
      PROVE  \E d \in Docs : d.id = f.id /\ AttributesView!Type(d)
  <2> DEFINE w == AttributesView!RemoveAt(f.values, i)
  <2>1. w \in Seq(V)
    BY <1>1 DEF AttributesView!RemoveAt
  <2>2. AttributesView!Type([f EXCEPT !.values = w])
    BY <1>6 DEF AttributesView!RemoveValue
  <2> QED BY <1>2, <2>1, <2>2
<1>7. ASSUME NEW i \in DOMAIN f.values, NEW v \in Model.attributes.Texts,
             AttributesView!HandleValueChange(i, v)
      PROVE  \E d \in Docs : d.id = f.id /\ AttributesView!Type(d)
  <2> DEFINE w == [f.values EXCEPT ![i] = v]
  <2>1. w \in Seq(V)
    BY <1>1
  <2>2. [f EXCEPT !.values[i] = v] = [f EXCEPT !.values = w]
    OBVIOUS
  <2>3. AttributesView!Type([f EXCEPT !.values = w])
    BY <1>7, <2>2 DEF AttributesView!HandleValueChange
  <2> HIDE DEF w
  <2> QED BY <1>2, <2>1, <2>3
<1> QED BY <1>3, <1>4, <1>5, <1>6, <1>7

LEMMA AttributesUser ==
    ASSUME AttributesTyped, CalmInv, AttributesView!User
    PROVE  AttributesTyped' /\ CalmInv'
<1>1. CASE \/ AttributesView!Add \/ AttributesView!Dismiss \/ AttributesView!HandleClose
           \/ \E i \in DOMAIN attributes_attributes : AttributesView!EditAttribute(i)
  <2>1. /\ UNCHANGED <<attributes_net, attributes_attributes, attributes_stored, attributes_typed,
                       attributes_foreign, attributes_losses>>
        /\ AttributesView!Event
    BY <1>1 DEF AttributesView!Add, AttributesView!Dismiss, AttributesView!HandleClose,
       AttributesView!EditAttribute, AttributesView!Event, AttributesView!page
  <2>2. attributes_toEdit' \in [doc : Docs, listed : BOOLEAN] /\ attributes_form' \in Docs
    <3>1. CASE AttributesView!Add \/ AttributesView!Dismiss
      BY <3>1 DEF AttributesView!Add, AttributesView!Dismiss, AttributesView!page,
         AttributesTyped, AttributesShown
    <3>2. CASE AttributesView!HandleClose
      <4>1. AttributesView!New(Model.attributes.Blank) \in Docs
        BY DEF AttributesView!New, Docs, AttributesView!Attribute
      <4> QED BY <3>2, <4>1 DEF AttributesView!HandleClose, AttributesView!page,
              AttributesTyped, AttributesShown
    <3>3. ASSUME NEW i \in DOMAIN attributes_attributes, AttributesView!EditAttribute(i)
          PROVE  attributes_toEdit' \in [doc : Docs, listed : BOOLEAN] /\ attributes_form' \in Docs
      <4>1. attributes_attributes[i] \in Docs
        BY DEF AttributesTyped, AttributesShown
      <4> QED BY <3>3, <4>1 DEF AttributesView!EditAttribute, AttributesView!Rendered
    <3> QED BY <1>1, <3>1, <3>2, <3>3
  <2>3. AttributesTyped'
    BY <2>1, <2>2 DEF AttributesTyped, AttributesKept, AttributesShown, AttributesSent, EachOnce,
       MessagesNumbered
  <2>4. /\ AwaitedAttributes' = AwaitedAttributes
        /\ AsStored(ListedNow, attributes_typed) => AsStored(ListedNow, attributes_typed)'
    BY <2>1 DEF AwaitedAttributes, AsStored, ListedNow
  <2>5. CalmInv'
    BY <2>1, <2>4, EventCalm
  <2> QED BY <2>3, <2>5
<1>2. CASE \/ \E n \in Model.attributes.Names \cup {Model.attributes.Blank} :
                 AttributesView!HandleChange(n)
           \/ \E t \in AttributesView!Types : AttributesView!HandleAttributeTypeChange(t)
           \/ AttributesView!AddValue
           \/ \E i \in DOMAIN attributes_form.values :
                 \/ AttributesView!RemoveValue(i)
                 \/ \E v \in Model.attributes.Texts : AttributesView!HandleValueChange(i, v)
  BY <1>2, AttributesTypedIn, AttributesTypedOver
<1>3. CASE AttributesView!HandleSubmit \/ AttributesView!HandleRemove
  <2>1. /\ UNCHANGED <<attributes_attributes, attributes_toEdit, attributes_form,
                       attributes_stored, attributes_typed, attributes_foreign, attributes_losses>>
        /\ AttributesView!Event
    BY <1>3 DEF AttributesView!HandleSubmit, AttributesView!HandleRemove, AttributesView!Event,
       AttributesView!page, AttributesView!shown
  <2>2. \/ UNCHANGED attributes_net
        \/ \E kind \in {"post", "delete"} :
              AttributesView!Send(AttributesView!Request(kind, attributes_form))
    BY <1>3 DEF AttributesView!HandleSubmit, AttributesView!HandleRemove
  <2>3. AttributesSent'
    BY <2>2, AttributeSent DEF AttributesTyped, AttributesSent, EachOnce, MessagesNumbered
  <2>4. AttributesTyped'
    BY <2>1, <2>3 DEF AttributesTyped, AttributesKept, AttributesShown, EachOnce
  <2>5. AsStored(ListedNow, attributes_typed) => AsStored(ListedNow, attributes_typed)'
    BY <2>1 DEF AsStored, ListedNow
  <2>6. \/ AwaitedAttributes' = AwaitedAttributes
        \/ \E n : /\ n.kind \in {"post", "delete"} /\ n.at = "sent" /\ n.doc = attributes_form
                  /\ AwaitedAttributes' = AwaitedAttributes \cup {n}
    BY <2>2, AttributeSent DEF AwaitedAttributes
  <2>7. ASSUME NEW n, n.kind \in {"post", "delete"}, n.at = "sent", n.doc = attributes_form,
               AsStored(ListedNow, attributes_typed)'
        PROVE  Promise(n)'
    BY <2>1, <2>7 DEF Promise
  <2>8. CalmInv'
    BY <2>1, <2>5, <2>6, <2>7, EventCalm
  <2> QED BY <2>4, <2>8
<1> QED BY <1>1, <1>2, <1>3 DEF AttributesView!User

(* With its answer handled nothing is under way, for a user who waits. *)
LEMMA AttributesAnswerCalm ==
    ASSUME CalmInv, Calm' => Calm, NEW m \in attributes_net, m.kind # "session",
           attributes_net' = attributes_net \ {m},
           Calm' => AsStored(ListedNow, attributes_typed)'
    PROVE  CalmInv'
<1>1. Calm => AwaitedAttributes = {m}
  BY DEF CalmInv, AwaitedAttributes
<1>2. Calm => AwaitedAttributes' = {}
  BY <1>1 DEF AwaitedAttributes
<1> QED BY <1>2 DEF CalmInv

LEMMA PromiseKept ==
    ASSUME NEW L, NEW but, AsStored(L, but), ListedNow' = L, attributes_typed' = but,
           UNCHANGED <<attributes_stored, attributes_foreign>>
    PROVE  AsStored(ListedNow, attributes_typed)'
BY DEF AsStored

LEMMA AttributesAnswered ==
    ASSUME AttributesTyped, CalmInv, NEW m \in attributes_net,
           \/ AttributesView!ListAnswered(m) \/ AttributesView!Saved(m)
           \/ AttributesView!Removed(m) \/ AttributesView!Failed(m)
           \/ \E b \in BOOLEAN : AttributesView!SessionAnswered(m, b)
    PROVE  AttributesTyped' /\ CalmInv'
<1>1. /\ m \in MessagesNumbered(m.no) /\ EachOnce(m.list)
      /\ AttributesKept /\ AttributesShown /\ AttributesSent
  BY DEF AttributesTyped, AttributesSent
<1>2. /\ m.doc \in Docs /\ m.list \in Seq(Docs)
      /\ m.kind \in {"list", "session", "post", "delete"}
  BY <1>1 DEF MessagesNumbered
<1>3. /\ attributes_net' = attributes_net \ {m}
      /\ UNCHANGED <<attributes_stored, attributes_foreign, attributes_losses, attributes_hasty>>
  BY DEF AttributesView!ListAnswered, AttributesView!Saved, AttributesView!Removed,
     AttributesView!Failed, AttributesView!SessionAnswered, AttributesView!Answer,
     AttributesView!bounds
<1>4. AttributesKept' /\ (attributes_losses \in Nat)' /\ (Calm' <=> Calm)
  BY <1>1, <1>3 DEF AttributesTyped, AttributesKept, Calm
<1>5. AttributesSent'
  BY <1>1, <1>3 DEF AttributesSent, MessagesNumbered, EachOnce
<1>6. Calm /\ m.kind # "session" => Promise(m)
  BY DEF CalmInv, AwaitedAttributes
<1>7. ASSUME AttributesShown', m.kind # "session",
             Calm => AsStored(ListedNow, attributes_typed)'
      PROVE  AttributesTyped' /\ CalmInv'
  BY <1>3, <1>4, <1>5, <1>7, AttributesAnswerCalm DEF AttributesTyped
<1>8. /\ AttributesView!New(Model.attributes.Blank) \in Docs
      /\ AttributesView!New(Model.attributes.None) \in Docs
  BY DEF AttributesView!New, Docs, AttributesView!Attribute
<1>9. CASE AttributesView!ListAnswered(m)
  <2>1. /\ m.kind = "list" /\ m.at = "done" /\ attributes_attributes' = m.list
        /\ attributes_toEdit' = [attributes_toEdit EXCEPT !.listed = FALSE]
        /\ attributes_form' = attributes_toEdit'.doc
        /\ attributes_typed' = {}
    BY <1>9 DEF AttributesView!ListAnswered, AttributesView!Answer, AttributesView!Rendered
  <2>2. AttributesShown'
    BY <1>1, <1>2, <2>1 DEF AttributesShown, EachOnce
  <2>3. Calm => AsStored({m.list[i] : i \in DOMAIN m.list}, {})
    BY <1>6, <2>1 DEF Promise
  <2>4. Calm => AsStored(ListedNow, attributes_typed)'
    BY <1>3, <2>1, <2>3, PromiseKept DEF ListedNow
  <2> QED BY <1>7, <2>1, <2>2, <2>4
<1>10. CASE AttributesView!Saved(m)
  <2> DEFINE list == AttributesView!WithSaved(attributes_attributes, m.doc)
  <2>1. /\ m.kind = "post" /\ m.at = "done" /\ attributes_attributes' = list
        /\ attributes_toEdit' = [doc |-> AttributesView!New(Model.attributes.None),
                                 listed |-> FALSE]
        /\ attributes_form' = AttributesView!New(Model.attributes.Blank)
        /\ attributes_typed' = attributes_typed \ {m.doc.id}
    BY <1>10 DEF AttributesView!Saved, AttributesView!Answer
  <2>2. /\ list \in Seq(Docs) /\ EachOnce(list)
        /\ {list[i] : i \in DOMAIN list} = WithoutId(ListedNow, m.doc.id) \cup {m.doc}
    BY <1>1, <1>2, SavedOf
  <2> HIDE DEF list
  <2>3. AttributesShown'
    BY <1>8, <2>1, <2>2 DEF AttributesShown, EachOnce
  <2>4. Calm => AsStored(WithoutId(ListedNow, m.doc.id) \cup {m.doc},
                         attributes_typed \ {m.doc.id})
    BY <1>6, <2>1 DEF Promise
  <2>5. ListedNow' = WithoutId(ListedNow, m.doc.id) \cup {m.doc}
    BY <2>1, <2>2 DEF ListedNow
  <2>6. Calm => AsStored(ListedNow, attributes_typed)'
    BY <1>3, <2>1, <2>4, <2>5, PromiseKept
  <2> QED BY <1>7, <2>1, <2>3, <2>6
<1>11. CASE AttributesView!Removed(m)
  <2> DEFINE id == attributes_form.id
             K == {i \in DOMAIN attributes_attributes : attributes_attributes[i].id # id}
  <2>1. /\ m.kind = "delete" /\ m.at = "done"
        /\ attributes_toEdit' = [attributes_toEdit EXCEPT
                                   !.listed = @ /\ attributes_toEdit.doc.id # id]
        /\ attributes_form' = AttributesView!New(Model.attributes.Blank)
        /\ attributes_typed' = attributes_typed
    BY <1>11 DEF AttributesView!Removed, AttributesView!Answer
  <2>2. PICK kept \in [1 .. AttributesView!Cardinality(K) -> K] :
           /\ \A i, j \in DOMAIN kept : i < j => kept[i] < kept[j]
           /\ attributes_attributes' = [i \in DOMAIN kept |-> attributes_attributes[kept[i]]]
    BY <1>11 DEF AttributesView!Removed, AttributesView!InOrder
  <2> DEFINE list == [i \in DOMAIN kept |-> attributes_attributes[kept[i]]]
  <2>10. K = {i \in DOMAIN attributes_attributes : attributes_attributes[i].id # id}
    OBVIOUS
  <2> HIDE DEF K, id
  <2>3. /\ list \in Seq(Docs) /\ EachOnce(list)
        /\ {list[i] : i \in DOMAIN list} = WithoutId(ListedNow, id)
    BY <1>1, <2>2, <2>10, KeptOf
  <2> USE DEF id
  <2>4. attributes_attributes' = list
    BY <2>2
  <2> HIDE DEF list
  <2>5. attributes_toEdit' \in [doc : Docs, listed : BOOLEAN]
    BY <1>1, <2>1 DEF AttributesShown
  <2>6. AttributesShown'
    BY <1>8, <2>1, <2>3, <2>4, <2>5 DEF AttributesShown, EachOnce
  <2>7. Calm => AsStored(WithoutId(ListedNow, id), attributes_typed)
    BY <1>6, <2>1 DEF Promise
  <2>8. ListedNow' = WithoutId(ListedNow, id)
    BY <2>3, <2>4 DEF ListedNow
  <2>9. Calm => AsStored(ListedNow, attributes_typed)'
    BY <1>3, <2>1, <2>7, <2>8, PromiseKept
  <2> QED BY <1>7, <2>1, <2>6, <2>9
<1>12. CASE AttributesView!Failed(m) \/ \E b \in BOOLEAN : AttributesView!SessionAnswered(m, b)
  <2>1. UNCHANGED <<attributes_attributes, attributes_toEdit, attributes_form, attributes_typed>>
    BY <1>12 DEF AttributesView!Failed, AttributesView!SessionAnswered, AttributesView!page,
       AttributesView!shown
  <2>2. AttributesShown' /\ ListedNow' = ListedNow
    BY <1>1, <2>1 DEF AttributesShown, EachOnce, ListedNow
  <2>3. CASE m.kind = "session"
    <3>1. AwaitedAttributes' = AwaitedAttributes
      BY <1>3, <2>3 DEF AwaitedAttributes
    <3>2. CalmInv'
      BY <1>3, <1>4, <2>1, <2>2, <3>1 DEF CalmInv, Promise, AsStored, WithoutId
    <3> QED BY <1>4, <1>5, <2>2, <3>2 DEF AttributesTyped
  <2>4. CASE m.kind # "session"
    <3>1. m.at = "failed"
      BY <1>12, <2>4 DEF AttributesView!Failed, AttributesView!SessionAnswered,
         AttributesView!Answer
    <3>2. Calm => AsStored(ListedNow, attributes_typed)
      BY <1>2, <1>6, <2>4, <3>1 DEF Promise
    <3>3. Calm => AsStored(ListedNow, attributes_typed)'
      BY <1>3, <2>1, <2>2, <3>2, PromiseKept
    <3> QED BY <1>7, <2>2, <2>4, <3>3
  <2> QED BY <2>3, <2>4
<1> QED BY <1>9, <1>10, <1>11, <1>12

LEMMA AttributesStep ==
    AttributesTyped /\ CalmInv /\ [UINext]_uiVars => AttributesTyped' /\ CalmInv'
<1> SUFFICES ASSUME AttributesTyped, CalmInv, AttributesView!Next
             PROVE  AttributesTyped' /\ CalmInv'
  <2>1. [UINext]_uiVars => AttributesView!Next \/ UNCHANGED AttributesView!vars
    BY DEF UINext, OthersIdle, uiVars, AttributesView!Idle
  <2>2. UNCHANGED AttributesView!vars /\ AttributesTyped /\ CalmInv
           => AttributesTyped' /\ CalmInv'
    <3> SUFFICES ASSUME UNCHANGED AttributesView!vars, AttributesTyped, CalmInv
                 PROVE  AttributesTyped' /\ CalmInv'
      OBVIOUS
    <3>1. UNCHANGED <<attributes_stored, attributes_net, attributes_losses, attributes_hasty,
                      attributes_attributes, attributes_toEdit, attributes_form,
                      attributes_typed, attributes_foreign>>
      BY DEF AttributesView!vars, AttributesView!page, AttributesView!shown,
         AttributesView!bounds
    <3>2. AttributesTyped'
      BY <3>1 DEF AttributesTyped, AttributesKept, AttributesShown, AttributesSent,
         MessagesNumbered, EachOnce
    <3>3. CalmInv'
      BY <3>1 DEF CalmInv, Calm, AwaitedAttributes, Promise, AsStored, WithoutId, ListedNow
    <3> QED BY <3>2, <3>3
  <2> QED BY <2>1, <2>2
<1>1. ASSUME NEW m \in attributes_net,
             \/ AttributesView!Serve(m) \/ AttributesView!Lose(m)
             \/ AttributesView!ListAnswered(m) \/ AttributesView!Saved(m)
             \/ AttributesView!Removed(m) \/ AttributesView!Failed(m)
             \/ \E b \in BOOLEAN : AttributesView!SessionAnswered(m, b)
      PROVE  AttributesTyped' /\ CalmInv'
  BY <1>1, AttributesServed, AttributesLost, AttributesAnswered
<1>2. ASSUME NEW a \in attributes_stored, AttributesView!ChangeElsewhere(a, {})
      PROVE  AttributesTyped' /\ CalmInv'
  BY <1>2, FS_EmptySet, AttributesElsewhere
<1>3. ASSUME NEW a \in attributes_stored, NEW n \in Model.attributes.Names \ {a.name},
             AttributesView!ChangeElsewhere(a, {[a EXCEPT !.name = n, !.version = @ + 1]})
      PROVE  AttributesTyped' /\ CalmInv'
  <2> DEFINE c == [a EXCEPT !.name = n, !.version = @ + 1]
  <2>1. a \in Docs
    BY DEF AttributesTyped, AttributesKept
  <2>2. c \in Docs /\ c.id = a.id
    <3> DEFINE d == [a EXCEPT !.name = n]
               v == a.version + 1
    <3>1. d \in Docs /\ d.id = a.id /\ v \in Nat
      BY <2>1 DEF Docs, AttributesView!Attribute
    <3>2. c = [d EXCEPT !.version = v]
      BY <2>1 DEF Docs, AttributesView!Attribute
    <3> HIDE DEF c, d, v
    <3> QED BY <3>1, <3>2, VersionOf
  <2> HIDE DEF c
  <2>3. IsFiniteSet({c})
    BY FS_Singleton
  <2>4. AttributesView!ChangeElsewhere(a, {c})
    BY <1>3 DEF c
  <2> QED BY <2>2, <2>3, <2>4, AttributesElsewhere
<1> QED BY <1>1, <1>2, <1>3, AttributesUser DEF AttributesView!Next

(* A list of attributes with an id each is as long as they are many. *)
LEMMA OnceCounted ==
    ASSUME AttributesShown
    PROVE  LET Listed == AttributesView!Listed IN
           /\ Listed = ListedNow
           /\ Len(attributes_attributes) = AttributesView!Cardinality(Listed)
           /\ AttributesView!Cardinality(AttributesView!IdsOf(Listed))
                 = Len(attributes_attributes)
<1> DEFINE A == attributes_attributes
           n == Len(A)
           ids == [i \in 1 .. n |-> A[i].id]
<1>1. A \in Seq(Docs) /\ n \in Nat /\ DOMAIN A = 1 .. n /\ EachOnce(A)
  BY DEF AttributesShown
<1>2. AttributesView!Listed = ListedNow
  BY DEF AttributesView!Listed, AttributesView!Range, ListedNow
<1>3. A \in Bijection(1 .. n, ListedNow)
  <2>1. A \in [1 .. n -> ListedNow] /\ \A i, j \in 1 .. n : A[i] = A[j] => i = j
    BY <1>1 DEF ListedNow, EachOnce
  <2>2. \A a \in ListedNow : \E i \in 1 .. n : A[i] = a
    BY <1>1 DEF ListedNow
  <2> QED BY <2>1, <2>2 DEF Bijection, Injection, Surjection, IsInjective
<1>4. ids \in Bijection(1 .. n, AttributesView!IdsOf(ListedNow))
  <2>1. AttributesView!IdsOf(ListedNow) = {A[i].id : i \in 1 .. n}
    BY <1>1 DEF AttributesView!IdsOf, ListedNow
  <2>2. ids \in [1 .. n -> {A[i].id : i \in 1 .. n}]
        /\ \A i, j \in 1 .. n : ids[i] = ids[j] => i = j
    BY <1>1 DEF EachOnce
  <2> QED BY <2>1, <2>2 DEF Bijection, Injection, Surjection, IsInjective
<1>5. IsFiniteSet(1 .. n) /\ Cardinality(1 .. n) = n
  BY <1>1, FS_Interval
<1>6. Cardinality(ListedNow) = n /\ Cardinality(AttributesView!IdsOf(ListedNow)) = n
  <2> HIDE DEF n, ids
  <2>1. Cardinality(ListedNow) = n
    BY <1>3, <1>5, FS_Bijection DEF ExistsBijection
  <2>2. Cardinality(AttributesView!IdsOf(ListedNow)) = n
    BY <1>4, <1>5, FS_Bijection DEF ExistsBijection
  <2> QED BY <2>1, <2>2
<1> QED BY <1>2, <1>6, SameSize

(* The list of attributes is patched by hand after every save and removal:  *)
(* for a user who waits for each answer, with none of them lost, it lists   *)
(* every attribute of the service once and as it is stored, but for those   *)
(* that others changed since and those with changes typed and not saved.    *)
THEOREM AttributesListed == UISpec => []AttributesAsStored
<1>1. AttributesTyped /\ CalmInv => AttributesAsStored
  <2> DEFINE Known(S) == {a \in S : a.id \notin attributes_foreign}
  <2> SUFFICES ASSUME AttributesTyped, CalmInv, Calm, ~AttributesView!Waiting
               PROVE  /\ AttributesView!IdsOf(Known(ListedNow))
                            = AttributesView!IdsOf(Known(attributes_stored))
                      /\ \A a \in Known(ListedNow) :
                            a.id \in attributes_typed \/ a \in attributes_stored
    <3> HIDE DEF Known
    <3> QED BY OnceCounted DEF AttributesTyped, AttributesAsStored,
            AttributesView!AttributesAsStored, Calm, Known
  <2>1. AwaitedAttributes = {}
    BY DEF AttributesView!Waiting, AwaitedAttributes
  <2>2. AsStored(ListedNow, attributes_typed)
    BY <2>1 DEF CalmInv
  <2>3. \A a \in Known(ListedNow) : a.id \in attributes_typed \/ a \in attributes_stored
    BY <2>2 DEF AsStored
  <2>4. \A id : (\E a \in Known(ListedNow) : a.id = id)
                   <=> (\E a \in Known(attributes_stored) : a.id = id)
    BY <2>2 DEF AsStored
  <2> HIDE DEF Known
  <2>5. AttributesView!IdsOf(Known(ListedNow))
           = AttributesView!IdsOf(Known(attributes_stored))
    BY <2>4 DEF AttributesView!IdsOf
  <2> QED BY <2>3, <2>5
<1> QED BY <1>1, AttributesInit, AttributesStep, PTL DEF UISpec

-----------------------------------------------------------------------------
(* The comments of a test case: the panel shows what is stored *)

(* Numbers are put in order in one way only. *)
LEMMA OneOrder ==
    ASSUME NEW K \in SUBSET Nat, NEW n \in Nat,
           NEW f \in [1 .. n -> K], NEW g \in [1 .. n -> K],
           \A i, j \in 1 .. n : i < j => f[i] < f[j] /\ g[i] < g[j],
           {f[i] : i \in 1 .. n} = K, {g[i] : i \in 1 .. n} = K
    PROVE  f = g
<1> DEFINE D == {i \in 1 .. n : f[i] # g[i]}
<1> SUFFICES ASSUME D # {} PROVE FALSE
  <2>1. D = {} => \A i \in 1 .. n : f[i] = g[i]
    OBVIOUS
  <2> HIDE DEF D
  <2>2. (\A i \in 1 .. n : f[i] = g[i]) => f = g
    OBVIOUS
  <2> QED BY <2>1, <2>2
<1>1. PICK i \in D : \A j \in D : i <= j
  <2>1. D \in SUBSET Nat
    OBVIOUS
  <2> HIDE DEF D
  <2> QED BY <2>1, LeastOf
<1>2. i \in 1 .. n /\ f[i] \in Nat /\ g[i] \in Nat /\ f[i] # g[i]
  OBVIOUS
<1>3. \A j \in 1 .. n : j < i => f[j] = g[j]
  BY <1>1
<1>4. ASSUME NEW a, NEW b, \A k \in 1 .. n : a[k] \in Nat /\ b[k] \in Nat,
             \A k, l \in 1 .. n : k < l => a[k] < a[l] /\ b[k] < b[l],
             \A k \in 1 .. n : \E l \in 1 .. n : a[k] = b[l],
             \A k \in 1 .. n : k < i => a[k] = b[k]
      PROVE  ~(a[i] < b[i])
  <2> HIDE DEF D
  <2> SUFFICES ASSUME a[i] < b[i] PROVE FALSE
    OBVIOUS
  <2>1. PICK j \in 1 .. n : a[i] = b[j]
    BY <1>2, <1>4
  <2>2. i \in 1 .. n /\ i \in Nat /\ j \in Nat
    BY <1>2
  <2>3. a[i] \in Nat /\ b[i] \in Nat
    BY <1>4, <2>2
  <2>4. a[j] \in Nat /\ b[j] \in Nat
    BY <1>4
  <2>5. i < j => b[i] < b[j]
    BY <1>2, <1>4
  <2>6. j < i => a[j] < a[i] /\ a[j] = b[j]
    BY <1>2, <1>4
  <2>7. i = j => b[i] = b[j]
    OBVIOUS
  <2> DEFINE ai == a[i]
             aj == a[j]
             bi == b[i]
             bj == b[j]
  <2>8. ai < bi /\ ai = bj
    BY <2>1
  <2>9. ai \in Nat /\ bi \in Nat /\ aj \in Nat /\ bj \in Nat
    BY <2>3, <2>4
  <2>10. /\ i < j => bi < bj
         /\ j < i => aj < ai /\ aj = bj
         /\ i = j => bi = bj
    BY <2>5, <2>6, <2>7
  <2> HIDE DEF ai, aj, bi, bj
  <2> QED BY <2>2, <2>8, <2>9, <2>10
<1>5. f[i] < g[i] \/ g[i] < f[i]
  BY <1>2
<1>6. \A k \in 1 .. n : f[k] \in Nat /\ g[k] \in Nat
  OBVIOUS
<1>7. \A k \in 1 .. n : (\E l \in 1 .. n : f[k] = g[l]) /\ \E l \in 1 .. n : g[k] = f[l]
  OBVIOUS
<1> HIDE DEF D
<1>8. ~(f[i] < g[i])
  BY <1>3, <1>4, <1>6, <1>7
<1>9. ~(g[i] < f[i])
  BY <1>3, <1>4, <1>6, <1>7
<1> QED BY <1>5, <1>8, <1>9

CommentDocs == CommentsView!Comment

(* The members of a list that are left without those of an id.              *)
LeftOf(list, id) == {i \in DOMAIN list : list[i] # Model.comments.None /\ list[i].id # id}
InOrderOf(K, k) ==
    /\ k \in [1 .. Cardinality(K) -> K]
    /\ \A i, j \in 1 .. Cardinality(K) : i < j => k[i] < k[j]

LEMMA LeftCovered ==
    ASSUME NEW K \in SUBSET Nat, IsFiniteSet(K), NEW k, InOrderOf(K, k)
    PROVE  Cardinality(K) \in Nat /\ {k[i] : i \in 1 .. Cardinality(K)} = K
<1>1. Cardinality(K) \in Nat
  BY FS_CardinalityType
<1>2. k \in [1 .. Cardinality(K) -> K] /\ DOMAIN k = 1 .. Cardinality(K)
  BY DEF InOrderOf
<1>3. \A i, j \in DOMAIN k : i < j => k[i] # k[j]
  <2>1. \A i \in DOMAIN k : k[i] \in Nat
    BY <1>2
  <2>2. \A i, j \in DOMAIN k : i < j => k[i] < k[j]
    BY <1>2 DEF InOrderOf
  <2> QED BY <2>1, <2>2
<1> QED BY <1>1, <1>2, <1>3, OrderCovers

LEMMA OthersAre ==
    ASSUME NEW S, NEW list \in Seq(S), NEW id, NEW rest \in CommentsView!Others(list, id)
    PROVE  /\ LeftOf(list, id) \in SUBSET Nat /\ IsFiniteSet(LeftOf(list, id))
           /\ \E k : /\ InOrderOf(LeftOf(list, id), k)
                     /\ rest = [i \in 1 .. Cardinality(LeftOf(list, id)) |-> list[k[i]]]
<1> DEFINE K == LeftOf(list, id)
<1>1. DOMAIN list = 1 .. Len(list) /\ Len(list) \in Nat
  OBVIOUS
<1>2. K \in SUBSET (1 .. Len(list)) /\ IsFiniteSet(K)
  <2>1. K \in SUBSET (1 .. Len(list))
    BY <1>1 DEF LeftOf
  <2> HIDE DEF K
  <2>2. IsFiniteSet(1 .. Len(list))
    BY <1>1, FS_Interval
  <2> QED BY <2>1, <2>2, FS_Subset
<1>3. CommentsView!Cardinality(K) = Cardinality(K)
  BY Zenon DEF CommentsView!Cardinality, Cardinality
<1>4. PICK k : /\ k \in [1 .. CommentsView!Cardinality(K) -> K]
               /\ \A i, j \in DOMAIN k : i < j => k[i] < k[j]
               /\ rest = [i \in DOMAIN k |-> list[k[i]]]
  BY DEF CommentsView!Others, LeftOf
<1>5. InOrderOf(K, k) /\ DOMAIN k = 1 .. Cardinality(K)
  BY <1>3, <1>4 DEF InOrderOf
<1> HIDE DEF K
<1>6. K \in SUBSET Nat
  BY <1>1, <1>2
<1>7. rest = [i \in 1 .. Cardinality(K) |-> list[k[i]]]
  BY <1>4, <1>5
<1> QED BY <1>2, <1>5, <1>6, <1>7 DEF K

LEMMA OthersTyped ==
    ASSUME NEW S, NEW list \in Seq(S), NEW id, NEW rest \in CommentsView!Others(list, id)
    PROVE  /\ rest \in Seq(S \ {Model.comments.None})
           /\ \A i \in DOMAIN rest : \E l \in DOMAIN list : rest[i] = list[l]
<1> DEFINE K == LeftOf(list, id)
           n == Cardinality(K)
<1>1. PICK k : InOrderOf(K, k) /\ rest = [i \in 1 .. n |-> list[k[i]]]
  BY OthersAre
<1>2. n \in Nat
  BY OthersAre, FS_CardinalityType
<1>3. \A i \in 1 .. n : k[i] \in K
  BY <1>1 DEF InOrderOf
<1>4. \A l \in K : l \in DOMAIN list /\ list[l] \in S \ {Model.comments.None}
  BY DEF LeftOf
<1> HIDE DEF n, K
<1>5. \A i \in 1 .. n : list[k[i]] \in S \ {Model.comments.None}
  BY <1>3, <1>4
<1>6. rest \in [1 .. n -> S \ {Model.comments.None}]
  BY <1>1, <1>5
<1>7. rest \in Seq(S \ {Model.comments.None})
  BY <1>2, <1>6, ListOf
<1>8. DOMAIN rest = 1 .. n /\ \A i \in 1 .. n : rest[i] = list[k[i]]
  BY <1>1
<1> QED BY <1>3, <1>4, <1>7, <1>8

LEMMA OthersOnce ==
    ASSUME NEW S, NEW list \in Seq(S), EachOnce(list), NEW id,
           NEW rest \in CommentsView!Others(list, id)
    PROVE  EachOnce(rest)
<1> DEFINE K == LeftOf(list, id)
           n == Cardinality(K)
<1>1. PICK k : InOrderOf(K, k) /\ rest = [i \in 1 .. n |-> list[k[i]]]
  BY OthersAre
<1>2. n \in Nat /\ K \in SUBSET Nat
  BY OthersAre, FS_CardinalityType
<1>3. \A l \in K : l \in DOMAIN list
  BY DEF LeftOf
<1> HIDE DEF n, K
<1>4. \A i \in 1 .. n : k[i] \in K /\ k[i] \in Nat
  <2>1. \A i \in 1 .. n : k[i] \in K
    BY <1>1 DEF InOrderOf, n
  <2> QED BY <1>2, <2>1
<1>5. \A i, j \in 1 .. n : i < j => k[i] < k[j]
  BY <1>1 DEF InOrderOf, n
<1>6. \A i, j \in 1 .. n : i < j => k[i] # k[j]
  BY <1>4, <1>5
<1>7. \A i, j \in 1 .. n : i = j \/ i < j \/ j < i
  BY <1>2
<1>8. \A i, j \in 1 .. n : k[i] = k[j] => i = j
  BY <1>6, <1>7
<1>9. DOMAIN rest = 1 .. n /\ \A i \in 1 .. n : rest[i] = list[k[i]]
  BY <1>1
<1> QED BY <1>3, <1>4, <1>8, <1>9 DEF EachOnce

(* The same comments in the same order, but for the text of some.           *)
SameComment(c, d, but) ==
    /\ c \in CommentDocs
    /\ c.id = d.id /\ c.version = d.version /\ c.owner = d.owner
    /\ d.id \notin but => c.text = d.text
SameList(list, now, but) ==
    /\ Len(list) = Len(now)
    /\ \A i \in DOMAIN now : SameComment(list[i], now[i], but)

LEMMA OthersSame ==
    ASSUME NEW S, NEW list \in Seq(S), NEW now \in Seq(CommentDocs), NEW but, NEW id,
           SameList(list, now, but),
           NEW rest \in CommentsView!Others(list, id), NEW kept \in CommentsView!Others(now, id)
    PROVE  SameList(rest, kept, but)
<1> DEFINE K == LeftOf(now, id)
           n == Cardinality(K)
<1>1. LeftOf(list, id) = K
  <2>1. DOMAIN list = DOMAIN now
    BY DEF SameList
  <2>2. Model.comments.None \notin CommentDocs
    BY CommentsAssumption DEF CommentDocs
  <2>3. \A i \in DOMAIN now : /\ list[i] # Model.comments.None /\ now[i] # Model.comments.None
                              /\ list[i].id = now[i].id
    BY <2>2 DEF SameList, SameComment
  <2> QED BY <2>1, <2>3 DEF LeftOf
<1>2. K \in SUBSET Nat /\ IsFiniteSet(K)
  BY OthersAre
<1>3. PICK k : InOrderOf(K, k) /\ kept = [i \in 1 .. n |-> now[k[i]]]
  BY OthersAre
<1>4. PICK l : InOrderOf(K, l) /\ rest = [i \in 1 .. n |-> list[l[i]]]
  BY <1>1, OthersAre
<1>5. \A i \in K : i \in DOMAIN now
  BY DEF LeftOf
<1> HIDE DEF K
<1>6. /\ n \in Nat
      /\ {k[i] : i \in 1 .. n} = K /\ {l[i] : i \in 1 .. n} = K
  BY <1>2, <1>3, <1>4, LeftCovered
<1>7. /\ k \in [1 .. n -> K] /\ l \in [1 .. n -> K]
      /\ \A i, j \in 1 .. n : i < j => k[i] < k[j] /\ l[i] < l[j]
  BY <1>3, <1>4 DEF InOrderOf
<1> HIDE DEF n
<1>8. k = l
  BY <1>2, <1>6, <1>7, OneOrder
<1>9. /\ DOMAIN kept = 1 .. n /\ Len(kept) = n /\ Len(rest) = n
      /\ \A i \in 1 .. n : kept[i] = now[k[i]] /\ rest[i] = list[k[i]]
  BY <1>3, <1>4, <1>6, <1>8
<1>10. \A i \in 1 .. n : k[i] \in DOMAIN now
  BY <1>5, <1>7
<1> QED BY <1>9, <1>10 DEF SameList

(* What the service, the panel and the requests hold. *)
CommentDrafts ==
    [id : Model.comments.Ids \cup {0, Model.comments.None}, version : Nat,
     text : Model.comments.Texts \cup {Model.comments.Blank}, owner : CommentsView!Owners]
CommentMessages(i) ==
    [no : {i}, kind : CommentsView!Kinds,
     entity : Model.comments.Entities \cup {Model.comments.None},
     comment : CommentDrafts, index : Nat, at : {"sent", "done", "failed"},
     answer : Seq(CommentDocs)]

CommentsKept ==
    /\ comments_stored \in [Model.comments.Entities -> Seq(CommentDocs)]
    /\ comments_lastId \in Nat
    /\ \A e \in Model.comments.Entities :
          /\ EachOnce(comments_stored[e])
          /\ \A i \in DOMAIN comments_stored[e] : comments_stored[e][i].id <= comments_lastId
CommentsShown ==
    /\ comments_comments \in Seq(CommentDocs \cup {Model.comments.None})
    /\ comments_entity \in Model.comments.Entities \cup {Model.comments.None}
    /\ comments_draft \in Model.comments.Texts \cup {Model.comments.Blank}
    /\ comments_toRemove \in Model.comments.Ids \cup {Model.comments.None}
CommentSent(m) ==
    /\ m \in CommentMessages(m.no)
    /\ m.kind = "list" => m.entity \in Model.comments.Entities
    /\ m.kind = "update" => m.comment \in CommentDocs /\ m.index # 0
    /\ m.kind \in {"add", "update"} /\ m.at = "done" => Len(m.answer) = 1
CommentsTyped ==
    CommentsKept /\ CommentsShown /\ \A m \in comments_net : CommentSent(m)

(* Requests under way while no two things have overlapped.                  *)
AwaitedComments == {m \in comments_net : m.kind # "session"}
StoredNow == comments_stored[comments_entity]

(* What the panel will show once the answer has been handled.               *)
CommentPromise(m) ==
    /\ m.entity = comments_entity /\ m.kind # "list"
    /\ m.at = "sent" => SameList(comments_comments, StoredNow, comments_typed)
    /\ m.kind = "update" => /\ m.index \in DOMAIN comments_comments
                            /\ m.comment = comments_comments[m.index]
    /\ m.kind = "remove" => m.comment.id = comments_toRemove
    /\ m.at = "done" =>
          /\ m.kind = "add" => SameList(<<m.answer[1]>> \o comments_comments, StoredNow, comments_typed)
          /\ m.kind = "update" => SameList([comments_comments EXCEPT ![m.index] = m.answer[1]],
                                        StoredNow, comments_typed \ {m.comment.id})
          /\ m.kind = "remove" =>
                \A rest \in CommentsView!Others(comments_comments, comments_toRemove) :
                   SameList(rest, StoredNow, comments_typed)

SteadyInv ==
    comments_steady =>
       /\ comments_entity \in Model.comments.Entities
       /\ comments_badge = Len(comments_comments)
       /\ \A m, n \in AwaitedComments : m = n
       /\ AwaitedComments = {} => SameList(comments_comments, StoredNow, comments_typed)
       /\ \A m \in AwaitedComments : CommentPromise(m)

LEMMA CommentsInit == UIInit => CommentsTyped /\ SteadyInv
<1> SUFFICES ASSUME CommentsView!Init PROVE CommentsTyped /\ SteadyInv
  BY DEF UIInit
<1>1. /\ comments_stored = Model.comments.Begin
      /\ comments_lastId = CommentsView!Cardinality(CommentsView!BeginIds)
      /\ comments_net = {CommentsView!Request("session")}
      /\ comments_entity = Model.comments.None /\ comments_comments = <<>>
      /\ comments_draft = Model.comments.Blank /\ comments_toRemove = Model.comments.None
      /\ comments_steady = FALSE
  BY DEF CommentsView!Init
<1>2. comments_lastId \in Nat /\ CommentsView!BeginIds = 1 .. comments_lastId
  <2> DEFINE ids == CommentsView!BeginIds
  <2>1. IsFiniteSet(ids) /\ ids = 1 .. Cardinality(ids)
    BY CommentsAssumption
  <2> HIDE DEF ids
  <2>2. Cardinality(ids) \in Nat /\ CommentsView!Cardinality(ids) = Cardinality(ids)
    BY <2>1, FS_CardinalityType, Zenon DEF CommentsView!Cardinality, Cardinality
  <2> QED BY <1>1, <2>1, <2>2 DEF ids
<1>3. CommentsKept
  <2> DEFINE begin == Model.comments.Begin
  <2>1. ASSUME NEW e \in Model.comments.Entities, NEW i \in DOMAIN begin[e]
        PROVE  begin[e][i].id <= comments_lastId
    <3>1. begin[e][i] \in CommentsView!Range(begin[e])
      BY DEF CommentsView!Range
    <3>2. begin[e][i].id \in CommentsView!BeginIds
      BY <3>1 DEF CommentsView!BeginIds
    <3> QED BY <1>2, <3>2
  <2>2. \A e \in Model.comments.Entities : EachOnce(begin[e])
    BY CommentsAssumption DEF EachOnce
  <2> QED BY <1>1, <1>2, <2>1, <2>2, CommentsAssumption DEF CommentsKept, CommentDocs
<1>4. CommentsShown
  BY <1>1 DEF CommentsShown
<1>5. CommentSent(CommentsView!Request("session"))
  BY DEF CommentSent, CommentsView!Request, CommentMessages, CommentDrafts, CommentsView!Kinds,
     CommentsView!NoComment, CommentsView!Owners
<1> QED BY <1>1, <1>3, <1>4, <1>5 DEF CommentsTyped, SteadyInv

LEMMA PutFirst ==
    ASSUME NEW S, NEW c \in S, NEW list \in Seq(S)
    PROVE  LET longer == <<c>> \o list IN
           /\ longer \in Seq(S) /\ Len(longer) = Len(list) + 1 /\ Len(list) \in Nat
           /\ DOMAIN longer = 1 .. Len(list) + 1 /\ DOMAIN list = 1 .. Len(list)
           /\ longer[1] = c
           /\ \A i \in 2 .. Len(list) + 1 : longer[i] = list[i - 1] /\ i - 1 \in DOMAIN list
           /\ \A i \in DOMAIN longer : i = 1 \/ i \in 2 .. Len(list) + 1
OBVIOUS

LEMMA PutSame ==
    ASSUME NEW S, NEW T, NEW list \in Seq(S), NEW now \in Seq(T), NEW but, NEW c \in CommentDocs,
           c \in S, c \in T, SameList(list, now, but)
    PROVE  SameList(<<c>> \o list, <<c>> \o now, but)
<1>1. PICK l : l = <<c>> \o list
  OBVIOUS
<1>2. PICK k : k = <<c>> \o now
  OBVIOUS
<1>3. /\ Len(l) = Len(list) + 1 /\ l[1] = c
      /\ \A i \in 2 .. Len(list) + 1 : l[i] = list[i - 1]
  BY <1>1, PutFirst
<1>4. /\ Len(k) = Len(now) + 1 /\ k[1] = c
      /\ \A i \in 2 .. Len(now) + 1 : k[i] = now[i - 1] /\ i - 1 \in DOMAIN now
      /\ \A i \in DOMAIN k : i = 1 \/ i \in 2 .. Len(now) + 1
  BY <1>2, PutFirst
<1>5. Len(list) = Len(now) /\ \A i \in DOMAIN now : SameComment(list[i], now[i], but)
  BY DEF SameList
<1>6. SameComment(c, c, but)
  BY DEF SameComment
<1>7. ASSUME NEW i \in DOMAIN k PROVE SameComment(l[i], k[i], but)
  BY <1>3, <1>4, <1>5, <1>6
<1> QED BY <1>1, <1>2, <1>3, <1>4, <1>5, <1>7 DEF SameList

LEMMA ChangeSame ==
    ASSUME NEW S, NEW list \in Seq(S), NEW now \in Seq(CommentDocs), EachOnce(now), NEW but,
           NEW c \in CommentDocs, SameList(list, now, but), NEW i \in DOMAIN now, c.id = now[i].id
    PROVE  SameList([list EXCEPT ![i] = c], [now EXCEPT ![i] = c], but \ {c.id})
<1>1. PICK l : l = [list EXCEPT ![i] = c]
  OBVIOUS
<1>2. PICK k : k = [now EXCEPT ![i] = c]
  OBVIOUS
<1>3. DOMAIN list = DOMAIN now /\ \A j \in DOMAIN now : SameComment(list[j], now[j], but)
  BY DEF SameList
<1>4. /\ DOMAIN l = DOMAIN list /\ Len(l) = Len(list) /\ l[i] = c
      /\ \A j \in DOMAIN list : j # i => l[j] = list[j]
  BY <1>1, <1>3
<1>5. /\ DOMAIN k = DOMAIN now /\ Len(k) = Len(now) /\ k[i] = c
      /\ \A j \in DOMAIN now : j # i => k[j] = now[j]
  BY <1>2
<1>6. \A j \in DOMAIN now : j # i => now[j].id # c.id
  BY DEF EachOnce
<1>7. ASSUME NEW j \in DOMAIN k PROVE SameComment(l[j], k[j], but \ {c.id})
  BY <1>3, <1>4, <1>5, <1>6 DEF SameComment
<1> QED BY <1>1, <1>2, <1>4, <1>5, <1>7 DEF SameList

(* The comments of one test case change. *)
LEMMA CommentsKeptWith ==
    ASSUME CommentsKept, NEW e, NEW list,
           comments_stored' = [comments_stored EXCEPT ![e] = list],
           comments_lastId' \in Nat, comments_lastId <= comments_lastId',
           e \in Model.comments.Entities =>
              /\ list \in Seq(CommentDocs) /\ EachOnce(list)
              /\ \A i \in DOMAIN list : list[i].id <= comments_lastId'
    PROVE  /\ CommentsKept'
           /\ e \in Model.comments.Entities => comments_stored'[e] = list
<1>1. /\ comments_stored \in [Model.comments.Entities -> Seq(CommentDocs)]
      /\ comments_lastId \in Nat
  BY DEF CommentsKept
<1>2. /\ comments_stored' \in [Model.comments.Entities -> Seq(CommentDocs)]
      /\ e \in Model.comments.Entities => comments_stored'[e] = list
      /\ \A d \in Model.comments.Entities : d # e => comments_stored'[d] = comments_stored[d]
  BY <1>1
<1>3. ASSUME NEW d \in Model.comments.Entities
      PROVE  EachOnce(comments_stored'[d])
  BY <1>2 DEF CommentsKept
<1>4. ASSUME NEW d \in Model.comments.Entities, NEW i \in DOMAIN comments_stored'[d]
      PROVE  comments_stored'[d][i].id <= comments_lastId'
  <2>1. CASE d = e
    BY <1>2, <2>1
  <2>2. CASE d # e
    <3>1. comments_stored'[d] = comments_stored[d] /\ comments_stored[d] \in Seq(CommentDocs)
      BY <1>1, <1>2, <2>2
    <3>2. comments_stored[d][i] \in CommentDocs /\ comments_stored[d][i].id <= comments_lastId
      BY <3>1 DEF CommentsKept
    <3>3. comments_stored[d][i].id \in Nat
      BY <3>2, CommentsAssumption DEF CommentDocs, CommentsView!Comment
    <3> QED BY <1>1, <3>1, <3>2, <3>3
  <2> QED BY <2>1, <2>2
<1> QED BY <1>2, <1>3, <1>4 DEF CommentsKept, EachOnce

LEMMA CommentIds ==
    /\ \A c \in CommentDocs : c.id \in Nat /\ c.version \in Nat
    /\ \A e \in Model.comments.Entities : CommentsKept =>
          /\ comments_stored[e] \in Seq(CommentDocs) /\ EachOnce(comments_stored[e])
          /\ \A i \in DOMAIN comments_stored[e] : comments_stored[e][i] \in CommentDocs
<1>1. \A c \in CommentDocs : c.id \in Nat /\ c.version \in Nat
  BY CommentsAssumption DEF CommentDocs, CommentsView!Comment
<1> QED BY <1>1 DEF CommentsKept

LEMMA CommentsKeptAdd ==
    ASSUME CommentsKept, NEW e, NEW c \in CommentDocs, c.id = comments_lastId + 1,
           comments_lastId' = c.id, comments_stored' = CommentsView!Written(e, c)
    PROVE  /\ CommentsKept'
           /\ e \in Model.comments.Entities => comments_stored'[e] = <<c>> \o comments_stored[e]
<1>1. PICK list : list = <<c>> \o comments_stored[e]
  OBVIOUS
<1>2. comments_stored' = [comments_stored EXCEPT ![e] = list]
  BY <1>1 DEF CommentsView!Written
<1>3. comments_lastId \in Nat /\ comments_lastId' \in Nat /\ comments_lastId <= comments_lastId'
  BY DEF CommentsKept
<1>4. ASSUME e \in Model.comments.Entities
      PROVE  /\ list \in Seq(CommentDocs) /\ EachOnce(list)
             /\ \A i \in DOMAIN list : list[i].id <= comments_lastId'
  <2> DEFINE old == comments_stored[e]
  <2>1. /\ old \in Seq(CommentDocs) /\ EachOnce(old)
        /\ \A i \in DOMAIN old : old[i].id \in Nat /\ old[i].id <= comments_lastId
    BY <1>4, CommentIds DEF CommentsKept
  <2> HIDE DEF old
  <2>2. list = <<c>> \o old
    BY <1>1 DEF old
  <2>3. /\ list \in Seq(CommentDocs) /\ list[1] = c
        /\ \A i \in 2 .. Len(old) + 1 : list[i] = old[i - 1] /\ i - 1 \in DOMAIN old
        /\ \A i \in DOMAIN list : i = 1 \/ i \in 2 .. Len(old) + 1
        /\ Len(old) \in Nat
    BY <2>1, <2>2, PutFirst
  <2>4. \A i \in 2 .. Len(old) + 1 : list[i].id \in Nat /\ list[i].id <= comments_lastId
    BY <2>1, <2>3
  <2>5. \A i \in DOMAIN list : list[i].id <= comments_lastId'
    BY <1>3, <2>3, <2>4
  <2>6. ASSUME NEW i \in DOMAIN list, NEW j \in DOMAIN list, list[i].id = list[j].id
        PROVE  i = j
    <3>1. CASE i = 1 \/ j = 1
      BY <1>3, <2>3, <2>4, <2>6, <3>1
    <3>2. CASE i # 1 /\ j # 1
      <4>1. i \in Nat /\ j \in Nat /\ i - 1 \in DOMAIN old /\ j - 1 \in DOMAIN old
            /\ old[i - 1].id = old[j - 1].id
        BY <2>3, <2>6, <3>2
      <4>2. i - 1 = j - 1
        BY <2>1, <4>1 DEF EachOnce
      <4> QED BY <4>1, <4>2
    <3> QED BY <3>1, <3>2
  <2> QED BY <2>3, <2>5, <2>6 DEF EachOnce
<1>5. CommentsKept' /\ (e \in Model.comments.Entities => comments_stored'[e] = list)
  <2>1. comments_lastId' \in Nat /\ comments_lastId <= comments_lastId'
    BY <1>3
  <2> QED BY <1>2, <1>3, <1>4, <2>1, CommentsKeptWith
<1> QED BY <1>1, <1>5

LEMMA CommentsKeptUpdate ==
    ASSUME CommentsKept, NEW e, NEW c \in CommentDocs,
           NEW i \in CommentsView!Places(comments_stored[e], c.id),
           comments_lastId' = comments_lastId,
           comments_stored' = [comments_stored EXCEPT ![e] = [comments_stored[e] EXCEPT ![i] = c]]
    PROVE  /\ CommentsKept'
           /\ e \in Model.comments.Entities =>
                 comments_stored'[e] = [comments_stored[e] EXCEPT ![i] = c]
<1>1. PICK list : list = [comments_stored[e] EXCEPT ![i] = c]
  OBVIOUS
<1>2. comments_stored' = [comments_stored EXCEPT ![e] = list]
  BY <1>1
<1>3. comments_lastId \in Nat
  BY DEF CommentsKept
<1>4. ASSUME e \in Model.comments.Entities
      PROVE  /\ list \in Seq(CommentDocs) /\ EachOnce(list)
             /\ \A j \in DOMAIN list : list[j].id <= comments_lastId'
  <2> DEFINE old == comments_stored[e]
  <2>1. /\ old \in Seq(CommentDocs) /\ EachOnce(old)
        /\ \A j \in DOMAIN old : old[j].id <= comments_lastId
    BY <1>4, CommentIds DEF CommentsKept
  <2>2. i \in DOMAIN old /\ old[i].id = c.id
    BY DEF CommentsView!Places
  <2>3. list = [old EXCEPT ![i] = c]
    BY <1>1
  <2> HIDE DEF old
  <2>4. /\ list \in Seq(CommentDocs) /\ DOMAIN list = DOMAIN old
        /\ \A j \in DOMAIN old : list[j].id = old[j].id
    BY <2>1, <2>2, <2>3
  <2> QED BY <2>1, <2>4 DEF EachOnce
<1>5. CommentsKept' /\ (e \in Model.comments.Entities => comments_stored'[e] = list)
  <2>1. comments_lastId' \in Nat /\ comments_lastId <= comments_lastId'
    BY <1>3
  <2>2. ASSUME NEW d, d = e, NEW l, l = list PROVE comments_stored' = [comments_stored EXCEPT ![d] = l]
    BY <1>2, <2>2
  <2> QED BY <1>4, <2>1, <2>2, CommentsKeptWith, Zenon
<1> QED BY <1>1, <1>5

LEMMA CommentsKeptRemove ==
    ASSUME CommentsKept, NEW e, NEW id, CommentsView!Removed(e, id),
           comments_lastId' = comments_lastId
    PROVE  /\ CommentsKept'
           /\ e \in Model.comments.Entities =>
                 comments_stored'[e] \in CommentsView!Others(comments_stored[e], id)
<1>1. PICK list \in CommentsView!Others(comments_stored[e], id) :
         comments_stored' = [comments_stored EXCEPT ![e] = list]
  BY DEF CommentsView!Removed
<1>2. comments_lastId \in Nat
  BY DEF CommentsKept
<1>3. ASSUME e \in Model.comments.Entities
      PROVE  /\ list \in Seq(CommentDocs) /\ EachOnce(list)
             /\ \A i \in DOMAIN list : list[i].id <= comments_lastId'
  <2> DEFINE old == comments_stored[e]
  <2>1. /\ old \in Seq(CommentDocs) /\ EachOnce(old)
        /\ \A i \in DOMAIN old : old[i].id <= comments_lastId
    BY <1>3, CommentIds DEF CommentsKept
  <2>2. list \in CommentsView!Others(old, id)
    OBVIOUS
  <2> HIDE DEF old
  <2>3. /\ list \in Seq(CommentDocs \ {Model.comments.None})
        /\ \A i \in DOMAIN list : \E l \in DOMAIN old : list[i] = old[l]
    BY <2>1, <2>2, OthersTyped
  <2>4. EachOnce(list)
    BY <2>1, <2>2, OthersOnce
  <2>5. list \in Seq(CommentDocs)
    BY <2>3
  <2> QED BY <2>1, <2>3, <2>4, <2>5
<1>4. CommentsKept' /\ (e \in Model.comments.Entities => comments_stored'[e] = list)
  <2>1. comments_lastId' \in Nat /\ comments_lastId <= comments_lastId'
    BY <1>2
  <2> QED BY <1>1, <1>3, <2>1, CommentsKeptWith, Zenon
<1> QED BY <1>1, <1>4

(* A request answered by another of its kind. *)
LEMMA CommentsReplied ==
    ASSUME \A k \in comments_net : CommentSent(k), NEW m, NEW n, CommentSent(n),
           comments_net' = (comments_net \ {m}) \cup {n}
    PROVE  (\A k \in comments_net : CommentSent(k))'
<1>1. \A k \in comments_net' : CommentSent(k)
  OBVIOUS
<1> QED BY <1>1 DEF CommentSent, CommentMessages, CommentDrafts, CommentDocs

AnsweredBy(m, outcome, answer) == [m EXCEPT !.at = outcome, !.answer = answer]

LEMMA ReplySent ==
    ASSUME NEW m, CommentSent(m), NEW outcome \in {"done", "failed"},
           NEW answer \in Seq(CommentDocs),
           outcome = "done" /\ m.kind \in {"add", "update"} => Len(answer) = 1,
           NEW n, n = AnsweredBy(m, outcome, answer)
    PROVE  /\ CommentSent(n) /\ n.kind = m.kind /\ n.entity = m.entity /\ n.comment = m.comment
           /\ n.index = m.index /\ n.at = outcome /\ n.answer = answer
<1>1. m \in CommentMessages(m.no)
  BY DEF CommentSent
<1>2. /\ n \in CommentMessages(m.no) /\ n.no = m.no
      /\ n.kind = m.kind /\ n.entity = m.entity /\ n.comment = m.comment
      /\ n.index = m.index /\ n.at = outcome /\ n.answer = answer
  BY <1>1 DEF CommentMessages, AnsweredBy
<1>3. CommentSent(n)
  BY <1>2 DEF CommentSent
<1> QED BY <1>2, <1>3

LEMMA CommentsReplySteady ==
    ASSUME SteadyInv, NEW m \in comments_net, NEW n, n.kind = m.kind, m.kind # "session",
           comments_net' = (comments_net \ {m}) \cup {n},
           UNCHANGED <<comments_steady, comments_entity, comments_badge, comments_comments>>,
           comments_steady /\ CommentPromise(m) /\ comments_entity \in Model.comments.Entities
              => CommentPromise(n)'
    PROVE  SteadyInv'
<1> SUFFICES ASSUME comments_steady
             PROVE  /\ comments_entity \in Model.comments.Entities
                    /\ comments_badge = Len(comments_comments)
                    /\ \A k, l \in AwaitedComments' : k = l
                    /\ AwaitedComments' # {}
                    /\ \A k \in AwaitedComments' : CommentPromise(k)'
  BY DEF SteadyInv
<1>1. AwaitedComments = {m} /\ CommentPromise(m)
  BY DEF SteadyInv, AwaitedComments
<1>2. AwaitedComments' = {n}
  BY <1>1 DEF AwaitedComments
<1> QED BY <1>1, <1>2 DEF SteadyInv

LEMMA CommentsServed ==
    ASSUME CommentsTyped, SteadyInv, NEW m \in comments_net, CommentsView!Serve(m)
    PROVE  CommentsTyped' /\ SteadyInv'
<1>1. /\ CommentsKept /\ CommentsShown /\ \A k \in comments_net : CommentSent(k)
      /\ CommentSent(m) /\ m \in CommentMessages(m.no)
  BY DEF CommentsTyped, CommentSent
<1>2. /\ m.kind \in {"session", "list", "add", "update", "remove"}
      /\ m.comment \in CommentDrafts
  BY <1>1 DEF CommentMessages, CommentsView!Kinds
<1>3. UNCHANGED <<comments_entity, comments_comments, comments_draft, comments_badge,
                  comments_toRemove, comments_steady, comments_typed>>
  BY DEF CommentsView!Serve, CommentsView!page, CommentsView!dialog, CommentsView!history
<1>4. CommentsShown' /\ m.at = "sent"
  BY <1>1, <1>3 DEF CommentsShown, CommentsView!Serve
<1>11. PICK empty : empty = <<>>
  OBVIOUS
<1>12. empty \in Seq(CommentDocs)
  BY <1>11
<1>5. ASSUME NEW n, CommentSent(n), n.kind = m.kind, m.kind # "session",
             comments_net' = (comments_net \ {m}) \cup {n}, CommentsKept',
             comments_steady /\ CommentPromise(m) /\ comments_entity \in Model.comments.Entities
                => CommentPromise(n)'
      PROVE  CommentsTyped' /\ SteadyInv'
  <2>1. (\A k \in comments_net : CommentSent(k))'
    BY <1>1, <1>5, CommentsReplied
  <2>2. SteadyInv'
    BY <1>3, <1>5, CommentsReplySteady
  <2> QED BY <1>4, <1>5, <2>1, <2>2 DEF CommentsTyped
<1>6. CASE m.kind = "session"
  <2>1. PICK n : /\ n = AnsweredBy(m, "done", empty)
                 /\ comments_net' = (comments_net \ {m}) \cup {n}
                 /\ UNCHANGED <<comments_stored, comments_lastId>>
    BY <1>11, <1>6, Zenon
       DEF CommentsView!Serve, CommentsView!Reply, CommentsView!service, AnsweredBy
  <2>2. CommentSent(n) /\ n.kind = "session"
    BY <1>12, <1>1, <1>6, <2>1, ReplySent
  <2>3. (\A k \in comments_net : CommentSent(k))'
    BY <1>1, <2>1, <2>2, CommentsReplied
  <2>4. AwaitedComments' = AwaitedComments
    BY <1>6, <2>1, <2>2 DEF AwaitedComments
  <2>5. SteadyInv'
    BY <1>3, <2>1, <2>4 DEF SteadyInv, CommentPromise, StoredNow
  <2>6. CommentsKept'
    BY <1>1, <2>1 DEF CommentsKept
  <2> QED BY <1>4, <2>3, <2>5, <2>6 DEF CommentsTyped
<1>7. CASE m.kind = "list"
  <2>1. PICK list, n : /\ list = comments_stored[m.entity]
                       /\ n = AnsweredBy(m, "done", list)
                       /\ comments_net' = (comments_net \ {m}) \cup {n}
                       /\ UNCHANGED <<comments_stored, comments_lastId>>
    BY <1>7, Zenon
       DEF CommentsView!Serve, CommentsView!Reply, CommentsView!service, AnsweredBy
  <2>2. list \in Seq(CommentDocs)
    BY <1>1, <1>7, <2>1 DEF CommentsKept, CommentSent
  <2>3. CommentSent(n) /\ n.kind = m.kind
    BY <1>1, <1>7, <2>1, <2>2, ReplySent
  <2>4. ~CommentPromise(m)
    BY <1>7 DEF CommentPromise
  <2>5. CommentsKept'
    BY <1>1, <2>1 DEF CommentsKept
  <2> QED BY <1>5, <1>7, <2>1, <2>3, <2>4, <2>5
<1>8. CASE m.kind = "add"
  <2>0. PICK c : c = [m.comment EXCEPT !.id = comments_lastId + 1, !.version = 1]
    OBVIOUS
  <2>11. PICK one : one = <<c>>
    OBVIOUS
  <2>1. PICK n :
        /\ n = AnsweredBy(m, "done", one)
        /\ comments_net' = (comments_net \ {m}) \cup {n}
        /\ c.id \in Model.comments.Ids
        /\ comments_lastId' = c.id
        /\ comments_stored' = CommentsView!Written(m.entity, c)
    BY <1>8, <2>0, <2>11, Zenon DEF CommentsView!Serve, CommentsView!Reply, AnsweredBy
  <2>2. c \in CommentDocs /\ c.id = comments_lastId + 1
    BY <1>2, <2>0, <2>1 DEF CommentDrafts, CommentDocs, CommentsView!Comment
  <2>3. one \in Seq(CommentDocs) /\ Len(one) = 1 /\ one[1] = c
    BY <2>2, <2>11
  <2>4. CommentSent(n) /\ n.kind = m.kind /\ n.entity = m.entity /\ n.at = "done"
        /\ n.answer = one
    BY <1>1, <2>1, <2>3, ReplySent
  <2>5. /\ CommentsKept'
        /\ m.entity \in Model.comments.Entities =>
              comments_stored'[m.entity] = <<c>> \o comments_stored[m.entity]
    BY <1>1, <2>1, <2>2, CommentsKeptAdd
  <2>6. ASSUME CommentPromise(m), comments_entity \in Model.comments.Entities
        PROVE  CommentPromise(n)'
    <3>1. m.entity = comments_entity /\ SameList(comments_comments, StoredNow, comments_typed)
      BY <1>4, <2>6 DEF CommentPromise
    <3>2. StoredNow \in Seq(CommentDocs)
      BY <1>1, <2>6, CommentIds DEF StoredNow
    <3>3. SameList(<<c>> \o comments_comments, <<c>> \o StoredNow, comments_typed)
      BY <1>1, <2>2, <3>1, <3>2, PutSame DEF CommentsShown
    <3>4. StoredNow' = <<c>> \o StoredNow
      BY <1>3, <2>5, <2>6, <3>1 DEF StoredNow
    <3>5. SameList(<<n.answer[1]>> \o comments_comments', StoredNow', comments_typed')
      <4>1. n.answer[1] = c
        BY <2>3, <2>4
      <4> QED BY <1>3, <3>3, <3>4, <4>1
    <3>6. /\ comments_comments' = comments_comments /\ comments_entity' = comments_entity
          /\ n.kind = "add" /\ n.at = "done" /\ n.entity = comments_entity
      BY <1>3, <1>8, <2>4, <3>1
    <3>7. SameList(<<n.answer[1]>> \o comments_comments, StoredNow, comments_typed)'
      BY <3>5, Zenon
    <3> QED BY <3>6, <3>7 DEF CommentPromise
  <2> QED BY <1>5, <1>8, <2>1, <2>4, <2>5, <2>6
<1>9. CASE m.kind = "update"
  <2>0. PICK c : c = [m.comment EXCEPT !.version = @ + 1]
    OBVIOUS
  <2>11. PICK one : one = <<c>>
    OBVIOUS
  <2> DEFINE fits == CommentsView!Fits(comments_stored[m.entity], m.comment)
  <2>1. m.comment \in CommentDocs
    BY <1>1, <1>9 DEF CommentSent
  <2>2. c \in CommentDocs /\ c.id = m.comment.id
    BY <2>0, <2>1 DEF CommentDocs, CommentsView!Comment
  <2>3. comments_lastId' = comments_lastId
    BY <1>9, Zenon DEF CommentsView!Serve
  <2>4. CASE fits # {}
    <3>1. PICK n :
          /\ n = AnsweredBy(m, "done", one)
          /\ comments_net' = (comments_net \ {m}) \cup {n}
          /\ \E i \in fits : comments_stored' = [comments_stored EXCEPT ![m.entity][i] = c]
      BY <1>9, <2>0, <2>11, <2>4, Zenon DEF CommentsView!Serve, CommentsView!Reply, AnsweredBy
    <3>2. PICK i \in fits : comments_stored' = [comments_stored EXCEPT ![m.entity][i] = c]
      BY <3>1
    <3>3. one \in Seq(CommentDocs) /\ Len(one) = 1 /\ one[1] = c
      BY <2>2, <2>11
    <3>4. CommentSent(n) /\ n.kind = m.kind /\ n.entity = m.entity /\ n.at = "done"
          /\ n.answer = one /\ n.index = m.index /\ n.comment = m.comment
      BY <1>1, <3>1, <3>3, ReplySent
    <3>5. i \in CommentsView!Places(comments_stored[m.entity], c.id)
      BY <2>2 DEF CommentsView!Fits, CommentsView!Places
    <3>6. /\ CommentsKept'
          /\ m.entity \in Model.comments.Entities =>
                comments_stored'[m.entity] = [comments_stored[m.entity] EXCEPT ![i] = c]
      <4>1. comments_stored' = [comments_stored EXCEPT
                                  ![m.entity] = [comments_stored[m.entity] EXCEPT ![i] = c]]
        BY <3>2
      <4> QED BY <1>1, <2>2, <2>3, <3>5, <4>1, CommentsKeptUpdate
    <3>7. ASSUME CommentPromise(m), comments_entity \in Model.comments.Entities
          PROVE  CommentPromise(n)'
      <4> DEFINE now == StoredNow
      <4>1. /\ m.entity = comments_entity /\ SameList(comments_comments, now, comments_typed)
            /\ m.index \in DOMAIN comments_comments /\ m.comment = comments_comments[m.index]
        BY <1>4, <1>9, <3>7 DEF CommentPromise
      <4>2. now \in Seq(CommentDocs) /\ EachOnce(now)
        BY <1>1, <3>7, CommentIds DEF StoredNow
      <4>3. i \in DOMAIN now /\ now[i].id = c.id
        BY <3>5, <4>1 DEF CommentsView!Places, StoredNow
      <4>4. now' = [now EXCEPT ![i] = c]
        BY <1>3, <3>6, <3>7, <4>1 DEF StoredNow
      <4> HIDE DEF now
      <4>5. DOMAIN comments_comments = DOMAIN now
        BY <1>1, <4>1, <4>2 DEF SameList, CommentsShown
      <4>6. m.index \in DOMAIN now /\ now[m.index].id = c.id
        BY <2>2, <4>1, <4>5 DEF SameList, SameComment
      <4>7. i = m.index
        BY <4>2, <4>3, <4>6 DEF EachOnce
      <4>8. SameList([comments_comments EXCEPT ![i] = c], [now EXCEPT ![i] = c],
                     comments_typed \ {c.id})
        BY <1>1, <2>2, <4>1, <4>2, <4>3, ChangeSame DEF CommentsShown
      <4>9. SameList([comments_comments' EXCEPT ![n.index] = n.answer[1]], now',
                     comments_typed' \ {n.comment.id})
        BY <1>3, <2>2, <3>3, <3>4, <4>4, <4>7, <4>8
      <4> QED BY <1>3, <1>9, <3>4, <4>1, <4>9 DEF CommentPromise, now
    <3> QED BY <1>5, <1>9, <3>1, <3>4, <3>6, <3>7
  <2>5. CASE fits = {}
    <3>1. PICK n : /\ n = AnsweredBy(m, "failed", empty)
                   /\ comments_net' = (comments_net \ {m}) \cup {n}
                   /\ comments_stored' = comments_stored
      BY <1>11, <1>9, <2>5, Zenon DEF CommentsView!Serve, CommentsView!Reply, AnsweredBy
    <3>2. CommentSent(n) /\ n.kind = m.kind /\ n.entity = m.entity /\ n.at = "failed"
          /\ n.index = m.index /\ n.comment = m.comment
      BY <1>12, <1>1, <3>1, ReplySent
    <3>3. CommentsKept'
      BY <1>1, <2>3, <3>1 DEF CommentsKept
    <3>4. CommentPromise(m) => CommentPromise(n)'
      BY <1>3, <1>9, <3>2 DEF CommentPromise
    <3> QED BY <1>5, <1>9, <3>1, <3>2, <3>3, <3>4
  <2> QED BY <2>4, <2>5
<1>10. CASE m.kind = "remove"
  <2> DEFINE id == m.comment.id
  <2>1. PICK n :
        /\ n = AnsweredBy(m, "done", empty)
        /\ comments_net' = (comments_net \ {m}) \cup {n}
        /\ CommentsView!Removed(m.entity, id)
        /\ comments_lastId' = comments_lastId
    BY <1>11, <1>10, Zenon DEF CommentsView!Serve, CommentsView!Reply, AnsweredBy
  <2>2. CommentSent(n) /\ n.kind = m.kind /\ n.entity = m.entity /\ n.at = "done"
        /\ n.comment = m.comment
    BY <1>12, <1>1, <1>10, <2>1, ReplySent
  <2>3. /\ CommentsKept'
        /\ m.entity \in Model.comments.Entities =>
              comments_stored'[m.entity] \in CommentsView!Others(comments_stored[m.entity], id)
    BY <1>1, <2>1, CommentsKeptRemove
  <2>4. ASSUME CommentPromise(m), comments_entity \in Model.comments.Entities
        PROVE  CommentPromise(n)'
    <3>1. /\ m.entity = comments_entity /\ SameList(comments_comments, StoredNow, comments_typed)
          /\ id = comments_toRemove
      BY <1>4, <1>10, <2>4 DEF CommentPromise
    <3>2. StoredNow \in Seq(CommentDocs)
      BY <1>1, <2>4, CommentIds DEF StoredNow
    <3>3. StoredNow' \in CommentsView!Others(StoredNow, id)
      BY <1>3, <2>3, <2>4, <3>1 DEF StoredNow
    <3>4. ASSUME NEW rest \in CommentsView!Others(comments_comments, id)
          PROVE  SameList(rest, StoredNow', comments_typed)
      BY <1>1, <3>1, <3>2, <3>3, OthersSame DEF CommentsShown
    <3>5. \A rest \in CommentsView!Others(comments_comments', comments_toRemove') :
             SameList(rest, StoredNow', comments_typed')
      BY <1>3, <3>1, <3>4
    <3>6. (\A rest \in CommentsView!Others(comments_comments, comments_toRemove) :
              SameList(rest, StoredNow, comments_typed))'
      BY <3>5 DEF CommentsView!Others
    <3> QED BY <1>3, <1>10, <2>2, <3>1, <3>6 DEF CommentPromise
  <2> QED BY <1>5, <1>10, <2>1, <2>2, <2>3, <2>4
<1> QED BY <1>2, <1>6, <1>7, <1>8, <1>9, <1>10

LEMMA CommentsLost ==
    ASSUME CommentsTyped, SteadyInv, NEW m \in comments_net, CommentsView!Lose(m)
    PROVE  CommentsTyped' /\ SteadyInv'
<1>1. /\ CommentsKept /\ CommentsShown /\ \A k \in comments_net : CommentSent(k)
      /\ CommentSent(m)
  BY DEF CommentsTyped
<1>2. UNCHANGED <<comments_stored, comments_lastId, comments_entity, comments_comments,
                  comments_draft, comments_badge, comments_toRemove, comments_steady,
                  comments_typed>>
  BY DEF CommentsView!Lose, CommentsView!service, CommentsView!page, CommentsView!dialog,
     CommentsView!history
<1>3. PICK empty : empty = <<>>
  OBVIOUS
<1>4. empty \in Seq(CommentDocs)
  BY <1>3
<1>5. PICK n : n = AnsweredBy(m, "failed", empty) /\ comments_net' = (comments_net \ {m}) \cup {n}
  BY <1>3, Zenon DEF CommentsView!Lose, CommentsView!Reply, AnsweredBy
<1>6. /\ CommentSent(n) /\ n.kind = m.kind /\ n.entity = m.entity /\ n.at = "failed"
      /\ n.index = m.index /\ n.comment = m.comment
  BY <1>1, <1>4, <1>5, ReplySent
<1>7. CommentsTyped'
  <2>1. (\A k \in comments_net : CommentSent(k))'
    BY <1>1, <1>5, <1>6, CommentsReplied
  <2>2. CommentsKept' /\ CommentsShown'
    BY <1>1, <1>2 DEF CommentsKept, CommentsShown
  <2> QED BY <2>1, <2>2 DEF CommentsTyped
<1>8. CASE m.kind # "session"
  <2>1. CommentPromise(m) => CommentPromise(n)'
    BY <1>2, <1>6 DEF CommentPromise
  <2> QED BY <1>2, <1>5, <1>6, <1>7, <1>8, <2>1, CommentsReplySteady
<1>9. CASE m.kind = "session"
  <2>1. AwaitedComments' = AwaitedComments
    BY <1>5, <1>6, <1>9 DEF AwaitedComments
  <2> QED BY <1>2, <1>7, <2>1 DEF SteadyInv, CommentPromise, StoredNow
<1> QED BY <1>8, <1>9

LEMMA CommentsElsewhere ==
    ASSUME CommentsTyped, NEW e \in Model.comments.Entities,
           \/ \E t \in Model.comments.Texts : CommentsView!WriteElsewhere(e, t)
           \/ \E id \in Model.comments.Ids : CommentsView!RemoveElsewhere(e, id)
    PROVE  CommentsTyped' /\ SteadyInv'
<1>1. /\ UNCHANGED <<comments_net, comments_entity, comments_comments, comments_draft,
                     comments_toRemove>>
      /\ comments_steady' = FALSE
  BY DEF CommentsView!WriteElsewhere, CommentsView!RemoveElsewhere, CommentsView!page,
     CommentsView!dialog
<1>2. CommentsKept'
  <2>1. CommentsKept
    BY DEF CommentsTyped
  <2>2. ASSUME NEW t \in Model.comments.Texts, CommentsView!WriteElsewhere(e, t)
        PROVE  CommentsKept'
    <3>1. PICK c : c = [id |-> comments_lastId', version |-> 1, text |-> t, owner |-> "other"]
      OBVIOUS
    <3>2. /\ comments_lastId + 1 \in Model.comments.Ids /\ comments_lastId' = comments_lastId + 1
          /\ comments_stored' = CommentsView!Written(e, c)
      BY <2>2, <3>1 DEF CommentsView!WriteElsewhere
    <3>3. c \in CommentDocs /\ c.id = comments_lastId + 1
      BY <3>1, <3>2 DEF CommentDocs, CommentsView!Comment, CommentsView!Owners
    <3> QED BY <2>1, <3>2, <3>3, CommentsKeptAdd
  <2>3. ASSUME NEW id \in Model.comments.Ids, CommentsView!RemoveElsewhere(e, id)
        PROVE  CommentsKept'
    <3>1. CommentsView!Removed(e, id) /\ comments_lastId' = comments_lastId
      BY <2>3 DEF CommentsView!RemoveElsewhere
    <3> QED BY <2>1, <3>1, CommentsKeptRemove
  <2> QED BY <2>2, <2>3
<1>3. CommentsTyped'
  BY <1>1, <1>2 DEF CommentsTyped, CommentsShown, CommentSent
<1> QED BY <1>1, <1>3 DEF SteadyInv

(* A request of the user. *)
LEMMA CommentsSend ==
    ASSUME CommentsTyped, NEW r, CommentSent(r), r.kind # "session", CommentsView!Send(r)
    PROVE  /\ (\A k \in comments_net : CommentSent(k))'
           /\ \E n : /\ n.kind = r.kind /\ n.entity = r.entity /\ n.at = r.at
                     /\ n.comment = r.comment /\ n.index = r.index
                     /\ AwaitedComments' = AwaitedComments \cup {n}
<1>1. PICK i : comments_net' = comments_net \cup {[r EXCEPT !.no = i]}
  BY DEF CommentsView!Send
<1>2. PICK n : n = [r EXCEPT !.no = i]
  OBVIOUS
<1>3. r \in CommentMessages(r.no)
  BY DEF CommentSent
<1>4. /\ n \in CommentMessages(n.no) /\ n.kind = r.kind /\ n.entity = r.entity /\ n.at = r.at
      /\ n.comment = r.comment /\ n.index = r.index /\ n.answer = r.answer
  BY <1>2, <1>3 DEF CommentMessages
<1>5. CommentSent(n)
  BY <1>4 DEF CommentSent
<1>6. \A k \in comments_net' : CommentSent(k)
  BY <1>1, <1>2, <1>5 DEF CommentsTyped
<1>7. AwaitedComments' = AwaitedComments \cup {n}
  BY <1>1, <1>2, <1>4 DEF AwaitedComments
<1> QED BY <1>4, <1>6, <1>7 DEF CommentSent, CommentMessages, CommentDrafts, CommentDocs

LEMMA CommentsSentSteady ==
    ASSUME SteadyInv, comments_steady' = (comments_steady /\ CommentsView!Quiet),
           UNCHANGED <<comments_entity, comments_badge, comments_comments, comments_typed,
                       comments_stored>>,
           \/ AwaitedComments' = AwaitedComments
           \/ \E n : AwaitedComments' = AwaitedComments \cup {n} /\
                 (SameList(comments_comments, StoredNow, comments_typed) => CommentPromise(n)')
    PROVE  SteadyInv'
<1> SUFFICES ASSUME comments_steady, CommentsView!Quiet
             PROVE  /\ comments_entity \in Model.comments.Entities
                    /\ comments_badge = Len(comments_comments)
                    /\ \A k, l \in AwaitedComments' : k = l
                    /\ AwaitedComments' = {} =>
                          SameList(comments_comments', StoredNow', comments_typed')
                    /\ \A k \in AwaitedComments' : CommentPromise(k)'
  BY DEF SteadyInv
<1>1. AwaitedComments = {}
  BY DEF AwaitedComments, CommentsView!Quiet
<1>2. /\ comments_entity \in Model.comments.Entities
      /\ comments_badge = Len(comments_comments)
      /\ SameList(comments_comments, StoredNow, comments_typed)
  BY <1>1 DEF SteadyInv
<1>3. StoredNow' = StoredNow
  BY DEF StoredNow
<1>4. CASE AwaitedComments' = AwaitedComments
  BY <1>1, <1>2, <1>3, <1>4
<1>5. ASSUME NEW n, AwaitedComments' = AwaitedComments \cup {n}, CommentPromise(n)'
      PROVE  /\ \A k, l \in AwaitedComments' : k = l
             /\ AwaitedComments' # {} /\ \A k \in AwaitedComments' : CommentPromise(k)'
  BY <1>1, <1>5
<1> QED BY <1>2, <1>4, <1>5

LEMMA RequestTyped ==
    ASSUME NEW kind \in CommentsView!Kinds, NEW q, q = CommentsView!Request(kind)
    PROVE  /\ q \in CommentMessages(1) /\ q.kind = kind /\ q.at = "sent"
           /\ q.comment \in CommentDrafts
<1>1. PICK empty : empty = <<>>
  OBVIOUS
<1>2. empty \in Seq(CommentDocs)
  BY <1>1
<1>3. PICK c : c = CommentsView!NoComment
  OBVIOUS
<1>4. c \in CommentDrafts
  BY <1>3 DEF CommentDrafts, CommentsView!NoComment, CommentsView!Owners
<1>5. q = [no |-> 1, kind |-> kind, entity |-> Model.comments.None, comment |-> c,
           index |-> 0, at |-> "sent", answer |-> empty]
  BY <1>1, <1>3, Zenon DEF CommentsView!Request
<1> QED BY <1>2, <1>4, <1>5 DEF CommentMessages

(* What the user does. *)
LEMMA CommentsUser ==
    ASSUME CommentsTyped, SteadyInv, CommentsView!User
    PROVE  CommentsTyped' /\ SteadyInv'
<1>1. /\ CommentsKept /\ CommentsShown /\ \A k \in comments_net : CommentSent(k)
  BY DEF CommentsTyped
<1>2. UNCHANGED <<comments_stored, comments_lastId>>
  BY DEF CommentsView!User, CommentsView!ReceiveProps, CommentsView!HandleChange,
     CommentsView!HandleSubmit, CommentsView!ToggleEdit, CommentsView!CancelEdit,
     CommentsView!HandleUpdateSubmit, CommentsView!HandleUpdateChange,
     CommentsView!RemoveCommentConfirmation, CommentsView!CancelRemoveCommentConfirmation,
     CommentsView!RemoveComment, CommentsView!Event, CommentsView!service
<1>3. CommentsKept'
  BY <1>1, <1>2 DEF CommentsKept
<1>4. ASSUME UNCHANGED <<comments_net, comments_entity, comments_comments, comments_badge,
                         comments_typed>>,
             comments_draft' \in Model.comments.Texts \cup {Model.comments.Blank},
             comments_toRemove' \in Model.comments.Ids \cup {Model.comments.None},
             \/ comments_steady' = (comments_steady /\ CommentsView!Quiet)
             \/ UNCHANGED <<comments_steady, comments_toRemove>>
      PROVE  CommentsTyped' /\ SteadyInv'
  <2>1. CommentsTyped'
    BY <1>1, <1>3, <1>4 DEF CommentsTyped, CommentsShown, CommentSent
  <2>2. AwaitedComments' = AwaitedComments
    BY <1>4 DEF AwaitedComments
  <2>3. CASE comments_steady' = (comments_steady /\ CommentsView!Quiet)
    BY <1>2, <1>4, <2>1, <2>2, <2>3, CommentsSentSteady
  <2>4. CASE UNCHANGED <<comments_steady, comments_toRemove>>
    BY <1>2, <1>4, <2>1, <2>2, <2>4 DEF SteadyInv, CommentPromise, StoredNow
  <2> QED BY <1>4, <2>1, <2>3, <2>4
<1>5. ASSUME NEW r, CommentSent(r), r.kind # "session", r.at = "sent", CommentsView!Send(r),
             UNCHANGED <<comments_entity, comments_comments, comments_draft, comments_badge,
                         comments_toRemove, comments_typed>>,
             comments_steady' = (comments_steady /\ CommentsView!Quiet),
             r.entity = comments_entity, r.kind # "list",
             r.kind = "update" => /\ r.index \in DOMAIN comments_comments
                                  /\ r.comment = comments_comments[r.index],
             r.kind = "remove" => r.comment.id = comments_toRemove
      PROVE  CommentsTyped' /\ SteadyInv'
  <2>1. PICK n : /\ n.kind = r.kind /\ n.entity = r.entity /\ n.at = r.at
                 /\ n.comment = r.comment /\ n.index = r.index
                 /\ AwaitedComments' = AwaitedComments \cup {n}
    BY <1>5, CommentsSend
  <2>2. (\A k \in comments_net : CommentSent(k))'
    BY <1>5, CommentsSend
  <2>3. CommentsTyped'
    BY <1>1, <1>3, <1>5, <2>2 DEF CommentsTyped, CommentsShown
  <2>4. SameList(comments_comments, StoredNow, comments_typed) => CommentPromise(n)'
    BY <1>2, <1>5, <2>1 DEF CommentPromise, StoredNow
  <2>5. SteadyInv'
    BY <1>2, <1>5, <2>1, <2>4, CommentsSentSteady
  <2> QED BY <2>3, <2>5
<1>6. ASSUME NEW e \in Model.comments.Entities, CommentsView!ReceiveProps(e)
      PROVE  CommentsTyped' /\ SteadyInv'
  <2>1. /\ UNCHANGED <<comments_comments, comments_badge, comments_toRemove, comments_typed>>
        /\ comments_entity' = e /\ comments_draft' = Model.comments.Blank
        /\ comments_steady' = (comments_steady /\ CommentsView!Quiet /\ e = comments_entity)
    BY <1>6 DEF CommentsView!ReceiveProps, CommentsView!dialog
  <2>2. CASE e = comments_entity
    <3>1. UNCHANGED comments_net
      BY <1>6, <2>2 DEF CommentsView!ReceiveProps
    <3> QED BY <1>1, <1>4, <2>1, <2>2, <3>1 DEF CommentsShown
  <2>3. CASE e # comments_entity
    <3>1. PICK r : r = [CommentsView!Request("list") EXCEPT !.entity = e]
      OBVIOUS
    <3>2. CommentsView!Send(r)
      BY <1>6, <2>3, <3>1 DEF CommentsView!ReceiveProps
    <3>3. CommentSent(r) /\ r.kind # "session"
      <4>1. PICK q : q = CommentsView!Request("list")
        OBVIOUS
      <4>2. q \in CommentMessages(1) /\ q.kind = "list" /\ q.at = "sent"
        BY <4>1, RequestTyped DEF CommentsView!Kinds
      <4>3. r = [q EXCEPT !.entity = e]
        BY <3>1, <4>1
      <4> QED BY <4>2, <4>3 DEF CommentSent, CommentMessages
    <3>4. (\A k \in comments_net : CommentSent(k))'
      BY <3>2, <3>3, CommentsSend
    <3>5. CommentsTyped'
      BY <1>1, <1>3, <2>1, <3>4 DEF CommentsTyped, CommentsShown
    <3> QED BY <2>1, <2>3, <3>5 DEF SteadyInv
  <2> QED BY <2>2, <2>3
<1>7. ASSUME NEW t \in Model.comments.Texts, CommentsView!HandleChange(t)
      PROVE  CommentsTyped' /\ SteadyInv'
  <2>1. /\ UNCHANGED <<comments_net, comments_entity, comments_comments, comments_badge,
                       comments_toRemove, comments_typed, comments_steady>>
        /\ comments_draft' = t
    BY <1>7 DEF CommentsView!HandleChange, CommentsView!dialog, CommentsView!history
  <2> QED BY <1>1, <1>4, <2>1 DEF CommentsShown
<1>8. ASSUME CommentsView!HandleSubmit
      PROVE  CommentsTyped' /\ SteadyInv'
  <2>1. PICK r : r = [CommentsView!Request("add") EXCEPT !.entity = comments_entity,
                                                         !.comment.text = comments_draft]
    OBVIOUS
  <2>2. /\ CommentsView!Send(r)
        /\ UNCHANGED <<comments_entity, comments_comments, comments_draft, comments_badge,
                       comments_toRemove, comments_typed>>
        /\ comments_steady' = (comments_steady /\ CommentsView!Quiet)
    BY <1>8, <2>1 DEF CommentsView!HandleSubmit, CommentsView!page, CommentsView!dialog
  <2>3. CommentSent(r) /\ r.kind = "add" /\ r.at = "sent" /\ r.entity = comments_entity
    <3>1. PICK q, c : q = CommentsView!Request("add") /\ c = [q.comment EXCEPT !.text = comments_draft]
      OBVIOUS
    <3>2. /\ q \in CommentMessages(1) /\ q.kind = "add" /\ q.at = "sent"
          /\ q.comment \in CommentDrafts
      BY <3>1, RequestTyped DEF CommentsView!Kinds
    <3>3. c \in CommentDrafts /\ c.text = comments_draft
      BY <1>1, <3>1, <3>2 DEF CommentDrafts, CommentsShown
    <3>4. r = [q EXCEPT !.entity = comments_entity, !.comment = c]
      BY <2>1, <3>1
    <3>5. r \in CommentMessages(1) /\ r.kind = q.kind /\ r.at = q.at
          /\ r.entity = comments_entity /\ r.comment = c
      BY <1>1, <3>2, <3>3, <3>4 DEF CommentMessages, CommentsShown
    <3> QED BY <3>2, <3>3, <3>5 DEF CommentSent, CommentMessages
  <2> QED BY <1>5, <2>2, <2>3
<1>9. ASSUME NEW i \in DOMAIN comments_comments,
             CommentsView!ToggleEdit(i) \/ CommentsView!CancelEdit(i)
      PROVE  CommentsTyped' /\ SteadyInv'
  <2>1. UNCHANGED <<comments_net, comments_entity, comments_comments, comments_draft,
                    comments_badge, comments_toRemove, comments_typed, comments_steady>>
    BY <1>9 DEF CommentsView!ToggleEdit, CommentsView!CancelEdit, CommentsView!dialog,
       CommentsView!history
  <2> QED BY <1>1, <1>4, <2>1 DEF CommentsShown
<1>10. ASSUME NEW i \in DOMAIN comments_comments, CommentsView!HandleUpdateSubmit(i)
       PROVE  CommentsTyped' /\ SteadyInv'
  <2>1. PICK r : r = [CommentsView!Request("update") EXCEPT
                        !.entity = comments_entity, !.comment = comments_comments[i], !.index = i]
    OBVIOUS
  <2>2. /\ CommentsView!Send(r)
        /\ UNCHANGED <<comments_entity, comments_comments, comments_draft, comments_badge,
                       comments_toRemove, comments_typed>>
        /\ comments_steady' = (comments_steady /\ CommentsView!Quiet)
        /\ comments_comments[i] # Model.comments.None
    BY <1>10, <2>1
       DEF CommentsView!HandleUpdateSubmit, CommentsView!page, CommentsView!dialog
  <2>3. comments_comments[i] \in CommentDocs /\ i \in Nat /\ i # 0
    BY <1>1, <2>2 DEF CommentsShown
  <2>4. comments_comments[i] \in CommentDrafts
    BY <2>3 DEF CommentDocs, CommentDrafts, CommentsView!Comment
  <2>5. /\ CommentSent(r) /\ r.kind = "update" /\ r.at = "sent" /\ r.entity = comments_entity
        /\ r.index = i /\ r.comment = comments_comments[i]
    <3>1. PICK q, c : q = CommentsView!Request("update") /\ c = comments_comments[i]
      OBVIOUS
    <3>2. q \in CommentMessages(1) /\ q.kind = "update" /\ q.at = "sent"
      BY <3>1, RequestTyped DEF CommentsView!Kinds
    <3>3. r = [q EXCEPT !.entity = comments_entity, !.comment = c, !.index = i]
      BY <2>1, <3>1
    <3>4. r \in CommentMessages(1) /\ r.kind = q.kind /\ r.at = q.at
          /\ r.entity = comments_entity /\ r.comment = c /\ r.index = i
      BY <1>1, <2>3, <2>4, <3>1, <3>2, <3>3 DEF CommentMessages, CommentsShown
    <3> QED BY <2>3, <3>1, <3>2, <3>4 DEF CommentSent, CommentMessages
  <2> QED BY <1>5, <2>2, <2>5
<1>11. ASSUME NEW i \in DOMAIN comments_comments, NEW t \in Model.comments.Texts,
              CommentsView!HandleUpdateChange(i, t)
       PROVE  CommentsTyped' /\ SteadyInv'
  <2>1. PICK list, c : /\ c = comments_comments[i] /\ list = [comments_comments EXCEPT ![i].text = t]
    OBVIOUS
  <2>2. /\ comments_comments' = list /\ c # Model.comments.None
        /\ comments_typed' = comments_typed \cup {c.id}
        /\ comments_steady' = (comments_steady /\ CommentsView!Quiet)
        /\ UNCHANGED <<comments_net, comments_entity, comments_draft, comments_badge,
                       comments_toRemove>>
    BY <1>11, <2>1
       DEF CommentsView!HandleUpdateChange, CommentsView!Rendered, CommentsView!dialog
  <2>3. c \in CommentDocs /\ comments_comments \in Seq(CommentDocs \cup {Model.comments.None})
    BY <1>1, <2>1, <2>2 DEF CommentsShown
  <2>4. PICK d : /\ d = [c EXCEPT !.text = t]
                 /\ list = [comments_comments EXCEPT ![i] = d]
    BY <2>1
  <2>5. d \in CommentDocs /\ d.id = c.id /\ d.version = c.version /\ d.owner = c.owner
    BY <2>3, <2>4 DEF CommentDocs, CommentsView!Comment
  <2>6. /\ list \in Seq(CommentDocs \cup {Model.comments.None})
        /\ Len(list) = Len(comments_comments) /\ list[i] = d
        /\ \A j \in DOMAIN comments_comments : j # i => list[j] = comments_comments[j]
        /\ DOMAIN comments_comments = 1 .. Len(comments_comments)
    BY <2>3, <2>4, <2>5
  <2>7. CommentsTyped'
    BY <1>1, <1>3, <2>2, <2>6 DEF CommentsTyped, CommentsShown, CommentSent
  <2>8. SteadyInv'
    <3> SUFFICES ASSUME comments_steady, CommentsView!Quiet
                 PROVE  /\ comments_entity \in Model.comments.Entities
                        /\ comments_badge = Len(list)
                        /\ AwaitedComments' = {}
                        /\ SameList(list, StoredNow, comments_typed \cup {c.id})
      BY <1>2, <2>2 DEF SteadyInv, StoredNow
    <3>1. AwaitedComments = {} /\ AwaitedComments' = {}
      BY <2>2 DEF AwaitedComments, CommentsView!Quiet
    <3>2. /\ comments_entity \in Model.comments.Entities
          /\ comments_badge = Len(comments_comments)
          /\ SameList(comments_comments, StoredNow, comments_typed)
      BY <3>1 DEF SteadyInv
    <3>3. StoredNow \in Seq(CommentDocs)
      BY <1>1, <3>2, CommentIds DEF StoredNow
    <3>4. DOMAIN StoredNow = DOMAIN comments_comments
      BY <2>3, <3>2, <3>3 DEF SameList
    <3>5. SameComment(c, StoredNow[i], comments_typed)
      BY <2>1, <3>2, <3>4 DEF SameList
    <3>6. SameComment(d, StoredNow[i], comments_typed \cup {c.id})
      BY <2>5, <3>5 DEF SameComment
    <3>7. \A j \in DOMAIN StoredNow :
             SameComment(comments_comments[j], StoredNow[j], comments_typed \cup {c.id})
      BY <3>2 DEF SameList, SameComment
    <3>8. SameList(list, StoredNow, comments_typed \cup {c.id})
      BY <2>6, <3>2, <3>4, <3>6, <3>7 DEF SameList
    <3> QED BY <2>6, <3>1, <3>2, <3>8
  <2> QED BY <2>7, <2>8
<1>12. ASSUME NEW i \in DOMAIN comments_comments, CommentsView!RemoveCommentConfirmation(i)
       PROVE  CommentsTyped' /\ SteadyInv'
  <2>1. /\ UNCHANGED <<comments_net, comments_entity, comments_comments, comments_draft,
                       comments_badge, comments_typed>>
        /\ comments_steady' = (comments_steady /\ CommentsView!Quiet)
        /\ comments_toRemove' = comments_comments[i].id
        /\ comments_comments[i] # Model.comments.None
    BY <1>12 DEF CommentsView!RemoveCommentConfirmation, CommentsView!page
  <2>2. comments_comments[i].id \in Model.comments.Ids
    BY <1>1, <2>1 DEF CommentsShown, CommentDocs, CommentsView!Comment
  <2> QED BY <1>1, <1>4, <2>1, <2>2 DEF CommentsShown
<1>13. ASSUME CommentsView!CancelRemoveCommentConfirmation
       PROVE  CommentsTyped' /\ SteadyInv'
  <2>1. /\ UNCHANGED <<comments_net, comments_entity, comments_comments, comments_draft,
                       comments_badge, comments_typed>>
        /\ comments_steady' = (comments_steady /\ CommentsView!Quiet)
        /\ comments_toRemove' = Model.comments.None
    BY <1>13 DEF CommentsView!CancelRemoveCommentConfirmation, CommentsView!page
  <2> QED BY <1>1, <1>4, <2>1 DEF CommentsShown
<1>14. ASSUME CommentsView!RemoveComment
       PROVE  CommentsTyped' /\ SteadyInv'
  <2>1. PICK r : r = [CommentsView!Request("remove") EXCEPT !.entity = comments_entity,
                                                            !.comment.id = comments_toRemove]
    OBVIOUS
  <2>2. /\ CommentsView!Send(r)
        /\ UNCHANGED <<comments_entity, comments_comments, comments_draft, comments_badge,
                       comments_toRemove, comments_typed>>
        /\ comments_steady' = (comments_steady /\ CommentsView!Quiet)
    BY <1>14, <2>1 DEF CommentsView!RemoveComment, CommentsView!page, CommentsView!dialog
  <2>3. /\ CommentSent(r) /\ r.kind = "remove" /\ r.at = "sent" /\ r.entity = comments_entity
        /\ r.comment.id = comments_toRemove
    <3>1. PICK q, c : q = CommentsView!Request("remove") /\ c = [q.comment EXCEPT !.id = comments_toRemove]
      OBVIOUS
    <3>2. /\ q \in CommentMessages(1) /\ q.kind = "remove" /\ q.at = "sent"
          /\ q.comment \in CommentDrafts
      BY <3>1, RequestTyped DEF CommentsView!Kinds
    <3>3. c \in CommentDrafts /\ c.id = comments_toRemove
      BY <1>1, <3>1, <3>2 DEF CommentDrafts, CommentsShown
    <3>4. r = [q EXCEPT !.entity = comments_entity, !.comment = c]
      BY <2>1, <3>1
    <3>5. r \in CommentMessages(1) /\ r.kind = q.kind /\ r.at = q.at
          /\ r.entity = comments_entity /\ r.comment = c
      BY <1>1, <3>2, <3>3, <3>4 DEF CommentMessages, CommentsShown
    <3> QED BY <3>2, <3>3, <3>5 DEF CommentSent, CommentMessages
  <2> QED BY <1>5, <2>2, <2>3
<1> QED BY <1>6, <1>7, <1>8, <1>9, <1>10, <1>11, <1>12, <1>13, <1>14 DEF CommentsView!User

LEMMA CommentsAnsweredAll ==
    ASSUME CommentsTyped, SteadyInv, NEW m \in comments_net,
           \/ \E who \in {"user", "admin"} : CommentsView!SessionAnswered(m, who)
           \/ CommentsView!CommentsAnswered(m) \/ CommentsView!CommentCreated(m)
           \/ CommentsView!CommentUpdated(m) \/ CommentsView!CommentRemoved(m)
           \/ CommentsView!Failed(m)
    PROVE  CommentsTyped' /\ SteadyInv'
<1> USE DEF CommentsView!Answer, CommentsView!service, CommentsView!page, CommentsView!dialog,
            CommentsView!history, CommentsView!Rendered, CommentsView!Counted
<1>1. /\ CommentsKept /\ CommentsShown /\ \A k \in comments_net : CommentSent(k)
      /\ CommentSent(m) /\ m \in CommentMessages(m.no)
      /\ m.answer \in Seq(CommentDocs) /\ m.index \in Nat
  BY DEF CommentsTyped, CommentSent, CommentMessages
<1>2. UNCHANGED <<comments_stored, comments_lastId, comments_entity>>
      /\ comments_net' = comments_net \ {m}
  BY DEF CommentsView!SessionAnswered, CommentsView!CommentsAnswered,
     CommentsView!CommentCreated, CommentsView!CommentUpdated, CommentsView!CommentRemoved,
     CommentsView!Failed
<1>3. /\ CommentsKept' /\ (\A k \in comments_net : CommentSent(k))' /\ StoredNow' = StoredNow
      /\ comments_entity' \in Model.comments.Entities \cup {Model.comments.None}
  BY <1>1, <1>2 DEF CommentsKept, CommentSent, CommentsShown, StoredNow
<1>4. ASSUME m.kind # "session", CommentsShown', comments_steady' = comments_steady,
             comments_steady /\ CommentPromise(m) /\ comments_entity \in Model.comments.Entities =>
                /\ comments_badge = Len(comments_comments) => comments_badge' = Len(comments_comments')
                /\ SameList(comments_comments', StoredNow, comments_typed')
      PROVE  CommentsTyped' /\ SteadyInv'
  <2>1. SteadyInv'
    <3> SUFFICES ASSUME comments_steady
                 PROVE  /\ comments_entity \in Model.comments.Entities
                        /\ comments_badge' = Len(comments_comments')
                        /\ AwaitedComments' = {}
                        /\ SameList(comments_comments', StoredNow, comments_typed')
      BY <1>2, <1>3, <1>4 DEF SteadyInv
    <3>1. AwaitedComments = {m} /\ CommentPromise(m)
      BY <1>4 DEF SteadyInv, AwaitedComments
    <3>2. AwaitedComments' = {}
      BY <1>2, <3>1 DEF AwaitedComments
    <3> QED BY <1>4, <3>1, <3>2 DEF SteadyInv
  <2> QED BY <1>3, <1>4, <2>1 DEF CommentsTyped
<1>5. ASSUME NEW who, CommentsView!SessionAnswered(m, who)
      PROVE  CommentsTyped' /\ SteadyInv'
  <2>1. /\ m.kind = "session"
        /\ UNCHANGED <<comments_comments, comments_draft, comments_badge, comments_toRemove,
                       comments_steady, comments_typed>>
    BY <1>5 DEF CommentsView!SessionAnswered
  <2>2. AwaitedComments' = AwaitedComments
    BY <1>2, <2>1 DEF AwaitedComments
  <2> QED BY <1>1, <1>2, <1>3, <2>1, <2>2
          DEF CommentsTyped, CommentsShown, SteadyInv, CommentPromise
<1>6. ASSUME CommentsView!CommentsAnswered(m)
      PROVE  CommentsTyped' /\ SteadyInv'
  <2>1. /\ m.kind = "list" /\ comments_comments' = m.answer /\ comments_typed' = {}
        /\ comments_badge' = Len(m.answer) /\ comments_draft' = Model.comments.Blank
        /\ UNCHANGED comments_toRemove
        /\ comments_steady' = (CommentsView!Alone(m) /\ m.entity = comments_entity
                                /\ m.answer = StoredNow)
    BY <1>6 DEF CommentsView!CommentsAnswered, StoredNow
  <2>2. CommentsTyped'
    BY <1>1, <1>3, <2>1 DEF CommentsTyped, CommentsShown
  <2>3. SteadyInv'
    <3> SUFFICES ASSUME CommentsView!Alone(m), m.entity = comments_entity, m.answer = StoredNow
                 PROVE  /\ comments_entity \in Model.comments.Entities
                        /\ AwaitedComments' = {}
                        /\ SameList(m.answer, StoredNow, {})
      BY <1>2, <1>3, <2>1 DEF SteadyInv
    <3>1. m.entity \in Model.comments.Entities
      BY <1>1, <2>1 DEF CommentSent
    <3>2. AwaitedComments' = {}
      BY <1>2 DEF AwaitedComments, CommentsView!Alone
    <3>3. SameList(m.answer, StoredNow, {})
      BY <1>1 DEF SameList, SameComment
    <3> QED BY <3>1, <3>2, <3>3
  <2> QED BY <2>2, <2>3
<1>7. ASSUME CommentsView!CommentCreated(m)
      PROVE  CommentsTyped' /\ SteadyInv'
  <2>1. PICK list : list = <<m.answer[1]>> \o comments_comments
    OBVIOUS
  <2>2. /\ m.kind = "add" /\ m.at = "done" /\ comments_comments' = list
        /\ comments_badge' = Len(list) /\ comments_draft' = Model.comments.Blank
        /\ UNCHANGED <<comments_toRemove, comments_steady, comments_typed>>
    BY <1>7, <2>1 DEF CommentsView!CommentCreated, CommentsView!WithNew
  <2>3. m.answer[1] \in CommentDocs
    BY <1>1, <2>2 DEF CommentSent
  <2>4. list \in Seq(CommentDocs \cup {Model.comments.None})
    BY <1>1, <2>1, <2>3, PutFirst DEF CommentsShown
  <2>5. CommentsShown'
    BY <1>1, <1>3, <2>2, <2>4 DEF CommentsShown
  <2>6. CommentPromise(m) => SameList(list, StoredNow, comments_typed)
    BY <2>1, <2>2 DEF CommentPromise
  <2> QED BY <1>4, <2>2, <2>5, <2>6
<1>8. ASSUME CommentsView!CommentUpdated(m)
      PROVE  CommentsTyped' /\ SteadyInv'
  <2> DEFINE S == CommentDocs \cup {Model.comments.None}
  <2>1. PICK n, k : n = Len(comments_comments) /\ k = m.index - 1 - n
    OBVIOUS
  <2>2. PICK holes : holes = [i \in 1 .. k |-> Model.comments.None]
    OBVIOUS
  <2>3. PICK list : list = IF m.index <= n
                             THEN [comments_comments EXCEPT ![m.index] = m.answer[1]]
                             ELSE comments_comments \o holes \o m.answer
    OBVIOUS
  <2>4. /\ m.kind = "update" /\ m.at = "done" /\ comments_comments' = list
        /\ comments_typed' = comments_typed \ {m.comment.id}
        /\ UNCHANGED <<comments_toRemove, comments_steady, comments_badge, comments_draft>>
    BY <1>8, <2>1, <2>2, <2>3 DEF CommentsView!CommentUpdated
  <2>5. m.answer[1] \in CommentDocs /\ m.index # 0 /\ m.index \in Nat
    BY <1>1, <2>4 DEF CommentSent
  <2>6. comments_comments \in Seq(S) /\ n \in Nat /\ DOMAIN comments_comments = 1 .. n
    BY <1>1, <2>1 DEF CommentsShown
  <2>7. list \in Seq(S)
    <3>1. CASE m.index <= n
      BY <2>3, <2>5, <2>6, <3>1
    <3>2. CASE ~(m.index <= n)
      <4>1. k \in Nat
        BY <2>1, <2>5, <2>6, <3>2
      <4>2. holes \in [1 .. k -> S]
        BY <2>2
      <4>3. holes \in Seq(S)
        BY <4>1, <4>2, ListOf
      <4>4. m.answer \in Seq(S)
        BY <1>1
      <4> HIDE DEF S
      <4>5. comments_comments \o holes \in Seq(S)
        BY <2>6, <4>3
      <4>6. (comments_comments \o holes) \o m.answer \in Seq(S)
        BY <4>4, <4>5
      <4> QED BY <2>3, <3>2, <4>6
    <3> QED BY <3>1, <3>2
  <2>8. CommentsShown'
    BY <1>1, <1>3, <2>4, <2>7 DEF CommentsShown
  <2>9. ASSUME CommentPromise(m)
        PROVE  /\ Len(list) = Len(comments_comments)
               /\ SameList(list, StoredNow, comments_typed')
    <3>1. m.index \in 1 .. n
      BY <2>4, <2>6, <2>9 DEF CommentPromise
    <3>2. list = [comments_comments EXCEPT ![m.index] = m.answer[1]]
      <4>1. m.index <= n
        BY <2>6, <3>1
      <4> QED BY <2>3, <4>1
    <3>3. SameList(list, StoredNow, comments_typed')
      BY <2>4, <2>9, <3>2 DEF CommentPromise
    <3> QED BY <2>6, <3>2, <3>3
  <2> QED BY <1>4, <2>4, <2>8, <2>9
<1>9. ASSUME CommentsView!CommentRemoved(m)
      PROVE  CommentsTyped' /\ SteadyInv'
  <2>1. PICK list \in CommentsView!Others(comments_comments, comments_toRemove) :
           /\ comments_comments' = list
           /\ comments_badge' = Len(list) /\ comments_draft' = Model.comments.Blank
    BY <1>9 DEF CommentsView!CommentRemoved
  <2>2. /\ m.kind = "remove" /\ m.at = "done" /\ comments_toRemove' = Model.comments.None
        /\ UNCHANGED <<comments_steady, comments_typed>>
    BY <1>9 DEF CommentsView!CommentRemoved
  <2>3. list \in Seq((CommentDocs \cup {Model.comments.None}) \ {Model.comments.None})
    BY <1>1, OthersTyped DEF CommentsShown
  <2>4. list \in Seq(CommentDocs \cup {Model.comments.None})
    BY <2>3
  <2>5. CommentsShown'
    BY <1>1, <1>3, <2>1, <2>2, <2>4 DEF CommentsShown
  <2>6. CommentPromise(m) => SameList(list, StoredNow, comments_typed)
    BY <2>2 DEF CommentPromise
  <2> QED BY <1>4, <2>1, <2>2, <2>5, <2>6
<1>10. ASSUME CommentsView!Failed(m)
       PROVE  CommentsTyped' /\ SteadyInv'
  <2>1. comments_steady' = FALSE
        /\ UNCHANGED <<comments_comments, comments_draft, comments_toRemove>>
    BY <1>10 DEF CommentsView!Failed
  <2> QED BY <1>1, <1>3, <2>1 DEF CommentsTyped, CommentsShown, SteadyInv
<1> QED BY <1>5, <1>6, <1>7, <1>8, <1>9, <1>10

LEMMA CommentsStep ==
    CommentsTyped /\ SteadyInv /\ [UINext]_uiVars => CommentsTyped' /\ SteadyInv'
<1> SUFFICES ASSUME CommentsTyped, SteadyInv, CommentsView!Next
             PROVE  CommentsTyped' /\ SteadyInv'
  <2>1. [UINext]_uiVars => CommentsView!Next \/ UNCHANGED CommentsView!vars
    BY DEF UINext, OthersIdle, uiVars, CommentsView!Idle
  <2>2. UNCHANGED CommentsView!vars /\ CommentsTyped /\ SteadyInv
           => CommentsTyped' /\ SteadyInv'
    <3> SUFFICES ASSUME UNCHANGED CommentsView!vars, CommentsTyped, SteadyInv
                 PROVE  CommentsTyped' /\ SteadyInv'
      OBVIOUS
    <3>1. UNCHANGED <<comments_stored, comments_lastId, comments_net, comments_entity,
                      comments_comments, comments_draft, comments_badge, comments_toRemove,
                      comments_steady, comments_typed>>
      BY DEF CommentsView!vars, CommentsView!service, CommentsView!page, CommentsView!dialog,
         CommentsView!history
    <3>2. CommentsTyped'
      BY <3>1 DEF CommentsTyped, CommentsKept, CommentsShown, CommentSent
    <3>3. SteadyInv'
      BY <3>1 DEF SteadyInv, AwaitedComments, CommentPromise, StoredNow
    <3> QED BY <3>2, <3>3
  <2> QED BY <2>1, <2>2
<1>1. ASSUME NEW m \in comments_net, CommentsView!Serve(m)
      PROVE  CommentsTyped' /\ SteadyInv'
  BY <1>1, CommentsServed
<1>2. ASSUME NEW m \in comments_net, CommentsView!Lose(m)
      PROVE  CommentsTyped' /\ SteadyInv'
  BY <1>2, CommentsLost
<1>3. ASSUME NEW m \in comments_net,
             \/ \E who \in {"user", "admin"} : CommentsView!SessionAnswered(m, who)
             \/ CommentsView!CommentsAnswered(m) \/ CommentsView!CommentCreated(m)
             \/ CommentsView!CommentUpdated(m) \/ CommentsView!CommentRemoved(m)
             \/ CommentsView!Failed(m)
      PROVE  CommentsTyped' /\ SteadyInv'
  BY <1>3, CommentsAnsweredAll
<1>4. ASSUME NEW e \in Model.comments.Entities,
             \/ \E t \in Model.comments.Texts : CommentsView!WriteElsewhere(e, t)
             \/ \E id \in Model.comments.Ids : CommentsView!RemoveElsewhere(e, id)
      PROVE  CommentsTyped' /\ SteadyInv'
  BY <1>4, CommentsElsewhere
<1> QED BY <1>1, <1>2, <1>3, <1>4, CommentsUser DEF CommentsView!Next

(* The comments under a test case are patched by hand after every save and  *)
(* removal, and never fetched again: as long as no two things overlap and   *)
(* others leave them alone, they are those of the service, in its order, at *)
(* its versions and with its text but where text is typed and not saved,    *)
(* and the tab shows their number.                                          *)
THEOREM CommentsListed == UISpec => []CommentsAsStored
<1>1. CommentsTyped /\ SteadyInv => CommentsAsStored
  <2> SUFFICES ASSUME CommentsTyped, SteadyInv, comments_steady, CommentsView!Quiet
               PROVE  /\ comments_badge = Len(StoredNow)
                      /\ Len(comments_comments) = Len(StoredNow)
                      /\ \A i \in DOMAIN StoredNow :
                            comments_comments[i] = [StoredNow[i] EXCEPT
                               !.text = IF StoredNow[i].id \in comments_typed
                                          THEN comments_comments[i].text ELSE @]
    BY DEF CommentsAsStored, CommentsView!CommentsAsStored, StoredNow
  <2>1. /\ comments_entity \in Model.comments.Entities
        /\ comments_badge = Len(comments_comments)
        /\ SameList(comments_comments, StoredNow, comments_typed)
    BY DEF SteadyInv, AwaitedComments, CommentsView!Quiet
  <2>2. \A i \in DOMAIN StoredNow : StoredNow[i] \in CommentDocs
    BY <2>1, CommentIds DEF CommentsTyped, StoredNow
  <2>3. ASSUME NEW c, NEW d \in CommentDocs, SameComment(c, d, comments_typed)
        PROVE  c = [d EXCEPT !.text = IF d.id \in comments_typed THEN c.text ELSE @]
    BY <2>3 DEF SameComment, CommentDocs, CommentsView!Comment
  <2>4. ASSUME NEW i \in DOMAIN StoredNow
        PROVE  comments_comments[i] = [StoredNow[i] EXCEPT
                  !.text = IF StoredNow[i].id \in comments_typed
                             THEN comments_comments[i].text ELSE @]
    BY <2>1, <2>2, <2>3 DEF SameList
  <2> QED BY <2>1, <2>4 DEF SameList
<1> QED BY <1>1, CommentsInit, CommentsStep, PTL DEF UISpec

-----------------------------------------------------------------------------
(* The settings of a project have their type *)

SettingsFields == {"name", "users", "environments", "launchers", "deleted"}
SettingsRequests ==
    [no : 1 .. Model.settings.MaxInFlight,
     kind : {"project", "session", "put", "delete"},
     doc : SettingsView!Project, touched : SUBSET SettingsFields, form : BOOLEAN,
     at : {"sent", "done", "failed"}]
SettingsNet == settings_net \subseteq SettingsRequests /\ IsFiniteSet(settings_net)
SettingsShown ==
    LET none == Model.settings.None IN
    /\ settings_project \in SettingsView!Project /\ settings_touched \subseteq SettingsFields
    /\ settings_shownUsers \in Model.settings.Values \cup {none}
    /\ settings_toRemove \in Nat \cup {none}
    /\ settings_message \in {none, "saved", "failed"}
SettingsFlags ==
    /\ settings_admin \in BOOLEAN
    /\ settings_nameForm \in BOOLEAN /\ settings_asking \in BOOLEAN /\ settings_left \in BOOLEAN
SettingsTyped ==
    /\ settings_stored \in SettingsView!Project
    /\ SettingsNet /\ SettingsShown /\ SettingsFlags

LEMMA SettingsFieldsAre == SettingsView!Fields = SettingsFields
BY DEF SettingsView!Fields, SettingsView!Plain, SettingsFields

LEMMA SettingsOfType == SettingsTyped => SettingsView!TypeOK
<1> SUFFICES ASSUME SettingsTyped PROVE SettingsView!TypeOK
  OBVIOUS
<1>1. \A m \in settings_net :
         /\ m.no \in 1 .. Model.settings.MaxInFlight
         /\ m.kind \in {"project", "session", "put", "delete"}
         /\ m.at \in {"sent", "done", "failed"}
         /\ m.doc \in SettingsView!Project /\ m.touched \subseteq SettingsFields
         /\ m.form \in BOOLEAN
  BY DEF SettingsTyped, SettingsNet, SettingsRequests
<1>2. \A b \in {settings_admin, settings_nameForm, settings_asking,
                settings_left} : b \in BOOLEAN
  BY Zenon DEF SettingsTyped, SettingsFlags
<1> HIDE DEF SettingsFields
<1> QED BY <1>1, <1>2, SettingsFieldsAre DEF SettingsTyped, SettingsShown, SettingsView!TypeOK

LEMMA SettingsSizes == \A S : SettingsView!Cardinality(S) = Cardinality(S)
BY Zenon DEF SettingsView!Cardinality, Cardinality

LEMMA ProjectBegin ==
    /\ SettingsView!NoProject \in SettingsView!Project
    /\ [SettingsView!NoProject EXCEPT !.version = 1, !.launchers = Model.settings.Begin]
         \in SettingsView!Project
<1>1. SettingsView!First \in Model.settings.Values
  BY SettingsAssumption DEF SettingsView!First
<1>2. <<>> \in Seq(SettingsView!Launcher) /\ Model.settings.Begin \in Seq(SettingsView!Launcher)
  BY SettingsAssumption
<1> QED BY <1>1, <1>2 DEF SettingsView!NoProject, SettingsView!Project

LEMMA SettingsFirst ==
    ASSUME NEW kind \in {"project", "session", "put", "delete"}
    PROVE  /\ SettingsView!Request(kind) \in SettingsRequests
           /\ SettingsView!Request(kind).kind = kind
<1>1. 1 \in 1 .. Model.settings.MaxInFlight
  BY SettingsAssumption
<1>2. {} \in SUBSET SettingsFields
  OBVIOUS
<1> QED BY <1>1, <1>2, ProjectBegin DEF SettingsView!Request, SettingsRequests

LEMMA SettingsTypedInit == UIInit => SettingsTyped
<1> SUFFICES ASSUME SettingsView!Init PROVE SettingsTyped
  BY DEF UIInit
<1>1. settings_stored \in SettingsView!Project /\ settings_project \in SettingsView!Project
  BY ProjectBegin DEF SettingsView!Init
<1>2. SettingsNet
  <2>1. PICK a, b : a = SettingsView!Request("project") /\ b = SettingsView!Request("session")
    OBVIOUS
  <2>2. settings_net = {a, b}
    BY <2>1 DEF SettingsView!Init
  <2>3. a \in SettingsRequests /\ b \in SettingsRequests
    BY <2>1, SettingsFirst
  <2>4. IsFiniteSet({a, b})
    <3>1. IsFiniteSet({a}) /\ IsFiniteSet({b})
      BY FS_Singleton
    <3>2. IsFiniteSet({a} \cup {b})
      BY <3>1, FS_Union
    <3>3. {a, b} = {a} \cup {b}
      OBVIOUS
    <3> QED BY <3>2, <3>3
  <2> QED BY <2>2, <2>3, <2>4 DEF SettingsNet
<1>3. SettingsShown
  BY <1>1 DEF SettingsView!Init, SettingsShown
<1>4. SettingsFlags
  BY DEF SettingsView!Init, SettingsFlags
<1> QED BY <1>1, <1>2, <1>3, <1>4 DEF SettingsTyped

(* A request that is sent has a number of its own. *)
LEMMA SettingsAsked ==
    ASSUME SettingsNet, NEW r \in SettingsRequests, SettingsView!Send(r)
    PROVE  SettingsNet'
<1> DEFINE top == Model.settings.MaxInFlight
<1>1. IsFiniteSet(settings_net) /\ Cardinality(settings_net) < top /\ top \in Nat
  BY SettingsAssumption, SettingsSizes DEF SettingsNet, SettingsView!Send
<1> HIDE DEF top
<1>2. PICK i \in Unused(settings_net, top, r.kind) :
         \A j \in Unused(settings_net, top, r.kind) : i <= j
  BY ONLY <1>1, FreeNumber
<1>3. SettingsView!Free(r.kind) = Unused(settings_net, top, r.kind)
  BY DEF SettingsView!Free, Unused, top
<1>4. PICK k : k = CHOOSE i_1 \in SettingsView!Free(r.kind) :
                      \A j \in SettingsView!Free(r.kind) : i_1 <= j
  OBVIOUS
<1>5. k \in SettingsView!Free(r.kind)
  BY <1>2, <1>3, <1>4
<1>6. k \in 1 .. Model.settings.MaxInFlight
  BY <1>5 DEF SettingsView!Free
<1>7. settings_net' = settings_net \cup {[r EXCEPT !.no = k]}
  BY <1>4 DEF SettingsView!Send
<1>8. PICK q : q = [r EXCEPT !.no = k]
  OBVIOUS
<1>9. q \in SettingsRequests
  BY <1>6, <1>8 DEF SettingsRequests
<1>10. IsFiniteSet(settings_net \cup {q})
  BY <1>1, FS_AddElement
<1> QED BY <1>7, <1>8, <1>9, <1>10 DEF SettingsNet
(* Edits of a project make a project. *)
LEMMA LauncherNew == SettingsView!NewLauncher \in SettingsView!Launcher
BY DEF SettingsView!NewLauncher, SettingsView!Launcher

LEMMA ProjectPlain ==
    ASSUME NEW p \in SettingsView!Project, NEW v \in Model.settings.Values, NEW b \in BOOLEAN,
           NEW w \in Seq(SettingsView!Launcher), NEW n \in Nat
    PROVE  /\ [p EXCEPT !.name = v] \in SettingsView!Project
           /\ [p EXCEPT !.users = v] \in SettingsView!Project
           /\ [p EXCEPT !.environments = v] \in SettingsView!Project
           /\ [p EXCEPT !.deleted = b] \in SettingsView!Project
           /\ [p EXCEPT !.launchers = w] \in SettingsView!Project
           /\ [p EXCEPT !.version = n] \in SettingsView!Project
           /\ [p EXCEPT !.deleted = b, !.version = n] \in SettingsView!Project
BY DEF SettingsView!Project

LEMMA LaunchersAdded ==
    ASSUME NEW p \in SettingsView!Project
    PROVE  [p EXCEPT !.launchers = Append(@, SettingsView!NewLauncher)] \in SettingsView!Project
<1>1. p.launchers \in Seq(SettingsView!Launcher)
  BY DEF SettingsView!Project
<1>2. PICK w : w = Append(p.launchers, SettingsView!NewLauncher)
  OBVIOUS
<1>3. w \in Seq(SettingsView!Launcher)
  BY <1>1, <1>2, LauncherNew
<1> QED BY <1>2, <1>3, ProjectPlain, SettingsAssumption

LEMMA LaunchersRemoved ==
    ASSUME NEW p \in SettingsView!Project, NEW i
    PROVE  [p EXCEPT !.launchers = IF i \in DOMAIN @ THEN SettingsView!RemoveAt(@, i) ELSE @]
              \in SettingsView!Project
<1>1. p.launchers \in Seq(SettingsView!Launcher)
  BY DEF SettingsView!Project
<1>2. PICK w : w = IF i \in DOMAIN p.launchers THEN SettingsView!RemoveAt(p.launchers, i)
                   ELSE p.launchers
  OBVIOUS
<1>3. w \in Seq(SettingsView!Launcher)
  BY <1>1, <1>2 DEF SettingsView!RemoveAt
<1> QED BY <1>2, <1>3, ProjectPlain, SettingsAssumption

-----------------------------------------------------------------------------
LEMMA SettingsShownStays ==
    ASSUME SettingsShown, UNCHANGED <<settings_project, settings_touched, settings_shownUsers,
                                      settings_toRemove, settings_message>>
    PROVE  SettingsShown'
BY DEF SettingsShown

LEMMA SettingsFlagsStay ==
    ASSUME SettingsFlags, UNCHANGED <<settings_admin, settings_nameForm,
                                      settings_asking, settings_left>>
    PROVE  SettingsFlags'
BY DEF SettingsFlags

LEMMA SettingsReplyTyped ==
    ASSUME SettingsNet, NEW m \in settings_net, NEW outcome \in {"done", "failed"},
           NEW d \in SettingsView!Project, SettingsView!Reply(m, outcome, d)
    PROVE  SettingsNet'
<1>1. m \in SettingsRequests /\ IsFiniteSet(settings_net)
  BY DEF SettingsNet
<1>2. PICK r : r = [m EXCEPT !.at = outcome, !.doc = d]
  OBVIOUS
<1>3. r \in SettingsRequests
  BY <1>1, <1>2 DEF SettingsRequests
<1>4. IsFiniteSet(settings_net \ {m})
  BY <1>1, FS_Subset
<1>5. IsFiniteSet((settings_net \ {m}) \cup {r})
  BY <1>4, FS_AddElement
<1> QED BY <1>2, <1>3, <1>5 DEF SettingsNet, SettingsView!Reply

LEMMA SettingsTypedServed ==
    ASSUME SettingsTyped, NEW m \in settings_net, SettingsView!Serve(m)
    PROVE  SettingsTyped'
<1> USE DEF SettingsView!page, SettingsView!dialog
<1>1. SettingsShown' /\ SettingsFlags'
  BY SettingsShownStays, SettingsFlagsStay DEF SettingsView!Serve, SettingsTyped
<1>2. m \in SettingsRequests /\ SettingsNet /\ settings_stored \in SettingsView!Project
  BY DEF SettingsTyped, SettingsNet
<1>3. m.doc \in SettingsView!Project /\ settings_stored.version + 1 \in Nat
  BY <1>2 DEF SettingsRequests, SettingsView!Project
<1>4. settings_stored' \in SettingsView!Project
      /\ \E d \in SettingsView!Project : \E outcome \in {"done", "failed"} :
            SettingsView!Reply(m, outcome, d)
  <2>1. CASE m.kind = "put" /\ SettingsView!Accepted(m.doc)
    <3>1. /\ settings_stored' = [m.doc EXCEPT !.version = settings_stored.version + 1]
          /\ SettingsView!Reply(m, "done", settings_stored')
      BY <2>1 DEF SettingsView!Serve
    <3> QED BY <1>3, <3>1, ProjectPlain, SettingsAssumption DEF SettingsView!Project
  <2>2. CASE m.kind = "put" /\ ~SettingsView!Accepted(m.doc)
    BY <1>2, <1>3, <2>2 DEF SettingsView!Serve
  <2>3. CASE m.kind = "delete"
    <3>1. /\ settings_stored' = [settings_stored EXCEPT !.deleted = TRUE, !.version = @ + 1]
          /\ SettingsView!Reply(m, "done", m.doc)
      BY <2>3 DEF SettingsView!Serve
    <3>2. settings_stored' \in SettingsView!Project
      BY <1>2, <1>3, <3>1 DEF SettingsView!Project
    <3> QED BY <1>3, <3>1, <3>2
  <2>4. CASE m.kind \notin {"put", "delete"}
    BY <1>2, <2>4 DEF SettingsView!Serve
  <2> QED BY <2>1, <2>2, <2>3, <2>4
<1>5. SettingsNet'
  BY <1>2, <1>4, SettingsReplyTyped
<1> QED BY <1>1, <1>4, <1>5 DEF SettingsTyped

LEMMA SettingsTypedAnswered ==
    ASSUME SettingsTyped, NEW m \in settings_net,
           \/ SettingsView!ProjectAnswered(m)
           \/ \E b \in BOOLEAN : SettingsView!SessionAnswered(m, b)
           \/ SettingsView!Saved(m) \/ SettingsView!Removed(m) \/ SettingsView!Failed(m)
    PROVE  SettingsTyped'
<1> USE DEF SettingsView!Answer, SettingsView!page, SettingsView!dialog
<1>1. m \in SettingsRequests /\ settings_stored \in SettingsView!Project
  BY DEF SettingsTyped, SettingsNet
<1>2. /\ m.doc \in SettingsView!Project /\ m.doc.users \in Model.settings.Values
  BY <1>1 DEF SettingsRequests, SettingsView!Project
<1>3. settings_net' = settings_net \ {m} /\ UNCHANGED settings_stored
  BY DEF SettingsView!ProjectAnswered, SettingsView!SessionAnswered, SettingsView!Saved, SettingsView!Removed, SettingsView!Failed
<1>4. SettingsNet' /\ settings_stored' \in SettingsView!Project
  BY <1>1, <1>3, FS_Subset DEF SettingsTyped, SettingsNet
<1>5. SettingsShown' /\ SettingsFlags'
  <2>1. CASE SettingsView!ProjectAnswered(m)
    BY <1>2, <2>1, SettingsFlagsStay
       DEF SettingsView!ProjectAnswered, SettingsTyped, SettingsShown
  <2>3. CASE \E b \in BOOLEAN : SettingsView!SessionAnswered(m, b)
    BY <2>3, SettingsShownStays DEF SettingsView!SessionAnswered, SettingsTyped, SettingsFlags
  <2>4. CASE SettingsView!Saved(m)
    <3>1. SettingsShown'
      BY <1>2, <2>4 DEF SettingsView!Saved, SettingsTyped, SettingsShown
    <3>2. settings_nameForm' = ~settings_nameForm \/ settings_nameForm' = settings_nameForm
      BY <2>4 DEF SettingsView!Saved
    <3>3. settings_nameForm' \in BOOLEAN
      BY <3>2, Zenon DEF SettingsTyped, SettingsFlags
    <3> QED BY <2>4, <3>1, <3>3 DEF SettingsView!Saved, SettingsTyped, SettingsFlags
  <2>5. CASE SettingsView!Removed(m)
    BY <2>5, SettingsShownStays DEF SettingsView!Removed, SettingsTyped, SettingsFlags
  <2>6. CASE SettingsView!Failed(m)
    BY <2>6, SettingsFlagsStay DEF SettingsView!Failed, SettingsTyped, SettingsShown
  <2> QED BY <2>1, <2>3, <2>4, <2>5, <2>6
<1> QED BY <1>4, <1>5 DEF SettingsTyped

LEMMA SettingsTypedElse ==
    ASSUME SettingsTyped,
           \/ \E m \in settings_net : SettingsView!Lose(m)
           \/ \E f \in SettingsView!Plain, v \in Model.settings.Values :
                 SettingsView!SaveElsewhere(f, v)
    PROVE  SettingsTyped'
<1> USE DEF SettingsView!page, SettingsView!dialog
<1>1. SettingsShown' /\ SettingsFlags'
  BY SettingsShownStays, SettingsFlagsStay
     DEF SettingsView!Lose, SettingsView!SaveElsewhere, SettingsTyped
<1>2. ASSUME NEW m \in settings_net, SettingsView!Lose(m) PROVE SettingsTyped'
  <2>1. m.doc \in SettingsView!Project
    BY DEF SettingsTyped, SettingsNet, SettingsRequests
  <2>2. SettingsView!Reply(m, "failed", m.doc) /\ UNCHANGED settings_stored
    BY <1>2 DEF SettingsView!Lose
  <2>3. SettingsNet'
    BY <2>1, <2>2, SettingsReplyTyped DEF SettingsTyped
  <2> QED BY <1>1, <2>2, <2>3 DEF SettingsTyped
<1>3. ASSUME NEW f \in SettingsView!Plain, NEW v \in Model.settings.Values,
             SettingsView!SaveElsewhere(f, v)
      PROVE  SettingsTyped'
  <2>1. settings_stored' = [settings_stored EXCEPT ![f] = v, !.version = @ + 1]
        /\ UNCHANGED settings_net
    BY <1>3 DEF SettingsView!SaveElsewhere
  <2>2. settings_stored \in SettingsView!Project
    BY DEF SettingsTyped
  <2>3. PICK s : s = [settings_stored EXCEPT ![f] = v]
    OBVIOUS
  <2>4. s \in SettingsView!Project /\ s.version = settings_stored.version
    <3>1. CASE f = "name"
      BY <2>2, <2>3, <3>1 DEF SettingsView!Project
    <3>2. CASE f = "users"
      BY <2>2, <2>3, <3>2 DEF SettingsView!Project
    <3>3. CASE f = "environments"
      BY <2>2, <2>3, <3>3 DEF SettingsView!Project
    <3> QED BY <3>1, <3>2, <3>3 DEF SettingsView!Plain
  <2>5. settings_stored' = [s EXCEPT !.version = s.version + 1]
    BY <2>1, <2>2, <2>3, <2>4 DEF SettingsView!Plain, SettingsView!Project
  <2>6. settings_stored' \in SettingsView!Project
    BY <2>4, <2>5 DEF SettingsView!Project
  <2> QED BY <1>1, <2>1, <2>6 DEF SettingsTyped, SettingsNet
<1> QED BY <1>2, <1>3

LEMMA SettingsSubmitTyped ==
    ASSUME SettingsNet, settings_project' \in SettingsView!Project,
           settings_touched' \subseteq SettingsFields, NEW form \in BOOLEAN,
           SettingsView!Submitted(form)
    PROVE  SettingsNet'
<1>1. PICK d, S : d = settings_project' /\ S = settings_touched'
  OBVIOUS
<1>2. PICK p : p = SettingsView!Request("put")
  OBVIOUS
<1>3. p \in SettingsRequests
  BY <1>2, SettingsFirst
<1>4. PICK q : q = [p EXCEPT !.doc = d, !.touched = S, !.form = form]
  OBVIOUS
<1>5. q \in SettingsRequests
  BY <1>1, <1>3, <1>4 DEF SettingsRequests
<1>6. SettingsView!Send(q)
  BY <1>1, <1>2, <1>4 DEF SettingsView!Submitted
<1> QED BY <1>5, <1>6, SettingsAsked

(* What an edit makes of the page. *)
LEMMA SettingsEditTyped ==
    ASSUME SettingsShown, NEW f \in SettingsFields, NEW p \in SettingsView!Project,
           SettingsView!Edit(f, p)
    PROVE  settings_project' \in SettingsView!Project /\ settings_touched' \subseteq SettingsFields
BY DEF SettingsView!Edit, SettingsShown

LEMMA SettingsTypedEdited ==
    ASSUME SettingsTyped, settings_project' \in SettingsView!Project,
           settings_touched' \subseteq SettingsFields,
           settings_shownUsers' \in Model.settings.Values \cup {Model.settings.None},
           settings_toRemove' \in Nat \cup {Model.settings.None}, settings_asking' \in BOOLEAN,
           UNCHANGED <<settings_stored, settings_admin, settings_nameForm,
                       settings_left, settings_message>>,
           UNCHANGED settings_net \/ \E form \in BOOLEAN : SettingsView!Submitted(form)
    PROVE  SettingsTyped'
<1>1. SettingsNet'
  BY SettingsSubmitTyped DEF SettingsTyped, SettingsNet
<1>2. SettingsShown'
  BY DEF SettingsTyped, SettingsShown
<1>3. SettingsFlags'
  BY DEF SettingsTyped, SettingsFlags
<1> QED BY <1>1, <1>2, <1>3 DEF SettingsTyped

LEMMA SettingsTypedUser ==
    ASSUME SettingsTyped, SettingsView!User
    PROVE  SettingsTyped'
<1> USE DEF SettingsView!Event, SettingsView!dialog
<1> DEFINE Edits == /\ settings_project' \in SettingsView!Project
                    /\ settings_touched' \subseteq SettingsFields
<1>1. /\ settings_project \in SettingsView!Project /\ settings_touched \subseteq SettingsFields
      /\ settings_shownUsers \in Model.settings.Values \cup {Model.settings.None}
      /\ settings_toRemove \in Nat \cup {Model.settings.None}
  BY DEF SettingsTyped, SettingsShown
<1>2. settings_asking \in BOOLEAN /\ settings_nameForm \in BOOLEAN
  BY DEF SettingsTyped, SettingsFlags
<1>3. settings_project.launchers \in Seq(SettingsView!Launcher)
  BY <1>1 DEF SettingsView!Project
<1>4. CASE \/ SettingsView!ToggleEdit \/ SettingsView!CancelEdit
           \/ \E i \in DOMAIN settings_project.launchers :
                 SettingsView!RemoveLauncherConfirmation(i)
           \/ SettingsView!CancelRemoveLauncherConfirmation
  <2>1. /\ UNCHANGED <<settings_net, settings_stored, settings_project, settings_touched,
                       settings_shownUsers, settings_message, settings_admin,
                       settings_left>>
        /\ settings_toRemove' \in Nat \cup {Model.settings.None}
    BY <1>1, <1>3, <1>4 DEF SettingsView!ToggleEdit, SettingsView!CancelEdit,
       SettingsView!RemoveLauncherConfirmation, SettingsView!CancelRemoveLauncherConfirmation
  <2>2. settings_asking' \in BOOLEAN /\ settings_nameForm' \in BOOLEAN
    BY <1>2, <1>4 DEF SettingsView!ToggleEdit, SettingsView!CancelEdit,
       SettingsView!RemoveLauncherConfirmation, SettingsView!CancelRemoveLauncherConfirmation
  <2>3. SettingsShown' /\ SettingsNet'
    BY <2>1 DEF SettingsTyped, SettingsShown, SettingsNet
  <2>4. SettingsFlags'
    BY <2>1, <2>2 DEF SettingsTyped, SettingsFlags
  <2> QED BY <2>1, <2>3, <2>4 DEF SettingsTyped
<1>5. ASSUME NEW v \in Model.settings.Values,
             \/ SettingsView!HandleChange(v) \/ SettingsView!ChangeUsers(v)
             \/ SettingsView!ChangeEnvironments(v)
      PROVE  SettingsTyped'
  <2>1. Edits
    <3>1. /\ [settings_project EXCEPT !.name = v] \in SettingsView!Project
          /\ [settings_project EXCEPT !.users = v] \in SettingsView!Project
          /\ [settings_project EXCEPT !.environments = v] \in SettingsView!Project
      BY <1>1 DEF SettingsView!Project
    <3>2. \E f \in SettingsFields, p \in SettingsView!Project : SettingsView!Edit(f, p)
      BY <1>5, <3>1 DEF SettingsView!HandleChange, SettingsView!ChangeUsers,
         SettingsView!ChangeEnvironments, SettingsFields
    <3> QED BY <3>2, SettingsEditTyped DEF SettingsTyped
  <2>2. /\ UNCHANGED <<settings_net, settings_stored, settings_admin,
                       settings_nameForm, settings_left, settings_message, settings_toRemove,
                       settings_asking>>
        /\ settings_shownUsers' \in Model.settings.Values \cup {Model.settings.None}
    BY <1>1, <1>5 DEF SettingsView!HandleChange, SettingsView!ChangeUsers,
       SettingsView!ChangeEnvironments
  <2> QED BY <1>1, <1>2, <2>1, <2>2, SettingsTypedEdited
<1>6. CASE SettingsView!AddLauncher
  <2>1. Edits
    <3>1. \E f \in SettingsFields, p \in SettingsView!Project : SettingsView!Edit(f, p)
      BY <1>1, <1>6, LaunchersAdded DEF SettingsView!AddLauncher, SettingsFields
    <3> QED BY <3>1, SettingsEditTyped DEF SettingsTyped
  <2>2. UNCHANGED <<settings_net, settings_stored, settings_admin,
                    settings_nameForm, settings_left, settings_message, settings_toRemove,
                    settings_asking, settings_shownUsers>>
    BY <1>6 DEF SettingsView!AddLauncher
  <2> QED BY <1>1, <1>2, <2>1, <2>2, SettingsTypedEdited
<1>7. CASE SettingsView!RemoveLauncher
  <2>1. Edits
    <3>1. \E f \in SettingsFields, p \in SettingsView!Project : SettingsView!Edit(f, p)
      BY <1>1, <1>7, LaunchersRemoved DEF SettingsView!RemoveLauncher, SettingsFields
    <3> QED BY <3>1, SettingsEditTyped DEF SettingsTyped
  <2>2. /\ UNCHANGED <<settings_stored, settings_admin, settings_nameForm,
                       settings_left, settings_message, settings_shownUsers>>
        /\ settings_toRemove' = Model.settings.None /\ settings_asking' = FALSE
        /\ SettingsView!Submitted(FALSE)
    BY <1>7 DEF SettingsView!RemoveLauncher
  <2> QED BY <1>1, <2>1, <2>2, SettingsTypedEdited
<1>8. CASE SettingsView!Undelete
  <2>1. Edits
    <3>1. [settings_project EXCEPT !.deleted = FALSE] \in SettingsView!Project
      BY <1>1 DEF SettingsView!Project
    <3>2. \E f \in SettingsFields, p \in SettingsView!Project : SettingsView!Edit(f, p)
      BY <1>8, <3>1 DEF SettingsView!Undelete, SettingsFields
    <3> QED BY <3>2, SettingsEditTyped DEF SettingsTyped
  <2>2. /\ UNCHANGED <<settings_stored, settings_admin, settings_nameForm,
                       settings_left, settings_message, settings_shownUsers, settings_toRemove,
                       settings_asking>>
        /\ SettingsView!Submitted(FALSE)
    BY <1>8 DEF SettingsView!Undelete
  <2> QED BY <1>1, <1>2, <2>1, <2>2, SettingsTypedEdited
<1>9. ASSUME NEW form \in BOOLEAN, SettingsView!Submit(form) PROVE SettingsTyped'
  <2>1. /\ UNCHANGED <<settings_stored, settings_admin, settings_nameForm,
                       settings_left, settings_message, settings_shownUsers, settings_toRemove,
                       settings_asking, settings_project, settings_touched>>
        /\ SettingsView!Submitted(form)
    BY <1>9 DEF SettingsView!Submit
  <2> QED BY <1>1, <1>2, <2>1, SettingsTypedEdited
<1>10. CASE SettingsView!RemoveProject
  <2>1. SettingsShown' /\ SettingsFlags'
    BY <1>10, SettingsShownStays, SettingsFlagsStay DEF SettingsView!RemoveProject, SettingsTyped
  <2>2. SettingsNet' /\ UNCHANGED settings_stored
    BY <1>10, SettingsFirst, SettingsAsked DEF SettingsView!RemoveProject, SettingsTyped
  <2> QED BY <2>1, <2>2 DEF SettingsTyped
<1> QED BY <1>4, <1>5, <1>6, <1>7, <1>8, <1>9, <1>10 DEF SettingsView!User

LEMMA SettingsTypedStep == SettingsTyped /\ [UINext]_uiVars => SettingsTyped'
<1> SUFFICES ASSUME SettingsTyped, [SettingsView!Next]_(SettingsView!vars) PROVE SettingsTyped'
  BY SettingsSteps
<1>1. CASE SettingsView!User
  BY <1>1, SettingsTypedUser
<1>2. ASSUME NEW m \in settings_net,
             \/ SettingsView!Serve(m) \/ SettingsView!Lose(m)
             \/ SettingsView!ProjectAnswered(m)
             \/ \E b \in BOOLEAN : SettingsView!SessionAnswered(m, b)
             \/ SettingsView!Saved(m) \/ SettingsView!Removed(m) \/ SettingsView!Failed(m)
      PROVE  SettingsTyped'
  BY <1>2, SettingsTypedServed, SettingsTypedElse, SettingsTypedAnswered
<1>3. CASE \E f \in SettingsView!Plain, v \in Model.settings.Values :
              SettingsView!SaveElsewhere(f, v)
  BY <1>3, SettingsTypedElse
<1>4. CASE UNCHANGED SettingsView!vars
  <2>1. SettingsShown' /\ SettingsFlags'
    BY <1>4, SettingsShownStays, SettingsFlagsStay DEF SettingsView!vars, SettingsView!page,
       SettingsView!dialog, SettingsTyped
  <2> QED BY <1>4, <2>1 DEF SettingsView!vars, SettingsTyped, SettingsNet
<1> QED BY <1>1, <1>2, <1>3, <1>4 DEF SettingsView!Next

-----------------------------------------------------------------------------
(* So have the attributes of a project *)

AttributeSound(m) ==
    /\ m.no \in 1 .. Model.attributes.MaxInFlight
    /\ \A i \in DOMAIN m.list : m.list[i].id \in Model.attributes.Ids
    /\ m.kind = "post" /\ m.at = "done" => m.doc.id \in Model.attributes.Ids
AttributesNet ==
    IsFiniteSet(attributes_net) /\ \A m \in attributes_net : AttributeSound(m)

(* What the form shares with the page, and the page with its list. *)
AttributesShared ==
    /\ attributes_same => attributes_form = attributes_toEdit.doc
    /\ attributes_toEdit.listed => attributes_toEdit.doc \in ListedNow
    /\ \A a \in ListedNow : a.id \in Model.attributes.Ids
    /\ attributes_typed \subseteq Model.attributes.Ids
AttributesFlags ==
    /\ attributes_edit \in BOOLEAN /\ attributes_same \in BOOLEAN /\ attributes_open \in BOOLEAN
    /\ attributes_admin \in BOOLEAN /\ attributes_hasty \in BOOLEAN
AttributesRest ==
    /\ attributes_message \in {Model.attributes.None, "duplicate", "invalid", "failed"}
    /\ attributes_foreign \subseteq Model.attributes.Ids
AttributesWhole == AttributesNet /\ AttributesShared /\ AttributesFlags /\ AttributesRest

LEMMA AttributesOfType == AttributesTyped /\ AttributesWhole => AttributesView!TypeOK
<1> SUFFICES ASSUME AttributesTyped, AttributesWhole PROVE AttributesView!TypeOK
  OBVIOUS
<1>1. AttributesKept /\ AttributesShown
  BY DEF AttributesTyped
<1>2. AttributesView!Cardinality(AttributesView!IdsOf(attributes_stored))
         = AttributesView!Cardinality(attributes_stored)
  <2> DEFINE ids == [a \in attributes_stored |-> a.id]
             S == AttributesView!IdsOf(attributes_stored)
  <2>1. S = {a.id : a \in attributes_stored}
    BY DEF AttributesView!IdsOf
  <2>2. ids \in Bijection(attributes_stored, S)
    <3>1. /\ ids \in [attributes_stored -> {a.id : a \in attributes_stored}]
          /\ \A a, b \in attributes_stored : ids[a] = ids[b] => a = b
      BY <1>1 DEF AttributesKept
    <3> QED BY <2>1, <3>1 DEF Bijection, Injection, Surjection, IsInjective
  <2>3. IsFiniteSet(attributes_stored)
    BY <1>1 DEF AttributesKept
  <2> HIDE DEF ids, S
  <2>4. Cardinality(S) = Cardinality(attributes_stored)
    BY <2>2, <2>3, FS_Bijection DEF ExistsBijection
  <2> QED BY <2>4, SameSize DEF S
<1>3. \A m \in attributes_net :
         /\ m.no \in 1 .. Model.attributes.MaxInFlight
         /\ m.kind \in {"list", "session", "post", "delete"}
         /\ m.at \in {"sent", "done", "failed"}
         /\ m.doc \in AttributesView!Attribute /\ m.list \in Seq(AttributesView!Attribute)
  <2> SUFFICES ASSUME NEW m \in attributes_net
               PROVE  /\ m.no \in 1 .. Model.attributes.MaxInFlight
                      /\ m.kind \in {"list", "session", "post", "delete"}
                      /\ m.at \in {"sent", "done", "failed"}
                      /\ m.doc \in AttributesView!Attribute
                      /\ m.list \in Seq(AttributesView!Attribute)
    OBVIOUS
  <2>1. m \in MessagesNumbered(m.no)
    BY DEF AttributesTyped, AttributesSent
  <2>2. m.no \in 1 .. Model.attributes.MaxInFlight
    BY DEF AttributesWhole, AttributesNet, AttributeSound
  <2> QED BY <2>1, <2>2 DEF MessagesNumbered, Docs
<1>4. \A b \in {attributes_edit, attributes_same, attributes_open, attributes_admin,
                attributes_hasty} : b \in BOOLEAN
  BY Zenon DEF AttributesWhole, AttributesFlags
<1>5. AttributesView!Listed = ListedNow
  BY <1>1 DEF AttributesView!Listed, AttributesView!Range, ListedNow
<1>6. /\ attributes_stored \subseteq AttributesView!Attribute
      /\ attributes_attributes \in Seq(AttributesView!Attribute)
      /\ attributes_toEdit.doc \in AttributesView!Attribute
      /\ attributes_toEdit.listed \in BOOLEAN
      /\ attributes_form \in AttributesView!Attribute
  BY <1>1 DEF AttributesKept, AttributesShown, Docs
<1> QED BY <1>2, <1>3, <1>4, <1>5, <1>6
        DEF AttributesWhole, AttributesShared, AttributesRest, AttributesView!TypeOK

LEMMA AttributesWholeInit == UIInit => AttributesWhole
<1> SUFFICES ASSUME AttributesView!Init PROVE AttributesWhole
  BY DEF UIInit
<1>1. attributes_attributes = <<>> /\ ListedNow = {}
  BY DEF AttributesView!Init, ListedNow
<1>2. AttributesShared
  BY <1>1 DEF AttributesView!Init, AttributesShared
<1>3. AttributesFlags
  BY DEF AttributesView!Init, AttributesFlags
<1>4. AttributesRest
  BY DEF AttributesView!Init, AttributesRest
<1>5. PICK a, b : /\ a = AttributesView!Request("session", AttributesView!New("TESTCASE"))
                  /\ b = AttributesView!Request("list", AttributesView!New("TESTCASE"))
  OBVIOUS
<1>6. attributes_net = {a, b}
  BY <1>5 DEF AttributesView!Init
<1>7. 1 \in 1 .. Model.attributes.MaxInFlight
  BY AttributesAssumption
<1>8. AttributeSound(a) /\ AttributeSound(b)
  BY <1>5, <1>7 DEF AttributesView!Request, AttributeSound
<1>9. IsFiniteSet({a, b})
  <2>1. IsFiniteSet({a}) /\ IsFiniteSet({b})
    BY FS_Singleton
  <2>2. IsFiniteSet({a} \cup {b})
    BY <2>1, FS_Union
  <2>3. {a, b} = {a} \cup {b}
    OBVIOUS
  <2> QED BY <2>2, <2>3
<1>10. AttributesNet
  BY <1>6, <1>8, <1>9 DEF AttributesNet
<1> QED BY <1>2, <1>3, <1>4, <1>10 DEF AttributesWhole

-----------------------------------------------------------------------------
LEMMA AttributesReplyNet ==
    ASSUME AttributesNet, NEW m \in attributes_net, NEW n, AttributeSound(n),
           AttributesView!Reply(m, n)
    PROVE  AttributesNet'
<1>1. IsFiniteSet(attributes_net \ {m})
  BY FS_Subset DEF AttributesNet
<1>2. IsFiniteSet((attributes_net \ {m}) \cup {n})
  BY <1>1, FS_AddElement
<1>3. attributes_net' = (attributes_net \ {m}) \cup {n}
  BY DEF AttributesView!Reply
<1>4. \A k \in attributes_net' : AttributeSound(k)
  BY <1>3 DEF AttributesNet
<1> QED BY <1>2, <1>3, <1>4 DEF AttributesNet, AttributeSound

LEMMA AttributesNetAsked ==
    ASSUME AttributesTyped, AttributesNet, NEW kind \in {"post", "delete"},
           AttributesView!Send(AttributesView!Request(kind, attributes_form))
    PROVE  AttributesNet'
<1> DEFINE top == Model.attributes.MaxInFlight
           free == AttributesView!Free(kind)
<1>1. PICK r : r = AttributesView!Request(kind, attributes_form)
  OBVIOUS
<1>2. /\ r.kind = kind /\ r.at = "sent" /\ r.list = <<>>
      /\ r = [no |-> r.no, kind |-> r.kind, doc |-> r.doc, list |-> r.list, at |-> r.at]
  BY <1>1 DEF AttributesView!Request
<1>3. IsFiniteSet(attributes_net) /\ Cardinality(attributes_net) < top /\ top \in Nat
  BY AttributesAssumption, SameSize DEF AttributesNet, AttributesView!Send
<1> HIDE DEF top
<1>4. PICK i \in Unused(attributes_net, top, kind) :
         \A j \in Unused(attributes_net, top, kind) : i <= j
  BY ONLY <1>3, FreeNumber
<1>5. free = Unused(attributes_net, top, kind)
  BY DEF AttributesView!Free, Unused, top
<1> HIDE DEF free
<1>6. PICK k : k = CHOOSE i_1 \in free : \A j \in free : i_1 <= j
  OBVIOUS
<1>7. k \in free
  BY <1>4, <1>5, <1>6
<1>8. k \in 1 .. Model.attributes.MaxInFlight
  BY <1>7 DEF AttributesView!Free, free
<1>9. attributes_net' = attributes_net \cup {[r EXCEPT !.no = k]}
  BY <1>1, <1>2, <1>6 DEF AttributesView!Send, free
<1>10. PICK q : q = [r EXCEPT !.no = k]
  OBVIOUS
<1>11. q.no = k /\ q.at = "sent" /\ q.list = <<>>
  BY <1>2, <1>10
<1>12. AttributeSound(q)
  BY <1>8, <1>11 DEF AttributeSound
<1>13. IsFiniteSet(attributes_net \cup {q})
  BY <1>3, FS_AddElement
<1> QED BY <1>9, <1>10, <1>12, <1>13 DEF AttributesNet, AttributeSound

LEMMA AttributesWholeServed ==
    ASSUME AttributesTyped, AttributesWhole, NEW m \in attributes_net, AttributesView!Serve(m)
    PROVE  AttributesWhole'
<1> USE DEF AttributesView!page, AttributesView!shown
<1>1. AttributesShared' /\ AttributesFlags'
  BY DEF AttributesView!Serve, AttributesWhole, AttributesShared, AttributesFlags, ListedNow
<1>3. m \in MessagesNumbered(m.no) /\ AttributeSound(m) /\ AttributesKept /\ AttributesNet
  BY DEF AttributesTyped, AttributesSent, AttributesWhole, AttributesNet
<1>4. /\ m.kind \in {"list", "session", "post", "delete"} /\ m.doc \in Docs
      /\ m = [no |-> m.no, kind |-> m.kind, doc |-> m.doc, list |-> m.list, at |-> m.at]
  BY <1>3 DEF MessagesNumbered
<1>2. AttributesRest'
  <2>1. UNCHANGED attributes_message
    BY DEF AttributesView!Serve
  <2>2. CASE m.kind = "list"
    BY <2>1, <2>2 DEF AttributesView!Serve, AttributesWhole, AttributesRest
  <2>3. CASE m.kind # "list"
    <3>1. UNCHANGED attributes_foreign
      BY <1>4, <2>3 DEF AttributesView!Serve
    <3> QED BY <2>1, <3>1 DEF AttributesWhole, AttributesRest
  <2> QED BY <2>2, <2>3
<1>5. \E n : AttributeSound(n) /\ AttributesView!Reply(m, n)
  <2>1. CASE m.kind = "list"
    <3>1. PICK list \in [1 .. AttributesView!Cardinality(attributes_stored) -> attributes_stored] :
             AttributesView!Reply(m, [m EXCEPT !.at = "done", !.list = list])
      BY <2>1 DEF AttributesView!Serve, AttributesView!InOrder
    <3>2. PICK n : n = [m EXCEPT !.at = "done", !.list = list]
      OBVIOUS
    <3>3. n.no = m.no /\ n.kind = "list" /\ n.list = list
      BY <1>4, <2>1, <3>2
    <3>4. \A i \in DOMAIN list : list[i].id \in Model.attributes.Ids
      BY <1>3 DEF AttributesKept
    <3> QED BY <1>3, <3>1, <3>2, <3>3, <3>4 DEF AttributeSound
  <2>2. CASE m.kind = "post" /\ m.doc.id = Model.attributes.None
    <3>1. PICK id \in Model.attributes.Ids :
             AttributesView!Reply(m, [m EXCEPT !.at = "done", !.doc.id = id, !.doc.version = 1])
      BY <2>2 DEF AttributesView!Serve
    <3>2. PICK n : n = [m EXCEPT !.at = "done", !.doc.id = id, !.doc.version = 1]
      OBVIOUS
    <3>3. n.no = m.no /\ n.list = m.list /\ n.doc.id = id
      <4>1. PICK d : d = [m.doc EXCEPT !.id = id, !.version = 1]
        OBVIOUS
      <4>2. d.id = id
        BY <1>4, <4>1 DEF Docs, AttributesView!Attribute
      <4>3. n = [m EXCEPT !.at = "done", !.doc = d]
        BY <1>4, <3>2, <4>1 DEF Docs, AttributesView!Attribute
      <4> QED BY <1>4, <4>2, <4>3
    <3> QED BY <1>3, <3>1, <3>2, <3>3 DEF AttributeSound
  <2>3. CASE m.kind = "post" /\ m.doc.id # Model.attributes.None
    <3>1. CASE AttributesView!Accepted(m.doc)
      <4>1. PICK d : d = [m.doc EXCEPT !.version = @ + 1]
        OBVIOUS
      <4>2. d.id = m.doc.id /\ m.doc.id \in Model.attributes.Ids
        BY <1>4, <2>3, <4>1 DEF Docs, AttributesView!Attribute
      <4>3. AttributesView!Reply(m, [m EXCEPT !.at = "done", !.doc = d])
        BY <2>3, <3>1, <4>1 DEF AttributesView!Serve
      <4>4. PICK n : n = [m EXCEPT !.at = "done", !.doc = d]
        OBVIOUS
      <4>5. n.no = m.no /\ n.list = m.list /\ n.doc = d
        BY <1>4, <4>4
      <4> QED BY <1>3, <4>2, <4>3, <4>4, <4>5 DEF AttributeSound
    <3>2. CASE ~AttributesView!Accepted(m.doc)
      <4>1. AttributesView!Reply(m, [m EXCEPT !.at = "failed"])
        BY <2>3, <3>2 DEF AttributesView!Serve
      <4>2. PICK n : n = [m EXCEPT !.at = "failed"]
        OBVIOUS
      <4>3. n.no = m.no /\ n.list = m.list /\ n.at = "failed"
        BY <1>4, <4>2
      <4> QED BY <1>3, <4>1, <4>2, <4>3 DEF AttributeSound
    <3> QED BY <3>1, <3>2
  <2>4. CASE m.kind \in {"delete", "session"}
    <3>1. AttributesView!Reply(m, [m EXCEPT !.at = "done"])
      BY <2>4 DEF AttributesView!Serve
    <3>2. PICK n : n = [m EXCEPT !.at = "done"]
      OBVIOUS
    <3>3. n.no = m.no /\ n.list = m.list /\ n.kind = m.kind
      BY <1>4, <3>2
    <3> QED BY <1>3, <2>4, <3>1, <3>2, <3>3 DEF AttributeSound
  <2> QED BY <1>4, <2>1, <2>2, <2>3, <2>4
<1>6. AttributesNet'
  BY <1>3, <1>5, AttributesReplyNet
<1> QED BY <1>1, <1>2, <1>6 DEF AttributesWhole

LEMMA AttributesWholeElse ==
    ASSUME AttributesTyped, AttributesWhole,
           \/ \E m \in attributes_net : AttributesView!Lose(m)
           \/ \E a \in attributes_stored : \E b : AttributesView!ChangeElsewhere(a, b)
    PROVE  AttributesWhole'
<1> USE DEF AttributesView!page, AttributesView!shown
<1>1. AttributesShared' /\ AttributesFlags'
  <2>1. UNCHANGED <<attributes_attributes, attributes_toEdit, attributes_edit, attributes_form,
                    attributes_same, attributes_open, attributes_admin, attributes_typed,
                    attributes_hasty>>
    BY DEF AttributesView!Lose, AttributesView!ChangeElsewhere
  <2>2. ListedNow' = ListedNow
    BY <2>1 DEF ListedNow
  <2> QED BY <2>1, <2>2 DEF AttributesWhole, AttributesShared, AttributesFlags
<1>2. CASE \E m \in attributes_net : AttributesView!Lose(m)
  <2>1. PICK m \in attributes_net : AttributesView!Lose(m)
    BY <1>2
  <2>2. /\ m \in MessagesNumbered(m.no) /\ AttributeSound(m) /\ AttributesNet
        /\ AttributesView!Reply(m, [m EXCEPT !.at = "failed"])
    BY <2>1 DEF AttributesView!Lose, AttributesTyped, AttributesSent, AttributesWhole,
       AttributesNet
  <2>3. PICK n : n = [m EXCEPT !.at = "failed"]
    OBVIOUS
  <2>4. n.no = m.no /\ n.list = m.list /\ n.at = "failed"
    BY <2>2, <2>3 DEF MessagesNumbered
  <2>5. AttributesNet'
    BY <2>2, <2>3, <2>4, AttributesReplyNet DEF AttributeSound
  <2>6. AttributesRest'
    BY <2>1 DEF AttributesView!Lose, AttributesWhole, AttributesRest
  <2> QED BY <1>1, <2>5, <2>6 DEF AttributesWhole
<1>3. CASE \E a \in attributes_stored : \E b : AttributesView!ChangeElsewhere(a, b)
  <2>1. AttributesNet' /\ AttributesRest'
    BY <1>3 DEF AttributesView!ChangeElsewhere, AttributesWhole, AttributesNet,
       AttributeSound, AttributesRest, AttributesTyped, AttributesKept
  <2> QED BY <1>1, <2>1 DEF AttributesWhole
<1> QED BY <1>2, <1>3
(* The history of haste, which any event of the user may end. *)
LEMMA AttributesHaste ==
    ASSUME AttributesFlags, AttributesView!Event
    PROVE  attributes_hasty' \in BOOLEAN /\ attributes_admin' = attributes_admin
           /\ attributes_foreign' = attributes_foreign
<1>1. attributes_hasty' \in BOOLEAN
  BY Zenon DEF AttributesView!Event, AttributesFlags
<1> QED BY <1>1 DEF AttributesView!Event

LEMMA AttributesWholeTyped ==
    ASSUME AttributesTyped, AttributesWhole, NEW d \in Docs, d.id = attributes_form.id,
           AttributesView!Type(d)
    PROVE  AttributesWhole'
<1> DEFINE A == attributes_attributes
           B == [i \in DOMAIN A |-> IF A[i].id = d.id THEN d ELSE A[i]]
<1>1. /\ AttributesView!Event /\ attributes_form' = d
      /\ UNCHANGED <<attributes_net, attributes_edit, attributes_same, attributes_open,
                     attributes_message>>
      /\ IF attributes_same /\ attributes_toEdit.listed
           THEN attributes_attributes' = B /\ attributes_typed' = attributes_typed \cup {d.id}
           ELSE UNCHANGED <<attributes_attributes, attributes_typed>>
      /\ attributes_toEdit' = IF attributes_same THEN [attributes_toEdit EXCEPT !.doc = d]
                              ELSE attributes_toEdit
  BY DEF AttributesView!Type
<1>2. /\ attributes_toEdit \in [doc : Docs, listed : BOOLEAN]
      /\ AttributesShared /\ AttributesFlags /\ AttributesRest /\ AttributesNet
  BY DEF AttributesTyped, AttributesShown, AttributesWhole
<1>3. attributes_same' => attributes_form' = attributes_toEdit'.doc
  BY <1>1, <1>2
<1>4. CASE attributes_same /\ attributes_toEdit.listed
  <2>1. PICK i \in DOMAIN A : A[i] = attributes_form
    BY <1>2, <1>4 DEF AttributesShared, ListedNow
  <2>2. DOMAIN B = DOMAIN A /\ B[i] = d /\ \A j \in DOMAIN A : B[j] = d \/ B[j] = A[j]
    BY <2>1
  <2>3. d.id \in Model.attributes.Ids
    BY <1>2, <2>1 DEF AttributesShared, ListedNow
  <2>4. attributes_toEdit'.doc = d
    BY <1>1, <1>2, <1>4
  <2>5. attributes_attributes' = B
    BY <1>1, <1>4
  <2> HIDE DEF B
  <2>6. d \in ListedNow' /\ \A a \in ListedNow' : a = d \/ a \in ListedNow
    BY <2>2, <2>5 DEF ListedNow
  <2>7. attributes_typed' \subseteq Model.attributes.Ids
    BY <1>1, <1>2, <1>4, <2>3 DEF AttributesShared
  <2> QED BY <1>1, <1>2, <1>3, <2>3, <2>4, <2>6, <2>7, AttributesHaste
          DEF AttributesWhole, AttributesShared, AttributesFlags, AttributesRest, AttributesNet,
              AttributeSound
<1>5. CASE ~(attributes_same /\ attributes_toEdit.listed)
  <2>1. UNCHANGED <<attributes_attributes, attributes_typed>> /\ ListedNow' = ListedNow
    BY <1>1, <1>5 DEF ListedNow
  <2>2. attributes_toEdit'.listed => ~attributes_same /\ attributes_toEdit' = attributes_toEdit
    BY <1>1, <1>2, <1>5
  <2> QED BY <1>1, <1>2, <1>3, <2>1, <2>2, AttributesHaste
          DEF AttributesWhole, AttributesShared, AttributesFlags, AttributesRest, AttributesNet,
              AttributeSound
<1> QED BY <1>4, <1>5

LEMMA AttributesWholeUser ==
    ASSUME AttributesTyped, AttributesWhole, AttributesView!User
    PROVE  AttributesWhole'
<1> USE DEF AttributesView!page, AttributesView!shown
<1>1. /\ AttributesShared /\ AttributesFlags /\ AttributesRest /\ AttributesNet
      /\ attributes_attributes \in Seq(Docs)
      /\ attributes_toEdit \in [doc : Docs, listed : BOOLEAN]
  BY DEF AttributesWhole, AttributesTyped, AttributesShown
<1>2. CASE \/ \E n \in Model.attributes.Names \cup {Model.attributes.Blank} :
                 AttributesView!HandleChange(n)
           \/ \E t \in AttributesView!Types : AttributesView!HandleAttributeTypeChange(t)
           \/ AttributesView!AddValue
           \/ \E i \in DOMAIN attributes_form.values :
                 \/ AttributesView!RemoveValue(i)
                 \/ \E v \in Model.attributes.Texts : AttributesView!HandleValueChange(i, v)
  BY <1>2, AttributesTypedIn, AttributesWholeTyped
<1>3. CASE AttributesView!Add \/ AttributesView!Dismiss \/ AttributesView!HandleClose
  <2>1. /\ UNCHANGED <<attributes_net, attributes_attributes, attributes_toEdit,
                       attributes_edit, attributes_typed>>
        /\ AttributesView!Event /\ attributes_open' \in BOOLEAN
        /\ \/ UNCHANGED <<attributes_form, attributes_same>>
           \/ attributes_same' = FALSE
        /\ attributes_message' \in {attributes_message, Model.attributes.None}
    BY <1>3 DEF AttributesView!Add, AttributesView!Dismiss, AttributesView!HandleClose
  <2>2. ListedNow' = ListedNow
    BY <2>1 DEF ListedNow
  <2>3. AttributesShared'
    BY <1>1, <2>1, <2>2 DEF AttributesShared
  <2>4. AttributesFlags'
    <3>1. attributes_same' \in BOOLEAN
      BY <1>1, <2>1 DEF AttributesFlags
    <3> QED BY <1>1, <2>1, <3>1, AttributesHaste DEF AttributesFlags
  <2>5. AttributesRest' /\ AttributesNet'
    BY <1>1, <2>1, AttributesHaste DEF AttributesRest, AttributesNet, AttributeSound
  <2> QED BY <2>3, <2>4, <2>5 DEF AttributesWhole
<1>4. ASSUME NEW i \in DOMAIN attributes_attributes, AttributesView!EditAttribute(i)
      PROVE  AttributesWhole'
  <2>1. /\ UNCHANGED <<attributes_net, attributes_attributes, attributes_message,
                       attributes_typed>>
        /\ AttributesView!Event /\ attributes_open' = TRUE /\ attributes_edit' = TRUE
        /\ attributes_toEdit' = [doc |-> attributes_attributes[i], listed |-> TRUE]
        /\ attributes_form' = attributes_toEdit'.doc /\ attributes_same' = TRUE
    BY <1>4 DEF AttributesView!EditAttribute, AttributesView!Rendered
  <2>2. ListedNow' = ListedNow /\ attributes_toEdit'.doc \in ListedNow
    BY <2>1 DEF ListedNow
  <2> QED BY <1>1, <2>1, <2>2, AttributesHaste
          DEF AttributesWhole, AttributesShared, AttributesFlags, AttributesRest, AttributesNet,
              AttributeSound
<1>5. CASE AttributesView!HandleSubmit \/ AttributesView!HandleRemove
  <2>1. /\ UNCHANGED <<attributes_attributes, attributes_toEdit, attributes_edit,
                       attributes_form, attributes_same, attributes_open, attributes_typed>>
        /\ AttributesView!Event
        /\ attributes_message' \in {attributes_message, "duplicate", "invalid"}
    BY <1>5 DEF AttributesView!HandleSubmit, AttributesView!HandleRemove
  <2>2. \/ UNCHANGED attributes_net
        \/ \E kind \in {"post", "delete"} :
              AttributesView!Send(AttributesView!Request(kind, attributes_form))
    BY <1>5 DEF AttributesView!HandleSubmit, AttributesView!HandleRemove
  <2>3. AttributesNet'
    BY <1>1, <2>2, AttributesNetAsked DEF AttributesNet, AttributeSound
  <2>4. ListedNow' = ListedNow
    BY <2>1 DEF ListedNow
  <2> QED BY <1>1, <2>1, <2>3, <2>4, AttributesHaste
          DEF AttributesWhole, AttributesShared, AttributesFlags, AttributesRest
<1> QED BY <1>2, <1>3, <1>4, <1>5 DEF AttributesView!User

LEMMA AttributesWholeAnswered ==
    ASSUME AttributesTyped, AttributesWhole, NEW m \in attributes_net,
           \/ AttributesView!ListAnswered(m) \/ AttributesView!Saved(m)
           \/ AttributesView!Removed(m) \/ AttributesView!Failed(m)
           \/ \E b \in BOOLEAN : AttributesView!SessionAnswered(m, b)
    PROVE  AttributesWhole'
<1> USE DEF AttributesView!Answer, AttributesView!page, AttributesView!shown
<1>1. /\ AttributesShown /\ AttributesShared /\ AttributesFlags /\ AttributesRest
      /\ m \in MessagesNumbered(m.no) /\ AttributeSound(m) /\ IsFiniteSet(attributes_net)
      /\ \A n \in attributes_net : AttributeSound(n)
  BY DEF AttributesTyped, AttributesSent, AttributesWhole, AttributesNet
<1>2. /\ attributes_net' = attributes_net \ {m}
      /\ UNCHANGED <<attributes_foreign, attributes_hasty>>
  BY DEF AttributesView!ListAnswered, AttributesView!Saved, AttributesView!Removed,
     AttributesView!Failed, AttributesView!SessionAnswered
<1>3. AttributesNet'
  <2>1. IsFiniteSet(attributes_net \ {m})
    BY <1>1, FS_Subset
  <2> QED BY <1>1, <1>2, <2>1 DEF AttributesNet, AttributeSound
<1>4. /\ m.doc \in Docs /\ m.list \in Seq(Docs)
      /\ attributes_toEdit \in [doc : Docs, listed : BOOLEAN]
  BY <1>1 DEF MessagesNumbered, AttributesShown
<1>5. CASE AttributesView!ListAnswered(m)
  <2>1. /\ attributes_attributes' = m.list
        /\ attributes_toEdit' = [attributes_toEdit EXCEPT !.listed = FALSE]
        /\ attributes_form' = attributes_toEdit'.doc /\ attributes_same' = TRUE
        /\ attributes_typed' = {}
        /\ UNCHANGED <<attributes_edit, attributes_open, attributes_admin, attributes_message>>
    BY <1>5 DEF AttributesView!ListAnswered, AttributesView!Rendered
  <2>2. \A a \in ListedNow' : a.id \in Model.attributes.Ids
    BY <1>1, <2>1 DEF ListedNow, AttributeSound
  <2>3. attributes_toEdit'.listed = FALSE
    BY <1>4, <2>1
  <2> QED BY <1>1, <1>2, <1>3, <2>1, <2>2, <2>3
          DEF AttributesWhole, AttributesShared, AttributesFlags, AttributesRest
<1>6. CASE AttributesView!Saved(m)
  <2> DEFINE list == AttributesView!WithSaved(attributes_attributes, m.doc)
  <2>1. /\ m.kind = "post" /\ m.at = "done" /\ attributes_attributes' = list
        /\ attributes_toEdit'.listed = FALSE
        /\ attributes_typed' = attributes_typed \ {m.doc.id}
        /\ attributes_same' = FALSE /\ attributes_open' = FALSE
        /\ UNCHANGED <<attributes_edit, attributes_admin, attributes_message>>
    BY <1>6 DEF AttributesView!Saved
  <2>2. {list[i] : i \in DOMAIN list} = WithoutId(ListedNow, m.doc.id) \cup {m.doc}
    BY <1>1, <1>4, SavedOf
  <2> HIDE DEF list
  <2>3. \A a \in ListedNow' : a = m.doc \/ a \in ListedNow
    BY <2>1, <2>2 DEF ListedNow, WithoutId
  <2>4. \A a \in ListedNow' : a.id \in Model.attributes.Ids
    BY <1>1, <2>1, <2>3 DEF AttributesShared, AttributeSound
  <2> QED BY <1>1, <1>2, <1>3, <2>1, <2>4
          DEF AttributesWhole, AttributesShared, AttributesFlags, AttributesRest
<1>7. CASE AttributesView!Removed(m)
  <2> DEFINE id == attributes_form.id
             K == {i \in DOMAIN attributes_attributes : attributes_attributes[i].id # id}
  <2>1. /\ attributes_toEdit' = [attributes_toEdit EXCEPT
                                   !.listed = @ /\ attributes_toEdit.doc.id # id]
        /\ attributes_same' = FALSE /\ attributes_open' = FALSE
        /\ UNCHANGED <<attributes_edit, attributes_admin, attributes_message, attributes_typed>>
    BY <1>7 DEF AttributesView!Removed
  <2>2. PICK kept \in [1 .. AttributesView!Cardinality(K) -> K] :
           /\ \A i, j \in DOMAIN kept : i < j => kept[i] < kept[j]
           /\ attributes_attributes' = [i \in DOMAIN kept |-> attributes_attributes[kept[i]]]
    BY <1>7 DEF AttributesView!Removed, AttributesView!InOrder
  <2> DEFINE list == [i \in DOMAIN kept |-> attributes_attributes[kept[i]]]
  <2>10. K = {i \in DOMAIN attributes_attributes : attributes_attributes[i].id # id}
    OBVIOUS
  <2> HIDE DEF K, id
  <2>3. {list[i] : i \in DOMAIN list} = WithoutId(ListedNow, id)
    BY <1>1, <2>2, <2>10, KeptOf
  <2>4. attributes_attributes' = list
    BY <2>2
  <2> HIDE DEF list
  <2>5. ListedNow' = WithoutId(ListedNow, id)
    BY <2>3, <2>4 DEF ListedNow
  <2>6. attributes_toEdit'.listed => /\ attributes_toEdit.listed
                                     /\ attributes_toEdit.doc.id # id
                                     /\ attributes_toEdit'.doc = attributes_toEdit.doc
    BY <1>4, <2>1
  <2>7. AttributesShared'
    BY <1>1, <2>1, <2>5, <2>6 DEF AttributesShared, WithoutId
  <2> QED BY <1>1, <1>2, <1>3, <2>1, <2>7
          DEF AttributesWhole, AttributesFlags, AttributesRest
<1>8. CASE AttributesView!Failed(m) \/ \E b \in BOOLEAN : AttributesView!SessionAnswered(m, b)
  <2>1. /\ UNCHANGED <<attributes_attributes, attributes_toEdit, attributes_form,
                       attributes_typed, attributes_edit, attributes_same, attributes_open>>
        /\ attributes_message' \in {attributes_message, "failed"}
    BY <1>8 DEF AttributesView!Failed, AttributesView!SessionAnswered
  <2>2. attributes_admin' \in BOOLEAN
    <3>1. CASE AttributesView!Failed(m)
      BY <1>1, <3>1 DEF AttributesView!Failed, AttributesFlags
    <3>2. CASE \E b \in BOOLEAN : AttributesView!SessionAnswered(m, b)
      BY <3>2 DEF AttributesView!SessionAnswered
    <3> QED BY <1>8, <3>1, <3>2
  <2>3. ListedNow' = ListedNow
    BY <2>1 DEF ListedNow
  <2> QED BY <1>1, <1>2, <1>3, <2>1, <2>2, <2>3
          DEF AttributesWhole, AttributesShared, AttributesFlags, AttributesRest
<1> QED BY <1>5, <1>6, <1>7, <1>8

LEMMA AttributesWholeStep ==
    AttributesTyped /\ AttributesWhole /\ [UINext]_uiVars => AttributesWhole'
<1> SUFFICES ASSUME AttributesTyped, AttributesWhole, AttributesView!Next
             PROVE  AttributesWhole'
  <2>1. [UINext]_uiVars => AttributesView!Next \/ UNCHANGED AttributesView!vars
    BY DEF UINext, OthersIdle, uiVars, AttributesView!Idle
  <2>2. UNCHANGED AttributesView!vars /\ AttributesWhole => AttributesWhole'
    <3> SUFFICES ASSUME UNCHANGED AttributesView!vars, AttributesWhole PROVE AttributesWhole'
      OBVIOUS
    <3>1. UNCHANGED <<attributes_net, attributes_hasty, attributes_attributes,
                      attributes_toEdit, attributes_edit, attributes_form, attributes_same,
                      attributes_open, attributes_admin, attributes_message,
                      attributes_typed, attributes_foreign>>
      BY DEF AttributesView!vars, AttributesView!page, AttributesView!shown,
         AttributesView!bounds
    <3>2. ListedNow' = ListedNow
      BY <3>1 DEF ListedNow
    <3> QED BY <3>1, <3>2 DEF AttributesWhole, AttributesNet, AttributeSound, AttributesShared,
            AttributesFlags, AttributesRest
  <2> QED BY <2>1, <2>2
<1>1. ASSUME NEW m \in attributes_net,
             \/ AttributesView!Serve(m) \/ AttributesView!Lose(m)
             \/ AttributesView!ListAnswered(m) \/ AttributesView!Saved(m)
             \/ AttributesView!Removed(m) \/ AttributesView!Failed(m)
             \/ \E b \in BOOLEAN : AttributesView!SessionAnswered(m, b)
      PROVE  AttributesWhole'
  BY <1>1, AttributesWholeServed, AttributesWholeElse, AttributesWholeAnswered
<1>2. CASE \E a \in attributes_stored : \E b : AttributesView!ChangeElsewhere(a, b)
  BY <1>2, AttributesWholeElse
<1> QED BY <1>1, <1>2, AttributesWholeUser DEF AttributesView!Next

-----------------------------------------------------------------------------
(* So have the comments of a test case *)

(* What the type of the panel of comments says beyond CommentsTyped: a      *)
(* comment is removed only while the dialog asks about one.                 *)
CommentsNet ==
    /\ IsFiniteSet(comments_net)
    /\ \A m \in comments_net : /\ m.no \in 1 .. Model.comments.MaxInFlight
                               /\ m.comment.id \in Model.comments.Ids \cup {0}
CommentsPage ==
    /\ comments_asking => comments_toRemove \in Model.comments.Ids
    /\ comments_forms \subseteq DOMAIN comments_comments
    /\ comments_typed \subseteq Model.comments.Ids
    /\ comments_badge \in Nat
CommentsRest ==
    /\ comments_lastId \in Model.comments.Ids \cup {0}
    /\ comments_session \in {"none", "user", "admin"}
    /\ comments_message \in {Model.comments.None, "failed"}
CommentsFlags ==
    comments_asking \in BOOLEAN /\ comments_crashed \in BOOLEAN /\ comments_steady \in BOOLEAN
CommentsWhole == CommentsNet /\ CommentsPage /\ CommentsRest /\ CommentsFlags

LEMMA CommentsOfType == CommentsTyped /\ CommentsWhole => CommentsView!TypeOK
<1> SUFFICES ASSUME CommentsTyped, CommentsWhole PROVE CommentsView!TypeOK
  OBVIOUS
<1>1. ASSUME NEW m \in comments_net
      PROVE  /\ m.no \in 1 .. Model.comments.MaxInFlight /\ m.kind \in CommentsView!Kinds
             /\ m.at \in {"sent", "done", "failed"}
             /\ m.comment \in CommentsView!Sent
             /\ m.index \in Nat
             /\ m.answer \in Seq(CommentsView!Comment)
  <2>1. m \in CommentMessages(m.no)
    BY DEF CommentsTyped, CommentSent
  <2>2. m.comment \in CommentDrafts /\ m.comment.id \in Model.comments.Ids \cup {0}
    BY <2>1 DEF CommentMessages, CommentsWhole, CommentsNet
  <2>3. m.comment \in CommentsView!Sent
    BY <2>2 DEF CommentDrafts, CommentsView!Sent
  <2> QED BY <2>1, <2>3 DEF CommentMessages, CommentDocs, CommentsWhole, CommentsNet
<1>2. \A b \in {comments_asking, comments_crashed, comments_steady} : b \in BOOLEAN
  BY Zenon DEF CommentsWhole, CommentsFlags
<1>3. /\ \A e \in Model.comments.Entities : comments_stored[e] \in Seq(CommentsView!Comment)
      /\ CommentsShown
  BY DEF CommentsTyped, CommentsKept, CommentDocs
<1>4. CommentsPage /\ CommentsRest
  BY DEF CommentsWhole
<1> QED BY <1>1, <1>2, <1>3, <1>4
        DEF CommentsShown, CommentDocs, CommentsPage, CommentsRest, CommentsView!TypeOK

LEMMA CommentsWholeInit == UIInit => CommentsWhole
<1> SUFFICES ASSUME CommentsView!Init PROVE CommentsWhole
  BY DEF UIInit
<1>1. CommentsNet
  <2>1. PICK m : m = CommentsView!Request("session")
    OBVIOUS
  <2>2. comments_net = {m} /\ m.no = 1 /\ m.comment.id = 0
    BY <2>1 DEF CommentsView!Init, CommentsView!Request, CommentsView!NoComment
  <2>3. IsFiniteSet({m})
    BY FS_Singleton
  <2>4. 1 \in 1 .. Model.comments.MaxInFlight
    BY CommentsAssumption
  <2> QED BY <2>2, <2>3, <2>4 DEF CommentsNet
<1>2. comments_lastId \in Model.comments.Ids \cup {0}
  <2> DEFINE ids == CommentsView!BeginIds
  <2>1. IsFiniteSet(ids) /\ ids = 1 .. Cardinality(ids)
    BY CommentsAssumption
  <2>2. ids \subseteq Model.comments.Ids
    <3>1. \A e \in Model.comments.Entities :
             Model.comments.Begin[e] \in Seq(CommentsView!Comment)
      BY CommentsAssumption
    <3>2. \A e \in Model.comments.Entities :
             \A c \in CommentsView!Range(Model.comments.Begin[e]) : c \in CommentsView!Comment
      BY <3>1 DEF CommentsView!Range
    <3> QED BY <3>2 DEF CommentsView!BeginIds, CommentsView!Comment
  <2>3. comments_lastId = CommentsView!Cardinality(ids)
    BY DEF CommentsView!Init
  <2> HIDE DEF ids
  <2>4. Cardinality(ids) \in Nat /\ CommentsView!Cardinality(ids) = Cardinality(ids)
    BY <2>1, FS_CardinalityType, Zenon DEF CommentsView!Cardinality, Cardinality
  <2>5. comments_lastId \in Nat /\ ids = 1 .. comments_lastId
    BY <2>1, <2>3, <2>4
  <2>6. comments_lastId = 0 \/ comments_lastId \in ids
    BY <2>5
  <2> QED BY <2>2, <2>6
<1> QED BY <1>1, <1>2
        DEF CommentsView!Init, CommentsWhole, CommentsPage, CommentsRest, CommentsFlags

-----------------------------------------------------------------------------
LEMMA CommentsSizes == \A S : CommentsView!Cardinality(S) = Cardinality(S)
BY Zenon DEF CommentsView!Cardinality, Cardinality

LEMMA CommentsThrows == \A list : CommentsView!Throws(list) \in BOOLEAN
BY Zenon DEF CommentsView!Throws

LEMMA CommentsNetReplied ==
    ASSUME CommentsNet, \A k \in comments_net : CommentSent(k), NEW m \in comments_net,
           NEW outcome, NEW answer, CommentsView!Reply(m, outcome, answer)
    PROVE  CommentsNet'
<1>1. PICK n : n = [m EXCEPT !.at = outcome, !.answer = answer]
  OBVIOUS
<1>2. m \in CommentMessages(m.no)
  BY DEF CommentSent
<1>3. n.no = m.no /\ n.comment = m.comment
  BY <1>1, <1>2 DEF CommentMessages
<1>4. comments_net' = (comments_net \ {m}) \cup {n}
  BY <1>1 DEF CommentsView!Reply
<1>5. IsFiniteSet(comments_net \ {m})
  BY FS_Subset DEF CommentsNet
<1>6. IsFiniteSet((comments_net \ {m}) \cup {n})
  BY <1>5, FS_AddElement
<1> QED BY <1>3, <1>4, <1>6 DEF CommentsNet

LEMMA CommentsNetAsked ==
    ASSUME CommentsNet, NEW r, CommentsView!Send(r), r \in CommentMessages(r.no),
           r.comment.id \in Model.comments.Ids \cup {0}
    PROVE  CommentsNet'
<1> DEFINE top == Model.comments.MaxInFlight
           free == CommentsView!Free(r.kind)
<1>1. IsFiniteSet(comments_net) /\ Cardinality(comments_net) < top /\ top \in Nat
  BY CommentsAssumption, CommentsSizes DEF CommentsNet, CommentsView!Send
<1> HIDE DEF top
<1>2. PICK kind : kind = r.kind
  OBVIOUS
<1>3. PICK i \in Unused(comments_net, top, kind) :
         \A j \in Unused(comments_net, top, kind) : i <= j
  BY ONLY <1>1, FreeNumber
<1>4. free = Unused(comments_net, top, kind)
  BY <1>2 DEF CommentsView!Free, Unused, top
<1> HIDE DEF free
<1>5. PICK k : k = CHOOSE i_1 \in free : \A j \in free : i_1 <= j
  OBVIOUS
<1>6. k \in free
  BY <1>3, <1>4, <1>5
<1>7. k \in 1 .. Model.comments.MaxInFlight
  BY <1>6 DEF CommentsView!Free, free
<1>8. comments_net' = comments_net \cup {[r EXCEPT !.no = k]}
  BY <1>5 DEF CommentsView!Send, free
<1>9. PICK q : q = [r EXCEPT !.no = k]
  OBVIOUS
<1>10. q.no = k /\ q.comment = r.comment
  BY <1>9 DEF CommentMessages
<1>11. IsFiniteSet(comments_net \cup {q})
  BY <1>1, FS_AddElement
<1> QED BY <1>7, <1>8, <1>9, <1>10, <1>11 DEF CommentsNet

LEMMA CommentsWholeServed ==
    ASSUME CommentsTyped, CommentsWhole, NEW m \in comments_net,
           CommentsView!Serve(m) \/ CommentsView!Lose(m)
    PROVE  CommentsWhole'
<1>1. /\ CommentsNet /\ CommentsPage /\ CommentsRest /\ CommentsFlags
      /\ \A k \in comments_net : CommentSent(k)
      /\ m.kind \in CommentsView!Kinds
  BY DEF CommentsTyped, CommentsWhole, CommentSent, CommentMessages
<1>2. UNCHANGED <<comments_asking, comments_toRemove, comments_forms, comments_comments,
                  comments_typed, comments_badge, comments_session, comments_message,
                  comments_crashed, comments_steady>>
  BY DEF CommentsView!Serve, CommentsView!Lose, CommentsView!page, CommentsView!dialog,
     CommentsView!history
<1>3. \E outcome, answer : CommentsView!Reply(m, outcome, answer)
  BY <1>1, Zenon DEF CommentsView!Serve, CommentsView!Lose, CommentsView!Kinds
<1>4. CommentsNet'
  BY <1>1, <1>3, CommentsNetReplied
<1>5. comments_lastId' \in Model.comments.Ids \cup {0}
  <2>1. CASE CommentsView!Lose(m)
    BY <1>1, <2>1 DEF CommentsView!Lose, CommentsView!service, CommentsRest
  <2>2. CASE CommentsView!Serve(m) /\ m.kind = "add"
    BY <2>2 DEF CommentsView!Serve
  <2>3. CASE CommentsView!Serve(m) /\ m.kind # "add"
    <3>1. UNCHANGED comments_lastId
      BY <1>1, <2>3 DEF CommentsView!Serve, CommentsView!service, CommentsView!Kinds
    <3> QED BY <1>1, <3>1 DEF CommentsRest
  <2> QED BY <2>1, <2>2, <2>3
<1> QED BY <1>1, <1>2, <1>4, <1>5 DEF CommentsWhole, CommentsPage, CommentsRest, CommentsFlags

LEMMA CommentsWholeElsewhere ==
    ASSUME CommentsTyped, CommentsWhole, NEW e \in Model.comments.Entities,
           \/ \E t \in Model.comments.Texts : CommentsView!WriteElsewhere(e, t)
           \/ \E id \in Model.comments.Ids : CommentsView!RemoveElsewhere(e, id)
    PROVE  CommentsWhole'
<1>1. CommentsNet /\ CommentsPage /\ CommentsRest /\ CommentsFlags
  BY DEF CommentsWhole
<1>2. /\ UNCHANGED <<comments_net, comments_asking, comments_toRemove, comments_forms,
                     comments_comments, comments_typed, comments_badge, comments_session,
                     comments_message, comments_crashed>>
      /\ comments_steady' = FALSE
  BY DEF CommentsView!WriteElsewhere, CommentsView!RemoveElsewhere, CommentsView!page,
     CommentsView!dialog
<1>3. comments_lastId' = comments_lastId \/ comments_lastId' \in Model.comments.Ids
  BY DEF CommentsView!WriteElsewhere, CommentsView!RemoveElsewhere
<1> QED BY <1>1, <1>2, <1>3
        DEF CommentsWhole, CommentsNet, CommentsPage, CommentsRest, CommentsFlags

(* What the user does sends one request, or none. *)
LEMMA CommentsUserNet ==
    ASSUME CommentsTyped, CommentsWhole, CommentsView!User
    PROVE  CommentsNet'
<1>1. /\ CommentsNet /\ CommentsShown /\ CommentsPage
  BY DEF CommentsTyped, CommentsWhole
<1>2. CASE UNCHANGED comments_net
  BY <1>1, <1>2 DEF CommentsNet
<1>3. ASSUME NEW r \in CommentMessages(1), CommentsView!Send(r),
             r.comment.id \in Model.comments.Ids \cup {0}
      PROVE  CommentsNet'
  <2>1. r.no = 1
    BY DEF CommentMessages
  <2> QED BY <1>1, <1>3, <2>1, CommentsNetAsked
<1>4. CommentsView!NoComment.id = 0
  BY DEF CommentsView!NoComment
<1>5. \A kind : CommentsView!Request(kind).comment = CommentsView!NoComment
  BY DEF CommentsView!Request
<1>6. ASSUME NEW e \in Model.comments.Entities,
             CommentsView!Send([CommentsView!Request("list") EXCEPT !.entity = e])
      PROVE  CommentsNet'
  <2>1. PICK q, r : q = CommentsView!Request("list") /\ r = [q EXCEPT !.entity = e]
    OBVIOUS
  <2>2. q \in CommentMessages(1) /\ q.comment.id = 0
    BY <1>4, <1>5, <2>1, RequestTyped DEF CommentsView!Kinds
  <2>3. r \in CommentMessages(1) /\ r.comment.id = 0
    BY <2>1, <2>2 DEF CommentMessages
  <2> QED BY <1>3, <1>6, <2>1, <2>3
<1>7. ASSUME CommentsView!Send([CommentsView!Request("add") EXCEPT
                !.entity = comments_entity, !.comment.text = comments_draft])
      PROVE  CommentsNet'
  <2>1. PICK q, c : /\ q = CommentsView!Request("add")
                    /\ c = [q.comment EXCEPT !.text = comments_draft]
    OBVIOUS
  <2>2. q \in CommentMessages(1) /\ q.comment \in CommentDrafts /\ q.comment.id = 0
    BY <1>4, <1>5, <2>1, RequestTyped DEF CommentsView!Kinds
  <2>3. c \in CommentDrafts /\ c.id = 0
    BY <1>1, <2>1, <2>2 DEF CommentDrafts, CommentsShown
  <2>4. PICK r : r = [q EXCEPT !.entity = comments_entity, !.comment = c]
    OBVIOUS
  <2>5. r \in CommentMessages(1) /\ r.comment = c
    BY <1>1, <2>2, <2>3, <2>4 DEF CommentMessages, CommentsShown
  <2>6. CommentsView!Send(r)
    BY <1>7, <2>1, <2>4
  <2> QED BY <1>3, <2>3, <2>5, <2>6
<1>8. ASSUME NEW i \in DOMAIN comments_comments,
             comments_comments[i] # Model.comments.None,
             CommentsView!Send([CommentsView!Request("update") EXCEPT
                !.entity = comments_entity, !.comment = comments_comments[i], !.index = i])
      PROVE  CommentsNet'
  <2>1. PICK q, c : q = CommentsView!Request("update") /\ c = comments_comments[i]
    OBVIOUS
  <2>2. c \in CommentDocs /\ i \in Nat
    BY <1>1, <1>8, <2>1 DEF CommentsShown
  <2>3. c \in CommentDrafts /\ c.id \in Model.comments.Ids
    BY <2>2 DEF CommentDocs, CommentDrafts, CommentsView!Comment
  <2>4. q \in CommentMessages(1)
    BY <2>1, RequestTyped DEF CommentsView!Kinds
  <2>5. PICK r : r = [q EXCEPT !.entity = comments_entity, !.comment = c, !.index = i]
    OBVIOUS
  <2>6. r \in CommentMessages(1) /\ r.comment = c
    BY <1>1, <2>2, <2>3, <2>4, <2>5 DEF CommentMessages, CommentsShown
  <2>7. CommentsView!Send(r)
    BY <1>8, <2>1, <2>5
  <2> QED BY <1>3, <2>3, <2>6, <2>7
<1>9. ASSUME comments_asking,
              CommentsView!Send([CommentsView!Request("remove") EXCEPT
                !.entity = comments_entity, !.comment.id = comments_toRemove])
       PROVE  CommentsNet'
  <2>1. PICK q, c : /\ q = CommentsView!Request("remove")
                    /\ c = [q.comment EXCEPT !.id = comments_toRemove]
    OBVIOUS
  <2>2. q \in CommentMessages(1) /\ q.comment \in CommentDrafts
    BY <2>1, RequestTyped DEF CommentsView!Kinds
  <2>3. c \in CommentDrafts /\ c.id = comments_toRemove
    BY <1>1, <2>1, <2>2 DEF CommentDrafts, CommentsShown
  <2>4. c.id \in Model.comments.Ids
    BY <1>1, <1>9, <2>3 DEF CommentsPage
  <2>5. PICK r : r = [q EXCEPT !.entity = comments_entity, !.comment = c]
    OBVIOUS
  <2>6. r \in CommentMessages(1) /\ r.comment = c
    BY <1>1, <2>2, <2>3, <2>5 DEF CommentMessages, CommentsShown
  <2>7. CommentsView!Send(r)
    BY <1>9, <2>1, <2>5
  <2> QED BY <1>3, <2>4, <2>6, <2>7
<1>10. CASE \E e \in Model.comments.Entities : CommentsView!ReceiveProps(e)
  BY <1>2, <1>6, <1>10 DEF CommentsView!ReceiveProps
<1>11. CASE \/ \E t \in Model.comments.Texts : CommentsView!HandleChange(t)
            \/ CommentsView!CancelRemoveCommentConfirmation
            \/ \E i \in DOMAIN comments_comments :
                  \/ CommentsView!ToggleEdit(i) \/ CommentsView!CancelEdit(i)
                  \/ \E t \in Model.comments.Texts : CommentsView!HandleUpdateChange(i, t)
                  \/ CommentsView!RemoveCommentConfirmation(i)
  BY <1>2, <1>11 DEF CommentsView!HandleChange, CommentsView!CancelRemoveCommentConfirmation,
     CommentsView!ToggleEdit, CommentsView!CancelEdit, CommentsView!HandleUpdateChange,
     CommentsView!RemoveCommentConfirmation
<1>12. CASE CommentsView!HandleSubmit
  BY <1>7, <1>12 DEF CommentsView!HandleSubmit
<1>13. CASE \E i \in DOMAIN comments_comments : CommentsView!HandleUpdateSubmit(i)
  BY <1>8, <1>13 DEF CommentsView!HandleUpdateSubmit
<1>14. CASE CommentsView!RemoveComment
  BY <1>9, <1>14 DEF CommentsView!RemoveComment
<1> QED BY <1>10, <1>11, <1>12, <1>13, <1>14 DEF CommentsView!User

LEMMA CommentsUserFlags ==
    ASSUME CommentsFlags, CommentsView!User
    PROVE  /\ CommentsFlags'
           /\ UNCHANGED <<comments_lastId, comments_session, comments_message, comments_badge>>
<1> USE CommentsThrows
    DEF CommentsFlags, CommentsView!Event, CommentsView!page, CommentsView!dialog,
        CommentsView!history, CommentsView!service, CommentsView!Rendered
<1>1. ASSUME NEW e \in Model.comments.Entities, CommentsView!ReceiveProps(e)
      PROVE  /\ comments_asking' \in BOOLEAN /\ comments_crashed' \in BOOLEAN
             /\ comments_steady' \in BOOLEAN
             /\ UNCHANGED <<comments_lastId, comments_session, comments_message,
                            comments_badge>>
  <2>1. comments_steady' \in BOOLEAN
    BY <1>1, Zenon DEF CommentsView!ReceiveProps
  <2> QED BY <1>1, <2>1 DEF CommentsView!ReceiveProps
<1>2. ASSUME NEW t \in Model.comments.Texts, CommentsView!HandleChange(t)
      PROVE  /\ comments_asking' \in BOOLEAN /\ comments_crashed' \in BOOLEAN
             /\ comments_steady' \in BOOLEAN
             /\ UNCHANGED <<comments_lastId, comments_session, comments_message,
                            comments_badge>>
  BY <1>2 DEF CommentsView!HandleChange
<1>3. CASE \/ CommentsView!HandleSubmit \/ CommentsView!RemoveComment
           \/ CommentsView!CancelRemoveCommentConfirmation
  <2>1. comments_steady' \in BOOLEAN
    BY <1>3, Zenon DEF CommentsView!HandleSubmit, CommentsView!RemoveComment,
       CommentsView!CancelRemoveCommentConfirmation
  <2> QED BY <1>3, <2>1 DEF CommentsView!HandleSubmit, CommentsView!RemoveComment,
       CommentsView!CancelRemoveCommentConfirmation
<1>4. ASSUME NEW i \in DOMAIN comments_comments,
             \/ CommentsView!ToggleEdit(i) \/ CommentsView!CancelEdit(i)
             \/ CommentsView!HandleUpdateSubmit(i)
             \/ CommentsView!RemoveCommentConfirmation(i)
      PROVE  /\ comments_asking' \in BOOLEAN /\ comments_crashed' \in BOOLEAN
             /\ comments_steady' \in BOOLEAN
             /\ UNCHANGED <<comments_lastId, comments_session, comments_message,
                            comments_badge>>
  <2>1. comments_steady' \in BOOLEAN
    BY <1>4, Zenon DEF CommentsView!ToggleEdit, CommentsView!CancelEdit,
       CommentsView!HandleUpdateSubmit, CommentsView!RemoveCommentConfirmation
  <2> QED BY <1>4, <2>1 DEF CommentsView!ToggleEdit, CommentsView!CancelEdit,
       CommentsView!HandleUpdateSubmit, CommentsView!RemoveCommentConfirmation
<1>5. ASSUME NEW i \in DOMAIN comments_comments, NEW t \in Model.comments.Texts,
             CommentsView!HandleUpdateChange(i, t)
      PROVE  /\ comments_asking' \in BOOLEAN /\ comments_crashed' \in BOOLEAN
             /\ comments_steady' \in BOOLEAN
             /\ UNCHANGED <<comments_lastId, comments_session, comments_message,
                            comments_badge>>
  <2>1. comments_steady' \in BOOLEAN
    BY <1>5, Zenon DEF CommentsView!HandleUpdateChange
  <2> QED BY <1>5, <2>1 DEF CommentsView!HandleUpdateChange
<1> QED BY <1>1, <1>2, <1>3, <1>4, <1>5 DEF CommentsView!User

LEMMA CommentsUserPage ==
    ASSUME CommentsTyped, CommentsPage, CommentsView!User
    PROVE  /\ comments_asking' => comments_toRemove' \in Model.comments.Ids
           /\ comments_forms' \subseteq DOMAIN comments_comments'
           /\ comments_typed' \subseteq Model.comments.Ids
<1> USE DEF CommentsView!page, CommentsView!dialog, CommentsView!history, CommentsView!Rendered
<1>1. /\ comments_comments \in Seq(CommentDocs \cup {Model.comments.None})
      /\ comments_asking => comments_toRemove \in Model.comments.Ids
      /\ comments_forms \subseteq DOMAIN comments_comments
      /\ comments_typed \subseteq Model.comments.Ids
  BY DEF CommentsTyped, CommentsShown, CommentsPage
<1>2. ASSUME NEW i \in DOMAIN comments_comments, comments_comments[i] # Model.comments.None
      PROVE  comments_comments[i].id \in Model.comments.Ids
  BY <1>1, <1>2 DEF CommentDocs, CommentsView!Comment
<1>3. CASE \/ \E e \in Model.comments.Entities : CommentsView!ReceiveProps(e)
           \/ \E t \in Model.comments.Texts : CommentsView!HandleChange(t)
           \/ CommentsView!HandleSubmit \/ CommentsView!RemoveComment
           \/ CommentsView!CancelRemoveCommentConfirmation
           \/ \E i \in DOMAIN comments_comments : CommentsView!HandleUpdateSubmit(i)
  <2>1. /\ UNCHANGED <<comments_comments, comments_forms, comments_typed>>
        /\ \/ UNCHANGED <<comments_asking, comments_toRemove>>
           \/ comments_asking' = FALSE
    BY <1>3 DEF CommentsView!ReceiveProps, CommentsView!HandleChange,
       CommentsView!HandleSubmit, CommentsView!RemoveComment,
       CommentsView!CancelRemoveCommentConfirmation, CommentsView!HandleUpdateSubmit
  <2> QED BY <1>1, <2>1
<1>4. ASSUME NEW i \in DOMAIN comments_comments,
             CommentsView!ToggleEdit(i) \/ CommentsView!CancelEdit(i)
      PROVE  /\ comments_asking' => comments_toRemove' \in Model.comments.Ids
             /\ comments_forms' \subseteq DOMAIN comments_comments'
             /\ comments_typed' \subseteq Model.comments.Ids
  <2>1. /\ UNCHANGED <<comments_comments, comments_typed, comments_asking, comments_toRemove>>
        /\ comments_forms' \in {comments_forms \cup {i}, comments_forms \ {i}}
    BY <1>4 DEF CommentsView!ToggleEdit, CommentsView!CancelEdit
  <2> QED BY <1>1, <2>1
<1>5. ASSUME NEW i \in DOMAIN comments_comments, NEW t \in Model.comments.Texts,
             CommentsView!HandleUpdateChange(i, t)
      PROVE  /\ comments_asking' => comments_toRemove' \in Model.comments.Ids
             /\ comments_forms' \subseteq DOMAIN comments_comments'
             /\ comments_typed' \subseteq Model.comments.Ids
  <2>1. /\ UNCHANGED <<comments_forms, comments_asking, comments_toRemove>>
        /\ comments_comments' = [comments_comments EXCEPT ![i].text = t]
        /\ comments_comments[i] # Model.comments.None
        /\ comments_typed' = comments_typed \cup {comments_comments[i].id}
    BY <1>5 DEF CommentsView!HandleUpdateChange
  <2>2. DOMAIN comments_comments' = DOMAIN comments_comments
    BY <2>1
  <2> QED BY <1>1, <1>2, <2>1, <2>2
<1>6. ASSUME NEW i \in DOMAIN comments_comments, CommentsView!RemoveCommentConfirmation(i)
      PROVE  /\ comments_asking' => comments_toRemove' \in Model.comments.Ids
             /\ comments_forms' \subseteq DOMAIN comments_comments'
             /\ comments_typed' \subseteq Model.comments.Ids
  <2>1. /\ UNCHANGED <<comments_comments, comments_forms, comments_typed>>
        /\ comments_comments[i] # Model.comments.None
        /\ comments_toRemove' = comments_comments[i].id
    BY <1>6 DEF CommentsView!RemoveCommentConfirmation
  <2> QED BY <1>1, <1>2, <2>1
<1> QED BY <1>3, <1>4, <1>5, <1>6 DEF CommentsView!User

LEMMA CommentsWholeAnswered ==
    ASSUME CommentsTyped, CommentsTyped', CommentsWhole, NEW m \in comments_net,
           \/ \E who \in {"user", "admin"} : CommentsView!SessionAnswered(m, who)
           \/ CommentsView!CommentsAnswered(m) \/ CommentsView!CommentCreated(m)
           \/ CommentsView!CommentUpdated(m) \/ CommentsView!CommentRemoved(m)
           \/ CommentsView!Failed(m)
    PROVE  CommentsWhole'
<1> USE DEF CommentsView!Answer, CommentsView!service, CommentsView!page, CommentsView!dialog,
            CommentsView!history, CommentsView!Rendered, CommentsView!Counted
<1>1. /\ CommentsNet /\ CommentsPage /\ CommentsRest /\ CommentsFlags
      /\ CommentSent(m) /\ m \in CommentMessages(m.no)
      /\ comments_comments \in Seq(CommentDocs \cup {Model.comments.None})
      /\ comments_comments' \in Seq(CommentDocs \cup {Model.comments.None})
  BY DEF CommentsTyped, CommentsShown, CommentsWhole, CommentSent
<1>2. comments_net' = comments_net \ {m} /\ UNCHANGED comments_lastId
  BY DEF CommentsView!SessionAnswered, CommentsView!CommentsAnswered,
     CommentsView!CommentCreated, CommentsView!CommentUpdated, CommentsView!CommentRemoved,
     CommentsView!Failed
<1>3. CommentsNet'
  <2>1. IsFiniteSet(comments_net \ {m})
    BY <1>1, FS_Subset DEF CommentsNet
  <2> QED BY <1>1, <1>2, <2>1 DEF CommentsNet
<1>4. Len(comments_comments') \in Nat
  BY <1>1
<1>5. /\ m.answer \in Seq(CommentDocs) /\ m.index \in Nat
      /\ m.kind \in {"add", "update"} /\ m.at = "done" => Len(m.answer) = 1
      /\ m.kind = "update" => m.index # 0
  BY <1>1 DEF CommentMessages, CommentSent
<1>6. CASE \E who \in {"user", "admin"} : CommentsView!SessionAnswered(m, who)
  <2>1. /\ comments_session' \in {"user", "admin"}
        /\ UNCHANGED <<comments_asking, comments_toRemove, comments_forms, comments_comments,
                       comments_typed, comments_badge, comments_message, comments_crashed,
                       comments_steady>>
    BY <1>6 DEF CommentsView!SessionAnswered
  <2> QED BY <1>1, <1>2, <1>3, <2>1
          DEF CommentsWhole, CommentsPage, CommentsRest, CommentsFlags
<1>7. CASE CommentsView!CommentsAnswered(m)
  <2>1. /\ comments_comments' = m.answer /\ comments_badge' = Len(m.answer)
        /\ comments_forms' = comments_forms \cap DOMAIN m.answer /\ comments_typed' = {}
        /\ comments_crashed' = CommentsView!Throws(m.answer)
        /\ UNCHANGED <<comments_asking, comments_toRemove, comments_session, comments_message>>
    BY <1>7 DEF CommentsView!CommentsAnswered
  <2>2. comments_steady' \in BOOLEAN
    BY <1>7, Zenon DEF CommentsView!CommentsAnswered
  <2>3. CommentsPage'
    BY <1>1, <1>4, <2>1 DEF CommentsPage
  <2> QED BY <1>1, <1>2, <1>3, <2>1, <2>2, <2>3, CommentsThrows
          DEF CommentsWhole, CommentsRest, CommentsFlags
<1>8. CASE CommentsView!CommentCreated(m)
  <2>1. PICK list : list = <<m.answer[1]>> \o comments_comments
    OBVIOUS
  <2>2. /\ m.kind = "add" /\ m.at = "done"
        /\ comments_comments' = list /\ comments_badge' = Len(list)
        /\ comments_crashed' = CommentsView!Throws(list)
        /\ UNCHANGED <<comments_asking, comments_toRemove, comments_session, comments_message,
                       comments_forms, comments_typed, comments_steady>>
    BY <1>8, <2>1 DEF CommentsView!CommentCreated, CommentsView!WithNew
  <2>3. m.answer[1] \in CommentDocs \cup {Model.comments.None}
    BY <1>5, <2>2
  <2>4. DOMAIN comments_comments \subseteq DOMAIN list
    <3>1. DOMAIN list = 1 .. Len(comments_comments) + 1 /\ Len(comments_comments) \in Nat
          /\ DOMAIN comments_comments = 1 .. Len(comments_comments)
      BY <1>1, <2>1, <2>3, PutFirst
    <3> QED BY <3>1
  <2>5. CommentsPage'
    BY <1>1, <1>4, <2>2, <2>4 DEF CommentsPage
  <2> QED BY <1>1, <1>2, <1>3, <2>2, <2>5, CommentsThrows
          DEF CommentsWhole, CommentsRest, CommentsFlags
<1>9. CASE CommentsView!CommentUpdated(m)
  <2>1. PICK n, k : n = Len(comments_comments) /\ k = m.index - 1 - n
    OBVIOUS
  <2>2. PICK holes : holes = [i \in 1 .. k |-> Model.comments.None]
    OBVIOUS
  <2>3. PICK list : list = IF m.index <= n
                             THEN [comments_comments EXCEPT ![m.index] = m.answer[1]]
                             ELSE comments_comments \o holes \o m.answer
    OBVIOUS
  <2>4. /\ m.kind = "update" /\ m.at = "done" /\ comments_comments' = list
        /\ comments_typed' = comments_typed \ {m.comment.id}
        /\ comments_forms' = comments_forms \ {m.index}
        /\ comments_crashed' = CommentsView!Throws(list)
        /\ UNCHANGED <<comments_asking, comments_toRemove, comments_session, comments_message,
                       comments_badge, comments_steady>>
    BY <1>9, <2>1, <2>2, <2>3 DEF CommentsView!CommentUpdated
  <2>5. n \in Nat /\ DOMAIN comments_comments = 1 .. n
    BY <1>1, <2>1
  <2>6. DOMAIN comments_comments \subseteq DOMAIN list
    <3>1. CASE m.index <= n
      BY <2>3, <3>1
    <3>2. CASE ~(m.index <= n)
      <4> DEFINE S == CommentDocs \cup {Model.comments.None}
      <4>1. k \in Nat
        BY <1>5, <2>1, <2>4, <2>5, <3>2
      <4>2. holes \in [1 .. k -> S]
        BY <2>2
      <4>3. holes \in Seq(S) /\ m.answer \in Seq(S) /\ comments_comments \in Seq(S)
        BY <1>1, <1>5, <4>1, <4>2, ListOf
      <4> HIDE DEF S
      <4>4. PICK a : a = comments_comments \o holes
        OBVIOUS
      <4>5. a \in Seq(S) /\ Len(a) = n + Len(holes) /\ Len(holes) \in Nat
        BY <2>1, <4>3, <4>4
      <4>6. /\ a \o m.answer \in Seq(S) /\ Len(m.answer) \in Nat
            /\ Len(a \o m.answer) = Len(a) + Len(m.answer)
        BY <4>3, <4>5
      <4>7. DOMAIN (a \o m.answer) = 1 .. (n + Len(holes) + Len(m.answer))
        BY <4>5, <4>6
      <4>8. 1 .. n \subseteq 1 .. (n + Len(holes) + Len(m.answer))
        <5>1. PICK x, y : x = Len(holes) /\ y = Len(m.answer)
          OBVIOUS
        <5>2. x \in Nat /\ y \in Nat /\ n \in Nat
          BY <2>5, <4>5, <4>6, <5>1
        <5>3. 1 .. n \subseteq 1 .. (n + x + y)
          BY ONLY <5>2
        <5> QED BY <5>1, <5>3
      <4> QED BY <2>3, <2>5, <3>2, <4>4, <4>7, <4>8
    <3> QED BY <3>1, <3>2
  <2>7. CommentsPage'
    BY <1>1, <2>4, <2>6 DEF CommentsPage
  <2> QED BY <1>1, <1>2, <1>3, <2>4, <2>7, CommentsThrows
          DEF CommentsWhole, CommentsRest, CommentsFlags
<1>10. CASE CommentsView!CommentRemoved(m)
  <2>1. PICK list \in CommentsView!Others(comments_comments, comments_toRemove) :
           /\ comments_comments' = list /\ comments_badge' = Len(list)
           /\ comments_forms' = comments_forms \cap DOMAIN list
           /\ comments_crashed' = CommentsView!Throws(list)
    BY <1>10 DEF CommentsView!CommentRemoved
  <2>2. /\ comments_asking' = FALSE
        /\ UNCHANGED <<comments_session, comments_message, comments_typed, comments_steady>>
    BY <1>10 DEF CommentsView!CommentRemoved
  <2>3. CommentsPage'
    BY <1>1, <1>4, <2>1, <2>2 DEF CommentsPage
  <2> QED BY <1>1, <1>2, <1>3, <2>1, <2>2, <2>3, CommentsThrows
          DEF CommentsWhole, CommentsRest, CommentsFlags
<1>11. CASE CommentsView!Failed(m)
  <2>1. /\ comments_message' \in {comments_message, "failed"} /\ comments_steady' = FALSE
        /\ UNCHANGED <<comments_asking, comments_toRemove, comments_forms, comments_comments,
                       comments_typed, comments_badge, comments_session>>
    BY <1>11 DEF CommentsView!Failed
  <2>2. comments_crashed' \in BOOLEAN
    BY <1>11, Zenon DEF CommentsView!Failed
  <2> QED BY <1>1, <1>2, <1>3, <2>1, <2>2
          DEF CommentsWhole, CommentsPage, CommentsRest, CommentsFlags
<1> QED BY <1>6, <1>7, <1>8, <1>9, <1>10, <1>11

LEMMA CommentsWholeStep ==
    CommentsTyped /\ CommentsTyped' /\ CommentsWhole /\ [UINext]_uiVars => CommentsWhole'
<1> SUFFICES ASSUME CommentsTyped, CommentsTyped', CommentsWhole, CommentsView!Next
             PROVE  CommentsWhole'
  <2>1. [UINext]_uiVars => CommentsView!Next \/ UNCHANGED CommentsView!vars
    BY DEF UINext, OthersIdle, uiVars, CommentsView!Idle
  <2>2. UNCHANGED CommentsView!vars /\ CommentsWhole => CommentsWhole'
    <3> SUFFICES ASSUME UNCHANGED CommentsView!vars, CommentsWhole PROVE CommentsWhole'
      OBVIOUS
    <3>1. UNCHANGED <<comments_net, comments_asking, comments_toRemove, comments_forms,
                      comments_comments, comments_typed, comments_badge, comments_lastId,
                      comments_session, comments_message, comments_crashed, comments_steady>>
      BY DEF CommentsView!vars, CommentsView!service, CommentsView!page,
         CommentsView!dialog, CommentsView!history
    <3> QED BY <3>1
            DEF CommentsWhole, CommentsNet, CommentsPage, CommentsRest, CommentsFlags
  <2> QED BY <2>1, <2>2
<1>1. CASE CommentsView!User
  <2>1. CommentsPage /\ CommentsRest /\ CommentsFlags
    BY DEF CommentsWhole
  <2>2. CommentsNet' /\ CommentsFlags'
    BY <1>1, <2>1, CommentsUserNet, CommentsUserFlags
  <2>3. CommentsPage' /\ CommentsRest'
    BY <1>1, <2>1, CommentsUserFlags, CommentsUserPage DEF CommentsPage, CommentsRest
  <2> QED BY <2>2, <2>3 DEF CommentsWhole
<1>2. ASSUME NEW m \in comments_net,
             \/ CommentsView!Serve(m) \/ CommentsView!Lose(m)
             \/ \E who \in {"user", "admin"} : CommentsView!SessionAnswered(m, who)
             \/ CommentsView!CommentsAnswered(m) \/ CommentsView!CommentCreated(m)
             \/ CommentsView!CommentUpdated(m) \/ CommentsView!CommentRemoved(m)
             \/ CommentsView!Failed(m)
      PROVE  CommentsWhole'
  BY <1>2, CommentsWholeServed, CommentsWholeAnswered
<1>3. ASSUME NEW e \in Model.comments.Entities,
             \/ \E t \in Model.comments.Texts : CommentsView!WriteElsewhere(e, t)
             \/ \E id \in Model.comments.Ids : CommentsView!RemoveElsewhere(e, id)
      PROVE  CommentsWhole'
  BY <1>3, CommentsWholeElsewhere
<1> QED BY <1>1, <1>2, <1>3 DEF CommentsView!Next
=============================================================================
