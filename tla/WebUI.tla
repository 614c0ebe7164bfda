--------------------------------- MODULE WebUI ---------------------------------
(***************************************************************************)
(* The web application: App.js and the routes of Main.js, with the pages   *)
(* on which something is edited and saved (those that are polled are in    *)
(* PolledPages).  The address decides which of them is mounted; the others *)
(* have neither state nor requests, and what a page keeps is dropped when  *)
(* it is left.  So one page is mounted for good here.                      *)
(* The bulk buttons and the launch dialog, which are on the list of test   *)
(* cases, and the comments, on the page of a test case, share nothing with *)
(* the rest of their pages but what they are given, and are views too.     *)
(*                                                                         *)
(* Model gives the constants of every page but that of a test case.        *)
(***************************************************************************)
EXTENDS TestCasePage

CONSTANTS Views,  \* pages that may be mounted
          Model   \* page -> the values of its constants

(* None is told from the pages that may have the dialog of a launch.       *)
ASSUME ModelAssumption == Model.dialog.None \notin {"cases", "launch"}

VARIABLES
    view,  \* the page that is mounted
    \* TestCases.js, TestCasesFilter.js, TestCaseForm.js
    cases_stored, cases_suites, cases_net, cases_events, cases_elsewhere,
    cases_losses, cases_known, cases_filter, cases_skip, cases_listed,
    cases_grouped, cases_count, cases_moreLink, cases_selected,
    cases_unchecked, cases_edited, cases_apart, cases_draft, cases_shown,
    cases_suiteName, cases_loading, cases_failed, cases_steady,
    \* TestCasesFilter.js and TestCases.js: all listed test cases
    bulk_store, bulk_net, bulk_events, bulk_elsewhere, bulk_losses,
    bulk_clicks, bulk_mounted, bulk_admin, bulk_rows, bulk_form,
    bulk_unchecked, bulk_message, bulk_pledge,
    \* Comments.js
    comments_stored, comments_lastId, comments_net, comments_events,
    comments_elsewhere, comments_losses, comments_session, comments_entity,
    comments_comments, comments_draft, comments_forms, comments_toRemove,
    comments_asking, comments_badge, comments_message, comments_crashed,
    comments_steady, comments_typed,
    \* LaunchForm.js
    dialog_started, dialog_net, dialog_events, dialog_losses, dialog_host,
    dialog_launcher, dialog_source, dialog_asked, dialog_open, dialog_offered,
    dialog_launch, dialog_restart, dialog_failedOnly, dialog_rows,
    dialog_name, dialog_value, dialog_loading, dialog_message, dialog_crashed,
    dialog_excuses,
    \* ProjectSettings.js, LauncherForm.js
    settings_stored, settings_net, settings_events, settings_elsewhere,
    settings_losses, settings_project, settings_shownUsers, settings_admin,
    settings_nameForm, settings_toRemove, settings_asking,
    settings_message, settings_left, settings_touched,
    \* Attributes.js, AttributeForm.js
    attributes_stored, attributes_net, attributes_events,
    attributes_elsewhere, attributes_losses, attributes_attributes,
    attributes_toEdit, attributes_edit, attributes_form, attributes_same,
    attributes_open, attributes_admin, attributes_message, attributes_typed,
    attributes_foreign, attributes_hasty

CasesView == INSTANCE TestCaseList WITH
    Ids <- Model.cases.Ids, Begin <- Model.cases.Begin,
    PageSize <- Model.cases.PageSize, Filters <- Model.cases.Filters,
    Values <- Model.cases.Values, Names <- Model.cases.Names,
    None <- Model.cases.None, MaxEvents <- Model.cases.MaxEvents,
    MaxFaults <- Model.cases.MaxFaults,
    MaxInFlight <- Model.cases.MaxInFlight, stored <- cases_stored,
    suites <- cases_suites, net <- cases_net, events <- cases_events,
    elsewhere <- cases_elsewhere, losses <- cases_losses,
    known <- cases_known, filter <- cases_filter, skip <- cases_skip,
    listed <- cases_listed, grouped <- cases_grouped, count <- cases_count,
    moreLink <- cases_moreLink, selected <- cases_selected,
    unchecked <- cases_unchecked, edited <- cases_edited,
    apart <- cases_apart, draft <- cases_draft, shown <- cases_shown,
    suiteName <- cases_suiteName, loading <- cases_loading,
    failed <- cases_failed, steady <- cases_steady

BulkView == INSTANCE BulkAttributes WITH
    Cases <- Model.bulk.Cases, Keys <- Model.bulk.Keys,
    Undefined <- Model.bulk.Undefined, Null <- Model.bulk.Null,
    Values <- Model.bulk.Values, Begin <- Model.bulk.Begin,
    None <- Model.bulk.None, MaxEvents <- Model.bulk.MaxEvents,
    MaxFaults <- Model.bulk.MaxFaults, MaxInFlight <- Model.bulk.MaxInFlight,
    store <- bulk_store, net <- bulk_net, events <- bulk_events,
    elsewhere <- bulk_elsewhere, losses <- bulk_losses, clicks <- bulk_clicks,
    mounted <- bulk_mounted, admin <- bulk_admin, rows <- bulk_rows,
    form <- bulk_form, unchecked <- bulk_unchecked, message <- bulk_message,
    pledge <- bulk_pledge

CommentsView == INSTANCE CommentsPanel WITH
    Entities <- Model.comments.Entities, Ids <- Model.comments.Ids,
    Begin <- Model.comments.Begin, Texts <- Model.comments.Texts,
    Blank <- Model.comments.Blank, None <- Model.comments.None,
    MaxEvents <- Model.comments.MaxEvents,
    MaxFaults <- Model.comments.MaxFaults,
    MaxInFlight <- Model.comments.MaxInFlight, stored <- comments_stored,
    lastId <- comments_lastId, net <- comments_net, events <- comments_events,
    elsewhere <- comments_elsewhere, losses <- comments_losses,
    session <- comments_session, entity <- comments_entity,
    comments <- comments_comments, draft <- comments_draft,
    forms <- comments_forms, toRemove <- comments_toRemove,
    asking <- comments_asking, badge <- comments_badge,
    message <- comments_message, crashed <- comments_crashed,
    steady <- comments_steady, typed <- comments_typed

DialogView == INSTANCE LaunchDialog WITH
    Names <- Model.dialog.Names, Values <- Model.dialog.Values,
    None <- Model.dialog.None, MaxEvents <- Model.dialog.MaxEvents,
    MaxLosses <- Model.dialog.MaxLosses, started <- dialog_started,
    net <- dialog_net, events <- dialog_events, losses <- dialog_losses,
    host <- dialog_host, launcher <- dialog_launcher, source <- dialog_source,
    asked <- dialog_asked, open <- dialog_open, offered <- dialog_offered,
    launch <- dialog_launch, restart <- dialog_restart,
    failedOnly <- dialog_failedOnly, rows <- dialog_rows, name <- dialog_name,
    value <- dialog_value, loading <- dialog_loading,
    message <- dialog_message, crashed <- dialog_crashed,
    excuses <- dialog_excuses

SettingsView == INSTANCE SettingsPage WITH
    Values <- Model.settings.Values,
    Begin <- Model.settings.Begin, None <- Model.settings.None,
    MaxLaunchers <- Model.settings.MaxLaunchers,
    MaxEvents <- Model.settings.MaxEvents,
    MaxFaults <- Model.settings.MaxFaults,
    MaxInFlight <- Model.settings.MaxInFlight, stored <- settings_stored,
    net <- settings_net, events <- settings_events,
    elsewhere <- settings_elsewhere, losses <- settings_losses,
    project <- settings_project, shownUsers <- settings_shownUsers,
    admin <- settings_admin, nameForm <- settings_nameForm, toRemove <- settings_toRemove,
    asking <- settings_asking, message <- settings_message,
    left <- settings_left, touched <- settings_touched

AttributesView == INSTANCE AttributesPage WITH
    Ids <- Model.attributes.Ids, Names <- Model.attributes.Names,
    Texts <- Model.attributes.Texts, Begin <- Model.attributes.Begin,
    None <- Model.attributes.None, Blank <- Model.attributes.Blank,
    MaxValues <- Model.attributes.MaxValues,
    MaxEvents <- Model.attributes.MaxEvents,
    MaxFaults <- Model.attributes.MaxFaults,
    MaxInFlight <- Model.attributes.MaxInFlight, stored <- attributes_stored,
    net <- attributes_net, events <- attributes_events,
    elsewhere <- attributes_elsewhere, losses <- attributes_losses,
    attributes <- attributes_attributes, toEdit <- attributes_toEdit,
    edit <- attributes_edit, form <- attributes_form, same <- attributes_same,
    open <- attributes_open, admin <- attributes_admin,
    message <- attributes_message, typed <- attributes_typed,
    foreign <- attributes_foreign, hasty <- attributes_hasty

(* Test cases are numbered, and null is none of what is kept beside it.  A  *)
(* suite in the address takes two requests at once.                         *)
ASSUME CasesAssumption ==
    LET page == Model.cases IN
    /\ page.Ids \subseteq Nat /\ page.PageSize \in Nat \ {0}
    /\ page.Begin \subseteq page.Ids /\ IsFiniteSet(page.Begin)
    /\ page.Filters \subseteq [matches : SUBSET page.Ids, grouped : BOOLEAN]
    /\ page.None \notin Nat \cup page.Names
    /\ page.MaxInFlight \in Nat \ {0, 1}

(* A row without an attribute, added later, is told from every other; an    *)
(* attribute saved with the test cases may be one that nobody has chosen.   *)
ASSUME BulkAssumption ==
    LET page == Model.bulk IN
    /\ page.Null \notin page.Keys \cup {"broken", page.Undefined}
    /\ \A t \in page.Cases : page.Begin[t] \in BulkView!AttributesOf

(* Comments have the first ids there are, each its own, and null is none.   *)
ASSUME CommentsAssumption ==
    LET page == Model.comments
        begin == page.Begin IN
    /\ page.Ids \subseteq Nat /\ page.None \notin CommentsView!Comment
    /\ page.MaxInFlight \in Nat \ {0}
    /\ begin \in [page.Entities -> Seq(CommentsView!Comment)]
    /\ IsFiniteSet(CommentsView!BeginIds)
    /\ CommentsView!BeginIds = 1 .. Cardinality(CommentsView!BeginIds)
    /\ \A e \in page.Entities : \A i, j \in DOMAIN begin[e] :
          begin[e][i].id = begin[e][j].id => i = j

(* A project has a name, and the launchers that the form of one makes.      *)
ASSUME SettingsAssumption ==
    LET page == Model.settings IN
    /\ page.Values # {} /\ page.Begin \in Seq(SettingsView!Launcher)
    /\ page.MaxInFlight \in Nat \ {0}

(* The attributes of a project have an id each, which is a number here.     *)
ASSUME AttributesAssumption ==
    LET page == Model.attributes IN
    /\ page.Ids \subseteq Nat /\ page.MaxInFlight \in Nat \ {0}
    /\ page.Begin \subseteq AttributesView!Attribute /\ IsFiniteSet(page.Begin)
    /\ \A a \in page.Begin : a.id \in page.Ids
    /\ \A a, b \in page.Begin : a.id = b.id => a = b

-----------------------------------------------------------------------------

uiVars == <<view, vars, CasesView!vars, BulkView!vars, CommentsView!vars,
            DialogView!vars, SettingsView!vars, AttributesView!vars>>

AllViews == {"testcase", "cases", "bulk", "comments", "dialog", "settings", "attributes"}

ASSUME ViewsAssumption == Views \subseteq AllViews

UITypeOK ==
    /\ view \in AllViews
    /\ view = "testcase" => TypeOK
    /\ view = "cases" => CasesView!TypeOK
    /\ view = "bulk" => BulkView!TypeOK
    /\ view = "comments" => CommentsView!TypeOK
    /\ view = "dialog" => DialogView!TypeOK
    /\ view = "settings" => SettingsView!TypeOK
    /\ view = "attributes" => AttributesView!TypeOK

(* The route of the address.                                                *)
UIInit ==
    /\ view \in Views
    /\ Init
    /\ CasesView!Init
    /\ BulkView!Init
    /\ CommentsView!Init
    /\ DialogView!Init
    /\ SettingsView!Init
    /\ AttributesView!Init

(* Nothing of a page that is not mounted changes.                           *)
OthersIdle ==
    /\ UNCHANGED view
    /\ IF view = "testcase" THEN TRUE ELSE UNCHANGED vars
    /\ IF view = "cases" THEN TRUE ELSE CasesView!Idle
    /\ IF view = "bulk" THEN TRUE ELSE BulkView!Idle
    /\ IF view = "comments" THEN TRUE ELSE CommentsView!Idle
    /\ IF view = "dialog" THEN TRUE ELSE DialogView!Idle
    /\ IF view = "settings" THEN TRUE ELSE SettingsView!Idle
    /\ IF view = "attributes" THEN TRUE ELSE AttributesView!Idle

UINext ==
    \/ view = "testcase" /\ Next /\ OthersIdle
    \/ view = "cases" /\ CasesView!Next /\ OthersIdle
    \/ view = "bulk" /\ BulkView!Next /\ OthersIdle
    \/ view = "comments" /\ CommentsView!Next /\ OthersIdle
    \/ view = "dialog" /\ DialogView!Next /\ OthersIdle
    \/ view = "settings" /\ SettingsView!Next /\ OthersIdle
    \/ view = "attributes" /\ AttributesView!Next /\ OthersIdle

UISpec == UIInit /\ [][UINext]_uiVars

-----------------------------------------------------------------------------
(* Properties: those of the pages, of the page that is mounted *)

(* TestCases.js: once the answers of a filter are there, the pages loaded   *)
(* hold every test case it finds, or Load more is offered for the rest.     *)
ListingComplete == view = "cases" => CasesView!ListingComplete

(* TestCases.js: when the user is told that a bulk change is done, it is    *)
(* done for every test case that was checked, or a failure is told.         *)
BulkDoneOrTold == view = "bulk" => BulkView!BulkDoneOrTold

(* TestCases.js: a bulk change of attributes never takes back what another  *)
(* user saved in the meantime, though it sends whole test cases.            *)
BulkKeepsTheRest == BulkView!BulkKeepsTheRest

(* Comments.js: with no request under way and nothing failed, the comments  *)
(* shown are those of the service, and their number is on the tab.          *)
CommentsAsStored == view = "comments" => CommentsView!CommentsAsStored

(* LaunchForm.js: one launch is started for one opening of the dialog, but   *)
(* for one more for each failure the dialog has told, each answer without   *)
(* an id, and each render of the host that brings the button back while a   *)
(* launch is being started.                                                 *)
LaunchedOnce == view = "dialog" => DialogView!LaunchedOnce

(* ProjectSettings.js: saving settings changes in the service only what was *)
(* changed on the page, though the whole project is sent.                   *)
SettingsKeepOthers == SettingsView!SettingsKeepOthers

(* Attributes.js: the list that is patched after each answer is the one the *)
(* service has.                                                             *)
AttributesAsStored == view = "attributes" => AttributesView!AttributesAsStored
=============================================================================
