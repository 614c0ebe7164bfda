# A TLA+ model of Dokimion: its services and its pages

Dokimion (the QuAck code base under `src/`) is a test-management service: test
cases, launches of them, attributes, comments, projects and users are kept in
MongoDB by several identical Java application servers behind a load balancer.
The servers share nothing but the database, a Hazelcast cluster that provides
locks and the session map, a file storage for attachments, an issue tracker and
external build systems. There are no transactions. Every entity is read whole,
changed in memory (often in the browser, minutes later) and written back whole.

Almost everything that is hard to test in this code follows from that
sentence, and the models here are about it: what the lock and the comparison of
modification times in `BaseService.update` protect, which calls go around them,
what happens when a wait for a lock runs out or a server dies half way, and
which of several stores a failing call leaves changed.

The other half of that sentence is in the browser. The user interface is a
React application whose pages fetch an entity, edit the very object that was
fetched, send it whole, and patch or replace what they show with whatever answer
arrives, in whatever order. The second group of models is about the pages: what
a page shows against what is stored, what a save takes back from others, and
what becomes of answers that overtake each other or never come.

Java paths below are relative to
`src/services/src/main/java/com/testquack/services/` unless they say otherwise.

## The system

| Component | State | Operations | Interacts with | What is hard | What makes it correct |
|---|---|---|---|---|---|
| Entity service: `BaseService`, `CommonRepositoryImpl`, `UserSecurity` | one Mongo collection per project and type | `findOne`, `findFiltered`, `create`, `update`, `delete`, `save` (single and bulk) | a Hazelcast lock per entity; wall clocks of the servers; hooks of the subclasses | interleavings on several servers, stale pages, lock waits that time out, calls without the lock | a write replaces only what its author had seen; nothing deleted returns; locked test cases stay as they are |
| Locks: Hazelcast CP `FencedLock` | owner per lock name | `tryLock(ttl)`, `unlock` | used by `update`, the sequencer, launches | the answer of `tryLock` is ignored; `unlock` throws if not held; a dead member's locks are freed | one owner; always given back |
| Sequencer: `SequencerService` | one counter per project | `create`, `increment` | `TestCaseService.beforeCreate`, `ProjectService.createProject` | read and write of the counter on several servers | ids are never given twice |
| Test cases: `TestCaseService` | the test case: steps, attributes, attachments, issues, locked flag, alias | attach, detach, create/link/unlink issue, lock, unlock, import, clone, tree | storage, tracker, events, attributes | one call changes two stores; the flag is read before and set by the calls | what is listed is stored; locked is locked; every change has its event |
| Attributes: `AttributeService` | attribute and its values | save, delete, with a bulk rewrite of test cases | test cases | partial failure, renames | test cases use only values that exist |
| Launches: `LaunchService`, `LaunchStats`, `LaunchResource` | tree of copied test cases with statuses, counters, times | create from suites or filters, report a status, restart, statistics, start of a build | test cases, tracker, events, launchers | two nested locks, reports beside edits of old pages, clocks | no result is lost; counters and times agree with the statuses |
| Users and sessions: `UserService`, `UserResource`, `OrgHazelcastSessionProvider`, `DbAuthProvider` | users; a map of sessions, each with a copy of its user | login, logout, change of password, roles | every request | capacity is checked before it is used; the copy ages | a session acts with the rights its user has |
| Projects, groups, organizations, comments, events, sizes | plain collections | the entity service | | projects deleted under their test cases | |
| Storages (GridFS, local, S3), trackers (Jira, demo), launchers | outside the database | upload/remove, issues, builds | | they fail, and cannot be rolled back | |
| Queries and statistics: `src/dal` | none | filters to Mongo queries, map-reduce | | the database's behaviour | |
| UI, page of a test case: `TestCase.js`, `Attachments.js` | the test case as it is being edited, a copy that cancelling restores, open forms, what is read only | fetch, edit texts, steps, attributes, save, lock, clone, remove, attach | entity service; comments and issues in its tabs | edited in place; every answer replaces the test case; two copies | what was not edited is what was stored; a save changes only what was edited |
| UI, list of test cases: `TestCases.js`, `TestCasesFilter.js`, `TestCaseForm.js` | filter, offset, listed part of the tree, counts, selection, suite | filter, Load more, new test case, suite | tree and count by requests of their own | the part after the offset against a filter typed meanwhile | every test case found is listed once, or more is offered |
| UI, bulk buttons (same files) | rows of the filter, checked test cases | add or remove attributes, lock and unlock all | one GET and one PUT per test case | the message before the work; values read when the answer comes | done for all or a failure told; nothing of others taken back |
| UI, comments: `Comments.js` | list, draft, open forms by index | add, edit, remove | page of a test case | a list patched by index | the list is the stored one |
| UI, launch dialog: `LaunchForm.js` | a launch being put together, or one restarted | create, restart | pages of test cases and of a launch | a button that comes back while a request runs, a lost answer | one launch for one press |
| UI, page of a launch: `Launch.js`, `LaunchTestcaseControls.js` | the launch, a tree widget with a map of statuses, filter buttons, a copy of the selected test case | poll, filter, select, report a status | reports of other testers | rebuilding beside patching, answers overtaken by polls | the pressed filter is shown; polls mend the rest |
| UI, settings: `ProjectSettings.js`, `LauncherForm.js` | the project as edited | users, environments, launchers, name, removal | entity service | every save sends everything | settings of others stay |
| UI, attributes: `Attributes.js`, `AttributeForm.js` | list and an attribute being edited, often the same object | add, change, remove | entity service | patched by hand | the list is the stored one |
| UI, paged lists: `Launches.js`, `Events.js`, `Users.js`, `Pager.js` | filter, page, list, number | filter, page, remove a launch, poll | entity service | list and number by requests of their own | the list comes to be what the filter finds |
| REST resources, other pages, CLI tools, deployment | none of their own, or one form | delegation, rendering | | | |

`PROJECT.json` lists these components with their status and the hazards of the
code at their lines.

## The modules

### EntityStore: a collection and its update lock

`EntityStore.tla` models `BaseService` over one collection. Clients
(`Requests`) open an entity (`Get`, which leaves it on their `page`), send the
page back (`Save`), lock or unlock a test case, create, delete or trigger a
bulk save. The server-side part is split where other threads can come between:

| Code | Action |
|---|---|
| `update` 432-438: permission on the entity in hand, `tryLock` | the calls themselves, then `Acquire` or `LockTimeout` |
| 439-445: `findOneUnfiltered`, comparison of `lastModifiedTime` | `CheckVersion` |
| `beforeSave` 382: `Instant.now()` of this server | `Stamp`, from `clock[ServerOf[r]]` |
| repository `save`: replace or insert the document | `Write` |
| `finally` 454: `unlock`, which throws if not the owner | `Finish` |
| `delete` 180-200, no lock: check, then find and remove | `Delete`, `Remove` |
| `save` of a collection 162-177, no lock, no stamp | `BulkRead`, `BulkWrite` |
| `create` 404-426, no lock: id unused, stamp, save | `Create`, `Stamp`, `Write`, `Finish` |

An entity is abstracted to its modification time, its locked flag and a version
number `ver` that names its content and that no action reads. `hazards` records
which circumstances have arisen that the code does not defend against
(`timeout`: a `tryLock` ran out; `clock`: a stamp was not later than the newest
one; `overlap`: a call without the lock beside another call; `unstamped`: a bulk
save), `harms` what was done to the data. The properties relate the two, so
that they say exactly under which circumstances the data are safe.

`VersionedStore.tla` is the promise to clients: compare-and-set. While calm,
content is replaced only by someone who holds the stored version. EntityStore
implements it (`ImplementsVersionedStore`), with "calm" mapped to "no hazard so
far".

### Numbering: ids of test cases

`Numbering.tla` models `SequencerService.create/increment` (own lock with the
answer of `tryLock` ignored, `findById` and `save` as two steps),
`TestCaseService.beforeCreate` (a test case with a known alias takes over the
test case found, others get the next number), `ProjectService.createProject`,
the save by id that replaces whatever has that id, deletions, and servers that
die in any of these. An update is two steps, the find with its time check
(`UpdateTestCase`) and the save (`SaveUpdate`), between which a delete, which takes
no lock, and a create can come; `Renaming` records what the save does to the names:
it may change an alias ("realias") or write back a test case that was deleted since
it was read ("restored"), whose alias a create may have found free. Which updates
may be under way together is the matter of EntityStore, so here any may. `createProject` passes its `projectId`
argument, which is null, to the sequencer: the counter it resets is the one
under `NoProject`, and the counter of the project survives.

### LaunchExecution: reporting on a launch

`LaunchExecution.tla` models `LaunchService.updateLaunchTestCaseStatus` with its
own lock, `findOne`, the issue that may be created and refused
(`addFailureDetails`), `updateStatus`, the nested `update` with its lock and
check, and the audit event; `beforeSave` with `updateLaunchStatus` (counters,
start, finish, total duration); and edits of the launch from a page opened any
time before. The tree of the launch is abstracted to the depth of each test
case, which is all that the duration depends on.

### TestCaseCare: one test case and the stores beside it

`TestCaseCare.tla` models the calls of `TestCaseService` that change a file in
the storage or an issue in the tracker besides the test case:
`uploadAttachment` (`UploadAttachment` stores the file, `Find` reads the test
case), `deleteAttachment` (`DeleteAttachment` reads it, `RemoveFile` removes the
file and only then looks at the locked flag), `createIssue`, `linkIssue`
(`Track` is the tracker's part and the look at the flag after it),
`unlinkIssue`, `importTestCase` of an existing one, `lockTestCase`,
`unlockTestCase` and the save of a page. Their `update` is abstracted to what
EntityStore shows it to be when lock waits do not time out and clocks advance:
`Enter` (lock), `Check` or `Stale`, `Write`. `beforeUpdate` records the UPDATED
event before the save (`Recorded`). A server may die, and the tracker fail, at
any step; `cut` names the files whose call ended between the two stores.
`Shown` is `beforeReturn`, which clears the url of the attachments in the
entity that several of these calls then save.

### The pages

UI paths are relative to `src/ui/src/src/`. Every page has the same shape, after
the code: `state` of the component becomes variables, a handler of the user an
action, a request a record in `net`, and the callback of a request an action of
its own that reads the state of the page as it is when the answer comes. A
request is `"sent"`, then `"done"` or `"failed"`; the service handles the
requests in any order, answers arrive in any order, and either may be lost.
Other users write to the service at any time. The service itself is what
EntityStore shows it to be: a compare-and-set on the version, which refuses
whoever may not write. `backend.js` calls the same callback for a `DELETE`
whatever its status, and so do the models. Handlers whose control is not rendered
are not enabled: which forms, pencils and buttons are offered is part of the
guard, because jQuery shows and hides them beside React.

* `TestCasePage.tla` (`testcases/TestCase.js`, `attachments/Attachments.js`):
  `doc` is `state.testcase`, `original` the copy cancelling restores.
  `ReceiveProps`, `TestCaseAnswered`, `PutAnswered` replace both; `ToggleEdit` and
  `ToggleStep` take the copy at every toggle, opening or closing; `CancelEdit`,
  `CancelStep` restore from it; `HandleSubmit`, `SubmitStep`, `OnBrokenToggle`,
  `RemoveStep`, `SubmitAttribute`, `RemoveAttribute` send the whole test case.
  `touched` is history: the fields changed since the test case was received.
* `TestCaseList.tla` (`testcases/TestCases.js`, `TestCasesFilter.js`,
  `TestCaseForm.js`): the filter that is sent is the object the form edits; tree,
  next part and count are requests of their own; `steady` remembers whether two
  of them overlapped, failed or were overtaken by a change, or whether the tree was
  fetched from a skip that Load more had left (`FromTheFirst`).
* `BulkAttributes.tla` (same files): `HandleBulk` fetches every checked test
  case, `TestCaseFetched` reads the rows of the filter as they are by then, and
  saves; the message was set before. `Matching` is the comparison of rows and
  attributes with `===`: a row without an id adds an entry named "undefined" but
  never finds one. `pledge` remembers what was promised.
* `CommentsPanel.tla` (`comments/Comments.js`): the list, patched by
  `CommentCreated`, `CommentUpdated`, `CommentRemoved`; forms are places in the
  list, because they are shown and hidden by index.
* `LaunchDialog.tla` (`launches/LaunchForm.js`): the dialog as opened by the page
  of test cases or by that of a launch, whose every render sets it anew
  (`HostRenders`). `excuses` counts the reasons for a second launch.
* `SettingsPage.tla` (`projects/ProjectSettings.js`, `launches/LauncherForm.js`):
  the project and what cancelling restores are one object. Launchers can be added
  and removed only: `handleLauncherChange` is not bound, so called by `LauncherForm`
  it throws and changes nothing, and the descriptors of launchers, which only that
  form uses, are left out.
* `AttributesPage.tla` (`attributes/Attributes.js`, `AttributeForm.js`): the form
  may edit an object of the list (`same`).
* `LaunchPage.tla` (`launches/Launch.js`, `LaunchTestcaseControls.js`): the
  launch, the rows of the tree widget, the map of statuses built once
  (`stateMap`), the controls' own copy of the selected test case. `Poll` is the
  timer. The map is set anew for every group of the tree (Launch.js 330), so that it
  ends with the test cases of the last one: `Mapped` are these, and `MapOf` is what a
  build leaves. `built` says whether the widget was built from an answer, and
  `lacking` what the page never got: when the request for the attributes fails
  (`AttributesFailed`) the launch is not fetched with its first build, and polls throw
  at 213 for test cases with attributes (`AttributesMissing`) or at the widget that is
  not there (`WidgetMissing`). A page opened at an address with a `testcaseUuid`
  (73-75), which selects a test case at once, is left out.
* `PagedList.tla` (`launches/Launches.js`, `audit/Events.js`, `users/Users.js`,
  `pager/Pager.js`): one module for three pages; `kind` says which.
* `WebUI.tla` composes the pages that edit and save, `PolledPages.tla` those
  that stay open while things go on. The router of `Main.js` mounts one page at
  an address and drops the state of the one it leaves, so one page is mounted for
  good, with `view` saying which, and the others have neither state nor requests. That
  is an abstraction for the pages with a timer: `Launch.js` (95) and `Launches.js` (56)
  start one and no page stops it, so a page that was left goes on polling, and a
  launch that was left rebuilds `#tree` (152-163), which is by then the tree of
  another launch when one is shown. Two pages that poll at once are not modelled
  (it is listed among the hazards).
  Dialog, comments and bulk buttons are parts of other pages that share nothing
  with them but what they are given, and are views of their own.

### Proofs and configurations

`EntityStoreProofs.tla`, `NumberingProofs.tla`, `LaunchExecutionProofs.tla`,
`TestCaseCareProofs.tla` and `TestCasePageProofs.tla` extend their modules with the
theorems below. `PanelsProofs.tla` extends `WebUI` with the theorems about the settings,
the attributes of a project and the comments, whose pages keep a copy of what is stored.
`WebUIProofs.tla` extends these two with what follows for the application from the
theorems about the page of a test case, with the theorems about the dialog of a launch,
the bulk change of attributes and the list of test cases, and with the types of all.
`PolledProofs.tla` extends `PolledPages`.
`MCEntityStore`, `MCNumbering`, `MCLaunchExecution`, `MCTestCaseCare`, `MCWebUI`
and `MCPolledPages` give the constants names, roles and symmetry for TLC.
Definitions whose name has a
suffix and whose comment begins with "slip:" (`LockFree_anyone`, ...) are
plausible mistakes in the code next to the definition they would replace; no
specification uses them. With the slip in place the property named for it in
`PROJECT.json` is violated, which shows that the property depends on that line
of the code.

## The runs

| Run | Question | Properties |
|---|---|---|
| `entity_store` | what update protects, under which circumstances it fails | `TypeOK`, `MutualExclusion`, `HarmNeedsHazard`, `ResurrectionNeedsOverlap`, `ErrorNeedsTimeout`, `ImplementsVersionedStore` |
| `entity_progress` | is every call answered, every lock given back | `EveryCallAnswered`, `LockComesFree` |
| `entity_lost` | does the check find every change, as its message says | `CheckFindsEveryChange`: no |
| `numbering` | are ids fresh, counters monotone, aliases unique | `TypeOK`, `NumbersAreFresh`, `AliasNamesOne`, `ProjectsNotReplaced`, `OneAtTheCounter`, `NeverSetBack` |
| `launch` | do reports survive each other and old pages; are times set once | `TypeOK`, `ResultsStay`, `ReportsDoNotCollide`, `TimesStay` |
| `launch_progress` | is the audit complete, is every call answered | `AuditComplete`, `EveryCallAnswered` |
| `launch_rerun` | is the duration of a test case a time that passed | `DurationsElapse`: no |
| `launch_duration` | is the duration of a launch that of its test cases | `DurationIsTotal`: no |
| `care` | do test case, storage, tracker and audit stay together | `TypeOK`, `FilesAsListed`, `CallsTakeEffect`, `ChangesAudited`, `LockedStays` |
| `care_located` | can every listed attachment be found in the storage | `AttachmentsLocated`: no |
| `web_ui` | do the pages that edit and save show and send what is stored and what was edited | `UITypeOK`, `ShownAsStored`, `NoForeignChangeOverwritten` (test case), `ListingComplete` (list), `BulkDoneOrTold`, `BulkKeepsTheRest` (bulk), `CommentsAsStored`, `LaunchedOnce`, `SettingsKeepOthers`, `AttributesAsStored` |
| `polled_pages` | do the pages that are polled come to agree with the service | `PolledTypeOK`, `FilterShown`, `ControlsEventuallyAgree`, `StatusEventuallyShown`, `ListEventuallyShown` |

### Bounds, and why they are enough

* *entity_store*: two clients (an administrator and a test developer) on two
  servers, one id, three calls, clocks up to 2. The hazards are all meetings of
  two calls about one entity; the third call lets a stale page, a re-creation
  after a delete or a lock left behind show its effect. Ids do not interact. Two
  clock ticks give equal, advancing and diverging clocks. What the bound leaves
  open is closed by the proofs, which hold for all clients, ids and times.
* *entity_progress*: the same clients, three calls, one tick; liveness is
  checked without symmetry.
* *numbering*: three clients, so that two can meet while a third has timed out
  or died; four calls, updates among them, so that a create, an update that has read
  its test case, the delete and the create of another fit; one project and one alias,
  because neither projects nor aliases share a counter or a search.
* *launch*: two testers and two test cases, one server, three calls, three
  clock values: the first report starts the launch, the second finishes it, an
  edit from an old page or a repeated report is the third. *launch_progress*
  trades one call for issues, RUNNING and FAILED results and a dying server.
* *care*: two clients of different rights, two files, one issue, three calls
  and any number of deaths. A call and its rival need two; the third is the
  lock, unlock or save that comes between them. Four calls were also explored
  once (8.3 million states) without a violation.
* *web_ui*: two test cases with one text, one attribute and one file; two
  wordings; two events of the user, one change by others, one lost request, two
  requests under way. Two events and two requests let an answer overtake another
  or come after an edit; the change by others makes the page stale, the lost
  request leaves it to go on. The list has three test cases in parts of one,
  so that there is a part after the second; comments and bulk buttons are given
  three events and the dialog and the attributes four, which a form that is opened,
  filled and sent twice needs. The bulk buttons have one attribute, which one of the
  two test cases has, beside "broken", which is no attribute; the other test case has
  the entry named "undefined" that adding to a test case without attributes leaves,
  so that a test case with attributes can lack the one that is added. For every page
  the proofs close what these bounds leave open.
* *polled_pages*: a launch with two test cases in two groups, so that one is in
  the map of statuses and one is not; one of them the filter buttons can hide; three
  events, one change by others, one lost request; lists of at
  most three items in parts of one, one event, two requests of each kind under
  way, so that a poll and what the user asked for overtake each other. Bounds are
  on events, faults and requests under way, never on polls. The same run with both
  test cases in one group (`Mapped` and `Filterable` both of them) was explored
  once (716,312 states) without a violation.
* The runs that are to be violated use the smallest instance that shows the
  case.

Symmetry is used over clients, test cases or files only where the run checks no
liveness and the constants do not tell them apart. Deadlock is checked except in
`numbering`, where the system stops once the bounded calls are answered, and in
the two runs of pages, where a page whose user has spent the bounded events is
idle: a list without a timer waits for the user, and a page that has been left
is not modelled any more.

### Fairness

`FairSpec` assumes weak fairness of `Serve(r)`, the steps of a server thread for
one call. A servlet thread that serves a request is scheduled by the JVM, and
`tryLock(lockTtl, MINUTES)` returns within its limit, with or without the lock:
`LockTimeout` (and the second case of `EnterStatus` and `EnterUpdate`) is
enabled whenever the lock is not free, so no strong fairness of the lock is
needed. No fairness is assumed of clients, clocks or crashes.

`PolledFairSpec` assumes weak fairness of the timer of the page (`Poll`, which
`setInterval` keeps firing as long as the page is mounted), of the requests
(`Serve`: a request under way is answered, or has failed) and of the callbacks
(`Answer`, `Answered`: the browser runs the callback of an answer that has come).
It is stated for each of the three as a whole, over both views (only the mounted one
can take a step): nothing says that a particular answer is taken before another. No fairness is assumed of users or of losses.

## What the runs show beyond "no error"

Findings, each with the run that shows it and the quoted line in
`PROJECT.json`:

1. A bulk save (used when values of an attribute change) writes test cases back
   with their old modification time. A page opened before it passes update's
   check after it and undoes it, against the message "Changes will cause lost
   updates" of that check.
2. A test case in a launch that is run again is stored with a negative duration.
3. The duration of a launch leaves out test cases more than one group down.
4. Locking a test case, or linking an issue to it, saves its attachments without
   the url of their content; they can then be neither downloaded nor deleted.

The exceptions named in the properties are facts about the code too. `update`
ignores the answer of `tryLock`, so `MutualExclusion` holds only while none
timed out; `delete`, `create` and bulk saves take no lock; modification times
are compared with a strict `>` across servers' wall clocks. `createIssue`,
`linkIssue` and `unlinkIssue` set the locked flag before `update`, so that
its permission check admits administrators only, after
the issue has been made in the tracker. A refused `deleteAttachment` has already
removed the file, a refused `uploadAttachment` has already stored it (`cut`).

The pages have exceptions too, which their properties name. They were met while
modelling, as traces of stronger statements:

* What is typed while a save is under way is replaced by its answer
  (`PutAnswered`); nothing says so to the user.
* Cancelling restores what the form showed when it was last toggled, and for
  the values of an attribute only what they were before the last change. What
  cancelling puts back is proved to change nothing in fields that were not
  edited; in one that was edited it may leave an edit in place.
* Whether the page is read only is decided from the answers to two requests
  (test case and session); the one that comes first is decided without the other.
* On the list of test cases a filter that is typed and not yet applied counts
  for the next part that is loaded; `ListingComplete` holds until then.
* A test case created after Load more makes `onTestCaseAdded` fetch the tree with
  the skip that Load more has left in the filter (157-163, 176, 229): the first part
  is missing then, and as the count deletes the skip (83), the next Load more lists
  again what is listed. This breaks what the list is for, and `ListingComplete`
  excuses it by name (`FromTheFirst`): without that excuse TLC finds the trace.
* A launch's tree with groups keeps in its map of statuses only the test cases of
  the last group. A test case of another group counts as changed at every poll: its
  icon is mended each time, and while it is selected each poll rebuilds the tree.
* A bulk change says it is done before its requests are answered; a failure is
  told later, over that message (`BulkDoneOrTold` is about the end). A button
  pressed in between with nothing chosen replaces the message of a failure by
  its own, so it ends the promise (`pledge`) as any other button does; it takes
  three events to see.
* Cancel of the settings of a project hides the form and keeps what was typed,
  so the next save sends it; `SettingsKeepOthers` counts it as a change of the
  user's.
* The form of an attribute edits the attribute of the list: closed without
  saving, the list keeps what was typed (`typed`).
* The dialog that starts a launch cannot tell an answer that was lost from a
  launch that was not created; pressing again creates another.
* The numbers of events and of users are asked for with the offset of the list.
* The map that gives rows of a launch their icons is built once; an icon whose
  status has come back to that value is not mended by a poll
  (`StatusEventuallyShown` leaves it out, for the test cases that are in the map).
  Nor is anything mended on a page that never got what it needs for it (`lacking`).

## What is proved

`EntityStoreProofs.tla` proves for every set of clients, servers and ids, every
assignment of roles and servers, and without bounds on anything but the named
`MaxTime` and `MaxCalls` (any natural numbers):

| Theorem | Statement |
|---|---|
| `TypeCorrect` | `Spec => []TypeOK` |
| `UpdatesExclude` | `Spec => []MutualExclusion` |
| `DeletesLast` | `Spec => []ResurrectionNeedsOverlap` |
| `ErrorsExplained` | `Spec => []ErrorNeedsTimeout` |
| `HarmsExplained` | `Spec => []HarmNeedsHazard` |
| `Refines` | `Spec => ImplementsVersionedStore` |

The only assumption is `EntityStoreAssumption`: roles and servers are functions
of the right type, and the values "no entity" and "nobody" are not entities or
clients.

None of the properties is inductive. The argument:

* `TypeOK /\ CallShape` is inductive (`TypeStep`). `CallShape` says which kinds
  of call can be at which place and that an entity is in hand where one is used.
* `NextSteps` then rewrites a step as one of a few `Steps`: a call begins, moves
  on, or nothing that concerns calls happens. The rest of the proof splits on
  these instead of on all actions.
* `OwnerHolds` (from the end of its wait to its `finally` block a call owns its
  lock, unless a wait timed out) gives `MutualExclusion` and, because `unlock`
  throws only for a lock not held, `ErrorNeedsTimeout`.
* `Alone` (two calls between check and write on one entity, one of them without
  the lock, are on record as an overlap) and `FoundStays` (what an update has
  found is still stored) give `ResurrectionNeedsOverlap`.
* `Calm` is the heart, and holds while no hazard has struck: every copy of an
  entity, on a page or in a call, is no newer than what is stored, and one that
  is as new is the stored one (`Known`, `SameFlag`); so equal times mean equal
  versions, the check of times is a check of versions, and a call past its check
  is about to replace what it was based on (`CalmWrites`). With `Permitted`,
  that who is not an administrator has no locked test case in hand, this gives
  `HarmNeedsHazard`.
* `Refines` maps each step under `Calm` to `Insert`, `Replace`, `Erase` or a
  client's step, and a step under which a hazard strikes to the end of calm.

`IInv` is the conjunction.

`NumberingProofs.tla` proves for all clients, projects and aliases, from
`NumberingAssumption` (sentinels are not projects, aliases or clients):

| Theorem | Statement |
|---|---|
| `NumbersTyped` | `Spec => []TypeOK` |
| `CounterExcludes` | `Spec => []OneAtTheCounter` |
| `NumbersFresh` | `Spec => []NumbersAreFresh` |
| `CounterGrows` | `Spec => NeverSetBack` |
| `ProjectsKept` | `Spec => []ProjectsNotReplaced` |
| `AliasesUnique` | `Spec => []AliasNamesOne` |

The inductive invariant (`IInv` of Numbering) says that a call at a counter owns
its lock (`HoldsLock`), that what it has read is still what is stored
(`SeenStays`), that every id stored or in hand is at most the counter
(`Counted`), and that a new number is in nobody else's hands (`Unshared`). The
first makes the second inductive, the second makes the number counted up larger
than every id there is, and the third turns that into freshness: a test case
found by alias brings only an id that is stored already. `CounterGrows` is read
off the same invariant: a write stores one more than is stored, and the reset by
`createProject` goes to the counter of no project.

A second invariant, `NameInv`, is about names. Two calls that look for one name
while both are under way are on record as a race (`RacesNoted`); as long as there
is none, nobody takes a name between a call's search and its save: a project that
was not found is not stored meanwhile (`ProjectFree`), and a test case stored
under the alias of a call under way can only be the one this call has found
((`AliasesKept`). A save then replaces exactly the holder of its alias. An update looks
for no name, so it needs no part in the race: as long as it neither changes an alias
nor restores a deleted test case, what it saves is stored already (`Renaming`).
 replaces exactly the holder of its alias.

All three invariants were checked by TLC on the instances of the runs before
they were proved.

`LaunchExecutionProofs.tla` proves for all testers, servers, users and times, any
finite set of test cases and any number of calls:

| Theorem | Statement |
|---|---|
| `TypeCorrect` | `Spec => []TypeOK` |
| `NoResultLost` | `Spec => []ResultsStay` |
| `NoReportRefused` | `Spec => []ReportsDoNotCollide` |
| `EveryResultAudited` | `Spec => []AuditComplete` |
| `TimesKept` | `Spec => TimesStay` |

`LaunchAssumption` says that the set of test cases of a launch is finite, which a
document is, and that depths and the other constants have their types. Without it
neither the counters nor the duration that `beforeSave` recounts would be numbers:
that a sum over a finite set is one (`SumExists`, `SumInt`) is shown without
induction, from a smallest set for which it would not be (`Least`).

`IInv` is what a call may rely on between its steps. `Route` and `Holding` say at
which place a call owns which of the two locks, as long as none timed out;
`Stamped`, that the stored launch bears the newest stamp. `Copies` is the centre,
as long as no lock wait timed out and every stamp was later than the one before:
every copy of the launch, on a page or in the hands of a call, is no newer
than the stored one, one that is as new has the same times and statuses (but for
the result that a report has entered), and a call past the check of `update` holds
one that is as new. So a save replaces what it was
made from, and `ResultsStay` is kept by the only action that stores
(`OnlySaves`, `Stores`). `Fresh` (a report that has read under its own lock finds
the launch unchanged but for edits) gives `ReportsDoNotCollide`. For
`AuditComplete` the calls that have saved and not yet written their event are
counted (`Pending`), which needs that they are finitely many (`Finite`). `TimesKept`
is read off the same invariant for a step: the copy that is saved has the times
of the launch it replaces.

`TestCaseCareProofs.tla` proves for all clients, roles, files and issues, and any
number of calls and deaths of servers:

| Theorem | Statement |
|---|---|
| `TypeCorrect` | `Spec => []TypeOK` |
| `FilesAgree` | `Spec => []FilesAsListed` |
| `NoneUndone` | `Spec => []CallsTakeEffect` |
| `EveryChangeAudited` | `Spec => []ChangesAudited` |
| `LockKept` | `Spec => LockedStays` |

`Holding` says that a call past its wait owns the lock and may save what it has;
`Copies`, that a copy is no newer than the stored test case and, when it is as
new, is the stored one but for what the call that holds it has done to it;
`Writing`, that the call about to write holds such a copy and has recorded its
event, so that what it writes differs from what is stored by the effect of that one
call (`Stores`). `Uploads` says whose files are on their way: one being uploaded is
stored, not yet listed, and no other call is about it. From these `FilesAsListed` is shown
one file at a time (`FileByFile`), and each of the other three is a step that only
`Write` can take.

`TestCasePageProofs.tla` proves for all test cases, texts, wordings, attributes
and files, and any number of events, faults and requests under way:

| Theorem | Statement |
|---|---|
| `TypeCorrect` | `Spec => []TypeOK` |
| `ShownIsStored` | `Spec => []ShownAsStored` |
| `NothingForeignOverwritten` | `Spec => NoForeignChangeOverwritten` |
| `CancelIsNoEdit` | `Spec => []CancelRestores`: what cancelling restores is what the page shows, in every field that was not edited |

`Spec` is that of the page, `TestCasePage`. From `TestCasePageAssumption`: fields
have different names, no test case is "no test case", a request can be under way, and
what is stored at the start is a test case without undefined attributes.

`ShownAsStored` alone is not inductive: it speaks of the page, and what the page
becomes is decided by answers under way. The invariant `Inv` adds that every
version stored has the right shape (`Histories`), that the answer to a `get` or a
`put` is a version (`Version`) and that a `put` still to be served carries a
version changed only in the fields the user had changed when it was sent
(`VersionBut` in `Message`); that `original` agrees with the page outside those
fields (`Page`), without which a cancelled edit would show something that was
never stored; and that attachments are asked for only once there is a test case
(`Asked`). The service only appends versions (`Grown`), so what is a version
stays one (`VersionsStay`, `MessageStays`, `PageStays`). Each action is then one
of a few effects, each a lemma: nothing is sent (`NothingSent`), a request without
a document is (`Sending`), the page is (`Putting`), an answer is taken
(`Receiving`), a field is edited (`EditKeeps`) or restored (`RestoreKeeps`), the
service replies (`Replying`). Undefined attributes are dropped when the page is
sent (`SentFields`): a stored version has none, so this changes no field that was
not edited. `NothingForeignOverwritten` follows because the service accepts only
the current version (`Accepted`), from which what is sent differs only in the
fields recorded with the request; and because nothing else writes (`Writers`).

`TypeCorrect` has an invariant of its own beside `Inv`, `Typed`, since the types of the
page follow from those of what reaches it. Every stored version holds in each field
what the service keeps there (`HistoryTyped`). A request bears a number between one and
`MaxInFlight`, an upload names a file and a save the form it comes from, if any
(`NetTyped`): without the first an answer could put something else among the
attachments, without the second close a form that does not exist. What a cancelled edit
restores is typed like the page (`DocTyped`), and the session is not known before a
test case is (`SessionTyped`), so the page never asks for the test case of a session
alone. That a request finds a free number as long as there are fewer than
`MaxInFlight` (`FreeNumber`) rests on the least number not in a finite set, which
exists because the naturals are well-ordered (`LeastOf`).

`WebUIProofs.tla` carries these over to the application of `WebUI`, which mounts
one of its pages: a step of the application is a step of the page or leaves it alone
(`PageSteps`). The rest is proved of the other views of `WebUI`, for any values of
`Model` and so any number of events, losses and requests under way:

| Theorem | Statement |
|---|---|
| `UIShowsStored` | `UISpec => []ShownAsStored` |
| `UIOverwritesNothing` | `UISpec => NoForeignChangeOverwritten` |
| `OneLaunchEach` | `UISpec => []LaunchedOnce` |
| `BulkTakesNothingBack` | `UISpec => BulkKeepsTheRest` |
| `BulkDone` | `UISpec => []BulkDoneOrTold` |
| `ListComplete` | `UISpec => []ListingComplete` |
| `UITyped` | `UISpec => []UITypeOK` |

From `ModelAssumption`: "no page" is not one of the two pages that have the dialog;
`BulkAssumption`: null is not an attribute, and what is stored at the start has
attributes as values of keys; `CasesAssumption`: test cases are numbered as they come to
be, finitely many are there at the start, a part of the list has room for one, and two
requests can be under way, which a page opened with a suite in its address sends at
once; and `ViewsAssumption`: the pages that may be mounted are those there are.

The dialog (`DialogInv`): at most one request that starts a launch is under way,
exactly while the button is hidden (`OneAtATime`); before the dialog is mounted it
is new (`Unmounted`); and there is an excuse for every launch but one, and, whenever
the button may be pressed again or the request has not been served, for every one
there is (`Excused`). A render of the page behind the dialog may take the launch
it shows as created away, and is an excuse then (`DialogProps`).

The bulk change (`BulkInv`): a test case that was fetched is no newer than the stored
one, and the stored one if it is as new; one that is to be saved is no newer either,
and if it is as new it is the stored one with values added by Add, or taken away by
Remove (`Sound`, with `ChangedOnlyBy` for what the buttons do to attributes). Whatever
writes makes a newer test case (`SavedStore`), so what is said of a message stays
true (`SavedSound`), and the service accepts only what is as new as what it has.

`BulkDone` is about what a button promises while its work is still to be done. The rows
of the form are different ones (`FormInv`), so each attribute that was chosen once has
one row in every message (`PledgeMade`). `PledgeInv` then follows the promise, until
the form is changed, others save one of its attributes, or another button is pressed:
there is one message per test case, whose rows still say what was promised, and what it
has fetched is what is stored in these attributes (`OnItsWay`); and every test case is
done, or has a message that has still to save or to fail, or the user was told.
`ChangeDoes` says that the rows of such a message, done to any test case, make it one
to which the promise has been done, unless the code throws on its way, which is told.

`ListComplete` is about parts of a list whose answers overtake each other, and the
number that decides whether "Load more" is offered. `ListingComplete` speaks of the
moment when nothing is under way, so the invariant says what is listed before. From
the first part of a filter, fetched with nothing else under way, until a request fails
or something changes what is to be listed (`cases_steady`, which the model records, with what else ends it: a tree fetched from
the skip of Load more, `FromTheFirst`),
`ListingInv` says: no request for the tree is under way; the requests for parts are
of the filter that is set, none beyond the last part asked for, and no two have a test
case in common (`PagesAsked`, since a press of the link moves `skip` on by a whole
part); the number shown is that of the result of the filter, or on its way
(`CountAsked`); what is listed, each once, is every test case whose place in the result
is up to the end of the last part, but for those in parts that are under way
(`PagesListed`); and the link is shown as the last render computed it from skip and
number. The place of a test case is the number of those before it in the result, at
most the size of the result and ordered as the test cases are (`RankOf`). From these,
once nothing is under way, what is listed has no gap, and is the whole result unless the
link is shown (`ListingOfAll`).

`UITyped` joins what each view keeps: the page of a test case by `TypeCorrect`; the list
by `CasesTyped`; the dialog by `DialogInv` with what it shows (`DialogShown`); the bulk
change by `BulkTyped`, for which the rows of the form must be different ones
(`FormInv`); settings, attributes and comments by the types of `PanelsProofs`, which are
the sequences of their lists. What the code does to such a sequence (a filter, an
element replaced, one put first) is shown to give a sequence of the same kind from what
the operators of the library are defined to be, without an induction: only the type of
the elements is claimed here, what they are is the matter of `AttributesListed` and
`CommentsListed`.

`PanelsProofs.tla` proves of the pages that keep a copy of what is stored, for any
values of `Model` as well:

| Theorem | Statement |
|---|---|
| `UISettingsKeepOthers` | `UISpec => SettingsKeepOthers` |
| `AttributesListed` | `UISpec => []AttributesAsStored` |
| `CommentsListed` | `UISpec => []CommentsAsStored` |

From `AttributesAssumption`: the ids of attributes are numbers (MongoDB's are ordered
too) and the attributes at the start are finitely many of the right shape, no two with
one id; `CommentsAssumption`: the comments at the start are finitely many, have the first
ids there are, each its own, and null is not a comment; and `SettingsAssumption`: there
is a value for a setting and the launchers at the start are launchers. In each a request
can be under way. `UISettingsKeepOthers` needs none of these.

The settings (`SettingsInv`, kept by `SettingsInvariance`): the project on the page,
each answer and each save to be served is no newer than the stored project and, when
it is as new, differs from it only in the settings changed here (`Based`).
Whatever writes makes a new version (`ProjectRenewed`), so older projects stay older
(`BasedStays`), and the service accepts only a project as new as the stored one
(`SettingsPut`).

`AttributesListed` is about a list that is never fetched again: after a save the page
puts the answer in its place, after a removal it takes out what the form shows. Two
attributes of a list never have the same id (`EachOnce`, in `AttributesTyped`). For a
user who waits, one request at most is under way beside that of the session, and
`CalmInv` says what its answer will do to the list (`Promise`): the list fetched, the
list with what was saved in its place and no longer typed over, or the list without
what the form shows (which is what the request removes, since the form has not been
changed meanwhile) is what is stored, but for attributes others have changed and those
typed over (`AsStored`). Served requests, changes by others and what is typed keep the
promise; handling the answer redeems it (`ListingOf`, `SavedOf` and `KeptOf` say what
the three lists hold). Loading the list forgets who changed what.

`CommentsListed` is about such a list too, in which order counts. As long as nothing
has overlapped (`steady`, which the model records), one request at most is under way
beside that of the session, and `SteadyInv` says what its answer will make of the
panel (`CommentPromise`): the new comment first, the saved one at its place, or the
list without the removed one is what is stored, comment by comment but for the text
of those typed over (`SameList`). For a save the place is right because the comments
of a test case have different ids (`EachOnce`, in `CommentsKept`, for which an id is
given once only: every id is at most `lastId`). For a removal it is that of the panel
and of the service: each filters its own list, and what is left is in the same order
because a set of numbers is put in order in one way only (`OneOrder`, from the least
number at which two orders differ: the well-ordering of the naturals, `LeastOf`), so
`OthersSame` holds without an induction over lists. What is typed meanwhile ends the
steady time unless nothing is under way.

`PolledProofs.tla` proves of the pages that are polled, for any test cases, items and
filters, and any number of presses, polls, reports and losses:

| Theorem | Statement |
|---|---|
| `FilterKept` | `PolledSpec => []FilterShown` |
| `PagesTyped` | `PolledSpec => []PolledTypeOK` |

From `LaunchPageAssumption`: the outcomes a tester reports are among those the page has
buttons for, a launch has finitely many test cases, and a request can be under way; and
`ListAssumption`: items are numbered as they come to be, there are finitely many at the
start, a page of a list has room for one, and "all" is one of the filters.

The filter by which the rows are made is the union of what the pressed
buttons ask for (`FilterOfPressed`); it is kept by adding or taking away what one
button asks for, which is right because no two buttons have a status in common. Every
rebuilding of the tree takes the launch as it is then and that filter, and a poll or a
report changes icons and never rows.

`PagesTyped` is more than the types of fields. For the page of a launch (`LaunchTyped`)
an answer that the page looks into has every test case of the launch, a report on its
way names a test case and a status, and two requests of a kind never have the same
number: a number is free whenever there is room for the request (`LeastNumber`). For
the lists (`ListTyped`) a page that is answered has no more items than its size
(`PageFits`: items of the page have different places in the order of the list), which is
what the pager counts with.

The inductive invariants of this section were checked by TLC, on the instances of
the runs or on larger ones of the page alone. Two are written with a quantifier over
all numbers, or over everything, which TLC cannot evaluate: of `BulkTyped` it checked
what it implies, the types of the view, and of `AsStored` the form that quantifies over
the ids of the instance.

## What is only model-checked

Liveness (`EveryCallAnswered`, `LockComesFree`, and the properties of
PolledPages that hold eventually) is out of the prover's reach.

Of the safety and action properties the passing runs check, each is a theorem. What
no theorem says is what a recursive definition computes for every input: where a
proof needs a sequence or a sum, it is about what its type or its finitely many members
say, as described above.

## What is not modelled, and why

* Deletes by filter, paging, filters and statistics in the services: one Mongo
  command each, whose behaviour is the database's.
* Organizations: `quack.organizations.enabled` is false by default; they prefix
  the name of the collection.
* The content of entities (names, steps, descriptions) in the services and its
  rendering, CSV export, mail, AES, password rules.
* Which values a change of an attribute renames and removes in test cases, how
  the tree of test cases is grouped and that of a launch filled: pure recursive
  transformations of one entity without state of their own. What depends on the
  shape is modelled where it matters (the depth in LaunchExecution, groups in
  LaunchPage, tree or list in TestCaseList).
* Login, logout and the map of sessions: calls to a session library that is not
  in the repository. What a session allows is `Role`, `role`, `session` and
  `admin` in the models; that a session keeps a copy of its user is listed as a
  hazard without a property.
* A failing database or Hazelcast cluster, other than by the death of a server.
* S3's naming of files, a failing file storage, and the tracker's answer lost
  after it has created an issue.
* REST resources, which check arguments and delegate.
* In the browser: the pages that hold one form or one list fetched once (login,
  header, session, user and password, projects, suites, organizations, test
  suites); statistics, heat map and the chart of attributes, drawn by a library
  from one answer; `testcases/Issues.js`, which no page imports; the
  properties of launchers inside the launch dialog; a launch with more than one
  level of groups on its page; import and export of files; titles, labels,
  layout and the look of the tree widget.
* Two pages in two tabs: each is a page of its own to the service, and the other
  one is "another user" in the models.
* A page that was left and whose timer runs on (`Launch.js`, `Launches.js`), and a
  page of a launch opened at the address of one of its test cases.
* Changing a launcher in the settings: its handler is not bound and throws.
