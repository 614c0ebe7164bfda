---------------------------- MODULE TestCaseCare ----------------------------
(***************************************************************************)
(* The care of one test case: TestCaseService's calls that change, besides *)
(* the stored test case, a file in the storage or an issue in the tracker, *)
(* with no transaction around the two, and the locked flag that its calls  *)
(* set, look at and clear.                                                 *)
(*                                                                         *)
(* update is what EntityStore has shown it to be while its lock waits do   *)
(* not time out and its clocks advance: a compare-and-set under a lock.    *)
(* The modification time is therefore the number of the version here.      *)
(***************************************************************************)
EXTENDS Integers, FiniteSets

CONSTANTS Clients,   \* each with at most one call under way
          Role,      \* the role capability of each client
          Files,     \* files that are uploaded, each one an attachment
          Issues,    \* issues of the tracker
          Nothing,   \* no file and no issue
          NoCase,    \* no test case in hand
          Nobody,    \* the owner of a free lock
          MaxCalls,  \* bound: calls that reach the service
          MayCrash   \* bound: whether servers die

(* locator: those of the attachments whose url, their place in the storage, *)
(* is stored with them.                                                     *)
TestCase == [version : Nat, locked : BOOLEAN, attachments : SUBSET Files,
             located : SUBSET Files, issues : SUBSET Issues]

ASSUME CareAssumption ==
    /\ Role \in [Clients -> {"admin", "writer", "reader"}]
    /\ Nothing \notin Files \cup Issues
    /\ NoCase \notin TestCase
    /\ Nobody \notin Clients
    /\ MaxCalls \in Nat
    /\ MayCrash \in BOOLEAN

VARIABLES
    testcase,  \* the test case as it is stored
    files,     \* what the storage holds
    tracker,   \* the issues there are in the tracker
    owner,     \* the lock update takes on the test case
    pc,        \* where the call of each client is
    op,        \* the kind of that call
    arg,       \* the file or issue it is about
    page,      \* the test case each client last opened
    doc,       \* the test case the server works on
    events,    \* UPDATED events recorded for the test case
    calls,     \* calls made so far (bound)
    (* history, read by the properties only *)
    made,      \* files that have ever been uploaded
    due,       \* attachments and issues by the calls that were saved
    cut        \* files whose call ended after the storage had been changed
               \* and before the test case was

stored == <<testcase, events, due>>
outside == <<files, tracker, made>>
vars == <<testcase, files, tracker, owner, pc, op, arg, page, doc, events,
          calls, made, due, cut>>

Ops == {"save", "lock", "unlock", "import", "upload", "delete",
        "create", "link", "unlink"}

TypeOK ==
    /\ testcase \in TestCase
    /\ files \subseteq Files
    /\ tracker \subseteq Issues
    /\ owner \in Clients \cup {Nobody}
    /\ pc \in [Clients -> {"idle", "find", "remove", "track", "update",
                           "check", "write"}]
    /\ op \in [Clients -> Ops]
    /\ arg \in [Clients -> Files \cup Issues \cup {Nothing}]
    /\ page \in [Clients -> TestCase \cup {NoCase}]
    /\ doc \in [Clients -> TestCase \cup {NoCase}]
    /\ events \in Nat
    /\ calls \in Nat
    /\ made \subseteq Files
    /\ due \in [attachments : SUBSET Files, issues : SUBSET Issues]
    /\ cut \subseteq Files

(* A test case with some attachments, locked or not. *)
Init ==
    /\ testcase \in [version : {1}, locked : BOOLEAN, attachments : SUBSET Files,
                     located : SUBSET Files, issues : {{}}]
    /\ testcase.located = testcase.attachments
    /\ files = testcase.attachments
    /\ tracker \in SUBSET Issues
    /\ owner = Nobody
    /\ pc = [r \in Clients |-> "idle"]
    /\ op = [r \in Clients |-> "save"]
    /\ arg = [r \in Clients |-> Nothing]
    /\ page = [r \in Clients |-> NoCase]
    /\ doc = [r \in Clients |-> NoCase]
    /\ events = 0
    /\ calls = 0
    /\ made = files
    /\ due = [attachments |-> testcase.attachments, issues |-> {}]
    /\ cut = {}

-----------------------------------------------------------------------------
(* What the calls make of the test case *)

(* findOne: beforeReturn clears the url of every attachment. *)
Shown(t) == [t EXCEPT !.located = {}]

WithFile(t, f) == [t EXCEPT !.attachments = @ \cup {f}, !.located = @ \cup {f}]
WithoutFile(t, f) == [t EXCEPT !.attachments = @ \ {f}, !.located = @ \ {f}]

(* The issue calls lock the test case as they save it. *)
Locking(t) == [t EXCEPT !.locked = TRUE]

WithIssue(t, i) == Locking([t EXCEPT !.issues = @ \cup {i}])
WithoutIssue(t, i) == Locking([t EXCEPT !.issues = @ \ {i}])

UserCanUpdate_anyone(r, t) == TRUE  \* slip: no permission check
UserCanUpdate(r, t) == Role[r] = "admin" \/ (~t.locked /\ Role[r] = "writer")

-----------------------------------------------------------------------------
(* Calls *)

Begin(r, kind, x, at, t) ==
    /\ pc[r] = "idle"
    /\ calls < MaxCalls
    /\ calls' = calls + 1
    /\ pc' = [pc EXCEPT ![r] = at]
    /\ op' = [op EXCEPT ![r] = kind]
    /\ arg' = [arg EXCEPT ![r] = x]
    /\ doc' = [doc EXCEPT ![r] = t]
    /\ UNCHANGED <<stored, tracker, owner, page, cut>>

Open(r) ==
    /\ pc[r] = "idle"
    /\ page' = [page EXCEPT ![r] = Shown(testcase)]
    /\ UNCHANGED <<stored, outside, owner, pc, op, arg, doc, calls, cut>>

(* save of the page, with changes to what is not modelled. *)
Save(r) ==
    /\ page[r] # NoCase
    /\ Begin(r, "save", Nothing, "update", page[r])
    /\ UNCHANGED <<files, made>>

LockTestCase(r) ==
    /\ ~testcase.locked
    /\ Begin(r, "lock", Nothing, "update", Locking(Shown(testcase)))
    /\ UNCHANGED <<files, made>>

UnlockTestCase(r) ==
    /\ testcase.locked
    /\ Begin(r, "unlock", Nothing, "update",
             [Shown(testcase) EXCEPT !.locked = FALSE])
    /\ UNCHANGED <<files, made>>

(* importTestCase of a test case that is there: it is locked as it is saved. *)
Import(r) ==
    /\ ~testcase.locked
    /\ Begin(r, "import", Nothing, "update", Locking(Shown(testcase)))
    /\ UNCHANGED <<files, made>>

(* uploadAttachment stores the file ... *)
UploadAttachment(r, f) ==
    /\ f \notin made
    /\ Begin(r, "upload", f, "find", NoCase)
    /\ files' = files \cup {f}
    /\ made' = made \cup {f}

(* ... and then reads the test case and adds the attachment to it. *)
Find(r) ==
    /\ pc[r] = "find"
    /\ pc' = [pc EXCEPT ![r] = "update"]
    /\ doc' = [doc EXCEPT ![r] = WithFile(testcase, arg[r])]
    /\ UNCHANGED <<stored, outside, owner, op, arg, page, calls, cut>>

DeleteAttachment(r, f) ==
    /\ f \in testcase.attachments
    /\ Begin(r, "delete", f, "remove", testcase)
    /\ UNCHANGED <<files, made>>

(* What a call that ends here without a save leaves behind in the storage. *)
CutOff(r) == IF op[r] \in {"upload", "delete"} THEN {arg[r]} ELSE {}

Emptied_kept(f) == files  \* slip: the file is not removed
Emptied(f) == files \ {f}

(* storage.remove, and only then the look at the locked flag.  Without its *)
(* url the file cannot be removed, and the call fails.                     *)
RemoveFile(r) ==
    /\ pc[r] = "remove"
    /\ LET found == arg[r] \in doc[r].located IN
       /\ files' = IF found THEN Emptied(arg[r]) ELSE files
       /\ IF found /\ ~doc[r].locked
          THEN /\ pc' = [pc EXCEPT ![r] = "update"]
               /\ doc' = [doc EXCEPT ![r] = WithoutFile(@, arg[r])]
               /\ UNCHANGED cut
          ELSE /\ pc' = [pc EXCEPT ![r] = "idle"]
               /\ doc' = [doc EXCEPT ![r] = NoCase]
               /\ cut' = IF found THEN cut \cup CutOff(r) ELSE cut
    /\ UNCHANGED <<stored, tracker, made, owner, op, arg, page, calls>>

CreateIssue(r) ==
    /\ Begin(r, "create", Nothing, "track", Shown(testcase))
    /\ UNCHANGED <<files, made>>

(* linkIssue of an issue that is not linked yet. *)
LinkIssue(r, i) ==
    /\ i \in tracker \ testcase.issues
    /\ Begin(r, "link", i, "track", Shown(testcase))
    /\ UNCHANGED <<files, made>>

UnlinkIssue(r, i) ==
    /\ ~testcase.locked
    /\ Begin(r, "unlink", i, "update", WithoutIssue(Shown(testcase), i))
    /\ UNCHANGED <<files, made>>

(* The tracker makes the issue, or looks it up, and the locked flag is *)
(* looked at after that.                                               *)
Track(r, i) ==
    /\ pc[r] = "track"
    /\ IF op[r] = "create" THEN i \notin tracker ELSE i = arg[r]
    /\ tracker' = tracker \cup {i}
    /\ arg' = [arg EXCEPT ![r] = i]
    /\ IF doc[r].locked
       THEN /\ pc' = [pc EXCEPT ![r] = "idle"]
            /\ doc' = [doc EXCEPT ![r] = NoCase]
       ELSE /\ pc' = [pc EXCEPT ![r] = "update"]
            /\ doc' = [doc EXCEPT ![r] = WithIssue(@, i)]
    /\ UNCHANGED <<stored, files, made, owner, op, page, calls, cut>>

(* The tracker is not there, or refuses; nothing has been changed. *)
TrackerFails(r) ==
    /\ pc[r] = "track"
    /\ pc' = [pc EXCEPT ![r] = "idle"]
    /\ doc' = [doc EXCEPT ![r] = NoCase]
    /\ UNCHANGED <<stored, outside, owner, op, arg, page, calls, cut>>

-----------------------------------------------------------------------------
(* update *)

(* The call ends in update, without a save. *)
GiveUp(r) ==
    /\ pc' = [pc EXCEPT ![r] = "idle"]
    /\ doc' = [doc EXCEPT ![r] = NoCase]
    /\ cut' = cut \cup CutOff(r)
    /\ UNCHANGED <<outside, op, arg, page, calls>>

Deny(r) ==
    /\ pc[r] = "update"
    /\ ~UserCanUpdate(r, doc[r])
    /\ GiveUp(r)
    /\ UNCHANGED <<stored, owner>>

Enter(r) ==
    /\ pc[r] = "update"
    /\ UserCanUpdate(r, doc[r])
    /\ owner = Nobody
    /\ owner' = r
    /\ pc' = [pc EXCEPT ![r] = "check"]
    /\ UNCHANGED <<stored, outside, op, arg, page, doc, calls, cut>>

UpToDate_unchecked(t) == TRUE  \* slip: no comparison
UpToDate(t) == testcase.version <= t.version

(* beforeUpdate records the event before anything is saved. *)
Recorded_pages(r) ==  \* slip: only what comes from a page is recorded
    IF op[r] = "save" THEN events + 1 ELSE events
Recorded(r) == events + 1

Check(r) ==
    /\ pc[r] = "check"
    /\ UpToDate(doc[r])
    /\ events' = Recorded(r)
    /\ pc' = [pc EXCEPT ![r] = "write"]
    /\ UNCHANGED <<testcase, due, outside, owner, op, arg, page, doc, calls,
                   cut>>

Stale(r) ==
    /\ pc[r] = "check"
    /\ ~UpToDate(doc[r])
    /\ owner' = Nobody
    /\ GiveUp(r)
    /\ UNCHANGED stored

(* What is due once the call has been saved. *)
Due(r) ==
    CASE op[r] = "upload"            -> [due EXCEPT !.attachments = @ \cup {arg[r]}]
      [] op[r] = "delete"            -> [due EXCEPT !.attachments = @ \ {arg[r]}]
      [] op[r] \in {"create", "link"} -> [due EXCEPT !.issues = @ \cup {arg[r]}]
      [] op[r] = "unlink"            -> [due EXCEPT !.issues = @ \ {arg[r]}]
      [] OTHER                       -> due

Renewed_back(v) == v - 2  \* slip: the wrong sign
Renewed(v) == v + 1

Write(r) ==
    /\ pc[r] = "write"
    /\ testcase' = [doc[r] EXCEPT !.version = Renewed(testcase.version)]
    /\ due' = Due(r)
    /\ owner' = Nobody
    /\ pc' = [pc EXCEPT ![r] = "idle"]
    /\ doc' = [doc EXCEPT ![r] = NoCase]
    /\ UNCHANGED <<events, outside, op, arg, page, calls, cut>>

(* The server dies with the call; Hazelcast takes its lock away. *)
ServerDies(r) ==
    /\ MayCrash
    /\ pc[r] # "idle"
    /\ pc' = [pc EXCEPT ![r] = "idle"]
    /\ owner' = IF owner = r THEN Nobody ELSE owner
    /\ doc' = [doc EXCEPT ![r] = NoCase]
    /\ cut' = IF pc[r] = "remove" THEN cut ELSE cut \cup CutOff(r)
    /\ UNCHANGED <<stored, outside, op, arg, page, calls>>

Call(r) ==
    \/ Open(r)
    \/ Save(r)
    \/ LockTestCase(r)
    \/ UnlockTestCase(r)
    \/ Import(r)
    \/ \E f \in Files : UploadAttachment(r, f) \/ DeleteAttachment(r, f)
    \/ CreateIssue(r)
    \/ \E i \in Issues : LinkIssue(r, i) \/ UnlinkIssue(r, i)

Serve(r) ==
    \/ Find(r)
    \/ RemoveFile(r)
    \/ \E i \in Issues : Track(r, i)
    \/ TrackerFails(r)
    \/ Deny(r)
    \/ Enter(r)
    \/ Check(r)
    \/ Stale(r)
    \/ Write(r)

Next == \E r \in Clients : Call(r) \/ Serve(r) \/ ServerDies(r)

Spec == Init /\ [][Next]_vars

-----------------------------------------------------------------------------
(* Properties *)

(* The files of calls that are under way. *)
UnderWay(kind, places) ==
    {arg[r] : r \in {q \in Clients : op[q] = kind /\ pc[q] \in places}}

(* Whatever reads, edits, locks and other uploads interleave, the storage *)
(* keeps no file that the test case does not list, but for uploads under  *)
(* way and uploads that were refused or cut off after the file was stored.*)
NoFileForgotten ==
    files \subseteq testcase.attachments \cup cut
                    \cup UnderWay("upload", {"find", "update", "check", "write"})

(* An attachment that knows its place in the storage has its file there,   *)
(* but for removals under way and those refused or cut off after the file  *)
(* was removed: no stale copy of the test case brings a removed one back.  *)
NoAttachmentEmpty ==
    testcase.located \subseteq files \cup cut
                    \cup UnderWay("delete", {"update", "check", "write"})

(* The storage and the list of attachments agree, but for what calls under *)
(* way, refused or cut off have done to one of the two.                    *)
FilesAsListed == NoFileForgotten /\ NoAttachmentEmpty

(* The test case lists exactly the attachments and issues of the calls that *)
(* were saved: each of these writes the whole test case back as it was read *)
(* some steps earlier, and none undoes another.                             *)
CallsTakeEffect ==
    /\ testcase.attachments = due.attachments
    /\ testcase.issues = due.issues

(* A test case that is locked is not changed by who is not an administrator, *)
(* also when the lock was set after the call had read the test case; only    *)
(* an unlock is left, and it changes nothing else.                           *)
LockedStays ==
    [][ testcase.locked /\ testcase' # testcase =>
           \/ \E r \in Clients : pc[r] = "write" /\ Role[r] = "admin"
           \/ /\ ~testcase'.locked
              /\ testcase'.attachments = testcase.attachments
              /\ testcase'.issues = testcase.issues ]_vars

(* Every saved change of the test case has its UPDATED event, also when a  *)
(* server dies at any point; an event more is left by a server that died   *)
(* between the event and the save.                                         *)
ChangesAudited == testcase.version - 1 <= events

(* Every attachment that is listed, and shown as a link to its content, *)
(* knows where its content is stored.                                    *)
AttachmentsLocated == testcase.attachments \subseteq testcase.located
=============================================================================
