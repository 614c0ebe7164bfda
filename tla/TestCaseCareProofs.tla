--------------------------- MODULE TestCaseCareProofs ---------------------------
(***************************************************************************)
(* Theorems about TestCaseCare, for any clients, roles, files and issues,  *)
(* and any number of calls.                                                *)
(***************************************************************************)
EXTENDS TestCaseCare, TLAPS

USE CareAssumption

-----------------------------------------------------------------------------
(* The invariant *)

(* Which kinds of call are where, and what they are about. *)
Route ==
    \A r \in Clients :
        /\ pc[r] = "find" => op[r] = "upload"
        /\ pc[r] = "remove" => op[r] = "delete"
        /\ pc[r] = "track" => op[r] \in {"create", "link"}
        /\ op[r] \in {"upload", "delete"} => arg[r] \in Files
        /\ op[r] \in {"link", "unlink"} => arg[r] \in Issues
        /\ op[r] = "create" /\ pc[r] \in {"update", "check", "write"} => arg[r] \in Issues
        /\ pc[r] \in {"remove", "track", "update", "check", "write"} => doc[r] \in TestCase

(* Past its wait a call owns the lock, and may save what it has in hand.   *)
Holding ==
    \A r \in Clients : pc[r] \in {"check", "write"} =>
        owner = r /\ UserCanUpdate(r, doc[r])

(* t was read from the service: it is no newer than what is stored, and if *)
(* it is as new, it is what is stored, its places in the storage aside.    *)
Read(t) ==
    /\ t.version <= testcase.version
    /\ t.version = testcase.version =>
          /\ t.locked = testcase.locked
          /\ t.attachments = testcase.attachments
          /\ t.issues = testcase.issues
          /\ t.located \subseteq testcase.located

(* What the call of r is to make of a set of files, and of one of issues.  *)
FilesAfter(r, S) ==
    CASE op[r] = "upload" -> S \cup {arg[r]}
      [] op[r] = "delete" -> S \ {arg[r]}
      [] OTHER -> S
IssuesAfter(r, S) ==
    CASE op[r] \in {"create", "link"} -> S \cup {arg[r]}
      [] op[r] = "unlink" -> S \ {arg[r]}
      [] OTHER -> S

(* The call of r has its change made to what it had read. *)
Changed(r) ==
    /\ doc[r].version <= testcase.version
    /\ doc[r].version = testcase.version =>
          /\ doc[r].attachments = FilesAfter(r, testcase.attachments)
          /\ doc[r].issues = IssuesAfter(r, testcase.issues)
          /\ doc[r].located \subseteq FilesAfter(r, testcase.located)
          /\ testcase.locked => doc[r].locked \/ op[r] = "unlock"

Copies ==
    /\ \A r \in Clients : page[r] # NoCase => Read(page[r])
    /\ \A r \in Clients : pc[r] \in {"remove", "track"} => Read(doc[r])
    /\ \A r \in Clients : pc[r] \in {"update", "check", "write"} => Changed(r)

(* A call about to save is about to replace what it was based on, and has  *)
(* its event.                                                              *)
Writing ==
    \A r \in Clients : pc[r] = "write" =>
        doc[r].version = testcase.version /\ testcase.version <= events

(* Uploads under way are of files of their own. *)
Uploading(r) == op[r] = "upload" /\ pc[r] \in {"find", "update", "check", "write"}
Deleting(r) == op[r] = "delete" /\ pc[r] \in {"remove", "update", "check", "write"}
Uploads ==
    /\ files \cup testcase.attachments \subseteq made
    /\ \A r \in Clients : Uploading(r) \/ Deleting(r) => arg[r] \in made
    /\ \A r \in Clients : Deleting(r) /\ pc[r] # "remove" => arg[r] \notin files
    /\ \A r \in Clients : Uploading(r) =>
          /\ arg[r] \in files \ testcase.attachments
          /\ \A q \in Clients \ {r} : Uploading(q) \/ Deleting(q) => arg[q] # arg[r]

IInv ==
    /\ TypeOK /\ Route
    /\ Holding /\ Copies /\ Writing
    /\ Uploads
    /\ FilesAsListed /\ CallsTakeEffect /\ ChangesAudited

-----------------------------------------------------------------------------
(* What the calls make of a test case *)

LEMMA ShownFields ==
    ASSUME NEW t \in TestCase
    PROVE  /\ Shown(t) \in TestCase
           /\ Shown(t).version = t.version /\ Shown(t).locked = t.locked
           /\ Shown(t).attachments = t.attachments /\ Shown(t).issues = t.issues
           /\ Shown(t).located = {}
BY DEF Shown, TestCase

LEMMA WithFileFields ==
    ASSUME NEW t \in TestCase, NEW f \in Files
    PROVE  /\ WithFile(t, f) \in TestCase
           /\ WithFile(t, f).version = t.version /\ WithFile(t, f).locked = t.locked
           /\ WithFile(t, f).attachments = t.attachments \cup {f}
           /\ WithFile(t, f).located = t.located \cup {f}
           /\ WithFile(t, f).issues = t.issues
BY DEF WithFile, TestCase

LEMMA WithoutFileFields ==
    ASSUME NEW t \in TestCase, NEW f \in Files
    PROVE  /\ WithoutFile(t, f) \in TestCase
           /\ WithoutFile(t, f).version = t.version
           /\ WithoutFile(t, f).locked = t.locked
           /\ WithoutFile(t, f).attachments = t.attachments \ {f}
           /\ WithoutFile(t, f).located = t.located \ {f}
           /\ WithoutFile(t, f).issues = t.issues
BY DEF WithoutFile, TestCase

LEMMA LockingFields ==
    ASSUME NEW t \in TestCase
    PROVE  /\ Locking(t) \in TestCase
           /\ Locking(t).version = t.version /\ Locking(t).locked
           /\ Locking(t).attachments = t.attachments
           /\ Locking(t).located = t.located /\ Locking(t).issues = t.issues
BY DEF Locking, TestCase

LEMMA WithIssueFields ==
    ASSUME NEW t \in TestCase, NEW i \in Issues
    PROVE  /\ WithIssue(t, i) \in TestCase
           /\ WithIssue(t, i).version = t.version /\ WithIssue(t, i).locked
           /\ WithIssue(t, i).attachments = t.attachments
           /\ WithIssue(t, i).located = t.located
           /\ WithIssue(t, i).issues = t.issues \cup {i}
<1> DEFINE u == [t EXCEPT !.issues = @ \cup {i}]
<1>1. /\ u \in TestCase /\ u.version = t.version
      /\ u.attachments = t.attachments /\ u.located = t.located
      /\ u.issues = t.issues \cup {i}
  BY DEF TestCase
<1> HIDE DEF u
<1>2. WithIssue(t, i) = Locking(u)
  BY DEF WithIssue, u
<1> QED BY <1>1, <1>2, LockingFields

LEMMA WithoutIssueFields ==
    ASSUME NEW t \in TestCase, NEW i \in Issues
    PROVE  /\ WithoutIssue(t, i) \in TestCase
           /\ WithoutIssue(t, i).version = t.version /\ WithoutIssue(t, i).locked
           /\ WithoutIssue(t, i).attachments = t.attachments
           /\ WithoutIssue(t, i).located = t.located
           /\ WithoutIssue(t, i).issues = t.issues \ {i}
<1> DEFINE u == [t EXCEPT !.issues = @ \ {i}]
<1>1. /\ u \in TestCase /\ u.version = t.version
      /\ u.attachments = t.attachments /\ u.located = t.located
      /\ u.issues = t.issues \ {i}
  BY DEF TestCase
<1> HIDE DEF u
<1>2. WithoutIssue(t, i) = Locking(u)
  BY DEF WithoutIssue, u
<1> QED BY <1>1, <1>2, LockingFields

-----------------------------------------------------------------------------
(* Types, and the way of each call *)

(* Where a call of a kind begins. *)
Start(kind) ==
    CASE kind = "upload" -> "find"
      [] kind = "delete" -> "remove"
      [] kind \in {"create", "link"} -> "track"
      [] OTHER -> "update"

LEMMA BeginType ==
    ASSUME TypeOK, Route, NEW r \in Clients, NEW kind \in Ops,
           NEW x \in Files \cup Issues \cup {Nothing}, NEW t \in TestCase \cup {NoCase},
           Begin(r, kind, x, Start(kind), t),
           kind \in {"upload", "delete"} => x \in Files,
           kind \in {"link", "unlink"} => x \in Issues,
           kind # "upload" => t # NoCase,
           files' \subseteq Files, made' \subseteq Files
    PROVE  TypeOK' /\ Route'
<1>1. PICK at : at = Start(kind)
  OBVIOUS
<1>2. /\ at \in {"find", "remove", "track", "update"}
      /\ at = "find" <=> kind = "upload"
      /\ at = "remove" => kind = "delete"
      /\ at = "track" <=> kind \in {"create", "link"}
  BY <1>1 DEF Start, Ops
<1>3. /\ pc' = [pc EXCEPT ![r] = at] /\ op' = [op EXCEPT ![r] = kind]
      /\ arg' = [arg EXCEPT ![r] = x] /\ doc' = [doc EXCEPT ![r] = t]
      /\ calls' = calls + 1
      /\ UNCHANGED <<testcase, events, due, tracker, owner, page, cut>>
  BY <1>1 DEF Begin, stored
<1>4. TypeOK'
  BY <1>2, <1>3 DEF TypeOK
<1>5. Route'
  BY <1>2, <1>3 DEF TypeOK, Route
<1> QED BY <1>4, <1>5

(* The issue calls and imports read the test case as it is shown. *)
LEMMA ShownType ==
    ASSUME TypeOK
    PROVE  /\ Shown(testcase) \in TestCase
           /\ Locking(Shown(testcase)) \in TestCase
           /\ [Shown(testcase) EXCEPT !.locked = FALSE] \in TestCase
           /\ \A i \in Issues : WithoutIssue(Shown(testcase), i) \in TestCase
<1>1. Shown(testcase) \in TestCase
  BY ShownFields DEF TypeOK
<1>2. [Shown(testcase) EXCEPT !.locked = FALSE] \in TestCase
  BY <1>1 DEF TestCase
<1> QED BY <1>1, <1>2, LockingFields, WithoutIssueFields

LEMMA CallType ==
    ASSUME TypeOK, Route, NEW r \in Clients, Call(r)
    PROVE  TypeOK' /\ Route'
<1> USE DEF Ops
<1>0. /\ Start("upload") = "find" /\ Start("delete") = "remove"
      /\ Start("create") = "track" /\ Start("link") = "track"
      /\ \A kind \in {"save", "lock", "unlock", "import", "unlink"} :
            Start(kind) = "update"
  BY DEF Start
<1>1. CASE Open(r)
  BY <1>1, ShownType DEF Open, TypeOK, Route, stored, outside
<1>2. CASE Save(r)
  BY <1>0, <1>2, BeginType DEF Save, TypeOK
<1>3. CASE LockTestCase(r)
  BY <1>0, <1>3, BeginType, ShownType DEF LockTestCase, TypeOK
<1>4. CASE UnlockTestCase(r)
  BY <1>0, <1>4, BeginType, ShownType DEF UnlockTestCase, TypeOK
<1>5. CASE Import(r)
  BY <1>0, <1>5, BeginType, ShownType DEF Import, TypeOK
<1>6. ASSUME NEW f \in Files, UploadAttachment(r, f)
      PROVE  TypeOK' /\ Route'
  BY <1>0, <1>6, BeginType DEF UploadAttachment, TypeOK
<1>7. ASSUME NEW f \in Files, DeleteAttachment(r, f)
      PROVE  TypeOK' /\ Route'
  BY <1>0, <1>7, BeginType DEF DeleteAttachment, TypeOK
<1>8. CASE CreateIssue(r)
  BY <1>0, <1>8, BeginType, ShownType DEF CreateIssue, TypeOK
<1>9. ASSUME NEW i \in Issues, LinkIssue(r, i) \/ UnlinkIssue(r, i)
      PROVE  TypeOK' /\ Route'
  BY <1>0, <1>9, BeginType, ShownType DEF LinkIssue, UnlinkIssue, TypeOK
<1> QED BY <1>1, <1>2, <1>3, <1>4, <1>5, <1>6, <1>7, <1>8, <1>9 DEF Call

LEMMA ServeType ==
    ASSUME TypeOK, Route, NEW r \in Clients, Serve(r) \/ ServerDies(r)
    PROVE  TypeOK' /\ Route'
<1> USE DEF stored, outside
<1>1. CASE Find(r)
  <2>1. WithFile(testcase, arg[r]) \in TestCase
    BY <1>1, WithFileFields DEF Find, Route, TypeOK
  <2> QED BY <1>1, <2>1 DEF Find, TypeOK, Route
<1>2. CASE RemoveFile(r)
  <2>1. WithoutFile(doc[r], arg[r]) \in TestCase
    BY <1>2, WithoutFileFields DEF RemoveFile, Route, TypeOK
  <2>2. /\ files' \subseteq Files
        /\ \/ cut' = cut
           \/ cut' = cut \cup CutOff(r)
        /\ \/ pc' = [pc EXCEPT ![r] = "update"]
              /\ doc' = [doc EXCEPT ![r] = WithoutFile(doc[r], arg[r])]
           \/ pc' = [pc EXCEPT ![r] = "idle"] /\ doc' = [doc EXCEPT ![r] = NoCase]
        /\ pc[r] = "remove"
        /\ UNCHANGED <<stored, tracker, made, owner, op, arg, page, calls>>
    BY <1>2 DEF RemoveFile, Emptied, TypeOK
  <2>3. CutOff(r) \subseteq Files
    BY DEF CutOff, Route
  <2>4. TypeOK'
    BY <2>1, <2>2, <2>3 DEF TypeOK
  <2>5. Route'
    BY <2>1, <2>2 DEF TypeOK, Route
  <2> QED BY <2>4, <2>5
<1>3. ASSUME NEW i \in Issues, Track(r, i)
      PROVE  TypeOK' /\ Route'
  <2>1. WithIssue(doc[r], i) \in TestCase
    BY <1>3, WithIssueFields DEF Track, Route
  <2> QED BY <1>3, <2>1 DEF Track, TypeOK, Route
<1>4. CASE TrackerFails(r)
  BY <1>4 DEF TrackerFails, TypeOK, Route
<1>5. CASE Deny(r) \/ Stale(r) \/ ServerDies(r)
  <2>1. CutOff(r) \subseteq Files
    BY DEF CutOff, Route
  <2>2. /\ pc' = [pc EXCEPT ![r] = "idle"] /\ doc' = [doc EXCEPT ![r] = NoCase]
        /\ cut' = cut \/ cut' = cut \cup CutOff(r)
        /\ owner' \in {owner, Nobody}
        /\ UNCHANGED <<stored, outside, op, arg, page, calls>>
    BY <1>5 DEF Deny, Stale, GiveUp, ServerDies
  <2> QED BY <2>1, <2>2 DEF TypeOK, Route
<1>6. CASE Enter(r)
  BY <1>6 DEF Enter, TypeOK, Route
<1>7. CASE Check(r)
  BY <1>7 DEF Check, Recorded, TypeOK, Route
<1>8. CASE Write(r)
  <2>1. doc[r] \in TestCase
    BY <1>8 DEF Write, Route
  <2>2. testcase' \in TestCase
    BY <1>8, <2>1 DEF Write, Renewed, TestCase, TypeOK
  <2>3. Due(r) \in [attachments : SUBSET Files, issues : SUBSET Issues]
    BY <1>8 DEF Write, Due, Route, TypeOK
  <2> QED BY <1>8, <2>2, <2>3 DEF Write, TypeOK, Route
<1> QED BY <1>1, <1>2, <1>3, <1>4, <1>5, <1>6, <1>7, <1>8 DEF Serve

LEMMA TypeInit == Init => TypeOK /\ Route
<1> SUFFICES ASSUME Init PROVE TypeOK /\ Route
  OBVIOUS
<1>1. testcase \in TestCase
  BY DEF Init, TestCase
<1> QED BY <1>1 DEF Init, TypeOK, Route, Ops, TestCase

LEMMA TypeStep == TypeOK /\ Route /\ [Next]_vars => TypeOK' /\ Route'
BY CallType, ServeType DEF Next, vars, TypeOK, Route

(* Types are kept, by every interleaving of calls and with servers dying.  *)
THEOREM TypeCorrect == Spec => []TypeOK
<1>1. TypeOK /\ Route /\ [Next]_vars => (TypeOK /\ Route)'
  BY TypeStep
<1> QED BY TypeInit, <1>1, PTL DEF Spec

-----------------------------------------------------------------------------
(* Steps *)

(* What each step of the call of r leaves alone. *)
LEMMA OnlyMine ==
    ASSUME TypeOK, NEW r \in Clients, Call(r) \/ Serve(r) \/ ServerDies(r)
    PROVE  \A q \in Clients \ {r} :
              pc'[q] = pc[q] /\ op'[q] = op[q] /\ arg'[q] = arg[q]
              /\ page'[q] = page[q] /\ doc'[q] = doc[q]
<1> USE DEF TypeOK
<1>1. CASE Call(r)
  BY <1>1 DEF Call, Begin, Open, Save, LockTestCase, UnlockTestCase, Import,
              UploadAttachment, DeleteAttachment, CreateIssue, LinkIssue, UnlinkIssue
<1>2. CASE Serve(r)
  BY <1>2 DEF Serve, GiveUp, Find, RemoveFile, Track, TrackerFails, Deny, Enter,
              Check, Stale, Write
<1>3. CASE ServerDies(r)
  BY <1>3 DEF ServerDies
<1> QED BY <1>1, <1>2, <1>3

(* A call that begins, or a page that is opened. *)
LEMMA CallStep ==
    ASSUME TypeOK, NEW r \in Clients, Call(r)
    PROVE  /\ UNCHANGED <<testcase, events, due, tracker, owner, cut>>
           /\ pc[r] = "idle"
           /\ pc'[r] \in {"idle", "find", "remove", "track", "update"}
BY DEF Call, Begin, Open, Save, LockTestCase, UnlockTestCase, Import, stored,
       outside, UploadAttachment, DeleteAttachment, CreateIssue, LinkIssue,
       UnlinkIssue, TypeOK

LEMMA HoldingStep == TypeOK /\ Holding /\ [Next]_vars => Holding'
<1> SUFFICES ASSUME TypeOK, Holding, [Next]_vars PROVE Holding'
  OBVIOUS
<1> USE DEF Holding
<1>1. ASSUME NEW r \in Clients, Call(r)
      PROVE  Holding'
  BY <1>1, CallStep, OnlyMine DEF UserCanUpdate
<1>2. ASSUME NEW r \in Clients, Enter(r)
      PROVE  Holding'
  BY <1>2 DEF Enter, UserCanUpdate, TypeOK
<1>3. ASSUME NEW r \in Clients, Check(r)
      PROVE  Holding'
  BY <1>3 DEF Check, UserCanUpdate, TypeOK
<1>4. ASSUME NEW r \in Clients, Find(r) \/ RemoveFile(r) \/ TrackerFails(r) \/ Deny(r)
                                \/ \E i \in Issues : Track(r, i)
      PROVE  Holding'
  <2>1. UNCHANGED owner /\ pc'[r] \in {"idle", "update"}
    BY <1>4 DEF Find, RemoveFile, TrackerFails, Deny, GiveUp, Track, TypeOK
  <2> QED BY <1>4, <2>1, OnlyMine DEF UserCanUpdate, Serve
<1>5. ASSUME NEW r \in Clients, Stale(r) \/ Write(r) \/ ServerDies(r)
      PROVE  Holding'
  <2>1. /\ pc'[r] = "idle"
        /\ owner' = owner \/ (owner' = Nobody /\ owner = r)
    BY <1>5 DEF Stale, GiveUp, Write, ServerDies, TypeOK
  <2> QED BY <1>5, <2>1, OnlyMine DEF UserCanUpdate, Serve
<1>6. CASE UNCHANGED vars
  BY <1>6 DEF vars, UserCanUpdate
<1> QED BY <1>1, <1>2, <1>3, <1>4, <1>5, <1>6 DEF Next, Serve

-----------------------------------------------------------------------------
(* Copies of the test case *)

(* While nothing is saved, the copies of the others stay what they are. *)
LEMMA CopiesStay ==
    ASSUME TypeOK, Copies, NEW r \in Clients, Call(r) \/ Serve(r) \/ ServerDies(r),
           UNCHANGED testcase,
           page'[r] # NoCase => Read(page[r])' ,
           pc'[r] \in {"remove", "track"} => Read(doc[r])',
           pc'[r] \in {"update", "check", "write"} => Changed(r)'
    PROVE  Copies'
<1>1. ASSUME NEW q \in Clients \ {r}
      PROVE  /\ page'[q] # NoCase => Read(page[q])'
             /\ pc'[q] \in {"remove", "track"} => Read(doc[q])'
             /\ pc'[q] \in {"update", "check", "write"} => Changed(q)'
  <2>1. /\ pc'[q] = pc[q] /\ op'[q] = op[q] /\ arg'[q] = arg[q]
        /\ page'[q] = page[q] /\ doc'[q] = doc[q]
    BY <1>1, OnlyMine
  <2>2. /\ page[q] # NoCase => Read(page[q])
        /\ pc[q] \in {"remove", "track"} => Read(doc[q])
        /\ pc[q] \in {"update", "check", "write"} => Changed(q)
    BY DEF Copies
  <2>3. Read(page[q]) => Read(page[q])'
    BY <2>1 DEF Read
  <2>4. Read(doc[q]) => Read(doc[q])'
    BY <2>1 DEF Read
  <2>5. Changed(q) => Changed(q)'
    BY <2>1 DEF Changed, FilesAfter, IssuesAfter
  <2> QED BY <2>1, <2>2, <2>3, <2>4, <2>5
<1> QED BY <1>1 DEF Copies

(* What a call reads when it begins. *)
LEMMA ReadNow ==
    ASSUME TypeOK
    PROVE  Read(testcase) /\ Read(Shown(testcase))
BY ShownFields DEF TypeOK, Read, TestCase

LEMMA CopiesCall ==
    ASSUME TypeOK, Copies, NEW r \in Clients, Call(r)
    PROVE  Copies'
<1>1. UNCHANGED testcase
  BY CallStep
<1>2. page'[r] # NoCase => Read(page[r])'
  <2>1. page'[r] = page[r] \/ page'[r] = Shown(testcase)
    BY DEF Call, Begin, Open, Save, LockTestCase, UnlockTestCase, Import,
       UploadAttachment, DeleteAttachment, CreateIssue, LinkIssue, UnlinkIssue, TypeOK
  <2> QED BY <1>1, <2>1, ReadNow DEF Copies, Read
<1>3. pc'[r] \in {"remove", "track"} => Read(doc[r])'
  <2>1. pc'[r] \in {"remove", "track"} => doc'[r] \in {testcase, Shown(testcase)}
    BY DEF Call, Begin, Open, Save, LockTestCase, UnlockTestCase, Import,
       UploadAttachment, DeleteAttachment, CreateIssue, LinkIssue, UnlinkIssue, TypeOK
  <2> QED BY <1>1, <2>1, ReadNow DEF Read
<1>4. pc'[r] \in {"update", "check", "write"} => Changed(r)'
  <2> DEFINE s == Shown(testcase)
  <2>1. /\ s \in TestCase /\ s.version = testcase.version
        /\ s.locked = testcase.locked /\ s.attachments = testcase.attachments
        /\ s.issues = testcase.issues /\ s.located = {}
    BY ShownFields DEF TypeOK
  <2> HIDE DEF s
  <2>2. CASE Save(r)
    <3>1. op'[r] = "save" /\ doc'[r] = page[r] /\ Read(page[r])
      BY <2>2 DEF Save, Begin, TypeOK, Copies
    <3> QED BY <1>1, <3>1 DEF Read, Changed, FilesAfter, IssuesAfter
  <2>3. CASE LockTestCase(r) \/ Import(r)
    <3>1. op'[r] \in {"lock", "import"} /\ doc'[r] = Locking(s)
      BY <2>3 DEF LockTestCase, Import, Begin, TypeOK, s
    <3> QED BY <1>1, <2>1, <3>1, LockingFields
            DEF Changed, FilesAfter, IssuesAfter, TypeOK, TestCase
  <2>4. CASE UnlockTestCase(r)
    <3>1. op'[r] = "unlock" /\ doc'[r] = [s EXCEPT !.locked = FALSE]
      BY <2>4 DEF UnlockTestCase, Begin, TypeOK, s
    <3>2. /\ doc'[r].version = s.version /\ doc'[r].attachments = s.attachments
          /\ doc'[r].issues = s.issues /\ doc'[r].located = s.located
      BY <2>1, <3>1 DEF TestCase
    <3> QED BY <1>1, <2>1, <3>1, <3>2
            DEF Changed, FilesAfter, IssuesAfter, TypeOK, TestCase
  <2>5. ASSUME NEW i \in Issues, UnlinkIssue(r, i)
        PROVE  Changed(r)'
    <3>1. op'[r] = "unlink" /\ arg'[r] = i /\ doc'[r] = WithoutIssue(s, i)
      BY <2>5 DEF UnlinkIssue, Begin, TypeOK, s
    <3> QED BY <1>1, <2>1, <3>1, WithoutIssueFields
            DEF Changed, FilesAfter, IssuesAfter, TypeOK, TestCase
  <2>6. ASSUME pc'[r] \in {"update", "check", "write"},
               ~(\/ Save(r) \/ LockTestCase(r) \/ Import(r) \/ UnlockTestCase(r)
                 \/ \E i \in Issues : UnlinkIssue(r, i))
        PROVE  FALSE
    BY <2>6 DEF Call, Open, UploadAttachment, DeleteAttachment, CreateIssue,
                LinkIssue, Begin, TypeOK
  <2> QED BY <2>2, <2>3, <2>4, <2>5, <2>6
<1> QED BY <1>1, <1>2, <1>3, <1>4, CopiesStay

(* The steps of a call that has begun, up to its save. *)
LEMMA CopiesServe ==
    ASSUME TypeOK, Route, Copies, NEW r \in Clients,
           \/ Find(r) \/ RemoveFile(r) \/ \E i \in Issues : Track(r, i)
           \/ TrackerFails(r) \/ Deny(r) \/ Enter(r) \/ Check(r) \/ Stale(r)
           \/ ServerDies(r)
    PROVE  Copies'
<1> USE DEF stored, outside
<1>1. UNCHANGED <<testcase, page>> /\ (Serve(r) \/ ServerDies(r))
  BY DEF Find, RemoveFile, Track, TrackerFails, Deny, Enter, Check, Stale,
         GiveUp, ServerDies, Serve
<1>2. page'[r] # NoCase => Read(page[r])'
  BY <1>1 DEF Copies, Read
<1>3. pc'[r] \in {"idle", "update", "check", "write"}
  BY DEF Find, RemoveFile, Track, TrackerFails, Deny, Enter, Check, Stale,
         GiveUp, ServerDies, TypeOK
<1>4. pc'[r] \in {"update", "check", "write"} => Changed(r)'
  <2>1. CASE Find(r)
    <3>1. /\ op'[r] = "upload" /\ arg'[r] = arg[r] /\ arg[r] \in Files
          /\ doc'[r] = WithFile(testcase, arg[r])
      BY <2>1 DEF Find, Route, TypeOK
    <3> QED BY <1>1, <3>1, WithFileFields
            DEF Changed, FilesAfter, IssuesAfter, TypeOK, TestCase
  <2>2. CASE RemoveFile(r) /\ pc'[r] = "update"
    <3>1. /\ op'[r] = "delete" /\ arg'[r] = arg[r] /\ arg[r] \in Files
          /\ doc[r] \in TestCase /\ Read(doc[r])
          /\ doc'[r] = WithoutFile(doc[r], arg[r])
      BY <2>2 DEF RemoveFile, Route, TypeOK, Copies
    <3> QED BY <1>1, <3>1, WithoutFileFields
            DEF Changed, Read, FilesAfter, IssuesAfter, TypeOK, TestCase
  <2>3. ASSUME NEW i \in Issues, Track(r, i), pc'[r] = "update"
        PROVE  Changed(r)'
    <3>1. /\ op'[r] \in {"create", "link"} /\ arg'[r] = i
          /\ doc[r] \in TestCase /\ Read(doc[r])
          /\ doc'[r] = WithIssue(doc[r], i)
      BY <2>3 DEF Track, Route, TypeOK, Copies
    <3>2. /\ doc'[r].version = doc[r].version /\ doc'[r].locked
          /\ doc'[r].attachments = doc[r].attachments
          /\ doc'[r].located = doc[r].located
          /\ doc'[r].issues = doc[r].issues \cup {i}
      BY <3>1, WithIssueFields
    <3> QED BY <1>1, <3>1, <3>2
            DEF Changed, Read, FilesAfter, IssuesAfter, TypeOK, TestCase
  <2>4. CASE Enter(r) \/ Check(r)
    <3>1. /\ UNCHANGED <<doc, op, arg>> /\ pc[r] \in {"update", "check"}
      BY <2>4 DEF Enter, Check
    <3>2. Changed(r)
      BY <3>1 DEF Copies
    <3> QED BY <1>1, <3>1, <3>2 DEF Changed, FilesAfter, IssuesAfter
  <2>5. CASE TrackerFails(r) \/ Deny(r) \/ Stale(r) \/ ServerDies(r)
    BY <2>5 DEF TrackerFails, Deny, Stale, GiveUp, ServerDies, TypeOK
  <2>6. RemoveFile(r) \/ (\E i \in Issues : Track(r, i)) => pc'[r] \in {"idle", "update"}
    BY DEF RemoveFile, Track, TypeOK
  <2> QED BY <1>3, <2>1, <2>2, <2>3, <2>4, <2>5, <2>6
<1> QED BY <1>1, <1>2, <1>3, <1>4, CopiesStay

(* What a save stores: the change that is due, made to what was stored. *)
LEMMA Stores ==
    ASSUME TypeOK, Route, Copies, Writing, NEW r \in Clients, Write(r)
    PROVE  /\ testcase'.version = testcase.version + 1
           /\ testcase'.attachments = FilesAfter(r, testcase.attachments)
           /\ testcase'.issues = IssuesAfter(r, testcase.issues)
           /\ testcase'.located \subseteq FilesAfter(r, testcase.located)
           /\ testcase'.locked = doc[r].locked
           /\ testcase.locked => testcase'.locked \/ op[r] = "unlock"
<1>1. /\ testcase' = [doc[r] EXCEPT !.version = testcase.version + 1]
      /\ doc[r] \in TestCase /\ pc[r] = "write"
  BY DEF Write, Renewed, Route
<1>2. doc[r].version = testcase.version /\ Changed(r)
  BY <1>1 DEF Writing, Copies
<1>3. /\ testcase'.version = testcase.version + 1
      /\ testcase'.attachments = doc[r].attachments
      /\ testcase'.issues = doc[r].issues
      /\ testcase'.located = doc[r].located
      /\ testcase'.locked = doc[r].locked
  BY <1>1 DEF TestCase
<1> QED BY <1>2, <1>3 DEF Changed

(* After a save every copy, but for what was saved, is older. *)
LEMMA CopiesWrite ==
    ASSUME TypeOK, Route, Copies, Writing, NEW r \in Clients, Write(r)
    PROVE  Copies'
<1>1. testcase'.version = testcase.version + 1 /\ testcase.version \in Nat
  BY Stores DEF TypeOK, TestCase
<1>2. /\ pc' = [pc EXCEPT ![r] = "idle"] /\ doc' = [doc EXCEPT ![r] = NoCase]
      /\ UNCHANGED page
  BY DEF Write
<1>3. ASSUME NEW t \in TestCase, t.version <= testcase.version
      PROVE  t.version <= testcase'.version /\ t.version # testcase'.version
  BY <1>1, <1>3 DEF TestCase
<1>4. \A q \in Clients : page[q] # NoCase => Read(page[q])'
  BY <1>2, <1>3 DEF Copies, Read, TypeOK
<1>5. ASSUME NEW q \in Clients, pc'[q] # "idle"
      PROVE  pc[q] = pc'[q] /\ doc[q] = doc'[q] /\ q # r
  BY <1>2, <1>5 DEF TypeOK
<1>6. \A q \in Clients : pc'[q] \in {"remove", "track"} => Read(doc[q])'
  BY <1>3, <1>5 DEF Copies, Read, Route
<1>7. \A q \in Clients : pc'[q] \in {"update", "check", "write"} => Changed(q)'
  BY <1>3, <1>5 DEF Copies, Changed, Route
<1> QED BY <1>2, <1>4, <1>6, <1>7 DEF Copies

LEMMA CopiesStep == TypeOK /\ Route /\ Copies /\ Writing /\ [Next]_vars => Copies'
<1> SUFFICES ASSUME TypeOK, Route, Copies, Writing, [Next]_vars PROVE Copies'
  OBVIOUS
<1>1. CASE UNCHANGED vars
  BY <1>1 DEF vars, Copies, Read, Changed, FilesAfter, IssuesAfter
<1> QED BY <1>1, CopiesCall, CopiesServe, CopiesWrite DEF Next, Serve

-----------------------------------------------------------------------------
(* Saves and their events *)

LEMMA WritingStep ==
    TypeOK /\ Route /\ Holding /\ Copies /\ Writing /\ ChangesAudited /\ [Next]_vars
        => Writing' /\ ChangesAudited'
<1> SUFFICES ASSUME TypeOK, Route, Holding, Copies, Writing, ChangesAudited, [Next]_vars
             PROVE  Writing' /\ ChangesAudited'
  OBVIOUS
<1> USE DEF Writing, ChangesAudited
<1>1. ASSUME NEW r \in Clients, Call(r) \/ Serve(r) \/ ServerDies(r),
             UNCHANGED <<testcase, events>>, pc'[r] # "write"
      PROVE  Writing' /\ ChangesAudited'
  BY <1>1, OnlyMine
<1>2. ASSUME NEW r \in Clients, Call(r)
      PROVE  Writing' /\ ChangesAudited'
  BY <1>1, <1>2, CallStep
<1>3. ASSUME NEW r \in Clients, Check(r)
      PROVE  Writing' /\ ChangesAudited'
  <2>1. /\ events' = events + 1 /\ UNCHANGED <<testcase, doc>>
        /\ pc' = [pc EXCEPT ![r] = "write"] /\ pc[r] = "check"
        /\ testcase.version <= doc[r].version
    BY <1>3 DEF Check, Recorded, UpToDate
  <2>2. doc[r].version = testcase.version
    <3>1. doc[r].version <= testcase.version /\ doc[r] \in TestCase
      BY <2>1 DEF Copies, Changed, Route
    <3> QED BY <2>1, <3>1 DEF TypeOK, TestCase
  <2> QED BY <2>1, <2>2 DEF TypeOK, TestCase
<1>4. ASSUME NEW r \in Clients, Write(r)
      PROVE  Writing' /\ ChangesAudited'
  <2>1. /\ pc[r] = "write" /\ pc' = [pc EXCEPT ![r] = "idle"] /\ UNCHANGED events
    BY <1>4 DEF Write
  <2>2. testcase'.version = testcase.version + 1 /\ testcase.version \in Nat
    BY <1>4, Stores DEF TypeOK, TestCase
  <2>3. \A q \in Clients : pc'[q] # "write"
    BY <2>1 DEF Holding, TypeOK
  <2> QED BY <2>1, <2>2, <2>3 DEF TypeOK
<1>5. ASSUME NEW r \in Clients,
             \/ Find(r) \/ RemoveFile(r) \/ \E i \in Issues : Track(r, i)
             \/ TrackerFails(r) \/ Deny(r) \/ Enter(r) \/ Stale(r) \/ ServerDies(r)
      PROVE  Writing' /\ ChangesAudited'
  <2>1. UNCHANGED <<testcase, events>> /\ pc'[r] # "write"
    BY <1>5 DEF Find, RemoveFile, Track, TrackerFails, Deny, Enter, Stale, GiveUp,
                ServerDies, stored, TypeOK
  <2> QED BY <1>1, <1>5, <2>1 DEF Serve
<1>6. CASE UNCHANGED vars
  BY <1>6 DEF vars
<1> QED BY <1>2, <1>3, <1>4, <1>5, <1>6 DEF Next, Serve

(* Each save makes the change of its call and no other. *)
LEMMA EffectStep ==
    TypeOK /\ Route /\ Copies /\ Writing /\ CallsTakeEffect /\ [Next]_vars
        => CallsTakeEffect'
<1> SUFFICES ASSUME TypeOK, Route, Copies, Writing, CallsTakeEffect, [Next]_vars
             PROVE  CallsTakeEffect'
  OBVIOUS
<1> USE DEF CallsTakeEffect
<1>1. ASSUME NEW r \in Clients, Write(r)
      PROVE  CallsTakeEffect'
  <2>1. due' = Due(r) /\ op[r] \in Ops
    BY <1>1 DEF Write, TypeOK
  <2>2. /\ due'.attachments = FilesAfter(r, due.attachments)
        /\ due'.issues = IssuesAfter(r, due.issues)
    BY <2>1 DEF Due, FilesAfter, IssuesAfter, TypeOK, Ops
  <2> QED BY <1>1, <2>2, Stores
<1>2. ASSUME NEW r \in Clients, ~Write(r), Call(r) \/ Serve(r) \/ ServerDies(r)
      PROVE  UNCHANGED <<testcase, due>>
  BY <1>2, CallStep DEF Serve, Find, RemoveFile, Track, TrackerFails, Deny, Enter,
     Check, Stale, GiveUp, ServerDies, stored
<1> QED BY <1>1, <1>2 DEF Next, vars

-----------------------------------------------------------------------------
(* Files *)

(* A step of r that touches no file, and after which r is uploading or      *)
(* deleting only if it was before.                                          *)
LEMMA UploadsStay ==
    ASSUME TypeOK, Uploads, NEW r \in Clients, Call(r) \/ Serve(r) \/ ServerDies(r),
           UNCHANGED <<testcase, files, made>>,
           Uploading(r)' => Uploading(r) /\ arg'[r] = arg[r],
           Deleting(r)' => Deleting(r) /\ arg'[r] = arg[r] /\ pc[r] # "remove"
    PROVE  Uploads'
<1> USE DEF Uploads
<1>1. ASSUME NEW q \in Clients
      PROVE  /\ Uploading(q)' => Uploading(q) /\ arg'[q] = arg[q]
             /\ Deleting(q)' => Deleting(q) /\ arg'[q] = arg[q]
             /\ Deleting(q)' /\ pc'[q] # "remove" => pc[q] # "remove"
  BY OnlyMine DEF Uploading, Deleting
<1>2. (files \cup testcase.attachments \subseteq made)'
  OBVIOUS
<1>3. \A q \in Clients : (Uploading(q) \/ Deleting(q))' => arg'[q] \in made'
  BY <1>1
<1>4. \A q \in Clients : Deleting(q)' /\ pc'[q] # "remove" => arg'[q] \notin files'
  BY <1>1
<1>5. ASSUME NEW p \in Clients, Uploading(p)'
      PROVE  /\ arg'[p] \in files' \ testcase'.attachments
             /\ \A q \in Clients \ {p} : (Uploading(q) \/ Deleting(q))' => arg'[q] # arg'[p]
  BY <1>1, <1>5
<1> QED BY <1>2, <1>3, <1>4, <1>5

LEMMA UploadsCall ==
    ASSUME TypeOK, Route, Uploads, NEW r \in Clients, Call(r)
    PROVE  Uploads'
<1> USE DEF Uploads, Uploading, Deleting
<1>0. UNCHANGED testcase /\ pc[r] = "idle"
  BY CallStep
<1>1. ASSUME NEW f \in Files, UploadAttachment(r, f)
      PROVE  Uploads'
  <2>1. /\ f \notin made /\ files' = files \cup {f} /\ made' = made \cup {f}
        /\ op' = [op EXCEPT ![r] = "upload"] /\ arg' = [arg EXCEPT ![r] = f]
        /\ pc' = [pc EXCEPT ![r] = "find"]
    BY <1>1 DEF UploadAttachment, Begin
  <2> QED BY <1>0, <2>1 DEF TypeOK
<1>2. ASSUME NEW f \in Files, DeleteAttachment(r, f)
      PROVE  Uploads'
  <2>1. /\ f \in testcase.attachments /\ UNCHANGED <<files, made>>
        /\ op' = [op EXCEPT ![r] = "delete"] /\ arg' = [arg EXCEPT ![r] = f]
        /\ pc' = [pc EXCEPT ![r] = "remove"]
    BY <1>2 DEF DeleteAttachment, Begin
  <2> QED BY <1>0, <2>1 DEF TypeOK
<1>3. ASSUME ~\E f \in Files : UploadAttachment(r, f) \/ DeleteAttachment(r, f)
      PROVE  UNCHANGED <<files, made>> /\ (pc'[r] = "idle" \/ op'[r] \notin {"upload", "delete"})
  BY <1>3 DEF Call, Open, Save, LockTestCase, UnlockTestCase, Import, CreateIssue,
              LinkIssue, UnlinkIssue, Begin, outside, TypeOK
<1> HIDE DEF Uploads
<1>4. ASSUME ~\E f \in Files : UploadAttachment(r, f) \/ DeleteAttachment(r, f)
      PROVE  Uploads'
  BY <1>0, <1>3, <1>4, UploadsStay
<1> QED BY <1>1, <1>2, <1>4

LEMMA UploadsServe ==
    ASSUME TypeOK, Route, Copies, Writing, Uploads, NEW r \in Clients,
           Serve(r) \/ ServerDies(r)
    PROVE  Uploads'
<1> USE DEF Uploading, Deleting, stored, outside
<1>1. CASE RemoveFile(r)
  <2>1. /\ pc[r] = "remove" /\ op[r] = "delete"
        /\ UNCHANGED <<testcase, made, op, arg>>
    BY <1>1 DEF RemoveFile, Route
  <2>2. \/ /\ files' = files \ {arg[r]} /\ pc' = [pc EXCEPT ![r] = "update"]
        \/ /\ files' \in {files, files \ {arg[r]}} /\ pc' = [pc EXCEPT ![r] = "idle"]
    BY <1>1 DEF RemoveFile, Emptied
  <2>3. Deleting(r)
    BY <2>1
  <2> QED BY <2>1, <2>2, <2>3 DEF Uploads, TypeOK
<1>2. CASE Write(r)
  <2>1. /\ pc[r] = "write" /\ pc' = [pc EXCEPT ![r] = "idle"]
        /\ UNCHANGED <<files, made, op, arg>>
    BY <1>2 DEF Write
  <2>2. testcase'.attachments \subseteq
            testcase.attachments \cup (IF op[r] = "upload" THEN {arg[r]} ELSE {})
    BY <1>2, Stores DEF FilesAfter
  <2>3. \A q \in Clients : q # r => pc'[q] = pc[q]
    BY <2>1 DEF TypeOK
  <2>4. pc'[r] = "idle"
    BY <2>1 DEF TypeOK
  <2> QED BY <2>1, <2>2, <2>3, <2>4 DEF Uploads
<1>3. CASE \/ Find(r) \/ \E i \in Issues : Track(r, i)
           \/ TrackerFails(r) \/ Deny(r) \/ Enter(r) \/ Check(r) \/ Stale(r)
           \/ ServerDies(r)
  <2>1. /\ UNCHANGED <<testcase, files, made, op>>
        /\ op[r] \in {"upload", "delete"} => arg'[r] = arg[r]
        /\ \/ pc'[r] = "idle"
           \/ pc[r] = "find" /\ op[r] = "upload"
           \/ pc[r] = "track" /\ op[r] \in {"create", "link"}
           \/ pc[r] \in {"update", "check"} /\ pc'[r] \in {"check", "write"}
    BY <1>3 DEF Find, Track, TrackerFails, Deny, Enter, Check, Stale, GiveUp,
                ServerDies, Route, TypeOK
  <2> QED BY <2>1, UploadsStay
<1> QED BY <1>1, <1>2, <1>3 DEF Serve

LEMMA UploadsStep ==
    TypeOK /\ Route /\ Copies /\ Writing /\ Uploads /\ [Next]_vars => Uploads'
<1> SUFFICES ASSUME TypeOK, Route, Copies, Writing, Uploads, [Next]_vars PROVE Uploads'
  OBVIOUS
<1>1. CASE UNCHANGED vars
  BY <1>1 DEF vars, Uploads, Uploading, Deleting
<1> QED BY <1>1, UploadsCall, UploadsServe DEF Next

(* FilesAsListed, file by file. *)
Remembered(f) == f \in cut \/ \E r \in Clients : Uploading(r) /\ arg[r] = f
Removing(f) == f \in cut \/ \E r \in Clients : Deleting(r) /\ pc[r] # "remove" /\ arg[r] = f

Listed ==
    /\ \A f \in files : f \in testcase.attachments \/ Remembered(f)
    /\ \A f \in testcase.located : f \in files \/ Removing(f)

LEMMA FileByFile == (FilesAsListed <=> Listed) /\ (FilesAsListed <=> Listed)'
BY DEF FilesAsListed, NoFileForgotten, NoAttachmentEmpty, UnderWay, Listed,
       Remembered, Removing, Uploading, Deleting

(* A step of r that stores nothing and touches no file. *)
LEMMA ListedStays ==
    ASSUME TypeOK, Listed, NEW r \in Clients, Call(r) \/ Serve(r) \/ ServerDies(r),
           UNCHANGED <<testcase, files>>, cut \subseteq cut',
           Uploading(r) => arg[r] \in cut' \/ (Uploading(r)' /\ arg'[r] = arg[r]),
           Deleting(r) /\ pc[r] # "remove" =>
               \/ arg[r] \in cut'
               \/ Deleting(r)' /\ pc'[r] # "remove" /\ arg'[r] = arg[r]
    PROVE  Listed'
<1>1. ASSUME NEW q \in Clients, Uploading(q)
      PROVE  arg[q] \in cut' \/ (Uploading(q)' /\ arg'[q] = arg[q])
  BY <1>1, OnlyMine DEF Uploading
<1>2. ASSUME NEW q \in Clients, Deleting(q), pc[q] # "remove"
      PROVE  arg[q] \in cut' \/ (Deleting(q)' /\ pc'[q] # "remove" /\ arg'[q] = arg[q])
  BY <1>2, OnlyMine DEF Deleting
<1>3. ASSUME NEW f, Remembered(f)
      PROVE  Remembered(f)'
  BY <1>1, <1>3 DEF Remembered
<1>4. ASSUME NEW f, Removing(f)
      PROVE  Removing(f)'
  BY <1>2, <1>4 DEF Removing
<1> QED BY <1>3, <1>4 DEF Listed

LEMMA ListedCall ==
    ASSUME TypeOK, Uploads, Listed, NEW r \in Clients, Call(r)
    PROVE  Listed'
<1>0. UNCHANGED <<testcase, cut>> /\ pc[r] = "idle"
  BY CallStep
<1>1. ~Uploading(r) /\ ~Deleting(r)
  BY <1>0 DEF Uploading, Deleting
<1>2. CASE UNCHANGED files
  BY <1>0, <1>1, <1>2, ListedStays
<1>3. ASSUME NEW f \in Files, UploadAttachment(r, f)
      PROVE  Listed'
  <2>1. /\ files' = files \cup {f}
        /\ op' = [op EXCEPT ![r] = "upload"] /\ arg' = [arg EXCEPT ![r] = f]
        /\ pc' = [pc EXCEPT ![r] = "find"]
    BY <1>3 DEF UploadAttachment, Begin
  <2>2. Remembered(f)'
    BY <2>1 DEF Remembered, Uploading, TypeOK
  <2>3. ASSUME NEW g, Remembered(g)
        PROVE  Remembered(g)'
    BY <1>0, <1>1, <2>3, OnlyMine DEF Remembered, Uploading
  <2>4. ASSUME NEW g, Removing(g)
        PROVE  Removing(g)'
    BY <1>0, <1>1, <2>4, OnlyMine DEF Removing, Deleting
  <2> QED BY <1>0, <2>1, <2>2, <2>3, <2>4 DEF Listed
<1>4. UNCHANGED files \/ \E f \in Files : UploadAttachment(r, f)
  BY DEF Call, Open, Save, LockTestCase, UnlockTestCase, Import, DeleteAttachment,
     CreateIssue, LinkIssue, UnlinkIssue, outside
<1> QED BY <1>2, <1>3, <1>4

LEMMA ListedServe ==
    ASSUME TypeOK, Route, Copies, Writing, Uploads, Listed, NEW r \in Clients,
           Serve(r) \/ ServerDies(r)
    PROVE  Listed'
<1> USE DEF stored, outside
<1>1. CASE RemoveFile(r)
  <2>1. /\ pc[r] = "remove" /\ op[r] = "delete" /\ Deleting(r) /\ ~Uploading(r)
        /\ UNCHANGED <<testcase, op, arg>> /\ cut \subseteq cut'
    BY <1>1 DEF RemoveFile, Route, Deleting, Uploading
  <2>2. CASE UNCHANGED files
    BY <1>1, <2>1, <2>2, ListedStays DEF Serve
  <2>3. CASE files' = files \ {arg[r]} /\ (arg[r] \in cut' \/ pc'[r] = "update")
    <3>1. Removing(arg[r])'
      BY <2>1, <2>3 DEF Removing, Deleting
    <3>2. ASSUME NEW f, Removing(f)
          PROVE  Removing(f)'
      BY <1>1, <2>1, <3>2, OnlyMine DEF Removing, Deleting, Serve
    <3>3. ASSUME NEW f, Remembered(f)
          PROVE  Remembered(f)'
      BY <1>1, <2>1, <3>3, OnlyMine DEF Remembered, Uploading, Serve
    <3> QED BY <2>1, <2>3, <3>1, <3>2, <3>3 DEF Listed
  <2>4. UNCHANGED files \/ (files' = files \ {arg[r]} /\ (arg[r] \in cut' \/ pc'[r] = "update"))
    BY <1>1, <2>1 DEF RemoveFile, Emptied, CutOff, TypeOK
  <2> QED BY <2>2, <2>3, <2>4
<1>2. CASE Write(r)
  <2>1. /\ pc[r] = "write" /\ op[r] \in Ops /\ UNCHANGED <<files, cut>>
        /\ testcase'.attachments = FilesAfter(r, testcase.attachments)
        /\ testcase'.located \subseteq FilesAfter(r, testcase.located)
    BY <1>2, Stores DEF Write, TypeOK
  <2>2. ASSUME NEW f, Remembered(f)
        PROVE  Remembered(f)' \/ (op[r] = "upload" /\ f = arg[r])
    BY <1>2, <2>1, <2>2, OnlyMine DEF Remembered, Uploading, Serve
  <2>3. ASSUME NEW f, Removing(f)
        PROVE  Removing(f)' \/ (op[r] = "delete" /\ f = arg[r])
    BY <1>2, <2>1, <2>3, OnlyMine DEF Removing, Deleting, Serve
  <2>4. op[r] = "upload" => arg[r] \in files
    BY <2>1 DEF Uploads, Uploading
  <2>5. op[r] = "delete" => arg[r] \notin files
    BY <2>1 DEF Uploads, Deleting
  <2>6. CASE op[r] = "upload"
    BY <2>1, <2>2, <2>3, <2>4, <2>6 DEF Listed, FilesAfter
  <2>7. CASE op[r] = "delete"
    BY <2>1, <2>2, <2>3, <2>5, <2>7 DEF Listed, FilesAfter
  <2>8. CASE op[r] \notin {"upload", "delete"}
    BY <2>1, <2>2, <2>3, <2>8 DEF Listed, FilesAfter
  <2> QED BY <2>6, <2>7, <2>8
<1>3. CASE \/ Find(r) \/ \E i \in Issues : Track(r, i)
           \/ TrackerFails(r) \/ Deny(r) \/ Enter(r) \/ Check(r) \/ Stale(r)
           \/ ServerDies(r)
  <2>1. /\ UNCHANGED <<testcase, files, op>> /\ cut \subseteq cut'
        /\ op[r] \in {"upload", "delete"} => arg'[r] = arg[r]
        /\ \/ pc[r] \in {"find", "update", "check"} /\ pc'[r] \in {"update", "check", "write"}
           \/ pc[r] = "track" /\ op[r] \in {"create", "link"}
           \/ pc[r] = "remove"
           \/ CutOff(r) \subseteq cut'
    BY <1>3 DEF Find, Track, TrackerFails, Deny, Enter, Check, Stale, GiveUp,
                ServerDies, Route, TypeOK
  <2> QED BY <1>3, <2>1, ListedStays DEF Uploading, Deleting, CutOff, Serve, Route
<1> QED BY <1>1, <1>2, <1>3 DEF Serve

LEMMA FilesStep ==
    TypeOK /\ Route /\ Copies /\ Writing /\ Uploads /\ FilesAsListed /\ [Next]_vars
        => FilesAsListed'
<1> SUFFICES ASSUME TypeOK, Route, Copies, Writing, Uploads, Listed, [Next]_vars
             PROVE  Listed'
  BY FileByFile
<1>1. CASE UNCHANGED vars
  BY <1>1 DEF vars, Listed, Remembered, Removing, Uploading, Deleting
<1> QED BY <1>1, ListedCall, ListedServe DEF Next

-----------------------------------------------------------------------------
(* The invariant is kept *)

LEMMA InitInv == Init => IInv
<1> SUFFICES ASSUME Init PROVE IInv
  OBVIOUS
<1>1. TypeOK /\ Route
  BY TypeInit
<1>2. testcase.version = 1 /\ testcase.issues = {}
  BY DEF Init
<1>3. Holding /\ Copies /\ Writing
  BY DEF Init, Holding, Copies, Writing
<1>4. Uploads
  BY DEF Init, Uploads, Uploading, Deleting
<1>5. FilesAsListed
  BY FileByFile DEF Init, Listed
<1>6. CallsTakeEffect /\ ChangesAudited
  BY <1>2 DEF Init, CallsTakeEffect, ChangesAudited
<1> QED BY <1>1, <1>3, <1>4, <1>5, <1>6 DEF IInv

LEMMA NextInv == IInv /\ [Next]_vars => IInv'
BY TypeStep, HoldingStep, CopiesStep, WritingStep, UploadsStep, FilesStep,
   EffectStep DEF IInv

(* The theorems below are parts of the one invariant, or follow from it for *)
(* a step.                                                                  *)
THEOREM Invariance == Spec => []IInv
BY InitInv, NextInv, PTL DEF Spec

(* For any calls, interleaved in any way and cut off by dying servers: the  *)
(* storage keeps no file that nobody lists, and no attachment is listed     *)
(* with a place where there is no file, but for calls that are under way or *)
(* ended between the two.                                                   *)
THEOREM FilesAgree == Spec => []FilesAsListed
<1>1. IInv => FilesAsListed
  BY DEF IInv
<1> QED BY <1>1, Invariance, PTL

(* No call undoes what another has saved, though each writes the whole test *)
(* case as it was read some steps earlier.                                  *)
THEOREM NoneUndone == Spec => []CallsTakeEffect
<1>1. IInv => CallsTakeEffect
  BY DEF IInv
<1> QED BY <1>1, Invariance, PTL

(* Every saved change has its event, wherever servers die. *)
THEOREM EveryChangeAudited == Spec => []ChangesAudited
<1>1. IInv => ChangesAudited
  BY DEF IInv
<1> QED BY <1>1, Invariance, PTL

(* A locked test case is changed by an administrator, or unlocked, and by   *)
(* nothing else: what is looked at before the call waits for its lock is as *)
(* good as what is stored when the call saves.                              *)
THEOREM LockKept == Spec => LockedStays
<1> DEFINE Kept ==
      testcase.locked /\ testcase' # testcase =>
           \/ \E r \in Clients : pc[r] = "write" /\ Role[r] = "admin"
           \/ /\ ~testcase'.locked
              /\ testcase'.attachments = testcase.attachments
              /\ testcase'.issues = testcase.issues
<1>1. IInv /\ [Next]_vars => [Kept]_vars
  <2> SUFFICES ASSUME IInv, Next, testcase.locked, testcase' # testcase
               PROVE  \/ \E r \in Clients : pc[r] = "write" /\ Role[r] = "admin"
                      \/ /\ ~testcase'.locked
                         /\ testcase'.attachments = testcase.attachments
                         /\ testcase'.issues = testcase.issues
    OBVIOUS
  <2>1. PICK r \in Clients : Write(r)
    BY CallStep DEF IInv, Next, Serve, Find, RemoveFile, Track, TrackerFails, Deny,
       Enter, Check, Stale, GiveUp, ServerDies, stored
  <2>2. pc[r] = "write" /\ UserCanUpdate(r, doc[r])
    BY <2>1 DEF Write, IInv, Holding
  <2>3. CASE Role[r] # "admin"
    <3>1. ~doc[r].locked
      BY <2>2, <2>3 DEF UserCanUpdate
    <3>2. ~testcase'.locked /\ op[r] = "unlock"
      BY <2>1, <3>1, Stores DEF IInv
    <3> QED BY <2>1, <3>2, Stores DEF IInv, FilesAfter, IssuesAfter
  <2> QED BY <2>2, <2>3
<1> QED BY <1>1, Invariance, PTL DEF Spec, LockedStays
=============================================================================
