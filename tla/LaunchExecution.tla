-------------------------- MODULE LaunchExecution ---------------------------
(***************************************************************************)
(* The execution of one launch: testers report the status of its test     *)
(* cases through LaunchService.updateLaunchTestCaseStatus, which takes a   *)
(* lock of its own, reads the launch, changes one test case and calls      *)
(* BaseService.update with the whole launch under update's lock; others    *)
(* edit the launch on their page and save it whole.  Every save recounts   *)
(* the statuses and sets the times of the launch.                          *)
(***************************************************************************)
EXTENDS Integers, FiniteSets, FiniteSetsExt

CONSTANTS Clients,    \* testers, each with at most one call under way
          Cases,      \* the test cases of the launch, by uuid
          Depth,      \* test case -> groups above it in the launch's tree
          Reports,    \* the statuses that testers report
          Servers,
          ServerOf,   \* client -> the application server it talks to
          Nobody,     \* the owner of a free lock
          NoLaunch,   \* the page of a client that has not opened the launch
          MaxTime,    \* bound: clocks stop here
          MaxCalls,   \* bound: calls that reach the service
          MayCrash    \* bound: whether a server dies, once

LaunchStatus == {"RUNNABLE", "RUNNING", "FAILED", "BROKEN", "PASSED"}

ASSUME LaunchAssumption ==
    /\ IsFiniteSet(Cases)
    /\ Depth \in [Cases -> Nat]
    /\ Reports \subseteq LaunchStatus
    /\ ServerOf \in [Clients -> Servers]
    /\ Nobody \notin Clients
    /\ MaxTime \in Nat
    /\ MaxCalls \in Nat
    /\ MayCrash \in BOOLEAN

(* A stored launch.  A time of 0 has not been set. *)
Launch == [lmt : Nat,
           status : [Cases -> LaunchStatus],  \* of each LaunchTestCase:
           begun : [Cases -> Nat],            \*   startTime
           ended : [Cases -> Nat],            \*   finishTime
           took : [Cases -> Int],             \*   duration
           startTime : Nat,
           finishTime : Nat,
           duration : Int,
           launchStats : [LaunchStatus -> Nat]]

VARIABLES
    launch,      \* the launch as it is stored
    statusLock,  \* owner of the lock of updateLaunchTestCaseStatus
    updateLock,  \* owner of the lock of update
    clock,       \* wall clock of each server, in milliseconds
    pc,          \* where the call of each client is
    job,         \* what it is: a status reported for a test case, or an edit
    page,        \* the launch each client last opened
    held,        \* the launch the server works on
    answer,      \* what the client was told last
    events,      \* test case -> events recorded for its audit
    calls,       \* calls made so far (bound)
    (* history, read by the properties only *)
    reported,    \* test case -> the status in its last saved report
    results,     \* test case -> reports of a terminal status that were saved
    newest,      \* the latest modification time ever stored
    hazards      \* circumstances that the locks and the check do not cover

vars == <<launch, statusLock, updateLock, clock, pc, job, page, held, answer,
          events, calls, reported, results, newest, hazards>>
stored == <<launch, events, reported, results, newest>>

(* A tryLock has timed out; a server died; a save was not stamped later   *)
(* than the one before; an edit has been saved; a finished launch has     *)
(* been reported on again.                                                *)
Hazards == {"timeout", "crash", "clock", "edited", "reopened"}

Job == [kind : {"edit"}] \cup
       [kind : {"report"}, case : Cases, status : LaunchStatus, issue : BOOLEAN]

TypeOK ==
    /\ launch \in Launch
    /\ statusLock \in Clients \cup {Nobody}
    /\ updateLock \in Clients \cup {Nobody}
    /\ clock \in [Servers -> Nat]
    /\ pc \in [Clients -> {"idle", "queue", "read", "issue", "wait",
                           "check", "save", "unlock", "audit", "leave"}]
    /\ job \in [Clients -> Job]
    /\ page \in [Clients -> Launch \cup {NoLaunch}]
    /\ held \in [Clients -> Launch \cup {NoLaunch}]
    /\ answer \in [Clients -> {"none", "saved", "stale", "denied", "error"}]
    /\ events \in [Cases -> Nat]
    /\ calls \in Nat
    /\ reported \in [Cases -> LaunchStatus]
    /\ results \in [Cases -> Nat]
    /\ newest \in Nat
    /\ hazards \subseteq Hazards

-----------------------------------------------------------------------------
(* updateLaunchStatus: what a save makes of the launch it is given *)

IsTerminalStatus(s) == s \notin {"RUNNABLE", "RUNNING"}

Counters(status) ==
    [s \in LaunchStatus |-> Cardinality({c \in Cases : status[c] = s})]

IsLaunchFinished(l) ==
    Cardinality(Cases) =
        l.launchStats["PASSED"] + l.launchStats["FAILED"] + l.launchStats["BROKEN"]

(* The durations of the test cases at the top and one group down. *)
TotalDuration(l) ==
    MapThenSumSet(LAMBDA c : l.took[c], {c \in Cases : Depth[c] <= 1})

FinishTime_always(l, now) ==  \* slip: a new finish time with every save
    IF IsLaunchFinished(l) THEN now ELSE l.finishTime
FinishTime_unset(l, now) ==  \* slip: -1 for a launch that is not finished
    IF IsLaunchFinished(l) /\ l.finishTime = 0 THEN now
    ELSE IF IsLaunchFinished(l) THEN l.finishTime ELSE -1
FinishTime(l, now) ==
    IF IsLaunchFinished(l) /\ l.finishTime = 0 THEN now ELSE l.finishTime

StartTime(l, now) ==
    IF /\ ~IsLaunchFinished(l)
       /\ l.launchStats["RUNNABLE"] # Cardinality(Cases)
       /\ l.startTime = 0
    THEN now ELSE l.startTime

SetTimes(l, now) ==
    [l EXCEPT !.lmt = now,
              !.finishTime = FinishTime(l, now),
              !.duration = IF IsLaunchFinished(l) /\ l.finishTime = 0
                           THEN TotalDuration(l) ELSE @,
              !.startTime = StartTime(l, now)]

Recounted(l) == [l EXCEPT !.launchStats = Counters(l.status)]

UpdateLaunchStatus(l, now) == SetTimes(Recounted(l), now)

(* updateStatus: what report j makes of the launch. *)
UpdateStatus(l, j, now) ==
    LET c == j.case
        s == j.status
        begun == IF s = "RUNNING" THEN now ELSE l.begun[c]
        ended == IF s = "RUNNING" THEN l.ended[c] ELSE now
    IN  [l EXCEPT !.status[c] = s,
                  !.begun[c] = begun,
                  !.ended[c] = ended,
                  !.took[c] = IF begun # 0 /\ ended # 0 THEN ended - begun ELSE @]

(* A launch that has been created and not been worked on. *)
NewLaunch ==
    [lmt |-> 0,
     status |-> [c \in Cases |-> "RUNNABLE"],
     begun |-> [c \in Cases |-> 0],
     ended |-> [c \in Cases |-> 0],
     took |-> [c \in Cases |-> 0],
     startTime |-> 0,
     finishTime |-> 0,
     duration |-> 0,
     launchStats |-> Counters([c \in Cases |-> "RUNNABLE"])]

Init ==
    /\ launch = NewLaunch
    /\ statusLock = Nobody
    /\ updateLock = Nobody
    /\ clock = [s \in Servers |-> 1]
    /\ pc = [r \in Clients |-> "idle"]
    /\ job = [r \in Clients |-> [kind |-> "edit"]]
    /\ page = [r \in Clients |-> NoLaunch]
    /\ held = [r \in Clients |-> NoLaunch]
    /\ answer = [r \in Clients |-> "none"]
    /\ events = [c \in Cases |-> 0]
    /\ calls = 0
    /\ reported = [c \in Cases |-> "RUNNABLE"]
    /\ results = [c \in Cases |-> 0]
    /\ newest = 0
    /\ hazards = {}

-----------------------------------------------------------------------------
(* Calls *)

Now(r) == clock[ServerOf[r]]

Go(r, from, to) ==
    /\ pc[r] = from
    /\ pc' = [pc EXCEPT ![r] = to]

(* findOne, for the page of the launch. *)
Open(r) ==
    /\ pc[r] = "idle"
    /\ page' = [page EXCEPT ![r] = launch]
    /\ UNCHANGED <<stored, statusLock, updateLock, clock, pc, job, held, answer,
                   calls, hazards>>

BeginCall(r, new) ==
    /\ calls < MaxCalls
    /\ calls' = calls + 1
    /\ job' = [job EXCEPT ![r] = new]
    /\ answer' = [answer EXCEPT ![r] = "none"]

(* save of the launch as it was opened, with changes that do not concern *)
(* its test cases.                                                        *)
Edit(r) ==
    /\ page[r] # NoLaunch
    /\ Go(r, "idle", "wait")
    /\ BeginCall(r, [kind |-> "edit"])
    /\ held' = [held EXCEPT ![r] = page[r]]
    /\ UNCHANGED <<stored, statusLock, updateLock, clock, page, hazards>>

(* updateLaunchTestCaseStatus, with or without an issue to be linked. *)
Report(r, c, s, issue) ==
    /\ issue => s \in {"FAILED", "BROKEN"}
    /\ Go(r, "idle", "queue")
    /\ BeginCall(r, [kind |-> "report", case |-> c, status |-> s, issue |-> issue])
    /\ UNCHANGED <<stored, statusLock, updateLock, clock, page, held, hazards>>

MayEnter_anyone(lock) == TRUE  \* slip: a lock object per call
MayEnter(lock) == lock = Nobody

(* The first lock.  The answer of tryLock is not looked at. *)
EnterStatus(r) ==
    /\ Go(r, "queue", "read")
    /\ \/ /\ MayEnter(statusLock)
          /\ statusLock' = r
          /\ UNCHANGED hazards
       \/ /\ ~MayEnter(statusLock)
          /\ hazards' = hazards \cup {"timeout"}
          /\ UNCHANGED statusLock
    /\ UNCHANGED <<stored, updateLock, clock, job, page, held, answer, calls>>

(* findOne; without an issue to link, updateStatus follows at once. *)
ReadLaunch(r) ==
    /\ Go(r, "read", IF job[r].issue THEN "issue" ELSE "wait")
    /\ held' = [held EXCEPT ![r] = IF job[r].issue THEN launch
                                   ELSE UpdateStatus(launch, job[r], Now(r))]
    /\ UNCHANGED <<stored, statusLock, updateLock, clock, job, page, answer,
                   calls, hazards>>

(* addFailureDetails: the issue is made in the tracker and linked to the  *)
(* test case.  That may be refused, and the call ends; updateStatus comes *)
(* after it.                                                              *)
LinkIssue(r) ==
    /\ \/ /\ Go(r, "issue", "wait")
          /\ held' = [held EXCEPT ![r] = UpdateStatus(@, job[r], Now(r))]
          /\ UNCHANGED answer
       \/ /\ Go(r, "issue", "leave")
          /\ answer' = [answer EXCEPT ![r] = "denied"]
          /\ UNCHANGED held
    /\ UNCHANGED <<stored, statusLock, updateLock, clock, job, page, calls,
                   hazards>>

-----------------------------------------------------------------------------
(* update *)

EnterUpdate(r) ==
    /\ Go(r, "wait", "check")
    /\ \/ /\ MayEnter(updateLock)
          /\ updateLock' = r
          /\ UNCHANGED hazards
       \/ /\ ~MayEnter(updateLock)
          /\ hazards' = hazards \cup {"timeout"}
          /\ UNCHANGED updateLock
    /\ UNCHANGED <<stored, statusLock, clock, job, page, held, answer, calls>>

UpToDate_unchecked(l) == TRUE  \* slip: no comparison
UpToDate(l) == launch.lmt <= l.lmt

CheckVersion(r) ==
    /\ \/ /\ Go(r, "check", "save")
          /\ UpToDate(held[r])
          /\ UNCHANGED answer
       \/ /\ Go(r, "check", "unlock")
          /\ ~UpToDate(held[r])
          /\ answer' = [answer EXCEPT ![r] = "stale"]
    /\ UNCHANGED <<stored, statusLock, updateLock, clock, job, page, held, calls,
                   hazards>>

(* doSave: beforeSave stamps the launch and recounts it. *)
Save(r) ==
    /\ Go(r, "save", "unlock")
    /\ launch' = UpdateLaunchStatus(held[r], Now(r))
    /\ held' = [held EXCEPT ![r] = launch']
    /\ answer' = [answer EXCEPT ![r] = "saved"]
    /\ newest' = IF newest < Now(r) THEN Now(r) ELSE newest
    /\ hazards' = hazards
          \cup (IF Now(r) <= newest THEN {"clock"} ELSE {})
          \cup (IF job[r].kind = "edit" THEN {"edited"} ELSE {})
          \cup (IF job[r].kind = "report" /\ held[r].finishTime # 0
                THEN {"reopened"} ELSE {})
    /\ IF job[r].kind = "report"
       THEN /\ reported' = [reported EXCEPT ![job[r].case] = job[r].status]
            /\ results' = [results EXCEPT ![job[r].case] =
                              @ + IF IsTerminalStatus(job[r].status) THEN 1 ELSE 0]
       ELSE UNCHANGED <<reported, results>>
    /\ UNCHANGED <<statusLock, updateLock, clock, job, page, events, calls>>

(* Where a call goes once update has returned or thrown. *)
AfterUpdate_unaudited(r, ok) ==  \* slip: only passes are recorded
    IF job[r].kind = "edit" THEN "idle"
    ELSE IF ok /\ job[r].status = "PASSED" THEN "audit"
    ELSE "leave"
AfterUpdate_again(r, ok) ==  \* slip: what was refused is tried again
    IF ~ok THEN "wait"
    ELSE IF job[r].kind = "edit" THEN "idle"
    ELSE IF IsTerminalStatus(job[r].status) THEN "audit" ELSE "leave"
AfterUpdate(r, ok) ==
    IF job[r].kind = "edit" THEN "idle"
    ELSE IF ok /\ IsTerminalStatus(job[r].status) THEN "audit"
    ELSE "leave"

(* update's finally block; unlock throws if the lock is not held. *)
LeaveUpdate(r) ==
    LET owns == updateLock = r
        ok == owns /\ answer[r] = "saved"
    IN
    /\ Go(r, "unlock", AfterUpdate(r, ok))
    /\ updateLock' = IF owns THEN Nobody ELSE updateLock
    /\ answer' = [answer EXCEPT ![r] = IF owns THEN @ ELSE "error"]
    /\ page' = [page EXCEPT ![r] = IF ok /\ job[r].kind = "edit" THEN held[r] ELSE @]
    /\ held' = [held EXCEPT ![r] = IF pc'[r] = "idle" THEN NoLaunch ELSE @]
    /\ UNCHANGED <<stored, statusLock, clock, job, calls, hazards>>

(* The event that the audit of the test case is made of. *)
CreateEvent(r) ==
    /\ Go(r, "audit", "leave")
    /\ events' = [events EXCEPT ![job[r].case] = @ + 1]
    /\ UNCHANGED <<launch, statusLock, updateLock, clock, job, page, held, answer,
                   calls, reported, results, newest, hazards>>

LeaveStatus(r) ==
    /\ Go(r, "leave", "idle")
    /\ statusLock' = IF statusLock = r THEN Nobody ELSE statusLock
    /\ answer' = [answer EXCEPT ![r] = IF statusLock = r THEN @ ELSE "error"]
    /\ held' = [held EXCEPT ![r] = NoLaunch]
    /\ UNCHANGED <<stored, updateLock, clock, job, page, calls, hazards>>

(* The server dies with the call; Hazelcast takes its locks away. *)
ServerDies(r) ==
    /\ pc[r] # "idle"
    /\ MayCrash /\ "crash" \notin hazards
    /\ pc' = [pc EXCEPT ![r] = "idle"]
    /\ statusLock' = IF statusLock = r THEN Nobody ELSE statusLock
    /\ updateLock' = IF updateLock = r THEN Nobody ELSE updateLock
    /\ answer' = [answer EXCEPT ![r] = "error"]
    /\ held' = [held EXCEPT ![r] = NoLaunch]
    /\ hazards' = hazards \cup {"crash"}
    /\ UNCHANGED <<stored, clock, job, page, calls>>

Tick(s) ==
    /\ clock[s] < MaxTime
    /\ clock' = [clock EXCEPT ![s] = @ + 1]
    /\ UNCHANGED <<stored, statusLock, updateLock, pc, job, page, held, answer,
                   calls, hazards>>

Call(r) ==
    \/ Open(r)
    \/ Edit(r)
    \/ \E c \in Cases, s \in Reports, issue \in BOOLEAN : Report(r, c, s, issue)

Serve(r) ==
    \/ EnterStatus(r)
    \/ ReadLaunch(r)
    \/ LinkIssue(r)
    \/ EnterUpdate(r)
    \/ CheckVersion(r)
    \/ Save(r)
    \/ LeaveUpdate(r)
    \/ CreateEvent(r)
    \/ LeaveStatus(r)

Next ==
    \/ \E r \in Clients : Call(r) \/ Serve(r) \/ ServerDies(r)
    \/ \E s \in Servers : Tick(s)

Spec == Init /\ [][Next]_vars

FairSpec == Spec /\ \A r \in Clients : WF_vars(Serve(r))

-----------------------------------------------------------------------------
(* Properties *)

(* The stored status of every test case is the one in the last report that *)
(* was saved: neither a concurrent report on another test case nor the     *)
(* save of an old page puts an older one back, unless a tryLock has timed  *)
(* out or two saves bear the same time.                                    *)
ResultsStay ==
    hazards \cap {"timeout", "clock"} = {} => launch.status = reported

(* The lock of updateLaunchTestCaseStatus keeps reports out of each other's *)
(* way: one is refused as stale only if an edit of the launch came between. *)
ReportsDoNotCollide ==
    hazards \cap {"timeout", "edited"} = {} =>
        \A r \in Clients : job[r].kind = "report" => answer[r] # "stale"

(* The start and the finish of the launch are set once: neither a repeated *)
(* report nor the save of an old page changes them.                        *)
TimesStay ==
    [][ \/ /\ launch.finishTime # 0 => launch'.finishTime = launch.finishTime
           /\ launch.startTime # 0 => launch'.startTime = launch.startTime
        \/ hazards' \cap {"timeout", "clock"} # {} ]_vars

(* The audit of a test case has one event for every result that was saved, *)
(* once the call is over, unless a server died in between.                 *)
AuditComplete ==
    hazards \cap {"timeout", "crash"} = {} =>
        \A c \in Cases :
            results[c] = events[c] + Cardinality({r \in Clients :
                /\ pc[r] \in {"unlock", "audit"}
                /\ answer[r] = "saved"
                /\ job[r].kind = "report" /\ job[r].case = c
                /\ IsTerminalStatus(job[r].status)})

(* "Calculate TCs execution time duration": the time a test case took is  *)
(* never negative on one clock.  A test case run again is given the time  *)
(* from its new start back to its old finish.                             *)
DurationsElapse ==
    "clock" \notin hazards => \A c \in Cases : launch.took[c] >= 0

(* "update the total duration here": the duration of a launch, when it is *)
(* first finished, is that of all its test cases.  Test cases more than   *)
(* one group down in the tree are left out.                               *)
DurationIsTotal ==
    hazards = {} /\ launch.finishTime # 0 =>
        launch.duration = MapThenSumSet(LAMBDA c : launch.took[c], Cases)

(* Every call is answered, with two locks to be waited for and given back. *)
EveryCallAnswered ==
    \A r \in Clients : pc[r] # "idle" ~> pc[r] = "idle"
=============================================================================
