------------------------ MODULE LaunchExecutionProofs ------------------------
(***************************************************************************)
(* Theorems about LaunchExecution, for any testers, test cases, servers    *)
(* and clocks, and any number of calls.                                    *)
(***************************************************************************)
EXTENDS LaunchExecution, FiniteSetTheorems, WellFoundedInduction, TLAPS

USE LaunchAssumption

-----------------------------------------------------------------------------
(* The invariant *)

Calm == hazards \cap {"timeout", "clock"} = {}
Working == {"issue", "wait", "check", "save", "unlock"}
Reporting(r) == job[r].kind = "report"

(* A call is where its kind of call comes to. *)
Route ==
    \A r \in Clients :
        /\ pc[r] \in {"queue", "read", "issue", "audit", "leave"} => Reporting(r)
        /\ pc[r] \in Working => held[r] \in Launch
        /\ pc[r] = "audit" => answer[r] = "saved" /\ IsTerminalStatus(job[r].status)

(* The two locks, unless a tryLock has timed out. *)
Holding ==
    "timeout" \notin hazards =>
        \A r \in Clients :
            /\ pc[r] \in {"check", "save", "unlock"} => updateLock = r
            /\ Reporting(r) /\ pc[r] \notin {"idle", "queue"} => statusLock = r

(* What is stored bears the latest time, unless a save was not stamped later. *)
Stamped == "clock" \notin hazards => launch.lmt = newest

(* l is no later than what is stored and, if it is of the same time, has   *)
(* these statuses and the stored times.                                    *)
Follows(l, status) ==
    /\ l.lmt <= launch.lmt
    /\ l.lmt = launch.lmt =>
          /\ l.status = status
          /\ l.startTime = launch.startTime
          /\ l.finishTime = launch.finishTime
Known(l) == Follows(l, launch.status)
WithReport(r) == [launch.status EXCEPT ![job[r].case] = job[r].status]

(* What is on the page of r, and what the server holds for it. *)
CopiesOf(r) ==
    /\ page[r] # NoLaunch => Known(page[r])
    /\ ~Reporting(r) /\ pc[r] \in Working => Known(held[r])
    /\ Reporting(r) =>
          /\ pc[r] = "issue" => Known(held[r])
          /\ pc[r] \in {"wait", "check", "save"} => Follows(held[r], WithReport(r))
    /\ pc[r] = "save" => launch.lmt <= held[r].lmt
Copies == Calm => \A r \in Clients : CopiesOf(r)

(* With no edit between, a report works on what is stored. *)
Fresh ==
    hazards \cap {"timeout", "edited"} = {} =>
        \A r \in Clients :
            Reporting(r) /\ pc[r] \in {"issue", "wait", "check", "save"} =>
                held[r].lmt = launch.lmt

(* r has saved a result of c that has no event yet. *)
IsPending(r, c) ==
    /\ pc[r] \in {"unlock", "audit"}
    /\ answer[r] = "saved"
    /\ job[r].kind = "report" /\ job[r].case = c
    /\ IsTerminalStatus(job[r].status)
Pending(c) == {r \in Clients : IsPending(r, c)}

Finite == \A c \in Cases : IsFiniteSet(Pending(c))

IInv ==
    /\ TypeOK
    /\ Route
    /\ Holding
    /\ Stamped
    /\ Copies
    /\ ResultsStay
    /\ Fresh
    /\ ReportsDoNotCollide
    /\ Finite
    /\ AuditComplete

-----------------------------------------------------------------------------
(* Sums over finite sets.  MapThenSumSet is defined by recursion over the   *)
(* subsets of the set, so a sum is followed by the least number of elements *)
(* for which a claim about it would fail.                                   *)

(* A set of naturals that is not empty has a least element. *)
LEMMA Least ==
    ASSUME NEW T \in SUBSET Nat, T # {}
    PROVE  \E n \in T : \A m \in T : n <= m
<1> DEFINE R == {ss \in Nat \X Nat : ss[1] < ss[2]}
<1>1. IsWellFoundedOn(R, Nat)
  BY NatLessThanWellFounded DEF OpToRel
<1>2. \A m, n \in Nat : m < n => <<m, n>> \in R
  OBVIOUS
<1> HIDE DEF R
<1>3. PICK n \in T : \A m \in T : <<m, n>> \notin R
  BY <1>1, WFMin
<1>4. ASSUME NEW m \in T PROVE n <= m
  <2>1. ~(m < n)
    BY <1>2, <1>3
  <2> QED BY <2>1
<1> QED BY <1>4

(* How MapThenSumSet is defined: g gives the sum of f over each subset of S. *)
SomeOf(s) == CHOOSE x \in s : TRUE
IsSum(g, f, S) ==
    g = [s \in SUBSET S |-> IF s = {} THEN 0 ELSE f[SomeOf(s)] + g[s \ {SomeOf(s)}]]

(* There is such a function. *)
LEMMA SumExists ==
    ASSUME NEW S, IsFiniteSet(S), NEW f, \A x \in S : f[x] \in Int
    PROVE  \E g : IsSum(g, f, S)
<1> DEFINE Sums(g, n) == \A s \in SUBSET S : Cardinality(s) <= n =>
                            g[s] = IF s = {} THEN 0 ELSE f[SomeOf(s)] + g[s \ {SomeOf(s)}]
           Bad == {n \in Nat : ~ \E g \in [SUBSET S -> Int] : Sums(g, n)}
<1>1. \A s \in SUBSET S : s # {} => SomeOf(s) \in s
  BY DEF SomeOf
<1>2. \A s \in SUBSET S : s # {} =>
         /\ Cardinality(s) \in Nat /\ Cardinality(s) # 0
         /\ Cardinality(s \ {SomeOf(s)}) = Cardinality(s) - 1
  BY <1>1, FS_Subset, FS_CardinalityType, FS_EmptySet, FS_RemoveElement
<1>3. 0 \notin Bad
  <2> DEFINE z == [s \in SUBSET S |-> 0]
  <2>1. z \in [SUBSET S -> Int]
    OBVIOUS
  <2>2. z[{}] = 0
    OBVIOUS
  <2> HIDE DEF z
  <2>3. ASSUME NEW s \in SUBSET S, Cardinality(s) <= 0 PROVE s = {}
    <3> SUFFICES ASSUME s # {} PROVE FALSE
      OBVIOUS
    <3>1. Cardinality(s) \in Nat /\ Cardinality(s) # 0
      BY <1>2
    <3>2. \A k \in Nat : k # 0 => ~(k <= 0)
      OBVIOUS
    <3> QED BY <2>3, <3>1, <3>2
  <2>4. Sums(z, 0)
    BY <2>2, <2>3
  <2> QED BY <2>1, <2>4
<1>4. ASSUME NEW n \in Nat, n \notin Bad
      PROVE  n + 1 \notin Bad
  <2>1. PICK g \in [SUBSET S -> Int] : Sums(g, n)
    BY <1>4
  <2> DEFINE h == [s \in SUBSET S |-> IF s = {} THEN 0 ELSE f[SomeOf(s)] + g[s \ {SomeOf(s)}]]
  <2>2. h \in [SUBSET S -> Int]
    BY <1>1
  <2>3. ASSUME NEW s \in SUBSET S, s # {}, Cardinality(s) <= n + 1
        PROVE  h[s] = f[SomeOf(s)] + h[s \ {SomeOf(s)}]
    <3> DEFINE r == s \ {SomeOf(s)}
    <3>1. r \in SUBSET S /\ Cardinality(r) <= n
      BY <1>2, <2>3
    <3>2. g[r] = h[r]
      BY <2>1, <3>1
    <3> QED BY <2>3, <3>2
  <2>4. Sums(h, n + 1)
    BY <2>3
  <2> QED BY <2>2, <2>4
<1> HIDE DEF Bad, Sums
<1>5. Bad = {}
  <2> SUFFICES ASSUME Bad # {} PROVE FALSE
    OBVIOUS
  <2>1. PICK n \in Bad : \A m \in Bad : n <= m
    BY Least DEF Bad
  <2>2. n \in Nat /\ n # 0
    BY <1>3 DEF Bad
  <2> QED BY <1>4, <2>1, <2>2
<1>6. PICK g \in [SUBSET S -> Int] : Sums(g, Cardinality(S))
  BY <1>5, FS_CardinalityType DEF Bad
<1>7. \A s \in SUBSET S : g[s] = IF s = {} THEN 0 ELSE f[SomeOf(s)] + g[s \ {SomeOf(s)}]
  BY <1>6, FS_Subset DEF Sums
<1>8. g = [s \in SUBSET S |-> IF s = {} THEN 0 ELSE f[SomeOf(s)] + g[s \ {SomeOf(s)}]]
  BY <1>7
<1> QED BY <1>8 DEF IsSum

SumOf(f, S) == MapThenSumSet(LAMBDA c : f[c], S)

(* A finite sum of integers is an integer. *)
LEMMA SumInt ==
    ASSUME NEW S, IsFiniteSet(S), NEW f, \A x \in S : f[x] \in Int
    PROVE  SumOf(f, S) \in Int
<1>1. SumOf(f, S) = (CHOOSE g : IsSum(g, f, S))[S]
  BY DEF SumOf, MapThenSumSet, MapThenFoldSet, IsSum, SomeOf
<1>2. PICK h : h = (CHOOSE g : IsSum(g, f, S))
  OBVIOUS
<1>3. IsSum(h, f, S)
  BY <1>2, SumExists
<1>4. ASSUME NEW n \in Nat, \A s \in SUBSET S : Cardinality(s) < n => h[s] \in Int
      PROVE \A s \in SUBSET S : Cardinality(s) < n + 1 => h[s] \in Int
  <2> SUFFICES ASSUME NEW s \in SUBSET S, Cardinality(s) < n + 1
               PROVE h[s] \in Int
    OBVIOUS
  <2>1. CASE s = {}
    BY <1>3, <2>1 DEF IsSum
  <2>2. CASE s # {}
    <3>1. PICK x \in s : x = SomeOf(s)
      BY <2>2 DEF SomeOf
    <3>2. h[s] = f[x] + h[s \ {x}]
      BY <1>3, <2>2, <3>1 DEF IsSum
    <3>3. IsFiniteSet(s) /\ Cardinality(s) \in Nat
      BY FS_Subset, FS_CardinalityType
    <3>4. Cardinality(s \ {x}) = Cardinality(s) - 1
      BY <3>1, <3>3, FS_RemoveElement
    <3>5. s \ {x} \in SUBSET S /\ Cardinality(s \ {x}) < n
      BY <3>3, <3>4
    <3> QED BY <1>4, <3>2, <3>5
  <2> QED BY <2>1, <2>2
<1> DEFINE Bad == {n \in Nat : ~ \A s \in SUBSET S : Cardinality(s) < n => h[s] \in Int}
<1>5. 0 \notin Bad
  BY FS_Subset, FS_CardinalityType
<1>6. Bad = {}
  <2> SUFFICES ASSUME Bad # {} PROVE FALSE
    OBVIOUS
  <2>1. PICK n \in Bad : \A m \in Bad : n <= m
    BY Least
  <2>2. n \in Nat /\ n # 0 /\ n - 1 \in Nat /\ n - 1 \notin Bad
    BY <1>5, <2>1
  <2>3. \A s \in SUBSET S : Cardinality(s) < n - 1 => h[s] \in Int
    BY <2>2
  <2>4. \A s \in SUBSET S : Cardinality(s) < (n - 1) + 1 => h[s] \in Int
    BY <1>4, <2>2, <2>3
  <2> QED BY <2>1, <2>2, <2>4
<1>7. Cardinality(S) + 1 \in Nat
  BY FS_CardinalityType
<1>8. h[S] \in Int
  <2>1. \A s \in SUBSET S : Cardinality(s) < Cardinality(S) + 1 => h[s] \in Int
    BY <1>6, <1>7
  <2>2. Cardinality(S) < Cardinality(S) + 1
    BY FS_CardinalityType
  <2> QED BY <2>1, <2>2
<1> QED BY <1>1, <1>2, <1>8

-----------------------------------------------------------------------------
(* What the calls make of a launch *)

LEMMA CountersType ==
    ASSUME NEW status \in [Cases -> LaunchStatus]
    PROVE  Counters(status) \in [LaunchStatus -> Nat]
<1>1. ASSUME NEW s \in LaunchStatus
      PROVE  Cardinality({c \in Cases : status[c] = s}) \in Nat
  BY FS_Subset, FS_CardinalityType
<1> QED BY <1>1 DEF Counters

LEMMA DurationType ==
    ASSUME NEW l \in Launch
    PROVE  TotalDuration(l) \in Int
<1> DEFINE top == {c \in Cases : Depth[c] <= 1}
<1>1. IsFiniteSet(top)
  BY FS_Subset
<1>2. PICK took \in [Cases -> Int] : took = l.took
  BY DEF Launch
<1>3. SumOf(took, top) \in Int
  BY <1>1, SumInt
<1> QED BY <1>2, <1>3 DEF TotalDuration, SumOf

(* A launch that is saved keeps its statuses, and the times that are set.   *)
LEMMA SavedLaunch ==
    ASSUME NEW l \in Launch, NEW now \in Nat
    PROVE  LET s == UpdateLaunchStatus(l, now) IN
           /\ s \in Launch
           /\ s.lmt = now
           /\ s.status = l.status
           /\ l.startTime # 0 => s.startTime = l.startTime
           /\ l.finishTime # 0 => s.finishTime = l.finishTime
<1>1. PICK r \in Launch : /\ r = Recounted(l)
                          /\ r.status = l.status
                          /\ r.startTime = l.startTime
                          /\ r.finishTime = l.finishTime
  <2>1. Counters(l.status) \in [LaunchStatus -> Nat]
    BY CountersType DEF Launch
  <2> DEFINE r == [l EXCEPT !.launchStats = Counters(l.status)]
  <2>2. r \in Launch
    BY <2>1 DEF Launch
  <2>3. r.status = l.status /\ r.startTime = l.startTime /\ r.finishTime = l.finishTime
    BY DEF Launch
  <2> HIDE DEF r
  <2>4. r = Recounted(l)
    BY DEF r, Recounted
  <2> QED BY <2>2, <2>3, <2>4
<1>2. /\ FinishTime(r, now) \in Nat
      /\ r.finishTime # 0 => FinishTime(r, now) = r.finishTime
  BY DEF FinishTime, Launch
<1>3. /\ StartTime(r, now) \in Nat
      /\ r.startTime # 0 => StartTime(r, now) = r.startTime
  BY DEF StartTime, Launch
<1>4. (IF IsLaunchFinished(r) /\ r.finishTime = 0 THEN TotalDuration(r) ELSE r.duration) \in Int
  BY DurationType DEF Launch
<1>5. SetTimes(r, now) = [r EXCEPT !.lmt = now, !.finishTime = FinishTime(r, now),
          !.duration = IF IsLaunchFinished(r) /\ r.finishTime = 0
                       THEN TotalDuration(r) ELSE @,
          !.startTime = StartTime(r, now)]
  BY DEF SetTimes
<1>6. /\ SetTimes(r, now) \in Launch
      /\ SetTimes(r, now).lmt = now
      /\ SetTimes(r, now).status = r.status
      /\ SetTimes(r, now).startTime = StartTime(r, now)
      /\ SetTimes(r, now).finishTime = FinishTime(r, now)
  BY <1>2, <1>3, <1>4, <1>5 DEF Launch
<1> QED BY <1>1, <1>2, <1>3, <1>6 DEF UpdateLaunchStatus

(* A report changes the status of its test case, and times that are not the *)
(* launch's.                                                                *)
LEMMA ReportedLaunch ==
    ASSUME NEW l \in Launch, NEW j \in Job, j.kind = "report", NEW now \in Nat
    PROVE  LET u == UpdateStatus(l, j, now) IN
           /\ u \in Launch
           /\ u.lmt = l.lmt
           /\ u.status = [l.status EXCEPT ![j.case] = j.status]
           /\ u.startTime = l.startTime
           /\ u.finishTime = l.finishTime
<1>1. PICK c \in Cases, s \in LaunchStatus : c = j.case /\ s = j.status
  BY DEF Job
<1>2. PICK begun \in Nat : begun = IF s = "RUNNING" THEN now ELSE l.begun[c]
  BY DEF Launch
<1>3. PICK ended \in Nat : ended = IF s = "RUNNING" THEN l.ended[c] ELSE now
  BY DEF Launch
<1>4. UpdateStatus(l, j, now) =
        [l EXCEPT !.status[c] = s, !.begun[c] = begun, !.ended[c] = ended,
            !.took[c] = IF begun # 0 /\ ended # 0 THEN ended - begun ELSE @]
  BY <1>1, <1>2, <1>3 DEF UpdateStatus
<1>5. (IF begun # 0 /\ ended # 0 THEN ended - begun ELSE l.took[c]) \in Int
  BY DEF Launch
<1> DEFINE u == [l EXCEPT !.status[c] = s, !.begun[c] = begun, !.ended[c] = ended,
            !.took[c] = IF begun # 0 /\ ended # 0 THEN ended - begun ELSE @]
<1>6. u \in Launch
  BY <1>5 DEF Launch
<1>7. /\ u.lmt = l.lmt /\ u.startTime = l.startTime /\ u.finishTime = l.finishTime
      /\ u.status = [l.status EXCEPT ![c] = s]
  BY DEF Launch
<1> HIDE DEF u
<1>8. u = UpdateStatus(l, j, now)
  BY <1>4 DEF u
<1> QED BY <1>1, <1>6, <1>7, <1>8

-----------------------------------------------------------------------------
(* Types and routes *)

LEMMA TypeInit == Init => TypeOK /\ Route
<1> SUFFICES ASSUME Init PROVE TypeOK /\ Route
  OBVIOUS
<1>1. Counters([c \in Cases |-> "RUNNABLE"]) \in [LaunchStatus -> Nat]
  BY CountersType DEF LaunchStatus
<1>2. NewLaunch \in Launch
  BY <1>1 DEF NewLaunch, Launch, LaunchStatus
<1>3. [kind |-> "edit"] \in Job
  BY DEF Job
<1>4. TypeOK
  BY <1>2, <1>3 DEF Init, TypeOK, LaunchStatus
<1> QED BY <1>4 DEF Init, Route, Working

LEMMA TypeStep == TypeOK /\ Route /\ [Next]_vars => TypeOK' /\ Route'
<1> SUFFICES ASSUME TypeOK, Route, [Next]_vars PROVE TypeOK' /\ Route'
  OBVIOUS
<1> USE DEF TypeOK, Go, stored
<1>0. \A r \in Clients : Now(r) \in Nat
  BY DEF Now
<1>1. CASE UNCHANGED vars
  BY <1>1 DEF vars, Route, Reporting
<1>2. ASSUME NEW r \in Clients, Open(r) PROVE TypeOK' /\ Route'
  BY <1>2 DEF Open, Route, Reporting, Working
<1>3. ASSUME NEW r \in Clients, Edit(r) PROVE TypeOK' /\ Route'
  <2>1. [kind |-> "edit"] \in Job
    BY DEF Job
  <2>2. TypeOK'
    BY <1>3, <2>1 DEF Edit, BeginCall
  <2> QED BY <1>3, <2>2 DEF Edit, BeginCall, Route, Reporting, Working
<1>4. ASSUME NEW r \in Clients, NEW c \in Cases, NEW s \in Reports, NEW issue \in BOOLEAN,
             Report(r, c, s, issue)
      PROVE  TypeOK' /\ Route'
  <2> DEFINE j == [kind |-> "report", case |-> c, status |-> s, issue |-> issue]
  <2>1. j \in Job /\ j.kind = "report"
    <3>1. s \in LaunchStatus
      OBVIOUS
    <3>2. j \in [kind : {"report"}, case : Cases, status : LaunchStatus, issue : BOOLEAN]
      BY <3>1
    <3> QED BY <3>2 DEF Job
  <2>2. TypeOK'
    BY <1>4, <2>1 DEF Report, BeginCall
  <2> QED BY <1>4, <2>1, <2>2 DEF Report, BeginCall, Route, Reporting, Working
<1>5. ASSUME NEW r \in Clients, EnterStatus(r) PROVE TypeOK' /\ Route'
  <2>1. TypeOK'
    BY <1>5 DEF EnterStatus, Hazards
  <2> QED BY <1>5, <2>1 DEF EnterStatus, Route, Reporting, Working
<1>6. ASSUME NEW r \in Clients, ReadLaunch(r) PROVE TypeOK' /\ Route'
  <2>1. Reporting(r)
    BY <1>6 DEF ReadLaunch, Route
  <2>2. UpdateStatus(launch, job[r], Now(r)) \in Launch
    BY <1>0, <2>1, ReportedLaunch DEF Reporting
  <2>3. PICK l \in Launch : held' = [held EXCEPT ![r] = l]
    BY <1>6, <2>2 DEF ReadLaunch
  <2>4. TypeOK'
    BY <1>6, <2>3 DEF ReadLaunch
  <2> QED BY <1>6, <2>1, <2>3, <2>4 DEF ReadLaunch, Route, Reporting, Working
<1>7. ASSUME NEW r \in Clients, LinkIssue(r) PROVE TypeOK' /\ Route'
  <2>1. Reporting(r) /\ held[r] \in Launch
    BY <1>7 DEF LinkIssue, Route, Working
  <2>2. UpdateStatus(held[r], job[r], Now(r)) \in Launch
    BY <1>0, <2>1, ReportedLaunch DEF Reporting
  <2>3. PICK l \in Launch : held' = [held EXCEPT ![r] = l]
    BY <1>7, <2>1, <2>2 DEF LinkIssue
  <2>4. TypeOK'
    BY <1>7, <2>3 DEF LinkIssue
  <2> QED BY <1>7, <2>1, <2>3, <2>4 DEF LinkIssue, Route, Reporting, Working
<1>8. ASSUME NEW r \in Clients, EnterUpdate(r) PROVE TypeOK' /\ Route'
  <2>1. TypeOK'
    BY <1>8 DEF EnterUpdate, Hazards
  <2> QED BY <1>8, <2>1 DEF EnterUpdate, Route, Reporting, Working
<1>9. ASSUME NEW r \in Clients, CheckVersion(r) PROVE TypeOK' /\ Route'
  <2>1. TypeOK'
    BY <1>9 DEF CheckVersion
  <2> QED BY <1>9, <2>1 DEF CheckVersion, Route, Reporting, Working
<1>10. ASSUME NEW r \in Clients, Save(r) PROVE TypeOK' /\ Route'
  <2>1. held[r] \in Launch
    BY <1>10 DEF Save, Route, Working
  <2>2. UpdateLaunchStatus(held[r], Now(r)) \in Launch
    BY <1>0, <2>1, SavedLaunch
  <2>3. PICK l \in Launch : launch' = l /\ held' = [held EXCEPT ![r] = l]
    BY <1>10, <2>2 DEF Save
  <2>4. reported' \in [Cases -> LaunchStatus] /\ results' \in [Cases -> Nat]
    BY <1>10 DEF Save, Job
  <2>5. newest' \in Nat /\ hazards' \subseteq Hazards
    BY <1>0, <1>10 DEF Save, Hazards
  <2>6. TypeOK'
    BY <1>10, <2>3, <2>4, <2>5 DEF Save
  <2> QED BY <1>10, <2>3, <2>6 DEF Save, Route, Reporting, Working
<1>11. ASSUME NEW r \in Clients, LeaveUpdate(r) PROVE TypeOK' /\ Route'
  <2>1. held[r] \in Launch
    BY <1>11 DEF LeaveUpdate, Route, Working
  <2>2. PICK ok \in BOOLEAN : ok = (updateLock = r /\ answer[r] = "saved")
    OBVIOUS
  <2>3. PICK to \in {"idle", "audit", "leave"} :
           /\ to = AfterUpdate(r, ok)
           /\ to # "idle" => Reporting(r)
           /\ to = "audit" => ok /\ IsTerminalStatus(job[r].status)
    BY DEF AfterUpdate, Reporting, Job
  <2>4. pc' = [pc EXCEPT ![r] = to]
    BY <1>11, <2>2, <2>3 DEF LeaveUpdate
  <2>5. /\ updateLock' \in Clients \cup {Nobody}
        /\ pc' \in [Clients -> {"idle", "queue", "read", "issue", "wait",
                           "check", "save", "unlock", "audit", "leave"}]
        /\ answer' \in [Clients -> {"none", "saved", "stale", "denied", "error"}]
    BY <1>11, <2>4 DEF LeaveUpdate
  <2>6. /\ page' \in [Clients -> Launch \cup {NoLaunch}]
        /\ held' \in [Clients -> Launch \cup {NoLaunch}]
    BY <1>11, <2>1 DEF LeaveUpdate
  <2>7. TypeOK'
    BY <1>11, <2>5, <2>6 DEF LeaveUpdate
  <2>8. Route'
    <3>1. ok => answer'[r] = "saved"
      BY <1>11, <2>2 DEF LeaveUpdate
    <3>2. \A q \in Clients \ {r} : answer'[q] = answer[q] /\ held'[q] = held[q] /\ pc'[q] = pc[q]
      BY <1>11 DEF LeaveUpdate
    <3>3. job' = job /\ pc'[r] = to
      BY <1>11, <2>4 DEF LeaveUpdate
    <3> QED BY <2>3, <3>1, <3>2, <3>3 DEF Route, Reporting, Working
  <2> QED BY <2>7, <2>8
<1>12. ASSUME NEW r \in Clients, CreateEvent(r) PROVE TypeOK' /\ Route'
  <2>1. PICK c \in Cases : c = job[r].case
    BY <1>12 DEF CreateEvent, Route, Reporting, Job
  <2>2. events' \in [Cases -> Nat]
    BY <1>12, <2>1 DEF CreateEvent
  <2>3. TypeOK'
    BY <1>12, <2>2 DEF CreateEvent
  <2> QED BY <1>12, <2>3 DEF CreateEvent, Route, Reporting, Working
<1>13. ASSUME NEW r \in Clients, LeaveStatus(r) PROVE TypeOK' /\ Route'
  <2>1. TypeOK'
    BY <1>13 DEF LeaveStatus
  <2> QED BY <1>13, <2>1 DEF LeaveStatus, Route, Reporting, Working
<1>14. ASSUME NEW r \in Clients, ServerDies(r) PROVE TypeOK' /\ Route'
  <2>1. TypeOK'
    BY <1>14 DEF ServerDies, Hazards
  <2> QED BY <1>14, <2>1 DEF ServerDies, Route, Reporting, Working
<1>15. ASSUME NEW s \in Servers, Tick(s) PROVE TypeOK' /\ Route'
  BY <1>15 DEF Tick, Route, Reporting, Working
<1> HIDE DEF TypeOK, Go, stored
<1> QED BY <1>1, <1>2, <1>3, <1>4, <1>5, <1>6, <1>7, <1>8, <1>9, <1>10, <1>11, <1>12,
           <1>13, <1>14, <1>15 DEF Next, Call, Serve

-----------------------------------------------------------------------------
(* Locks, and what a save stores *)

LEMMA HoldingStep == TypeOK /\ Route /\ Holding /\ [Next]_vars => Holding'
<1> SUFFICES ASSUME TypeOK, Route, Holding, [Next]_vars, "timeout" \notin hazards',
                    NEW q \in Clients
             PROVE  /\ pc'[q] \in {"check", "save", "unlock"} => updateLock' = q
                    /\ Reporting(q)' /\ pc'[q] \notin {"idle", "queue"} => statusLock' = q
  BY DEF Holding
<1> DEFINE Kept == /\ pc'[q] \in {"check", "save", "unlock"} => updateLock' = q
                   /\ Reporting(q)' /\ pc'[q] \notin {"idle", "queue"} => statusLock' = q
<1>0. /\ updateLock \in Clients \cup {Nobody} /\ statusLock \in Clients \cup {Nobody}
      /\ pc \in [Clients -> {"idle", "queue", "read", "issue", "wait",
                             "check", "save", "unlock", "audit", "leave"}]
      /\ job \in [Clients -> Job]
      /\ q # Nobody
  BY DEF TypeOK
<1>1. hazards \subseteq hazards' => \A r \in Clients :
         /\ pc[r] \in {"check", "save", "unlock"} => updateLock = r
         /\ Reporting(r) /\ pc[r] \notin {"idle", "queue"} => statusLock = r
  BY DEF Holding
<1> USE DEF Reporting, Go
<1>2. CASE UNCHANGED vars
  BY <1>1, <1>2 DEF vars
<1>3. ASSUME NEW r \in Clients, Call(r) PROVE Kept
  BY <1>0, <1>1, <1>3 DEF Call, Open, Edit, Report, BeginCall
<1>4. ASSUME NEW r \in Clients, EnterStatus(r) PROVE Kept
  BY <1>0, <1>1, <1>4 DEF EnterStatus, MayEnter, Route
<1>5. ASSUME NEW r \in Clients, ReadLaunch(r) PROVE Kept
  BY <1>0, <1>1, <1>5 DEF ReadLaunch
<1>6. ASSUME NEW r \in Clients, LinkIssue(r) PROVE Kept
  BY <1>0, <1>1, <1>6 DEF LinkIssue
<1>7. ASSUME NEW r \in Clients, EnterUpdate(r) PROVE Kept
  BY <1>0, <1>1, <1>7 DEF EnterUpdate, MayEnter
<1>8. ASSUME NEW r \in Clients, CheckVersion(r) PROVE Kept
  BY <1>0, <1>1, <1>8 DEF CheckVersion
<1>9. ASSUME NEW r \in Clients, Save(r) PROVE Kept
  BY <1>0, <1>1, <1>9 DEF Save
<1>10. ASSUME NEW r \in Clients, LeaveUpdate(r) PROVE Kept
  <2>1. hazards \subseteq hazards' /\ job' = job /\ statusLock' = statusLock
    BY <1>10 DEF LeaveUpdate
  <2>2. \A p \in Clients \ {r} : pc'[p] = pc[p]
    BY <1>0, <1>10 DEF LeaveUpdate
  <2>3. pc[r] = "unlock" /\ updateLock = r
    BY <1>1, <1>10, <2>1 DEF LeaveUpdate
  <2>4. pc'[r] \in {"idle", "audit", "leave"}
    BY <1>0, <1>10 DEF LeaveUpdate, AfterUpdate
  <2> QED BY <1>0, <1>1, <2>1, <2>2, <2>3, <2>4
<1>11. ASSUME NEW r \in Clients, CreateEvent(r) PROVE Kept
  BY <1>0, <1>1, <1>11 DEF CreateEvent
<1>12. ASSUME NEW r \in Clients, LeaveStatus(r) PROVE Kept
  <2>1. Reporting(r) /\ pc[r] = "leave"
    BY <1>12 DEF LeaveStatus, Route
  <2> QED BY <1>0, <1>1, <1>12, <2>1 DEF LeaveStatus
<1>13. ASSUME NEW r \in Clients, ServerDies(r) PROVE Kept
  BY <1>0, <1>1, <1>13 DEF ServerDies
<1>14. ASSUME NEW s \in Servers, Tick(s) PROVE Kept
  BY <1>0, <1>1, <1>14 DEF Tick
<1> QED BY <1>2, <1>3, <1>4, <1>5, <1>6, <1>7, <1>8, <1>9, <1>10, <1>11, <1>12, <1>13,
           <1>14 DEF Next, Serve

(* Only a save stores a launch. *)
Unstored ==
    /\ UNCHANGED <<launch, reported, results, newest>>
    /\ hazards \subseteq hazards'
    /\ \A h \in {"clock", "edited", "reopened"} : h \in hazards' => h \in hazards

LEMMA SavesNothing ==
    ASSUME NEW r \in Clients, Call(r) \/ Serve(r) \/ ServerDies(r), ~Save(r)
    PROVE  Unstored
BY DEF Call, Open, Edit, Report, Serve, EnterStatus, ReadLaunch, LinkIssue, EnterUpdate,
   CheckVersion, LeaveUpdate, CreateEvent, LeaveStatus, ServerDies, stored, Unstored

LEMMA OnlySaves ==
    ASSUME [Next]_vars
    PROVE  Unstored \/ \E r \in Clients : Save(r)
<1>1. CASE UNCHANGED vars
  BY <1>1 DEF vars, Unstored
<1>2. ASSUME NEW s \in Servers, Tick(s) PROVE Unstored
  BY <1>2 DEF Tick, stored, Unstored
<1> QED BY <1>1, <1>2, SavesNothing DEF Next

LEMMA StampedStep == TypeOK /\ Route /\ Stamped /\ [Next]_vars => Stamped'
<1> SUFFICES ASSUME TypeOK, Route, Stamped, [Next]_vars, "clock" \notin hazards'
             PROVE  launch'.lmt = newest'
  BY DEF Stamped
<1>1. ASSUME NEW r \in Clients, Save(r) PROVE launch'.lmt = newest'
  <2>1. held[r] \in Launch /\ Now(r) \in Nat /\ newest \in Nat
    BY <1>1 DEF Save, Go, Route, Working, TypeOK, Now
  <2>2. launch'.lmt = Now(r)
    BY <1>1, <2>1, SavedLaunch DEF Save
  <2>3. ~(Now(r) <= newest)
    BY <1>1 DEF Save
  <2> QED BY <1>1, <2>1, <2>2, <2>3 DEF Save
<1> QED BY <1>1, OnlySaves DEF Stamped, Unstored

(* What a save puts in place of what, if all went by the locks and clocks.  *)
LEMMA Stores ==
    ASSUME TypeOK, Route, Holding, Stamped, Copies,
           NEW r \in Clients, Save(r), Calm'
    PROVE  /\ Calm
           /\ launch.lmt < launch'.lmt
           /\ launch'.status = IF Reporting(r) THEN WithReport(r) ELSE launch.status
           /\ launch.startTime # 0 => launch'.startTime = launch.startTime
           /\ launch.finishTime # 0 => launch'.finishTime = launch.finishTime
           /\ held' = [held EXCEPT ![r] = launch']
           /\ \A q \in Clients \ {r} : pc[q] # "save"
<1>1. /\ held[r] \in Launch /\ launch \in Launch /\ Now(r) \in Nat
      /\ pc[r] = "save" /\ r # Nobody
  BY DEF Save, Go, Route, Working, TypeOK, Now
<1>2. /\ launch'.lmt = Now(r)
      /\ launch'.status = held[r].status
      /\ held[r].startTime # 0 => launch'.startTime = held[r].startTime
      /\ held[r].finishTime # 0 => launch'.finishTime = held[r].finishTime
  BY <1>1, SavedLaunch DEF Save
<1>3. Calm /\ ~(Now(r) <= newest)
  BY DEF Calm, Save
<1>4. launch.lmt = newest /\ newest \in Nat
  BY <1>3 DEF Stamped, Calm, TypeOK
<1>5. held[r].lmt = launch.lmt
  <2>1. launch.lmt <= held[r].lmt
    BY <1>1, <1>3 DEF Copies, CopiesOf
  <2>2. held[r].lmt <= launch.lmt
    BY <1>1, <1>3 DEF Copies, CopiesOf, Known, Follows, Working
  <2> QED BY <1>1, <2>1, <2>2 DEF Launch
<1>6. /\ held[r].status = IF Reporting(r) THEN WithReport(r) ELSE launch.status
      /\ held[r].startTime = launch.startTime /\ held[r].finishTime = launch.finishTime
  BY <1>1, <1>3, <1>5 DEF Copies, CopiesOf, Known, Follows, Working
<1>7. \A q \in Clients \ {r} : pc[q] # "save"
  BY <1>1, <1>3 DEF Holding, Calm
<1>8. held' = [held EXCEPT ![r] = launch']
  BY DEF Save
<1>9. launch.lmt < launch'.lmt
  BY <1>1, <1>2, <1>3, <1>4
<1> QED BY <1>2, <1>3, <1>6, <1>7, <1>8, <1>9

-----------------------------------------------------------------------------
(* Copies of the launch *)

LEMMA CopiesAfterSave ==
    ASSUME TypeOK, Route, Holding, Stamped, Copies, NEW r \in Clients, Save(r), Calm',
           NEW q \in Clients
    PROVE  CopiesOf(q)'
<1>1. /\ Calm /\ launch.lmt < launch'.lmt
      /\ held' = [held EXCEPT ![r] = launch']
      /\ \A p \in Clients \ {r} : pc[p] # "save"
  BY Stores
<1>2. CopiesOf(q)
  BY <1>1 DEF Copies
<1>3. /\ pc' = [pc EXCEPT ![r] = "unlock"] /\ page' = page /\ job' = job
      /\ launch.lmt \in Nat /\ launch'.lmt \in Nat
  <2>1. TypeOK'
    BY TypeStep DEF Next, Serve
  <2> QED BY <2>1 DEF Save, Go, TypeOK, Launch
<1>4. ASSUME NEW l \in Launch, l.lmt <= launch.lmt
      PROVE  l.lmt <= launch'.lmt /\ l.lmt # launch'.lmt
  BY <1>1, <1>3, <1>4 DEF Launch
<1>5. page[q] # NoLaunch => Known(page[q])'
  BY <1>2, <1>3, <1>4 DEF CopiesOf, Known, Follows, TypeOK
<1>6. CASE q = r
  <2>1. held'[r] = launch' /\ pc'[r] = "unlock"
    BY <1>1, <1>3 DEF TypeOK
  <2>2. launch'.lmt <= launch'.lmt
    BY <1>3
  <2> QED BY <1>3, <1>5, <1>6, <2>1, <2>2 DEF CopiesOf, Known, Follows
<1>7. CASE q # r
  <2>1. held'[q] = held[q] /\ pc'[q] = pc[q] /\ pc[q] # "save"
    BY <1>1, <1>3, <1>7 DEF TypeOK
  <2>2. pc[q] \in Working => held[q] \in Launch
    BY DEF Route
  <2> QED BY <1>2, <1>3, <1>4, <1>5, <2>1, <2>2
          DEF CopiesOf, Known, Follows, Reporting, WithReport, Working
<1> QED BY <1>6, <1>7

(* A step that stores nothing leaves what follows the stored launch so. *)
LEMMA CopiesAsBefore ==
    ASSUME TypeOK, Copies, UNCHANGED launch, hazards \subseteq hazards', Calm',
           NEW q \in Clients, page'[q] = page[q], held'[q] = held[q], job'[q] = job[q],
           pc'[q] = pc[q]
    PROVE  CopiesOf(q)'
<1>1. CopiesOf(q)
  BY DEF Copies, Calm
<1> QED BY <1>1 DEF CopiesOf, Known, Follows, Reporting, WithReport

LEMMA CopiesOfCaller ==
    ASSUME TypeOK, Route, Holding, Stamped, Copies,
           NEW r \in Clients, Call(r) \/ Serve(r) \/ ServerDies(r), ~Save(r), Calm'
    PROVE  CopiesOf(r)'
<1>1. launch' = launch /\ hazards \subseteq hazards'
  BY SavesNothing DEF Unstored
<1>2. CopiesOf(r)
  BY <1>1 DEF Copies, Calm
<1>3. /\ Now(r) \in Nat /\ launch \in Launch /\ job[r] \in Job
      /\ pc[r] \in Working => held[r] \in Launch
  BY DEF TypeOK, Now, Route
<1>4. launch.lmt <= launch.lmt
  BY <1>3 DEF Launch
<1> USE DEF Go
<1>5. CASE Open(r)
  BY <1>2, <1>4, <1>5 DEF Open, stored, TypeOK, CopiesOf, Known, Follows, Reporting,
     WithReport, Working
<1>6. CASE Edit(r)
  <2>1. /\ page' = page /\ held'[r] = page[r] /\ pc'[r] = "wait" /\ ~Reporting(r)'
        /\ page[r] # NoLaunch
    BY <1>6 DEF Edit, BeginCall, TypeOK, Reporting
  <2> QED BY <1>1, <1>2, <2>1 DEF CopiesOf, Known, Follows
<1>7. ASSUME NEW c \in Cases, NEW s \in Reports, NEW issue \in BOOLEAN,
             Report(r, c, s, issue)
      PROVE  CopiesOf(r)'
  <2>1. page' = page /\ pc'[r] = "queue"
    BY <1>7 DEF Report, TypeOK
  <2> QED BY <1>1, <1>2, <2>1 DEF CopiesOf, Known, Follows, Working
<1>8. CASE EnterStatus(r)
  <2>1. page' = page /\ pc'[r] = "read"
    BY <1>8 DEF EnterStatus, TypeOK
  <2> QED BY <1>1, <1>2, <2>1 DEF CopiesOf, Known, Follows, Working
<1>9. CASE ReadLaunch(r)
  <2>1. /\ Reporting(r) /\ page' = page /\ job' = job
        /\ \/ pc'[r] = "issue" /\ held'[r] = launch
           \/ pc'[r] = "wait" /\ held'[r] = UpdateStatus(launch, job[r], Now(r))
    BY <1>9 DEF ReadLaunch, Route, TypeOK
  <2>2. CASE pc'[r] = "issue" /\ held'[r] = launch
    BY <1>1, <1>2, <1>4, <2>1, <2>2 DEF CopiesOf, Known, Follows, Reporting
  <2>3. CASE pc'[r] = "wait" /\ held'[r] = UpdateStatus(launch, job[r], Now(r))
    <3>1. Follows(held[r], WithReport(r))'
      BY <1>1, <1>3, <1>4, <2>1, <2>3, ReportedLaunch DEF Follows, WithReport, Reporting
    <3> QED BY <1>1, <1>2, <2>1, <2>3, <3>1 DEF CopiesOf, Known, Follows, Reporting
  <2> QED BY <2>1, <2>2, <2>3
<1>10. CASE LinkIssue(r)
  <2>1. /\ Reporting(r) /\ page' = page /\ job' = job /\ pc[r] = "issue"
        /\ \/ pc'[r] = "leave"
           \/ pc'[r] = "wait" /\ held'[r] = UpdateStatus(held[r], job[r], Now(r))
    BY <1>10 DEF LinkIssue, Route, TypeOK
  <2>2. CASE pc'[r] = "leave"
    BY <1>1, <1>2, <2>1, <2>2 DEF CopiesOf, Known, Follows, Reporting
  <2>3. CASE pc'[r] = "wait" /\ held'[r] = UpdateStatus(held[r], job[r], Now(r))
    <3>1. Known(held[r]) /\ held[r] \in Launch
      BY <1>2, <1>3, <2>1 DEF CopiesOf, Working
    <3>2. /\ held'[r].lmt = held[r].lmt
          /\ held'[r].status = [held[r].status EXCEPT ![job[r].case] = job[r].status]
          /\ held'[r].startTime = held[r].startTime
          /\ held'[r].finishTime = held[r].finishTime
      <4>1. job[r].kind = "report"
        BY <2>1 DEF Reporting
      <4> DEFINE u == UpdateStatus(held[r], job[r], Now(r))
      <4>2. /\ u.lmt = held[r].lmt
            /\ u.status = [held[r].status EXCEPT ![job[r].case] = job[r].status]
            /\ u.startTime = held[r].startTime
            /\ u.finishTime = held[r].finishTime
        BY ONLY <1>3, <3>1, <4>1, ReportedLaunch
      <4> QED BY <2>3, <4>2
    <3>3. /\ held[r].lmt <= launch.lmt
          /\ held[r].lmt = launch.lmt => /\ held[r].status = launch.status
                                        /\ held[r].startTime = launch.startTime
                                        /\ held[r].finishTime = launch.finishTime
      BY <3>1 DEF Known, Follows
    <3>4. Follows(held[r], WithReport(r))'
      <4>1. WithReport(r)' = [launch.status EXCEPT ![job[r].case] = job[r].status]
        BY <1>1, <2>1 DEF WithReport
      <4> QED BY <1>1, <3>2, <3>3, <4>1 DEF Follows
    <3> QED BY <1>1, <1>2, <2>1, <2>3, <3>4 DEF CopiesOf, Known, Follows, Reporting
  <2> QED BY <2>1, <2>2, <2>3
<1>11. CASE EnterUpdate(r)
  <2>1. /\ page' = page /\ job' = job /\ held' = held /\ pc[r] = "wait"
        /\ pc'[r] = "check"
    BY <1>11 DEF EnterUpdate, TypeOK
  <2> QED BY <1>1, <1>2, <2>1 DEF CopiesOf, Known, Follows, Reporting, WithReport, Working
<1>12. CASE CheckVersion(r)
  <2>1. /\ page' = page /\ job' = job /\ held' = held /\ pc[r] = "check"
        /\ \/ pc'[r] = "unlock"
           \/ pc'[r] = "save" /\ launch.lmt <= held[r].lmt
    BY <1>12 DEF CheckVersion, UpToDate, TypeOK
  <2> QED BY <1>1, <1>2, <2>1 DEF CopiesOf, Known, Follows, Reporting, WithReport, Working
<1>13. CASE LeaveUpdate(r)
  <2>0. pc[r] = "unlock" /\ pc'[r] \in {"idle", "audit", "leave"}
    BY <1>13 DEF LeaveUpdate, AfterUpdate, TypeOK
  <2>1. \/ page'[r] = page[r]
        \/ page'[r] = held[r] /\ ~Reporting(r)
    <3>1. job[r].kind = "edit" => ~Reporting(r)
      BY DEF Reporting
    <3> QED BY <1>13, <3>1 DEF LeaveUpdate, TypeOK
  <2>2. page'[r] # NoLaunch => Known(page'[r])
    BY <1>2, <2>0, <2>1 DEF CopiesOf, Working
  <2> QED BY <1>1, <2>0, <2>2 DEF CopiesOf, Known, Follows, Working
<1>14. CASE CreateEvent(r) \/ LeaveStatus(r) \/ ServerDies(r)
  <2>1. page' = page /\ pc'[r] \in {"leave", "idle"}
    BY <1>14 DEF CreateEvent, LeaveStatus, ServerDies, TypeOK
  <2> QED BY <1>1, <1>2, <2>1 DEF CopiesOf, Known, Follows, Working
<1> QED BY <1>5, <1>6, <1>7, <1>8, <1>9, <1>10, <1>11, <1>12, <1>13, <1>14 DEF Call, Serve

(* A step of one client leaves the calls and the pages of the others alone. *)
LEMMA Apart ==
    ASSUME TypeOK, NEW r \in Clients, Call(r) \/ Serve(r) \/ ServerDies(r),
           NEW q \in Clients, q # r
    PROVE  /\ page'[q] = page[q] /\ held'[q] = held[q] /\ job'[q] = job[q]
           /\ pc'[q] = pc[q] /\ answer'[q] = answer[q]
<1>1. CASE Call(r)
  BY <1>1 DEF TypeOK, Go, Call, Open, Edit, Report, BeginCall
<1>2. CASE EnterStatus(r) \/ ReadLaunch(r) \/ LinkIssue(r) \/ EnterUpdate(r) \/ CheckVersion(r)
  BY <1>2 DEF TypeOK, Go, EnterStatus, ReadLaunch, LinkIssue, EnterUpdate, CheckVersion
<1>3. CASE Save(r) \/ LeaveUpdate(r)
  BY <1>3 DEF TypeOK, Go, Save, LeaveUpdate
<1>4. CASE CreateEvent(r) \/ LeaveStatus(r) \/ ServerDies(r)
  BY <1>4 DEF TypeOK, Go, CreateEvent, LeaveStatus, ServerDies
<1> QED BY <1>1, <1>2, <1>3, <1>4 DEF Serve

LEMMA CopiesStep ==
    TypeOK /\ Route /\ Holding /\ Stamped /\ Copies /\ [Next]_vars => Copies'
<1> SUFFICES ASSUME TypeOK, Route, Holding, Stamped, Copies, [Next]_vars, Calm',
                    NEW q \in Clients
             PROVE  CopiesOf(q)'
  BY DEF Copies
<1>1. ASSUME NEW r \in Clients, Save(r) PROVE CopiesOf(q)'
  BY <1>1, CopiesAfterSave
<1>2. ASSUME NEW r \in Clients, Call(r) \/ Serve(r) \/ ServerDies(r), ~Save(r)
      PROVE  CopiesOf(q)'
  <2>1. launch' = launch /\ hazards \subseteq hazards'
    BY <1>2, SavesNothing DEF Unstored
  <2>2. CASE q = r
    BY <1>2, <2>2, CopiesOfCaller
  <2>3. CASE q # r
    <3>1. /\ page'[q] = page[q] /\ held'[q] = held[q] /\ job'[q] = job[q]
          /\ pc'[q] = pc[q]
      BY <1>2, <2>3, Apart
    <3> QED BY <2>1, <3>1, CopiesAsBefore
  <2> QED BY <2>2, <2>3
<1>3. CASE UNCHANGED vars
  BY <1>3, CopiesAsBefore DEF vars
<1>4. ASSUME NEW s \in Servers, Tick(s) PROVE CopiesOf(q)'
  BY <1>4, CopiesAsBefore DEF Tick, stored
<1> QED BY <1>1, <1>2, <1>3, <1>4 DEF Next

LEMMA ResultsStep ==
    /\ TypeOK /\ Route /\ Holding /\ Stamped /\ Copies /\ ResultsStay /\ [Next]_vars
    => ResultsStay'
<1> SUFFICES ASSUME TypeOK, Route, Holding, Stamped, Copies, ResultsStay, [Next]_vars, Calm'
             PROVE  launch'.status = reported'
  BY DEF ResultsStay, Calm
<1>1. ASSUME NEW r \in Clients, Save(r) PROVE launch'.status = reported'
  <2>1. /\ Calm
        /\ launch'.status = IF Reporting(r) THEN WithReport(r) ELSE launch.status
    BY <1>1, Stores
  <2>2. launch.status = reported
    BY <2>1 DEF ResultsStay, Calm
  <2> QED BY <1>1, <2>1, <2>2 DEF Save, Reporting, WithReport
<1> QED BY <1>1, OnlySaves DEF ResultsStay, Calm, Unstored

-----------------------------------------------------------------------------
(* Reports do not collide *)

LEMMA FreshStep ==
    TypeOK /\ Route /\ Holding /\ Fresh /\ [Next]_vars => Fresh'
<1> SUFFICES ASSUME TypeOK, Route, Holding, Fresh, [Next]_vars,
                    hazards' \cap {"timeout", "edited"} = {},
                    NEW q \in Clients, Reporting(q)', pc'[q] \in {"issue", "wait", "check", "save"}
             PROVE  held'[q].lmt = launch'.lmt
  BY DEF Fresh
<1>1. ASSUME NEW r \in Clients, Save(r) PROVE FALSE
  <2>1. Reporting(r) /\ hazards \subseteq hazards' /\ pc' = [pc EXCEPT ![r] = "unlock"] /\ job' = job
    BY <1>1 DEF Save, Go, TypeOK, Job, Reporting
  <2>2. q # r /\ pc[q] = pc'[q] /\ Reporting(q)
    BY <2>1 DEF TypeOK, Reporting
  <2>3. statusLock = r /\ statusLock = q
    BY <1>1, <2>1, <2>2 DEF Holding, Save, Go
  <2> QED BY <2>2, <2>3
<1>2. ASSUME NEW r \in Clients, Call(r) \/ Serve(r) \/ ServerDies(r), ~Save(r)
      PROVE  held'[q].lmt = launch'.lmt
  <2>1. launch' = launch /\ hazards \subseteq hazards' /\ ("edited" \in hazards => "edited" \in hazards')
    BY <1>2, SavesNothing DEF Unstored
  <2>2. Reporting(q) /\ pc[q] \in {"issue", "wait", "check", "save"} => held[q].lmt = launch.lmt
    BY <2>1 DEF Fresh
  <2>3. CASE q # r
    BY <1>2, <2>1, <2>2, <2>3, Apart DEF Reporting
  <2>4. CASE q = r
    <3> USE <2>4 DEF Go
    <3>1. CASE Open(r) \/ EnterUpdate(r) \/ CheckVersion(r)
      BY <2>1, <2>2, <3>1 DEF Open, EnterUpdate, CheckVersion, TypeOK, Reporting
    <3>2. CASE Edit(r)
      BY <3>2 DEF Edit, BeginCall, TypeOK, Reporting
    <3>3. CASE \/ \E c \in Cases, s \in Reports, issue \in BOOLEAN : Report(r, c, s, issue)
               \/ EnterStatus(r) \/ CreateEvent(r) \/ LeaveStatus(r) \/ ServerDies(r)
      BY <3>3 DEF Report, EnterStatus, CreateEvent, LeaveStatus, ServerDies, TypeOK
    <3>4. CASE LeaveUpdate(r)
      BY <3>4 DEF LeaveUpdate, AfterUpdate, TypeOK
    <3>5. CASE ReadLaunch(r)
      <4>1. job[r].kind = "report" /\ job[r] \in Job /\ Now(r) \in Nat /\ launch \in Launch
        BY <3>5 DEF ReadLaunch, Route, TypeOK, Reporting, Now
      <4>2. UpdateStatus(launch, job[r], Now(r)).lmt = launch.lmt
        BY ONLY <4>1, ReportedLaunch
      <4> QED BY <2>1, <3>5, <4>2 DEF ReadLaunch, TypeOK
    <3>6. CASE LinkIssue(r)
      <4>1. /\ job[r].kind = "report" /\ job[r] \in Job /\ Now(r) \in Nat
            /\ held[r] \in Launch /\ held[r].lmt = launch.lmt
        BY <2>2, <3>6 DEF LinkIssue, Route, TypeOK, Reporting, Now, Working
      <4>2. UpdateStatus(held[r], job[r], Now(r)).lmt = held[r].lmt
        BY ONLY <4>1, ReportedLaunch
      <4> QED BY <2>1, <3>6, <4>1, <4>2 DEF LinkIssue, TypeOK
    <3> QED BY <1>2, <3>1, <3>2, <3>3, <3>4, <3>5, <3>6 DEF Call, Serve
  <2> QED BY <2>3, <2>4
<1>3. CASE UNCHANGED vars
  BY <1>3 DEF vars, Fresh, Reporting
<1>4. ASSUME NEW s \in Servers, Tick(s) PROVE held'[q].lmt = launch'.lmt
  BY <1>4 DEF Tick, stored, Fresh, Reporting
<1> QED BY <1>1, <1>2, <1>3, <1>4 DEF Next

LEMMA CollideStep ==
    TypeOK /\ Route /\ Fresh /\ ReportsDoNotCollide /\ [Next]_vars => ReportsDoNotCollide'
<1> SUFFICES ASSUME TypeOK, Route, Fresh, ReportsDoNotCollide, [Next]_vars,
                    hazards' \cap {"timeout", "edited"} = {},
                    NEW q \in Clients, Reporting(q)'
             PROVE  answer'[q] # "stale"
  BY DEF ReportsDoNotCollide, Reporting
<1>0. hazards \subseteq hazards'
  <2>1. ASSUME NEW r \in Clients, Save(r) PROVE hazards \subseteq hazards'
    BY <2>1 DEF Save
  <2> QED BY <2>1, OnlySaves DEF Unstored
<1>1. Reporting(q) => answer[q] # "stale"
  BY <1>0 DEF ReportsDoNotCollide, Reporting
<1>2. ASSUME NEW r \in Clients, Call(r) \/ Serve(r) \/ ServerDies(r)
      PROVE  answer'[q] # "stale"
  <2>1. CASE q # r
    BY <1>1, <1>2, <2>1, Apart DEF Reporting
  <2>2. CASE q = r
    <3> USE <2>2 DEF Go
    <3>1. CASE Open(r) \/ EnterStatus(r) \/ ReadLaunch(r) \/ EnterUpdate(r) \/ CreateEvent(r)
      BY <1>1, <3>1 DEF Open, EnterStatus, ReadLaunch, EnterUpdate, CreateEvent, Reporting
    <3>2. CASE \/ Edit(r)
               \/ \E c \in Cases, s \in Reports, issue \in BOOLEAN : Report(r, c, s, issue)
      BY <3>2 DEF Edit, Report, BeginCall, TypeOK
    <3>3. CASE LinkIssue(r) \/ Save(r)
      BY <1>1, <3>3 DEF LinkIssue, Save, TypeOK, Reporting
    <3>4. CASE LeaveUpdate(r) \/ LeaveStatus(r) \/ ServerDies(r)
      BY <1>1, <3>4 DEF LeaveUpdate, LeaveStatus, ServerDies, TypeOK, Reporting
    <3>5. CASE CheckVersion(r)
      <4>1. Reporting(r) /\ pc[r] = "check"
        BY <3>5 DEF CheckVersion, Reporting
      <4>2. held[r].lmt = launch.lmt
        BY <1>0, <4>1 DEF Fresh
      <4>3. launch.lmt <= launch.lmt
        BY DEF TypeOK, Launch
      <4> QED BY <1>1, <3>5, <4>1, <4>2, <4>3 DEF CheckVersion, UpToDate
    <3> QED BY <1>2, <3>1, <3>2, <3>3, <3>4, <3>5 DEF Call, Serve
  <2> QED BY <2>1, <2>2
<1>3. CASE UNCHANGED vars
  BY <1>1, <1>3 DEF vars, Reporting
<1>4. ASSUME NEW s \in Servers, Tick(s) PROVE answer'[q] # "stale"
  BY <1>1, <1>4 DEF Tick, Reporting
<1> QED BY <1>2, <1>3, <1>4 DEF Next

-----------------------------------------------------------------------------
(* The audit *)

(* The results of c that were saved are those with an event and the pending. *)
Counted(c) ==
    /\ IsFiniteSet(Pending(c))
    /\ hazards \cap {"timeout", "crash"} = {} =>
          results[c] = events[c] + Cardinality(Pending(c))

LEMMA AuditByCase == Finite /\ AuditComplete <=> \A c \in Cases : Counted(c)
BY DEF Finite, AuditComplete, Counted, Pending, IsPending

LEMMA PendingOthers ==
    ASSUME TypeOK, NEW r \in Clients, Call(r) \/ Serve(r) \/ ServerDies(r), NEW c \in Cases
    PROVE  Pending(c)' = IF IsPending(r, c)' THEN Pending(c) \cup {r} ELSE Pending(c) \ {r}
<1>1. \A q \in Clients \ {r} : IsPending(q, c)' <=> IsPending(q, c)
  BY Apart DEF IsPending
<1> QED BY <1>1 DEF Pending

(* The steps that leave what is pending as it is. *)
LEMMA CountedAsBefore ==
    ASSUME TypeOK, NEW c \in Cases, Counted(c), Pending(c)' = Pending(c),
           results'[c] = results[c], events'[c] = events[c], hazards \subseteq hazards'
    PROVE  Counted(c)'
BY DEF Counted

LEMMA CountedSave ==
    ASSUME TypeOK, Route, NEW r \in Clients, Save(r), NEW c \in Cases, Counted(c)
    PROVE  Counted(c)'
<1>1. /\ pc[r] = "save" /\ job' = job /\ events' = events /\ hazards \subseteq hazards'
      /\ pc'[r] = "unlock" /\ answer'[r] = "saved"
  BY DEF Save, Go, TypeOK
<1>2. r \notin Pending(c) /\ (IsPending(r, c) => FALSE)
  BY <1>1 DEF Pending, IsPending
<1>3. CASE Reporting(r) /\ job[r].case = c /\ IsTerminalStatus(job[r].status)
  <2>1. results'[c] = results[c] + 1
    BY <1>3 DEF Save, TypeOK, Reporting
  <2>2. IsPending(r, c)'
    BY <1>1, <1>3 DEF IsPending, Reporting
  <2>3. Pending(c)' = Pending(c) \cup {r}
    BY <2>2, PendingOthers DEF Serve
  <2>4. /\ IsFiniteSet(Pending(c)) /\ IsFiniteSet(Pending(c)')
        /\ Cardinality(Pending(c)') = Cardinality(Pending(c)) + 1
        /\ Cardinality(Pending(c)) \in Nat
    BY <1>2, <2>3, FS_AddElement, FS_CardinalityType DEF Counted
  <2> QED BY <1>1, <2>1, <2>4 DEF Counted, TypeOK
<1>4. CASE ~(Reporting(r) /\ job[r].case = c /\ IsTerminalStatus(job[r].status))
  <2>1. results'[c] = results[c]
    BY <1>4 DEF Save, TypeOK, Reporting
  <2>2. ~IsPending(r, c)'
    BY <1>1, <1>4 DEF IsPending, Reporting
  <2>3. Pending(c)' = Pending(c)
    BY <1>2, <2>2, PendingOthers DEF Serve
  <2> QED BY <1>1, <2>1, <2>3, CountedAsBefore
<1> QED BY <1>3, <1>4

LEMMA CountedEvent ==
    ASSUME TypeOK, Route, NEW r \in Clients, CreateEvent(r), NEW c \in Cases, Counted(c)
    PROVE  Counted(c)'
<1>1. /\ pc[r] = "audit" /\ answer[r] = "saved" /\ job[r].kind = "report"
      /\ IsTerminalStatus(job[r].status)
      /\ pc'[r] = "leave" /\ results' = results /\ hazards' = hazards
  BY DEF CreateEvent, Go, Route, Reporting, TypeOK
<1>2. Pending(c)' = Pending(c) \ {r}
  BY <1>1, PendingOthers DEF Serve, IsPending
<1>3. CASE job[r].case = c
  <2>1. events'[c] = events[c] + 1
    BY <1>3 DEF CreateEvent, TypeOK
  <2>2. r \in Pending(c)
    BY <1>1, <1>3 DEF Pending, IsPending
  <2>3. /\ IsFiniteSet(Pending(c)) /\ IsFiniteSet(Pending(c)')
        /\ Cardinality(Pending(c)') = Cardinality(Pending(c)) - 1
        /\ Cardinality(Pending(c)) \in Nat
    BY <1>2, <2>2, FS_RemoveElement, FS_CardinalityType DEF Counted
  <2> QED BY <1>1, <2>1, <2>3 DEF Counted, TypeOK
<1>4. CASE job[r].case # c
  <2>1. events'[c] = events[c]
    BY <1>4 DEF CreateEvent, TypeOK
  <2>2. Pending(c)' = Pending(c)
    BY <1>2, <1>4 DEF Pending, IsPending
  <2> QED BY <1>1, <2>1, <2>2, CountedAsBefore
<1> QED BY <1>3, <1>4

(* A call leaves update to be audited if its result is pending. *)
LEMMA CountedLeave ==
    ASSUME TypeOK, Route, Holding, NEW r \in Clients, LeaveUpdate(r), NEW c \in Cases,
           Counted(c)
    PROVE  Counted(c)'
<1>1. /\ pc[r] = "unlock" /\ job' = job
      /\ results' = results /\ events' = events /\ hazards' = hazards
  BY DEF LeaveUpdate, Go, stored
<1>2. CASE "timeout" \in hazards
  <2>1. IsFiniteSet(Pending(c)')
    BY PendingOthers, FS_AddElement, FS_RemoveElement DEF Serve, Counted
  <2> QED BY <1>1, <1>2, <2>1 DEF Counted
<1>3. CASE "timeout" \notin hazards
  <2>1. updateLock = r
    BY <1>1, <1>3 DEF Holding
  <2>2. answer'[r] = answer[r]
    BY <2>1 DEF LeaveUpdate, TypeOK
  <2>3. CASE IsPending(r, c)
    <3>1. pc'[r] = "audit"
      BY <2>1, <2>3 DEF IsPending, LeaveUpdate, Go, AfterUpdate, TypeOK
    <3>2. IsPending(r, c)'
      BY <1>1, <2>2, <2>3, <3>1 DEF IsPending
    <3>3. Pending(c)' = Pending(c)
      BY <2>3, <3>2, PendingOthers DEF Serve, Pending
    <3> QED BY <1>1, <3>3, CountedAsBefore
  <2>4. CASE ~IsPending(r, c)
    <3>1. ~IsPending(r, c)'
      BY <1>1, <2>2, <2>4 DEF IsPending
    <3>2. Pending(c)' = Pending(c)
      BY <2>4, <3>1, PendingOthers DEF Serve, Pending
    <3> QED BY <1>1, <3>2, CountedAsBefore
  <2> QED BY <2>3, <2>4
<1> QED BY <1>2, <1>3

LEMMA CountedStep ==
    ASSUME TypeOK, Route, Holding, [Next]_vars, NEW c \in Cases, Counted(c)
    PROVE  Counted(c)'
<1>1. ASSUME NEW r \in Clients, ServerDies(r) PROVE Counted(c)'
  <2>1. "crash" \in hazards'
    BY <1>1 DEF ServerDies
  <2>2. IsFiniteSet(Pending(c)')
    BY <1>1, PendingOthers, FS_AddElement, FS_RemoveElement DEF Counted
  <2> QED BY <2>1, <2>2 DEF Counted
<1>2. ASSUME NEW r \in Clients,
             \/ Call(r) \/ EnterStatus(r) \/ ReadLaunch(r) \/ LinkIssue(r)
             \/ EnterUpdate(r) \/ CheckVersion(r) \/ LeaveStatus(r)
      PROVE  Counted(c)'
  <2>1. /\ results' = results /\ events' = events /\ hazards \subseteq hazards'
        /\ pc[r] \notin {"unlock", "audit"}
        /\ pc'[r] \notin {"unlock", "audit"} \/ answer'[r] = "stale"
    <3> USE DEF Go, stored, TypeOK
    <3>1. CASE Open(r) \/ Edit(r)
      BY <3>1 DEF Open, Edit, BeginCall
    <3>2. CASE \E t \in Cases, s \in Reports, issue \in BOOLEAN : Report(r, t, s, issue)
      BY <3>2 DEF Report, BeginCall
    <3>3. CASE EnterStatus(r) \/ ReadLaunch(r)
      BY <3>3 DEF EnterStatus, ReadLaunch
    <3>4. CASE LinkIssue(r) \/ EnterUpdate(r)
      BY <3>4 DEF LinkIssue, EnterUpdate
    <3>5. CASE CheckVersion(r)
      BY <3>5 DEF CheckVersion
    <3>6. CASE LeaveStatus(r)
      BY <3>6 DEF LeaveStatus
    <3> QED BY <1>2, <3>1, <3>2, <3>3, <3>4, <3>5, <3>6 DEF Call
  <2>2. IsPending(r, c)' <=> IsPending(r, c)
    BY <2>1 DEF IsPending
  <2>3. Pending(c)' = Pending(c)
    BY <1>2, <2>2, PendingOthers DEF Serve, Pending
  <2> QED BY <2>1, <2>3, CountedAsBefore
<1>3. CASE UNCHANGED vars
  BY <1>3, CountedAsBefore DEF vars, Pending, IsPending
<1>4. ASSUME NEW s \in Servers, Tick(s) PROVE Counted(c)'
  BY <1>4, CountedAsBefore DEF Tick, stored, Pending, IsPending
<1> QED BY <1>1, <1>2, <1>3, <1>4, CountedSave, CountedEvent, CountedLeave DEF Next, Serve

LEMMA AuditStep ==
    /\ TypeOK /\ Route /\ Holding /\ Finite /\ AuditComplete /\ [Next]_vars
    => Finite' /\ AuditComplete'
<1> SUFFICES ASSUME TypeOK, Route, Holding, \A c \in Cases : Counted(c), [Next]_vars
             PROVE  \A c \in Cases : Counted(c)'
  <2>1. (Finite /\ AuditComplete)' <=> \A c \in Cases : Counted(c)'
    BY DEF Finite, AuditComplete, Counted, Pending, IsPending
  <2> QED BY <2>1, AuditByCase
<1> QED BY CountedStep

-----------------------------------------------------------------------------
(* The invariant is kept *)

LEMMA InitInv == Init => IInv
<1> SUFFICES ASSUME Init PROVE IInv
  OBVIOUS
<1>1. TypeOK /\ Route
  BY TypeInit
<1>2. \A r \in Clients : pc[r] = "idle" /\ page[r] = NoLaunch /\ answer[r] = "none" /\ ~Reporting(r)
  BY DEF Init, Reporting
<1>3. Holding /\ Copies /\ Fresh /\ ReportsDoNotCollide
  BY <1>2 DEF Holding, Copies, CopiesOf, Fresh, ReportsDoNotCollide, Working
<1>4. Stamped /\ ResultsStay
  BY DEF Init, Stamped, ResultsStay, NewLaunch
<1>5. \A c \in Cases : Counted(c)
  <2> SUFFICES ASSUME NEW c \in Cases PROVE Counted(c)
    OBVIOUS
  <2>1. Pending(c) = {}
    BY <1>2 DEF Pending, IsPending
  <2> QED BY <2>1, FS_EmptySet DEF Counted, Init
<1> QED BY <1>1, <1>3, <1>4, <1>5, AuditByCase DEF IInv

LEMMA NextInv == IInv /\ [Next]_vars => IInv'
BY TypeStep, HoldingStep, StampedStep, CopiesStep, ResultsStep, FreshStep, CollideStep,
   AuditStep DEF IInv

(* The theorems below are parts of the one invariant, or follow from it for *)
(* a step.                                                                  *)
THEOREM Invariance == Spec => []IInv
BY InitInv, NextInv, PTL DEF Spec

(* Every state is of the types that TypeOK gives: a save recounts to as     *)
(* many test cases of each status as there are, and sums whole durations.   *)
THEOREM TypeCorrect == Spec => []TypeOK
<1>1. IInv => TypeOK
  BY DEF IInv
<1> QED BY <1>1, Invariance, PTL

(* No saved status is lost to another report or to the save of an old page, *)
(* on whatever servers and however late, unless a tryLock has timed out or  *)
(* two saves bear the same time.                                            *)
THEOREM NoResultLost == Spec => []ResultsStay
<1>1. IInv => ResultsStay
  BY DEF IInv
<1> QED BY <1>1, Invariance, PTL

(* A report is refused as stale only after an edit or a timeout: the lock   *)
(* of updateLaunchTestCaseStatus is held over the read and the save.        *)
THEOREM NoReportRefused == Spec => []ReportsDoNotCollide
<1>1. IInv => ReportsDoNotCollide
  BY DEF IInv
<1> QED BY <1>1, Invariance, PTL

(* With neither a timeout nor a crash, every saved result is in the audit   *)
(* or about to be, for any number of testers.                               *)
THEOREM EveryResultAudited == Spec => []AuditComplete
<1>1. IInv => AuditComplete
  BY DEF IInv
<1> QED BY <1>1, Invariance, PTL

(* The start and the finish of a launch, once set, are set for good. *)
THEOREM TimesKept == Spec => TimesStay
<1> DEFINE Stay == \/ /\ launch.finishTime # 0 => launch'.finishTime = launch.finishTime
                      /\ launch.startTime # 0 => launch'.startTime = launch.startTime
                   \/ hazards' \cap {"timeout", "clock"} # {}
<1>1. IInv /\ [Next]_vars => [Stay]_vars
  <2> SUFFICES ASSUME IInv, [Next]_vars, Calm'
               PROVE  /\ launch.finishTime # 0 => launch'.finishTime = launch.finishTime
                      /\ launch.startTime # 0 => launch'.startTime = launch.startTime
    BY DEF Calm
  <2>1. ASSUME NEW r \in Clients, Save(r)
        PROVE  /\ launch.finishTime # 0 => launch'.finishTime = launch.finishTime
               /\ launch.startTime # 0 => launch'.startTime = launch.startTime
    BY <2>1, Stores DEF IInv
  <2> QED BY <2>1, OnlySaves DEF Unstored
<1> QED BY <1>1, Invariance, PTL DEF Spec, TimesStay
=============================================================================
