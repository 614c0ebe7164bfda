----------------------------- MODULE Numbering ------------------------------
(***************************************************************************)
(* How test cases get their ids: SequencerService's counter under its own  *)
(* Hazelcast lock, TestCaseService.beforeCreate, which numbers a new test  *)
(* case or lets it take over the one that already has its alias, and       *)
(* ProjectService.createProject, which sets up a counter too.  Servers may *)
(* die in the middle of a call.                                            *)
(***************************************************************************)
EXTENDS Integers, FiniteSets

CONSTANTS Requests,   \* clients, each with at most one call under way
          Projects,   \* ids of projects
          Aliases,    \* aliases of test cases
          NoAlias,    \* a test case without one
          NoProject,  \* the projectId argument of a create of a project: null
          Nobody,     \* the owner of a free lock
          MaxCalls    \* bound: calls that reach the service

ASSUME NumberingAssumption ==
    /\ NoAlias \notin Aliases
    /\ NoProject \notin Projects
    /\ Nobody \notin Requests
    /\ MaxCalls \in Nat

Keys == Projects \cup {NoProject}
TestCase == [id : Nat, alias : Aliases \cup {NoAlias}]

VARIABLES
    projects,  \* the projects that are stored
    index,     \* the counter stored for each key, 0 before the first
    owner,     \* the lock of each counter
    testcases, \* project -> the test cases stored for it
    pc,        \* where the call of each client is
    new,       \* what the call is: a create of a test case or project, an update
    project,   \* the project it concerns
    alias,     \* the alias the test case is to have
    seen,      \* the counter as this call has read it
    id,        \* the id the test case is to be stored under
    calls,     \* calls made so far (bound)
    (* history, read by the properties only *)
    hazards,   \* circumstances met that the lock and the checks do not cover
    replaced   \* a stored project has been replaced by a new one

locals == <<new, project, alias>>
vars == <<projects, index, owner, testcases, pc, new, project, alias, seen, id,
          calls, hazards, replaced>>

(* A tryLock has run into its time limit; two calls have looked for the   *)
(* same alias or project at once; an update has changed an alias, or has  *)
(* written back a test case that was deleted after the update had read it. *)
Hazards == {"timeout", "race", "realias", "restored"}

TypeOK ==
    /\ projects \subseteq Projects
    /\ index \in [Keys -> Nat]
    /\ owner \in [Keys -> Requests \cup {Nobody}]
    /\ testcases \in [Projects -> SUBSET TestCase]
    /\ pc \in [Requests -> {"idle", "queue", "read", "write", "unlock", "named"}]
    /\ new \in [Requests -> {"numbered", "merged", "update", "project"}]
    /\ project \in [Requests -> Projects]
    /\ alias \in [Requests -> Aliases \cup {NoAlias}]
    /\ seen \in [Requests -> Nat]
    /\ id \in [Requests -> Nat]
    /\ calls \in Nat
    /\ hazards \subseteq Hazards
    /\ replaced \in BOOLEAN

Init ==
    /\ projects = {}
    /\ index = [k \in Keys |-> 0]
    /\ owner = [k \in Keys |-> Nobody]
    /\ testcases = [p \in Projects |-> {}]
    /\ pc = [r \in Requests |-> "idle"]
    /\ new = [r \in Requests |-> "numbered"]
    /\ project \in [Requests -> Projects]
    /\ alias = [r \in Requests |-> NoAlias]
    /\ seen = [r \in Requests |-> 0]
    /\ id = [r \in Requests |-> 0]
    /\ calls = 0
    /\ hazards = {}
    /\ replaced = FALSE

-----------------------------------------------------------------------------
(* The counter a call works on.  createProject passes its projectId       *)
(* argument on, which is null, so that a new project leaves the counter   *)
(* alone that its test cases are numbered from.                           *)
SequencerId_ofEntity(r) == project[r]  \* slip: the id of the new project
SequencerId(r) == IF new[r] = "project" THEN NoProject ELSE project[r]

(* A create looks for its alias, or for its project; an update for nothing. *)
Searches(kind) == kind \in {"numbered", "merged"}

(* Calls under way that look for the same alias, or create the same project. *)
Rivals(r, kind, p, a) ==
    {q \in Requests \ {r} :
        /\ pc[q] # "idle" /\ project[q] = p
        /\ \/ kind = "project" /\ new[q] = "project"
           \/ Searches(kind) /\ Searches(new[q]) /\ a # NoAlias /\ alias[q] = a}

Begin(r, kind, p, a, at) ==
    /\ calls < MaxCalls
    /\ calls' = calls + 1
    /\ pc' = [pc EXCEPT ![r] = at]
    /\ new' = [new EXCEPT ![r] = kind]
    /\ project' = [project EXCEPT ![r] = p]
    /\ alias' = [alias EXCEPT ![r] = a]
    /\ hazards' = hazards \cup (IF Rivals(r, kind, p, a) = {} THEN {} ELSE {"race"})
    /\ UNCHANGED <<projects, index, owner, testcases, seen, replaced>>

KnownAs_missed(p, a) == {}  \* slip: the search misses what it should find
KnownAs(p, a) == {c \in testcases[p] : c.alias = a /\ a # NoAlias}

Exists_unchecked(p) == FALSE  \* slip: no check of the project id
Exists(p) == p \in projects

(* A new test case whose alias nobody has goes on to get a number ... *)
CreateTestCase(r, p, a) ==
    /\ pc[r] = "idle"
    /\ KnownAs(p, a) = {}
    /\ Begin(r, "numbered", p, a, "queue")
    /\ UNCHANGED id

(* ... and one whose alias is known, on a deleted test case too, is merged *)
(* with the test case found and takes its id.                              *)
MergeTestCase(r, p, c) ==
    /\ pc[r] = "idle"
    /\ c \in KnownAs(p, c.alias)
    /\ Begin(r, "merged", p, c.alias, "named")
    /\ id' = [id EXCEPT ![r] = c.id]

(* createProject, if the id is not taken. *)
CreateProject(r, p) ==
    /\ pc[r] = "idle"
    /\ ~Exists(p)
    /\ Begin(r, "project", p, NoAlias, "queue")
    /\ UNCHANGED id

(* update has found the stored test case, and the page is not older than   *)
(* it, or a bulk save has read it.  What is to be written has the id found *)
(* and any alias: nothing is looked for.  Which updates the lock of the    *)
(* test case and the time check let in is EntityStore's matter; here any   *)
(* may be under way.                                                       *)
UpdateTestCase(r, p, c, a) ==
    /\ pc[r] = "idle"
    /\ Begin(r, "update", p, a, "named")
    /\ id' = [id EXCEPT ![r] = c.id]

-----------------------------------------------------------------------------
(* SequencerService.create and increment *)

LockFree_anyone(k) == TRUE  \* slip: a lock object per call
LockFree(k) == owner[k] = Nobody

Acquire(r) ==
    /\ pc[r] = "queue"
    /\ LockFree(SequencerId(r))
    /\ owner' = [owner EXCEPT ![SequencerId(r)] = r]
    /\ pc' = [pc EXCEPT ![r] = "read"]
    /\ UNCHANGED <<projects, index, testcases, locals, seen, id, calls,
                   hazards, replaced>>

(* tryLock gives up after five minutes; its answer is not looked at. *)
LockTimeout(r) ==
    /\ pc[r] = "queue"
    /\ ~LockFree(SequencerId(r))
    /\ pc' = [pc EXCEPT ![r] = "read"]
    /\ hazards' = hazards \cup {"timeout"}
    /\ UNCHANGED <<projects, index, owner, testcases, locals, seen, id, calls,
                   replaced>>

(* increment: findById, or a new Sequencer, whose index is 0. *)
ReadIndex(r) ==
    /\ pc[r] = "read"
    /\ new[r] = "numbered"
    /\ seen' = [seen EXCEPT ![r] = index[SequencerId(r)]]
    /\ pc' = [pc EXCEPT ![r] = "write"]
    /\ UNCHANGED <<projects, index, owner, testcases, locals, id, calls,
                   hazards, replaced>>

Following_back(n) == n - 1  \* slip: the wrong sign
Following(n) == n + 1

WriteIndex(r) ==
    /\ pc[r] = "write"
    /\ LET n == Following(seen[r]) IN
       /\ index' = [index EXCEPT ![SequencerId(r)] = n]
       /\ id' = [id EXCEPT ![r] = n]
    /\ pc' = [pc EXCEPT ![r] = "unlock"]
    /\ UNCHANGED <<projects, owner, testcases, locals, seen, calls, hazards, replaced>>

(* create: a new Sequencer over whatever is stored. *)
ResetIndex(r) ==
    /\ pc[r] = "read"
    /\ new[r] = "project"
    /\ index' = [index EXCEPT ![SequencerId(r)] = 0]
    /\ pc' = [pc EXCEPT ![r] = "unlock"]
    /\ UNCHANGED <<projects, owner, testcases, locals, seen, id, calls,
                   hazards, replaced>>

(* unlock throws if the lock is not held, and the call ends there. *)
Unlock(r) ==
    /\ pc[r] = "unlock"
    /\ LET k == SequencerId(r) IN
       /\ pc' = [pc EXCEPT ![r] = IF owner[k] = r THEN "named" ELSE "idle"]
       /\ owner' = [owner EXCEPT ![k] = IF @ = r THEN Nobody ELSE @]
    /\ UNCHANGED <<projects, index, testcases, locals, seen, id, calls,
                   hazards, replaced>>

-----------------------------------------------------------------------------
(* userCanCreate refuses the entity as it is after the merge; what comes  *)
(* between the find and the save of an update refuses it.                 *)
Refuse(r) ==
    /\ pc[r] = "named"
    /\ pc' = [pc EXCEPT ![r] = "idle"]
    /\ UNCHANGED <<projects, index, owner, testcases, locals, seen, id, calls,
                   hazards, replaced>>

(* The repository's save replaces the test case that has the id, if any. *)
Saved(r) == [id |-> id[r], alias |-> alias[r]]
Store(r) ==
    /\ testcases' = [testcases EXCEPT ![project[r]] =
                        {c \in @ : c.id # id[r]} \cup {Saved(r)}]
    /\ pc' = [pc EXCEPT ![r] = "idle"]
    /\ UNCHANGED <<projects, index, owner, locals, seen, id, calls, replaced>>

SaveTestCase(r) ==
    /\ pc[r] = "named"
    /\ Searches(new[r])
    /\ Store(r)
    /\ UNCHANGED hazards

(* What a save of an update may do to the names. *)
Renaming(r) ==
    IF Saved(r) \in testcases[project[r]] THEN {}
    ELSE IF \E c \in testcases[project[r]] : c.id = id[r] THEN {"realias"}
    ELSE {"restored"}

SaveUpdate(r) ==
    /\ pc[r] = "named"
    /\ new[r] = "update"
    /\ Store(r)
    /\ hazards' = hazards \cup Renaming(r)

SaveProject(r) ==
    /\ pc[r] = "named"
    /\ new[r] = "project"
    /\ projects' = projects \cup {project[r]}
    /\ replaced' = (replaced \/ project[r] \in projects)
    /\ pc' = [pc EXCEPT ![r] = "idle"]
    /\ UNCHANGED <<index, owner, testcases, locals, seen, id, calls, hazards>>

(* A deleted test case does not free its number; the delete takes no lock ... *)
DeleteTestCase(p, c) ==
    /\ testcases' = [testcases EXCEPT ![p] = @ \ {c}]
    /\ UNCHANGED <<projects, index, owner, pc, locals, seen, id, calls,
                   hazards, replaced>>

(* ... and a deleted project leaves its test cases and counter behind. *)
DeleteProject(p) ==
    /\ p \in projects
    /\ projects' = projects \ {p}
    /\ UNCHANGED <<index, owner, testcases, pc, locals, seen, id, calls,
                   hazards, replaced>>

(* The server dies with the call; Hazelcast takes its lock away. *)
ServerDies(r) ==
    /\ pc[r] # "idle"
    /\ pc' = [pc EXCEPT ![r] = "idle"]
    /\ owner' = [k \in Keys |-> IF owner[k] = r THEN Nobody ELSE owner[k]]
    /\ UNCHANGED <<projects, index, testcases, locals, seen, id, calls,
                   hazards, replaced>>

Call(r) ==
    \E p \in Projects :
        \/ \E a \in Aliases \cup {NoAlias} : CreateTestCase(r, p, a)
        \/ \E c \in testcases[p] :
               \/ MergeTestCase(r, p, c)
               \/ \E a \in Aliases \cup {NoAlias} : UpdateTestCase(r, p, c, a)
        \/ CreateProject(r, p)

Serve(r) ==
    \/ Acquire(r)
    \/ LockTimeout(r)
    \/ ReadIndex(r)
    \/ WriteIndex(r)
    \/ ResetIndex(r)
    \/ Unlock(r)
    \/ Refuse(r)
    \/ SaveTestCase(r)
    \/ SaveUpdate(r)
    \/ SaveProject(r)

Next ==
    \/ \E r \in Requests : Call(r) \/ Serve(r) \/ ServerDies(r)
    \/ \E p \in Projects :
        \/ DeleteProject(p)
        \/ \E c \in testcases[p] : DeleteTestCase(p, c)

Spec == Init /\ [][Next]_vars

-----------------------------------------------------------------------------
(* Properties *)

(* The number a new test case is about to be saved under is its own: no     *)
(* stored test case of the project has it and no other new one has been     *)
(* given it, across deletions, recreated projects and dead servers, unless  *)
(* a tryLock has timed out.                                                 *)
NumbersAreFresh ==
    "timeout" \notin hazards =>
        \A r \in Requests : pc[r] = "named" /\ new[r] = "numbered" =>
            /\ \A c \in testcases[project[r]] : c.id # id[r]
            /\ \A q \in Requests \ {r} :
                   pc[q] \in {"unlock", "named"} /\ new[q] # "project"
                       /\ project[q] = project[r] => id[q] # id[r]

(* The counter of a project is never set back, whether or not a project of *)
(* that id is created again.                                               *)
NeverSetBack ==
    [][\A p \in Projects : "timeout" \in hazards' \/ index[p] <= index'[p]]_vars

(* beforeCreate's search by alias keeps an alias to one test case, unless  *)
(* two creates look for it at once, an update changes an alias, or an      *)
(* update writes back a test case deleted since it was read (the delete    *)
(* takes no lock), whose alias a create may have found free meanwhile.     *)
AliasNamesOne ==
    hazards \subseteq {"timeout"} =>
        \A p \in Projects : \A c, d \in testcases[p] :
            c.alias = d.alias /\ c.alias # NoAlias => c = d

(* "Project with id %s already exists": a create does not replace a stored *)
(* project, unless two creates of the same id are under way at once.       *)
ProjectsNotReplaced == "race" \notin hazards => ~replaced

(* The storing of a number is over before anyone else reads the counter. *)
OneAtTheCounter ==
    "timeout" \notin hazards =>
        \A r, q \in Requests :
            /\ pc[r] \in {"read", "write", "unlock"}
            /\ pc[q] \in {"read", "write", "unlock"}
            /\ SequencerId(r) = SequencerId(q)
            => r = q

-----------------------------------------------------------------------------
(* The inductive invariant behind these properties *)

(* A call that takes over a test case, or updates it, does not go through *)
(* the sequencer, and a number is written only for a new one.             *)
Route ==
    \A r \in Requests :
        /\ pc[r] \in {"queue", "read", "write", "unlock"} =>
               new[r] \in {"numbered", "project"}
        /\ pc[r] = "write" => new[r] = "numbered"

AtCounter(r) == pc[r] \in {"read", "write", "unlock"}

(* A call holds the lock of its counter from its wait to its unlock. *)
HoldsLock == \A r \in Requests : AtCounter(r) => owner[SequencerId(r)] = r

(* What a call has read of the counter is what is still stored. *)
SeenStays ==
    \A r \in Requests : pc[r] = "write" => seen[r] = index[project[r]]

(* A call that has the id its test case will be stored under. *)
HasId(r) == pc[r] \in {"unlock", "named"} /\ new[r] # "project"

(* The counter is at least every id stored or about to be. *)
Counted ==
    /\ \A p \in Projects : \A c \in testcases[p] : c.id <= index[p]
    /\ \A r \in Requests : HasId(r) => id[r] <= index[project[r]]

(* A number just given is nobody else's. *)
Own(r) ==
    /\ \A c \in testcases[project[r]] : c.id # id[r]
    /\ \A q \in Requests \ {r} :
           HasId(q) /\ project[q] = project[r] => id[q] # id[r]

Unshared == \A r \in Requests : HasId(r) /\ new[r] = "numbered" => Own(r)

IInv ==
    /\ TypeOK
    /\ Route
    /\ "timeout" \notin hazards => HoldsLock /\ SeenStays /\ Counted /\ Unshared

(* Two calls that look for the same name are on record as a race. *)
RacesNoted ==
    "race" \notin hazards =>
        \A r, q \in Requests :
            /\ pc[r] # "idle" /\ pc[q] # "idle" /\ r # q
            /\ project[r] = project[q]
            => /\ new[r] # "project" \/ new[q] # "project"
               /\ Searches(new[r]) /\ Searches(new[q]) =>
                      alias[r] = NoAlias \/ alias[r] # alias[q]

(* What a call has found, or not found, under the name it looked for is *)
(* still so when it saves.                                              *)
ProjectFree ==
    "race" \notin hazards =>
        \A r \in Requests :
            pc[r] # "idle" /\ new[r] = "project" => project[r] \notin projects

AliasKept(r) ==
    \A c \in testcases[project[r]] : c.alias = alias[r] /\ alias[r] # NoAlias =>
        new[r] = "merged" /\ c.id = id[r]

AliasesKept ==
    hazards \subseteq {"timeout"} =>
        \A r \in Requests : pc[r] # "idle" /\ Searches(new[r]) => AliasKept(r)

NameInv ==
    /\ TypeOK
    /\ Route
    /\ RacesNoted
    /\ ProjectFree
    /\ ProjectsNotReplaced
    /\ AliasesKept
    /\ AliasNamesOne
=============================================================================
