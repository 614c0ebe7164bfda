---------------------------- MODULE EntityStore ----------------------------
(***************************************************************************)
(* One collection of the service: BaseService's create, update, delete and *)
(* bulk save of an entity, over the Mongo repository and the Hazelcast     *)
(* lock that update takes.  Several application servers, each with its own *)
(* wall clock, serve the requests; a client keeps the entity it last read  *)
(* on its page and may send it back at any later time.                     *)
(*                                                                         *)
(* A stored entity is abstracted to what update looks at: the time of its  *)
(* last modification, the locked flag of a test case, and a version number *)
(* that names its content and that only the properties read.               *)
(***************************************************************************)
EXTENDS Integers, FiniteSets

CONSTANTS Ids,       \* ids of the entities of the collection
          Requests,  \* clients, each with at most one call under way
          Servers,   \* application servers behind the load balancer
          Role,      \* the role capability of each client
          ServerOf,  \* the server the load balancer sends each client to
          Absent,    \* what the repository returns for an id it does not hold
          Nobody,    \* the owner of a free lock
          MaxTime,   \* bound: clocks stop here
          MaxCalls   \* bound: calls that reach the service

Roles == {"admin", "writer", "reader"}

Doc == [lmt : Nat, locked : BOOLEAN, ver : Nat]

ASSUME EntityStoreAssumption ==
    /\ Role \in [Requests -> Roles]
    /\ ServerOf \in [Requests -> Servers]
    /\ Absent \notin Doc
    /\ Nobody \notin Requests
    /\ MaxTime \in Nat
    /\ MaxCalls \in Nat

VARIABLES
    store,    \* the collection: id -> entity or Absent
    owner,    \* the lock update takes on an id: its owner or Nobody
    clock,    \* wall clock of each server, in milliseconds
    pc,       \* where the call of each client is
    op,       \* the kind of that call
    target,   \* the id it is about
    page,     \* the entities the client last read, one per id
    entity,   \* the entity the server works on
    outcome,  \* what the client was told last
    calls,    \* calls made so far (bound)
    (* history, read by the properties only *)
    written,  \* saves so far: the last version number given out
    newest,   \* id -> latest modification time ever stored under it
    hazards,  \* circumstances met that the lock and the check do not cover
    harms     \* damage done to the data

db == <<store, newest, written, harms>>
vars == <<store, owner, clock, pc, op, target, page, entity, outcome, calls,
          written, newest, hazards, harms>>

Ops == {"edit", "lock", "unlock", "create", "delete", "bulk"}
Updates == {"edit", "lock", "unlock"}
Hazards == {"timeout", "clock", "overlap", "unstamped"}
Harms == {"lostUpdate", "resurrected", "lockedTouched"}

TypeOK ==
    /\ store \in [Ids -> Doc \cup {Absent}]
    /\ owner \in [Ids -> Requests \cup {Nobody}]
    /\ clock \in [Servers -> Nat]
    /\ pc \in [Requests -> {"idle", "waiting", "held", "checked", "stamped",
                            "deleting", "bulk", "unlock"}]
    /\ op \in [Requests -> Ops]
    /\ target \in [Requests -> Ids]
    /\ page \in [Requests -> [Ids -> Doc \cup {Absent}]]
    /\ entity \in [Requests -> Doc \cup {Absent}]
    /\ outcome \in [Requests -> {"none", "saved", "refused", "error"}]
    /\ calls \in Nat
    /\ written \in Nat
    /\ newest \in [Ids -> Nat]
    /\ hazards \subseteq Hazards
    /\ harms \subseteq Harms

(* Every entity is absent or was stored by an earlier, finished call. *)
Init ==
    /\ store \in [Ids -> {Absent} \cup
                         [lmt : {0}, locked : BOOLEAN, ver : {1}]]
    /\ owner = [i \in Ids |-> Nobody]
    /\ clock = [s \in Servers |-> 0]
    /\ pc = [r \in Requests |-> "idle"]
    /\ op = [r \in Requests |-> "edit"]
    /\ target \in [Requests -> Ids]
    /\ page = [r \in Requests |-> [i \in Ids |-> Absent]]
    /\ entity = [r \in Requests |-> Absent]
    /\ outcome = [r \in Requests |-> "none"]
    /\ calls = 0
    /\ written = 1
    /\ newest = [i \in Ids |-> 0]
    /\ hazards = {}
    /\ harms = {}

-----------------------------------------------------------------------------
(* Permissions and the progress of the other calls *)

IsAdmin(r) == Role[r] = "admin"

(* The check looks at the entity in hand, not at the stored one. *)
UserCanUpdateProject(r, doc) ==
    IsAdmin(r) \/ (~doc.locked /\ Role[r] = "writer")

(* userCanDelete loads the stored entity, which may be absent. *)
UserCanDelete(r, doc) ==
    IF doc = Absent THEN Role[r] # "reader" ELSE UserCanUpdateProject(r, doc)

(* A call between the tryLock of update and its unlock. *)
InUpdate(r) == op[r] \in Updates /\ pc[r] \in {"held", "checked", "stamped"}

(* A call that has made its check and has yet to write, without a lock. *)
InUnlocked(r) ==
    \/ op[r] = "create" /\ pc[r] \in {"checked", "stamped"}
    \/ pc[r] \in {"deleting", "bulk"}

Overlap(r, i) ==
    IF \E q \in Requests \ {r} : target[q] = i /\ (InUpdate(q) \/ InUnlocked(q))
    THEN {"overlap"} ELSE {}

UnlockedOverlap(r, i) ==
    IF \E q \in Requests \ {r} : target[q] = i /\ InUnlocked(q)
    THEN {"overlap"} ELSE {}

(* What a write over the stored entity of id i destroys. *)
Damage(r, i) ==
    (IF store[i] # Absent /\ store[i].ver # entity[r].ver
     THEN {"lostUpdate"} ELSE {})
    \cup
    (IF store[i] = Absent /\ op[r] # "create" THEN {"resurrected"} ELSE {})
    \cup
    (IF store[i] # Absent /\ store[i].locked /\ ~IsAdmin(r) /\ op[r] # "unlock"
     THEN {"lockedTouched"} ELSE {})

-----------------------------------------------------------------------------
(* Calls *)

(* The client opens the entity: findOne. *)
Get(r, i) ==
    /\ pc[r] = "idle"
    /\ page' = [page EXCEPT ![r][i] = store[i]]
    /\ UNCHANGED <<db, owner, clock, pc, op, target, entity, outcome, calls,
                   hazards>>

(* A call leaves the idle state: it goes on with an entity, or is refused. *)
Proceed(r, o, i, doc, at) ==
    /\ pc' = [pc EXCEPT ![r] = at]
    /\ op' = [op EXCEPT ![r] = o]
    /\ target' = [target EXCEPT ![r] = i]
    /\ entity' = [entity EXCEPT ![r] = doc]
    /\ UNCHANGED outcome

Refuse(r) ==
    /\ outcome' = [outcome EXCEPT ![r] = "refused"]
    /\ UNCHANGED <<pc, op, target, entity>>

CountCall ==
    /\ calls < MaxCalls
    /\ calls' = calls + 1

(* save of an entity with an id: the client sends its page back. *)
Save(r, i) ==
    /\ pc[r] = "idle"
    /\ page[r][i] # Absent
    /\ CountCall
    /\ IF UserCanUpdateProject(r, page[r][i])
       THEN Proceed(r, "edit", i, page[r][i], "waiting")
       ELSE Refuse(r)
    /\ UNCHANGED <<db, owner, clock, page, hazards>>

(* lockTestCase and unlockTestCase: the server itself reads the test case, *)
(* flips the flag and calls update with it.                                *)
SetLocked(r, i, flag) ==
    /\ pc[r] = "idle"
    /\ CountCall
    /\ LET flipped == [store[i] EXCEPT !.locked = flag] IN
       IF /\ store[i] # Absent
          /\ store[i].locked # flag
          /\ UserCanUpdateProject(r, flipped)
       THEN Proceed(r, IF flag THEN "lock" ELSE "unlock", i, flipped, "waiting")
       ELSE Refuse(r)
    /\ UNCHANGED <<db, owner, clock, page, hazards>>

LockTestCase(r, i) == SetLocked(r, i, TRUE)
UnlockTestCase(r, i) == SetLocked(r, i, FALSE)

(* create with a chosen id: beforeCreate's check that the id is unused.  *)
(* No lock is taken.                                                     *)
Create(r, i) ==
    /\ pc[r] = "idle"
    /\ CountCall
    /\ LET new == [lmt |-> 0, locked |-> FALSE, ver |-> 0] IN
       IF store[i] = Absent /\ UserCanUpdateProject(r, new)
       THEN /\ Proceed(r, "create", i, new, "checked")
            /\ hazards' = hazards \cup Overlap(r, i)
       ELSE /\ Refuse(r)
            /\ UNCHANGED hazards
    /\ UNCHANGED <<db, owner, clock, page>>

(* delete: userCanDelete reads the stored entity ... *)
Delete(r, i) ==
    /\ pc[r] = "idle"
    /\ CountCall
    /\ IF UserCanDelete(r, store[i])
       THEN /\ Proceed(r, "delete", i, Absent, "deleting")
            /\ hazards' = hazards \cup Overlap(r, i)
       ELSE /\ Refuse(r)
            /\ UNCHANGED hazards
    /\ UNCHANGED <<db, owner, clock, page>>

(* ... and then findOne and the repository's delete find it again. *)
Remove(r) ==
    /\ pc[r] = "deleting"
    /\ LET i == target[r] IN
       /\ store' = [store EXCEPT ![i] = Absent]
       /\ outcome' = [outcome EXCEPT
                        ![r] = IF store[i] = Absent THEN "refused" ELSE "saved"]
       /\ harms' = harms \cup
            (IF store[i] # Absent /\ store[i].locked /\ ~IsAdmin(r)
             THEN {"lockedTouched"} ELSE {})
    /\ pc' = [pc EXCEPT ![r] = "idle"]
    /\ UNCHANGED <<owner, clock, op, target, page, entity, calls, written,
                   newest, hazards>>

(* The bulk save of another service (an attribute whose values changed): *)
(* the entities are read, changed and checked ...                        *)
BulkRead(r, i) ==
    /\ pc[r] = "idle"
    /\ CountCall
    /\ IF store[i] # Absent /\ UserCanUpdateProject(r, store[i])
       THEN /\ Proceed(r, "bulk", i, store[i], "bulk")
            /\ hazards' = hazards \cup Overlap(r, i)
       ELSE /\ Refuse(r)
            /\ UNCHANGED hazards
    /\ UNCHANGED <<db, owner, clock, page>>

(* ... and written back whole: no lock, no check, no new modification time. *)
BulkWrite(r) ==
    /\ pc[r] = "bulk"
    /\ LET i == target[r] IN
       /\ store' = [store EXCEPT ![i] = [entity[r] EXCEPT !.ver = written + 1]]
       /\ harms' = harms \cup Damage(r, i)
    /\ written' = written + 1
    /\ hazards' = hazards \cup {"unstamped"}
    /\ outcome' = [outcome EXCEPT ![r] = "saved"]
    /\ pc' = [pc EXCEPT ![r] = "idle"]
    /\ entity' = [entity EXCEPT ![r] = Absent]
    /\ UNCHANGED <<owner, clock, op, target, page, calls, newest>>

-----------------------------------------------------------------------------
(* update *)

LockFree_anyone(r) == TRUE  \* slip: a lock object per call
LockFree(r) == owner[target[r]] = Nobody

Acquire(r) ==
    /\ pc[r] = "waiting"
    /\ LockFree(r)
    /\ owner' = [owner EXCEPT ![target[r]] = r]
    /\ pc' = [pc EXCEPT ![r] = "held"]
    /\ hazards' = hazards \cup UnlockedOverlap(r, target[r])
    /\ UNCHANGED <<db, clock, op, target, page, entity, outcome, calls>>

(* tryLock gives up after lockTtl minutes; its answer is not looked at. *)
LockTimeout(r) ==
    /\ pc[r] = "waiting"
    /\ ~LockFree(r)
    /\ pc' = [pc EXCEPT ![r] = "held"]
    /\ hazards' = hazards \cup {"timeout"} \cup UnlockedOverlap(r, target[r])
    /\ UNCHANGED <<db, owner, clock, op, target, page, entity, outcome, calls>>

(* The stored entity is there and is not newer than the one in hand. *)
MayReplace_unchecked(existing, doc) == existing # Absent  \* slip: no comparison
MayReplace_upsert(existing, doc) ==  \* slip: a missing entity is accepted
    existing = Absent \/ existing.lmt <= doc.lmt
MayReplace(existing, doc) == existing # Absent /\ existing.lmt <= doc.lmt

AfterCheck_retry(ok) == IF ok THEN "checked" ELSE "held"  \* slip: try again
AfterCheck(ok) == IF ok THEN "checked" ELSE "unlock"

(* findOneUnfiltered, and the check that the stored entity is not newer. *)
CheckVersion(r) ==
    /\ pc[r] = "held"
    /\ LET ok == MayReplace(store[target[r]], entity[r]) IN
       /\ pc' = [pc EXCEPT ![r] = AfterCheck(ok)]
       /\ outcome' = [outcome EXCEPT ![r] = IF ok THEN @ ELSE "refused"]
    /\ UNCHANGED <<db, owner, clock, op, target, page, entity, calls, hazards>>

(* Instant.now().toEpochMilli() on the server that serves r. *)
Now_early(r) == clock[ServerOf[r]] - 1  \* slip: rounded down once too often
Now(r) == clock[ServerOf[r]]

(* beforeSave sets the modification time from the server's wall clock. *)
Stamp(r) ==
    /\ pc[r] = "checked"
    /\ LET now == Now(r) IN
       /\ entity' = [entity EXCEPT ![r].lmt = now]
       /\ hazards' = hazards \cup
            (IF now <= newest[target[r]] THEN {"clock"} ELSE {})
    /\ pc' = [pc EXCEPT ![r] = "stamped"]
    /\ UNCHANGED <<db, owner, clock, op, target, page, outcome, calls>>

(* The repository's save replaces the whole document, or inserts it. *)
Write(r) ==
    /\ pc[r] = "stamped"
    /\ LET i == target[r]
           saved == [entity[r] EXCEPT !.ver = written + 1] IN
       /\ store' = [store EXCEPT ![i] = saved]
       /\ entity' = [entity EXCEPT ![r] = saved]
       /\ harms' = harms \cup Damage(r, i)
       /\ newest' = [newest EXCEPT ![i] = IF @ < saved.lmt THEN saved.lmt ELSE @]
    /\ written' = written + 1
    /\ outcome' = [outcome EXCEPT ![r] = "saved"]
    /\ pc' = [pc EXCEPT ![r] = "unlock"]
    /\ UNCHANGED <<owner, clock, op, target, page, calls, hazards>>

(* The owner of the lock of id i once r has called unlock. *)
Released_ifSaved(r, i) ==  \* slip: unlock outside of the finally block
    IF owner[i] = r /\ outcome[r] = "saved" THEN Nobody ELSE owner[i]
Released(r, i) == IF owner[i] = r THEN Nobody ELSE owner[i]

(* The finally block.  unlock throws when the lock is not held, and the  *)
(* client is then told of an error whatever was saved; otherwise a saved *)
(* entity is what the client's page now shows.  A create took no lock.   *)
Finish(r) ==
    /\ pc[r] = "unlock"
    /\ LET i == target[r]
           unheld == op[r] # "create" /\ owner[i] # r IN
       /\ owner' = [owner EXCEPT ![i] = Released(r, i)]
       /\ outcome' = [outcome EXCEPT ![r] = IF unheld THEN "error" ELSE @]
       /\ page' = [page EXCEPT ![r][i] =
                     IF outcome[r] = "saved" /\ ~unheld THEN entity[r] ELSE @]
    /\ pc' = [pc EXCEPT ![r] = "idle"]
    /\ entity' = [entity EXCEPT ![r] = Absent]
    /\ UNCHANGED <<db, clock, op, target, calls, hazards>>

(* The wall clocks of the servers move on, each at its own pace. *)
Tick(s) ==
    /\ clock[s] < MaxTime
    /\ clock' = [clock EXCEPT ![s] = @ + 1]
    /\ UNCHANGED <<db, owner, pc, op, target, page, entity, outcome, calls,
                   hazards>>

Call(r) ==
    \E i \in Ids :
        \/ Get(r, i)
        \/ Save(r, i)
        \/ LockTestCase(r, i)
        \/ UnlockTestCase(r, i)
        \/ Create(r, i)
        \/ Delete(r, i)
        \/ BulkRead(r, i)

Serve(r) ==
    \/ Acquire(r)
    \/ LockTimeout(r)
    \/ CheckVersion(r)
    \/ Stamp(r)
    \/ Write(r)
    \/ Finish(r)
    \/ Remove(r)
    \/ BulkWrite(r)

Next ==
    \/ \E r \in Requests : Call(r) \/ Serve(r)
    \/ \E s \in Servers : Tick(s)

Spec == Init /\ [][Next]_vars

(* A thread that serves a call is scheduled, and tryLock returns within *)
(* lockTtl minutes whether or not it gets the lock.                     *)
FairSpec == Spec /\ \A r \in Requests : WF_vars(Serve(r))
-----------------------------------------------------------------------------
(* Properties *)

(* update's tryLock keeps the update of one entity to one thread at a time, *)
(* as long as no tryLock ran into its time limit.                           *)
MutualExclusion ==
    "timeout" \notin hazards =>
        \A r, q \in Requests :
            InUpdate(r) /\ InUpdate(q) /\ target[r] = target[q] => r = q

(* The lock and the check of the modification time protect the data: no    *)
(* write is lost, nothing deleted comes back and a non-admin never changes *)
(* a locked test case, except after a tryLock that timed out, a wall clock *)
(* that had not passed the last modification time, a call that works       *)
(* without the lock while another is under way, or a bulk save.            *)
HarmNeedsHazard == hazards = {} => harms = {}

(* A delete is undone only by a call that was between its check and its  *)
(* write when the delete happened: a client that saves a page it opened  *)
(* before the delete is told that the entity does not exist.             *)
ResurrectionNeedsOverlap == "resurrected" \in harms => "overlap" \in hazards

(* A client that is told of an error saved nothing, unless its tryLock had *)
(* timed out: then unlock throws after the save has been made.             *)
ErrorNeedsTimeout ==
    (\E r \in Requests : outcome[r] = "error") => "timeout" \in hazards

(* "Entity has been changed previously. Changes will cause lost updates": *)
(* update's check finds every change made since the client read the       *)
(* entity.  It does not see the changes of a bulk save, which leaves the  *)
(* modification time as it was.                                           *)
CheckFindsEveryChange ==
    hazards \subseteq {"unstamped"} => "lostUpdate" \notin harms

(* Every call is answered: tryLock returns, refusals leave through the *)
(* finally block.                                                      *)
EveryCallAnswered ==
    \A r \in Requests : pc[r] # "idle" ~> pc[r] = "idle"

(* Whoever holds the lock of an entity gives it back, however the call ends. *)
LockComesFree ==
    \A i \in Ids : owner[i] # Nobody ~> owner[i] = Nobody

(* The version a client would base its write on: that of the entity the *)
(* server works on for it, or else that of its page.                    *)
HeldVersion(r, i) ==
    LET held == IF pc[r] # "idle" /\ target[r] = i /\ op[r] # "create"
                THEN entity[r] ELSE page[r][i]
    IN  IF held = Absent THEN 0 ELSE held.ver

Abstract == INSTANCE VersionedStore WITH
    Clients <- Requests,
    content <- [i \in Ids |-> IF store[i] = Absent THEN 0 ELSE store[i].ver],
    snapshot <- [r \in Requests |-> [i \in Ids |-> HeldVersion(r, i)]],
    issued <- written,
    calm <- hazards = {}

(* While none of the hazards has struck, the service is the compare-and-set *)
(* store of VersionedStore: a write replaces only the version it was based  *)
(* on, whatever the servers, pages and lock waits do in between.            *)
ImplementsVersionedStore == Abstract!Spec

-----------------------------------------------------------------------------
(* The inductive invariant behind these properties *)

(* The kind of call fits the place it is at, and the server has an entity *)
(* in hand wherever it is about to use one.                               *)
CallShape ==
    \A r \in Requests :
        /\ pc[r] \in {"waiting", "held"} => op[r] \in Updates
        /\ pc[r] \in {"checked", "stamped", "unlock"} =>
               op[r] \in Updates \cup {"create"}
        /\ pc[r] = "deleting" => op[r] = "delete"
        /\ pc[r] = "bulk" => op[r] = "bulk"
        /\ pc[r] \in {"waiting", "held", "checked", "stamped", "bulk"} =>
               entity[r] # Absent

(* A call holds the lock from the end of its wait to its finally block. *)
OwnerHolds ==
    "timeout" \notin hazards =>
        \A r \in Requests :
            InUpdate(r) \/ (pc[r] = "unlock" /\ op[r] \in Updates) =>
                owner[target[r]] = r

(* Every overlap with a call that works without the lock is on record. *)
Alone ==
    "overlap" \notin hazards =>
        \A r, q \in Requests :
            InUnlocked(q) /\ (InUpdate(r) \/ InUnlocked(r))
                /\ target[r] = target[q] => r = q

(* What an update or a bulk save has found is still there. *)
FoundStays ==
    "overlap" \notin hazards =>
        \A r \in Requests :
            (InUpdate(r) /\ pc[r] # "held") \/ pc[r] = "bulk" =>
                store[target[r]] # Absent

(* A document read under id i is not newer than what is stored, and is the *)
(* stored one if it is as new; the locked flag may have been flipped.      *)
Known(doc, i) ==
    /\ doc.lmt <= newest[i]
    /\ store[i] # Absent /\ doc.lmt = newest[i] => doc.ver = store[i].ver

SameFlag(doc, i) ==
    store[i] # Absent /\ doc.lmt = newest[i] => doc.locked = store[i].locked

CalmStore ==
    \A i \in Ids : store[i] # Absent =>
        store[i].lmt = newest[i] /\ store[i].ver # 0

CalmPages ==
    \A r \in Requests, i \in Ids : page[r][i] # Absent =>
        Known(page[r][i], i) /\ SameFlag(page[r][i], i)

CalmCall(r) ==
    /\ op[r] \in Updates /\ pc[r] \in {"waiting", "held", "checked"} =>
           Known(entity[r], target[r])
    /\ op[r] = "edit" /\ pc[r] \in {"waiting", "held", "checked"} =>
           SameFlag(entity[r], target[r])
    /\ pc[r] = "unlock" /\ outcome[r] = "saved" =>
           /\ entity[r] # Absent
           /\ Known(entity[r], target[r])
           /\ SameFlag(entity[r], target[r])

CalmCalls == \A r \in Requests : CalmCall(r)

(* What is about to be written replaces the version it was based on. *)
CalmWriter(r) ==
    /\ InUpdate(r) /\ pc[r] # "held" =>
           /\ store[target[r]].ver = entity[r].ver
           /\ op[r] = "edit" => store[target[r]].locked = entity[r].locked
    /\ op[r] = "create" /\ pc[r] \in {"checked", "stamped"} =>
           store[target[r]] = Absent
    /\ pc[r] = "stamped" => newest[target[r]] < entity[r].lmt

CalmWrites == \A r \in Requests : CalmWriter(r)

(* Who is not an administrator has no locked test case in its hands. *)
PermittedCall(r) ==
    /\ op[r] = "edit" /\ pc[r] \in {"waiting", "held", "checked", "stamped"} =>
           ~entity[r].locked
    /\ op[r] = "lock" => pc[r] = "idle"

Permitted == \A r \in Requests : ~IsAdmin(r) => PermittedCall(r)

CalmDeletes ==
    \A r \in Requests : pc[r] = "deleting" /\ ~IsAdmin(r) =>
        store[target[r]] = Absent \/ ~store[target[r]].locked

Calm == CalmStore /\ CalmPages /\ CalmCalls /\ CalmWrites /\ CalmDeletes

IInv ==
    /\ TypeOK
    /\ CallShape
    /\ OwnerHolds
    /\ Alone
    /\ FoundStays
    /\ Permitted
    /\ hazards = {} => Calm
    /\ HarmNeedsHazard
    /\ ResurrectionNeedsOverlap
    /\ ErrorNeedsTimeout
=============================================================================
