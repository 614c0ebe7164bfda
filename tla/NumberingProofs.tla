-------------------------- MODULE NumberingProofs ---------------------------
(***************************************************************************)
(* Theorems about Numbering, for any sets of clients, projects and aliases.*)
(***************************************************************************)
EXTENDS Numbering, TLAPS

USE NumberingAssumption

(* A call that begins leaves the types as they are. *)
LEMMA BeginType ==
    ASSUME TypeOK, Route, NEW r \in Requests,
           NEW kind \in {"numbered", "merged", "update", "project"},
           NEW p \in Projects,
           NEW a \in Aliases \cup {NoAlias}, NEW at \in {"queue", "named"},
           kind \in {"merged", "update"} => at = "named", Begin(r, kind, p, a, at),
           id' \in [Requests -> Nat]
    PROVE  TypeOK' /\ Route'
<1>1. hazards' \subseteq Hazards
  <2> DEFINE rivals == Rivals(r, kind, p, a)
  <2>1. hazards' = hazards \cup (IF rivals = {} THEN {} ELSE {"race"})
    BY DEF Begin
  <2> HIDE DEF rivals
  <2> QED BY <2>1 DEF TypeOK, Hazards
<1>2. /\ calls' = calls + 1
      /\ pc' = [pc EXCEPT ![r] = at]
      /\ new' = [new EXCEPT ![r] = kind]
      /\ project' = [project EXCEPT ![r] = p]
      /\ alias' = [alias EXCEPT ![r] = a]
      /\ UNCHANGED <<projects, index, owner, testcases, seen, replaced>>
  BY DEF Begin
<1>3. TypeOK'
  BY <1>1, <1>2 DEF TypeOK
<1>4. Route'
  BY <1>2 DEF TypeOK, Route
<1> QED BY <1>3, <1>4

(* A stored test case has an id. *)
LEMMA StoredId ==
    ASSUME TypeOK, NEW p \in Projects, NEW c \in testcases[p]
    PROVE  c.id \in Nat /\ c.alias \in Aliases \cup {NoAlias}
<1>1. c \in TestCase
  BY DEF TypeOK
<1> QED BY <1>1 DEF TestCase

(* What a save leaves stored, and what it leaves alone. *)
LEMMA Storing ==
    ASSUME TypeOK, NEW r \in Requests, Store(r)
    PROVE  /\ Saved(r) \in TestCase
           /\ Saved(r).id = id[r] /\ Saved(r).alias = alias[r]
           /\ pc' = [pc EXCEPT ![r] = "idle"]
           /\ testcases' = [testcases EXCEPT ![project[r]] =
                               {c \in @ : c.id # id[r]} \cup {Saved(r)}]
           /\ testcases' \in [Projects -> SUBSET TestCase]
           /\ UNCHANGED <<projects, index, owner, new, project, alias, seen, id,
                          calls, replaced>>
<1>1. Saved(r) \in TestCase /\ Saved(r).id = id[r] /\ Saved(r).alias = alias[r]
  BY DEF TypeOK, TestCase, Saved
<1>2. /\ pc' = [pc EXCEPT ![r] = "idle"]
      /\ testcases' = [testcases EXCEPT ![project[r]] =
                          {c \in @ : c.id # id[r]} \cup {Saved(r)}]
      /\ UNCHANGED <<projects, index, owner, new, project, alias, seen, id,
                     calls, replaced>>
  BY DEF Store, locals
<1>3. testcases' \in [Projects -> SUBSET TestCase]
  BY <1>1, <1>2 DEF TypeOK
<1> QED BY <1>1, <1>2, <1>3

LEMMA SequencerKey ==
    ASSUME TypeOK, NEW r \in Requests
    PROVE  SequencerId(r) \in Keys
BY DEF TypeOK, SequencerId, Keys

(* Types, and the way of a call through the sequencer, are kept by every step. *)
LEMMA TypeInit == Init => TypeOK /\ Route
<1> SUFFICES ASSUME Init PROVE TypeOK /\ Route
  OBVIOUS
<1>1. testcases \in [Projects -> SUBSET TestCase]
  BY DEF Init
<1>2. TypeOK
  BY <1>1 DEF Init, TypeOK
<1>3. Route
  BY DEF Init, Route
<1> QED BY <1>2, <1>3

LEMMA TypeStep == TypeOK /\ Route /\ [Next]_vars => TypeOK' /\ Route'
<1> SUFFICES ASSUME TypeOK, Route, [Next]_vars
             PROVE  TypeOK' /\ Route'
  OBVIOUS
<1>1. ASSUME NEW r \in Requests, NEW p \in Projects,
             NEW a \in Aliases \cup {NoAlias}, CreateTestCase(r, p, a)
      PROVE  TypeOK' /\ Route'
  BY <1>1, BeginType DEF CreateTestCase, TypeOK
<1>2. ASSUME NEW r \in Requests, NEW p \in Projects, NEW c \in testcases[p],
             MergeTestCase(r, p, c)
      PROVE  TypeOK' /\ Route'
  BY <1>2, StoredId, BeginType DEF MergeTestCase, TypeOK
<1>3. ASSUME NEW r \in Requests, NEW p \in Projects, CreateProject(r, p)
      PROVE  TypeOK' /\ Route'
  BY <1>3, BeginType DEF CreateProject, TypeOK
<1>4. ASSUME NEW r \in Requests, Acquire(r)
      PROVE  TypeOK' /\ Route'
  BY <1>4, SequencerKey DEF Acquire, TypeOK, Route, locals
<1>5. ASSUME NEW r \in Requests, LockTimeout(r)
      PROVE  TypeOK' /\ Route'
  BY <1>5 DEF LockTimeout, TypeOK, Route, locals, Hazards
<1>6. ASSUME NEW r \in Requests, ReadIndex(r)
      PROVE  TypeOK' /\ Route'
  BY <1>6, SequencerKey DEF ReadIndex, TypeOK, Route, locals
<1>7. ASSUME NEW r \in Requests, WriteIndex(r)
      PROVE  TypeOK' /\ Route'
  <2>1. Following(seen[r]) \in Nat
    BY DEF Following, TypeOK
  <2> QED BY <1>7, <2>1, SequencerKey DEF WriteIndex, TypeOK, Route, locals
<1>8. ASSUME NEW r \in Requests, ResetIndex(r)
      PROVE  TypeOK' /\ Route'
  BY <1>8, SequencerKey DEF ResetIndex, TypeOK, Route, locals
<1>9. ASSUME NEW r \in Requests, Unlock(r)
      PROVE  TypeOK' /\ Route'
  BY <1>9, SequencerKey DEF Unlock, TypeOK, Route, locals
<1>10. ASSUME NEW r \in Requests, Refuse(r)
       PROVE  TypeOK' /\ Route'
  BY <1>10 DEF Refuse, TypeOK, Route, locals
<1>11. ASSUME NEW r \in Requests, SaveTestCase(r) \/ SaveUpdate(r)
       PROVE  TypeOK' /\ Route'
  <2>1. Store(r)
    BY <1>11 DEF SaveTestCase, SaveUpdate
  <2>2. hazards' \subseteq Hazards
    BY <1>11 DEF SaveTestCase, SaveUpdate, Renaming, TypeOK, Hazards
  <2> HIDE DEF Hazards
  <2> QED BY <2>1, <2>2, Storing DEF TypeOK, Route
<1>12. ASSUME NEW r \in Requests, SaveProject(r)
       PROVE  TypeOK' /\ Route'
  BY <1>12 DEF SaveProject, TypeOK, Route, locals
<1>13. ASSUME NEW r \in Requests, ServerDies(r)
       PROVE  TypeOK' /\ Route'
  BY <1>13 DEF ServerDies, TypeOK, Route, locals
<1>14. ASSUME NEW p \in Projects, DeleteProject(p)
       PROVE  TypeOK' /\ Route'
  BY <1>14 DEF DeleteProject, TypeOK, Route, locals
<1>15. ASSUME NEW p \in Projects, NEW c \in testcases[p], DeleteTestCase(p, c)
       PROVE  TypeOK' /\ Route'
  BY <1>15 DEF DeleteTestCase, TypeOK, Route, locals
<1>16. ASSUME NEW r \in Requests, NEW p \in Projects, NEW c \in testcases[p],
              NEW a \in Aliases \cup {NoAlias}, UpdateTestCase(r, p, c, a)
       PROVE  TypeOK' /\ Route'
  BY <1>16, StoredId, BeginType DEF UpdateTestCase, TypeOK
<1>17. CASE UNCHANGED vars
  BY <1>17 DEF vars, locals, TypeOK, Route
<1> QED
  BY <1>1, <1>2, <1>3, <1>4, <1>5, <1>6, <1>7, <1>8, <1>9, <1>10, <1>11,
     <1>12, <1>13, <1>14, <1>15, <1>16, <1>17 DEF Next, Call, Serve

(* The state of counters, locks and calls stays well formed. *)
THEOREM NumbersTyped == Spec => []TypeOK
<1>1. Init => TypeOK /\ Route
  BY TypeInit
<1>2. TypeOK /\ Route /\ [Next]_vars => (TypeOK /\ Route)'
  BY TypeStep
<1> QED BY <1>1, <1>2, PTL DEF Spec

-----------------------------------------------------------------------------
(* The lock *)

(* What a call that begins leaves as it was. *)
LEMMA Beginning ==
    ASSUME TypeOK, NEW r \in Requests, NEW kind, NEW p, NEW a, NEW at,
           Begin(r, kind, p, a, at)
    PROVE  /\ pc' = [pc EXCEPT ![r] = at]
           /\ new' = [new EXCEPT ![r] = kind]
           /\ project' = [project EXCEPT ![r] = p]
           /\ UNCHANGED <<index, owner, testcases, seen>>
BY DEF Begin

(* Timeouts stay on record. *)
LEMMA HazardsGrow == [Next]_vars => hazards \subseteq hazards'
<1> SUFFICES ASSUME [Next]_vars PROVE hazards \subseteq hazards'
  OBVIOUS
<1>1. ASSUME NEW r \in Requests, NEW kind, NEW p, NEW a, NEW at,
             Begin(r, kind, p, a, at)
      PROVE  hazards \subseteq hazards'
  BY <1>1 DEF Begin
<1> QED
  BY <1>1 DEF Next, Call, Serve, vars, CreateTestCase, MergeTestCase,
     CreateProject, Acquire, LockTimeout, ReadIndex, WriteIndex, ResetIndex,
     Unlock, Refuse, SaveTestCase, SaveUpdate, Store, SaveProject,
     UpdateTestCase, DeleteTestCase, DeleteProject, ServerDies

(* The lock of a counter is taken and given back by its owner only. *)
LEMMA LockStep ==
    ASSUME TypeOK, Route, HoldsLock, [Next]_vars, "timeout" \notin hazards'
    PROVE  HoldsLock'
<1> USE DEF TypeOK, HoldsLock, AtCounter, SequencerId, locals
<1>1. ASSUME NEW r \in Requests, NEW kind, NEW p, NEW a, NEW at,
             at \in {"queue", "named"}, Begin(r, kind, p, a, at)
      PROVE  HoldsLock'
  BY <1>1, Beginning
<1>2. ASSUME NEW r \in Requests, Acquire(r)
      PROVE  HoldsLock'
  BY <1>2, SequencerKey DEF Acquire, LockFree
<1>3. ASSUME NEW r \in Requests, LockTimeout(r)
      PROVE  HoldsLock'
  BY <1>3 DEF LockTimeout
<1>4. ASSUME NEW r \in Requests, ReadIndex(r) \/ WriteIndex(r) \/ ResetIndex(r)
      PROVE  HoldsLock'
  BY <1>4 DEF ReadIndex, WriteIndex, ResetIndex
<1>5. ASSUME NEW r \in Requests, Unlock(r)
      PROVE  HoldsLock'
  BY <1>5, SequencerKey DEF Unlock
<1>6. ASSUME NEW r \in Requests,
             Refuse(r) \/ SaveTestCase(r) \/ SaveUpdate(r) \/ SaveProject(r)
      PROVE  HoldsLock'
  BY <1>6 DEF Refuse, SaveTestCase, SaveUpdate, Store, SaveProject
<1>7. ASSUME NEW r \in Requests, ServerDies(r)
      PROVE  HoldsLock'
  BY <1>7, SequencerKey DEF ServerDies
<1>8. CASE UNCHANGED <<owner, pc, new, project>>
  BY <1>8
<1> QED
  BY <1>1, <1>2, <1>3, <1>4, <1>5, <1>6, <1>7, <1>8
     DEF Next, Call, Serve, vars, CreateTestCase, MergeTestCase, CreateProject,
         UpdateTestCase, DeleteTestCase, DeleteProject

LEMMA OwnersDiffer == HoldsLock => OneAtTheCounter
BY DEF HoldsLock, OneAtTheCounter, AtCounter

LEMMA LockInductive ==
    Spec => [](TypeOK /\ Route /\ ("timeout" \notin hazards => HoldsLock))
<1> DEFINE LInv == TypeOK /\ Route /\ ("timeout" \notin hazards => HoldsLock)
<1>1. Init => LInv
  BY TypeInit DEF Init, HoldsLock, AtCounter
<1>2. LInv /\ [Next]_vars => LInv'
  <2> SUFFICES ASSUME LInv, [Next]_vars PROVE LInv'
    OBVIOUS
  <2>1. TypeOK' /\ Route'
    BY TypeStep
  <2>2. ASSUME "timeout" \notin hazards' PROVE HoldsLock'
    BY <2>2, LockStep, HazardsGrow
  <2> QED BY <2>1, <2>2
<1> QED BY <1>1, <1>2, PTL DEF Spec

(* A number is read, counted up and stored by one call at a time, as long *)
(* as no tryLock has timed out.                                           *)
THEOREM CounterExcludes == Spec => []OneAtTheCounter
<1>1. TypeOK /\ Route /\ ("timeout" \notin hazards => HoldsLock)
          => OneAtTheCounter
  BY OwnersDiffer DEF OneAtTheCounter
<1> QED BY <1>1, LockInductive, PTL

-----------------------------------------------------------------------------
(* The numbers *)

CountInv == HoldsLock /\ SeenStays /\ Counted /\ Unshared

(* A number that has just been counted up belongs to nobody. *)
LEMMA WriteStep ==
    ASSUME TypeOK, Route, CountInv, NEW r \in Requests, WriteIndex(r)
    PROVE  SeenStays' /\ Counted' /\ Unshared'
<1> USE DEF TypeOK, Route, CountInv
<1> DEFINE p == project[r]
           n == index[p] + 1
<1>1. /\ pc[r] = "write" /\ new[r] = "numbered" /\ SequencerId(r) = p
      /\ p \in Projects /\ p \in Keys /\ index[p] \in Nat
  BY DEF WriteIndex, SequencerId, Keys
<1>2. /\ index' = [index EXCEPT ![p] = n]
      /\ id' = [id EXCEPT ![r] = n]
      /\ pc' = [pc EXCEPT ![r] = "unlock"]
      /\ UNCHANGED <<testcases, new, project, seen>>
  BY <1>1 DEF WriteIndex, Following, SeenStays, locals
<1>3. \A q \in Requests : q # r /\ pc[q] = "write" => project[q] # p
  BY <1>1 DEF HoldsLock, AtCounter, SequencerId
<1>4. SeenStays'
  BY <1>1, <1>2, <1>3 DEF SeenStays, Keys
<1>5. \A q \in Projects : index[q] <= index'[q]
  BY <1>1, <1>2 DEF Keys
<1>6. ASSUME NEW q \in Projects, NEW c \in testcases[q]
      PROVE  c.id <= index[q] /\ c.id \in Nat
  BY <1>6 DEF Counted, TestCase
<1>7. ASSUME NEW q \in Requests, HasId(q)' , q # r
      PROVE  HasId(q) /\ id'[q] = id[q] /\ id[q] <= index[project[q]]
  BY <1>2, <1>7 DEF HasId, Counted
<1>8. id'[r] = n /\ index'[p] = n /\ project'[r] = p
  BY <1>1, <1>2
<1>9. Counted'
  <2>1. \A q \in Projects : \A c \in testcases'[q] : c.id <= index'[q]
    <3> SUFFICES ASSUME NEW q \in Projects, NEW c \in testcases'[q]
                 PROVE  c.id <= index'[q]
      OBVIOUS
    <3>1. c.id <= index[q] /\ c.id \in Nat
      BY <1>2, <1>6
    <3>2. index[q] \in Nat /\ index'[q] \in Nat
      BY <1>1, <1>2 DEF Keys
    <3> QED BY <1>5, <3>1, <3>2
  <2>2. \A q \in Requests : HasId(q)' => id'[q] <= index'[project'[q]]
    <3> SUFFICES ASSUME NEW q \in Requests, HasId(q)'
                 PROVE  id'[q] <= index'[project'[q]]
      OBVIOUS
    <3>1. CASE q = r
      BY <1>1, <1>8, <3>1
    <3>2. CASE q # r
      <4>1. id'[q] = id[q] /\ id[q] <= index[project[q]] /\ project'[q] = project[q]
        BY <1>2, <1>7, <3>2
      <4>2. /\ project[q] \in Projects /\ id[q] \in Nat
            /\ index[project[q]] \in Nat /\ index'[project[q]] \in Nat
        BY <1>1, <1>2 DEF Keys
      <4> QED BY <1>5, <4>1, <4>2
    <3> QED BY <3>1, <3>2
  <2> QED BY <2>1, <2>2 DEF Counted, HasId
<1>10. Unshared'
  <2> SUFFICES ASSUME NEW q \in Requests, HasId(q)', new'[q] = "numbered"
               PROVE  Own(q)'
    BY DEF Unshared
  <2>1. CASE q = r
    <3>1. \A c \in testcases'[project'[q]] : c.id # id'[q]
      BY <1>1, <1>2, <1>6, <1>8, <2>1
    <3>2. ASSUME NEW s \in Requests \ {q}, HasId(s)', project'[s] = project'[q]
          PROVE  id'[s] # id'[q]
      <4>1. id'[s] = id[s] /\ id[s] <= index[p]
        BY <1>2, <1>7, <2>1, <3>2
      <4> QED BY <1>1, <1>8, <2>1, <4>1
    <3> QED BY <3>1, <3>2 DEF Own, HasId
  <2>2. CASE q # r
    <3>1. HasId(q) /\ Own(q) /\ id[q] <= index[project[q]]
      BY <1>2, <1>7, <2>2 DEF Unshared
    <3>2. \A c \in testcases'[project'[q]] : c.id # id'[q]
      BY <1>2, <2>2, <3>1 DEF Own
    <3>3. ASSUME NEW s \in Requests \ {q}, HasId(s)', project'[s] = project'[q]
          PROVE  id'[s] # id'[q]
      <4>1. CASE s = r
        BY <1>1, <1>2, <1>8, <2>2, <3>1, <3>3, <4>1
      <4>2. CASE s # r
        BY <1>2, <1>7, <2>2, <3>1, <3>3, <4>2 DEF Own
      <4> QED BY <4>1, <4>2
    <3> QED BY <3>2, <3>3 DEF Own, HasId
  <2> QED BY <2>1, <2>2
<1> QED BY <1>4, <1>9, <1>10

(* A step that neither counts up nor gives out an id. *)
LEMMA Kept ==
    ASSUME TypeOK, Counted, Unshared,
           \A p \in Projects : index'[p] = index[p],
           \A p \in Projects : \A c \in testcases'[p] :
               \E d \in testcases[p] : d.id = c.id,
           \A q \in Requests : HasId(q)' =>
               /\ HasId(q)
               /\ id'[q] = id[q]
               /\ project'[q] = project[q]
               /\ new'[q] = new[q]
    PROVE  Counted' /\ Unshared'
<1>1. Counted'
  <2>1. \A p \in Projects : \A c \in testcases'[p] : c.id <= index'[p]
    BY DEF Counted
  <2>2. \A q \in Requests : HasId(q)' => id'[q] <= index'[project'[q]]
    BY DEF Counted, TypeOK
  <2> QED BY <2>1, <2>2 DEF Counted, HasId
<1>2. Unshared'
  <2> SUFFICES ASSUME NEW q \in Requests, HasId(q)', new'[q] = "numbered"
               PROVE  Own(q)'
    BY DEF Unshared
  <2>1. Own(q) /\ project[q] \in Projects
    BY DEF Unshared, TypeOK
  <2>2. \A c \in testcases'[project'[q]] : c.id # id'[q]
    BY <2>1 DEF Own
  <2>3. ASSUME NEW s \in Requests \ {q}, HasId(s)', project'[s] = project'[q]
        PROVE  id'[s] # id'[q]
    BY <2>1, <2>3 DEF Own
  <2> QED BY <2>2, <2>3 DEF Own, HasId
<1> QED BY <1>1, <1>2

(* A test case found, by its alias or for an update, keeps its id, which no *)
(* new one has.                                                             *)
LEMMA FoundStep ==
    ASSUME TypeOK, Counted, Unshared, NEW r \in Requests, NEW p \in Projects,
           NEW c \in testcases[p], NEW kind \in {"merged", "update"}, NEW a,
           Begin(r, kind, p, a, "named"), id' = [id EXCEPT ![r] = c.id]
    PROVE  Counted' /\ Unshared'
<1> USE DEF TypeOK
<1>1. /\ pc' = [pc EXCEPT ![r] = "named"]
      /\ new' = [new EXCEPT ![r] = kind]
      /\ project' = [project EXCEPT ![r] = p]
      /\ id' = [id EXCEPT ![r] = c.id]
      /\ UNCHANGED <<index, testcases>>
  BY Beginning
<1>2. ASSUME NEW q \in Requests, HasId(q)', q # r
      PROVE  HasId(q) /\ id'[q] = id[q] /\ project'[q] = project[q]
                 /\ new'[q] = new[q]
  BY <1>1, <1>2 DEF HasId
<1>3. Counted'
  <2>1. \A q \in Requests : HasId(q)' => id'[q] <= index'[project'[q]]
    BY <1>1, <1>2 DEF Counted
  <2> QED BY <1>1, <2>1 DEF Counted, HasId
<1>4. Unshared'
  <2> SUFFICES ASSUME NEW q \in Requests, HasId(q)', new'[q] = "numbered"
               PROVE  Own(q)'
    BY DEF Unshared
  <2>1. q # r
    BY <1>1
  <2>2. Own(q)
    BY <1>2, <2>1 DEF Unshared
  <2>3. \A d \in testcases'[project'[q]] : d.id # id'[q]
    BY <1>1, <1>2, <2>1, <2>2 DEF Own
  <2>4. ASSUME NEW s \in Requests \ {q}, HasId(s)', project'[s] = project'[q]
        PROVE  id'[s] # id'[q]
    BY <1>1, <1>2, <2>1, <2>2, <2>4 DEF Own
  <2> QED BY <2>3, <2>4 DEF Own, HasId
<1> QED BY <1>3, <1>4

(* The test case that is stored has an id nobody else is about to use. *)
LEMMA SaveStep ==
    ASSUME TypeOK, Counted, Unshared, NEW r \in Requests,
           SaveTestCase(r) \/ SaveUpdate(r)
    PROVE  Counted' /\ Unshared'
<1> USE DEF TypeOK
<1> DEFINE saved == Saved(r)
<1>1. /\ HasId(r)
      /\ saved.id = id[r]
      /\ pc' = [pc EXCEPT ![r] = "idle"]
      /\ testcases' = [testcases EXCEPT ![project[r]] =
                          {c \in @ : c.id # id[r]} \cup {saved}]
      /\ UNCHANGED <<index, new, project, id>>
  BY Storing DEF SaveTestCase, SaveUpdate, HasId, Searches
<1> HIDE DEF saved
<1>2. ASSUME NEW q \in Requests, HasId(q)' PROVE HasId(q) /\ q # r
  BY <1>1, <1>2 DEF HasId
<1>3. ASSUME NEW p \in Projects, NEW c \in testcases'[p]
      PROVE  c \in testcases[p] \/ (p = project[r] /\ c = saved)
  BY <1>1
<1>4. Counted'
  <2>1. \A p \in Projects : \A c \in testcases'[p] : c.id <= index'[p]
    BY <1>1, <1>3 DEF Counted
  <2>2. \A q \in Requests : HasId(q)' => id'[q] <= index'[project'[q]]
    BY <1>1, <1>2 DEF Counted
  <2> QED BY <2>1, <2>2 DEF Counted, HasId
<1>5. Unshared'
  <2> SUFFICES ASSUME NEW q \in Requests, HasId(q)', new'[q] = "numbered"
               PROVE  Own(q)'
    BY DEF Unshared
  <2>1. Own(q) /\ q # r /\ project[q] \in Projects
    BY <1>1, <1>2 DEF Unshared
  <2>2. ASSUME NEW c \in testcases'[project'[q]] PROVE c.id # id'[q]
    BY <1>1, <1>3, <2>1 DEF Own
  <2>3. ASSUME NEW s \in Requests \ {q}, HasId(s)', project'[s] = project'[q]
        PROVE  id'[s] # id'[q]
    BY <1>1, <1>2, <2>1, <2>3 DEF Own
  <2> QED BY <2>2, <2>3 DEF Own, HasId
<1> QED BY <1>4, <1>5

LEMMA CountStep ==
    ASSUME TypeOK, Route, CountInv, [Next]_vars, "timeout" \notin hazards'
    PROVE  SeenStays' /\ Counted' /\ Unshared'
<1> USE DEF TypeOK, CountInv, locals
<1>1. ASSUME NEW r \in Requests, NEW kind, NEW p, NEW a,
             Begin(r, kind, p, a, "queue"), UNCHANGED id
      PROVE  SeenStays' /\ Counted' /\ Unshared'
  <2>1. SeenStays'
    BY <1>1, Beginning DEF SeenStays
  <2>2. Counted' /\ Unshared'
    BY <1>1, Beginning, Kept DEF HasId
  <2> QED BY <2>1, <2>2
<1>2. ASSUME NEW r \in Requests, NEW p \in Projects, NEW c \in testcases[p],
             MergeTestCase(r, p, c)
      PROVE  SeenStays' /\ Counted' /\ Unshared'
  <2>1. SeenStays'
    BY <1>2, Beginning DEF MergeTestCase, SeenStays
  <2> QED BY <1>2, <2>1, FoundStep DEF MergeTestCase
<1>3. ASSUME NEW r \in Requests, Acquire(r)
      PROVE  SeenStays' /\ Counted' /\ Unshared'
  <2>1. SeenStays'
    BY <1>3 DEF Acquire, SeenStays
  <2>2. Counted' /\ Unshared'
    BY <1>3, Kept DEF Acquire, HasId
  <2> QED BY <2>1, <2>2
<1>4. ASSUME NEW r \in Requests, ReadIndex(r)
      PROVE  SeenStays' /\ Counted' /\ Unshared'
  <2>1. SeenStays'
    BY <1>4 DEF ReadIndex, SeenStays, SequencerId
  <2>2. Counted' /\ Unshared'
    BY <1>4, Kept DEF ReadIndex, HasId
  <2> QED BY <2>1, <2>2
<1>5. ASSUME NEW r \in Requests, WriteIndex(r)
      PROVE  SeenStays' /\ Counted' /\ Unshared'
  BY <1>5, WriteStep
<1>6. ASSUME NEW r \in Requests, ResetIndex(r)
      PROVE  SeenStays' /\ Counted' /\ Unshared'
  <2>1. \A p \in Projects : index'[p] = index[p]
    BY <1>6 DEF ResetIndex, SequencerId, Keys
  <2>2. SeenStays'
    BY <1>6, <2>1 DEF ResetIndex, SeenStays
  <2>3. Counted' /\ Unshared'
    BY <1>6, <2>1, Kept DEF ResetIndex, HasId
  <2> QED BY <2>2, <2>3
<1>7. ASSUME NEW r \in Requests, Unlock(r)
      PROVE  SeenStays' /\ Counted' /\ Unshared'
  <2>1. SeenStays'
    BY <1>7 DEF Unlock, SeenStays
  <2>2. Counted' /\ Unshared'
    BY <1>7, Kept DEF Unlock, HasId
  <2> QED BY <2>1, <2>2
<1>8. ASSUME NEW r \in Requests, SaveTestCase(r) \/ SaveUpdate(r)
      PROVE  SeenStays' /\ Counted' /\ Unshared'
  <2>1. SeenStays'
    BY <1>8, Storing DEF SaveTestCase, SaveUpdate, SeenStays
  <2> QED BY <1>8, <2>1, SaveStep
<1>9. ASSUME NEW r \in Requests, Refuse(r) \/ SaveProject(r) \/ ServerDies(r)
      PROVE  SeenStays' /\ Counted' /\ Unshared'
  <2>1. SeenStays'
    BY <1>9 DEF Refuse, SaveProject, ServerDies, SeenStays
  <2>2. Counted' /\ Unshared'
    BY <1>9, Kept DEF Refuse, SaveProject, ServerDies, HasId
  <2> QED BY <2>1, <2>2
<1>10. ASSUME NEW p \in Projects, NEW c \in testcases[p], DeleteTestCase(p, c)
       PROVE  SeenStays' /\ Counted' /\ Unshared'
  <2>1. \A q \in Projects : testcases'[q] \subseteq testcases[q]
    BY <1>10 DEF DeleteTestCase
  <2>2. UNCHANGED <<index, pc, new, project, seen, id>>
    BY <1>10 DEF DeleteTestCase
  <2>3. SeenStays'
    BY <2>2 DEF SeenStays
  <2>4. Counted' /\ Unshared'
    BY <2>1, <2>2, Kept DEF HasId
  <2> QED BY <2>3, <2>4
<1>11. CASE UNCHANGED <<index, testcases, pc, new, project, seen, id>>
  <2>1. SeenStays'
    BY <1>11 DEF SeenStays
  <2>2. Counted' /\ Unshared'
    BY <1>11, Kept DEF HasId
  <2> QED BY <2>1, <2>2
<1>12. ~ \E r \in Requests : LockTimeout(r)
  BY DEF LockTimeout
<1>13. ASSUME NEW r \in Requests, NEW p \in Projects, NEW c \in testcases[p],
              NEW a, UpdateTestCase(r, p, c, a)
       PROVE  SeenStays' /\ Counted' /\ Unshared'
  <2>1. SeenStays'
    BY <1>13, Beginning DEF UpdateTestCase, SeenStays
  <2> QED BY <1>13, <2>1, FoundStep DEF UpdateTestCase
<1> QED
  BY <1>1, <1>2, <1>3, <1>4, <1>5, <1>6, <1>7, <1>8, <1>9, <1>10, <1>11, <1>12,
     <1>13
     DEF Next, Call, Serve, vars, CreateTestCase, CreateProject, DeleteProject

LEMMA NumberingInductive == Spec => []IInv
<1>1. Init => IInv
  <2> SUFFICES ASSUME Init PROVE IInv
    OBVIOUS
  <2>1. HoldsLock /\ SeenStays /\ Counted /\ Unshared
    BY DEF Init, HoldsLock, AtCounter, SeenStays, Counted, Unshared, HasId
  <2> QED BY <2>1, TypeInit DEF IInv
<1>2. IInv /\ [Next]_vars => IInv'
  <2> SUFFICES ASSUME IInv, [Next]_vars PROVE IInv'
    OBVIOUS
  <2>1. TypeOK' /\ Route'
    BY TypeStep DEF IInv
  <2>2. ASSUME "timeout" \notin hazards'
        PROVE  HoldsLock' /\ SeenStays' /\ Counted' /\ Unshared'
    <3>1. TypeOK /\ Route /\ CountInv
      BY <2>2, HazardsGrow DEF IInv, CountInv
    <3>2. HoldsLock'
      BY <2>2, <3>1, LockStep DEF CountInv
    <3> QED BY <2>2, <3>1, <3>2, CountStep
  <2> QED BY <2>1, <2>2 DEF IInv
<1> QED BY <1>1, <1>2, PTL DEF Spec

(* Nobody else has, or is about to be stored under, the number a new test   *)
(* case has been given, unless a tryLock has timed out.                     *)
THEOREM NumbersFresh == Spec => []NumbersAreFresh
<1>1. IInv => NumbersAreFresh
  BY DEF IInv, NumbersAreFresh, Unshared, Own, HasId
<1> QED BY <1>1, NumberingInductive, PTL

(* The counter of a project is never set back, unless a tryLock has timed *)
(* out: neither by the creation of a project of that id nor by a late write.*)
THEOREM CounterGrows == Spec => NeverSetBack
<1> DEFINE Back == \A p \in Projects :
                       "timeout" \in hazards' \/ index[p] <= index'[p]
<1>1. IInv /\ [Next]_vars => [Back]_vars
  <2> SUFFICES ASSUME IInv, [Next]_vars, NEW p \in Projects,
                      "timeout" \notin hazards'
               PROVE  index[p] <= index'[p]
    OBVIOUS
  <2>1. /\ TypeOK /\ Route /\ CountInv
        /\ index[p] \in Nat /\ p \in Keys /\ p # NoProject
    BY HazardsGrow DEF IInv, CountInv, TypeOK, Keys
  <2>2. ASSUME NEW r \in Requests, WriteIndex(r)
        PROVE  index[p] <= index'[p]
    <3>1. index' = [index EXCEPT ![project[r]] = index[project[r]] + 1]
      BY <2>1, <2>2 DEF WriteIndex, Following, SequencerId, Route, CountInv,
                        SeenStays
    <3> QED BY <2>1, <3>1 DEF TypeOK
  <2>3. ASSUME NEW r \in Requests, ResetIndex(r)
        PROVE  index[p] <= index'[p]
    BY <2>1, <2>3 DEF ResetIndex, SequencerId, TypeOK
  <2>4. CASE UNCHANGED index
    BY <2>1, <2>4
  <2> QED
    BY <2>2, <2>3, <2>4 DEF Next, Call, Serve, vars, CreateTestCase,
       MergeTestCase, CreateProject, Begin, Acquire, LockTimeout, ReadIndex,
       Unlock, Refuse, SaveTestCase, SaveUpdate, Store, SaveProject,
       UpdateTestCase, DeleteTestCase, DeleteProject, ServerDies
<1> QED BY <1>1, NumberingInductive, PTL DEF Spec, NeverSetBack

-----------------------------------------------------------------------------
(* The names *)

(* A call that begins beside another of the same name puts it on record. *)
LEMMA BeginRace ==
    ASSUME TypeOK, RacesNoted, NEW r \in Requests, pc[r] = "idle",
           NEW kind, NEW p, NEW a, NEW at, Begin(r, kind, p, a, at)
    PROVE  RacesNoted'
<1> SUFFICES ASSUME "race" \notin hazards'
             PROVE  RacesNoted'
  BY DEF RacesNoted
<1>1. /\ pc' = [pc EXCEPT ![r] = at]
      /\ new' = [new EXCEPT ![r] = kind]
      /\ project' = [project EXCEPT ![r] = p]
      /\ alias' = [alias EXCEPT ![r] = a]
      /\ hazards' = hazards \cup (IF Rivals(r, kind, p, a) = {} THEN {} ELSE {"race"})
  BY DEF Begin
<1>2. Rivals(r, kind, p, a) = {} /\ "race" \notin hazards
  BY <1>1
<1>3. ASSUME NEW q \in Requests \ {r}, pc[q] # "idle", project[q] = p
      PROVE  /\ kind # "project" \/ new[q] # "project"
             /\ Searches(kind) /\ Searches(new[q]) => a = NoAlias \/ alias[q] # a
  BY <1>2, <1>3 DEF Rivals
<1> QED BY <1>1, <1>2, <1>3 DEF RacesNoted, TypeOK

LEMMA RaceStep ==
    ASSUME TypeOK, Route, RacesNoted, [Next]_vars
    PROVE  RacesNoted'
<1>1. ASSUME NEW r \in Requests, pc[r] = "idle", NEW kind, NEW p, NEW a, NEW at,
             Begin(r, kind, p, a, at)
      PROVE  RacesNoted'
  BY <1>1, BeginRace
<1>2. ASSUME \A r \in Requests : pc'[r] # "idle" => pc[r] # "idle",
             UNCHANGED <<new, project, alias>>, hazards \subseteq hazards'
      PROVE  RacesNoted'
  BY <1>2 DEF RacesNoted
<1>3. ASSUME NEW r \in Requests, Serve(r) \/ ServerDies(r)
      PROVE  /\ \A q \in Requests : pc'[q] # "idle" => pc[q] # "idle"
             /\ UNCHANGED <<new, project, alias>>
  BY <1>3 DEF Serve, Acquire, LockTimeout, ReadIndex, WriteIndex, ResetIndex,
              Unlock, Refuse, SaveTestCase, SaveUpdate, Store, SaveProject,
              ServerDies, locals, TypeOK
<1>4. CASE UNCHANGED <<pc, new, project, alias>>
  BY <1>2, <1>4, HazardsGrow
<1> QED
  BY <1>1, <1>2, <1>3, <1>4, HazardsGrow DEF Next, Call, vars, locals,
     CreateTestCase, MergeTestCase, CreateProject, UpdateTestCase,
     DeleteTestCase, DeleteProject

LEMMA ProjectStep ==
    ASSUME TypeOK, Route, RacesNoted, ProjectFree, ProjectsNotReplaced, [Next]_vars
    PROVE  ProjectFree' /\ ProjectsNotReplaced'
<1> SUFFICES ASSUME "race" \notin hazards'
             PROVE  ProjectFree' /\ ProjectsNotReplaced'
  BY DEF ProjectFree, ProjectsNotReplaced
<1>1. "race" \notin hazards
  BY HazardsGrow
<1> USE DEF TypeOK, ProjectFree, ProjectsNotReplaced
<1>2. ASSUME NEW r \in Requests, NEW kind, NEW p, NEW a, NEW at,
             kind = "project" => p \notin projects, Begin(r, kind, p, a, at)
      PROVE  ProjectFree' /\ ProjectsNotReplaced'
  <2>1. /\ pc' = [pc EXCEPT ![r] = at]
        /\ new' = [new EXCEPT ![r] = kind]
        /\ project' = [project EXCEPT ![r] = p]
        /\ UNCHANGED <<projects, replaced>>
    BY <1>2 DEF Begin
  <2> QED BY <1>1, <1>2, <2>1
<1>3. ASSUME NEW r \in Requests, SaveProject(r)
      PROVE  ProjectFree' /\ ProjectsNotReplaced'
  <2>1. project[r] \notin projects
    BY <1>1, <1>3 DEF SaveProject
  <2>2. replaced' = replaced
    BY <1>3, <2>1 DEF SaveProject
  <2>3. ASSUME NEW q \in Requests, pc'[q] # "idle", new'[q] = "project"
        PROVE  project'[q] \notin projects'
    BY <1>1, <1>3, <2>3 DEF SaveProject, locals, RacesNoted
  <2> QED BY <1>1, <2>2, <2>3
<1>4. ASSUME \A r \in Requests : pc'[r] # "idle" => pc[r] # "idle",
             UNCHANGED <<new, project, replaced>>, projects' \subseteq projects
      PROVE  ProjectFree' /\ ProjectsNotReplaced'
  BY <1>1, <1>4
<1>5. ASSUME NEW r \in Requests, Serve(r) \/ ServerDies(r), ~SaveProject(r)
      PROVE  /\ \A q \in Requests : pc'[q] # "idle" => pc[q] # "idle"
             /\ UNCHANGED <<new, project, replaced, projects>>
  BY <1>5 DEF Serve, Acquire, LockTimeout, ReadIndex, WriteIndex, ResetIndex,
              Unlock, Refuse, SaveTestCase, SaveUpdate, Store, ServerDies, locals
<1>6. ASSUME NEW r \in Requests, Call(r)
      PROVE  ProjectFree' /\ ProjectsNotReplaced'
  BY <1>2, <1>6 DEF Call, CreateTestCase, MergeTestCase, CreateProject,
                    UpdateTestCase, Exists
<1>7. CASE UNCHANGED <<pc, new, project, replaced>> /\ projects' \subseteq projects
  BY <1>4, <1>7
<1> QED
  BY <1>3, <1>4, <1>5, <1>6, <1>7 DEF Next, vars, locals,
     DeleteTestCase, DeleteProject

(* A call that begins: what its search has found holds for it, and the other *)
(* calls are not concerned.                                                  *)
LEMMA AliasBegin ==
    ASSUME TypeOK, AliasesKept, AliasNamesOne, hazards' \subseteq {"timeout"},
           NEW r \in Requests, NEW kind, NEW p \in Projects, NEW a, NEW at,
           Begin(r, kind, p, a, at),
           \A q \in Requests \ {r} : id'[q] = id[q],
           Searches(kind) => \A c \in testcases[p] : c.alias = a /\ a # NoAlias =>
                                kind = "merged" /\ c.id = id'[r]
    PROVE  AliasesKept' /\ AliasNamesOne'
<1>1. /\ pc' = [pc EXCEPT ![r] = at]
      /\ new' = [new EXCEPT ![r] = kind]
      /\ project' = [project EXCEPT ![r] = p]
      /\ alias' = [alias EXCEPT ![r] = a]
      /\ testcases' = testcases
      /\ hazards \subseteq hazards'
  BY DEF Begin
<1>2. AliasNamesOne'
  BY <1>1 DEF AliasNamesOne
<1>3. ASSUME NEW q \in Requests, pc'[q] # "idle", Searches(new'[q])
      PROVE  AliasKept(q)'
  <2>1. CASE q = r
    BY <1>1, <1>3, <2>1 DEF TypeOK, AliasKept
  <2>2. CASE q # r
    BY <1>1, <1>3, <2>2 DEF TypeOK, AliasKept, AliasesKept
  <2> QED BY <2>1, <2>2
<1> QED BY <1>2, <1>3 DEF AliasesKept, AliasKept

(* Of the test cases stored after a save, those with the alias of the saved *)
(* one are the saved one.                                                   *)
LEMMA AliasSave ==
    ASSUME TypeOK, RacesNoted, AliasesKept, AliasNamesOne,
           hazards' \subseteq {"timeout"}, NEW r \in Requests, SaveTestCase(r)
    PROVE  AliasesKept' /\ AliasNamesOne'
<1> USE DEF TypeOK
<1> DEFINE saved == Saved(r)
<1>1. /\ pc[r] = "named" /\ Searches(new[r])
      /\ pc' = [pc EXCEPT ![r] = "idle"]
      /\ testcases' = [testcases EXCEPT ![project[r]] =
                          {c \in @ : c.id # id[r]} \cup {saved}]
      /\ UNCHANGED <<new, project, alias, id, hazards>>
  BY Storing DEF SaveTestCase
<1>2. AliasKept(r) /\ saved.id = id[r] /\ saved.alias = alias[r]
  BY <1>1, Storing DEF AliasesKept, SaveTestCase
<1> HIDE DEF saved
<1>3. ASSUME NEW p \in Projects, NEW c \in testcases'[p]
      PROVE  \/ c \in testcases[p] /\ (p = project[r] => c.id # id[r])
             \/ p = project[r] /\ c = saved
  BY <1>1
<1>4. ASSUME NEW p \in Projects, NEW c \in testcases'[p], NEW d \in testcases'[p],
             c.alias = d.alias, c.alias # NoAlias
      PROVE  c = d
  <2>1. CASE p = project[r] /\ c = saved
    BY <1>2, <1>3, <1>4, <2>1 DEF AliasKept
  <2>2. CASE p = project[r] /\ d = saved
    BY <1>2, <1>3, <1>4, <2>2 DEF AliasKept
  <2>3. CASE c \in testcases[p] /\ d \in testcases[p]
    BY <1>1, <1>4, <2>3 DEF AliasNamesOne
  <2> QED BY <1>3, <2>1, <2>2, <2>3
<1>5. ASSUME NEW q \in Requests, pc'[q] # "idle", Searches(new'[q])
      PROVE  AliasKept(q)'
  <2>1. q # r /\ AliasKept(q) /\ project[q] \in Projects
    BY <1>1, <1>5 DEF AliasesKept
  <2>2. ASSUME project[q] = project[r]
        PROVE  alias[q] = NoAlias \/ alias[q] # alias[r]
    BY <1>1, <1>5, <2>1, <2>2 DEF RacesNoted
  <2>3. ASSUME NEW c \in testcases'[project[q]], c.alias = alias[q], alias[q] # NoAlias
        PROVE  c \in testcases[project[q]]
    BY <1>2, <1>3, <2>1, <2>2, <2>3
  <2> QED BY <1>1, <2>1, <2>3 DEF AliasKept
<1> QED BY <1>4, <1>5 DEF AliasesKept, AliasKept, AliasNamesOne

LEMMA AliasStep ==
    ASSUME TypeOK, Route, RacesNoted, AliasesKept, AliasNamesOne, [Next]_vars
    PROVE  AliasesKept' /\ AliasNamesOne'
<1> SUFFICES ASSUME hazards' \subseteq {"timeout"}
             PROVE  AliasesKept' /\ AliasNamesOne'
  BY DEF AliasesKept, AliasNamesOne
<1>1. hazards \subseteq {"timeout"}
  BY HazardsGrow
<1>2. ASSUME NEW r \in Requests, NEW p \in Projects,
             \/ \E a \in Aliases \cup {NoAlias} : CreateTestCase(r, p, a)
             \/ CreateProject(r, p)
      PROVE  AliasesKept' /\ AliasNamesOne'
  BY <1>2, AliasBegin DEF CreateTestCase, CreateProject, KnownAs, Searches
<1>3. ASSUME NEW r \in Requests, NEW p \in Projects, NEW c \in testcases[p],
             MergeTestCase(r, p, c)
      PROVE  AliasesKept' /\ AliasNamesOne'
  <2>1. id' = [id EXCEPT ![r] = c.id] /\ Begin(r, "merged", p, c.alias, "named")
    BY <1>3 DEF MergeTestCase
  <2>2. \A d \in testcases[p] : d.alias = c.alias /\ c.alias # NoAlias => d = c
    BY <1>1 DEF AliasNamesOne
  <2>3. /\ id'[r] = c.id
        /\ \A q \in Requests \ {r} : id'[q] = id[q]
    BY <2>1 DEF TypeOK
  <2> QED BY <2>1, <2>2, <2>3, AliasBegin
<1>4. ASSUME NEW r \in Requests, SaveTestCase(r)
      PROVE  AliasesKept' /\ AliasNamesOne'
  BY <1>4, AliasSave
<1>5. ASSUME \A r \in Requests : pc'[r] # "idle" /\ Searches(new'[r]) =>
                 pc[r] # "idle" /\ (new[r] = "merged" => id'[r] = id[r]),
             UNCHANGED <<new, project, alias>>,
             \A p \in Projects : testcases'[p] \subseteq testcases[p]
      PROVE  AliasesKept' /\ AliasNamesOne'
  <2>1. AliasNamesOne'
    BY <1>1, <1>5 DEF AliasNamesOne
  <2>2. ASSUME NEW r \in Requests, pc'[r] # "idle", Searches(new'[r])
        PROVE  AliasKept(r)'
    BY <1>1, <1>5, <2>2 DEF AliasesKept, AliasKept, TypeOK
  <2> QED BY <2>1, <2>2 DEF AliasesKept, AliasKept
<1>6. ASSUME NEW r \in Requests, Serve(r) \/ ServerDies(r),
             ~SaveTestCase(r), ~SaveUpdate(r)
      PROVE  /\ \A q \in Requests : pc'[q] # "idle" =>
                     pc[q] # "idle" /\ (new[q] = "merged" => id'[q] = id[q])
             /\ UNCHANGED <<new, project, alias, testcases>>
  <2>1. CASE WriteIndex(r)
    BY <2>1 DEF WriteIndex, Route, TypeOK, locals
  <2>2. CASE ~WriteIndex(r)
    BY <1>6, <2>2 DEF Serve, Acquire, LockTimeout, ReadIndex, ResetIndex, Unlock,
                      Refuse, SaveProject, ServerDies, locals, TypeOK
  <2> QED BY <2>1, <2>2
<1>7. CASE /\ UNCHANGED <<pc, new, project, alias, id>>
           /\ \A p \in Projects : testcases'[p] \subseteq testcases[p]
  BY <1>5, <1>7
<1>8. ASSUME NEW r \in Requests, SaveUpdate(r)
      PROVE  AliasesKept' /\ AliasNamesOne'
  <2>1. Saved(r) \in testcases[project[r]]
    BY <1>8 DEF SaveUpdate, Renaming
  <2>2. \A p \in Projects : testcases'[p] \subseteq testcases[p]
    BY <1>8, <2>1, Storing DEF SaveUpdate, TypeOK
  <2> QED BY <1>5, <1>8, <2>2, Storing DEF SaveUpdate, TypeOK
<1>9. ASSUME NEW r \in Requests, Serve(r) \/ ServerDies(r)
      PROVE  AliasesKept' /\ AliasNamesOne'
  BY <1>4, <1>5, <1>6, <1>8, <1>9
<1>10. ASSUME NEW p \in Projects,
              \/ DeleteProject(p)
              \/ \E c \in testcases[p] : DeleteTestCase(p, c)
              \/ UNCHANGED vars
       PROVE  AliasesKept' /\ AliasNamesOne'
  BY <1>7, <1>10 DEF DeleteProject, DeleteTestCase, vars, locals, TypeOK
<1>11. CASE UNCHANGED vars
  BY <1>7, <1>11 DEF vars, locals
<1>12. ASSUME NEW r \in Requests, NEW p \in Projects, NEW c \in testcases[p],
              NEW a, UpdateTestCase(r, p, c, a)
       PROVE  AliasesKept' /\ AliasNamesOne'
  <2>1. /\ Begin(r, "update", p, a, "named") /\ ~Searches("update")
        /\ \A q \in Requests \ {r} : id'[q] = id[q]
    BY <1>12 DEF UpdateTestCase, Searches, TypeOK
  <2> QED BY <2>1, AliasBegin
<1> QED
  BY <1>2, <1>3, <1>9, <1>10, <1>11, <1>12 DEF Next, Call

LEMMA NamesInductive == Spec => []NameInv
<1>1. Init => NameInv
  <2> SUFFICES ASSUME Init PROVE NameInv
    OBVIOUS
  <2>1. /\ RacesNoted /\ ProjectFree /\ ProjectsNotReplaced
        /\ AliasesKept /\ AliasNamesOne
    BY DEF Init, RacesNoted, ProjectFree, ProjectsNotReplaced, AliasesKept,
           AliasNamesOne
  <2> QED BY <2>1, TypeInit DEF NameInv
<1>2. NameInv /\ [Next]_vars => NameInv'
  BY TypeStep, RaceStep, ProjectStep, AliasStep DEF NameInv
<1> QED BY <1>1, <1>2, PTL DEF Spec

(* A project is not replaced by a new one of its id unless two creates of *)
(* that id were under way at once.                                        *)
THEOREM ProjectsKept == Spec => []ProjectsNotReplaced
BY NamesInductive, PTL DEF NameInv

(* An alias names one test case, unless two creates looked for it at once, *)
(* an update changed an alias, or an update wrote back a test case that    *)
(* was deleted after the update had read it.                               *)
THEOREM AliasesUnique == Spec => []AliasNamesOne
BY NamesInductive, PTL DEF NameInv
=============================================================================
