------------------------- MODULE EntityStoreProofs -------------------------
(***************************************************************************)
(* Theorems about EntityStore, for any sets of ids, clients and servers.   *)
(***************************************************************************)
EXTENDS EntityStore, TLAPS

USE EntityStoreAssumption

(* A document with one field replaced is a document with the other two kept. *)
LEMMA DocFields ==
    ASSUME NEW doc \in Doc
    PROVE  /\ \A n \in Nat :
                  /\ [doc EXCEPT !.lmt = n] \in Doc
                  /\ [doc EXCEPT !.lmt = n].lmt = n
                  /\ [doc EXCEPT !.lmt = n].locked = doc.locked
                  /\ [doc EXCEPT !.lmt = n].ver = doc.ver
           /\ \A n \in Nat :
                  /\ [doc EXCEPT !.ver = n] \in Doc
                  /\ [doc EXCEPT !.ver = n].lmt = doc.lmt
                  /\ [doc EXCEPT !.ver = n].locked = doc.locked
                  /\ [doc EXCEPT !.ver = n].ver = n
           /\ \A b \in BOOLEAN :
                  /\ [doc EXCEPT !.locked = b] \in Doc
                  /\ [doc EXCEPT !.locked = b].lmt = doc.lmt
                  /\ [doc EXCEPT !.locked = b].locked = b
                  /\ [doc EXCEPT !.locked = b].ver = doc.ver
<1>1. \A n \in Nat :
          /\ [doc EXCEPT !.lmt = n] \in Doc
          /\ [doc EXCEPT !.lmt = n].lmt = n
          /\ [doc EXCEPT !.lmt = n].locked = doc.locked
          /\ [doc EXCEPT !.lmt = n].ver = doc.ver
  BY DEF Doc
<1>2. \A n \in Nat :
          /\ [doc EXCEPT !.ver = n] \in Doc
          /\ [doc EXCEPT !.ver = n].lmt = doc.lmt
          /\ [doc EXCEPT !.ver = n].locked = doc.locked
          /\ [doc EXCEPT !.ver = n].ver = n
  BY DEF Doc
<1>3. \A b \in BOOLEAN :
          /\ [doc EXCEPT !.locked = b] \in Doc
          /\ [doc EXCEPT !.locked = b].lmt = doc.lmt
          /\ [doc EXCEPT !.locked = b].locked = b
          /\ [doc EXCEPT !.locked = b].ver = doc.ver
  BY DEF Doc
<1> QED BY <1>1, <1>2, <1>3

(* Types, and the shape of a call under way, are kept by every step. *)
LEMMA TypeInit == Init => TypeOK /\ CallShape
<1> SUFFICES ASSUME Init PROVE TypeOK /\ CallShape
  OBVIOUS
<1>1. store \in [Ids -> Doc \cup {Absent}]
  BY DEF Init, Doc
<1>2. TypeOK
  BY <1>1 DEF Init, TypeOK, Ops, Hazards, Harms
<1>3. CallShape
  BY DEF Init, CallShape, Updates
<1> QED BY <1>2, <1>3

Places == {"idle", "waiting", "held", "checked", "stamped", "deleting", "bulk",
           "unlock"}

(* The shape CallShape asks of one call. *)
Shaped(o, at, doc) ==
    /\ at \in {"waiting", "held"} => o \in Updates
    /\ at \in {"checked", "stamped", "unlock"} => o \in Updates \cup {"create"}
    /\ at = "deleting" => o = "delete"
    /\ at = "bulk" => o = "bulk"
    /\ at \in {"waiting", "held", "checked", "stamped", "bulk"} => doc # Absent

(* A client that starts a call, or is refused it, leaves the types intact. *)
LEMMA ProceedType ==
    ASSUME TypeOK, CallShape, NEW r \in Requests, NEW i \in Ids, NEW o \in Ops,
           NEW doc \in Doc \cup {Absent}, NEW at \in Places, Shaped(o, at, doc),
           Proceed(r, o, i, doc, at), CountCall, hazards' \subseteq Hazards,
           UNCHANGED <<db, owner, clock, page>>
    PROVE  TypeOK' /\ CallShape'
<1>1. TypeOK'
  BY DEF TypeOK, Proceed, CountCall, db, Places
<1>2. CallShape'
  BY DEF TypeOK, CallShape, Proceed, Shaped, Places
<1> QED BY <1>1, <1>2

LEMMA RefuseType ==
    ASSUME TypeOK, CallShape, NEW r \in Requests, Refuse(r), CountCall,
           UNCHANGED <<db, owner, clock, page, hazards>>
    PROVE  TypeOK' /\ CallShape'
<1>1. TypeOK'
  BY DEF TypeOK, Refuse, CountCall, db
<1>2. CallShape'
  BY DEF CallShape, Refuse
<1> QED BY <1>1, <1>2

LEMMA OverlapType ==
    ASSUME TypeOK, NEW r \in Requests, NEW i \in Ids
    PROVE  /\ hazards \cup Overlap(r, i) \subseteq Hazards
           /\ hazards \cup UnlockedOverlap(r, i) \subseteq Hazards
BY DEF TypeOK, Overlap, UnlockedOverlap, Hazards

LEMMA TypeStep == TypeOK /\ CallShape /\ [Next]_vars => TypeOK' /\ CallShape'
<1> SUFFICES ASSUME TypeOK, CallShape, [Next]_vars
             PROVE  TypeOK' /\ CallShape'
  OBVIOUS
<1> USE DEF TypeOK, CallShape, Updates, db
<1>1. ASSUME NEW r \in Requests, NEW i \in Ids, Get(r, i)
      PROVE  TypeOK' /\ CallShape'
  BY <1>1 DEF Get
<1>2. ASSUME NEW r \in Requests, NEW i \in Ids, Save(r, i)
      PROVE  TypeOK' /\ CallShape'
  <2>1. page[r][i] \in Doc
    BY <1>2 DEF Save
  <2>2. CASE UserCanUpdateProject(r, page[r][i])
    <3>1. Proceed(r, "edit", i, page[r][i], "waiting")
      BY <1>2, <2>2 DEF Save
    <3> QED BY <1>2, <2>1, <3>1, ProceedType DEF Save, Ops, Places, Shaped
  <2>3. CASE ~UserCanUpdateProject(r, page[r][i])
    BY <1>2, <2>3, RefuseType DEF Save
  <2> QED BY <2>2, <2>3
<1>3. ASSUME NEW r \in Requests, NEW i \in Ids, NEW flag \in BOOLEAN,
             SetLocked(r, i, flag)
      PROVE  TypeOK' /\ CallShape'
  <2> DEFINE flipped == [store[i] EXCEPT !.locked = flag]
             o == IF flag THEN "lock" ELSE "unlock"
             may == /\ store[i] # Absent
                    /\ store[i].locked # flag
                    /\ UserCanUpdateProject(r, flipped)
  <2>1. CASE may
    <3>1. Proceed(r, o, i, flipped, "waiting")
      BY <1>3, <2>1 DEF SetLocked
    <3>2. flipped \in Doc
      BY <2>1, DocFields
    <3>3. flipped # Absent
      BY <3>2
    <3>4. CountCall /\ UNCHANGED <<db, owner, clock, page, hazards>>
      BY <1>3 DEF SetLocked
    <3>5. o \in Ops \cap Updates
      BY DEF Ops
    <3> HIDE DEF flipped, o
    <3> QED BY <3>1, <3>2, <3>3, <3>4, <3>5, ProceedType DEF Places, Shaped
  <2>2. CASE ~may
    BY <1>3, <2>2, RefuseType DEF SetLocked
  <2> QED BY <2>1, <2>2
<1>4. ASSUME NEW r \in Requests, NEW i \in Ids, Create(r, i)
      PROVE  TypeOK' /\ CallShape'
  <2> DEFINE new == [lmt |-> 0, locked |-> FALSE, ver |-> 0]
             may == store[i] = Absent /\ UserCanUpdateProject(r, new)
  <2>1. CASE may
    <3>1. Proceed(r, "create", i, new, "checked")
      BY <1>4, <2>1 DEF Create
    <3>2. new \in Doc
      BY DEF Doc
    <3>3. hazards' \subseteq Hazards
      BY <1>4, <2>1, OverlapType DEF Create
    <3> QED BY <1>4, <3>1, <3>2, <3>3, ProceedType
            DEF Create, Ops, Places, Shaped
  <2>2. CASE ~may
    BY <1>4, <2>2, RefuseType DEF Create
  <2> QED BY <2>1, <2>2
<1>5. ASSUME NEW r \in Requests, NEW i \in Ids, Delete(r, i)
      PROVE  TypeOK' /\ CallShape'
  <2>1. CASE UserCanDelete(r, store[i])
    <3>1. Proceed(r, "delete", i, Absent, "deleting")
      BY <1>5, <2>1 DEF Delete
    <3>2. hazards' \subseteq Hazards
      BY <1>5, <2>1, OverlapType DEF Delete
    <3> QED BY <1>5, <3>1, <3>2, ProceedType DEF Delete, Ops, Places, Shaped
  <2>2. CASE ~UserCanDelete(r, store[i])
    BY <1>5, <2>2, RefuseType DEF Delete
  <2> QED BY <2>1, <2>2
<1>6. ASSUME NEW r \in Requests, NEW i \in Ids, BulkRead(r, i)
      PROVE  TypeOK' /\ CallShape'
  <2> DEFINE may == store[i] # Absent /\ UserCanUpdateProject(r, store[i])
  <2>1. CASE may
    <3>1. Proceed(r, "bulk", i, store[i], "bulk")
      BY <1>6, <2>1 DEF BulkRead
    <3>2. hazards' \subseteq Hazards
      BY <1>6, <2>1, OverlapType DEF BulkRead
    <3> QED BY <1>6, <2>1, <3>1, <3>2, ProceedType
            DEF BulkRead, Ops, Places, Shaped
  <2>2. CASE ~may
    BY <1>6, <2>2, RefuseType DEF BulkRead
  <2> QED BY <2>1, <2>2
<1>7. ASSUME NEW r \in Requests, Acquire(r)
      PROVE  TypeOK' /\ CallShape'
  BY <1>7 DEF Acquire, UnlockedOverlap, Hazards
<1>8. ASSUME NEW r \in Requests, LockTimeout(r)
      PROVE  TypeOK' /\ CallShape'
  BY <1>8 DEF LockTimeout, UnlockedOverlap, Hazards
<1>9. ASSUME NEW r \in Requests, CheckVersion(r)
      PROVE  TypeOK' /\ CallShape'
  BY <1>9 DEF CheckVersion, AfterCheck
<1>10. ASSUME NEW r \in Requests, Stamp(r)
       PROVE  TypeOK' /\ CallShape'
  <2>1. entity[r] \in Doc /\ Now(r) \in Nat
    BY <1>10 DEF Stamp, Now
  <2>2. [entity[r] EXCEPT !.lmt = Now(r)] \in Doc
    BY <2>1 DEF Doc
  <2>3. entity' = [entity EXCEPT ![r] = [entity[r] EXCEPT !.lmt = Now(r)]]
    BY <1>10 DEF Stamp
  <2>4. hazards' \subseteq Hazards
    BY <1>10 DEF Stamp, Hazards
  <2>5. /\ pc[r] = "checked"
        /\ pc' = [pc EXCEPT ![r] = "stamped"]
        /\ UNCHANGED <<store, owner, clock, op, target, page, outcome, calls,
                       written, newest, harms>>
    BY <1>10 DEF Stamp
  <2>6. /\ entity' \in [Requests -> Doc \cup {Absent}]
        /\ entity'[r] # Absent
        /\ \A q \in Requests \ {r} : entity'[q] = entity[q]
    BY <2>2, <2>3
  <2>7. TypeOK'
    BY <2>4, <2>5, <2>6
  <2>8. CallShape'
    BY <2>5, <2>6
  <2> QED BY <2>7, <2>8
<1>11. ASSUME NEW r \in Requests, Write(r)
       PROVE  TypeOK' /\ CallShape'
  BY <1>11 DEF Write, Doc, Damage, Harms
<1>12. ASSUME NEW r \in Requests, Finish(r)
       PROVE  TypeOK' /\ CallShape'
  BY <1>12 DEF Finish, Released
<1>13. ASSUME NEW r \in Requests, Remove(r)
       PROVE  TypeOK' /\ CallShape'
  BY <1>13 DEF Remove, Harms
<1>14. ASSUME NEW r \in Requests, BulkWrite(r)
       PROVE  TypeOK' /\ CallShape'
  <2>1. [entity[r] EXCEPT !.ver = written + 1] \in Doc
    <3>1. entity[r] \in Doc /\ written + 1 \in Nat
      BY <1>14 DEF BulkWrite
    <3> HIDE DEF TypeOK, CallShape
    <3> QED BY <3>1, DocFields
  <2>2. harms' \subseteq Harms /\ hazards' \subseteq Hazards
    BY <1>14 DEF BulkWrite, Damage, Harms, Hazards
  <2> QED BY <1>14, <2>1, <2>2 DEF BulkWrite
<1>15. ASSUME NEW s \in Servers, Tick(s)
       PROVE  TypeOK' /\ CallShape'
  BY <1>15 DEF Tick
<1>16. CASE UNCHANGED vars
  BY <1>16 DEF vars
<1> QED
  BY <1>1, <1>2, <1>3, <1>4, <1>5, <1>6, <1>7, <1>8, <1>9, <1>10, <1>11,
     <1>12, <1>13, <1>14, <1>15, <1>16
     DEF Next, Call, Serve, LockTestCase, UnlockTestCase

(* The state of the collection, its locks and the calls stay well formed. *)
THEOREM TypeCorrect == Spec => []TypeOK
<1>1. Init => TypeOK /\ CallShape
  BY TypeInit
<1>2. TypeOK /\ CallShape /\ [Next]_vars => (TypeOK /\ CallShape)'
  BY TypeStep
<1> QED BY <1>1, <1>2, PTL DEF Spec

(* The document a write stores. *)
LEMMA SavedDoc ==
    ASSUME TypeOK, CallShape, NEW r \in Requests, pc[r] \in {"stamped", "bulk"}
    PROVE  /\ entity[r] \in Doc
           /\ [entity[r] EXCEPT !.ver = written + 1] \in Doc
           /\ [entity[r] EXCEPT !.ver = written + 1] # Absent
           /\ [entity[r] EXCEPT !.ver = written + 1].lmt = entity[r].lmt
           /\ [entity[r] EXCEPT !.ver = written + 1].locked = entity[r].locked
           /\ [entity[r] EXCEPT !.ver = written + 1].ver = written + 1
<1>1. entity[r] \in Doc /\ written + 1 \in Nat
  BY DEF TypeOK, CallShape
<1>2. [entity[r] EXCEPT !.ver = written + 1] \in Doc
  BY <1>1, DocFields
<1>3. [entity[r] EXCEPT !.ver = written + 1] # Absent
  BY <1>2
<1> QED BY <1>1, <1>2, <1>3, DocFields

(* The document after beforeSave. *)
LEMMA StampedDoc ==
    ASSUME TypeOK, CallShape, NEW r \in Requests, pc[r] = "checked"
    PROVE  /\ entity[r] \in Doc
           /\ Now(r) \in Nat
           /\ [entity[r] EXCEPT !.lmt = Now(r)] \in Doc
           /\ [entity[r] EXCEPT !.lmt = Now(r)].lmt = Now(r)
           /\ [entity[r] EXCEPT !.lmt = Now(r)].locked = entity[r].locked
           /\ [entity[r] EXCEPT !.lmt = Now(r)].ver = entity[r].ver
<1>1. entity[r] \in Doc /\ Now(r) \in Nat
  BY DEF TypeOK, CallShape, Now
<1> QED BY <1>1, DocFields

-----------------------------------------------------------------------------
(* The steps, seen from the calls: a call begins, moves on, or nothing that *)
(* concerns the calls happens.                                              *)

Quiet == UNCHANGED <<db, owner, pc, op, target, entity, hazards>>

(* A call that is not refused at once: what it starts with. *)
BeginUpdate(r, o, i, doc) ==
    /\ Proceed(r, o, i, doc, "waiting")
    /\ UserCanUpdateProject(r, doc)
    /\ doc \in Doc
    /\ hazards' = hazards
    /\ \/ o = "edit" /\ doc = page[r][i]
       \/ /\ o \in {"lock", "unlock"}
          /\ store[i] # Absent
          /\ doc.lmt = store[i].lmt
          /\ doc.ver = store[i].ver
          /\ doc.locked = (o = "lock")
          /\ store[i].locked = (o = "unlock")

BeginUnlocked(r, o, i, doc, at) ==
    /\ Proceed(r, o, i, doc, at)
    /\ hazards' = hazards \cup Overlap(r, i)
    /\ \/ /\ o = "create" /\ at = "checked" /\ store[i] = Absent
          /\ doc = [lmt |-> 0, locked |-> FALSE, ver |-> 0]
       \/ /\ o = "delete" /\ at = "deleting" /\ doc = Absent
          /\ store[i] = Absent \/ UserCanUpdateProject(r, store[i])
       \/ o = "bulk" /\ at = "bulk" /\ doc = store[i] /\ doc # Absent

Begins(r) ==
    /\ pc[r] = "idle"
    /\ UNCHANGED <<db, owner, page>>
    /\ \E i \in Ids, doc \in Doc \cup {Absent} :
           \/ \E o \in Updates : BeginUpdate(r, o, i, doc)
           \/ \E o \in Ops, at \in Places : BeginUnlocked(r, o, i, doc, at)

Steps ==
    \/ Quiet /\ UNCHANGED <<page, outcome>>
    \/ \E r \in Requests :
         \/ Quiet /\ UNCHANGED outcome /\ \E i \in Ids : Get(r, i)
         \/ Quiet /\ UNCHANGED page /\ pc[r] = "idle" /\ Refuse(r)
         \/ Begins(r)
         \/ Acquire(r)
         \/ LockTimeout(r)
         \/ CheckVersion(r)
         \/ Stamp(r)
         \/ Write(r)
         \/ Finish(r)
         \/ Remove(r)
         \/ BulkWrite(r)

LEMMA NextSteps == TypeOK /\ CallShape /\ [Next]_vars => Steps
<1> SUFFICES ASSUME TypeOK, CallShape, [Next]_vars
             PROVE  Steps
  OBVIOUS
<1> USE DEF db
<1>1. ASSUME NEW r \in Requests, NEW i \in Ids, Get(r, i)
      PROVE  Steps
  BY <1>1 DEF Get, Quiet, Steps
<1>2. ASSUME NEW r \in Requests, NEW i \in Ids, Save(r, i)
      PROVE  Steps
  <2>1. page[r][i] \in Doc
    BY <1>2 DEF Save, TypeOK
  <2>2. CASE UserCanUpdateProject(r, page[r][i])
    <3>1. BeginUpdate(r, "edit", i, page[r][i])
      BY <1>2, <2>1, <2>2 DEF Save, BeginUpdate
    <3> QED BY <1>2, <2>1, <3>1 DEF Save, Begins, Updates, Steps
  <2>3. CASE ~UserCanUpdateProject(r, page[r][i])
    BY <1>2, <2>3 DEF Save, Quiet, Refuse, Steps
  <2> QED BY <2>2, <2>3
<1>3. ASSUME NEW r \in Requests, NEW i \in Ids, NEW flag \in BOOLEAN,
             SetLocked(r, i, flag)
      PROVE  Steps
  <2> DEFINE flipped == [store[i] EXCEPT !.locked = flag]
             o == IF flag THEN "lock" ELSE "unlock"
             may == /\ store[i] # Absent
                    /\ store[i].locked # flag
                    /\ UserCanUpdateProject(r, flipped)
  <2>1. CASE may
    <3>1. /\ Proceed(r, o, i, flipped, "waiting")
          /\ UNCHANGED <<db, owner, page, hazards>>
          /\ pc[r] = "idle"
      BY <1>3, <2>1 DEF SetLocked
    <3>2. store[i] \in Doc
      BY <2>1 DEF TypeOK
    <3>3. /\ flipped \in Doc
          /\ flipped.lmt = store[i].lmt
          /\ flipped.ver = store[i].ver
          /\ flipped.locked = flag
      BY <3>2, DocFields
    <3>4. store[i].locked \in BOOLEAN
      BY <3>2 DEF Doc
    <3>5. /\ o \in {"lock", "unlock"}
          /\ flag = (o = "lock")
          /\ store[i].locked = (o = "unlock")
      BY <2>1, <3>4
    <3>6. BeginUpdate(r, o, i, flipped)
      <4> HIDE DEF flipped, o
      <4> QED BY <2>1, <3>1, <3>3, <3>5 DEF BeginUpdate
    <3> HIDE DEF flipped, o
    <3>7. Begins(r)
      BY <3>1, <3>3, <3>5, <3>6 DEF Begins, Updates
    <3> QED BY <3>7 DEF Steps
  <2>2. CASE ~may
    BY <1>3, <2>2 DEF SetLocked, Quiet, Refuse, Steps
  <2> QED BY <2>1, <2>2
<1>4. ASSUME NEW r \in Requests, NEW i \in Ids, Create(r, i)
      PROVE  Steps
  <2> DEFINE new == [lmt |-> 0, locked |-> FALSE, ver |-> 0]
             may == store[i] = Absent /\ UserCanUpdateProject(r, new)
  <2>1. CASE may
    <3>1. BeginUnlocked(r, "create", i, new, "checked")
      BY <1>4, <2>1 DEF Create, BeginUnlocked
    <3>2. new \in Doc
      BY DEF Doc
    <3>3. Begins(r)
      BY <1>4, <3>1, <3>2 DEF Create, Begins, Ops, Places
    <3> QED BY <3>3 DEF Steps
  <2>2. CASE ~may
    BY <1>4, <2>2 DEF Create, Quiet, Refuse, Steps
  <2> QED BY <2>1, <2>2
<1>5. ASSUME NEW r \in Requests, NEW i \in Ids, Delete(r, i)
      PROVE  Steps
  <2>1. CASE UserCanDelete(r, store[i])
    <3>1. BeginUnlocked(r, "delete", i, Absent, "deleting")
      BY <1>5, <2>1 DEF Delete, BeginUnlocked, UserCanDelete
    <3>2. Begins(r)
      BY <1>5, <3>1 DEF Delete, Begins, Ops, Places
    <3> QED BY <3>2 DEF Steps
  <2>2. CASE ~UserCanDelete(r, store[i])
    BY <1>5, <2>2 DEF Delete, Quiet, Refuse, Steps
  <2> QED BY <2>1, <2>2
<1>6. ASSUME NEW r \in Requests, NEW i \in Ids, BulkRead(r, i)
      PROVE  Steps
  <2> DEFINE may == store[i] # Absent /\ UserCanUpdateProject(r, store[i])
  <2>1. CASE may
    <3>1. BeginUnlocked(r, "bulk", i, store[i], "bulk")
      BY <1>6, <2>1 DEF BulkRead, BeginUnlocked
    <3>2. Begins(r)
      BY <1>6, <3>1 DEF BulkRead, Begins, Ops, Places, TypeOK
    <3> QED BY <3>2 DEF Steps
  <2>2. CASE ~may
    BY <1>6, <2>2 DEF BulkRead, Quiet, Refuse, Steps
  <2> QED BY <2>1, <2>2
<1>7. ASSUME NEW r \in Requests, Serve(r)
      PROVE  Steps
  BY <1>7 DEF Serve, Steps
<1>8. ASSUME NEW s \in Servers, Tick(s)
      PROVE  Steps
  BY <1>8 DEF Tick, Quiet, Steps
<1>9. CASE UNCHANGED vars
  BY <1>9 DEF vars, Quiet, Steps
<1> QED
  BY <1>1, <1>2, <1>3, <1>4, <1>5, <1>6, <1>7, <1>8, <1>9
     DEF Next, Call, LockTestCase, UnlockTestCase

-----------------------------------------------------------------------------
(* The lock *)

LEMMA OwnerStep ==
    TypeOK /\ CallShape /\ OwnerHolds /\ Steps => OwnerHolds'
<1> SUFFICES ASSUME TypeOK, CallShape, OwnerHolds, Steps, "timeout" \notin hazards',
                    NEW r \in Requests,
                    (InUpdate(r) \/ (pc[r] = "unlock" /\ op[r] \in Updates))'
             PROVE  owner'[target'[r]] = r
  BY DEF OwnerHolds
<1> USE DEF TypeOK, OwnerHolds, InUpdate, db
<1>1. CASE Quiet
  BY <1>1 DEF Quiet
<1>2. ASSUME NEW q \in Requests, Begins(q)
      PROVE  owner'[target'[r]] = r
  <2>1. hazards \subseteq hazards' /\ owner' = owner
    BY <1>2 DEF Begins, BeginUpdate, BeginUnlocked
  <2>2. CASE q = r
    BY <1>2, <2>2 DEF Begins, BeginUpdate, BeginUnlocked, Proceed, Updates
  <2>3. CASE q # r
    BY <1>2, <2>1, <2>3 DEF Begins, BeginUpdate, BeginUnlocked, Proceed
  <2> QED BY <2>2, <2>3
<1>3. ASSUME NEW q \in Requests, Acquire(q)
      PROVE  owner'[target'[r]] = r
  BY <1>3 DEF Acquire, LockFree
<1>4. ASSUME NEW q \in Requests, LockTimeout(q)
      PROVE  owner'[target'[r]] = r
  BY <1>4 DEF LockTimeout
<1>5. ASSUME NEW q \in Requests, CheckVersion(q)
      PROVE  owner'[target'[r]] = r
  BY <1>5 DEF CheckVersion, AfterCheck, CallShape
<1>6. ASSUME NEW q \in Requests, Stamp(q)
      PROVE  owner'[target'[r]] = r
  BY <1>6 DEF Stamp
<1>7. ASSUME NEW q \in Requests, Write(q)
      PROVE  owner'[target'[r]] = r
  BY <1>7 DEF Write, CallShape
<1>8. ASSUME NEW q \in Requests, Finish(q)
      PROVE  owner'[target'[r]] = r
  BY <1>8 DEF Finish, Released
<1>9. ASSUME NEW q \in Requests, Remove(q)
      PROVE  owner'[target'[r]] = r
  BY <1>9 DEF Remove
<1>10. ASSUME NEW q \in Requests, BulkWrite(q)
       PROVE  owner'[target'[r]] = r
  BY <1>10 DEF BulkWrite
<1> QED
  BY <1>1, <1>2, <1>3, <1>4, <1>5, <1>6, <1>7, <1>8, <1>9, <1>10 DEF Steps

(* A client hears of an error only when unlock threw. *)
LEMMA ErrorStep ==
    TypeOK /\ CallShape /\ OwnerHolds /\ ErrorNeedsTimeout /\ Steps
        => ErrorNeedsTimeout'
<1> SUFFICES ASSUME TypeOK, CallShape, OwnerHolds, ErrorNeedsTimeout, Steps,
                    NEW r \in Requests, outcome'[r] = "error"
             PROVE  "timeout" \in hazards'
  BY DEF ErrorNeedsTimeout
<1> USE DEF TypeOK, ErrorNeedsTimeout, db
<1>1. CASE Quiet /\ UNCHANGED outcome
  BY <1>1 DEF Quiet
<1>2. ASSUME NEW q \in Requests, Quiet, Refuse(q)
      PROVE  "timeout" \in hazards'
  BY <1>2 DEF Quiet, Refuse
<1>3. ASSUME NEW q \in Requests, Begins(q)
      PROVE  "timeout" \in hazards'
  BY <1>3 DEF Begins, BeginUpdate, BeginUnlocked, Proceed
<1>4. ASSUME NEW q \in Requests, Acquire(q) \/ LockTimeout(q)
      PROVE  "timeout" \in hazards'
  BY <1>4 DEF Acquire, LockTimeout
<1>5. ASSUME NEW q \in Requests, CheckVersion(q) \/ Stamp(q)
      PROVE  "timeout" \in hazards'
  BY <1>5 DEF CheckVersion, Stamp
<1>6. ASSUME NEW q \in Requests, Write(q) \/ BulkWrite(q) \/ Remove(q)
      PROVE  "timeout" \in hazards'
  BY <1>6 DEF Write, BulkWrite, Remove
<1>7. ASSUME NEW q \in Requests, Finish(q)
      PROVE  "timeout" \in hazards'
  <2>1. CASE outcome[r] = "error"
    BY <1>7, <2>1 DEF Finish
  <2>2. CASE outcome[r] # "error"
    <3>1. q = r /\ op[r] # "create" /\ owner[target[r]] # r /\ pc[r] = "unlock"
      BY <1>7, <2>2 DEF Finish
    <3>2. op[r] \in Updates
      BY <3>1 DEF CallShape
    <3> QED BY <1>7, <3>1, <3>2 DEF OwnerHolds, Finish
  <2> QED BY <2>1, <2>2
<1> QED BY <1>1, <1>2, <1>3, <1>4, <1>5, <1>6, <1>7 DEF Steps

(* Updates of one entity exclude each other unless a tryLock timed out. *)
THEOREM UpdatesExclude == Spec => []MutualExclusion
<1> DEFINE LInv == TypeOK /\ CallShape /\ OwnerHolds
<1>1. Init => LInv
  BY TypeInit DEF Init, OwnerHolds, InUpdate
<1>2. LInv /\ [Next]_vars => LInv'
  BY TypeStep, NextSteps, OwnerStep
<1>3. LInv => MutualExclusion
  BY DEF TypeOK, OwnerHolds, MutualExclusion
<1> QED BY <1>1, <1>2, <1>3, PTL DEF Spec

-----------------------------------------------------------------------------
(* Overlaps *)

LEMMA AloneStep == TypeOK /\ CallShape /\ Alone /\ Steps => Alone'
<1> SUFFICES ASSUME TypeOK, CallShape, Alone, Steps, "overlap" \notin hazards',
                    NEW r \in Requests, NEW q \in Requests,
                    InUnlocked(q)', (InUpdate(r) \/ InUnlocked(r))',
                    target'[r] = target'[q], r # q
             PROVE  FALSE
  BY DEF Alone
<1> USE DEF TypeOK, Alone, InUpdate, InUnlocked, db
<1>1. CASE Quiet
  BY <1>1 DEF Quiet
<1>2. ASSUME NEW p \in Requests, Begins(p)
      PROVE  FALSE
  <2>1. PICK i \in Ids, doc \in Doc \cup {Absent} :
           \/ \E o \in Updates : BeginUpdate(p, o, i, doc)
           \/ \E o \in Ops, at \in Places : BeginUnlocked(p, o, i, doc, at)
    BY <1>2 DEF Begins
  <2>2. CASE \E o \in Updates : BeginUpdate(p, o, i, doc)
    BY <2>2, <1>2 DEF BeginUpdate, Proceed, Updates, Begins
  <2>3. CASE \E o \in Ops, at \in Places : BeginUnlocked(p, o, i, doc, at)
    <3>1. PICK o \in Ops, at \in Places : BeginUnlocked(p, o, i, doc, at)
      BY <2>3
    <3>2. "overlap" \notin hazards /\ "overlap" \notin Overlap(p, i)
      BY <3>1 DEF BeginUnlocked
    <3>3. ~\E c \in Requests \ {p} :
              target[c] = i /\ (InUpdate(c) \/ InUnlocked(c))
      BY <3>2 DEF Overlap
    <3>4. \A c \in Requests \ {p} :
             pc'[c] = pc[c] /\ op'[c] = op[c] /\ target'[c] = target[c]
      BY <3>1 DEF BeginUnlocked, Proceed
    <3>5. target'[p] = i
      BY <3>1 DEF BeginUnlocked, Proceed
    <3> QED BY <3>2, <3>3, <3>4, <3>5
  <2> QED BY <2>1, <2>2, <2>3
<1>3. ASSUME NEW p \in Requests, Acquire(p) \/ LockTimeout(p)
      PROVE  FALSE
  <2>1. "overlap" \notin hazards /\ "overlap" \notin UnlockedOverlap(p, target[p])
    BY <1>3 DEF Acquire, LockTimeout
  <2>2. ~\E c \in Requests \ {p} : target[c] = target[p] /\ InUnlocked(c)
    BY <2>1 DEF UnlockedOverlap
  <2> QED BY <1>3, <2>1, <2>2 DEF Acquire, LockTimeout, CallShape, Updates
<1>4. ASSUME NEW p \in Requests, CheckVersion(p)
      PROVE  FALSE
  BY <1>4 DEF CheckVersion, AfterCheck, CallShape, Updates
<1>5. ASSUME NEW p \in Requests, Stamp(p)
      PROVE  FALSE
  BY <1>5 DEF Stamp
<1>6. ASSUME NEW p \in Requests, Write(p)
      PROVE  FALSE
  BY <1>6 DEF Write
<1>7. ASSUME NEW p \in Requests, Finish(p)
      PROVE  FALSE
  BY <1>7 DEF Finish
<1>8. ASSUME NEW p \in Requests, Remove(p)
      PROVE  FALSE
  BY <1>8 DEF Remove
<1>9. ASSUME NEW p \in Requests, BulkWrite(p)
      PROVE  FALSE
  BY <1>9 DEF BulkWrite
<1> QED
  BY <1>1, <1>2, <1>3, <1>4, <1>5, <1>6, <1>7, <1>8, <1>9 DEF Steps

LEMMA FoundStep ==
    TypeOK /\ CallShape /\ Alone /\ FoundStays /\ Steps => FoundStays'
<1> SUFFICES ASSUME TypeOK, CallShape, Alone, FoundStays, Steps,
                    "overlap" \notin hazards', NEW r \in Requests,
                    ((InUpdate(r) /\ pc[r] # "held") \/ pc[r] = "bulk")'
             PROVE  store'[target'[r]] # Absent
  BY DEF FoundStays
<1> USE DEF TypeOK, FoundStays, InUpdate, db
<1>1. CASE Quiet
  BY <1>1 DEF Quiet
<1>2. ASSUME NEW q \in Requests, Begins(q)
      PROVE  store'[target'[r]] # Absent
  <2>1. "overlap" \notin hazards /\ store' = store
    BY <1>2 DEF Begins, BeginUpdate, BeginUnlocked
  <2>2. CASE q = r
    BY <1>2, <2>1, <2>2 DEF Begins, BeginUpdate, BeginUnlocked, Proceed, Updates
  <2>3. CASE q # r
    BY <1>2, <2>1, <2>3 DEF Begins, BeginUpdate, BeginUnlocked, Proceed
  <2> QED BY <2>2, <2>3
<1>3. ASSUME NEW q \in Requests, Acquire(q) \/ LockTimeout(q)
      PROVE  store'[target'[r]] # Absent
  BY <1>3 DEF Acquire, LockTimeout
<1>4. ASSUME NEW q \in Requests, CheckVersion(q)
      PROVE  store'[target'[r]] # Absent
  BY <1>4 DEF CheckVersion, AfterCheck, MayReplace
<1>5. ASSUME NEW q \in Requests, Stamp(q)
      PROVE  store'[target'[r]] # Absent
  BY <1>5 DEF Stamp
<1>6. ASSUME NEW q \in Requests, Write(q)
      PROVE  store'[target'[r]] # Absent
  <2>1. [entity[q] EXCEPT !.ver = written + 1] # Absent
    BY <1>6, SavedDoc DEF Write
  <2> QED BY <1>6, <2>1 DEF Write
<1>7. ASSUME NEW q \in Requests, Finish(q)
      PROVE  store'[target'[r]] # Absent
  BY <1>7 DEF Finish
<1>8. ASSUME NEW q \in Requests, Remove(q)
      PROVE  store'[target'[r]] # Absent
  <2>1. InUnlocked(q) /\ (InUpdate(r) \/ InUnlocked(r)) /\ q # r
    BY <1>8 DEF Remove, InUnlocked
  <2>2. target[q] # target[r]
    BY <1>8, <2>1 DEF Alone, Remove
  <2> QED BY <1>8, <2>2 DEF Remove
<1>9. ASSUME NEW q \in Requests, BulkWrite(q)
      PROVE  store'[target'[r]] # Absent
  <2>1. [entity[q] EXCEPT !.ver = written + 1] # Absent
    BY <1>9, SavedDoc DEF BulkWrite
  <2> QED BY <1>9, <2>1 DEF BulkWrite
<1> QED
  BY <1>1, <1>2, <1>3, <1>4, <1>5, <1>6, <1>7, <1>8, <1>9 DEF Steps

(* Nothing comes back unless a delete met a call past its check. *)
LEMMA ResurrectionStep ==
    TypeOK /\ CallShape /\ FoundStays /\ ResurrectionNeedsOverlap /\ Steps
        => ResurrectionNeedsOverlap'
<1> SUFFICES ASSUME TypeOK, CallShape, FoundStays, ResurrectionNeedsOverlap, Steps,
                    "resurrected" \in harms'
             PROVE  "overlap" \in hazards'
  BY DEF ResurrectionNeedsOverlap
<1> USE DEF ResurrectionNeedsOverlap, db
<1>1. CASE Quiet
  BY <1>1 DEF Quiet
<1>2. ASSUME NEW q \in Requests, Begins(q)
      PROVE  "overlap" \in hazards'
  BY <1>2 DEF Begins, BeginUpdate, BeginUnlocked
<1>3. ASSUME NEW q \in Requests, Acquire(q) \/ LockTimeout(q)
      PROVE  "overlap" \in hazards'
  BY <1>3 DEF Acquire, LockTimeout
<1>4. ASSUME NEW q \in Requests, CheckVersion(q) \/ Stamp(q) \/ Finish(q)
      PROVE  "overlap" \in hazards'
  BY <1>4 DEF CheckVersion, Stamp, Finish
<1>5. ASSUME NEW q \in Requests, Write(q) \/ BulkWrite(q)
      PROVE  "overlap" \in hazards'
  <2>1. harms' = harms \cup Damage(q, target[q]) /\ hazards \subseteq hazards'
    BY <1>5 DEF Write, BulkWrite
  <2>2. CASE "resurrected" \in harms
    BY <2>1, <2>2
  <2>3. CASE "resurrected" \in Damage(q, target[q])
    <3>1. store[target[q]] = Absent /\ op[q] # "create"
      BY <2>3 DEF Damage
    <3>2. (InUpdate(q) /\ pc[q] # "held") \/ pc[q] = "bulk"
      BY <1>5, <3>1 DEF Write, BulkWrite, InUpdate, CallShape
    <3> QED BY <2>1, <3>1, <3>2 DEF FoundStays
  <2> QED BY <2>1, <2>2, <2>3
<1>6. ASSUME NEW q \in Requests, Remove(q)
      PROVE  "overlap" \in hazards'
  BY <1>6 DEF Remove
<1> QED BY <1>1, <1>2, <1>3, <1>4, <1>5, <1>6 DEF Steps

(* A deleted entity is brought back only by a call that the delete met. *)
THEOREM DeletesLast == Spec => []ResurrectionNeedsOverlap
<1> DEFINE DInv == /\ TypeOK /\ CallShape /\ Alone /\ FoundStays
                   /\ ResurrectionNeedsOverlap
<1>1. Init => DInv
  BY TypeInit
     DEF Init, Alone, FoundStays, InUpdate, InUnlocked, ResurrectionNeedsOverlap
<1>2. DInv /\ [Next]_vars => DInv'
  BY TypeStep, NextSteps, AloneStep, FoundStep, ResurrectionStep
<1> QED BY <1>1, <1>2, PTL DEF Spec

(* A client told of an error saved nothing, but for a timed out tryLock. *)
THEOREM ErrorsExplained == Spec => []ErrorNeedsTimeout
<1> DEFINE EInv == TypeOK /\ CallShape /\ OwnerHolds /\ ErrorNeedsTimeout
<1>1. Init => EInv
  BY TypeInit DEF Init, OwnerHolds, InUpdate, ErrorNeedsTimeout
<1>2. EInv /\ [Next]_vars => EInv'
  BY TypeStep, NextSteps, OwnerStep, ErrorStep
<1> QED BY <1>1, <1>2, PTL DEF Spec

-----------------------------------------------------------------------------
(* Permissions *)

LEMMA PermittedStep == TypeOK /\ CallShape /\ Permitted /\ Steps => Permitted'
<1> SUFFICES ASSUME TypeOK, CallShape, Permitted, Steps,
                    NEW r \in Requests, ~IsAdmin(r)
             PROVE  PermittedCall(r)'
  BY DEF Permitted, IsAdmin
<1> USE DEF TypeOK, Permitted, PermittedCall
<1>1. CASE Quiet
  BY <1>1 DEF Quiet
<1>2. ASSUME NEW q \in Requests, Begins(q)
      PROVE  PermittedCall(r)'
  <2>1. PICK i \in Ids, doc \in Doc \cup {Absent} :
           \/ \E o \in Updates : BeginUpdate(q, o, i, doc)
           \/ \E o \in Ops, at \in Places : BeginUnlocked(q, o, i, doc, at)
    BY <1>2 DEF Begins
  <2>2. CASE \E o \in Updates : BeginUpdate(q, o, i, doc)
    <3>1. PICK o \in Updates : BeginUpdate(q, o, i, doc)
      BY <2>2
    <3>2. CASE q = r
      <4>1. ~doc.locked
        BY <3>1, <3>2 DEF BeginUpdate, UserCanUpdateProject
      <4>2. o # "lock"
        BY <3>1, <4>1 DEF BeginUpdate
      <4> QED BY <3>1, <3>2, <4>1, <4>2 DEF BeginUpdate, Proceed
    <3>3. CASE q # r
      BY <3>1, <3>3 DEF BeginUpdate, Proceed
    <3> QED BY <3>2, <3>3
  <2>3. CASE \E o \in Ops, at \in Places : BeginUnlocked(q, o, i, doc, at)
    BY <2>3 DEF BeginUnlocked, Proceed
  <2> QED BY <2>1, <2>2, <2>3
<1>3. ASSUME NEW q \in Requests, Acquire(q) \/ LockTimeout(q) \/ CheckVersion(q)
      PROVE  PermittedCall(r)'
  BY <1>3 DEF Acquire, LockTimeout, CheckVersion, AfterCheck
<1>4. ASSUME NEW q \in Requests, Stamp(q)
      PROVE  PermittedCall(r)'
  <2>1. entity' = [entity EXCEPT ![q] = [entity[q] EXCEPT !.lmt = Now(q)]]
    BY <1>4 DEF Stamp
  <2>2. [entity[q] EXCEPT !.lmt = Now(q)].locked = entity[q].locked
    BY <1>4, StampedDoc DEF Stamp
  <2> QED BY <1>4, <2>1, <2>2 DEF Stamp
<1>5. ASSUME NEW q \in Requests, Write(q)
      PROVE  PermittedCall(r)'
  BY <1>5 DEF Write
<1>6. ASSUME NEW q \in Requests, Finish(q) \/ Remove(q) \/ BulkWrite(q)
      PROVE  PermittedCall(r)'
  BY <1>6 DEF Finish, Remove, BulkWrite
<1> QED BY <1>1, <1>2, <1>3, <1>4, <1>5, <1>6 DEF Steps

-----------------------------------------------------------------------------
(* The data while no hazard has struck *)

CalmContext ==
    /\ TypeOK /\ CallShape /\ OwnerHolds /\ Alone /\ FoundStays /\ Permitted
    /\ Calm /\ hazards = {}

(* Nobody else is between its check and its write on the same entity. *)
LEMMA WriterAlone ==
    ASSUME CalmContext, NEW r \in Requests, NEW q \in Requests, q # r,
           target[q] = target[r], pc[r] = "stamped" \/ pc[r] = "deleting"
    PROVE  ~InUpdate(q) /\ ~InUnlocked(q)
<1> USE DEF CalmContext
<1>1. InUpdate(r) \/ InUnlocked(r)
  BY DEF CallShape, InUpdate, InUnlocked
<1>2. ~InUnlocked(q)
  BY <1>1 DEF Alone
<1>3. ~InUpdate(q)
  <2>1. CASE InUpdate(r)
    BY <2>1 DEF OwnerHolds
  <2>2. CASE InUnlocked(r)
    BY <2>2 DEF Alone
  <2> QED BY <1>1, <2>1, <2>2
<1> QED BY <1>2, <1>3

LEMMA CalmQuiet ==
    ASSUME CalmContext, Quiet, NEW r \in Requests,
           \/ UNCHANGED <<page, outcome>>
           \/ UNCHANGED outcome /\ \E i \in Ids : Get(r, i)
           \/ UNCHANGED page /\ pc[r] = "idle" /\ Refuse(r)
    PROVE  Calm'
<1> USE DEF CalmContext, Quiet, db
<1>1. CalmStore'
  BY DEF Calm, CalmStore
<1>2. CalmPages'
  <2>1. CASE UNCHANGED page
    BY <2>1 DEF Calm, CalmPages, Known, SameFlag
  <2>2. ASSUME NEW i \in Ids, Get(r, i)
        PROVE  CalmPages'
    BY <2>2 DEF Get, Calm, CalmPages, CalmStore, Known, SameFlag, TypeOK
  <2> QED BY <2>1, <2>2
<1>3. CalmCalls'
  <2>1. CASE UNCHANGED outcome
    BY <2>1 DEF Calm, CalmCalls, CalmCall, Known, SameFlag
  <2>2. CASE pc[r] = "idle" /\ Refuse(r)
    BY <2>2 DEF Refuse, Calm, CalmCalls, CalmCall, Known, SameFlag, TypeOK
  <2> QED BY <2>1, <2>2
<1>4. CalmWrites' /\ CalmDeletes'
  BY DEF Calm, CalmWrites, CalmWriter, CalmDeletes, InUpdate, IsAdmin
<1> QED BY <1>1, <1>2, <1>3, <1>4 DEF Calm

LEMMA CalmBegins ==
    ASSUME CalmContext, NEW r \in Requests, Begins(r)
    PROVE  Calm'
<1> USE DEF CalmContext, db
<1>1. PICK i \in Ids, doc \in Doc \cup {Absent} :
         \/ \E o \in Updates : BeginUpdate(r, o, i, doc)
         \/ \E o \in Ops, at \in Places : BeginUnlocked(r, o, i, doc, at)
  BY DEF Begins
<1>2. PICK o \in Ops, at \in Places :
         /\ Proceed(r, o, i, doc, at)
         /\ \/ o \in Updates /\ at = "waiting" /\ BeginUpdate(r, o, i, doc)
            \/ BeginUnlocked(r, o, i, doc, at)
  BY <1>1 DEF BeginUpdate, BeginUnlocked, Updates, Ops, Places
<1>3. UNCHANGED <<store, newest, page, outcome>>
  BY <1>2 DEF Begins, Proceed
<1>4. /\ pc' = [pc EXCEPT ![r] = at]
      /\ op' = [op EXCEPT ![r] = o]
      /\ target' = [target EXCEPT ![r] = i]
      /\ entity' = [entity EXCEPT ![r] = doc]
  BY <1>2 DEF Proceed
<1>5. CalmStore' /\ CalmPages'
  BY <1>3 DEF Calm, CalmStore, CalmPages, Known, SameFlag
<1>6. o \in Updates /\ at = "waiting" => Known(doc, i) /\ (o = "edit" => SameFlag(doc, i))
  <2>1. SUFFICES ASSUME o \in Updates, BeginUpdate(r, o, i, doc)
                 PROVE  Known(doc, i) /\ (o = "edit" => SameFlag(doc, i))
    BY <1>2 DEF BeginUnlocked
  <2>2. CASE o = "edit" /\ doc = page[r][i]
    BY <2>1, <2>2 DEF Calm, CalmPages, BeginUpdate
  <2>3. CASE o # "edit"
    <3>1. doc.lmt = store[i].lmt /\ doc.ver = store[i].ver /\ store[i] # Absent
      BY <2>1, <2>3 DEF BeginUpdate
    <3>2. store[i].lmt = newest[i] /\ newest[i] \in Nat
      BY <3>1 DEF Calm, CalmStore, TypeOK
    <3> QED BY <2>3, <3>1, <3>2 DEF Known
  <2> QED BY <2>1, <2>2, <2>3 DEF BeginUpdate
<1>7. at # "unlock" /\ at # "held" /\ at # "stamped"
  BY <1>2 DEF BeginUnlocked
<1>8. o \in Updates => at = "waiting"
  BY <1>2 DEF BeginUnlocked, Updates
<1>9. CalmCalls'
  <2> SUFFICES ASSUME NEW q \in Requests
               PROVE  CalmCall(q)'
    BY DEF CalmCalls
  <2>1. CASE q = r
    BY <1>3, <1>4, <1>6, <1>7, <1>8, <2>1 DEF CalmCall, Known, SameFlag, TypeOK, Updates
  <2>2. CASE q # r
    BY <1>3, <1>4, <2>2 DEF Calm, CalmCalls, CalmCall, Known, SameFlag, TypeOK
  <2> QED BY <2>1, <2>2
<1>10. CalmWrites'
  <2>1. o = "create" => store[i] = Absent
    BY <1>2 DEF BeginUnlocked, Updates
  <2> SUFFICES ASSUME NEW q \in Requests
               PROVE  CalmWriter(q)'
    BY DEF CalmWrites
  <2>2. CASE q = r
    BY <1>3, <1>4, <1>7, <1>8, <2>1, <2>2 DEF CalmWriter, InUpdate, TypeOK
  <2>3. CASE q # r
    BY <1>3, <1>4, <2>3 DEF Calm, CalmWrites, CalmWriter, InUpdate, TypeOK
  <2> QED BY <2>2, <2>3
<1>11. CalmDeletes'
  <2>1. at = "deleting" /\ ~IsAdmin(r) => store[i] = Absent \/ ~store[i].locked
    BY <1>2 DEF BeginUnlocked, UserCanUpdateProject
  <2> SUFFICES ASSUME NEW q \in Requests, pc'[q] = "deleting", ~IsAdmin(q)
               PROVE  (store[target[q]] = Absent \/ ~store[target[q]].locked)'
    BY DEF CalmDeletes, IsAdmin
  <2>2. CASE q = r
    BY <1>3, <1>4, <2>1, <2>2 DEF TypeOK
  <2>3. CASE q # r
    BY <1>3, <1>4, <2>3 DEF Calm, CalmDeletes, TypeOK
  <2> QED BY <2>2, <2>3
<1> QED BY <1>5, <1>9, <1>10, <1>11 DEF Calm

LEMMA CalmAcquire ==
    ASSUME CalmContext, NEW r \in Requests, Acquire(r)
    PROVE  Calm'
<1> USE DEF CalmContext, Acquire, db
<1>1. CalmStore' /\ CalmPages'
  BY DEF Calm, CalmStore, CalmPages, Known, SameFlag
<1>2. CalmCalls'
  BY DEF Calm, CalmCalls, CalmCall, Known, SameFlag, TypeOK
<1>3. CalmWrites'
  BY DEF Calm, CalmWrites, CalmWriter, InUpdate, TypeOK
<1>4. CalmDeletes'
  BY DEF Calm, CalmDeletes, IsAdmin, TypeOK
<1> QED BY <1>1, <1>2, <1>3, <1>4 DEF Calm

LEMMA CalmCheck ==
    ASSUME CalmContext, NEW r \in Requests, CheckVersion(r)
    PROVE  Calm'
<1> DEFINE i == target[r]
           ok == MayReplace(store[i], entity[r])
<1>1. /\ pc' = [pc EXCEPT ![r] = IF ok THEN "checked" ELSE "unlock"]
      /\ ~ok => outcome' = [outcome EXCEPT ![r] = "refused"]
      /\ ok => outcome' = outcome
      /\ UNCHANGED <<store, newest, op, target, page, entity>>
      /\ pc[r] = "held"
  BY DEF CheckVersion, AfterCheck, db, CalmContext, TypeOK
<1>2. ok => /\ store[i] # Absent
            /\ store[i].ver = entity[r].ver
            /\ op[r] = "edit" => store[i].locked = entity[r].locked
  <2>1. SUFFICES ASSUME ok
                 PROVE  /\ store[i] # Absent
                        /\ store[i].ver = entity[r].ver
                        /\ op[r] = "edit" => store[i].locked = entity[r].locked
    OBVIOUS
  <2>2. store[i] # Absent /\ store[i].lmt <= entity[r].lmt
    BY <2>1 DEF MayReplace
  <2>3. Known(entity[r], i) /\ (op[r] = "edit" => SameFlag(entity[r], i))
    BY <1>1 DEF CalmContext, Calm, CalmCalls, CalmCall, CallShape
  <2>4. store[i] \in Doc /\ entity[r] \in Doc /\ newest[i] \in Nat
    BY <1>1, <2>2 DEF CalmContext, TypeOK, CallShape
  <2>5. store[i].lmt = newest[i]
    BY <2>2 DEF CalmContext, Calm, CalmStore, TypeOK
  <2>6. entity[r].lmt = newest[i]
    BY <2>2, <2>3, <2>4, <2>5 DEF Known, Doc
  <2> QED BY <2>2, <2>3, <2>6 DEF Known, SameFlag
<1> HIDE DEF ok
<1>3. CalmStore' /\ CalmPages'
  BY <1>1 DEF CalmContext, Calm, CalmStore, CalmPages, Known, SameFlag
<1>4. CalmCalls'
  <2> SUFFICES ASSUME NEW q \in Requests PROVE CalmCall(q)'
    BY DEF CalmCalls
  <2>1. CASE q = r
    BY <1>1, <2>1
       DEF CalmContext, Calm, CalmCalls, CalmCall, Known, SameFlag, TypeOK
  <2>2. CASE q # r
    BY <1>1, <2>2
       DEF CalmContext, Calm, CalmCalls, CalmCall, Known, SameFlag, TypeOK
  <2> QED BY <2>1, <2>2
<1>5. CalmWrites'
  <2> SUFFICES ASSUME NEW q \in Requests PROVE CalmWriter(q)'
    BY DEF CalmWrites
  <2>1. CASE q = r
    BY <1>1, <1>2, <2>1
       DEF CalmContext, CalmWriter, InUpdate, CallShape, Updates, TypeOK
  <2>2. CASE q # r
    BY <1>1, <2>2 DEF CalmContext, Calm, CalmWrites, CalmWriter, InUpdate, TypeOK
  <2> QED BY <2>1, <2>2
<1>6. CalmDeletes'
  BY <1>1 DEF CalmContext, Calm, CalmDeletes, IsAdmin, TypeOK
<1> QED BY <1>3, <1>4, <1>5, <1>6 DEF Calm

LEMMA CalmStamp ==
    ASSUME CalmContext, NEW r \in Requests, Stamp(r), hazards' = {}
    PROVE  Calm'
<1> DEFINE i == target[r]
           stamped == [entity[r] EXCEPT !.lmt = Now(r)]
<1>1. /\ pc' = [pc EXCEPT ![r] = "stamped"]
      /\ entity' = [entity EXCEPT ![r] = stamped]
      /\ UNCHANGED <<store, newest, op, target, page, outcome>>
      /\ pc[r] = "checked"
  BY DEF Stamp, db
<1>2. newest[i] < Now(r)
  <2>1. ~(Now(r) <= newest[i])
    BY DEF Stamp
  <2>2. newest[i] \in Nat /\ Now(r) \in Nat
    BY <1>1, StampedDoc DEF CalmContext, TypeOK
  <2> QED BY <2>1, <2>2
<1>3. /\ stamped.lmt = Now(r)
      /\ stamped.locked = entity[r].locked
      /\ stamped.ver = entity[r].ver
  BY <1>1, StampedDoc DEF CalmContext
<1> HIDE DEF stamped
<1>4. CalmStore' /\ CalmPages'
  BY <1>1 DEF CalmContext, Calm, CalmStore, CalmPages, Known, SameFlag
<1>5. CalmCalls'
  <2> SUFFICES ASSUME NEW q \in Requests PROVE CalmCall(q)'
    BY DEF CalmCalls
  <2>1. CASE q = r
    BY <1>1, <2>1 DEF CalmContext, CalmCall, TypeOK
  <2>2. CASE q # r
    BY <1>1, <2>2
       DEF CalmContext, Calm, CalmCalls, CalmCall, Known, SameFlag, TypeOK
  <2> QED BY <2>1, <2>2
<1>6. CalmWrites'
  <2> SUFFICES ASSUME NEW q \in Requests PROVE CalmWriter(q)'
    BY DEF CalmWrites
  <2>1. CASE q = r
    BY <1>1, <1>2, <1>3, <2>1
       DEF CalmContext, Calm, CalmWrites, CalmWriter, InUpdate, TypeOK
  <2>2. CASE q # r
    BY <1>1, <2>2 DEF CalmContext, Calm, CalmWrites, CalmWriter, InUpdate, TypeOK
  <2> QED BY <2>1, <2>2
<1>7. CalmDeletes'
  BY <1>1 DEF CalmContext, Calm, CalmDeletes, IsAdmin, TypeOK
<1> QED BY <1>4, <1>5, <1>6, <1>7 DEF Calm

LEMMA CalmWrite ==
    ASSUME CalmContext, NEW r \in Requests, Write(r)
    PROVE  Calm'
<1> DEFINE i == target[r]
           saved == [entity[r] EXCEPT !.ver = written + 1]
<1>1. /\ pc' = [pc EXCEPT ![r] = "unlock"]
      /\ entity' = [entity EXCEPT ![r] = saved]
      /\ store' = [store EXCEPT ![i] = saved]
      /\ newest' = [newest EXCEPT ![i] = IF newest[i] < saved.lmt
                                          THEN saved.lmt ELSE newest[i]]
      /\ outcome' = [outcome EXCEPT ![r] = "saved"]
      /\ UNCHANGED <<op, target, page>>
      /\ pc[r] = "stamped"
  BY DEF Write
<1>2. /\ saved \in Doc /\ saved # Absent
      /\ saved.lmt = entity[r].lmt
      /\ saved.ver = written + 1
  BY <1>1, SavedDoc DEF CalmContext
<1>3. newest[i] < saved.lmt /\ newest[i] \in Nat /\ saved.lmt \in Nat
  BY <1>1, <1>2 DEF CalmContext, Calm, CalmWrites, CalmWriter, TypeOK, Doc
<1> HIDE DEF saved
<1>4. newest' = [newest EXCEPT ![i] = saved.lmt]
  BY <1>1, <1>3
<1>5. saved.ver # 0
  BY <1>2 DEF CalmContext, TypeOK
<1>6. ASSUME NEW j \in Ids, NEW doc \in Doc, Known(doc, j), SameFlag(doc, j)
      PROVE  (Known(doc, j) /\ SameFlag(doc, j))'
  BY <1>1, <1>3, <1>4, <1>6 DEF Known, SameFlag, CalmContext, TypeOK, Doc
<1>7. ASSUME NEW j \in Ids, NEW doc \in Doc, Known(doc, j)
      PROVE  Known(doc, j)'
  BY <1>1, <1>3, <1>4, <1>7 DEF Known, CalmContext, TypeOK, Doc
<1>8. CalmStore'
  BY <1>1, <1>3, <1>4, <1>5 DEF CalmContext, Calm, CalmStore, TypeOK
<1>9. CalmPages'
  <2> SUFFICES ASSUME NEW q \in Requests, NEW j \in Ids, page[q][j] # Absent
               PROVE  (Known(page[q][j], j) /\ SameFlag(page[q][j], j))'
    BY <1>1 DEF CalmPages
  <2>1. page[q][j] \in Doc /\ Known(page[q][j], j) /\ SameFlag(page[q][j], j)
    BY DEF CalmContext, Calm, CalmPages, TypeOK
  <2> QED BY <1>1, <1>6, <2>1 DEF Known, SameFlag
<1>10. CalmCalls'
  <2> SUFFICES ASSUME NEW q \in Requests PROVE CalmCall(q)'
    BY DEF CalmCalls
  <2>1. CASE q = r
    BY <1>1, <1>2, <1>3, <1>4, <2>1
       DEF CalmContext, CalmCall, Known, SameFlag, TypeOK
  <2>2. CASE q # r
    <3>1. /\ pc'[q] = pc[q] /\ op'[q] = op[q] /\ target'[q] = target[q]
          /\ entity'[q] = entity[q] /\ outcome'[q] = outcome[q]
          /\ target[q] \in Ids
      BY <1>1, <2>2 DEF CalmContext, TypeOK
    <3>2. CalmCall(q)
      BY DEF CalmContext, Calm, CalmCalls
    <3>3. ASSUME op[q] \in Updates, pc[q] \in {"waiting", "held", "checked"}
          PROVE  /\ Known(entity[q], target[q])'
                 /\ op[q] = "edit" => SameFlag(entity[q], target[q])'
      <4>1. entity[q] \in Doc
        BY <3>3 DEF CalmContext, CallShape, TypeOK
      <4>2. Known(entity[q], target[q])
        BY <3>2, <3>3 DEF CalmCall
      <4>3. CASE op[q] = "edit"
        BY <1>6, <3>1, <3>2, <3>3, <4>1, <4>2, <4>3 DEF CalmCall, Known, SameFlag
      <4>4. CASE op[q] # "edit"
        BY <1>7, <3>1, <4>1, <4>2, <4>4 DEF Known
      <4> QED BY <4>3, <4>4
    <3>4. ASSUME pc[q] = "unlock", outcome[q] = "saved"
          PROVE  /\ entity[q] # Absent
                 /\ Known(entity[q], target[q])'
                 /\ SameFlag(entity[q], target[q])'
      <4>1. entity[q] # Absent /\ entity[q] \in Doc
        BY <3>2, <3>4 DEF CalmContext, TypeOK, CalmCall
      <4> QED BY <1>6, <3>1, <3>2, <3>4, <4>1 DEF CalmCall, Known, SameFlag
    <3> QED BY <3>1, <3>3, <3>4 DEF CalmCall, Updates
  <2> QED BY <2>1, <2>2
<1>11. ASSUME NEW q \in Requests, q # r, InUpdate(q) \/ InUnlocked(q)
       PROVE  target[q] # i
  BY <1>1, <1>11, WriterAlone
<1>12. CalmWrites'
  <2> SUFFICES ASSUME NEW q \in Requests PROVE CalmWriter(q)'
    BY DEF CalmWrites
  <2>1. CASE q = r
    BY <1>1, <2>1 DEF CalmContext, CalmWriter, InUpdate, TypeOK
  <2>2. CASE q # r
    <3>1. /\ pc'[q] = pc[q] /\ op'[q] = op[q] /\ target'[q] = target[q]
          /\ entity'[q] = entity[q]
          /\ target[q] # i =>
               store'[target[q]] = store[target[q]] /\ newest'[target[q]] = newest[target[q]]
      BY <1>1, <1>4, <2>2 DEF CalmContext, TypeOK
    <3>2. pc[q] = "stamped" => InUpdate(q) \/ InUnlocked(q)
      BY DEF CalmContext, CallShape, InUpdate, InUnlocked
    <3> QED BY <1>11, <2>2, <3>1, <3>2
            DEF CalmContext, Calm, CalmWrites, CalmWriter, InUpdate, InUnlocked
  <2> QED BY <2>1, <2>2
<1>13. CalmDeletes'
  <2> SUFFICES ASSUME NEW q \in Requests, pc'[q] = "deleting", ~IsAdmin(q)
               PROVE  (store[target[q]] = Absent \/ ~store[target[q]].locked)'
    BY DEF CalmDeletes, IsAdmin
  <2>1. q # r /\ pc[q] = "deleting" /\ target'[q] = target[q]
    BY <1>1 DEF CalmContext, TypeOK
  <2>2. target[q] # i
    BY <1>11, <2>1 DEF InUnlocked
  <2> QED BY <1>1, <2>1, <2>2 DEF CalmContext, Calm, CalmDeletes, TypeOK
<1> QED BY <1>8, <1>9, <1>10, <1>12, <1>13 DEF Calm

LEMMA CalmFinish ==
    ASSUME CalmContext, NEW r \in Requests, Finish(r)
    PROVE  Calm'
<1> DEFINE i == target[r]
           unheld == op[r] # "create" /\ owner[i] # r
<1>1. /\ pc' = [pc EXCEPT ![r] = "idle"]
      /\ entity' = [entity EXCEPT ![r] = Absent]
      /\ UNCHANGED <<store, newest, op, target>>
      /\ \A q \in Requests : q # r => outcome'[q] = outcome[q]
      /\ \/ page' = page
         \/ outcome[r] = "saved" /\ page' = [page EXCEPT ![r][i] = entity[r]]
      /\ pc[r] = "unlock"
  <2>1. /\ pc' = [pc EXCEPT ![r] = "idle"]
        /\ entity' = [entity EXCEPT ![r] = Absent]
        /\ UNCHANGED <<store, newest, op, target>>
        /\ pc[r] = "unlock"
    BY DEF Finish, db
  <2>2. \A q \in Requests : q # r => outcome'[q] = outcome[q]
    BY DEF Finish, CalmContext, TypeOK
  <2>3. page' = [page EXCEPT ![r][i] =
                    IF outcome[r] = "saved" /\ ~unheld THEN entity[r] ELSE @]
    BY DEF Finish
  <2>4. CASE outcome[r] = "saved" /\ ~unheld
    BY <2>1, <2>2, <2>3, <2>4
  <2>5. CASE ~(outcome[r] = "saved" /\ ~unheld)
    <3>1. page' = [page EXCEPT ![r] = [page[r] EXCEPT ![i] = page[r][i]]]
      BY <2>3, <2>5
    <3>2. page[r] \in [Ids -> Doc \cup {Absent}] /\ i \in Ids
      BY DEF CalmContext, TypeOK
    <3>3. [page[r] EXCEPT ![i] = page[r][i]] = page[r]
      BY <3>2
    <3>4. page' = page
      BY <3>1, <3>3 DEF CalmContext, TypeOK
    <3> QED BY <2>1, <2>2, <3>4
  <2> QED BY <2>4, <2>5
<1>2. CalmStore'
  BY <1>1 DEF CalmContext, Calm, CalmStore
<1>3. CalmPages'
  <2>1. CASE page' = page
    BY <1>1, <2>1 DEF CalmContext, Calm, CalmPages, Known, SameFlag
  <2>2. CASE outcome[r] = "saved" /\ page' = [page EXCEPT ![r][i] = entity[r]]
    <3>1. Known(entity[r], i) /\ SameFlag(entity[r], i)
      BY <1>1, <2>2 DEF CalmContext, Calm, CalmCalls, CalmCall
    <3> QED BY <1>1, <2>2, <3>1
            DEF CalmContext, Calm, CalmPages, Known, SameFlag, TypeOK
  <2> QED BY <1>1, <2>1, <2>2
<1>4. CalmCalls'
  <2> SUFFICES ASSUME NEW q \in Requests PROVE CalmCall(q)'
    BY DEF CalmCalls
  <2>1. CASE q = r
    BY <1>1, <2>1 DEF CalmContext, CalmCall, TypeOK
  <2>2. CASE q # r
    BY <1>1, <2>2
       DEF CalmContext, Calm, CalmCalls, CalmCall, Known, SameFlag, TypeOK
  <2> QED BY <2>1, <2>2
<1>5. CalmWrites' /\ CalmDeletes'
  BY <1>1 DEF CalmContext, Calm, CalmWrites, CalmWriter, CalmDeletes, InUpdate,
              IsAdmin, TypeOK
<1> QED BY <1>2, <1>3, <1>4, <1>5 DEF Calm

LEMMA CalmRemove ==
    ASSUME CalmContext, NEW r \in Requests, Remove(r)
    PROVE  Calm'
<1> DEFINE i == target[r]
<1>1. /\ pc' = [pc EXCEPT ![r] = "idle"]
      /\ store' = [store EXCEPT ![i] = Absent]
      /\ UNCHANGED <<newest, op, target, page, entity>>
      /\ \A q \in Requests : q # r => outcome'[q] = outcome[q]
      /\ pc[r] = "deleting"
  BY DEF Remove, CalmContext, TypeOK
<1>2. CalmStore' /\ CalmPages'
  BY <1>1 DEF CalmContext, Calm, CalmStore, CalmPages, Known, SameFlag, TypeOK
<1>3. CalmCalls'
  <2> SUFFICES ASSUME NEW q \in Requests PROVE CalmCall(q)'
    BY DEF CalmCalls
  <2>1. CASE q = r
    BY <1>1, <2>1 DEF CalmContext, CalmCall, TypeOK
  <2>2. CASE q # r
    BY <1>1, <2>2
       DEF CalmContext, Calm, CalmCalls, CalmCall, Known, SameFlag, TypeOK
  <2> QED BY <2>1, <2>2
<1>4. CalmWrites'
  <2> SUFFICES ASSUME NEW q \in Requests PROVE CalmWriter(q)'
    BY DEF CalmWrites
  <2>1. CASE q = r
    BY <1>1, <2>1 DEF CalmContext, CalmWriter, InUpdate, TypeOK
  <2>2. CASE q # r
    <3>1. InUpdate(q) => target[q] # i
      BY <1>1, <2>2, WriterAlone
    <3> QED BY <1>1, <2>2, <3>1
            DEF CalmContext, Calm, CalmWrites, CalmWriter, InUpdate, TypeOK
  <2> QED BY <2>1, <2>2
<1>5. CalmDeletes'
  BY <1>1 DEF CalmContext, Calm, CalmDeletes, IsAdmin, TypeOK
<1> QED BY <1>2, <1>3, <1>4, <1>5 DEF Calm

(* A hazard stays on record. *)
LEMMA HazardsGrow ==
    Steps => hazards \subseteq hazards'
<1> SUFFICES ASSUME Steps PROVE hazards \subseteq hazards'
  OBVIOUS
<1>1. CASE Quiet
  BY <1>1 DEF Quiet
<1>2. ASSUME NEW r \in Requests, Begins(r) PROVE hazards \subseteq hazards'
  BY <1>2 DEF Begins, BeginUpdate, BeginUnlocked
<1>3. ASSUME NEW r \in Requests,
             Acquire(r) \/ LockTimeout(r) \/ CheckVersion(r) \/ Stamp(r)
             \/ Write(r) \/ Finish(r) \/ Remove(r) \/ BulkWrite(r)
      PROVE  hazards \subseteq hazards'
  BY <1>3 DEF Acquire, LockTimeout, CheckVersion, Stamp, Write, Finish, Remove,
              BulkWrite
<1> QED BY <1>1, <1>2, <1>3 DEF Steps

(* While no hazard strikes, what clients and calls hold stays in step with *)
(* what is stored.                                                         *)
LEMMA CalmStep ==
    /\ TypeOK /\ CallShape /\ OwnerHolds /\ Alone /\ FoundStays /\ Permitted
    /\ hazards = {} => Calm
    /\ Steps
    => (hazards = {} => Calm)'
<1> SUFFICES ASSUME TypeOK, CallShape, OwnerHolds, Alone, FoundStays, Permitted,
                    hazards = {} => Calm, Steps, hazards' = {}
             PROVE  Calm'
  OBVIOUS
<1>1. hazards = {}
  BY HazardsGrow
<1>2. CalmContext
  BY <1>1 DEF CalmContext
<1>3. CASE Quiet /\ UNCHANGED <<page, outcome>>
  <2>1. CASE Requests = {}
    BY <1>2, <1>3, <2>1
       DEF Quiet, CalmContext, Calm, CalmStore, CalmPages, CalmCalls, CalmWrites,
           CalmDeletes, db
  <2>2. ASSUME NEW r \in Requests PROVE Calm'
    BY <1>2, <1>3, CalmQuiet
  <2> QED BY <2>1, <2>2
<1>4. ASSUME NEW r \in Requests, Quiet,
             \/ UNCHANGED outcome /\ \E i \in Ids : Get(r, i)
             \/ UNCHANGED page /\ pc[r] = "idle" /\ Refuse(r)
      PROVE  Calm'
  BY <1>2, <1>4, CalmQuiet
<1>5. ASSUME NEW r \in Requests, Begins(r) PROVE Calm'
  BY <1>2, <1>5, CalmBegins
<1>6. ASSUME NEW r \in Requests, Acquire(r) PROVE Calm'
  BY <1>2, <1>6, CalmAcquire
<1>7. ASSUME NEW r \in Requests, CheckVersion(r) PROVE Calm'
  BY <1>2, <1>7, CalmCheck
<1>8. ASSUME NEW r \in Requests, Stamp(r) PROVE Calm'
  BY <1>2, <1>8, CalmStamp
<1>9. ASSUME NEW r \in Requests, Write(r) PROVE Calm'
  BY <1>2, <1>9, CalmWrite
<1>10. ASSUME NEW r \in Requests, Finish(r) PROVE Calm'
  BY <1>2, <1>10, CalmFinish
<1>11. ASSUME NEW r \in Requests, Remove(r) PROVE Calm'
  BY <1>2, <1>11, CalmRemove
<1>12. ASSUME NEW r \in Requests, LockTimeout(r) \/ BulkWrite(r) PROVE FALSE
  BY <1>12 DEF LockTimeout, BulkWrite
<1> QED
  BY <1>3, <1>4, <1>5, <1>6, <1>7, <1>8, <1>9, <1>10, <1>11, <1>12 DEF Steps

(* A write that meets no hazard destroys nothing. *)
LEMMA HarmlessWrite ==
    ASSUME CalmContext, NEW r \in Requests, pc[r] = "stamped"
    PROVE  Damage(r, target[r]) = {}
<1> USE DEF CalmContext
<1>1. CASE op[r] = "create"
  BY <1>1 DEF Calm, CalmWrites, CalmWriter, Damage
<1>2. CASE op[r] \in Updates
  <2>1. /\ store[target[r]] # Absent
        /\ store[target[r]].ver = entity[r].ver
        /\ op[r] = "edit" => store[target[r]].locked = entity[r].locked
    BY <1>2 DEF Calm, CalmWrites, CalmWriter, InUpdate, FoundStays
  <2>2. ~IsAdmin(r) => ~(store[target[r]].locked /\ op[r] # "unlock")
    BY <1>2, <2>1 DEF Permitted, PermittedCall, Updates
  <2>3. op[r] # "create"
    BY <1>2 DEF Updates
  <2> QED BY <2>1, <2>2, <2>3 DEF Damage
<1> QED BY <1>1, <1>2 DEF CallShape

LEMMA HarmStep ==
    /\ TypeOK /\ CallShape /\ OwnerHolds /\ Alone /\ FoundStays /\ Permitted
    /\ hazards = {} => Calm
    /\ HarmNeedsHazard
    /\ Steps
    => HarmNeedsHazard'
<1> SUFFICES ASSUME TypeOK, CallShape, OwnerHolds, Alone, FoundStays, Permitted,
                    hazards = {} => Calm, HarmNeedsHazard, Steps, hazards' = {}
             PROVE  harms' = {}
  BY DEF HarmNeedsHazard
<1>1. hazards = {}
  BY HazardsGrow
<1>2. CalmContext /\ harms = {}
  BY <1>1 DEF CalmContext, HarmNeedsHazard
<1>3. CASE Quiet
  BY <1>2, <1>3 DEF Quiet, db
<1>4. ASSUME NEW r \in Requests, Begins(r) PROVE harms' = {}
  BY <1>2, <1>4 DEF Begins, db
<1>5. ASSUME NEW r \in Requests,
             Acquire(r) \/ LockTimeout(r) \/ CheckVersion(r) \/ Stamp(r) \/ Finish(r)
      PROVE  harms' = {}
  BY <1>2, <1>5 DEF Acquire, LockTimeout, CheckVersion, Stamp, Finish, db
<1>6. ASSUME NEW r \in Requests, Write(r) PROVE harms' = {}
  BY <1>2, <1>6, HarmlessWrite DEF Write
<1>7. ASSUME NEW r \in Requests, Remove(r) PROVE harms' = {}
  BY <1>2, <1>7 DEF Remove, CalmContext, Calm, CalmDeletes
<1>8. ASSUME NEW r \in Requests, BulkWrite(r) PROVE FALSE
  BY <1>8 DEF BulkWrite
<1> QED BY <1>3, <1>4, <1>5, <1>6, <1>7, <1>8 DEF Steps

-----------------------------------------------------------------------------
LEMMA IInvInit == Init => IInv
<1> SUFFICES ASSUME Init PROVE IInv
  OBVIOUS
<1>1. TypeOK /\ CallShape
  BY TypeInit
<1>2. OwnerHolds /\ Alone /\ FoundStays /\ Permitted
  BY DEF Init, OwnerHolds, Alone, FoundStays, Permitted, PermittedCall, InUpdate,
         InUnlocked
<1>3. CalmStore /\ CalmPages
  BY DEF Init, CalmStore, CalmPages
<1>4. CalmCalls /\ CalmWrites /\ CalmDeletes
  BY DEF Init, CalmCalls, CalmCall, CalmWrites, CalmWriter, CalmDeletes, InUpdate
<1>5. HarmNeedsHazard /\ ResurrectionNeedsOverlap /\ ErrorNeedsTimeout
  BY DEF Init, HarmNeedsHazard, ResurrectionNeedsOverlap, ErrorNeedsTimeout
<1> QED BY <1>1, <1>2, <1>3, <1>4, <1>5 DEF IInv, Calm

LEMMA IInvStep == IInv /\ [Next]_vars => IInv'
<1> SUFFICES ASSUME IInv, [Next]_vars PROVE IInv'
  OBVIOUS
<1>1. Steps
  BY NextSteps DEF IInv
<1>2. TypeOK' /\ CallShape'
  BY TypeStep DEF IInv
<1>3. OwnerHolds' /\ Alone' /\ FoundStays' /\ Permitted'
  BY <1>1, OwnerStep, AloneStep, FoundStep, PermittedStep DEF IInv
<1>4. (hazards = {} => Calm)'
  BY <1>1, CalmStep DEF IInv
<1>5. HarmNeedsHazard' /\ ResurrectionNeedsOverlap' /\ ErrorNeedsTimeout'
  BY <1>1, HarmStep, ResurrectionStep, ErrorStep DEF IInv
<1> QED BY <1>2, <1>3, <1>4, <1>5 DEF IInv

LEMMA Inductive == Spec => []IInv
BY IInvInit, IInvStep, PTL DEF Spec

(* No write is lost, nothing comes back from deletion and no locked test   *)
(* case is touched by a non-admin, as long as none of the four hazards has *)
(* struck.                                                                 *)
THEOREM HarmsExplained == Spec => []HarmNeedsHazard
<1>1. IInv => HarmNeedsHazard
  BY DEF IInv
<1> QED BY <1>1, Inductive, PTL

-----------------------------------------------------------------------------
(* The refinement of VersionedStore *)

Content == [i \in Ids |-> IF store[i] = Absent THEN 0 ELSE store[i].ver]

LEMMA AbstractInit == Init => Abstract!Init
<1> SUFFICES ASSUME Init PROVE Abstract!Init
  OBVIOUS
<1>0. TypeOK /\ \A doc \in Doc : doc.ver \in Nat
  BY TypeInit DEF Doc
<1>1. Content \in [Ids -> Nat]
  BY <1>0 DEF TypeOK, Content
<1>2. \A r \in Requests, i \in Ids : HeldVersion(r, i) \in Nat
  BY <1>0 DEF TypeOK, HeldVersion
<1>3. [r \in Requests |-> [i \in Ids |-> HeldVersion(r, i)]]
          \in [Requests -> [Ids -> Nat]]
  BY <1>2
<1>4. written \in Nat
  BY TypeInit DEF TypeOK
<1>5. (hazards = {}) = TRUE
  BY DEF Init
<1> QED BY <1>1, <1>3, <1>4, <1>5 DEF Abstract!Init, Content

LEMMA AbstractKinds ==
    ASSUME NEW j \in Ids, NEW c \in Requests,
           Abstract!Insert(j) \/ Abstract!Erase(j) \/ Abstract!Replace(c, j)
    PROVE  Abstract!CalmStep
BY DEF Abstract!CalmStep

(* A write is the abstract Insert or Replace. *)
LEMMA AbstractWrite ==
    ASSUME CalmContext, NEW r \in Requests, Write(r)
    PROVE  Abstract!CalmStep
<1> DEFINE saved == [entity[r] EXCEPT !.ver = written + 1]
<1>0. PICK i \in Ids : i = target[r]
  BY DEF CalmContext, TypeOK
<1>1. /\ i = target[r]
      /\ pc[r] = "stamped"
      /\ entity[r] \in Doc
      /\ store' = [store EXCEPT ![i] = saved]
      /\ written' = written + 1
      /\ written \in Nat
  BY <1>0 DEF Write, CalmContext, TypeOK, CallShape
<1>2. saved # Absent /\ saved.ver = written + 1
  <2>1. saved \in Doc /\ saved.ver = written + 1
    BY <1>1, SavedDoc DEF CalmContext
  <2> QED BY <2>1, EntityStoreAssumption
<1>3. Abstract!Fresh(i)
  <2>1. Content' = [Content EXCEPT ![i] = written + 1]
    BY <1>1, <1>2 DEF Content, CalmContext, TypeOK
  <2> QED BY <1>1, <2>1 DEF Abstract!Fresh, Content
<1>4. CASE op[r] = "create"
  <2>1. Content[i] = 0
    BY <1>1, <1>4 DEF Content, CalmContext, Calm, CalmWrites, CalmWriter
  <2>2. Abstract!Insert(i)
    BY <1>1, <1>3, <2>1 DEF Abstract!Insert, Content
  <2> QED BY <1>1, <2>2, AbstractKinds
<1>5. CASE op[r] \in Updates
  <2>1. store[i] # Absent /\ store[i].ver = entity[r].ver /\ store[i].ver # 0
    BY <1>1, <1>5
       DEF CalmContext, Calm, CalmWrites, CalmWriter, CalmStore, FoundStays, InUpdate
  <2>2. Content[i] # 0 /\ Content[i] = entity[r].ver
    BY <1>1, <2>1 DEF Content
  <2>3. HeldVersion(r, i) = entity[r].ver
    <3>1. entity[r] # Absent /\ op[r] # "create"
      BY <1>1, <1>5, EntityStoreAssumption DEF Updates
    <3> QED BY <1>1, <3>1 DEF HeldVersion
  <2>4. Abstract!Replace(r, i)
    BY <1>1, <1>3, <2>2, <2>3 DEF Abstract!Replace, Content
  <2> QED BY <1>1, <2>4, AbstractKinds
<1> QED BY <1>1, <1>4, <1>5 DEF CalmContext, CallShape

(* A delete is the abstract Erase. *)
LEMMA AbstractRemove ==
    ASSUME CalmContext, NEW r \in Requests, Remove(r)
    PROVE  Abstract!CalmStep
<1>0. PICK i \in Ids : i = target[r]
  BY DEF CalmContext, TypeOK
<1>1. /\ store' = [store EXCEPT ![i] = Absent]
      /\ written' = written
  BY <1>0 DEF Remove
<1>2. Content' = [Content EXCEPT ![i] = 0]
  BY <1>1 DEF Content, CalmContext, TypeOK
<1>3. Abstract!Erase(i)
  BY <1>1, <1>2 DEF Abstract!Erase, Content
<1> QED BY <1>1, <1>3, AbstractKinds

LEMMA AbstractQuiet ==
    UNCHANGED <<store, written>> => Abstract!CalmStep
BY DEF Abstract!CalmStep, Abstract!ClientStep

LEMMA AbstractStep ==
    IInv /\ [Next]_vars => [Abstract!Next]_(Abstract!vars)
<1> SUFFICES ASSUME IInv, [Next]_vars PROVE Abstract!Next
  OBVIOUS
<1>1. Steps
  BY NextSteps DEF IInv
<1>2. CASE hazards' # {}
  <2>1. (hazards' = {}) = FALSE
    BY <1>2
  <2> QED BY <2>1 DEF Abstract!Next
<1>3. CASE hazards' = {}
  <2>1. hazards = {}
    BY <1>1, <1>3, HazardsGrow
  <2>2. CalmContext
    BY <2>1 DEF CalmContext, IInv
  <2>3. ASSUME UNCHANGED <<store, written>> PROVE Abstract!CalmStep
    BY <2>3, AbstractQuiet
  <2>4. ASSUME ~UNCHANGED <<store, written>> PROVE Abstract!CalmStep
    <3>1. PICK r \in Requests : Write(r) \/ Remove(r) \/ BulkWrite(r)
      <4>1. ~Quiet
        BY <2>4 DEF Quiet, db
      <4>2. \A r \in Requests : ~Begins(r)
        BY <2>4 DEF Begins, db
      <4>3. \A r \in Requests : ~(Acquire(r) \/ LockTimeout(r) \/ CheckVersion(r)
                                    \/ Stamp(r) \/ Finish(r))
        BY <2>4 DEF Acquire, LockTimeout, CheckVersion, Stamp, Finish, db
      <4> QED BY <1>1, <4>1, <4>2, <4>3 DEF Steps
    <3>2. ~BulkWrite(r)
      BY <1>3 DEF BulkWrite
    <3> QED BY <2>2, <3>1, <3>2, AbstractWrite, AbstractRemove
  <2>5. Abstract!CalmStep
    BY <2>3, <2>4
  <2>6. (hazards = {}) = TRUE /\ (hazards' = {}) = TRUE
    BY <1>3, <2>1
  <2> QED BY <2>5, <2>6 DEF Abstract!Next
<1> QED BY <1>2, <1>3

(* While calm, the service is a compare-and-set store: every save replaces *)
(* exactly the version its client had read.                                *)
THEOREM Refines == Spec => ImplementsVersionedStore
<1>1. Spec => Abstract!Init /\ [][Abstract!Next]_(Abstract!vars)
  BY AbstractInit, AbstractStep, Inductive, PTL DEF Spec
<1> QED BY <1>1 DEF ImplementsVersionedStore, Abstract!Spec
=============================================================================
