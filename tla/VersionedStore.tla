-------------------------- MODULE VersionedStore ---------------------------
(***************************************************************************)
(* What a collection of the service promises its clients: compare and set. *)
(* A client may hold any version of an entity, fresh or stale, but it      *)
(* replaces an entity only when the version it holds is the stored one;    *)
(* an entity that is gone is replaced by nobody, and an id in use is not   *)
(* created again.  The promise is given for as long as the service is calm.*)
(***************************************************************************)
EXTENDS Naturals

CONSTANTS Ids, Clients

VARIABLES content,  \* id -> version of the stored entity, 0 when there is none
          snapshot, \* client -> id -> version of the entity it holds
          issued,   \* versions given out so far
          calm      \* nothing has happened that ends the promise

vars == <<content, snapshot, issued, calm>>

Init ==
    /\ content \in [Ids -> Nat]
    /\ snapshot \in [Clients -> [Ids -> Nat]]
    /\ issued \in Nat
    /\ calm = TRUE

(* Clients read, forget and give up; the store is not affected. *)
ClientStep == UNCHANGED <<content, issued>>

Fresh(i) ==
    /\ issued' = issued + 1
    /\ content' = [content EXCEPT ![i] = issued + 1]

Insert(i) == content[i] = 0 /\ Fresh(i)

Replace(c, i) ==
    /\ content[i] # 0
    /\ content[i] = snapshot[c][i]
    /\ Fresh(i)

Erase(i) ==
    /\ content' = [content EXCEPT ![i] = 0]
    /\ UNCHANGED issued

CalmStep ==
    \/ ClientStep
    \/ \E i \in Ids : Insert(i) \/ Erase(i) \/ \E c \in Clients : Replace(c, i)

Next == calm' = FALSE \/ (calm /\ calm' = TRUE /\ CalmStep)

Spec == Init /\ [][Next]_vars
=============================================================================
