------------------------------- MODULE MCWebUI -------------------------------
(* Small instances of every page, for TLC. *)
EXTENDS WebUI, TLC

CONSTANTS w1, w2,  \* wordings
          k1, k2,  \* attributes
          c1,      \* a value of them
          a1,      \* a file
          s1,      \* a suite
          t1, t2,  \* test cases
          none     \* null and undefined

(* The file is attached to one test case and may be uploaded to the other.  *)
MCBegin == [t \in Cases |-> [f \in Fields |->
    CASE f \in Texts -> w1
      [] f \in {"broken", "locked"} -> FALSE
      [] f = "steps" -> <<w1>>
      [] f = "attributes" -> k1 :> {c1}
      [] f = "attachments" -> IF t = t1 THEN {a1} ELSE {}]]

CasesModel ==
    [Ids |-> 1 .. 3, Begin |-> 1 .. 2, PageSize |-> 1,
     Filters |-> {[matches |-> 1 .. 3, grouped |-> FALSE], [matches |-> {1, 2}, grouped |-> TRUE]},
     Values |-> {c1}, Names |-> {s1}, None |-> none,
     MaxEvents |-> 2, MaxFaults |-> 1, MaxInFlight |-> 2]

(* Adding to a test case without attributes leaves one named "undefined".   *)
BulkModel ==
    [Cases |-> {t1, t2}, Keys |-> {k2}, Undefined |-> "undefined", Null |-> "null",
     Values |-> {c1}, Begin |-> (t1 :> ("undefined" :> {})) @@ (t2 :> (k2 :> {c1})), None |-> none,
     MaxEvents |-> 3, MaxFaults |-> 1, MaxInFlight |-> 2]

MCComment(i, o) == [id |-> i, version |-> 1, text |-> "a", owner |-> o]
CommentsModel ==
    [Entities |-> {"t1", "t2"}, Ids |-> 1 .. 5,
     Begin |-> [e \in {"t1", "t2"} |-> IF e = "t1" THEN <<MCComment(2, "me"), MCComment(1, "other")>>
                                       ELSE <<MCComment(3, "other")>>],
     Texts |-> {"a", "b"}, Blank |-> "", None |-> none,
     MaxEvents |-> 3, MaxFaults |-> 1, MaxInFlight |-> 2]

DialogModel ==
    [Names |-> {"n1"}, Values |-> {"v1"}, None |-> none, MaxEvents |-> 4, MaxLosses |-> 1]

SettingsModel ==
    [Values |-> {"v1", "v2"}, None |-> none, Begin |-> <<"jenkins">>,
     MaxLaunchers |-> 2, MaxEvents |-> 2, MaxFaults |-> 1, MaxInFlight |-> 2]

AttributesModel ==
    [Ids |-> 1 .. 3, Names |-> {"n1", "n2"}, Texts |-> {"v1"},
     Begin |-> {[id |-> 1, version |-> 1, name |-> "n1", type |-> "LAUNCH", values |-> <<"v1">>]},
     None |-> none, Blank |-> "", MaxValues |-> 2,
     MaxEvents |-> 4, MaxFaults |-> 1, MaxInFlight |-> 2]

MCModel ==
    [cases |-> CasesModel, bulk |-> BulkModel, comments |-> CommentsModel,
     dialog |-> DialogModel, settings |-> SettingsModel, attributes |-> AttributesModel]
=============================================================================
