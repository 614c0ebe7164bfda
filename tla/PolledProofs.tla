------------------------------ MODULE PolledProofs -----------------------------
(***************************************************************************)
(* What is proved of the pages that stay open while things go on, for any  *)
(* page mounted and any number of polls, requests and losses.              *)
(***************************************************************************)
EXTENDS PolledPages, FiniteSetTheorems, NaturalsInduction, WellFoundedInduction, TLAPS

USE LaunchPageAssumption

-----------------------------------------------------------------------------
(* The buttons that filter a launch *)

Message(m) ==
    m \in [no : {m.no}, kind : {m.kind}, test : {m.test}, to : {m.to}, at : {m.at},
           answer : {m.answer}, orphan : {m.orphan}]

(* The filter is what the pressed buttons ask for. *)
FilterOfPressed ==
    /\ pressed \subseteq Buttons
    /\ filter = UNION {FilterOf(b) : b \in pressed}

Awaited(n) == \E m \in n : m.kind \in {"load", "build"}

PageInv == (\A m \in net : Message(m)) /\ FilterOfPressed /\ FilterShown

(* Two buttons have no status in common. *)
LEMMA ButtonsApart ==
    ASSUME NEW b \in Buttons, NEW c \in Buttons, b # c
    PROVE  FilterOf(b) \cap FilterOf(c) = {}
BY DEF Buttons, FilterOf

(* What the filter leaves of a tree is what the buttons ask for. *)
LEMMA FilteredAsPressed ==
    ASSUME FilterOfPressed, NEW tree
    PROVE  DOMAIN Filtered(tree) =
              {t \in DOMAIN tree : \/ pressed = {} \/ t \notin Filterable
                                   \/ \E b \in pressed : tree[t] \in FilterOf(b)}
<1>1. \A b \in pressed : FilterOf(b) # {}
  BY DEF FilterOf
<1>2. filter = {} <=> pressed = {}
  BY <1>1 DEF FilterOfPressed
<1>3. CASE filter = {}
  BY <1>2, <1>3 DEF Filtered
<1>4. CASE filter # {}
  <2>1. DOMAIN Filtered(tree) = {t \in DOMAIN tree : t \in Filterable => tree[t] \in filter}
    BY <1>4 DEF Filtered, Restrict
  <2>2. \A s : s \in filter <=> \E b \in pressed : s \in FilterOf(b)
    BY DEF FilterOfPressed
  <2>3. pressed # {}
    BY <1>2, <1>4
  <2> QED BY <2>1, <2>2, <2>3
<1> QED BY <1>3, <1>4

LEMMA BuiltAsPressed ==
    ASSUME FilterOfPressed, UNCHANGED <<pressed, filter>>, NEW tree, Build(Filtered(tree), tree)
    PROVE  FilterShown'
<1>1. /\ rows' = Filtered(tree) /\ builtFrom' = tree
      /\ count' = Cardinality(DOMAIN rows')
  BY DEF Build
<1>2. DOMAIN rows' = {t \in DOMAIN builtFrom' :
                         \/ pressed' = {} \/ t \notin Filterable
                         \/ \E b \in pressed' : builtFrom'[t] \in FilterOf(b)}
  BY <1>1, FilteredAsPressed
<1> QED BY <1>1, <1>2 DEF FilterShown

LEMMA ReplyMessage ==
    ASSUME NEW m \in net, Message(m), NEW outcome, NEW answer, Reply(m, outcome, answer)
    PROVE  \E n : Message(n) /\ n.kind = m.kind /\ net' = (net \ {m}) \cup {n}
<1> DEFINE n == [m EXCEPT !.at = outcome, !.answer = answer]
<1>1. n \in [no : {m.no}, kind : {m.kind}, test : {m.test}, to : {m.to}, at : {m.at, outcome},
             answer : {m.answer, answer}, orphan : {m.orphan}]
      /\ n.kind = m.kind
  BY DEF Message
<1>2. net' = (net \ {m}) \cup {n}
  BY DEF Reply
<1> HIDE DEF n
<1>3. Message(n)
  BY ONLY <1>1 DEF Message
<1> QED BY <1>1, <1>2, <1>3

LEMMA WithMessage ==
    ASSUME NEW n, NEW k, NEW t, NEW to
    PROVE  \E m : Message(m) /\ m.kind = k /\ With(n, k, t, to) = n \cup {m}
<1> DEFINE i == CHOOSE j \in Free(n) : TRUE
           s == Sending(k)
           m == [s EXCEPT !.no = i, !.test = t, !.to = to]
<1>1. s \in [no : {1, i}, kind : {k}, test : {None, t}, to : {None, to}, at : {"sent"},
             answer : {<<>>}, orphan : {FALSE}]
  BY DEF Sending
<1> HIDE DEF i, s
<1>2. m \in [no : {1, i}, kind : {k}, test : {None, t}, to : {None, to}, at : {"sent"},
             answer : {<<>>}, orphan : {FALSE}]
  BY ONLY <1>1
<1> HIDE DEF m
<1>3. Message(m) /\ m.kind = k
  BY ONLY <1>2 DEF Message
<1> QED BY <1>3 DEF With, m, i, s

LEMMA OrphanedMessages ==
    ASSUME NEW n, \A m \in n : Message(m)
    PROVE  /\ \A m \in Orphaned(n) : Message(m)
           /\ Awaited(Orphaned(n)) <=> Awaited(n)
<1>1. ASSUME NEW m \in n
      PROVE  /\ Message([m EXCEPT !.orphan = m.orphan \/ m.kind = "status"])
             /\ [m EXCEPT !.orphan = m.orphan \/ m.kind = "status"].kind = m.kind
  <2> DEFINE o == m.orphan \/ m.kind = "status"
             p == [m EXCEPT !.orphan = o]
  <2>1. Message(m)
    BY <1>1
  <2> HIDE DEF o
  <2>2. /\ p \in [no : {m.no}, kind : {m.kind}, test : {m.test}, to : {m.to}, at : {m.at},
                  answer : {m.answer}, orphan : {m.orphan, o}]
        /\ p.kind = m.kind
    BY ONLY <2>1 DEF Message
  <2> HIDE DEF p
  <2>3. Message(p)
    BY ONLY <2>2 DEF Message
  <2> QED BY <2>2, <2>3 DEF p, o
<1> QED BY <1>1 DEF Orphaned, Awaited

(* The rows stay, or only their icons change. *)
LEMMA RowsStay ==
    ASSUME PageInv, UNCHANGED <<failed, pressed, filter, count, builtFrom>>,
           DOMAIN rows' = DOMAIN rows, \A m \in net' : Message(m),
           Awaited(net) => Awaited(net')
    PROVE  PageInv'
<1>1. FilterShown'
  BY DEF PageInv, FilterShown, Awaited
<1> QED BY <1>1 DEF PageInv, FilterOfPressed

LEMMA PageServed ==
    ASSUME PageInv, NEW m \in net, Serve(m) \/ Lose(m)
    PROVE  PageInv'
<1>1. PICK outcome, answer : Reply(m, outcome, answer)
  BY DEF Serve, Lose
<1>2. Message(m)
  BY DEF PageInv
<1>3. PICK n : Message(n) /\ n.kind = m.kind /\ net' = (net \ {m}) \cup {n}
  BY <1>1, <1>2, ReplyMessage
<1>4. (Awaited(net) => Awaited(net')) /\ \A k \in net' : Message(k)
  BY <1>3 DEF PageInv, Awaited
<1>5. UNCHANGED <<failed, pressed, filter, rows, count, builtFrom>>
  BY DEF Serve, Lose, page, widget, buttons
<1> QED BY <1>4, <1>5, RowsStay

LEMMA PagePressed ==
    ASSUME PageInv, NEW b \in Buttons, PressFilter(b)
    PROVE  PageInv'
<1>1. PICK m : Message(m) /\ m.kind = "build" /\ net' = net \cup {m}
  BY WithMessage DEF PressFilter, Send
<1>2. Awaited(net') /\ \A k \in net' : Message(k)
  BY <1>1 DEF PageInv, Awaited
<1>3. CASE b \in pressed
  <2>1. pressed' = pressed \ {b} /\ filter' = filter \ FilterOf(b)
    BY <1>3 DEF PressFilter
  <2>2. \A c \in pressed' : FilterOf(c) \cap FilterOf(b) = {}
    BY <2>1, ButtonsApart DEF PageInv, FilterOfPressed
  <2>3. filter' = UNION {FilterOf(c) : c \in pressed'}
    BY <2>1, <2>2 DEF PageInv, FilterOfPressed
  <2> QED BY <1>2, <2>1, <2>3 DEF PageInv, FilterOfPressed, FilterShown, Awaited
<1>4. CASE b \notin pressed
  <2>1. pressed' = pressed \cup {b} /\ filter' = filter \cup FilterOf(b)
    BY <1>4 DEF PressFilter
  <2>2. filter' = UNION {FilterOf(c) : c \in pressed'}
    BY <2>1 DEF PageInv, FilterOfPressed
  <2> QED BY <1>2, <2>1, <2>2 DEF PageInv, FilterOfPressed, FilterShown, Awaited
<1> QED BY <1>3, <1>4

LEMMA PageAnswered ==
    ASSUME PageInv, NEW m \in net,
           \/ AttributesAnswered(m) \/ AttributesFailed(m)
           \/ LaunchAnswered(m) \/ AttributesMissing(m) \/ WidgetMissing(m)
           \/ UpdateAnswered(m) \/ LaunchFailed(m)
           \/ StatusAnswered(m) \/ CallbackThrows(m) \/ StatusFailed(m)
    PROVE  PageInv'
<1>1. \A k \in net' : Message(k)
  <2>1. PICK k : Message(k) /\ With(net \ {m}, "load", None, None) = (net \ {m}) \cup {k}
    BY WithMessage
  <2>2. PICK l : Message(l) /\ With(net \ {m}, "update", None, None) = (net \ {m}) \cup {l}
    BY WithMessage
  <2>3. \/ net' = net \ {m}
        \/ net' = With(net \ {m}, "load", None, None)
        \/ net' = With(net \ {m}, "update", None, None)
    BY DEF AttributesAnswered, AttributesFailed, LaunchAnswered, AttributesMissing,
       WidgetMissing, UpdateAnswered, LaunchFailed, StatusAnswered, CallbackThrows, StatusFailed
  <2> QED BY <2>1, <2>2, <2>3 DEF PageInv
<1>2. UNCHANGED <<pressed, filter>> /\ FilterOfPressed /\ FilterOfPressed'
  BY DEF AttributesAnswered, AttributesFailed, LaunchAnswered, AttributesMissing,
     WidgetMissing, UpdateAnswered, LaunchFailed, StatusAnswered, CallbackThrows,
     StatusFailed, buttons, PageInv, FilterOfPressed
<1>3. CASE AttributesAnswered(m)
  <2>1. Awaited(net')
    BY <1>3, WithMessage DEF AttributesAnswered, Awaited
  <2> QED BY <1>1, <1>2, <2>1 DEF PageInv, FilterShown, Awaited
<1>4. CASE \/ AttributesMissing(m) \/ WidgetMissing(m)
           \/ LaunchFailed(m) \/ CallbackThrows(m) \/ StatusFailed(m)
  <2>1. failed'
    BY <1>4 DEF AttributesMissing, WidgetMissing, LaunchFailed, CallbackThrows, StatusFailed
  <2> QED BY <1>1, <1>2, <2>1 DEF PageInv, FilterShown
<1>5. CASE UpdateAnswered(m) \/ AttributesFailed(m)
  <2>1. UNCHANGED <<failed, rows, count, builtFrom>>
    BY <1>5 DEF UpdateAnswered, AttributesFailed, page, widget
  <2>2. Awaited(net) => Awaited(net')
    BY <1>5 DEF UpdateAnswered, AttributesFailed, Awaited
  <2> QED BY <1>1, <1>2, <2>1, <2>2, RowsStay
<1>6. CASE LaunchAnswered(m)
  <2> DEFINE tree == Filtered(m.answer)
             changed == Changed(tree, MapOf(tree))
             now == Selected(m.answer)
             again == now # None /\ now.test \in changed
             icons == [t \in DOMAIN rows |-> IF t \in changed THEN tree[t] ELSE rows[t]]
  <2>1. /\ IF again \/ m.kind # "poll" THEN Build(tree, m.answer)
           ELSE rows' = icons /\ UNCHANGED <<built, count, builtFrom>>
        /\ net' = IF again THEN With(net \ {m}, "update", None, None) ELSE net \ {m}
        /\ UNCHANGED failed
    BY <1>6 DEF LaunchAnswered
  <2> HIDE DEF again, changed
  <2>2. CASE again \/ m.kind # "poll"
    <3>1. FilterShown'
      BY <1>2, <2>1, <2>2, BuiltAsPressed
    <3> QED BY <1>1, <1>2, <3>1 DEF PageInv
  <2>3. CASE ~(again \/ m.kind # "poll")
    <3>1. DOMAIN rows' = DOMAIN rows /\ UNCHANGED <<count, builtFrom>>
      BY <2>1, <2>3
    <3>2. Awaited(net) => Awaited(net')
      BY <2>1, <2>3 DEF Awaited
    <3> QED BY <1>1, <1>2, <2>1, <3>1, <3>2, RowsStay
  <2> QED BY <2>2, <2>3
<1>7. CASE StatusAnswered(m)
  <2> DEFINE tree == [launch EXCEPT ![m.test] = m.to]
             mine == selected # None /\ selected.test = m.test
  <2>1. CASE mine \/ refresh
    <3>1. Build(Filtered(tree), tree)
      BY <1>7, <2>1 DEF StatusAnswered
    <3>2. FilterShown'
      BY <1>2, <3>1, BuiltAsPressed
    <3> QED BY <1>1, <1>2, <3>2 DEF PageInv
  <2>2. CASE ~(mine \/ refresh)
    <3>1. /\ rows' = Iconed(rows, m.test, m.to) /\ net' = net \ {m}
          /\ UNCHANGED <<count, builtFrom, failed>> /\ m.kind = "status"
      BY <1>7, <2>2 DEF StatusAnswered
    <3>2. DOMAIN rows' = DOMAIN rows
      BY <3>1 DEF Iconed
    <3>3. Awaited(net) => Awaited(net')
      BY <3>1 DEF Awaited
    <3> QED BY <1>1, <1>2, <3>1, <3>2, <3>3, RowsStay
  <2> QED BY <2>1, <2>2
<1> QED BY <1>3, <1>4, <1>5, <1>6, <1>7

LEMMA PageStep == PageInv /\ [Next]_vars => PageInv'
<1> SUFFICES ASSUME PageInv, [Next]_vars PROVE PageInv'
  OBVIOUS
<1>1. CASE UNCHANGED vars
  <2>1. UNCHANGED <<net, failed, pressed, filter, rows, count, builtFrom>>
    BY <1>1 DEF vars, page, widget, buttons
  <2> QED BY <2>1, RowsStay DEF PageInv
<1>2. ASSUME NEW k, NEW t, NEW to, net' = With(net, k, t, to)
      PROVE  (Awaited(net) => Awaited(net')) /\ \A m \in net' : Message(m)
  <2>1. PICK m : Message(m) /\ net' = net \cup {m}
    BY <1>2, WithMessage
  <2> QED BY <2>1 DEF PageInv, Awaited
<1>3. CASE Poll \/ \E s \in Statuses : HandleStatusSubmit(s)
  <2>1. /\ \E k, t, to : net' = With(net, k, t, to)
        /\ UNCHANGED <<failed, pressed, filter, rows, count, builtFrom>>
    BY <1>3 DEF Poll, HandleStatusSubmit, Send, page, widget, buttons
  <2> QED BY <1>2, <2>1, RowsStay
<1>4. CASE ShowLaunchStats \/ \E t \in Tests : Select(t)
  <2>1. /\ net' = net \/ net' = Orphaned(net)
        /\ UNCHANGED <<failed, pressed, filter, rows, count, builtFrom>>
    BY <1>4 DEF ShowLaunchStats, Select, page, widget, buttons
  <2>2. (Awaited(net) => Awaited(net')) /\ \A m \in net' : Message(m)
    BY <2>1, OrphanedMessages DEF PageInv
  <2> QED BY <2>1, <2>2, RowsStay
<1>5. CASE \/ \E s \in Outcomes \ {"PASSED"} : OpenDialog(s)
           \/ \E t \in Tests, s \in Statuses : SetElsewhere(t, s)
  <2>1. UNCHANGED <<net, failed, pressed, filter, rows, count, builtFrom>>
    BY <1>5 DEF OpenDialog, SetElsewhere, page, widget, buttons
  <2> QED BY <2>1, RowsStay DEF PageInv
<1> QED BY <1>1, <1>3, <1>4, <1>5, PageServed, PagePressed, PageAnswered DEF Next, User, Answer

LEMMA PageInit == Init => PageInv
<1> SUFFICES ASSUME Init PROVE PageInv
  OBVIOUS
<1>1. Message(Sending("attributes")) /\ Sending("attributes").kind = "attributes"
  BY DEF Message, Sending
<1>2. DOMAIN <<>> = {}
  OBVIOUS
<1>3. FilterShown
  <2>1. rows = <<>> /\ builtFrom = <<>> /\ count = 0
    BY DEF Init
  <2>2. DOMAIN rows = {} /\ DOMAIN builtFrom = {}
    BY <1>2, <2>1
  <2>3. Cardinality(DOMAIN rows) = 0
    BY <2>2, FS_EmptySet
  <2> QED BY <2>1, <2>2, <2>3 DEF FilterShown
<1>4. FilterOfPressed
  BY DEF Init, FilterOfPressed
<1> QED BY <1>1, <1>3, <1>4 DEF Init, PageInv

(* The rows of the widget are those that the pressed buttons ask for, for   *)
(* any launch, and whatever polls, updates and statuses of test cases were  *)
(* answered, in any order, before the widget was built or since.            *)
THEOREM FilterKept == PolledSpec => []FilterShown
<1>1. PolledInit => PageInv
  BY PageInit DEF PolledInit
<1>2. PageInv /\ [PolledNext]_allVars => PageInv'
  <2>1. [PolledNext]_allVars => [Next]_vars
    BY DEF PolledNext, OnLaunch, OnList, Idle, allVars
  <2> QED BY <2>1, PageStep
<1>3. PageInv => FilterShown
  BY DEF PageInv
<1> QED BY <1>1, <1>2, <1>3, PTL DEF PolledSpec

-----------------------------------------------------------------------------
(* What the page of a launch keeps is what its parts expect *)

KindsOfMessage == {"attributes", "load", "build", "poll", "update", "status"}

Messages ==
    [no : 1 .. MaxInFlight, kind : KindsOfMessage, test : Tests \cup {None},
     to : Statuses \cup {None}, at : {"sent", "done", "failed"}, answer : Tree, orphan : BOOLEAN]

(* A status is for a test case, and an answer that the page will look into  *)
(* has every test case of the launch.                                       *)
Sound(m) ==
    /\ m.kind = "status" => m.test \in Tests /\ m.to \in Statuses
    /\ m.kind \in {"load", "build", "poll", "update"} /\ m.at = "done"
         => m.answer \in [Tests -> Statuses]

Apart(n) == \A m, k \in n : m.no = k.no => m = k

NetTyped(n) == n \subseteq Messages /\ (\A m \in n : Sound(m)) /\ Apart(n)

LEMMA TreeOf ==
    /\ \A tree \in Tree : /\ DOMAIN tree \subseteq Tests
                          /\ \A t \in DOMAIN tree : tree[t] \in Statuses
                          /\ tree = [t \in DOMAIN tree |-> tree[t]]
    /\ \A T \in SUBSET Tests : \A tree \in [T -> Statuses] : tree \in Tree
    /\ [Tests -> Statuses] \subseteq Tree
    /\ <<>> \in Tree
<1>1. \A T \in SUBSET Tests : \A tree \in [T -> Statuses] : tree \in Tree
  BY DEF Tree
<1>2. <<>> \in [{} -> Statuses]
  OBVIOUS
<1> QED BY <1>1, <1>2 DEF Tree

LEMMA FilteredTree ==
    ASSUME NEW tree \in Tree
    PROVE  Filtered(tree) \in Tree
<1> DEFINE T == {t \in DOMAIN tree : t \in Filterable => tree[t] \in filter}
<1>1. Restrict(tree, T) = [t \in T |-> tree[t]]
  BY DEF Restrict
<1>2. T \in SUBSET Tests /\ [t \in T |-> tree[t]] \in [T -> Statuses]
  BY TreeOf
<1> QED BY <1>1, <1>2, TreeOf DEF Filtered

LEMMA RowsCounted ==
    ASSUME NEW tree \in Tree
    PROVE  Cardinality(DOMAIN tree) \in Nat
BY TreeOf, FS_Subset, FS_CardinalityType

LEMMA ReplyTyped ==
    ASSUME NetTyped(net), NEW m \in net, NEW outcome \in {"done", "failed"}, NEW answer \in Tree,
           m.kind \in {"load", "build", "poll", "update"} /\ outcome = "done"
             => answer \in [Tests -> Statuses],
           Reply(m, outcome, answer)
    PROVE  NetTyped(net')
<1> DEFINE n == [m EXCEPT !.at = outcome, !.answer = answer]
<1>1. m \in Messages /\ Sound(m)
  BY DEF NetTyped
<1>2. /\ n \in Messages
      /\ n.no = m.no /\ n.kind = m.kind /\ n.test = m.test /\ n.to = m.to
      /\ n.at = outcome /\ n.answer = answer
  BY <1>1 DEF Messages
<1>3. net' = (net \ {m}) \cup {n}
  BY DEF Reply
<1> HIDE DEF n
<1>4. Sound(n)
  BY <1>1, <1>2 DEF Sound
<1> QED BY <1>2, <1>3, <1>4 DEF NetTyped, Apart

LEMMA WithTyped ==
    ASSUME NEW n, NetTyped(n), Free(n) # {}, NEW k \in KindsOfMessage \ {"status"}
    PROVE  NetTyped(With(n, k, None, None))
<1> DEFINE i == CHOOSE j \in Free(n) : TRUE
           s0 == Sending(k)
           m == [s0 EXCEPT !.no = i, !.test = None, !.to = None]
<1>1. i \in Free(n)
  OBVIOUS
<1>2. i \in 1 .. MaxInFlight /\ \A l \in n : l.no # i
  BY <1>1 DEF Free
<1>0. s0 \in [no : {1}, kind : {k}, test : {None}, to : {None}, at : {"sent"},
              answer : {<<>>}, orphan : {FALSE}]
  BY DEF Sending
<1>5. With(n, k, None, None) = n \cup {m}
  BY DEF With
<1> HIDE DEF i, s0
<1>3. m \in [no : {i}, kind : {k}, test : {None}, to : {None}, at : {"sent"},
             answer : {<<>>}, orphan : {FALSE}]
  BY ONLY <1>0
<1> HIDE DEF m
<1>4. m \in Messages /\ m.no = i /\ m.kind = k /\ m.at = "sent"
  BY <1>2, <1>3, TreeOf DEF Messages
<1> QED BY <1>2, <1>4, <1>5 DEF NetTyped, Apart, Sound, KindsOfMessage

LEMMA StatusTyped ==
    ASSUME NEW n, NetTyped(n), Free(n) # {}, NEW t \in Tests, NEW s \in Statuses
    PROVE  NetTyped(With(n, "status", t, s))
<1> DEFINE i == CHOOSE j \in Free(n) : TRUE
           s0 == Sending("status")
           m == [s0 EXCEPT !.no = i, !.test = t, !.to = s]
<1>1. i \in Free(n)
  OBVIOUS
<1>2. i \in 1 .. MaxInFlight /\ \A l \in n : l.no # i
  BY <1>1 DEF Free
<1>0. s0 \in [no : {1}, kind : {"status"}, test : {None}, to : {None}, at : {"sent"},
              answer : {<<>>}, orphan : {FALSE}]
  BY DEF Sending
<1>5. With(n, "status", t, s) = n \cup {m}
  BY DEF With
<1> HIDE DEF i, s0
<1>3. m \in [no : {i}, kind : {"status"}, test : {t}, to : {s}, at : {"sent"},
             answer : {<<>>}, orphan : {FALSE}]
  BY ONLY <1>0
<1> HIDE DEF m
<1>4. /\ m \in Messages
      /\ m.no = i /\ m.kind = "status" /\ m.test = t /\ m.to = s /\ m.at = "sent"
  BY <1>2, <1>3, TreeOf DEF Messages, KindsOfMessage
<1> QED BY <1>2, <1>4, <1>5 DEF NetTyped, Apart, Sound

(* The number of a request that has been answered can be given again. *)
LEMMA FreedTyped ==
    ASSUME NetTyped(net), NEW m \in net
    PROVE  NetTyped(net \ {m}) /\ Free(net \ {m}) # {}
<1>1. m.no \in Free(net \ {m})
  BY DEF NetTyped, Apart, Free, Messages
<1> QED BY <1>1 DEF NetTyped, Apart

LEMMA OrphanedTyped ==
    ASSUME NEW n, NetTyped(n)
    PROVE  NetTyped(Orphaned(n))
<1> DEFINE O(m) == [m EXCEPT !.orphan = m.orphan \/ m.kind = "status"]
<1>1. ASSUME NEW m \in n
      PROVE  /\ O(m) \in Messages
             /\ O(m).no = m.no /\ O(m).kind = m.kind /\ O(m).test = m.test /\ O(m).to = m.to
             /\ O(m).at = m.at /\ O(m).answer = m.answer
  <2>1. m \in Messages /\ (m.orphan \/ m.kind = "status") \in BOOLEAN
    BY <1>1 DEF NetTyped
  <2> DEFINE b == m.orphan \/ m.kind = "status"
  <2> HIDE DEF b
  <2> SUFFICES /\ [m EXCEPT !.orphan = b] \in Messages
               /\ [m EXCEPT !.orphan = b].no = m.no /\ [m EXCEPT !.orphan = b].kind = m.kind
               /\ [m EXCEPT !.orphan = b].test = m.test /\ [m EXCEPT !.orphan = b].to = m.to
               /\ [m EXCEPT !.orphan = b].at = m.at /\ [m EXCEPT !.orphan = b].answer = m.answer
    BY DEF b
  <2>2. b \in BOOLEAN
    BY DEF b
  <2> QED BY <2>1, <2>2 DEF Messages
<1>2. Orphaned(n) = {O(m) : m \in n}
  BY DEF Orphaned
<1> HIDE DEF O
<1>3. \A m \in n : Sound(O(m))
  BY <1>1 DEF NetTyped, Sound
<1>4. Orphaned(n) \subseteq Messages /\ \A m \in Orphaned(n) : Sound(m)
  BY <1>1, <1>2, <1>3
<1>5. Apart(Orphaned(n))
  BY <1>1, <1>2 DEF NetTyped, Apart
<1> QED BY <1>4, <1>5 DEF NetTyped

(* What the page itself keeps, as TypeOK says. *)
PageTyped ==
    /\ launch \in Tree /\ rows \in Tree /\ stateMap \in Tree \cup {None}
    /\ unnamed \subseteq Tests
    /\ selected \in Case \cup {None} /\ controls \in Case \cup {None}
    /\ dialog \in {None, "FAILED", "BROKEN"}
    /\ count \in Nat
    /\ pressed \subseteq Buttons /\ builtFrom \in Tree
    /\ filter \subseteq Statuses
    /\ lacking \in BOOLEAN /\ built \in BOOLEAN
    /\ refresh \in BOOLEAN /\ loading \in BOOLEAN /\ failed \in BOOLEAN

LaunchTyped == status \in [Tests -> Statuses] /\ NetTyped(net) /\ PageTyped

LEMMA TypedByParts == LaunchTyped => TypeOK
<1> SUFFICES ASSUME LaunchTyped PROVE TypeOK
  OBVIOUS
<1>1. \A m \in net :
          /\ m.no \in 1 .. MaxInFlight
          /\ m.kind \in {"attributes", "load", "build", "poll", "update", "status"}
          /\ m.at \in {"sent", "done", "failed"}
          /\ m.answer \in Tree
  BY DEF LaunchTyped, NetTyped, Messages, KindsOfMessage
<1> QED BY <1>1 DEF LaunchTyped, PageTyped, TypeOK

LEMMA TypedInit == Init => LaunchTyped
<1> SUFFICES ASSUME Init PROVE LaunchTyped
  OBVIOUS
<1>1. PageTyped
  BY TreeOf DEF Init, PageTyped
<1>2. Sending("attributes") \in Messages /\ Sending("attributes").kind = "attributes"
  BY TreeOf DEF Sending, Messages, KindsOfMessage
<1>3. NetTyped(net)
  BY <1>2 DEF Init, NetTyped, Sound, Apart
<1>4. status \in [Tests -> Statuses]
  BY DEF Init, Statuses
<1> QED BY <1>1, <1>3, <1>4 DEF LaunchTyped

LEMMA ServeTyped ==
    ASSUME LaunchTyped, NEW m \in net, Serve(m) \/ Lose(m)
    PROVE  LaunchTyped'
<1>1. m \in Messages /\ Sound(m) /\ NetTyped(net)
  BY DEF LaunchTyped, NetTyped
<1>2. status' \in [Tests -> Statuses]
  BY <1>1 DEF Serve, Lose, LaunchTyped, Sound
<1>3. /\ IF m.kind = "attributes" THEN <<>> \in Tree ELSE status' \in Tree
      /\ <<>> \in Tree
  BY <1>2, TreeOf
<1>4. NetTyped(net')
  <2>1. CASE Serve(m) /\ m.kind = "attributes"
    <3>1. Reply(m, "done", <<>>)
      BY <2>1 DEF Serve
    <3> QED BY <1>1, <1>3, <2>1, <3>1, ReplyTyped
  <2>2. CASE Serve(m) /\ m.kind # "attributes"
    <3>1. Reply(m, "done", status')
      BY <2>2 DEF Serve
    <3> QED BY <1>1, <1>2, <1>3, <2>2, <3>1, ReplyTyped
  <2>3. CASE Lose(m)
    <3>1. Reply(m, "failed", <<>>)
      BY <2>3 DEF Lose
    <3> QED BY <1>1, <1>3, <3>1, ReplyTyped
  <2> QED BY <2>1, <2>2, <2>3
<1>5. UNCHANGED <<page, selection, widget, buttons>>
  BY DEF Serve, Lose
<1>6. PageTyped'
  BY <1>5 DEF LaunchTyped, PageTyped, page, selection, widget, buttons
<1> QED BY <1>2, <1>4, <1>6 DEF LaunchTyped

LEMMA SelectedTyped ==
    ASSUME selected \in Case \cup {None}, NEW tree \in [Tests -> Statuses]
    PROVE  Selected(tree) \in Case \cup {None}
BY DEF Selected, Case

LEMMA UserTyped ==
    ASSUME LaunchTyped, User \/ Poll \/ \E t \in Tests, s \in Statuses : SetElsewhere(t, s)
    PROVE  LaunchTyped'
<1>1. /\ NetTyped(net) /\ PageTyped /\ status \in [Tests -> Statuses]
      /\ "poll" \in KindsOfMessage \ {"status"} /\ "build" \in KindsOfMessage \ {"status"}
  BY DEF LaunchTyped, KindsOfMessage
<1>2. ASSUME NEW b \in Buttons, PressFilter(b)
      PROVE  LaunchTyped'
  <2>1. NetTyped(net')
    BY <1>1, <1>2, WithTyped DEF PressFilter, Send
  <2>2. FilterOf(b) \subseteq Statuses
    BY DEF FilterOf, Buttons, Statuses
  <2>3. pressed' \subseteq Buttons /\ filter' \subseteq Statuses
    BY <1>1, <1>2, <2>2 DEF PressFilter, PageTyped
  <2> QED BY <1>1, <1>2, <2>1, <2>3
          DEF PressFilter, LaunchTyped, PageTyped, page, selection, widget
<1>3. ASSUME NEW t \in Tests, Select(t)
      PROVE  LaunchTyped'
  <2>1. NetTyped(net')
    BY <1>1, <1>3, OrphanedTyped DEF Select
  <2>2. selected' \in Case \cup {None} /\ controls' = selected'
    BY <1>1, <1>3, TreeOf DEF Select, Rendered, PageTyped, Named, Case
  <2> QED BY <1>1, <1>3, <2>1, <2>2
          DEF Select, LaunchTyped, PageTyped, page, widget, buttons
<1>4. CASE ShowLaunchStats
  <2>1. NetTyped(net')
    BY <1>1, <1>4, OrphanedTyped DEF ShowLaunchStats
  <2>2. unnamed' \subseteq Tests
    BY <1>1, <1>4 DEF ShowLaunchStats, PageTyped, Case
  <2> QED BY <1>1, <1>4, <2>1, <2>2
          DEF ShowLaunchStats, Rendered, LaunchTyped, PageTyped, widget, buttons
<1>5. ASSUME NEW s \in Outcomes \ {"PASSED"}, OpenDialog(s)
      PROVE  LaunchTyped'
  BY <1>1, <1>5 DEF OpenDialog, LaunchTyped, PageTyped, page, widget, buttons
<1>6. ASSUME NEW s \in Statuses, HandleStatusSubmit(s)
      PROVE  LaunchTyped'
  <2>1. controls.test \in Tests
    BY <1>1, <1>6 DEF HandleStatusSubmit, PageTyped, Case
  <2>2. NetTyped(net')
    BY <1>1, <1>6, <2>1, StatusTyped DEF HandleStatusSubmit, Send
  <2> QED BY <1>1, <1>6, <2>2
          DEF HandleStatusSubmit, LaunchTyped, PageTyped, page, selection, widget, buttons
<1>7. CASE Poll
  <2>1. NetTyped(net')
    BY <1>1, <1>7, WithTyped DEF Poll, Send
  <2> QED BY <1>1, <1>7, <2>1
          DEF Poll, LaunchTyped, PageTyped, page, selection, widget, buttons
<1>8. ASSUME NEW t \in Tests, NEW s \in Statuses, SetElsewhere(t, s)
      PROVE  LaunchTyped'
  BY <1>1, <1>8 DEF SetElsewhere, LaunchTyped, PageTyped, page, selection, widget, buttons
<1> QED BY <1>2, <1>3, <1>4, <1>5, <1>6, <1>7, <1>8 DEF User

(* The map keeps some test cases of a tree, or is what it was. *)
LEMMA MapTree ==
    ASSUME PageTyped, NEW tree \in Tree
    PROVE  MapOf(tree) \in Tree
<1> DEFINE T == DOMAIN tree \cap Mapped
<1>1. Restrict(tree, T) = [t \in T |-> tree[t]]
  BY DEF Restrict
<1>2. T \in SUBSET Tests /\ [t \in T |-> tree[t]] \in [T -> Statuses]
  BY TreeOf
<1> QED BY <1>1, <1>2, TreeOf DEF MapOf, PageTyped

LEMMA LaunchAnsweredTyped ==
    ASSUME LaunchTyped, NEW m \in net, LaunchAnswered(m)
    PROVE  LaunchTyped'
<1> DEFINE tree == Filtered(m.answer)
           map == MapOf(tree)
           changed == Changed(tree, map)
           now == Selected(m.answer)
           again == now # None /\ now.test \in changed
           icons == [t \in DOMAIN rows |-> IF t \in changed THEN tree[t] ELSE rows[t]]
<1>1. /\ NetTyped(net) /\ PageTyped /\ m \in Messages /\ Sound(m)
      /\ "update" \in KindsOfMessage \ {"status"}
  BY DEF LaunchTyped, NetTyped, KindsOfMessage
<1>2. m.answer \in [Tests -> Statuses] /\ m.answer \in Tree /\ tree \in Tree
  BY <1>1, TreeOf, FilteredTree DEF LaunchAnswered, Fetched, Sound
<1>3. now \in Case \cup {None}
  BY <1>1, <1>2, SelectedTyped DEF PageTyped
<1>4. icons \in Tree
  <2>1. \A t \in changed : t \in DOMAIN tree
    BY DEF Changed
  <2>2. \A t \in DOMAIN rows : (IF t \in changed THEN tree[t] ELSE rows[t]) \in Statuses
    BY <1>1, <1>2, <2>1, TreeOf DEF PageTyped
  <2>3. DOMAIN rows \in SUBSET Tests
    BY <1>1, TreeOf DEF PageTyped
  <2> QED BY <2>2, <2>3, TreeOf
<1>5. map \in Tree
  BY <1>1, <1>2, MapTree
<1>6. /\ launch' = tree /\ unnamed' = {} /\ stateMap' = map /\ selected' = now
      /\ controls' = now /\ refresh' = again /\ loading' = FALSE
      /\ IF again \/ m.kind # "poll" THEN Build(tree, m.answer)
         ELSE rows' = icons /\ UNCHANGED <<built, count, builtFrom>>
      /\ net' = IF again THEN With(net \ {m}, "update", None, None) ELSE net \ {m}
      /\ UNCHANGED <<status, lacking, failed, dialog, buttons>>
  BY DEF LaunchAnswered, Rendered
<1>7. again \in BOOLEAN
  OBVIOUS
<1> HIDE DEF tree, map, changed, now, again, icons
<1>8. rows' \in Tree /\ count' \in Nat /\ builtFrom' \in Tree /\ built' \in BOOLEAN
  BY <1>1, <1>2, <1>4, <1>6, RowsCounted DEF Build, PageTyped
<1>9. NetTyped(net')
  <2>1. NetTyped(net \ {m}) /\ Free(net \ {m}) # {}
    BY <1>1, FreedTyped
  <2> QED BY <1>1, <1>6, <2>1, WithTyped
<1> QED BY <1>1, <1>2, <1>3, <1>5, <1>6, <1>7, <1>8, <1>9 DEF LaunchTyped, PageTyped, buttons

LEMMA StatusAnsweredTyped ==
    ASSUME LaunchTyped, NEW m \in net, StatusAnswered(m)
    PROVE  LaunchTyped'
<1> DEFINE now == [test |-> m.test, status |-> m.to]
           tree == [launch EXCEPT ![m.test] = m.to]
           mine == selected # None /\ selected.test = m.test
<1>1. /\ NetTyped(net) /\ PageTyped /\ m \in Messages /\ Sound(m)
      /\ "update" \in KindsOfMessage \ {"status"}
  BY DEF LaunchTyped, NetTyped, KindsOfMessage
<1>2. m.test \in Tests /\ m.to \in Statuses /\ now \in Case
  BY <1>1 DEF StatusAnswered, Sound, Case
<1>3. tree \in Tree
  <2>1. DOMAIN launch \in SUBSET Tests /\ tree \in [DOMAIN launch -> Statuses]
    BY <1>1, <1>2, TreeOf DEF PageTyped
  <2> QED BY <2>1, TreeOf
<1>4. Iconed(rows, m.test, m.to) \in Tree
  <2>1. DOMAIN rows \in SUBSET Tests /\ [rows EXCEPT ![m.test] = m.to] \in [DOMAIN rows -> Statuses]
    BY <1>1, <1>2, TreeOf DEF PageTyped
  <2> QED BY <1>1, <2>1, TreeOf DEF Iconed, PageTyped
<1>5. Filtered(tree) \in Tree
  BY <1>3, FilteredTree
<1>6. /\ selected' = (IF mine THEN now ELSE selected)
      /\ IF mine \/ refresh
         THEN /\ launch' = Filtered(tree)
              /\ Build(launch', tree)
              /\ refresh' = TRUE
              /\ controls' = selected'
              /\ net' = With(net \ {m}, "update", None, None)
         ELSE /\ launch' = tree
              /\ rows' = Iconed(rows, m.test, m.to)
              /\ UNCHANGED <<built, count, builtFrom, refresh>>
              /\ controls' = (IF m.orphan THEN controls ELSE now)
              /\ net' = net \ {m}
      /\ dialog' = Dismissed(m)
      /\ UNCHANGED <<status, unnamed, lacking, stateMap, loading, failed, buttons>>
  BY DEF StatusAnswered, Rendered
<1> HIDE DEF now, tree, mine
<1>7. selected' \in Case \cup {None} /\ controls' \in Case \cup {None}
  BY <1>1, <1>2, <1>6 DEF PageTyped
<1>8. /\ launch' \in Tree /\ rows' \in Tree /\ count' \in Nat /\ builtFrom' \in Tree
      /\ built' \in BOOLEAN
  BY <1>1, <1>3, <1>4, <1>5, <1>6, RowsCounted DEF Build, PageTyped
<1>9. NetTyped(net')
  <2>1. NetTyped(net \ {m}) /\ Free(net \ {m}) # {}
    BY <1>1, FreedTyped
  <2> QED BY <1>1, <1>6, <2>1, WithTyped
<1>10. dialog' \in {None, "FAILED", "BROKEN"} /\ refresh' \in BOOLEAN
  BY <1>1, <1>6 DEF Dismissed, PageTyped
<1> QED BY <1>1, <1>6, <1>7, <1>8, <1>9, <1>10 DEF LaunchTyped, PageTyped, buttons

LEMMA AnswerTyped ==
    ASSUME LaunchTyped, NEW m \in net,
           \/ AttributesAnswered(m) \/ AttributesFailed(m) \/ AttributesMissing(m)
           \/ WidgetMissing(m) \/ UpdateAnswered(m) \/ LaunchFailed(m)
           \/ CallbackThrows(m) \/ StatusFailed(m)
    PROVE  LaunchTyped'
<1>1. /\ NetTyped(net) /\ PageTyped /\ m \in Messages /\ Sound(m)
      /\ "load" \in KindsOfMessage \ {"status"}
      /\ NetTyped(net \ {m}) /\ Free(net \ {m}) # {}
  BY FreedTyped DEF LaunchTyped, NetTyped, KindsOfMessage
<1>2. CASE AttributesAnswered(m)
  <2>1. NetTyped(net')
    BY <1>1, <1>2, WithTyped DEF AttributesAnswered
  <2> QED BY <1>1, <1>2, <2>1
          DEF AttributesAnswered, LaunchTyped, PageTyped, page, selection, widget, buttons
<1>3. CASE UpdateAnswered(m)
  <2>1. m.answer \in Tree
    BY <1>1 DEF Messages
  <2> QED BY <1>1, <1>3, <2>1
          DEF UpdateAnswered, Rendered, LaunchTyped, PageTyped, widget, buttons
<1>4. CASE LaunchFailed(m)
  BY <1>1, <1>4 DEF LaunchFailed, Rendered, LaunchTyped, PageTyped, widget, buttons
<1>5. CASE CallbackThrows(m)
  <2>1. [test |-> m.test, status |-> m.to] \in Case
    BY <1>1, <1>5 DEF CallbackThrows, Sound, Case
  <2> QED BY <1>1, <1>5, <2>1 DEF CallbackThrows, LaunchTyped, PageTyped, widget, buttons
<1>6. CASE StatusFailed(m)
  BY <1>1, <1>6 DEF StatusFailed, LaunchTyped, PageTyped, selection, widget, buttons
<1>7. CASE AttributesFailed(m)
  BY <1>1, <1>7
     DEF AttributesFailed, LaunchTyped, PageTyped, page, selection, widget, buttons
<1>8. ASSUME Fetched(m)
      PROVE  /\ m.answer \in Tree /\ Filtered(m.answer) \in Tree
             /\ MapOf(Filtered(m.answer)) \in Tree
             /\ Selected(m.answer) \in Case \cup {None}
  <2>1. m.answer \in [Tests -> Statuses]
    BY <1>1, <1>8 DEF Fetched, Sound
  <2> QED BY <1>1, <2>1, TreeOf, FilteredTree, MapTree, SelectedTyped DEF PageTyped
<1>9. CASE AttributesMissing(m)
  <2>1. launch' \in Tree /\ selected' \in Case \cup {None} /\ controls' = selected'
    BY <1>8, <1>9 DEF AttributesMissing, Rendered
  <2> QED BY <1>1, <1>9, <2>1
          DEF AttributesMissing, LaunchTyped, PageTyped, widget, buttons
<1>10. CASE WidgetMissing(m)
  <2>1. /\ launch' \in Tree /\ stateMap' \in Tree
        /\ selected' \in Case \cup {None} /\ controls' = selected'
    BY <1>8, <1>10 DEF WidgetMissing, Rendered
  <2> QED BY <1>1, <1>10, <2>1
          DEF WidgetMissing, LaunchTyped, PageTyped, widget, buttons
<1> QED BY <1>2, <1>3, <1>4, <1>5, <1>6, <1>7, <1>9, <1>10

LEMMA TypedStep == LaunchTyped /\ [Next]_vars => LaunchTyped'
<1>1. LaunchTyped /\ UNCHANGED vars => LaunchTyped'
  BY DEF LaunchTyped, PageTyped, NetTyped, vars, page, selection, widget, buttons
<1> QED BY <1>1, ServeTyped, UserTyped, LaunchAnsweredTyped, StatusAnsweredTyped, AnswerTyped
        DEF Next, Answer

-----------------------------------------------------------------------------
(* What the pages that list by pages keep *)

(* A set of numbers has a least one, which is the number a request is given. *)
LEMMA LeastNumber ==
    ASSUME NEW S \in SUBSET Nat, S # {}
    PROVE  \E n \in S : \A m \in S : n <= m
<1> DEFINE R == {ss \in Nat \X Nat : ss[1] < ss[2]}
<1>1. OpToRel(<, Nat) = R
  BY Zenon DEF OpToRel
<1>2. IsWellFoundedOn(R, Nat)
  BY NatLessThanWellFounded, <1>1, Zenon
<1>3. \A x, y \in Nat : y < x => <<y, x>> \in R
  OBVIOUS
<1> HIDE DEF R
<1>4. PICK n \in S : \A m \in S : ~(<<m, n>> \in R)
  BY <1>2, WFMin
<1>5. \A m \in S : ~(m < n)
  BY <1>3, <1>4
<1> QED BY <1>5

LEMMA GivenNumber ==
    ASSUME NEW S \in SUBSET (1 .. ListInFlight), S # {}
    PROVE  (CHOOSE i \in S : \A j \in S : i <= j) \in S
<1>1. \E n \in S : \A m \in S : n <= m
  BY LeastNumber, ListAssumption
<1> QED BY <1>1

LEMMA SameCardinality == \A S : Paged!Cardinality(S) = Cardinality(S)
BY Zenon DEF Paged!Cardinality, Cardinality

(* Finitely many items are stored. *)
Shelf == list_stored \subseteq ListIds /\ IsFiniteSet(list_stored)

(* A page has no more items than fit on it. *)
LEMMA PageFits ==
    ASSUME Shelf, NEW f \in Paged!Filter
    PROVE  /\ Paged!PageAt(f) \subseteq ListIds
           /\ IsFiniteSet(Paged!PageAt(f))
           /\ Cardinality(Paged!PageAt(f)) <= ListPageSize
<1> DEFINE F == Paged!Found(f.typed)
           Newer(i) == Cardinality({j \in F : j > i})
           k == Paged!Least(f.skip)
           P == Paged!PageAt(f)
           g == [i \in P |-> Newer(i)]
<1>1. F \subseteq ListIds /\ IsFiniteSet(F) /\ F \subseteq Nat
  BY FS_Subset, ListAssumption DEF Shelf, Paged!Found
<1>2. k \in Nat
  BY DEF Paged!Filter, Paged!Least
<1>3. P = {i \in F : Newer(i) \in k .. k + ListPageSize - 1}
  BY SameCardinality, Zenon DEF Paged!PageAt
<1> HIDE DEF F, k, P
<1>4. ASSUME NEW i \in F, NEW j \in F, i < j
      PROVE  Newer(i) # Newer(j)
  <2> DEFINE A == {n \in F : n > i}
             B == {n \in F : n > j}
  <2>1. j \in A /\ j \notin B
    BY <1>1, <1>4
  <2>4. B \in SUBSET A
    <3>1. \A n \in F : n > j => n > i
      BY <1>1, <1>4
    <3> QED BY <3>1
  <2>2. IsFiniteSet(A)
    BY <1>1, FS_Subset
  <2> HIDE DEF A, B
  <2>3. Cardinality(A) # Cardinality(B)
    BY <2>1, <2>2, <2>4, FS_Subset
  <2> QED BY <2>3 DEF A, B
<1>5. \A i, j \in F : Newer(i) = Newer(j) => i = j
  <2>1. \A i, j \in F : i = j \/ i < j \/ j < i
    BY <1>1
  <2> HIDE DEF Newer
  <2> QED BY <1>4, <2>1
<1> HIDE DEF Newer
<1>6. g \in Injection(P, k .. k + ListPageSize - 1)
  BY <1>3, <1>5 DEF Injection, IsInjective
<1>7. /\ IsFiniteSet(k .. k + ListPageSize - 1)
      /\ Cardinality(k .. k + ListPageSize - 1) = ListPageSize
  <2>1. k \in Int /\ k + ListPageSize - 1 \in Int /\ ~(k > k + ListPageSize - 1)
        /\ (k + ListPageSize - 1) - k + 1 = ListPageSize
    BY <1>2, ListAssumption
  <2> QED BY <2>1, FS_Interval
<1>8. IsFiniteSet(P) /\ Cardinality(P) <= ListPageSize
  BY <1>6, <1>7, FS_Injection
<1> QED BY <1>1, <1>3, <1>8 DEF P

ListKinds == {"list", "poll", "count", "delete"}
ListMessages ==
    [kind : ListKinds, no : 1 .. ListInFlight, filter : Paged!Filter, id : ListIds \cup {0},
     at : {"sent", "done", "failed"}, list : SUBSET ListIds, total : Nat]
Fits(m) == Cardinality(m.list) <= ListPageSize
ListNet(n) == n \subseteq ListMessages /\ \A m \in n : Fits(m)

LEMMA NothingFits == Cardinality({}) <= ListPageSize
BY FS_EmptySet, ListAssumption

LEMMA RequestTyped ==
    ASSUME NEW n, ListNet(n), NEW k \in ListKinds, Paged!Free(n, k) # {}, NEW f \in Paged!Filter
    PROVE  ListNet(Paged!With(n, k, f))
<1> DEFINE i == CHOOSE i \in Paged!Free(n, k) : \A j \in Paged!Free(n, k) : i <= j
           m == Paged!Request(k, i, f)
<1>1. i \in 1 .. ListInFlight
  <2>1. Paged!Free(n, k) \in SUBSET (1 .. ListInFlight)
    BY DEF Paged!Free
  <2>2. i \in Paged!Free(n, k)
    BY <2>1, GivenNumber
  <2> QED BY <2>1, <2>2
<1>2. Paged!With(n, k, f) = n \cup {m}
  BY DEF Paged!With
<1> HIDE DEF i
<1>3. m \in ListMessages /\ m.list = {}
  BY <1>1 DEF Paged!Request, ListMessages
<1> HIDE DEF m
<1> QED BY <1>2, <1>3, NothingFits DEF ListNet, Fits

ListPageTyped ==
    /\ list_kind \in Paged!Kinds
    /\ list_filter \in Paged!Filter /\ list_url \in Paged!Filter
    /\ list_list \subseteq ListIds /\ Cardinality(list_list) <= ListPageSize
    /\ list_pager \in [total : Nat, current : Int]
    /\ list_loading \in BOOLEAN /\ list_failed \in BOOLEAN

ListTyped == Shelf /\ ListNet(list_net) /\ ListPageTyped

LEMMA ListTypedByParts == ListTyped => Paged!TypeOK
<1> SUFFICES ASSUME ListTyped PROVE Paged!TypeOK
  OBVIOUS
<1>1. \A m \in list_net :
          /\ m.no \in 1 .. ListInFlight
          /\ m.kind \in {"list", "poll", "count", "delete"}
          /\ m.at \in {"sent", "done", "failed"}
          /\ m.filter \in Paged!Filter /\ m.id \in ListIds \cup {0}
          /\ m.list \subseteq ListIds /\ m.total \in Nat
  BY DEF ListTyped, ListNet, ListMessages, ListKinds
<1> QED BY <1>1, SameCardinality DEF ListTyped, ListPageTyped, Shelf, Paged!TypeOK

LEMMA ListTypedInit == Paged!Init => ListTyped
<1> SUFFICES ASSUME Paged!Init PROVE ListTyped
  OBVIOUS
<1>1. list_filter \in Paged!Filter /\ list_url = list_filter
  BY ListAssumption DEF Paged!Init, Paged!Filter
<1>2. ListNet(Paged!With({}, "list", list_filter))
  <2>1. Paged!Free({}, "list") # {}
    BY ListAssumption DEF Paged!Free
  <2> QED BY <1>1, <2>1, RequestTyped DEF ListNet, ListKinds
<1>3. \A m \in Paged!With({}, "list", list_filter) : m.kind = "list"
  BY DEF Paged!With, Paged!Request
<1>4. ListNet(list_net)
  <2>1. Paged!Free(Paged!With({}, "list", list_filter), "count") # {}
    BY <1>3, ListAssumption DEF Paged!Free
  <2>2. "count" \in ListKinds
    BY DEF ListKinds
  <2>3. list_net = Paged!With(Paged!With({}, "list", list_filter), "count", list_filter)
    BY DEF Paged!Init
  <2> QED BY <1>1, <1>2, <2>1, <2>2, <2>3, RequestTyped
<1>5. /\ list_kind \in Paged!Kinds /\ list_stored = ListBegin
      /\ list_list = {} /\ list_pager = [total |-> 0, current |-> 0]
      /\ list_loading = TRUE /\ list_failed = FALSE
  BY DEF Paged!Init
<1>6. ListPageTyped
  <2>1. list_list \subseteq ListIds /\ Cardinality(list_list) <= ListPageSize
    BY <1>5, NothingFits
  <2>2. list_pager \in [total : Nat, current : Int]
    BY <1>5
  <2> QED BY <1>1, <1>5, <2>1, <2>2 DEF ListPageTyped
<1> QED BY <1>4, <1>5, <1>6, ListAssumption DEF ListTyped, Shelf

LEMMA ListReplyTyped ==
    ASSUME ListTyped, NEW m \in list_net, Paged!Serve(m) \/ Paged!Lose(m)
    PROVE  ListTyped'
<1>1. m \in ListMessages /\ Fits(m) /\ Shelf /\ ListNet(list_net)
  BY DEF ListTyped, ListNet
<1>2. \A answer : answer \in ListMessages /\ Fits(answer) /\ Paged!Reply(m, answer)
                    => ListNet(list_net')
  BY <1>1 DEF Paged!Reply, ListNet
<1>3. Paged!Serve(m) \/ Paged!Lose(m) => ListPageTyped'
  BY DEF Paged!Serve, Paged!Lose, Paged!page, ListTyped, ListPageTyped
<1>4. CASE Paged!Serve(m)
  <2>1. Shelf'
    <3>1. list_stored' \in SUBSET list_stored
      BY <1>4 DEF Paged!Serve
    <3> QED BY <1>1, <3>1, FS_Subset DEF Shelf
  <2>2. CASE m.kind \in {"list", "poll"}
    <3> DEFINE answer == [m EXCEPT !.at = "done", !.list = Paged!PageAt(m.filter)]
    <3>1. m.filter \in Paged!Filter
      BY <1>1 DEF ListMessages
    <3>2. /\ Paged!PageAt(m.filter) \subseteq ListIds
          /\ Cardinality(Paged!PageAt(m.filter)) <= ListPageSize
      BY <1>1, <3>1, PageFits
    <3>3. answer \in ListMessages /\ answer.list = Paged!PageAt(m.filter)
      BY <1>1, <3>2 DEF ListMessages
    <3>4. Paged!Reply(m, answer)
      BY <1>4, <2>2 DEF Paged!Serve
    <3> HIDE DEF answer
    <3>5. ListNet(list_net')
      BY <1>2, <3>2, <3>3, <3>4 DEF Fits
    <3> QED BY <1>3, <1>4, <2>1, <3>5 DEF ListTyped
  <2>3. CASE m.kind = "count"
    <3> DEFINE answer == [m EXCEPT !.at = "done", !.total = Paged!Counted(m.filter)]
    <3>1. m.filter \in Paged!Filter
      BY <1>1 DEF ListMessages
    <3>2. Paged!Counted(m.filter) \in Nat
      <4>1. IsFiniteSet(Paged!Found(m.filter.typed))
        BY <1>1, FS_Subset DEF Paged!Found, Shelf
      <4>2. IsFiniteSet(Paged!PageAt(m.filter))
        BY <1>1, <3>1, PageFits
      <4> QED BY <4>1, <4>2, FS_CardinalityType, SameCardinality DEF Paged!Counted
    <3>3. answer \in ListMessages /\ answer.list = m.list
      BY <1>1, <3>2 DEF ListMessages
    <3>4. Paged!Reply(m, answer)
      BY <1>4, <2>3 DEF Paged!Serve
    <3> HIDE DEF answer
    <3>5. ListNet(list_net')
      BY <1>1, <1>2, <3>3, <3>4 DEF Fits
    <3> QED BY <1>3, <1>4, <2>1, <3>5 DEF ListTyped
  <2>4. CASE m.kind = "delete"
    <3> DEFINE answer == [m EXCEPT !.at = "done"]
    <3>1. answer \in ListMessages /\ answer.list = m.list
      BY <1>1 DEF ListMessages
    <3>2. Paged!Reply(m, answer)
      BY <1>4, <2>4 DEF Paged!Serve
    <3> HIDE DEF answer
    <3>3. ListNet(list_net')
      BY <1>1, <1>2, <3>1, <3>2 DEF Fits
    <3> QED BY <1>3, <1>4, <2>1, <3>3 DEF ListTyped
  <2> QED BY <1>1, <2>2, <2>3, <2>4 DEF ListMessages, ListKinds
<1>5. CASE Paged!Lose(m)
  <2> DEFINE answer == [m EXCEPT !.at = "failed", !.list = {}, !.total = 0]
  <2>1. answer \in ListMessages /\ answer.list = {}
    BY <1>1 DEF ListMessages
  <2>2. Paged!Reply(m, answer)
    BY <1>5 DEF Paged!Lose
  <2> HIDE DEF answer
  <2>3. ListNet(list_net')
    BY <1>2, <2>1, <2>2, NothingFits DEF Fits
  <2> QED BY <1>1, <1>3, <1>5, <2>3 DEF ListTyped, Shelf, Paged!Lose
<1> QED BY <1>4, <1>5

LEMMA OfferedPages ==
    ASSUME NEW total \in Nat, NEW current \in Int
    PROVE  Paged!Offered(total, current) \subseteq Int
BY ListAssumption
   DEF Paged!Offered, Paged!StartFrom, Paged!PagesOf, Paged!Least, Paged!Smaller

LEMMA ListUserTyped ==
    ASSUME ListTyped, Paged!User \/ Paged!Poll \/ Paged!CreateElsewhere
    PROVE  ListTyped'
<1>1. /\ Shelf /\ ListNet(list_net) /\ ListPageTyped
      /\ "list" \in ListKinds /\ "count" \in ListKinds /\ "poll" \in ListKinds
  BY DEF ListTyped, ListKinds
<1>2. ASSUME NEW t \in DOMAIN ListFilters, Paged!HandleFilterChange(t)
      PROVE  ListTyped'
  BY <1>1, <1>2 DEF Paged!HandleFilterChange, Paged!Event, ListTyped, ListPageTyped, Shelf,
     Paged!Filter
<1>3. CASE Paged!OnFilter
  <2> DEFINE n == Paged!With(list_net, "list", list_filter)
  <2>1. ListNet(n) /\ \A m \in n : m \in list_net \/ m.kind = "list"
    <3>1. Paged!Free(list_net, "list") # {} /\ list_filter \in Paged!Filter
      BY <1>1, <1>3 DEF Paged!OnFilter, Paged!Room, ListPageTyped
    <3>2. ListNet(n)
      BY <1>1, <3>1, RequestTyped
    <3> QED BY <3>2 DEF Paged!With, Paged!Request
  <2>2. Paged!Free(n, "count") # {}
    BY <1>3, <2>1 DEF Paged!OnFilter, Paged!Room, Paged!Free
  <2>3. ListNet(Paged!With(n, "count", list_filter))
    BY <1>1, <2>1, <2>2, RequestTyped DEF ListPageTyped
  <2> QED BY <1>1, <1>3, <2>3 DEF Paged!OnFilter, Paged!Event, ListTyped, ListPageTyped, Shelf
<1>4. ASSUME NEW p \in Paged!Offered(list_pager.total, list_pager.current),
             Paged!HandlePageChanged(p)
      PROVE  ListTyped'
  <2>1. p \in Int
    BY <1>1, OfferedPages DEF ListPageTyped
  <2>2. list_filter' \in Paged!Filter /\ list_pager' \in [total : Nat, current : Int]
    BY <1>1, <1>4, <2>1, ListAssumption DEF Paged!HandlePageChanged, Paged!Filter, ListPageTyped
  <2>3. ListNet(list_net')
    BY <1>1, <1>4, <2>2, RequestTyped DEF Paged!HandlePageChanged, Paged!Room
  <2> QED BY <1>1, <1>4, <2>2, <2>3
          DEF Paged!HandlePageChanged, Paged!Event, ListTyped, ListPageTyped, Shelf
<1>5. ASSUME NEW id \in list_list, Paged!DeleteLaunch(id)
      PROVE  ListTyped'
  <2> DEFINE F == Paged!Free(list_net, "delete")
             no == CHOOSE i \in F : \A j \in F : i <= j
             m == [Paged!Request("delete", no, list_filter) EXCEPT !.id = id]
  <2>1. no \in 1 .. ListInFlight
    <3>1. F \in SUBSET (1 .. ListInFlight) /\ F # {}
      BY <1>5 DEF Paged!DeleteLaunch, Paged!Room, Paged!Free
    <3> HIDE DEF F
    <3>2. no \in F
      BY <3>1, GivenNumber
    <3> QED BY <3>1, <3>2
  <2>2. list_net' = list_net \cup {m}
    BY <1>5 DEF Paged!DeleteLaunch
  <2> HIDE DEF no
  <2>3. m \in ListMessages /\ m.list = {}
    BY <1>1, <2>1 DEF Paged!Request, ListMessages, ListKinds, ListPageTyped
  <2> HIDE DEF m
  <2>4. ListNet(list_net')
    BY <1>1, <2>2, <2>3, NothingFits DEF ListNet, Fits
  <2> QED BY <1>1, <1>5, <2>4
          DEF Paged!DeleteLaunch, Paged!Event, Paged!page, ListTyped, ListPageTyped, Shelf
<1>6. CASE Paged!Poll
  <2>1. Paged!Free(list_net, "poll") # {}
    BY <1>6, ListAssumption DEF Paged!Poll, Paged!Free
  <2>2. ListNet(list_net')
    BY <1>1, <1>6, <2>1, RequestTyped DEF Paged!Poll, ListPageTyped
  <2> QED BY <1>1, <1>6, <2>2 DEF Paged!Poll, Paged!page, ListTyped, ListPageTyped, Shelf
<1>7. CASE Paged!CreateElsewhere
  <2>1. Shelf'
    BY <1>1, <1>7, FS_AddElement DEF Paged!CreateElsewhere, Shelf
  <2> QED BY <1>1, <1>7, <2>1 DEF Paged!CreateElsewhere, Paged!page, ListTyped, ListPageTyped
<1> QED BY <1>2, <1>3, <1>4, <1>5, <1>6, <1>7 DEF Paged!User

LEMMA ListAnsweredTyped ==
    ASSUME ListTyped, Paged!Answered
    PROVE  ListTyped'
<1>1. PICK m \in list_net : \/ Paged!ListAnswered(m) \/ Paged!CountAnswered(m)
                            \/ Paged!DeleteAnswered(m) \/ Paged!Failed(m)
  BY DEF Paged!Answered
<1>2. /\ Shelf /\ ListNet(list_net) /\ ListPageTyped /\ ListNet(list_net \ {m})
      /\ m \in ListMessages /\ Fits(m) /\ "list" \in ListKinds
  BY DEF ListTyped, ListNet, ListKinds
<1>3. CASE Paged!ListAnswered(m)
  <2>1. list_list' \subseteq ListIds /\ Cardinality(list_list') <= ListPageSize
    BY <1>2, <1>3 DEF Paged!ListAnswered, ListMessages, Fits
  <2> QED BY <1>2, <1>3, <2>1
          DEF Paged!ListAnswered, Paged!Answer, ListTyped, ListPageTyped, Shelf
<1>4. CASE Paged!CountAnswered(m)
  <2>1. m.total \in Nat /\ list_filter.skip \div ListPageSize \in Int
    BY <1>2, ListAssumption DEF ListMessages, ListPageTyped, Paged!Filter
  <2>2. list_pager' \in [total : Nat, current : Int]
    BY <1>4, <2>1 DEF Paged!CountAnswered
  <2> QED BY <1>2, <1>4, <2>2
          DEF Paged!CountAnswered, Paged!Answer, ListTyped, ListPageTyped, Shelf
<1>5. CASE Paged!DeleteAnswered(m)
  <2>1. Paged!Free(list_net \ {m}, "list") # {}
    BY <1>5 DEF Paged!DeleteAnswered, Paged!Room, Paged!Free
  <2>2. ListNet(list_net')
    BY <1>2, <1>5, <2>1, RequestTyped DEF Paged!DeleteAnswered, ListPageTyped
  <2> QED BY <1>2, <1>5, <2>2
          DEF Paged!DeleteAnswered, Paged!Answer, ListTyped, ListPageTyped, Shelf
<1>6. CASE Paged!Failed(m)
  BY <1>2, <1>6 DEF Paged!Failed, Paged!Answer, ListTyped, ListPageTyped, Shelf
<1> QED BY <1>1, <1>3, <1>4, <1>5, <1>6

LEMMA ListTypedStep == ListTyped /\ [Paged!Next]_(Paged!vars) => ListTyped'
<1>1. ListTyped /\ UNCHANGED Paged!vars => ListTyped'
  BY DEF ListTyped, ListPageTyped, ListNet, Shelf, Paged!vars, Paged!page
<1> QED BY <1>1, ListReplyTyped, ListUserTyped, ListAnsweredTyped DEF Paged!Next

(* What the pages hold is what their parts expect, whatever was answered in *)
(* which order: the controls of a launch are handed a test case with a      *)
(* status, the rows have a status each, and no page that lists by pages     *)
(* shows more than fits on it.                                              *)
THEOREM PagesTyped == PolledSpec => []PolledTypeOK
<1> DEFINE I == view \in {"launch"} \cup Paged!Kinds /\ LaunchTyped /\ ListTyped
<1>1. PolledInit => I
  BY TypedInit, ListTypedInit, ListAssumption DEF PolledInit, Paged!Kinds
<1>2. I /\ [PolledNext]_allVars => I'
  <2>1. [PolledNext]_allVars => [Next]_vars /\ [Paged!Next]_(Paged!vars) /\ UNCHANGED view
    BY DEF PolledNext, OnLaunch, OnList, Idle, Paged!Idle, allVars
  <2>2. UNCHANGED view /\ view \in {"launch"} \cup Paged!Kinds
          => view' \in {"launch"} \cup Paged!Kinds
    BY DEF Paged!Kinds
  <2> QED BY <2>1, <2>2, TypedStep, ListTypedStep
<1>3. I => PolledTypeOK
  BY TypedByParts, ListTypedByParts DEF PolledTypeOK
<1> QED BY <1>1, <1>2, <1>3, PTL DEF PolledSpec
=============================================================================
