----------------------------- MODULE WebUIProofs ------------------------------
(***************************************************************************)
(* What is proved of the application that mounts one of its pages: the     *)
(* steps of the application are steps of every page, or leave it alone.    *)
(* The theorems about the page of a test case follow from those of its     *)
(* module, and those about settings, attributes and comments are in        *)
(* PanelsProofs; what is said of the dialog of a launch, the bulk change   *)
(* of attributes and the list of test cases is proved of their views here, *)
(* and at the end that every page keeps its type.                          *)
(***************************************************************************)
EXTENDS WebUI, TestCasePageProofs, PanelsProofs, FiniteSetTheorems

-----------------------------------------------------------------------------
(* The page of a test case *)

LEMMA PageSteps == [UINext]_uiVars => [Next]_vars
BY DEF UINext, OthersIdle, uiVars

LEMMA PageRuns == UISpec => Spec
<1>1. UIInit => Init
  BY DEF UIInit
<1> QED BY <1>1, PageSteps, PTL DEF UISpec, Spec

(* Whatever page is mounted, and whatever is done on it: the page of a test *)
(* case shows what the service has stored, in every field the user has not  *)
(* changed.                                                                 *)
THEOREM UIShowsStored == UISpec => []ShownAsStored
BY PageRuns, ShownIsStored, PTL

(* A save of a test case from the application changes no field but those    *)
(* the user changed on its page.                                            *)
THEOREM UIOverwritesNothing == UISpec => NoForeignChangeOverwritten
BY PageRuns, NothingForeignOverwritten, PTL

-----------------------------------------------------------------------------
(* The dialog of a launch *)

DialogMessage ==
    [kind : {"attributes", "create", "restart"}, launch : DialogView!Launch,
     failedOnly : BOOLEAN, at : {"sent", "done", "failed"}]

DialogTypes ==
    /\ dialog_started \in Nat /\ dialog_excuses \in Nat
    /\ dialog_net \subseteq DialogMessage
    /\ dialog_launch \in DialogView!Launch
    /\ dialog_source \in [DialogView!Pairs -> Nat]
    /\ dialog_restart \in BOOLEAN /\ dialog_failedOnly \in BOOLEAN
    /\ dialog_asked \in BOOLEAN /\ dialog_loading \in BOOLEAN

(* Requests and answers that are about a launch. *)
Launching == {m \in dialog_net : m.kind # "attributes"}

(* The button is gone while one is under way, so there is one at most. *)
OneAtATime ==
    /\ \A m, n \in Launching : m = n
    /\ dialog_loading <=> Launching # {}

(* Before it is mounted, and after Go To Launch, the dialog is new. *)
Unmounted ==
    dialog_host = Model.dialog.None =>
        /\ dialog_started = 0
        /\ dialog_net = {}
        /\ dialog_launch = DialogView!NewLaunch
        /\ ~dialog_open

(* Whenever the button can be pressed, or is being answered for, there is   *)
(* an excuse for every launch but the one to come.                          *)
Excused ==
    /\ dialog_started <= 1 + dialog_excuses
    /\ Launching = {} /\ ~DialogView!Created => dialog_started <= dialog_excuses
    /\ \A m \in Launching : m.at = "sent" => dialog_started <= dialog_excuses

DialogInv == DialogTypes /\ OneAtATime /\ Unmounted /\ Excused

LEMMA DialogInit == UIInit => DialogInv
<1> SUFFICES ASSUME UIInit PROVE DialogInv
  OBVIOUS
<1>1. DialogView!Init
  BY DEF UIInit
<1>2. DialogView!NewLaunch \in DialogView!Launch /\ DialogView!NoPairs \in [DialogView!Pairs -> Nat]
  BY DEF DialogView!NewLaunch, DialogView!Launch, DialogView!NoPairs
<1>3. Launching = {}
  BY <1>1 DEF Launching, DialogView!Init
<1>4. DialogTypes
  BY <1>1, <1>2 DEF DialogView!Init, DialogTypes
<1>5. OneAtATime
  BY <1>1, <1>3 DEF DialogView!Init, OneAtATime
<1>6. Unmounted
  BY <1>1 DEF DialogView!Init, Unmounted
<1>7. Excused
  BY <1>1, <1>3 DEF DialogView!Init, Excused
<1> QED BY <1>4, <1>5, <1>6, <1>7 DEF DialogInv

LEMMA DialogReply ==
    ASSUME DialogInv, NEW m \in dialog_net, NEW outcome \in {"done", "failed"},
           NEW l \in DialogView!Launch, DialogView!Reply(m, outcome, l)
    PROVE  /\ dialog_net' \subseteq DialogMessage
           /\ Launching' = {} <=> Launching = {}
           /\ \A p, q \in Launching' : p = q
           /\ \A p \in Launching' : p \in Launching \/ (p.at = outcome /\ m \in Launching)
<1> DEFINE n == [m EXCEPT !.at = outcome, !.launch = l]
<1>0. m \in DialogMessage
  BY DEF DialogInv, DialogTypes
<1>1. n \in DialogMessage /\ n.kind = m.kind /\ n.at = outcome
  BY <1>0 DEF DialogMessage
<1>2. dialog_net' = (dialog_net \ {m}) \cup {n}
  BY DEF DialogView!Reply
<1> HIDE DEF n
<1>3. \A p, q \in Launching : p = q
  BY DEF DialogInv, OneAtATime
<1>4. dialog_net' \subseteq DialogMessage
  BY <1>1, <1>2 DEF DialogInv, DialogTypes
<1>5. CASE m.kind = "attributes"
  <2>1. Launching' = Launching
    BY <1>1, <1>2, <1>5 DEF Launching
  <2> QED BY <1>3, <1>4, <2>1
<1>6. CASE m.kind # "attributes"
  <2>1. Launching = {m}
    BY <1>3, <1>6 DEF Launching
  <2>2. \A p \in dialog_net \ {m} : p.kind = "attributes"
    BY <2>1 DEF Launching
  <2>3. Launching' = {n}
    BY <1>1, <1>2, <1>6, <2>2 DEF Launching
  <2> QED BY <1>1, <1>4, <2>1, <2>3
<1> QED BY <1>5, <1>6

LEMMA DialogDone ==
    ASSUME DialogInv, NEW m \in dialog_net, dialog_net' = dialog_net \ {m}
    PROVE  /\ dialog_net' \subseteq DialogMessage
           /\ Launching' = IF m.kind = "attributes" THEN Launching ELSE {}
           /\ m.kind # "attributes" => m \in Launching
<1>1. \A p, q \in Launching : p = q
  BY DEF DialogInv, OneAtATime
<1> QED BY <1>1 DEF Launching, DialogInv, DialogTypes

(* Rendering the page with its props keeps what is owed. *)
LEMMA DialogProps ==
    ASSUME DialogInv, NEW only \in BOOLEAN, NEW fresh \in BOOLEAN,
           DialogView!ReceiveProps(only, fresh)
    PROVE  /\ dialog_source' \in [DialogView!Pairs -> Nat]
           /\ dialog_launch' \in DialogView!Launch
           /\ dialog_restart' \in BOOLEAN /\ dialog_failedOnly' \in BOOLEAN
           /\ dialog_excuses' \in Nat /\ dialog_excuses <= dialog_excuses'
           /\ DialogView!Created /\ ~DialogView!Created' => dialog_excuses' = dialog_excuses + 1
           /\ dialog_host # "launch" => dialog_launch' = dialog_launch
<1>1. dialog_source' \in [DialogView!Pairs -> Nat]
  BY DEF DialogView!ReceiveProps, DialogInv, DialogTypes, DialogView!NoPairs
<1>2. [DialogView!NewLaunch EXCEPT !.id = TRUE, !.pairs = dialog_source', !.given = TRUE]
         \in DialogView!Launch
  <2>1. DialogView!NewLaunch \in DialogView!Launch
    BY DEF DialogView!NewLaunch, DialogView!Launch, DialogView!NoPairs
  <2> QED BY <1>1, <2>1 DEF DialogView!Launch
<1>3. dialog_launch' \in DialogView!Launch
  BY <1>2 DEF DialogView!ReceiveProps, DialogInv, DialogTypes
<1>4. /\ dialog_excuses' \in Nat /\ dialog_excuses <= dialog_excuses'
      /\ DialogView!Created /\ ~DialogView!Created' => dialog_excuses' = dialog_excuses + 1
  BY DEF DialogView!ReceiveProps, DialogInv, DialogTypes
<1> QED BY <1>1, <1>3, <1>4 DEF DialogView!ReceiveProps

(* The dialog is left with what it had, in net and in the rest, but for what *)
(* the props may have changed.                                              *)
LEMMA DialogRendered ==
    ASSUME DialogInv, NEW only \in BOOLEAN, NEW fresh \in BOOLEAN,
           DialogView!ReceiveProps(only, fresh), dialog_host # Model.dialog.None,
           UNCHANGED <<dialog_started, dialog_net, dialog_host, dialog_loading>>,
           dialog_asked' \in BOOLEAN
    PROVE  DialogInv'
<1>1. Launching' = Launching
  BY DEF Launching
<1>2. DialogTypes'
  BY DialogProps DEF DialogInv, DialogTypes
<1>3. OneAtATime' /\ Unmounted'
  BY <1>1 DEF DialogInv, OneAtATime, Unmounted
<1>4. Excused'
  BY <1>1, DialogProps DEF DialogInv, DialogTypes, Excused
<1> QED BY <1>2, <1>3, <1>4 DEF DialogInv

LEMMA DialogServed ==
    ASSUME DialogInv, NEW m \in dialog_net, DialogView!Serve(m) \/ DialogView!Lose(m)
    PROVE  DialogInv'
<1>1. /\ m.launch \in DialogView!Launch /\ m \in DialogMessage
      /\ dialog_started \in Nat /\ dialog_excuses \in Nat
  BY DEF DialogInv, DialogTypes, DialogMessage
<1>2. /\ UNCHANGED <<dialog_host, dialog_launch, dialog_source, dialog_restart,
            dialog_failedOnly, dialog_asked, dialog_loading, dialog_excuses>>
      /\ \/ dialog_started' = dialog_started
         \/ dialog_started' = dialog_started + 1 /\ m.at = "sent" /\ m \in Launching
      /\ \E o \in {"done", "failed"}, l \in DialogView!Launch : DialogView!Reply(m, o, l)
  <2>1. CASE DialogView!Lose(m)
    BY <1>1, <2>1 DEF DialogView!Lose, DialogView!page, DialogView!dialog
  <2>2. CASE DialogView!Serve(m)
    <3>1. [m.launch EXCEPT !.id = dialog_launcher # "starts", !.given = FALSE] \in DialogView!Launch
      BY <1>1 DEF DialogView!Launch
    <3>2. UNCHANGED <<dialog_host, dialog_launch, dialog_source, dialog_restart,
            dialog_failedOnly, dialog_asked, dialog_loading, dialog_excuses>>
      BY <2>2 DEF DialogView!Serve, DialogView!page, DialogView!dialog
    <3> QED BY <1>1, <2>2, <3>1, <3>2 DEF DialogView!Serve, Launching
  <2> QED BY <2>1, <2>2
<1>3. PICK o \in {"done", "failed"} :
         /\ dialog_net' \subseteq DialogMessage
         /\ Launching' = {} <=> Launching = {}
         /\ \A p, q \in Launching' : p = q
         /\ \A p \in Launching' : p \in Launching \/ (p.at = o /\ m \in Launching)
  BY <1>2, DialogReply
<1>4. DialogTypes'
  BY <1>2, <1>3 DEF DialogInv, DialogTypes
<1>5. OneAtATime'
  BY <1>2, <1>3 DEF DialogInv, OneAtATime
<1>6. Unmounted'
  BY <1>2 DEF DialogInv, Unmounted
<1>7. Excused'
  <2>1. DialogView!Created' <=> DialogView!Created
    BY <1>2 DEF DialogView!Created
  <2>2. dialog_started' <= 1 + dialog_excuses
    BY <1>1, <1>2 DEF DialogInv, Excused
  <2>3. Launching' = {} /\ ~DialogView!Created => dialog_started' <= dialog_excuses
    BY <1>2, <1>3 DEF DialogInv, Excused
  <2>4. ASSUME NEW p \in Launching', p.at = "sent" PROVE dialog_started' <= dialog_excuses
    <3>1. p \in Launching
      BY <1>3, <2>4
    <3>2. CASE dialog_started' = dialog_started
      BY <2>4, <3>1, <3>2 DEF DialogInv, Excused
    <3>3. CASE m.at = "sent" /\ m \in Launching
      <4>1. p = m
        BY <3>1, <3>3 DEF DialogInv, OneAtATime
      <4>2. m \notin dialog_net'
        BY <1>1, <1>2, <3>3 DEF DialogView!Reply, DialogMessage
      <4> QED BY <2>4, <4>1, <4>2 DEF Launching
    <3> QED BY <1>2, <3>2, <3>3
  <2> QED BY <1>2, <2>1, <2>2, <2>3, <2>4 DEF Excused
<1> QED BY <1>4, <1>5, <1>6, <1>7 DEF DialogInv

LEMMA DialogStep == DialogInv /\ [UINext]_uiVars => DialogInv'
<1> SUFFICES ASSUME DialogInv, DialogView!Next PROVE DialogInv'
  <2>1. UNCHANGED DialogView!vars /\ DialogInv => DialogInv'
    BY DEF DialogView!vars, DialogView!bounds, DialogView!page, DialogView!choice,
       DialogView!dialog, DialogInv, DialogTypes, OneAtATime, Unmounted, Excused, Launching,
       DialogView!Created
  <2>2. [UINext]_uiVars => DialogView!Next \/ UNCHANGED DialogView!vars
    BY DEF UINext, OthersIdle, uiVars, DialogView!Idle
  <2> QED BY <2>1, <2>2
<1> USE DEF DialogView!page, DialogView!choice, DialogView!dialog, DialogView!bounds
<1>1. ASSUME NEW h \in {"cases", "launch"}, NEW l \in {"none", "creates", "starts"},
             DialogView!ComponentDidMount(h, l)
      PROVE  DialogInv'
  <2>1. /\ dialog_started = 0 /\ dialog_launch = DialogView!NewLaunch
        /\ ~dialog_loading
    BY <1>1 DEF DialogView!ComponentDidMount, DialogInv, Unmounted, OneAtATime, Launching
  <2>2. PICK m \in DialogMessage : m = DialogView!Request("attributes") /\ m.kind = "attributes"
    <3>1. DialogView!Request("attributes") \in DialogMessage
      BY DEF DialogView!Request, DialogMessage, DialogInv, DialogTypes
    <3> QED BY <3>1 DEF DialogView!Request
  <2>3. dialog_net' = {m} /\ Launching' = {}
    BY <1>1, <2>2 DEF DialogView!ComponentDidMount, Launching
  <2>4. /\ UNCHANGED <<dialog_started, dialog_excuses, dialog_launch, dialog_source,
               dialog_failedOnly, dialog_asked, dialog_loading>>
        /\ dialog_restart' \in BOOLEAN /\ dialog_host' # Model.dialog.None
    BY <1>1, ModelAssumption DEF DialogView!ComponentDidMount
  <2>5. DialogTypes'
    BY <2>2, <2>3, <2>4 DEF DialogInv, DialogTypes
  <2>6. OneAtATime' /\ Unmounted'
    BY <2>1, <2>3, <2>4 DEF OneAtATime, Unmounted
  <2>7. Excused'
    BY <2>1, <2>3, <2>4 DEF DialogInv, DialogTypes, Excused
  <2> QED BY <2>5, <2>6, <2>7 DEF DialogInv
<1>2. ASSUME NEW only \in BOOLEAN, DialogView!Open(only) PROVE DialogInv'
  <2>1. /\ DialogView!ReceiveProps(only, FALSE) /\ dialog_host # Model.dialog.None
        /\ UNCHANGED <<dialog_started, dialog_net, dialog_host, dialog_loading>>
        /\ dialog_asked' \in BOOLEAN
    BY <1>2 DEF DialogView!Open
  <2> QED BY <2>1, DialogRendered
<1>3. ASSUME NEW fresh \in BOOLEAN, DialogView!HostRenders(fresh) PROVE DialogInv'
  BY <1>3, DialogRendered DEF DialogView!HostRenders, DialogInv, DialogTypes
<1>4. ASSUME \/ DialogView!Close \/ DialogView!HandleAddAttribute
             \/ \E p \in DialogView!Positions :
                   \/ \E n \in Model.dialog.Names : DialogView!ChangeLaunchConfigAttribute(p, n)
                   \/ \E v \in Model.dialog.Values :
                         DialogView!ChangeLaunchConfigAttributeValues(p, v)
      PROVE  DialogInv'
  <2>1. /\ dialog_open
        /\ UNCHANGED <<dialog_started, dialog_host, dialog_launch, dialog_source,
             dialog_restart, dialog_failedOnly, dialog_asked, dialog_loading, dialog_excuses>>
        /\ dialog_net' = dialog_net
    BY <1>4 DEF DialogView!Close, DialogView!HandleAddAttribute, DialogView!FormKeeps,
       DialogView!ChangeLaunchConfigAttribute, DialogView!ChangeLaunchConfigAttributeValues,
       DialogView!InForm
  <2>2. dialog_host # Model.dialog.None
    BY <2>1 DEF DialogInv, Unmounted
  <2>3. Launching' = Launching
    BY <2>1 DEF Launching
  <2>4. DialogTypes' /\ OneAtATime' /\ Unmounted'
    BY <2>1, <2>2, <2>3 DEF DialogInv, DialogTypes, OneAtATime, Unmounted
  <2>5. Excused'
    BY <2>1, <2>3 DEF DialogInv, Excused, DialogView!Created
  <2> QED BY <2>4, <2>5 DEF DialogInv
<1>5. ASSUME DialogView!HandleSubmit PROVE DialogInv'
  <2>1. DialogView!Pushed \in [DialogView!Pairs -> Nat]
    <3>1. ASSUME NEW p \in DialogView!Pairs
          PROVE  DialogView!Cardinality({q \in DialogView!Positions :
                    <<dialog_name[q], dialog_value[q]>> = p}) \in Nat
      <4> DEFINE those == {q \in DialogView!Positions : <<dialog_name[q], dialog_value[q]>> = p}
      <4>1. IsFiniteSet(DialogView!Positions)
        <5>1. IsFiniteSet({"top"} \cup {"bottom"})
          BY FS_Singleton, FS_AddElement
        <5>2. DialogView!Positions = {"top"} \cup {"bottom"}
          BY DEF DialogView!Positions
        <5> QED BY <5>1, <5>2
      <4>2. Cardinality(those) \in Nat
        BY <4>1, FS_Subset, FS_CardinalityType
      <4>3. DialogView!Cardinality(those) = Cardinality(those)
        BY DEF DialogView!Cardinality, Cardinality
      <4> QED BY <4>2, <4>3
    <3> QED BY <3>1 DEF DialogView!Pushed, DialogInv, DialogTypes, DialogView!Launch
  <2>2. PICK l \in DialogView!Launch : /\ dialog_launch' = l
                                       /\ l.id = dialog_launch.id
    <3>1. /\ [dialog_launch EXCEPT !.pairs = DialogView!Pushed] \in DialogView!Launch
          /\ [dialog_launch EXCEPT !.pairs = DialogView!Pushed].id = dialog_launch.id
      BY <2>1 DEF DialogInv, DialogTypes, DialogView!Launch
    <3> QED BY <1>5, <3>1 DEF DialogView!HandleSubmit
  <2>3. ~DialogView!Created /\ Launching = {} /\ dialog_started <= dialog_excuses
    BY <1>5 DEF DialogView!HandleSubmit, DialogView!Button, DialogInv, OneAtATime, Excused
  <2>4. PICK m \in DialogMessage : /\ dialog_net' = dialog_net \cup {m}
                                   /\ m.kind # "attributes"
    <3> DEFINE k == IF dialog_restart THEN "restart" ELSE "create"
               m == [kind |-> k, launch |-> dialog_launch', failedOnly |-> dialog_failedOnly,
                     at |-> "sent"]
    <3>1. m \in DialogMessage
      BY <2>2 DEF DialogMessage, DialogInv, DialogTypes
    <3>2. m.kind # "attributes"
      OBVIOUS
    <3>3. [DialogView!Request(k) EXCEPT !.launch = dialog_launch'] = m
      BY DEF DialogView!Request
    <3>4. dialog_net' = dialog_net \cup {m}
      BY <1>5, <3>3 DEF DialogView!HandleSubmit
    <3> QED BY <3>1, <3>2, <3>4
  <2>5. Launching' = {m}
    BY <2>3, <2>4 DEF Launching
  <2>6. /\ UNCHANGED <<dialog_started, dialog_excuses, dialog_host, dialog_restart,
               dialog_failedOnly, dialog_asked>>
        /\ dialog_loading' = TRUE
        /\ dialog_source' \in [DialogView!Pairs -> Nat]
        /\ dialog_host # Model.dialog.None
    BY <1>5, <2>1 DEF DialogView!HandleSubmit, DialogInv, DialogTypes, Unmounted
  <2>7. DialogTypes'
    BY <2>2, <2>4, <2>6 DEF DialogInv, DialogTypes
  <2>8. OneAtATime' /\ Unmounted'
    BY <2>5, <2>6 DEF OneAtATime, Unmounted
  <2>9. Excused'
    BY <2>3, <2>5, <2>6 DEF DialogInv, DialogTypes, Excused
  <2> QED BY <2>7, <2>8, <2>9 DEF DialogInv
<1>6. ASSUME DialogView!GoToLaunch PROVE DialogInv'
  <2>1. /\ DialogView!NewLaunch \in DialogView!Launch
        /\ DialogView!NoPairs \in [DialogView!Pairs -> Nat]
    BY DEF DialogView!NewLaunch, DialogView!Launch, DialogView!NoPairs
  <2>2. Launching' = {}
    BY <1>6 DEF DialogView!GoToLaunch, Launching
  <2>3. DialogTypes'
    BY <1>6, <2>1 DEF DialogView!GoToLaunch, DialogTypes
  <2>4. OneAtATime'
    BY <1>6, <2>2 DEF DialogView!GoToLaunch, OneAtATime
  <2>5. Unmounted'
    BY <1>6 DEF DialogView!GoToLaunch, Unmounted
  <2>6. Excused'
    BY <1>6, <2>2 DEF DialogView!GoToLaunch, Excused
  <2> QED BY <2>3, <2>4, <2>5, <2>6 DEF DialogInv
<1>7. ASSUME NEW m \in dialog_net, NEW names, DialogView!AttributesAnswered(m, names)
      PROVE  DialogInv'
  <2>1. Launching' = Launching /\ dialog_net' \subseteq DialogMessage
    BY <1>7, DialogDone DEF DialogView!AttributesAnswered
  <2>2. UNCHANGED <<dialog_started, dialog_host, dialog_launch, dialog_source,
             dialog_restart, dialog_failedOnly, dialog_asked, dialog_loading, dialog_excuses>>
    BY <1>7 DEF DialogView!AttributesAnswered
  <2>3. DialogTypes' /\ OneAtATime'
    BY <2>1, <2>2 DEF DialogInv, DialogTypes, OneAtATime
  <2>4. dialog_net # {}
    OBVIOUS
  <2>5. Unmounted'
    BY <2>2, <2>4 DEF DialogInv, Unmounted
  <2>6. Excused'
    BY <2>1, <2>2 DEF DialogInv, Excused, DialogView!Created
  <2> QED BY <2>3, <2>5, <2>6 DEF DialogInv
<1>8. ASSUME NEW m \in dialog_net, DialogView!Answered(m) PROVE DialogInv'
  <2>1. Launching' = {} /\ dialog_net' \subseteq DialogMessage
    BY <1>8, DialogDone DEF DialogView!Answered
  <2>2. /\ UNCHANGED <<dialog_started, dialog_host, dialog_source, dialog_failedOnly,
               dialog_asked>>
        /\ dialog_restart' = FALSE /\ dialog_loading' = FALSE
        /\ dialog_excuses' = IF m.launch.id THEN dialog_excuses ELSE dialog_excuses + 1
        /\ dialog_launch' = [m.launch EXCEPT !.triggered = ~m.launch.id]
    BY <1>8 DEF DialogView!Answered
  <2>3. m.launch \in DialogView!Launch
    BY DEF DialogInv, DialogTypes, DialogMessage
  <2>4. dialog_launch' \in DialogView!Launch /\ dialog_launch'.id = m.launch.id
    BY <2>2, <2>3 DEF DialogView!Launch
  <2>5. dialog_excuses' \in Nat
    BY <2>2 DEF DialogInv, DialogTypes
  <2>6. DialogTypes'
    BY <2>1, <2>2, <2>4, <2>5 DEF DialogInv, DialogTypes
  <2>7. OneAtATime' /\ Unmounted'
    BY <2>1, <2>2 DEF DialogInv, OneAtATime, Unmounted
  <2>8. Excused'
    BY <2>1, <2>2, <2>4 DEF DialogInv, DialogTypes, Excused, DialogView!Created
  <2> QED BY <2>6, <2>7, <2>8 DEF DialogInv
<1>9. ASSUME NEW m \in dialog_net, DialogView!Failed(m) PROVE DialogInv'
  <2>1. /\ dialog_net' \subseteq DialogMessage
        /\ Launching' = IF m.kind = "attributes" THEN Launching ELSE {}
    BY <1>9, DialogDone DEF DialogView!Failed
  <2>2. /\ UNCHANGED <<dialog_started, dialog_host, dialog_launch, dialog_source,
               dialog_restart, dialog_failedOnly, dialog_asked>>
        /\ IF m.kind = "attributes" THEN UNCHANGED <<dialog_loading, dialog_excuses>>
           ELSE dialog_loading' = FALSE /\ dialog_excuses' = dialog_excuses + 1
    BY <1>9 DEF DialogView!Failed
  <2>3. dialog_loading' \in BOOLEAN /\ dialog_excuses' \in Nat
    <3>1. dialog_loading' = dialog_loading \/ dialog_loading' = FALSE
      BY <2>2
    <3>2. dialog_excuses' = dialog_excuses \/ dialog_excuses' = dialog_excuses + 1
      BY <2>2
    <3>3. dialog_loading \in BOOLEAN /\ dialog_excuses \in Nat
      BY DEF DialogInv, DialogTypes
    <3>4. dialog_loading' \in BOOLEAN
      BY ONLY <3>1, <3>3
    <3>5. dialog_excuses' \in Nat
      BY ONLY <3>2, <3>3
    <3> QED BY <3>4, <3>5
  <2>4. DialogTypes' /\ OneAtATime' /\ Unmounted'
    <3>1. DialogTypes'
      BY <2>1, <2>2, <2>3 DEF DialogInv, DialogTypes
    <3>2. OneAtATime'
      BY <2>1, <2>2 DEF DialogInv, OneAtATime
    <3>3. Unmounted'
      BY <2>2 DEF DialogInv, Unmounted
    <3> QED BY <3>1, <3>2, <3>3
  <2>5. Excused'
    BY <2>1, <2>2 DEF DialogInv, DialogTypes, Excused, DialogView!Created
  <2> QED BY <2>4, <2>5 DEF DialogInv
<1> QED BY <1>1, <1>2, <1>3, <1>4, <1>5, <1>6, <1>7, <1>8, <1>9, DialogServed
        DEF DialogView!Next, DialogView!User

(* One launch for one opening of the dialog, whatever is pressed while the  *)
(* requests are under way, and however the page behind it renders.          *)
THEOREM OneLaunchEach == UISpec => []LaunchedOnce
<1>1. DialogInv => LaunchedOnce
  BY DEF DialogInv, Excused, LaunchedOnce, DialogView!LaunchedOnce
<1> QED BY <1>1, DialogInit, DialogStep, PTL DEF UISpec

-----------------------------------------------------------------------------
(* The bulk change of attributes *)

(* A test case, as far as the proof looks into it.                          *)
IsTestCase(d) == d \in [version : Nat, attributes : {d.attributes}, locked : {d.locked}]

StoreTyped ==
    /\ bulk_store \in [Model.bulk.Cases -> {bulk_store[t] : t \in Model.bulk.Cases}]
    /\ \A t \in Model.bulk.Cases : IsTestCase(bulk_store[t])

BulkShaped(m) ==
    m \in [op : {m.op}, button : {m.button}, click : {m.click}, case : {m.case}, doc : {m.doc},
           at : {"sent", "done", "failed"}, rows : {m.rows}, ids : {m.ids}, left : {m.left}]

(* b is a, with attributes and values added, or removed.                    *)
OnlyBy(button, a, b) ==
    IF button = "add"
      THEN \A k \in DOMAIN a : k \in DOMAIN b /\ a[k] \subseteq b[k]
      ELSE \A k \in DOMAIN b : k \in DOMAIN a /\ b[k] \subseteq a[k]

(* What d is changed from is what is stored, or there is a newer one.       *)
ChangedFromStored(m) ==
    LET s == bulk_store[m.case] IN
    /\ m.doc.version <= s.version
    /\ m.doc.version = s.version =>
          m.doc.locked = s.locked /\ OnlyBy(m.button, s.attributes, m.doc.attributes)

FetchedFromStored(m) ==
    LET s == bulk_store[m.case] IN
    m.doc.version <= s.version /\ (m.doc.version = s.version => m.doc = s)

Sound(m) ==
    /\ BulkShaped(m)
    /\ IsTestCase(m.doc)
    /\ m.op \in {"add", "remove", "put"} => m.case \in Model.bulk.Cases
    /\ m.op \in {"add", "remove"} => m.button = m.op
    /\ m.op \in {"add", "remove"} /\ m.at = "done" => FetchedFromStored(m)
    /\ m.op = "put" /\ m.at = "sent" => ChangedFromStored(m)

BulkInv == StoreTyped /\ \A m \in bulk_net : Sound(m)

(* Add adds, Remove removes. *)
LEMMA ChangedOnlyBy ==
    ASSUME NEW m, NEW a, m.op \in {"add", "remove"}
    PROVE  OnlyBy(m.op, a, BulkView!Changed(m, a))
<1>1. CASE m.op = "add"
  <2>1. ASSUME NEW k \in DOMAIN a
        PROVE  k \in DOMAIN BulkView!Added(m, a) /\ a[k] \subseteq BulkView!Added(m, a)[k]
    <3>1. DOMAIN a # {}
      BY <2>1
    <3>2. k \in DOMAIN a \cup BulkView!Missing(m, a)
      BY <2>1
    <3> QED BY <3>1, <3>2 DEF BulkView!Added
  <2> QED BY <1>1, <2>1 DEF OnlyBy, BulkView!Changed
<1>2. CASE m.op = "remove"
  <2>1. ASSUME NEW k \in DOMAIN BulkView!Removed(m, a)
        PROVE  k \in DOMAIN a /\ BulkView!Removed(m, a)[k] \subseteq a[k]
    BY <2>1 DEF BulkView!Removed
  <2> QED BY <1>2, <2>1 DEF OnlyBy, BulkView!Changed
<1> QED BY <1>1, <1>2

LEMMA TestCaseWith ==
    ASSUME NEW d, IsTestCase(d), NEW v \in Nat, NEW a, NEW l
    PROVE  /\ [d EXCEPT !.version = v] = [version |-> v, attributes |-> d.attributes, locked |-> d.locked]
           /\ [d EXCEPT !.attributes = a] = [version |-> d.version, attributes |-> a, locked |-> d.locked]
           /\ [d EXCEPT !.locked = l, !.version = v] = [version |-> v, attributes |-> d.attributes, locked |-> l]
           /\ [d EXCEPT !.version = v, !.attributes = a] = [version |-> v, attributes |-> a, locked |-> d.locked]
<1>1. d \in [version : Nat, attributes : {d.attributes}, locked : {d.locked}]
  BY DEF IsTestCase
<1>2. [d EXCEPT !.version = v] = [version |-> v, attributes |-> d.attributes, locked |-> d.locked]
  BY ONLY <1>1
<1>3. [d EXCEPT !.attributes = a] = [version |-> d.version, attributes |-> a, locked |-> d.locked]
  BY ONLY <1>1
<1>4. [d EXCEPT !.locked = l, !.version = v] = [version |-> v, attributes |-> d.attributes, locked |-> l]
  <2> DEFINE T == [version : Nat, attributes : {d.attributes}, locked : {d.locked, l}]
             e == [d EXCEPT !.locked = l, !.version = v]
  <2>1. e \in T /\ e.version = v /\ e.locked = l /\ e.attributes = d.attributes
    BY <1>1
  <2> HIDE DEF e
  <2>2. e = [version |-> e.version, attributes |-> e.attributes, locked |-> e.locked]
    BY ONLY <2>1
  <2>3. e = [version |-> v, attributes |-> d.attributes, locked |-> l]
    BY ONLY <2>1, <2>2
  <2> QED BY <2>3 DEF e
<1>5. [d EXCEPT !.version = v, !.attributes = a] = [version |-> v, attributes |-> a, locked |-> d.locked]
  <2> DEFINE T == [version : Nat, attributes : {d.attributes, a}, locked : {d.locked}]
             e == [d EXCEPT !.version = v, !.attributes = a]
  <2>1. e \in T /\ e.version = v /\ e.locked = d.locked /\ e.attributes = a
    BY <1>1
  <2> HIDE DEF e
  <2>2. e = [version |-> e.version, attributes |-> e.attributes, locked |-> e.locked]
    BY ONLY <2>1
  <2>3. e = [version |-> v, attributes |-> a, locked |-> d.locked]
    BY ONLY <2>1, <2>2
  <2> QED BY <2>3 DEF e
<1> QED BY <1>2, <1>3, <1>4, <1>5

(* Saving leaves what a message says true, or makes it old. *)
LEMMA SavedSound ==
    ASSUME StoreTyped, StoreTyped', NEW m, Sound(m),
           \A t \in Model.bulk.Cases :
              bulk_store'[t] = bulk_store[t] \/ bulk_store[t].version < bulk_store'[t].version
    PROVE  Sound(m)'
<1>1. \A t \in Model.bulk.Cases : bulk_store[t].version \in Nat /\ bulk_store'[t].version \in Nat
  BY DEF StoreTyped, IsTestCase
<1>2. m.doc.version \in Nat
  BY DEF Sound, IsTestCase
<1>3. m.case \in Model.bulk.Cases /\ FetchedFromStored(m) => FetchedFromStored(m)'
  BY <1>1, <1>2 DEF FetchedFromStored
<1>4. m.case \in Model.bulk.Cases /\ ChangedFromStored(m) => ChangedFromStored(m)'
  BY <1>1, <1>2 DEF ChangedFromStored
<1> QED BY <1>3, <1>4 DEF Sound

(* A test case that is replaced by a newer one. *)
LEMMA SavedStore ==
    ASSUME StoreTyped, NEW t \in Model.bulk.Cases, NEW d, IsTestCase(d),
           bulk_store' = [bulk_store EXCEPT ![t] = d],
           d.version = bulk_store[t].version + 1
    PROVE  /\ StoreTyped'
           /\ \A u \in Model.bulk.Cases :
                 bulk_store'[u] = bulk_store[u] \/ bulk_store[u].version < bulk_store'[u].version
<1>1. \A u \in Model.bulk.Cases : bulk_store'[u] = IF u = t THEN d ELSE bulk_store[u]
  BY DEF StoreTyped
<1>2. bulk_store' \in [Model.bulk.Cases -> {bulk_store'[u] : u \in Model.bulk.Cases}]
  BY DEF StoreTyped
<1>3. \A u \in Model.bulk.Cases : IsTestCase(bulk_store'[u])
  BY <1>1 DEF StoreTyped
<1>4. StoreTyped'
  BY <1>2, <1>3 DEF StoreTyped
<1>5. bulk_store[t].version \in Nat
  BY DEF StoreTyped, IsTestCase
<1>6. bulk_store[t].version < d.version
  BY <1>5
<1> QED BY <1>1, <1>4, <1>6

LEMMA BulkKept ==
    ASSUME BulkInv, UNCHANGED bulk_store, \A m \in bulk_net' : m \in bulk_net \/ Sound(m)
    PROVE  BulkInv'
<1>1. StoreTyped'
  BY DEF BulkInv, StoreTyped
<1>2. \A m : Sound(m) => Sound(m)'
  BY DEF Sound, ChangedFromStored, FetchedFromStored
<1> QED BY <1>1, <1>2 DEF BulkInv

LEMMA BulkSaved ==
    ASSUME BulkInv, NEW t \in Model.bulk.Cases, NEW d, IsTestCase(d),
           bulk_store' = [bulk_store EXCEPT ![t] = d],
           d.version = bulk_store[t].version + 1,
           \A m \in bulk_net' : m \in bulk_net \/ Sound(m)
    PROVE  BulkInv'
BY SavedStore, SavedSound DEF BulkInv

LEMMA RequestSound ==
    ASSUME NEW op, NEW t, op \in {"add", "remove"} => t \in Model.bulk.Cases, op # "put"
    PROVE  /\ Sound(BulkView!Request(op, t, BulkView!NoTestCase))
           /\ BulkView!Request(op, t, BulkView!NoTestCase).at = "sent"
           /\ BulkView!Request(op, t, BulkView!NoTestCase).op = op
<1>1. IsTestCase(BulkView!NoTestCase)
  BY DEF IsTestCase, BulkView!NoTestCase
<1> QED BY <1>1 DEF Sound, BulkShaped, BulkView!Request

ReplyTo(m, outcome, d) == [m EXCEPT !.at = outcome, !.doc = d]

LEMMA Replied ==
    ASSUME NEW m, BulkShaped(m), NEW outcome \in {"done", "failed"}, NEW d
    PROVE  LET n == ReplyTo(m, outcome, d) IN
           /\ BulkShaped(n) /\ n.doc = d /\ n.at = outcome
           /\ n.op = m.op /\ n.case = m.case /\ n.button = m.button
           /\ n.rows = m.rows /\ n.ids = m.ids /\ n.left = m.left
<1> DEFINE n == ReplyTo(m, outcome, d)
           T == [op : {m.op}, button : {m.button}, click : {m.click}, case : {m.case},
                 doc : {m.doc, d}, at : {"sent", "done", "failed"}, rows : {m.rows},
                 ids : {m.ids}, left : {m.left}]
<1>1. m \in T
  BY DEF BulkShaped
<1>2. /\ n \in T /\ n.op = m.op /\ n.case = m.case /\ n.button = m.button
      /\ n.doc = d /\ n.at = outcome /\ n.rows = m.rows /\ n.ids = m.ids /\ n.left = m.left
  BY ONLY <1>1, outcome \in {"done", "failed"} DEF ReplyTo
<1> HIDE DEF n
<1>3. BulkShaped(n)
  BY ONLY <1>2 DEF BulkShaped
<1> QED BY <1>2, <1>3 DEF n

(* What has been fetched is sent back with the attributes a. *)
PutOf(m, a) == [m EXCEPT !.op = "put", !.at = "sent", !.doc.attributes = a]

LEMMA SentBack ==
    ASSUME NEW m, BulkShaped(m), IsTestCase(m.doc), NEW a
    PROVE  LET n == PutOf(m, a) IN
           /\ BulkShaped(n) /\ n.at = "sent" /\ n.op = "put"
           /\ n.case = m.case /\ n.button = m.button
           /\ n.rows = m.rows /\ n.ids = m.ids /\ n.left = m.left
           /\ n.doc = [version |-> m.doc.version, attributes |-> a, locked |-> m.doc.locked]
<1> DEFINE n == PutOf(m, a)
           d == [m.doc EXCEPT !.attributes = a]
           e == [m EXCEPT !.op = "put", !.at = "sent", !.doc = d]
           T == [op : {m.op, "put"}, button : {m.button}, click : {m.click}, case : {m.case},
                 doc : {m.doc, d}, at : {"sent", "done", "failed"}, rows : {m.rows},
                 ids : {m.ids}, left : {m.left}]
<1>1. d = [version |-> m.doc.version, attributes |-> a, locked |-> m.doc.locked]
  BY TestCaseWith
<1>2. m \in T
  BY DEF BulkShaped
<1>3. n = e
  BY DEF PutOf
<1> HIDE DEF d
<1>4. /\ e \in T /\ e.op = "put" /\ e.case = m.case /\ e.button = m.button
      /\ e.doc = d /\ e.at = "sent" /\ e.rows = m.rows /\ e.ids = m.ids /\ e.left = m.left
  BY ONLY <1>2
<1> HIDE DEF n, e
<1>5. BulkShaped(n)
  BY ONLY <1>3, <1>4 DEF BulkShaped
<1> QED BY <1>1, <1>3, <1>4, <1>5 DEF n

LEMMA BulkReply ==
    ASSUME BulkInv, NEW m \in bulk_net, NEW outcome \in {"done", "failed"},
           NEW d, IsTestCase(d), BulkView!Reply(m, outcome, d),
           m.op \in {"add", "remove"} /\ outcome = "done" => d = bulk_store[m.case]
    PROVE  \A n \in bulk_net' : n \in bulk_net \/ Sound(n)
<1> DEFINE n == ReplyTo(m, outcome, d)
<1>1. Sound(m)
  BY DEF BulkInv
<1>2. /\ BulkShaped(n) /\ n.doc = d /\ n.at = outcome
      /\ n.op = m.op /\ n.case = m.case /\ n.button = m.button
  <2>1. BulkShaped(m)
    BY <1>1 DEF Sound
  <2> QED BY <2>1, Replied
<1> HIDE DEF n
<1>3. m.op \in {"add", "remove"} /\ outcome = "done" => FetchedFromStored(n)
  <2> SUFFICES ASSUME m.op \in {"add", "remove"}, outcome = "done" PROVE FetchedFromStored(n)
    OBVIOUS
  <2>1. n.doc = bulk_store[n.case]
    BY <1>2
  <2>2. bulk_store[n.case].version \in Nat
    BY <1>2, <2>1 DEF IsTestCase
  <2> QED BY <2>1, <2>2 DEF FetchedFromStored
<1>4. Sound(n)
  BY <1>1, <1>2, <1>3 DEF Sound
<1>5. bulk_net' = (bulk_net \ {m}) \cup {n}
  BY DEF BulkView!Reply, ReplyTo, n
<1> QED BY <1>4, <1>5

(* The GET of a button, with the rows of the form. *)
RequestOf(op, t, valid, ids) ==
    [BulkView!Request(op, t, BulkView!NoTestCase) EXCEPT !.rows = valid, !.ids = ids]

LEMMA RequestFields ==
    ASSUME NEW op, NEW t, NEW valid, NEW ids
    PROVE  RequestOf(op, t, valid, ids) =
              [op |-> op, button |-> op, click |-> bulk_clicks, case |-> t,
               doc |-> BulkView!NoTestCase, at |-> "sent", rows |-> valid, ids |-> ids,
               left |-> {}]
<1> DEFINE r == BulkView!Request(op, t, BulkView!NoTestCase)
           T == [op : {op}, button : {op}, click : {bulk_clicks}, case : {t},
                 doc : {BulkView!NoTestCase}, at : {"sent"}, rows : {<<>>, valid},
                 ids : {<<>>, ids}, left : {{}}]
           e == RequestOf(op, t, valid, ids)
<1>1. r \in T
  BY DEF BulkView!Request
<1>2. e = [r EXCEPT !.rows = valid, !.ids = ids]
  BY DEF RequestOf
<1> HIDE DEF r, e
<1>3. e \in T /\ e.rows = valid /\ e.ids = ids
  BY ONLY <1>1, <1>2
<1>4. e = [op |-> e.op, button |-> e.button, click |-> e.click, case |-> e.case,
           doc |-> e.doc, at |-> e.at, rows |-> e.rows, ids |-> e.ids, left |-> e.left]
  BY ONLY <1>3
<1> QED BY <1>3, <1>4 DEF e

LEMMA BulkInit == UIInit => BulkInv
<1> SUFFICES ASSUME UIInit PROVE BulkInv
  OBVIOUS
<1>1. /\ bulk_net = {}
      /\ bulk_store = [t \in Model.bulk.Cases |->
                          [version |-> 1, attributes |-> Model.bulk.Begin[t], locked |-> FALSE]]
  BY DEF UIInit, BulkView!Init
<1> QED BY <1>1 DEF BulkInv, StoreTyped, IsTestCase

LEMMA BulkFetched ==
    ASSUME BulkInv, NEW m \in bulk_net, BulkView!TestCaseFetched(m)
    PROVE  BulkInv'
<1> DEFINE a == BulkView!Changed(m, m.doc.attributes)
           n == PutOf(m, a)
<1>1. Sound(m) /\ m.op \in {"add", "remove"} /\ m.at = "done"
  BY DEF BulkInv, BulkView!TestCaseFetched
<1>2. /\ BulkShaped(n) /\ n.at = "sent" /\ n.op = "put"
      /\ n.case = m.case /\ n.button = m.button
      /\ n.doc = [version |-> m.doc.version, attributes |-> a, locked |-> m.doc.locked]
  BY <1>1, SentBack DEF Sound
<1>3. OnlyBy(m.op, m.doc.attributes, a)
  BY <1>1, ChangedOnlyBy
<1>4. /\ UNCHANGED bulk_store
      /\ bulk_net' = bulk_net \ {m} \/ bulk_net' = (bulk_net \ {m}) \cup {n}
  BY DEF BulkView!TestCaseFetched, PutOf
<1> HIDE DEF a, n
<1>5. IsTestCase(n.doc)
  BY <1>1, <1>2 DEF Sound, IsTestCase
<1>6. ChangedFromStored(n)
  <2>1. m.button = m.op /\ FetchedFromStored(m)
    BY <1>1 DEF Sound
  <2> QED BY <1>2, <1>3, <2>1 DEF FetchedFromStored, ChangedFromStored
<1>7. Sound(n)
  BY <1>1, <1>2, <1>5, <1>6 DEF Sound
<1> QED BY <1>4, <1>7, BulkKept

LEMMA BulkServed ==
    ASSUME BulkInv, NEW m \in bulk_net,
           \/ BulkView!ServeGet(m) \/ BulkView!ServePut(m) \/ BulkView!Lose(m)
           \/ \E t \in Model.bulk.Cases : BulkView!ServeLock(m, t)
    PROVE  BulkInv'
<1>0. Sound(m) /\ StoreTyped
  BY DEF BulkInv
<1>1. CASE BulkView!ServeGet(m)
  <2> DEFINE d == IF m.op = "session" THEN BulkView!NoTestCase ELSE bulk_store[m.case]
  <2>1. IsTestCase(d) /\ (m.op \in {"add", "remove"} => d = bulk_store[m.case])
    <3>1. IsTestCase(BulkView!NoTestCase)
      BY DEF IsTestCase, BulkView!NoTestCase
    <3>2. m.op # "session" => IsTestCase(bulk_store[m.case])
      BY <1>0, <1>1 DEF BulkView!ServeGet, Sound, StoreTyped
    <3> QED BY <3>1, <3>2
  <2>2. BulkView!Reply(m, "done", d) /\ UNCHANGED bulk_store
    BY <1>1 DEF BulkView!ServeGet
  <2> HIDE DEF d
  <2> QED BY <2>1, <2>2, BulkReply, BulkKept
<1>2. CASE BulkView!ServePut(m)
  <2>1. m.op = "put" /\ m.case \in Model.bulk.Cases /\ IsTestCase(m.doc)
    BY <1>0, <1>2 DEF BulkView!ServePut, Sound
  <2>2. CASE BulkView!Accepted(m)
    <3> DEFINE d == [m.doc EXCEPT !.version = bulk_store[m.case].version + 1]
    <3>1. bulk_store' = [bulk_store EXCEPT ![m.case] = d] /\ BulkView!Reply(m, "done", m.doc)
      BY <1>2, <2>2 DEF BulkView!ServePut
    <3>2. bulk_store[m.case].version + 1 \in Nat
      BY <1>0, <2>1 DEF StoreTyped, IsTestCase
    <3>3. d = [version |-> bulk_store[m.case].version + 1, attributes |-> m.doc.attributes,
               locked |-> m.doc.locked]
      BY <2>1, <3>2, TestCaseWith
    <3> HIDE DEF d
    <3>4. IsTestCase(d) /\ d.version = bulk_store[m.case].version + 1
      BY <3>2, <3>3 DEF IsTestCase
    <3>5. \A n \in bulk_net' : n \in bulk_net \/ Sound(n)
      BY <2>1, <3>1, BulkReply
    <3> QED BY <2>1, <3>1, <3>4, <3>5, BulkSaved
  <2>3. CASE ~BulkView!Accepted(m)
    <3>1. UNCHANGED bulk_store /\ BulkView!Reply(m, "failed", m.doc)
      BY <1>2, <2>3 DEF BulkView!ServePut
    <3> QED BY <2>1, <3>1, BulkReply, BulkKept
  <2> QED BY <2>2, <2>3
<1>3. CASE BulkView!Lose(m)
  <2>1. UNCHANGED bulk_store /\ BulkView!Reply(m, "failed", m.doc)
    BY <1>3 DEF BulkView!Lose
  <2>2. IsTestCase(m.doc)
    BY <1>0 DEF Sound
  <2> QED BY <2>1, <2>2, BulkReply, BulkKept
<1>4. ASSUME NEW t \in Model.bulk.Cases, BulkView!ServeLock(m, t) PROVE BulkInv'
  <2> DEFINE locked == m.op = "lock"
             d == [bulk_store[t] EXCEPT !.locked = locked, !.version = @ + 1]
             at == IF m.left = {t} THEN "done" ELSE "sent"
             n == [m EXCEPT !.left = @ \ {t}, !.at = at]
  <2>1. /\ m.op \in {"lock", "unlock"}
        /\ bulk_net' = (bulk_net \ {m}) \cup {n}
    BY <1>4 DEF BulkView!ServeLock
  <2>2. Sound(n)
    <3> DEFINE T == [op : {m.op}, button : {m.button}, click : {m.click}, case : {m.case},
                     doc : {m.doc}, at : {"sent", "done", "failed"}, rows : {m.rows},
                     ids : {m.ids}, left : {m.left, m.left \ {t}}]
    <3>1. m \in T
      BY <1>0 DEF Sound, BulkShaped
    <3>2. n \in T /\ n.doc = m.doc /\ n.op = m.op
      BY ONLY <3>1
    <3> HIDE DEF n
    <3>3. BulkShaped(n)
      BY ONLY <3>2 DEF BulkShaped
    <3> QED BY <1>0, <2>1, <3>2, <3>3 DEF Sound
  <2>3. \A k \in bulk_net' : k \in bulk_net \/ Sound(k)
    BY <2>1, <2>2
  <2>4. CASE bulk_store[t].locked = locked
    <3>1. UNCHANGED bulk_store
      BY <1>4, <2>4 DEF BulkView!ServeLock
    <3> QED BY <2>3, <3>1, BulkKept
  <2>5. CASE bulk_store[t].locked # locked
    <3>1. bulk_store' = [bulk_store EXCEPT ![t] = d]
      BY <1>4, <2>5 DEF BulkView!ServeLock
    <3>2. IsTestCase(bulk_store[t]) /\ bulk_store[t].version + 1 \in Nat
      BY <1>0 DEF StoreTyped, IsTestCase
    <3>3. d = [version |-> bulk_store[t].version + 1, attributes |-> bulk_store[t].attributes,
               locked |-> locked]
      <4>1. PICK c, v, l : c = bulk_store[t] /\ v = bulk_store[t].version + 1 /\ l = locked
        OBVIOUS
      <4>2. d = [c EXCEPT !.locked = l, !.version = v]
        BY <4>1
      <4> HIDE DEF d, locked
      <4>3. IsTestCase(c) /\ v \in Nat
        BY <3>2, <4>1
      <4>4. [c EXCEPT !.locked = l, !.version = v]
               = [version |-> v, attributes |-> c.attributes, locked |-> l]
        BY ONLY <4>3, TestCaseWith
      <4> QED BY ONLY <4>1, <4>2, <4>4
    <3> HIDE DEF d, locked
    <3>4. IsTestCase(d) /\ d.version = bulk_store[t].version + 1
      BY <3>2, <3>3 DEF IsTestCase
    <3> QED BY <2>3, <3>1, <3>4, BulkSaved
  <2> QED BY <2>4, <2>5
<1> QED BY <1>1, <1>2, <1>3, <1>4

LEMMA BulkStep == BulkInv /\ [UINext]_uiVars => BulkInv'
<1> SUFFICES ASSUME BulkInv, BulkView!Next PROVE BulkInv'
  <2>1. UNCHANGED BulkView!vars /\ BulkInv => BulkInv'
    BY BulkKept DEF BulkView!vars
  <2>2. [UINext]_uiVars => BulkView!Next \/ UNCHANGED BulkView!vars
    BY DEF UINext, OthersIdle, uiVars, BulkView!Idle
  <2> QED BY <2>1, <2>2
<1>1. CASE \E k \in Model.bulk.Keys, v \in SUBSET Model.bulk.Values :
              BulkView!Mount(k, v) \/ BulkView!MountWithSuite(k, v)
  <2>1. /\ UNCHANGED bulk_store
        /\ \/ UNCHANGED bulk_net
           \/ bulk_net' = {BulkView!Request("session", Model.bulk.None, BulkView!NoTestCase)}
    BY <1>1 DEF BulkView!Mount, BulkView!MountWithSuite
  <2>2. Sound(BulkView!Request("session", Model.bulk.None, BulkView!NoTestCase))
    BY RequestSound
  <2> QED BY <2>1, <2>2, BulkKept
<1>2. ASSUME NEW op \in {"add", "remove"}, BulkView!HandleBulk(op) PROVE BulkInv'
  <2> DEFINE valid == BulkView!Valid
             ids == [i \in DOMAIN valid |-> bulk_rows[valid[i]].id]
             request(t) == RequestOf(op, t, valid, ids)
  <2>1. /\ UNCHANGED bulk_store
        /\ \/ UNCHANGED bulk_net
           \/ bulk_net' = bulk_net \cup {request(t) : t \in BulkView!Checked}
    BY <1>2 DEF BulkView!HandleBulk, BulkView!UserKeeps, RequestOf
  <2> HIDE DEF valid, ids
  <2>2. ASSUME NEW t \in BulkView!Checked PROVE Sound(request(t))
    <3>1. t \in Model.bulk.Cases
      BY DEF BulkView!Checked
    <3>2. IsTestCase(BulkView!NoTestCase)
      BY DEF IsTestCase, BulkView!NoTestCase
    <3>3. request(t) = [op |-> op, button |-> op, click |-> bulk_clicks, case |-> t,
                        doc |-> BulkView!NoTestCase, at |-> "sent", rows |-> valid, ids |-> ids,
                        left |-> {}]
      BY RequestFields
    <3> HIDE DEF request
    <3> QED BY <3>1, <3>2, <3>3 DEF Sound, BulkShaped
  <2> HIDE DEF request
  <2> QED BY <2>1, <2>2, BulkKept
<1>3. ASSUME NEW op \in {"lock", "unlock"}, BulkView!HandleLockAllTestCases(op) PROVE BulkInv'
  <2> DEFINE request == [BulkView!Request(op, Model.bulk.None, BulkView!NoTestCase)
                            EXCEPT !.left = Model.bulk.Cases]
  <2>1. UNCHANGED bulk_store /\ bulk_net' = bulk_net \cup {request}
    BY <1>3 DEF BulkView!HandleLockAllTestCases, BulkView!UserKeeps
  <2>2. Sound(request)
    <3>1. IsTestCase(BulkView!NoTestCase)
      BY DEF IsTestCase, BulkView!NoTestCase
    <3>2. request = [op |-> op, button |-> op, click |-> bulk_clicks, case |-> Model.bulk.None,
                     doc |-> BulkView!NoTestCase, at |-> "sent", rows |-> <<>>, ids |-> <<>>,
                     left |-> Model.bulk.Cases]
      BY DEF BulkView!Request
    <3> HIDE DEF request
    <3> QED BY <3>1, <3>2 DEF Sound, BulkShaped
  <2> HIDE DEF request
  <2> QED BY <2>1, <2>2, BulkKept
<1>4. CASE \/ \E i \in DOMAIN bulk_form :
                 \/ \E k \in Model.bulk.Keys \cup {"broken"} : BulkView!ChangeFilterAttributeId(i, k)
                 \/ \E v \in SUBSET Model.bulk.Values : BulkView!ChangeFilterAttributeValues(i, v)
                 \/ BulkView!RemoveFilter(i)
           \/ \E t \in Model.bulk.Cases : BulkView!ProcessElementChecked(t)
  <2>1. UNCHANGED <<bulk_store, bulk_net>>
    BY <1>4 DEF BulkView!ChangeFilterAttributeId, BulkView!ChangeFilterAttributeValues,
       BulkView!RemoveFilter, BulkView!ProcessElementChecked, BulkView!UserKeeps
  <2> QED BY <2>1, BulkKept
<1>5. ASSUME NEW m \in bulk_net,
             BulkView!SessionAnswered(m) \/ BulkView!Answered(m) \/ BulkView!Failed(m)
      PROVE  BulkInv'
  <2>1. UNCHANGED bulk_store /\ bulk_net' \subseteq bulk_net
    BY <1>5 DEF BulkView!SessionAnswered, BulkView!Answered, BulkView!Failed
  <2> QED BY <2>1, BulkKept
<1>6. ASSUME NEW t \in Model.bulk.Cases, NEW k \in Model.bulk.Keys,
             NEW v \in SUBSET Model.bulk.Values, BulkView!SaveElsewhere(t, k, v)
      PROVE  BulkInv'
  <2> DEFINE a == [x \in DOMAIN bulk_store[t].attributes \cup {k} |->
                      IF x = k THEN v ELSE bulk_store[t].attributes[x]]
             d == [bulk_store[t] EXCEPT !.version = @ + 1, !.attributes = a]
  <2>1. bulk_store' = [bulk_store EXCEPT ![t] = d] /\ UNCHANGED bulk_net
    BY <1>6 DEF BulkView!SaveElsewhere
  <2>2. IsTestCase(bulk_store[t]) /\ bulk_store[t].version + 1 \in Nat
    BY DEF BulkInv, StoreTyped, IsTestCase
  <2>3. d = [version |-> bulk_store[t].version + 1, attributes |-> a,
             locked |-> bulk_store[t].locked]
    <3>1. d = [bulk_store[t] EXCEPT !.version = bulk_store[t].version + 1, !.attributes = a]
      OBVIOUS
    <3> HIDE DEF d, a
    <3> QED BY <2>2, <3>1, TestCaseWith
  <2> HIDE DEF d, a
  <2>4. IsTestCase(d) /\ d.version = bulk_store[t].version + 1
    BY <2>2, <2>3 DEF IsTestCase
  <2> QED BY <2>1, <2>4, BulkSaved
<1> QED BY <1>1, <1>2, <1>3, <1>4, <1>5, <1>6, BulkServed, BulkFetched
        DEF BulkView!Next, BulkView!User

(* A bulk change of attributes, which sends whole test cases, takes nothing *)
(* back of what was saved meanwhile by others or by another button.         *)
THEOREM BulkTakesNothingBack == UISpec => BulkKeepsTheRest
<1>1. BulkInv /\ [UINext]_uiVars =>
         [\A m \in bulk_net :
             m.op = "put" /\ m.at = "sent" /\ m \notin bulk_net' /\ bulk_store' # bulk_store =>
                LET old == bulk_store[m.case]
                    new == bulk_store'[m.case]
                    grown == \A k \in DOMAIN old.attributes :
                                k \in DOMAIN new.attributes /\ old.attributes[k] \subseteq new.attributes[k]
                    shrunk == \A k \in DOMAIN new.attributes :
                                k \in DOMAIN old.attributes /\ new.attributes[k] \subseteq old.attributes[k]
                IN new.locked = old.locked
                   /\ (IF m.button = "add" THEN grown ELSE shrunk)]_(BulkView!vars)
  <2> SUFFICES ASSUME BulkInv, BulkView!Next, NEW m \in bulk_net, m.op = "put", m.at = "sent",
                      m \notin bulk_net', bulk_store' # bulk_store
               PROVE  /\ bulk_store'[m.case].locked = bulk_store[m.case].locked
                      /\ OnlyBy(m.button, bulk_store[m.case].attributes,
                                bulk_store'[m.case].attributes)
    <3>1. [UINext]_uiVars => BulkView!Next \/ UNCHANGED BulkView!vars
      BY DEF UINext, OthersIdle, uiVars, BulkView!Idle
    <3> QED BY <3>1 DEF OnlyBy
  <2>1. BulkView!ServePut(m)
    <3>1. ASSUME NEW n \in bulk_net, NEW t \in Model.bulk.Cases, BulkView!ServeLock(n, t)
          PROVE  m \in bulk_net'
      BY <3>1 DEF BulkView!ServeLock
    <3>2. ASSUME NEW t \in Model.bulk.Cases, NEW k \in Model.bulk.Keys,
                 NEW v \in SUBSET Model.bulk.Values, BulkView!SaveElsewhere(t, k, v)
          PROVE  m \in bulk_net'
      BY <3>2 DEF BulkView!SaveElsewhere
    <3>3. ASSUME NEW n \in bulk_net, BulkView!ServePut(n) PROVE n = m
      BY <3>3 DEF BulkView!ServePut, BulkView!Reply
    <3>4. ASSUME BulkView!User PROVE UNCHANGED bulk_store
      BY <3>4 DEF BulkView!User, BulkView!ChangeFilterAttributeId,
         BulkView!ChangeFilterAttributeValues, BulkView!RemoveFilter,
         BulkView!ProcessElementChecked, BulkView!HandleBulk,
         BulkView!HandleLockAllTestCases, BulkView!UserKeeps
    <3>5. ASSUME NEW n \in bulk_net,
                 \/ BulkView!ServeGet(n) \/ BulkView!Lose(n) \/ BulkView!SessionAnswered(n)
                 \/ BulkView!TestCaseFetched(n) \/ BulkView!Answered(n) \/ BulkView!Failed(n)
          PROVE  UNCHANGED bulk_store
      BY <3>5 DEF BulkView!ServeGet, BulkView!Lose, BulkView!SessionAnswered,
         BulkView!TestCaseFetched, BulkView!Answered, BulkView!Failed
    <3>6. ASSUME NEW k \in Model.bulk.Keys, NEW v \in SUBSET Model.bulk.Values,
                 BulkView!Mount(k, v) \/ BulkView!MountWithSuite(k, v)
          PROVE  UNCHANGED bulk_store
      BY <3>6 DEF BulkView!Mount, BulkView!MountWithSuite
    <3> QED BY <3>1, <3>2, <3>3, <3>4, <3>5, <3>6 DEF BulkView!Next
  <2>2. Sound(m) /\ StoreTyped /\ m.case \in Model.bulk.Cases /\ BulkView!Accepted(m)
    BY <2>1 DEF BulkInv, Sound, BulkView!ServePut
  <2>3. /\ m.doc.locked = bulk_store[m.case].locked
        /\ OnlyBy(m.button, bulk_store[m.case].attributes, m.doc.attributes)
    BY <2>2 DEF Sound, ChangedFromStored, BulkView!Accepted
  <2>4. /\ bulk_store'[m.case].locked = m.doc.locked
        /\ bulk_store'[m.case].attributes = m.doc.attributes
    <3>1. bulk_store'[m.case] = [m.doc EXCEPT !.version = bulk_store[m.case].version + 1]
      BY <2>1, <2>2 DEF BulkView!ServePut, StoreTyped
    <3>2. IsTestCase(m.doc) /\ bulk_store[m.case].version + 1 \in Nat
      BY <2>2 DEF Sound, StoreTyped, IsTestCase
    <3>3. [m.doc EXCEPT !.version = bulk_store[m.case].version + 1] =
             [version |-> bulk_store[m.case].version + 1, attributes |-> m.doc.attributes,
              locked |-> m.doc.locked]
      BY <3>2, TestCaseWith
    <3> QED BY <3>1, <3>3
  <2> QED BY <2>3, <2>4
<1> QED BY <1>1, BulkInit, BulkStep, PTL DEF UISpec, BulkKeepsTheRest, BulkView!BulkKeepsTheRest

-----------------------------------------------------------------------------
(* What a bulk change promises *)

(* Different numbers up to n, in some order. *)
Different(s, n) ==
    /\ s \in Seq(Nat)
    /\ \A i \in 1 .. Len(s) : s[i] \in 1 .. n
    /\ \A i, j \in 1 .. Len(s) : s[i] = s[j] => i = j

LEMMA DifferentAppended ==
    ASSUME NEW n \in Nat, NEW s, Different(s, n)
    PROVE  Different(Append(s, n + 1), n + 1)
<1> DEFINE l == Len(s)
           a == Append(s, n + 1)
<1>1. s \in Seq(Nat) /\ l \in Nat /\ n + 1 \in Nat
  BY DEF Different
<1>2. /\ a \in Seq(Nat) /\ Len(a) = l + 1
      /\ \A i \in 1 .. l : a[i] = s[i]
      /\ a[l + 1] = n + 1
  BY <1>1
<1>3. /\ \A i \in 1 .. l : s[i] \in 1 .. n
      /\ \A i, j \in 1 .. l : s[i] = s[j] => i = j
  BY DEF Different
<1> HIDE DEF a, l
<1>4. \A i \in 1 .. l + 1 : i \in 1 .. l \/ i = l + 1
  BY ONLY <1>1
<1>5. \A i \in 1 .. l + 1 : a[i] \in 1 .. n + 1
  <2> TAKE i \in 1 .. l + 1
  <2>1. CASE i \in 1 .. l
    <3>1. a[i] \in 1 .. n
      BY ONLY <1>2, <1>3, <2>1
    <3> QED BY ONLY <3>1, n \in Nat
  <2>2. CASE i = l + 1
    <3>1. a[i] = n + 1
      BY ONLY <2>2, <1>2
    <3>2. n + 1 \in 1 .. n + 1
      BY ONLY n \in Nat
    <3> QED BY ONLY <3>1, <3>2
  <2> QED BY ONLY <1>4, <2>1, <2>2, i \in 1 .. l + 1
<1>6. \A i \in 1 .. l : a[i] # a[l + 1]
  BY ONLY <1>2, <1>3, n \in Nat
<1>7. \A i, j \in 1 .. l + 1 : a[i] = a[j] => i = j
  BY ONLY <1>2, <1>3, <1>4, <1>6
<1> QED BY <1>2, <1>5, <1>7 DEF Different, a

LEMMA DifferentWithout ==
    ASSUME NEW n \in Nat, NEW s, Different(s, n), NEW i \in 1 .. Len(s)
    PROVE  Different(SubSeq(s, 1, i - 1) \o SubSeq(s, i + 1, Len(s)), n)
<1> DEFINE l == Len(s)
           a == SubSeq(s, 1, i - 1)
           b == SubSeq(s, i + 1, l)
           c == a \o b
<1>1. s \in Seq(Nat) /\ l \in Nat /\ i \in 1 .. l
  BY DEF Different
<1>2. /\ \A j \in 1 .. l : s[j] \in 1 .. n
      /\ \A j, k \in 1 .. l : s[j] = s[k] => j = k
  BY DEF Different
<1> HIDE DEF l
<1>3. a \in Seq(Nat) /\ Len(a) = i - 1 /\ \A j \in 1 .. i - 1 : a[j] = s[j]
  BY ONLY <1>1, <1>2, n \in Nat
<1>4. b \in Seq(Nat) /\ Len(b) = l - i /\ \A j \in 1 .. l - i : b[j] = s[i + j]
  BY ONLY <1>1, <1>2, n \in Nat
<1> HIDE DEF a, b
<1>5. c \in Seq(Nat) /\ Len(c) = l - 1
  <2>1. c \in Seq(Nat) /\ Len(c) = Len(a) + Len(b)
    BY ONLY <1>3, <1>4, ConcatProperties
  <2>2. i - 1 + (l - i) = l - 1
    BY ONLY <1>1
  <2> QED BY ONLY <1>3, <1>4, <2>1, <2>2
<1>6. \A j \in 1 .. i - 1 : c[j] = s[j]
  <2> TAKE j \in 1 .. i - 1
  <2>1. j \in 1 .. (i - 1) + (l - i) /\ j <= i - 1
    BY ONLY <1>1
  <2>2. \A k \in 1 .. Len(a) + Len(b) :
           c[k] = IF k <= Len(a) THEN a[k] ELSE b[k - Len(a)]
    BY ONLY <1>3, <1>4, ConcatProperties
  <2>3. c[j] = a[j]
    BY ONLY <1>3, <1>4, <2>1, <2>2
  <2> QED BY ONLY <1>3, <2>3
<1>7. \A j \in i .. l - 1 : c[j] = s[j + 1]
  <2> TAKE j \in i .. l - 1
  <2>1. /\ j \in 1 .. (i - 1) + (l - i) /\ ~ (j <= i - 1)
        /\ j - (i - 1) \in 1 .. l - i /\ i + (j - (i - 1)) = j + 1
    BY ONLY <1>1
  <2>2. \A k \in 1 .. Len(a) + Len(b) :
           c[k] = IF k <= Len(a) THEN a[k] ELSE b[k - Len(a)]
    BY ONLY <1>3, <1>4, ConcatProperties
  <2>3. c[j] = b[j - (i - 1)]
    BY ONLY <1>3, <1>4, <2>1, <2>2
  <2> QED BY ONLY <1>4, <2>1, <2>3
<1> HIDE DEF c
<1>8. \A j \in 1 .. l - 1 : c[j] \in 1 .. n
  BY ONLY <1>1, <1>2, <1>6, <1>7
<1>9. \A j, k \in 1 .. l - 1 : c[j] = c[k] => j = k
  BY ONLY <1>1, <1>2, <1>6, <1>7
<1> QED BY <1>5, <1>8, <1>9 DEF Different, a, b, c, l

(* The rows of the form are different ones of those there have been. *)
FormInv ==
    /\ bulk_rows \in Seq(BulkView!Row)
    /\ Different(bulk_form, Len(bulk_rows))
    /\ ~bulk_mounted => Len(bulk_rows) = 1 /\ bulk_form = <<1>>

LEMMA FormInit == UIInit => FormInv
<1> SUFFICES ASSUME UIInit PROVE FormInv
  OBVIOUS
<1>1. /\ bulk_rows = <<[id |-> Model.bulk.Undefined, values |-> {}]>>
      /\ bulk_form = <<1>>
  BY DEF UIInit, BulkView!Init
<1>2. [id |-> Model.bulk.Undefined, values |-> {}] \in BulkView!Row
  BY DEF BulkView!Row, BulkView!RowIds
<1> QED BY <1>1, <1>2 DEF FormInv, Different

LEMMA RowEdited ==
    ASSUME FormInv, NEW e \in 1 .. Len(bulk_rows),
           NEW id \in Model.bulk.Keys \cup {"broken"}, NEW v \in SUBSET Model.bulk.Values
    PROVE  /\ BulkView!EditRow(e, id, v) \in Seq(BulkView!Row)
           /\ Len(BulkView!EditRow(e, id, v)) = Len(bulk_rows)
<1>1. [id |-> id, values |-> v] \in BulkView!Row
  BY DEF BulkView!Row, BulkView!RowIds
<1> QED BY <1>1 DEF FormInv, BulkView!EditRow

LEMMA FormEvents ==
    ASSUME FormInv, NEW i \in DOMAIN bulk_form,
           \/ \E k \in Model.bulk.Keys \cup {"broken"} : BulkView!ChangeFilterAttributeId(i, k)
           \/ \E v \in SUBSET Model.bulk.Values : BulkView!ChangeFilterAttributeValues(i, v)
           \/ BulkView!RemoveFilter(i)
    PROVE  FormInv'
<1>0. /\ bulk_mounted /\ bulk_mounted'
      /\ i \in 1 .. Len(bulk_form) /\ bulk_form[i] \in 1 .. Len(bulk_rows)
      /\ Len(bulk_rows) \in Nat
  BY DEF FormInv, Different, BulkView!ChangeFilterAttributeId, BulkView!RemoveFilter,
     BulkView!ChangeFilterAttributeValues, BulkView!Event, BulkView!UserKeeps
<1>1. ASSUME NEW k \in Model.bulk.Keys \cup {"broken"}, BulkView!ChangeFilterAttributeId(i, k)
      PROVE  FormInv'
  <2> DEFINE e == bulk_form[i]
             v == IF bulk_rows[e].id = k THEN bulk_rows[e].values ELSE {}
             changed == BulkView!EditRow(e, k, v)
             row == [id |-> Model.bulk.Null, values |-> {}]
  <2>1. \/ bulk_rows' = changed /\ bulk_form' = bulk_form
        \/ /\ bulk_rows' = Append(changed, row)
           /\ bulk_form' = Append(bulk_form, Len(bulk_rows) + 1)
    BY <1>1 DEF BulkView!ChangeFilterAttributeId
  <2>2. v \in SUBSET Model.bulk.Values
    <3>1. bulk_rows[e] \in BulkView!Row
      BY <1>0 DEF FormInv
    <3>2. bulk_rows[e].values \in SUBSET Model.bulk.Values
      BY ONLY <3>1 DEF BulkView!Row
    <3> QED BY <3>2
  <2> HIDE DEF v
  <2>3. changed \in Seq(BulkView!Row) /\ Len(changed) = Len(bulk_rows)
    BY <1>0, <2>2, RowEdited
  <2>4. row \in BulkView!Row
    BY DEF BulkView!Row, BulkView!RowIds
  <2> HIDE DEF changed, row
  <2>5. bulk_rows' = changed /\ bulk_form' = bulk_form => FormInv'
    BY <1>0, <2>3 DEF FormInv
  <2>6. ASSUME bulk_rows' = Append(changed, row),
               bulk_form' = Append(bulk_form, Len(bulk_rows) + 1)
        PROVE  FormInv'
    <3>1. bulk_rows' \in Seq(BulkView!Row) /\ Len(bulk_rows') = Len(bulk_rows) + 1
      BY <2>3, <2>4, <2>6
    <3>2. Different(bulk_form', Len(bulk_rows) + 1)
      BY <1>0, <2>6, DifferentAppended DEF FormInv
    <3> QED BY <1>0, <3>1, <3>2 DEF FormInv
  <2> QED BY <2>1, <2>5, <2>6
<1>2. ASSUME NEW v \in SUBSET Model.bulk.Values, BulkView!ChangeFilterAttributeValues(i, v)
      PROVE  FormInv'
  <2> DEFINE e == bulk_form[i]
             changed == BulkView!EditRow(e, bulk_rows[e].id, v)
  <2>1. bulk_rows' = changed /\ bulk_form' = bulk_form /\ bulk_rows[e].id \in Model.bulk.Keys
    BY <1>2 DEF BulkView!ChangeFilterAttributeValues
  <2>2. changed \in Seq(BulkView!Row) /\ Len(changed) = Len(bulk_rows)
    BY <1>0, <2>1, RowEdited
  <2> HIDE DEF changed
  <2> QED BY <1>0, <2>1, <2>2 DEF FormInv
<1>3. CASE BulkView!RemoveFilter(i)
  <2>1. bulk_form' = SubSeq(bulk_form, 1, i - 1) \o SubSeq(bulk_form, i + 1, Len(bulk_form))
        /\ bulk_rows' = bulk_rows
    BY <1>3 DEF BulkView!RemoveFilter, BulkView!RemoveAt
  <2>2. Different(bulk_form', Len(bulk_rows))
    BY <1>0, <2>1, DifferentWithout DEF FormInv
  <2> QED BY <1>0, <2>1, <2>2 DEF FormInv
<1> QED BY <1>1, <1>2, <1>3

LEMMA FormStep == FormInv /\ [UINext]_uiVars => FormInv'
<1> SUFFICES ASSUME FormInv, BulkView!Next PROVE FormInv'
  <2>1. UNCHANGED BulkView!vars /\ FormInv => FormInv'
    BY DEF BulkView!vars, BulkView!page, FormInv
  <2>2. [UINext]_uiVars => BulkView!Next \/ UNCHANGED BulkView!vars
    BY DEF UINext, OthersIdle, uiVars, BulkView!Idle
  <2> QED BY <2>1, <2>2
<1>1. ASSUME NEW k \in Model.bulk.Keys, NEW v \in SUBSET Model.bulk.Values,
             BulkView!Mount(k, v) \/ BulkView!MountWithSuite(k, v)
      PROVE  FormInv'
  <2> DEFINE row == [id |-> k, values |-> v]
  <2>1. /\ Len(bulk_rows) = 1 /\ bulk_form = <<1>> /\ bulk_mounted'
        /\ \/ UNCHANGED <<bulk_rows, bulk_form>>
           \/ bulk_rows' = Append(bulk_rows, row) /\ bulk_form' = <<2, 1>>
           \/ bulk_rows' = <<row>> /\ UNCHANGED bulk_form
    BY <1>1 DEF BulkView!Mount, BulkView!MountWithSuite, FormInv
  <2>2. row \in BulkView!Row
    BY DEF BulkView!Row, BulkView!RowIds
  <2> HIDE DEF row
  <2>3. UNCHANGED <<bulk_rows, bulk_form>> => FormInv'
    BY <2>1 DEF FormInv
  <2>4. ASSUME bulk_rows' = Append(bulk_rows, row), bulk_form' = <<2, 1>> PROVE FormInv'
    <3>1. bulk_rows' \in Seq(BulkView!Row) /\ Len(bulk_rows') = 2
      <4>1. bulk_rows \in Seq(BulkView!Row) /\ Len(bulk_rows) = 1
        BY <2>1 DEF FormInv
      <4>2. bulk_rows' = Append(bulk_rows, row)
        BY <2>4
      <4>3. bulk_rows' \in Seq(BulkView!Row) /\ Len(bulk_rows') = Len(bulk_rows) + 1
        BY <2>2, <4>1, <4>2, AppendProperties
      <4> QED BY ONLY <4>1, <4>3
    <3>2. Different(<<2, 1>>, 2)
      BY DEF Different
    <3> QED BY <2>1, <2>4, <3>1, <3>2 DEF FormInv
  <2>5. ASSUME bulk_rows' = <<row>>, UNCHANGED bulk_form PROVE FormInv'
    <3>1. bulk_rows' \in Seq(BulkView!Row) /\ Len(bulk_rows') = 1
      BY <2>2, <2>5
    <3> QED BY <2>1, <2>5, <3>1 DEF FormInv
  <2> QED BY <2>1, <2>3, <2>4, <2>5
<1>2. ASSUME UNCHANGED <<bulk_rows, bulk_form, bulk_mounted>> PROVE FormInv'
  BY <1>2 DEF FormInv
<1>3. CASE \/ \E t \in Model.bulk.Cases : BulkView!ProcessElementChecked(t)
           \/ \E op \in {"add", "remove"} : BulkView!HandleBulk(op)
           \/ \E op \in {"lock", "unlock"} : BulkView!HandleLockAllTestCases(op)
           \/ \E t \in Model.bulk.Cases, k \in Model.bulk.Keys, v \in SUBSET Model.bulk.Values :
                 BulkView!SaveElsewhere(t, k, v)
  BY <1>2, <1>3 DEF BulkView!ProcessElementChecked, BulkView!HandleBulk, BulkView!UserKeeps,
     BulkView!HandleLockAllTestCases, BulkView!SaveElsewhere, BulkView!page
<1>4. ASSUME NEW m \in bulk_net,
             \/ BulkView!ServeGet(m) \/ BulkView!ServePut(m) \/ BulkView!Lose(m)
             \/ \E t \in Model.bulk.Cases : BulkView!ServeLock(m, t)
             \/ BulkView!SessionAnswered(m) \/ BulkView!TestCaseFetched(m)
             \/ BulkView!Answered(m) \/ BulkView!Failed(m)
      PROVE  FormInv'
  BY <1>2, <1>4 DEF BulkView!ServeGet, BulkView!ServePut, BulkView!Lose, BulkView!ServeLock,
     BulkView!SessionAnswered, BulkView!TestCaseFetched, BulkView!Answered, BulkView!Failed,
     BulkView!Outside, BulkView!page
<1> QED BY <1>1, <1>3, <1>4, FormEvents DEF BulkView!Next, BulkView!User

(* What a has of the attribute k. *)
ValuesIn(a, k) == IF k \in DOMAIN a THEN a[k] ELSE {}

(* To a has been done what the last button promised. *)
DoneTo(a) ==
    \A k \in DOMAIN bulk_pledge.values :
       IF bulk_pledge.op = "add" THEN bulk_pledge.values[k] \subseteq ValuesIn(a, k)
       ELSE bulk_pledge.values[k] \cap ValuesIn(a, k) = {}

(* Each attribute of the promise has one row in m, which says what it said. *)
RowsPledged(m) ==
    \A k \in DOMAIN bulk_pledge.values :
       /\ k # Model.bulk.Undefined /\ k \in BulkView!Range(m.ids)
       /\ \E i \in DOMAIN m.rows :
             /\ i \in Int /\ BulkView!RowsOf(m, k) = {i}
             /\ bulk_rows[m.rows[i]].values = bulk_pledge.values[k]

(* What m has fetched is what is stored, in the attributes of the promise. *)
PledgedAsStored(m) ==
    \A k \in DOMAIN bulk_pledge.values :
       ValuesIn(m.doc.attributes, k) = ValuesIn(bulk_store[m.case].attributes, k)

OnItsWay(m) ==
    /\ m.op \in {"add", "remove", "put"} /\ m.button = bulk_pledge.op
    /\ m.op # "put" => RowsPledged(m)
    /\ m.op # "put" /\ m.at = "done" => PledgedAsStored(m)
    /\ m.op = "put" /\ m.at = "sent" => DoneTo(m.doc.attributes)

Saved(m) == m.op = "put" /\ m.at = "done"

(* One message per test case does what was promised, and until it has been  *)
(* done to all of them a message has still to do it or to fail, or the user *)
(* has been told.                                                           *)
PledgeInv ==
    bulk_pledge # Model.bulk.None =>
       /\ bulk_mounted
       /\ bulk_pledge.cases \subseteq Model.bulk.Cases
       /\ \A m \in bulk_net : OnItsWay(m)
       /\ \A m, n \in bulk_net : m.case = n.case => m = n
       /\ \A t \in bulk_pledge.cases :
             \/ bulk_message = "failed"
             \/ DoneTo(bulk_store[t].attributes)
             \/ \E m \in bulk_net : m.case = t /\ ~Saved(m)

(* Doing the rows of a message to a test case does what was promised. *)
LEMMA ChangeDoes ==
    ASSUME NEW m, RowsPledged(m), NEW a, m.op \in {"add", "remove"}, m.op = bulk_pledge.op
    PROVE  DoneTo(BulkView!Changed(m, a))
<1> SUFFICES ASSUME NEW k \in DOMAIN bulk_pledge.values
             PROVE  LET v == ValuesIn(BulkView!Changed(m, a), k) IN
                    IF m.op = "add" THEN bulk_pledge.values[k] \subseteq v
                    ELSE bulk_pledge.values[k] \cap v = {}
  BY DEF DoneTo
<1>1. PICK i \in DOMAIN m.rows :
         /\ k # Model.bulk.Undefined
         /\ i \in Int /\ BulkView!RowsOf(m, k) = {i}
         /\ bulk_rows[m.rows[i]].values = bulk_pledge.values[k]
  BY DEF RowsPledged
<1>2. BulkView!LastValues(m, k) = bulk_pledge.values[k]
  <2>1. BulkView!Max({i}) = i
    BY <1>1 DEF BulkView!Max
  <2> QED BY <1>1, <2>1 DEF BulkView!LastValues
<1>3. CASE m.op = "add"
  <2> DEFINE b == BulkView!Added(m, a)
  <2>1. k \in DOMAIN b /\ bulk_pledge.values[k] \subseteq b[k]
    <3>1. CASE DOMAIN a = {}
      <4>1. k \in {bulk_rows[e].id : e \in BulkView!Range(m.rows)}
        BY <1>1 DEF BulkView!RowsOf, BulkView!Range
      <4>2. b = [x \in {bulk_rows[e].id : e \in BulkView!Range(m.rows)} |-> BulkView!LastValues(m, x)]
        BY <3>1 DEF BulkView!Added
      <4> QED BY <1>2, <4>1, <4>2
    <3>2. CASE DOMAIN a # {}
      <4>1. k \in DOMAIN a \cup BulkView!Missing(m, a)
        BY DEF RowsPledged, BulkView!Missing
      <4>2. BulkView!Matching(m, k) # {}
        BY <1>1 DEF BulkView!Matching
      <4> QED BY <1>2, <3>2, <4>1, <4>2 DEF BulkView!Added
    <3> QED BY <3>1, <3>2
  <2> QED BY <1>3, <2>1 DEF ValuesIn, BulkView!Changed
<1>4. CASE m.op = "remove"
  <2>1. BulkView!Matching(m, k) # {}
    BY <1>1 DEF BulkView!Matching
  <2>2. ASSUME k \in DOMAIN BulkView!Removed(m, a)
        PROVE  BulkView!Removed(m, a)[k] = a[k] \ bulk_pledge.values[k]
    BY <1>2, <2>1, <2>2 DEF BulkView!Removed
  <2> QED BY <1>4, <2>2 DEF ValuesIn, BulkView!Changed
<1> QED BY <1>3, <1>4

(* A message that gives way to the next of its test case, or to none. *)
LEMMA PledgeKept ==
    ASSUME BulkInv, PledgeInv, bulk_pledge # Model.bulk.None,
           UNCHANGED <<bulk_pledge, bulk_mounted, bulk_rows>>,
           NEW m \in bulk_net, NEW next,
           bulk_net' = (bulk_net \ {m}) \cup next,
           \A n \in next : n.case = m.case /\ OnItsWay(n)',
           \A n, p \in next : n = p,
           \A t \in Model.bulk.Cases : t # m.case => bulk_store'[t] = bulk_store[t],
           bulk_message' \in {bulk_message, "failed"},
           m.case \in bulk_pledge.cases =>
              \/ bulk_message' = "failed"
              \/ DoneTo(bulk_store'[m.case].attributes)
              \/ \E n \in next : ~Saved(n)
    PROVE  PledgeInv'
<1>1. ASSUME NEW n \in bulk_net, n # m
      PROVE  OnItsWay(n)' /\ n.case # m.case
  <2>1. n.case # m.case /\ OnItsWay(n)
    BY <1>1 DEF PledgeInv
  <2>2. n.case \in Model.bulk.Cases
    BY <2>1 DEF OnItsWay, BulkInv, Sound
  <2>3. bulk_store'[n.case] = bulk_store[n.case]
    BY <2>1, <2>2
  <2>4. RowsPledged(n) => RowsPledged(n)'
    BY DEF RowsPledged, BulkView!RowsOf
  <2>5. PledgedAsStored(n) => PledgedAsStored(n)'
    BY <2>3 DEF PledgedAsStored
  <2>6. DoneTo(n.doc.attributes) => DoneTo(n.doc.attributes)'
    BY DEF DoneTo
  <2> QED BY <2>1, <2>4, <2>5, <2>6 DEF OnItsWay
<1>2. \A n \in bulk_net' : OnItsWay(n)'
  BY <1>1
<1>3. \A n, p \in bulk_net' : n.case = p.case => n = p
  BY <1>1 DEF PledgeInv
<1>4. ASSUME NEW t \in bulk_pledge.cases
      PROVE  \/ bulk_message' = "failed"
             \/ DoneTo(bulk_store'[t].attributes)
             \/ \E n \in bulk_net' : n.case = t /\ ~Saved(n)
  <2>1. CASE t = m.case
    BY <2>1
  <2>2. CASE t # m.case
    <3>1. bulk_store'[t] = bulk_store[t]
      BY <2>2 DEF PledgeInv
    <3>2. \/ bulk_message = "failed"
          \/ DoneTo(bulk_store[t].attributes)
          \/ \E n \in bulk_net : n.case = t /\ ~Saved(n)
      BY DEF PledgeInv
    <3> QED BY <2>2, <3>1, <3>2
  <2> QED BY <2>1, <2>2
<1>5. \A a : DoneTo(a) => DoneTo(a)'
  BY DEF DoneTo
<1> QED BY <1>2, <1>3, <1>4, <1>5 DEF PledgeInv

LEMMA PledgeGoesOn ==
    ASSUME BulkInv, PledgeInv, bulk_pledge # Model.bulk.None,
           UNCHANGED <<bulk_pledge, bulk_mounted, bulk_rows, bulk_message>>,
           NEW m \in bulk_net, NEW n,
           bulk_net' = (bulk_net \ {m}) \cup {n}, n.case = m.case, OnItsWay(n)',
           \A t \in Model.bulk.Cases : t # m.case => bulk_store'[t] = bulk_store[t],
           ~Saved(n) \/ DoneTo(bulk_store'[m.case].attributes)
    PROVE  PledgeInv'
<1> DEFINE next == {n}
<1>1. bulk_net' = (bulk_net \ {m}) \cup next
  OBVIOUS
<1>2. \A p \in next : p.case = m.case /\ OnItsWay(p)'
  OBVIOUS
<1>3. \A p, q \in next : p = q
  OBVIOUS
<1>4. (\E p \in next : ~Saved(p)) \/ DoneTo(bulk_store'[m.case].attributes)
  OBVIOUS
<1> HIDE DEF next
<1> QED BY <1>1, <1>2, <1>3, <1>4, PledgeKept

LEMMA PledgeEnds ==
    ASSUME BulkInv, PledgeInv, bulk_pledge # Model.bulk.None,
           UNCHANGED <<bulk_pledge, bulk_mounted, bulk_rows, bulk_store>>,
           NEW m \in bulk_net, bulk_net' = bulk_net \ {m},
           bulk_message' \in {bulk_message, "failed"},
           m.case \in bulk_pledge.cases =>
              bulk_message' = "failed" \/ DoneTo(bulk_store[m.case].attributes)
    PROVE  PledgeInv'
<1> DEFINE next == {}
<1>1. bulk_net' = (bulk_net \ {m}) \cup next
  OBVIOUS
<1>2. \A p \in next : p.case = m.case /\ OnItsWay(p)'
  OBVIOUS
<1>3. \A p, q \in next : p = q
  OBVIOUS
<1> HIDE DEF next
<1>4. /\ \A t \in Model.bulk.Cases : t # m.case => bulk_store'[t] = bulk_store[t]
      /\ m.case \in bulk_pledge.cases =>
            bulk_message' = "failed" \/ DoneTo(bulk_store'[m.case].attributes)
  OBVIOUS
<1> QED BY <1>1, <1>2, <1>3, <1>4, PledgeKept

LEMMA PledgeInit == UIInit => PledgeInv
BY DEF UIInit, BulkView!Init, PledgeInv

(* Pressing the button makes the promise. *)
LEMMA PledgeMade ==
    ASSUME FormInv, NEW op \in {"add", "remove"}, BulkView!HandleBulk(op)
    PROVE  PledgeInv'
<1> DEFINE valid == BulkView!Valid
           ids == [i \in DOMAIN valid |-> bulk_rows[valid[i]].id]
           request(t) == RequestOf(op, t, valid, ids)
           picked == {e \in BulkView!Range(valid) : bulk_rows[e].id # Model.bulk.Undefined}
<1> SUFFICES ASSUME bulk_pledge' # Model.bulk.None PROVE PledgeInv'
  BY DEF PledgeInv
<1>1. /\ bulk_mounted' /\ bulk_message' = "done"
      /\ UNCHANGED <<bulk_rows, bulk_form, bulk_store>>
      /\ bulk_net = {} /\ bulk_pledge' = BulkView!Pledged(op)
      /\ bulk_net' = {request(t) : t \in BulkView!Checked}
  BY DEF BulkView!HandleBulk, BulkView!Event, BulkView!UserKeeps, RequestOf
<1>2. /\ \A d, e \in picked : bulk_rows[d].id = bulk_rows[e].id => d = e
      /\ bulk_pledge' = [op |-> op, cases |-> BulkView!Checked,
                         values |-> [k \in {bulk_rows[e].id : e \in picked} |->
                            bulk_rows[CHOOSE e \in picked : bulk_rows[e].id = k].values]]
  BY <1>1 DEF BulkView!Pledged
<1>3. bulk_pledge'.cases = BulkView!Checked /\ bulk_pledge'.cases \subseteq Model.bulk.Cases
  BY <1>2 DEF BulkView!Checked
<1>4. ASSUME NEW k \in DOMAIN bulk_pledge'.values
      PROVE  /\ k # Model.bulk.Undefined /\ k \in BulkView!Range(ids)
             /\ \E i \in DOMAIN valid :
                   /\ i \in Int /\ {j \in DOMAIN valid : bulk_rows[valid[j]].id = k} = {i}
                   /\ bulk_rows[valid[i]].values = bulk_pledge'.values[k]
  <2>1. PICK e \in picked : bulk_rows[e].id = k
    BY <1>2, <1>4
  <2>2. bulk_pledge'.values[k] = bulk_rows[e].values
    <3>1. \A d \in picked : bulk_rows[d].id = k => d = e
      BY <1>2, <2>1
    <3>2. (CHOOSE d \in picked : bulk_rows[d].id = k) = e
      BY <2>1, <3>1
    <3>3. bulk_pledge'.values[k] = bulk_rows[CHOOSE d \in picked : bulk_rows[d].id = k].values
      BY <1>2, <1>4
    <3> QED BY <3>2, <3>3
  <2>3. PICK i \in DOMAIN valid : valid[i] = e
    BY <2>1 DEF BulkView!Range
  <2>4. /\ DOMAIN valid \subseteq DOMAIN bulk_form /\ DOMAIN bulk_form = 1 .. Len(bulk_form)
        /\ \A j \in DOMAIN valid : valid[j] = bulk_form[j]
    BY DEF BulkView!Valid, BulkView!Restrict, FormInv, Different
  <2>5. ASSUME NEW j \in DOMAIN valid, bulk_rows[valid[j]].id = k PROVE j = i
    <3>1. valid[j] \in picked
      BY <2>1, <2>5 DEF BulkView!Range
    <3>2. valid[j] = valid[i]
      BY <1>2, <2>1, <2>3, <2>5, <3>1
    <3>3. bulk_form[j] = bulk_form[i]
      BY <2>3, <2>4, <2>5, <3>2
    <3> QED BY <2>4, <3>3 DEF FormInv, Different
  <2>6. k \in BulkView!Range(ids)
    BY <2>1, <2>3 DEF BulkView!Range
  <2>7. k # Model.bulk.Undefined /\ i \in Int
    BY <2>1, <2>4
  <2>8. {j \in DOMAIN valid : bulk_rows[valid[j]].id = k} = {i}
    BY <2>1, <2>3, <2>5
  <2> QED BY <2>2, <2>3, <2>6, <2>7, <2>8
<1> HIDE DEF valid, ids
<1>5. \A t : /\ request(t).op = op /\ request(t).button = op /\ request(t).at = "sent"
             /\ request(t).case = t /\ request(t).rows = valid /\ request(t).ids = ids
  BY RequestFields
<1> HIDE DEF request
<1>6. ASSUME NEW n \in bulk_net' PROVE OnItsWay(n)'
  <2>1. PICK t \in BulkView!Checked : n = request(t)
    BY <1>1
  <2>2. /\ n.op = op /\ n.button = op /\ n.at = "sent" /\ n.case = t
        /\ n.rows = valid /\ n.ids = ids
    BY <1>5, <2>1
  <2>3. RowsPledged(n)'
    BY <1>1, <1>4, <2>2 DEF RowsPledged, BulkView!RowsOf
  <2>4. bulk_pledge'.op = op
    BY <1>2
  <2> QED BY <2>2, <2>3, <2>4 DEF OnItsWay
<1>7. \A t \in BulkView!Checked : \E n \in bulk_net' : n.case = t /\ ~Saved(n)
  BY <1>1, <1>5 DEF Saved
<1>8. \A m, n \in bulk_net' : m.case = n.case => m = n
  BY <1>1, <1>5
<1>9. \A t \in bulk_pledge'.cases : \E n \in bulk_net' : n.case = t /\ ~Saved(n)
  BY <1>3, <1>7
<1> QED BY <1>1, <1>3, <1>6, <1>8, <1>9 DEF PledgeInv

LEMMA PledgeServed ==
    ASSUME BulkInv, PledgeInv, bulk_pledge # Model.bulk.None, NEW m \in bulk_net,
           \/ BulkView!ServeGet(m) \/ BulkView!ServePut(m) \/ BulkView!Lose(m)
           \/ \E t \in Model.bulk.Cases : BulkView!ServeLock(m, t)
    PROVE  PledgeInv'
<1>0. /\ Sound(m) /\ BulkShaped(m) /\ OnItsWay(m)
      /\ m.op \in {"add", "remove", "put"}
      /\ m.case \in Model.bulk.Cases /\ IsTestCase(m.doc)
  BY DEF BulkInv, PledgeInv, OnItsWay, Sound
<1>1. m.case \in bulk_pledge.cases =>
         \/ bulk_message = "failed"
         \/ DoneTo(bulk_store[m.case].attributes)
         \/ ~Saved(m)
  BY DEF PledgeInv
<1>2. UNCHANGED <<bulk_pledge, bulk_mounted, bulk_rows, bulk_message>>
  BY <1>0 DEF BulkView!ServeGet, BulkView!ServePut, BulkView!Lose, BulkView!ServeLock,
     BulkView!Outside, BulkView!page
<1>3. /\ \A a : DoneTo(a) => DoneTo(a)'
      /\ \A n : n.rows = m.rows /\ n.ids = m.ids /\ RowsPledged(m) => RowsPledged(n)'
  BY <1>2 DEF DoneTo, RowsPledged, BulkView!RowsOf
<1>4. CASE BulkView!ServeGet(m)
  <2>1. PICK n : n = ReplyTo(m, "done", bulk_store[m.case])
    OBVIOUS
  <2>2. m.op # "put" /\ UNCHANGED bulk_store /\ bulk_net' = (bulk_net \ {m}) \cup {n}
    BY <1>0, <1>4, <2>1 DEF BulkView!ServeGet, BulkView!Reply, ReplyTo
  <2>3. /\ n.doc = bulk_store[m.case] /\ n.at = "done" /\ n.op = m.op /\ n.case = m.case
        /\ n.button = m.button /\ n.rows = m.rows /\ n.ids = m.ids
    BY <1>0, <2>1, Replied
  <2>4. PledgedAsStored(n)'
    BY <1>2, <2>2, <2>3 DEF PledgedAsStored
  <2>5. RowsPledged(n)'
    BY <1>0, <1>3, <2>2, <2>3 DEF OnItsWay
  <2>6. n.op # "put" /\ n.op \in {"add", "remove", "put"} /\ n.button = bulk_pledge'.op
    BY <1>0, <1>2, <2>2, <2>3 DEF OnItsWay
  <2>7. OnItsWay(n)' /\ ~Saved(n)
    BY <2>4, <2>5, <2>6 DEF OnItsWay, Saved
  <2> QED BY <1>2, <2>2, <2>3, <2>7, PledgeGoesOn
<1>5. ASSUME NEW n, n = ReplyTo(m, "failed", m.doc), UNCHANGED bulk_store,
             bulk_net' = (bulk_net \ {m}) \cup {n}
      PROVE  PledgeInv'
  <2>1. /\ n.doc = m.doc /\ n.at = "failed" /\ n.op = m.op /\ n.case = m.case
        /\ n.button = m.button /\ n.rows = m.rows /\ n.ids = m.ids
    BY <1>0, <1>5, Replied
  <2>2. m.op # "put" => RowsPledged(n)'
    BY <1>0, <1>3, <2>1 DEF OnItsWay
  <2>3. /\ n.at # "done" /\ n.at # "sent" /\ n.op \in {"add", "remove", "put"}
        /\ n.button = bulk_pledge'.op
    BY <1>0, <1>2, <2>1 DEF OnItsWay
  <2>4. OnItsWay(n)' /\ ~Saved(n)
    BY <2>1, <2>2, <2>3 DEF OnItsWay, Saved
  <2> QED BY <1>2, <1>5, <2>1, <2>4, PledgeGoesOn
<1>6. CASE BulkView!Lose(m)
  <2>1. bulk_net' = (bulk_net \ {m}) \cup {ReplyTo(m, "failed", m.doc)} /\ UNCHANGED bulk_store
    BY <1>6 DEF BulkView!Lose, BulkView!Reply, ReplyTo
  <2> QED BY <1>5, <2>1
<1>7. CASE BulkView!ServePut(m)
  <2>0. m.op = "put" /\ m.at = "sent"
    BY <1>7 DEF BulkView!ServePut
  <2>1. CASE BulkView!Accepted(m)
    <3>1. PICK n : n = ReplyTo(m, "done", m.doc)
      OBVIOUS
    <3>2. /\ bulk_store' = [bulk_store EXCEPT ![m.case] =
                               [m.doc EXCEPT !.version = bulk_store[m.case].version + 1]]
          /\ bulk_net' = (bulk_net \ {m}) \cup {n}
      BY <1>7, <2>1, <3>1 DEF BulkView!ServePut, BulkView!Reply, ReplyTo
    <3>3. /\ n.at = "done" /\ n.op = m.op /\ n.case = m.case /\ n.button = m.button
      BY <1>0, <3>1, Replied
    <3>4. OnItsWay(n)'
      BY <1>0, <1>2, <2>0, <3>3 DEF OnItsWay
    <3>5. StoreTyped /\ bulk_store[m.case].version + 1 \in Nat
      BY <1>0 DEF BulkInv, StoreTyped, IsTestCase
    <3>6. \A t \in Model.bulk.Cases : t # m.case => bulk_store'[t] = bulk_store[t]
      BY <3>2, <3>5 DEF StoreTyped
    <3>7. bulk_store'[m.case].attributes = m.doc.attributes
      <4>1. bulk_store'[m.case] = [m.doc EXCEPT !.version = bulk_store[m.case].version + 1]
        BY <1>0, <3>2, <3>5 DEF StoreTyped
      <4>2. [m.doc EXCEPT !.version = bulk_store[m.case].version + 1] =
               [version |-> bulk_store[m.case].version + 1, attributes |-> m.doc.attributes,
                locked |-> m.doc.locked]
        BY <1>0, <3>5, TestCaseWith
      <4> QED BY <4>1, <4>2
    <3>8. DoneTo(bulk_store'[m.case].attributes)
      BY <1>0, <2>0, <3>7 DEF OnItsWay
    <3> QED BY <1>2, <3>2, <3>3, <3>4, <3>6, <3>8, PledgeGoesOn
  <2>2. CASE ~BulkView!Accepted(m)
    <3>1. bulk_net' = (bulk_net \ {m}) \cup {ReplyTo(m, "failed", m.doc)} /\ UNCHANGED bulk_store
      BY <1>7, <2>2 DEF BulkView!ServePut, BulkView!Reply, ReplyTo
    <3> QED BY <1>5, <3>1
  <2> QED BY <2>1, <2>2
<1>8. ~ \E t \in Model.bulk.Cases : BulkView!ServeLock(m, t)
  BY <1>0 DEF BulkView!ServeLock
<1> QED BY <1>4, <1>6, <1>7, <1>8

LEMMA PledgeFetched ==
    ASSUME BulkInv, PledgeInv, bulk_pledge # Model.bulk.None, NEW m \in bulk_net,
           BulkView!TestCaseFetched(m)
    PROVE  PledgeInv'
<1> DEFINE a == m.doc.attributes
           b == BulkView!Changed(m, a)
<1>0. /\ Sound(m) /\ BulkShaped(m) /\ OnItsWay(m) /\ IsTestCase(m.doc)
      /\ m.op \in {"add", "remove"} /\ m.at = "done" /\ m.op = bulk_pledge.op
  BY DEF BulkInv, PledgeInv, OnItsWay, Sound, BulkView!TestCaseFetched
<1>1. UNCHANGED <<bulk_store, bulk_pledge, bulk_mounted, bulk_rows>>
  BY DEF BulkView!TestCaseFetched, BulkView!page
<1>2. DoneTo(b)
  BY <1>0, ChangeDoes DEF OnItsWay
<1>3. PICK n : n = PutOf(m, b)
  OBVIOUS
<1>4. \/ bulk_net' = (bulk_net \ {m}) /\ bulk_message' = "failed"
      \/ bulk_net' = (bulk_net \ {m}) /\ bulk_message' = bulk_message /\ b = a
      \/ bulk_net' = (bulk_net \ {m}) \cup {n} /\ bulk_message' = bulk_message
  BY <1>3 DEF BulkView!TestCaseFetched, PutOf
<1> HIDE DEF b
<1>5. CASE bulk_net' = (bulk_net \ {m}) /\ bulk_message' = "failed"
  BY <1>1, <1>5, PledgeEnds
<1>6. CASE bulk_net' = (bulk_net \ {m}) /\ bulk_message' = bulk_message /\ b = a
  <2>1. DoneTo(bulk_store[m.case].attributes)
    BY <1>0, <1>2, <1>6 DEF OnItsWay, PledgedAsStored, DoneTo
  <2> QED BY <1>1, <1>6, <2>1, PledgeEnds
<1>7. CASE bulk_net' = (bulk_net \ {m}) \cup {n} /\ bulk_message' = bulk_message
  <2>1. BulkShaped(m) /\ IsTestCase(m.doc)
    BY <1>0
  <2>2. /\ n.at = "sent" /\ n.op = "put" /\ n.case = m.case /\ n.button = m.button
        /\ n.doc = [version |-> m.doc.version, attributes |-> b, locked |-> m.doc.locked]
    BY <1>3, <2>1, SentBack
  <2>3. n.doc.attributes = b /\ n.button = bulk_pledge'.op
    BY <1>0, <1>1, <2>2 DEF OnItsWay
  <2>4. DoneTo(n.doc.attributes)'
    BY <1>1, <1>2, <2>3 DEF DoneTo
  <2>5. OnItsWay(n)' /\ ~Saved(n)
    BY <2>2, <2>3, <2>4 DEF OnItsWay, Saved
  <2> QED BY <1>1, <1>7, <2>2, <2>5, PledgeGoesOn
<1> QED BY <1>4, <1>5, <1>6, <1>7

LEMMA PledgeAnswered ==
    ASSUME BulkInv, PledgeInv, bulk_pledge # Model.bulk.None, NEW m \in bulk_net,
           BulkView!SessionAnswered(m) \/ BulkView!Answered(m) \/ BulkView!Failed(m)
    PROVE  PledgeInv'
<1>1. OnItsWay(m) /\ m.op \in {"add", "remove", "put"}
  BY DEF PledgeInv, OnItsWay
<1>2. /\ UNCHANGED <<bulk_store, bulk_pledge, bulk_mounted, bulk_rows>>
      /\ bulk_net' = bulk_net \ {m}
  BY <1>1 DEF BulkView!SessionAnswered, BulkView!Answered, BulkView!Failed, BulkView!page
<1>3. \/ bulk_message' = "failed"
      \/ bulk_message' = bulk_message /\ Saved(m)
  BY <1>1 DEF BulkView!SessionAnswered, BulkView!Answered, BulkView!Failed, Saved
<1>4. Saved(m) /\ m.case \in bulk_pledge.cases =>
         bulk_message = "failed" \/ DoneTo(bulk_store[m.case].attributes)
  BY DEF PledgeInv
<1> QED BY <1>2, <1>3, <1>4, PledgeEnds

(* Others may save an attribute the promise is not about. *)
LEMMA PledgeElsewhere ==
    ASSUME BulkInv, PledgeInv, bulk_pledge' # Model.bulk.None,
           NEW t \in Model.bulk.Cases, NEW k \in Model.bulk.Keys, NEW v \in SUBSET Model.bulk.Values,
           BulkView!SaveElsewhere(t, k, v)
    PROVE  PledgeInv'
<1> DEFINE a == [x \in DOMAIN bulk_store[t].attributes \cup {k} |->
                    IF x = k THEN v ELSE bulk_store[t].attributes[x]]
           d == [bulk_store[t] EXCEPT !.version = @ + 1, !.attributes = a]
<1>1. /\ bulk_store' = [bulk_store EXCEPT ![t] = d]
      /\ UNCHANGED <<bulk_net, bulk_message, bulk_mounted, bulk_rows, bulk_pledge>>
      /\ k \notin DOMAIN bulk_pledge.values
  BY DEF BulkView!SaveElsewhere, BulkView!page
<1>2. StoreTyped /\ IsTestCase(bulk_store[t]) /\ bulk_store[t].version + 1 \in Nat
  BY DEF BulkInv, StoreTyped, IsTestCase
<1>3. d.attributes = a
  <2>1. d = [bulk_store[t] EXCEPT !.version = bulk_store[t].version + 1, !.attributes = a]
    OBVIOUS
  <2> HIDE DEF d, a
  <2> QED BY <1>2, <2>1, TestCaseWith
<1> HIDE DEF d
<1>4. ASSUME NEW x \in DOMAIN bulk_pledge.values, NEW u \in Model.bulk.Cases
      PROVE  ValuesIn(bulk_store'[u].attributes, x) = ValuesIn(bulk_store[u].attributes, x)
  <2>1. CASE u = t
    <3>1. bulk_store'[u].attributes = a
      BY <1>1, <1>2, <1>3, <2>1 DEF StoreTyped
    <3>2. x # k
      BY <1>1
    <3>3. ValuesIn(a, x) = ValuesIn(bulk_store[t].attributes, x)
      BY <3>2 DEF ValuesIn
    <3> QED BY <2>1, <3>1, <3>3
  <2>2. CASE u # t
    BY <1>1, <1>2, <2>2 DEF StoreTyped
  <2> QED BY <2>1, <2>2
<1> HIDE DEF a
<1>5. ASSUME NEW m \in bulk_net PROVE OnItsWay(m)'
  <2>1. OnItsWay(m) /\ m.case \in Model.bulk.Cases
    BY <1>1 DEF PledgeInv, OnItsWay, BulkInv, Sound
  <2>2. RowsPledged(m) => RowsPledged(m)'
    BY <1>1 DEF RowsPledged, BulkView!RowsOf
  <2>3. PledgedAsStored(m) => PledgedAsStored(m)'
    BY <1>1, <1>4, <2>1 DEF PledgedAsStored
  <2>4. DoneTo(m.doc.attributes) => DoneTo(m.doc.attributes)'
    BY <1>1 DEF DoneTo
  <2> QED BY <1>1, <2>1, <2>2, <2>3, <2>4 DEF OnItsWay
<1>6. ASSUME NEW u \in bulk_pledge.cases, DoneTo(bulk_store[u].attributes)
      PROVE  DoneTo(bulk_store[u].attributes)'
  <2>1. u \in Model.bulk.Cases
    BY <1>1 DEF PledgeInv
  <2> QED BY <1>1, <1>4, <1>6, <2>1 DEF DoneTo
<1> QED BY <1>1, <1>5, <1>6 DEF PledgeInv

LEMMA PledgeStep == BulkInv /\ FormInv /\ PledgeInv /\ [UINext]_uiVars => PledgeInv'
<1> SUFFICES ASSUME BulkInv, FormInv, PledgeInv, BulkView!Next, bulk_pledge' # Model.bulk.None
             PROVE  PledgeInv'
  <2>1. UNCHANGED BulkView!vars /\ PledgeInv => PledgeInv'
    BY DEF BulkView!vars, BulkView!page, PledgeInv, OnItsWay, RowsPledged, PledgedAsStored,
       DoneTo, BulkView!RowsOf
  <2>2. [UINext]_uiVars => BulkView!Next \/ UNCHANGED BulkView!vars
    BY DEF UINext, OthersIdle, uiVars, BulkView!Idle
  <2>3. bulk_pledge' = Model.bulk.None => PledgeInv'
    BY DEF PledgeInv
  <2> QED BY <2>1, <2>2, <2>3
<1>1. ASSUME NEW k \in Model.bulk.Keys, NEW v \in SUBSET Model.bulk.Values,
             BulkView!Mount(k, v) \/ BulkView!MountWithSuite(k, v)
      PROVE  FALSE
  BY <1>1 DEF BulkView!Mount, BulkView!MountWithSuite, PledgeInv
<1>2. CASE \E op \in {"add", "remove"} : BulkView!HandleBulk(op)
  BY <1>2, PledgeMade
<1>3. CASE \/ \E i \in DOMAIN bulk_form :
                 \/ \E k \in Model.bulk.Keys \cup {"broken"} : BulkView!ChangeFilterAttributeId(i, k)
                 \/ \E v \in SUBSET Model.bulk.Values : BulkView!ChangeFilterAttributeValues(i, v)
                 \/ BulkView!RemoveFilter(i)
           \/ \E t \in Model.bulk.Cases : BulkView!ProcessElementChecked(t)
           \/ \E op \in {"lock", "unlock"} : BulkView!HandleLockAllTestCases(op)
  <2>1. UNCHANGED <<bulk_net, bulk_rows, bulk_message, bulk_pledge, bulk_store, bulk_mounted>>
    BY <1>3 DEF BulkView!ChangeFilterAttributeId, BulkView!ChangeFilterAttributeValues,
       BulkView!RemoveFilter, BulkView!ProcessElementChecked, BulkView!HandleLockAllTestCases,
       BulkView!UserKeeps
  <2> QED BY <2>1 DEF PledgeInv, OnItsWay, RowsPledged, PledgedAsStored, DoneTo, BulkView!RowsOf
<1>4. CASE \E t \in Model.bulk.Cases, k \in Model.bulk.Keys, v \in SUBSET Model.bulk.Values :
              BulkView!SaveElsewhere(t, k, v)
  BY <1>4, PledgeElsewhere
<1>5. ASSUME NEW m \in bulk_net,
             \/ BulkView!ServeGet(m) \/ BulkView!ServePut(m) \/ BulkView!Lose(m)
             \/ \E t \in Model.bulk.Cases : BulkView!ServeLock(m, t)
             \/ BulkView!SessionAnswered(m) \/ BulkView!TestCaseFetched(m)
             \/ BulkView!Answered(m) \/ BulkView!Failed(m)
      PROVE  PledgeInv'
  <2>1. bulk_pledge # Model.bulk.None
    BY <1>5 DEF BulkView!ServeGet, BulkView!ServePut, BulkView!Lose, BulkView!ServeLock,
       BulkView!SessionAnswered, BulkView!TestCaseFetched, BulkView!Answered, BulkView!Failed,
       BulkView!Outside
  <2> QED BY <1>5, <2>1, PledgeServed, PledgeFetched, PledgeAnswered
<1> QED BY <1>1, <1>2, <1>3, <1>4, <1>5 DEF BulkView!Next, BulkView!User

(* A bulk change of attributes is done to every test case that was checked, *)
(* or the user has been told of a failure, once everything is answered.     *)
THEOREM BulkDone == UISpec => []BulkDoneOrTold
<1>1. PledgeInv => BulkDoneOrTold
  BY DEF PledgeInv, DoneTo, ValuesIn, BulkDoneOrTold, BulkView!BulkDoneOrTold
<1> QED BY <1>1, BulkInit, BulkStep, FormInit, FormStep, PledgeInit, PledgeStep, PTL DEF UISpec

-----------------------------------------------------------------------------
(* The list of test cases: what the service has and what is under way *)

CaseIds == Model.cases.Ids
CaseNone == Model.cases.None

CaseRequests ==
    [no : 1 .. Model.cases.MaxInFlight, kind : CasesView!Kinds,
     filter : Model.cases.Filters \cup {CasesView!NoFilter}, skip : Nat,
     excluded : SUBSET CaseIds, about : CaseIds \cup Model.cases.Names \cup {CaseNone},
     at : {"sent", "done", "failed"}, answer : SUBSET (CaseIds \cup Model.cases.Names)]

(* A request is about what its answer will be used for, and an answer that  *)
(* the page will look into is finite.                                       *)
CaseSound(m) ==
    /\ m.kind \in {"suite", "suites", "save"} => m.about \in Model.cases.Names
    /\ m.kind = "tree" => m.about \in CaseIds \cup {CaseNone}
    /\ m.at = "done" /\ m.kind \in {"tree", "more", "count"} =>
          m.answer \subseteq CaseIds /\ IsFiniteSet(m.answer)
    /\ m.at = "done" /\ m.kind = "create" => \E i \in CaseIds : m.answer = {i}

CasesSent(n) ==
    /\ n \subseteq CaseRequests /\ (\A m \in n : CaseSound(m))
    /\ IsFiniteSet(n) /\ Cardinality(n) <= Model.cases.MaxInFlight

CasesStored ==
    /\ cases_stored \subseteq CaseIds /\ IsFiniteSet(cases_stored)
    /\ cases_suites \in [Model.cases.Names -> Nat]

CasesListed ==
    /\ cases_filter \in Model.cases.Filters \cup {CasesView!NoFilter} /\ cases_skip \in Nat
    /\ cases_listed \in [CaseIds -> Nat]
    /\ cases_grouped \subseteq CaseIds
    /\ cases_count \in Nat \cup {CaseNone}
    /\ cases_selected \in CaseIds \cup {CaseNone}
    /\ cases_moreLink \in BOOLEAN /\ cases_loading \in BOOLEAN /\ cases_failed \in BOOLEAN

CasesEdited ==
    /\ cases_unchecked \subseteq CaseIds
    /\ cases_edited \in [filter : Model.cases.Filters \cup {CasesView!NoFilter},
                         unchecked : SUBSET CaseIds]
    /\ cases_draft \subseteq Model.cases.Values /\ cases_shown \subseteq Model.cases.Values
    /\ cases_suiteName \in Model.cases.Names \cup {CaseNone}
    /\ cases_known \in BOOLEAN /\ cases_apart \in BOOLEAN /\ cases_steady \in BOOLEAN

CasesTyped == CasesStored /\ CasesSent(cases_net) /\ CasesListed /\ CasesEdited

LEMMA CaseSizes == \A S : CasesView!Cardinality(S) = Cardinality(S)
BY Zenon DEF CasesView!Cardinality, Cardinality

LEMMA CasesOfType == CasesTyped => CasesView!TypeOK
<1> SUFFICES ASSUME CasesTyped PROVE CasesView!TypeOK
  OBVIOUS
<1>1. \A m \in cases_net : m \in CaseRequests
  BY DEF CasesTyped, CasesSent
<1>2. \A m \in cases_net :
          /\ m.no \in 1 .. Model.cases.MaxInFlight /\ m.kind \in CasesView!Kinds
          /\ m.at \in {"sent", "done", "failed"}
          /\ m.filter \in Model.cases.Filters \cup {CasesView!NoFilter} /\ m.skip \in Nat
          /\ m.excluded \subseteq CaseIds
          /\ m.about \in CaseIds \cup Model.cases.Names \cup {CaseNone}
          /\ m.answer \subseteq CaseIds \cup Model.cases.Names
  BY <1>1 DEF CaseRequests
<1>3. \A b \in {cases_known, cases_apart, cases_moreLink, cases_loading, cases_failed,
                cases_steady} : b \in BOOLEAN
  BY Zenon DEF CasesTyped, CasesListed, CasesEdited
<1> QED
  BY <1>2, <1>3 DEF CasesTyped, CasesStored, CasesListed, CasesEdited, CasesView!TypeOK,
     CaseIds, CaseNone

(* Of fewer requests than there may be, one number is free for each kind.   *)
LEMMA CaseNumber ==
    ASSUME NEW n, CasesSent(n), Cardinality(n) < Model.cases.MaxInFlight, NEW kind
    PROVE  CasesView!Min(CasesView!Free(n, kind)) \in 1 .. Model.cases.MaxInFlight
<1> DEFINE top == Model.cases.MaxInFlight
           free == CasesView!Free(n, kind)
<1>1. IsFiniteSet(n) /\ top \in Nat /\ Cardinality(n) < top
  BY CasesAssumption DEF CasesSent
<1>2. free = Unused(n, top, kind) /\ free \subseteq 1 .. top
  BY DEF CasesView!Free, Unused
<1> HIDE DEF free, top
<1>3. PICK i \in free : \A j \in free : i <= j
  BY <1>1, <1>2, FreeNumber
<1>4. CasesView!Min(free) \in free
  BY <1>3 DEF CasesView!Min
<1> QED BY <1>2, <1>4 DEF free, top

LEMMA CaseAsked ==
    ASSUME NEW n, CasesSent(n), CasesView!CanSend(n), CasesEdited, NEW kind \in CasesView!Kinds,
           NEW f \in Model.cases.Filters \cup {CasesView!NoFilter}, NEW s \in Nat,
           NEW x \in CaseIds \cup Model.cases.Names \cup {CaseNone},
           kind \in {"suite", "suites", "save"} => x \in Model.cases.Names,
           kind = "tree" => x \in CaseIds \cup {CaseNone}
    PROVE  /\ CasesSent(CasesView!With(n, kind, f, s, x))
           /\ Cardinality(CasesView!With(n, kind, f, s, x)) <= Cardinality(n) + 1
           /\ \E m : /\ CasesView!With(n, kind, f, s, x) = n \cup {m}
                     /\ m.kind = kind /\ m.filter = f /\ m.skip = s /\ m.at = "sent"
<1>1. PICK m : m = [no |-> CasesView!Min(CasesView!Free(n, kind)), kind |-> kind, filter |-> f,
                    skip |-> s, excluded |-> cases_edited.unchecked, about |-> x,
                    at |-> "sent", answer |-> {}]
  OBVIOUS
<1>2. CasesView!With(n, kind, f, s, x) = n \cup {m}
  BY <1>1 DEF CasesView!With
<1>3. Cardinality(n) < Model.cases.MaxInFlight
  BY CaseSizes DEF CasesView!CanSend
<1>4. CasesView!Min(CasesView!Free(n, kind)) \in 1 .. Model.cases.MaxInFlight
  BY <1>3, CaseNumber
<1>5. cases_edited.unchecked \in SUBSET CaseIds
  BY DEF CasesEdited
<1>6. /\ m.kind = kind /\ m.filter = f /\ m.skip = s /\ m.at = "sent" /\ m.about = x
      /\ m \in CaseRequests
  BY <1>1, <1>4, <1>5 DEF CaseRequests
<1>7. CaseSound(m)
  BY <1>6 DEF CaseSound
<1>8. IsFiniteSet(n) /\ Cardinality(n) \in Nat /\ Model.cases.MaxInFlight \in Nat
  BY FS_CardinalityType, CasesAssumption DEF CasesSent
<1>10. /\ IsFiniteSet(n \cup {m})
       /\ Cardinality(n \cup {m}) = IF m \in n THEN Cardinality(n) ELSE Cardinality(n) + 1
  BY <1>8, FS_AddElement, Zenon
<1>9. /\ IsFiniteSet(n \cup {m}) /\ Cardinality(n \cup {m}) <= Cardinality(n) + 1
      /\ Cardinality(n \cup {m}) <= Model.cases.MaxInFlight
  BY <1>3, <1>8, <1>10
<1> QED BY <1>2, <1>6, <1>7, <1>9 DEF CasesSent
LEMMA CasesWithout ==
    ASSUME CasesSent(cases_net), NEW m \in cases_net
    PROVE  /\ CasesSent(cases_net \ {m}) /\ CasesView!CanSend(cases_net \ {m})
           /\ m \in CaseRequests /\ CaseSound(m)
<1>1. IsFiniteSet(cases_net) /\ Cardinality(cases_net) \in Nat /\ Model.cases.MaxInFlight \in Nat
  BY CasesAssumption, FS_CardinalityType DEF CasesSent
<1>2. /\ IsFiniteSet(cases_net \ {m})
      /\ Cardinality(cases_net \ {m}) = Cardinality(cases_net) - 1
  BY <1>1, FS_RemoveElement
<1>3. Cardinality(cases_net) <= Model.cases.MaxInFlight
  BY DEF CasesSent
<1>4. /\ Cardinality(cases_net \ {m}) < Model.cases.MaxInFlight
      /\ Cardinality(cases_net \ {m}) <= Model.cases.MaxInFlight
  BY <1>1, <1>2, <1>3
<1> QED BY <1>2, <1>4, CaseSizes DEF CasesSent, CasesView!CanSend

(* A request in the place of another. *)
LEMMA CasesChanged ==
    ASSUME CasesSent(cases_net), NEW m \in cases_net, NEW n \in CaseRequests, CaseSound(n)
    PROVE  CasesSent((cases_net \ {m}) \cup {n})
<1>1. /\ IsFiniteSet(cases_net) /\ Cardinality(cases_net) \in Nat
      /\ Model.cases.MaxInFlight \in Nat /\ Cardinality(cases_net) <= Model.cases.MaxInFlight
  BY CasesAssumption, FS_CardinalityType DEF CasesSent
<1>2. /\ IsFiniteSet(cases_net \ {m})
      /\ Cardinality(cases_net \ {m}) = Cardinality(cases_net) - 1
  BY <1>1, FS_RemoveElement
<1> DEFINE rest == cases_net \ {m}
<1>3. rest \subseteq CaseRequests /\ (\A k \in rest : CaseSound(k))
  BY DEF CasesSent
<1> HIDE DEF rest
<1>4. /\ IsFiniteSet(rest \cup {n})
      /\ Cardinality(rest \cup {n}) = IF n \in rest THEN Cardinality(rest)
                                      ELSE Cardinality(rest) + 1
  BY <1>2, FS_AddElement, Zenon DEF rest
<1>5. Cardinality(rest) = Cardinality(cases_net) - 1
  BY <1>2 DEF rest
<1>6. Cardinality(rest \cup {n}) <= Model.cases.MaxInFlight
  BY <1>1, <1>4, <1>5
<1>7. CasesSent(rest \cup {n})
  BY <1>3, <1>4, <1>6 DEF CasesSent
<1> QED BY <1>7 DEF rest

(* The service's answer, or that it will not come. *)
LEMMA CaseReplied ==
    ASSUME CasesSent(cases_net), NEW m \in cases_net, NEW outcome \in {"done", "failed"},
           NEW answer \in SUBSET (CaseIds \cup Model.cases.Names),
           outcome = "done" =>
              /\ m.kind \in {"tree", "more", "count"} =>
                    answer \subseteq CaseIds /\ IsFiniteSet(answer)
              /\ m.kind = "create" => \E i \in CaseIds : answer = {i},
           CasesView!Reply(m, outcome, answer)
    PROVE  /\ CasesSent(cases_net')
           /\ \E n : /\ cases_net' = (cases_net \ {m}) \cup {n}
                     /\ n.kind = m.kind /\ n.filter = m.filter /\ n.skip = m.skip
                     /\ n.at = outcome /\ n.answer = answer
<1>1. m \in CaseRequests /\ CaseSound(m)
  BY DEF CasesSent
<1>2. PICK n : n = [m EXCEPT !.at = outcome, !.answer = answer]
  OBVIOUS
<1>3. /\ n \in CaseRequests /\ n.kind = m.kind /\ n.filter = m.filter /\ n.skip = m.skip
      /\ n.about = m.about /\ n.at = outcome /\ n.answer = answer
  BY <1>1, <1>2 DEF CaseRequests
<1>4. CaseSound(n)
  BY <1>1, <1>3 DEF CaseSound
<1>5. cases_net' = (cases_net \ {m}) \cup {n}
  BY <1>2 DEF CasesView!Reply
<1> QED BY <1>3, <1>4, <1>5, CasesChanged

LEMMA CasesRendered ==
    ASSUME CasesEdited, CasesView!Rendered
    PROVE  /\ cases_moreLink' \in BOOLEAN
           /\ cases_moreLink' = CasesView!ShowLoadMore(cases_filter', cases_skip', cases_count')
           /\ cases_draft' \subseteq Model.cases.Values /\ cases_shown' \subseteq Model.cases.Values
BY DEF CasesEdited, CasesView!Rendered, CasesView!ShowLoadMore

(* The tree is asked for. *)
LEMMA TreeAsked ==
    ASSUME CasesTyped, NEW n, CasesSent(n),
           NEW f \in Model.cases.Filters \cup {CasesView!NoFilter}, NEW s \in Nat,
           NEW x \in CaseIds \cup {CaseNone}, CasesView!OnFilter(n, f, s, x),
           CasesView!Rendered, cases_selected' \in CaseIds \cup {CaseNone}
    PROVE  CasesSent(cases_net') /\ CasesListed' /\ cases_steady' = FALSE
<1>1. /\ CasesView!CanSend(n) /\ cases_net' = CasesView!With(n, "tree", f, s, x)
      /\ cases_filter' = f /\ cases_skip' = (IF f.grouped THEN 0 ELSE s)
      /\ cases_loading' = TRUE /\ cases_steady' = FALSE
      /\ UNCHANGED <<cases_listed, cases_grouped, cases_count, cases_failed>>
  BY DEF CasesView!OnFilter
<1>2. CasesSent(cases_net')
  BY <1>1, CaseAsked DEF CasesTyped, CasesView!Kinds
<1>3. cases_moreLink' \in BOOLEAN
  BY CasesRendered DEF CasesTyped
<1>4. cases_skip' \in Nat
  BY <1>1
<1>5. /\ cases_listed \in [CaseIds -> Nat] /\ cases_grouped \subseteq CaseIds
      /\ cases_count \in Nat \cup {CaseNone} /\ cases_failed \in BOOLEAN
  BY DEF CasesTyped, CasesListed
<1>6. CasesListed'
  BY <1>1, <1>3, <1>4, <1>5 DEF CasesListed
<1> QED BY <1>1, <1>2, <1>6
-----------------------------------------------------------------------------
(* The list of test cases: the pages that are listed and those asked for *)

Waiting(K) == {m \in cases_net : m.kind \in K}
ListResult == CasesView!Result(cases_filter)
ListPage(s) == CasesView!Page(cases_filter, s)
LinkShown == CasesView!ShowLoadMore(cases_filter, cases_skip, cases_count)

(* The number is that of the whole result, or has been asked for. *)
CountAsked ==
    /\ \A m \in Waiting({"count"}) :
          m.filter = cases_filter /\ m.skip = 0 /\ (m.at = "done" => m.answer = ListResult)
    /\ Waiting({"count"}) # {} \/ cases_count = Cardinality(ListResult)

(* The pages under way are of one result, none beyond the skip, and no two  *)
(* have a test case in common.                                              *)
PagesAsked ==
    /\ \A m \in Waiting({"more"}) :
          /\ m.filter = cases_filter /\ m.skip <= cases_skip
          /\ m.at = "done" => m.answer = ListPage(m.skip)
    /\ \A m, n \in Waiting({"more"}) :
          m = n \/ m.skip + Model.cases.PageSize <= n.skip \/ n.skip + Model.cases.PageSize <= m.skip

(* Whatever pages have come, the list has once what is up to the end of     *)
(* the last page asked for and in none that is under way.                   *)
PagesListed ==
    IF cases_filter.grouped
      THEN /\ Waiting({"more"}) = {} /\ cases_grouped = ListResult
           /\ cases_listed = [i \in CaseIds |-> 0]
      ELSE cases_listed = [i \in CaseIds |->
              IF /\ i \in ListResult
                 /\ CasesView!Rank(ListResult, i) <= cases_skip + Model.cases.PageSize
                 /\ \A m \in Waiting({"more"}) : i \notin ListPage(m.skip)
                THEN 1 ELSE 0]

ListingInv ==
    cases_steady =>
        /\ Waiting({"tree"}) = {} /\ CountAsked /\ PagesAsked /\ PagesListed
        /\ Waiting({"more"}) # {} \/ cases_moreLink = LinkShown

LEMMA RankOf ==
    ASSUME NEW S \in SUBSET Nat, IsFiniteSet(S), NEW i \in S
    PROVE  /\ CasesView!Rank(S, i) \in 1 .. Cardinality(S)
           /\ \A j \in S : j <= i => CasesView!Rank(S, j) <= CasesView!Rank(S, i)
<1> DEFINE upTo(k) == {j \in S : j <= k}
<1>1. \A k : CasesView!Rank(S, k) = Cardinality(upTo(k))
  BY CaseSizes DEF CasesView!Rank
<1>2. \A k : IsFiniteSet(upTo(k)) /\ Cardinality(upTo(k)) <= Cardinality(S)
  BY FS_Subset
<1>3. \A k : Cardinality(upTo(k)) \in Nat
  BY <1>2, FS_CardinalityType
<1>4. i \in upTo(i)
  OBVIOUS
<1>5. Cardinality(upTo(i)) # 0
  BY <1>2, <1>4, FS_EmptySet
<1>6. ASSUME NEW j \in S, j <= i
      PROVE  Cardinality(upTo(j)) <= Cardinality(upTo(i))
  <2>1. i \in Nat /\ j \in Nat /\ \A k \in S : k \in Nat
    OBVIOUS
  <2>2. \A k \in S : k <= j => k <= i
    BY <1>6, <2>1
  <2>3. upTo(j) \subseteq upTo(i)
    BY <2>2
  <2> HIDE DEF upTo
  <2> QED BY <1>2, <2>3, FS_Subset
<1> HIDE DEF upTo
<1>7. Cardinality(S) \in Nat
  BY FS_CardinalityType
<1> QED BY <1>1, <1>2, <1>3, <1>5, <1>6, <1>7

(* What the service finds. *)
LEMMA ResultOf ==
    ASSUME CasesStored, NEW f, NEW s
    PROVE  /\ CasesView!Result(f) \subseteq cases_stored /\ CasesView!Result(f) \in SUBSET Nat
           /\ IsFiniteSet(CasesView!Result(f)) /\ CasesView!Result(f) \subseteq CaseIds
           /\ CasesView!Page(f, s) \subseteq CasesView!Result(f)
<1>1. CasesView!Result(f) \subseteq cases_stored
  BY DEF CasesView!Result
<1>2. CasesView!Page(f, s) \subseteq CasesView!Result(f)
  BY DEF CasesView!Page
<1> QED BY <1>1, <1>2, CasesAssumption, FS_Subset DEF CasesStored, CaseIds

LEMMA CaseAnswer ==
    ASSUME CasesStored, NEW m \in CaseRequests
    PROVE  /\ m.kind \in {"tree", "more"} => CasesView!Answer(m) = CasesView!Page(m.filter, m.skip)
           /\ m.kind = "count" => CasesView!Answer(m) \subseteq CasesView!Result(m.filter)
           /\ m.kind = "count" /\ m.skip = 0 => CasesView!Answer(m) = CasesView!Result(m.filter)
           /\ m.kind = "create" => CasesView!Answer(m) = {CasesView!Max(cases_stored) + 1}
           /\ m.kind \notin {"tree", "more", "count", "create"} =>
                 CasesView!Answer(m) \subseteq Model.cases.Names
<1> DEFINE result == CasesView!Result(m.filter)
<1>1. m.kind \in {"tree", "more"} => CasesView!Answer(m) = CasesView!Page(m.filter, m.skip)
  BY DEF CasesView!Answer
<1>2. m.kind = "count" =>
         CasesView!Answer(m) = {i \in result : CasesView!Rank(result, i) > m.skip}
  BY DEF CasesView!Answer
<1>3. \A i \in result : CasesView!Rank(result, i) \in Nat /\ CasesView!Rank(result, i) > 0
  <2>1. result \in SUBSET Nat /\ IsFiniteSet(result)
    BY ResultOf
  <2>2. Cardinality(result) \in Nat
    BY <2>1, FS_CardinalityType
  <2> HIDE DEF result
  <2> QED BY <2>1, <2>2, RankOf
<1>4. m.kind = "create" => CasesView!Answer(m) = {CasesView!Max(cases_stored) + 1}
  BY DEF CasesView!Answer
<1>5. m.kind \notin {"tree", "more", "count", "create"} =>
         CasesView!Answer(m) \subseteq Model.cases.Names
  BY DEF CasesView!Answer
<1> HIDE DEF result
<1> QED BY <1>1, <1>2, <1>3, <1>4, <1>5 DEF result
(* The list is as it was, and so is what is asked for. *)
LEMMA ListingStays ==
    ASSUME ListingInv, cases_steady' => cases_steady,
           UNCHANGED <<cases_stored, cases_filter, cases_skip, cases_listed, cases_grouped,
                       cases_count>>,
           \A K \in SUBSET {"tree", "more", "count"} : Waiting(K)' = Waiting(K),
           cases_moreLink' = cases_moreLink \/ cases_moreLink' = LinkShown'
    PROVE  ListingInv'
<1> SUFFICES ASSUME cases_steady'
             PROVE  /\ Waiting({"tree"})' = {} /\ CountAsked' /\ PagesAsked' /\ PagesListed'
                    /\ Waiting({"more"})' # {} \/ cases_moreLink' = LinkShown'
  BY DEF ListingInv
<1>1. /\ Waiting({"tree"}) = {} /\ CountAsked /\ PagesAsked /\ PagesListed
      /\ Waiting({"more"}) # {} \/ cases_moreLink = LinkShown
  BY DEF ListingInv
<1>2. /\ Waiting({"tree"})' = Waiting({"tree"}) /\ Waiting({"more"})' = Waiting({"more"})
      /\ Waiting({"count"})' = Waiting({"count"})
  OBVIOUS
<1>3. ListResult' = ListResult /\ LinkShown' = LinkShown /\ \A s : ListPage(s)' = ListPage(s)
  BY DEF ListResult, LinkShown, ListPage, CasesView!Result, CasesView!Page,
     CasesView!ShowLoadMore
<1>4. CountAsked'
  BY <1>1, <1>2, <1>3 DEF CountAsked
<1>5. PagesAsked'
  BY <1>1, <1>2, <1>3 DEF PagesAsked
<1>6. PagesListed'
  BY <1>1, <1>2, <1>3 DEF PagesListed
<1> QED BY <1>1, <1>2, <1>3, <1>4, <1>5, <1>6

(* A request for a page or the number is answered as it should be, or fails. *)
LEMMA ListingReplied ==
    ASSUME ListingInv, NEW m \in cases_net, NEW n, m.kind \in {"tree", "more", "count"},
           n.kind = m.kind, n.filter = m.filter, n.skip = m.skip,
           n.at = "done" /\ m.kind = "more" =>
              n.answer = CasesView!Page(m.filter, m.skip),
           n.at = "done" /\ m.kind = "count" /\ m.skip = 0 =>
              n.answer = CasesView!Result(m.filter),
           cases_net' = (cases_net \ {m}) \cup {n}, cases_steady' => cases_steady,
           UNCHANGED <<cases_stored, cases_filter, cases_skip, cases_listed, cases_grouped,
                       cases_count, cases_moreLink>>
    PROVE  ListingInv'
<1> SUFFICES ASSUME cases_steady'
             PROVE  /\ Waiting({"tree"})' = {} /\ CountAsked' /\ PagesAsked' /\ PagesListed'
                    /\ Waiting({"more"})' # {} \/ cases_moreLink' = LinkShown'
  BY DEF ListingInv
<1>1. /\ Waiting({"tree"}) = {} /\ CountAsked /\ PagesAsked /\ PagesListed
      /\ Waiting({"more"}) # {} \/ cases_moreLink = LinkShown
  BY DEF ListingInv
<1>2. \A K : Waiting(K)' = IF m.kind \in K THEN (Waiting(K) \ {m}) \cup {n} ELSE Waiting(K)
  BY DEF Waiting
<1>3. ListResult' = ListResult /\ LinkShown' = LinkShown /\ \A s : ListPage(s)' = ListPage(s)
  BY DEF ListResult, LinkShown, ListPage, CasesView!Result, CasesView!Page,
     CasesView!ShowLoadMore
<1>4. m.kind # "tree"
  BY <1>1 DEF Waiting
<1>5. Waiting({"tree"})' = {}
  BY <1>1, <1>2, <1>4
<1>6. CASE m.kind = "count"
  <2>1. Waiting({"more"})' = Waiting({"more"})
    BY <1>2, <1>6
  <2>2. Waiting({"count"})' = (Waiting({"count"}) \ {m}) \cup {n} /\ m \in Waiting({"count"})
    BY <1>2, <1>6 DEF Waiting
  <2>3. n.filter = cases_filter /\ n.skip = 0 /\ (n.at = "done" => n.answer = ListResult)
    BY <1>1, <1>6, <2>2 DEF CountAsked, ListResult
  <2>4. CountAsked'
    BY <1>1, <1>3, <2>2, <2>3 DEF CountAsked
  <2>5. PagesAsked'
    BY <1>1, <1>3, <2>1 DEF PagesAsked
  <2>6. PagesListed'
    BY <1>1, <1>3, <2>1 DEF PagesListed
  <2> QED BY <1>1, <1>3, <1>5, <2>1, <2>4, <2>5, <2>6
<1>7. CASE m.kind = "more"
  <2>1. Waiting({"count"})' = Waiting({"count"})
    BY <1>2, <1>7
  <2>2. Waiting({"more"})' = (Waiting({"more"}) \ {m}) \cup {n} /\ m \in Waiting({"more"})
    BY <1>2, <1>7 DEF Waiting
  <2>3. /\ n.filter = cases_filter /\ n.skip <= cases_skip
        /\ n.at = "done" => n.answer = ListPage(n.skip)
    BY <1>1, <1>7, <2>2 DEF PagesAsked, ListPage
  <2>4. CountAsked'
    BY <1>1, <1>3, <2>1 DEF CountAsked
  <2>5. \A k, l \in Waiting({"more"})' : k = l \/ k.skip + Model.cases.PageSize <= l.skip
                                             \/ l.skip + Model.cases.PageSize <= k.skip
    BY <1>1, <2>2 DEF PagesAsked
  <2>6. PagesAsked'
    BY <1>1, <1>3, <2>2, <2>3, <2>5 DEF PagesAsked
  <2>7. \A i : (\A k \in Waiting({"more"})' : i \notin ListPage(k.skip)) <=>
               (\A k \in Waiting({"more"}) : i \notin ListPage(k.skip))
    BY <2>2
  <2>8. PagesListed'
    BY <1>1, <1>3, <2>2, <2>7 DEF PagesListed
  <2> QED BY <1>5, <2>2, <2>4, <2>6, <2>8
<1> QED BY <1>4, <1>6, <1>7
LEMMA ListSame ==
    ASSUME UNCHANGED CasesView!list
    PROVE  /\ UNCHANGED <<cases_filter, cases_skip, cases_listed, cases_grouped, cases_count,
                          cases_moreLink, cases_selected, cases_loading, cases_failed>>
           /\ CasesListed => CasesListed'
BY DEF CasesView!list, CasesListed

LEMMA CasesServed ==
    ASSUME CasesTyped, ListingInv, NEW m \in cases_net, CasesView!Serve(m)
    PROVE  CasesTyped' /\ ListingInv'
<1>1. CasesStored /\ CasesSent(cases_net) /\ CasesListed /\ CasesEdited
  BY DEF CasesTyped
<1>2. m \in CaseRequests /\ CaseSound(m)
  BY <1>1, CasesWithout
<1> DEFINE answer == CasesView!Answer(m)
<1>3. /\ m.kind = "create" => CasesView!Max(cases_stored) + 1 \in CaseIds
      /\ CasesView!Reply(m, "done", answer)
      /\ cases_stored' = cases_stored \cup (IF m.kind = "create" THEN answer ELSE {})
      /\ cases_suites' = IF m.kind = "save" THEN [cases_suites EXCEPT ![m.about] = @ + 1]
                         ELSE cases_suites
      /\ cases_steady' = (cases_steady /\ m.kind # "create")
      /\ UNCHANGED <<cases_known, CasesView!list, cases_unchecked, CasesView!form>>
  BY DEF CasesView!Serve, CaseIds
<1>4. /\ answer \in SUBSET (CaseIds \cup Model.cases.Names)
      /\ m.kind \in {"tree", "more", "count"} => answer \subseteq CaseIds /\ IsFiniteSet(answer)
      /\ m.kind = "create" => \E i \in CaseIds : answer = {i}
  <2>1. CASE m.kind \in {"tree", "more", "count"}
    <3>1. answer \subseteq CasesView!Result(m.filter)
      BY <1>1, <1>2, <2>1, CaseAnswer, ResultOf
    <3>2. /\ CasesView!Result(m.filter) \subseteq CaseIds
          /\ IsFiniteSet(CasesView!Result(m.filter))
      BY <1>1, ResultOf
    <3>3. IsFiniteSet(answer)
      BY <3>1, <3>2, FS_Subset
    <3> QED BY <2>1, <3>1, <3>2, <3>3
  <2>2. CASE m.kind = "create"
    BY <1>1, <1>2, <1>3, <2>2, CaseAnswer
  <2>3. CASE m.kind \notin {"tree", "more", "count", "create"}
    BY <1>1, <1>2, <2>3, CaseAnswer
  <2> QED BY <2>1, <2>2, <2>3
<1>5. PICK n : /\ cases_net' = (cases_net \ {m}) \cup {n}
               /\ n.kind = m.kind /\ n.filter = m.filter /\ n.skip = m.skip
               /\ n.at = "done" /\ n.answer = answer
  BY <1>1, <1>3, <1>4, CaseReplied
<1>6. CasesSent(cases_net')
  BY <1>1, <1>3, <1>4, CaseReplied
<1>7. CasesStored'
  <2>1. cases_suites' \in [Model.cases.Names -> Nat]
    BY <1>1, <1>2, <1>3 DEF CasesStored, CaseSound
  <2>2. CASE m.kind = "create"
    <3>1. PICK i \in CaseIds : answer = {i}
      BY <1>4, <2>2
    <3>2. cases_stored' = cases_stored \cup {i}
      BY <1>3, <2>2, <3>1
    <3>3. IsFiniteSet(cases_stored')
      BY <1>1, <3>2, FS_AddElement DEF CasesStored
    <3> QED BY <1>1, <2>1, <3>2, <3>3 DEF CasesStored
  <2>3. CASE m.kind # "create"
    BY <1>1, <1>3, <2>1, <2>3 DEF CasesStored
  <2> QED BY <2>2, <2>3
<1>8. CasesListed' /\ CasesEdited'
  BY <1>1, <1>3, ListSame DEF CasesEdited, CasesView!form, CasesView!suite
<1>9. ListingInv'
  <2>1. CASE m.kind = "create"
    BY <1>3, <2>1 DEF ListingInv
  <2>2. CASE m.kind \in {"tree", "more", "count"}
    <3>1. /\ m.kind = "more" => answer = CasesView!Page(m.filter, m.skip)
          /\ m.kind = "count" /\ m.skip = 0 => answer = CasesView!Result(m.filter)
      BY <1>1, <1>2, CaseAnswer
    <3>2. /\ cases_steady' => cases_steady
          /\ cases_stored' = cases_stored
          /\ UNCHANGED <<cases_filter, cases_skip, cases_listed, cases_grouped, cases_count,
                         cases_moreLink>>
      BY <1>3, <2>2, ListSame
    <3> QED BY ONLY <1>5, <2>2, <3>1, <3>2, ListingInv, m \in cases_net, ListingReplied
  <2>3. CASE m.kind \notin {"tree", "more", "count", "create"}
    <3>1. \A K \in SUBSET {"tree", "more", "count"} : Waiting(K)' = Waiting(K)
      BY <1>5, <2>3 DEF Waiting
    <3> QED BY <1>3, <2>3, <3>1, ListSame, ListingStays
  <2> QED BY <2>1, <2>2, <2>3
<1> QED BY <1>6, <1>7, <1>8, <1>9 DEF CasesTyped

LEMMA CasesLost ==
    ASSUME CasesTyped, ListingInv, NEW m \in cases_net, CasesView!Lose(m)
    PROVE  CasesTyped' /\ ListingInv'
<1>1. /\ CasesView!Reply(m, "failed", {})
      /\ UNCHANGED <<cases_stored, cases_suites, cases_known, CasesView!list, cases_unchecked,
                     CasesView!form, cases_steady>>
  BY DEF CasesView!Lose
<1>2. CasesSent(cases_net)
  BY DEF CasesTyped
<1>3. /\ CasesSent(cases_net')
      /\ \E n : /\ cases_net' = (cases_net \ {m}) \cup {n}
                /\ n.kind = m.kind /\ n.filter = m.filter /\ n.skip = m.skip /\ n.at = "failed"
  BY <1>1, <1>2, CaseReplied
<1>4. PICK n : /\ cases_net' = (cases_net \ {m}) \cup {n}
               /\ n.kind = m.kind /\ n.filter = m.filter /\ n.skip = m.skip /\ n.at = "failed"
  BY <1>3
<1>5. CasesTyped'
  BY <1>1, <1>3, ListSame DEF CasesTyped, CasesStored, CasesEdited, CasesView!form,
     CasesView!suite
<1>6. ListingInv'
  <2>1. CASE m.kind \in {"tree", "more", "count"}
    BY <1>1, <1>4, <2>1, ListSame, ListingReplied
  <2>2. CASE m.kind \notin {"tree", "more", "count"}
    <3>1. \A K \in SUBSET {"tree", "more", "count"} : Waiting(K)' = Waiting(K)
      BY <1>4, <2>2 DEF Waiting
    <3> QED BY <1>1, <3>1, ListSame, ListingStays
  <2> QED BY <2>1, <2>2
<1> QED BY <1>5, <1>6

LEMMA CasesRemovedElsewhere ==
    ASSUME CasesTyped, NEW i, CasesView!RemoveElsewhere(i)
    PROVE  CasesTyped' /\ ListingInv'
<1>1. /\ cases_stored' = cases_stored \ {i} /\ cases_steady' = FALSE
      /\ UNCHANGED <<cases_suites, cases_net, cases_known, CasesView!list, cases_unchecked,
                     CasesView!form>>
  BY DEF CasesView!RemoveElsewhere
<1>2. CasesStored'
  BY <1>1, FS_RemoveElement DEF CasesTyped, CasesStored
<1>3. CasesSent(cases_net') /\ CasesListed' /\ CasesEdited'
  BY <1>1, ListSame DEF CasesTyped, CasesEdited, CasesView!form, CasesView!suite
<1> QED BY <1>1, <1>2, <1>3 DEF CasesTyped, ListingInv

(* The tree has come: nothing else is listed than its first page. *)
LEMMA TreeCame ==
    ASSUME CasesTyped, NEW m \in cases_net, CasesView!TreeAnswered(m)
    PROVE  CasesTyped' /\ ListingInv'
<1>1. CasesStored /\ CasesSent(cases_net) /\ CasesListed /\ CasesEdited
  BY DEF CasesTyped
<1>2. /\ CasesSent(cases_net \ {m}) /\ CasesView!CanSend(cases_net \ {m})
      /\ m \in CaseRequests /\ CaseSound(m)
  BY <1>1, CasesWithout
<1>3. /\ m.kind = "tree" /\ m.at = "done"
      /\ cases_listed' = [i \in CaseIds |-> IF i \in m.answer /\ ~m.filter.grouped THEN 1 ELSE 0]
      /\ cases_grouped' = (IF m.filter.grouped THEN m.answer ELSE {})
      /\ cases_skip' = 0 /\ cases_loading' = FALSE
      /\ cases_net' = CasesView!With(cases_net \ {m}, "count", cases_filter, cases_skip', CaseNone)
      /\ cases_selected' = IF m.about = CaseNone THEN cases_selected
                           ELSE IF m.about \in m.answer THEN m.about ELSE CaseNone
      /\ UNCHANGED <<cases_filter, cases_count, cases_failed>>
      /\ cases_steady' = (/\ CasesView!Alone(m) /\ m.filter = cases_filter /\ m.skip = 0
                          /\ m.answer = ListPage(m.skip))
      /\ UNCHANGED <<cases_stored, cases_suites, cases_known, cases_unchecked, cases_suiteName,
                     cases_edited, cases_apart>>
      /\ CasesView!Rendered
  BY DEF CasesView!TreeAnswered, CasesView!FromTheFirst, CasesView!SkipAfterTree,
     CasesView!project, CasesView!suite,
     CaseIds, CaseNone, ListPage
<1>4. /\ m.answer \subseteq CaseIds /\ IsFiniteSet(m.answer)
      /\ m.about \in CaseIds \cup {CaseNone}
  BY <1>2, <1>3 DEF CaseSound
<1>5. cases_filter \in Model.cases.Filters \cup {CasesView!NoFilter}
  BY <1>1 DEF CasesListed
<1>6. /\ CasesSent(cases_net')
      /\ \E n : /\ cases_net' = (cases_net \ {m}) \cup {n}
                /\ n.kind = "count" /\ n.filter = cases_filter /\ n.skip = 0 /\ n.at = "sent"
  <2>1. PICK kind, zero, x, rest, f :
           /\ kind = "count" /\ zero = 0 /\ x = CaseNone
           /\ rest = cases_net \ {m} /\ f = cases_filter
    OBVIOUS
  <2>2. kind \in CasesView!Kinds /\ kind \notin {"suite", "suites", "save", "tree"}
    BY <2>1 DEF CasesView!Kinds
  <2>3. zero \in Nat /\ x \in CaseIds \cup Model.cases.Names \cup {CaseNone}
    BY <2>1
  <2>4. /\ cases_net' = CasesView!With(rest, kind, f, zero, x)
        /\ CasesSent(rest) /\ CasesView!CanSend(rest) /\ CasesEdited
        /\ f \in Model.cases.Filters \cup {CasesView!NoFilter}
    BY <1>1, <1>2, <1>3, <1>5, <2>1
  <2>5. /\ CasesSent(cases_net')
        /\ \E n : /\ cases_net' = rest \cup {n}
                  /\ n.kind = kind /\ n.filter = f /\ n.skip = zero /\ n.at = "sent"
    BY ONLY <2>2, <2>3, <2>4, CaseAsked
  <2> QED BY <2>1, <2>5
<1>7. PICK n : /\ cases_net' = (cases_net \ {m}) \cup {n}
               /\ n.kind = "count" /\ n.filter = cases_filter /\ n.skip = 0 /\ n.at = "sent"
  BY <1>6
<1>8. /\ cases_moreLink' \in BOOLEAN
      /\ cases_moreLink' = LinkShown'
      /\ cases_draft' \subseteq Model.cases.Values /\ cases_shown' \subseteq Model.cases.Values
  BY <1>1, <1>3, CasesRendered DEF LinkShown
<1>9. CasesTyped'
  <2>1. cases_listed' \in [CaseIds -> Nat] /\ cases_grouped' \subseteq CaseIds
    BY <1>3, <1>4
  <2>2. cases_selected' \in CaseIds \cup {CaseNone}
    BY <1>1, <1>3, <1>4 DEF CasesListed
  <2>3. CasesListed'
    BY <1>1, <1>3, <1>5, <1>8, <2>1, <2>2 DEF CasesListed
  <2>4. CasesEdited'
    BY <1>1, <1>3, <1>8 DEF CasesEdited
  <2>5. CasesStored'
    BY <1>1, <1>3 DEF CasesStored
  <2> QED BY <1>6, <2>3, <2>4, <2>5 DEF CasesTyped
<1>10. ASSUME cases_steady' PROVE ListingInv'
  <2>1. /\ \A k \in cases_net \ {m} : k.kind \notin {"tree", "more", "count"}
        /\ m.filter = cases_filter /\ m.answer = ListPage(0)
    <3>1. /\ CasesView!Alone(m) /\ m.filter = cases_filter /\ m.skip = 0
          /\ m.answer = ListPage(m.skip)
      BY <1>3, <1>10
    <3> QED BY <3>1 DEF CasesView!Alone, CasesView!Listing
  <2>2. Waiting({"tree"})' = {} /\ Waiting({"more"})' = {} /\ Waiting({"count"})' = {n}
    BY <1>7, <2>1 DEF Waiting
  <2>3. ListResult' = ListResult /\ \A s : ListPage(s)' = ListPage(s)
    BY <1>3 DEF ListResult, ListPage, CasesView!Result, CasesView!Page
  <2>4. CountAsked'
    BY <1>3, <1>7, <2>2 DEF CountAsked
  <2>5. PagesAsked'
    BY <2>2 DEF PagesAsked
  <2>6. PagesListed'
    <3>1. CASE cases_filter.grouped
      <4>1. ListPage(0) = ListResult
        BY <3>1 DEF ListPage, ListResult, CasesView!Page
      <4> QED BY <1>3, <2>1, <2>2, <2>3, <3>1, <4>1 DEF PagesListed
    <3>2. CASE ~cases_filter.grouped
      <4>1. ListResult \in SUBSET Nat /\ IsFiniteSet(ListResult)
        BY <1>1, ResultOf DEF ListResult
      <4>2. Cardinality(ListResult) \in Nat /\ Model.cases.PageSize \in Nat
        BY <4>1, FS_CardinalityType, CasesAssumption
      <4>3. \A i \in ListResult : CasesView!Rank(ListResult, i) \in 1 .. Cardinality(ListResult)
        BY <4>1, RankOf
      <4>4. ListPage(0) = {i \in ListResult :
                              CasesView!Rank(ListResult, i) \in 0 + 1 .. 0 + Model.cases.PageSize}
        BY <3>2 DEF ListPage, ListResult, CasesView!Page
      <4>5. \A i : i \in ListPage(0) <=>
                     /\ i \in ListResult
                     /\ CasesView!Rank(ListResult, i) <= 0 + Model.cases.PageSize
        BY <4>2, <4>3, <4>4
      <4>6. cases_listed' = [i \in CaseIds |-> IF i \in ListPage(0) THEN 1 ELSE 0]
        BY <1>3, <2>1, <3>2
      <4> QED BY <1>3, <2>2, <2>3, <3>2, <4>5, <4>6 DEF PagesListed
    <3> QED BY <3>1, <3>2
  <2> QED BY <1>8, <2>2, <2>4, <2>5, <2>6 DEF ListingInv
<1> QED BY <1>9, <1>10 DEF ListingInv

LEMMA CountCame ==
    ASSUME CasesTyped, ListingInv, NEW m \in cases_net, CasesView!CountAnswered(m)
    PROVE  CasesTyped' /\ ListingInv'
<1>1. CasesStored /\ CasesSent(cases_net) /\ CasesListed /\ CasesEdited
  BY DEF CasesTyped
<1>2. CasesSent(cases_net \ {m}) /\ m \in CaseRequests /\ CaseSound(m)
  BY <1>1, CasesWithout
<1>3. /\ m.kind = "count" /\ m.at = "done"
      /\ cases_net' = cases_net \ {m} /\ cases_count' = Cardinality(m.answer)
      /\ UNCHANGED <<cases_filter, cases_skip, cases_listed, cases_grouped, cases_selected,
                     cases_loading, cases_failed, cases_stored, cases_suites, cases_known,
                     cases_unchecked, cases_suiteName, cases_edited, cases_apart, cases_steady>>
      /\ CasesView!Rendered
  BY CaseSizes DEF CasesView!CountAnswered, CasesView!project, CasesView!suite
<1>4. cases_count' \in Nat
  BY <1>2, <1>3, FS_CardinalityType DEF CaseSound
<1>5. /\ cases_moreLink' \in BOOLEAN /\ cases_moreLink' = LinkShown'
      /\ cases_draft' \subseteq Model.cases.Values /\ cases_shown' \subseteq Model.cases.Values
  BY <1>1, <1>3, CasesRendered DEF LinkShown
<1>6. CasesTyped'
  <2>1. CasesListed'
    BY <1>1, <1>3, <1>4, <1>5 DEF CasesListed
  <2>2. CasesEdited' /\ CasesStored'
    BY <1>1, <1>3, <1>5 DEF CasesEdited, CasesStored
  <2> QED BY <1>2, <1>3, <2>1, <2>2 DEF CasesTyped
<1>7. ASSUME cases_steady PROVE ListingInv'
  <2>1. /\ Waiting({"tree"}) = {} /\ CountAsked /\ PagesAsked /\ PagesListed
    BY <1>7 DEF ListingInv
  <2>2. /\ Waiting({"tree"})' = {} /\ Waiting({"more"})' = Waiting({"more"})
        /\ Waiting({"count"})' \subseteq Waiting({"count"}) /\ m \in Waiting({"count"})
    BY <1>3, <2>1 DEF Waiting
  <2>3. ListResult' = ListResult /\ \A s : ListPage(s)' = ListPage(s)
    BY <1>3 DEF ListResult, ListPage, CasesView!Result, CasesView!Page
  <2>4. CountAsked'
    BY <1>3, <2>1, <2>2, <2>3 DEF CountAsked
  <2>5. PagesAsked'
    BY <1>3, <2>1, <2>2, <2>3 DEF PagesAsked
  <2>6. PagesListed'
    BY <1>3, <2>1, <2>2, <2>3 DEF PagesListed
  <2> QED BY <1>5, <2>2, <2>4, <2>5, <2>6 DEF ListingInv
<1> QED BY <1>3, <1>6, <1>7 DEF ListingInv

(* A page has come: its test cases are in no other page under way. *)
LEMMA MoreCame ==
    ASSUME CasesTyped, ListingInv, NEW m \in cases_net, CasesView!MoreAnswered(m)
    PROVE  CasesTyped' /\ ListingInv'
<1>1. CasesStored /\ CasesSent(cases_net) /\ CasesListed /\ CasesEdited
  BY DEF CasesTyped
<1>2. CasesSent(cases_net \ {m}) /\ m \in CaseRequests /\ CaseSound(m)
  BY <1>1, CasesWithout
<1>3. /\ m.kind = "more" /\ m.at = "done" /\ cases_net' = cases_net \ {m}
      /\ cases_listed' = [i \in CaseIds |-> cases_listed[i] + IF i \in m.answer THEN 1 ELSE 0]
      /\ UNCHANGED <<cases_filter, cases_skip, cases_grouped, cases_count, cases_selected,
                     cases_loading, cases_failed, cases_stored, cases_suites, cases_known,
                     cases_unchecked, cases_suiteName, cases_edited, cases_apart, cases_steady>>
      /\ CasesView!Rendered
  BY DEF CasesView!MoreAnswered, CasesView!Joined, CasesView!project, CasesView!suite, CaseIds
<1>4. cases_listed' \in [CaseIds -> Nat]
  BY <1>1, <1>3 DEF CasesListed
<1>5. /\ cases_moreLink' \in BOOLEAN /\ cases_moreLink' = LinkShown'
      /\ cases_draft' \subseteq Model.cases.Values /\ cases_shown' \subseteq Model.cases.Values
  BY <1>1, <1>3, CasesRendered DEF LinkShown
<1>6. CasesTyped'
  <2>1. CasesListed'
    BY <1>1, <1>3, <1>4, <1>5 DEF CasesListed
  <2>2. CasesEdited' /\ CasesStored'
    BY <1>1, <1>3, <1>5 DEF CasesEdited, CasesStored
  <2> QED BY <1>2, <1>3, <2>1, <2>2 DEF CasesTyped
<1>7. ASSUME cases_steady PROVE ListingInv'
  <2>1. /\ Waiting({"tree"}) = {} /\ CountAsked /\ PagesAsked /\ PagesListed
    BY <1>7 DEF ListingInv
  <2>2. /\ Waiting({"tree"})' = {} /\ Waiting({"more"})' = Waiting({"more"}) \ {m}
        /\ Waiting({"count"})' = Waiting({"count"}) /\ m \in Waiting({"more"})
    BY <1>3, <2>1 DEF Waiting
  <2>3. ListResult' = ListResult /\ \A s : ListPage(s)' = ListPage(s)
    BY <1>3 DEF ListResult, ListPage, CasesView!Result, CasesView!Page
  <2>4. CountAsked'
    BY <1>3, <2>1, <2>2, <2>3 DEF CountAsked
  <2>5. PagesAsked'
    BY <1>3, <2>1, <2>2, <2>3 DEF PagesAsked
  <2>6. PagesListed'
    <3>1. ~cases_filter.grouped
      BY <2>1, <2>2 DEF PagesListed
    <3> DEFINE rank(i) == CasesView!Rank(ListResult, i)
               size == Model.cases.PageSize
    <3>2. cases_listed = [i \in CaseIds |->
             IF /\ i \in ListResult /\ rank(i) <= cases_skip + size
                /\ \A k \in Waiting({"more"}) : i \notin ListPage(k.skip)
               THEN 1 ELSE 0]
      BY <2>1, <3>1 DEF PagesListed
    <3>3. ListResult \in SUBSET Nat /\ IsFiniteSet(ListResult)
      BY <1>1, ResultOf DEF ListResult
    <3>4. Cardinality(ListResult) \in Nat /\ size \in Nat /\ cases_skip \in Nat
      BY <1>1, <3>3, FS_CardinalityType, CasesAssumption DEF CasesListed
    <3>5. \A i \in ListResult : rank(i) \in 1 .. Cardinality(ListResult)
      BY <3>3, RankOf
    <3>6. \A s : ListPage(s) = {i \in ListResult : rank(i) \in s + 1 .. s + size}
      BY <3>1 DEF ListPage, ListResult, CasesView!Page
    <3>7. \A k \in Waiting({"more"}) : k.skip \in Nat
      BY <1>1 DEF Waiting, CasesSent, CaseRequests
    <3> HIDE DEF rank, size
    <3>8. m.answer = ListPage(m.skip) /\ m.skip <= cases_skip
      BY <1>3, <2>1, <2>2 DEF PagesAsked
    <3>9. \A i \in ListPage(m.skip) :
             /\ i \in ListResult /\ rank(i) <= cases_skip + size
             /\ \A k \in Waiting({"more"}) \ {m} : i \notin ListPage(k.skip)
      <4> SUFFICES ASSUME NEW i \in ListPage(m.skip)
                   PROVE  /\ i \in ListResult /\ rank(i) <= cases_skip + size
                          /\ \A k \in Waiting({"more"}) \ {m} : i \notin ListPage(k.skip)
        OBVIOUS
      <4>1. i \in ListResult /\ rank(i) \in m.skip + 1 .. m.skip + size /\ rank(i) \in Nat
        BY <3>4, <3>5, <3>6
      <4>2. \A k \in Waiting({"more"}) \ {m} :
               m.skip + size <= k.skip \/ k.skip + size <= m.skip
        BY <2>1, <2>2 DEF PagesAsked, size
      <4>3. \A k \in Waiting({"more"}) \ {m} : rank(i) \notin k.skip + 1 .. k.skip + size
        BY <2>2, <3>4, <3>7, <4>1, <4>2
      <4> QED BY <2>2, <3>4, <3>6, <3>7, <3>8, <4>1, <4>3
    <3>10. \A i \in CaseIds :
              cases_listed'[i] =
                 IF /\ i \in ListResult /\ rank(i) <= cases_skip + size
                    /\ \A k \in Waiting({"more"}) \ {m} : i \notin ListPage(k.skip)
                   THEN 1 ELSE 0
      <4> SUFFICES ASSUME NEW i \in CaseIds
                   PROVE  cases_listed'[i] =
                             IF /\ i \in ListResult /\ rank(i) <= cases_skip + size
                                /\ \A k \in Waiting({"more"}) \ {m} : i \notin ListPage(k.skip)
                               THEN 1 ELSE 0
        OBVIOUS
      <4>1. cases_listed'[i] = cases_listed[i] + IF i \in ListPage(m.skip) THEN 1 ELSE 0
        BY <1>3, <3>8
      <4>2. CASE i \in ListPage(m.skip)
        <5>1. cases_listed[i] = 0
          BY <2>2, <3>2, <4>2
        <5>2. cases_listed'[i] = 1
          BY <4>1, <4>2, <5>1
        <5> QED BY <3>9, <4>2, <5>2
      <4>3. CASE i \notin ListPage(m.skip)
        <5>1. cases_listed[i] \in Nat
          BY <1>1 DEF CasesListed
        <5>2. cases_listed'[i] = cases_listed[i]
          BY <4>1, <4>3, <5>1
        <5> QED BY <3>2, <4>3, <5>2
      <4> QED BY <4>2, <4>3
    <3>11. cases_listed' = [i \in CaseIds |->
              IF /\ i \in ListResult /\ rank(i) <= cases_skip + size
                 /\ \A k \in Waiting({"more"}) \ {m} : i \notin ListPage(k.skip)
                THEN 1 ELSE 0]
      BY <1>4, <3>10
    <3> QED BY <1>3, <2>2, <2>3, <3>1, <3>11 DEF PagesListed, rank, size
  <2> QED BY <1>5, <2>2, <2>4, <2>5, <2>6 DEF ListingInv
<1> QED BY <1>3, <1>6, <1>7 DEF ListingInv
(* What else comes changes neither the rows nor what is asked of them, or   *)
(* has the tree fetched anew.                                               *)
LEMMA TreeAgain ==
    ASSUME CasesTyped, NEW m \in cases_net, CasesView!SuiteAnswered(m) \/ CasesView!TestCaseAdded(m)
    PROVE  CasesTyped' /\ ListingInv'
<1>1. CasesStored /\ CasesSent(cases_net) /\ CasesListed /\ CasesEdited
  BY DEF CasesTyped
<1>2. /\ CasesSent(cases_net \ {m}) /\ m \in CaseRequests /\ CaseSound(m)
  BY <1>1, CasesWithout
<1>3. CASE CasesView!SuiteAnswered(m)
  <2>1. /\ m.kind = "suite" /\ m.at = "done"
        /\ CasesView!OnFilter(cases_net \ {m}, m.filter, 0, CaseNone) /\ CasesView!Rendered
        /\ cases_edited' = [filter |-> m.filter, unchecked |-> {}]
        /\ cases_unchecked' = {} /\ cases_apart' = FALSE /\ cases_suiteName' = m.about
        /\ UNCHANGED <<cases_stored, cases_suites, cases_known, cases_selected>>
    BY <1>3 DEF CasesView!SuiteAnswered, CasesView!project, CaseNone
  <2>2. /\ m.filter \in Model.cases.Filters \cup {CasesView!NoFilter}
        /\ m.about \in Model.cases.Names
    BY <1>2, <2>1 DEF CaseRequests, CaseSound
  <2>3. CasesSent(cases_net') /\ CasesListed' /\ cases_steady' = FALSE
    BY <1>1, <1>2, <2>1, <2>2, TreeAsked DEF CasesListed
  <2>4. CasesEdited'
    BY <1>1, <2>1, <2>2, <2>3, CasesRendered DEF CasesEdited
  <2> QED BY <1>1, <2>1, <2>3, <2>4 DEF CasesTyped, CasesStored, ListingInv
<1>4. CASE CasesView!TestCaseAdded(m)
  <2>1. /\ m.kind = "create" /\ m.at = "done"
        /\ CasesView!OnFilter(cases_net \ {m}, cases_filter, cases_skip, CasesView!Max(m.answer))
        /\ CasesView!Rendered
        /\ UNCHANGED <<cases_stored, cases_suites, cases_known, cases_selected, cases_unchecked,
                       cases_suiteName, cases_edited, cases_apart>>
    BY <1>4 DEF CasesView!TestCaseAdded, CasesView!project, CasesView!suite
  <2>2. PICK i \in CaseIds : m.answer = {i}
    BY <1>2, <2>1 DEF CaseSound
  <2>3. CasesView!Max(m.answer) \in CaseIds
    <3>1. i \in {i} /\ \A j \in {i} : i >= j
      BY CasesAssumption DEF CaseIds
    <3> QED BY <2>2, <3>1 DEF CasesView!Max
  <2>4. CasesSent(cases_net') /\ CasesListed' /\ cases_steady' = FALSE
    BY <1>1, <1>2, <2>1, <2>3, TreeAsked DEF CasesListed
  <2>5. CasesEdited'
    BY <1>1, <2>1, <2>4, CasesRendered DEF CasesEdited
  <2> QED BY <1>1, <2>1, <2>4, <2>5 DEF CasesTyped, CasesStored, ListingInv
<1> QED BY <1>3, <1>4

LEMMA OtherCame ==
    ASSUME CasesTyped, ListingInv, NEW m \in cases_net,
           \/ CasesView!AttributesAnswered(m) \/ CasesView!SuitesAnswered(m)
           \/ CasesView!SuiteSaved(m)
    PROVE  CasesTyped' /\ ListingInv'
<1>1. CasesStored /\ CasesSent(cases_net) /\ CasesListed /\ CasesEdited
  BY DEF CasesTyped
<1>2. CasesSent(cases_net \ {m}) /\ m \in CaseRequests /\ CaseSound(m)
  BY <1>1, CasesWithout
<1>3. CASE CasesView!AttributesAnswered(m)
  <2>1. /\ m.kind = "attributes" /\ cases_net' = cases_net \ {m} /\ cases_known' = TRUE
        /\ UNCHANGED <<cases_filter, cases_skip, cases_listed, cases_grouped, cases_count,
                       cases_selected, cases_loading, cases_failed, cases_stored, cases_suites,
                       cases_unchecked, cases_suiteName, cases_edited, cases_apart, cases_steady>>
        /\ CasesView!Rendered
    BY <1>3 DEF CasesView!AttributesAnswered, CasesView!project, CasesView!suite
  <2>2. /\ cases_moreLink' \in BOOLEAN /\ cases_moreLink' = LinkShown'
        /\ cases_draft' \subseteq Model.cases.Values /\ cases_shown' \subseteq Model.cases.Values
    BY <1>1, <2>1, CasesRendered DEF LinkShown
  <2>3. CasesListed' /\ CasesEdited' /\ CasesStored'
    <3>1. CasesListed'
      BY <1>1, <2>1, <2>2 DEF CasesListed
    <3>2. CasesEdited'
      BY <1>1, <2>1, <2>2 DEF CasesEdited
    <3>3. CasesStored'
      BY <1>1, <2>1, <2>2 DEF CasesStored
    <3> QED BY <3>1, <3>2, <3>3
  <2>4. \A K \in SUBSET {"tree", "more", "count"} : Waiting(K)' = Waiting(K)
    BY <2>1 DEF Waiting
  <2>5. ListingInv'
    BY <2>1, <2>2, <2>4, ListingStays
  <2> QED BY <1>2, <2>1, <2>3, <2>5 DEF CasesTyped
<1>4. CASE CasesView!SuitesAnswered(m)
  <2>1. /\ m.kind = "suites"
        /\ \/ cases_net' = cases_net \ {m}
           \/ cases_net' = (cases_net \ {m}) \cup
                              {[m EXCEPT !.kind = "save", !.at = "sent", !.answer = {}]}
        /\ cases_failed' = TRUE \/ UNCHANGED cases_failed
        /\ UNCHANGED <<cases_filter, cases_skip, cases_listed, cases_grouped, cases_count,
                       cases_moreLink, cases_selected, cases_loading, cases_stored, cases_suites,
                       cases_known, cases_unchecked, cases_draft, cases_shown, cases_suiteName,
                       cases_edited, cases_apart, cases_steady>>
    BY <1>4 DEF CasesView!SuitesAnswered, CasesView!project, CasesView!suite, CasesView!form
  <2>2. PICK n : n = [m EXCEPT !.kind = "save", !.at = "sent", !.answer = {}]
    OBVIOUS
  <2>3. n \in CaseRequests /\ n.kind = "save" /\ n.at = "sent" /\ n.about = m.about
    BY <1>2, <2>2 DEF CaseRequests, CasesView!Kinds
  <2>4. CaseSound(n)
    BY <1>2, <2>1, <2>3 DEF CaseSound
  <2>5. CasesSent(cases_net')
    BY <1>1, <1>2, <2>1, <2>2, <2>3, <2>4, CasesChanged
  <2>6. CasesListed' /\ CasesEdited' /\ CasesStored'
    <3>1. CasesListed'
      BY <1>1, <2>1 DEF CasesListed
    <3>2. CasesEdited'
      BY <1>1, <2>1 DEF CasesEdited
    <3>3. CasesStored'
      BY <1>1, <2>1 DEF CasesStored
    <3> QED BY <3>1, <3>2, <3>3
  <2>7. \A K \in SUBSET {"tree", "more", "count"} : Waiting(K)' = Waiting(K)
    BY <2>1, <2>2, <2>3 DEF Waiting
  <2>8. ListingInv'
    BY <2>1, <2>7, ListingStays
  <2> QED BY <2>5, <2>6, <2>8 DEF CasesTyped
<1>5. CASE CasesView!SuiteSaved(m)
  <2>1. /\ m.kind = "save" /\ cases_net' = cases_net \ {m}
        /\ cases_suiteName' = m.about /\ cases_apart' = TRUE
        /\ cases_edited' = [filter |-> m.filter, unchecked |-> m.excluded]
        /\ UNCHANGED <<cases_stored, cases_suites, cases_known, CasesView!list, cases_unchecked,
                       cases_draft, cases_shown, cases_steady>>
    BY <1>5 DEF CasesView!SuiteSaved, CasesView!project
  <2>2. /\ m.filter \in Model.cases.Filters \cup {CasesView!NoFilter}
        /\ m.excluded \in SUBSET CaseIds /\ m.about \in Model.cases.Names
    BY <1>2, <2>1 DEF CaseRequests, CaseSound
  <2>3. CasesEdited' /\ CasesListed' /\ CasesStored'
    <3>1. CasesEdited'
      BY <1>1, <2>1, <2>2 DEF CasesEdited
    <3>2. CasesListed'
      BY <1>1, <2>1, ListSame
    <3>3. CasesStored'
      BY <1>1, <2>1 DEF CasesStored
    <3> QED BY <3>1, <3>2, <3>3
  <2>4. \A K \in SUBSET {"tree", "more", "count"} : Waiting(K)' = Waiting(K)
    BY <2>1 DEF Waiting
  <2>5. ListingInv'
    BY <2>1, <2>4, ListSame, ListingStays
  <2> QED BY <1>2, <2>1, <2>3, <2>5 DEF CasesTyped
<1> QED BY <1>3, <1>4, <1>5

LEMMA SomethingFailed ==
    ASSUME CasesTyped, ListingInv, NEW m \in cases_net, CasesView!Failed(m)
    PROVE  CasesTyped' /\ ListingInv'
<1>1. CasesStored /\ CasesSent(cases_net) /\ CasesListed /\ CasesEdited
  BY DEF CasesTyped
<1>2. CasesSent(cases_net \ {m}) /\ m \in CaseRequests
  BY <1>1, CasesWithout
<1>3. /\ cases_net' = cases_net \ {m} /\ cases_failed' = TRUE
      /\ cases_loading' = (cases_loading /\ m.kind # "tree")
      /\ cases_steady' = (cases_steady /\ m.kind \notin {"tree", "more", "count"})
      /\ UNCHANGED <<cases_filter, cases_skip, cases_listed, cases_grouped, cases_count,
                     cases_selected, cases_stored, cases_suites, cases_known,
                     cases_unchecked, cases_suiteName, cases_edited, cases_apart>>
      /\ UNCHANGED <<cases_moreLink, cases_draft, cases_shown>> \/ CasesView!Rendered
  BY DEF CasesView!Failed, CasesView!project, CasesView!suite, CasesView!Listing
<1>4. /\ cases_moreLink' \in BOOLEAN
      /\ cases_moreLink' = cases_moreLink \/ cases_moreLink' = LinkShown'
      /\ cases_draft' \subseteq Model.cases.Values /\ cases_shown' \subseteq Model.cases.Values
  BY <1>1, <1>3, CasesRendered DEF LinkShown, CasesListed, CasesEdited
<1>5. cases_loading' \in BOOLEAN /\ cases_steady' \in BOOLEAN
  BY <1>3, Zenon
<1>6. CasesListed' /\ CasesEdited' /\ CasesStored'
  <2>1. UNCHANGED <<cases_filter, cases_skip, cases_listed, cases_grouped, cases_count,
                    cases_selected, cases_stored, cases_suites, cases_known, cases_unchecked,
                    cases_suiteName, cases_edited, cases_apart>> /\ cases_failed' \in BOOLEAN
    BY <1>3
  <2> QED BY ONLY <1>1, <1>4, <1>5, <2>1 DEF CasesListed, CasesEdited, CasesStored
<1>7. CASE m.kind \in {"tree", "more", "count"}
  BY <1>2, <1>3, <1>6, <1>7 DEF CasesTyped, ListingInv
<1>8. CASE m.kind \notin {"tree", "more", "count"}
  <2>1. \A K \in SUBSET {"tree", "more", "count"} : Waiting(K)' = Waiting(K)
    BY <1>3, <1>8 DEF Waiting
  <2>2. ListingInv'
    BY <1>3, <1>4, <2>1, ListingStays
  <2> QED BY <1>2, <1>3, <1>6, <2>2 DEF CasesTyped
<1> QED BY <1>7, <1>8
(* Another page is asked for: it is the one after what is listed or asked   *)
(* for, and a result with groups has none.                                  *)
LEMMA MoreAsked ==
    ASSUME CasesTyped, ListingInv, CasesView!LoadMore
    PROVE  CasesTyped' /\ ListingInv'
<1>1. CasesStored /\ CasesSent(cases_net) /\ CasesListed /\ CasesEdited
  BY DEF CasesTyped
<1>2. /\ cases_moreLink /\ CasesView!CanSend(cases_net)
      /\ cases_skip' = IF cases_filter.grouped THEN 0 ELSE cases_skip + Model.cases.PageSize
      /\ cases_net' = CasesView!With(cases_net, "more", cases_filter, cases_skip', CaseNone)
      /\ cases_steady' = (cases_steady /\ \A n \in cases_net : n.kind # "tree")
      /\ UNCHANGED <<cases_filter, cases_listed, cases_grouped, cases_count, cases_moreLink,
                     cases_selected, cases_loading, cases_failed, cases_unchecked,
                     cases_draft, cases_shown, cases_suiteName, cases_edited, cases_apart,
                     cases_stored, cases_suites, cases_known>>
  BY DEF CasesView!LoadMore, CasesView!UserKeeps, CasesView!project, CasesView!form,
     CasesView!suite, CaseNone
<1>3. cases_skip' \in Nat /\ cases_steady' \in BOOLEAN
  <2>1. cases_skip' \in Nat
    BY <1>1, <1>2, CasesAssumption DEF CasesListed
  <2>2. cases_steady' \in BOOLEAN
    BY <1>2, Zenon
  <2> QED BY <2>1, <2>2
<1>4. PICK s : s = cases_skip'
  OBVIOUS
<1>5. /\ CasesSent(cases_net')
      /\ \E n : /\ cases_net' = cases_net \cup {n} /\ n.kind = "more"
                /\ n.filter = cases_filter /\ n.skip = s /\ n.at = "sent"
  <2>1. PICK kind, x, f : kind = "more" /\ x = CaseNone /\ f = cases_filter
    OBVIOUS
  <2>2. /\ kind \in CasesView!Kinds /\ kind \notin {"suite", "suites", "save", "tree"}
        /\ x \in CaseIds \cup Model.cases.Names \cup {CaseNone}
    BY <2>1 DEF CasesView!Kinds
  <2>3. /\ cases_net' = CasesView!With(cases_net, kind, f, s, x) /\ s \in Nat
        /\ f \in Model.cases.Filters \cup {CasesView!NoFilter}
        /\ CasesSent(cases_net) /\ CasesView!CanSend(cases_net) /\ CasesEdited
    BY <1>1, <1>2, <1>3, <1>4, <2>1 DEF CasesListed
  <2>4. /\ CasesSent(cases_net')
        /\ \E n : /\ cases_net' = cases_net \cup {n} /\ n.kind = kind
                  /\ n.filter = f /\ n.skip = s /\ n.at = "sent"
    BY ONLY <2>2, <2>3, CaseAsked
  <2> QED BY <2>1, <2>4
<1>6. PICK n : /\ cases_net' = cases_net \cup {n} /\ n.kind = "more"
               /\ n.filter = cases_filter /\ n.skip = s /\ n.at = "sent"
  BY <1>5
<1>7. CasesTyped'
  <2>1. CasesListed' /\ CasesEdited' /\ CasesStored'
    <3>1. CasesListed'
      BY <1>1, <1>2, <1>3 DEF CasesListed
    <3>2. CasesEdited'
      BY <1>1, <1>2, <1>3 DEF CasesEdited
    <3>3. CasesStored'
      BY <1>1, <1>2, <1>3 DEF CasesStored
    <3> QED BY <3>1, <3>2, <3>3
  <2> QED BY <1>5, <2>1 DEF CasesTyped
<1>8. ASSUME cases_steady' PROVE ListingInv'
  <2>1. /\ Waiting({"tree"}) = {} /\ CountAsked /\ PagesAsked /\ PagesListed
        /\ Waiting({"more"}) # {} \/ cases_moreLink = LinkShown
    BY <1>2, <1>8 DEF ListingInv
  <2>2. /\ Waiting({"tree"})' = {} /\ Waiting({"more"})' = Waiting({"more"}) \cup {n}
        /\ Waiting({"count"})' = Waiting({"count"})
    BY <1>6, <2>1 DEF Waiting
  <2>3. ListResult' = ListResult /\ \A t : ListPage(t)' = ListPage(t)
    BY <1>2 DEF ListResult, ListPage, CasesView!Result, CasesView!Page
  <2>4. ~cases_filter.grouped
    BY <1>2, <2>1 DEF PagesListed, LinkShown, CasesView!ShowLoadMore
  <2> DEFINE rank(i) == CasesView!Rank(ListResult, i)
             size == Model.cases.PageSize
  <2>5. s = cases_skip + size /\ cases_skip' = s /\ size \in Nat /\ cases_skip \in Nat
    BY <1>1, <1>2, <1>4, <2>4, CasesAssumption DEF CasesListed
  <2>6. \A k \in Waiting({"more"}) : k.skip \in Nat /\ k.skip <= cases_skip
    BY <1>1, <2>1 DEF Waiting, CasesSent, CaseRequests, PagesAsked
  <2>7. CountAsked'
    BY <1>2, <2>1, <2>2, <2>3 DEF CountAsked
  <2>8. PagesAsked'
    <3>1. \A k \in Waiting({"more"})' :
             /\ k.filter = cases_filter' /\ k.skip <= cases_skip'
             /\ k.at = "done" => k.answer = ListPage(k.skip)'
      BY <1>2, <1>6, <2>1, <2>2, <2>3, <2>5, <2>6 DEF PagesAsked
    <3>2. \A k, l \in Waiting({"more"}) : k = l \/ k.skip + size <= l.skip
                                                \/ l.skip + size <= k.skip
      BY <2>1 DEF PagesAsked
    <3>3. \A k \in Waiting({"more"}) : k.skip + size <= n.skip
      BY <1>6, <2>5, <2>6
    <3>4. \A k, l \in Waiting({"more"})' : k = l \/ k.skip + size <= l.skip
                                                 \/ l.skip + size <= k.skip
      BY <2>2, <3>2, <3>3
    <3> QED BY <3>1, <3>4 DEF PagesAsked
  <2>9. PagesListed'
    <3>1. cases_listed = [i \in CaseIds |->
             IF /\ i \in ListResult /\ rank(i) <= cases_skip + size
                /\ \A k \in Waiting({"more"}) : i \notin ListPage(k.skip)
               THEN 1 ELSE 0]
      BY <2>1, <2>4 DEF PagesListed
    <3>2. ListResult \in SUBSET Nat /\ IsFiniteSet(ListResult)
      BY <1>1, ResultOf DEF ListResult
    <3>3. \A i \in ListResult : rank(i) \in Nat
      BY <3>2, FS_CardinalityType, RankOf
    <3>4. \A t : ListPage(t) = {i \in ListResult : rank(i) \in t + 1 .. t + size}
      BY <2>4 DEF ListPage, ListResult, CasesView!Page
    <3> HIDE DEF rank, size
    <3>5. \A i \in ListResult :
             rank(i) <= cases_skip + size <=> rank(i) <= s + size /\ i \notin ListPage(s)
      <4> SUFFICES ASSUME NEW i \in ListResult
                   PROVE  rank(i) <= cases_skip + size
                             <=> rank(i) <= s + size /\ i \notin ListPage(s)
        OBVIOUS
      <4>1. rank(i) \in Nat /\ (i \in ListPage(s) <=> rank(i) \in s + 1 .. s + size)
        BY <3>3, <3>4
      <4> QED BY <2>5, <4>1
    <3>6. \A i : (\A k \in Waiting({"more"})' : i \notin ListPage(k.skip)) <=>
                 /\ i \notin ListPage(s)
                 /\ \A k \in Waiting({"more"}) : i \notin ListPage(k.skip)
      BY <1>6, <2>2
    <3>7. \A i \in CaseIds :
             (IF /\ i \in ListResult /\ rank(i) <= cases_skip + size
                 /\ \A k \in Waiting({"more"}) : i \notin ListPage(k.skip)
                THEN 1 ELSE 0) =
             (IF /\ i \in ListResult /\ rank(i) <= cases_skip' + size
                 /\ \A k \in Waiting({"more"})' : i \notin ListPage(k.skip)
                THEN 1 ELSE 0)
      BY <2>5, <3>5, <3>6
    <3>8. cases_listed' = [i \in CaseIds |->
             IF /\ i \in ListResult /\ rank(i) <= cases_skip' + size
                /\ \A k \in Waiting({"more"})' : i \notin ListPage(k.skip)
               THEN 1 ELSE 0]
      BY <1>2, <3>1, <3>7
    <3> QED BY <1>2, <2>3, <2>4, <3>8 DEF PagesListed, rank, size
  <2>10. Waiting({"more"})' # {}
    BY <2>2
  <2> QED BY <2>2, <2>7, <2>8, <2>9, <2>10 DEF ListingInv
<1> QED BY <1>7, <1>8 DEF ListingInv

LEMMA FormsOfList ==
    ASSUME CasesTyped, ListingInv,
           \/ \E f \in Model.cases.Filters : CasesView!ChangeFilter(f)
           \/ \E S \in {{i} : i \in CasesView!InTree} \cup {cases_grouped}, b \in BOOLEAN :
                 CasesView!Check(S, b)
           \/ \E i \in Model.cases.Ids : CasesView!OnTestcaseSelected(i)
           \/ \E v \in SUBSET Model.cases.Values : CasesView!EditAttributeValues(v)
           \/ \E name \in Model.cases.Names : CasesView!SuiteAttrChanged(name)
           \/ CasesView!HandleClose
    PROVE  CasesTyped' /\ ListingInv'
<1>1. CasesStored /\ CasesSent(cases_net) /\ CasesListed /\ CasesEdited
  BY DEF CasesTyped
<1>2. /\ UNCHANGED <<cases_net, cases_stored, cases_suites, cases_known>>
      /\ \A K \in SUBSET {"tree", "more", "count"} : Waiting(K)' = Waiting(K)
  BY DEF CasesView!ChangeFilter, CasesView!Check, CasesView!OnTestcaseSelected,
     CasesView!EditAttributeValues, CasesView!SuiteAttrChanged, CasesView!HandleClose,
     CasesView!UserKeeps, CasesView!project, Waiting
<1>3. CasesSent(cases_net') /\ CasesStored'
  BY <1>1, <1>2 DEF CasesStored
<1>4. ASSUME NEW f \in Model.cases.Filters, CasesView!ChangeFilter(f)
      PROVE  CasesTyped' /\ ListingInv'
  <2>1. /\ cases_edited' = [cases_edited EXCEPT !.filter = f]
        /\ cases_filter' = (IF cases_apart THEN cases_filter ELSE f)
        /\ cases_steady' = (cases_steady /\ cases_apart)
        /\ UNCHANGED <<cases_skip, cases_listed, cases_grouped, cases_count, cases_moreLink,
                       cases_selected, cases_loading, cases_failed, cases_unchecked, cases_draft,
                       cases_shown, cases_suiteName, cases_apart>>
    BY <1>4 DEF CasesView!ChangeFilter
  <2>2. cases_steady' \in BOOLEAN
    BY <2>1, Zenon
  <2>3. CasesListed' /\ CasesEdited'
    BY <1>1, <1>2, <2>1, <2>2 DEF CasesListed, CasesEdited
  <2>4. CASE cases_apart
    BY <1>2, <1>3, <2>1, <2>3, <2>4, ListingStays DEF CasesTyped
  <2>5. CASE ~cases_apart
    BY <1>3, <2>1, <2>3, <2>5 DEF CasesTyped, ListingInv
  <2> QED BY <2>4, <2>5
<1>5. ASSUME NEW S \in {{i} : i \in CasesView!InTree} \cup {cases_grouped}, NEW b \in BOOLEAN,
             CasesView!Check(S, b)
      PROVE  CasesTyped' /\ ListingInv'
  <2>1. /\ S \subseteq CasesView!InTree
        /\ cases_unchecked' = (IF b THEN cases_unchecked \ S ELSE cases_unchecked \cup S)
        /\ cases_edited' = (IF cases_apart THEN cases_edited
                            ELSE [cases_edited EXCEPT !.unchecked = cases_unchecked'])
        /\ UNCHANGED <<cases_filter, cases_skip, cases_listed, cases_grouped, cases_count,
                       cases_selected, cases_loading, cases_failed, cases_suiteName, cases_apart,
                       cases_steady>>
        /\ CasesView!Rendered
    BY <1>5 DEF CasesView!Check
  <2>2. CasesView!InTree \subseteq CaseIds
    BY <1>1 DEF CasesView!InTree, CasesListed, CaseIds
  <2>3. cases_unchecked' \subseteq CaseIds
    BY <1>1, <2>1, <2>2 DEF CasesEdited
  <2>4. cases_edited' \in [filter : Model.cases.Filters \cup {CasesView!NoFilter},
                           unchecked : SUBSET CaseIds]
    BY <1>1, <2>1, <2>3 DEF CasesEdited
  <2>5. /\ cases_moreLink' \in BOOLEAN /\ cases_moreLink' = LinkShown'
        /\ cases_draft' \subseteq Model.cases.Values /\ cases_shown' \subseteq Model.cases.Values
    BY <1>1, <2>1, CasesRendered DEF LinkShown
  <2>6. CasesListed' /\ CasesEdited'
    BY <1>1, <1>2, <2>1, <2>3, <2>4, <2>5 DEF CasesListed, CasesEdited
  <2>7. ListingInv'
    BY <1>2, <2>1, <2>5, ListingStays
  <2> QED BY <1>3, <2>6, <2>7 DEF CasesTyped
<1>6. ASSUME NEW i \in Model.cases.Ids, CasesView!OnTestcaseSelected(i)
      PROVE  CasesTyped' /\ ListingInv'
  <2>1. /\ cases_selected' = i
        /\ UNCHANGED <<cases_filter, cases_skip, cases_listed, cases_grouped, cases_count,
                       cases_loading, cases_failed, cases_unchecked, cases_suiteName,
                       cases_edited, cases_apart, cases_steady>>
        /\ CasesView!Rendered
    BY <1>6 DEF CasesView!OnTestcaseSelected, CasesView!suite
  <2>2. /\ cases_moreLink' \in BOOLEAN /\ cases_moreLink' = LinkShown'
        /\ cases_draft' \subseteq Model.cases.Values /\ cases_shown' \subseteq Model.cases.Values
    BY <1>1, <2>1, CasesRendered DEF LinkShown
  <2>3. CasesListed' /\ CasesEdited'
    BY <1>1, <1>2, <2>1, <2>2 DEF CasesListed, CasesEdited, CaseIds
  <2>4. ListingInv'
    BY <1>2, <2>1, <2>2, ListingStays
  <2> QED BY <1>3, <2>3, <2>4 DEF CasesTyped
<1>7. ASSUME \/ \E v \in SUBSET Model.cases.Values : CasesView!EditAttributeValues(v)
             \/ \E name \in Model.cases.Names : CasesView!SuiteAttrChanged(name)
             \/ CasesView!HandleClose
      PROVE  CasesTyped' /\ ListingInv'
  <2>1. /\ UNCHANGED <<CasesView!list, cases_unchecked, cases_edited, cases_apart, cases_steady>>
        /\ cases_draft' = cases_draft \/ cases_draft' \subseteq Model.cases.Values
        /\ cases_shown' = cases_shown \/ cases_shown' \subseteq Model.cases.Values
        /\ cases_suiteName' \in Model.cases.Names \cup {CaseNone, cases_suiteName}
    BY <1>7 DEF CasesView!EditAttributeValues, CasesView!SuiteAttrChanged, CasesView!HandleClose,
       CasesView!suite, CaseNone
  <2>2. CasesListed' /\ CasesEdited'
    BY <1>1, <1>2, <2>1, ListSame DEF CasesEdited
  <2>3. ListingInv'
    BY <1>2, <2>1, ListSame, ListingStays
  <2> QED BY <1>3, <2>2, <2>3 DEF CasesTyped
<1> QED BY <1>4, <1>5, <1>6, <1>7
LEMMA AskedByUser ==
    ASSUME CasesTyped, ListingInv,
           CasesView!HandleFilter \/ CasesView!CreateTestCase \/ CasesView!SaveSuite
    PROVE  CasesTyped' /\ ListingInv'
<1>1. CasesStored /\ CasesSent(cases_net) /\ CasesListed /\ CasesEdited
  BY DEF CasesTyped
<1>2. UNCHANGED <<cases_stored, cases_suites, cases_known>> /\ CasesStored'
  BY <1>1 DEF CasesView!HandleFilter, CasesView!CreateTestCase, CasesView!SaveSuite,
     CasesView!UserKeeps, CasesView!project, CasesStored
<1>3. CASE CasesView!HandleFilter
  <2>1. /\ CasesView!OnFilter(cases_net, cases_edited.filter, 0, CaseNone) /\ CasesView!Rendered
        /\ cases_unchecked' = cases_edited.unchecked /\ cases_apart' = FALSE
        /\ UNCHANGED <<cases_selected, cases_suiteName, cases_edited>>
    BY <1>3 DEF CasesView!HandleFilter, CaseNone
  <2>2. /\ cases_edited.filter \in Model.cases.Filters \cup {CasesView!NoFilter}
        /\ cases_edited.unchecked \subseteq CaseIds
    BY <1>1 DEF CasesEdited
  <2>3. CasesSent(cases_net') /\ CasesListed' /\ cases_steady' = FALSE
    BY <1>1, <2>1, <2>2, TreeAsked DEF CasesListed
  <2>4. CasesEdited'
    BY <1>1, <1>2, <2>1, <2>2, <2>3, CasesRendered DEF CasesEdited
  <2> QED BY <1>2, <2>3, <2>4 DEF CasesTyped, ListingInv
<1>4. ASSUME NEW kind \in {"create", "suites"},
             NEW f \in Model.cases.Filters \cup {CasesView!NoFilter},
             NEW x \in CaseIds \cup Model.cases.Names \cup {CaseNone},
             kind = "suites" => x \in Model.cases.Names,
             CasesView!CanSend(cases_net), cases_net' = CasesView!With(cases_net, kind, f, 0, x)
      PROVE  /\ CasesSent(cases_net')
             /\ \A K \in SUBSET {"tree", "more", "count"} : Waiting(K)' = Waiting(K)
  <2>1. PICK s : s = 0
    OBVIOUS
  <2>2. kind \in CasesView!Kinds /\ kind \notin {"suite", "save", "tree"}
    BY DEF CasesView!Kinds
  <2>3. s \in Nat /\ cases_net' = CasesView!With(cases_net, kind, f, s, x)
    BY <1>4, <2>1
  <2>4. /\ CasesSent(cases_net')
        /\ \E n : cases_net' = cases_net \cup {n} /\ n.kind = kind
    BY ONLY <1>1, <1>4, <2>2, <2>3, CaseAsked
  <2> QED BY <2>4 DEF Waiting
<1>5. CASE CasesView!CreateTestCase
  <2>1. /\ CasesView!CanSend(cases_net)
        /\ cases_net' = CasesView!With(cases_net, "create", CasesView!NoFilter, 0, CaseNone)
        /\ UNCHANGED <<CasesView!list, cases_unchecked, CasesView!form, cases_steady>>
    BY <1>5 DEF CasesView!CreateTestCase, CaseNone
  <2>2. /\ CasesSent(cases_net')
        /\ \A K \in SUBSET {"tree", "more", "count"} : Waiting(K)' = Waiting(K)
    <3>1. PICK kind, f, x : kind = "create" /\ f = CasesView!NoFilter /\ x = CaseNone
      OBVIOUS
    <3> QED BY <1>4, <2>1, <3>1
  <2>3. CasesListed' /\ CasesEdited'
    BY <1>1, <1>2, <2>1, ListSame DEF CasesEdited, CasesView!form, CasesView!suite
  <2>4. ListingInv'
    BY <1>2, <2>1, <2>2, ListSame, ListingStays
  <2> QED BY <1>2, <2>2, <2>3, <2>4 DEF CasesTyped
<1>6. CASE CasesView!SaveSuite
  <2>1. /\ \/ cases_failed' = TRUE /\ UNCHANGED cases_net
           \/ /\ CasesView!CanSend(cases_net) /\ cases_suiteName # CaseNone
              /\ cases_net' = CasesView!With(cases_net, "suites", cases_edited.filter, 0,
                                             cases_suiteName)
              /\ UNCHANGED cases_failed
        /\ UNCHANGED <<cases_filter, cases_skip, cases_listed, cases_grouped, cases_count,
                       cases_moreLink, cases_selected, cases_loading, cases_unchecked,
                       cases_draft, cases_shown, cases_suiteName, cases_edited, cases_apart,
                       cases_steady>>
    BY <1>6 DEF CasesView!SaveSuite, CasesView!form, CasesView!suite, CaseNone
  <2>2. /\ CasesSent(cases_net')
        /\ \A K \in SUBSET {"tree", "more", "count"} : Waiting(K)' = Waiting(K)
    <3>1. CASE UNCHANGED cases_net
      BY <1>1, <3>1 DEF Waiting
    <3>2. CASE /\ CasesView!CanSend(cases_net) /\ cases_suiteName # CaseNone
               /\ cases_net' = CasesView!With(cases_net, "suites", cases_edited.filter, 0,
                                              cases_suiteName)
      <4>1. PICK kind, f, x :
               kind = "suites" /\ f = cases_edited.filter /\ x = cases_suiteName
        OBVIOUS
      <4>2. /\ f \in Model.cases.Filters \cup {CasesView!NoFilter} /\ x \in Model.cases.Names
        BY <1>1, <3>2, <4>1 DEF CasesEdited
      <4> QED BY <1>4, <3>2, <4>1, <4>2
    <3> QED BY <2>1, <3>1, <3>2
  <2>3. CasesListed' /\ CasesEdited'
    BY <1>1, <1>2, <2>1 DEF CasesListed, CasesEdited
  <2>4. ListingInv'
    BY <1>2, <2>1, <2>2, ListingStays
  <2> QED BY <1>2, <2>2, <2>3, <2>4 DEF CasesTyped
<1> QED BY <1>3, <1>5, <1>6

LEMMA ListMounted ==
    ASSUME CasesTyped, ListingInv, NEW f \in Model.cases.Filters,
           \/ \E t \in Model.cases.Begin \cup {CaseNone} : CasesView!MountWithAddress(f, t)
           \/ \E name \in Model.cases.Names : CasesView!MountWithSuite(f, name)
    PROVE  CasesTyped' /\ ListingInv'
<1>1. CasesStored /\ CasesSent(cases_net) /\ CasesListed /\ CasesEdited
  BY DEF CasesTyped
<1>2. cases_net = {} /\ Cardinality(cases_net) = 0
  BY FS_EmptySet DEF CasesView!MountWithAddress, CasesView!MountWithSuite, CasesView!Mounted
<1>3. CasesView!CanSend(cases_net) /\ 1 < Model.cases.MaxInFlight
  BY <1>2, CaseSizes, CasesAssumption DEF CasesView!CanSend
<1>4. ASSUME NEW n, CasesSent(n), CasesView!CanSend(n)
      PROVE  LET w == CasesView!With(n, "attributes", CasesView!NoFilter, 0, CaseNone) IN
             /\ CasesSent(w) /\ Cardinality(w) <= Cardinality(n) + 1
             /\ \E m : w = n \cup {m} /\ m.kind = "attributes"
  <2>1. PICK kind, g, s, x : kind = "attributes" /\ g = CasesView!NoFilter /\ s = 0 /\ x = CaseNone
    OBVIOUS
  <2>2. /\ kind \in CasesView!Kinds /\ kind \notin {"suite", "suites", "save", "tree"}
        /\ g \in Model.cases.Filters \cup {CasesView!NoFilter} /\ s \in Nat
        /\ x \in CaseIds \cup Model.cases.Names \cup {CaseNone}
    BY <2>1 DEF CasesView!Kinds
  <2>3. /\ CasesSent(CasesView!With(n, kind, g, s, x))
        /\ Cardinality(CasesView!With(n, kind, g, s, x)) <= Cardinality(n) + 1
        /\ \E m : CasesView!With(n, kind, g, s, x) = n \cup {m} /\ m.kind = kind
    BY ONLY <1>1, <1>4, <2>2, CaseAsked
  <2> QED BY <2>1, <2>3
<1>5. ASSUME NEW t \in Model.cases.Begin \cup {CaseNone}, CasesView!MountWithAddress(f, t)
      PROVE  CasesTyped' /\ ListingInv'
  <2>1. PICK n : n = CasesView!With(cases_net, "attributes", CasesView!NoFilter, 0, CaseNone)
    OBVIOUS
  <2>2. /\ CasesView!OnFilter(n, f, 0, CaseNone) /\ CasesView!Rendered
        /\ cases_apart' = FALSE /\ cases_selected' = t
        /\ cases_edited' = [cases_edited EXCEPT !.filter = f]
        /\ UNCHANGED <<cases_stored, cases_suites, cases_known, cases_unchecked, cases_suiteName>>
    BY <1>5, <2>1 DEF CasesView!MountWithAddress, CasesView!project, CaseNone
  <2>3. CasesSent(n)
    BY <1>1, <1>3, <1>4, <2>1
  <2>4. t \in CaseIds \cup {CaseNone}
    BY CasesAssumption DEF CaseIds
  <2>5. CasesSent(cases_net') /\ CasesListed' /\ cases_steady' = FALSE
    BY <2>2, <2>3, <2>4, TreeAsked
  <2>6. CasesEdited' /\ CasesStored'
    BY <1>1, <2>2, <2>5, CasesRendered DEF CasesEdited, CasesStored
  <2> QED BY <2>5, <2>6 DEF CasesTyped, ListingInv
<1>6. ASSUME NEW name \in Model.cases.Names, CasesView!MountWithSuite(f, name)
      PROVE  CasesTyped' /\ ListingInv'
  <2>1. PICK n : n = CasesView!With(cases_net, "suite", f, 0, name)
    OBVIOUS
  <2>2. /\ cases_net' = CasesView!With(n, "attributes", CasesView!NoFilter, 0, CaseNone)
        /\ UNCHANGED <<cases_stored, cases_suites, cases_known, CasesView!list, cases_unchecked,
                       CasesView!form, cases_steady>>
    BY <1>6, <2>1 DEF CasesView!MountWithSuite, CasesView!project, CaseNone
  <2>3. /\ CasesSent(n) /\ Cardinality(n) <= 0 + 1
        /\ \E m : n = cases_net \cup {m} /\ m.kind = "suite"
    <3>1. PICK kind, s : kind = "suite" /\ s = 0
      OBVIOUS
    <3>2. /\ kind \in CasesView!Kinds /\ kind # "tree" /\ s \in Nat
          /\ n = CasesView!With(cases_net, kind, f, s, name)
      BY <2>1, <3>1 DEF CasesView!Kinds
    <3>3. /\ CasesSent(n) /\ Cardinality(n) <= Cardinality(cases_net) + 1
          /\ \E m : n = cases_net \cup {m} /\ m.kind = kind
      BY ONLY <1>1, <1>3, <3>2, f \in Model.cases.Filters, name \in Model.cases.Names, CaseAsked
    <3> QED BY <1>2, <3>1, <3>3
  <2>4. CasesView!CanSend(n)
    <3>1. Cardinality(n) \in Nat /\ Model.cases.MaxInFlight \in Nat
      BY <2>3, FS_CardinalityType, CasesAssumption DEF CasesSent
    <3> QED BY <1>3, <2>3, <3>1, CaseSizes DEF CasesView!CanSend
  <2>5. CasesSent(cases_net') /\ \E m : cases_net' = n \cup {m} /\ m.kind = "attributes"
    BY <1>4, <2>2, <2>3, <2>4
  <2>6. CasesListed' /\ CasesEdited' /\ CasesStored'
    <3>1. CasesListed'
      BY <1>1, <2>2, ListSame
    <3>2. CasesEdited'
      BY <1>1, <2>2 DEF CasesEdited, CasesView!form, CasesView!suite
    <3>3. CasesStored'
      BY <1>1, <2>2 DEF CasesStored
    <3> QED BY <3>1, <3>2, <3>3
  <2>7. \A K \in SUBSET {"tree", "more", "count"} : Waiting(K)' = Waiting(K)
    BY <2>3, <2>5 DEF Waiting
  <2>8. ListingInv'
    BY <2>2, <2>7, ListSame, ListingStays
  <2> QED BY <2>5, <2>6, <2>8 DEF CasesTyped
<1> QED BY <1>5, <1>6

LEMMA CasesInit == UIInit => CasesTyped /\ ListingInv
<1> SUFFICES ASSUME CasesView!Init PROVE CasesTyped /\ ListingInv
  BY DEF UIInit
<1>1. CasesStored
  BY CasesAssumption DEF CasesView!Init, CasesStored, CaseIds
<1>2. CasesSent(cases_net)
  BY CasesAssumption, FS_EmptySet DEF CasesView!Init, CasesSent
<1>3. CasesListed
  BY DEF CasesView!Init, CasesListed, CaseIds, CaseNone
<1>4. CasesEdited
  BY DEF CasesView!Init, CasesEdited, CaseIds, CaseNone
<1>5. ListingInv
  BY DEF CasesView!Init, ListingInv
<1> QED BY <1>1, <1>2, <1>3, <1>4, <1>5 DEF CasesTyped

LEMMA CasesStep == CasesTyped /\ ListingInv /\ [UINext]_uiVars => CasesTyped' /\ ListingInv'
<1> SUFFICES ASSUME CasesTyped, ListingInv, CasesView!Next
             PROVE  CasesTyped' /\ ListingInv'
  <2>1. [UINext]_uiVars => CasesView!Next \/ UNCHANGED CasesView!vars
    BY DEF UINext, OthersIdle, uiVars, CasesView!Idle
  <2>2. UNCHANGED CasesView!vars /\ CasesTyped /\ ListingInv => CasesTyped' /\ ListingInv'
    <3> SUFFICES ASSUME UNCHANGED CasesView!vars, CasesTyped, ListingInv
                 PROVE  CasesTyped' /\ ListingInv'
      OBVIOUS
    <3>1. UNCHANGED <<cases_stored, cases_suites, cases_net, cases_known, cases_unchecked,
                      cases_edited, cases_apart, cases_draft, cases_shown, cases_suiteName,
                      cases_steady>> /\ UNCHANGED CasesView!list
      BY DEF CasesView!vars, CasesView!form, CasesView!suite
    <3>2. CasesTyped'
      BY <3>1, ListSame DEF CasesTyped, CasesStored, CasesEdited
    <3>3. ListingInv'
      BY <3>1, ListSame, ListingStays DEF Waiting
    <3> QED BY <3>2, <3>3
  <2> QED BY <2>1, <2>2
<1>1. CASE CasesView!User
  BY <1>1, MoreAsked, FormsOfList, AskedByUser DEF CasesView!User
<1>2. CASE CasesView!Answered
  BY <1>2, TreeCame, CountCame, MoreCame, TreeAgain, OtherCame, SomethingFailed
     DEF CasesView!Answered
<1>3. CASE \E m \in cases_net : CasesView!Serve(m) \/ CasesView!Lose(m)
  BY <1>3, CasesServed, CasesLost
<1>4. CASE \E i \in Model.cases.Ids : CasesView!RemoveElsewhere(i)
  BY <1>4, CasesRemovedElsewhere
<1>5. CASE \E f \in Model.cases.Filters :
              \/ \E t \in Model.cases.Begin \cup {CaseNone} : CasesView!MountWithAddress(f, t)
              \/ \E name \in Model.cases.Names : CasesView!MountWithSuite(f, name)
  BY <1>5, ListMounted
<1> QED BY <1>1, <1>2, <1>3, <1>4, <1>5 DEF CasesView!Next, CaseNone

(* With none under way, what is up to the last page is listed, and what is  *)
(* beyond has Load more.                                                    *)
LEMMA ListingOfAll ==
    ASSUME CasesTyped, ListingInv
    PROVE  CasesView!ListingComplete
<1> SUFFICES ASSUME cases_steady
    PROVE  LET rows == IF cases_filter.grouped THEN cases_grouped
                       ELSE {i \in CaseIds : cases_listed[i] > 0} IN
           /\ \A i \in CaseIds : cases_listed[i] <= 1
           /\ rows \subseteq ListResult
           /\ (\A m \in cases_net : m.kind \notin {"tree", "more", "count"}) =>
                 /\ \A i \in rows : \A j \in ListResult : j < i => j \in rows
                 /\ cases_moreLink \/ rows = ListResult
  BY DEF CasesView!ListingComplete, CasesView!Listing, CaseIds, ListResult
<1>1. /\ CountAsked /\ PagesListed
      /\ Waiting({"more"}) # {} \/ cases_moreLink = LinkShown
  BY DEF ListingInv
<1>2. /\ ListResult \in SUBSET Nat /\ IsFiniteSet(ListResult) /\ ListResult \subseteq CaseIds
  BY ResultOf DEF CasesTyped, ListResult
<1>3. CASE cases_filter.grouped
  <2>1. cases_grouped = ListResult /\ cases_listed = [i \in CaseIds |-> 0]
    BY <1>1, <1>3 DEF PagesListed
  <2> QED BY <1>3, <2>1
<1>4. CASE ~cases_filter.grouped
  <2> DEFINE rank(i) == CasesView!Rank(ListResult, i)
             size == Model.cases.PageSize
             rows == {i \in CaseIds : cases_listed[i] > 0}
  <2>1. cases_listed = [i \in CaseIds |->
           IF /\ i \in ListResult /\ rank(i) <= cases_skip + size
              /\ \A m \in Waiting({"more"}) : i \notin ListPage(m.skip)
             THEN 1 ELSE 0]
    BY <1>1, <1>4 DEF PagesListed
  <2>2. /\ \A i \in CaseIds : cases_listed[i] <= 1
        /\ rows \subseteq ListResult
    BY <2>1
  <2>3. Cardinality(ListResult) \in Nat /\ size \in Nat /\ cases_skip \in Nat
    BY <1>2, FS_CardinalityType, CasesAssumption DEF CasesTyped, CasesListed
  <2>4. \A i \in ListResult : /\ rank(i) \in 1 .. Cardinality(ListResult)
                              /\ \A j \in ListResult : j <= i => rank(j) <= rank(i)
    BY <1>2, RankOf
  <2> HIDE DEF rank, size
  <2>5. ASSUME \A m \in cases_net : m.kind \notin {"tree", "more", "count"}
        PROVE  /\ \A i \in rows : \A j \in ListResult : j < i => j \in rows
               /\ cases_moreLink \/ rows = ListResult
    <3>1. Waiting({"more"}) = {} /\ Waiting({"count"}) = {}
      BY <2>5 DEF Waiting
    <3>2. rows = {i \in ListResult : rank(i) <= cases_skip + size}
      <4>1. \A i \in CaseIds : cases_listed[i] =
              IF i \in ListResult /\ rank(i) <= cases_skip + size THEN 1 ELSE 0
        BY <2>1, <3>1
      <4>2. \A i \in CaseIds : cases_listed[i] > 0 <=>
              i \in ListResult /\ rank(i) <= cases_skip + size
        BY <4>1
      <4> QED BY <1>2, <4>2
    <3> HIDE DEF rows
    <3>3. ASSUME NEW i \in rows, NEW j \in ListResult, j < i
          PROVE  j \in rows
      <4>1. i \in ListResult /\ i \in Nat /\ j \in Nat /\ rank(i) <= cases_skip + size
        BY <1>2, <3>2
      <4>2. rank(j) <= rank(i) /\ rank(i) \in Nat /\ rank(j) \in Nat
        BY <2>3, <2>4, <3>3, <4>1
      <4>3. rank(j) <= cases_skip + size
        BY <2>3, <4>1, <4>2
      <4> QED BY <3>2, <4>3
    <3>4. ASSUME ~cases_moreLink PROVE rows = ListResult
      <4>1. cases_count = Cardinality(ListResult) /\ ~LinkShown
        BY <1>1, <3>1, <3>4 DEF CountAsked
      <4>2. \/ Cardinality(ListResult) \in {CaseNone, 0}
            \/ ~(cases_skip + size <= Cardinality(ListResult))
        BY <1>4, <4>1 DEF LinkShown, CasesView!ShowLoadMore, CaseNone, size
      <4>3. Cardinality(ListResult) # CaseNone
        BY <2>3, CasesAssumption DEF CaseNone
      <4>4. \A i \in ListResult : rank(i) <= cases_skip + size
        BY <2>3, <2>4, <4>2, <4>3
      <4> QED BY <3>2, <4>4
    <3> QED BY <3>3, <3>4
  <2> QED BY <1>4, <2>2, <2>5
<1> QED BY <1>3, <1>4

(* Whatever the number of test cases, the filters and the size of a part:   *)
(* as long as none of the excuses of ListingComplete has occurred since the *)
(* tree was asked for, the list has no test case twice and leaves none out, *)
(* unless Load more is offered for the rest.  The excuses are requests for  *)
(* the list that overlapped or failed; a filter or test cases that changed; *)
(* and a tree that was fetched, because a test case had been created, from  *)
(* the skip that Load more had left.                                        *)
THEOREM ListComplete == UISpec => []ListingComplete
<1>1. CasesTyped /\ ListingInv => ListingComplete
  BY ListingOfAll DEF ListingComplete
<1> QED BY <1>1, CasesInit, CasesStep, PTL DEF UISpec

-----------------------------------------------------------------------------
(* What the dialog of a launch holds has its type *)

(* What the dialog shows. *)
DialogShown ==
    LET none == Model.dialog.None IN
    /\ dialog_host \in {none, "cases", "launch"}
    /\ dialog_launcher \in {"none", "creates", "starts"}
    /\ dialog_offered \in (SUBSET Model.dialog.Names) \cup {none}
    /\ dialog_rows \in 0 .. 2
    /\ dialog_name \in [DialogView!Positions -> Model.dialog.Names \cup {none}]
    /\ dialog_value \in [DialogView!Positions -> Model.dialog.Values \cup {none}]
    /\ dialog_message \in {none, "invalid", "maximum", "failed"}
    /\ dialog_open \in BOOLEAN /\ dialog_crashed \in BOOLEAN

LEMMA DialogOfType == DialogInv /\ DialogShown => DialogView!TypeOK
<1> SUFFICES ASSUME DialogInv, DialogShown PROVE DialogView!TypeOK
  OBVIOUS
<1>1. DialogTypes
  BY DEF DialogInv
<1>2. \A m \in dialog_net : /\ m.kind \in {"attributes", "create", "restart"}
                            /\ m.at \in {"sent", "done", "failed"}
                            /\ m.launch \in DialogView!Launch
  BY <1>1 DEF DialogTypes, DialogMessage
<1>3. \A b \in {dialog_asked, dialog_open, dialog_restart, dialog_failedOnly, dialog_loading,
                dialog_crashed} : b \in BOOLEAN
  BY <1>1, Zenon DEF DialogTypes, DialogShown
<1> QED BY <1>1, <1>2, <1>3 DEF DialogTypes, DialogShown, DialogView!TypeOK

LEMMA DialogNew ==
    LET none == [p \in DialogView!Positions |-> Model.dialog.None] IN
    /\ none \in [DialogView!Positions -> Model.dialog.Names \cup {Model.dialog.None}]
    /\ none \in [DialogView!Positions -> Model.dialog.Values \cup {Model.dialog.None}]
OBVIOUS

LEMMA DialogShownInit == UIInit => DialogShown
<1> SUFFICES ASSUME UIInit PROVE DialogShown
  OBVIOUS
<1>1. DialogView!Init
  BY DEF UIInit
<1>2. /\ dialog_name \in [DialogView!Positions -> Model.dialog.Names \cup {Model.dialog.None}]
      /\ dialog_value \in [DialogView!Positions -> Model.dialog.Values \cup {Model.dialog.None}]
  BY <1>1, DialogNew DEF DialogView!Init
<1>3. /\ dialog_rows = 0 /\ dialog_open = FALSE /\ dialog_crashed = FALSE
      /\ dialog_launcher = "none" /\ dialog_host = Model.dialog.None
      /\ dialog_offered = Model.dialog.None /\ dialog_message = Model.dialog.None
  BY <1>1 DEF DialogView!Init
<1>4. dialog_rows \in 0 .. 2
  BY <1>3
<1>5. dialog_open \in BOOLEAN /\ dialog_crashed \in BOOLEAN
  BY <1>3
<1> QED BY <1>2, <1>3, <1>4, <1>5 DEF DialogShown

LEMMA DialogShownStep == DialogShown /\ [UINext]_uiVars => DialogShown'
<1> SUFFICES ASSUME DialogShown, DialogView!Next PROVE DialogShown'
  <2>1. UNCHANGED DialogView!vars /\ DialogShown => DialogShown'
    BY DEF DialogView!vars, DialogView!bounds, DialogView!page, DialogView!choice,
       DialogView!dialog, DialogShown
  <2>2. [UINext]_uiVars => DialogView!Next \/ UNCHANGED DialogView!vars
    BY DEF UINext, OthersIdle, uiVars, DialogView!Idle
  <2> QED BY <2>1, <2>2
<1> USE DEF DialogView!page, DialogView!choice, DialogView!dialog, DialogView!bounds
<1>1. ASSUME DialogView!Rendered PROVE dialog_crashed' \in BOOLEAN
  BY <1>1, Zenon DEF DialogView!Rendered, DialogView!Throws
<1>2. ASSUME NEW h \in {"cases", "launch"}, NEW l \in {"none", "creates", "starts"},
             DialogView!ComponentDidMount(h, l)
      PROVE  DialogShown'
  BY <1>2 DEF DialogView!ComponentDidMount, DialogShown
<1>3. ASSUME NEW only \in BOOLEAN, DialogView!Open(only) PROVE DialogShown'
  BY <1>1, <1>3 DEF DialogView!Open, DialogShown
<1>4. ASSUME NEW fresh \in BOOLEAN, DialogView!HostRenders(fresh) PROVE DialogShown'
  BY <1>1, <1>4 DEF DialogView!HostRenders, DialogShown
<1>5. ASSUME DialogView!Close \/ DialogView!HandleAddAttribute PROVE DialogShown'
  <2>1. CASE DialogView!Close
    BY <2>1 DEF DialogView!Close, DialogShown
  <2>2. CASE DialogView!HandleAddAttribute
    <3>1. /\ dialog_rows' \in 0 .. 2
          /\ dialog_message' \in {Model.dialog.None, "invalid", "maximum", "failed"}
      BY <2>2 DEF DialogView!HandleAddAttribute, DialogShown
    <3> QED BY <2>2, <3>1 DEF DialogView!HandleAddAttribute, DialogView!FormKeeps, DialogShown
  <2> QED BY <1>5, <2>1, <2>2
<1>6. ASSUME NEW p \in DialogView!Positions,
             \/ \E n \in Model.dialog.Names : DialogView!ChangeLaunchConfigAttribute(p, n)
             \/ \E v \in Model.dialog.Values : DialogView!ChangeLaunchConfigAttributeValues(p, v)
      PROVE  DialogShown'
  BY <1>6 DEF DialogView!ChangeLaunchConfigAttribute,
     DialogView!ChangeLaunchConfigAttributeValues, DialogView!FormKeeps, DialogShown
<1>7. ASSUME DialogView!HandleSubmit PROVE DialogShown'
  BY <1>7 DEF DialogView!HandleSubmit, DialogShown
<1>8. ASSUME DialogView!GoToLaunch PROVE DialogShown'
  <2>1. /\ dialog_name' \in [DialogView!Positions -> Model.dialog.Names \cup {Model.dialog.None}]
        /\ dialog_value' \in [DialogView!Positions -> Model.dialog.Values \cup {Model.dialog.None}]
    BY <1>8, DialogNew DEF DialogView!GoToLaunch
  <2>2. /\ dialog_rows' = 0 /\ dialog_open' = FALSE /\ dialog_crashed' = FALSE
        /\ dialog_launcher' = "none" /\ dialog_host' = Model.dialog.None
        /\ dialog_offered' = Model.dialog.None /\ dialog_message' = Model.dialog.None
    BY <1>8 DEF DialogView!GoToLaunch
  <2>3. dialog_rows' \in 0 .. 2
    BY <2>2
  <2>4. dialog_open' \in BOOLEAN /\ dialog_crashed' \in BOOLEAN
    BY <2>2
  <2> QED BY <2>1, <2>2, <2>3, <2>4 DEF DialogShown
<1>9. ASSUME NEW m \in dialog_net,
             \/ DialogView!Serve(m) \/ DialogView!Lose(m) \/ DialogView!Answered(m)
             \/ DialogView!Failed(m)
             \/ \E names \in {{}, Model.dialog.Names} : DialogView!AttributesAnswered(m, names)
      PROVE  DialogShown'
  <2>1. CASE DialogView!Serve(m) \/ DialogView!Lose(m)
    BY <2>1 DEF DialogView!Serve, DialogView!Lose, DialogShown
  <2>2. CASE DialogView!Answered(m)
    BY <1>1, <2>2 DEF DialogView!Answered, DialogShown
  <2>3. CASE DialogView!Failed(m)
    BY <1>1, <2>3 DEF DialogView!Failed, DialogShown
  <2>4. CASE \E names \in {{}, Model.dialog.Names} : DialogView!AttributesAnswered(m, names)
    BY <1>1, <2>4 DEF DialogView!AttributesAnswered, DialogShown
  <2> QED BY <1>9, <2>1, <2>2, <2>3, <2>4
<1> QED BY <1>2, <1>3, <1>4, <1>5, <1>6, <1>7, <1>8, <1>9 DEF DialogView!Next, DialogView!User

-----------------------------------------------------------------------------
(* So has the bulk change of attributes *)

(* What a test case may have, and the rows of a message: rows of the form   *)
(* that are about an attribute, or the one that was never filled in.        *)
BulkDocs == [version : Nat, attributes : BulkView!AttributesOf, locked : BOOLEAN]
BulkIds == Model.bulk.Keys \cup {"broken", Model.bulk.Undefined}

RowsSent(valid) ==
    /\ \E n \in Nat : DOMAIN valid \subseteq 1 .. n
    /\ \A i \in DOMAIN valid : /\ valid[i] \in 1 .. Len(bulk_rows)
                               /\ bulk_rows[valid[i]].id # Model.bulk.Null

BulkSent(m) ==
    /\ BulkShaped(m)
    /\ m.op \in {"session", "add", "remove", "put", "lock", "unlock"}
    /\ m.case \in Model.bulk.Cases \cup {Model.bulk.None}
    /\ m.doc \in BulkDocs /\ m.left \subseteq Model.bulk.Cases
    /\ RowsSent(m.rows)
    /\ BulkView!Range(m.ids) \subseteq Model.bulk.Keys \cup {Model.bulk.Undefined}

BulkShown ==
    /\ bulk_unchecked \subseteq Model.bulk.Cases
    /\ bulk_mounted \in BOOLEAN /\ bulk_admin \in BOOLEAN
    /\ bulk_message \in BulkView!Messages

BulkTyped ==
    /\ bulk_store \in [Model.bulk.Cases -> BulkDocs]
    /\ \A m \in bulk_net : BulkSent(m)
    /\ BulkShown

LEMMA BulkOfType == BulkTyped /\ FormInv => BulkView!TypeOK
<1> SUFFICES ASSUME BulkTyped, FormInv PROVE BulkView!TypeOK
  OBVIOUS
<1>1. \A t \in Model.bulk.Cases : /\ bulk_store[t].version \in Nat
                                  /\ bulk_store[t].attributes \in BulkView!AttributesOf
                                  /\ bulk_store[t].locked \in BOOLEAN
  <2> TAKE t \in Model.bulk.Cases
  <2>1. bulk_store[t] \in BulkDocs
    BY DEF BulkTyped
  <2> QED BY ONLY <2>1 DEF BulkDocs
<1>2. DOMAIN bulk_rows = 1 .. Len(bulk_rows)
  BY DEF FormInv
<1>3. ASSUME NEW m \in bulk_net
      PROVE  /\ m.op \in {"session", "add", "remove", "put", "lock", "unlock"}
             /\ m.at \in {"sent", "done", "failed"}
             /\ m.case \in Model.bulk.Cases \cup {Model.bulk.None}
             /\ BulkView!Range(m.rows) \subseteq DOMAIN bulk_rows
             /\ BulkView!Range(m.ids) \subseteq BulkView!RowIds
             /\ m.left \subseteq Model.bulk.Cases
  <2>1. BulkSent(m)
    BY DEF BulkTyped
  <2>2. BulkView!Range(m.rows) \subseteq DOMAIN bulk_rows
    BY <1>2, <2>1 DEF BulkSent, RowsSent, BulkView!Range
  <2>3. BulkView!Range(m.ids) \subseteq BulkView!RowIds
    BY <2>1 DEF BulkSent, BulkView!RowIds
  <2>4. m.at \in {"sent", "done", "failed"}
    BY <2>1 DEF BulkSent, BulkShaped
  <2> QED BY <2>1, <2>2, <2>3, <2>4 DEF BulkSent
<1>4. BulkView!Range(bulk_form) \subseteq DOMAIN bulk_rows
  BY <1>2 DEF FormInv, Different, BulkView!Range
<1> QED BY <1>1, <1>3, <1>4 DEF BulkTyped, BulkShown, FormInv, BulkView!TypeOK

(* A function of attributes, told by what it has.                           *)
LEMMA AttributesOfBulk ==
    ASSUME NEW D, D \subseteq BulkIds, NEW a, a = [k \in D |-> a[k]],
           \A k \in D : a[k] \subseteq Model.bulk.Values
    PROVE  a \in BulkView!AttributesOf
<1>1. a \in [D -> SUBSET Model.bulk.Values]
  OBVIOUS
<1>2. D \in SUBSET (Model.bulk.Keys \cup {"broken", Model.bulk.Undefined})
  BY DEF BulkIds
<1> QED BY <1>1, <1>2 DEF BulkView!AttributesOf

LEMMA AttributesHave ==
    ASSUME NEW a \in BulkView!AttributesOf
    PROVE  /\ DOMAIN a \subseteq BulkIds /\ a = [k \in DOMAIN a |-> a[k]]
           /\ \A k \in DOMAIN a : a[k] \subseteq Model.bulk.Values
<1>1. PICK D \in SUBSET BulkIds : a \in [D -> SUBSET Model.bulk.Values]
  BY DEF BulkView!AttributesOf, BulkIds
<1> QED BY <1>1

(* The values of the first and of the last row of an attribute.             *)
LEMMA RowsSay ==
    ASSUME FormInv, NEW m, RowsSent(m.rows), NEW k, BulkView!RowsOf(m, k) # {}
    PROVE  /\ BulkView!FirstValues(m, k) \subseteq Model.bulk.Values
           /\ BulkView!LastValues(m, k) \subseteq Model.bulk.Values
           /\ k \in BulkIds
<1> DEFINE S == BulkView!RowsOf(m, k)
<1>1. PICK n \in Nat : S \subseteq 1 .. n
  BY DEF RowsSent, BulkView!RowsOf
<1>2. ASSUME NEW i \in S
      PROVE  bulk_rows[m.rows[i]].values \subseteq Model.bulk.Values /\ k \in BulkIds
  <2>1. /\ m.rows[i] \in 1 .. Len(bulk_rows)
        /\ bulk_rows[m.rows[i]].id = k /\ k # Model.bulk.Null
    BY <1>2 DEF RowsSent, BulkView!RowsOf
  <2>2. bulk_rows[m.rows[i]] \in BulkView!Row
    BY <2>1 DEF FormInv
  <2> QED BY <2>1, <2>2 DEF BulkView!Row, BulkView!RowIds, BulkIds
<1> HIDE DEF S
<1>3. S # {} /\ S \in SUBSET Nat
  BY <1>1 DEF S
<1>4. PICK low \in S : \A j \in S : low <= j
  BY <1>3, LeastOf
<1>5. BulkView!Min(S) \in S
  BY <1>4 DEF BulkView!Min
<1>6. PICK high \in S : \A j \in S : high >= j
  <2> DEFINE T == {n - j : j \in S}
  <2>1. T \in SUBSET Nat /\ T # {}
    BY <1>1, <1>3
  <2>2. PICK l \in T : \A j \in T : l <= j
    BY <2>1, LeastOf
  <2>3. PICK e \in S : l = n - e
    BY <2>2
  <2>4. \A j \in S : n - e <= n - j
    BY <2>2, <2>3
  <2>5. ASSUME NEW j \in S PROVE e >= j
    <3>1. e \in Nat /\ j \in Nat /\ n - e <= n - j
      BY <1>1, <2>4
    <3> QED BY ONLY <3>1, n \in Nat
  <2> QED BY <2>5
<1>7. BulkView!Max(S) \in S
  BY <1>6 DEF BulkView!Max
<1> QED BY <1>2, <1>5, <1>7 DEF BulkView!FirstValues, BulkView!LastValues, S

(* What a button makes of the attributes of a test case.                    *)
LEMMA ChangedOfType ==
    ASSUME FormInv, NEW m, BulkSent(m), m.op \in {"add", "remove"},
           NEW a \in BulkView!AttributesOf,
           ~(m.op = "add" /\ DOMAIN a # {} /\ BulkView!Throws(m, a))
    PROVE  BulkView!Changed(m, a) \in BulkView!AttributesOf
<1> DEFINE values == Model.bulk.Values
           rowsOf(k) == BulkView!RowsOf(m, k)
           matching(k) == BulkView!Matching(m, k)
<1>1. /\ DOMAIN a \subseteq BulkIds /\ a = [k \in DOMAIN a |-> a[k]]
      /\ \A k \in DOMAIN a : a[k] \subseteq values
  BY AttributesHave
<1>2. \A k : rowsOf(k) # {} => /\ BulkView!FirstValues(m, k) \subseteq values
                               /\ BulkView!LastValues(m, k) \subseteq values
                               /\ k \in BulkIds
  BY RowsSay DEF BulkSent
<1>6. \A k : matching(k) # {} => rowsOf(k) # {}
  BY DEF BulkView!Matching
<1>3. CASE m.op = "add" /\ DOMAIN a = {}
  <2> DEFINE D == {bulk_rows[e].id : e \in BulkView!Range(m.rows)}
             b == [k \in D |-> BulkView!LastValues(m, k)]
  <2>1. \A k \in D : rowsOf(k) # {}
    BY DEF BulkView!RowsOf, BulkView!Range
  <2>2. b \in BulkView!AttributesOf
    BY <1>2, <2>1, AttributesOfBulk
  <2> QED BY <1>3, <2>2 DEF BulkView!Changed, BulkView!Added
<1>4. CASE m.op = "add" /\ DOMAIN a # {}
  <2> DEFINE M == BulkView!Missing(m, a)
             base(k) == IF k \in DOMAIN a THEN a[k] ELSE BulkView!FirstValues(m, k)
             to(k) == IF matching(k) = {} THEN base(k) ELSE base(k) \cup BulkView!LastValues(m, k)
             b == [k \in DOMAIN a \cup M |-> to(k)]
  <2>1. M \subseteq BulkIds /\ \A k \in M : rowsOf(k) # {}
    BY <1>4 DEF BulkSent, BulkView!Missing, BulkView!Throws, BulkIds
  <2>2. \A k \in DOMAIN a \cup M : base(k) \subseteq values
    BY <1>1, <1>2, <2>1
  <2>3. \A k \in DOMAIN a \cup M : to(k) \subseteq values
    BY <1>2, <1>6, <2>2
  <2> HIDE DEF to
  <2>4. b \in BulkView!AttributesOf
    BY <1>1, <2>1, <2>3, AttributesOfBulk
  <2>5. BulkView!Changed(m, a) = b
    BY <1>4 DEF BulkView!Changed, BulkView!Added, to
  <2> QED BY <2>4, <2>5
<1>5. CASE m.op = "remove"
  <2> DEFINE remaining(k) == IF matching(k) = {} THEN a[k] ELSE a[k] \ BulkView!LastValues(m, k)
             D == {k \in DOMAIN a : matching(k) = {} \/ remaining(k) # {}}
             b == [k \in D |-> remaining(k)]
  <2>1. \A k \in D : remaining(k) \subseteq values
    BY <1>1
  <2>2. D \subseteq BulkIds
    BY <1>1
  <2>3. BulkView!Changed(m, a) = b
    BY <1>5 DEF BulkView!Changed, BulkView!Removed
  <2> HIDE DEF remaining, D
  <2>4. b \in BulkView!AttributesOf
    BY <2>1, <2>2, AttributesOfBulk
  <2> QED BY <2>3, <2>4
<1> QED BY <1>3, <1>4, <1>5

LEMMA BulkTypedInit == UIInit => BulkTyped
<1> SUFFICES ASSUME UIInit PROVE BulkTyped
  OBVIOUS
<1>1. /\ bulk_net = {} /\ bulk_unchecked = {} /\ bulk_message = Model.bulk.None
      /\ bulk_mounted = FALSE /\ bulk_admin = FALSE
      /\ bulk_store = [t \in Model.bulk.Cases |->
                          [version |-> 1, attributes |-> Model.bulk.Begin[t], locked |-> FALSE]]
  BY DEF UIInit, BulkView!Init
<1>2. \A t \in Model.bulk.Cases : Model.bulk.Begin[t] \in BulkView!AttributesOf
  BY BulkAssumption
<1>3. bulk_store \in [Model.bulk.Cases -> BulkDocs]
  BY <1>1, <1>2 DEF BulkDocs
<1>4. BulkShown
  BY <1>1 DEF BulkShown, BulkView!Messages
<1> QED BY <1>1, <1>3, <1>4 DEF BulkTyped

(* Steps that change neither the rows nor what is sent, but for n.          *)
LEMMA BulkTypedStays ==
    ASSUME BulkTyped, \A m \in bulk_net' : m \in bulk_net \/ BulkSent(m),
           UNCHANGED bulk_rows, bulk_store' \in [Model.bulk.Cases -> BulkDocs], BulkShown'
    PROVE  BulkTyped'
<1>1. \A m : BulkSent(m) => BulkSent(m)'
  BY DEF BulkSent, RowsSent
<1> QED BY <1>1 DEF BulkTyped

(* What is done to the test case that is stored. *)
LEMMA BulkDocWith ==
    ASSUME NEW d \in BulkDocs, NEW v \in Nat, NEW a \in BulkView!AttributesOf,
           NEW l \in BOOLEAN
    PROVE  /\ [d EXCEPT !.version = v] \in BulkDocs
           /\ [d EXCEPT !.locked = l, !.version = v] \in BulkDocs
           /\ [d EXCEPT !.version = v, !.attributes = a] \in BulkDocs
           /\ [version |-> v, attributes |-> a, locked |-> l] \in BulkDocs
           /\ BulkView!NoTestCase \in BulkDocs
<1>1. <<>> \in BulkView!AttributesOf
  <2>1. <<>> \in [{} -> SUBSET Model.bulk.Values]
    OBVIOUS
  <2> QED BY <2>1 DEF BulkView!AttributesOf
<1>2. BulkView!NoTestCase \in BulkDocs
  BY <1>1 DEF BulkView!NoTestCase, BulkDocs
<1> QED BY <1>2 DEF BulkDocs

LEMMA BulkAnswerSent ==
    ASSUME NEW m, BulkSent(m), NEW outcome \in {"done", "failed"}, NEW d \in BulkDocs
    PROVE  BulkSent(ReplyTo(m, outcome, d))
<1> DEFINE n == ReplyTo(m, outcome, d)
<1>1. /\ BulkShaped(n) /\ n.doc = d /\ n.op = m.op /\ n.case = m.case
      /\ n.rows = m.rows /\ n.ids = m.ids /\ n.left = m.left
  BY Replied DEF BulkSent
<1> HIDE DEF n
<1>2. BulkSent(n)
  BY <1>1 DEF BulkSent
<1> QED BY <1>2 DEF n

LEMMA BulkTypedServed ==
    ASSUME BulkTyped, BulkInv, NEW m \in bulk_net,
           \/ BulkView!ServeGet(m) \/ BulkView!ServePut(m) \/ BulkView!Lose(m)
           \/ \E t \in Model.bulk.Cases : BulkView!ServeLock(m, t)
    PROVE  BulkTyped'
<1>0. /\ BulkSent(m) /\ m.doc \in BulkDocs /\ Sound(m)
      /\ bulk_store \in [Model.bulk.Cases -> BulkDocs]
  BY DEF BulkTyped, BulkSent, BulkInv
<1>1. UNCHANGED bulk_rows /\ BulkShown'
  BY DEF BulkView!ServeGet, BulkView!ServePut, BulkView!Lose, BulkView!ServeLock,
     BulkView!Outside, BulkView!page, BulkTyped, BulkShown
<1>2. ASSUME NEW o \in {"done", "failed"}, NEW d \in BulkDocs, BulkView!Reply(m, o, d),
             bulk_store' \in [Model.bulk.Cases -> BulkDocs]
      PROVE  BulkTyped'
  <2>1. bulk_net' = (bulk_net \ {m}) \cup {ReplyTo(m, o, d)}
    BY <1>2 DEF BulkView!Reply, ReplyTo
  <2>2. BulkSent(ReplyTo(m, o, d))
    BY <1>0, BulkAnswerSent
  <2> QED BY <1>1, <1>2, <2>1, <2>2, BulkTypedStays
<1>3. CASE BulkView!ServeGet(m)
  <2> DEFINE d == IF m.op = "session" THEN BulkView!NoTestCase ELSE bulk_store[m.case]
  <2>1. d \in BulkDocs
    <3>1. BulkView!NoTestCase \in BulkDocs
      BY <1>0, BulkDocWith DEF BulkDocs
    <3>2. m.op # "session" => m.case \in Model.bulk.Cases
      BY <1>0, <1>3 DEF BulkView!ServeGet, Sound
    <3> QED BY <1>0, <3>1, <3>2
  <2>2. BulkView!Reply(m, "done", d) /\ bulk_store' = bulk_store
    BY <1>3 DEF BulkView!ServeGet
  <2> HIDE DEF d
  <2> QED BY <1>0, <1>2, <2>1, <2>2
<1>4. CASE BulkView!ServePut(m)
  <2>1. CASE BulkView!Accepted(m)
    <3>1. /\ m.case \in Model.bulk.Cases
          /\ bulk_store[m.case].version + 1 \in Nat
      BY <1>0, <1>4 DEF BulkView!ServePut, Sound, BulkDocs
    <3>2. [m.doc EXCEPT !.version = bulk_store[m.case].version + 1] \in BulkDocs
      BY <1>0, <3>1, BulkDocWith DEF BulkDocs
    <3>3. bulk_store' \in [Model.bulk.Cases -> BulkDocs]
      BY <1>0, <1>4, <2>1, <3>1, <3>2 DEF BulkView!ServePut
    <3>4. BulkView!Reply(m, "done", m.doc)
      BY <1>4, <2>1 DEF BulkView!ServePut
    <3> QED BY <1>0, <1>2, <3>3, <3>4
  <2>2. CASE ~BulkView!Accepted(m)
    BY <1>0, <1>2, <1>4, <2>2 DEF BulkView!ServePut
  <2> QED BY <2>1, <2>2
<1>5. CASE BulkView!Lose(m)
  BY <1>0, <1>2, <1>5 DEF BulkView!Lose
<1>6. ASSUME NEW t \in Model.bulk.Cases, BulkView!ServeLock(m, t) PROVE BulkTyped'
  <2> DEFINE l == m.op = "lock"
             n == [m EXCEPT !.left = @ \ {t}, !.at = IF m.left = {t} THEN "done" ELSE "sent"]
  <2>1. l \in BOOLEAN
    OBVIOUS
  <2>2. bulk_store' \in [Model.bulk.Cases -> BulkDocs]
    <3>1. bulk_store[t] \in BulkDocs /\ bulk_store[t].version + 1 \in Nat
      BY <1>0 DEF BulkDocs
    <3>2. [bulk_store[t] EXCEPT !.locked = l, !.version = bulk_store[t].version + 1] \in BulkDocs
      <4>1. PICK v \in Nat : v = bulk_store[t].version + 1
        BY <3>1
      <4>2. PICK a \in BulkView!AttributesOf : a = bulk_store[t].attributes
        BY <3>1 DEF BulkDocs
      <4> QED BY <2>1, <3>1, <4>1, <4>2, BulkDocWith
    <3>3. \/ bulk_store' = bulk_store
          \/ bulk_store' = [bulk_store EXCEPT ![t] = [bulk_store[t] EXCEPT !.locked = l,
                                                       !.version = bulk_store[t].version + 1]]
      BY <1>0, <1>6 DEF BulkView!ServeLock
    <3> QED BY <1>0, <3>2, <3>3
  <2>3. BulkSent(n)
    <3> DEFINE T == [op : {m.op}, button : {m.button}, click : {m.click}, case : {m.case},
                     doc : {m.doc}, at : {"sent", "done", "failed"}, rows : {m.rows},
                     ids : {m.ids}, left : SUBSET Model.bulk.Cases]
    <3>1. m \in T
      BY <1>0 DEF BulkSent, BulkShaped
    <3>2. n \in T
      BY ONLY <3>1
    <3> HIDE DEF n
    <3>3. BulkShaped(n)
      BY ONLY <3>2 DEF BulkShaped
    <3> QED BY <1>0, <3>2, <3>3 DEF BulkSent
  <2>4. bulk_net' = (bulk_net \ {m}) \cup {n}
    BY <1>6 DEF BulkView!ServeLock
  <2> HIDE DEF n
  <2> QED BY <1>1, <2>2, <2>3, <2>4, BulkTypedStays
<1> QED BY <1>3, <1>4, <1>5, <1>6

LEMMA BulkTypedFetched ==
    ASSUME BulkTyped, FormInv, NEW m \in bulk_net, BulkView!TestCaseFetched(m)
    PROVE  BulkTyped'
<1> DEFINE a == m.doc.attributes
           b == BulkView!Changed(m, a)
           n == PutOf(m, b)
<1>0. BulkSent(m) /\ BulkShaped(m) /\ m.doc \in BulkDocs /\ m.op \in {"add", "remove"}
  BY DEF BulkTyped, BulkSent, BulkView!TestCaseFetched
<1>1. a \in BulkView!AttributesOf /\ m.doc.version \in Nat /\ m.doc.locked \in BOOLEAN
  BY <1>0 DEF BulkDocs
<1>2. /\ UNCHANGED bulk_rows
      /\ bulk_store' = bulk_store
      /\ BulkShown'
  BY DEF BulkView!TestCaseFetched, BulkView!page, BulkTyped, BulkShown, BulkView!Messages
<1>3. CASE m.op = "add" /\ DOMAIN a # {} /\ BulkView!Throws(m, a)
  <2>1. bulk_net' = bulk_net \ {m}
    BY <1>3 DEF BulkView!TestCaseFetched
  <2> QED BY <1>2, <2>1, BulkTypedStays DEF BulkTyped
<1>4. CASE ~(m.op = "add" /\ DOMAIN a # {} /\ BulkView!Throws(m, a))
  <2>1. b \in BulkView!AttributesOf
    BY <1>0, <1>1, <1>4, ChangedOfType
  <2>2. bulk_net' = bulk_net \ {m} \/ bulk_net' = (bulk_net \ {m}) \cup {n}
    BY <1>4 DEF BulkView!TestCaseFetched, PutOf
  <2> HIDE DEF b
  <2>3. IsTestCase(m.doc)
    BY <1>0 DEF BulkDocs, IsTestCase
  <2>4. /\ BulkShaped(n) /\ n.op = "put" /\ n.case = m.case
        /\ n.rows = m.rows /\ n.ids = m.ids /\ n.left = m.left
        /\ n.doc = [version |-> m.doc.version, attributes |-> b, locked |-> m.doc.locked]
    BY <1>0, <2>3, SentBack
  <2> HIDE DEF n
  <2>5. n.doc \in BulkDocs
    BY <1>1, <2>1, <2>4 DEF BulkDocs
  <2>6. BulkSent(n)
    BY <1>0, <2>4, <2>5 DEF BulkSent
  <2> QED BY <1>2, <2>2, <2>6, BulkTypedStays DEF BulkTyped
<1> HIDE DEF a
<1> QED BY <1>3, <1>4

(* Requests of the buttons. *)
LEMMA BulkTypedRequest ==
    ASSUME NEW op \in {"session", "add", "remove", "lock", "unlock"},
           NEW t \in Model.bulk.Cases \cup {Model.bulk.None}, NEW valid, RowsSent(valid),
           NEW ids, BulkView!Range(ids) \subseteq Model.bulk.Keys \cup {Model.bulk.Undefined}
    PROVE  BulkSent(RequestOf(op, t, valid, ids))
<1>1. RequestOf(op, t, valid, ids) =
         [op |-> op, button |-> op, click |-> bulk_clicks, case |-> t,
          doc |-> BulkView!NoTestCase, at |-> "sent", rows |-> valid, ids |-> ids, left |-> {}]
  BY RequestFields
<1>2. BulkView!NoTestCase \in BulkDocs
  <2>1. <<>> \in [{} -> SUBSET Model.bulk.Values]
    OBVIOUS
  <2>2. <<>> \in BulkView!AttributesOf
    BY <2>1 DEF BulkView!AttributesOf
  <2> QED BY <2>2 DEF BulkView!NoTestCase, BulkDocs
<1> DEFINE n == RequestOf(op, t, valid, ids)
<1> HIDE DEF n
<1>3. n = [op |-> op, button |-> op, click |-> bulk_clicks, case |-> t,
           doc |-> BulkView!NoTestCase, at |-> "sent", rows |-> valid, ids |-> ids, left |-> {}]
  BY <1>1 DEF n
<1>4. BulkShaped(n)
  BY <1>3 DEF BulkShaped
<1>5. BulkSent(n)
  BY <1>2, <1>3, <1>4 DEF BulkSent
<1> QED BY <1>5 DEF n

LEMMA NoRows ==
    /\ RowsSent(<<>>)
    /\ BulkView!Range(<<>>) \subseteq Model.bulk.Keys \cup {Model.bulk.Undefined}
<1>1. DOMAIN <<>> = {}
  OBVIOUS
<1>2. RowsSent(<<>>)
  BY <1>1 DEF RowsSent
<1> QED BY <1>1, <1>2 DEF BulkView!Range

(* The rows that a button takes along. *)
LEMMA RowsTaken ==
    ASSUME FormInv
    PROVE  LET valid == BulkView!Valid
               ids == [i \in DOMAIN valid |-> bulk_rows[valid[i]].id]
           IN /\ RowsSent(valid)
              /\ BulkView!Range(ids) \subseteq Model.bulk.Keys \cup {Model.bulk.Undefined}
<1> DEFINE valid == BulkView!Valid
           ids == [i \in DOMAIN valid |-> bulk_rows[valid[i]].id]
<1>1. /\ DOMAIN valid \subseteq 1 .. Len(bulk_form) /\ Len(bulk_form) \in Nat
      /\ \A i \in DOMAIN valid : /\ valid[i] = bulk_form[i]
                                 /\ bulk_rows[bulk_form[i]].id \notin {Model.bulk.Null, "broken"}
  BY DEF BulkView!Valid, BulkView!Restrict, FormInv, Different
<1> HIDE DEF valid
<1>2. \A i \in DOMAIN valid : valid[i] \in 1 .. Len(bulk_rows)
  BY <1>1 DEF FormInv, Different
<1>3. \A i \in DOMAIN valid : bulk_rows[valid[i]] \in BulkView!Row
  BY <1>2 DEF FormInv
<1>4. \A i \in DOMAIN valid : bulk_rows[valid[i]].id \in Model.bulk.Keys \cup {Model.bulk.Undefined}
  BY <1>1, <1>3 DEF BulkView!Row, BulkView!RowIds
<1>5. RowsSent(valid)
  BY <1>1, <1>2 DEF RowsSent
<1>6. BulkView!Range(ids) \subseteq Model.bulk.Keys \cup {Model.bulk.Undefined}
  BY <1>4 DEF BulkView!Range
<1> QED BY <1>5, <1>6 DEF valid

LEMMA BulkTypedAsked ==
    ASSUME BulkTyped, FormInv,
           \/ \E op \in {"add", "remove"} : BulkView!HandleBulk(op)
           \/ \E op \in {"lock", "unlock"} : BulkView!HandleLockAllTestCases(op)
    PROVE  BulkTyped'
<1>1. /\ UNCHANGED bulk_rows /\ bulk_store' = bulk_store
      /\ UNCHANGED <<bulk_unchecked, bulk_mounted, bulk_admin>>
  BY DEF BulkView!HandleBulk, BulkView!HandleLockAllTestCases, BulkView!UserKeeps
<1>2. ASSUME NEW op \in {"add", "remove"}, BulkView!HandleBulk(op) PROVE BulkTyped'
  <2> DEFINE valid == BulkView!Valid
             ids == [i \in DOMAIN valid |-> bulk_rows[valid[i]].id]
  <2>1. bulk_message' \in BulkView!Messages
    BY <1>2 DEF BulkView!HandleBulk, BulkView!Messages
  <2>2. BulkShown'
    BY <1>1, <2>1 DEF BulkTyped, BulkShown
  <2>3. \/ bulk_net' = bulk_net
        \/ bulk_net' = bulk_net \cup {RequestOf(op, t, valid, ids) : t \in BulkView!Checked}
    BY <1>2 DEF BulkView!HandleBulk, RequestOf
  <2>4. /\ RowsSent(valid)
        /\ BulkView!Range(ids) \subseteq Model.bulk.Keys \cup {Model.bulk.Undefined}
    BY RowsTaken
  <2> HIDE DEF valid, ids
  <2>5. \A t \in BulkView!Checked : BulkSent(RequestOf(op, t, valid, ids))
    BY <2>4, BulkTypedRequest DEF BulkView!Checked
  <2> QED BY <1>1, <2>2, <2>3, <2>5, BulkTypedStays DEF BulkTyped
<1>3. ASSUME NEW op \in {"lock", "unlock"}, BulkView!HandleLockAllTestCases(op) PROVE BulkTyped'
  <2> DEFINE r == BulkView!Request(op, Model.bulk.None, BulkView!NoTestCase)
             n == [r EXCEPT !.left = Model.bulk.Cases]
             e == RequestOf(op, Model.bulk.None, <<>>, <<>>)
  <2>1. bulk_net' = bulk_net \cup {n} /\ bulk_message' = bulk_message
    BY <1>3 DEF BulkView!HandleLockAllTestCases
  <2>2. BulkSent(e)
    BY NoRows, BulkTypedRequest
  <2>3. e = r
    BY RequestFields DEF BulkView!Request
  <2>4. BulkSent(n)
    <3> DEFINE T == [op : {r.op}, button : {r.button}, click : {r.click}, case : {r.case},
                     doc : {r.doc}, at : {"sent", "done", "failed"}, rows : {r.rows},
                     ids : {r.ids}, left : SUBSET Model.bulk.Cases]
    <3> HIDE DEF r, e
    <3>1. r \in T
      BY <2>2, <2>3 DEF BulkSent, BulkShaped
    <3>2. n \in T
      BY ONLY <3>1
    <3> HIDE DEF n
    <3>3. BulkShaped(n)
      BY ONLY <3>2 DEF BulkShaped
    <3> QED BY <2>2, <2>3, <3>2, <3>3 DEF BulkSent
  <2> HIDE DEF n
  <2>5. BulkShown'
    BY <1>1, <2>1 DEF BulkTyped, BulkShown
  <2> QED BY <1>1, <2>1, <2>4, <2>5, BulkTypedStays DEF BulkTyped
<1> QED BY <1>2, <1>3

LEMMA AppendedTo ==
    ASSUME NEW s, NEW S, s \in Seq(S), NEW x
    PROVE  /\ Len(s) <= Len(Append(s, x))
           /\ \A d \in 1 .. Len(s) : Append(s, x)[d] = s[d]
<1>1. s \in Seq(S \cup {x}) /\ x \in S \cup {x} /\ Len(s) \in Nat
  OBVIOUS
<1>2. Len(Append(s, x)) = Len(s) + 1 /\ \A d \in 1 .. Len(s) : Append(s, x)[d] = s[d]
  BY ONLY <1>1
<1> QED BY <1>1, <1>2

(* A row that is about an attribute is so whatever is chosen for it.        *)
LEMMA BulkTypedRows ==
    ASSUME BulkTyped, bulk_rows \in Seq(BulkView!Row), bulk_rows' \in Seq(BulkView!Row),
           Len(bulk_rows) <= Len(bulk_rows'),
           \A e \in 1 .. Len(bulk_rows) :
              \/ bulk_rows'[e].id = bulk_rows[e].id
              \/ bulk_rows'[e].id # Model.bulk.Null,
           \A m \in bulk_net' : m \in bulk_net \/ BulkSent(m),
           bulk_store' = bulk_store, BulkShown'
    PROVE  BulkTyped'
<1>1. Len(bulk_rows) \in Nat /\ Len(bulk_rows') \in Nat
  OBVIOUS
<1>2. \A valid : RowsSent(valid) => RowsSent(valid)'
  BY <1>1 DEF RowsSent
<1>3. \A m : BulkSent(m) => BulkSent(m)'
  BY <1>2 DEF BulkSent
<1> QED BY <1>3 DEF BulkTyped

LEMMA BulkTypedEdited ==
    ASSUME BulkTyped, FormInv, FormInv', NEW i \in DOMAIN bulk_form,
           \/ \E k \in Model.bulk.Keys \cup {"broken"} : BulkView!ChangeFilterAttributeId(i, k)
           \/ \E v \in SUBSET Model.bulk.Values : BulkView!ChangeFilterAttributeValues(i, v)
    PROVE  BulkTyped'
<1> DEFINE e == bulk_form[i]
<1>1. /\ UNCHANGED bulk_net /\ bulk_store' = bulk_store
      /\ UNCHANGED <<bulk_unchecked, bulk_mounted, bulk_admin, bulk_message>>
  BY DEF BulkView!ChangeFilterAttributeId, BulkView!ChangeFilterAttributeValues,
     BulkView!UserKeeps
<1>2. BulkShown'
  BY <1>1 DEF BulkTyped, BulkShown
<1>3. /\ bulk_rows \in Seq(BulkView!Row) /\ bulk_rows' \in Seq(BulkView!Row)
      /\ e \in 1 .. Len(bulk_rows)
  BY DEF FormInv, Different
<1>4. PICK k, v : /\ k # Model.bulk.Null
                  /\ \/ bulk_rows' = BulkView!EditRow(e, k, v)
                     \/ bulk_rows' = Append(BulkView!EditRow(e, k, v),
                                            [id |-> Model.bulk.Null, values |-> {}])
  <2>1. Model.bulk.Null \notin Model.bulk.Keys \cup {"broken"}
    BY BulkAssumption
  <2>2. CASE \E v \in SUBSET Model.bulk.Values : BulkView!ChangeFilterAttributeValues(i, v)
    BY <2>1, <2>2 DEF BulkView!ChangeFilterAttributeValues
  <2>3. CASE \E k \in Model.bulk.Keys \cup {"broken"} : BulkView!ChangeFilterAttributeId(i, k)
    BY <2>1, <2>3 DEF BulkView!ChangeFilterAttributeId
  <2> QED BY <2>2, <2>3
<1> HIDE DEF e
<1> DEFINE changed == BulkView!EditRow(e, k, v)
           row == [id |-> k, values |-> v]
<1>5. /\ changed \in Seq(BulkView!Row \cup {row}) /\ Len(changed) = Len(bulk_rows)
      /\ \A d \in 1 .. Len(bulk_rows) : changed[d] = IF d = e THEN row ELSE bulk_rows[d]
  BY <1>3 DEF BulkView!EditRow
<1>6. row.id # Model.bulk.Null
  BY <1>4
<1> HIDE DEF changed, row
<1>7. /\ Len(bulk_rows) <= Len(bulk_rows')
      /\ \A d \in 1 .. Len(bulk_rows) : bulk_rows'[d] = changed[d]
  <2> DEFINE last == [id |-> Model.bulk.Null, values |-> {}]
  <2>1. bulk_rows' = changed \/ bulk_rows' = Append(changed, last)
    BY <1>4 DEF changed
  <2>2. /\ Len(changed) <= Len(Append(changed, last))
        /\ \A d \in 1 .. Len(changed) : Append(changed, last)[d] = changed[d]
    BY <1>5, AppendedTo
  <2>3. Len(bulk_rows) \in Nat
    BY <1>3
  <2> HIDE DEF last
  <2> QED BY <1>5, <2>1, <2>2, <2>3
<1>8. \A d \in 1 .. Len(bulk_rows) :
         bulk_rows'[d].id = bulk_rows[d].id \/ bulk_rows'[d].id # Model.bulk.Null
  BY <1>5, <1>6, <1>7
<1> QED BY <1>1, <1>2, <1>3, <1>7, <1>8, BulkTypedRows

LEMMA BulkTypedMounted ==
    ASSUME BulkTyped, FormInv, FormInv', NEW k \in Model.bulk.Keys, NEW v,
           BulkView!Mount(k, v) \/ BulkView!MountWithSuite(k, v)
    PROVE  BulkTyped'
<1> DEFINE row == [id |-> k, values |-> v]
           r == BulkView!Request("session", Model.bulk.None, BulkView!NoTestCase)
           e == RequestOf("session", Model.bulk.None, <<>>, <<>>)
<1>1. /\ bulk_store' = bulk_store /\ bulk_mounted' = TRUE
      /\ UNCHANGED <<bulk_admin, bulk_unchecked, bulk_message>>
      /\ Len(bulk_rows) = 1 /\ bulk_rows \in Seq(BulkView!Row)
      /\ bulk_rows' \in Seq(BulkView!Row)
      /\ bulk_net' = bulk_net \/ bulk_net' = {r}
  BY DEF BulkView!Mount, BulkView!MountWithSuite, FormInv
<1>2. row.id # Model.bulk.Null
  BY BulkAssumption
<1>3. bulk_rows' = bulk_rows \/ bulk_rows' = Append(bulk_rows, row) \/ bulk_rows' = <<row>>
  BY DEF BulkView!Mount, BulkView!MountWithSuite
<1> HIDE DEF row
<1>4. /\ Len(bulk_rows) <= Len(bulk_rows')
      /\ \A d \in 1 .. Len(bulk_rows) :
            bulk_rows'[d].id = bulk_rows[d].id \/ bulk_rows'[d].id # Model.bulk.Null
  <2>1. /\ Len(bulk_rows) <= Len(Append(bulk_rows, row))
        /\ \A d \in 1 .. Len(bulk_rows) : Append(bulk_rows, row)[d] = bulk_rows[d]
    BY <1>1, AppendedTo
  <2>2. Len(<<row>>) = 1 /\ <<row>>[1] = row /\ \A d \in 1 .. 1 : d = 1
    OBVIOUS
  <2>3. CASE bulk_rows' = <<row>>
    BY <1>1, <1>2, <2>2, <2>3
  <2>4. CASE bulk_rows' = bulk_rows \/ bulk_rows' = Append(bulk_rows, row)
    BY <1>1, <2>1, <2>4
  <2> QED BY <1>3, <2>3, <2>4
<1>5. BulkSent(e) /\ e = r
  <2>1. BulkSent(e)
    BY NoRows, BulkTypedRequest
  <2>2. e = r
    BY RequestFields DEF BulkView!Request
  <2> QED BY <2>1, <2>2
<1> HIDE DEF e, r
<1>6. \A m \in bulk_net' : m \in bulk_net \/ BulkSent(m)
  BY <1>1, <1>5
<1>7. BulkShown'
  BY <1>1 DEF BulkTyped, BulkShown
<1> QED BY <1>1, <1>4, <1>6, <1>7, BulkTypedRows

LEMMA BulkTypedStep ==
    BulkTyped /\ BulkInv /\ FormInv /\ FormInv' /\ [UINext]_uiVars => BulkTyped'
<1> SUFFICES ASSUME BulkTyped, BulkInv, FormInv, FormInv', BulkView!Next PROVE BulkTyped'
  <2>1. UNCHANGED BulkView!vars /\ BulkTyped => BulkTyped'
    BY DEF BulkView!vars, BulkView!page, BulkTyped, BulkSent, BulkShown, RowsSent
  <2>2. [UINext]_uiVars => BulkView!Next \/ UNCHANGED BulkView!vars
    BY DEF UINext, OthersIdle, uiVars, BulkView!Idle
  <2> QED BY <2>1, <2>2
<1>1. CASE \E k \in Model.bulk.Keys, v \in SUBSET Model.bulk.Values :
              BulkView!Mount(k, v) \/ BulkView!MountWithSuite(k, v)
  BY <1>1, BulkTypedMounted
<1>2. ASSUME NEW i \in DOMAIN bulk_form,
             \/ \E k \in Model.bulk.Keys \cup {"broken"} : BulkView!ChangeFilterAttributeId(i, k)
             \/ \E v \in SUBSET Model.bulk.Values : BulkView!ChangeFilterAttributeValues(i, v)
      PROVE  BulkTyped'
  BY <1>2, BulkTypedEdited
<1>3. ASSUME bulk_rows' = bulk_rows, bulk_store' = bulk_store, bulk_net' \subseteq bulk_net,
             BulkShown'
      PROVE  BulkTyped'
  BY <1>3, BulkTypedStays DEF BulkTyped
<1>4. ASSUME NEW i \in DOMAIN bulk_form, BulkView!RemoveFilter(i) PROVE BulkTyped'
  BY <1>3, <1>4 DEF BulkView!RemoveFilter, BulkView!UserKeeps, BulkTyped, BulkShown
<1>5. ASSUME NEW t \in Model.bulk.Cases, BulkView!ProcessElementChecked(t) PROVE BulkTyped'
  <2>1. BulkShown'
    BY <1>5 DEF BulkView!ProcessElementChecked, BulkView!UserKeeps, BulkTyped, BulkShown
  <2> QED BY <1>3, <1>5, <2>1 DEF BulkView!ProcessElementChecked, BulkView!UserKeeps
<1>6. ASSUME NEW t \in Model.bulk.Cases, NEW k \in Model.bulk.Keys,
             NEW v \in SUBSET Model.bulk.Values, BulkView!SaveElsewhere(t, k, v)
      PROVE  BulkTyped'
  <2> DEFINE a == bulk_store[t].attributes
             b == [x \in DOMAIN a \cup {k} |-> IF x = k THEN v ELSE a[x]]
  <2>1. bulk_store[t] \in BulkDocs /\ bulk_store \in [Model.bulk.Cases -> BulkDocs]
    BY DEF BulkTyped
  <2>2. a \in BulkView!AttributesOf /\ bulk_store[t].version + 1 \in Nat
        /\ bulk_store[t].locked \in BOOLEAN
    BY <2>1 DEF BulkDocs
  <2>3. b \in BulkView!AttributesOf
    <3>1. /\ DOMAIN a \subseteq BulkIds
          /\ \A x \in DOMAIN a : a[x] \subseteq Model.bulk.Values
      BY <2>2, AttributesHave
    <3> HIDE DEF a
    <3>2. DOMAIN a \cup {k} \subseteq BulkIds
      BY <3>1 DEF BulkIds
    <3>3. \A x \in DOMAIN a \cup {k} : b[x] \subseteq Model.bulk.Values
      BY <3>1
    <3> QED BY <3>2, <3>3, AttributesOfBulk
  <2>4. bulk_store' = [bulk_store EXCEPT ![t] =
           [bulk_store[t] EXCEPT !.version = bulk_store[t].version + 1, !.attributes = b]]
    BY <1>6, <2>1 DEF BulkView!SaveElsewhere
  <2> HIDE DEF b
  <2>5. [bulk_store[t] EXCEPT !.version = bulk_store[t].version + 1, !.attributes = b] \in BulkDocs
    <3>1. PICK n \in Nat : n = bulk_store[t].version + 1
      BY <2>2
    <3> QED BY <2>1, <2>2, <2>3, <3>1, BulkDocWith
  <2>6. bulk_store' \in [Model.bulk.Cases -> BulkDocs]
    BY <2>1, <2>4, <2>5
  <2>7. UNCHANGED bulk_rows /\ UNCHANGED bulk_net /\ BulkShown'
    BY <1>6 DEF BulkView!SaveElsewhere, BulkView!page, BulkTyped, BulkShown
  <2> QED BY <2>6, <2>7, BulkTypedStays
<1>7. ASSUME NEW m \in bulk_net,
             BulkView!SessionAnswered(m) \/ BulkView!Answered(m) \/ BulkView!Failed(m)
      PROVE  BulkTyped'
  <2>1. /\ bulk_rows' = bulk_rows /\ bulk_store' = bulk_store /\ bulk_net' = bulk_net \ {m}
    BY <1>7 DEF BulkView!SessionAnswered, BulkView!Answered, BulkView!Failed, BulkView!page
  <2>2. BulkShown'
    BY <1>7 DEF BulkView!SessionAnswered, BulkView!Answered, BulkView!Failed, BulkView!page,
       BulkTyped, BulkShown, BulkView!Messages
  <2> QED BY <1>3, <2>1, <2>2
<1> QED BY <1>1, <1>2, <1>4, <1>5, <1>6, <1>7, BulkTypedAsked, BulkTypedServed, BulkTypedFetched
        DEF BulkView!Next, BulkView!User

-----------------------------------------------------------------------------
(* Every page has its type *)

LEMMA BulkOfTypeAlways == UISpec => []BulkView!TypeOK
<1>1. UIInit => BulkTyped /\ BulkInv /\ FormInv
  BY BulkTypedInit, BulkInit, FormInit
<1>2. BulkTyped /\ BulkInv /\ FormInv /\ [UINext]_uiVars => BulkTyped' /\ BulkInv' /\ FormInv'
  BY BulkTypedStep, BulkStep, FormStep
<1>3. BulkTyped /\ FormInv => BulkView!TypeOK
  BY BulkOfType
<1> QED BY <1>1, <1>2, <1>3, PTL DEF UISpec

LEMMA CommentsOfTypeAlways == UISpec => []CommentsView!TypeOK
<1>1. UIInit => CommentsTyped /\ SteadyInv /\ CommentsWhole
  BY CommentsInit, CommentsWholeInit
<1>2. CommentsTyped /\ SteadyInv /\ CommentsWhole /\ [UINext]_uiVars
         => CommentsTyped' /\ SteadyInv' /\ CommentsWhole'
  BY CommentsStep, CommentsWholeStep
<1>3. CommentsTyped /\ CommentsWhole => CommentsView!TypeOK
  BY CommentsOfType
<1> QED BY <1>1, <1>2, <1>3, PTL DEF UISpec

LEMMA DialogOfTypeAlways == UISpec => []DialogView!TypeOK
<1>1. UIInit => DialogInv /\ DialogShown
  BY DialogInit, DialogShownInit
<1>2. DialogInv /\ DialogShown /\ [UINext]_uiVars => DialogInv' /\ DialogShown'
  BY DialogStep, DialogShownStep
<1>3. DialogInv /\ DialogShown => DialogView!TypeOK
  BY DialogOfType
<1> QED BY <1>1, <1>2, <1>3, PTL DEF UISpec

LEMMA SettingsOfTypeAlways == UISpec => []SettingsView!TypeOK
BY SettingsTypedInit, SettingsTypedStep, SettingsOfType, PTL DEF UISpec

LEMMA AttributesOfTypeAlways == UISpec => []AttributesView!TypeOK
<1>1. UIInit => AttributesTyped /\ CalmInv /\ AttributesWhole
  BY AttributesInit, AttributesWholeInit
<1>2. AttributesTyped /\ CalmInv /\ AttributesWhole /\ [UINext]_uiVars
         => AttributesTyped' /\ CalmInv' /\ AttributesWhole'
  BY AttributesStep, AttributesWholeStep
<1>3. AttributesTyped /\ AttributesWhole => AttributesView!TypeOK
  BY AttributesOfType
<1> QED BY <1>1, <1>2, <1>3, PTL DEF UISpec

LEMMA CasesOfTypeAlways == UISpec => []CasesView!TypeOK
BY CasesInit, CasesStep, CasesOfType, PTL DEF UISpec

LEMMA OneOfTheViews == UISpec => [](view \in AllViews)
<1>1. UIInit => view \in AllViews
  BY ViewsAssumption DEF UIInit
<1>2. view \in AllViews /\ [UINext]_uiVars => (view \in AllViews)'
  BY DEF UINext, OthersIdle, uiVars
<1> QED BY <1>1, <1>2, PTL DEF UISpec

(* Whatever page is mounted, what it shows, what is being edited on it, its *)
(* requests under way and what the service keeps for it stay of their type, *)
(* however edits, answers, failures and the changes of others follow each   *)
(* other (App.js, Main.js and the pages of their routes).                   *)
THEOREM UITyped == UISpec => []UITypeOK
<1>1. /\ view \in AllViews /\ TypeOK /\ CasesView!TypeOK /\ BulkView!TypeOK
      /\ CommentsView!TypeOK /\ DialogView!TypeOK /\ SettingsView!TypeOK
      /\ AttributesView!TypeOK
      => UITypeOK
  BY DEF UITypeOK
<1>2. UISpec => []TypeOK
  BY PageRuns, TypeCorrect, PTL
<1> QED BY <1>1, <1>2, OneOfTheViews, CasesOfTypeAlways, BulkOfTypeAlways,
           CommentsOfTypeAlways, DialogOfTypeAlways, SettingsOfTypeAlways,
           AttributesOfTypeAlways, PTL
=============================================================================
