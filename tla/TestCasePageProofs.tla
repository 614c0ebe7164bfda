------------------------ MODULE TestCasePageProofs -------------------------
(***************************************************************************)
(* Theorems about TestCasePage, for any test cases, texts, attributes and  *)
(* files, and whatever number of events, faults and requests under way.    *)
(***************************************************************************)
EXTENDS TestCasePage, SequenceTheorems, FiniteSetTheorems, NaturalsInduction,
        WellFoundedInduction, TLAPS

USE TestCasePageAssumption

-----------------------------------------------------------------------------
(* The invariant *)

StepSeq == Seq(Wordings \cup {Blank})
IsFunction(a) == a = [k \in DOMAIN a |-> a[k]]

(* What the page may hold as a content, and what the service may store:     *)
(* the latter has no attribute left undefined.                              *)
Fits(f, v) ==
    /\ f = "steps" => v \in StepSeq
    /\ f = "attributes" => IsFunction(v)
Content(c) == c = [f \in Fields |-> c[f]] /\ \A f \in Fields : Fits(f, c[f])
Defined(a) == Restrict(a, {k \in DOMAIN a : a[k] # Unknown})
Stored(c) == Content(c) /\ c["attributes"] = Defined(c["attributes"])

Histories ==
    /\ history = [t \in Cases |-> history[t]]
    /\ \A t \in Cases :
          /\ history[t] \in Seq(Range(history[t]))
          /\ Current(t) >= 1
          /\ \A n \in 1 .. Current(t) : Stored(history[t][n])

(* d is a version of a test case, or one changed in the fields S. *)
Document(d) ==
    /\ d = [id |-> d.id, version |-> d.version, content |-> d.content]
    /\ Content(d.content)
VersionBut(d, S) ==
    d.id \in Cases =>
        /\ d.version \in 1 .. Current(d.id)
        /\ \A f \in Fields \ S : d.content[f] = history[d.id][d.version][f]
Version(d) == Document(d) /\ d.id \in Cases /\ VersionBut(d, {})

(* A request and its answer. *)
Message(m) ==
    /\ m = [no |-> m.no, kind |-> m.kind, case |-> m.case, doc |-> m.doc,
            about |-> m.about, changed |-> m.changed, at |-> m.at]
    /\ m.kind \in Sends /\ m.at \in {"sent", "done", "failed"}
    /\ m.kind # "put" => m.case \in Cases
    /\ m.kind \in {"get", "put"} /\ m.at = "done" => Version(m.doc)
    /\ m.kind = "put" /\ m.at = "sent" =>
          /\ Document(m.doc) /\ m.case = m.doc.id
          /\ Stored(m.doc.content)
          /\ VersionBut(m.doc, m.changed)

Messages == \A m \in net : Message(m)

(* Cancelling restores what the user has not touched to what it is. *)
Page ==
    /\ Document(doc) /\ doc.id \in Cases \cup {NoCase}
    /\ VersionBut(doc, touched)
    /\ Content(original)
    /\ \A f \in Fields \ touched : original[f] = doc.content[f]

(* Attachments are there, and asked for, once the test case is. *)
Asked ==
    /\ doc.content["attachments"] # {} => Received
    /\ asking => Received
    /\ \A m \in net : m.kind \in {"upload", "unfile"} => Received

Inv == Histories /\ Messages /\ Page /\ Asked

-----------------------------------------------------------------------------
(* Sequences, contents and documents *)

LEMMA Appended ==
    ASSUME NEW s, s \in Seq(Range(s)), NEW e
    PROVE  /\ Append(s, e) \in Seq(Range(Append(s, e)))
           /\ Len(s) \in Nat
           /\ Len(Append(s, e)) = Len(s) + 1
           /\ \A i \in 1 .. Len(s) : Append(s, e)[i] = s[i]
           /\ Append(s, e)[Len(s) + 1] = e
<1> DEFINE S == Range(s) \cup {e}
           t == Append(s, e)
<1>1. s \in Seq(S)
  BY SeqMonotonic
<1>2. /\ t \in Seq(S)
      /\ Len(t) = Len(s) + 1
      /\ \A i \in 1 .. Len(s) : t[i] = s[i]
      /\ t[Len(s) + 1] = e
  BY <1>1, AppendProperties, e \in S
<1>3. Len(s) \in Nat
  BY LenProperties
<1> HIDE DEF S, t
<1>4. t \in [1 .. Len(t) -> S] /\ Len(t) \in Nat /\ DOMAIN t = 1 .. Len(t)
  BY <1>2, LenProperties
<1>5. t \in [1 .. Len(t) -> Range(t)]
  BY <1>4 DEF Range
<1>6. t \in Seq(Range(t))
  BY <1>4, <1>5, SeqDef
<1> QED BY <1>2, <1>3, <1>6 DEF t

LEMMA StepsReplaced ==
    ASSUME NEW s \in StepSeq, NEW i \in DOMAIN s, NEW v \in Wordings \cup {Blank}
    PROVE  /\ [s EXCEPT ![i] = v] \in StepSeq
           /\ DOMAIN [s EXCEPT ![i] = v] = DOMAIN s
           /\ s[i] \in Wordings \cup {Blank}
           /\ [s EXCEPT ![i] = s[i]] = s
           /\ Append(s, Blank) \in StepSeq
           /\ i \in Nat /\ i >= 1 /\ i <= Len(s) /\ Len(s) \in Nat
<1>1. s \in Seq(Wordings \cup {Blank})
  BY DEF StepSeq
<1>2. /\ Len(s) \in Nat /\ DOMAIN s = 1 .. Len(s)
      /\ s \in [1 .. Len(s) -> Wordings \cup {Blank}]
  BY <1>1, LenProperties
<1>3. [s EXCEPT ![i] = v] \in Seq(Wordings \cup {Blank})
  BY <1>1, <1>2, ExceptSeq
<1>4. Append(s, Blank) \in Seq(Wordings \cup {Blank})
  BY <1>1, AppendProperties
<1> QED BY <1>2, <1>3, <1>4 DEF StepSeq

LEMMA StepRemoved ==
    ASSUME NEW s \in StepSeq, NEW i \in DOMAIN s
    PROVE  RemoveAt(s, i) \in StepSeq
<1> DEFINE W == Wordings \cup {Blank}
<1>1. s \in Seq(W)
  BY DEF StepSeq
<1>2. Len(s) \in Nat /\ DOMAIN s = 1 .. Len(s)
  BY <1>1, LenProperties
<1>3. \A j \in 1 .. Len(s) : s[j] \in W
  BY <1>1, ElementOfSeq
<1> HIDE DEF W
<1>4. SubSeq(s, 1, i - 1) \in Seq(W)
  <2>1. 1 \in Int /\ i - 1 \in Int /\ \A j \in 1 .. (i - 1) : s[j] \in W
    BY <1>2, <1>3
  <2> QED BY <2>1, SubSeqProperties
<1>5. SubSeq(s, i + 1, Len(s)) \in Seq(W)
  <2>1. i + 1 \in Int /\ Len(s) \in Int /\ \A j \in (i + 1) .. Len(s) : s[j] \in W
    BY <1>2, <1>3
  <2> QED BY <2>1, SubSeqProperties
<1>6. SubSeq(s, 1, i - 1) \o SubSeq(s, i + 1, Len(s)) \in Seq(W)
  BY <1>4, <1>5, ConcatProperties
<1> QED BY <1>6 DEF RemoveAt, StepSeq, W

(* An array written to beyond its end, and within it. *)
LEMMA Lengthened ==
    ASSUME NEW s \in StepSeq, NEW i \in Nat, i >= 1
    PROVE  /\ Longer(s, i) \in StepSeq
           /\ i \in DOMAIN Longer(s, i)
           /\ i \in DOMAIN s => Longer(s, i) = s
<1> DEFINE W == Wordings \cup {Blank}
           n == Max({Len(s), i})
<1>1. /\ Len(s) \in Nat /\ DOMAIN s = 1 .. Len(s)
      /\ s \in [1 .. Len(s) -> W]
  BY LenProperties DEF StepSeq
<1>2. n = IF Len(s) >= i THEN Len(s) ELSE i
  <2> DEFINE big == IF Len(s) >= i THEN Len(s) ELSE i
  <2>1. big \in {Len(s), i} /\ \A y \in {Len(s), i} : big >= y
    BY <1>1
  <2>2. \A x \in {Len(s), i} : (\A y \in {Len(s), i} : x >= y) => x = big
    BY <1>1
  <2> HIDE DEF big
  <2>3. n = big
    BY <2>1, <2>2 DEF Max
  <2> QED BY <2>3 DEF big
<1> HIDE DEF n
<1>3. Longer(s, i) = [j \in 1 .. n |-> IF j \in DOMAIN s THEN s[j] ELSE Blank]
  BY DEF Longer, n
<1>4. n \in Nat /\ Longer(s, i) \in [1 .. n -> W]
  BY <1>1, <1>2, <1>3
<1>5. Longer(s, i) \in Seq(W)
  BY <1>4, SeqDef
<1>6. i \in DOMAIN s => n = Len(s)
  BY <1>1, <1>2
<1>7. i \in DOMAIN s => Longer(s, i) = [j \in 1 .. Len(s) |-> s[j]]
  BY <1>1, <1>3, <1>6
<1>8. s = [j \in 1 .. Len(s) |-> s[j]]
  BY <1>1
<1>9. i \in 1 .. n /\ DOMAIN Longer(s, i) = 1 .. n
  <2>1. n >= i
    BY <1>1, <1>2
  <2> QED BY <1>3, <1>4, <2>1
<1> QED BY <1>5, <1>7, <1>8, <1>9 DEF StepSeq

LEMMA Fields_ ==
    /\ {"broken", "locked", "attributes", "steps", "attachments"} \subseteq Fields
    /\ Texts \subseteq Fields
    /\ \A f \in Texts : \A v : Fits(f, v)
    /\ \A v : Fits("broken", v) /\ Fits("locked", v) /\ Fits("attachments", v)
<1>1. Texts \cap {"attributes", "steps"} = {}
  OBVIOUS
<1> QED BY <1>1 DEF Fields, Fits

LEMMA NoContentFits == Content(NoContent) /\ NoContent["attachments"] = {}
<1>1. /\ <<>> \in Seq(Wordings \cup {Blank})
      /\ Len(<<>>) = 0
  BY EmptySeq
<1>2. <<>> \in [1 .. Len(<<>>) -> Wordings \cup {Blank}]
  BY <1>1, LenProperties
<1>3. IsFunction(<<>>)
  BY <1>2 DEF IsFunction
<1>4. NoContent["steps"] = <<>> /\ NoContent["attributes"] = <<>>
      /\ NoContent["attachments"] = {}
  BY Fields_ DEF NoContent
<1> QED BY <1>1, <1>3, <1>4 DEF Content, Fits, NoContent, StepSeq

(* A content with one field replaced. *)
LEMMA Replaced ==
    ASSUME NEW c, Content(c), NEW f \in Fields, NEW v, Fits(f, v)
    PROVE  /\ Content([c EXCEPT ![f] = v])
           /\ [c EXCEPT ![f] = v][f] = v
           /\ \A g \in Fields \ {f} : [c EXCEPT ![f] = v][g] = c[g]
BY DEF Content

ButFor(d, f, v) == [d EXCEPT !.content[f] = v]

LEMMA EditedFields ==
    ASSUME NEW d, Document(d), NEW f \in Fields, NEW v, Fits(f, v)
    PROVE  /\ Document(ButFor(d, f, v))
           /\ ButFor(d, f, v).id = d.id
           /\ ButFor(d, f, v).version = d.version
           /\ ButFor(d, f, v).content[f] = v
           /\ \A g \in Fields \ {f} : ButFor(d, f, v).content[g] = d.content[g]
<1>1. ButFor(d, f, v)
        = [id |-> d.id, version |-> d.version, content |-> [d.content EXCEPT ![f] = v]]
  BY DEF ButFor, Document
<1>2. Content(d.content)
  BY DEF Document
<1>3. /\ Content([d.content EXCEPT ![f] = v])
      /\ [d.content EXCEPT ![f] = v][f] = v
      /\ \A g \in Fields \ {f} : [d.content EXCEPT ![f] = v][g] = d.content[g]
  BY <1>2, Replaced
<1> HIDE DEF ButFor
<1>4. /\ ButFor(d, f, v).id = d.id /\ ButFor(d, f, v).version = d.version
      /\ ButFor(d, f, v).content = [d.content EXCEPT ![f] = v]
  BY <1>1
<1>5. Document(ButFor(d, f, v))
  BY <1>1, <1>3, <1>4 DEF Document
<1> QED BY <1>3, <1>4, <1>5

(* What is sent is the page's test case without undefined attributes. *)
LEMMA SentFields ==
    ASSUME Histories, NEW d, Document(d), NEW S, VersionBut(d, S)
    PROVE  /\ Document(Sent(d)) /\ Sent(d).id = d.id
           /\ Stored(Sent(d).content)
           /\ VersionBut(Sent(d), S)
<1> DEFINE a == d.content["attributes"]
           e == ButFor(d, "attributes", Defined(a))
<1>1. Sent(d) = e
  BY DEF Sent, Defined, ButFor
<1>2. Fits("attributes", Defined(a))
  BY DEF Fits, IsFunction, Defined, Restrict
<1>3. /\ Document(e) /\ e.id = d.id /\ e.version = d.version
      /\ e.content["attributes"] = Defined(a)
      /\ \A g \in Fields \ {"attributes"} : e.content[g] = d.content[g]
  <2>1. "attributes" \in Fields
    BY Fields_
  <2> DEFINE b == Defined(a)
  <2>2. Fits("attributes", b)
    BY <1>2
  <2> HIDE DEF b
  <2>3. LET x == ButFor(d, "attributes", b) IN
        /\ Document(x) /\ x.id = d.id /\ x.version = d.version
        /\ x.content["attributes"] = b
        /\ \A g \in Fields \ {"attributes"} : x.content[g] = d.content[g]
    BY <2>1, <2>2, EditedFields
  <2> QED BY <2>3 DEF b
<1> HIDE DEF e
<1>4. Defined(Defined(a)) = Defined(a)
  BY DEF Defined, Restrict
<1>5. Stored(e.content)
  BY <1>3, <1>4 DEF Stored, Document
<1>6. VersionBut(e, S)
  <2> SUFFICES ASSUME d.id \in Cases PROVE VersionBut(e, S)
    BY <1>3 DEF VersionBut
  <2>1. /\ d.version \in 1 .. Current(d.id)
        /\ \A f \in Fields \ S : d.content[f] = history[d.id][d.version][f]
    BY DEF VersionBut
  <2>2. Stored(history[d.id][d.version])
    BY <2>1 DEF Histories
  <2>3. "attributes" \notin S => Defined(a) = a
    BY <2>1, <2>2, Fields_ DEF Stored
  <2> QED BY <1>3, <2>1, <2>3 DEF VersionBut
<1> QED BY <1>1, <1>3, <1>5, <1>6

-----------------------------------------------------------------------------
(* What the service has stored stays *)

Grown ==
    \A t \in Cases :
       /\ Current(t) \in Nat /\ Current(t)' \in Nat /\ Current(t) <= Current(t)'
       /\ \A n \in 1 .. Current(t) : history'[t][n] = history[t][n]

LEMMA HistoryStays ==
    ASSUME Histories, UNCHANGED history
    PROVE  Histories' /\ Grown
<1>1. \A t \in Cases : Current(t) \in Nat
  BY LenProperties DEF Histories, Current
<1> QED BY <1>1 DEF Histories, Grown, Current

LEMMA HistoryGrows ==
    ASSUME Histories, NEW t \in Cases, NEW c, Stored(c),
           history' = [history EXCEPT ![t] = Append(@, c)]
    PROVE  /\ Histories' /\ Grown
           /\ Current(t)' = Current(t) + 1 /\ Current(t) \in Nat /\ Current(t) >= 1
           /\ history'[t][Current(t) + 1] = c
           /\ Stored(history[t][Current(t)])
<1> DEFINE h(u) == history[u]
<1>1. \A u \in Cases : h(u) \in Seq(Range(h(u))) /\ Len(h(u)) >= 1
                       /\ \A n \in 1 .. Len(h(u)) : Stored(h(u)[n])
  BY DEF Histories, Current
<1>2. \A u \in Cases : Len(h(u)) \in Nat
  BY <1>1, LenProperties
<1>3. /\ history' = [u \in Cases |-> history'[u]]
      /\ history'[t] = Append(h(t), c)
      /\ \A u \in Cases \ {t} : history'[u] = h(u)
  BY DEF Histories
<1>4. /\ history'[t] \in Seq(Range(history'[t]))
      /\ Len(history'[t]) = Len(h(t)) + 1
      /\ \A i \in 1 .. Len(h(t)) : history'[t][i] = h(t)[i]
      /\ history'[t][Len(h(t)) + 1] = c
  <2> DEFINE s == h(t)
  <2>1. s \in Seq(Range(s))
    BY <1>1
  <2> HIDE DEF s
  <2>2. /\ Append(s, c) \in Seq(Range(Append(s, c)))
        /\ Len(Append(s, c)) = Len(s) + 1
        /\ \A i \in 1 .. Len(s) : Append(s, c)[i] = s[i]
        /\ Append(s, c)[Len(s) + 1] = c
    BY <2>1, Appended
  <2> QED BY <1>3, <2>2 DEF s
<1> HIDE DEF h
<1>5. Grown
  BY <1>2, <1>3, <1>4 DEF Grown, Current, h
<1>6. \A u \in Cases : /\ history'[u] \in Seq(Range(history'[u]))
                       /\ Len(history'[u]) >= 1
                       /\ \A n \in 1 .. Len(history'[u]) : Stored(history'[u][n])
  <2> TAKE u \in Cases
  <2>1. CASE u = t
    <3>1. \A n \in 1 .. Len(h(t)) : Stored(history'[t][n])
      BY <1>1, <1>4
    <3>2. \A n \in 1 .. Len(history'[t]) : n \in 1 .. Len(h(t)) \/ n = Len(h(t)) + 1
      BY <1>2, <1>4
    <3> QED BY <1>2, <1>4, <2>1, <3>1, <3>2
  <2>2. CASE u # t
    BY <1>1, <1>3, <2>2
  <2> QED BY <2>1, <2>2
<1>7. Histories'
  BY <1>3, <1>6 DEF Histories, Current
<1> QED BY <1>1, <1>2, <1>4, <1>5, <1>7 DEF Current, h

(* So a version stays one, and a message what it is. *)
LEMMA VersionsStay ==
    ASSUME Grown, NEW d, NEW S, VersionBut(d, S)
    PROVE  VersionBut(d, S)'
BY DEF Grown, VersionBut, Current

LEMMA MessageStays ==
    ASSUME Grown, NEW m, Message(m)
    PROVE  Message(m)'
<1>1. \A S : VersionBut(m.doc, S) => VersionBut(m.doc, S)'
  BY VersionsStay
<1>2. Version(m.doc) => Version(m.doc)'
  BY <1>1 DEF Version, Document, Content, Fits
<1> QED BY <1>1, <1>2 DEF Message, Document, Content, Fits, Stored

LEMMA PageStays ==
    ASSUME Grown, Page, UNCHANGED <<doc, original, touched>>
    PROVE  Page'
<1>1. VersionBut(doc, touched)'
  BY VersionsStay DEF Page, VersionBut, Current, Grown
<1> QED BY <1>1 DEF Page, Document, Content, Fits

(* The page with one field edited. *)
LEMMA DocEdited ==
    ASSUME Page, UNCHANGED history,
           NEW f \in Fields, NEW v, Fits(f, v),
           doc' = ButFor(doc, f, v), touched \subseteq touched',
           f \in touched' \/ v = doc.content[f]
    PROVE  /\ Document(doc)' /\ doc'.id = doc.id /\ VersionBut(doc, touched)'
           /\ f # "attachments" => doc'.content["attachments"] = doc.content["attachments"]
           /\ \A g \in Fields \ touched' : doc'.content[g] = doc.content[g]
           /\ doc'.content[f] = v
<1>1. /\ Document(doc') /\ doc'.id = doc.id /\ doc'.version = doc.version
      /\ doc'.content[f] = v
      /\ \A g \in Fields \ {f} : doc'.content[g] = doc.content[g]
  BY EditedFields DEF Page
<1>2. \A g \in Fields \ touched' : doc'.content[g] = doc.content[g]
  BY <1>1
<1>3. VersionBut(doc, touched)'
  BY <1>1, <1>2 DEF Page, VersionBut, Current
<1> QED BY <1>1, <1>2, <1>3, Fields_ DEF Document, Content, Fits

LEMMA PageEdited ==
    ASSUME Page, UNCHANGED <<history, original>>,
           NEW f \in Fields, NEW v, Fits(f, v), f # "attachments",
           doc' = ButFor(doc, f, v), touched \subseteq touched',
           f \in touched' \/ v = doc.content[f]
    PROVE  /\ Page' /\ doc'.id = doc.id
           /\ doc'.content["attachments"] = doc.content["attachments"]
<1>1. /\ Document(doc)' /\ doc'.id = doc.id /\ VersionBut(doc, touched)'
      /\ doc'.content["attachments"] = doc.content["attachments"]
      /\ \A g \in Fields \ touched' : doc'.content[g] = doc.content[g]
  BY DocEdited
<1> QED BY <1>1 DEF Page, Content, Fits

(* Toggling a form takes what the page shows as what cancelling restores.   *)
FormShape(form, c) ==
    \/ form[1] \in Texts /\ form[2] = 0
    \/ form[1] = "steps" /\ form[2] \in DOMAIN c["steps"]

Alike(c, d, S) == \A f \in Fields \ S : c[f] = d[f]

LEMMA TakenFits ==
    ASSUME NEW form, NEW c, NEW S, Content(c), FormShape(form, c), Content(original),
           Alike(original, c, S)
    PROVE  Content(Taken(form, c)) /\ Alike(Taken(form, c), c, S)
<1> DEFINE f == form[1]
           i == form[2]
<1>1. f \in Fields
  BY Fields_ DEF FormShape
<1>2. CASE i \in {0, 1}
  <2>1. Taken(form, c) = [original EXCEPT ![f] = c[f]]
    BY <1>2 DEF Taken
  <2>2. Fits(f, c[f])
    BY <1>1 DEF Content
  <2> HIDE DEF f, i
  <2>3. /\ Content([original EXCEPT ![f] = c[f]])
        /\ [original EXCEPT ![f] = c[f]][f] = c[f]
        /\ \A g \in Fields \ {f} : [original EXCEPT ![f] = c[f]][g] = original[g]
    BY <1>1, <2>2, Replaced
  <2> QED BY <2>1, <2>3 DEF Alike
<1>3. CASE i \notin {0, 1}
  <2> DEFINE s == original["steps"]
             l == Longer(s, i)
             w == [l EXCEPT ![i] = c["steps"][i]]
  <2>1. f = "steps" /\ i \in DOMAIN c["steps"]
    BY <1>3 DEF FormShape
  <2>2. Taken(form, c) = [original EXCEPT !["steps"] = w]
    BY <1>3, <2>1 DEF Taken
  <2>3. s \in StepSeq /\ c["steps"] \in StepSeq
    BY Fields_ DEF Content, Fits
  <2>4. i \in Nat /\ i >= 1 /\ c["steps"][i] \in Wordings \cup {Blank}
        /\ [c["steps"] EXCEPT ![i] = c["steps"][i]] = c["steps"]
    BY <2>1, <2>3, StepsReplaced
  <2> HIDE DEF i, f
  <2>5. l \in StepSeq /\ i \in DOMAIN l /\ (i \in DOMAIN s => l = s)
    BY <2>3, <2>4, Lengthened
  <2> HIDE DEF l, s
  <2>6. w \in StepSeq
    BY <2>4, <2>5, StepsReplaced
  <2>7. "steps" \notin S => w = c["steps"]
    BY <2>1, <2>4, <2>5, Fields_ DEF s, Alike
  <2>8. Fits("steps", w) /\ "steps" \in Fields
    BY <2>6, Fields_ DEF Fits
  <2> HIDE DEF w
  <2>9. /\ Content([original EXCEPT !["steps"] = w])
        /\ [original EXCEPT !["steps"] = w]["steps"] = w
        /\ \A g \in Fields \ {"steps"} : [original EXCEPT !["steps"] = w][g] = original[g]
    BY <2>8, Replaced
  <2> QED BY <2>2, <2>7, <2>9 DEF Alike
<1> QED BY <1>2, <1>3

-----------------------------------------------------------------------------
(* What a step may do to the page and to the requests under way *)

LEMMA NothingSent ==
    ASSUME Inv, UNCHANGED history, net' \subseteq net, asking' => Received,
           Page', doc'.id = doc.id,
           doc'.content["attachments"] = doc.content["attachments"]
    PROVE  Inv'
<1>1. Histories' /\ Grown
  BY HistoryStays DEF Inv
<1>2. Messages'
  BY <1>1, MessageStays DEF Inv, Messages
<1> QED BY <1>1, <1>2 DEF Inv, Asked, Received

LEMMA Sending ==
    ASSUME Inv, UNCHANGED <<history, doc, original, touched>>,
           asking' => Received,
           NEW kind \in Sends \ {"put"}, NEW t \in Cases, NEW about,
           Send(kind, t, about), kind \in {"upload", "unfile"} => Received
    PROVE  Inv'
<1>0. PICK m : m = Request(kind, t, NoDoc, about, {})
  OBVIOUS
<1>1. Histories' /\ Grown
  BY HistoryStays DEF Inv
<1>2. Page'
  BY <1>1, PageStays DEF Inv
<1>3. m.kind = kind /\ net' = net \cup {m}
  BY <1>0 DEF Send, Request
<1>4. Message(m)'
  BY <1>0 DEF Message, Request
<1>5. Messages'
  BY <1>1, <1>3, <1>4, MessageStays DEF Inv, Messages
<1> QED BY <1>1, <1>2, <1>3, <1>5 DEF Inv, Asked, Received

LEMMA Putting ==
    ASSUME Inv, UNCHANGED <<history, asking>>,
           Page', doc'.id = doc.id,
           doc'.content["attachments"] = doc.content["attachments"],
           NEW about, Submit(doc', about, touched')
    PROVE  Inv'
<1>0. PICK d, S, m : /\ d = Sent(doc') /\ S = touched'
                     /\ m = Request("put", d.id, d, about, S)
  OBVIOUS
<1>1. Histories' /\ Grown
  BY HistoryStays DEF Inv
<1>2. Document(doc') /\ VersionBut(doc', touched')
  BY DEF Page, Document, Content, Fits, VersionBut, Current
<1>3. /\ Document(d) /\ Stored(d.content)
      /\ VersionBut(d, S)
  BY <1>0, <1>2, SentFields DEF Inv
<1>4. m.kind = "put" /\ net' = net \cup {m}
  BY <1>0 DEF Submit, Put, Request
<1>5. VersionBut(d, S)'
  BY <1>3 DEF VersionBut, Current
<1>6. Message(m)'
  BY <1>0, <1>3, <1>5 DEF Message, Request, Sends, Document, Content, Fits, Stored
<1>7. Messages'
  BY <1>1, <1>4, <1>6, MessageStays DEF Inv, Messages
<1> QED BY <1>1, <1>4, <1>7 DEF Inv, Asked, Received

LEMMA Receiving ==
    ASSUME Inv, UNCHANGED <<history, asking>>, NEW m \in net, Version(m.doc),
           net' = net \ {m},
           doc' = m.doc, original' = m.doc.content, touched' = {}
    PROVE  Inv'
<1>1. Histories' /\ Grown
  BY HistoryStays DEF Inv
<1>2. Messages'
  BY <1>1, MessageStays DEF Inv, Messages
<1>3. Page'
  BY DEF Page, Version, VersionBut, Current, Document, Content, Fits
<1>4. Received'
  BY DEF Version, Received
<1> QED BY <1>1, <1>2, <1>3, <1>4 DEF Inv, Asked

LEMMA Replying ==
    ASSUME Inv, Histories', Grown, UNCHANGED <<doc, original, touched, asking>>,
           NEW m \in net, NEW outcome \in {"done", "failed"}, NEW d,
           Reply(m, outcome, d),
           m.kind \in {"get", "put"} /\ outcome = "done" => Version(d)'
    PROVE  Inv'
<1>0. PICK r : r = [m EXCEPT !.at = outcome, !.doc = d]
  OBVIOUS
<1>1. Page'
  BY PageStays DEF Inv
<1>2. net' = (net \ {m}) \cup {r}
  BY <1>0 DEF Reply
<1>3. Message(m)
  BY DEF Inv, Messages
<1>4. /\ r = [no |-> m.no, kind |-> m.kind, case |-> m.case, doc |-> d,
              about |-> m.about, changed |-> m.changed, at |-> outcome]
      /\ r.kind = m.kind
  BY <1>0, <1>3 DEF Message
<1>5. Message(r)'
  BY <1>3, <1>4 DEF Message, Sends
<1>6. Messages'
  BY <1>2, <1>5, MessageStays DEF Inv, Messages
<1> QED BY <1>1, <1>2, <1>4, <1>6 DEF Inv, Asked, Received

-----------------------------------------------------------------------------
(* The invariant holds at first, and each action preserves it *)

LEMMA InitInv == Init => Inv
<1> SUFFICES ASSUME Init PROVE Inv
  OBVIOUS
<1>1. Histories
  <2> SUFFICES ASSUME NEW t \in Cases
               PROVE  /\ history[t] \in Seq(Range(history[t]))
                      /\ Current(t) = 1 /\ Stored(history[t][1])
    BY DEF Init, Histories
  <2>1. history[t] = <<Begin[t]>>
    BY DEF Init
  <2>2. <<Begin[t]>> \in Seq(Range(<<Begin[t]>>)) /\ Len(<<Begin[t]>>) = 1
    BY DEF Range
  <2>3. Stored(Begin[t])
    <3> DEFINE a == Begin[t]["attributes"]
    <3>1. a = Defined(a)
      BY DEF Defined
    <3>2. IsFunction(a)
      BY <3>1 DEF IsFunction, Defined, Restrict
    <3>3. Begin[t]["steps"] \in StepSeq
      BY Fields_ DEF IsContent, InField, StepSeq
    <3> QED BY <3>1, <3>2, <3>3 DEF Stored, Content, Fits
  <2> QED BY <2>1, <2>2, <2>3 DEF Current
<1>2. Messages
  BY DEF Init, Messages
<1>3. Page
  BY NoContentFits DEF Init, Page, Document, VersionBut, NoDoc
<1>4. Asked
  BY NoContentFits DEF Init, Asked, NoDoc
<1> QED BY <1>1, <1>2, <1>3, <1>4 DEF Inv

LEMMA MadeStored ==
    ASSUME Histories, NEW m, Message(m), m.case \in Cases,
           m.kind \in Writes, m.at = "sent"
    PROVE  Stored(Made(m))
<1> DEFINE now == history[m.case][Current(m.case)]
<1>1. Current(m.case) \in 1 .. Current(m.case)
  BY LenProperties DEF Histories, Current
<1>2. Stored(now)
  BY <1>1 DEF Histories
<1> HIDE DEF now
<1>3. \A f \in {"locked", "attachments"} : \A v : Stored([now EXCEPT ![f] = v])
  <2> TAKE f \in {"locked", "attachments"}
  <2> TAKE v
  <2>1. f \in Fields /\ "attributes" \in Fields /\ Fits(f, v) /\ f # "attributes"
    BY Fields_
  <2>2. /\ Content([now EXCEPT ![f] = v])
        /\ \A g \in Fields \ {f} : [now EXCEPT ![f] = v][g] = now[g]
    BY <1>2, <2>1, Replaced DEF Stored
  <2> QED BY <1>2, <2>1, <2>2 DEF Stored
<1>4. CASE m.kind = "put"
  BY <1>4 DEF Message, Made
<1>5. CASE m.kind \in {"lock", "unlock"}
  BY <1>3, <1>5 DEF Made, now
<1>6. CASE m.kind \in {"upload", "unfile"}
  BY <1>3, <1>6 DEF Made, now
<1> QED BY <1>4, <1>5, <1>6 DEF Writes

LEMMA ServeInv ==
    ASSUME Inv, NEW m \in net, Serve(m)
    PROVE  Inv'
<1>1. UNCHANGED <<doc, original, touched, asking>> /\ Message(m)
  BY DEF Serve, edit, dialog, Inv, Messages
<1>2. CASE ServeGet(m)
  <2>1. Histories' /\ Grown /\ m.case \in Cases
    BY <1>1, <1>2, HistoryStays DEF ServeGet, Inv, Message
  <2>2. PICK t, n, d : t = m.case /\ n = Current(t) /\ d = Doc(t, n)
    OBVIOUS
  <2>3. Stored(history[t][n]) /\ n \in 1 .. Current(t) /\ t \in Cases
    BY <2>1, <2>2 DEF Histories, Inv, Grown
  <2>4. Version(d)
    BY <2>2, <2>3 DEF Version, Document, VersionBut, Doc, Stored
  <2>5. Version(d)'
    BY <2>1, <2>4, VersionsStay DEF Version, Document, Content, Fits
  <2>6. Reply(m, "done", d)
    BY <1>2, <2>2 DEF ServeGet
  <2> QED BY <1>1, <2>1, <2>5, <2>6, Replying
<1>3. CASE ServeWrite(m)
  <2>1. PICK t, c, n, d : /\ t = m.case /\ c = Made(m) /\ n = Current(t) + 1
                          /\ d = [id |-> t, version |-> n, content |-> c]
    OBVIOUS
  <2>2. t \in Cases /\ m.at = "sent" /\ m.kind \in Writes
    BY <1>3, <2>1 DEF ServeWrite, Accepted, Serve
  <2>3. Stored(c)
    BY <1>1, <2>1, <2>2, MadeStored DEF Inv
  <2>4. history' = [history EXCEPT ![t] = Append(@, c)]
    BY <1>3, <2>1 DEF ServeWrite
  <2>5. /\ Histories' /\ Grown
        /\ Current(t)' = n /\ Current(t) \in Nat
        /\ history'[t][n] = c
    BY <2>1, <2>2, <2>3, <2>4, HistoryGrows DEF Inv
  <2>6. Version(d)'
    BY <2>1, <2>2, <2>3, <2>5
       DEF Version, Document, VersionBut, Stored, Content, Fits
  <2>7. Reply(m, "done", d)
    BY <1>3, <2>1 DEF ServeWrite
  <2> QED BY <1>1, <2>5, <2>6, <2>7, Replying
<1>4. CASE Refuse(m)
  <2>1. Histories' /\ Grown
    BY <1>4, HistoryStays DEF Refuse, Inv
  <2>2. \/ Reply(m, "failed", m.doc)
        \/ Reply(m, "done", m.doc) /\ m.kind = "unfile"
    BY <1>4 DEF Refuse
  <2> QED BY <1>1, <2>1, <2>2, Replying
<1> QED BY <1>2, <1>3, <1>4 DEF Serve

LEMMA LoseInv ==
    ASSUME Inv, NEW m \in net, Lose(m)
    PROVE  Inv'
<1>1. UNCHANGED <<history, doc, original, touched, asking>>
  BY DEF Lose, edit, dialog
<1>2. Histories' /\ Grown
  BY <1>1, HistoryStays DEF Inv
<1> QED BY <1>1, <1>2, Replying DEF Lose

LEMMA SaveElsewhereInv ==
    ASSUME Inv, NEW t \in Cases, NEW f \in Texts \cup {"locked"}, NEW v,
           SaveElsewhere(t, f, v)
    PROVE  Inv'
<1>1. UNCHANGED <<net, doc, original, touched, asking>>
  BY DEF SaveElsewhere, edit, dialog
<1>2. PICK now, c : now = history[t][Current(t)] /\ c = [now EXCEPT ![f] = v]
  OBVIOUS
<1>3. history' = [history EXCEPT ![t] = Append(@, c)]
  BY <1>2 DEF SaveElsewhere, Current
<1>4. Stored(c)
  <2>1. Current(t) \in 1 .. Current(t)
    BY LenProperties DEF Inv, Histories, Current
  <2>2. Stored(now)
    BY <1>2, <2>1 DEF Inv, Histories
  <2>3. f \in Fields /\ "attributes" \in Fields /\ Fits(f, v) /\ f # "attributes"
    BY Fields_
  <2>4. /\ Content([now EXCEPT ![f] = v])
        /\ \A g \in Fields \ {f} : [now EXCEPT ![f] = v][g] = now[g]
    BY <2>2, <2>3, Replaced DEF Stored
  <2> QED BY <1>2, <2>2, <2>3, <2>4 DEF Stored
<1>5. Histories' /\ Grown
  BY <1>3, <1>4, HistoryGrows DEF Inv
<1>6. Page'
  BY <1>1, <1>5, PageStays DEF Inv
<1>7. Messages'
  BY <1>1, <1>5, MessageStays DEF Inv, Messages
<1> QED BY <1>1, <1>5, <1>6, <1>7 DEF Inv, Asked, Received

LEMMA AnswerInv ==
    ASSUME Inv, NEW m \in net,
           \/ TestCaseAnswered(m) \/ TestCaseFailed(m)
           \/ PutAnswered(m) \/ SubmitFailed(m)
           \/ CallAnswered(m) \/ CallFailed(m)
           \/ FileAnswered(m) \/ FileFailed(m)
    PROVE  Inv'
<1> USE DEF Quiet, server, edit, flags, dialog
<1>1. UNCHANGED history
  BY DEF TestCaseAnswered, TestCaseFailed, PutAnswered, SubmitFailed,
         CallAnswered, CallFailed, FileAnswered, FileFailed
<1>2. Histories' /\ Grown
  BY <1>1, HistoryStays DEF Inv
<1>3. Message(m)
  BY DEF Inv, Messages
<1>4. CASE TestCaseAnswered(m) \/ PutAnswered(m)
  <2>1. /\ Version(m.doc) /\ net' = net \ {m} /\ asking' = asking
        /\ doc' = m.doc /\ original' = m.doc.content /\ touched' = {}
    BY <1>3, <1>4 DEF TestCaseAnswered, PutAnswered, Receive, Forget, Message
  <2> QED BY <1>1, <2>1, Receiving
<1>5. CASE TestCaseFailed(m) \/ SubmitFailed(m) \/ CallAnswered(m)
             \/ CallFailed(m) \/ FileFailed(m)
  <2>1. net' = net \ {m} /\ UNCHANGED <<doc, original, touched, asking>>
    BY <1>5 DEF TestCaseFailed, SubmitFailed, CallAnswered, CallFailed,
                FileFailed, Forget, RenderAgain
  <2>2. Page'
    BY <1>2, <2>1, PageStays DEF Inv
  <2> QED BY <1>1, <2>1, <2>2, NothingSent DEF Inv, Asked
<1>6. CASE FileAnswered(m)
  <2>1. PICK r : r = [m EXCEPT !.no = Number(net \ {m}, "get"), !.kind = "get",
                               !.case = doc.id, !.at = "sent",
                               !.doc = NoDoc, !.about = Unknown]
    OBVIOUS
  <2>2. /\ UNCHANGED <<doc, original, touched>> /\ (asking' => asking)
        /\ m.kind \in {"upload", "unfile"} /\ net' = (net \ {m}) \cup {r}
    BY <1>6, <2>1 DEF FileAnswered
  <2>3. Received /\ doc.id \in Cases
    BY <2>2 DEF Inv, Asked, Received, Page
  <2>4. Message(r)' /\ r.kind = "get"
    BY <1>3, <2>1, <2>3 DEF Message, Sends
  <2>5. Messages'
    BY <1>2, <2>2, <2>4, MessageStays DEF Inv, Messages
  <2>6. Page'
    BY <1>2, <2>2, PageStays DEF Inv
  <2> QED BY <1>2, <2>2, <2>3, <2>4, <2>5, <2>6 DEF Inv, Asked, Received
<1> QED BY <1>4, <1>5, <1>6

(* Actions of the user that leave the test case on the page as it is. *)
LEMMA SendInv ==
    ASSUME Inv,
           \/ \E t \in Cases : ReceiveProps(t)
           \/ \E kind \in Calls : Call(kind)
           \/ \E f \in Files : Upload(f)
           \/ RemoveAttachment
    PROVE  Inv'
<1> USE DEF UserKeeps, server, edit, flags, dialog
<1>1. UNCHANGED <<history, doc, original, touched, asking>>
  BY DEF ReceiveProps, Call, Upload, RemoveAttachment
<1>2. Received => doc.id \in Cases
  BY DEF Received, Inv, Page
<1>3. asking' => Received
  BY <1>1 DEF Inv, Asked
<1>4. \E kind \in Sends \ {"put"}, t \in Cases : \E about :
         Send(kind, t, about) /\ (kind \in {"upload", "unfile"} => Received)
  <2>1. CASE \E t \in Cases : ReceiveProps(t)
    BY <2>1 DEF ReceiveProps, Sends
  <2>2. CASE \E kind \in Calls : Call(kind)
    BY <1>2, <2>2 DEF Call, Calls, Sends
  <2>3. CASE \E f \in Files : Upload(f)
    BY <1>2, <2>3 DEF Upload, Sends
  <2>4. CASE RemoveAttachment
    BY <1>2, <2>4 DEF RemoveAttachment, Sends, Inv, Asked
  <2> QED BY <2>1, <2>2, <2>3, <2>4
<1> QED BY <1>1, <1>3, <1>4, Sending

LEMMA SubmitInv ==
    ASSUME Inv,
           \/ \E f \in Texts : HandleSubmit(f)
           \/ \E i \in DOMAIN Steps : SubmitStep(i)
           \/ \E k \in Keys : SubmitAttribute(k)
    PROVE  Inv'
<1> USE DEF UserKeeps, server, edit, flags, dialog
<1>1. UNCHANGED <<history, doc, original, touched, asking>>
  BY DEF HandleSubmit, SubmitStep, SubmitAttribute
<1>2. \E about : Submit(doc, about, touched)
  BY DEF HandleSubmit, SubmitStep, SubmitAttribute
<1>3. Page'
  BY <1>1, HistoryStays, PageStays DEF Inv
<1>4. \E about : Submit(doc', about, touched')
  BY <1>1, <1>2
<1> QED BY <1>1, <1>3, <1>4, Putting

LEMMA IdleInv ==
    ASSUME Inv,
           \/ \E k \in Keys : ToggleEditAttribute(k)
           \/ \E f \in Files : RemoveAttachmentConfirmation(f)
           \/ CancelRemoveAttachmentConfirmation
           \/ SessionAnswered
           \/ UNCHANGED vars
    PROVE  Inv'
<1> USE DEF UserKeeps, Quiet, server, edit, flags, dialog
<1>1. UNCHANGED <<history, net, doc, original, touched>>
  BY DEF ToggleEditAttribute, RenderAgain, RemoveAttachmentConfirmation,
         CancelRemoveAttachmentConfirmation, SessionAnswered, vars
<1>2. asking' => Received
  BY DEF ToggleEditAttribute, RemoveAttachmentConfirmation,
         CancelRemoveAttachmentConfirmation, SessionAnswered, vars, Inv, Asked
<1>3. Page'
  BY <1>1, HistoryStays, PageStays DEF Inv
<1> QED BY <1>1, <1>2, <1>3, NothingSent

LEMMA MountInv ==
    ASSUME Inv, NEW t \in Cases, NEW r, Mount(t, r)
    PROVE  Inv'
<1>1. UNCHANGED <<history, doc, original, touched, asking>>
  BY DEF Mount, edit, dialog
<1>2. "get" \in Sends \ {"put"} /\ Send("get", t, Unknown)
  BY DEF Mount, Sends
<1>3. asking' => Received
  BY <1>1 DEF Inv, Asked
<1> QED BY <1>1, <1>2, <1>3, Sending

(* Edits: a field gets a new value, and some are sent at once. *)
LEMMA EditKeeps ==
    ASSUME Inv, UNCHANGED <<history, original, asking>>,
           NEW f \in Fields, NEW v, Fits(f, v), f # "attachments",
           doc' = ButFor(doc, f, v), touched' = touched \cup {f},
           \/ net' = net
           \/ \E about : Submit(doc', about, touched')
    PROVE  Inv'
<1>1. /\ Page' /\ doc'.id = doc.id
      /\ doc'.content["attachments"] = doc.content["attachments"]
  BY PageEdited DEF Inv
<1>2. CASE net' = net
  BY <1>1, <1>2, NothingSent DEF Inv, Asked
<1>3. CASE \E about : Submit(doc', about, touched')
  BY <1>1, <1>3, Putting
<1> QED BY <1>2, <1>3

LEMMA FieldEditInv ==
    ASSUME Inv,
           \/ \E f \in Texts, v \in Wordings : HandleChange(f, v)
           \/ OnBrokenToggle
    PROVE  Inv'
<1> USE DEF UserKeeps, server, flags, dialog
<1>1. UNCHANGED <<history, original, asking>>
  BY DEF HandleChange, OnBrokenToggle
<1>2. \E f \in Texts \cup {"broken"} : \E v :
         doc' = ButFor(doc, f, v) /\ touched' = touched \cup {f}
  BY DEF HandleChange, OnBrokenToggle, Edited, ButFor
<1>3. \/ net' = net
      \/ \E about : Submit(doc', about, touched')
  BY DEF HandleChange, OnBrokenToggle
<1>4. \A f \in Texts \cup {"broken"} : \A v : f \in Fields /\ f # "attachments" /\ Fits(f, v)
  BY Fields_
<1> QED BY <1>1, <1>2, <1>3, <1>4, EditKeeps

LEMMA StepEditInv ==
    ASSUME Inv,
           \/ AddStep
           \/ \E i \in DOMAIN Steps : RemoveStep(i)
           \/ \E i \in DOMAIN Steps, v \in Wordings : StepChange(i, v)
    PROVE  Inv'
<1> USE DEF UserKeeps, server, flags, dialog
<1>1. UNCHANGED <<history, original, asking>>
  BY DEF AddStep, RemoveStep, StepChange
<1>2. Steps \in StepSeq
  BY Fields_ DEF Inv, Page, Document, Content, Fits, Steps
<1>3. \E s \in StepSeq : PutSteps(s)
  <2>1. CASE AddStep
    <3>1. Append(Steps, Blank) \in StepSeq
      BY <1>2, AppendProperties DEF StepSeq
    <3> QED BY <2>1, <3>1 DEF AddStep
  <2>2. CASE \E i \in DOMAIN Steps : RemoveStep(i)
    BY <1>2, <2>2, StepRemoved DEF RemoveStep
  <2>3. CASE \E i \in DOMAIN Steps, v \in Wordings : StepChange(i, v)
    BY <1>2, <2>3, StepsReplaced DEF StepChange
  <2> QED BY <2>1, <2>2, <2>3
<1>4. \/ net' = net
      \/ \E about : Submit(doc', about, touched')
  BY DEF AddStep, RemoveStep, StepChange
<1>5. "steps" \in Fields /\ \A s \in StepSeq : Fits("steps", s)
  BY Fields_ DEF Fits
<1>6. \E s \in StepSeq : doc' = ButFor(doc, "steps", s)
                         /\ touched' = touched \cup {"steps"}
  BY <1>3 DEF PutSteps, Edited, ButFor
<1> QED BY <1>1, <1>4, <1>5, <1>6, EditKeeps

LEMMA AttributeEditInv ==
    ASSUME Inv,
           \/ AddAttribute \/ CancelEditAttributeKey
           \/ \E k \in Keys : EditAttributeKey(k) \/ RemoveAttribute(k)
    PROVE  Inv'
<1> USE DEF UserKeeps, server, flags, dialog
<1>1. UNCHANGED <<history, original, asking>>
  BY DEF AddAttribute, CancelEditAttributeKey, EditAttributeKey, RemoveAttribute
<1>2. \E a : PutAttrs(a) /\ IsFunction(a)
  <2>1. \A a, k : IsFunction(Without(a, k))
    BY DEF Without, Restrict, IsFunction
  <2>2. \A a, k, v : IsFunction(With(a, k, v))
    BY DEF With, IsFunction
  <2> QED BY <2>1, <2>2
          DEF AddAttribute, CancelEditAttributeKey, EditAttributeKey, RemoveAttribute
<1>3. \/ net' = net
      \/ \E about : Submit(doc', about, touched')
  BY DEF AddAttribute, CancelEditAttributeKey, EditAttributeKey, RemoveAttribute
<1>4. "attributes" \in Fields /\ \A a : IsFunction(a) => Fits("attributes", a)
  BY Fields_ DEF Fits
<1>5. \E a : /\ doc' = ButFor(doc, "attributes", a) /\ IsFunction(a)
             /\ touched' = touched \cup {"attributes"}
  BY <1>2 DEF PutAttrs, Edited, ButFor
<1> QED BY <1>1, <1>3, <1>4, <1>5, EditKeeps

(* Forms opened, and cancelled: what was not touched is restored to what it *)
(* already is.                                                              *)
LEMMA RestoreKeeps ==
    ASSUME Inv, UNCHANGED <<history, asking>>, net' = net,
           NEW f \in Fields, NEW v, Fits(f, v), f # "attachments",
           doc' = ButFor(doc, f, v), touched \subseteq touched',
           f \in touched' \/ v = doc.content[f],
           Content(original'),
           \A g \in Fields \ touched' : original'[g] = doc'.content[g]
    PROVE  Inv'
<1>1. /\ Document(doc)' /\ doc'.id = doc.id /\ VersionBut(doc, touched)'
      /\ doc'.content["attachments"] = doc.content["attachments"]
  BY DocEdited DEF Inv
<1>2. Page'
  BY <1>1 DEF Inv, Page, Content, Fits
<1> QED BY <1>1, <1>2, NothingSent DEF Inv, Asked

LEMMA ToggleInv ==
    ASSUME Inv,
           \/ \E f \in Texts : ToggleEdit(f)
           \/ \E i \in DOMAIN Steps : ToggleStep(i)
    PROVE  Inv'
<1> USE DEF UserKeeps, server, flags, dialog
<1>1. UNCHANGED <<history, net, doc, touched, asking>>
  BY DEF ToggleEdit, ToggleStep
<1>2. \E form : FormShape(form, doc.content) /\ original' = Taken(form, doc.content)
  BY DEF ToggleEdit, ToggleStep, Toggle, Form, StepFormOf, FormShape, Steps
<1>3. Content(doc.content) /\ Content(original) /\ Alike(original, doc.content, touched)
  BY DEF Inv, Page, Document, Alike
<1>4. Content(original') /\ Alike(original', doc.content, touched)
  BY <1>2, <1>3, TakenFits
<1>5. Page'
  BY <1>1, <1>4 DEF Alike, Inv, Page, Document, Content, Fits, VersionBut, Current
<1> QED BY <1>1, <1>5, NothingSent DEF Inv, Asked

LEMMA CancelEditInv ==
    ASSUME Inv, NEW f \in Texts, CancelEdit(f)
    PROVE  Inv'
<1> USE DEF UserKeeps, server, flags, dialog
<1>1. /\ UNCHANGED <<history, net, asking, touched>>
      /\ doc' = ButFor(doc, f, original[f])
      /\ original' = Taken(Form(f), doc'.content)
  BY DEF CancelEdit, Edited, ButFor, Toggle
<1>2. f \in Fields /\ Fits(f, original[f]) /\ f # "attachments"
  BY Fields_
<1>3. f \in touched \/ original[f] = doc.content[f]
  BY <1>2 DEF Inv, Page
<1>4. /\ Document(doc)'
      /\ \A g \in Fields \ touched : doc'.content[g] = doc.content[g]
  BY <1>1, <1>2, <1>3, DocEdited DEF Inv
<1>5. /\ Content(doc'.content) /\ FormShape(Form(f), doc'.content)
      /\ Content(original) /\ Alike(original, doc'.content, touched)
  BY <1>4 DEF Inv, Page, Document, Content, Fits, FormShape, Form, Alike
<1>6. Content(original') /\ Alike(original', doc'.content, touched)
  BY <1>1, <1>5, TakenFits
<1> QED BY <1>1, <1>2, <1>3, <1>6, RestoreKeeps DEF Alike

LEMMA CancelStepInv ==
    ASSUME Inv, NEW i \in DOMAIN Steps, CancelStep(i)
    PROVE  Inv'
<1> USE DEF UserKeeps, server, flags, dialog
<1> DEFINE s == original["steps"]
           v == IF i = 1 THEN s ELSE [Steps EXCEPT ![i] = Longer(s, i)[i]]
<1>1. /\ UNCHANGED <<history, net, asking, touched>>
      /\ doc' = ButFor(doc, "steps", v)
      /\ original' = Taken(StepFormOf(i), doc'.content)
  BY DEF CancelStep, Edited, ButFor, Toggle
<1>2. s \in StepSeq /\ Steps \in StepSeq /\ "steps" \in Fields
  BY Fields_ DEF Inv, Page, Document, Content, Fits, Steps
<1>3. i \in Nat /\ i >= 1
  BY <1>2, StepsReplaced
<1>4. /\ Longer(s, i) \in StepSeq /\ i \in DOMAIN Longer(s, i)
      /\ i \in DOMAIN s => Longer(s, i) = s
  BY <1>2, <1>3, Lengthened
<1>5. Longer(s, i)[i] \in Wordings \cup {Blank}
  BY <1>4, StepsReplaced
<1>6. /\ [Steps EXCEPT ![i] = Longer(s, i)[i]] \in StepSeq
      /\ DOMAIN [Steps EXCEPT ![i] = Longer(s, i)[i]] = DOMAIN Steps
      /\ [Steps EXCEPT ![i] = Steps[i]] = Steps
  BY <1>2, <1>5, StepsReplaced
<1>7. v \in StepSeq /\ (i # 1 => i \in DOMAIN v)
  BY <1>2, <1>6
<1>8. "steps" \in touched \/ v = doc.content["steps"]
  <2>1. "steps" \in touched \/ s = Steps
    BY <1>2 DEF Inv, Page, Steps
  <2>2. s = Steps => v = Steps
    BY <1>4, <1>6
  <2> QED BY <2>1, <2>2 DEF Steps
<1> HIDE DEF v
<1>9. Fits("steps", v) /\ "steps" # "attachments"
  BY <1>7 DEF Fits
<1>10. /\ Document(doc)' /\ doc'.content["steps"] = v
       /\ \A g \in Fields \ touched : doc'.content[g] = doc.content[g]
  BY <1>1, <1>2, <1>8, <1>9, DocEdited DEF Inv
<1>11. CASE FormShape(StepFormOf(i), doc'.content)
  <2>1. /\ Content(doc'.content) /\ Content(original)
        /\ Alike(original, doc'.content, touched)
    BY <1>10 DEF Inv, Page, Document, Content, Fits, Alike
  <2>2. Content(original') /\ Alike(original', doc'.content, touched)
    BY <1>1, <1>11, <2>1, TakenFits
  <2> QED BY <1>1, <1>2, <1>8, <1>9, <2>2, RestoreKeeps DEF Alike
<1>12. CASE i = 1
  <2>1. original' = [original EXCEPT !["steps"] = v]
    BY <1>1, <1>10, <1>12 DEF Taken, StepFormOf
  <2>2. /\ Content(original') /\ original'["steps"] = v
        /\ \A g \in Fields \ {"steps"} : original'[g] = original[g]
    <3>1. Content(original)
      BY DEF Inv, Page
    <3>2. /\ Content([original EXCEPT !["steps"] = v])
          /\ [original EXCEPT !["steps"] = v]["steps"] = v
          /\ \A g \in Fields \ {"steps"} :
                [original EXCEPT !["steps"] = v][g] = original[g]
      BY <1>2, <1>9, <3>1, Replaced
    <3> QED BY <2>1, <3>2
  <2>3. \A g \in Fields \ touched : original'[g] = doc'.content[g]
    BY <1>10, <2>2 DEF Inv, Page
  <2> QED BY <1>1, <1>2, <1>8, <1>9, <2>2, <2>3, RestoreKeeps
<1> QED BY <1>7, <1>10, <1>11, <1>12 DEF FormShape, StepFormOf

LEMMA AttributeFormInv ==
    ASSUME Inv, NEW k \in Keys,
           \/ CancelEditAttributeValues(k)
           \/ \E v \in SUBSET Values : EditAttributeValues(k, v)
    PROVE  Inv'
<1> USE DEF UserKeeps, server, flags, dialog
<1>1. UNCHANGED <<history, net, asking>>
  BY DEF CancelEditAttributeValues, EditAttributeValues
<1>2. \A a, v : Fits("attributes", With(a, k, v))
  BY DEF With, IsFunction, Fits
<1>3. "attributes" \in Fields /\ "attributes" # "attachments"
  BY Fields_
<1>4. IsFunction(Attrs) /\ k \in DOMAIN Attrs
  BY <1>3 DEF Inv, Page, Document, Content, Fits, Attrs,
              CancelEditAttributeValues, EditAttributeValues, AttributeForm, Named
<1>5. \E a, b : /\ doc' = ButFor(doc, "attributes", a) /\ Fits("attributes", a)
                /\ original' = [original EXCEPT !["attributes"] = b]
                /\ Fits("attributes", b)
                /\ touched \subseteq touched'
                /\ \/ "attributes" \in touched'
                   \/ a = doc.content["attributes"] /\ b = a
  <2>1. CASE CancelEditAttributeValues(k)
    <3> DEFINE o == original["attributes"]
               x == ValueOf(o, k)
    <3>1. /\ doc' = ButFor(doc, "attributes", With(Attrs, k, x))
          /\ original' = [original EXCEPT !["attributes"] = With(o, k, x)]
          /\ touched' = touched
      BY <2>1, <1>3 DEF CancelEditAttributeValues, Edited, ButFor, Inv, Page, Content
    <3>2. "attributes" \in touched \/ o = Attrs
      BY <1>3 DEF Inv, Page, Attrs
    <3>3. With(Attrs, k, Attrs[k]) = Attrs
      BY <1>4 DEF With, IsFunction
    <3>4. o = Attrs => x = Attrs[k]
      BY <1>4 DEF ValueOf
    <3> HIDE DEF o, x
    <3> QED BY <1>2, <3>1, <3>2, <3>3, <3>4 DEF Attrs
  <2>2. CASE \E v \in SUBSET Values : EditAttributeValues(k, v)
    BY <1>2, <1>3, <2>2 DEF EditAttributeValues, PutAttrs, Edited, ButFor, Inv, Page, Content
  <2> QED BY <2>1, <2>2
<1>6. PICK a, b : /\ doc' = ButFor(doc, "attributes", a) /\ Fits("attributes", a)
                  /\ original' = [original EXCEPT !["attributes"] = b]
                  /\ Fits("attributes", b)
                  /\ touched \subseteq touched'
                  /\ \/ "attributes" \in touched'
                     \/ a = doc.content["attributes"] /\ b = a
  BY <1>5
<1>7. /\ \A g \in Fields \ touched' : doc'.content[g] = doc.content[g]
      /\ doc'.content["attributes"] = a
  BY <1>1, <1>3, <1>6, DocEdited DEF Inv
<1>8. /\ Content(original') /\ original'["attributes"] = b
      /\ \A g \in Fields \ {"attributes"} : original'[g] = original[g]
  <2>1. Content(original) /\ Fits("attributes", b)
    BY <1>6 DEF Inv, Page
  <2>2. /\ Content([original EXCEPT !["attributes"] = b])
        /\ [original EXCEPT !["attributes"] = b]["attributes"] = b
        /\ \A g \in Fields \ {"attributes"} :
              [original EXCEPT !["attributes"] = b][g] = original[g]
    BY <1>3, <2>1, Replaced
  <2> QED BY <1>6, <2>2
<1>9. \A g \in Fields \ touched' : original'[g] = doc'.content[g]
  BY <1>6, <1>7, <1>8 DEF Inv, Page
<1> QED BY <1>1, <1>3, <1>6, <1>8, <1>9, RestoreKeeps

LEMMA NextInv == Inv /\ [Next]_vars => Inv'
<1> SUFFICES ASSUME Inv, [Next]_vars PROVE Inv'
  OBVIOUS
<1>1. CASE User
  BY <1>1, SendInv, SubmitInv, IdleInv, FieldEditInv, StepEditInv,
     AttributeEditInv, ToggleInv, CancelEditInv, CancelStepInv, AttributeFormInv
     DEF User
<1>2. CASE Answer
  BY <1>2, IdleInv, AnswerInv DEF Answer
<1>3. CASE Elsewhere
  BY <1>3, SaveElsewhereInv DEF Elsewhere
<1>4. CASE \E m \in net : Serve(m) \/ Lose(m)
  BY <1>4, ServeInv, LoseInv
<1>5. CASE \E t \in Cases, r \in {"ADMIN", "TESTDEVELOPER", "TESTER"} : Mount(t, r)
  BY <1>5, MountInv
<1>6. CASE UNCHANGED vars
  BY <1>6, IdleInv
<1> QED BY <1>1, <1>2, <1>3, <1>4, <1>5, <1>6 DEF Next

THEOREM Invariance == Spec => []Inv
<1> QED BY InitInv, NextInv, PTL DEF Spec

-----------------------------------------------------------------------------
(* The part of the page that the user has not changed is a version of the   *)
(* test case as the service stored it, through edits, cancelled edits and   *)
(* answers in any order (TestCase.js, state.testcase).                      *)
THEOREM ShownIsStored == Spec => []ShownAsStored
<1>1. Inv => ShownAsStored
  BY DEF Inv, Page, VersionBut, Received, ShownAsStored
<1> QED BY <1>1, Invariance, PTL

(* What cancelling an edit restores is, in the fields the user has not      *)
(* changed, what the page shows: no cancel edits anything (TestCase.js,     *)
(* toggleEdit and cancelEdit).                                              *)
CancelRestores ==
    \A f \in Fields \ touched : original[f] = doc.content[f]
THEOREM CancelIsNoEdit == Spec => []CancelRestores
<1>1. Inv => CancelRestores
  BY DEF Inv, Page, CancelRestores
<1> QED BY <1>1, Invariance, PTL

(* Only the service changes what is stored: with a request from the page,   *)
(* or one of another user, for which no request of the page is answered.    *)
MountStep == \E t \in Cases, r \in {"ADMIN", "TESTDEVELOPER", "TESTER"} : Mount(t, r)

LEMMA PageStoresNothing ==
    ASSUME User \/ Answer \/ MountStep
    PROVE  UNCHANGED history
<1> USE DEF UserKeeps, Quiet, server, edit, flags, dialog
<1>1. CASE User
  BY <1>1 DEF User, ReceiveProps, ToggleEdit, CancelEdit, HandleSubmit,
     HandleChange, OnBrokenToggle, AddStep, ToggleStep, CancelStep, SubmitStep,
     RemoveStep, StepChange, AddAttribute, CancelEditAttributeKey,
     EditAttributeKey, ToggleEditAttribute, RemoveAttribute,
     CancelEditAttributeValues, SubmitAttribute, EditAttributeValues, Call,
     Upload, RemoveAttachmentConfirmation, CancelRemoveAttachmentConfirmation,
     RemoveAttachment
<1>2. CASE Answer
  BY <1>2 DEF Answer, SessionAnswered, TestCaseAnswered, TestCaseFailed,
     PutAnswered, SubmitFailed, CallAnswered, CallFailed, FileAnswered, FileFailed
<1>3. CASE MountStep
  BY <1>3 DEF MountStep, Mount
<1> QED BY <1>1, <1>2, <1>3

LEMMA Writers ==
    ASSUME Next, history' # history
    PROVE  \/ \E m \in net : ServeWrite(m)
           \/ net' = net
<1>1. CASE User \/ Answer \/ MountStep
  BY <1>1, PageStoresNothing
<1>2. CASE Elsewhere
  BY <1>2 DEF Elsewhere, SaveElsewhere
<1>3. CASE \E m \in net : Serve(m) \/ Lose(m)
  BY <1>3 DEF Serve, ServeGet, Refuse, Lose
<1> QED BY <1>1, <1>2, <1>3 DEF Next, MountStep

(* A save of the page, which sends the whole test case, changes in the      *)
(* service no field but those the user changed on the page: handleSubmit    *)
(* with the comparison of versions that the service makes.                  *)
THEOREM NothingForeignOverwritten == Spec => NoForeignChangeOverwritten
<1> DEFINE Kept(m) ==
       m.kind = "put" /\ m.at = "sent" /\ history' # history /\ m \notin net' =>
          \A f \in Fields \ m.changed :
             history'[m.case][Current(m.case) + 1][f] = history[m.case][Current(m.case)][f]
<1>1. Inv /\ [Next]_vars => [\A m \in net : Kept(m)]_vars
  <2> SUFFICES ASSUME Inv, Next, NEW m \in net, m.kind = "put", m.at = "sent",
                      history' # history, m \notin net'
               PROVE  \A f \in Fields \ m.changed :
                         history'[m.case][Current(m.case) + 1][f]
                            = history[m.case][Current(m.case)][f]
    OBVIOUS
  <2>1. ServeWrite(m)
    BY Writers DEF ServeWrite, Reply
  <2>2. Message(m)
    BY DEF Inv, Messages
  <2>3. PICK t, c, n : t = m.case /\ c = Made(m) /\ n = Current(t)
    OBVIOUS
  <2>4. /\ t \in Cases /\ c = m.doc.content
        /\ m.doc.version = n
    BY <2>1, <2>3 DEF ServeWrite, Accepted, Made
  <2>5. \A f \in Fields \ m.changed : c[f] = history[t][n][f]
    BY <2>2, <2>3, <2>4 DEF Message, VersionBut
  <2>6. Stored(c)
    BY <2>2, <2>4 DEF Message
  <2>7. history' = [history EXCEPT ![t] = Append(@, c)]
    BY <2>1, <2>3 DEF ServeWrite
  <2>8. t \in Cases
    BY <2>4
  <2>9. history'[t][Current(t) + 1] = c
    BY <2>6, <2>7, <2>8, HistoryGrows DEF Inv
  <2> QED BY <2>3, <2>5, <2>9
<1> QED BY <1>1, Invariance, PTL DEF Spec, NoForeignChangeOverwritten

-----------------------------------------------------------------------------
(* Numbers: of fewer requests than there may be, one is free *)

LEMMA LeastOf ==
    ASSUME NEW S \in SUBSET Nat, S # {}
    PROVE  \E n \in S : \A m \in S : n <= m
<1> DEFINE R == {ss \in Nat \X Nat : ss[1] < ss[2]}
<1>1. OpToRel(<, Nat) = R
  BY Zenon DEF OpToRel
<1>2. IsWellFoundedOn(R, Nat)
  BY NatLessThanWellFounded, <1>1, Zenon
<1>3. \A x, y \in Nat : y < x => <<y, x>> \in R
  OBVIOUS
<1> HIDE DEF R
<1>4. PICK n \in S : \A m \in S : ~(<<m, n>> \in R)
  BY <1>2, WFMin
<1>5. \A m \in S : ~(m < n)
  BY <1>3, <1>4
<1> QED BY <1>5

(* Numbers that no request of a kind has.                                   *)
Unused(n, top, kind) == {i \in 1 .. top : \A m \in n : m.kind = kind => m.no # i}

LEMMA FreeNumber ==
    ASSUME NEW n, IsFiniteSet(n), NEW top \in Nat, Cardinality(n) < top, NEW kind
    PROVE  \E i \in Unused(n, top, kind) : \A j \in Unused(n, top, kind) : i <= j
<1> DEFINE free == Unused(n, top, kind)
<1>1. Cardinality(n) \in Nat
  BY FS_CardinalityType
<1>2. free # {}
  <2> SUFFICES ASSUME free = {} PROVE FALSE
    OBVIOUS
  <2>1. \A i \in 1 .. top : \E m \in n : m.no = i
    BY DEF Unused
  <2> DEFINE pick == [i \in 1 .. top |-> CHOOSE m \in n : m.no = i]
  <2>2. pick \in [1 .. top -> n] /\ \A i \in 1 .. top : pick[i].no = i
    BY <2>1
  <2> HIDE DEF pick
  <2>3. IsFiniteSet(1 .. top) /\ Cardinality(1 .. top) = top
    BY FS_Interval
  <2>4. pick \in Injection(1 .. top, n)
    BY <2>2 DEF Injection, IsInjective
  <2>5. Cardinality(1 .. top) <= Cardinality(n)
    BY <2>4, FS_Injection
  <2> QED BY <1>1, <2>3, <2>5
<1>3. free \in SUBSET Nat
  BY DEF Unused
<1> HIDE DEF free
<1>4. PICK i \in free : \A j \in free : i <= j
  BY <1>2, <1>3, LeastOf
<1> QED BY <1>4 DEF free

-----------------------------------------------------------------------------
(* What the page, the service and the requests hold has its type *)

AllForms == (Texts \X {0}) \cup ({"steps"} \X Nat)

HistoryTyped ==
    /\ DOMAIN history = Cases
    /\ \A t \in Cases : \A n \in 1 .. Current(t) : IsContent(history[t][n])
(* An upload names a file, a save the form it comes from, if any.           *)
MessageTyped(m) ==
    /\ m.no \in 1 .. MaxInFlight /\ m.case \in Cases \cup {NoCase}
    /\ m.changed \subseteq Fields /\ IsContent(m.doc.content)
    /\ m.kind = "upload" => m.about \in Files
    /\ m.kind = "put" => m.about = NoForm \/ m.about \in AllForms
NetTyped ==
    /\ IsFiniteSet(net) /\ Cardinality(net) <= MaxInFlight
    /\ \A m \in net : MessageTyped(m)
DocTyped == IsContent(doc.content) /\ IsContent(original)
EditTyped ==
    /\ forms \subseteq AllForms /\ inEdit \subseteq Keys /\ unwritten \subseteq Nat
    /\ touched \subseteq Fields /\ toRemove \in Files \cup {Unknown}
FlagsTyped ==
    /\ readonly \in BOOLEAN /\ loading \in BOOLEAN /\ failed \in BOOLEAN
    /\ asking \in BOOLEAN /\ left \in BOOLEAN
(* The session is not known before a test case is.                          *)
SessionTyped ==
    /\ session \in {Unknown, role} /\ chosen \in Cases \cup {NoCase}
    /\ chosen = NoCase => session = Unknown
Typed ==
    HistoryTyped /\ NetTyped /\ DocTyped /\ EditTyped /\ FlagsTyped /\ SessionTyped

LEMMA TypesFollow == Inv /\ Typed => TypeOK
<1> SUFFICES ASSUME Inv, Typed PROVE TypeOK
  OBVIOUS
<1>1. \A m \in net :
         /\ m.no \in 1 .. MaxInFlight /\ m.kind \in Sends
         /\ m.case \in Cases \cup {NoCase} /\ m.at \in {"sent", "done", "failed"}
         /\ m.changed \subseteq Fields
         /\ IsContent(m.doc.content)
  BY DEF Typed, NetTyped, MessageTyped, Inv, Messages, Message
<1>2. \A b \in {readonly, loading, failed, asking, left} : b \in BOOLEAN
  BY Zenon DEF Typed, FlagsTyped
<1>3. HistoryTyped /\ DocTyped /\ EditTyped /\ SessionTyped
  BY DEF Typed
<1>4. doc.id \in Cases \cup {NoCase}
  BY DEF Inv, Page
<1> QED BY <1>1, <1>2, <1>3, <1>4
        DEF HistoryTyped, DocTyped, EditTyped, SessionTyped, AllForms, TypeOK

(* Contents *)
LEMMA FieldTypes ==
    /\ \A f \in Texts : \A v : InField(f, v) <=> v \in Wordings \cup {Blank}
    /\ \A f \in {"broken", "locked"} : \A v : InField(f, v) <=> v \in BOOLEAN
    /\ \A v : InField("attributes", v) <=> v \in Attributes
    /\ \A v : InField("steps", v) <=> v \in StepSeq
    /\ \A v : InField("attachments", v) <=> v \in SUBSET Files
<1>0. Texts \cap {"broken", "locked", "attributes", "steps", "attachments"} = {}
  BY TestCasePageAssumption
<1>1. \A f \in Texts : f \notin {"broken", "locked", "attributes", "steps", "attachments"}
  BY ONLY <1>0
<1>2. ASSUME NEW f \in Texts, NEW v
      PROVE  InField(f, v) <=> v \in Wordings \cup {Blank}
  BY <1>1 DEF InField
<1>3. \A f \in {"broken", "locked"} : \A v : InField(f, v) <=> v \in BOOLEAN
  BY <1>1 DEF InField
<1>4. \A v : InField("attributes", v) <=> v \in Attributes
  BY <1>1 DEF InField
<1>5. \A v : InField("steps", v) <=> v \in StepSeq
  BY <1>1 DEF InField, StepSeq
<1>6. \A v : InField("attachments", v) <=> v \in SUBSET Files
  BY <1>1 DEF InField
<1> QED BY <1>2, <1>3, <1>4, <1>5, <1>6

LEMMA ContentWith ==
    ASSUME NEW c, IsContent(c), NEW f \in Fields, NEW v, InField(f, v)
    PROVE  IsContent([c EXCEPT ![f] = v])
BY DEF IsContent

LEMMA AttributesChanged ==
    ASSUME NEW a \in Attributes
    PROVE  /\ \A k : Without(a, k) \in Attributes
           /\ Defined(a) \in Attributes
           /\ \A k \in Keys \cup {NoKey} : \A v \in (SUBSET Values) \cup {Unknown} :
                 With(a, k, v) \in Attributes
           /\ \A k : ValueOf(a, k) \in (SUBSET Values) \cup {Unknown}
<1> DEFINE K == Keys \cup {NoKey}
           V == (SUBSET Values) \cup {Unknown}
<1>1. Attributes = UNION {[D -> V] : D \in SUBSET K}
  BY DEF Attributes
<1> HIDE DEF K, V
<1>2. PICK D \in SUBSET K : a \in [D -> V]
  BY <1>1
<1>3. \A S \in SUBSET D : [x \in S |-> a[x]] \in Attributes
  BY <1>1, <1>2
<1>4. \A k : Without(a, k) \in Attributes
  BY <1>2, <1>3 DEF Without, Restrict
<1>5. Defined(a) \in Attributes
  <2> DEFINE S == {k \in DOMAIN a : a[k] # Unknown}
  <2>1. S \in SUBSET D
    BY <1>2
  <2>2. Defined(a) = [x \in S |-> a[x]]
    BY DEF Defined, Restrict
  <2> HIDE DEF S
  <2> QED BY <1>3, <2>1, <2>2
<1>6. ASSUME NEW k \in K, NEW v \in V
      PROVE  With(a, k, v) \in Attributes
  <2>1. With(a, k, v) \in [D \cup {k} -> V]
    BY <1>2 DEF With
  <2>2. D \cup {k} \in SUBSET K
    OBVIOUS
  <2> QED BY <1>1, <2>1, <2>2
<1>7. ASSUME NEW k PROVE ValueOf(a, k) \in V
  BY <1>2 DEF ValueOf, V
<1> QED BY <1>4, <1>5, <1>6, <1>7 DEF K, V

LEMMA NothingTyped == IsContent(NoContent)
<1>1. <<>> \in StepSeq
  BY EmptySeq DEF StepSeq
<1>2. <<>> \in Attributes
  <2>1. <<>> \in [{} -> (SUBSET Values) \cup {Unknown}]
    OBVIOUS
  <2>2. {} \in SUBSET (Keys \cup {NoKey})
    OBVIOUS
  <2> QED BY <2>1, <2>2 DEF Attributes
<1>3. \A f \in Fields : InField(f, NoContent[f])
  <2> SUFFICES ASSUME NEW f \in Fields PROVE InField(f, NoContent[f])
    OBVIOUS
  <2>1. CASE f \in Texts
    BY <2>1, FieldTypes DEF NoContent
  <2>2. CASE f \in {"broken", "locked"}
    BY <2>2, FieldTypes DEF NoContent
  <2>3. CASE f = "steps"
    BY <1>1, <2>3, FieldTypes DEF NoContent
  <2>4. CASE f = "attributes"
    BY <1>2, <2>4, FieldTypes DEF NoContent
  <2>5. CASE f = "attachments"
    BY <2>5, FieldTypes DEF NoContent
  <2> QED BY <2>1, <2>2, <2>3, <2>4, <2>5 DEF Fields
<1> QED BY <1>3 DEF IsContent, NoContent

LEMMA TypedInit == Init => Typed
<1> SUFFICES ASSUME Init PROVE Typed
  OBVIOUS
<1>1. HistoryTyped
  <2>1. \A t \in Cases : history[t] = <<Begin[t]>> /\ Current(t) = 1
    BY DEF Init, Current
  <2>2. \A t \in Cases : IsContent(Begin[t])
    BY TestCasePageAssumption
  <2>3. DOMAIN history = Cases
    BY DEF Init
  <2>4. ASSUME NEW t \in Cases, NEW n \in 1 .. Current(t)
        PROVE  IsContent(history[t][n])
    <3>1. n = 1
      BY <2>1, <2>4
    <3>2. history[t][n] = Begin[t]
      BY <2>1, <3>1
    <3> QED BY <2>2, <3>2
  <2> QED BY <2>3, <2>4 DEF HistoryTyped
<1>2. NetTyped
  BY FS_EmptySet, TestCasePageAssumption DEF Init, NetTyped
<1>3. DocTyped
  BY NothingTyped DEF Init, DocTyped, NoDoc
<1>4. EditTyped
  BY DEF Init, EditTyped
<1>5. FlagsTyped /\ SessionTyped
  BY DEF Init, FlagsTyped, SessionTyped
<1> QED BY <1>1, <1>2, <1>3, <1>4, <1>5 DEF Typed

(* What is stored *)
LEMMA HistoryTypedWith ==
    ASSUME Histories, HistoryTyped, NEW t \in Cases, NEW c, IsContent(c),
           history' = [history EXCEPT ![t] = Append(@, c)]
    PROVE  HistoryTyped'
<1>1. /\ DOMAIN history' = Cases /\ history'[t] = Append(history[t], c)
      /\ \A u \in Cases \ {t} : history'[u] = history[u]
  BY DEF Histories, HistoryTyped
<1>2. PICK s : s = history[t]
  OBVIOUS
<1>3. s \in Seq(Range(s)) /\ \A n \in 1 .. Len(s) : IsContent(s[n])
  BY <1>2 DEF Histories, HistoryTyped, Current
<1>4. /\ Len(s) \in Nat /\ Len(Append(s, c)) = Len(s) + 1
      /\ \A i \in 1 .. Len(s) : Append(s, c)[i] = s[i]
      /\ Append(s, c)[Len(s) + 1] = c
  BY <1>3, Appended
<1>5. \A n \in 1 .. Len(history'[t]) : IsContent(history'[t][n])
  <2>1. \A n \in 1 .. Len(s) + 1 : n \in 1 .. Len(s) \/ n = Len(s) + 1
    BY <1>4
  <2> QED BY <1>1, <1>2, <1>3, <1>4, <2>1
<1>6. \A u \in Cases : \A n \in 1 .. Len(history'[u]) : IsContent(history'[u][n])
  BY <1>1, <1>5 DEF HistoryTyped, Current
<1> QED BY <1>1, <1>6 DEF HistoryTyped, Current

LEMMA NowTyped ==
    ASSUME Histories, HistoryTyped, NEW t \in Cases
    PROVE  IsContent(history[t][Current(t)])
<1>1. Current(t) \in 1 .. Current(t)
  BY LenProperties DEF Histories, Current
<1> QED BY <1>1 DEF HistoryTyped

LEMMA MadeTyped ==
    ASSUME Histories, HistoryTyped, NEW m, MessageTyped(m), m.case \in Cases,
           m.kind \in Writes
    PROVE  IsContent(Made(m))
<1> DEFINE now == history[m.case][Current(m.case)]
<1>1. IsContent(now)
  BY NowTyped
<1> HIDE DEF now
<1>2. {"locked", "attachments"} \subseteq Fields
  BY Fields_
<1>3. \A b \in BOOLEAN : IsContent([now EXCEPT !["locked"] = b])
  BY <1>1, <1>2, ContentWith, FieldTypes
<1>4. \A S \in SUBSET Files : IsContent([now EXCEPT !["attachments"] = S])
  BY <1>1, <1>2, ContentWith, FieldTypes
<1>5. now["attachments"] \in SUBSET Files
  BY <1>1, <1>2, FieldTypes DEF IsContent
<1>6. CASE m.kind = "put"
  BY <1>6 DEF MessageTyped, Made
<1>7. CASE m.kind \in {"lock", "unlock"}
  BY <1>3, <1>7 DEF Made, now
<1>8. CASE m.kind = "upload"
  <2>1. now["attachments"] \cup {m.about} \in SUBSET Files
    BY <1>5, <1>8 DEF MessageTyped
  <2> QED BY <1>4, <1>8, <2>1 DEF Made, now
<1>9. CASE m.kind = "unfile"
  <2>1. now["attachments"] \ {m.about} \in SUBSET Files
    BY <1>5
  <2> QED BY <1>4, <1>9, <2>1 DEF Made, now
<1> QED BY <1>6, <1>7, <1>8, <1>9 DEF Writes

LEMMA HistorySteps ==
    ASSUME [Next]_vars
    PROVE  \/ UNCHANGED history
           \/ \E m \in net : ServeWrite(m)
           \/ \E t \in Cases :
                 \/ \E f \in Texts, v \in Wordings : SaveElsewhere(t, f, v)
                 \/ \E b \in BOOLEAN : SaveElsewhere(t, "locked", b)
<1> USE DEF server
<1>1. CASE Elsewhere
  BY <1>1 DEF Elsewhere
<1>2. CASE User \/ Answer \/ MountStep
  BY <1>2, PageStoresNothing
<1>3. CASE \E m \in net : Serve(m) \/ Lose(m)
  BY <1>3 DEF Serve, ServeGet, Refuse, Lose
<1>4. CASE UNCHANGED vars
  BY <1>4 DEF vars, server
<1> QED BY <1>1, <1>2, <1>3, <1>4 DEF Next, MountStep

LEMMA HistoryStep ==
    ASSUME Inv, Typed, [Next]_vars
    PROVE  HistoryTyped'
<1>1. Histories /\ HistoryTyped /\ NetTyped
  BY DEF Inv, Typed
<1>2. CASE UNCHANGED history
  BY <1>1, <1>2 DEF HistoryTyped, Current
<1>3. ASSUME NEW m \in net, ServeWrite(m)
      PROVE  HistoryTyped'
  <2>1. PICK t, c : t = m.case /\ c = Made(m)
    OBVIOUS
  <2>2. t \in Cases /\ m.kind \in Writes
    BY <1>3, <2>1 DEF ServeWrite, Accepted
  <2>3. IsContent(c)
    BY <1>1, <2>1, <2>2, MadeTyped DEF NetTyped
  <2>4. history' = [history EXCEPT ![t] = Append(@, c)]
    BY <1>3, <2>1 DEF ServeWrite
  <2> QED BY <1>1, <2>2, <2>3, <2>4, HistoryTypedWith
<1>4. ASSUME NEW t \in Cases, NEW f \in Fields, NEW v, InField(f, v), SaveElsewhere(t, f, v)
      PROVE  HistoryTyped'
  <2>1. PICK now, c : now = history[t][Current(t)] /\ c = [now EXCEPT ![f] = v]
    OBVIOUS
  <2>2. history' = [history EXCEPT ![t] = Append(@, c)]
    BY <1>4, <2>1 DEF SaveElsewhere, Current
  <2>3. IsContent(now)
    BY <1>1, <2>1, NowTyped
  <2>4. IsContent(c)
    BY <1>4, <2>1, <2>3, ContentWith
  <2> QED BY <1>1, <2>2, <2>4, HistoryTypedWith
<1>5. \A f \in Texts, v \in Wordings : f \in Fields /\ InField(f, v)
  BY Fields_, FieldTypes
<1>6. \A b \in BOOLEAN : "locked" \in Fields /\ InField("locked", b)
  BY Fields_, FieldTypes
<1> QED BY <1>2, <1>3, <1>4, <1>5, <1>6, HistorySteps

(* What the page shows, and what cancelling restores *)
LEMMA EditTypes ==
    ASSUME Document(doc), IsContent(doc.content), NEW f \in Fields, NEW v,
           InField(f, v), doc' = ButFor(doc, f, v)
    PROVE  IsContent(doc'.content)
<1>1. doc'.content = [doc.content EXCEPT ![f] = v]
  BY DEF Document, ButFor
<1> QED BY <1>1, ContentWith

LEMMA TakenTyped ==
    ASSUME NEW form, NEW c, IsContent(c), IsContent(original), FormShape(form, c)
    PROVE  IsContent(Taken(form, c))
<1> DEFINE f == form[1]
           i == form[2]
<1>1. f \in Fields
  BY Fields_ DEF FormShape
<1>2. CASE i \in {0, 1}
  <2>1. Taken(form, c) = [original EXCEPT ![f] = c[f]]
    BY <1>2 DEF Taken
  <2>2. InField(f, c[f])
    BY <1>1 DEF IsContent
  <2> HIDE DEF f, i
  <2>3. IsContent([original EXCEPT ![f] = c[f]])
    BY <1>1, <2>2, ContentWith
  <2> QED BY <2>1, <2>3
<1>3. CASE i \notin {0, 1}
  <2> DEFINE s == original["steps"]
             l == Longer(s, i)
             w == [l EXCEPT ![i] = c["steps"][i]]
  <2>1. f = "steps" /\ i \in DOMAIN c["steps"]
    BY <1>3 DEF FormShape
  <2>2. Taken(form, c) = [original EXCEPT !["steps"] = w]
    BY <1>3, <2>1 DEF Taken
  <2>3. s \in StepSeq /\ c["steps"] \in StepSeq
    BY Fields_, FieldTypes DEF IsContent
  <2>4. i \in Nat /\ i >= 1 /\ c["steps"][i] \in Wordings \cup {Blank}
    BY <2>1, <2>3, StepsReplaced
  <2> HIDE DEF i, f
  <2>5. l \in StepSeq /\ i \in DOMAIN l
    BY <2>3, <2>4, Lengthened
  <2> HIDE DEF l, s
  <2>6. w \in StepSeq
    BY <2>4, <2>5, StepsReplaced
  <2>7. InField("steps", w) /\ "steps" \in Fields
    BY <2>6, Fields_, FieldTypes
  <2> HIDE DEF w
  <2>8. IsContent([original EXCEPT !["steps"] = w])
    BY <2>7, ContentWith
  <2> QED BY <2>2, <2>8
<1> QED BY <1>2, <1>3

LEMMA DocSteps ==
    ASSUME [Next]_vars
    PROVE  \/ UNCHANGED <<doc, original>>
           \/ \E m \in net : TestCaseAnswered(m) \/ PutAnswered(m)
           \/ \E f \in Texts : ToggleEdit(f) \/ CancelEdit(f)
           \/ \E f \in Texts, v \in Wordings : HandleChange(f, v)
           \/ OnBrokenToggle
           \/ AddStep
           \/ \E i \in DOMAIN Steps :
                 \/ ToggleStep(i) \/ CancelStep(i) \/ RemoveStep(i)
                 \/ \E v \in Wordings : StepChange(i, v)
           \/ AddAttribute \/ CancelEditAttributeKey
           \/ \E k \in Keys :
                 \/ EditAttributeKey(k) \/ RemoveAttribute(k)
                 \/ CancelEditAttributeValues(k)
                 \/ \E v \in SUBSET Values : EditAttributeValues(k, v)
<1> USE DEF edit
<1>1. CASE User
  BY <1>1 DEF User, ReceiveProps, HandleSubmit, SubmitStep, ToggleEditAttribute,
     RenderAgain, SubmitAttribute, Call, Upload, RemoveAttachmentConfirmation,
     CancelRemoveAttachmentConfirmation, RemoveAttachment
<1>2. CASE Answer
  BY <1>2 DEF Answer, SessionAnswered, TestCaseFailed, SubmitFailed, CallAnswered,
     CallFailed, RenderAgain, FileAnswered, FileFailed
<1>3. CASE Elsewhere
  BY <1>3 DEF Elsewhere, SaveElsewhere
<1>4. CASE \E m \in net : Serve(m) \/ Lose(m)
  BY <1>4 DEF Serve, Lose
<1>5. CASE MountStep
  BY <1>5 DEF MountStep, Mount
<1>6. CASE UNCHANGED vars
  BY <1>6 DEF vars
<1> QED BY <1>1, <1>2, <1>3, <1>4, <1>5, <1>6 DEF Next, MountStep

LEMMA DocStep ==
    ASSUME Inv, Typed, [Next]_vars
    PROVE  DocTyped'
<1>1. /\ Document(doc) /\ IsContent(doc.content) /\ IsContent(original)
      /\ NetTyped /\ Content(original)
  BY DEF Inv, Page, Typed, DocTyped
<1>2. \A f \in Fields : InField(f, doc.content[f]) /\ InField(f, original[f])
  BY <1>1 DEF IsContent
<1>3. {"broken", "attributes", "steps"} \subseteq Fields /\ Texts \subseteq Fields
  BY Fields_
<1>4. ASSUME original' = original, NEW f \in Fields, NEW v, InField(f, v),
             doc' = ButFor(doc, f, v)
      PROVE  DocTyped'
  <2>1. IsContent(doc'.content)
    BY <1>1, <1>4, EditTypes
  <2> QED BY <1>1, <1>4, <2>1 DEF DocTyped
<1>5. CASE UNCHANGED <<doc, original>>
  BY <1>1, <1>5 DEF DocTyped
<1>6. CASE \E m \in net : TestCaseAnswered(m) \/ PutAnswered(m)
  <2>1. PICK m \in net : doc' = m.doc /\ original' = m.doc.content
    BY <1>6 DEF TestCaseAnswered, PutAnswered, Receive
  <2> QED BY <1>1, <2>1 DEF NetTyped, MessageTyped, DocTyped
<1>7. CASE \E f \in Texts : ToggleEdit(f) \/ CancelEdit(f)
  <2>1. PICK f \in Texts : ToggleEdit(f) \/ CancelEdit(f)
    BY <1>7
  <2>2. /\ doc' = doc \/ doc' = ButFor(doc, f, original[f])
        /\ original' = Taken(Form(f), doc'.content)
    BY <2>1 DEF ToggleEdit, CancelEdit, Edited, ButFor, Toggle
  <2>3. IsContent(doc'.content)
    BY <1>1, <1>2, <1>3, <2>2, EditTypes
  <2>4. FormShape(Form(f), doc'.content)
    BY DEF FormShape, Form
  <2>5. IsContent(original')
    BY <1>1, <2>2, <2>3, <2>4, TakenTyped
  <2> QED BY <2>3, <2>5 DEF DocTyped
<1>8. CASE OnBrokenToggle \/ \E f \in Texts, v \in Wordings : HandleChange(f, v)
  <2>1. \E f \in Fields : \E v :
           InField(f, v) /\ doc' = ButFor(doc, f, v) /\ original' = original
    <3>1. CASE OnBrokenToggle
      <4>1. InField("broken", ~doc.content["broken"])
        BY <1>2, <1>3, FieldTypes
      <4> QED BY <1>3, <3>1, <4>1 DEF OnBrokenToggle, Edited, ButFor
    <3>2. CASE \E f \in Texts, v \in Wordings : HandleChange(f, v)
      BY <1>3, <3>2, FieldTypes DEF HandleChange, Edited, ButFor
    <3> QED BY <1>8, <3>1, <3>2
  <2> QED BY <1>4, <2>1
<1>9. Steps \in StepSeq /\ original["steps"] \in StepSeq
  BY <1>2, <1>3, FieldTypes DEF Steps
<1>10. \A s \in StepSeq : InField("steps", s)
  BY FieldTypes
<1>11. CASE AddStep \/ \E i \in DOMAIN Steps : RemoveStep(i) \/ \E v \in Wordings : StepChange(i, v)
  <2>1. \E s \in StepSeq : PutSteps(s) /\ original' = original
    <3>1. CASE AddStep
      <4>1. Append(Steps, Blank) \in StepSeq
        BY <1>9, AppendProperties DEF StepSeq
      <4> QED BY <3>1, <4>1 DEF AddStep
    <3>2. CASE \E i \in DOMAIN Steps : RemoveStep(i)
      BY <1>9, <3>2, StepRemoved DEF RemoveStep
    <3>3. CASE \E i \in DOMAIN Steps, v \in Wordings : StepChange(i, v)
      BY <1>9, <3>3, StepsReplaced DEF StepChange
    <3> QED BY <1>11, <3>1, <3>2, <3>3
  <2> QED BY <1>3, <1>4, <1>10, <2>1 DEF PutSteps, Edited, ButFor
<1>12. CASE \E i \in DOMAIN Steps : ToggleStep(i) \/ CancelStep(i)
  <2>1. PICK i \in DOMAIN Steps : ToggleStep(i) \/ CancelStep(i)
    BY <1>12
  <2> DEFINE l == Longer(original["steps"], i)
             v == IF i = 1 THEN original["steps"] ELSE [Steps EXCEPT ![i] = l[i]]
  <2>2. /\ doc' = doc \/ doc' = ButFor(doc, "steps", v)
        /\ original' = Taken(StepFormOf(i), doc'.content)
    BY <2>1 DEF ToggleStep, CancelStep, Edited, ButFor, Toggle
  <2>3. i \in Nat /\ i >= 1
    BY <1>9, StepsReplaced
  <2>4. l \in StepSeq /\ i \in DOMAIN l
    BY <1>9, <2>3, Lengthened
  <2>5. l[i] \in Wordings \cup {Blank}
    BY <2>4, StepsReplaced
  <2> HIDE DEF l
  <2>6. [Steps EXCEPT ![i] = l[i]] \in StepSeq /\ DOMAIN [Steps EXCEPT ![i] = l[i]] = DOMAIN Steps
    BY <1>9, <2>5, StepsReplaced
  <2>7. v \in StepSeq /\ (i # 1 => i \in DOMAIN v)
    BY <1>9, <2>6
  <2> HIDE DEF v
  <2>8. IsContent(doc'.content)
    BY <1>1, <1>3, <1>10, <2>2, <2>7, EditTypes
  <2>9. doc' = doc \/ doc'.content = [doc.content EXCEPT !["steps"] = v]
    BY <1>1, <2>2 DEF Document, ButFor
  <2>10. doc' = doc \/ doc'.content["steps"] = v
    BY <1>1, <1>3, <2>9 DEF IsContent
  <2>11. CASE i # 1 \/ doc' = doc
    <3>1. FormShape(StepFormOf(i), doc'.content)
      BY <2>7, <2>10, <2>11 DEF FormShape, StepFormOf, Steps
    <3>2. IsContent(original')
      BY <1>1, <2>2, <2>8, <3>1, TakenTyped
    <3> QED BY <2>8, <3>2 DEF DocTyped
  <2>12. CASE i = 1
    <3>1. original' = [original EXCEPT !["steps"] = doc'.content["steps"]]
      BY <2>2, <2>12 DEF Taken, StepFormOf
    <3>2. InField("steps", doc'.content["steps"])
      BY <1>3, <2>8 DEF IsContent
    <3>3. IsContent(original')
      BY <1>1, <1>3, <3>1, <3>2, ContentWith
    <3> QED BY <2>8, <3>3 DEF DocTyped
  <2> QED BY <2>11, <2>12
<1>13. /\ Attrs \in Attributes /\ original["attributes"] \in Attributes
       /\ \A a \in Attributes : InField("attributes", a)
  BY <1>2, <1>3, FieldTypes DEF Attrs
<1>14. /\ \A k : Without(Attrs, k) \in Attributes
       /\ \A k \in Keys \cup {NoKey} : \A v \in (SUBSET Values) \cup {Unknown} :
             With(Attrs, k, v) \in Attributes /\ With(original["attributes"], k, v) \in Attributes
       /\ \A k : /\ ValueOf(Attrs, k) \in (SUBSET Values) \cup {Unknown}
                 /\ ValueOf(original["attributes"], k) \in (SUBSET Values) \cup {Unknown}
  BY <1>13, AttributesChanged
<1>15. \A k \in DOMAIN Attrs : Attrs[k] = ValueOf(Attrs, k)
  BY DEF ValueOf
<1>16. CASE \/ AddAttribute \/ CancelEditAttributeKey
            \/ \E k \in Keys : EditAttributeKey(k) \/ RemoveAttribute(k)
  <2>1. \E a \in Attributes : PutAttrs(a) /\ original' = original
    <3>1. CASE AddAttribute
      <4>1. With(Attrs, NoKey, {}) \in Attributes
        BY <1>14
      <4> QED BY <3>1, <4>1 DEF AddAttribute
    <3>2. CASE CancelEditAttributeKey
      BY <1>14, <3>2 DEF CancelEditAttributeKey
    <3>3. ASSUME NEW k \in Keys, EditAttributeKey(k)
          PROVE  \E a \in Attributes : PutAttrs(a) /\ original' = original
      <4>1. Attrs[NoKey] \in (SUBSET Values) \cup {Unknown}
        BY <1>14, <1>15, <3>3 DEF EditAttributeKey, KeyForm, Attrs
      <4>2. With(Attrs, k, Attrs[NoKey]) \in Attributes
        BY <1>14, <4>1
      <4>3. Without(With(Attrs, k, Attrs[NoKey]), NoKey) \in Attributes
        BY <4>2, AttributesChanged
      <4> QED BY <3>3, <4>3 DEF EditAttributeKey
    <3>4. CASE \E k \in Keys : RemoveAttribute(k)
      BY <1>14, <3>4 DEF RemoveAttribute
    <3> QED BY <1>16, <3>1, <3>2, <3>3, <3>4
  <2> QED BY <1>3, <1>4, <1>13, <2>1 DEF PutAttrs, Edited, ButFor
<1>17. CASE \E k \in Keys : \/ CancelEditAttributeValues(k)
                            \/ \E v \in SUBSET Values : EditAttributeValues(k, v)
  <2>1. \E a, b \in Attributes : /\ doc' = ButFor(doc, "attributes", a)
                                 /\ original' = [original EXCEPT !["attributes"] = b]
    <3>1. ASSUME NEW k \in Keys, CancelEditAttributeValues(k)
          PROVE  \E a, b \in Attributes : /\ doc' = ButFor(doc, "attributes", a)
                                          /\ original' = [original EXCEPT !["attributes"] = b]
      <4>1. PICK v : v = ValueOf(original["attributes"], k)
        OBVIOUS
      <4>2. /\ doc' = ButFor(doc, "attributes", With(Attrs, k, v))
            /\ original' = [original EXCEPT !["attributes"] = With(original["attributes"], k, v)]
        BY <3>1, <4>1, <1>1, <1>3 DEF CancelEditAttributeValues, Edited, ButFor, Content
      <4>3. v \in (SUBSET Values) \cup {Unknown}
        BY <1>14, <4>1
      <4> QED BY <1>14, <4>2, <4>3
    <3>2. ASSUME NEW k \in Keys, NEW v \in SUBSET Values, EditAttributeValues(k, v)
          PROVE  \E a, b \in Attributes : /\ doc' = ButFor(doc, "attributes", a)
                                          /\ original' = [original EXCEPT !["attributes"] = b]
      <4>1. /\ doc' = ButFor(doc, "attributes", With(Attrs, k, v))
            /\ original' = [original EXCEPT !["attributes"] =
                               With(original["attributes"], k, Attrs[k])]
        BY <3>2, <1>1, <1>3 DEF EditAttributeValues, PutAttrs, Edited, ButFor, Content
      <4>2. Attrs[k] \in (SUBSET Values) \cup {Unknown}
        BY <1>14, <1>15, <3>2 DEF EditAttributeValues, AttributeForm, Named, Attrs
      <4>3. /\ With(Attrs, k, v) \in Attributes
            /\ With(original["attributes"], k, Attrs[k]) \in Attributes
        BY <1>14, <4>2
      <4> QED BY <4>1, <4>3
    <3> QED BY <1>17, <3>1, <3>2
  <2>2. PICK a, b \in Attributes : /\ doc' = ButFor(doc, "attributes", a)
                                   /\ original' = [original EXCEPT !["attributes"] = b]
    BY <2>1
  <2>3. IsContent(doc'.content)
    BY <1>1, <1>3, <1>13, <2>2, EditTypes
  <2>4. IsContent(original')
    BY <1>1, <1>3, <1>13, <2>2, ContentWith
  <2> QED BY <2>3, <2>4 DEF DocTyped
<1> QED BY <1>5, <1>6, <1>7, <1>8, <1>11, <1>12, <1>16, <1>17, DocSteps

(* What is toggled open, in edit, rendered as a form, touched, or about to  *)
(* be removed                                                               *)
LEMMA EditSteps ==
    ASSUME [Next]_vars
    PROVE  /\ \/ forms' = forms
              \/ \E f \in Texts : forms' = Toggled(Form(f))
              \/ \E i \in DOMAIN Steps : forms' = Toggled(StepFormOf(i))
              \/ \E m \in net : m.kind = "put" /\ m.about # NoForm /\ forms' = Toggled(m.about)
           /\ \/ inEdit' = inEdit \/ inEdit' = {}
              \/ \E k \in Keys : inEdit' = inEdit \cup {k} \/ inEdit' = inEdit \ {k}
           /\ unwritten' = unwritten \/ unwritten' = BlankSteps(doc')
           /\ \/ touched' = touched \/ touched' = {}
              \/ \E f \in Fields : touched' = touched \cup {f}
           /\ toRemove' = toRemove \/ toRemove' = Unknown \/ toRemove' \in Files
<1> USE DEF UserKeeps, edit, dialog
<1>1. CASE User
  <2> USE <1>1 DEF User, ReceiveProps, ToggleEdit, CancelEdit, HandleSubmit,
     HandleChange, OnBrokenToggle, AddStep, ToggleStep, CancelStep, SubmitStep,
     RemoveStep, StepChange, AddAttribute, CancelEditAttributeKey,
     EditAttributeKey, ToggleEditAttribute, RemoveAttribute,
     CancelEditAttributeValues, SubmitAttribute, EditAttributeValues, Call,
     Upload, RemoveAttachmentConfirmation, CancelRemoveAttachmentConfirmation,
     RemoveAttachment, Render, RenderAgain, Toggle, PutSteps, PutAttrs
  <2>1. \/ forms' = forms
        \/ \E f \in Texts : forms' = Toggled(Form(f))
        \/ \E i \in DOMAIN Steps : forms' = Toggled(StepFormOf(i))
    OBVIOUS
  <2>2. \/ inEdit' = inEdit
        \/ \E k \in Keys : inEdit' = inEdit \cup {k} \/ inEdit' = inEdit \ {k}
    OBVIOUS
  <2>3. unwritten' = unwritten \/ unwritten' = BlankSteps(doc')
    OBVIOUS
  <2>4. \/ touched' = touched
        \/ \E f \in Texts \cup {"broken", "steps", "attributes"} : touched' = touched \cup {f}
    OBVIOUS
  <2>5. toRemove' = toRemove \/ toRemove' \in Files
    OBVIOUS
  <2> QED BY ONLY <2>1, <2>2, <2>3, <2>4, <2>5, Fields_
<1>2. CASE Answer
  BY <1>2 DEF Answer, SessionAnswered, TestCaseAnswered, TestCaseFailed,
     PutAnswered, SubmitFailed, CallAnswered, CallFailed, FileAnswered, FileFailed,
     Receive, Render, RenderAgain
<1>3. CASE Elsewhere
  BY <1>3 DEF Elsewhere, SaveElsewhere
<1>4. CASE \E m \in net : Serve(m) \/ Lose(m)
  BY <1>4 DEF Serve, Lose
<1>5. CASE MountStep
  BY <1>5 DEF MountStep, Mount
<1>6. CASE UNCHANGED vars
  BY <1>6 DEF vars
<1> QED BY <1>1, <1>2, <1>3, <1>4, <1>5, <1>6 DEF Next, MountStep

LEMMA StepNumbers ==
    ASSUME NEW d, IsContent(d.content)
    PROVE  DOMAIN d.content["steps"] \subseteq Nat /\ BlankSteps(d) \subseteq Nat
<1>1. d.content["steps"] \in StepSeq
  BY Fields_, FieldTypes DEF IsContent
<1>2. PICK s \in StepSeq : s = d.content["steps"]
  BY <1>1
<1>3. DOMAIN s = 1 .. Len(s) /\ Len(s) \in Nat
  BY LenProperties DEF StepSeq
<1> QED BY <1>2, <1>3 DEF BlankSteps

LEMMA EditStep ==
    ASSUME Typed, DocTyped', [Next]_vars
    PROVE  EditTyped'
<1>1. EditTyped /\ NetTyped /\ DocTyped
  BY DEF Typed
<1>2. \A form \in AllForms : forms \subseteq AllForms => Toggled(form) \subseteq AllForms
  BY DEF Toggled
<1>3. \A f \in Texts : Form(f) \in AllForms
  BY DEF Form, AllForms
<1>4. \A i \in DOMAIN Steps : StepFormOf(i) \in AllForms
  BY <1>1, StepNumbers DEF DocTyped, Steps, StepFormOf, AllForms
<1>5. \A m \in net : m.kind = "put" /\ m.about # NoForm => m.about \in AllForms
  BY <1>1 DEF NetTyped, MessageTyped
<1>6. forms' \subseteq AllForms
  BY <1>1, <1>2, <1>3, <1>4, <1>5, EditSteps DEF EditTyped
<1>7. BlankSteps(doc') \subseteq Nat
  <2>1. PICK d : d = doc'
    OBVIOUS
  <2>2. IsContent(d.content)
    BY <2>1 DEF DocTyped, IsContent
  <2>3. BlankSteps(d) \subseteq Nat
    BY <2>2, StepNumbers
  <2> QED BY <2>1, <2>3
<1>8. inEdit' \subseteq Keys
  BY <1>1, EditSteps DEF EditTyped
<1>9. unwritten' \subseteq Nat
  BY <1>1, <1>7, EditSteps DEF EditTyped
<1>10. touched' \subseteq Fields
  BY <1>1, EditSteps DEF EditTyped
<1>11. toRemove' \in Files \cup {Unknown}
  BY <1>1, EditSteps DEF EditTyped
<1> QED BY <1>6, <1>8, <1>9, <1>10, <1>11 DEF EditTyped

(* Flags, the session and what is mounted *)
LEMMA FlagsStep ==
    ASSUME Typed, [Next]_vars
    PROVE  FlagsTyped'
<1>1. FlagsTyped
  BY DEF Typed
<1> USE DEF UserKeeps, Quiet, flags, dialog
<1>2. CASE User
  <2> USE <1>1, <1>2 DEF FlagsTyped, User, ReceiveProps, ToggleEdit, CancelEdit, HandleSubmit,
     HandleChange, OnBrokenToggle, AddStep, ToggleStep, CancelStep, SubmitStep,
     RemoveStep, StepChange, AddAttribute, CancelEditAttributeKey,
     EditAttributeKey, ToggleEditAttribute, RemoveAttribute,
     CancelEditAttributeValues, SubmitAttribute, EditAttributeValues, Call,
     Upload, RemoveAttachmentConfirmation, CancelRemoveAttachmentConfirmation,
     RemoveAttachment
  <2>1. readonly' = readonly \/ readonly' = FALSE
    OBVIOUS
  <2>2. UNCHANGED <<loading, failed, left>>
    OBVIOUS
  <2>3. asking' = asking \/ asking' = TRUE \/ asking' = FALSE
    OBVIOUS
  <2> QED BY ONLY <1>1, <2>1, <2>2, <2>3, Zenon DEF FlagsTyped
<1>3. CASE Answer
  <2>1. /\ readonly' = readonly \/ \E d : readonly' = Readonly(d)
        /\ loading' = loading \/ loading' = FALSE
        /\ left' = left \/ left' = TRUE
        /\ asking' = asking \/ asking' = FALSE
    BY <1>3 DEF Answer, SessionAnswered, TestCaseAnswered, TestCaseFailed,
       PutAnswered, SubmitFailed, CallAnswered, CallFailed, FileAnswered, FileFailed
  <2>2. \/ failed' = failed \/ failed' = TRUE
        \/ \E m \in net : failed' = (failed \/ m.kind = "unfile")
    BY <1>3, Zenon DEF Answer, SessionAnswered, TestCaseAnswered, TestCaseFailed,
       PutAnswered, SubmitFailed, CallAnswered, CallFailed, FileAnswered, FileFailed
  <2>3. failed' \in BOOLEAN
    BY <1>1, <2>2, Zenon DEF FlagsTyped
  <2>4. readonly' \in BOOLEAN
    BY <1>1, <2>1, Zenon DEF FlagsTyped, Readonly
  <2>5. loading' \in BOOLEAN /\ left' \in BOOLEAN /\ asking' \in BOOLEAN
    BY <1>1, <2>1, Zenon DEF FlagsTyped
  <2> QED BY <2>3, <2>4, <2>5, Zenon DEF FlagsTyped
<1>4. CASE Elsewhere
  BY <1>1, <1>4, Zenon DEF Elsewhere, SaveElsewhere, FlagsTyped
<1>5. CASE \E m \in net : Serve(m) \/ Lose(m)
  BY <1>1, <1>5, Zenon DEF Serve, Lose, FlagsTyped
<1>6. CASE MountStep
  BY <1>1, <1>6, Zenon DEF MountStep, Mount, FlagsTyped
<1>7. CASE UNCHANGED vars
  BY <1>1, <1>7, Zenon DEF vars, FlagsTyped
<1> QED BY <1>2, <1>3, <1>4, <1>5, <1>6, <1>7 DEF Next, MountStep

LEMMA SessionStep ==
    ASSUME Typed, [Next]_vars
    PROVE  SessionTyped'
<1>1. SessionTyped
  BY DEF Typed
<1> USE DEF UserKeeps, Quiet, server, flags
<1>2. \/ UNCHANGED <<role, session, chosen>>
      \/ UNCHANGED <<role, session>> /\ \E t \in Cases : chosen' = t
      \/ session' = role /\ UNCHANGED <<role, chosen>> /\ Mounted
      \/ UNCHANGED session /\ ~Mounted /\ \E t \in Cases : chosen' = t
  <2>1. CASE User
    BY <2>1 DEF User, ReceiveProps, ToggleEdit, CancelEdit, HandleSubmit,
     HandleChange, OnBrokenToggle, AddStep, ToggleStep, CancelStep, SubmitStep,
     RemoveStep, StepChange, AddAttribute, CancelEditAttributeKey,
     EditAttributeKey, ToggleEditAttribute, RemoveAttribute,
     CancelEditAttributeValues, SubmitAttribute, EditAttributeValues, Call,
     Upload, RemoveAttachmentConfirmation, CancelRemoveAttachmentConfirmation,
     RemoveAttachment
  <2>2. CASE Answer
    BY <2>2 DEF Answer, SessionAnswered, TestCaseAnswered, TestCaseFailed,
       PutAnswered, SubmitFailed, CallAnswered, CallFailed, FileAnswered, FileFailed
  <2>3. CASE Elsewhere
    BY <2>3 DEF Elsewhere, SaveElsewhere
  <2>4. CASE \E m \in net : Serve(m) \/ Lose(m)
    BY <2>4 DEF Serve, Lose
  <2>5. CASE MountStep
    BY <2>5 DEF MountStep, Mount
  <2>6. CASE UNCHANGED vars
    BY <2>6 DEF vars
  <2> QED BY <2>1, <2>2, <2>3, <2>4, <2>5, <2>6 DEF Next, MountStep
<1>3. NoCase \notin Cases
  BY TestCasePageAssumption
<1> QED BY <1>1, <1>2, <1>3 DEF SessionTyped, Mounted

(* Requests under way, and their answers *)
LEMMA Numbered ==
    ASSUME NEW n, IsFiniteSet(n), Cardinality(n) < MaxInFlight, NEW kind
    PROVE  Number(n, kind) \in 1 .. MaxInFlight
<1>1. MaxInFlight \in Nat
  BY TestCasePageAssumption
<1> DEFINE taken(i) == \E m \in n : m.kind = kind /\ m.no = i
           first(i) == \A j \in 1 .. i : (j < i) <=> taken(j)
<1>2. PICK i \in Unused(n, MaxInFlight, kind) :
         \A j \in Unused(n, MaxInFlight, kind) : i <= j
  BY <1>1, FreeNumber
<1>3. i \in 1 .. MaxInFlight /\ ~taken(i)
  BY <1>2 DEF Unused
<1>4. \A j \in 1 .. MaxInFlight : j < i => taken(j)
  BY <1>2, <1>3 DEF Unused
<1> HIDE DEF taken
<1>5. first(i)
  BY <1>1, <1>3, <1>4
<1>6. Number(n, kind) = CHOOSE j \in 1 .. MaxInFlight : first(j)
  BY DEF Number, taken
<1> HIDE DEF first
<1> QED BY <1>3, <1>5, <1>6

LEMMA NetSteps ==
    ASSUME [Next]_vars
    PROVE  \/ net' \subseteq net
           \/ \E t \in Cases : Send("get", t, Unknown)
           \/ \E kind \in Calls, about \in {Unknown} : Received /\ Send(kind, doc.id, about)
           \/ \E f \in Files : Received /\ Send("upload", doc.id, f)
           \/ asking /\ Send("unfile", doc.id, toRemove)
           \/ \E about \in {NoForm} \cup {Form(f) : f \in Texts}
                           \cup {StepFormOf(i) : i \in DOMAIN Steps} :
                 Submit(doc', about, touched')
           \/ \E m \in net : ServeGet(m) \/ ServeWrite(m) \/ Refuse(m) \/ Lose(m)
           \/ \E m \in net : FileAnswered(m)
<1> USE DEF UserKeeps, edit
<1>1. CASE User
  <2> USE DEF ReceiveProps, ToggleEdit, CancelEdit, HandleSubmit,
     HandleChange, OnBrokenToggle, AddStep, ToggleStep, CancelStep, SubmitStep,
     RemoveStep, StepChange, AddAttribute, CancelEditAttributeKey,
     EditAttributeKey, ToggleEditAttribute, RemoveAttribute,
     CancelEditAttributeValues, SubmitAttribute, EditAttributeValues, Call,
     Upload, RemoveAttachmentConfirmation, CancelRemoveAttachmentConfirmation,
     RemoveAttachment
  <2>1. CASE \/ \E f \in Texts : HandleSubmit(f)
             \/ \E i \in DOMAIN Steps : SubmitStep(i)
             \/ \E k \in Keys : SubmitAttribute(k)
    <3>1. doc' = doc /\ touched' = touched
      BY <2>1
    <3>2. \E about \in {NoForm} \cup {Form(f) : f \in Texts}
                       \cup {StepFormOf(i) : i \in DOMAIN Steps} :
             Submit(doc, about, touched)
      BY <2>1
    <3> QED BY ONLY <3>1, <3>2
  <2>2. CASE ~ (\/ \E f \in Texts : HandleSubmit(f)
                \/ \E i \in DOMAIN Steps : SubmitStep(i)
                \/ \E k \in Keys : SubmitAttribute(k))
    BY <1>1, <2>2 DEF User
  <2> QED BY <2>1, <2>2
<1>2. CASE Answer
  BY <1>2 DEF Answer, SessionAnswered, TestCaseAnswered, TestCaseFailed, Forget,
     PutAnswered, SubmitFailed, CallAnswered, CallFailed, FileFailed
<1>3. CASE Elsewhere
  BY <1>3 DEF Elsewhere, SaveElsewhere
<1>4. CASE \E m \in net : Serve(m) \/ Lose(m)
  BY <1>4 DEF Serve
<1>5. CASE MountStep
  BY <1>5 DEF MountStep, Mount
<1>6. CASE UNCHANGED vars
  BY <1>6 DEF vars
<1> QED BY <1>1, <1>2, <1>3, <1>4, <1>5, <1>6 DEF Next, MountStep

LEMMA RequestOfType ==
    ASSUME NetTyped, Room, NEW kind, NEW t \in Cases \cup {NoCase}, NEW d,
           IsContent(d.content), NEW about, NEW S \in SUBSET Fields,
           kind = "upload" => about \in Files,
           kind = "put" => about = NoForm \/ about \in AllForms,
           net' = net \cup {Request(kind, t, d, about, S)}
    PROVE  NetTyped'
<1>1. PICK q : q = Request(kind, t, d, about, S)
  OBVIOUS
<1>2. Number(net, kind) \in 1 .. MaxInFlight
  BY Numbered DEF NetTyped, Room
<1>3. MessageTyped(q)
  BY <1>1, <1>2 DEF Request, MessageTyped
<1>4. net' = net \cup {q}
  BY <1>1
<1>5. IsFiniteSet(net) /\ Cardinality(net) \in Nat /\ MaxInFlight \in Nat
      /\ Cardinality(net) < MaxInFlight
  BY FS_CardinalityType, TestCasePageAssumption DEF NetTyped, Room
<1>6. /\ IsFiniteSet(net \cup {q})
      /\ Cardinality(net \cup {q}) \in {Cardinality(net), Cardinality(net) + 1}
  BY <1>5, FS_AddElement
<1>7. IsFiniteSet(net') /\ Cardinality(net') <= MaxInFlight
  <2>1. PICK a, b : a = Cardinality(net) /\ b = Cardinality(net \cup {q})
    OBVIOUS
  <2>2. b <= MaxInFlight
    BY ONLY <1>5, <1>6, <2>1
  <2> QED BY <1>4, <1>6, <2>1, <2>2
<1>8. \A m \in net' : MessageTyped(m)
  BY <1>3, <1>4 DEF NetTyped
<1> QED BY <1>7, <1>8 DEF NetTyped, MessageTyped, IsContent

LEMMA NetFewer ==
    ASSUME NetTyped, net' \subseteq net
    PROVE  NetTyped'
<1>1. /\ Cardinality(net) \in Nat /\ Cardinality(net') \in Nat
      /\ IsFiniteSet(net') /\ Cardinality(net') <= Cardinality(net)
  BY FS_Subset, FS_CardinalityType DEF NetTyped
<1>2. MaxInFlight \in Nat
  BY TestCasePageAssumption
<1>3. Cardinality(net') <= MaxInFlight
  BY <1>1, <1>2 DEF NetTyped
<1>4. \A m \in net' : MessageTyped(m)
  BY DEF NetTyped
<1> QED BY <1>1, <1>3, <1>4 DEF NetTyped, MessageTyped, IsContent

LEMMA NetLess ==
    ASSUME NetTyped, NEW m \in net
    PROVE  /\ IsFiniteSet(net \ {m}) /\ Cardinality(net \ {m}) < MaxInFlight
           /\ Cardinality(net \ {m}) \in Nat
<1>1. IsFiniteSet(net) /\ Cardinality(net) <= MaxInFlight /\ Cardinality(net) \in Nat
  BY FS_CardinalityType DEF NetTyped
<1>2. IsFiniteSet(net \ {m}) /\ Cardinality(net \ {m}) = Cardinality(net) - 1
  BY <1>1, FS_RemoveElement
<1>3. Cardinality(net \ {m}) \in Nat
  BY <1>2, FS_CardinalityType
<1>4. MaxInFlight \in Nat
  BY TestCasePageAssumption
<1> QED BY <1>1, <1>2, <1>3, <1>4

LEMMA NetReplaced ==
    ASSUME NetTyped, NEW m \in net, NEW r, MessageTyped(r), net' = (net \ {m}) \cup {r}
    PROVE  NetTyped'
<1>1. PICK n : n = net \ {m}
  OBVIOUS
<1>2. IsFiniteSet(n) /\ Cardinality(n) < MaxInFlight /\ Cardinality(n) \in Nat
  BY <1>1, NetLess
<1>3. MaxInFlight \in Nat
  BY TestCasePageAssumption
<1>4. /\ IsFiniteSet(n \cup {r})
      /\ Cardinality(n \cup {r}) \in {Cardinality(n), Cardinality(n) + 1}
  BY <1>2, FS_AddElement
<1>5. IsFiniteSet(net') /\ Cardinality(net') <= MaxInFlight
  BY <1>1, <1>2, <1>3, <1>4
<1>6. \A q \in net' : MessageTyped(q)
  BY DEF NetTyped
<1> QED BY <1>5, <1>6 DEF NetTyped, MessageTyped, IsContent

LEMMA SendTyped ==
    ASSUME NetTyped, NEW kind \in Sends \ {"put"}, NEW t \in Cases \cup {NoCase},
           NEW about, Send(kind, t, about), kind = "upload" => about \in Files
    PROVE  NetTyped'
<1>1. IsContent(NoDoc.content)
  BY NothingTyped DEF NoDoc
<1>2. Room /\ net' = net \cup {Request(kind, t, NoDoc, about, {})}
  BY DEF Send
<1> QED BY <1>1, <1>2, RequestOfType

LEMMA SubmitTyped ==
    ASSUME NetTyped, NEW d, Document(d), d.id \in Cases \cup {NoCase},
           IsContent(d.content), NEW S \in SUBSET Fields,
           NEW about, about = NoForm \/ about \in AllForms, Submit(d, about, S)
    PROVE  NetTyped'
<1>1. PICK e : e = Sent(d)
  OBVIOUS
<1> DEFINE a == Defined(d.content["attributes"])
<1>2. /\ e.id = d.id
      /\ e.content = [d.content EXCEPT !["attributes"] = a]
  <2>1. Content(d.content) /\ "attributes" \in Fields
    BY Fields_ DEF Document
  <2>2. e = [id |-> d.id, version |-> d.version,
             content |-> [d.content EXCEPT !["attributes"] = a]]
    BY <1>1, <2>1 DEF Sent, Document, Defined, Content
  <2> QED BY <2>2
<1>3. a \in Attributes
  BY Fields_, FieldTypes, AttributesChanged DEF IsContent
<1> HIDE DEF a
<1>4. IsContent(e.content)
  BY <1>2, <1>3, Fields_, FieldTypes, ContentWith
<1>5. Room /\ net' = net \cup {Request("put", e.id, e, about, S)}
  BY <1>1 DEF Submit, Put
<1> QED BY <1>2, <1>4, <1>5, RequestOfType

LEMMA ReplyTyped ==
    ASSUME NetTyped, Inv, NEW m \in net, NEW outcome, NEW d, IsContent(d.content),
           Reply(m, outcome, d)
    PROVE  NetTyped'
<1>1. PICK r : r = [m EXCEPT !.at = outcome, !.doc = d]
  OBVIOUS
<1>2. /\ r.no = m.no /\ r.kind = m.kind /\ r.case = m.case
      /\ r.changed = m.changed /\ r.about = m.about /\ r.doc = d
  BY <1>1 DEF Inv, Messages, Message
<1>3. MessageTyped(r)
  BY <1>2 DEF NetTyped, MessageTyped
<1>4. net' = (net \ {m}) \cup {r}
  BY <1>1 DEF Reply
<1> QED BY <1>3, <1>4, NetReplaced

LEMMA NetStep ==
    ASSUME Inv, Inv', Typed, DocTyped', EditTyped', [Next]_vars
    PROVE  NetTyped'
<1>1. /\ NetTyped /\ HistoryTyped /\ Histories /\ Messages
      /\ IsContent(doc.content) /\ doc.id \in Cases \cup {NoCase}
  BY DEF Typed, DocTyped, Inv, Page
<1>2. CASE net' \subseteq net
  BY <1>1, <1>2, NetFewer
<1>3. CASE \/ \E t \in Cases : Send("get", t, Unknown)
           \/ \E kind \in Calls, about \in {Unknown} : Received /\ Send(kind, doc.id, about)
           \/ \E f \in Files : Received /\ Send("upload", doc.id, f)
           \/ asking /\ Send("unfile", doc.id, toRemove)
  <2>1. \E kind \in Sends \ {"put"}, t \in Cases \cup {NoCase} : \E about :
           Send(kind, t, about) /\ (kind = "upload" => about \in Files)
    BY <1>1, <1>3 DEF Calls, Sends
  <2> QED BY <1>1, <2>1, SendTyped
<1>4. CASE \E about \in {NoForm} \cup {Form(f) : f \in Texts}
                           \cup {StepFormOf(i) : i \in DOMAIN Steps} :
                 Submit(doc', about, touched')
  <2>1. \A about \in {NoForm} \cup {Form(f) : f \in Texts}
                     \cup {StepFormOf(i) : i \in DOMAIN Steps} :
           about = NoForm \/ about \in AllForms
    BY <1>1, StepNumbers DEF Steps, Form, StepFormOf, AllForms
  <2>2. PICK d, S : d = doc' /\ S = touched'
    OBVIOUS
  <2>3. Document(d) /\ d.id \in Cases \cup {NoCase}
    BY <2>2 DEF Inv, Page, Document, Content, Fits
  <2>4. IsContent(d.content)
    BY <2>2 DEF DocTyped, IsContent
  <2>5. S \in SUBSET Fields
    BY <2>2 DEF EditTyped
  <2> QED BY <1>1, <1>4, <2>1, <2>2, <2>3, <2>4, <2>5, SubmitTyped
<1>5. ASSUME NEW m \in net, ServeGet(m) \/ ServeWrite(m) \/ Refuse(m) \/ Lose(m)
      PROVE  NetTyped'
  <2>1. Message(m) /\ MessageTyped(m) /\ IsContent(m.doc.content)
    BY <1>1 DEF Messages, NetTyped, MessageTyped
  <2>2. \E outcome, d : IsContent(d.content) /\ Reply(m, outcome, d)
    <3>1. CASE ServeGet(m)
      <4>1. PICK d : d = Doc(m.case, Current(m.case))
        OBVIOUS
      <4>2. m.case \in Cases
        BY <2>1, <3>1 DEF ServeGet, Message
      <4>3. IsContent(d.content)
        BY <1>1, <4>1, <4>2, NowTyped DEF Doc
      <4> QED BY <3>1, <4>1, <4>3 DEF ServeGet
    <3>2. CASE ServeWrite(m)
      <4>1. PICK d : d = [id |-> m.case, version |-> Current(m.case) + 1, content |-> Made(m)]
        OBVIOUS
      <4>2. IsContent(d.content)
        BY <1>1, <2>1, <3>2, <4>1, MadeTyped DEF ServeWrite, Accepted
      <4> QED BY <3>2, <4>1, <4>2 DEF ServeWrite
    <3>3. CASE Refuse(m) \/ Lose(m)
      BY <2>1, <3>3 DEF Refuse, Lose
    <3> QED BY <1>5, <3>1, <3>2, <3>3
  <2> QED BY <1>1, <2>2, ReplyTyped
<1>6. ASSUME NEW m \in net, FileAnswered(m)
      PROVE  NetTyped'
  <2>1. PICK n, d, r : /\ n = Number(net \ {m}, "get") /\ d = NoDoc
                       /\ r = [m EXCEPT !.no = n, !.kind = "get",
                                        !.case = doc.id, !.at = "sent",
                                        !.doc = d, !.about = Unknown]
    OBVIOUS
  <2>2. Message(m) /\ MessageTyped(m)
    BY <1>1 DEF Messages, NetTyped
  <2>3. /\ r.no = n /\ r.kind = "get" /\ r.case = doc.id
        /\ r.changed = m.changed /\ r.doc = d
    BY <2>1, <2>2 DEF Message
  <2>4. n \in 1 .. MaxInFlight
    BY <1>1, <2>1, NetLess, Numbered
  <2>5. IsContent(d.content)
    BY <2>1, NothingTyped DEF NoDoc
  <2>6. MessageTyped(r)
    BY <1>1, <2>2, <2>3, <2>4, <2>5 DEF MessageTyped
  <2>7. net' = (net \ {m}) \cup {r}
    BY <1>6, <2>1 DEF FileAnswered
  <2> QED BY <1>1, <2>6, <2>7, NetReplaced
<1> QED BY <1>2, <1>3, <1>4, <1>5, <1>6, NetSteps

LEMMA TypedStep ==
    Inv /\ Inv' /\ Typed /\ [Next]_vars => Typed'
<1> SUFFICES ASSUME Inv, Inv', Typed, [Next]_vars PROVE Typed'
  OBVIOUS
<1>1. HistoryTyped' /\ DocTyped' /\ FlagsTyped' /\ SessionTyped'
  BY HistoryStep, DocStep, FlagsStep, SessionStep
<1>2. EditTyped'
  BY <1>1, EditStep
<1>3. NetTyped'
  BY <1>1, <1>2, NetStep
<1> QED BY <1>1, <1>2, <1>3 DEF Typed

(* Whatever the order of edits, cancelled edits and answers, the page, the  *)
(* requests under way and the service hold whole test cases, each field as  *)
(* the service knows it, the open forms are of texts and steps, and each    *)
(* request has a number that is free (TestCase.js, Attachments.js).         *)
THEOREM TypeCorrect == Spec => []TypeOK
<1>1. Init => Inv /\ Typed
  BY InitInv, TypedInit
<1>2. Inv /\ Typed /\ [Next]_vars => Inv' /\ Typed'
  BY NextInv, TypedStep
<1>3. Inv /\ Typed => TypeOK
  BY TypesFollow
<1> QED BY <1>1, <1>2, <1>3, PTL DEF Spec
=============================================================================
