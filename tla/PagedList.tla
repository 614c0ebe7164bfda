------------------------------- MODULE PagedList -------------------------------
(***************************************************************************)
(* The pages that list by pages what a filter finds, newest first: the     *)
(* launches of a project, Launches.js, fetched again every half minute,    *)
(* its audit, Events.js, and the users, Users.js (in the order of their    *)
(* names, and without a filter).  All have Pager.js under the list.        *)
(*                                                                         *)
(* The list, the number of items and the page that is marked come by       *)
(* requests of their own.  What is typed goes into the filter at once, so  *)
(* that the next request takes it, whether Filter has been pressed or not. *)
(***************************************************************************)
EXTENDS Integers, FiniteSets

CONSTANTS Ids,          \* launches, events or users that may come to be, in order
          Begin,        \* those there at the start
          Filters,      \* what is typed -> the items it finds
          All,          \* the filter that finds all
          PageSize,     \* limit and itemsOnPage
          VisiblePages, \* maxVisiblePage
          MaxEvents,    \* bound: events of the user
          MaxFaults, \* bound: items created by others,
                     \* and requests that get lost
          MaxInFlight   \* bound: requests of a kind under way

VARIABLES
    kind,      \* which of the pages
    stored,    \* items in the service
    net,       \* requests under way, with their answers
    events, elsewhere, losses,  \* bounds
    filter,    \* state.filter: what is typed, and skip
    url,       \* the filter in the address
    list,      \* the items that are shown, the newest first
    pager,     \* state.pager: total and current
    loading, failed

bounds == <<events, elsewhere, losses>>
page == <<filter, url, list, pager, loading, failed>>
vars == <<kind, stored, net, bounds, page>>

Kinds == {"launches", "audit", "users"}
Filter == [typed : DOMAIN Filters, skip : Int]

TypeOK ==
    /\ kind \in Kinds
    /\ stored \subseteq Ids
    /\ \A m \in net :
          /\ m.no \in 1 .. MaxInFlight
          /\ m.kind \in {"list", "poll", "count", "delete"}
          /\ m.at \in {"sent", "done", "failed"}
          /\ m.filter \in Filter /\ m.id \in Ids \cup {0}
          /\ m.list \subseteq Ids /\ m.total \in Nat
    /\ filter \in Filter /\ url \in Filter
    /\ list \subseteq Ids /\ Cardinality(list) <= PageSize
    /\ pager.total \in Nat /\ pager.current \in Int
    /\ loading \in BOOLEAN /\ failed \in BOOLEAN

-----------------------------------------------------------------------------
(* Requests *)

Free(n, k) == {i \in 1 .. MaxInFlight : \A m \in n : m.kind = k => m.no # i}
Request(k, i, f) == [kind |-> k, no |-> i, filter |-> f, id |-> 0,
                     at |-> "sent", list |-> {}, total |-> 0]
With(n, k, f) == n \cup {Request(k, CHOOSE i \in Free(n, k) : \A j \in Free(n, k) : i <= j, f)}
Room(k) == Free(net, k) # {}

(* componentDidMount *)
Init ==
    /\ kind \in Kinds
    /\ stored = Begin
    /\ filter = [typed |-> All, skip |-> 0] /\ url = filter
    /\ net = With(With({}, "list", filter), "count", filter)
    /\ events = 0 /\ elsewhere = 0 /\ losses = 0
    /\ list = {} /\ pager = [total |-> 0, current |-> 0]
    /\ loading = TRUE /\ failed = FALSE

(* The service, of which a skip below 0 is none.                            *)
Least(n) == IF n < 0 THEN 0 ELSE n
Smaller(a, b) == IF a < b THEN a ELSE b
Found(typed) == stored \cap Filters[typed]
PageAt_open(f) ==  \* slip: without a limit
    {i \in Found(f.typed) : Cardinality({j \in Found(f.typed) : j > i}) >= f.skip}
PageAt(f) ==
    LET Newer(i) == Cardinality({j \in Found(f.typed) : j > i})
    IN  {i \in Found(f.typed) : Newer(i) \in Least(f.skip) .. Least(f.skip) + PageSize - 1}

(* getPager: launches are counted without skip and limit; the others' count *)
(* is sent with them and counts what is left of one page.                   *)
Counted(f) ==
    IF kind = "launches" THEN Cardinality(Found(f.typed)) ELSE Cardinality(PageAt(f))

Reply(m, answer) == net' = (net \ {m}) \cup {answer}

Serve(m) ==
    /\ m.at = "sent"
    /\ stored' = IF m.kind = "delete" THEN stored \ {m.id} ELSE stored
    /\ Reply(m, CASE m.kind \in {"list", "poll"} -> [m EXCEPT !.at = "done", !.list = PageAt(m.filter)]
                  [] m.kind = "count" -> [m EXCEPT !.at = "done", !.total = Counted(m.filter)]
                  [] m.kind = "delete" -> [m EXCEPT !.at = "done"])
    /\ UNCHANGED <<kind, bounds, page>>

Lose(m) ==
    /\ m.at \in {"sent", "done"}
    /\ losses + elsewhere < MaxFaults
    /\ losses' = losses + 1
    /\ Reply(m, [m EXCEPT !.at = "failed", !.list = {}, !.total = 0])
    /\ UNCHANGED <<kind, stored, events, elsewhere, page>>

CreateElsewhere ==
    /\ losses + elsewhere < MaxFaults
    /\ elsewhere' = elsewhere + 1
    /\ \E i \in Ids \ stored : (\A j \in stored : j < i) /\ stored' = stored \cup {i}
    /\ UNCHANGED <<kind, net, events, losses, page>>

-----------------------------------------------------------------------------
(* getPageObjects: the pages the pager offers, "<" and ">" included.        *)
(* Whether one is enabled only shows in its style: all of them can be       *)
(* clicked, and without any item ">" goes to the page before the first.     *)

PagesOf(total) == (total + PageSize - 1) \div PageSize

StartFrom(total, current) ==
    Least(Smaller(current - VisiblePages \div 2 - 1, PagesOf(total) - 1 - VisiblePages))

Offered(total, current) ==
    LET start == StartFrom(total, current)
        end == Least(Smaller(PagesOf(total) - 1, start + VisiblePages))
    IN  {Least(current - 1), Smaller(current + 1, PagesOf(total) - 1)} \cup (start .. end)

-----------------------------------------------------------------------------
(* Events *)

Event ==
    /\ events < MaxEvents /\ events' = events + 1
    /\ UNCHANGED <<kind, stored, elsewhere, losses>>

(* handleFilterChange and the handlers of dates and types *)
HandleFilterChange(typed) ==
    /\ Event
    /\ kind # "users" /\ typed # filter.typed
    /\ filter' = [filter EXCEPT !.typed = typed]
    /\ UNCHANGED <<net, url, list, pager, loading, failed>>

(* The page stays: skip is not set back for the new filter.                 *)
OnFilter ==
    /\ Event
    /\ kind # "users"
    /\ Room("list") /\ Room("count")
    /\ url' = filter
    /\ net' = With(With(net, "list", filter), "count", filter)
    /\ UNCHANGED <<filter, list, pager, loading, failed>>

HandlePageChanged(p) ==
    /\ Event
    /\ Room("list")
    /\ pager' = [pager EXCEPT !.current = p]
    /\ filter' = [filter EXCEPT !.skip = p * PageSize]
    /\ url' = filter'
    /\ net' = With(net, "list", filter')
    /\ UNCHANGED <<list, loading, failed>>

DeleteLaunch(id) ==
    /\ Event
    /\ kind = "launches"
    /\ Room("delete")
    /\ LET no == CHOOSE i \in Free(net, "delete") : \A j \in Free(net, "delete") : i <= j IN
       net' = net \cup {[Request("delete", no, filter) EXCEPT !.id = id]}
    /\ UNCHANGED page

(* setInterval(this.getLaunches, 30000) *)
Poll_url ==  \* slip: with the filter of the address
    /\ kind = "launches"
    /\ \A m \in net : m.kind # "poll"
    /\ net' = With(net, "poll", url)
    /\ UNCHANGED <<kind, stored, bounds, page>>
Poll ==
    /\ kind = "launches"
    /\ \A m \in net : m.kind # "poll"
    /\ net' = With(net, "poll", filter)
    /\ UNCHANGED <<kind, stored, bounds, page>>

-----------------------------------------------------------------------------
(* Answers *)

Answer(m) ==
    /\ UNCHANGED <<kind, stored, bounds, filter, url>>
    /\ m.kind # "delete" => net' = net \ {m}

ListAnswered(m) ==
    /\ m.kind \in {"list", "poll"} /\ m.at = "done"
    /\ list' = m.list
    /\ loading' = FALSE
    /\ UNCHANGED <<pager, failed>>
    /\ Answer(m)

(* The page that is marked is that of the filter as it is by now; what was  *)
(* counted is the filter as it was.                                         *)
CountAnswered(m) ==
    /\ m.kind = "count" /\ m.at = "done"
    /\ pager' = [total |-> m.total, current |-> filter.skip \div PageSize]
    /\ UNCHANGED <<list, loading, failed>>
    /\ Answer(m)

(* The list is fetched again, the number of launches is not.                *)
DeleteAnswered(m) ==
    /\ m.kind = "delete" /\ m.at = "done"
    /\ Room("list")
    /\ net' = With(net \ {m}, "list", filter)
    /\ UNCHANGED <<list, pager, loading, failed>>
    /\ Answer(m)

Failed(m) ==
    /\ m.at = "failed"
    /\ net' = net \ {m}
    /\ failed' = (failed \/ (m.kind # "count" /\ kind # "users"))
    /\ loading' = (loading /\ m.kind \in {"count", "delete"})
    /\ UNCHANGED <<list, pager>>
    /\ Answer(m)

-----------------------------------------------------------------------------
User ==
    \/ \E t \in DOMAIN Filters : HandleFilterChange(t)
    \/ OnFilter
    \/ \E p \in Offered(pager.total, pager.current) : HandlePageChanged(p)
    \/ \E id \in list : DeleteLaunch(id)

Answered ==
    \E m \in net : ListAnswered(m) \/ CountAnswered(m) \/ DeleteAnswered(m) \/ Failed(m)

Next ==
    \/ User
    \/ Answered
    \/ Poll
    \/ \E m \in net : Serve(m) \/ Lose(m)
    \/ CreateElsewhere

(* The page when another is mounted.                                       *)
Idle == UNCHANGED vars

Spec == Init /\ [][Next]_vars
=============================================================================
