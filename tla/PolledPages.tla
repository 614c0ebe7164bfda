------------------------------ MODULE PolledPages ------------------------------
(***************************************************************************)
(* The pages that stay as they are while what they show goes on: that of a *)
(* launch (LaunchPage) and those that list by pages (PagedList), of which  *)
(* the ones of launches have a timer that fetches them again and again.    *)
(* The address decides which page is mounted (Main.js).                    *)
(*                                                                         *)
(* Each is the page of a browser's tab from its opening on.  No component  *)
(* clears its timer when it is unmounted (Launch.js and Launches.js have   *)
(* no componentWillUnmount): a page of a launch or of the launches that    *)
(* was left for another in the same tab keeps polling, and the answers to  *)
(* a launch's polls may patch, or build anew, the one tree widget that the *)
(* page mounted since shows.  That is left out.                            *)
(***************************************************************************)
EXTENDS LaunchPage

CONSTANTS Views,        \* pages that may be mounted
          ListIds, ListBegin, ListFilters, ListAll, ListPageSize, ListVisiblePages,
          ListEvents, ListInFlight  \* the constants of PagedList

(* Items are numbered as they come to be; there is room for an item on a     *)
(* page of the list, and for a request under way.                            *)
ASSUME ListAssumption ==
    /\ Views \subseteq {"launch", "launches", "audit", "users"}
    /\ ListIds \subseteq Nat
    /\ ListBegin \subseteq ListIds /\ IsFiniteSet(ListBegin)
    /\ ListAll \in DOMAIN ListFilters
    /\ ListPageSize \in Nat \ {0} /\ ListVisiblePages \in Nat
    /\ ListInFlight \in Nat \ {0}

VARIABLES
    view,  \* the page that is mounted
    list_kind, list_stored, list_net, list_events, list_elsewhere, list_losses,
    list_filter, list_url, list_list, list_pager, list_loading, list_failed

Paged == INSTANCE PagedList WITH
    Ids <- ListIds, Begin <- ListBegin, Filters <- ListFilters, All <- ListAll,
    PageSize <- ListPageSize, VisiblePages <- ListVisiblePages,
    MaxEvents <- ListEvents, MaxInFlight <- ListInFlight,
    kind <- list_kind, stored <- list_stored, net <- list_net,
    events <- list_events, elsewhere <- list_elsewhere, losses <- list_losses,
    filter <- list_filter, url <- list_url, list <- list_list,
    pager <- list_pager, loading <- list_loading, failed <- list_failed

allVars == <<view, vars, Paged!vars>>

Listing == view \in Paged!Kinds

PolledTypeOK ==
    /\ view \in {"launch"} \cup Paged!Kinds
    /\ TypeOK
    /\ Paged!TypeOK

(* The route of the address.                                                *)
PolledInit ==
    /\ view \in Views
    /\ Init
    /\ Paged!Init
    /\ list_kind = IF Listing THEN view ELSE "launches"

OnLaunch(step) == view = "launch" /\ step /\ UNCHANGED view /\ Paged!Idle
OnList(step) == Listing /\ step /\ UNCHANGED view /\ Idle

PolledNext == OnLaunch(Next) \/ OnList(Paged!Next)

PolledSpec == PolledInit /\ [][PolledNext]_allVars

(* The timer of the page mounted keeps firing, its requests end, and the    *)
(* browser runs its callbacks; nothing says in which order.                 *)
PolledFairness ==
    /\ WF_allVars(OnLaunch(Poll) \/ OnList(Paged!Poll))
    /\ WF_allVars(\/ OnLaunch(\E m \in net : Serve(m))
                  \/ OnList(\E m \in list_net : Paged!Serve(m)))
    /\ WF_allVars(OnLaunch(Answer) \/ OnList(Paged!Answered))

PolledFairSpec == PolledSpec /\ PolledFairness

-----------------------------------------------------------------------------
(* Properties, besides those of the page of a launch *)

(* Launches.js: because the launches keep being fetched with the filter as  *)
(* it is, their page comes to show what that filter finds where it stands,  *)
(* however answers overtook each other and whoever created or removed       *)
(* launches.                                                                *)
ListEventuallyShown == <>[](view = "launches" => list_list = Paged!PageAt(list_filter))
=============================================================================
