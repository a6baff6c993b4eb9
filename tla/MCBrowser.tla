------------------------------ MODULE MCBrowser ------------------------------
(***************************************************************************)
(* The browser for TLC: either a page or the sign-ins of its tabs.  The    *)
(* two share no variable and no step, so that a run of both is an          *)
(* interleaving of a run of each, and no property relates them: the part   *)
(* that is not looked at stays as it is.                                   *)
(***************************************************************************)
EXTENDS Browser, TLC

VARIABLE part

(* One page of each description. *)
MCKinds == DOMAIN PageOf \ {"admin_deliveries", "admin_events", "admin_event"}
MCSymmetry == Permutations(Requests) \cup Permutations(Windows) \cup Permutations(Accounts)

NoPage ==
  /\ Paging!Init /\ kind = "events" /\ first = "a"
  /\ \A r \in Paging!Rows : row[r].status = "none"
NoSession == Session!Init /\ area = "app" /\ owns = {}

(* The rows of a page that does not search for one of them are interchangeable. *)
MCInit ==
  \/ /\ part = "page" /\ Paging!Init /\ NoSession
     /\ "a" \in Paging!This.filters \/ first = "a"
  \/ part = "session" /\ Session!Init /\ NoPage

MCNext ==
  \/ part = "page" /\ Paging!Next /\ UNCHANGED <<part, sessions>>
  \/ part = "session" /\ Session!Next /\ UNCHANGED <<part, pages>>

MCSpec == MCInit /\ [][MCNext]_<<part, pages, sessions>>
=============================================================================
