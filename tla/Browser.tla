------------------------------- MODULE Browser -------------------------------
(***************************************************************************)
(* What a browser keeps besides the onboarding of a tab: the sign-ins of   *)
(* its tabs (Sessions), and the page over rows that one of them has open   *)
(* (Pages).  They share no variable: a page asks for its rows with         *)
(* whatever token is stored, and the rows it is shown do not depend on     *)
(* what the tabs remember.                                                 *)
(***************************************************************************)
EXTENDS Integers, FiniteSets, PageKinds

CONSTANTS
  Accounts, Windows,
  Kinds,          \* the pages looked at
  Requests,       \* requests in progress at the same time, of either part
  Loads,          \* list requests in progress at the same time: 1 .. n
  MaxAsked,       \* bound on the sign-ins, sign-outs, reloads and saves ever begun
  MaxActed,       \* bound on the moves, creations and requests of pages ever begun
  MaxMissed,        \* bound on the answers lost
  Nothing

VARIABLES
  (* Sessions *)
  area, stored, window, call, owns, asked, strayed, foreign, torn,
  (* Pages *)
  kind, row, first, view, load, request, acted, missed, own, mixed

sessions == <<area, stored, window, call, owns, asked, strayed, foreign, torn>>
pages == <<kind, row, first, view, load, request, acted, missed, own, mixed>>

Session == INSTANCE Sessions WITH
       Tabs <- Windows, Slots <- Requests, MaxBegun <- MaxAsked, None <- Nothing,
       tab <- window, task <- call, begun <- asked, crossed <- strayed

Paging == INSTANCE Pages WITH
       Slots <- Requests, MaxBegun <- MaxActed, MaxFaults <- MaxMissed, None <- Nothing,
       begun <- acted, faults <- missed

ASSUME BrowserAssumption ==
  /\ Kinds \subseteq DOMAIN PageOf
  /\ IsFiniteSet(Requests) /\ Loads \in Nat \ {0}
  /\ MaxAsked \in Nat /\ MaxActed \in Nat /\ MaxMissed \in Nat

-----------------------------------------------------------------------------
(* Properties *)

(* Sessions: a tab shows the account and the organization it speaks for. *)
ShownIsSession == Session!ShownIsSession

(* Pages: types, and every button held back comes back. *)
ButtonsComeBack == Paging!Inv

(* Pages: a page at rest shows what its controls say, and nothing older than *)
(* the reader's own change.                                                  *)
ShownIsAnswered == Paging!ShownIsAnswered

(* Pages: only a crossing of two requests leaves a final status. *)
FinalStays == Paging!FinalStays
=============================================================================
