-------------------------------- MODULE Pages --------------------------------
(***************************************************************************)
(* A page that lists rows of a table, or shows one, and lets its reader    *)
(* act on them (pages/admin, pages/dashboard), against the services that   *)
(* list and change those rows.                                             *)
(*                                                                         *)
(* One page is open; other administrators, members and workers change the  *)
(* same rows with the same operations.  The pages follow one protocol and  *)
(* differ in what PageOf says of them.  A dialog is opened and confirmed   *)
(* in one step, and a page of a list holds one row.                        *)
(***************************************************************************)
EXTENDS Integers, FiniteSets

CONSTANTS
  PageOf,         \* what the code says of each page (PageKinds)
  Kinds,          \* the pages looked at
  Slots,          \* requests in progress at the same time
  Loads,          \* list requests in progress at the same time: 1 .. n
  MaxBegun,       \* bound on the moves, creations and requests ever begun
  MaxFaults,
  None

VARIABLES
  kind,           \* the page; it never changes
  row,            \* PostgreSQL: status of each row, and how often it was written
  first,          \* PostgreSQL: the row that sorts first
  view,           \* what the page remembers
  load,           \* its list requests under way
  request,        \* requests to change a row, of the page and of others
  begun, faults,
  own,            \* history: the newest version of a row its reader was told is written
  mixed           \* history: rows shown with an older answer after a newer one,
                  \* and "list" when a list was asked for while another was

vars == <<kind, row, first, view, load, request, begun, faults, own, mixed>>
database == <<row, first>>
page == <<view, load, own, mixed>>

This == PageOf[kind]
Rows == {"a", "b"}
Ops == DOMAIN This.ops
Statuses ==
  {"none"} \cup This.starts
    \cup UNION {{This.ops[op][s] : s \in DOMAIN This.ops[op]} : op \in Ops}
Scope == IF This.filters = {"a"} THEN {"a"} ELSE Rows

NoLoad == [stage |-> "idle", read |-> {}, filter |-> "all", page |-> 1, got |-> <<>>,
           total |-> 0, awaited |-> FALSE]
NoRequest == [stage |-> "idle", op |-> None, row |-> None, mine |-> FALSE, saw |-> "none",
              ok |-> FALSE, got |-> None]
Asked(filter, p, awaited) ==
  [NoLoad EXCEPT !.stage = "sent", !.filter = filter, !.page = p, !.awaited = awaited]

Pending(ls) == {l \in 1 .. Loads : ls[l].stage = "sent"}
HasRoom(ls) == Pending(ls) # 1 .. Loads
With(ls, new) == [ls EXCEPT ![CHOOSE l \in 1 .. Loads : ls[l].stage = "idle"] = new]

(* Variant: the cleanup of the effect does not set `cancelled'. *)
CancelledNever(ls) == ls

(* The cleanup of the effect: what was asked for before is ignored. *)
Cancelled(ls) == IF This.drops THEN [l \in 1 .. Loads |-> NoLoad] ELSE ls

Init ==
  /\ kind \in Kinds
  /\ row \in [Rows -> [status : This.starts \cup {"none"}, ver : {0}]]
  /\ \A r \in Rows \ Scope : row[r].status = "none"
  /\ first \in Scope
  /\ LET filter == CHOOSE f \in This.filters : "all" \in This.filters => f = "all"
     IN /\ view = [filter |-> filter, page |-> 1, shown |-> <<>>, of |-> None, total |-> 0,
                   busy |-> None, failed |-> FALSE, left |-> FALSE]
        /\ load = [l \in 1 .. Loads |-> IF l = 1 THEN Asked(filter, 1, FALSE) ELSE NoLoad]
  /\ request = [t \in Slots |-> NoRequest]
  /\ begun = 0 /\ faults = 0
  /\ own = [r \in Rows |-> 0] /\ mixed = {}

-----------------------------------------------------------------------------
(* Lists *)

Selected(r, filter) ==
  /\ row[r].status \notin This.hides
  /\ filter \in Rows => r = filter
  /\ filter \notin Rows \cup {"all"} => row[r].status = filter

Matching(filter) == {r \in Scope : Selected(r, filter)}

OnPage(filter, p) ==
  LET all == Matching(filter)
  IN IF ~This.paged THEN all
     ELSE {r \in all : p = IF r = first \/ first \notin all THEN 1 ELSE 2}

Begins == begun < MaxBegun /\ begun' = begun + 1

(* A control selects other rows, from the first page on. *)
Move(filter) ==
  /\ Begins /\ ~view.left /\ filter # view.filter
  /\ HasRoom(Cancelled(load))
  /\ view' = [view EXCEPT !.filter = filter, !.page = 1]
  /\ load' = With(Cancelled(load), Asked(filter, 1, FALSE))
  /\ mixed' = IF Pending(Cancelled(load)) = {} THEN mixed ELSE mixed \cup {"list"}
  /\ UNCHANGED <<kind, database, request, faults, own>>

(* The buttons below a list count from the page last answered. *)
Turn(p) ==
  /\ Begins /\ This.paged /\ ~view.left
  /\ DOMAIN view.shown # {}
  /\ p \in {view.of[2] - 1, view.of[2] + 1} /\ p \in 1 .. view.total /\ p # view.page
  /\ HasRoom(Cancelled(load))
  /\ view' = [view EXCEPT !.page = p]
  /\ load' = With(Cancelled(load), Asked(view.filter, p, FALSE))
  /\ UNCHANGED <<kind, database, request, faults, own, mixed>>

(* A paged list, and one with a tally, is two statements, in either order. *)
Counts == This.paged \/ This.tally # {}
Counted(filter) ==
  IF This.paged THEN Matching(filter) ELSE {r \in Scope : row[r].status \in This.tally}

ReadRows(l) ==
  /\ load[l].stage = "sent" /\ "rows" \notin load[l].read
  /\ load' = [load EXCEPT ![l].read = @ \cup {"rows"},
                          ![l].got = [r \in OnPage(load[l].filter, load[l].page) |-> row[r]]]
  /\ UNCHANGED <<kind, database, view, request, begun, faults, own, mixed>>

ReadTotal(l) ==
  /\ load[l].stage = "sent" /\ "total" \notin load[l].read /\ Counts
  /\ load' = [load EXCEPT ![l].read = @ \cup {"total"},
                          ![l].total = Cardinality(Counted(load[l].filter))]
  /\ UNCHANGED <<kind, database, view, request, begun, faults, own, mixed>>

ReadAll(l) == load[l].read = IF Counts THEN {"rows", "total"} ELSE {"rows"}

(* The answer is shown; an empty page beyond the first leads to the first. *)
ShowLoad(l) ==
  LET answer == load[l]
      ended == [load EXCEPT ![l] = NoLoad]
      back == This.back /\ DOMAIN answer.got = {} /\ answer.total > 0 /\ view.page # 1
  IN /\ answer.stage = "sent" /\ ReadAll(l)
     /\ view' = [view EXCEPT !.shown = answer.got, !.of = <<answer.filter, answer.page>>,
                             !.total = answer.total, !.failed = FALSE,
                             !.page = IF back THEN 1 ELSE @,
                             !.busy = IF answer.awaited THEN None ELSE @]
     /\ load' = IF back THEN With(ended, Asked(view.filter, 1, FALSE)) ELSE ended
     /\ UNCHANGED <<kind, database, request, begun, faults, own, mixed>>

LoadFails(l) ==
  /\ faults < MaxFaults /\ faults' = faults + 1
  /\ load[l].stage = "sent"
  /\ load' = [load EXCEPT ![l] = NoLoad]
  /\ view' = [view EXCEPT !.failed = TRUE,
                          !.shown = IF This.clears THEN <<>> ELSE @,
                          !.busy = IF load[l].awaited THEN None ELSE @]
  /\ UNCHANGED <<kind, database, request, begun, own, mixed>>

-----------------------------------------------------------------------------
(* Requests *)

(* busyId, busyAction, isLoading: one value for the page, which the next     *)
(* request overwrites.                                                       *)
HeldBack(r, op) ==
  /\ op \notin This.free /\ view.busy # None
  /\ This.busy = "row" /\ op \notin This.dialogs => view.busy = r

Sent(t, r, op, mine) ==
  request' = [request EXCEPT ![t] = [NoRequest EXCEPT !.stage = "sent", !.op = op,
                                                      !.row = r, !.mine = mine]]

Click(t, r, op) ==
  /\ Begins /\ request[t].stage = "idle" /\ ~view.left
  /\ r \in DOMAIN view.shown /\ view.shown[r].status \in This.offers[op]
  /\ ~HeldBack(r, op)
  /\ Sent(t, r, op, TRUE)
  /\ view' = [view EXCEPT !.busy = IF op \in This.free THEN @ ELSE r]
  /\ UNCHANGED <<kind, database, load, faults, own, mixed>>

(* Another browser, or a worker. *)
BeginElsewhere(t, r, op) ==
  /\ Begins /\ request[t].stage = "idle" /\ row[r].status # "none"
  /\ Sent(t, r, op, FALSE)
  /\ UNCHANGED <<kind, database, page, faults>>

Create(r) ==
  /\ Begins /\ r \in Scope /\ row[r].status = "none"
  /\ \E s \in This.starts : row' = [row EXCEPT ![r].status = s]
  /\ first' = r
  /\ UNCHANGED <<kind, page, request, faults>>

(* What a service answers: the row it wrote, or an error.  Nobody waits for  *)
(* the answers of others.                                                    *)
Answered(t, ok, got) ==
  request' = [request EXCEPT ![t] =
                IF @.mine THEN [@ EXCEPT !.stage = "done", !.ok = ok, !.got = got]
                          ELSE NoRequest]

(* findUnique, and the refusals. *)
Check(t) ==
  LET q == request[t]
      status == row[q.row].status
  IN /\ q.stage = "sent"
     /\ IF status \in DOMAIN This.ops[q.op]
        THEN request' = [request EXCEPT ![t].stage = "checked", ![t].saw = status]
        ELSE Answered(t, FALSE, None)
     /\ UNCHANGED <<kind, database, page, begun, faults>>

(* update or delete by identity alone: an error when the row is gone. *)
Write(t) ==
  LET q == request[t]
      new == [status |-> This.ops[q.op][q.saw], ver |-> row[q.row].ver + 1]
  IN /\ q.stage = "checked"
     /\ IF row[q.row].status = "gone"
        THEN Answered(t, FALSE, None) /\ UNCHANGED database
        ELSE /\ row' = [row EXCEPT ![q.row] = new]
             /\ first' = IF This.touched THEN q.row ELSE first
             /\ Answered(t, TRUE, new)
     /\ UNCHANGED <<kind, page, begun, faults>>

Patched(shown, r, new) ==
  [i \in {j \in DOMAIN shown : j = r => new.status # "gone"} |->
     IF i = r THEN new ELSE shown[i]]

(* An older answer that may still be shown after this one: a list read before *)
(* the change, or this answer itself, come after that to a later request.    *)
Overlapped(t, ls) ==
  \/ \E l \in Pending(ls) : "rows" \in ls[l].read
  \/ This.after = "patch" /\ request[t].got.ver < own[request[t].row]

(* A handler goes on with the answer to its request. *)
Succeed(t) ==
  LET q == request[t]
      kept == IF This.after = "reload" THEN Cancelled(load) ELSE load
      again == This.after # "patch" /\ ~(q.op \in This.leaves)
  IN /\ q.stage = "done" /\ q.ok /\ ~view.left
     /\ again => HasRoom(kept)
     /\ request' = [request EXCEPT ![t] = NoRequest]
     /\ view' = [view EXCEPT
          !.shown = IF This.after = "patch" THEN Patched(@, q.row, q.got) ELSE @,
          !.left = q.op \in This.leaves,
          !.busy = IF q.op \in This.free \/ This.after = "await" THEN @ ELSE None]
     /\ load' = IF again THEN With(kept, Asked(view.filter, view.page, This.after = "await"))
                         ELSE kept
     /\ own' = [own EXCEPT ![q.row] = IF q.got.ver > @ THEN q.got.ver ELSE @]
     /\ mixed' = IF Overlapped(t, kept) THEN mixed \cup {q.row} ELSE mixed
     /\ UNCHANGED <<kind, database, begun, faults>>

(* Variant: a handler without `finally' keeps its button held back. *)
ReleasedLate(t) ==
  /\ request' = [request EXCEPT ![t] = NoRequest]
  /\ UNCHANGED <<kind, database, view, load, begun, own, mixed>>

(* An error, or no answer at all: the handler's catch and finally. *)
Released(t) ==
  /\ request' = [request EXCEPT ![t] = NoRequest]
  /\ view' = [view EXCEPT !.busy = IF request[t].op \in This.free THEN @ ELSE None]
  /\ UNCHANGED <<kind, database, load, begun, own, mixed>>

Refused(t) ==
  /\ request[t].stage = "done" /\ (request[t].ok => view.left)
  /\ Released(t) /\ UNCHANGED faults

LoseAnswer(t) ==
  /\ faults < MaxFaults /\ faults' = faults + 1
  /\ request[t].stage = "done" /\ request[t].ok /\ ~view.left
  /\ Released(t)

Next ==
  \/ \E f \in This.filters : Move(f)
  \/ \E p \in 1 .. 2 : Turn(p)
  \/ \E l \in 1 .. Loads : ReadRows(l) \/ ReadTotal(l) \/ ShowLoad(l) \/ LoadFails(l)
  \/ \E t \in Slots, r \in Rows, op \in Ops : BeginElsewhere(t, r, op)
  \/ \E t \in Slots, r \in Rows, op \in DOMAIN This.offers : Click(t, r, op)
  \/ \E r \in Rows : Create(r)
  \/ \E t \in Slots : Check(t) \/ Write(t) \/ Succeed(t) \/ Refused(t) \/ LoseAnswer(t)

Spec == Init /\ [][Next]_vars

-----------------------------------------------------------------------------
(* Properties *)

TypeOK ==
  /\ kind \in Kinds
  /\ \A r \in Rows : row[r].status \in Statuses /\ row[r].ver \in 0 .. MaxBegun
  /\ first \in Rows
  /\ view.filter \in This.filters /\ view.page \in 1 .. 2
  /\ DOMAIN view.shown \subseteq Rows
  /\ view.of = None \/ (view.of[1] \in This.filters /\ view.of[2] \in 1 .. 2)
  /\ view.busy \in Rows \cup {None}
  /\ \A l \in 1 .. Loads : load[l].stage \in {"idle", "sent"} /\ load[l].total \in 0 .. 2
  /\ \A t \in Slots : request[t].stage \in {"idle", "sent", "checked", "done"}
  /\ begun \in 0 .. MaxBegun /\ faults \in 0 .. MaxFaults

(* The buttons of a page are held back only while a request or the list it    *)
(* waits for is under way: every way out of a handler clears busyId.          *)
BusyIsReleased ==
  view.busy # None =>
    \/ \E t \in Slots : request[t].mine
    \/ \E l \in Pending(load) : load[l].awaited

AtRest == Pending(load) = {} /\ ~view.failed /\ ~view.left

(* What the reader changed, and was told is changed, is not shown by a page   *)
(* at rest as it was before: an answer asked for earlier does not overwrite   *)
(* it, except where the code lets it (mixed).                                 *)
OwnWriteIsShown ==
  AtRest => \A r \in DOMAIN view.shown \ mixed : view.shown[r].ver >= own[r]

(* A page at rest shows the rows of the filter and page its controls say,     *)
(* whatever was typed, turned or answered late (`cancelled' of the effects).  *)
QuietIsAnswered ==
  AtRest /\ "list" \notin mixed => view.of = <<view.filter, view.page>>

ShownIsAnswered == OwnWriteIsShown /\ QuietIsAnswered

Inv == TypeOK /\ BusyIsReleased

(* An archived message, a revoked key, an accepted invitation and a deleted   *)
(* row stay what they are; only a request that looked at the row before may   *)
(* still change it (the check and the update are two statements).             *)
Final == {"ARCHIVED", "revoked", "ACCEPTED", "gone"}
FinalStays ==
  [][\A r \in Rows :
       row[r].status \in Final /\ row'[r].status \notin Final =>
         \E t \in Slots : /\ request[t].stage = "checked" /\ request[t].row = r
                          /\ request[t].saw \notin Final]_vars
=============================================================================
