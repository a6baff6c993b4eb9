-------------------------- MODULE DeliveryContract --------------------------
(***************************************************************************)
(* What the pipeline promises about each delivery, with no worker, queue   *)
(* or destination in sight: a delivery is tried at most MaxAttempts times, *)
(* every try is logged in order, nothing is tried after a success, and the *)
(* outcome reported is the outcome logged.  Setting a delivery aside       *)
(* ("PAUSED") may happen at any time and keeps its log.                    *)
(***************************************************************************)
EXTENDS Naturals, Sequences

CONSTANTS Deliveries, MaxAttempts

VARIABLES status, tries

Init ==
  /\ status = [d \in Deliveries |-> "ABSENT"]
  /\ tries = [d \in Deliveries |-> <<>>]

Live(d) == status[d] \notin {"ABSENT", "DELETED"}

Unsettled(d) ==
  /\ Live(d)
  /\ Len(tries[d]) < MaxAttempts
  /\ \A n \in 1..Len(tries[d]) : tries[d][n] = "FAILED"

Create(D) ==
  /\ D # {}
  /\ \A d \in D : status[d] = "ABSENT"
  /\ status' = [d \in Deliveries |-> IF d \in D THEN "PENDING" ELSE status[d]]
  /\ UNCHANGED tries

Succeed(d) ==
  /\ Unsettled(d)
  /\ status' = [status EXCEPT ![d] = "SUCCESS"]
  /\ tries' = [tries EXCEPT ![d] = Append(@, "SUCCESS")]

Fail(d) ==
  /\ Unsettled(d)
  /\ status' = [status EXCEPT ![d] =
                  IF Len(tries[d]) + 1 = MaxAttempts THEN "DEAD_LETTER" ELSE @]
  /\ tries' = [tries EXCEPT ![d] = Append(@, "FAILED")]

SetAside(d) ==
  /\ Live(d)
  /\ status' = [status EXCEPT ![d] = "PAUSED"]
  /\ UNCHANGED tries

Remove(D) ==
  /\ \A d \in D : Live(d)
  /\ status' = [d \in Deliveries |-> IF d \in D THEN "DELETED" ELSE status[d]]
  /\ tries' = [d \in Deliveries |-> IF d \in D THEN <<>> ELSE tries[d]]

Next ==
  \/ \E D \in SUBSET Deliveries : Create(D) \/ Remove(D)
  \/ \E d \in Deliveries : Succeed(d) \/ Fail(d) \/ SetAside(d)

Spec == Init /\ [][Next]_<<status, tries>>
=============================================================================
