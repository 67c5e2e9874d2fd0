----------------------------- MODULE InstrQueue -----------------------------
(***************************************************************************)
(* What the reorder buffer promises: a bounded first-in first-out queue of *)
(* the instructions in flight.  In one cycle, and independently,           *)
(*   - a new instruction, not completed, may enter at the back if the      *)
(*     queue is not full;                                                  *)
(*   - one instruction of the queue may become completed (or be completed  *)
(*     again), as a taken branch or not;                                   *)
(*   - an instruction at the front that was completed before leaves; if it *)
(*     is a taken branch, everything behind it leaves with it.             *)
(***************************************************************************)
EXTENDS Naturals, Sequences

CONSTANT Capacity

VARIABLES queue, next_id

vars == <<queue, next_id>>

Instr(id) == [id |-> id, completed |-> FALSE, taken |-> FALSE]

Init == queue = <<>> /\ next_id = 0

(* The queue after at most one instruction in it was completed. *)
Completed(q) ==
  {q} \cup {[q EXCEPT ![k] = [@ EXCEPT !.completed = TRUE, !.taken = t]] :
               k \in 1 .. Len(q), t \in BOOLEAN}

FrontDone  == queue # <<>> /\ Head(queue).completed
FrontTaken == FrontDone /\ Head(queue).taken

Squash ==
  /\ FrontTaken
  /\ queue' = <<>>
  /\ UNCHANGED next_id

Cycle ==
  /\ ~FrontTaken
  /\ \E q \in Completed(queue) :
       LET rest == IF FrontDone THEN Tail(q) ELSE q
       IN  \/ queue' = rest /\ UNCHANGED next_id
           \/ /\ Len(queue) < Capacity
              /\ queue' = Append(rest, Instr(next_id))
              /\ next_id' = next_id + 1

Next == Squash \/ Cycle

Spec == Init /\ [][Next]_vars
=============================================================================
