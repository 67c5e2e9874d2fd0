----------------------------- MODULE StoreQueue -----------------------------
(***************************************************************************)
(* What the store buffer promises: the stores that have committed but not  *)
(* reached memory, and behind them the speculative ones, each a first-in   *)
(* first-out queue.  In one cycle, and independently,                      *)
(*   - the oldest committed store may be written to memory;                *)
(*   - the oldest speculative store may commit, or all of them be flushed; *)
(*   - unless there is a flush, a new speculative store may enter.         *)
(* So memory sees exactly the committed stores, once each and in program   *)
(* order.                                                                  *)
(***************************************************************************)
EXTENDS Naturals, Sequences

CONSTANTS Stores, Capacity

VARIABLES
  committed, speculative,
  written  \* what is written to memory in this cycle

vars == <<committed, speculative, written>>

Init == committed = <<>> /\ speculative = <<>> /\ written = <<>>

(* What stays of the committed stores, with or without a write. *)
Writes(rest) ==
  \/ rest = committed /\ written' = <<>>
  \/ /\ committed # <<>>
     /\ rest = Tail(committed)
     /\ written' = <<Head(committed)>>

Rests == {committed} \cup {Tail(c) : c \in {committed} \ {<<>>}}

Flush ==
  /\ speculative' = <<>>
  /\ Writes(committed')

(* The queue s, possibly with a new store behind it. *)
MayGrow(s) ==
  {s} \cup {Append(s, x) :
              x \in {y \in Stores :
                       Len(committed) + Len(speculative) < Capacity}}

Commit ==
  /\ speculative # <<>>
  /\ \E rest \in Rests : /\ Writes(rest)
                         /\ committed' = Append(rest, Head(speculative))
  /\ speculative' \in MayGrow(Tail(speculative))

Hold ==
  /\ Writes(committed')
  /\ speculative' \in MayGrow(speculative)

Next == Flush \/ Commit \/ Hold

Spec == Init /\ [][Next]_vars
=============================================================================
