------------------------------ MODULE MtProofs ------------------------------
(***************************************************************************)
(* Theorems about the barrier of benchmarks/common/util.h, for every       *)
(* number of cores and whatever the programs do between their barriers.    *)
(***************************************************************************)
EXTENDS Mt, FiniteSetTheorems, TLAPS

Waiting == {"last", "release", "spin"}

BarrierTypeOK ==
  /\ nc \in Nat \ {0}
  /\ pc \in [Cores -> Nat \ {0}]
  /\ phase \in [Cores -> {"ready", "loaded"} \cup Waiting]
  /\ count \in [Units -> Nat] /\ sense \in [Units -> BOOLEAN]
  /\ threadsense \in [Cores -> [Units -> BOOLEAN]]

(* A core that waits does so in a call of barrier. *)
InBarrier == \A c \in Cores : phase[c] \in Waiting => \E u \in Units : AtBarrier(c, u)

(* Core c is in the barrier of unit u; it has arrived and the barrier has  *)
(* not been released since.                                                *)
Waits(c, u) == phase[c] \in Waiting /\ AtBarrier(c, u)
Fresh(u) == {c \in Cores : Waits(c, u) /\ threadsense[c][u] # sense[u]}

(* Barrier u has been released r times.  The cores outside it have left it *)
(* r times and hold its sense; those that wait hold the other sense, or    *)
(* the sense again when they have yet to see the release.  count is the    *)
(* number of arrivals, and the core that is about to reset it or to        *)
(* release the barrier has waited for all the others.                      *)
Round(u, r) ==
  /\ \A c \in Cores : threadsense[c][u] # sense[u] => Waits(c, u)
  /\ \A c \in Cores : Waits(c, u) /\ threadsense[c][u] = sense[u] =>
       phase[c] = "spin" /\ Left(c, u) = r - 1
  /\ \A c \in Cores : ~(Waits(c, u) /\ threadsense[c][u] = sense[u]) => Left(c, u) = r
  /\ \A c \in Cores : Waits(c, u) /\ phase[c] \in {"last", "release"} =>
       \A d \in Cores : d \in Fresh(u) /\ (d # c => phase[d] = "spin")
  /\ Fresh(u) = Cores => \E c \in Cores : phase[c] \in {"last", "release"}
  /\ IF \E c \in Cores : Waits(c, u) /\ phase[c] = "release"
       THEN count[u] = 0 ELSE count[u] = Cardinality(Fresh(u))

Rounds == \A u \in Units : \E r \in Nat : Round(u, r)

IInv == BarrierTypeOK /\ InBarrier /\ Rounds

(* Passing an operation counts it when it is a barrier. *)
LEMMA LeftStep ==
  ASSUME NEW c, NEW u, pc[c] \in Nat \ {0}, prog' = prog, nc' = nc
  PROVE  /\ Left(c, u) \in Nat
         /\ pc'[c] = pc[c] => Left(c, u)' = Left(c, u)
         /\ pc'[c] = pc[c] + 1 =>
              Left(c, u)' = IF AtBarrier(c, u) THEN Left(c, u) + 1 ELSE Left(c, u)
<1> DEFINE ops == Code[prog][nc][c]
           Is(t) == ops[t].do = "barrier" /\ ops[t].from = u
           S == {t \in 1 .. pc[c] - 1 : Is(t)}
           T == {t \in 1 .. pc[c] : Is(t)}
<1>1. Left(c, u) = Cardinality(S) /\ (AtBarrier(c, u) <=> Is(pc[c]))
  BY DEF Left, Before, AtBarrier, IsBarrier, At
<1> DEFINE Passed(n) == Cardinality({t \in 1 .. n - 1 : Is(t)})
<1>2. Left(c, u)' = Passed(pc'[c])
  BY DEF Left, Before, IsBarrier
<1>3. pc'[c] = pc[c] => Left(c, u)' = Cardinality(S)
  BY <1>2
<1>4. pc'[c] = pc[c] + 1 => Left(c, u)' = Cardinality(T)
  <2> HIDE DEF Is
  <2>1. (pc[c] + 1) - 1 = pc[c]
    OBVIOUS
  <2>2. Passed(pc[c] + 1) = Cardinality(T)
    BY <2>1
  <2> HIDE DEF Passed, T
  <2> QED
    BY <1>2, <2>2
<1> HIDE DEF Passed
<1> HIDE DEF Is
<1>5. T = IF Is(pc[c]) THEN S \cup {pc[c]} ELSE S
  OBVIOUS
<1>6. IsFiniteSet(S) /\ pc[c] \notin S
  <2>1. IsFiniteSet(1 .. pc[c] - 1)
    BY FS_Interval
  <2> QED
    BY <2>1, FS_Subset
<1>7. Cardinality(S) \in Nat /\ Cardinality(S \cup {pc[c]}) = Cardinality(S) + 1
  BY <1>6, FS_CardinalityType, FS_AddElement
<1> HIDE DEF S, T
<1> QED
  BY <1>1, <1>3, <1>4, <1>5, <1>7

LEMMA FewCores ==
  ASSUME nc \in Nat \ {0}
  PROVE  IsFiniteSet(Cores) /\ Cardinality(Cores) = nc
BY FS_Interval DEF Cores

(* Two senses that differ from a third are equal. *)
LEMMA TwoSenses ==
  ASSUME NEW a \in BOOLEAN, NEW b \in BOOLEAN, NEW e \in BOOLEAN
  PROVE  /\ a # e /\ b # e => a = b
         /\ (~a) # a /\ (~a) \in BOOLEAN
OBVIOUS

(* What a step leaves as it was for barrier u. *)
Same(u) ==
  /\ nc' = nc /\ sense'[u] = sense[u] /\ count'[u] = count[u]
  /\ \A d \in Cores :
       /\ Waits(d, u)' <=> Waits(d, u)
       /\ threadsense'[d][u] = threadsense[d][u]
       /\ Left(d, u)' = Left(d, u)
       /\ Waits(d, u) => phase'[d] = phase[d]

LEMMA SameRound ==
  ASSUME NEW u \in Units, NEW r \in Nat, Round(u, r), Same(u)
  PROVE  Round(u, r)'
<1>1. Cores' = Cores
  BY DEF Same, Cores
<1>2. Fresh(u)' = Fresh(u)
  BY <1>1 DEF Same, Fresh
<1>3. /\ \A c \in Cores : threadsense'[c][u] # sense'[u] => Waits(c, u)'
      /\ \A c \in Cores : Waits(c, u)' /\ threadsense'[c][u] = sense'[u] =>
           phase'[c] = "spin" /\ Left(c, u)' = r - 1
      /\ \A c \in Cores : ~(Waits(c, u)' /\ threadsense'[c][u] = sense'[u]) => Left(c, u)' = r
  BY DEF Same, Round
<1>4. \A c \in Cores : Waits(c, u)' /\ phase'[c] \in {"last", "release"} =>
        \A d \in Cores : d \in Fresh(u) /\ (d # c => phase'[d] = "spin")
  BY DEF Same, Round, Fresh
<1>5. IF \E c \in Cores : Waits(c, u)' /\ phase'[c] = "release"
        THEN count'[u] = 0 ELSE count'[u] = Cardinality(Fresh(u))
  <2>1. (\E c \in Cores : Waits(c, u)' /\ phase'[c] = "release")
          <=> \E c \in Cores : Waits(c, u) /\ phase[c] = "release"
    BY DEF Same
  <2> QED
    BY <2>1 DEF Same, Round
<1>6. Fresh(u) = Cores => \E c \in Cores : phase'[c] \in {"last", "release"}
  BY DEF Same, Round, Fresh
<1> QED
  BY <1>1, <1>2, <1>3, <1>4, <1>5, <1>6 DEF Round

-----------------------------------------------------------------------------
(* Core c takes a step: it stays where it is or goes to its next operation. *)
Moves(c) ==
  /\ prog' = prog /\ nc' = nc
  /\ pc' \in [Cores -> Nat \ {0}] /\ pc'[c] \in {pc[c], pc[c] + 1}
  /\ \A d \in Cores : d # c => pc'[d] = pc[d] /\ phase'[d] = phase[d]

LEMMA MovesLemma ==
  ASSUME BarrierTypeOK, NEW c \in Cores, Moves(c)
  PROVE  /\ Cores' = Cores
         /\ \A d \in Cores, u \in Units :
              /\ Left(d, u) \in Nat
              /\ pc'[d] = pc[d] => Left(d, u)' = Left(d, u) /\ (AtBarrier(d, u)' <=> AtBarrier(d, u))
              /\ d # c => (Waits(d, u)' <=> Waits(d, u))
         /\ \A u \in Units : pc'[c] # pc[c] =>
              Left(c, u)' = IF AtBarrier(c, u) THEN Left(c, u) + 1 ELSE Left(c, u)
<1>1. Cores' = Cores /\ prog' = prog /\ nc' = nc
  BY DEF Moves, Cores
<1>2. ASSUME NEW d \in Cores, NEW u \in Units
      PROVE  /\ Left(d, u) \in Nat
             /\ pc'[d] = pc[d] => Left(d, u)' = Left(d, u) /\ (AtBarrier(d, u)' <=> AtBarrier(d, u))
             /\ d # c => (Waits(d, u)' <=> Waits(d, u))
             /\ pc'[d] = pc[d] + 1 =>
                  Left(d, u)' = IF AtBarrier(d, u) THEN Left(d, u) + 1 ELSE Left(d, u)
  <2>1. pc[d] \in Nat \ {0}
    BY DEF BarrierTypeOK
  <2>2. pc'[d] = pc[d] => (AtBarrier(d, u)' <=> AtBarrier(d, u))
    BY <1>1 DEF AtBarrier, IsBarrier, At
  <2>3. d # c => (Waits(d, u)' <=> Waits(d, u))
    BY <2>2 DEF Moves, Waits
  <2> QED
    BY <1>1, <2>1, <2>2, <2>3, LeftStep
<1> QED
  BY <1>1, <1>2 DEF Moves

(* The operations between barriers do not touch them. *)
Quiet(c) ==
  /\ Moves(c) /\ UNCHANGED Senses
  /\ phase[c] \notin Waiting /\ phase' \in [Cores -> {"ready", "loaded"} \cup Waiting]
  /\ phase'[c] \notin Waiting
  /\ pc'[c] # pc[c] => \A u \in Units : ~AtBarrier(c, u)

Working(c) ==
  PutSum(c) \/ LoadOld(c) \/ StoreNew(c) \/ CopyB(c) \/ VerifyResult(c) \/ ExitZero(c)

LEMMA WorkingIsQuiet ==
  ASSUME BarrierTypeOK, InBarrier, NEW c \in Cores, Working(c)
  PROVE  Quiet(c)
<1>1. At(c).do \in {"put", "add", "copy", "verify", "exit"}
  BY DEF Working, PutSum, LoadOld, StoreNew, CopyB, VerifyResult, ExitZero,
         BarrierTypeOK, Waiting
<1>2. \A u \in Units : ~AtBarrier(c, u)
  BY <1>1 DEF AtBarrier, IsBarrier
<1>3. phase[c] \notin Waiting
  BY <1>2 DEF InBarrier
<1>4. /\ pc \in [Cores -> Nat \ {0}]
      /\ phase \in [Cores -> {"ready", "loaded"} \cup Waiting]
  BY DEF BarrierTypeOK
<1>5. UNCHANGED << Machine, Senses >>
  BY DEF Working, PutSum, LoadOld, StoreNew, CopyB, VerifyResult, ExitZero, Data
<1>6. \/ Done(c)
      \/ pc' = pc /\ (Goto(c, "loaded") \/ phase' = phase)
  BY DEF Working, PutSum, LoadOld, StoreNew, CopyB, VerifyResult, ExitZero
<1>7. CASE Done(c)
  <2>1. pc' = [pc EXCEPT ![c] = pc[c] + 1] /\ phase' = [phase EXCEPT ![c] = "ready"]
    BY <1>7 DEF Done, Goto
  <2> QED
    BY <1>2, <1>3, <1>4, <1>5, <2>1 DEF Quiet, Moves, Machine, Waiting
<1>8. CASE pc' = pc /\ (Goto(c, "loaded") \/ phase' = phase)
  <2>1. phase' = [phase EXCEPT ![c] = "loaded"] \/ phase' = phase
    BY <1>8 DEF Goto
  <2> QED
    BY <1>3, <1>4, <1>5, <1>8, <2>1 DEF Quiet, Moves, Machine, Waiting
<1> QED
  BY <1>6, <1>7, <1>8

LEMMA QuietStep ==
  ASSUME IInv, NEW c \in Cores, Quiet(c)
  PROVE  IInv'
<1>1. BarrierTypeOK /\ InBarrier /\ Rounds /\ Moves(c)
  BY DEF IInv, Quiet
<1>2. Cores' = Cores
  BY <1>1, MovesLemma
<1>3. BarrierTypeOK'
  BY <1>1, <1>2 DEF BarrierTypeOK, Quiet, Moves, Senses
<1>4. InBarrier'
  <2> SUFFICES ASSUME NEW d \in Cores, phase'[d] \in Waiting
               PROVE  \E u \in Units : AtBarrier(d, u)'
    BY <1>2 DEF InBarrier
  <2>1. d # c
    BY DEF Quiet
  <2>2. pc'[d] = pc[d] /\ phase'[d] = phase[d]
    BY <1>1, <2>1 DEF Moves
  <2>3. \E u \in Units : AtBarrier(d, u)
    BY <1>1, <2>2 DEF InBarrier
  <2> QED
    BY <1>1, <2>2, <2>3, MovesLemma
<1>5. ASSUME NEW u \in Units
      PROVE  Same(u)
  <2>1. sense' = sense /\ count' = count /\ threadsense' = threadsense /\ nc' = nc
    BY DEF Quiet, Moves, Senses
  <2>2. ~Waits(c, u) /\ ~Waits(c, u)'
    BY DEF Quiet, Waits
  <2>3. Left(c, u)' = Left(c, u)
    BY <1>1, MovesLemma DEF Quiet
  <2>4. \A d \in Cores : d # c => /\ Waits(d, u)' <=> Waits(d, u)
                                  /\ Left(d, u)' = Left(d, u) /\ phase'[d] = phase[d]
    BY <1>1, MovesLemma DEF Moves
  <2> QED
    BY <2>1, <2>2, <2>3, <2>4 DEF Same
<1>6. Rounds'
  BY <1>1, <1>5, SameRound DEF Rounds
<1> QED
  BY <1>3, <1>4, <1>6 DEF IInv

-----------------------------------------------------------------------------
(* A step in the barrier of unit v is no step in the barrier of the other. *)
LEMMA OtherUnit ==
  ASSUME BarrierTypeOK, NEW c \in Cores, Moves(c), NEW v \in Units, AtBarrier(c, v),
         NEW u \in Units, u # v, pc'[c] = pc[c] \/ phase'[c] \notin Waiting,
         sense'[u] = sense[u], count'[u] = count[u],
         \A d \in Cores : threadsense'[d][u] = threadsense[d][u]
  PROVE  Same(u)
<1>1. ~AtBarrier(c, u)
  BY DEF AtBarrier, IsBarrier
<1>2. ~Waits(c, u) /\ ~Waits(c, u)'
  BY <1>1, MovesLemma DEF Waits
<1>3. Left(c, u)' = Left(c, u)
  BY <1>1, MovesLemma
<1>4. \A d \in Cores : d # c => /\ Waits(d, u)' <=> Waits(d, u)
                                /\ Left(d, u)' = Left(d, u) /\ phase'[d] = phase[d]
  BY MovesLemma DEF Moves
<1> QED
  BY <1>2, <1>3, <1>4 DEF Same, Moves

(* InBarrier after a step in a barrier. *)
LEMMA StillInBarrier ==
  ASSUME BarrierTypeOK, InBarrier, NEW c \in Cores, Moves(c), NEW v \in Units, AtBarrier(c, v),
         pc'[c] = pc[c] \/ phase'[c] \notin Waiting
  PROVE  InBarrier'
<1> SUFFICES ASSUME NEW d \in Cores, phase'[d] \in Waiting
             PROVE  \E u \in Units : AtBarrier(d, u)'
  BY MovesLemma DEF InBarrier
<1>1. CASE d = c
  <2>1. AtBarrier(c, v)'
    BY <1>1, MovesLemma
  <2> QED
    BY <1>1, <2>1
<1>2. CASE d # c
  <2>1. pc'[d] = pc[d] /\ phase'[d] = phase[d]
    BY <1>2 DEF Moves
  <2>2. \E u \in Units : AtBarrier(d, u)
    BY <2>1 DEF InBarrier
  <2> QED
    BY <2>1, <2>2, MovesLemma
<1> QED
  BY <1>1, <1>2

LEMMA ArriveStep ==
  ASSUME IInv, NEW c \in Cores, Arrive(c)
  PROVE  IInv'
<1>1. BarrierTypeOK /\ InBarrier /\ Rounds
  BY DEF IInv
<1>2. PICK v \in Units :
        /\ AtBarrier(c, v)
        /\ threadsense' = [threadsense EXCEPT ![c][v] = ~@]
        /\ count' = [count EXCEPT ![v] = @ + 1]
        /\ Goto(c, IF count[v] = nc - 1 THEN "last" ELSE "spin")
  BY DEF Arrive
<1>3. /\ nc \in Nat \ {0} /\ pc \in [Cores -> Nat \ {0}]
      /\ phase \in [Cores -> {"ready", "loaded"} \cup Waiting]
      /\ count \in [Units -> Nat] /\ sense \in [Units -> BOOLEAN]
      /\ threadsense \in [Cores -> [Units -> BOOLEAN]]
  BY <1>1 DEF BarrierTypeOK
<1>4. /\ prog' = prog /\ nc' = nc /\ pc' = pc /\ sense' = sense
      /\ phase[c] = "ready"
  BY DEF Arrive, Machine
<1>5. /\ phase' \in [Cores -> {"ready", "loaded"} \cup Waiting]
      /\ phase'[c] = IF count[v] = nc - 1 THEN "last" ELSE "spin"
      /\ \A d \in Cores : d # c => phase'[d] = phase[d]
  BY <1>2, <1>3 DEF Goto, Waiting
<1>6. /\ \A d \in Cores, u \in Units : d # c \/ u # v => threadsense'[d][u] = threadsense[d][u]
      /\ threadsense'[c][v] = ~threadsense[c][v]
      /\ threadsense' \in [Cores -> [Units -> BOOLEAN]]
  BY <1>2, <1>3
<1>7. /\ count' \in [Units -> Nat] /\ count'[v] = count[v] + 1
      /\ \A u \in Units : u # v => count'[u] = count[u]
  BY <1>2, <1>3
<1>8. Moves(c) /\ Cores' = Cores
  BY <1>3, <1>4, <1>5 DEF Moves, Cores
<1>9. BarrierTypeOK'
  BY <1>3, <1>4, <1>5, <1>6, <1>7, <1>8 DEF BarrierTypeOK
<1>10. InBarrier'
  BY <1>1, <1>2, <1>4, <1>8, StillInBarrier
<1>11. ASSUME NEW u \in Units, u # v, NEW r \in Nat, Round(u, r)
       PROVE  Round(u, r)'
  BY <1>1, <1>2, <1>4, <1>6, <1>7, <1>8, <1>11, OtherUnit, SameRound
<1>12. ASSUME NEW r \in Nat, Round(v, r)
       PROVE  Round(v, r)'
  <2>1. ~Waits(c, v) /\ threadsense[c][v] = sense[v] /\ Left(c, v) = r /\ c \notin Fresh(v)
    BY <1>4, <1>12 DEF Waits, Waiting, Round, Fresh
  <2>2. \A d \in Cores : Waits(d, v) => phase[d] = "spin"
    BY <1>12, <2>1 DEF Round, Waits, Waiting
  <2>3. count[v] = Cardinality(Fresh(v))
    BY <1>12, <2>2 DEF Round
  <2>4. threadsense'[c][v] # sense'[v] /\ Waits(c, v)'
    <3>1. threadsense[c][v] \in BOOLEAN
      BY <1>3
    <3>2. (~threadsense[c][v]) # threadsense[c][v]
      BY <3>1, TwoSenses
    <3>3. AtBarrier(c, v)'
      BY <1>1, <1>2, <1>4, <1>8, MovesLemma
    <3> QED
      BY <1>4, <1>5, <1>6, <2>1, <3>2, <3>3 DEF Waits, Waiting
  <2>5. \A d \in Cores : d # c =>
          /\ Waits(d, v)' <=> Waits(d, v)
          /\ threadsense'[d][v] = threadsense[d][v] /\ phase'[d] = phase[d]
    BY <1>1, <1>5, <1>6, <1>8, MovesLemma
  <2>6. \A d \in Cores : Left(d, v)' = Left(d, v)
    BY <1>1, <1>4, <1>8, MovesLemma
  <2>7. Fresh(v)' = Fresh(v) \cup {c}
    BY <1>4, <1>8, <2>4, <2>5 DEF Fresh
  <2>8. IsFiniteSet(Fresh(v)) /\ Fresh(v) \in SUBSET Cores
    BY <1>3, FewCores, FS_Subset DEF Fresh
  <2>9. Cardinality(Fresh(v)') = Cardinality(Fresh(v)) + 1
    BY <2>1, <2>7, <2>8, FS_AddElement
  <2>10. phase'[c] = "last" => \A d \in Cores : d \in Fresh(v)' /\ (d # c => phase'[d] = "spin")
    <3> SUFFICES ASSUME phase'[c] = "last"
                 PROVE  \A d \in Cores : d \in Fresh(v)' /\ (d # c => phase'[d] = "spin")
      OBVIOUS
    <3>1. Cardinality(Fresh(v)') = nc
      BY <1>3, <1>5, <2>3, <2>9
    <3>2. Fresh(v)' \in SUBSET Cores
      BY <2>7, <2>8
    <3>3. Fresh(v)' = Cores
      BY <1>3, <3>1, <3>2, FewCores, FS_Subset
    <3>4. \A d \in Cores : d # c => Waits(d, v)
      BY <2>7, <3>3 DEF Fresh
    <3> QED
      BY <2>2, <2>5, <3>3, <3>4
  <2>11. /\ \A d \in Cores : threadsense'[d][v] # sense'[v] => Waits(d, v)'
         /\ \A d \in Cores : Waits(d, v)' /\ threadsense'[d][v] = sense'[v] =>
              phase'[d] = "spin" /\ Left(d, v)' = r - 1
         /\ \A d \in Cores : ~(Waits(d, v)' /\ threadsense'[d][v] = sense'[v]) => Left(d, v)' = r
    BY <1>4, <1>12, <2>1, <2>4, <2>5, <2>6 DEF Round
  <2>12. \A e \in Cores : Waits(e, v)' /\ phase'[e] \in {"last", "release"} =>
           \A d \in Cores : d \in Fresh(v)' /\ (d # e => phase'[d] = "spin")
    <3> SUFFICES ASSUME NEW e \in Cores, Waits(e, v)', phase'[e] \in {"last", "release"}
                 PROVE  e = c /\ phase'[e] = "last"
      BY <2>10
    <3> QED
      BY <1>5, <2>2, <2>5
  <2>13. /\ ~\E d \in Cores : Waits(d, v)' /\ phase'[d] = "release"
         /\ count'[v] = Cardinality(Fresh(v)')
    BY <1>5, <1>7, <2>2, <2>3, <2>5, <2>9
  <2>14. Fresh(v)' = Cores => phase'[c] \in {"last", "release"}
    <3>1. Fresh(v)' = Cores => count[v] = nc - 1
      BY <1>3, <2>3, <2>8, <2>9, FewCores, FS_CardinalityType
    <3> QED
      BY <1>5, <3>1
  <2> QED
    BY <1>8, <2>11, <2>12, <2>13, <2>14 DEF Round
<1>13. Rounds'
  BY <1>1, <1>11, <1>12 DEF Rounds
<1> QED
  BY <1>9, <1>10, <1>13 DEF IInv

LEMMA ResetStep ==
  ASSUME IInv, NEW c \in Cores, ResetCount(c)
  PROVE  IInv'
<1>1. BarrierTypeOK /\ InBarrier /\ Rounds
  BY DEF IInv
<1>2. PICK v \in Units : AtBarrier(c, v)
  BY <1>1 DEF ResetCount, InBarrier, Waiting
<1>3. /\ nc \in Nat \ {0} /\ pc \in [Cores -> Nat \ {0}]
      /\ phase \in [Cores -> {"ready", "loaded"} \cup Waiting]
      /\ count \in [Units -> Nat] /\ sense \in [Units -> BOOLEAN]
      /\ threadsense \in [Cores -> [Units -> BOOLEAN]]
  BY <1>1 DEF BarrierTypeOK
<1>4. /\ prog' = prog /\ nc' = nc /\ pc' = pc /\ sense' = sense /\ threadsense' = threadsense
      /\ phase[c] = "last" /\ phase' = [phase EXCEPT ![c] = "release"]
      /\ count' = [count EXCEPT ![v] = 0]
  BY <1>2 DEF ResetCount, Machine, Goto, AtBarrier, IsBarrier
<1>5. /\ phase' \in [Cores -> {"ready", "loaded"} \cup Waiting]
      /\ phase'[c] = "release"
      /\ \A d \in Cores : d # c => phase'[d] = phase[d]
  BY <1>3, <1>4 DEF Waiting
<1>6. /\ count' \in [Units -> Nat] /\ count'[v] = 0
      /\ \A u \in Units : u # v => count'[u] = count[u]
  BY <1>3, <1>4
<1>7. Moves(c) /\ Cores' = Cores
  BY <1>3, <1>4, <1>5 DEF Moves, Cores
<1>8. BarrierTypeOK'
  BY <1>3, <1>4, <1>5, <1>6, <1>7 DEF BarrierTypeOK
<1>9. InBarrier'
  BY <1>1, <1>2, <1>4, <1>7, StillInBarrier
<1>10. ASSUME NEW u \in Units, u # v, NEW r \in Nat, Round(u, r)
       PROVE  Round(u, r)'
  BY <1>1, <1>2, <1>4, <1>6, <1>7, <1>10, OtherUnit, SameRound
<1>11. ASSUME NEW r \in Nat, Round(v, r)
       PROVE  Round(v, r)'
  <2>1. Waits(c, v) /\ Waits(c, v)'
    <3>1. AtBarrier(c, v)'
      BY <1>1, <1>2, <1>4, <1>7, MovesLemma
    <3> QED
      BY <1>2, <1>4, <1>5, <3>1 DEF Waits, Waiting
  <2>2. \A d \in Cores : /\ Waits(d, v)' <=> Waits(d, v)
                         /\ Left(d, v)' = Left(d, v)
    BY <1>1, <1>4, <1>7, <2>1, MovesLemma
  <2>3. Fresh(v)' = Fresh(v)
    BY <1>4, <1>7, <2>2 DEF Fresh
  <2>4. \A d \in Cores : d \in Fresh(v) /\ (d # c => phase'[d] = "spin")
    BY <1>4, <1>5, <1>11, <2>1 DEF Round
  <2>5. \A d \in Cores : Waits(d, v) /\ threadsense[d][v] # sense[v]
    BY <2>4 DEF Fresh
  <2>6. /\ \A d \in Cores : threadsense'[d][v] # sense'[v] => Waits(d, v)'
        /\ \A d \in Cores : Waits(d, v)' /\ threadsense'[d][v] = sense'[v] =>
             phase'[d] = "spin" /\ Left(d, v)' = r - 1
        /\ \A d \in Cores : ~(Waits(d, v)' /\ threadsense'[d][v] = sense'[v]) => Left(d, v)' = r
    BY <1>4, <1>11, <2>2, <2>5 DEF Round
  <2>7. \A e \in Cores : Waits(e, v)' /\ phase'[e] \in {"last", "release"} =>
          \A d \in Cores : d \in Fresh(v)' /\ (d # e => phase'[d] = "spin")
    <3> SUFFICES ASSUME NEW e \in Cores, phase'[e] \in {"last", "release"}
                 PROVE  e = c
      BY <2>3, <2>4
    <3> QED
      BY <2>4
  <2>8. /\ \E d \in Cores : Waits(d, v)' /\ phase'[d] = "release"
        /\ count'[v] = 0
    BY <1>5, <1>6, <2>1
  <2>9. phase'[c] \in {"last", "release"}
    BY <1>5
  <2> QED
    BY <1>7, <2>6, <2>7, <2>8, <2>9 DEF Round
<1>12. Rounds'
  BY <1>1, <1>10, <1>11 DEF Rounds
<1> QED
  BY <1>8, <1>9, <1>12 DEF IInv

LEMMA ReleaseStep ==
  ASSUME IInv, NEW c \in Cores, Release(c)
  PROVE  IInv'
<1>1. BarrierTypeOK /\ InBarrier /\ Rounds
  BY DEF IInv
<1>2. PICK v \in Units : AtBarrier(c, v)
  BY <1>1 DEF Release, InBarrier, Waiting
<1>3. /\ nc \in Nat \ {0} /\ pc \in [Cores -> Nat \ {0}]
      /\ phase \in [Cores -> {"ready", "loaded"} \cup Waiting]
      /\ count \in [Units -> Nat] /\ sense \in [Units -> BOOLEAN]
      /\ threadsense \in [Cores -> [Units -> BOOLEAN]]
  BY <1>1 DEF BarrierTypeOK
<1>4. /\ prog' = prog /\ nc' = nc /\ count' = count /\ threadsense' = threadsense
      /\ phase[c] = "release" /\ phase' = [phase EXCEPT ![c] = "ready"]
      /\ pc' = [pc EXCEPT ![c] = pc[c] + 1]
      /\ sense' = [sense EXCEPT ![v] = threadsense[c][v]]
  BY <1>2 DEF Release, Machine, Goto, Done, AtBarrier, IsBarrier
<1>5. /\ phase' \in [Cores -> {"ready", "loaded"} \cup Waiting]
      /\ phase'[c] = "ready"
      /\ \A d \in Cores : d # c => phase'[d] = phase[d]
  BY <1>3, <1>4
<1>6. /\ sense' \in [Units -> BOOLEAN] /\ sense'[v] = threadsense[c][v]
      /\ \A u \in Units : u # v => sense'[u] = sense[u]
  BY <1>3, <1>4
<1>7. Moves(c) /\ Cores' = Cores
  BY <1>3, <1>4, <1>5 DEF Moves, Cores
<1>8. BarrierTypeOK'
  BY <1>3, <1>4, <1>5, <1>6, <1>7 DEF BarrierTypeOK, Moves
<1>9. phase'[c] \notin Waiting
  BY <1>5 DEF Waiting
<1>10. InBarrier'
  BY <1>1, <1>2, <1>7, <1>9, StillInBarrier
<1>11. ASSUME NEW u \in Units, u # v, NEW r \in Nat, Round(u, r)
       PROVE  Round(u, r)'
  BY <1>1, <1>2, <1>4, <1>6, <1>7, <1>9, <1>11, OtherUnit, SameRound
(* All the others wait for the release, which ends round r. *)
<1>12. ASSUME NEW r \in Nat, Round(v, r)
       PROVE  Round(v, r + 1)'
  <2>1. Waits(c, v) /\ ~Waits(c, v)'
    BY <1>2, <1>4, <1>9 DEF Waits, Waiting
  <2>2. \A d \in Cores : d \in Fresh(v) /\ (d # c => phase[d] = "spin")
    BY <1>4, <1>12, <2>1 DEF Round
  <2>3. \A d \in Cores : Waits(d, v) /\ threadsense[d][v] # sense[v]
    BY <2>2 DEF Fresh
  <2>4. \A d \in Cores : threadsense'[d][v] = sense'[v]
    <3> SUFFICES ASSUME NEW d \in Cores
                 PROVE  threadsense[d][v] = threadsense[c][v]
      BY <1>4, <1>6
    <3>1. threadsense[d][v] \in BOOLEAN /\ threadsense[c][v] \in BOOLEAN /\ sense[v] \in BOOLEAN
      BY <1>3
    <3> QED
      BY <2>3, <3>1, TwoSenses
  <2>5. \A d \in Cores : Left(d, v) = r
    BY <1>12, <2>3 DEF Round
  <2>6. Left(c, v)' = r + 1
    <3>1. pc'[c] # pc[c]
      BY <1>3, <1>4
    <3> QED
      BY <1>1, <1>2, <1>7, <2>5, <3>1, MovesLemma
  <2>7. \A d \in Cores : d # c => Waits(d, v)' /\ phase'[d] = "spin" /\ Left(d, v)' = r
    BY <1>1, <1>5, <1>7, <2>2, <2>3, <2>5, MovesLemma DEF Moves
  <2>8. /\ Fresh(v)' = {} /\ Cardinality(Fresh(v)') = 0
    <3>1. Fresh(v)' = {}
      BY <1>7, <2>4 DEF Fresh
    <3> QED
      BY <3>1, FS_EmptySet
  <2>9. count'[v] = 0
    BY <1>4, <1>12, <2>1 DEF Round
  <2>10. /\ \A d \in Cores : threadsense'[d][v] # sense'[v] => Waits(d, v)'
         /\ \A d \in Cores : Waits(d, v)' /\ threadsense'[d][v] = sense'[v] =>
              phase'[d] = "spin" /\ Left(d, v)' = (r + 1) - 1
         /\ \A d \in Cores : ~(Waits(d, v)' /\ threadsense'[d][v] = sense'[v]) =>
              Left(d, v)' = r + 1
    BY <2>1, <2>4, <2>6, <2>7
  <2>11. \A d \in Cores : ~(Waits(d, v)' /\ phase'[d] \in {"last", "release"})
    BY <2>1, <2>7
  <2>12. Fresh(v)' # Cores
    BY <2>8
  <2> QED
    BY <1>7, <2>8, <2>9, <2>10, <2>11, <2>12 DEF Round
<1>13. Rounds'
  <2> SUFFICES ASSUME NEW u \in Units
               PROVE  \E r \in Nat : Round(u, r)'
    BY DEF Rounds
  <2>1. PICK r \in Nat : Round(u, r)
    BY <1>1 DEF Rounds
  <2>2. r + 1 \in Nat
    OBVIOUS
  <2> QED
    BY <1>11, <1>12, <2>1, <2>2
<1> QED
  BY <1>8, <1>10, <1>13 DEF IInv

LEMMA LeaveStep ==
  ASSUME IInv, NEW c \in Cores, Leave(c)
  PROVE  IInv'
<1>1. BarrierTypeOK /\ InBarrier /\ Rounds
  BY DEF IInv
<1>2. PICK v \in Units : AtBarrier(c, v)
  BY <1>1 DEF Leave, InBarrier, Waiting
<1>3. /\ nc \in Nat \ {0} /\ pc \in [Cores -> Nat \ {0}]
      /\ phase \in [Cores -> {"ready", "loaded"} \cup Waiting]
  BY <1>1 DEF BarrierTypeOK
<1>4. /\ prog' = prog /\ nc' = nc /\ UNCHANGED Senses
      /\ phase[c] = "spin" /\ phase' = [phase EXCEPT ![c] = "ready"]
      /\ pc' = [pc EXCEPT ![c] = pc[c] + 1]
      /\ threadsense[c][v] = sense[v]
  BY <1>2 DEF Leave, Machine, Goto, Done, AtBarrier, IsBarrier
<1>5. /\ phase' \in [Cores -> {"ready", "loaded"} \cup Waiting]
      /\ phase'[c] = "ready"
      /\ \A d \in Cores : d # c => phase'[d] = phase[d]
  BY <1>3, <1>4
<1>6. count' = count /\ sense' = sense /\ threadsense' = threadsense
  BY <1>4 DEF Senses
<1>7. Moves(c) /\ Cores' = Cores
  BY <1>3, <1>4, <1>5 DEF Moves, Cores
<1>8. BarrierTypeOK'
  BY <1>1, <1>4, <1>5, <1>6, <1>7 DEF BarrierTypeOK, Moves
<1>9. phase'[c] \notin Waiting
  BY <1>5 DEF Waiting
<1>10. InBarrier'
  BY <1>1, <1>2, <1>7, <1>9, StillInBarrier
<1>11. ASSUME NEW u \in Units, u # v, NEW r \in Nat, Round(u, r)
       PROVE  Round(u, r)'
  BY <1>1, <1>2, <1>6, <1>7, <1>9, <1>11, OtherUnit, SameRound
<1>12. ASSUME NEW r \in Nat, Round(v, r)
       PROVE  Round(v, r)'
  <2>1. Waits(c, v) /\ ~Waits(c, v)'
    BY <1>2, <1>4, <1>9 DEF Waits, Waiting
  <2>2. Left(c, v)' = r
    <3>1. pc'[c] # pc[c] /\ Left(c, v) = r - 1
      BY <1>3, <1>4, <1>12, <2>1 DEF Round
    <3> QED
      BY <1>1, <1>2, <1>7, <3>1, MovesLemma
  <2>3. \A d \in Cores : d # c => /\ Waits(d, v)' <=> Waits(d, v)
                                  /\ Left(d, v)' = Left(d, v) /\ phase'[d] = phase[d]
    BY <1>1, <1>5, <1>7, MovesLemma DEF Moves
  <2>4. Fresh(v)' = Fresh(v) /\ c \notin Fresh(v)
    BY <1>4, <1>6, <1>7, <2>1, <2>3 DEF Fresh
  <2>5. \A d \in Cores : Waits(d, v) => phase[d] = "spin"
    BY <1>12, <2>4 DEF Round, Waits, Waiting
  <2>6. /\ \A d \in Cores : threadsense'[d][v] # sense'[v] => Waits(d, v)'
        /\ \A d \in Cores : Waits(d, v)' /\ threadsense'[d][v] = sense'[v] =>
             phase'[d] = "spin" /\ Left(d, v)' = r - 1
        /\ \A d \in Cores : ~(Waits(d, v)' /\ threadsense'[d][v] = sense'[v]) => Left(d, v)' = r
    BY <1>4, <1>6, <1>12, <2>1, <2>2, <2>3 DEF Round
  <2>7. \A d \in Cores : ~(Waits(d, v)' /\ phase'[d] \in {"last", "release"})
    BY <2>1, <2>3, <2>5
  <2>8. count'[v] = Cardinality(Fresh(v))
    BY <1>6, <1>12, <2>5 DEF Round
  <2>9. Fresh(v)' # Cores
    BY <2>4
  <2> QED
    BY <1>7, <2>4, <2>6, <2>7, <2>8, <2>9 DEF Round
<1>13. Rounds'
  BY <1>1, <1>11, <1>12 DEF Rounds
<1> QED
  BY <1>8, <1>10, <1>13 DEF IInv

-----------------------------------------------------------------------------
LEMMA InvariantCorrect == Spec => []IInv
<1>1. Init => IInv
  <2> SUFFICES ASSUME Init
               PROVE  IInv
    OBVIOUS
  <2>1. nc \in Nat \ {0} /\ pc = [c \in Cores |-> 1] /\ phase = [c \in Cores |-> "ready"]
    BY SizeAssumption DEF Init
  <2>2. /\ count = [u \in Units |-> 0] /\ sense = [u \in Units |-> FALSE]
        /\ threadsense = [c \in Cores |-> [u \in Units |-> FALSE]]
    BY DEF Init
  <2>3. BarrierTypeOK
    BY <2>1, <2>2 DEF BarrierTypeOK
  <2>4. InBarrier
    BY <2>1 DEF InBarrier, Waiting
  <2>5. ASSUME NEW u \in Units
        PROVE  Round(u, 0)
    <3>1. \A c \in Cores : threadsense[c][u] = sense[u] /\ ~Waits(c, u)
      BY <2>1, <2>2 DEF Waits, Waiting
    <3>2. Fresh(u) = {}
      BY <3>1 DEF Fresh
    <3>3. Cardinality(Fresh(u)) = 0 /\ count[u] = 0 /\ Fresh(u) # Cores
      <4>1. 0 \in Cores
        BY <2>1 DEF Cores
      <4> QED
        BY <2>2, <3>2, <4>1, FS_EmptySet
    <3>4. ASSUME NEW c \in Cores
          PROVE  Left(c, u) = 0
      <4>1. pc[c] = 1
        BY <2>1
      <4> DEFINE ops == Code[prog][nc][c]
      <4>2. {t \in 1 .. pc[c] - 1 : ops[t].do = "barrier" /\ ops[t].from = u} = {}
        BY <4>1
      <4> QED
        BY <4>2, FS_EmptySet DEF Left, Before, IsBarrier
    <3> QED
      BY <3>1, <3>3, <3>4 DEF Round
  <2> QED
    BY <2>3, <2>4, <2>5 DEF IInv, Rounds
<1>2. IInv /\ [Next]_vars => IInv'
  <2> SUFFICES ASSUME IInv, [Next]_vars
               PROVE  IInv'
    OBVIOUS
  <2>1. ASSUME NEW c \in Cores, Step(c), ~GoesAstray(c)
        PROVE  IInv'
    <3>1. CASE Working(c)
      BY <3>1, WorkingIsQuiet, QuietStep DEF IInv
    <3>2. CASE Arrive(c)
      BY <3>2, ArriveStep
    <3>3. CASE ResetCount(c)
      BY <3>3, ResetStep
    <3>4. CASE Release(c)
      BY <3>4, ReleaseStep
    <3>5. CASE Leave(c)
      BY <3>5, LeaveStep
    <3> QED
      BY <2>1, <3>1, <3>2, <3>3, <3>4, <3>5 DEF Step, Working
  <2>2. CASE UNCHANGED vars \/ \E c \in Cores : GoesAstray(c)
    <3>1. /\ nc' = nc /\ prog' = prog /\ pc' = pc /\ phase' = phase
          /\ count' = count /\ sense' = sense /\ threadsense' = threadsense
      BY <2>2 DEF vars, GoesAstray, Machine, Senses
    <3>2. BarrierTypeOK' /\ InBarrier'
      BY <3>1 DEF IInv, BarrierTypeOK, InBarrier, AtBarrier, IsBarrier, At, Cores
    <3>3. ASSUME NEW u \in Units
          PROVE  Same(u)
      <4>1. \A d \in Cores : Left(d, u)' = Left(d, u)
        BY <3>1, LeftStep DEF IInv, BarrierTypeOK
      <4> QED
        BY <3>1, <4>1 DEF Same, Waits, AtBarrier, IsBarrier, At
    <3> QED
      BY <3>2, <3>3, SameRound DEF IInv, Rounds
  <2> QED
    BY <2>1, <2>2 DEF Next, Halted
<1> QED
  BY <1>1, <1>2, PTL DEF Spec

(* util.h's barrier, with its count and its sense used again at once, lets *)
(* no core out before all have entered, for any number of cores and any    *)
(* programs.                                                               *)
THEOREM BarrierCorrect == Spec => []BarrierSeparates
<1>1. IInv => BarrierSeparates
  <2> SUFFICES ASSUME IInv, NEW c \in Cores, NEW d \in Cores, NEW u \in Units
               PROVE  Left(c, u) <= Entered(d, u)
    BY DEF BarrierSeparates
  <2>1. PICK r \in Nat : Round(u, r)
    BY DEF IInv, Rounds
  <2>2. Left(c, u) \in {r, r - 1}
    BY <2>1 DEF Round
  <2>3. CASE Waits(d, u)
    <3>1. Left(d, u) \in {r, r - 1} /\ Entered(d, u) = Left(d, u) + 1
      BY <2>1, <2>3 DEF Round, Waits, Waiting, Entered
    <3> QED
      BY <2>2, <3>1
  <2>4. CASE ~Waits(d, u)
    <3>1. Left(d, u) = r /\ Entered(d, u) = Left(d, u) + 0
      BY <2>1, <2>4 DEF Round, Waits, Waiting, Entered
    <3> QED
      BY <2>2, <3>1
  <2> QED
    BY <2>3, <2>4
<1> QED
  BY <1>1, InvariantCorrect, PTL

(* No release is lost and no core is left behind: when all cores are in    *)
(* the barrier of one unit, one of them is about to release it or sees     *)
(* that it has been released.                                              *)
NoLostRelease ==
  \A u \in Units : (\A c \in Cores : Waits(c, u)) =>
    \E c \in Cores : phase[c] \in {"last", "release"} \/ threadsense[c][u] = sense[u]

(* count finds the last core in every round of util.h's barrier, although  *)
(* it is reset while cores of the round are still on their way out.        *)
THEOREM ReleaseCorrect == Spec => []NoLostRelease
<1>1. IInv => NoLostRelease
  <2> SUFFICES ASSUME IInv, NEW u \in Units, \A c \in Cores : Waits(c, u)
               PROVE  \E c \in Cores : \/ phase[c] \in {"last", "release"}
                                       \/ threadsense[c][u] = sense[u]
    BY DEF NoLostRelease
  <2>1. CASE Fresh(u) = Cores
    BY <2>1 DEF IInv, Rounds, Round
  <2>2. CASE Fresh(u) # Cores
    BY <2>2 DEF Fresh
  <2> QED
    BY <2>1, <2>2
<1> QED
  BY <1>1, InvariantCorrect, PTL

-----------------------------------------------------------------------------
(* Where the cores are in their programs: at one of their operations, and  *)
(* at the exit when they have exited with 0.                               *)
Positions ==
  /\ prog \in Programs /\ nc \in 1 .. MaxCores
  /\ \A c \in Cores : pc[c] \in DOMAIN Code[prog][nc][c]
  /\ exited \in [Cores -> {"no", "passed", "failed", "astray"}]
  /\ \A c \in Cores : exited[c] = "passed" => At(c).do = "exit"

LEMMA CodeFacts ==
  ASSUME prog \in Programs, nc \in 1 .. MaxCores, NEW c \in Cores
  PROVE  LET ops == Code[prog][nc][c]
         IN  Len(ops) \in Nat \ {0} /\ DOMAIN ops = 1 .. Len(ops) /\ ops[Len(ops)].do = "exit"
BY BarrierAssumption DEF SameBarriers, EndsWithExit, Cores

(* A core that goes on was not at its exit, which is the last operation.   *)
LEMMA PositionsStep ==
  ASSUME BarrierTypeOK, InBarrier, Positions, NEW c \in Cores, Step(c)
  PROVE  Positions'
<1>1. prog' = prog /\ nc' = nc /\ Cores' = Cores
  BY DEF Step, PutSum, LoadOld, StoreNew, CopyB, Arrive, ResetCount, Release, Leave,
         VerifyResult, ExitZero, GoesAstray, Machine, Cores
<1>2. exited[c] = "no" /\ exited \in [Cores -> {"no", "passed", "failed", "astray"}]
  BY DEF Step, Running, Positions
<1>3. \/ pc' = pc
      \/ pc' = [pc EXCEPT ![c] = pc[c] + 1] /\ At(c).do # "exit" /\ exited' = exited
  <2>1. CASE Release(c) \/ Leave(c)
    <3>1. phase[c] \in Waiting
      BY <2>1 DEF Release, Leave, Waiting
    <3>2. At(c).do = "barrier"
      BY <3>1 DEF InBarrier, AtBarrier, IsBarrier
    <3> QED
      BY <2>1, <3>2 DEF Release, Leave, Done
  <2>2. CASE Arrive(c) \/ ResetCount(c) \/ ExitZero(c) \/ GoesAstray(c)
    BY <2>2 DEF Arrive, ResetCount, ExitZero, GoesAstray
  <2>3. CASE PutSum(c) \/ LoadOld(c) \/ StoreNew(c) \/ CopyB(c) \/ VerifyResult(c)
    BY <2>3 DEF PutSum, LoadOld, StoreNew, CopyB, VerifyResult, Done
  <2> QED
    BY <2>1, <2>2, <2>3 DEF Step
<1>4. \/ exited' = exited
      \/ /\ exited' \in { [exited EXCEPT ![c] = e] : e \in {"failed", "passed", "astray"} }
         /\ exited'[c] = "passed" => At(c).do = "exit"
         /\ pc' = pc
  <2>1. CASE VerifyResult(c)
    BY <1>2, <2>1 DEF VerifyResult
  <2>2. CASE ExitZero(c) \/ GoesAstray(c)
    BY <1>2, <2>2 DEF ExitZero, GoesAstray
  <2> QED
    BY <2>1, <2>2 DEF Step, PutSum, LoadOld, StoreNew, CopyB, Arrive, ResetCount, Release, Leave
<1>5. exited' \in [Cores -> {"no", "passed", "failed", "astray"}]
  BY <1>2, <1>4
<1>6. pc \in [Cores -> Nat \ {0}]
  BY DEF BarrierTypeOK
<1>7. ASSUME NEW d \in Cores
      PROVE  /\ pc'[d] \in DOMAIN Code[prog][nc][d]
             /\ exited'[d] = "passed" => At(d)'.do = "exit"
  <2>1. pc[d] \in DOMAIN Code[prog][nc][d] /\ (exited[d] = "passed" => At(d).do = "exit")
    BY DEF Positions
  <2>2. CASE pc'[d] = pc[d]
    <3>1. At(d)' = At(d)
      BY <1>1, <2>2 DEF At
    <3>2. exited'[d] = exited[d] \/ d = c
      BY <1>2, <1>4
    <3>3. d = c /\ exited'[c] = "passed" => At(c).do = "exit"
      BY <1>2, <1>4
    <3> QED
      BY <2>1, <2>2, <3>1, <3>2, <3>3
  <2>3. CASE pc'[d] # pc[d]
    <3>1. d = c /\ pc'[c] = pc[c] + 1 /\ At(c).do # "exit" /\ exited'[c] = "no"
      BY <1>2, <1>3, <1>6, <2>3
    <3> DEFINE ops == Code[prog][nc][c]
    <3>2. Len(ops) \in Nat \ {0} /\ DOMAIN ops = 1 .. Len(ops) /\ ops[Len(ops)].do = "exit"
      BY CodeFacts DEF Positions
    <3>3. At(c) = ops[pc[c]]
      BY DEF At
    <3> HIDE DEF ops
    <3>4. pc[c] # Len(ops)
      BY <3>1, <3>2, <3>3
    <3>5. pc[c] + 1 \in 1 .. Len(ops)
      BY <2>1, <3>1, <3>2, <3>4 DEF ops
    <3> QED
      BY <3>1, <3>2, <3>5 DEF ops
  <2> QED
    BY <2>2, <2>3
<1> QED
  BY <1>1, <1>5, <1>7 DEF Positions

LEMMA PositionsHold == Spec => []Positions
<1>1. Init => Positions
  <2> SUFFICES ASSUME Init
               PROVE  Positions
    OBVIOUS
  <2>1. /\ prog \in Programs /\ nc \in 1 .. MaxCores
        /\ pc = [c \in Cores |-> 1] /\ exited = [c \in Cores |-> "no"]
    BY DEF Init
  <2>2. \A c \in Cores : 1 \in DOMAIN Code[prog][nc][c]
    BY <2>1, CodeFacts
  <2> QED
    BY <2>1, <2>2 DEF Positions
<1>2. IInv /\ Positions /\ [Next]_vars => Positions'
  <2> SUFFICES ASSUME IInv, Positions, [Next]_vars
               PROVE  Positions'
    OBVIOUS
  <2>1. ASSUME NEW c \in Cores, Step(c)
        PROVE  Positions'
    BY <2>1, PositionsStep DEF IInv
  <2>2. CASE UNCHANGED vars
    BY <2>2 DEF vars, Positions, At, Cores
  <2> QED
    BY <2>1, <2>2 DEF Next, Halted
<1> QED
  BY <1>1, <1>2, InvariantCorrect, PTL DEF Spec

(* A core that has exited, or waits in the other unit's barrier, is one    *)
(* that the barrier of u does not wait for.                                *)
LEMMA NotWaitedFor ==
  ASSUME IInv, Positions, NEW c \in Cores, NEW u \in Units,
         Waits(c, u), threadsense[c][u] # sense[u], NEW d \in Cores
  PROVE  /\ At(d).do # "exit"
         /\ \A v \in Units : v # u /\ Waits(d, v) => threadsense[d][v] = sense[v]
<1> DEFINE mine == Code[prog][nc][c]
           its  == Code[prog][nc][d]
<1>1. /\ pc[c] \in DOMAIN mine /\ pc[d] \in DOMAIN its
      /\ prog \in Programs /\ nc \in 1 .. MaxCores
  BY DEF Positions
<1>2. /\ IsBarrier(mine[pc[c]], u) /\ At(d) = its[pc[d]]
      /\ \A w \in Units : Left(c, w) = Before(mine, w, pc[c]) /\ Left(d, w) = Before(its, w, pc[d])
  BY DEF Waits, AtBarrier, At, Left
<1>3. /\ \A v \in Units \ {u} : IsBarrier(its[pc[d]], v) =>
           \E w \in Units : Before(mine, w, pc[c]) # Before(its, w, pc[d])
      /\ its[pc[d]].do = "exit" => Before(mine, u, pc[c]) < Before(its, u, pc[d])
  <2>1. SameOrder(mine, its)
    BY <1>1, BarrierAssumption DEF SameBarriers, Cores
  <2> HIDE DEF mine, its
  <2> QED
    BY <1>1, <1>2, <2>1 DEF SameOrder
<1> HIDE DEF mine, its
<1>4. \A w \in Units : \E r \in Nat : Round(w, r)
  BY DEF IInv, Rounds
<1>5. PICK r \in Nat : Round(u, r)
  BY <1>4
<1>6. Left(c, u) = r
  BY <1>5 DEF Round
<1>7. At(d).do # "exit"
  <2> SUFFICES ASSUME At(d).do = "exit"
               PROVE  FALSE
    OBVIOUS
  <2>1. ~Waits(d, u)
    BY DEF Waits, AtBarrier, IsBarrier
  <2>2. Left(d, u) = r
    BY <1>5, <2>1 DEF Round
  <2>3. Left(c, u) < Left(d, u)
    BY <1>2, <1>3
  <2> QED
    BY <1>6, <2>2, <2>3
<1>8. ASSUME NEW v \in Units, v # u, Waits(d, v), threadsense[d][v] # sense[v]
      PROVE  FALSE
  <2>1. PICK q \in Nat : Round(v, q)
    BY <1>4
  <2>2. ~Waits(d, u) /\ ~Waits(c, v)
    BY <1>8 DEF Waits, AtBarrier, IsBarrier
  <2>3. Left(d, u) = r /\ Left(d, v) = q /\ Left(c, v) = q
    BY <1>5, <1>8, <2>1, <2>2 DEF Round
  <2>4. PICK w \in Units : Left(c, w) # Left(d, w)
    BY <1>2, <1>3, <1>8 DEF Waits, AtBarrier
  <2>5. w = u \/ w = v
    BY <1>8 DEF Units
  <2> QED
    BY <1>6, <2>3, <2>4, <2>5
<1> QED
  BY <1>7, <1>8

(* As long as no core has exited from a failed verification, the cores     *)
(* never all wait in util.h's barriers for a core that is not coming:      *)
(* every thread_entry calls the barriers in the same order on every core.  *)
THEOREM NoneWaitsForeverCorrect ==
  Spec => []((\A c \in Cores : exited[c] # "failed") => NoneWaitsForever)
<1>1. IInv /\ Positions => ((\A c \in Cores : exited[c] # "failed") => NoneWaitsForever)
  <2> SUFFICES ASSUME IInv, Positions, \A c \in Cores : exited[c] # "failed", ~Astray,
                      NEW e \in Cores, Running(e),
                      \A c \in Cores : Running(c) =>
                        phase[c] = "spin" /\ sense[At(c).from] # threadsense[c][At(c).from]
               PROVE  FALSE
    BY DEF NoneWaitsForever
  <2>1. ASSUME NEW c \in Cores, Running(c)
        PROVE  \E u \in Units : Waits(c, u) /\ threadsense[c][u] # sense[u]
    <3>1. PICK u \in Units : AtBarrier(c, u)
      BY <2>1 DEF IInv, InBarrier, Waiting
    <3>2. At(c).from = u
      BY <3>1 DEF AtBarrier, IsBarrier
    <3> QED
      BY <2>1, <3>1, <3>2 DEF Waits, Waiting
  <2>2. PICK u \in Units : Waits(e, u) /\ threadsense[e][u] # sense[u]
    BY <2>1
  <2>3. ASSUME NEW d \in Cores
        PROVE  Running(d) /\ Waits(d, u) /\ threadsense[d][u] # sense[u]
    <3>1. At(d).do # "exit"
      BY <2>2, NotWaitedFor
    <3>2. Running(d)
      BY <3>1 DEF Positions, Running, Astray
    <3>3. PICK v \in Units : Waits(d, v) /\ threadsense[d][v] # sense[v]
      BY <2>1, <3>2
    <3>4. v = u
      BY <2>2, <3>3, NotWaitedFor
    <3> QED
      BY <3>2, <3>3, <3>4
  <2>4. Fresh(u) = Cores
    BY <2>3 DEF Fresh
  <2>5. \E c \in Cores : phase[c] \in {"last", "release"}
    BY <2>4 DEF IInv, Rounds, Round
  <2> QED
    BY <2>3, <2>5
<1> QED
  BY <1>1, InvariantCorrect, PositionsHold, PTL
-----------------------------------------------------------------------------
(* Operations on data between the same barriers are at the same counts.    *)
LEMMA DataBetweenBarriers ==
  ASSUME IInv, NEW c \in Cores, NEW u \in Units, ~AtBarrier(c, u)
  PROVE  \A r \in Nat : Round(u, r) => Left(c, u) = r
BY DEF Waits, Round

(* No two cores are at conflicting operations, for any number of cores, in *)
(* programs that suit the size of their data and keep such operations      *)
(* apart by the barriers of util.h, as all but cf_matmul.c and cm_matmul.c *)
(* do: the barriers keep them apart in time, however the cores interleave. *)
THEOREM RaceFreeCorrect == Spec => []RaceFree
<1>1. IInv /\ Positions => RaceFree
  <2> SUFFICES ASSUME IInv, Positions, Suits(prog, nc), prog.name \notin SharedUpdates,
                      NEW c \in Cores, NEW d \in Cores, c < d,
                      Conflict(At(c), At(d))
               PROVE  FALSE
    BY DEF RaceFree, Racing
  <2> DEFINE mine == Code[prog][nc][c]
             its  == Code[prog][nc][d]
  <2>1. /\ pc[c] \in DOMAIN mine /\ pc[d] \in DOMAIN its
        /\ prog \in Programs /\ nc \in 1 .. MaxCores
    BY DEF Positions
  <2>2. /\ At(c) = mine[pc[c]] /\ At(d) = its[pc[d]]
        /\ \A u \in Units : Left(c, u) = Before(mine, u, pc[c]) /\ Left(d, u) = Before(its, u, pc[d])
    BY DEF At, Left
  <2>3. \E u \in Units : Left(c, u) # Left(d, u)
    <3>1. Apart(mine, its)
      BY <2>1, ConflictAssumption DEF ConflictsApart, Cores
    <3> HIDE DEF mine, its
    <3> QED
      BY <2>1, <2>2, <3>1 DEF Apart
  <2>4. \A u \in Units : ~AtBarrier(c, u) /\ ~AtBarrier(d, u)
    BY DEF Conflict, AtBarrier, IsBarrier, Units
  <2>5. ASSUME NEW u \in Units
        PROVE  Left(c, u) = Left(d, u)
    <3>1. PICK r \in Nat : Round(u, r)
      BY DEF IInv, Rounds
    <3> QED
      BY <2>4, <3>1, DataBetweenBarriers
  <2> QED
    BY <2>3, <2>5
<1> QED
  BY <1>1, InvariantCorrect, PositionsHold, PTL
=============================================================================
