----------------------------- MODULE FifoProofs -----------------------------
(***************************************************************************)
(* fifo.v is correct for every depth and every set of words.  The type     *)
(* invariant alone does not carry the refinement, which needs a write never *)
(* to land in a slot that is still to be read: the inductive invariant     *)
(* adds the distance between the pointers, from which that follows.        *)
(***************************************************************************)
EXTENDS Fifo, SequenceTheorems, TLAPS

USE DepthAssumption

IInv == TypeOK /\ CountIsDistance

\* Power-up establishes the invariant.
LEMMA InitEstablishes == Init => IInv
  BY DEF Init, IInv, TypeOK, CountIsDistance, Slots, Ahead

\* Moving the read pointer one on and shortening the distance by one
\* names the same slot.
LEMMA AheadOfSucc ==
  ASSUME NEW p \in Slots, NEW k \in Nat, k < RAM_DEPTH
  PROVE  Ahead(Succ(p), k) = Ahead(p, k + 1)
  BY DEF Slots, Ahead, Succ

\* Two distances below the depth name different slots.
LEMMA AheadInjective ==
  ASSUME NEW p \in Slots, NEW j \in Nat, NEW k \in Nat,
         j < k, k < RAM_DEPTH
  PROVE  Ahead(p, j) # Ahead(p, k)
  BY DEF Slots, Ahead

\* Going at most once around the memory ends in a slot of it.
LEMMA AheadIsSlot ==
  ASSUME NEW p \in Slots, NEW k \in 0 .. RAM_DEPTH
  PROVE  Ahead(p, k) \in Slots
  BY DEF Slots, Ahead

\* Every clock edge keeps it.
LEMMA ClockPreserves ==
  ASSUME IInv, Clock, NextInputs
  PROVE  IInv'
<1> USE DEF Clock
<1>1. TypeOK'
  <2>1. fifo_count' \in 0 .. RAM_DEPTH
    BY DEF IInv, TypeOK, Inputs, FIFO_COUNTER, empty, full
  <2>2. wr_pointer' \in Slots /\ rd_pointer' \in Slots
    BY DEF IInv, TypeOK, WRITE_PTR, READ_PTR, Slots, Succ
  <2>3. mem' \in [Slots -> Data]
    BY DEF IInv, TypeOK, Inputs, WRITE
  <2>4. data_out' \in Data
    BY DEF IInv, TypeOK, READ
  <2>5. Inputs'
    BY DEF NextInputs, Inputs
  <2>6. QED BY <2>1, <2>2, <2>3, <2>4, <2>5 DEF TypeOK
<1>2. CountIsDistance'
  <2>1. CASE reset
    BY <2>1 DEF FIFO_COUNTER, WRITE_PTR, READ_PTR, CountIsDistance, Ahead
  <2>2. CASE ~reset
    BY <2>2 DEF IInv, TypeOK, Inputs, CountIsDistance, FIFO_COUNTER, WRITE_PTR, READ_PTR,
                Ahead, Succ, Slots, empty, full
  <2>3. QED BY <2>1, <2>2
<1>3. QED BY <1>1, <1>2 DEF IInv

\* So does every step of the specification.
LEMMA NextPreserves == IInv /\ [Next]_vars => IInv'
<1> SUFFICES ASSUME IInv, [Next]_vars PROVE IInv'
  OBVIOUS
<1>1. CASE Next
  BY <1>1, ClockPreserves DEF Next
<1>2. CASE UNCHANGED vars
  BY <1>2 DEF vars, IInv, TypeOK, Inputs, CountIsDistance, Ahead
<1>3. QED BY <1>1, <1>2

\* The inductive invariant holds in every reachable state of fifo.v.
THEOREM Invariance == Spec => []IInv
  BY InitEstablishes, NextPreserves, PTL DEF Spec

\* For every depth each register of fifo.v stays within its width.
THEOREM TypeCorrect == Spec => []TypeOK
<1>1. IInv => TypeOK
  BY DEF IInv
<1>2. QED BY <1>1, Invariance, PTL

\* For every depth the counter is the distance between the pointers.
THEOREM DistanceCorrect == Spec => []CountIsDistance
<1>1. IInv => CountIsDistance
  BY DEF IInv
<1>2. QED BY <1>1, Invariance, PTL

-----------------------------------------------------------------------------
(* The refinement. *)

ContentsFacts ==
  /\ Contents \in Seq(Data)
  /\ Len(Contents) = fifo_count
  /\ \A i \in 1 .. fifo_count : Contents[i] = mem[Ahead(rd_pointer, i - 1)]

\* The contents are a sequence of words, as long as the counter says.
LEMMA ContentsIsSeq == IInv => ContentsFacts
<1> SUFFICES ASSUME IInv PROVE ContentsFacts
  OBVIOUS
<1>1. \A i \in 1 .. fifo_count : mem[Ahead(rd_pointer, i - 1)] \in Data
  BY AheadIsSlot DEF IInv, TypeOK
<1>2. fifo_count \in Nat
  BY DEF IInv, TypeOK
<1>3. QED BY <1>1, <1>2 DEF Contents, ContentsFacts

\* The effect of an edge outside reset on the contents, word by word: the words
\* kept move one place forward when a word is delivered, and an accepted word
\* becomes the last.
LEMMA ContentsStep ==
  ASSUME IInv, ~reset, Next
  PROVE  Contents' = Queue!After(push, pop, data_in)
<1> DEFINE taken == IF pop /\ ~empty THEN 1 ELSE 0
           added == IF push /\ ~full THEN 1 ELSE 0
           kept  == IF pop /\ Contents # <<>> THEN Tail(Contents) ELSE Contents
<1> USE DEF Next
<1>1. IInv'
  BY ClockPreserves
<1>2. ContentsFacts
  BY ContentsIsSeq
<1>3. ContentsFacts'
  BY <1>1, ContentsIsSeq, PTL
<1>4. fifo_count \in 0 .. RAM_DEPTH /\ rd_pointer \in Slots /\ wr_pointer \in Slots
  BY DEF IInv, TypeOK
<1>5. (Contents = <<>>) <=> empty
  BY <1>2, <1>4 DEF empty, ContentsFacts
<1>6. taken \in {0, 1} /\ taken <= fifo_count
  BY <1>4 DEF empty
<1>7. /\ kept \in Seq(Data) /\ Len(kept) = fifo_count - taken
      /\ \A i \in 1 .. fifo_count - taken : kept[i] = Contents[i + taken]
  <2>1. CASE pop /\ ~empty
    BY <1>2, <1>4, <1>5, <2>1, HeadTailProperties DEF empty, ContentsFacts
  <2>2. CASE ~(pop /\ ~empty)
    <3>1. kept = Contents /\ taken = 0
      BY <1>5, <2>2
    <3> HIDE DEF kept, taken
    <3>2. QED BY <1>2, <1>4, <3>1 DEF ContentsFacts
  <2>3. QED BY <2>1, <2>2
<1>8. fifo_count' = fifo_count - taken + added
  BY <1>4 DEF Clock, FIFO_COUNTER, empty, full
<1>9. \A k \in Nat : k + taken < RAM_DEPTH =>
                    Ahead(rd_pointer', k) = Ahead(rd_pointer, k + taken)
  BY <1>4, AheadOfSucc DEF Clock, READ_PTR, empty, Slots
<1>10. Queue!After(push, pop, data_in) =
         IF push /\ ~full THEN Append(kept, data_in) ELSE kept
  BY <1>2, <1>4 DEF Queue!After, full, ContentsFacts
<1>11. (push /\ ~full) => added = 1
  OBVIOUS
<1>12. ~(push /\ ~full) => added = 0
  OBVIOUS
<1> HIDE DEF taken, added, kept
<1>13. \A i \in 1 .. fifo_count - taken : mem'[Ahead(rd_pointer', i - 1)] = kept[i]
  <2> SUFFICES ASSUME NEW i \in 1 .. fifo_count - taken
               PROVE  mem'[Ahead(rd_pointer', i - 1)] = kept[i]
    OBVIOUS
  <2>1. Ahead(rd_pointer', i - 1) = Ahead(rd_pointer, i - 1 + taken)
    BY <1>4, <1>9, <1>6
  <2>2. kept[i] = mem[Ahead(rd_pointer, i - 1 + taken)]
    BY <1>2, <1>4, <1>7, <1>6 DEF ContentsFacts
  <2>3. mem'[Ahead(rd_pointer, i - 1 + taken)] = mem[Ahead(rd_pointer, i - 1 + taken)]
    <3>1. CASE push /\ ~full
      <4>1. wr_pointer = Ahead(rd_pointer, fifo_count)
        BY DEF IInv, CountIsDistance
      <4>2. fifo_count < RAM_DEPTH
        BY <1>4, <3>1 DEF full
      <4>3. Ahead(rd_pointer, i - 1 + taken) # wr_pointer
        BY <1>4, <1>6, <4>1, <4>2, AheadInjective
      <4>4. QED BY <3>1, <4>3 DEF Clock, WRITE, IInv, TypeOK
    <3>2. CASE ~(push /\ ~full)
      BY <3>2 DEF Clock, WRITE
    <3>3. QED BY <3>1, <3>2
  <2>4. QED BY <2>1, <2>2, <2>3
<1>14. CASE push /\ ~full
  <2>1. fifo_count' = fifo_count - taken + 1 /\ fifo_count < RAM_DEPTH
    BY <1>4, <1>8, <1>14, <1>11 DEF full
  <2>2. mem'[Ahead(rd_pointer', fifo_count - taken)] = data_in
    <3>1. Ahead(rd_pointer', fifo_count - taken) = Ahead(rd_pointer, fifo_count)
      BY <1>4, <1>9, <1>6, <2>1
    <3>2. mem'[wr_pointer] = data_in
      BY <1>4, <1>14 DEF Clock, WRITE, IInv, TypeOK
    <3>3. QED BY <3>1, <3>2 DEF IInv, CountIsDistance
  <2>3. Contents' = Append(kept, data_in)
    <3>1. /\ Append(kept, data_in) \in Seq(Data)
          /\ Len(Append(kept, data_in)) = fifo_count'
          /\ \A i \in 1 .. fifo_count' :
                Append(kept, data_in)[i] = IF i = fifo_count' THEN data_in ELSE kept[i]
      BY <1>4, <1>7, <1>6, <2>1, AppendProperties DEF IInv, TypeOK, Inputs
    <3>2. \A i \in 1 .. fifo_count' : Contents'[i] = Append(kept, data_in)[i]
      BY <1>4, <1>13, <1>3, <1>6, <2>1, <2>2, <3>1 DEF ContentsFacts
    <3>3. QED BY <1>3, <3>1, <3>2, SeqEqual DEF ContentsFacts
  <2>4. QED BY <1>14, <1>10, <2>3
<1>15. CASE ~(push /\ ~full)
  <2>1. fifo_count' = fifo_count - taken
    BY <1>4, <1>8, <1>15, <1>6, <1>12
  <2>2. Contents' = kept
    <3>1. \A i \in 1 .. fifo_count' : Contents'[i] = kept[i]
      BY <1>13, <1>3, <2>1 DEF ContentsFacts
    <3>2. QED BY <1>7, <1>3, <2>1, <3>1, SeqEqual DEF ContentsFacts
  <2>3. QED BY <1>15, <1>10, <2>2
<1>16. QED BY <1>14, <1>15

\* Every edge is the edge of the queue with the same inputs.
LEMMA StepSimulation ==
  IInv /\ [Next]_vars => [Queue!Step(reset, push, pop, data_in)]_vars
<1> SUFFICES ASSUME IInv, Next PROVE Queue!Step(reset, push, pop, data_in)
  OBVIOUS
<1>1. Queue!ReadPort(pop)
  <2>1. (Contents = <<>>) <=> empty
    BY ContentsIsSeq DEF empty, IInv, TypeOK, ContentsFacts
  <2>2. ~empty => Head(Contents) = mem[rd_pointer]
    BY ContentsIsSeq, <2>1 DEF IInv, TypeOK, empty, Ahead, Slots, ContentsFacts
  <2>3. QED BY <2>1, <2>2 DEF Next, Clock, READ, Queue!ReadPort
<1>2. CASE reset
  <2>1. Contents' = <<>>
    BY <1>2 DEF Next, Clock, FIFO_COUNTER, Contents
  <2>2. QED BY <1>1, <1>2, <2>1 DEF Queue!Step, Queue!Reset
<1>3. CASE ~reset
  BY <1>1, <1>3, ContentsStep DEF Queue!Step, Queue!Edge
<1>4. QED BY <1>2, <1>3

\* A FIFO out of reset is an empty queue.
LEMMA InitSimulation == Init => Queue!Init
  BY DEF Init, Queue!Init, Contents

\* fifo.v implements the bounded queue, for every depth and every set of words.
THEOREM FifoImplementsQueue == Spec => ImplementsQueue
  BY Invariance, InitSimulation, StepSimulation, PTL
     DEF Spec, ImplementsQueue
=============================================================================
