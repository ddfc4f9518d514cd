--------------------------- MODULE FifoFwftProofs ---------------------------
(***************************************************************************)
(* fifo_fwft.v is correct for every depth.  Everything about the inner     *)
(* FIFO comes from FifoProofs, instantiated with the pop that fifo_fwft    *)
(* derives from it; what is left is the output register.                   *)
(***************************************************************************)
EXTENDS FifoFwft, SequenceTheorems, TLAPS

USE FwftAssumption

Inner == INSTANCE FifoProofs WITH pop <- fifo_pop

-----------------------------------------------------------------------------
(* What the inner FIFO does, in the terms of this module. *)

\* The invariant of the inner FIFO is the one proved for fifo.v.
LEMMA InnerInvariant ==
  fifo_buffer!TypeOK /\ fifo_buffer!CountIsDistance <=> Inner!IInv
  BY DEF Inner!IInv, Inner!TypeOK, Inner!CountIsDistance, Inner!Inputs, Inner!Slots,
         Inner!Ahead, fifo_buffer!TypeOK, fifo_buffer!CountIsDistance,
         fifo_buffer!Inputs, fifo_buffer!Slots, fifo_buffer!Ahead

\* Its clock edge is the one of fifo.v.
LEMMA InnerNext == fifo_buffer!Next => Inner!Next
  BY DEF Inner!Next, Inner!Clock, Inner!NextInputs, Inner!FIFO_COUNTER, Inner!WRITE_PTR,
         Inner!READ_PTR, Inner!WRITE, Inner!READ, Inner!Succ, Inner!empty, Inner!full,
         fifo_buffer!Next, fifo_buffer!Clock, fifo_buffer!NextInputs,
         fifo_buffer!FIFO_COUNTER, fifo_buffer!WRITE_PTR, fifo_buffer!READ_PTR,
         fifo_buffer!WRITE, fifo_buffer!READ, fifo_buffer!Succ, fifo_buffer!empty,
         fifo_buffer!full

\* So are the words it holds.
LEMMA InnerContents ==
  /\ Inner!Contents = fifo_buffer!Contents
  /\ Inner!Contents' = fifo_buffer!Contents'
  BY DEF Inner!Contents, Inner!Ahead, fifo_buffer!Contents, fifo_buffer!Ahead

-----------------------------------------------------------------------------
(* Type correctness. *)

\* Reset establishes the widths and the pointer distance.
LEMMA InitEstablishes == Init => TypeOK
<1> SUFFICES ASSUME Init PROVE TypeOK
  OBVIOUS
<1>1. Inner!Init
  BY DEF Init, Inner!Init, Inner!Inputs, Inner!Slots,
         fifo_buffer!Init, fifo_buffer!Inputs, fifo_buffer!Slots
<1>2. Inner!IInv
  BY <1>1, Inner!InitEstablishes
<1>3. QED BY <1>2, InnerInvariant DEF Init, TypeOK

\* Every clock edge keeps them.
LEMMA NextPreserves == TypeOK /\ [Next]_vars => TypeOK'
<1> SUFFICES ASSUME TypeOK, [Next]_vars PROVE TypeOK'
  OBVIOUS
<1>1. CASE Next
  <2>1. Inner!IInv'
    BY <1>1, InnerInvariant, InnerNext, Inner!NextPreserves DEF TypeOK, Next
  <2>2. fifo_buffer!TypeOK' /\ fifo_buffer!CountIsDistance'
    BY <2>1, InnerInvariant, PTL
  <2>3. pop' \in BOOLEAN /\ dout_valid' \in BOOLEAN
    BY <1>1 DEF Next, ShownWord, TypeOK
  <2>4. QED BY <2>2, <2>3 DEF TypeOK
<1>2. CASE UNCHANGED vars
  BY <1>2 DEF vars, TypeOK, fifo_pop, fifo_empty, fifo_buffer!TypeOK,
              fifo_buffer!CountIsDistance, fifo_buffer!Inputs, fifo_buffer!Slots,
              fifo_buffer!Ahead
<1>3. QED BY <1>1, <1>2

\* For every depth the registers stay within their widths and the inner FIFO
\* keeps its pointer distance, although its pop depends on its own flags.
THEOREM TypeCorrect == Spec => []TypeOK
  BY InitEstablishes, NextPreserves, PTL DEF Spec

-----------------------------------------------------------------------------
(* The refinement. *)

Buffered == fifo_buffer!Contents

\* What an edge outside reset does to the two places of a word.
EdgeFacts ==
  /\ Buffered' = LET kept == IF fifo_pop THEN Tail(Buffered) ELSE Buffered
                 IN  IF push /\ Len(Buffered) < RAM_DEPTH THEN Append(kept, data_in)
                                                          ELSE kept
  /\ data_out' = IF fifo_pop THEN Head(Buffered) ELSE data_out
  /\ dout_valid' = (fifo_pop \/ (dout_valid /\ ~pop))

\* The inner FIFO holds a sequence of words, empty exactly when it says so.
LEMMA BufferedIsSeq ==
  ASSUME TypeOK
  PROVE  /\ Buffered \in Seq(Data)
         /\ Len(Buffered) = fifo_count
         /\ fifo_pop <=> Buffered # <<>> /\ (~dout_valid \/ pop)
<1>1. Inner!ContentsFacts
  BY InnerInvariant, Inner!ContentsIsSeq DEF TypeOK
<1>2. Buffered \in Seq(Data) /\ Len(Buffered) = fifo_count
  BY <1>1, InnerContents DEF Inner!ContentsFacts, Buffered
<1>3. Buffered = <<>> <=> fifo_empty
  BY <1>2 DEF fifo_empty
<1>4. QED BY <1>2, <1>3 DEF fifo_pop

\* The inner FIFO is popped exactly when fifo_fwft pops it, since fifo_pop is
\* never raised while it is empty.
LEMMA EdgeIsSplit ==
  ASSUME TypeOK, Next, ~reset
  PROVE  EdgeFacts
<1>1. Buffered' = Inner!Queue!After(push, fifo_pop, data_in)
  BY InnerInvariant, InnerNext, InnerContents, Inner!ContentsStep DEF TypeOK, Next, Buffered
<1>2. fifo_pop => Buffered # <<>>
  BY BufferedIsSeq
<1>3. Buffered' = LET kept == IF fifo_pop THEN Tail(Buffered) ELSE Buffered
                  IN  IF push /\ Len(Buffered) < RAM_DEPTH THEN Append(kept, data_in)
                                                           ELSE kept
  BY <1>1, <1>2, InnerContents DEF Inner!Queue!After, Buffered
<1>4. data_out' = IF fifo_pop THEN Head(Buffered) ELSE data_out
  <2>1. fifo_pop => Head(Buffered) = mem[rd_pointer]
    BY <1>2, InnerInvariant, InnerContents, Inner!ContentsIsSeq
       DEF TypeOK, Inner!ContentsFacts, Inner!Ahead, Buffered, Inner!IInv, Inner!TypeOK,
           Inner!Slots
  <2>2. fifo_pop => ~fifo_buffer!empty
    BY DEF fifo_pop, fifo_empty, fifo_buffer!empty
  <2>3. QED BY <2>1, <2>2 DEF Next, fifo_buffer!Next, fifo_buffer!Clock, fifo_buffer!READ
<1>5. dout_valid' = (fifo_pop \/ (dout_valid /\ ~pop))
  BY DEF Next, ShownWord, TypeOK
<1>6. QED BY <1>3, <1>4, <1>5 DEF EdgeFacts

\* A word appended behind a sequence is appended behind what precedes it.
LEMMA AppendBehind ==
  ASSUME NEW S, NEW s \in Seq(S), NEW t \in Seq(S), NEW e \in S
  PROVE  s \o Append(t, e) = Append(s \o t, e)
<1>1. Append(t, e) = t \o <<e>> /\ Append(s \o t, e) = (s \o t) \o <<e>>
  BY AppendIsConcat, ConcatProperties
<1>2. QED BY <1>1, ConcatAssociative

\* The words before the push of an edge: a pop of the shown word, and a refill
\* that moves a word from the inner FIFO to the register, which is no change.
LEMMA ShownThenBuffered ==
  ASSUME TypeOK, Next, ~reset
  PROVE  LET rest  == IF fifo_pop THEN Tail(Buffered) ELSE Buffered
             shown == IF dout_valid' THEN <<data_out'>> ELSE <<>>
         IN  /\ rest \in Seq(Data) /\ shown \in Seq(Data)
             /\ shown \o rest = IF pop /\ dout_valid THEN Tail(Words) ELSE Words
<1> DEFINE rest  == IF fifo_pop THEN Tail(Buffered) ELSE Buffered
           shown == IF dout_valid' THEN <<data_out'>> ELSE <<>>
<1>1. Buffered \in Seq(Data) /\ (fifo_pop <=> Buffered # <<>> /\ (~dout_valid \/ pop))
  BY BufferedIsSeq
<1>2. data_out \in Data /\ dout_valid \in BOOLEAN /\ pop \in BOOLEAN
  BY DEF TypeOK, fifo_buffer!TypeOK
<1>3. Words = (IF dout_valid THEN <<data_out>> ELSE <<>>) \o Buffered
  BY DEF Words, Buffered
<1>4. /\ data_out' = IF fifo_pop THEN Head(Buffered) ELSE data_out
      /\ dout_valid' = (fifo_pop \/ (dout_valid /\ ~pop))
  BY EdgeIsSplit DEF EdgeFacts
<1>5. Tail(<<data_out>> \o Buffered) = Buffered /\ <<>> \o Buffered = Buffered
  BY <1>1, <1>2
<1>6. rest \in Seq(Data) /\ shown \in Seq(Data)
  BY <1>1, <1>2, <1>4
<1>7. shown \o rest = IF pop /\ dout_valid THEN Tail(Words) ELSE Words
  <2>1. CASE fifo_pop
    <3>1. shown \o rest = <<Head(Buffered)>> \o Tail(Buffered)
      BY <1>4, <2>1
    <3>2. <<Head(Buffered)>> \o Tail(Buffered) = Buffered
      BY <1>1, <2>1
    <3>3. QED BY <1>1, <1>2, <1>3, <1>5, <2>1, <3>1, <3>2
  <2>2. CASE ~fifo_pop /\ pop /\ dout_valid
    BY <1>3, <1>4, <1>5, <2>2
  <2>3. CASE ~fifo_pop /\ ~(pop /\ dout_valid)
    BY <1>2, <1>3, <1>4, <2>3
  <2>4. QED BY <2>1, <2>2, <2>3
<1>8. QED BY <1>6, <1>7

\* Every edge is the edge of the show-ahead queue with the same inputs.
LEMMA StepSimulation ==
  TypeOK /\ [Next]_vars => [Shown!Step(reset, push, pop, data_in)]_vars
<1> SUFFICES ASSUME TypeOK, Next PROVE Shown!Step(reset, push, pop, data_in)
  OBVIOUS
<1>1. CASE reset
  <2>1. dout_valid' = FALSE /\ fifo_count' = 0
    BY <1>1 DEF Next, ShownWord, fifo_buffer!Next, fifo_buffer!Clock, fifo_buffer!FIFO_COUNTER
  <2>2. Words' = <<>>
    BY <2>1 DEF Words, fifo_buffer!Contents
  <2>3. QED BY <1>1, <2>1, <2>2 DEF Shown!Step, Shown!Reset
<1>2. CASE ~reset
  <2> DEFINE rest  == IF fifo_pop THEN Tail(Buffered) ELSE Buffered
             shown == IF dout_valid' THEN <<data_out'>> ELSE <<>>
  <2>1. /\ rest \in Seq(Data) /\ shown \in Seq(Data)
        /\ shown \o rest = IF pop /\ dout_valid THEN Tail(Words) ELSE Words
    BY <1>2, ShownThenBuffered
  <2>2. EdgeFacts
    BY <1>2, EdgeIsSplit
  <2>3. /\ Buffered \in Seq(Data)
        /\ fifo_pop <=> Buffered # <<>> /\ (~dout_valid \/ pop)
        /\ data_out \in Data /\ data_in \in Data /\ dout_valid \in BOOLEAN
    BY BufferedIsSeq DEF TypeOK, fifo_buffer!TypeOK, fifo_buffer!Inputs
  <2>4. Shown!waiting = Len(Buffered)
    BY <2>3 DEF Shown!waiting, Words, Buffered
  <2>5. Words' = shown \o Buffered'
    BY DEF Words, Buffered
  <2>6. Words' = Shown!After(push, pop, data_in)
    <3>1. Shown!full <=> ~(Len(Buffered) < RAM_DEPTH)
      <4>1. fifo_count <= RAM_DEPTH /\ Len(Buffered) = fifo_count
        BY BufferedIsSeq DEF TypeOK, fifo_buffer!TypeOK
      <4>2. QED BY <2>4, <4>1 DEF Shown!full, TypeOK, fifo_buffer!TypeOK
    <3>2. CASE push /\ Len(Buffered) < RAM_DEPTH
      <4>1. Buffered' = Append(rest, data_in)
        BY <2>2, <3>2 DEF EdgeFacts
      <4>2. shown \o Append(rest, data_in) = Append(shown \o rest, data_in)
        <5>1. shown \in Seq(Data) /\ rest \in Seq(Data) /\ data_in \in Data
          BY <2>1, <2>3
        <5> HIDE DEF shown, rest
        <5>2. QED BY <5>1, AppendBehind
      <4>3. QED BY <2>1, <2>5, <3>1, <3>2, <4>1, <4>2 DEF Shown!After
    <3>3. CASE ~(push /\ Len(Buffered) < RAM_DEPTH)
      <4>1. Buffered' = rest
        BY <2>2, <3>3 DEF EdgeFacts
      <4>2. QED BY <2>1, <2>5, <3>1, <3>3, <4>1 DEF Shown!After
    <3>4. QED BY <3>2, <3>3
  <2>7. dout_valid' = (Shown!waiting > 0 \/ (dout_valid /\ ~pop))
    BY <2>2, <2>3, <2>4 DEF EdgeFacts
  <2>8. QED BY <1>2, <2>6, <2>7 DEF Shown!Step, Shown!Edge
<1>3. QED BY <1>1, <1>2

\* Out of reset the queue is empty and shows nothing.
LEMMA InitSimulation == Init => Shown!Init
  BY DEF Init, Shown!Init, Words, fifo_buffer!Init, fifo_buffer!Contents

\* fifo_fwft.v implements the show-ahead queue, for every depth and every set
\* of words: no word is lost, repeated or shown too early.
THEOREM FwftImplementsShowAhead == Spec => ImplementsShowAhead
  BY TypeCorrect, InitSimulation, StepSimulation, PTL DEF Spec, ImplementsShowAhead
=============================================================================
