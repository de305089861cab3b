--------------------------- MODULE RingBuf_proofs ---------------------------
(***************************************************************************)
(* The ring buffer proved for every capacity and every set of values.      *)
(* IInv says what each side may rely on between two of its steps: its copy *)
(* of its own index is current, and what its check of the other index      *)
(* showed (a free slot, a value) is still so, because the other side only  *)
(* moves its index the harmless way.                                       *)
(***************************************************************************)
EXTENDS RingBuf, SequenceTheorems, TLAPS

SidesAreCurrent ==
  /\ p_pc # "idle" => p_h = head
  /\ c_pc # "idle" => c_t = tail
  /\ p_pc \in {"write", "publish"} => rb_inc(head) # tail
  /\ c_pc \in {"read", "advance"} => head # tail
  /\ p_pc = "publish" => buf[p_h] = p_v
  /\ c_pc = "advance" => c_out = buf[c_t]

FullSlotsHoldValues == \A i \in 1 .. rb_count : buf[Wrap(tail + i - 1)] \in Values

IInv == TypeOK /\ SidesAreCurrent /\ FullSlotsHoldValues /\ AnswersArePromises

-----------------------------------------------------------------------------
(* Index arithmetic of the ring. *)

(* rb_inc stays inside the buffer. *)
LEMMA IncInIndex == ASSUME NEW i \in Index PROVE rb_inc(i) \in Index
  BY RingAssumption DEF Index, rb_inc, Wrap

(* ringbuf_u32_count is at most the capacity less the slot left empty. *)
LEMMA CountInRange ==
  ASSUME head \in Index, tail \in Index
  PROVE  rb_count \in 0 .. Capacity - 1
  BY RingAssumption DEF Index, rb_count

(* count() is zero exactly when is_empty(), and maximal exactly when        *)
(* is_full().                                                              *)
LEMMA CountExtremes ==
  ASSUME head \in Index, tail \in Index
  PROVE  /\ rb_count = 0 <=> head = tail
         /\ rb_count = Capacity - 1 <=> rb_inc(head) = tail
  BY RingAssumption DEF Index, rb_count, rb_inc, Wrap

(* Publishing a value into a buffer that is not full adds one to count(). *)
LEMMA CountAfterPush ==
  ASSUME head \in Index, tail \in Index, rb_inc(head) # tail,
         head' = rb_inc(head), tail' = tail
  PROVE  rb_count' = rb_count + 1
  BY RingAssumption DEF Index, rb_count, rb_inc, Wrap

(* Taking a value out of a buffer that is not empty removes one. *)
LEMMA CountAfterPop ==
  ASSUME head \in Index, tail \in Index, head # tail,
         tail' = rb_inc(tail), head' = head
  PROVE  rb_count' = rb_count - 1
  BY RingAssumption DEF Index, rb_count, rb_inc, Wrap

(* The position of a queue element is a slot of the buffer other than the  *)
(* one the producer writes, and the element after the last is that slot.   *)
LEMMA Positions ==
  ASSUME head \in Index, tail \in Index
  PROVE  /\ \A i \in 1 .. rb_count : Wrap(tail + i - 1) \in Index
         /\ \A i \in 1 .. rb_count : Wrap(tail + i - 1) # head
         /\ Wrap(tail + rb_count) = head
         /\ rb_count > 0 => Wrap(tail) = tail
  BY RingAssumption DEF Index, rb_count, Wrap

(* Advancing tail renumbers the elements by one. *)
LEMMA PositionsAfterPop ==
  ASSUME tail \in Index, tail' = rb_inc(tail), NEW i \in 1 .. Capacity - 1
  PROVE  Wrap(tail' + i - 1) = Wrap(tail + (i + 1) - 1)
  BY RingAssumption DEF Index, rb_inc, Wrap
-----------------------------------------------------------------------------
(* An initialised buffer satisfies the invariant. *)
LEMMA InitIInv == Init => IInv
  <1> SUFFICES ASSUME Init PROVE IInv
    OBVIOUS
  <1>1. TypeOK
    BY RingAssumption DEF Init, TypeOK, Index
  <1>2. rb_count = 0 /\ rb_free = Capacity - 1
    BY RingAssumption DEF Init, rb_count, rb_free
  <1>3. SidesAreCurrent
    BY DEF Init, SidesAreCurrent
  <1>4. FullSlotsHoldValues /\ AnswersArePromises
    BY <1>2, RingAssumption DEF Init, FullSlotsHoldValues, AnswersArePromises
  <1> QED
    BY <1>1, <1>3, <1>4 DEF IInv

(* Every step keeps the types: the credits stay counts of slots because    *)
(* the answers of count() and free() do.                                   *)
LEMMA NextTypeOK ==
  ASSUME TypeOK, SidesAreCurrent, FullSlotsHoldValues, [Next]_vars
  PROVE  TypeOK'
  <1> USE DEF TypeOK, producer, consumer
  <1>0. /\ 0 \in 0 .. Capacity - 1 /\ 1 \in 0 .. Capacity - 1 /\ 0 \in Index
        /\ rb_count \in 0 .. Capacity - 1 /\ rb_free \in 0 .. Capacity - 1
    BY RingAssumption, CountInRange DEF rb_free, Index
  <1>1. ASSUME NEW v \in Values, PushCall(v) PROVE TypeOK'
    BY <1>1 DEF PushCall
  <1>2. CASE PushCheck
    BY <1>2 DEF PushCheck
  <1>3. CASE PushWrite
    BY <1>3 DEF PushWrite
  <1>4. CASE PushPublish
    <2>1. head' \in Index
      BY <1>4, IncInIndex DEF PushPublish
    <2>2. p_credit' \in 0 .. Capacity - 1
      BY <1>0, <1>4, RingAssumption DEF PushPublish
    <2> QED
      BY <1>4, <2>1, <2>2 DEF PushPublish
  <1>5. CASE AskFree
    BY <1>0, <1>5 DEF AskFree
  <1>6. CASE AskFull
    BY <1>0, <1>6 DEF AskFull
  <1>7. ASSUME NEW op \in {"pop", "peek"}, TakeCall(op) PROVE TypeOK'
    BY <1>7 DEF TakeCall
  <1>8. CASE TakeCheck
    BY <1>8 DEF TakeCheck
  <1>9. CASE TakeRead
    BY <1>9 DEF TakeRead
  <1>10. CASE PeekRead
    BY <1>10 DEF PeekRead
  <1>11. CASE PopAdvance
    <2>1. tail' \in Index
      BY <1>11, IncInIndex DEF PopAdvance
    <2>2. c_credit' \in 0 .. Capacity - 1
      BY <1>0, <1>11, RingAssumption DEF PopAdvance
    <2> QED
      BY <1>11, <2>1, <2>2 DEF PopAdvance
  <1>12. CASE AskCount
    BY <1>0, <1>12 DEF AskCount
  <1>13. CASE AskEmpty
    BY <1>0, <1>13 DEF AskEmpty
  <1>14. CASE Reset
    BY <1>0, <1>14 DEF Reset
  <1>15. CASE UNCHANGED vars
    BY <1>15 DEF vars
  <1> QED
    BY <1>1, <1>2, <1>3, <1>4, <1>5, <1>6, <1>7, <1>8, <1>9, <1>10, <1>11, <1>12,
       <1>13, <1>14, <1>15
    DEF Next, Producer, Consumer

(* What each side relies on survives every step of the other side. *)
LEMMA NextSides ==
  ASSUME TypeOK, SidesAreCurrent, FullSlotsHoldValues, [Next]_vars
  PROVE  SidesAreCurrent' /\ FullSlotsHoldValues'
  <1> USE DEF producer, consumer
  <1>0. /\ head \in Index /\ tail \in Index /\ p_h \in Index /\ c_t \in Index
        /\ buf \in [Index -> Values \cup {Nothing}]
        /\ p_pc \in {"idle", "check", "write", "publish"}
        /\ c_pc \in {"idle", "check", "read", "advance"}
        /\ rb_count \in 0 .. Capacity - 1
    BY CountInRange DEF TypeOK
  <1>a. ASSUME UNCHANGED <<buf, head, tail>> PROVE FullSlotsHoldValues'
    BY <1>a DEF FullSlotsHoldValues, rb_count
  <1>1. ASSUME NEW v \in Values, PushCall(v) PROVE SidesAreCurrent' /\ FullSlotsHoldValues'
    BY <1>a, <1>1 DEF PushCall, SidesAreCurrent
  <1>2. CASE PushCheck
    BY <1>a, <1>2 DEF PushCheck, SidesAreCurrent
  <1>3. CASE PushWrite
    <2>1. p_h = head /\ buf' = [buf EXCEPT ![head] = p_v] /\ p_v \in Values
          /\ UNCHANGED <<head, tail, p_h, p_v, c_pc, c_t, c_out>> /\ p_pc' = "publish"
          /\ p_pc = "write"
      BY <1>3 DEF PushWrite, SidesAreCurrent, TypeOK
    <2>2. SidesAreCurrent'
      <3>1. buf'[p_h] = p_v
        BY <1>0, <2>1
      <3>2. c_pc = "advance" => head # tail /\ c_t = tail /\ c_out = buf'[c_t]
        BY <1>0, <2>1 DEF SidesAreCurrent
      <3> QED
        BY <2>1, <3>1, <3>2 DEF SidesAreCurrent
    <2>3. FullSlotsHoldValues'
      <3> SUFFICES ASSUME NEW i \in 1 .. rb_count
                   PROVE  buf'[Wrap(tail + i - 1)] \in Values
        BY <2>1 DEF FullSlotsHoldValues, rb_count
      <3>1. Wrap(tail + i - 1) \in Index /\ Wrap(tail + i - 1) # head
        BY <1>0, Positions
      <3> QED
        BY <1>0, <2>1, <3>1 DEF FullSlotsHoldValues
    <2> QED
      BY <2>2, <2>3
  <1>4. CASE PushPublish
    <2>1. p_h = head /\ head' = rb_inc(head) /\ UNCHANGED <<buf, tail, c_pc, c_t, c_out>>
          /\ rb_inc(head) # tail /\ buf[head] = p_v /\ p_v \in Values /\ p_pc' = "idle"
      BY <1>4 DEF PushPublish, SidesAreCurrent, TypeOK
    <2>2. SidesAreCurrent'
      BY <2>1 DEF SidesAreCurrent
    <2>3. rb_count' = rb_count + 1
      BY <1>0, <2>1, CountAfterPush
    <2>4. FullSlotsHoldValues'
      <3> SUFFICES ASSUME NEW i \in 1 .. rb_count + 1
                   PROVE  buf[Wrap(tail + i - 1)] \in Values
        BY <2>1, <2>3 DEF FullSlotsHoldValues
      <3>1. CASE i \in 1 .. rb_count
        BY <3>1 DEF FullSlotsHoldValues
      <3>2. CASE i = rb_count + 1
        <4>1. tail + i - 1 = tail + rb_count
          BY <1>0, <3>2 DEF Index
        <4> QED
          BY <1>0, <2>1, <4>1, Positions
      <3> QED
        BY <1>0, <3>1, <3>2
    <2> QED
      BY <2>2, <2>4
  <1>5. CASE AskFree
    BY <1>a, <1>5 DEF AskFree, SidesAreCurrent
  <1>6. CASE AskFull
    BY <1>a, <1>6 DEF AskFull, SidesAreCurrent
  <1>7. ASSUME NEW op \in {"pop", "peek"}, TakeCall(op)
        PROVE  SidesAreCurrent' /\ FullSlotsHoldValues'
    BY <1>a, <1>7 DEF TakeCall, SidesAreCurrent
  <1>8. CASE TakeCheck
    BY <1>a, <1>8 DEF TakeCheck, SidesAreCurrent
  <1>9. CASE TakeRead
    BY <1>a, <1>9 DEF TakeRead, SidesAreCurrent
  <1>10. CASE PeekRead
    BY <1>a, <1>10 DEF PeekRead, SidesAreCurrent
  <1>11. CASE PopAdvance
    <2>1. c_t = tail /\ tail' = rb_inc(tail) /\ head # tail /\ c_pc' = "idle"
          /\ UNCHANGED <<buf, head, p_pc, p_v, p_h>>
      BY <1>11 DEF PopAdvance, SidesAreCurrent
    <2>2. rb_count' = rb_count - 1
      BY <1>0, <2>1, CountAfterPop
    <2>3. p_pc \in {"write", "publish"} => rb_inc(head) # tail'
      BY <1>0, <2>1, RingAssumption DEF rb_inc, Wrap, Index
    <2>4. SidesAreCurrent'
      BY <2>1, <2>3 DEF SidesAreCurrent, rb_inc
    <2>5. FullSlotsHoldValues'
      <3> SUFFICES ASSUME NEW i \in 1 .. rb_count - 1
                   PROVE  buf[Wrap(tail' + i - 1)] \in Values
        BY <2>1, <2>2 DEF FullSlotsHoldValues
      <3>1. i + 1 \in 1 .. rb_count /\ i \in 1 .. Capacity - 1
        BY <1>0, RingAssumption
      <3>2. Wrap(tail' + i - 1) = Wrap(tail + (i + 1) - 1)
        BY <1>0, <2>1, <3>1, PositionsAfterPop
      <3> QED
        BY <3>1, <3>2 DEF FullSlotsHoldValues
    <2> QED
      BY <2>4, <2>5
  <1>12. CASE AskCount
    BY <1>a, <1>12 DEF AskCount, SidesAreCurrent
  <1>13. CASE AskEmpty
    BY <1>a, <1>13 DEF AskEmpty, SidesAreCurrent
  <1>14. CASE Reset
    <2>1. rb_count' = 0
      BY <1>14, RingAssumption DEF Reset, rb_count
    <2> QED
      BY <1>14, <2>1 DEF Reset, SidesAreCurrent, FullSlotsHoldValues
  <1>15. CASE UNCHANGED vars
    BY <1>a, <1>15 DEF vars, SidesAreCurrent
  <1> QED
    BY <1>1, <1>2, <1>3, <1>4, <1>5, <1>6, <1>7, <1>8, <1>9, <1>10, <1>11, <1>12,
       <1>13, <1>14, <1>15
    DEF Next, Producer, Consumer
(* A promise outlives every step of the other side, and each use of it     *)
(* takes one slot or one value.                                            *)
LEMMA NextPromises ==
  ASSUME TypeOK, SidesAreCurrent, AnswersArePromises, [Next]_vars
  PROVE  AnswersArePromises'
  <1> USE DEF producer, consumer
  <1>0. /\ head \in Index /\ tail \in Index
        /\ p_credit \in 0 .. Capacity - 1 /\ c_credit \in 0 .. Capacity - 1
        /\ rb_count \in 0 .. Capacity - 1
        /\ p_credit <= (Capacity - 1) - rb_count /\ c_credit <= rb_count
        /\ Capacity \in Nat
    BY CountInRange, RingAssumption DEF TypeOK, AnswersArePromises, rb_free
  <1>a. ASSUME UNCHANGED <<head, tail>> PROVE rb_count' = rb_count /\ rb_free' = rb_free
    BY <1>a DEF rb_count, rb_free
  <1>1. CASE UNCHANGED <<head, tail, p_credit, c_credit>>
    BY <1>1, <1>a DEF AnswersArePromises
  <1>2. CASE PushPublish
    <2>1. p_h = head /\ rb_inc(head) # tail /\ head' = rb_inc(head) /\ tail' = tail
          /\ c_credit' = c_credit
          /\ p_credit' = IF p_credit > 0 THEN p_credit - 1 ELSE 0
      BY <1>2 DEF PushPublish, SidesAreCurrent
    <2>2. rb_count' = rb_count + 1
      BY <1>0, <2>1, CountAfterPush
    <2>3. rb_count # Capacity - 1
      BY <1>0, <2>1, CountExtremes
    <2>4. p_credit' <= (Capacity - 1) - rb_count' /\ c_credit' <= rb_count'
      BY <1>0, <2>1, <2>2, <2>3
    <2> QED
      BY <2>4 DEF AnswersArePromises, rb_free
  <1>3. CASE AskFree
    <2>1. p_credit' = rb_free /\ UNCHANGED <<head, tail, c_credit>>
      BY <1>3 DEF AskFree
    <2> QED
      BY <1>0, <1>a, <2>1 DEF AnswersArePromises, rb_free
  <1>4. CASE AskFull
    <2>1. UNCHANGED <<head, tail, c_credit>>
          /\ p_credit' = IF rb_inc(head) = tail THEN 0
                         ELSE IF p_credit > 0 THEN p_credit ELSE 1
      BY <1>4 DEF AskFull
    <2>2. rb_inc(head) # tail => rb_count # Capacity - 1
      BY <1>0, CountExtremes
    <2>3. p_credit' <= (Capacity - 1) - rb_count
      BY <1>0, <2>1, <2>2
    <2> QED
      BY <1>0, <1>a, <2>1, <2>3 DEF AnswersArePromises, rb_free
  <1>5. CASE PopAdvance
    <2>1. c_t = tail /\ head # tail /\ tail' = rb_inc(tail) /\ head' = head
          /\ p_credit' = p_credit
          /\ c_credit' = IF c_credit > 0 THEN c_credit - 1 ELSE 0
      BY <1>5 DEF PopAdvance, SidesAreCurrent
    <2>2. rb_count' = rb_count - 1
      BY <1>0, <2>1, CountAfterPop
    <2>3. rb_count # 0
      BY <1>0, <2>1, CountExtremes
    <2>4. p_credit' <= (Capacity - 1) - rb_count' /\ c_credit' <= rb_count'
      BY <1>0, <2>1, <2>2, <2>3
    <2> QED
      BY <2>4 DEF AnswersArePromises, rb_free
  <1>6. CASE AskCount
    <2>1. c_credit' = rb_count /\ UNCHANGED <<head, tail, p_credit>>
      BY <1>6 DEF AskCount
    <2> QED
      BY <1>0, <1>a, <2>1 DEF AnswersArePromises, rb_free
  <1>7. CASE AskEmpty
    <2>1. UNCHANGED <<head, tail, p_credit>>
          /\ c_credit' = IF head = tail THEN 0
                         ELSE IF c_credit > 0 THEN c_credit ELSE 1
      BY <1>7 DEF AskEmpty
    <2>2. head # tail => rb_count # 0
      BY <1>0, CountExtremes
    <2>3. c_credit' <= rb_count
      BY <1>0, <2>1, <2>2
    <2> QED
      BY <1>0, <1>a, <2>1, <2>3 DEF AnswersArePromises, rb_free
  <1>8. CASE Reset
    <2>1. rb_count' = 0 /\ p_credit' = 0 /\ c_credit' = 0
      BY <1>8, RingAssumption DEF Reset, rb_count
    <2> QED
      BY <2>1, RingAssumption DEF AnswersArePromises, rb_free
  <1> QED
    BY <1>1, <1>2, <1>3, <1>4, <1>5, <1>6, <1>7, <1>8
    DEF Next, Producer, Consumer, PushCall, PushCheck, PushWrite, TakeCall, TakeCheck,
        TakeRead, PeekRead, vars

(* The invariant holds for every capacity, whatever the two sides do. *)
THEOREM Invariant == Spec => []IInv
  <1>1. IInv /\ [Next]_vars => IInv'
    BY NextTypeOK, NextSides, NextPromises DEF IInv
  <1> QED
    BY <1>1, InitIInv, PTL DEF Spec

(* The indices and credits keep their ranges. *)
THEOREM TypeCorrect == Spec => []TypeOK
  <1>1. IInv => TypeOK
    BY DEF IInv
  <1> QED
    BY <1>1, Invariant, PTL

(* No slot is ever written by the producer while the consumer reads it. *)
THEOREM NoRace == Spec => []NoSlotRace
  <1>1. IInv => NoSlotRace
    BY DEF IInv, SidesAreCurrent, NoSlotRace
  <1> QED
    BY <1>1, Invariant, PTL

(* free(), is_full(), count() and is_empty() are promises to their caller. *)
THEOREM Promises == Spec => []AnswersArePromises
  <1>1. IInv => AnswersArePromises
    BY DEF IInv
  <1> QED
    BY <1>1, Invariant, PTL

-----------------------------------------------------------------------------
(* Every step of the ring buffer is a step of the bounded FIFO, or none: a *)
(* push takes effect when head is published, a pop when tail advances.     *)
LEMMA StepImplementsFifo ==
  ASSUME IInv, [Next]_vars
  PROVE  [Fifo!Next]_Fifo!vars
  <1> USE DEF producer, consumer
  <1>0. /\ head \in Index /\ tail \in Index
        /\ rb_count \in 0 .. Capacity - 1
        /\ buf \in [Index -> Values \cup {Nothing}]
        /\ p_pc # "idle" => p_v \in Values
        /\ c_pc = "advance" => c_op = "pop"
    BY CountInRange DEF IInv, TypeOK
  <1>1. SidesAreCurrent /\ FullSlotsHoldValues
    BY DEF IInv
  <1>2. Queue \in Seq(Values) /\ Len(Queue) = rb_count /\ DOMAIN Queue = 1 .. rb_count
    <2>1. Queue \in [1 .. rb_count -> Values]
      BY <1>1 DEF Queue, FullSlotsHoldValues
    <2> QED
      BY <1>0, <2>1, SeqDef
  <1>a. ASSUME UNCHANGED <<buf, head, tail>> PROVE UNCHANGED Queue
    BY <1>a DEF Queue, rb_count
  <1>3. CASE UNCHANGED <<buf, head, tail, stored, got>>
    BY <1>3, <1>a DEF Fifo!vars
  <1>4. CASE PushCheck
    <2>1. CASE rb_inc(p_h) = tail
      <3>1. p_h = head /\ stored' = FALSE /\ UNCHANGED <<buf, head, tail, got>>
        BY <1>1, <1>4, <2>1 DEF PushCheck, SidesAreCurrent
      <3>2. Len(Queue) = Capacity - 1
        BY <1>0, <1>2, <2>1, <3>1, CountExtremes
      <3> QED
        BY <1>a, <3>1, <3>2 DEF Fifo!Next, Fifo!PushFails
    <2>2. CASE rb_inc(p_h) # tail
      BY <1>3, <1>4, <2>2 DEF PushCheck
    <2> QED
      BY <2>1, <2>2
  <1>5. CASE PushWrite
    <2>1. p_h = head /\ buf' = [buf EXCEPT ![head] = p_v]
          /\ UNCHANGED <<head, tail, stored, got>>
      BY <1>1, <1>5 DEF PushWrite, SidesAreCurrent
    <2>2. rb_count' = rb_count
      BY <2>1 DEF rb_count
    <2>3. \A i \in 1 .. rb_count : buf'[Wrap(tail + i - 1)] = buf[Wrap(tail + i - 1)]
      BY <1>0, <2>1, Positions
    <2>4. Queue' = Queue
      BY <2>1, <2>2, <2>3 DEF Queue
    <2> QED
      BY <2>1, <2>4 DEF Fifo!vars
  <1>6. CASE PushPublish
    <2>1. /\ p_h = head /\ rb_inc(head) # tail /\ head' = rb_inc(head)
          /\ buf[head] = p_v /\ p_v \in Values
          /\ stored' = TRUE /\ UNCHANGED <<buf, tail, got>>
      BY <1>0, <1>1, <1>6 DEF PushPublish, SidesAreCurrent
    <2>2. rb_count' = rb_count + 1 /\ rb_count # Capacity - 1
      BY <1>0, <2>1, CountAfterPush, CountExtremes
    <2>3. Queue' = [i \in 1 .. rb_count + 1 |-> buf[Wrap(tail + i - 1)]]
      BY <2>1, <2>2 DEF Queue
    <2>4. buf[Wrap(tail + (rb_count + 1) - 1)] = p_v
      <3>1. tail + (rb_count + 1) - 1 = tail + rb_count
        BY <1>0 DEF Index
      <3> QED
        BY <1>0, <2>1, <3>1, Positions
    <2>5. Queue' = Append(Queue, p_v)
      <3>1. /\ Append(Queue, p_v) \in Seq(Values)
            /\ Len(Append(Queue, p_v)) = rb_count + 1
            /\ \A i \in 1 .. rb_count : Append(Queue, p_v)[i] = Queue[i]
            /\ Append(Queue, p_v)[rb_count + 1] = p_v
        BY <1>0, <1>2, <2>1, AppendProperties
      <3>2. \A i \in 1 .. rb_count : Queue[i] = buf[Wrap(tail + i - 1)]
        BY DEF Queue
      <3>3. \A i \in 1 .. rb_count + 1 : Queue'[i] = Append(Queue, p_v)[i]
        <4> SUFFICES ASSUME NEW i \in 1 .. rb_count + 1
                     PROVE  Queue'[i] = Append(Queue, p_v)[i]
          OBVIOUS
        <4>1. i \in 1 .. rb_count \/ i = rb_count + 1
          BY <1>0
        <4> QED
          BY <2>3, <2>4, <3>1, <3>2, <4>1
      <3>4. Queue' \in Seq(Values) /\ Len(Queue') = rb_count + 1
        <4>1. \A i \in 1 .. rb_count : Queue[i] \in Values
          BY <1>1, <3>2 DEF FullSlotsHoldValues
        <4>2. \A i \in 1 .. rb_count + 1 : Append(Queue, p_v)[i] \in Values
          BY <1>0, <2>1, <3>1, <4>1
        <4>3. Queue' \in [1 .. rb_count + 1 -> Values]
          BY <2>3, <3>3, <4>2
        <4> QED
          BY <1>0, <4>3, SeqDef
      <3> QED
        BY <3>1, <3>3, <3>4, SeqEqual
    <2>6. Len(Queue) < Capacity - 1
      BY <1>0, <1>2, <2>2, RingAssumption
    <2> QED
      BY <2>1, <2>5, <2>6 DEF Fifo!Next, Fifo!Push
  <1>7. CASE TakeCheck
    <2>1. CASE c_t = head
      <3>1. c_t = tail /\ got' = Nothing /\ UNCHANGED <<buf, head, tail, stored>>
        BY <1>1, <1>7, <2>1 DEF TakeCheck, SidesAreCurrent
      <3>2. rb_count = 0
        BY <1>0, <2>1, <3>1, CountExtremes
      <3>3. Queue = <<>>
        BY <1>2, <3>2
      <3> QED
        BY <1>a, <3>1, <3>3 DEF Fifo!Next, Fifo!FindsEmpty
    <2>2. CASE c_t # head
      BY <1>3, <1>7, <2>2 DEF TakeCheck
    <2> QED
      BY <2>1, <2>2
  <1>8. CASE PeekRead
    <2>1. c_t = tail /\ head # tail /\ got' = buf[tail]
          /\ UNCHANGED <<buf, head, tail, stored>>
      BY <1>1, <1>8 DEF PeekRead, SidesAreCurrent
    <2>2. rb_count > 0
      BY <1>0, <2>1, CountExtremes
    <2>3. Queue # <<>> /\ Queue[1] = buf[tail]
      <3>1. 1 \in 1 .. rb_count /\ tail + 1 - 1 = tail
        BY <1>0, <2>2 DEF Index
      <3>2. Wrap(tail) = tail
        BY <1>0, <2>2, Positions
      <3> QED
        BY <1>2, <3>1, <3>2 DEF Queue
    <2> QED
      BY <1>a, <2>1, <2>3 DEF Fifo!Next, Fifo!Peek
  <1>9. CASE PopAdvance
    <2>1. /\ c_t = tail /\ head # tail /\ tail' = rb_inc(tail) /\ got' = buf[tail]
          /\ UNCHANGED <<buf, head, stored>>
      BY <1>1, <1>9 DEF PopAdvance, SidesAreCurrent
    <2>2. rb_count' = rb_count - 1 /\ rb_count > 0
      BY <1>0, <2>1, CountAfterPop, CountExtremes
    <2>3. Queue # <<>> /\ Queue[1] = buf[tail]
      <3>1. 1 \in 1 .. rb_count /\ tail + 1 - 1 = tail
        BY <1>0, <2>2 DEF Index
      <3>2. Wrap(tail) = tail
        BY <1>0, <2>2, Positions
      <3> QED
        BY <1>2, <3>1, <3>2 DEF Queue
    <2>4. Queue' = [i \in 1 .. rb_count - 1 |-> buf[Wrap(tail' + i - 1)]]
      BY <2>1, <2>2 DEF Queue
    <2>5. /\ Tail(Queue) \in Seq(Values) /\ Len(Tail(Queue)) = rb_count - 1
          /\ \A i \in 1 .. rb_count - 1 : Tail(Queue)[i] = Queue[i + 1]
      BY <1>0, <1>2, <2>3, HeadTailProperties
    <2>6. \A i \in 1 .. rb_count - 1 : buf[Wrap(tail' + i - 1)] = Queue[i + 1]
      <3> SUFFICES ASSUME NEW i \in 1 .. rb_count - 1
                   PROVE  buf[Wrap(tail' + i - 1)] = Queue[i + 1]
        OBVIOUS
      <3>1. i + 1 \in 1 .. rb_count /\ i \in 1 .. Capacity - 1
        BY <1>0, RingAssumption
      <3>2. Wrap(tail' + i - 1) = Wrap(tail + (i + 1) - 1)
        BY <1>0, <2>1, <3>1, PositionsAfterPop
      <3> QED
        BY <3>1, <3>2 DEF Queue
    <2>7. Queue' = Tail(Queue)
      <3>1. \A i \in 1 .. rb_count - 1 : Queue'[i] = Tail(Queue)[i]
        BY <2>4, <2>5, <2>6
      <3>2. Queue' \in Seq(Values) /\ Len(Queue') = rb_count - 1
        <4>1. \A i \in 1 .. rb_count - 1 : Tail(Queue)[i] \in Values
          BY <2>5, ElementOfSeq
        <4>2. Queue' \in [1 .. rb_count - 1 -> Values]
          BY <2>4, <3>1, <4>1
        <4>3. rb_count - 1 \in Nat
          BY <1>0, <2>2
        <4> QED
          BY <4>2, <4>3, SeqDef
      <3> QED
        BY <2>5, <3>1, <3>2, SeqEqual
    <2> QED
      BY <2>1, <2>3, <2>7 DEF Fifo!Next, Fifo!Pop
  <1>10. CASE Reset
    <2>1. rb_count' = 0 /\ UNCHANGED <<stored, got>>
      BY <1>10, RingAssumption DEF Reset, rb_count
    <2>2. Queue' = <<>>
      BY <2>1 DEF Queue
    <2> QED
      BY <2>1, <2>2 DEF Fifo!Next, Fifo!Reset
  <1> QED
    BY <1>3, <1>4, <1>5, <1>6, <1>7, <1>8, <1>9, <1>10
    DEF Next, Producer, Consumer, PushCall, AskFree, AskFull, TakeCall, TakeRead,
        AskCount, AskEmpty, vars

(* An initialised ring buffer is an empty queue. *)
LEMMA InitImplementsFifo == Init => Fifo!Init
  <1> SUFFICES ASSUME Init PROVE Fifo!Init
    OBVIOUS
  <1>1. rb_count = 0
    BY RingAssumption DEF Init, rb_count
  <1>2. Queue = <<>>
    BY <1>1 DEF Queue
  <1> QED
    BY <1>2 DEF Init, Fifo!Init

(* The ring buffer implements a FIFO queue of Capacity - 1 values between  *)
(* a producer and a consumer that run concurrently.                        *)
THEOREM Refinement == Spec => ImplementsFifo
  <1>1. IInv /\ [Next]_vars => [Fifo!Next]_Fifo!vars
    BY StepImplementsFifo
  <1> QED
    BY <1>1, InitImplementsFifo, Invariant, PTL DEF Spec, ImplementsFifo, Fifo!Spec
=============================================================================
