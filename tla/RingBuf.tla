------------------------------ MODULE RingBuf ------------------------------
(***************************************************************************)
(* common/src/ringbuf.c between one producer and one consumer that run     *)
(* concurrently ("ISR/PIO producer, main loop consumer", ringbuf.h).  Each *)
(* access to the other side's index and each access to a slot is a step.   *)
(* A side reads its own index at its call: nobody else writes it.  Stores  *)
(* and loads happen in program order.                                      *)
(***************************************************************************)
EXTENDS Integers, Sequences

CONSTANTS
  Capacity,  \* elements of buf; ringbuf_u32_init refuses fewer than 2
  Values,    \* what is pushed
  Nothing    \* not a value: a slot never written, a pop that failed

ASSUME RingAssumption ==
  /\ Capacity \in Nat /\ Capacity >= 2
  /\ Nothing \notin Values

VARIABLES
  buf, head, tail,        \* ringbuf_u32_t
  p_pc, p_v, p_h,         \* the push in progress: its argument, its h
  stored,                 \* what the last push returned
  c_pc, c_op, c_t, c_out, \* the pop or peek in progress: its t, its *out
  got,                    \* what the last pop or peek returned
  p_credit,  \* free slots the producer was last told of and has not used
  c_credit   \* values the consumer was last told of and has not taken

producer == <<p_pc, p_v, p_h, stored, p_credit>>
consumer == <<c_pc, c_op, c_t, c_out, got, c_credit>>
vars     == <<buf, head, tail, p_pc, p_v, p_h, stored,
              c_pc, c_op, c_t, c_out, got, p_credit, c_credit>>

Index == 0 .. Capacity - 1
Wrap(i) == IF i >= Capacity THEN i - Capacity ELSE i

rb_inc(idx) == Wrap(idx + 1)

(* ringbuf_u32_count; rb_free is ringbuf_u32_free. *)
rb_count == IF head >= tail THEN head - tail ELSE (Capacity - tail) + head
rb_free  == (Capacity - 1) - rb_count

(* ringbuf_u32_init does not touch the storage. *)
Init ==
  /\ buf = [i \in Index |-> Nothing] /\ head = 0 /\ tail = 0
  /\ p_pc = "idle" /\ p_v = Nothing /\ p_h = 0 /\ stored = TRUE
  /\ c_pc = "idle" /\ c_op = "pop" /\ c_t = 0 /\ c_out = Nothing /\ got = Nothing
  /\ p_credit = 0 /\ c_credit = 0

-----------------------------------------------------------------------------
(* ringbuf_u32_push, and the producer's questions.  The definitions marked *)
(* "mutant" are plausible bugs in the definition that follows them.        *)

PushCall(v) ==
  /\ p_pc = "idle"
  /\ p_pc' = "check" /\ p_v' = v /\ p_h' = head
  /\ UNCHANGED <<buf, head, tail, stored, p_credit, consumer>>

PushCheckSkipped ==                                             \* mutant
  /\ p_pc = "check"
  /\ p_pc' = "write"
  /\ UNCHANGED <<buf, head, tail, p_v, p_h, stored, p_credit, consumer>>
(* if (next == rb->tail) return false; *)
PushCheck ==
  /\ p_pc = "check"
  /\ IF rb_inc(p_h) = tail
     THEN p_pc' = "idle" /\ stored' = FALSE
     ELSE p_pc' = "write" /\ UNCHANGED stored
  /\ UNCHANGED <<buf, head, tail, p_v, p_h, p_credit, consumer>>

PushWrite ==
  /\ p_pc = "write"
  /\ buf' = [buf EXCEPT ![p_h] = p_v]
  /\ p_pc' = "publish"
  /\ UNCHANGED <<head, tail, p_v, p_h, stored, p_credit, consumer>>

(* rb->head = next; return true; *)
PushPublish ==
  /\ p_pc = "publish"
  /\ head' = rb_inc(p_h)
  /\ p_pc' = "idle" /\ stored' = TRUE
  /\ p_credit' = IF p_credit > 0 THEN p_credit - 1 ELSE 0
  /\ UNCHANGED <<buf, tail, p_v, p_h, consumer>>

(* ringbuf_u32_free *)
AskFree ==
  /\ p_pc = "idle"
  /\ p_credit' = rb_free
  /\ UNCHANGED <<buf, head, tail, p_pc, p_v, p_h, stored, consumer>>

AskFullComparesHead ==                                           \* mutant
  /\ p_pc = "idle"
  /\ p_credit' = IF head = tail THEN 0
                 ELSE IF p_credit > 0 THEN p_credit ELSE 1
  /\ UNCHANGED <<buf, head, tail, p_pc, p_v, p_h, stored, consumer>>
(* ringbuf_u32_is_full *)
AskFull ==
  /\ p_pc = "idle"
  /\ p_credit' = IF rb_inc(head) = tail THEN 0
                 ELSE IF p_credit > 0 THEN p_credit ELSE 1
  /\ UNCHANGED <<buf, head, tail, p_pc, p_v, p_h, stored, consumer>>

-----------------------------------------------------------------------------
(* ringbuf_u32_pop and ringbuf_u32_peek, and the consumer's questions. *)

TakeCall(op) ==
  /\ c_pc = "idle"
  /\ c_pc' = "check" /\ c_op' = op /\ c_t' = tail
  /\ UNCHANGED <<buf, head, tail, c_out, got, c_credit, producer>>

(* if (t == rb->head) return false; *)
TakeCheck ==
  /\ c_pc = "check"
  /\ IF c_t = head
     THEN c_pc' = "idle" /\ got' = Nothing
     ELSE c_pc' = "read" /\ UNCHANGED got
  /\ UNCHANGED <<buf, head, tail, c_op, c_t, c_out, c_credit, producer>>

TakeReadFreesFirst ==                                            \* mutant
  /\ c_pc = "read"
  /\ c_op = "pop"
  /\ tail' = rb_inc(c_t)
  /\ c_pc' = "advance"
  /\ UNCHANGED <<buf, head, c_op, c_t, c_out, got, c_credit, producer>>
TakeRead ==
  /\ c_pc = "read"
  /\ c_op = "pop"
  /\ c_out' = buf[c_t]
  /\ c_pc' = "advance"
  /\ UNCHANGED <<buf, head, tail, c_op, c_t, got, c_credit, producer>>

PeekRead ==
  /\ c_pc = "read"
  /\ c_op = "peek"
  /\ c_out' = buf[c_t] /\ got' = buf[c_t]
  /\ c_pc' = "idle"
  /\ UNCHANGED <<buf, head, tail, c_op, c_t, c_credit, producer>>

(* rb->tail = rb_inc(t, rb->capacity); return true; *)
PopAdvance ==
  /\ c_pc = "advance"
  /\ tail' = rb_inc(c_t)
  /\ c_pc' = "idle" /\ got' = c_out
  /\ c_credit' = IF c_credit > 0 THEN c_credit - 1 ELSE 0
  /\ UNCHANGED <<buf, head, c_op, c_t, c_out, producer>>

(* ringbuf_u32_count *)
AskCount ==
  /\ c_pc = "idle"
  /\ c_credit' = rb_count
  /\ UNCHANGED <<buf, head, tail, c_pc, c_op, c_t, c_out, got, producer>>

(* ringbuf_u32_is_empty *)
AskEmpty ==
  /\ c_pc = "idle"
  /\ c_credit' = IF head = tail THEN 0 ELSE IF c_credit > 0 THEN c_credit ELSE 1
  /\ UNCHANGED <<buf, head, tail, c_pc, c_op, c_t, c_out, got, producer>>

(* ringbuf_u32_reset, as main() calls it: while nobody pushes or pops. *)
Reset ==
  /\ p_pc = "idle" /\ c_pc = "idle"
  /\ head' = 0 /\ tail' = 0
  /\ p_credit' = 0 /\ c_credit' = 0
  /\ UNCHANGED <<buf, p_pc, p_v, p_h, stored, c_pc, c_op, c_t, c_out, got>>

-----------------------------------------------------------------------------
Producer == (\E v \in Values : PushCall(v)) \/ PushCheck \/ PushWrite \/ PushPublish
            \/ AskFree \/ AskFull
Consumer == (\E op \in {"pop", "peek"} : TakeCall(op)) \/ TakeCheck \/ TakeRead
            \/ PeekRead \/ PopAdvance \/ AskCount \/ AskEmpty

Next == Producer \/ Consumer \/ Reset

Spec == Init /\ [][Next]_vars

-----------------------------------------------------------------------------
(* The values between tail and head, oldest first. *)
Queue == [i \in 1 .. rb_count |-> buf[Wrap(tail + i - 1)]]

Fifo == INSTANCE BoundedFifo WITH Slots <- Capacity - 1, queue <- Queue

(* The indices stay inside buf, and only values are ever handed out. *)
TypeOK ==
  /\ buf \in [Index -> Values \cup {Nothing}]
  /\ head \in Index /\ tail \in Index
  /\ p_pc \in {"idle", "check", "write", "publish"}
  /\ p_v \in Values \cup {Nothing} /\ (p_pc # "idle" => p_v \in Values)
  /\ p_h \in Index /\ stored \in BOOLEAN
  /\ c_pc \in {"idle", "check", "read", "advance"}
  /\ c_op \in {"pop", "peek"} /\ (c_pc = "advance" => c_op = "pop")
  /\ c_t \in Index
  /\ c_out \in Values \cup {Nothing} /\ got \in Values \cup {Nothing}
  /\ p_credit \in 0 .. Capacity - 1 /\ c_credit \in 0 .. Capacity - 1

(* The ring buffer is a bounded FIFO although a push and a pop overlap:    *)
(* nothing is lost, invented, reordered or overwritten, a push fails only  *)
(* when the buffer is full and a pop only when it is empty.                *)
ImplementsFifo == Fifo!Spec

(* The two sides never access the same slot at the same time, so the plain *)
(* (non-volatile) slot accesses do not race.                               *)
NoSlotRace == ~(p_pc = "write" /\ c_pc = "read" /\ p_h = c_t)

(* What a side was told stays true while the other side keeps running: as  *)
(* many pushes succeed as free() or is_full() promised, and as many pops   *)
(* as count() or is_empty() promised.                                      *)
AnswersArePromises == p_credit <= rb_free /\ c_credit <= rb_count
=============================================================================
