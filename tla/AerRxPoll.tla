----------------------------- MODULE AerRxPoll -----------------------------
(***************************************************************************)
(* One receiver polling one transmitter over the 4-phase delay-insensitive *)
(* link: pico_aer_rx/aer_rx_poll.c, the transmitter that README.md section *)
(* 4 and host/aer_tx_model.c describe, and the raw ring buffer between the *)
(* receiver and its consumer.                                              *)
(*                                                                         *)
(* DATA is the set of wires that are high; {} is neutral.  Every read of   *)
(* the bus, every write of ACK and every ring buffer operation is a step   *)
(* of its own, so the transmitter and the consumer may move between them.  *)
(***************************************************************************)
EXTENDS Integers, Sequences

CONSTANTS
  Words,           \* the words the transmitter sends, as sets of wires
  Skew,            \* wires rise and fall one at a time
  ValidTimeout,    \* wait_valid_timeout_us # 0
  NeutralTimeout,  \* wait_neutral_timeout_us # 0
  RbSlots,         \* elements the ring buffer holds: its capacity - 1
  StatMod          \* the range of the uint32_t counters (2^32 in the code)

ASSUME LinkAssumption ==
  /\ \A w \in Words : w # {}
  /\ Skew \in BOOLEAN
  /\ ValidTimeout \in BOOLEAN
  /\ NeutralTimeout \in BOOLEAN
  /\ RbSlots \in Nat \ {0}
  /\ StatMod \in Nat \ {0}

VARIABLES
  data,     \* the DATA bus
  ack,      \* the ACK wire
  tx_pc,    \* the transmitter's phase
  tx_word,  \* the word it sends, or sent last
  rx_pc,    \* where aer_rx_poll_step is
  rx_word,  \* its local "word", as last latched
  rb,       \* contents of the ring buffer, oldest first
  stats,    \* aer_rx_poll_stats_t
  status,   \* what the last completed step returned
  copies,   \* history: how often tx_word was latched: 0, 1, or 2 for more
  latched,  \* history: words latched since the statistics were cleared
  pushed    \* history: words stored in rb since then

bus     == <<data, ack>>
tx      == <<tx_pc, tx_word>>
rx      == <<rx_pc, rx_word, stats, status>>
history == <<copies, latched, pushed>>
vars    == <<data, ack, tx_pc, tx_word, rx_pc, rx_word, rb, stats, status,
             copies, latched, pushed>>

Wires  == UNION Words
Raws   == SUBSET Wires
Tick(n) == (n + 1) % StatMod

TxPhases   == {"idle", "drive", "clear"}
Waiting    == {"idle", "wait_valid", "valid_late"}     \* no word in hand
Latched    == {"ack", "check_full", "push"}            \* word not yet stored
Finishing  == {"wait_neutral", "neutral_late", "deassert"}
RxPhases   == Waiting \cup Latched \cup Finishing
Statuses   == {"OK", "TIMEOUT_WAIT_VALID", "TIMEOUT_WAIT_NEUTRAL"}

ZeroStats == [words_ok |-> 0, dropped_full |-> 0,
              timeouts_valid |-> 0, timeouts_neutral |-> 0]

(* aer_rx_poll_init, after hal_gpio_init and ringbuf_u32_init. *)
Init ==
  /\ data = {} /\ ack = FALSE
  /\ tx_pc = "idle" /\ tx_word \in Words
  /\ rx_pc = "idle" /\ rx_word = {}
  /\ rb = <<>>
  /\ stats = ZeroStats /\ status = "OK"
  /\ copies = 0 /\ latched = 0 /\ pushed = 0

-----------------------------------------------------------------------------
(* The transmitter.  It takes DATA back to neutral only when it has driven *)
(* the whole word and sees ACK, and it starts a word only when DATA is     *)
(* neutral and ACK is low.                                                 *)

TxStart(w) ==
  /\ tx_pc = "idle"
  /\ tx_pc' = "drive"
  /\ tx_word' = w
  /\ copies' = 0
  /\ UNCHANGED <<bus, rx, rb, latched, pushed>>

TxRaise ==
  /\ tx_pc = "drive"
  /\ data # tx_word
  /\ IF Skew THEN \E wire \in tx_word \ data : data' = data \cup {wire}
             ELSE data' = tx_word
  /\ UNCHANGED <<ack, tx, rx, rb, history>>

TxSeeAck ==
  /\ tx_pc = "drive"
  /\ data = tx_word
  /\ ack
  /\ tx_pc' = "clear"
  /\ UNCHANGED <<bus, tx_word, rx, rb, history>>

TxLower ==
  /\ tx_pc = "clear"
  /\ data # {}
  /\ IF Skew THEN \E wire \in data : data' = data \ {wire}
             ELSE data' = {}
  /\ UNCHANGED <<ack, tx, rx, rb, history>>

TxDone ==
  /\ tx_pc = "clear"
  /\ data = {}
  /\ ~ack
  /\ tx_pc' = "idle"
  /\ UNCHANGED <<bus, tx_word, rx, rb, history>>

-----------------------------------------------------------------------------
(* aer_rx_poll_step.  The definitions marked "mutant" are plausible bugs   *)
(* in the definition that follows them; nothing else uses them.            *)

(* ACK is forced low before a new word. *)
StepCall ==
  /\ rx_pc = "idle"
  /\ ack' = FALSE
  /\ rx_pc' = "wait_valid"
  /\ UNCHANGED <<data, tx, rx_word, rb, stats, status, history>>

ReadValidKeepsBits ==                                            \* mutant
  /\ rx_pc = "wait_valid"
  /\ data # {}
  /\ rx_pc' = "ack"
  /\ rx_word' = data \cup rx_word
  /\ copies' = IF copies = 0 THEN 1 ELSE 2
  /\ latched' = Tick(latched)
  /\ UNCHANGED <<bus, tx, rb, stats, status, pushed>>
(* raw = hal_gpio_read_data_raw(); if (raw != 0u) break; word = raw *)
ReadValid ==
  /\ rx_pc = "wait_valid"
  /\ data # {}
  /\ rx_pc' = "ack"
  /\ rx_word' = data
  /\ copies' = IF copies = 0 THEN 1 ELSE 2
  /\ latched' = Tick(latched)
  /\ UNCHANGED <<bus, tx, rb, stats, status, pushed>>

ReadNotValid ==
  /\ rx_pc = "wait_valid"
  /\ data = {}
  /\ rx_pc' = "valid_late"
  /\ UNCHANGED <<bus, tx, rx_word, rb, stats, status, history>>

ValidNotExpired ==
  /\ rx_pc = "valid_late"
  /\ rx_pc' = "wait_valid"
  /\ UNCHANGED <<bus, tx, rx_word, rb, stats, status, history>>

ValidExpired ==
  /\ rx_pc = "valid_late"
  /\ ValidTimeout
  /\ rx_pc' = "idle"
  /\ stats' = [stats EXCEPT !.timeouts_valid = Tick(@)]
  /\ status' = "TIMEOUT_WAIT_VALID"
  /\ UNCHANGED <<bus, tx, rx_word, rb, history>>

AssertAckForgotten ==                                            \* mutant
  /\ rx_pc = "ack"
  /\ rx_pc' = "check_full"
  /\ UNCHANGED <<bus, tx, rx_word, rb, stats, status, history>>
AssertAck ==
  /\ rx_pc = "ack"
  /\ ack' = TRUE
  /\ rx_pc' = "check_full"
  /\ UNCHANGED <<data, tx, rx_word, rb, stats, status, history>>

CheckFullOneEarly ==                                             \* mutant
  /\ rx_pc = "check_full"
  /\ IF Len(rb) + 1 = RbSlots
     THEN /\ rx_pc' = "wait_neutral"
          /\ stats' = [stats EXCEPT !.dropped_full = Tick(@)]
     ELSE /\ rx_pc' = "push"
          /\ UNCHANGED stats
  /\ UNCHANGED <<bus, tx, rx_word, rb, status, history>>
CheckFullSkipped ==                                              \* mutant
  /\ rx_pc = "check_full"
  /\ rx_pc' = "push"
  /\ UNCHANGED <<bus, tx, rx_word, rb, stats, status, history>>
(* if (ringbuf_u32_is_full(rx->rb)) rx->stats.dropped_full++; *)
CheckFull ==
  /\ rx_pc = "check_full"
  /\ IF Len(rb) = RbSlots
     THEN /\ rx_pc' = "wait_neutral"
          /\ stats' = [stats EXCEPT !.dropped_full = Tick(@)]
     ELSE /\ rx_pc' = "push"
          /\ UNCHANGED stats
  /\ UNCHANGED <<bus, tx, rx_word, rb, status, history>>

(* (void)ringbuf_u32_push(...): a push into a full buffer is silent. *)
Push ==
  /\ rx_pc = "push"
  /\ rx_pc' = "wait_neutral"
  /\ IF Len(rb) < RbSlots
     THEN rb' = Append(rb, rx_word) /\ pushed' = Tick(pushed)
     ELSE UNCHANGED <<rb, pushed>>
  /\ UNCHANGED <<bus, tx, rx_word, stats, status, copies, latched>>

ReadNeutralBlind ==                                              \* mutant
  /\ rx_pc = "wait_neutral"
  /\ rx_pc' = "deassert"
  /\ UNCHANGED <<bus, tx, rx_word, rb, stats, status, history>>
ReadNeutral ==
  /\ rx_pc = "wait_neutral"
  /\ data = {}
  /\ rx_pc' = "deassert"
  /\ UNCHANGED <<bus, tx, rx_word, rb, stats, status, history>>

ReadNotNeutral ==
  /\ rx_pc = "wait_neutral"
  /\ data # {}
  /\ rx_pc' = "neutral_late"
  /\ UNCHANGED <<bus, tx, rx_word, rb, stats, status, history>>

NeutralNotExpired ==
  /\ rx_pc = "neutral_late"
  /\ rx_pc' = "wait_neutral"
  /\ UNCHANGED <<bus, tx, rx_word, rb, stats, status, history>>

(* "recovery: drop ACK and return", on the word of a read that is past. *)
NeutralExpired ==
  /\ rx_pc = "neutral_late"
  /\ NeutralTimeout
  /\ ack' = FALSE
  /\ rx_pc' = "idle"
  /\ stats' = [stats EXCEPT !.timeouts_neutral = Tick(@)]
  /\ status' = "TIMEOUT_WAIT_NEUTRAL"
  /\ UNCHANGED <<data, tx, rx_word, rb, history>>

Deassert ==
  /\ rx_pc = "deassert"
  /\ ack' = FALSE
  /\ rx_pc' = "idle"
  /\ stats' = [stats EXCEPT !.words_ok = Tick(@)]
  /\ status' = "OK"
  /\ UNCHANGED <<data, tx, rx_word, rb, history>>

-----------------------------------------------------------------------------
(* aer_rx_poll_reset, between two steps. *)
Reset ==
  /\ rx_pc = "idle"
  /\ stats' = ZeroStats
  /\ ack' = FALSE
  /\ latched' = 0 /\ pushed' = 0
  /\ UNCHANGED <<data, tx, rx_pc, rx_word, rb, status, copies>>

(* ringbuf_u32_pop by the consumer, which may run beside the receiver. *)
Pop ==
  /\ rb # <<>>
  /\ rb' = Tail(rb)
  /\ UNCHANGED <<bus, tx, rx, history>>

Transmitter == TxRaise \/ TxSeeAck \/ TxLower \/ TxDone

Receiver ==
  \/ StepCall
  \/ ReadValid \/ ReadNotValid \/ ValidNotExpired \/ ValidExpired
  \/ AssertAck \/ CheckFull \/ Push
  \/ ReadNeutral \/ ReadNotNeutral \/ NeutralNotExpired \/ NeutralExpired
  \/ Deassert

Next ==
  \/ \E w \in Words : TxStart(w)
  \/ Transmitter
  \/ Receiver
  \/ Reset
  \/ Pop

(* The transmitter completes a word it has begun; the receiver's loop runs. *)
(* Nothing obliges the sensor to start a word or the consumer to pop one.  *)
Fairness == WF_vars(Transmitter) /\ WF_vars(Receiver)

Spec == Init /\ [][Next]_vars /\ Fairness

-----------------------------------------------------------------------------
(* The word in transit: the one the transmitter has begun and the receiver *)
(* has not latched, then the one latched and not yet stored or dropped.    *)
Chan == IF rx_pc \in Latched THEN <<rx_word>>
        ELSE IF rx_pc \in Waiting /\ tx_pc = "drive" THEN <<tx_word>>
        ELSE <<>>

Channel == INSTANCE HandshakeChannel
             WITH Garble <- Skew, Slots <- RbSlots, DropMod <- StatMod,
                  chan <- Chan, queue <- rb, dropped <- stats.dropped_full

(* The bus carries wires of words only, the counters stay in the range of  *)
(* uint32_t, the ring buffer never holds more than its capacity - 1.       *)
TypeOK ==
  /\ data \in Raws /\ ack \in BOOLEAN
  /\ tx_pc \in TxPhases /\ tx_word \in Words
  /\ rx_pc \in RxPhases /\ rx_word \in Raws
  /\ rb \in Seq(Raws) /\ Len(rb) <= RbSlots
  /\ stats \in [words_ok : 0 .. StatMod - 1, dropped_full : 0 .. StatMod - 1,
                timeouts_valid : 0 .. StatMod - 1,
                timeouts_neutral : 0 .. StatMod - 1]
  /\ status \in Statuses
  /\ copies \in 0 .. 2
  /\ latched \in 0 .. StatMod - 1 /\ pushed \in 0 .. StatMod - 1

(* Without the neutral timeout aer_rx_poll_step implements the channel:    *)
(* every word sent is stored exactly once, in order, or counted in         *)
(* dropped_full because the buffer really was full; with skewed wires the  *)
(* stored word may lack wires, but it is still one word for one word.      *)
ImplementsChannel == Channel!Spec

(* Without the neutral timeout the two sides stay in step, which is what   *)
(* makes the code safe although every decision rests on an earlier read:   *)
(* ACK is high exactly from latch to release, a word in hand is nonempty   *)
(* and part of the word being sent, its wires stay up until the receiver   *)
(* has acknowledged, a word that was acknowledged is not read again, and   *)
(* the space seen by the full check is still there at the push.            *)
InStep ==
  /\ data \subseteq tx_word
  /\ tx_pc = "drive" /\ ~Skew => data \in {{}, tx_word}
  /\ tx_pc = "idle" => data = {}
  /\ ack <=> rx_pc \in {"check_full", "push"} \cup Finishing
  /\ rx_pc \in Latched \cup Finishing =>
       /\ tx_pc # "idle"
       /\ rx_word # {} /\ rx_word \subseteq tx_word
       /\ ~Skew => rx_word = tx_word
       /\ tx_pc = "drive" => data # {}
  /\ rx_pc = "ack" => tx_pc = "drive"
  /\ rx_pc = "deassert" => tx_pc = "clear" /\ data = {}
  /\ rx_pc \in Waiting /\ tx_pc = "clear" => data = {}
  /\ rx_pc = "push" => Len(rb) < RbSlots

(* README.md section 4: ACK rises only while DATA is non-neutral and falls *)
(* only while DATA is neutral, although the receiver acts on an earlier    *)
(* read of the bus.                                                        *)
AckFollowsData ==
  [][ /\ ~ack /\ ack' => data # {}
      /\ ack /\ ~ack' => data = {} ]_vars

(* A word latched while its wires are still rising is never taken for      *)
(* another word: what was latched is the word being sent, or no word.      *)
SkewNeverForges == rx_pc \in Latched \cup Finishing /\ rx_word \in Words => rx_word = tx_word

(* Every latched word is stored, counted in dropped_full or still in hand, *)
(* and it ends in words_ok or in timeouts_neutral: the statistics account  *)
(* for every word, through full buffers, timeouts and wrapped counters.    *)
WordsAccounted ==
  LET inHand(phases) == IF rx_pc \in phases THEN 1 ELSE 0
  IN /\ latched = (pushed + stats.dropped_full + inHand(Latched)) % StatMod
     /\ latched = (stats.words_ok + stats.timeouts_neutral
                     + inHand(Latched \cup Finishing)) % StatMod

(* A word is latched a second time only when the step before gave up       *)
(* waiting for neutral and said so.                                        *)
DuplicateOnlyAfterTimeout ==
  rx_pc \in Latched \cup Finishing /\ copies > 1 => status = "TIMEOUT_WAIT_NEUTRAL"

(* Once the transmitter drives a word, the four phases complete. *)
EveryWordCompletes == tx_pc = "drive" ~> tx_pc = "idle"

(* README.md section 4: the receiver "detects valid DATA, latches it, then *)
(* asserts ACK": the transmitter is never acknowledged for a word that was *)
(* not latched.                                                            *)
AckMeansLatched == [][ tx_pc = "drive" /\ tx_pc' = "clear" => copies > 0 ]_vars
=============================================================================
