-------------------------- MODULE AerRxPoll_proofs --------------------------
(***************************************************************************)
(* What AerRxPoll promises, proved for every set of words, every buffer    *)
(* capacity and every counter width.  Under any configuration: the types,  *)
(* that a word latched twice is announced, and that the statistics account *)
(* for every word.  When the neutral timeout is off (as pico_aer_rx.c      *)
(* configures it): that the two sides stay in step, that ACK follows DATA, *)
(* that skew never turns a word into another one, and that the receiver    *)
(* implements HandshakeChannel; IInv is the inductive invariant of these.  *)
(***************************************************************************)
EXTENDS AerRxPoll, SequenceTheorems, TLAPS

IInv == TypeOK /\ InStep

(* A wrapping counter stays in the range of its type. *)
LEMMA TickInRange ==
  ASSUME NEW n \in 0 .. StatMod - 1
  PROVE  Tick(n) \in 0 .. StatMod - 1
  BY LinkAssumption DEF Tick

(* The receiver's and the transmitter's first state has the right types. *)
LEMMA InitTypeOK == Init => TypeOK
  <1> SUFFICES ASSUME Init PROVE TypeOK
    OBVIOUS
  <1>1. 0 \in 0 .. StatMod - 1 /\ 0 <= RbSlots /\ Len(<<>>) = 0 /\ <<>> \in Seq(Raws)
    BY LinkAssumption
  <1>2. ZeroStats \in [words_ok : 0 .. StatMod - 1, dropped_full : 0 .. StatMod - 1,
                       timeouts_valid : 0 .. StatMod - 1,
                       timeouts_neutral : 0 .. StatMod - 1]
    BY <1>1 DEF ZeroStats
  <1>3. data \in Raws /\ rx_word \in Raws
    BY DEF Init, Raws
  <1>4. tx_pc \in TxPhases /\ rx_pc \in RxPhases /\ status \in Statuses /\ copies \in 0 .. 2
    BY DEF Init, TxPhases, RxPhases, Waiting, Statuses
  <1> QED
    BY <1>1, <1>2, <1>3, <1>4 DEF Init, TypeOK

(* Every step keeps the types: one step for each action. *)
LEMMA NextTypeOK == TypeOK /\ [Next]_vars => TypeOK'
  <1> SUFFICES ASSUME TypeOK, [Next]_vars PROVE TypeOK'
    OBVIOUS
  <1> USE DEF TypeOK, bus, tx, rx, history
  <1>1. ASSUME NEW w \in Words, TxStart(w) PROVE TypeOK'
    BY <1>1 DEF TxStart, TxPhases
  <1>2. CASE TxRaise
    <2>1. data' \in Raws
      BY <1>2 DEF TxRaise, Raws, Wires
    <2> QED
      BY <1>2, <2>1 DEF TxRaise
  <1>3. CASE TxSeeAck
    BY <1>3 DEF TxSeeAck, TxPhases
  <1>4. CASE TxLower
    <2>1. data' \in Raws
      BY <1>4 DEF TxLower, Raws
    <2> QED
      BY <1>4, <2>1 DEF TxLower
  <1>5. CASE TxDone
    BY <1>5 DEF TxDone, TxPhases
  <1>6. CASE StepCall
    BY <1>6 DEF StepCall, RxPhases, Waiting
  <1>7. CASE ReadValid
    <2>1. latched' \in 0 .. StatMod - 1
      BY <1>7, TickInRange DEF ReadValid
    <2> QED
      BY <1>7, <2>1 DEF ReadValid, RxPhases, Latched
  <1>8. CASE ReadNotValid
    BY <1>8 DEF ReadNotValid, RxPhases, Waiting
  <1>9. CASE ValidNotExpired
    BY <1>9 DEF ValidNotExpired, RxPhases, Waiting
  <1>10. CASE ValidExpired
    BY <1>10, TickInRange DEF ValidExpired, RxPhases, Waiting, Statuses
  <1>11. CASE AssertAck
    BY <1>11 DEF AssertAck, RxPhases, Latched
  <1>12. CASE CheckFull
    <2>1. CASE Len(rb) = RbSlots
      BY <1>12, <2>1, TickInRange DEF CheckFull, RxPhases, Finishing
    <2>2. CASE Len(rb) # RbSlots
      BY <1>12, <2>2 DEF CheckFull, RxPhases, Latched
    <2> QED
      BY <2>1, <2>2
  <1>13. CASE Push
    <2>1. CASE Len(rb) < RbSlots
      <3>1. rb' \in Seq(Raws) /\ Len(rb') <= RbSlots
        BY <1>13, <2>1, LinkAssumption DEF Push
      <3>2. pushed' \in 0 .. StatMod - 1
        BY <1>13, <2>1, TickInRange DEF Push
      <3> QED
        BY <1>13, <3>1, <3>2 DEF Push, RxPhases, Finishing
    <2>2. CASE ~(Len(rb) < RbSlots)
      BY <1>13, <2>2 DEF Push, RxPhases, Finishing
    <2> QED
      BY <2>1, <2>2
  <1>14. CASE ReadNeutral
    BY <1>14 DEF ReadNeutral, RxPhases, Finishing
  <1>15. CASE ReadNotNeutral
    BY <1>15 DEF ReadNotNeutral, RxPhases, Finishing
  <1>16. CASE NeutralNotExpired
    BY <1>16 DEF NeutralNotExpired, RxPhases, Finishing
  <1>17. CASE NeutralExpired
    BY <1>17, TickInRange DEF NeutralExpired, RxPhases, Waiting, Statuses
  <1>18. CASE Deassert
    BY <1>18, TickInRange DEF Deassert, RxPhases, Waiting, Statuses
  <1>19. CASE Reset
    <2>1. 0 \in 0 .. StatMod - 1
      BY LinkAssumption
    <2>2. ZeroStats \in [words_ok : 0 .. StatMod - 1, dropped_full : 0 .. StatMod - 1,
                         timeouts_valid : 0 .. StatMod - 1,
                         timeouts_neutral : 0 .. StatMod - 1]
      BY <2>1 DEF ZeroStats
    <2> QED
      BY <1>19, <2>1, <2>2 DEF Reset
  <1>20. CASE Pop
    <2>1. rb' \in Seq(Raws) /\ Len(rb') <= RbSlots
      BY <1>20, LinkAssumption DEF Pop
    <2> QED
      BY <1>20, <2>1 DEF Pop
  <1>21. CASE UNCHANGED vars
    BY <1>21 DEF vars
  <1> QED
    BY <1>1, <1>2, <1>3, <1>4, <1>5, <1>6, <1>7, <1>8, <1>9, <1>10, <1>11, <1>12,
       <1>13, <1>14, <1>15, <1>16, <1>17, <1>18, <1>19, <1>20, <1>21
    DEF Next, Transmitter, Receiver

(* Types hold in every configuration, with skew and with both timeouts. *)
THEOREM TypeCorrect == Spec => []TypeOK
  BY InitTypeOK, NextTypeOK, PTL DEF Spec
-----------------------------------------------------------------------------
(* With the neutral timeout off the two sides stay in step: one case for   *)
(* each action.  Only the neutral timeout breaks this, which is why the    *)
(* link theorems assume it off.                                            *)
LEMMA NextInStep ==
  ASSUME ~NeutralTimeout, TypeOK, InStep, [Next]_vars
  PROVE  InStep'
  <1> USE DEF InStep, bus, tx, rx, history
  <1>0. tx_pc \in TxPhases /\ rx_pc \in RxPhases /\ Skew \in BOOLEAN /\ ack \in BOOLEAN
    BY LinkAssumption DEF TypeOK
  <1> USE DEF TxPhases, RxPhases, Waiting, Latched, Finishing
  <1>1. ASSUME NEW w \in Words, TxStart(w) PROVE InStep'
    BY <1>0, <1>1 DEF TxStart
  <1>2. CASE TxRaise
    <2>1. data' \subseteq tx_word /\ (data # {} => data' # {})
          /\ (~Skew => data' = tx_word) /\ tx_pc = "drive"
      BY <1>2 DEF TxRaise
    <2>2. UNCHANGED <<ack, tx_pc, tx_word, rx_pc, rx_word, rb>>
      BY <1>2 DEF TxRaise
    <2> QED
      BY <1>0, <2>1, <2>2
  <1>3. CASE TxSeeAck
    BY <1>0, <1>3 DEF TxSeeAck
  <1>4. CASE TxLower
    <2>1. data' \subseteq data /\ data # {} /\ tx_pc = "clear"
      BY <1>4 DEF TxLower
    <2>2. UNCHANGED <<ack, tx_pc, tx_word, rx_pc, rx_word, rb>>
      BY <1>4 DEF TxLower
    <2> QED
      BY <1>0, <2>1, <2>2
  <1>5. CASE TxDone
    BY <1>0, <1>5 DEF TxDone
  <1>6. CASE StepCall
    BY <1>0, <1>6 DEF StepCall
  <1>7. CASE ReadValid
    BY <1>0, <1>7 DEF ReadValid
  <1>8. CASE ReadNotValid
    BY <1>0, <1>8 DEF ReadNotValid
  <1>9. CASE ValidNotExpired
    BY <1>0, <1>9 DEF ValidNotExpired
  <1>10. CASE ValidExpired
    BY <1>0, <1>10 DEF ValidExpired
  <1>11. CASE AssertAck
    BY <1>0, <1>11 DEF AssertAck
  <1>12. CASE CheckFull
    <2>1. rx_pc' = "push" => Len(rb) < RbSlots
      BY <1>12, LinkAssumption DEF CheckFull, TypeOK
    <2> QED
      BY <1>0, <1>12, <2>1 DEF CheckFull
  <1>13. CASE Push
    BY <1>0, <1>13 DEF Push
  <1>14. CASE ReadNeutral
    BY <1>0, <1>14 DEF ReadNeutral
  <1>15. CASE ReadNotNeutral
    BY <1>0, <1>15 DEF ReadNotNeutral
  <1>16. CASE NeutralNotExpired
    BY <1>0, <1>16 DEF NeutralNotExpired
  <1>17. CASE NeutralExpired
    BY <1>17 DEF NeutralExpired
  <1>18. CASE Deassert
    BY <1>0, <1>18 DEF Deassert
  <1>19. CASE Reset
    BY <1>0, <1>19 DEF Reset
  <1>20. CASE Pop
    <2>1. rb # <<>> /\ rb' = Tail(rb) /\ rb \in Seq(Raws)
      BY <1>20 DEF Pop, TypeOK
    <2>2. Len(rb') = Len(rb) - 1 /\ Len(rb) \in Nat
      BY <2>1
    <2> QED
      BY <1>20, <2>2, LinkAssumption DEF Pop
  <1>21. CASE UNCHANGED vars
    BY <1>21 DEF vars
  <1> QED
    BY <1>1, <1>2, <1>3, <1>4, <1>5, <1>6, <1>7, <1>8, <1>9, <1>10, <1>11, <1>12,
       <1>13, <1>14, <1>15, <1>16, <1>17, <1>18, <1>19, <1>20, <1>21
    DEF Next, Transmitter, Receiver

(* The two sides start in step. *)
LEMMA InitInStep == Init => InStep
  BY DEF Init, InStep, Waiting, Latched, Finishing

(* What is inductive is InStep together with the types. *)
LEMMA Inductive == ~NeutralTimeout => (Spec => []IInv)
  <1> SUFFICES ASSUME ~NeutralTimeout PROVE Spec => []IInv
    OBVIOUS
  <1>1. Init => IInv
    BY InitTypeOK, InitInStep DEF IInv
  <1>2. IInv /\ [Next]_vars => IInv'
    BY NextTypeOK, NextInStep DEF IInv
  <1> QED
    BY <1>1, <1>2, PTL DEF Spec

(* Without the neutral timeout the four phases are never out of step. *)
THEOREM StaysInStep == ~NeutralTimeout => (Spec => []InStep)
  <1> SUFFICES ASSUME ~NeutralTimeout PROVE Spec => []InStep
    OBVIOUS
  <1>1. IInv => InStep
    BY DEF IInv
  <1> QED
    BY <1>1, Inductive, PTL

(* README.md 4.1 of every configuration whose neutral timeout is off: ACK  *)
(* rises while DATA is non-neutral and falls while DATA is neutral.        *)
THEOREM AckCorrect == ~NeutralTimeout => (Spec => AckFollowsData)
  <1> SUFFICES ASSUME ~NeutralTimeout PROVE Spec => AckFollowsData
    OBVIOUS
  <1> DEFINE Good == /\ ~ack /\ ack' => data # {}
                     /\ ack /\ ~ack' => data = {}
  <1>1. IInv /\ [Next]_vars => [Good]_vars
    <2> SUFFICES ASSUME IInv, Next PROVE Good
      BY DEF vars
    <2> USE DEF IInv, InStep, bus, Waiting, Latched, Finishing
    <2>1. CASE AssertAck
      BY <2>1 DEF AssertAck
    <2>2. CASE Deassert
      BY <2>2 DEF Deassert
    <2>3. CASE StepCall \/ Reset
      BY <2>3 DEF StepCall, Reset
    <2>4. CASE UNCHANGED ack
      BY <2>4
    <2> QED
      BY <2>1, <2>2, <2>3, <2>4
      DEF Next, Transmitter, Receiver, TxStart, TxRaise, TxSeeAck, TxLower, TxDone,
          ReadValid, ReadNotValid, ValidNotExpired, ValidExpired, CheckFull, Push,
          ReadNeutral, ReadNotNeutral, NeutralNotExpired, NeutralExpired, Pop
  <1> QED
    BY <1>1, Inductive, PTL DEF Spec, AckFollowsData

(* No word is part of another one: what a delay-insensitive code ensures. *)
DelayInsensitive == \A v, w \in Words : v \subseteq w => v = w

(* Over a delay-insensitive code a word latched too early is no other word. *)
THEOREM NeverForges == ~NeutralTimeout /\ DelayInsensitive => (Spec => []SkewNeverForges)
  <1> SUFFICES ASSUME ~NeutralTimeout, DelayInsensitive PROVE Spec => []SkewNeverForges
    OBVIOUS
  <1>1. IInv => SkewNeverForges
    BY DEF IInv, TypeOK, InStep, SkewNeverForges, DelayInsensitive
  <1> QED
    BY <1>1, Inductive, PTL

-----------------------------------------------------------------------------
(* Every step of the link is a step of the channel, or none: the channel's *)
(* word is stored or dropped where the receiver pushes or counts it.       *)
LEMMA StepImplementsChannel ==
  ASSUME ~NeutralTimeout, IInv, [Next]_vars
  PROVE  [Channel!Next]_Channel!vars
  <1> USE DEF IInv, Waiting, Latched, Finishing, bus, tx, rx, history
  <1>0. InStep /\ TypeOK
    OBVIOUS
  <1>1. ASSUME NEW w \in Words, TxStart(w) PROVE Channel!Next
    <2>1. Chan = <<>> /\ Chan' = <<w>>
      BY <1>0, <1>1 DEF TxStart, Chan, InStep, TypeOK, RxPhases
    <2>2. UNCHANGED <<rb, stats>>
      BY <1>1 DEF TxStart
    <2> QED
      BY <2>1, <2>2 DEF Channel!Next, Channel!Send
  <1> DEFINE Quiet == UNCHANGED <<Chan, rb, stats.dropped_full>>
  <1>2. CASE TxRaise \/ TxLower \/ TxDone \/ StepCall \/ ReadNotValid \/ ValidNotExpired
             \/ AssertAck \/ ReadNeutral \/ ReadNotNeutral \/ NeutralNotExpired
    BY <1>2 DEF TxRaise, TxLower, TxDone, StepCall, ReadNotValid, ValidNotExpired,
                AssertAck, ReadNeutral, ReadNotNeutral, NeutralNotExpired, Chan,
                Channel!vars
  <1>3. CASE TxSeeAck
    BY <1>0, <1>3 DEF TxSeeAck, Chan, InStep, Channel!vars
  <1>4. CASE ReadValid
    <2>1. tx_pc = "drive" /\ Chan = <<tx_word>> /\ Chan' = <<data>>
      BY <1>0, <1>4 DEF ReadValid, Chan, InStep, TypeOK, TxPhases
    <2>2. UNCHANGED <<rb, stats>> /\ data # {} /\ data \subseteq tx_word
      BY <1>0, <1>4 DEF ReadValid, InStep
    <2>3. CASE data = tx_word
      BY <2>1, <2>2, <2>3 DEF Channel!vars
    <2>4. CASE data # tx_word
      <3>1. Skew
        BY <1>0, <2>1, <2>2, <2>4 DEF InStep
      <3>2. Chan # <<>> /\ Chan[1] = tx_word
        BY <2>1
      <3> QED
        BY <2>1, <2>2, <3>1, <3>2 DEF Channel!Next, Channel!LoseWires
    <2> QED
      BY <2>3, <2>4
  <1>5. CASE ValidExpired
    <2>1. UNCHANGED <<Chan, rb>>
      BY <1>5 DEF ValidExpired, Chan
    <2>2. stats'.dropped_full = stats.dropped_full
      BY <1>0, <1>5 DEF ValidExpired, TypeOK
    <2> QED
      BY <2>1, <2>2 DEF Channel!vars
  <1>6. CASE CheckFull
    <2>1. Chan = <<rx_word>>
      BY <1>6 DEF CheckFull, Chan
    <2>2. CASE Len(rb) = RbSlots
      <3>1. Chan' = <<>> /\ UNCHANGED rb
        BY <1>6, <2>2 DEF CheckFull, Chan
      <3>2. stats'.dropped_full = (stats.dropped_full + 1) % StatMod
        BY <1>0, <1>6, <2>2 DEF CheckFull, Tick, TypeOK
      <3> QED
        BY <2>1, <2>2, <3>1, <3>2 DEF Channel!Next, Channel!Drop
    <2>3. CASE Len(rb) # RbSlots
      BY <1>6, <2>3 DEF CheckFull, Chan, Channel!vars
    <2> QED
      BY <2>2, <2>3
  <1>7. CASE Push
    <2>1. Chan = <<rx_word>> /\ Chan' = <<>> /\ UNCHANGED stats
      BY <1>7 DEF Push, Chan
    <2>2. Len(rb) < RbSlots /\ rb' = Append(rb, rx_word)
      BY <1>0, <1>7 DEF Push, InStep
    <2> QED
      BY <2>1, <2>2 DEF Channel!Next, Channel!Receive
  <1>8. CASE Deassert
    <2>1. UNCHANGED <<Chan, rb>>
      BY <1>0, <1>8 DEF Deassert, Chan, InStep
    <2>2. stats'.dropped_full = stats.dropped_full
      BY <1>0, <1>8 DEF Deassert, TypeOK
    <2> QED
      BY <2>1, <2>2 DEF Channel!vars
  <1>9. CASE Reset
    <2>1. UNCHANGED <<Chan, rb>> /\ stats'.dropped_full = 0
      BY <1>9 DEF Reset, Chan, ZeroStats
    <2> QED
      BY <2>1 DEF Channel!Next, Channel!ClearCount
  <1>10. CASE Pop
    <2>1. rb # <<>> /\ rb' = Tail(rb) /\ UNCHANGED <<Chan, stats>>
      BY <1>10 DEF Pop, Chan
    <2> QED
      BY <2>1 DEF Channel!Next, Channel!Consume
  <1>11. CASE UNCHANGED vars
    BY <1>11 DEF vars, Chan, Channel!vars
  <1> QED
    BY <1>1, <1>2, <1>3, <1>4, <1>5, <1>6, <1>7, <1>8, <1>9, <1>10, <1>11
    DEF Next, Transmitter, Receiver, NeutralExpired

(* The receiver starts with nothing on the channel. *)
LEMMA InitImplementsChannel == Init => Channel!Init
  BY DEF Init, Channel!Init, Chan, Waiting, Latched, ZeroStats

(* The polling receiver implements the channel: each word exactly once, in *)
(* order, or counted as dropped, for every capacity and any wire skew.     *)
THEOREM Refinement == ~NeutralTimeout => (Spec => ImplementsChannel)
  <1> SUFFICES ASSUME ~NeutralTimeout PROVE Spec => ImplementsChannel
    OBVIOUS
  <1>1. IInv /\ [Next]_vars => [Channel!Next]_Channel!vars
    BY StepImplementsChannel
  <1> QED
    BY <1>1, InitImplementsChannel, Inductive, PTL
    DEF Spec, ImplementsChannel, Channel!Spec

-----------------------------------------------------------------------------
(* With the neutral timeout on the two sides may fall out of step.  What   *)
(* remains: a word latched by a step that did not give up is off the bus   *)
(* before the next step can read it.                                       *)
LatchedOnce ==
  /\ tx_pc = "idle" => data = {}
  /\ tx_pc = "drive" /\ copies > 0 => data # {}
  /\ rx_pc \in {"valid_late", "deassert"} /\ copies > 0 => data = {}
  /\ rx_pc \in Waiting /\ status # "TIMEOUT_WAIT_NEUTRAL" /\ copies > 0 => data = {}
  /\ DuplicateOnlyAfterTimeout

LEMMA NextLatchedOnce ==
  ASSUME TypeOK, LatchedOnce, [Next]_vars
  PROVE  LatchedOnce'
  <1> USE DEF LatchedOnce, DuplicateOnlyAfterTimeout, Waiting, Latched, Finishing,
              bus, tx, rx, history
  <1>0. copies \in 0 .. 2 /\ data \in SUBSET Wires /\ tx_word # {}
        /\ rx_pc \in RxPhases /\ tx_pc \in TxPhases
    BY LinkAssumption DEF TypeOK, Raws
  <1>1. ASSUME NEW w \in Words, TxStart(w) PROVE LatchedOnce'
    BY <1>0, <1>1 DEF TxStart
  <1>2. CASE TxRaise
    <2>1. data' # {} /\ tx_pc = "drive" /\ (copies > 0 => data # {})
      BY <1>0, <1>2 DEF TxRaise
    <2> QED
      BY <1>2, <2>1 DEF TxRaise
  <1>3. CASE TxSeeAck
    BY <1>0, <1>3 DEF TxSeeAck
  <1>4. CASE TxLower
    <2>1. data # {} /\ tx_pc = "clear"
      BY <1>4 DEF TxLower
    <2> QED
      BY <1>0, <1>4, <2>1 DEF TxLower
  <1>5. CASE TxDone
    BY <1>0, <1>5 DEF TxDone
  <1>6. CASE StepCall
    BY <1>0, <1>6 DEF StepCall
  <1>7. CASE ReadValid
    BY <1>0, <1>7 DEF ReadValid
  <1>8. CASE ReadNotValid \/ ValidNotExpired
    BY <1>0, <1>8 DEF ReadNotValid, ValidNotExpired
  <1>9. CASE ValidExpired
    BY <1>0, <1>9 DEF ValidExpired
  <1>10. CASE AssertAck \/ CheckFull \/ Push
    BY <1>0, <1>10 DEF AssertAck, CheckFull, Push
  <1>11. CASE ReadNeutral \/ ReadNotNeutral \/ NeutralNotExpired
    BY <1>0, <1>11 DEF ReadNeutral, ReadNotNeutral, NeutralNotExpired
  <1>12. CASE NeutralExpired
    BY <1>0, <1>12 DEF NeutralExpired
  <1>13. CASE Deassert
    BY <1>0, <1>13 DEF Deassert
  <1>14. CASE Reset \/ Pop
    BY <1>0, <1>14 DEF Reset, Pop
  <1>15. CASE UNCHANGED vars
    BY <1>0, <1>15 DEF vars
  <1> QED
    BY <1>1, <1>2, <1>3, <1>4, <1>5, <1>6, <1>7, <1>8, <1>9, <1>10, <1>11, <1>12,
       <1>13, <1>14, <1>15
    DEF Next, Transmitter, Receiver

(* README.md 4.1, "Latch DATA once per word", under any configuration: the *)
(* only step that latches a word again is one after a reported timeout of  *)
(* the wait for neutral.                                                   *)
THEOREM DuplicatesAreAnnounced == Spec => []DuplicateOnlyAfterTimeout
  <1>1. Init => TypeOK /\ LatchedOnce
    BY InitTypeOK
    DEF Init, LatchedOnce, DuplicateOnlyAfterTimeout, Waiting, Latched, Finishing
  <1>2. TypeOK /\ LatchedOnce /\ [Next]_vars => (TypeOK /\ LatchedOnce)'
    BY NextTypeOK, NextLatchedOnce
  <1>3. LatchedOnce => DuplicateOnlyAfterTimeout
    BY DEF LatchedOnce
  <1> QED
    BY <1>1, <1>2, <1>3, PTL DEF Spec

-----------------------------------------------------------------------------
(* Sums of two counters and at most one more word, modulo their range.     *)
Counter == 0 .. StatMod - 1
Wrap(n) == IF n < StatMod THEN n ELSE n - StatMod

LEMMA ModIsWrap ==
  ASSUME NEW n \in Nat, n < 2 * StatMod
  PROVE  n % StatMod = Wrap(n)
  <1>1. CASE n < StatMod
    BY <1>1, LinkAssumption DEF Wrap
  <1>2. CASE StatMod <= n
    <2>1. n % StatMod = n - StatMod
      BY <1>2, LinkAssumption
    <2> QED
      BY <1>2, <2>1, LinkAssumption DEF Wrap
  <1> QED
    BY <1>1, <1>2, LinkAssumption

LEMMA TickIsWrap ==
  ASSUME NEW n \in Counter
  PROVE  Tick(n) = IF n + 1 = StatMod THEN 0 ELSE n + 1
  <1>1. n + 1 \in Nat /\ n + 1 < 2 * StatMod
    BY LinkAssumption DEF Counter
  <1>2. Tick(n) = Wrap(n + 1)
    BY <1>1, ModIsWrap DEF Tick
  <1> QED
    BY <1>2, LinkAssumption DEF Counter, Wrap

(* How a sum of counters follows when a word is latched, and when it goes  *)
(* over into one of the two counters.                                      *)
LEMMA SumTicks ==
  ASSUME NEW total \in Counter, NEW m \in Counter, NEW n \in Counter
  PROVE  /\ total = Wrap(m + n) => Tick(total) = Wrap(m + n + 1)
         /\ total = Wrap(m + n + 1) => total = Wrap(Tick(m) + n) /\ total = Wrap(m + Tick(n))
  BY TickIsWrap, LinkAssumption DEF Wrap, Counter

(* The two accounts of WordsAccounted, and the space that the full check   *)
(* saw: the consumer only makes more.                                      *)
Stored   == pushed + stats.dropped_full
Finished == stats.words_ok + stats.timeouts_neutral
Balanced ==
  /\ rx_pc \in Latched    => latched = Wrap(Stored + 1)
  /\ rx_pc \notin Latched => latched = Wrap(Stored)
  /\ rx_pc \in Latched \cup Finishing    => latched = Wrap(Finished + 1)
  /\ rx_pc \notin Latched \cup Finishing => latched = Wrap(Finished)
  /\ rx_pc = "push" => Len(rb) < RbSlots

LEMMA CountersTyped ==
  ASSUME TypeOK
  PROVE  /\ latched \in Counter /\ pushed \in Counter
         /\ stats.words_ok \in Counter /\ stats.dropped_full \in Counter
         /\ stats.timeouts_neutral \in Counter
         /\ stats \in [words_ok : Counter, dropped_full : Counter,
                       timeouts_valid : Counter, timeouts_neutral : Counter]
  BY DEF TypeOK, Counter

LEMMA BalancedIsAccounted == TypeOK /\ Balanced => WordsAccounted
  <1> SUFFICES ASSUME TypeOK, Balanced PROVE WordsAccounted
    OBVIOUS
  <1>1. /\ Stored \in Nat /\ Stored + 1 \in Nat /\ Stored + 1 < 2 * StatMod
        /\ Finished \in Nat /\ Finished + 1 \in Nat /\ Finished + 1 < 2 * StatMod
    BY CountersTyped, LinkAssumption DEF Stored, Finished, Counter
  <1>2. /\ Stored % StatMod = Wrap(Stored) /\ (Stored + 1) % StatMod = Wrap(Stored + 1)
        /\ Finished % StatMod = Wrap(Finished)
        /\ (Finished + 1) % StatMod = Wrap(Finished + 1)
    BY <1>1, ModIsWrap, LinkAssumption
  <1>3. /\ latched = (Stored + IF rx_pc \in Latched THEN 1 ELSE 0) % StatMod
        /\ latched = (Finished + IF rx_pc \in Latched \cup Finishing THEN 1 ELSE 0) % StatMod
    BY <1>1, <1>2 DEF Balanced
  <1> QED
    BY <1>3 DEF WordsAccounted, Stored, Finished

LEMMA NextBalanced ==
  ASSUME TypeOK, Balanced, [Next]_vars
  PROVE  Balanced'
  <1> USE CountersTyped DEF Balanced, Stored, Finished, Latched, Finishing,
                            bus, tx, rx, history
  <1>1. CASE UNCHANGED <<rx_pc, rb, stats, latched, pushed>>
    BY <1>1
  <1>2. CASE StepCall \/ ReadNotValid \/ ValidNotExpired
    BY <1>2 DEF StepCall, ReadNotValid, ValidNotExpired
  <1>3. CASE AssertAck \/ ReadNeutral \/ ReadNotNeutral \/ NeutralNotExpired
    BY <1>3 DEF AssertAck, ReadNeutral, ReadNotNeutral, NeutralNotExpired
  <1>4. CASE ReadValid
    BY <1>4, SumTicks DEF ReadValid
  <1>5. CASE ValidExpired
    BY <1>5 DEF ValidExpired
  <1>6. CASE CheckFull
    <2>1. CASE Len(rb) = RbSlots
      <3>1. /\ stats'.dropped_full = Tick(stats.dropped_full)
            /\ stats'.words_ok = stats.words_ok
            /\ stats'.timeouts_neutral = stats.timeouts_neutral
        BY <1>6, <2>1 DEF CheckFull
      <3> QED
        BY <1>6, <2>1, <3>1, SumTicks DEF CheckFull
    <2>2. CASE Len(rb) # RbSlots
      <3>1. Len(rb) < RbSlots
        BY <2>2, LinkAssumption DEF TypeOK
      <3> QED
        BY <1>6, <2>2, <3>1 DEF CheckFull
    <2> QED
      BY <2>1, <2>2
  <1>7. CASE Push
    BY <1>7, SumTicks DEF Push
  <1>8. CASE NeutralExpired
    <2>1. /\ stats'.timeouts_neutral = Tick(stats.timeouts_neutral)
          /\ stats'.words_ok = stats.words_ok /\ stats'.dropped_full = stats.dropped_full
      BY <1>8 DEF NeutralExpired
    <2> QED
      BY <1>8, <2>1, SumTicks DEF NeutralExpired
  <1>9. CASE Deassert
    <2>1. /\ stats'.words_ok = Tick(stats.words_ok)
          /\ stats'.timeouts_neutral = stats.timeouts_neutral
          /\ stats'.dropped_full = stats.dropped_full
      BY <1>9 DEF Deassert
    <2> QED
      BY <1>9, <2>1, SumTicks DEF Deassert
  <1>10. CASE Reset
    BY <1>10, LinkAssumption DEF Reset, ZeroStats, Wrap
  <1>11. CASE Pop
    <2>1. Len(rb') <= Len(rb) /\ UNCHANGED <<rx_pc, stats, latched, pushed>>
      BY <1>11 DEF Pop, TypeOK
    <2>2. Len(rb') \in Nat /\ Len(rb) \in Nat /\ RbSlots \in Nat
      BY <1>11, LinkAssumption DEF Pop, TypeOK
    <2> QED
      BY <2>1, <2>2
  <1> QED
    BY <1>1, <1>2, <1>3, <1>4, <1>5, <1>6, <1>7, <1>8, <1>9, <1>10, <1>11
    DEF Next, Transmitter, Receiver, TxStart, TxRaise, TxSeeAck, TxLower, TxDone, vars

(* aer_rx_poll_stats_t accounts for every word latched, whatever times     *)
(* out, whatever the buffer holds and however often the counters wrap.     *)
THEOREM StatisticsAddUp == Spec => []WordsAccounted
  <1>1. Init => TypeOK /\ Balanced
    BY InitTypeOK, LinkAssumption
    DEF Init, Balanced, Stored, Finished, Latched, Finishing, ZeroStats, Wrap
  <1>2. TypeOK /\ Balanced /\ [Next]_vars => (TypeOK /\ Balanced)'
    BY NextTypeOK, NextBalanced
  <1> QED
    BY <1>1, <1>2, BalancedIsAccounted, PTL DEF Spec
=============================================================================
