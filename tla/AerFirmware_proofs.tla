------------------------- MODULE AerFirmware_proofs -------------------------
(***************************************************************************)
(* The main loop, for every geometry and every ring buffer capacity.       *)
(* Draining after each step leaves room for every word, whatever the       *)
(* timeouts.  With the neutral timeout off, as pico_aer_rx.c has it: no    *)
(* word is forged; a burst none of whose words was garbled is reported     *)
(* exactly, however far the wires are apart; and with wires that switch    *)
(* together the loop implements BurstPipe.  The last two rest on FwInv:    *)
(* what the sensor sent is what the assembler has, then the word in the    *)
(* buffer, then the word on the bus.                                       *)
(***************************************************************************)
EXTENDS AerFirmware, AerRxPoll_proofs, Common_proofs

(* Every step of the firmware is a step of the link.                       *)
LEMMA FirmwareStepsTheLink ==
  ASSUME [FwNext]_fwVars
  PROVE  [Next]_vars
<1>1. CASE SensorStarts
  <2>1. \E w \in Words : TxStart(w)
    BY <1>1, FirmwareAssumption
    DEF SensorStarts, SendRow, SendColumn, SendTail, RowOrColumn, TailWord
  <2> QED
    BY <2>1 DEF Next
<1>2. CASE SensorContinues
  BY <1>2 DEF SensorContinues, Next
<1>3. CASE TudTask \/ PollNeutral \/ PollValid \/ DrainDone
  BY <1>3 DEF TudTask, PollNeutral, PollValid, DrainDone
<1>4. CASE CallStep
  BY <1>4 DEF CallStep, Next, Receiver
<1>5. CASE RunStep
  BY <1>5 DEF RunStep, Next
<1>6. CASE DrainWord
  BY <1>6 DEF DrainWord, Next
<1>7. CASE UNCHANGED fwVars
  BY <1>7 DEF fwVars
<1> QED
  BY <1>1, <1>2, <1>3, <1>4, <1>5, <1>6, <1>7 DEF FwNext, Main

-----------------------------------------------------------------------------
(* The link part of the state stays typed in the main loop.                *)
LEMMA FirmwareLinkTyped ==
  ASSUME TypeOK, [FwNext]_fwVars
  PROVE  TypeOK'
BY NextTypeOK, FirmwareStepsTheLink

(* The inductive strengthening of MainNeverDrops: the buffer is empty      *)
(* whenever main() is not in a step or draining, and the receiver is idle  *)
(* outside a step.                                                         *)
Drained ==
  /\ TypeOK
  /\ main_pc \in MainPhases
  /\ main_pc # "step" => rx_pc = "idle"
  /\ main_pc \in {"tud_task", "poll", "call"} => rb = <<>>
  /\ MainNeverDrops

LEMMA InitDrained == FwInit => Drained
<1> SUFFICES ASSUME FwInit PROVE Drained
  OBVIOUS
<1>1. TypeOK
  BY InitTypeOK DEF FwInit
<1> QED
  BY <1>1 DEF FwInit, Init, Drained, MainNeverDrops, MainPhases, ZeroStats

(* Inside a step only a push fills the buffer, and after it the step       *)
(* latches no other word.                                                  *)
LEMMA StepNeverDrops ==
  ASSUME Drained, RunStep
  PROVE  /\ stats'.dropped_full = 0
         /\ main_pc' = "step" /\ rx_pc' \in Waiting \cup Latched => rb' = <<>>
         /\ main_pc' # "step" => rx_pc' = "idle"
<1> USE DEF Drained, MainNeverDrops, RunStep, Waiting, Latched
<1>1. main_pc' # "step" => rx_pc' = "idle"
  OBVIOUS
<1>2. CASE StepCall
  BY <1>2 DEF StepCall
<1>3. CASE ReadValid \/ ReadNotValid \/ ValidNotExpired
  BY <1>1, <1>3 DEF ReadValid, ReadNotValid, ValidNotExpired
<1>4. CASE AssertAck
  BY <1>1, <1>4 DEF AssertAck
<1>5. CASE ValidExpired \/ NeutralExpired \/ Deassert
  <2>1. stats'.dropped_full = 0
    BY <1>5 DEF ValidExpired, NeutralExpired, Deassert, TypeOK
  <2>2. rx_pc' = "idle"
    BY <1>5 DEF ValidExpired, NeutralExpired, Deassert
  <2>3. main_pc' = "drain"
    BY <2>2
  <2> QED
    BY <1>1, <2>1, <2>3
<1>6. CASE CheckFull
  <2>1. rb = <<>> /\ Len(rb) # RbSlots
    BY <1>6, LinkAssumption DEF CheckFull
  <2> QED
    BY <1>1, <1>6, <2>1 DEF CheckFull
<1>7. CASE Push
  BY <1>1, <1>7 DEF Push
<1>8. CASE ReadNeutral \/ ReadNotNeutral \/ NeutralNotExpired
  BY <1>1, <1>8 DEF ReadNeutral, ReadNotNeutral, NeutralNotExpired
<1> QED
  BY <1>2, <1>3, <1>4, <1>5, <1>6, <1>7, <1>8 DEF Receiver

(* One case for each action of the loop. *)
LEMMA NextDrained ==
  ASSUME Drained, [FwNext]_fwVars
  PROVE  Drained'
<1>1. TypeOK'
  BY FirmwareLinkTyped DEF Drained
<1> USE DEF Drained, MainNeverDrops, MainPhases, vars
<1>2. CASE SensorStarts
  BY <1>1, <1>2
  DEF SensorStarts, SendRow, SendColumn, SendTail, TxStart, rx
<1>3. CASE SensorContinues
  BY <1>1, <1>3
  DEF SensorContinues, Transmitter, TxRaise, TxSeeAck, TxLower, TxDone, rx, fw
<1>4. CASE TudTask \/ PollNeutral \/ PollValid
  BY <1>1, <1>4 DEF TudTask, PollNeutral, PollValid
<1>5. CASE CallStep
  BY <1>1, <1>5 DEF CallStep, StepCall, Waiting
<1>6. CASE RunStep
  <2>1. main_pc' \in {"step", "drain"}
    BY <1>6 DEF RunStep
  <2> QED
    BY <1>1, <1>6, <2>1, StepNeverDrops
<1>7. CASE DrainWord
  BY <1>1, <1>7 DEF DrainWord, Pop, rx
<1>8. CASE DrainDone
  BY <1>1, <1>8 DEF DrainDone
<1>9. CASE UNCHANGED fwVars
  BY <1>1, <1>9 DEF fwVars
<1> QED
  BY <1>2, <1>3, <1>4, <1>5, <1>6, <1>7, <1>8, <1>9 DEF FwNext, Main

(* pico_aer_rx.c drains the buffer after each step: a step always finds it *)
(* empty and no word is dropped for want of space, for every capacity and  *)
(* every setting of the timeouts.                                          *)
THEOREM NeverDrops == FwSpec => []MainNeverDrops
<1>1. Drained => MainNeverDrops
  BY DEF Drained
<1> QED
  BY <1>1, InitDrained, NextDrained, PTL DEF FwSpec

-----------------------------------------------------------------------------
(* In the main loop, too, the two sides of the link stay in step.          *)
LEMMA FirmwareInStep ==
  ASSUME ~NeutralTimeout
  PROVE  FwSpec => []IInv
<1>1. FwInit => IInv
  BY InitTypeOK, InitInStep DEF FwInit, IInv
<1>2. ASSUME IInv, [FwNext]_fwVars PROVE IInv'
  <2>1. [Next]_vars
    BY <1>2, FirmwareStepsTheLink
  <2> QED
    BY <1>2, <2>1, NextTypeOK, NextInStep DEF IInv
<1> QED
  BY <1>1, <1>2, PTL DEF FwSpec

-----------------------------------------------------------------------------
(* What the words of the firmware are: an index or the TAIL, no two alike, *)
(* and each decoded to what it stands for.                                 *)
LEMMA WordsOfTheFirmware ==
  /\ Words \subseteq CodeWords /\ Wires \subseteq BusWires
  /\ \A w \in Words : w = TailWord \/ \E i \in Indices : w = RowOrColumn(i)
  /\ Decode(TailWord).ok /\ Decode(TailWord).is_tail
  /\ \A i \in Indices : /\ RowOrColumn(i) # TailWord
                        /\ Decode(RowOrColumn(i)).ok /\ ~Decode(RowOrColumn(i)).is_tail
                        /\ Index(Decode(RowOrColumn(i)).payload) = i
                        /\ \A j \in Indices : RowOrColumn(i) = RowOrColumn(j) => i = j
<1>1. IndexSpan < PayloadSpan
  BY FirmwareAssumption
<1>2. ASSUME NEW i \in Indices
      PROVE  /\ RowOrColumn(i) \in CodeWords
             /\ Decode(RowOrColumn(i)).ok /\ ~Decode(RowOrColumn(i)).is_tail
             /\ Decode(RowOrColumn(i)).payload = i
  BY <1>1, DecodeOfIndex DEF Indices, RowOrColumn
<1>3. TailWord \in CodeWords /\ Decode(TailWord).ok /\ Decode(TailWord).is_tail
  BY <1>1, DecodeOfTail DEF TailWord
<1>4. Words = {RowOrColumn(i) : i \in Indices} \cup {TailWord}
  BY FirmwareAssumption
<1>5. Words \subseteq CodeWords
  BY <1>2, <1>3, <1>4
<1>6. Wires \subseteq BusWires
  BY <1>5 DEF Wires, CodeWords
<1>7. \A i \in Indices : Index(i) = i
  BY CfgAssumption DEF Indices, Index
<1> QED
  BY <1>2, <1>3, <1>4, <1>5, <1>6, <1>7

(* With the timeouts of pico_aer_rx.c and a code of one wire per group,    *)
(* main() never stores a word that the sensor is not sending, however far  *)
(* the wires are apart: what it latched too early is not a word at all.    *)
THEOREM FirmwareNeverForges ==
  ASSUME ~NeutralTimeout
  PROVE  FwSpec => []SkewNeverForges
<1>1. DelayInsensitive
  BY WordsOfTheFirmware, CodeWordsAntichain DEF DelayInsensitive
<1>2. IInv => SkewNeverForges
  BY <1>1 DEF IInv, TypeOK, InStep, SkewNeverForges, DelayInsensitive
<1> QED
  BY <1>2, FirmwareInStep, PTL

-----------------------------------------------------------------------------
(* The words under way, from the assembler back to the sensor: what it has *)
(* of the burst, the word in the ring buffer, the word on the bus.         *)
PartialOf(b) ==
  IF b.state = ExpectRow THEN <<>>
  ELSE [k \in 1 .. b.col_count + 1 |-> IF k = 1 THEN b.row ELSE b.cols[k - 2]]

Partial == PartialOf(burst)

(* A place q for one word takes what was passed on (a burst that ended and *)
(* the one begun) a word further.                                          *)
Carries(q, ended, begun, ended2, begun2) ==
  \/ q = <<>> /\ ended2 = ended /\ begun2 = begun
  \/ \E i \in Indices : /\ q = <<RowOrColumn(i)>>
                        /\ ended2 = ended /\ begun2 = Append(begun, i)
  \/ q = <<TailWord>> /\ ended = <<>> /\ Len(begun) > 1 /\ ended2 = begun /\ begun2 = <<>>

FwTypes ==
  /\ burst \in BurstType
  /\ sent \in Seq(Indices) /\ Len(sent) <= Cols + 1
  /\ due \in Seq(Indices) /\ Len(due) <= Cols + 1
  /\ garbled \in BOOLEAN /\ intact \in BOOLEAN

(* The flag of the word latched last is right for as long as that word is  *)
(* in the receiver or in the buffer, the word on the bus is the last of    *)
(* the burst being sent, and a TAIL in the buffer was sent by the sensor.  *)
Accounted ==
  /\ rx_pc \in Latched => garbled = (rx_word # tx_word)
  /\ rb # <<>> => /\ Len(rb) = 1
                  /\ garbled => rb[1] \notin CodeWords
                  /\ ~garbled => rb[1] \in Words
  /\ tx_pc # "idle" => \/ sent = <<>> /\ tx_word = TailWord
                       \/ sent # <<>> /\ tx_word = RowOrColumn(sent[Len(sent)])
  /\ rb = <<TailWord>> => Carries(Chan, <<>>, <<>>, <<>>, sent)

(* Nothing was garbled since a TAIL was parsed, on the bus or before.      *)
Clean == intact /\ (garbled => rx_pc \notin Latched /\ rb = <<>>)

(* Then the sensor's bursts are the assembler's with the words under way.  *)
Owed ==
  Clean => \E ended, begun \in Seq(Indices) :
             /\ Carries(rb, <<>>, Partial, ended, begun)
             /\ Carries(Chan, ended, begun, due, sent)

FwInv == IInv /\ Drained /\ FwTypes /\ Accounted /\ Owed

-----------------------------------------------------------------------------
(* What a step of the firmware does to the words under way.                *)

SameBurst == UNCHANGED <<burst, emitted, sent, due, intact>>

(* The sensor begins a word: it is on the bus, as yet not latched.         *)
Sends ==
  /\ SensorStarts
  /\ Chan = <<>> /\ Chan' = <<tx_word'>>
  /\ rx_pc \notin Latched /\ UNCHANGED <<rx_pc, rx_word, rb, burst, emitted, garbled, intact>>

(* The receiver reads the bus.                                             *)
Latches ==
  /\ Chan = <<tx_word>> /\ Chan' = <<data>> /\ rb = <<>>
  /\ rx_pc \notin Latched /\ rx_pc' = "ack" /\ rx_word' = data
  /\ tx_pc # "idle" /\ (~Skew => data = tx_word)
  /\ garbled' = (data # tx_word)
  /\ SameBurst /\ UNCHANGED <<rb, tx_pc, tx_word>>

(* The receiver puts the word into the buffer.                             *)
Stores ==
  /\ Chan = <<rx_word>> /\ Chan' = <<>>
  /\ rb = <<>> /\ rb' = <<rx_word>>
  /\ rx_pc \in Latched /\ rx_pc' \notin Latched
  /\ rx_word \subseteq tx_word /\ tx_word \in Words /\ tx_pc # "idle"
  /\ SameBurst /\ UNCHANGED <<garbled, tx_pc, tx_word>>

(* The loop takes it out and feeds it to the assembler.                    *)
Drains ==
  /\ DrainWord
  /\ rx_pc \notin Latched
  /\ UNCHANGED <<Chan, rx_pc, rx_word, tx_pc, tx_word, sent, garbled>>

(* Any other step leaves the words where they are.                         *)
LeavesWords ==
  /\ (rx_pc' \in Latched) = (rx_pc \in Latched)
  /\ tx_pc' # "idle" => tx_pc # "idle"
  /\ SameBurst /\ UNCHANGED <<Chan, rb, garbled, tx_word, rx_word>>

(* Every step of the firmware is one of these.                             *)
LEMMA StepsOfTheWords ==
  ASSUME ~NeutralTimeout, IInv, Drained, [FwNext]_fwVars
  PROVE  Sends \/ Latches \/ Stores \/ Drains \/ LeavesWords
<1>0. TypeOK /\ InStep
  BY DEF IInv
<1> USE DEF SameBurst, Waiting, Latched, Finishing, bus, tx, rx, history, fw
<1>1. CASE SensorStarts
  <2>1. PICK w \in Words : TxStart(w)
    BY <1>1, FirmwareAssumption
    DEF SensorStarts, SendRow, SendColumn, SendTail, RowOrColumn, TailWord
  <2>2. Chan = <<>> /\ Chan' = <<tx_word'>> /\ rx_pc \notin Latched
    BY <1>0, <2>1 DEF TxStart, Chan, InStep, TypeOK, RxPhases
  <2>3. UNCHANGED <<rx_pc, rx_word, rb>>
    BY <2>1 DEF TxStart
  <2>4. UNCHANGED <<burst, emitted, garbled, intact>>
    BY <1>1 DEF SensorStarts, SendRow, SendColumn, SendTail
  <2> QED
    BY <1>1, <2>2, <2>3, <2>4 DEF Sends
<1>2. CASE SensorContinues
  <2>1. CASE TxRaise \/ TxLower \/ TxDone
    BY <1>2, <2>1 DEF SensorContinues, TxRaise, TxLower, TxDone, Chan, LeavesWords
  <2>2. CASE TxSeeAck
    BY <1>0, <1>2, <2>2 DEF SensorContinues, TxSeeAck, InStep, Chan, LeavesWords
  <2> QED
    BY <1>2, <2>1, <2>2 DEF SensorContinues, Transmitter
<1>3. CASE TudTask \/ PollNeutral \/ PollValid \/ DrainDone
  BY <1>3 DEF TudTask, PollNeutral, PollValid, DrainDone, vars, Chan, LeavesWords
<1>4. CASE CallStep
  BY <1>4 DEF CallStep, StepCall, Chan, LeavesWords
<1>5. CASE RunStep
  <2>0. main_pc = "step" /\ UNCHANGED <<burst, emitted, sent, due, intact>>
        /\ garbled' = IF rx_pc = "wait_valid" /\ rx_pc' = "ack"
                      THEN data # tx_word ELSE garbled
    BY <1>5 DEF RunStep
  <2>1. CASE ReadValid
    <3>1. tx_pc = "drive" /\ Chan = <<tx_word>> /\ Chan' = <<data>>
      BY <1>0, <2>1 DEF ReadValid, Chan, InStep, TypeOK, TxPhases
    <3>2. rb = <<>>
      BY <2>0, <2>1 DEF ReadValid, Drained, MainNeverDrops
    <3>3. ~Skew => data = tx_word
      BY <1>0, <2>1, <3>1 DEF ReadValid, InStep
    <3> QED
      BY <2>0, <2>1, <3>1, <3>2, <3>3 DEF ReadValid, Latches
  <2>2. CASE ReadNotValid \/ ValidNotExpired
    BY <2>0, <2>2 DEF ReadNotValid, ValidNotExpired, Chan, LeavesWords
  <2>3. CASE ValidExpired
    BY <2>0, <2>3 DEF ValidExpired, Chan, LeavesWords
  <2>4. CASE AssertAck
    BY <2>0, <2>4 DEF AssertAck, Chan, LeavesWords
  <2>5. CASE CheckFull
    <3>1. Len(rb) # RbSlots
      BY <2>0, <2>5, LinkAssumption DEF CheckFull, Drained, MainNeverDrops
    <3> QED
      BY <2>0, <2>5, <3>1 DEF CheckFull, Chan, LeavesWords
  <2>6. CASE Push
    <3>1. rb = <<>>
      BY <2>0, <2>6 DEF Push, Drained, MainNeverDrops
    <3>2. Len(rb) < RbSlots
      BY <3>1, LinkAssumption
    <3>3. rb' = <<rx_word>> /\ Chan = <<rx_word>> /\ Chan' = <<>>
      BY <2>6, <3>1, <3>2 DEF Push, Chan
    <3>4. tx_pc # "idle" /\ rx_word \subseteq tx_word /\ tx_word \in Words
      BY <1>0, <2>6 DEF Push, InStep, TypeOK
    <3> QED
      BY <2>0, <2>6, <3>1, <3>3, <3>4 DEF Push, Stores
  <2>7. CASE ReadNeutral \/ ReadNotNeutral \/ NeutralNotExpired
    BY <2>0, <2>7 DEF ReadNeutral, ReadNotNeutral, NeutralNotExpired, Chan, LeavesWords
  <2>8. CASE Deassert
    BY <1>0, <2>0, <2>8 DEF Deassert, InStep, Chan, LeavesWords
  <2> QED
    BY <1>5, <2>1, <2>2, <2>3, <2>4, <2>5, <2>6, <2>7, <2>8
    DEF RunStep, Receiver, StepCall, NeutralExpired
<1>6. CASE DrainWord
  BY <1>6 DEF DrainWord, Pop, Drained, Chan, Drains
<1>7. CASE UNCHANGED fwVars
  BY <1>7 DEF fwVars, vars, Chan, LeavesWords
<1> QED
  BY <1>1, <1>2, <1>3, <1>4, <1>5, <1>6, <1>7 DEF FwNext, Main

(* The words the assembler has are a row and the columns after it.         *)
LEMMA PartialIsSequence ==
  ASSUME NEW b \in BurstType
  PROVE  /\ PartialOf(b) \in Seq(Indices \cup {Unwritten})
         /\ b.state = ExpectRow => PartialOf(b) = <<>>
         /\ b.state # ExpectRow => /\ Len(PartialOf(b)) = b.col_count + 1
                                   /\ PartialOf(b)[1] = b.row
                                   /\ \A k \in 2 .. b.col_count + 1 :
                                        PartialOf(b)[k] = b.cols[k - 2]
<1> DEFINE n == b.col_count + 1
           V == Indices \cup {Unwritten}
<1>1. b.col_count \in 0 .. Cols /\ Cols \in Nat /\ n \in Nat /\ 1 \in 1 .. n
  BY BurstAssumption DEF BurstType
<1>2. CASE b.state = ExpectRow
  BY <1>2 DEF PartialOf
<1>3. CASE b.state # ExpectRow
  <2>1. PartialOf(b) = [k \in 1 .. n |-> IF k = 1 THEN b.row ELSE b.cols[k - 2]]
    BY <1>3 DEF PartialOf
  <2>2. ASSUME NEW k \in 1 .. n, k # 1 PROVE b.cols[k - 2] \in V
    <3>1. k - 2 \in Slots
      BY <1>1, <2>2 DEF Slots
    <3> QED
      BY <3>1 DEF BurstType
  <2>3. b.row \in V
    BY DEF BurstType
  <2>4. PartialOf(b) \in [1 .. n -> V]
    BY <2>1, <2>2, <2>3
  <2> HIDE DEF n
  <2>5. PartialOf(b) \in Seq(V) /\ Len(PartialOf(b)) = n
    BY <1>1, <2>4
  <2>6. \A k \in 2 .. n : PartialOf(b)[k] = b.cols[k - 2]
    BY <1>1, <2>1
  <2> QED
    BY <1>1, <1>3, <2>1, <2>5, <2>6 DEF n
<1> QED
  BY <1>2, <1>3

(* A row or a column joins the words of the burst; a TAIL hands its events *)
(* to the callback and empties it.                                         *)
LEMMA FeedOnPartial ==
  ASSUME burst \in BurstType, NEW word, Feed(word), word.ok,
         word.is_tail \in BOOLEAN, Index(word.payload) \in Indices
  PROVE  /\ word.is_tail =>
              /\ Partial' = <<>>
              /\ emitted' = IF Partial = <<>> THEN <<>> ELSE Pipe!EventsOf(Partial)
         /\ ~word.is_tail =>
              /\ emitted' = <<>>
              /\ Len(Partial) <= Cols => Partial' = Append(Partial, Index(word.payload))
<1> DEFINE index == Index(word.payload)
           V == Indices \cup {Unwritten}
<1>0. burst.col_count \in 0 .. Cols /\ Cols \in Nat \ {0}
  BY BurstAssumption DEF BurstType
<1>1. burst' \in BurstType
  BY FeedKeepsTypes
<1>2. CASE FeedTailWithoutRow(word)
  <2>1. burst.state = ExpectRow /\ burst'.state = ExpectRow /\ emitted' = <<>> /\ word.is_tail
    BY <1>2 DEF FeedTailWithoutRow, BurstType
  <2> QED
    BY <2>1 DEF Partial, PartialOf
<1>3. CASE FeedTail(word)
  <2>1. burst.state # ExpectRow /\ burst'.state = ExpectRow /\ word.is_tail
        /\ emitted' = BufferedEvents
    BY <1>3 DEF FeedTail, BurstType
  <2>2. Partial' = <<>>
    BY <2>1 DEF Partial, PartialOf
  <2>3. Partial # <<>> /\ Pipe!EventsOf(Partial) = BufferedEvents
    <3>1. Len(Partial) = burst.col_count + 1 /\ Partial[1] = burst.row
          /\ \A k \in 2 .. burst.col_count + 1 : Partial[k] = burst.cols[k - 2]
      BY <2>1, PartialIsSequence DEF Partial
    <3>2. ASSUME NEW i \in 1 .. burst.col_count PROVE Partial[i + 1] = burst.cols[i - 1]
      <4>1. i + 1 \in 2 .. burst.col_count + 1 /\ (i + 1) - 2 = i - 1
        BY <1>0
      <4> QED
        BY <3>1, <4>1
    <3>3. Len(Partial) - 1 = burst.col_count /\ Partial # <<>>
      BY <1>0, <3>1
    <3> QED
      BY <3>1, <3>2, <3>3 DEF Pipe!EventsOf, BufferedEvents
  <2> QED
    BY <2>1, <2>2, <2>3
<1>4. CASE FeedRow(word)
  <2>1. /\ burst.state = ExpectRow /\ burst'.state # ExpectRow /\ ~word.is_tail
        /\ emitted' = <<>> /\ burst'.row = index /\ burst'.col_count = 0
    BY <1>4 DEF FeedRow, BurstType, ExpectRow, ExpectColOrTail
  <2>2. Partial = <<>>
    BY <2>1 DEF Partial, PartialOf
  <2>3. Partial' = <<index>>
    <3>1. Partial' = [k \in 1 .. 0 + 1 |-> IF k = 1 THEN index ELSE burst'.cols[k - 2]]
      BY <2>1 DEF Partial, PartialOf
    <3> HIDE DEF index
    <3> QED
      BY <3>1
  <2> QED
    BY <2>1, <2>2, <2>3
<1>5. CASE FeedCol(word)
  <2>1. /\ burst.state # ExpectRow /\ burst'.state # ExpectRow /\ ~word.is_tail
        /\ emitted' = <<>> /\ burst'.row = burst.row
        /\ burst'.col_count = burst.col_count + 1
        /\ burst'.cols = [burst.cols EXCEPT ![burst.col_count] = index]
    BY <1>5 DEF FeedCol, BurstType
  <2>2. burst.col_count < Cols
    BY <1>5 DEF FeedCol
  <2> DEFINE n == burst.col_count + 1
             p == Partial
             q == Partial'
             a == Append(Partial, index)
  <2>3. /\ p \in Seq(V) /\ Len(p) = n /\ p[1] = burst.row
        /\ \A k \in 2 .. n : p[k] = burst.cols[k - 2]
    BY <2>1, PartialIsSequence DEF Partial
  <2>4. /\ q \in Seq(V) /\ Len(q) = n + 1 /\ q[1] = burst.row
        /\ \A k \in 2 .. n + 1 : q[k] = burst'.cols[k - 2]
    <3>1. q = PartialOf(burst')
      BY DEF Partial
    <3> HIDE DEF q
    <3> QED
      BY <1>1, <2>1, <3>1, PartialIsSequence
  <2>5. a \in Seq(V) /\ Len(a) = n + 1 /\ a[n + 1] = index /\ \A k \in 1 .. n : a[k] = p[k]
    BY <2>3
  <2>6. ASSUME NEW k \in 1 .. n + 1 PROVE q[k] = a[k]
    <3>1. CASE k = 1
      <4>1. a[1] = p[1]
        BY <1>0, <2>5
      <4> QED
        BY <2>3, <2>4, <3>1, <4>1
    <3>2. CASE k \in 2 .. n
      <4>1. k - 2 \in Slots /\ k - 2 # burst.col_count /\ k \in 1 .. n /\ k \in 2 .. n + 1
        BY <1>0, <2>2, <3>2 DEF Slots
      <4>2. burst'.cols[k - 2] = burst.cols[k - 2]
        BY <2>1, <4>1 DEF BurstType
      <4>3. q[k] = burst.cols[k - 2] /\ a[k] = p[k] /\ p[k] = burst.cols[k - 2]
        BY <2>3, <2>4, <2>5, <3>2, <4>1, <4>2
      <4> QED
        BY <4>3
    <3>3. CASE k = n + 1
      <4>1. burst.col_count \in Slots /\ n + 1 \in 2 .. n + 1 /\ (n + 1) - 2 = burst.col_count
        BY <1>0, <2>2 DEF Slots
      <4>2. burst'.cols[burst.col_count] = index
        BY <2>1, <4>1 DEF BurstType
      <4>3. q[n + 1] = burst'.cols[(n + 1) - 2]
        BY <2>4, <4>1
      <4>4. q[n + 1] = index
        BY <4>1, <4>2, <4>3
      <4> HIDE DEF n, q, a
      <4> QED
        BY <2>5, <3>3, <4>4
    <3> QED
      <4>1. k = 1 \/ k \in 2 .. n \/ k = n + 1
        BY <1>0
      <4> HIDE DEF n, q, a
      <4> QED
        BY <3>1, <3>2, <3>3, <4>1
  <2>7. q = a
    <3> HIDE DEF q, a, n
    <3> QED
      BY <1>0, <2>4, <2>5, <2>6, SeqEqual DEF n
  <2> QED
    BY <2>1, <2>7
<1>6. CASE FeedColOverflow(word)
  <2>1. /\ burst.state # ExpectRow /\ ~word.is_tail /\ emitted' = <<>> /\ burst.col_count >= Cols
    BY <1>6 DEF FeedColOverflow
  <2>2. ~(Len(Partial) <= Cols)
    BY <1>0, <2>1, PartialIsSequence DEF Partial
  <2> QED
    BY <2>1, <2>2
<1> QED
  BY <1>2, <1>3, <1>4, <1>5, <1>6 DEF Feed, FeedNotOk

-----------------------------------------------------------------------------
(* Nothing is under way when main() starts.                                *)
LEMMA InitFwInv == FwInit => FwInv
<1> SUFFICES ASSUME FwInit PROVE FwInv
  OBVIOUS
<1>1. IInv /\ Drained
  BY InitTypeOK, InitInStep, InitDrained DEF FwInit, IInv
<1>2. FwTypes
  <2>1. burst \in BurstType
    BY BurstAssumption, CfgAssumption
    DEF FwInit, BurstInit, BurstType, ExpectRow, Slots, Indices, Unwritten, BurstErrs
  <2>2. <<>> \in Seq(Indices) /\ Len(<<>>) <= Cols + 1
    BY BurstAssumption
  <2> QED
    BY <2>1, <2>2 DEF FwInit, FwTypes
<1>3. rx_pc \notin Latched /\ tx_pc = "idle" /\ rb = <<>> /\ Chan = <<>> /\ Partial = <<>>
      /\ sent = <<>> /\ due = <<>>
  BY DEF FwInit, Init, BurstInit, Chan, Latched, Waiting, Partial, PartialOf
<1>4. Accounted
  BY <1>3 DEF Accounted
<1>5. Owed
  <2>1. <<>> \in Seq(Indices) /\ Carries(<<>>, <<>>, <<>>, <<>>, <<>>)
    BY DEF Carries
  <2> QED
    BY <1>3, <2>1 DEF Owed
<1> QED
  BY <1>1, <1>2, <1>4, <1>5 DEF FwInv

(* The three ways in which the sensor begins a word.                       *)
LEMMA SensorStartsWord ==
  ASSUME SensorStarts
  PROVE  /\ tx_word' \in Words
         /\ \/ \E i \in Indices : /\ tx_word' = RowOrColumn(i) /\ sent = <<>>
                                  /\ sent' = <<i>> /\ due' = due
            \/ \E i \in Indices : /\ tx_word' = RowOrColumn(i) /\ sent # <<>> /\ Len(sent) <= Cols
                                  /\ sent' = Append(sent, i) /\ due' = due
            \/ tx_word' = TailWord /\ Len(sent) > 1 /\ sent' = <<>> /\ due' = sent
BY FirmwareAssumption DEF SensorStarts, SendRow, SendColumn, SendTail, TxStart

(* The assembler and the histories keep their types: a burst of the sensor *)
(* is never longer than a row and Cols columns.                            *)
LEMMA NextFwTypes ==
  ASSUME FwInv, ~NeutralTimeout, [FwNext]_fwVars
  PROVE  FwTypes'
<1>1. FwTypes /\ (Sends \/ Latches \/ Stores \/ Drains \/ LeavesWords)
  BY StepsOfTheWords DEF FwInv
<1>2. Cols \in Nat \ {0}
  BY BurstAssumption
<1>3. CASE Sends
  <2>1. UNCHANGED <<burst, garbled, intact>>
    BY <1>3 DEF Sends
  <2>2. sent' \in Seq(Indices) /\ Len(sent') <= Cols + 1 /\ due' \in Seq(Indices) /\ Len(due') <= Cols + 1
    <3>1. sent \in Seq(Indices) /\ Len(sent) <= Cols + 1 /\ due \in Seq(Indices) /\ Len(due) <= Cols + 1
      BY <1>1 DEF FwTypes
    <3>2. SensorStarts
      BY <1>3 DEF Sends
    <3>3. CASE \E i \in Indices : sent' = <<i>> /\ due' = due
      BY <1>2, <3>1, <3>3
    <3>4. CASE \E i \in Indices : Len(sent) <= Cols /\ sent' = Append(sent, i) /\ due' = due
      BY <1>2, <3>1, <3>4
    <3>5. CASE sent' = <<>> /\ due' = sent
      BY <1>2, <3>1, <3>5
    <3> QED
      BY <3>2, <3>3, <3>4, <3>5, SensorStartsWord
  <2> QED
    BY <1>1, <2>1, <2>2 DEF FwTypes
<1>4. CASE Drains
  <2>1. Feed(Decode(Head(rb)))
    BY <1>4 DEF Drains, DrainWord
  <2>2. burst' \in BurstType
    BY <1>1, <2>1, DecodedIndex, FeedKeepsTypes DEF FwTypes
  <2>3. intact' \in BOOLEAN /\ garbled' = garbled /\ sent' = sent /\ (due' = due \/ due' = <<>>)
    BY <1>4 DEF Drains, DrainWord
  <2>4. due' \in Seq(Indices) /\ Len(due') <= Cols + 1
    <3>1. due \in Seq(Indices) /\ Len(due) <= Cols + 1 /\ <<>> \in Seq(Indices) /\ Len(<<>>) <= Cols + 1
      BY <1>1, <1>2 DEF FwTypes
    <3> QED
      BY <2>3, <3>1
  <2> QED
    BY <1>1, <2>2, <2>3, <2>4 DEF FwTypes
<1>5. CASE Latches \/ Stores \/ LeavesWords
  BY <1>1, <1>5 DEF Latches, Stores, LeavesWords, SameBurst, FwTypes
<1> QED
  BY <1>1, <1>3, <1>4, <1>5

(* The loop finds one word in the buffer.  If it was garbled it is not a   *)
(* word of the code and the decoder says so; otherwise it is decoded to    *)
(* what the sensor sent.                                                   *)
LEMMA WordDrained ==
  ASSUME FwInv, Drains
  PROVE  /\ rb = <<Head(rb)>> /\ rb' = <<>> /\ rb # <<>>
         /\ garbled => ~Decode(Head(rb)).ok
         /\ ~garbled => /\ Decode(Head(rb)).ok
                        /\ \/ Head(rb) = TailWord /\ Decode(Head(rb)).is_tail
                           \/ \E i \in Indices : /\ Head(rb) = RowOrColumn(i)
                                                 /\ ~Decode(Head(rb)).is_tail
                                                 /\ Index(Decode(Head(rb)).payload) = i
         /\ Decode(Head(rb)).is_tail => Decode(Head(rb)).ok
         /\ Decode(Head(rb)).is_tail \in BOOLEAN
<1>1. rb # <<>> /\ rb' = Tail(rb) /\ rb \in Seq(Raws) /\ Len(rb) = 1
  BY DEF Drains, DrainWord, Pop, FwInv, IInv, TypeOK, Accounted
<1>2. rb = <<Head(rb)>> /\ rb' = <<>> /\ Head(rb) = rb[1] /\ Head(rb) \in Raws
  BY <1>1
<1>3. Head(rb) \cap BusWires = Head(rb)
  BY <1>2, WordsOfTheFirmware DEF Raws
<1>4. Decode(Head(rb)).ok <=> Head(rb) \in CodeWords
  BY <1>3, DecodeAcceptsCodeWords
<1>5. /\ garbled => Head(rb) \notin CodeWords
      /\ ~garbled => Head(rb) \in Words
  BY <1>1, <1>2 DEF FwInv, Accounted
<1>6. /\ Decode(Head(rb)).is_tail => Decode(Head(rb)).ok
      /\ Decode(Head(rb)).is_tail \in BOOLEAN
  BY DEF Decode
<1> QED
  BY <1>1, <1>2, <1>4, <1>5, <1>6, WordsOfTheFirmware

(* A word keeps its account on its way: from the bus, where it is the last *)
(* of the burst, into the receiver and into the buffer.                    *)
LEMMA NextAccounted ==
  ASSUME FwInv, ~NeutralTimeout, [FwNext]_fwVars
  PROVE  Accounted'
<1>1. Accounted /\ FwTypes /\ (Sends \/ Latches \/ Stores \/ Drains \/ LeavesWords)
  BY StepsOfTheWords DEF FwInv
<1>2. CASE Sends
  <2>1. SensorStarts /\ Chan = <<>> /\ Chan' = <<tx_word'>> /\ rx_pc' \notin Latched
        /\ rb' = rb /\ garbled' = garbled
    BY <1>2 DEF Sends
  <2>2. sent \in Seq(Indices)
    BY <1>1 DEF FwTypes
  <2>3. \/ sent' = <<>> /\ tx_word' = TailWord
        \/ sent' # <<>> /\ tx_word' = RowOrColumn(sent'[Len(sent')])
    <3>1. ASSUME NEW i \in Indices, sent' = <<i>> PROVE sent' # <<>> /\ sent'[Len(sent')] = i
      BY <3>1
    <3>2. ASSUME NEW i \in Indices, sent' = Append(sent, i) PROVE sent' # <<>> /\ sent'[Len(sent')] = i
      BY <2>2, <3>2
    <3> QED
      BY <2>1, <3>1, <3>2, SensorStartsWord
  <2>4. ASSUME rb' = <<TailWord>> PROVE Carries(Chan', <<>>, <<>>, <<>>, sent')
    <3>1. sent = <<>>
      BY <1>1, <2>1, <2>4 DEF Accounted, Carries
    <3>2. PICK i \in Indices : tx_word' = RowOrColumn(i) /\ sent' = <<i>>
      BY <2>1, <3>1, SensorStartsWord
    <3>3. sent' = Append(<<>>, i) /\ Chan' = <<RowOrColumn(i)>>
      BY <2>1, <3>2
    <3> QED
      BY <3>3 DEF Carries
  <2> QED
    BY <1>1, <2>1, <2>3, <2>4 DEF Accounted
<1>3. CASE Latches
  BY <1>1, <1>3 DEF Latches, SameBurst, Accounted, Latched
<1>4. CASE Stores
  <2>1. /\ rb' = <<rx_word>> /\ Chan' = <<>> /\ rx_pc' \notin Latched /\ tx_pc # "idle"
        /\ garbled' = garbled /\ sent' = sent /\ tx_word' = tx_word /\ tx_pc' = tx_pc
        /\ rx_word \subseteq tx_word /\ tx_word \in Words
        /\ garbled = (rx_word # tx_word)
    BY <1>1, <1>4 DEF Stores, SameBurst, Accounted
  <2>2. tx_word \in CodeWords
    BY <2>1, WordsOfTheFirmware
  <2>3. garbled => rx_word \notin CodeWords
    BY <2>1, <2>2, CodeWordsAntichain
  <2>4. ASSUME rb' = <<TailWord>> PROVE Carries(Chan', <<>>, <<>>, <<>>, sent')
    <3>1. rx_word = TailWord
      BY <2>1, <2>4
    <3>2. TailWord \in CodeWords
      BY WordsOfTheFirmware, FirmwareAssumption
    <3>3. tx_word = TailWord
      BY <2>1, <2>3, <3>1, <3>2
    <3>4. sent = <<>>
      <4>1. ASSUME sent # <<>> PROVE FALSE
        <5>1. tx_word = RowOrColumn(sent[Len(sent)]) /\ sent \in Seq(Indices)
          BY <1>1, <2>1, <4>1 DEF Accounted, FwTypes
        <5>2. sent[Len(sent)] \in Indices
          BY <4>1, <5>1
        <5> QED
          BY <3>3, <5>1, <5>2, WordsOfTheFirmware
      <4> QED
        BY <4>1
    <3> QED
      BY <2>1, <3>4 DEF Carries
  <2>5. rb'[1] = rx_word /\ Len(rb') = 1
    BY <2>1
  <2> QED
    BY <1>1, <2>1, <2>3, <2>4, <2>5 DEF Accounted
<1>5. CASE Drains
  <2>1. rb' = <<>>
    BY <1>5, WordDrained
  <2> QED
    BY <1>1, <1>5, <2>1 DEF Drains, Accounted
<1>6. CASE LeavesWords
  BY <1>1, <1>6 DEF LeavesWords, SameBurst, Accounted
<1> QED
  BY <1>1, <1>2, <1>3, <1>4, <1>5, <1>6

(* An empty place takes nothing further.                                   *)
LEMMA CarriesNothing ==
  ASSUME NEW d, NEW s, NEW d2, NEW s2
  PROVE  Carries(<<>>, d, s, d2, s2) <=> d2 = d /\ s2 = s
BY DEF Carries

(* A row or column joins the burst that was begun.                         *)
LEMMA CarriesIndex ==
  ASSUME NEW i \in Indices, NEW d, NEW s, NEW d2, NEW s2
  PROVE  Carries(<<RowOrColumn(i)>>, d, s, d2, s2) <=> d2 = d /\ s2 = Append(s, i)
BY WordsOfTheFirmware DEF Carries

(* A TAIL ends the burst that was begun, when no other had ended.          *)
LEMMA CarriesTail ==
  ASSUME NEW d, NEW s, NEW d2, NEW s2
  PROVE  Carries(<<TailWord>>, d, s, d2, s2)
           <=> d = <<>> /\ Len(s) > 1 /\ d2 = s /\ s2 = <<>>
BY WordsOfTheFirmware DEF Carries

(* When the sensor sends a TAIL the burst before is reported.              *)
LEMMA TailFindsNothingDue ==
  ASSUME FwInv, Clean, Chan = <<>>, Len(sent) > 1
  PROVE  due = <<>>
<1>1. PICK d \in Seq(Indices), s \in Seq(Indices) :
         Carries(rb, <<>>, Partial, d, s) /\ Carries(<<>>, d, s, due, sent)
  BY DEF FwInv, Owed
<1>2. due = d /\ sent = s
  BY <1>1, CarriesNothing
<1> QED
  BY <1>1, <1>2 DEF Carries

(* A TAIL that is parsed when nothing was garbled ends the burst that is   *)
(* due, and the assembler has all of it.                                   *)
LEMMA TailFindsTheBurst ==
  ASSUME FwInv, Drains, Decode(Head(rb)).is_tail, intact
  PROVE  due # <<>> /\ Partial = due
<1>1. ~garbled /\ rb = <<Head(rb)>> /\ Head(rb) = TailWord /\ Chan' = Chan
  BY WordDrained, WordsOfTheFirmware DEF Drains
<1>2. PICK d \in Seq(Indices), s \in Seq(Indices) :
         Carries(<<TailWord>>, <<>>, Partial, d, s) /\ Carries(Chan, d, s, due, sent)
  BY <1>1 DEF FwInv, Owed, Clean
<1>3. Len(Partial) > 1 /\ d = Partial /\ s = <<>>
  BY <1>2, CarriesTail
<1>4. d # <<>>
  BY <1>3
<1>5. due = d
  BY <1>2, <1>4 DEF Carries
<1> QED
  BY <1>3, <1>4, <1>5

(* Each step takes the words under way one place further: the sensor adds  *)
(* one, the receiver puts it into the buffer, the loop feeds it to the     *)
(* assembler.  A word that overflows cols[] cannot be there, since the     *)
(* sensor has sent no more than Cols columns.                              *)
LEMMA NextOwed ==
  ASSUME FwInv, ~NeutralTimeout, [FwNext]_fwVars
  PROVE  Owed'
<1>1. Owed /\ FwTypes /\ Drained /\ (Sends \/ Latches \/ Stores \/ Drains \/ LeavesWords)
  BY StepsOfTheWords DEF FwInv
<1>2. CASE Sends
  <2> SUFFICES ASSUME Clean'
               PROVE  \E d, s \in Seq(Indices) : /\ Carries(rb, <<>>, Partial, d, s)
                                                 /\ Carries(Chan', d, s, due', sent')
    BY <1>2 DEF Owed, Sends, Partial
  <2>1. Clean /\ SensorStarts /\ Chan = <<>> /\ Chan' = <<tx_word'>>
    BY <1>2 DEF Clean, Sends
  <2>2. PICK d \in Seq(Indices), s \in Seq(Indices) :
           Carries(rb, <<>>, Partial, d, s) /\ Carries(<<>>, d, s, due, sent)
    BY <1>1, <2>1 DEF Owed
  <2>3. due = d /\ sent = s
    BY <2>2, CarriesNothing
  <2>4. CASE \E i \in Indices : tx_word' = RowOrColumn(i) /\ sent' = Append(sent, i) /\ due' = due
    BY <2>1, <2>2, <2>3, <2>4, CarriesIndex
  <2>5. CASE \E i \in Indices : tx_word' = RowOrColumn(i) /\ sent = <<>> /\ sent' = <<i>> /\ due' = due
    <3>1. \A i : Append(<<>>, i) = <<i>>
      OBVIOUS
    <3> QED
      BY <2>4, <2>5, <3>1
  <2>6. CASE tx_word' = TailWord /\ Len(sent) > 1 /\ sent' = <<>> /\ due' = sent
    <3>1. due = <<>>
      BY <2>1, <2>6, TailFindsNothingDue
    <3>2. Carries(Chan', d, s, due', sent')
      BY <2>1, <2>3, <2>6, <3>1, CarriesTail
    <3> QED
      BY <2>2, <3>2
  <2> QED
    BY <2>1, <2>4, <2>5, <2>6, SensorStartsWord
<1>3. CASE Latches
  <2> SUFFICES ASSUME Clean'
               PROVE  \E d, s \in Seq(Indices) : /\ Carries(rb, <<>>, Partial, d, s)
                                                 /\ Carries(Chan', d, s, due, sent)
    BY <1>3 DEF Owed, Latches, SameBurst, Partial
  <2>1. rx_pc' \in Latched /\ intact
    BY <1>3 DEF Clean, Latches, SameBurst, Latched
  <2>2. data = tx_word
    BY <1>3, <2>1 DEF Clean, Latches
  <2>3. Clean /\ Chan' = Chan
    BY <1>3, <2>1, <2>2 DEF Clean, Latches
  <2> QED
    BY <1>1, <2>3 DEF Owed
<1>4. CASE Stores
  <2> SUFFICES ASSUME Clean'
               PROVE  \E d, s \in Seq(Indices) : /\ Carries(<<rx_word>>, <<>>, Partial, d, s)
                                                 /\ Carries(<<>>, d, s, due, sent)
    BY <1>4 DEF Owed, Stores, SameBurst, Partial
  <2>1. Clean
    BY <1>4 DEF Clean, Stores, SameBurst
  <2>2. PICK d \in Seq(Indices), s \in Seq(Indices) :
           Carries(<<>>, <<>>, Partial, d, s) /\ Carries(<<rx_word>>, d, s, due, sent)
    BY <1>1, <1>4, <2>1 DEF Owed, Stores
  <2>3. d = <<>> /\ s = Partial
    BY <2>2, CarriesNothing
  <2>4. Carries(<<rx_word>>, <<>>, Partial, due, sent) /\ Carries(<<>>, due, sent, due, sent)
    BY <2>2, <2>3, CarriesNothing
  <2> QED
    BY <1>1, <2>4 DEF FwTypes
<1>5. CASE Drains
  <2> DEFINE h == Head(rb)
             word == Decode(h)
  <2>1. /\ Feed(word) /\ due' = (IF word.is_tail THEN <<>> ELSE due) /\ sent' = sent
        /\ intact' = (word.is_tail \/ (intact /\ ~garbled)) /\ garbled' = garbled
        /\ Chan' = Chan /\ rb' = <<>> /\ rb = <<h>>
    BY <1>5, WordDrained DEF Drains, DrainWord
  <2>2. Index(word.payload) \in Indices /\ word.is_tail \in BOOLEAN /\ burst \in BurstType
    BY <1>1, <1>5, DecodedIndex, WordDrained DEF FwTypes
  <2> SUFFICES ASSUME Clean'
               PROVE  \E d, s \in Seq(Indices) : /\ Carries(<<>>, <<>>, Partial', d, s)
                                                 /\ Carries(Chan, d, s, due', sent)
    BY <2>1 DEF Owed
  <2>3. CASE word.is_tail
    <3>1. word.ok /\ h = TailWord
      BY <1>5, <2>3, WordDrained, WordsOfTheFirmware
    <3>2. Partial' = <<>>
      BY <2>1, <2>2, <2>3, <3>1, FeedOnPartial
    <3>3. Carries(Chan, <<>>, <<>>, <<>>, sent)
      BY <2>1, <3>1 DEF FwInv, Accounted
    <3>4. <<>> \in Seq(Indices) /\ Carries(<<>>, <<>>, <<>>, <<>>, <<>>)
      BY CarriesNothing
    <3> QED
      BY <2>1, <2>3, <3>2, <3>3, <3>4
  <2>4. CASE ~word.is_tail
    <3>1. intact /\ ~garbled
      BY <2>1, <2>4 DEF Clean
    <3>2. PICK i \in Indices : h = RowOrColumn(i) /\ Index(word.payload) = i /\ word.ok
      BY <1>5, <2>4, <3>1, WordDrained
    <3>3. PICK d \in Seq(Indices), s \in Seq(Indices) :
             Carries(<<RowOrColumn(i)>>, <<>>, Partial, d, s) /\ Carries(Chan, d, s, due, sent)
      BY <1>1, <2>1, <3>1, <3>2 DEF Owed, Clean
    <3>4. d = <<>> /\ s = Append(Partial, i)
      BY <3>3, CarriesIndex
    <3>5. Partial \in Seq(Indices \cup {Unwritten}) /\ Len(s) = Len(Partial) + 1 /\ Len(Partial) \in Nat
      BY <2>2, <3>4, PartialIsSequence DEF Partial
    <3>6. Len(Partial) <= Cols
      <4>1. Len(sent) <= Cols + 1 /\ Len(due) <= Cols + 1 /\ Cols \in Nat
        BY <1>1, BurstAssumption DEF FwTypes
      <4>2. Len(s) <= Len(sent) \/ Len(s) <= Len(due)
        <5>1. CASE Chan = <<>> /\ sent = s
          BY <3>5, <5>1
        <5>2. CASE \E j \in Indices : sent = Append(s, j)
          BY <5>2
        <5>3. CASE due = s
          BY <5>3
        <5> QED
          BY <3>3, <5>1, <5>2, <5>3 DEF Carries
      <4>3. Len(sent) \in Nat /\ Len(due) \in Nat
        BY <1>1 DEF FwTypes
      <4> QED
        BY <3>5, <4>1, <4>2, <4>3
    <3>7. Partial' = s
      BY <2>1, <2>2, <2>4, <3>2, <3>4, <3>6, FeedOnPartial
    <3>8. due' = due /\ Carries(<<>>, <<>>, Partial', <<>>, s)
      BY <2>1, <2>4, <3>7, CarriesNothing
    <3> QED
      BY <3>3, <3>4, <3>8
  <2> QED
    BY <2>2, <2>3, <2>4
<1>6. CASE LeavesWords
  BY <1>1, <1>6 DEF LeavesWords, SameBurst, Owed, Clean, Partial
<1> QED
  BY <1>1, <1>2, <1>3, <1>4, <1>5, <1>6

(* FwInv holds of the firmware, with or without skew.                      *)
LEMMA FirmwareInvariant ==
  ASSUME ~NeutralTimeout
  PROVE  FwSpec => []FwInv
<1>1. FwInv /\ [FwNext]_fwVars => FwInv'
  <2> SUFFICES ASSUME FwInv, [FwNext]_fwVars PROVE FwInv'
    OBVIOUS
  <2>1. IInv'
    <3>1. [Next]_vars
      BY FirmwareStepsTheLink
    <3> QED
      BY <3>1, NextTypeOK, NextInStep DEF FwInv, IInv
  <2>2. Drained'
    BY NextDrained DEF FwInv
  <2> QED
    BY <2>1, <2>2, NextFwTypes, NextAccounted, NextOwed DEF FwInv
<1> QED
  BY <1>1, InitFwInv, PTL DEF FwSpec

-----------------------------------------------------------------------------
(* The main loop with skewed wires: a burst none of whose words was latched *)
(* half-way, after a TAIL that was parsed, is reported exactly, whatever   *)
(* was garbled before it.                                                  *)
THEOREM IntactBursts ==
  ASSUME ~NeutralTimeout
  PROVE  FwSpec => IntactBurstsAreExact
<1> DEFINE Exact == DrainWord /\ Decode(Head(rb)).is_tail /\ intact
                      => emitted' = Pipe!EventsOf(due)
<1>1. FwInv /\ [FwNext]_fwVars => [Exact]_fwVars
  <2> SUFFICES ASSUME FwInv, DrainWord, Decode(Head(rb)).is_tail, intact
               PROVE  emitted' = Pipe!EventsOf(due)
    OBVIOUS
  <2>1. Drains
    BY DEF DrainWord, Pop, FwInv, Drained, Chan, Drains, Latched, Waiting, bus, tx, rx, history
  <2>2. due # <<>> /\ Partial = due
    BY <2>1, TailFindsTheBurst
  <2>3. Decode(Head(rb)).ok /\ Decode(Head(rb)).is_tail \in BOOLEAN
    BY <2>1, WordDrained
  <2>4. Feed(Decode(Head(rb))) /\ burst \in BurstType
    BY DEF DrainWord, FwInv, FwTypes
  <2> QED
    BY <2>2, <2>3, <2>4, DecodedIndex, FeedOnPartial
<1> QED
  BY <1>1, FirmwareInvariant, PTL DEF FwSpec, IntactBurstsAreExact

NeverGarbled == intact /\ ~garbled

(* Wires that switch together are never latched half-way.                  *)
LEMMA NextNeverGarbled ==
  ASSUME ~Skew, ~NeutralTimeout, FwInv, NeverGarbled, [FwNext]_fwVars
  PROVE  NeverGarbled'
<1>1. Sends \/ Latches \/ Stores \/ Drains \/ LeavesWords
  BY StepsOfTheWords DEF FwInv
<1>2. CASE Sends \/ Stores \/ LeavesWords
  <2>1. garbled' = garbled /\ intact' = intact
    BY <1>2 DEF Sends, Stores, LeavesWords, SameBurst
  <2> QED
    BY <2>1 DEF NeverGarbled
<1>3. CASE Latches
  BY <1>3 DEF NeverGarbled, Latches, SameBurst
<1>4. CASE Drains
  <2>1. garbled' = garbled /\ intact' = (Decode(Head(rb)).is_tail \/ (intact /\ ~garbled))
    BY <1>4 DEF Drains, DrainWord
  <2> QED
    BY <2>1 DEF NeverGarbled
<1> QED
  BY <1>1, <1>2, <1>3, <1>4

(* Each step of the firmware is a step of the pipe, or none: the loop      *)
(* reports where it feeds a TAIL to the assembler.                         *)
LEMMA StepOfThePipe ==
  ASSUME ~Skew, ~NeutralTimeout, FwInv, NeverGarbled, [FwNext]_fwVars
  PROVE  [Pipe!Next]_Pipe!vars
<1>1. FwTypes /\ (Sends \/ Latches \/ Stores \/ Drains \/ LeavesWords)
  BY StepsOfTheWords DEF FwInv
<1>2. CASE Sends
  <2>1. SensorStarts /\ Chan = <<>> /\ emitted' = emitted
    BY <1>2 DEF Sends
  <2>2. Clean
    BY DEF NeverGarbled, Clean
  <2>3. CASE \E i \in Indices : sent = <<>> /\ sent' = <<i>> /\ due' = due
    BY <2>1, <2>3 DEF Pipe!Next, Pipe!Row
  <2>4. CASE \E i \in Indices : sent # <<>> /\ Len(sent) <= Cols /\ sent' = Append(sent, i) /\ due' = due
    BY <2>1, <2>4 DEF Pipe!Next, Pipe!Column
  <2>5. CASE Len(sent) > 1 /\ sent' = <<>> /\ due' = sent
    <3>1. due = <<>>
      BY <2>1, <2>2, <2>5, TailFindsNothingDue
    <3> QED
      BY <2>1, <2>5, <3>1 DEF Pipe!Next, Pipe!EndBurst
  <2> QED
    BY <2>1, <2>3, <2>4, <2>5, SensorStartsWord
<1>3. CASE Drains
  <2> DEFINE word == Decode(Head(rb))
  <2>1. Feed(word) /\ due' = (IF word.is_tail THEN <<>> ELSE due) /\ sent' = sent
    BY <1>3 DEF Drains, DrainWord
  <2>2. /\ Index(word.payload) \in Indices /\ word.is_tail \in BOOLEAN
        /\ burst \in BurstType /\ word.ok
    BY <1>1, <1>3, DecodedIndex, WordDrained DEF FwTypes, NeverGarbled
  <2>3. CASE word.is_tail
    <3>1. due # <<>> /\ Partial = due
      BY <1>3, <2>3, TailFindsTheBurst DEF NeverGarbled
    <3>2. emitted' = Pipe!EventsOf(due)
      BY <2>1, <2>2, <2>3, <3>1, FeedOnPartial
    <3> QED
      BY <2>1, <2>3, <3>1, <3>2 DEF Pipe!Next, Pipe!Report
  <2>4. CASE ~word.is_tail
    <3>1. emitted' = <<>>
      BY <2>1, <2>2, <2>4, FeedOnPartial
    <3> QED
      BY <2>1, <2>4, <3>1 DEF Pipe!Next, Pipe!Quiet
  <2> QED
    BY <2>2, <2>3, <2>4
<1>4. CASE Latches \/ Stores \/ LeavesWords
  BY <1>4 DEF Latches, Stores, LeavesWords, SameBurst, Pipe!vars
<1> QED
  BY <1>1, <1>2, <1>3, <1>4

(* With wires that switch together the firmware implements BurstPipe: the  *)
(* host gets the events of every burst once, in order, with the row of that *)
(* burst, and before the sensor ends the next one.                         *)
THEOREM FirmwareReportsEveryBurst ==
  ASSUME ~NeutralTimeout, ~Skew
  PROVE  FwSpec => ReportsEveryBurst
<1>1. FwInit => NeverGarbled /\ Pipe!Init
  BY DEF FwInit, BurstInit, NeverGarbled, Pipe!Init
<1>2. FwInv /\ NeverGarbled /\ [FwNext]_fwVars => NeverGarbled'
  BY NextNeverGarbled
<1>3. FwInv /\ NeverGarbled /\ [FwNext]_fwVars => [Pipe!Next]_Pipe!vars
  BY StepOfThePipe
<1> QED
  BY <1>1, <1>2, <1>3, FirmwareInvariant, PTL DEF FwSpec, ReportsEveryBurst, Pipe!Spec
=============================================================================
