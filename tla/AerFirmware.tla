---------------------------- MODULE AerFirmware ----------------------------
(***************************************************************************)
(* The main loop of pico_aer_rx/pico_aer_rx.c: poll DATA, run one step of  *)
(* the polling receiver, drain the ring buffer through the codec into the  *)
(* burst assembler.  The sensor at the other end of the link sends bursts  *)
(* as README.md section 5 says: a ROW, one or more COLs, a TAIL.           *)
(***************************************************************************)
EXTENDS AerRxPoll, AerBurst, AerCodec

RowOrColumn(i) == Encode(i)
TailWord       == Encode(TailPayload)

ASSUME FirmwareAssumption ==
  /\ IndexSpan < PayloadSpan
  /\ Words = {RowOrColumn(i) : i \in Indices} \cup {TailWord}

VARIABLES
  main_pc,  \* where main() is in its loop
  sent,     \* history: <<row, column, ...>>, the burst being sent
  due,      \* history: the burst that ended last, <<>> once a TAIL is parsed
  garbled,  \* history: the word latched last was not the word being sent
  intact    \* history: nothing was garbled since a TAIL was parsed

fw     == <<main_pc, sent, due, garbled, intact>>
fwVars == <<vars, burst, emitted, main_pc, sent, due, garbled, intact>>

MainPhases == {"tud_task", "poll", "call", "step", "drain"}

FwInit ==
  /\ Init /\ BurstInit
  /\ main_pc = "tud_task"
  /\ sent = <<>> /\ due = <<>>
  /\ garbled = FALSE /\ intact = TRUE

-----------------------------------------------------------------------------
(* The sensor. *)

SendRow(i) ==
  /\ sent = <<>>
  /\ TxStart(RowOrColumn(i))
  /\ sent' = <<i>>
  /\ UNCHANGED <<burst, emitted, main_pc, due, garbled, intact>>

SendColumn(i) ==
  /\ sent # <<>> /\ Len(sent) <= Cols
  /\ TxStart(RowOrColumn(i))
  /\ sent' = Append(sent, i)
  /\ UNCHANGED <<burst, emitted, main_pc, due, garbled, intact>>

SendTail ==
  /\ Len(sent) > 1
  /\ TxStart(TailWord)
  /\ sent' = <<>>
  /\ due' = sent
  /\ UNCHANGED <<burst, emitted, main_pc, garbled, intact>>

SensorStarts == (\E i \in Indices : SendRow(i) \/ SendColumn(i)) \/ SendTail

SensorContinues == Transmitter /\ UNCHANGED <<burst, emitted, fw>>

-----------------------------------------------------------------------------
(* main().  The definitions marked "mutant" are plausible bugs in the      *)
(* definition that follows them; nothing else uses them.                   *)

TudTask ==
  /\ main_pc = "tud_task"
  /\ main_pc' = "poll"
  /\ UNCHANGED <<vars, burst, emitted, sent, due, garbled, intact>>

(* if (hal_gpio_read_data_raw() == 0u) continue; *)
PollNeutral ==
  /\ main_pc = "poll" /\ data = {}
  /\ main_pc' = "tud_task"
  /\ UNCHANGED <<vars, burst, emitted, sent, due, garbled, intact>>

PollValid ==
  /\ main_pc = "poll" /\ data # {}
  /\ main_pc' = "call"
  /\ UNCHANGED <<vars, burst, emitted, sent, due, garbled, intact>>

CallStep ==
  /\ main_pc = "call"
  /\ StepCall
  /\ main_pc' = "step"
  /\ UNCHANGED <<burst, emitted, sent, due, garbled, intact>>

(* The rest of aer_rx_poll_step; its status is ignored. *)
RunStep ==
  /\ main_pc = "step"
  /\ Receiver /\ rx_pc # "idle"
  /\ main_pc' = IF rx_pc' = "idle" THEN "drain" ELSE "step"
  /\ garbled' = IF rx_pc = "wait_valid" /\ rx_pc' = "ack"
                THEN data # tx_word ELSE garbled
  /\ UNCHANGED <<burst, emitted, sent, due, intact>>

(* while (ringbuf_u32_pop(...)) { decode; feed } *)
DrainWord ==
  /\ main_pc = "drain"
  /\ rb # <<>>
  /\ LET word == Decode(Head(rb))
     IN /\ Feed(word)
        /\ due' = IF word.is_tail THEN <<>> ELSE due
        /\ intact' = (word.is_tail \/ (intact /\ ~garbled))
  /\ Pop
  /\ UNCHANGED <<main_pc, sent, garbled>>

DrainStopsEarly ==                                               \* mutant
  /\ main_pc = "drain"
  /\ main_pc' = "tud_task"
  /\ UNCHANGED <<vars, burst, emitted, sent, due, garbled, intact>>
DrainDone ==
  /\ main_pc = "drain"
  /\ rb = <<>>
  /\ main_pc' = "tud_task"
  /\ UNCHANGED <<vars, burst, emitted, sent, due, garbled, intact>>

Main == TudTask \/ PollNeutral \/ PollValid \/ CallStep \/ RunStep
        \/ DrainWord \/ DrainDone

FwNext == SensorStarts \/ SensorContinues \/ Main

(* main() never stops, and a sensor that began a word completes it. *)
FwSpec     == FwInit /\ [][FwNext]_fwVars /\ WF_fwVars(Main) /\ WF_fwVars(SensorContinues)

-----------------------------------------------------------------------------
Pipe == INSTANCE BurstPipe WITH MaxCols <- Cols, out <- emitted

(* With wires that switch together the firmware reports every burst of the *)
(* sensor exactly: each event once, in order, with the burst's own row,    *)
(* and before the TAIL of the next burst is sent.                          *)
ReportsEveryBurst == Pipe!Spec

(* Draining after each step keeps the ring buffer from filling, whatever   *)
(* its capacity: a step finds it empty, so no word of the sensor is ever   *)
(* dropped for want of space.                                              *)
MainNeverDrops ==
  /\ stats.dropped_full = 0
  /\ main_pc = "step" /\ rx_pc \in Waiting \cup Latched => rb = <<>>

(* Skewed wires can cost words, never burst boundaries for long: a burst   *)
(* none of whose words was garbled, and whose predecessor's TAIL was       *)
(* parsed, is reported exactly.                                            *)
IntactBurstsAreExact ==
  [][ DrainWord /\ Decode(Head(rb)).is_tail /\ intact => emitted' = Pipe!EventsOf(due) ]_fwVars

(* The events of a burst whose TAIL is on the bus are reported. *)
BurstsAreReported == due # <<>> ~> due = <<>>

(* The loop comes back to the USB stack again and again: "Avoid blocking   *)
(* forever inside aer_rx_poll_step()", pico_aer_rx.c.                      *)
KeepsServicingUsb == []<>(main_pc = "tud_task")

(* README.md section 9: "Each COL word produces one event using the most   *)
(* recent ROW": nothing is reported that the sensor did not send.          *)
NoPhantomEvents ==
  [][ DrainWord /\ emitted' # <<>> =>
        \A i \in 1 .. Len(emitted') :
          \E j \in 1 .. Len(Pipe!EventsOf(due)) : emitted'[i] = Pipe!EventsOf(due)[j] ]_fwVars
=============================================================================
