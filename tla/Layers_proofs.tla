---------------------------- MODULE Layers_proofs ----------------------------
(***************************************************************************)
(* The layers that MCLayers runs side by side.                             *)
(*                                                                         *)
(* The GPIO layer, for DATA on any pins and any number of them, ACK on any *)
(* other pin and of either polarity, and any words: the sensor is shown    *)
(* ACK edges in step with DATA.  GpioInv is the inductive invariant.       *)
(*                                                                         *)
(* The service loop of the receiver, for every set of words, every pair of *)
(* timeouts, every call, every capacity and every bounded delay: what its  *)
(* return value counts, that each wait gets its whole timeout, and by when *)
(* a call is over.  The transmitter may do what AerRxPoll allows, or stop. *)
(* ServiceInv and PromptInv are the inductive invariants.                  *)
(*                                                                         *)
(* The time layer, for clocks and counters of any width, any clock rate    *)
(* and any wait: deadlines and spins wherever the clocks wrap.  TimeInv,   *)
(* the inductive invariant, says where on the clock a call began and that  *)
(* its last test came too early; the rest is arithmetic modulo the widths. *)
(* Common_proofs is here for its facts of division.                        *)
(***************************************************************************)
EXTENDS HalGpio, HalTime, RxService, Common_proofs

-----------------------------------------------------------------------------
(* hal_gpio.c                                                              *)

Pins     == 0 .. 63
DataBits == 0 .. g_cfg.data_width - 1
Places   == {"off", "ack_out", "ack_level", "rest", "valid_lo", "valid_hi", "ack",
             "neutral_lo", "neutral_hi", "release"}
Acked    == {"neutral_lo", "neutral_hi", "release"}

GpioTypes ==
  /\ g_cfg \in GpioCfgs
  /\ pins \in [high : SUBSET Pins, out : SUBSET Pins]
  /\ hal_pc \in Places
  /\ lo \in SUBSET LoPins
  /\ sensor \in [pc : {"idle", "drive", "clear"}, word : DataWords \cup {{}}]
  /\ early \in BOOLEAN

(* ACK has its level, of either polarity, from hal_gpio_init on; before,   *)
(* an active-low ACK finds the sensor in reset.                            *)
AckLevel ==
  /\ ~Initialising => g_cfg.ack_pin \in pins.out /\ (AckIsAsserted <=> hal_pc \in Acked)
  /\ hal_pc = "ack_level" => g_cfg.ack_pin \in pins.out
  /\ Initialising /\ g_cfg.ack_active_high  => ~AckIsAsserted
  /\ Initialising /\ ~g_cfg.ack_active_high => sensor.pc = "idle"

(* The sensor has on the bus what belongs to its word.                     *)
BusOfSensor ==
  /\ sensor.pc = "idle"  => Data = {}
  /\ sensor.pc # "idle"  => sensor.word \in DataWords /\ Data \subseteq sensor.word

(* The wires that the first register showed, and those it shows now.       *)
LoWires == {i \in DataBits : g_cfg.data_base + i \in lo}
LoData  == {i \in Data : g_cfg.data_base + i \in LoPins}
HiData  == {i \in Data : g_cfg.data_base + i \in HiPins}

(* Where the two sides are in the four phases: while a word is read its    *)
(* wires only rise, so that a torn read is a part of it; while neutral is  *)
(* awaited they only fall, if the word was complete or DATA lies in one    *)
(* register, so that a torn read that shows nothing is neutral.            *)
FourPhases ==
  /\ hal_pc \notin Acked \cup {"ack"} /\ sensor.pc = "clear" => Data = {}
  /\ hal_pc = "valid_hi" => LoWires \subseteq Data
  /\ hal_pc = "ack" => sensor.pc = "drive"
  /\ hal_pc \in {"ack", "neutral_lo", "neutral_hi"} =>
       /\ sensor.pc # "idle" /\ word # {}
       /\ sensor.pc = "drive" => word \subseteq Data
       /\ sensor.pc = "drive" /\ InBoth => Data = sensor.word
  /\ hal_pc = "neutral_hi" /\ InBoth => LoData \subseteq LoWires
  /\ hal_pc = "neutral_hi" /\ DataMask(g_cfg) \subseteq LoPins /\ LoWires = {} => Data = {}
  /\ hal_pc = "release" => sensor.pc = "clear" /\ Data = {}

GpioInv == GpioTypes /\ AckLevel /\ BusOfSensor /\ (~early => FourPhases)

-----------------------------------------------------------------------------
(* What the configuration promises.                                        *)
LEMMA CfgFacts ==
  ASSUME GpioTypes
  PROVE  /\ g_cfg.data_base \in Nat /\ g_cfg.data_width \in Nat \ {0}
         /\ g_cfg.data_base + g_cfg.data_width <= 64
         /\ g_cfg.ack_pin \in Pins /\ g_cfg.ack_pin \notin DataMask(g_cfg)
         /\ g_cfg.ack_active_high \in BOOLEAN
         /\ g_cfg.ack_deasserted_level = ~g_cfg.ack_active_high
         /\ \A w \in DataWords : w # {} /\ w \subseteq DataBits
  BY GpioAssumption DEF GpioTypes, Pins, DataMask, DataBits

(* Writing ACK leaves DATA alone.                                          *)
LEMMA WriteKeepsData ==
  ASSUME GpioTypes, NEW level \in BOOLEAN, WritePin(g_cfg.ack_pin, level), g_cfg' = g_cfg
  PROVE  /\ Data' = Data /\ pins'.out = pins.out
         /\ pins' \in [high : SUBSET Pins, out : SUBSET Pins]
         /\ (g_cfg.ack_pin \in pins'.high) = level
  <1>1. pins' = [high |-> IF level THEN pins.high \cup {g_cfg.ack_pin}
                          ELSE pins.high \ {g_cfg.ack_pin},
                 out |-> pins.out]
    BY DEF WritePin, GpioTypes
  <1>2. \A i \in DataBits : g_cfg.data_base + i # g_cfg.ack_pin
    BY CfgFacts DEF DataBits, DataMask
  <1>3. Data' = Data
    BY <1>1, <1>2 DEF Data, DataBits
  <1> QED
    BY <1>1, <1>3, CfgFacts DEF GpioTypes

(* The sensor's writes leave ACK alone, and put on DATA what they say.     *)
LEMMA DrivesSetsData ==
  ASSUME GpioTypes, NEW wires \in SUBSET DataBits, Drives(wires)
  PROVE  /\ Data' = wires /\ pins'.out = pins.out
         /\ pins' \in [high : SUBSET Pins, out : SUBSET Pins]
         /\ (g_cfg.ack_pin \in pins'.high) = (g_cfg.ack_pin \in pins.high)
         /\ UNCHANGED <<g_cfg, hal_pc, lo, word, early>>
  <1>1. /\ pins' = [high |-> (pins.high \ PinsOf(DataBits)) \cup PinsOf(wires), out |-> pins.out]
        /\ UNCHANGED <<g_cfg, hal_pc, lo, word, early>>
    BY DEF Drives, DataBits, GpioTypes
  <1>2. \A i \in DataBits : g_cfg.data_base + i # g_cfg.ack_pin /\ g_cfg.data_base + i \in Pins
    BY CfgFacts DEF DataBits, DataMask, Pins
  <1>3. \A i \in DataBits : g_cfg.data_base + i \in PinsOf(wires) <=> i \in wires
    BY CfgFacts DEF DataBits, PinsOf
  <1>4. Data' = wires
    BY <1>1, <1>3 DEF Data, DataBits, PinsOf
  <1>5. PinsOf(wires) \subseteq Pins /\ g_cfg.ack_pin \notin PinsOf(DataBits) \cup PinsOf(wires)
    BY <1>2 DEF PinsOf
  <1> QED
    BY <1>1, <1>4, <1>5 DEF GpioTypes

(* A read is made of what the first register showed and the second shows.  *)
LEMMA ReadIsTorn ==
  ASSUME GpioTypes
  PROVE  Packed32(lo \cup (pins.high \cap HiPins)) = LoWires \cup HiData
  <1>1. ASSUME NEW all \in SUBSET Pins
        PROVE  Packed32(all) = {i \in DataBits : g_cfg.data_base + i \in all}
    <2>1. ASSUME NEW i \in DataBits, g_cfg.data_base + i \in all
          PROVE  i \in Packed32(all)
      <3>1. g_cfg.data_base + i \in all \cap DataMask(g_cfg)
        BY <2>1, CfgFacts DEF DataMask, DataBits
      <3>2. i = (g_cfg.data_base + i) - g_cfg.data_base
        BY CfgFacts DEF DataBits
      <3> QED
        BY <3>1, <3>2 DEF Packed32
    <2>2. ASSUME NEW i \in Packed32(all)
          PROVE  i \in DataBits /\ g_cfg.data_base + i \in all
      <3>1. PICK p \in all \cap DataMask(g_cfg) : i = p - g_cfg.data_base
        BY DEF Packed32
      <3> QED
        BY <3>1, CfgFacts DEF DataMask, DataBits, Pins
    <2> QED
      BY <2>1, <2>2, Zenon
  <1>2. lo \cup (pins.high \cap HiPins) \in SUBSET Pins
    <2>1. lo \in SUBSET LoPins /\ pins.high \in SUBSET Pins /\ LoPins \subseteq Pins
      BY DEF GpioTypes, Pins, LoPins
    <2> QED
      BY <2>1
  <1> QED
    BY <1>1, <1>2 DEF LoWires, HiData, Data, DataBits

-----------------------------------------------------------------------------
(* The actions in terms of DATA, of what was read of it and of ACK.        *)
LEMMA CallerWrites ==
  ASSUME GpioTypes, InitCall \/ GpioIdle \/ Step \/ Assert \/ Release
  PROVE  /\ UNCHANGED <<g_cfg, lo, word, sensor, early>> /\ Data' = Data
         /\ pins' \in [high : SUBSET Pins, out : SUBSET Pins]
         /\ \/ hal_pc = "off"       /\ hal_pc' = "ack_out" /\ g_cfg.ack_pin \notin pins'.high
            \/ hal_pc = "ack_out"   /\ hal_pc' = "ack_level" /\ pins'.high = pins.high
            \/ /\ hal_pc = "ack_level" /\ hal_pc' = "rest" /\ pins'.out = pins.out
               /\ (g_cfg.ack_pin \in pins'.high) = ~g_cfg.ack_active_high
            \/ /\ hal_pc = "rest" /\ hal_pc' = "rest"
               /\ g_cfg.ack_pin \in pins.out => g_cfg.ack_pin \in pins'.out
               /\ (g_cfg.ack_pin \in pins'.high) = ~g_cfg.ack_active_high
            \/ /\ hal_pc = "rest" /\ hal_pc' = "valid_lo" /\ pins'.out = pins.out
               /\ (g_cfg.ack_pin \in pins'.high) = ~g_cfg.ack_active_high
            \/ /\ hal_pc = "ack" /\ hal_pc' = "neutral_lo" /\ pins'.out = pins.out
               /\ (g_cfg.ack_pin \in pins'.high) = g_cfg.ack_active_high
            \/ /\ hal_pc = "release" /\ hal_pc' = "rest" /\ pins'.out = pins.out
               /\ (g_cfg.ack_pin \in pins'.high) = ~g_cfg.ack_active_high
         /\ hal_pc = "ack_out" => g_cfg.ack_pin \in pins'.out
  <1> USE CfgFacts
  <1>1. \A i \in DataBits : g_cfg.data_base + i # g_cfg.ack_pin
    BY DEF DataBits, DataMask
  <1>2. CASE InitPins
    <2>1. Data' = Data
      BY <1>1, <1>2 DEF InitPins, Data, DataBits
    <2> QED
      BY <1>2, <2>1 DEF InitPins, GpioTypes
  <1>3. CASE InitAckOut
    <2>1. pins' = [high |-> pins.high, out |-> pins.out \cup {g_cfg.ack_pin}]
      BY <1>3 DEF InitAckOut, GpioTypes
    <2> QED
      BY <1>3, <2>1 DEF InitAckOut, GpioTypes, Data
  <1>4. CASE GpioIdle
    <2>1. Data' = Data
      BY <1>1, <1>4 DEF GpioIdle, Data, DataBits
    <2>2. pins' \in [high : SUBSET Pins, out : SUBSET Pins]
      BY <1>4 DEF GpioIdle, GpioTypes
    <2>3. pins'.high = IF ~g_cfg.ack_active_high THEN pins.high \cup {g_cfg.ack_pin}
                       ELSE pins.high \ {g_cfg.ack_pin}
      BY <1>4 DEF GpioIdle
    <2>4. pins'.out = pins.out \ DataMask(g_cfg)
      BY <1>4 DEF GpioIdle
    <2>5. (g_cfg.ack_pin \in pins'.high) = ~g_cfg.ack_active_high
      BY <2>3
    <2>6. g_cfg.ack_pin \in pins.out => g_cfg.ack_pin \in pins'.out
      BY <2>4
    <2> QED
      BY <1>4, <2>1, <2>2, <2>5, <2>6 DEF GpioIdle
  <1>5. CASE InitAckLevel
    BY <1>5, WriteKeepsData DEF InitAckLevel
  <1>6. CASE Step \/ Assert \/ Release
    <2>1. /\ ack_level_for_asserted(TRUE)  = g_cfg.ack_active_high
          /\ ack_level_for_asserted(FALSE) = ~g_cfg.ack_active_high
      BY DEF ack_level_for_asserted
    <2> QED
      BY <1>6, <2>1, WriteKeepsData DEF Step, Assert, Release, AckWrite
  <1> QED
    BY <1>2, <1>3, <1>4, <1>5, <1>6 DEF InitCall

LEMMA CallerReadsLo ==
  ASSUME GpioTypes, ReadLo
  PROVE  /\ UNCHANGED <<g_cfg, pins, word, sensor, early, Data>>
         /\ LoWires' = LoData /\ lo' \in SUBSET LoPins
         /\ \/ hal_pc = "valid_lo"   /\ hal_pc' = "valid_hi"
            \/ hal_pc = "neutral_lo" /\ hal_pc' = "neutral_hi"
  <1>1. UNCHANGED <<g_cfg, pins, word, sensor, early>> /\ lo' = pins.high \cap LoPins
    BY DEF ReadLo
  <1>2. Data' = Data
    BY <1>1 DEF Data
  <1>3. LoWires' = LoData
    BY <1>1 DEF LoWires, LoData, Data, DataBits
  <1> QED
    BY <1>1, <1>2, <1>3 DEF ReadLo

LEMMA CallerReadsHi ==
  ASSUME GpioTypes, ReadHi
  PROVE  /\ UNCHANGED <<g_cfg, pins, sensor, Data>> /\ lo' \in SUBSET LoPins
         /\ \/ /\ hal_pc = "valid_hi" /\ hal_pc' = "ack" /\ LoWires \cup HiData # {}
               /\ word' = LoWires \cup HiData
               /\ early' = (early \/ (InBoth /\ LoWires \cup HiData # sensor.word))
            \/ hal_pc = "valid_hi" /\ hal_pc' = "valid_lo" /\ UNCHANGED <<word, early>>
            \/ hal_pc = "neutral_hi" /\ hal_pc' = "neutral_lo" /\ UNCHANGED <<word, early>>
            \/ /\ hal_pc = "neutral_hi" /\ hal_pc' = "release" /\ UNCHANGED <<word, early>>
               /\ LoWires = {} /\ HiData = {}
  <1>1. UNCHANGED <<g_cfg, pins, sensor>> /\ lo' = {} /\ Use(LoWires \cup HiData)
        /\ hal_pc \in {"valid_hi", "neutral_hi"}
    BY ReadIsTorn DEF ReadHi
  <1>2. Data' = Data
    BY <1>1 DEF Data
  <1>3. ASSUME NEW raw, raw = LoWires \cup HiData
        PROVE  /\ raw = {} => LoWires = {} /\ HiData = {}
               /\ lo' \in SUBSET LoPins
    BY <1>1, <1>3
  <1> QED
    BY <1>1, <1>2, <1>3 DEF Use

LEMMA SensorDrives ==
  ASSUME GpioTypes, SensorRaises \/ SensorLowers
  PROVE  /\ UNCHANGED <<g_cfg, hal_pc, lo, word, sensor, early, LoWires>>
         /\ pins' \in [high : SUBSET Pins, out : SUBSET Pins] /\ pins'.out = pins.out
         /\ (g_cfg.ack_pin \in pins'.high) = (g_cfg.ack_pin \in pins.high)
         /\ \/ /\ sensor.pc = "drive" /\ Data' # Data
               /\ \E i \in sensor.word : i \notin Data /\ Data' = Data \cup {i}
            \/ sensor.pc = "clear" /\ Data' \subseteq Data /\ Data # {}
  <1>0. Data \subseteq DataBits
    BY DEF Data, DataBits
  <1>1. CASE SensorRaises
    <2>1. PICK i \in sensor.word \ Data : Drives(Data \cup {i})
      BY <1>1 DEF SensorRaises
    <2>2. i \in DataBits
      BY <2>1, CfgFacts DEF GpioTypes
    <2>3. Data \cup {i} \in SUBSET DataBits
      BY <1>0, <2>2
    <2>4. /\ Data' = Data \cup {i} /\ pins'.out = pins.out
          /\ pins' \in [high : SUBSET Pins, out : SUBSET Pins]
          /\ (g_cfg.ack_pin \in pins'.high) = (g_cfg.ack_pin \in pins.high)
          /\ UNCHANGED <<g_cfg, hal_pc, lo, word, early>>
      BY <2>1, <2>3, DrivesSetsData
    <2>5. UNCHANGED <<sensor, LoWires>> /\ sensor.pc = "drive"
      BY <1>1, <2>4 DEF SensorRaises, LoWires, DataBits
    <2> QED
      BY <2>1, <2>4, <2>5
  <1>2. CASE SensorLowers
    <2>1. PICK i \in Data : Drives(Data \ {i})
      BY <1>2 DEF SensorLowers
    <2>2. Data \ {i} \in SUBSET DataBits
      BY <1>0
    <2>3. /\ Data' = Data \ {i} /\ pins'.out = pins.out
          /\ pins' \in [high : SUBSET Pins, out : SUBSET Pins]
          /\ (g_cfg.ack_pin \in pins'.high) = (g_cfg.ack_pin \in pins.high)
          /\ UNCHANGED <<g_cfg, hal_pc, lo, word, early>>
      BY <2>1, <2>2, DrivesSetsData
    <2>4. UNCHANGED <<sensor, LoWires>> /\ sensor.pc = "clear"
      BY <1>2, <2>3 DEF SensorLowers, LoWires, DataBits
    <2> QED
      BY <2>1, <2>3, <2>4
  <1> QED
    BY <1>1, <1>2

LEMMA SensorMoves ==
  ASSUME GpioTypes, SensorStarts \/ SensorTurns
  PROVE  /\ UNCHANGED <<g_cfg, pins, hal_pc, lo, word, early, Data, LoWires>>
         /\ sensor' \in [pc : {"idle", "drive", "clear"}, word : DataWords \cup {{}}]
         /\ \/ /\ sensor.pc = "idle" /\ sensor'.pc = "drive" /\ sensor'.word \in DataWords
               /\ g_cfg.ack_active_high \/ ~Initialising
            \/ /\ sensor.pc = "drive" /\ sensor'.pc = "clear" /\ sensor'.word = sensor.word
               /\ Data = sensor.word /\ SeesAck
            \/ /\ sensor.pc = "clear" /\ sensor'.pc = "idle" /\ Data = {} /\ ~SeesAck
  <1>1. UNCHANGED <<g_cfg, pins, hal_pc, lo, word, early>>
    BY DEF SensorStarts, SensorTurns
  <1>2. UNCHANGED <<Data, LoWires>>
    BY <1>1 DEF Data, LoWires, DataBits
  <1>3. CASE SensorStarts
    BY <1>1, <1>2, <1>3 DEF SensorStarts
  <1>4. CASE SensorTurns
    BY <1>1, <1>2, <1>4 DEF SensorTurns, GpioTypes
  <1> QED
    BY <1>3, <1>4

-----------------------------------------------------------------------------
LEMMA InitGpio ==
  ASSUME GpioInit
  PROVE  GpioInv
  <1>1. GpioTypes
    BY DEF GpioInit, GpioTypes, Places
  <1>2. Data = {} /\ hal_pc = "off" /\ sensor.pc = "idle" /\ pins.high = {}
    BY DEF GpioInit, Data
  <1>3. AckLevel
    BY <1>1, <1>2, CfgFacts DEF AckLevel, Initialising, AckIsAsserted
  <1> QED
    BY <1>1, <1>2, <1>3 DEF GpioInv, BusOfSensor, FourPhases, Acked

LEMMA NextGpioTypes ==
  ASSUME GpioTypes, GpioNext
  PROVE  GpioTypes'
  <1>1. CASE InitCall \/ GpioIdle \/ Step \/ Assert \/ Release
    BY <1>1, CallerWrites DEF GpioTypes, Places
  <1>2. CASE ReadLo
    BY <1>2, CallerReadsLo DEF GpioTypes, Places
  <1>3. CASE ReadHi
    <2>1. early' \in BOOLEAN
      BY <1>3, CallerReadsHi DEF GpioTypes
    <2> QED
      BY <1>3, <2>1, CallerReadsHi DEF GpioTypes, Places
  <1>4. CASE SensorRaises \/ SensorLowers
    BY <1>4, SensorDrives DEF GpioTypes
  <1>5. CASE SensorStarts \/ SensorTurns
    BY <1>5, SensorMoves DEF GpioTypes
  <1> QED
    BY <1>1, <1>2, <1>3, <1>4, <1>5 DEF GpioNext, Caller, Handshake, SensorContinues

LEMMA NextAckLevel ==
  ASSUME GpioTypes, AckLevel, GpioNext
  PROVE  AckLevel'
  <1> USE CfgFacts
  <1>1. CASE InitCall \/ GpioIdle \/ Step \/ Assert \/ Release
    <2>1. UNCHANGED <<g_cfg, sensor>>
      BY <1>1, CallerWrites
    <2>2. CASE hal_pc \in {"off", "ack_out"}
      BY <1>1, <2>1, <2>2, CallerWrites DEF AckLevel, AckIsAsserted, Initialising
    <2>3. CASE hal_pc \notin {"off", "ack_out"}
      <3>1. hal_pc = "ack_level" => g_cfg.ack_pin \in pins.out
        BY DEF AckLevel
      <3>2. g_cfg.ack_pin \in pins'.out /\ ~Initialising'
        BY <1>1, <2>3, <3>1, CallerWrites DEF AckLevel, Initialising
      <3>3. (g_cfg.ack_pin \in pins'.high) = g_cfg.ack_active_high <=> hal_pc' \in Acked
        BY <1>1, <2>3, CallerWrites DEF Acked
      <3> QED
        BY <2>1, <3>2, <3>3 DEF AckLevel, AckIsAsserted
    <2> QED
      BY <2>2, <2>3
  <1>2. CASE ReadLo
    BY <1>2, CallerReadsLo DEF AckLevel, AckIsAsserted, Initialising, Acked
  <1>3. CASE ReadHi
    BY <1>3, CallerReadsHi DEF AckLevel, AckIsAsserted, Initialising, Acked
  <1>4. CASE SensorRaises \/ SensorLowers
    BY <1>4, SensorDrives DEF AckLevel, AckIsAsserted, Initialising, Acked
  <1>5. CASE SensorStarts \/ SensorTurns
    BY <1>5, SensorMoves DEF AckLevel, AckIsAsserted, Initialising, Acked
  <1> QED
    BY <1>1, <1>2, <1>3, <1>4, <1>5 DEF GpioNext, Caller, Handshake, SensorContinues

LEMMA NextBusOfSensor ==
  ASSUME GpioTypes, BusOfSensor, GpioNext
  PROVE  BusOfSensor'
  <1>1. CASE InitCall \/ GpioIdle \/ Step \/ Assert \/ Release
    BY <1>1, CallerWrites DEF BusOfSensor
  <1>2. CASE ReadLo
    BY <1>2, CallerReadsLo DEF BusOfSensor
  <1>3. CASE ReadHi
    BY <1>3, CallerReadsHi DEF BusOfSensor
  <1>4. CASE SensorRaises \/ SensorLowers
    BY <1>4, SensorDrives DEF BusOfSensor
  <1>5. CASE SensorStarts \/ SensorTurns
    BY <1>5, SensorMoves DEF BusOfSensor
  <1> QED
    BY <1>1, <1>2, <1>3, <1>4, <1>5 DEF GpioNext, Caller, Handshake, SensorContinues

(* Every wire is in one register; DATA is in both, or in one of them.      *)
LEMMA Registers ==
  ASSUME GpioTypes
  PROVE  /\ Data = LoData \cup HiData
         /\ DataMask(g_cfg) \subseteq LoPins => Data = LoData
         /\ ~InBoth => DataMask(g_cfg) \subseteq LoPins \/ LoData = {}
  <1>1. \A i \in DataBits : /\ g_cfg.data_base + i \in DataMask(g_cfg)
                         /\ g_cfg.data_base + i \in LoPins \cup HiPins
    BY CfgFacts DEF DataBits, DataMask, LoPins, HiPins
  <1>2. DataMask(g_cfg) \subseteq LoPins \cup HiPins
    BY CfgFacts DEF DataMask, LoPins, HiPins
  <1>3. Data \subseteq DataBits
    BY DEF Data, DataBits
  <1>4. Data = LoData \cup HiData
    BY <1>1, <1>3 DEF LoData, HiData
  <1>5. DataMask(g_cfg) \subseteq LoPins => Data = LoData
    BY <1>1, <1>3 DEF LoData
  <1>6. DataMask(g_cfg) \cap LoPins = {} => LoData = {}
    BY <1>1, <1>3 DEF LoData
  <1>7. DataMask(g_cfg) \cap HiPins = {} => DataMask(g_cfg) \subseteq LoPins
    BY <1>2
  <1> QED
    BY <1>4, <1>5, <1>6, <1>7 DEF InBoth

LEMMA NextFourPhases ==
  ASSUME GpioTypes, AckLevel, BusOfSensor, FourPhases, GpioNext, ~early'
  PROVE  FourPhases'
  <1>0. InBoth' = InBoth /\ DataMask(g_cfg)' = DataMask(g_cfg)
    <2>1. g_cfg' = g_cfg
      BY CallerWrites, CallerReadsLo, CallerReadsHi, SensorDrives, SensorMoves
         DEF GpioNext, Caller, Handshake, SensorContinues
    <2> QED
      BY <2>1 DEF InBoth, DataMask
  <1>1. CASE InitCall \/ GpioIdle \/ Step \/ Assert \/ Release
    BY <1>0, <1>1, CallerWrites DEF FourPhases, Acked
  <1>2. CASE ReadLo
    <2>1. LoData \subseteq Data
      BY DEF LoData
    <2>2. CASE hal_pc = "valid_lo"
      BY <1>0, <1>2, <2>1, <2>2, CallerReadsLo DEF FourPhases, Acked
    <2>3. CASE hal_pc = "neutral_lo"
      <3>1. DataMask(g_cfg) \subseteq LoPins /\ LoData = {} => Data = {}
        BY Registers
      <3>2. LoData' = LoData
        BY <1>2, CallerReadsLo DEF LoData
      <3> QED
        BY <1>0, <1>2, <2>3, <3>1, <3>2, CallerReadsLo DEF FourPhases, Acked
    <2> QED
      BY <1>2, <2>2, <2>3, CallerReadsLo
  <1>3. CASE ReadHi
    <2>1. CASE hal_pc = "valid_hi" /\ hal_pc' = "ack"
      <3>1. /\ word' = LoWires \cup HiData /\ word' # {} /\ word' \subseteq Data
            /\ InBoth => word' = sensor.word
        BY <1>3, <2>1, CallerReadsHi, Registers DEF FourPhases
      <3>2. sensor.pc = "drive"
        BY <2>1, <3>1 DEF FourPhases, BusOfSensor, Acked, GpioTypes
      <3>3. InBoth => Data = sensor.word
        BY <3>1, <3>2 DEF BusOfSensor
      <3> QED
        BY <1>0, <1>3, <2>1, <3>1, <3>2, <3>3, CallerReadsHi DEF FourPhases, Acked
    <2>2. CASE hal_pc = "neutral_hi" /\ hal_pc' = "release"
      <3>1. LoWires = {} /\ HiData = {}
        BY <1>3, <2>2, CallerReadsHi
      <3>2. Data = {}
        BY <2>2, <3>1, Registers DEF FourPhases
      <3>3. sensor.pc = "clear"
        BY <2>2, <3>2 DEF FourPhases, GpioTypes
      <3> QED
        BY <1>0, <1>3, <2>2, <3>2, <3>3, CallerReadsHi DEF FourPhases, Acked
    <2>3. CASE hal_pc = "valid_hi" /\ hal_pc' = "valid_lo"
      BY <1>0, <1>3, <2>3, CallerReadsHi DEF FourPhases, Acked
    <2>4. CASE hal_pc = "neutral_hi" /\ hal_pc' = "neutral_lo"
      BY <1>0, <1>3, <2>4, CallerReadsHi DEF FourPhases, Acked
    <2> QED
      BY <1>3, <2>1, <2>2, <2>3, <2>4, CallerReadsHi
  <1>4. CASE SensorRaises \/ SensorLowers
    <2>1. CASE sensor.pc = "drive"
      <3>1. PICK i \in sensor.word : i \notin Data /\ Data' = Data \cup {i}
        BY <1>4, <2>1, SensorDrives
      <3>2. hal_pc \in {"ack", "neutral_lo", "neutral_hi"} => ~InBoth
        BY <2>1, <3>1 DEF FourPhases
      <3>3. hal_pc = "neutral_hi" /\ DataMask(g_cfg) \subseteq LoPins => LoWires # {}
        BY <2>1 DEF FourPhases
      <3> QED
        BY <1>0, <1>4, <2>1, <3>1, <3>2, <3>3, SensorDrives DEF FourPhases, Acked
    <2>2. CASE sensor.pc = "clear"
      <3>1. Data' \subseteq Data /\ Data # {} /\ LoData' \subseteq LoData
        BY <1>4, <2>2, SensorDrives DEF LoData
      <3>2. hal_pc \in {"neutral_lo", "neutral_hi"}
        BY <2>2, <3>1 DEF FourPhases, Acked
      <3> QED
        BY <1>0, <1>4, <2>2, <3>1, <3>2, SensorDrives DEF FourPhases, Acked
    <2> QED
      BY <1>4, <2>1, <2>2, SensorDrives
  <1>5. CASE SensorStarts \/ SensorTurns
    <2>1. sensor.pc # "idle" => (SeesAck <=> hal_pc \in Acked)
      BY DEF AckLevel, SeesAck, Initialising, Acked
    <2>2. LoData' = LoData
      BY <1>5, SensorMoves DEF LoData
    <2> QED
      BY <1>0, <1>5, <2>1, <2>2, SensorMoves DEF FourPhases, Acked
  <1> QED
    BY <1>1, <1>2, <1>3, <1>4, <1>5 DEF GpioNext, Caller, Handshake, SensorContinues

-----------------------------------------------------------------------------
(* What the sensor sees of ACK is where the caller is in its handshake.    *)
LEMMA AckIsSeen ==
  ASSUME AckLevel, ~Initialising \/ g_cfg.ack_active_high
  PROVE  SeesAck <=> hal_pc \in Acked
  BY DEF AckLevel, SeesAck, Initialising, Acked

LEMMA EdgesFollow ==
  ASSUME GpioInv, GpioNext, GpioInv', g_cfg.ack_active_high \/ ~Initialising, ~early
  PROVE  /\ ~SeesAck /\ SeesAck' =>
              hal_pc = "ack" /\ Data # {} /\ word # {} /\ word \subseteq sensor.word
         /\ SeesAck /\ ~SeesAck' => hal_pc = "release" /\ Data = {}
  <1>1. g_cfg' = g_cfg /\ (Initialising' => Initialising)
        /\ (hal_pc \notin Acked /\ hal_pc' \in Acked => hal_pc = "ack")
        /\ (hal_pc \in Acked /\ hal_pc' \notin Acked => hal_pc = "release")
    BY CallerWrites, CallerReadsLo, CallerReadsHi, SensorDrives, SensorMoves
       DEF GpioInv, GpioNext, Caller, Handshake, SensorContinues, Initialising, Acked
  <1>2. SeesAck <=> hal_pc \in Acked
    BY AckIsSeen DEF GpioInv
  <1>3. SeesAck' <=> hal_pc' \in Acked
    BY <1>1 DEF GpioInv, AckLevel, SeesAck, Initialising, Acked
  <1>4. hal_pc = "ack" => Data # {} /\ word # {} /\ word \subseteq sensor.word
    BY DEF GpioInv, FourPhases, BusOfSensor
  <1>5. hal_pc = "release" => Data = {}
    BY DEF GpioInv, FourPhases
  <1> QED
    BY <1>1, <1>2, <1>3, <1>4, <1>5

(* GPIO layer: wherever DATA and ACK are wired and whatever the polarity,  *)
(* the sensor sees ACK rise only for a non-empty part of the word it is    *)
(* sending and fall only on neutral DATA, and nothing but the two writes   *)
(* of the handshake makes an edge (hal_gpio_init and hal_gpio_idle do not),*)
(* as long as the words latched on a split bus were complete.              *)
THEOREM EdgesOfAckFollowData == GpioSpec => AckEdgesFollowData
  <1>1. GpioInit => GpioInv
    BY InitGpio
  <1>2. GpioInv /\ [GpioNext]_gpioVars => GpioInv'
    <2>1. ASSUME GpioInv, GpioNext
          PROVE  GpioInv'
      <3>1. early => early'
        BY <2>1, CallerWrites, CallerReadsLo, CallerReadsHi, SensorDrives, SensorMoves
           DEF GpioInv, GpioNext, Caller, Handshake, SensorContinues
      <3> QED
        BY <2>1, <3>1, NextGpioTypes, NextAckLevel, NextBusOfSensor, NextFourPhases DEF GpioInv
    <2>2. ASSUME GpioInv, UNCHANGED gpioVars
          PROVE  GpioInv'
      BY <2>2 DEF gpioVars, GpioInv, GpioTypes, AckLevel, BusOfSensor, FourPhases, AckIsAsserted,
           Initialising, Data, LoWires, LoData, DataBits, DataMask, InBoth, Acked
    <2> QED
      BY <2>1, <2>2
  <1>3. GpioInv /\ GpioInv' /\ [GpioNext]_gpioVars =>
          [ (g_cfg.ack_active_high \/ ~Initialising) /\ ~early =>
              /\ ~SeesAck /\ SeesAck' =>
                   hal_pc = "ack" /\ Data # {} /\ word # {} /\ word \subseteq sensor.word
              /\ SeesAck /\ ~SeesAck' => hal_pc = "release" /\ Data = {} ]_gpioVars
    BY EdgesFollow
  <1> QED
    BY <1>1, <1>2, <1>3, PTL DEF GpioSpec, AckEdgesFollowData


-----------------------------------------------------------------------------
(* aer_rx_poll_service                                                     *)

CallRecord  == [running : BOOLEAN, max_words : Nat, budget : Nat, i : Nat, ok : Nat, took : Nat,
                turn : BOOLEAN]
ClockRecord == [now : Nat, deadline : Nat, gap : Nat, since : Nat]
ServiceType == svc \in CallRecord /\ clk \in ClockRecord

(* A step runs only inside a call and below max_words, each turn of the    *)
(* loop so far completed one word, and the words latched are those         *)
(* completed and possibly one more.                                        *)
InHand == rx_pc \in Latched \cup Finishing
Accounts ==
  /\ rx_pc \in RxPhases
  /\ ~svc.running => clk = Zero /\ rx_pc = "idle"
  /\ rx_pc # "idle" => svc.running /\ ~svc.turn
  /\ rx_pc # "idle" \/ svc.turn => svc.running /\ svc.i < svc.max_words
  /\ svc.running =>
       /\ svc.i = svc.ok /\ svc.i <= svc.max_words
       /\ svc.ok # 0 => status = "OK"
       /\ InHand  => svc.took = svc.ok + 1
       /\ ~InHand => svc.took = svc.ok
  /\ ~svc.running => \/ svc.took = svc.ok /\ (svc.took # 0 => status # "TIMEOUT_WAIT_NEUTRAL")
                     \/ svc.took = svc.ok + 1 /\ status = "TIMEOUT_WAIT_NEUTRAL"

(* The one deadline of a step is that of its present wait.                 *)
DeadlineIsCurrent ==
  /\ rx_pc \in {"wait_valid", "valid_late"}     => clk.deadline = clk.since + ValidUs
  /\ rx_pc \in {"wait_neutral", "neutral_late"} => clk.deadline = clk.since + NeutralUs

ServiceInv == ServiceType /\ Accounts /\ DeadlineIsCurrent

serviceView == <<rx_pc, status, svc, clk>>

(* Transmitter, consumer and reset leave alone what the call lives on.     *)
LEMMA OthersLeaveTheCall ==
  ASSUME Beside \/ ResetStats \/ UNCHANGED sVars
  PROVE  UNCHANGED serviceView
<1>1. CASE Beside
  BY <1>1 DEF Beside, TxStart, Transmitter, TxRaise, TxSeeAck, TxLower, TxDone, Pop,
              rx, serviceView
<1>2. CASE ResetStats
  BY <1>2 DEF ResetStats, Reset, serviceView
<1>3. CASE UNCHANGED sVars
  BY <1>3 DEF sVars, vars, serviceView
<1> QED
  BY <1>1, <1>2, <1>3

LEMMA InitService == ServiceInit => ServiceInv
  BY DEF ServiceInit, Init, ServiceInv, ServiceType, CallRecord, ClockRecord, Accounts, InHand, DeadlineIsCurrent,
         NoService, Zero, RxPhases, Waiting, Latched, Finishing

LEMMA ClockUpdates ==
  ASSUME NEW c \in ClockRecord, NEW a \in Nat, NEW b \in Nat, NEW d \in Nat
  PROVE  /\ [c EXCEPT !.gap = a] \in ClockRecord
         /\ [c EXCEPT !.now = a, !.gap = b] \in ClockRecord
         /\ [c EXCEPT !.gap = a, !.since = b, !.deadline = d] \in ClockRecord
         /\ [c EXCEPT !.deadline = a, !.gap = b, !.since = d] \in ClockRecord
  BY DEF ClockRecord

LEMMA NextServiceType ==
  ASSUME ServiceType, [ServiceNext]_sVars
  PROVE  ServiceType'
<1> USE ServiceAssumption DEF ServiceType
<1>0. /\ clk.now \in Nat /\ clk.now + 1 \in Nat /\ clk.gap + 1 \in Nat
      /\ clk.now + ValidUs \in Nat /\ clk.now + NeutralUs \in Nat /\ 0 \in Nat
      /\ svc.i + 1 \in Nat /\ svc.ok + 1 \in Nat /\ svc.took + 1 \in Nat
  BY DEF ClockRecord, CallRecord
<1>1. CASE ServiceCall
  <2>1. PICK c \in Calls :
          svc' = [NoService EXCEPT !.running = TRUE, !.max_words = c[1], !.budget = c[2]]
    BY <1>1 DEF ServiceCall
  <2>2. c[1] \in Nat /\ c[2] \in Nat
    BY <2>1
  <2> QED
    BY <1>1, <2>1, <2>2 DEF ServiceCall, NoService, CallRecord
<1>2. CASE BeginTurn \/ ServiceStep
  <2>1. /\ svc' \in CallRecord
        /\ \/ clk' = [clk EXCEPT !.deadline = clk.now + ValidUs, !.gap = 0, !.since = clk.now]
           \/ clk' = [clk EXCEPT !.gap = 0]
    BY <1>2 DEF BeginTurn, ServiceStep, CallRecord
  <2>2. /\ [clk EXCEPT !.deadline = clk.now + ValidUs, !.gap = 0, !.since = clk.now]
             \in ClockRecord
        /\ [clk EXCEPT !.gap = 0] \in ClockRecord
    BY <1>0, ClockUpdates
  <2> QED
    BY <2>1, <2>2
<1>3. CASE ServiceReturn \/ TimesOut
  <2>1. svc' = Returned /\ clk' = Zero
    BY <1>3 DEF ServiceReturn, TimesOut
  <2>2. Returned \in CallRecord
    BY DEF Returned, NoService, CallRecord
  <2>3. Zero \in ClockRecord
    BY DEF Zero, ClockRecord
  <2> QED
    BY <2>1, <2>2, <2>3
<1>4. CASE RunStep
  <2>1. clk' \in ClockRecord
    BY <1>4, ClockUpdates DEF RunStep
  <2>2. svc' \in CallRecord
    BY <1>4 DEF RunStep, CallRecord
  <2> QED
    BY <2>1, <2>2
<1>5. CASE Stores
  <2>1. /\ svc' = svc
        /\ \/ clk' = [clk EXCEPT !.gap = 0, !.since = clk.now,
                                 !.deadline = clk.now + NeutralUs]
           \/ clk' = [clk EXCEPT !.gap = 0]
    BY <1>5 DEF Stores
  <2>2. [clk EXCEPT !.gap = 0, !.since = clk.now, !.deadline = clk.now + NeutralUs]
          \in ClockRecord
    BY <1>0, ClockUpdates
  <2>3. [clk EXCEPT !.gap = 0] \in ClockRecord
    BY <1>0, ClockUpdates
  <2> QED
    BY <2>1, <2>2, <2>3
<1>6. CASE WaitsOn
  BY <1>6, ClockUpdates DEF WaitsOn
<1>7. CASE Completes
  <2>1. clk' \in ClockRecord
    BY <1>7, ClockUpdates DEF Completes
  <2>2. svc' = [svc EXCEPT !.i = svc.i + 1, !.ok = svc.ok + 1]
    BY <1>7 DEF Completes
  <2>3. svc' \in CallRecord
    BY <1>0, <2>2 DEF CallRecord
  <2> QED
    BY <2>1, <2>3
<1>8. CASE TimePasses
  <2>1. /\ svc' = svc
        /\ \/ clk' = [clk EXCEPT !.now = clk.now + 1, !.gap = clk.gap + 1]
           \/ clk' = [clk EXCEPT !.now = clk.now, !.gap = clk.gap + 1]
    BY <1>8 DEF TimePasses
  <2>2. \A n \in Nat : [clk EXCEPT !.now = n, !.gap = clk.gap + 1] \in ClockRecord
    BY <1>0, ClockUpdates
  <2> QED
    BY <1>0, <2>1, <2>2
<1>9. CASE Beside \/ ResetStats \/ UNCHANGED sVars
  BY <1>9, OthersLeaveTheCall DEF serviceView
<1> QED
  BY <1>1, <1>2, <1>3, <1>4, <1>5, <1>6, <1>7, <1>8, <1>9 DEF ServiceNext, Service

LEMMA NextAccounts ==
  ASSUME ServiceType, Accounts, [ServiceNext]_sVars
  PROVE  Accounts'
<1> USE DEF ServiceType, CallRecord, ClockRecord, Accounts, InHand,
            RxPhases, Waiting, Latched, Finishing
<1>1. CASE ServiceCall
  <2>1. PICK c \in Calls :
          svc' = [NoService EXCEPT !.running = TRUE, !.max_words = c[1], !.budget = c[2]]
    BY <1>1 DEF ServiceCall
  <2>2. c[1] \in Nat /\ c[2] \in Nat
    BY <2>1, ServiceAssumption
  <2>3. /\ svc'.running /\ svc'.max_words = c[1]
        /\ svc'.i = 0 /\ svc'.ok = 0 /\ svc'.took = 0 /\ ~svc'.turn
    BY <2>1 DEF NoService
  <2>4. rx_pc' = "idle" /\ status' = status /\ clk' = clk
    BY <1>1 DEF ServiceCall, vars
  <2> QED
    BY <2>2, <2>3, <2>4
<1>2. CASE BeginTurn \/ ServiceStep
  BY <1>2 DEF BeginTurn, ServiceStep, StepCall, vars
<1>3. CASE ServiceReturn
  <2>1. /\ ~svc'.running /\ ~svc'.turn
        /\ svc'.ok = svc.ok /\ svc'.took = svc.took /\ clk' = Zero
    BY <1>3 DEF ServiceReturn, Returned, NoService
  <2>2. rx_pc' = "idle" /\ rx_pc = "idle" /\ status' = status /\ svc.running
    BY <1>3 DEF ServiceReturn, vars
  <2> QED
    BY <2>1, <2>2
<1>4. CASE RunStep
  <2>1. /\ svc' = [svc EXCEPT !.took = IF rx_pc' = "ack" THEN @ + 1 ELSE @]
        /\ status' = status /\ svc.running
        /\ \/ rx_pc = "wait_valid" /\ rx_pc' \in {"ack", "valid_late"}
           \/ InHand /\ InHand' /\ rx_pc' # "ack"
    BY <1>4 DEF RunStep, Acts, ReadValid, ReadNotValid, AssertAck, ReadNeutral,
                ReadNotNeutral
  <2>2. CASE rx_pc' = "ack"
    BY <2>1, <2>2
  <2>3. CASE rx_pc' # "ack"
    BY <2>1, <2>3
  <2> QED
    BY <2>2, <2>3
<1>5. CASE Stores
  <2>1. InHand /\ InHand' /\ svc' = svc /\ status' = status
    BY <1>5 DEF Stores, CheckFull, Push
  <2> QED
    BY <2>1
<1>6. CASE WaitsOn
  BY <1>6 DEF WaitsOn, ValidNotExpired, NeutralNotExpired
<1>7. CASE TimesOut
  <2>1. /\ ~svc'.running /\ ~svc'.turn
        /\ svc'.ok = svc.ok /\ svc'.took = svc.took /\ clk' = Zero
    BY <1>7 DEF TimesOut, Returned, NoService
  <2>2. /\ rx_pc' = "idle"
        /\ \/ rx_pc = "valid_late" /\ status' = "TIMEOUT_WAIT_VALID"
           \/ rx_pc = "neutral_late" /\ status' = "TIMEOUT_WAIT_NEUTRAL"
    BY <1>7 DEF TimesOut, ValidExpired, NeutralExpired
  <2> QED
    BY <2>1, <2>2
<1>8. CASE Completes
  <2>1. /\ svc' = [svc EXCEPT !.i = @ + 1, !.ok = @ + 1]
        /\ rx_pc = "deassert" /\ rx_pc' = "idle" /\ status' = "OK"
    BY <1>8 DEF Completes, Deassert
  <2> QED
    BY <2>1
<1>9. CASE TimePasses
  BY <1>9 DEF TimePasses, vars
<1>10. CASE Beside \/ ResetStats \/ UNCHANGED sVars
  BY <1>10, OthersLeaveTheCall DEF serviceView
<1> QED
  BY <1>1, <1>2, <1>3, <1>4, <1>5, <1>6, <1>7, <1>8, <1>9, <1>10
  DEF ServiceNext, Service

LEMMA NextDeadline ==
  ASSUME ServiceType, Accounts, DeadlineIsCurrent, [ServiceNext]_sVars
  PROVE  DeadlineIsCurrent'
<1> USE ServiceAssumption DEF ServiceType, CallRecord, ClockRecord, DeadlineIsCurrent
<1>1. CASE ServiceCall \/ ServiceReturn
  <2>1. rx_pc' = "idle"
    BY <1>1 DEF ServiceCall, ServiceReturn, Accounts, vars
  <2> QED
    BY <2>1
<1>2. CASE BeginTurn \/ ServiceStep
  BY <1>2 DEF BeginTurn, ServiceStep, StepCall, vars
<1>3. CASE RunStep
  BY <1>3 DEF RunStep, Acts, ReadValid, ReadNotValid, AssertAck, ReadNeutral, ReadNotNeutral
<1>4. CASE Stores
  <2>1. rx_pc' \in {"push", "wait_neutral"}
    BY <1>4 DEF Stores, CheckFull, Push
  <2>2. rx_pc' = "wait_neutral" =>
          clk' = [clk EXCEPT !.gap = 0, !.since = clk.now, !.deadline = clk.now + NeutralUs]
    BY <1>4 DEF Stores
  <2> QED
    BY <2>1, <2>2
<1>5. CASE WaitsOn
  BY <1>5 DEF WaitsOn, ValidNotExpired, NeutralNotExpired
<1>6. CASE TimesOut \/ Completes
  <2>1. rx_pc' = "idle"
    BY <1>6 DEF TimesOut, ValidExpired, NeutralExpired, Completes, Deassert
  <2> QED
    BY <2>1
<1>7. CASE TimePasses
  BY <1>7 DEF TimePasses, vars
<1>8. CASE Beside \/ ResetStats \/ UNCHANGED sVars
  BY <1>8, OthersLeaveTheCall DEF serviceView
<1> QED
  BY <1>1, <1>2, <1>3, <1>4, <1>5, <1>6, <1>7, <1>8 DEF ServiceNext, Service

LEMMA NextService == ServiceInv /\ [ServiceNext]_sVars => ServiceInv'
  BY NextServiceType, NextAccounts, NextDeadline DEF ServiceInv

(* The value returned by aer_rx_poll_service is the number of words        *)
(* latched, but for the one whose neutral timeout ended the call.          *)
THEOREM ReturnCorrect == ServiceSpec => []ReturnAccounts
<1>1. ServiceInv => ReturnAccounts
  BY DEF ServiceInv, ServiceType, CallRecord, Accounts, InHand, ReturnAccounts, Latched, Finishing
<1> QED
  BY <1>1, InitService, NextService, PTL DEF ServiceSpec

(* Each of the two waits of aer_rx_poll_step lasts its own timeout at      *)
(* least, although both use the same local deadline.                       *)
THEOREM WaitsLastTheirTimeouts == ServiceSpec => NeverTimesOutEarly
<1> DEFINE WaitedEnough ==
      rx_pc' = "idle" =>
        /\ rx_pc = "valid_late"   => clk.now - clk.since >= ValidUs
        /\ rx_pc = "neutral_late" => clk.now - clk.since >= NeutralUs
<1>1. ASSUME ServiceInv, [ServiceNext]_sVars
      PROVE  [WaitedEnough]_sVars
  <2> USE ServiceAssumption, <1>1
  <2>1. CASE TimesOut
    BY <2>1 DEF TimesOut, ValidExpired, NeutralExpired, Expired, ServiceInv, ServiceType,
                ClockRecord, DeadlineIsCurrent
  <2>2. CASE ServiceCall \/ ServiceReturn \/ TimePasses
    BY <2>2 DEF ServiceCall, ServiceReturn, TimePasses, vars
  <2>3. CASE BeginTurn \/ ServiceStep \/ Stores \/ WaitsOn \/ Completes
    BY <2>3 DEF BeginTurn, ServiceStep, StepCall, vars, Stores, CheckFull, Push, WaitsOn, ValidNotExpired,
                NeutralNotExpired, Completes, Deassert
  <2>4. CASE RunStep
    BY <2>4 DEF RunStep, Acts, ReadValid, ReadNotValid, AssertAck, ReadNeutral,
                ReadNotNeutral
  <2>5. CASE Beside \/ ResetStats \/ UNCHANGED sVars
    BY <2>5, OthersLeaveTheCall DEF serviceView
  <2> QED
    BY <2>1, <2>2, <2>3, <2>4, <2>5 DEF ServiceNext, Service
<1> QED
  BY <1>1, InitService, NextService, PTL DEF ServiceSpec, NeverTimesOutEarly

-----------------------------------------------------------------------------
(* With both timeouts on.  No action of the receiver comes more than       *)
(* MaxDelay after the one before, so that where the step stands bounds     *)
(* the time since the beginning of its present wait.                       *)
Paced ==
  /\ clk.gap <= MaxDelay
  /\ rx_pc = "wait_valid" => clk.now <= clk.since + ValidUs + clk.gap
  /\ rx_pc \in {"valid_late", "ack"} =>
       clk.now <= clk.since + ValidUs + MaxDelay + clk.gap
  /\ rx_pc = "check_full" => clk.now <= clk.since + ValidUs + 2 * MaxDelay + clk.gap
  /\ rx_pc = "push" => clk.now <= clk.since + ValidUs + 3 * MaxDelay + clk.gap
  /\ rx_pc = "wait_neutral" => clk.now <= clk.since + NeutralUs + clk.gap
  /\ rx_pc \in {"neutral_late", "deassert"} =>
       clk.now <= clk.since + NeutralUs + MaxDelay + clk.gap

(* The present wait is one of a step that began by the limit.              *)
BeganBy(limit) ==
  /\ rx_pc \in {"wait_valid", "valid_late"} \cup Latched => clk.since <= limit
  /\ rx_pc \in Finishing => clk.since <= limit + ValidUs + 4 * MaxDelay

(* The steps of a call follow each other within StepBound, and none begins *)
(* when the budget is used up.                                             *)
OnTime ==
  svc.running =>
    /\ rx_pc = "idle" /\ ~svc.turn => clk.now <= svc.i * StepBound + clk.gap
    /\ svc.turn => clk.now <= svc.i * StepBound + MaxDelay + clk.gap
    /\ BeganBy(svc.i * StepBound + 2 * MaxDelay)
InBudget ==
  svc.running /\ svc.budget # 0 =>
    /\ rx_pc = "idle" => clk.now <= svc.budget + ValidUs + NeutralUs + 7 * MaxDelay + clk.gap
    /\ svc.turn => clk.now <= svc.budget + clk.gap
    /\ BeganBy(svc.budget + MaxDelay)

PromptInv == ServiceInv /\ Paced /\ OnTime /\ InBudget

LEMMA NextPaced ==
  ASSUME ValidTimeout, NeutralTimeout, ServiceInv, Paced, [ServiceNext]_sVars
  PROVE  Paced'
<1> USE ServiceAssumption DEF ServiceInv, ServiceType, CallRecord, ClockRecord, Paced
<1>1. CASE ServiceCall \/ ServiceReturn
  <2>1. rx_pc' = "idle" /\ (clk' = clk \/ clk' = Zero)
    BY <1>1 DEF ServiceCall, ServiceReturn, Accounts, vars
  <2>2. clk'.gap <= MaxDelay
    BY <2>1 DEF Zero
  <2> QED
    BY <2>1, <2>2
<1>2. CASE BeginTurn \/ ServiceStep
  <2>1. CASE BeginTurn
    <3>1. rx_pc' = "idle" /\ clk'.gap = 0
      BY <2>1 DEF BeginTurn, vars
    <3> QED
      BY <3>1
  <2>2. CASE ServiceStep
    BY <2>2 DEF ServiceStep, StepCall
  <2> QED
    BY <1>2, <2>1, <2>2
<1>3. CASE RunStep
  BY <1>3 DEF RunStep, Acts, ReadValid, ReadNotValid, AssertAck, ReadNeutral, ReadNotNeutral
<1>4. CASE Stores
  <2>1. CASE rx_pc' = "wait_neutral"
    BY <1>4, <2>1 DEF Stores
  <2>2. CASE rx_pc' # "wait_neutral"
    <3>1. rx_pc = "check_full" /\ rx_pc' = "push" /\ clk' = [clk EXCEPT !.gap = 0]
      BY <1>4, <2>2 DEF Stores, CheckFull, Push
    <3> QED
      BY <3>1
  <2> QED
    BY <2>1, <2>2
<1>5. CASE WaitsOn
  <2>1. /\ clk' = [clk EXCEPT !.gap = 0]
        /\ ~Expired(clk.deadline)
        /\ \/ rx_pc = "valid_late" /\ rx_pc' = "wait_valid"
           \/ rx_pc = "neutral_late" /\ rx_pc' = "wait_neutral"
    BY <1>5 DEF WaitsOn, ValidNotExpired, NeutralNotExpired
  <2>2. clk.now < clk.deadline
    BY <2>1 DEF Expired
  <2> QED
    BY <2>1, <2>2 DEF DeadlineIsCurrent
<1>6. CASE TimesOut \/ Completes
  <2>1. rx_pc' = "idle" /\ clk' \in {Zero, [clk EXCEPT !.gap = 0]}
    BY <1>6 DEF TimesOut, ValidExpired, NeutralExpired, Completes, Deassert
  <2> QED
    BY <2>1 DEF Zero
<1>7. CASE TimePasses
  <2>1. /\ rx_pc' = rx_pc /\ clk.gap < MaxDelay
        /\ clk'.gap = clk.gap + 1 /\ clk'.since = clk.since
        /\ clk'.now \in {clk.now, clk.now + 1}
    BY <1>7 DEF TimePasses, vars
  <2> QED
    BY <2>1
<1>8. CASE Beside \/ ResetStats \/ UNCHANGED sVars
  BY <1>8, OthersLeaveTheCall DEF serviceView
<1> QED
  BY <1>1, <1>2, <1>3, <1>4, <1>5, <1>6, <1>7, <1>8 DEF ServiceNext, Service

(* A wait of a step that began by the limit stays one, and the step ends   *)
(* in time.                                                                *)
LEMMA StepKeepsLimit ==
  ASSUME ServiceInv, Paced, [ServiceNext]_sVars, svc.running, svc'.running,
         NEW limit \in Nat, BeganBy(limit),
         rx_pc = "idle" /\ rx_pc' # "idle" => clk.now <= limit
  PROVE  /\ rx_pc' \in {"wait_valid", "valid_late"} \cup Latched => clk'.since <= limit
         /\ rx_pc' \in Finishing => clk'.since <= limit + ValidUs + 4 * MaxDelay
         /\ rx_pc # "idle" /\ rx_pc' = "idle" =>
              clk'.now <= limit + ValidUs + NeutralUs + 6 * MaxDelay + clk'.gap
<1> USE ServiceAssumption DEF ServiceInv, ServiceType, CallRecord, ClockRecord, Paced, BeganBy,
                              Latched, Finishing
<1>1. CASE ServiceCall \/ ServiceReturn \/ TimesOut
  BY <1>1 DEF ServiceCall, ServiceReturn, TimesOut, Returned, NoService
<1>2. CASE BeginTurn \/ ServiceStep
  BY <1>2 DEF BeginTurn, ServiceStep, StepCall, vars
<1>3. CASE RunStep
  BY <1>3 DEF RunStep, Acts, ReadValid, ReadNotValid, AssertAck, ReadNeutral, ReadNotNeutral
<1>4. CASE Stores
  <2>1. CASE rx_pc' = "wait_neutral"
    <3>1. clk'.since = clk.now /\ rx_pc \in {"check_full", "push"}
      BY <1>4, <2>1 DEF Stores, CheckFull, Push
    <3> QED
      BY <2>1, <3>1
  <2>2. CASE rx_pc' # "wait_neutral"
    <3>1. rx_pc = "check_full" /\ rx_pc' = "push" /\ clk'.since = clk.since
      BY <1>4, <2>2 DEF Stores, CheckFull, Push
    <3> QED
      BY <3>1
  <2> QED
    BY <2>1, <2>2
<1>5. CASE WaitsOn
  BY <1>5 DEF WaitsOn, ValidNotExpired, NeutralNotExpired
<1>6. CASE Completes
  BY <1>6 DEF Completes, Deassert
<1>7. CASE TimePasses
  BY <1>7 DEF TimePasses, vars
<1>8. CASE Beside \/ ResetStats \/ UNCHANGED sVars
  BY <1>8, OthersLeaveTheCall DEF serviceView
<1> QED
  BY <1>1, <1>2, <1>3, <1>4, <1>5, <1>6, <1>7, <1>8 DEF ServiceNext, Service

(* How a call goes on: it begins, or its budget is tested, or one of its   *)
(* steps begins, goes on or completes, or time passes between two of them. *)
LEMMA CallGoesOn ==
  ASSUME ServiceInv, [ServiceNext]_sVars, svc'.running
  PROVE  \/ /\ ~svc.running /\ svc'.i = 0 /\ ~svc'.turn
            /\ rx_pc' = "idle" /\ clk' = Zero
         \/ /\ svc.running /\ svc'.budget = svc.budget
            /\ \/ /\ rx_pc = "idle" /\ rx_pc' = "idle"
                  /\ ~svc.turn /\ svc'.turn /\ svc'.i = svc.i
                  /\ clk'.now = clk.now /\ clk'.gap = 0
                  /\ svc.budget # 0 => clk.now < svc.budget
               \/ rx_pc = "idle" /\ rx_pc' # "idle" /\ svc'.i = svc.i /\ svc.turn /\ ~svc'.turn
               \/ rx_pc # "idle" /\ rx_pc' # "idle" /\ svc'.i = svc.i /\ ~svc'.turn
               \/ rx_pc # "idle" /\ rx_pc' = "idle" /\ svc'.i = svc.i + 1 /\ ~svc'.turn
               \/ rx_pc = "idle" /\ rx_pc' = "idle" /\ svc' = svc
                  /\ clk'.now - clk.now <= clk'.gap - clk.gap
<1> USE ServiceAssumption DEF ServiceInv, ServiceType, CallRecord, ClockRecord
<1>1. CASE ServiceCall
  <2>1. ~svc.running /\ clk' = clk /\ rx_pc' = rx_pc /\ svc'.i = 0 /\ ~svc'.turn
    BY <1>1 DEF ServiceCall, NoService, vars
  <2> QED
    BY <2>1 DEF Accounts
<1>2. CASE BeginTurn \/ ServiceStep
  <2>1. CASE BeginTurn
    BY <2>1 DEF BeginTurn, OutOfBudget, Expired, vars
  <2>2. CASE ServiceStep
    BY <2>2 DEF ServiceStep, StepCall, Accounts
  <2> QED
    BY <1>2, <2>1, <2>2
<1>3. CASE ServiceReturn \/ TimesOut
  BY <1>3 DEF ServiceReturn, TimesOut, Returned, NoService
<1>4. CASE RunStep
  BY <1>4 DEF RunStep, Acts, ReadValid, ReadNotValid, AssertAck, ReadNeutral,
              ReadNotNeutral, Accounts
<1>5. CASE Stores
  BY <1>5 DEF Stores, CheckFull, Push, Accounts
<1>6. CASE WaitsOn
  BY <1>6 DEF WaitsOn, ValidNotExpired, NeutralNotExpired, Accounts
<1>7. CASE Completes
  BY <1>7 DEF Completes, Deassert, Accounts
<1>8. CASE TimePasses
  <2>1. /\ svc' = svc /\ svc.running /\ rx_pc' = rx_pc
        /\ clk'.gap = clk.gap + 1 /\ clk'.now \in {clk.now, clk.now + 1}
    BY <1>8 DEF TimePasses, vars
  <2>2. clk'.now - clk.now <= clk'.gap - clk.gap
    BY <2>1
  <2> QED
    BY <2>1, <2>2 DEF Accounts
<1>9. CASE Beside \/ ResetStats \/ UNCHANGED sVars
  <2>1. rx_pc' = rx_pc /\ svc' = svc /\ clk' = clk
    BY <1>9, OthersLeaveTheCall DEF serviceView
  <2>2. clk'.now - clk.now <= clk'.gap - clk.gap
    BY <2>1
  <2> QED
    BY <2>1, <2>2 DEF Accounts
<1> QED
  BY <1>1, <1>2, <1>3, <1>4, <1>5, <1>6, <1>7, <1>8, <1>9 DEF ServiceNext, Service

LEMMA StepBoundIsNat ==
  /\ StepBound \in Nat
  /\ StepBound = ValidUs + NeutralUs + 8 * MaxDelay
  /\ \A n \in Nat : n * StepBound \in Nat /\ (n + 1) * StepBound = n * StepBound + StepBound
  /\ \A m, n \in Nat : m <= n => m * StepBound <= n * StepBound
  /\ 0 * StepBound = 0
<1>1. StepBound \in Nat /\ StepBound = ValidUs + NeutralUs + 8 * MaxDelay
  BY ServiceAssumption DEF StepBound
<1>2. \A n, b \in Nat : n * b \in Nat /\ (n + 1) * b = n * b + b
  OBVIOUS
<1>3. \A m, n, b \in Nat : m <= n => m * b <= n * b
  OBVIOUS
<1> QED
  BY <1>1, <1>2, <1>3

LEMMA NextOnTime ==
  ASSUME ServiceInv, Paced, OnTime, [ServiceNext]_sVars
  PROVE  OnTime'
<1> USE DEF ServiceInv, ServiceType, CallRecord, ClockRecord
<1> SUFFICES ASSUME svc'.running PROVE OnTime'
  BY DEF OnTime
<1>1. svc'.i \in Nat /\ clk'.now \in Nat /\ clk'.gap \in Nat /\ clk'.since \in Nat
  BY NextServiceType
<1>2. CASE ~svc.running
  <2>1. svc'.i = 0 /\ ~svc'.turn /\ rx_pc' = "idle" /\ clk' = Zero
    BY <1>2, CallGoesOn
  <2>2. clk'.now = 0 /\ clk'.gap = 0 /\ svc'.i * StepBound = 0
    BY <2>1, StepBoundIsNat DEF Zero
  <2> QED
    BY <2>1, <2>2 DEF OnTime, BeganBy, Latched, Finishing
<1>3. CASE svc.running
  <2> DEFINE limit == svc.i * StepBound + 2 * MaxDelay
  <2>1. limit \in Nat /\ clk.gap <= MaxDelay /\ MaxDelay \in Nat
    BY StepBoundIsNat, ServiceAssumption DEF Paced
  <2>2. /\ BeganBy(limit)
        /\ rx_pc = "idle" /\ ~svc.turn => clk.now <= svc.i * StepBound + clk.gap
        /\ svc.turn => clk.now <= svc.i * StepBound + MaxDelay + clk.gap
    BY <1>3 DEF OnTime
  <2>3. rx_pc = "idle" /\ rx_pc' # "idle" => clk.now <= limit
    <3>1. rx_pc = "idle" /\ rx_pc' # "idle" => svc.turn
      BY <1>3, CallGoesOn
    <3> DEFINE spent == svc.i * StepBound
    <3>2. /\ spent \in Nat /\ limit = spent + 2 * MaxDelay
          /\ clk.now \in Nat /\ clk.gap \in Nat
      BY StepBoundIsNat
    <3>3. svc.turn => clk.now <= spent + MaxDelay + clk.gap
      BY <2>2
    <3> HIDE DEF spent, limit
    <3> QED
      BY <2>1, <3>1, <3>2, <3>3
  <2> HIDE DEF limit
  <2>4. /\ rx_pc' \in {"wait_valid", "valid_late"} \cup Latched => clk'.since <= limit
        /\ rx_pc' \in Finishing => clk'.since <= limit + ValidUs + 4 * MaxDelay
        /\ rx_pc # "idle" /\ rx_pc' = "idle" =>
             clk'.now <= limit + ValidUs + NeutralUs + 6 * MaxDelay + clk'.gap
    BY <1>3, <2>1, <2>2, <2>3, StepKeepsLimit
  <2>5. CASE rx_pc' # "idle"
    <3>1. svc'.i = svc.i /\ ~svc'.turn
      BY <1>3, <2>5, CallGoesOn
    <3> QED
      BY <2>4, <2>5, <3>1 DEF OnTime, BeganBy, limit
  <2>6. CASE rx_pc # "idle" /\ rx_pc' = "idle"
    <3>1. svc'.i = svc.i + 1 /\ ~svc'.turn
      BY <1>3, <2>6, CallGoesOn
    <3>2. svc'.i * StepBound = limit + ValidUs + NeutralUs + 6 * MaxDelay
      BY <3>1, StepBoundIsNat, ServiceAssumption DEF limit
    <3> QED
      BY <2>4, <2>6, <3>1, <3>2 DEF OnTime, BeganBy, Latched, Finishing
  <2>7. CASE rx_pc = "idle" /\ rx_pc' = "idle"
    <3>1. /\ svc'.i = svc.i
          /\ \/ ~svc.turn /\ svc'.turn /\ clk'.now = clk.now /\ clk'.gap = 0
             \/ svc'.turn = svc.turn /\ clk'.now - clk.now <= clk'.gap - clk.gap
      BY <1>3, <2>7, CallGoesOn
    <3>2. svc.i * StepBound \in Nat
      BY StepBoundIsNat
    <3>3. /\ ~svc'.turn => clk'.now <= svc'.i * StepBound + clk'.gap
          /\ svc'.turn => clk'.now <= svc'.i * StepBound + MaxDelay + clk'.gap
      BY <1>1, <2>1, <2>2, <2>7, <3>1, <3>2
    <3> QED
      BY <2>7, <3>3 DEF OnTime, BeganBy, Latched, Finishing
  <2> QED
    BY <2>5, <2>6, <2>7
<1> QED
  BY <1>2, <1>3

LEMMA NextInBudget ==
  ASSUME ServiceInv, Paced, InBudget, [ServiceNext]_sVars
  PROVE  InBudget'
<1> USE ServiceAssumption DEF ServiceInv, ServiceType, CallRecord, ClockRecord
<1> SUFFICES ASSUME svc'.running, svc'.budget # 0 PROVE InBudget'
  BY DEF InBudget
<1>1. svc'.budget \in Nat /\ clk'.now \in Nat /\ clk'.gap \in Nat /\ clk'.since \in Nat
  BY NextServiceType
<1>2. CASE ~svc.running
  <2>1. rx_pc' = "idle" /\ ~svc'.turn /\ clk' = Zero
    BY <1>2, CallGoesOn
  <2> QED
    BY <1>1, <2>1 DEF InBudget, BeganBy, Zero, Latched, Finishing
<1>3. CASE svc.running
  <2>1. svc'.budget = svc.budget
    BY <1>3, CallGoesOn
  <2> DEFINE limit == svc.budget + MaxDelay
  <2>2. /\ BeganBy(limit) /\ limit \in Nat /\ clk.gap <= MaxDelay /\ MaxDelay \in Nat
        /\ rx_pc = "idle" =>
             clk.now <= limit + ValidUs + NeutralUs + 6 * MaxDelay + clk.gap
        /\ svc.turn => clk.now <= svc.budget + clk.gap
    BY <1>3, <2>1 DEF InBudget, Paced
  <2>3. rx_pc = "idle" /\ rx_pc' # "idle" => clk.now <= limit
    <3>1. rx_pc = "idle" /\ rx_pc' # "idle" => svc.turn
      BY <1>3, CallGoesOn
    <3> QED
      BY <2>2, <3>1
  <2> HIDE DEF limit
  <2>4. /\ rx_pc' \in {"wait_valid", "valid_late"} \cup Latched => clk'.since <= limit
        /\ rx_pc' \in Finishing => clk'.since <= limit + ValidUs + 4 * MaxDelay
        /\ rx_pc # "idle" /\ rx_pc' = "idle" =>
             clk'.now <= limit + ValidUs + NeutralUs + 6 * MaxDelay + clk'.gap
    BY <1>3, <2>2, <2>3, StepKeepsLimit
  <2>5. rx_pc = "idle" /\ rx_pc' = "idle" =>
          \/ /\ ~svc.turn /\ svc'.turn /\ clk'.now = clk.now /\ clk'.gap = 0
             /\ clk.now < svc.budget
          \/ svc'.turn = svc.turn /\ clk'.now - clk.now <= clk'.gap - clk.gap
    BY <1>3, <2>1, CallGoesOn
  <2>6. rx_pc' = "idle" =>
          clk'.now <= limit + ValidUs + NeutralUs + 6 * MaxDelay + clk'.gap
    BY <1>1, <2>2, <2>4, <2>5 DEF limit
  <2>7. svc'.turn => clk'.now <= svc.budget + clk'.gap
    <3>1. svc'.turn => rx_pc = "idle" /\ rx_pc' = "idle"
      BY <1>3, CallGoesOn
    <3>2. clk.now \in Nat /\ clk.gap \in Nat /\ svc.budget \in Nat
      OBVIOUS
    <3>3. svc'.turn => \/ clk'.now = clk.now /\ clk'.gap = 0 /\ clk.now < svc.budget
                       \/ svc.turn /\ clk'.now - clk.now <= clk'.gap - clk.gap
      BY <2>5, <3>1
    <3> QED
      BY <1>1, <2>2, <3>2, <3>3
  <2> QED
    BY <2>1, <2>4, <2>6, <2>7 DEF InBudget, BeganBy, limit
<1> QED
  BY <1>2, <1>3

(* What the invariant says of the clock is the bound of aer_rx_poll.h.     *)
LEMMA PromptInvIsPrompt == PromptInv => ServiceIsPrompt
<1> SUFFICES ASSUME PromptInv PROVE ServiceIsPrompt
  OBVIOUS
<1> USE ServiceAssumption DEF PromptInv, ServiceInv, ServiceType, CallRecord, ClockRecord
<1>1. /\ svc.i * StepBound \in Nat /\ svc.max_words * StepBound \in Nat
      /\ svc.i <= svc.max_words => svc.i * StepBound <= svc.max_words * StepBound
      /\ svc.i < svc.max_words => svc.i * StepBound + StepBound <= svc.max_words * StepBound
      /\ StepBound = ValidUs + NeutralUs + 8 * MaxDelay
  BY StepBoundIsNat
<1>2. CASE ~svc.running
  <2>1. clk.now = 0
    BY <1>2 DEF Accounts, Zero
  <2> QED
    BY <1>1, <2>1 DEF ServiceIsPrompt
<1>3. CASE svc.running /\ rx_pc = "idle"
  BY <1>1, <1>3 DEF ServiceIsPrompt, Accounts, OnTime, InBudget, Paced
<1>4. CASE svc.running /\ rx_pc # "idle"
  <2> DEFINE late == ValidUs + NeutralUs + 7 * MaxDelay
  <2>1. /\ clk.now <= svc.i * StepBound + MaxDelay + late
        /\ svc.budget # 0 => clk.now <= svc.budget + late
    <3> USE DEF OnTime, InBudget, Paced, BeganBy
    <3>1. CASE rx_pc \in {"wait_valid", "valid_late"} \cup Latched
      BY <1>1, <1>4, <3>1 DEF Latched
    <3>2. CASE rx_pc \in Finishing
      BY <1>1, <1>4, <3>2 DEF Finishing
    <3> QED
      BY <1>4, <3>1, <3>2 DEF Accounts, RxPhases, Waiting
  <2>2. svc.i < svc.max_words
    BY <1>4 DEF Accounts
  <2> QED
    BY <1>1, <1>4, <2>1, <2>2 DEF ServiceIsPrompt
<1> QED
  BY <1>2, <1>3, <1>4

(* With both timeouts on, a call is over within StepBound for each word,   *)
(* and outlasts its budget by one step at most, whatever the transmitter   *)
(* does.                                                                   *)
THEOREM KeepsItsBudget ==
  ASSUME ValidTimeout, NeutralTimeout
  PROVE  ServiceSpec => []ServiceIsPrompt
<1>1. ServiceInit => PromptInv
  BY InitService, ServiceAssumption
  DEF PromptInv, ServiceInit, Init, Paced, OnTime, InBudget, NoService, Zero
<1>2. PromptInv /\ [ServiceNext]_sVars => PromptInv'
  BY NextService, NextPaced, NextOnTime, NextInBudget DEF PromptInv
<1> QED
  BY <1>1, <1>2, PromptInvIsPrompt, PTL DEF ServiceSpec

-----------------------------------------------------------------------------
(* hal_time.c                                                              *)

(* Division of a difference, which may be negative. *)
LEMMA QuotientUnique ==
  ASSUME NEW a \in Int, NEW b \in Nat \ {0}, NEW q \in Int, NEW r \in 0 .. b - 1,
         a = b * q + r
  PROVE  a \div b = q /\ a % b = r
<1> DEFINE x == a \div b
           s == a % b
<1>1. x \in Int /\ s \in 0 .. b - 1 /\ a = b * x + s
  OBVIOUS
<1> HIDE DEF x, s
<1>2. b * x + s = b * q + r
  BY <1>1
<1>3. x = q /\ s = r
  BY <1>1, <1>2, Squeeze
<1> QED
  BY <1>3 DEF x, s

(* Multiples of the divisor leave the remainder as it is, so that the      *)
(* operands may be reduced before their difference is.                     *)
LEMMA MultiplesVanish ==
  ASSUME NEW M \in Nat \ {0}, NEW d \in Int, NEW m \in Int
  PROVE  (d + M * m) % M = d % M
<1> DEFINE z == d \div M
           r == d % M
           a == d + M * m
<1>1. z \in Int /\ r \in 0 .. M - 1 /\ d = M * z + r
  OBVIOUS
<1> HIDE DEF z, r
<1>2. M * (z + m) = M * z + M * m /\ M * z \in Int /\ M * m \in Int
  BY <1>1
<1>3. a = M * (z + m) + r /\ a \in Int /\ z + m \in Int
  BY <1>1, <1>2
<1> HIDE DEF a
<1>4. a % M = r
  BY <1>1, <1>3, QuotientUnique
<1> QED
  BY <1>4 DEF a, r

LEMMA ReducedOnTheLeft ==
  ASSUME NEW M \in Nat \ {0}, NEW a \in Int, NEW b \in Int
  PROVE  ((a % M) - b) % M = (a - b) % M
<1> DEFINE x == a \div M
           s == a % M
           d == a - b
           m == -x
           e == s - b
<1>1. x \in Int /\ s \in 0 .. M - 1 /\ a = M * x + s
  OBVIOUS
<1> HIDE DEF x, s
<1>2. M * m = -(M * x) /\ M * x \in Int /\ m \in Int
  BY <1>1
<1>3. e = d + M * m /\ d \in Int
  BY <1>1, <1>2
<1> HIDE DEF d, m, e
<1>4. (d + M * m) % M = d % M
  BY <1>2, <1>3, MultiplesVanish
<1>5. e % M = d % M
  BY <1>3, <1>4
<1> QED
  BY <1>5 DEF e, d, s

LEMMA Reduced ==
  ASSUME NEW M \in Nat \ {0}, NEW a \in Int, NEW b \in Int
  PROVE  ((a % M) - (b % M)) % M = (a - b) % M
<1> DEFINE s == a % M
           y == b \div M
           t == b % M
           d == s - b
           e == s - t
<1>1. /\ s \in Int
      /\ y \in Int /\ t \in 0 .. M - 1 /\ b = M * y + t
  OBVIOUS
<1>2. (s - b) % M = (a - b) % M
  BY ReducedOnTheLeft
<1> HIDE DEF s, y, t
<1>3. e = d + M * y /\ d \in Int /\ M * y \in Int
  BY <1>1
<1> HIDE DEF d, e
<1>4. (d + M * y) % M = d % M
  BY <1>1, <1>3, MultiplesVanish
<1>5. e % M = d % M
  BY <1>3, <1>4
<1>6. e % M = (a - b) % M
  BY <1>2, <1>5 DEF d
<1> QED
  BY <1>6 DEF e, s, t

Rate == g.cycles_per_us

(* A call under way began at microsecond u of the clock, r cycles into it; *)
(* k cycles have gone since, in which the microsecond changed e times and  *)
(* the clock wrapped n times.                                              *)
Began(u, r, e, n, k) ==
  /\ hal_time_us_now + Long * n = u + e
  /\ r + k = Rate * e + (clock % Rate)
  /\ call.gone = IF k < Horizon THEN k ELSE Horizon
  /\ call.gap <= k
  /\ call.local = IF call.op = "wait_until" THEN (u + call.us) % Long
                  ELSE IF g.dwt_ok THEN (Rate * u + r) % Word
                  ELSE (Rate * u) % Word

(* The last test, call.gap cycles ago, came too early, or there was none.  *)
(* A spin may miss the right moment if the counter wraps between tests.    *)
NotYetDue(r, k) ==
  LET asked == Rate * call.us
      grain == IF call.op = "spin_cycles" /\ g.dwt_ok THEN 0 ELSE r
  IN call.op = "wait_until" \/ asked + MaxGap <= Word =>
       k = call.gap \/ grain + k - call.gap < asked

UnderWay ==
  \E u \in 0 .. Long - 1, r \in 0 .. Rate - 1, e \in Nat, n \in Nat, k \in Nat :
    Began(u, r, e, n, k) /\ NotYetDue(r, k)

CallType == [op : {"none", "wait_until", "spin_cycles"}, us : 0 .. Word - 1, local : Int,
           gone : Nat, gap : 0 .. MaxGap, returned : BOOLEAN]
TimeTypes ==
  /\ clock \in 0 .. ClockRange - 1
  /\ g \in [cycles_per_us : Nat \ {0}, dwt_ok : BOOLEAN]
  /\ call \in CallType
  /\ call.op = "none" => call = NoCall

TimeInv ==
  /\ TimeTypes
  /\ call # NoCall /\ ~call.returned => UnderWay
  /\ call # NoCall /\ call.returned  => DeadlinesHold /\ SpinsAsAsked

LEMMA TimeFacts ==
  ASSUME TimeTypes
  PROVE  /\ Rate \in Nat \ {0} /\ Long \in Nat \ {0} /\ Word \in Nat \ {0}
         /\ Long * Rate \in Nat \ {0} /\ ClockRange = Long * Rate
         /\ MaxGap \in Nat \ {0} /\ MaxGap <= Long \div 2
         /\ 2 * Word <= Long /\ clock \in 0 .. Long * Rate - 1
         /\ Horizon \in Nat /\ Horizon = Word * Rate + MaxGap
         /\ Word * Rate \in Nat /\ Word <= Word * Rate
BY HalTimeAssumption DEF TimeTypes, Rate, ClockRange, Horizon

(* The clock is so many microseconds and the cycles into the next one.     *)
LEMMA ClockReads ==
  ASSUME TimeTypes
  PROVE  /\ hal_time_us_now \in 0 .. Long - 1 /\ clock % Rate \in 0 .. Rate - 1
         /\ clock = Rate * hal_time_us_now + (clock % Rate)
<1>0. /\ Rate \in Nat \ {0} /\ Long \in Nat \ {0}
      /\ clock \in Nat /\ clock <= Long * Rate - 1 /\ Long * Rate \in Nat
  BY TimeFacts
<1> DEFINE now == clock \div Rate
           q   == clock % Rate
<1>1. now \in Nat /\ q \in 0 .. Rate - 1 /\ clock = Rate * now + q
  BY <1>0, DivFacts
<1> HIDE DEF now, q
<1>2. now <= Long - 1
  <2> SUFFICES ASSUME now >= Long PROVE FALSE
    BY <1>0, <1>1
  <2>1. Rate * now >= Rate * Long
    BY <1>0, <1>1
  <2>2. Rate * Long = Long * Rate /\ Rate * now \in Nat
    BY <1>0, <1>1
  <2> QED
    BY <1>0, <1>1, <2>1, <2>2
<1> QED
  BY <1>0, <1>1, <1>2 DEF now, q, hal_time_us_now, Rate

(* The history of a call tells the microseconds since it began.            *)
LEMMA UsGoneIs ==
  ASSUME TimeTypes,
         NEW u \in Nat, NEW r \in 0 .. Rate - 1, NEW e \in Nat, NEW n \in Nat, NEW k \in Nat,
         Began(u, r, e, n, k), k < Horizon
  PROVE  UsGone = e
<1> DEFINE now == hal_time_us_now
           q   == clock % Rate
<1>1. /\ now \in Int /\ q \in 0 .. Rate - 1 /\ clock = Rate * now + q
      /\ r + k = Rate * e + q /\ call.gone = k /\ Rate \in Nat \ {0}
  BY ClockReads, TimeFacts DEF Began
<1> HIDE DEF now, q
<1>2. Rate * (now - e) = Rate * now - Rate * e /\ Rate * now \in Int /\ Rate * e \in Int
  BY <1>1
<1>3. clock - k = Rate * (now - e) + r /\ clock - k \in Int /\ now - e \in Int
  BY <1>1, <1>2
<1>4. (clock - k) % Rate = r
  BY <1>1, <1>3, QuotientUnique
<1>5. (r + k) \div Rate = e
  <2>1. r + k \in Int /\ e \in Int
    BY <1>1
  <2> QED
    BY <1>1, <2>1, QuotientUnique
<1>6. ((clock - call.gone) % Rate) + call.gone = r + k
  BY <1>1, <1>4
<1> QED
  BY <1>5, <1>6 DEF UsGone, Rate

LEMMA SmallRemainder ==
  ASSUME NEW M \in Nat \ {0}, NEW x \in 0 .. M - 1
  PROVE  x % M = x
<1>1. x = M * 0 + x /\ x \in Int
  OBVIOUS
<1> QED
  BY <1>1, QuotientUnique

(* A wait is tested so often that it is never more than a gap late.        *)
LEMMA WaitBound ==
  ASSUME TimeTypes, call.op = "wait_until",
         NEW u \in 0 .. Long - 1, NEW r \in 0 .. Rate - 1, NEW e \in Nat, NEW n \in Nat,
         NEW k \in Nat, Began(u, r, e, n, k), NotYetDue(r, k)
  PROVE  /\ k < Rate * call.us + Rate + MaxGap /\ k < Horizon
         /\ e <= call.us + MaxGap /\ UsGone = e /\ call.gone = k
<1> DEFINE us  == call.us
           gap == call.gap
           q   == clock % Rate
           c   == Rate
<1>1. /\ us \in 0 .. Word - 1 /\ gap \in 0 .. MaxGap /\ c \in Nat \ {0} /\ Word \in Nat \ {0}
      /\ MaxGap \in Nat \ {0} /\ Horizon = Word * c + MaxGap
  BY TimeFacts DEF TimeTypes, CallType
<1>2. /\ k = gap \/ r + k - gap < c * us
      /\ r + k = c * e + q /\ gap <= k /\ q \in 0 .. c - 1
  BY ClockReads DEF Began, NotYetDue
<1>3. r \in 0 .. c - 1 /\ u \in Nat
  BY TimeFacts
<1> HIDE DEF us, gap, q, c
<1>4. c * us \in Nat
  BY <1>1
<1>5. k < c * us + c + MaxGap /\ r + k < c * us + c + MaxGap
  BY <1>1, <1>2, <1>3, <1>4
<1>6. c * us + c <= Word * c
  <2>1. c * (us + 1) <= c * Word
    BY <1>1
  <2>2. c * (us + 1) = c * us + c /\ c * Word = Word * c
    BY <1>1
  <2> QED
    BY <2>1, <2>2
<1>7. e <= us + MaxGap
  <2> SUFFICES ASSUME e >= us + MaxGap + 1 PROVE FALSE
    BY <1>1
  <2>1. c * e >= c * (us + MaxGap + 1)
    BY <1>1
  <2>2. c * (us + MaxGap + 1) = c * us + c * MaxGap + c
    BY <1>1
  <2>3. c * MaxGap >= MaxGap /\ c * MaxGap \in Nat /\ c * e \in Nat
    BY <1>1
  <2> QED
    BY <1>1, <1>2, <1>3, <1>4, <1>5, <2>1, <2>2, <2>3
<1>8. k < Horizon /\ Word * c \in Nat
  BY <1>1, <1>4, <1>5, <1>6
<1>9. UsGone = e /\ call.gone = k
  BY <1>3, <1>8, UsGoneIs DEF Began, c
<1> QED
  BY <1>5, <1>7, <1>8, <1>9 DEF us, c

(* The signed difference tells a deadline that has passed from one that    *)
(* has not, wherever the clock wraps.                                      *)
LEMMA ExpiredMeansPassed ==
  ASSUME TimeTypes, call.op = "wait_until",
         NEW u \in 0 .. Long - 1, NEW r \in 0 .. Rate - 1, NEW e \in Nat, NEW n \in Nat,
         NEW k \in Nat, Began(u, r, e, n, k), e <= call.us + MaxGap
  PROVE  hal_time_expired(call.local) <=> e >= call.us
<1> DEFINE us   == call.us
           now  == hal_time_us_now
           left == (call.local - now) % Long
           half == Long \div 2
<1>1. /\ us \in 0 .. Word - 1 /\ Long \in Nat \ {0} /\ Word \in Nat \ {0} /\ 2 * Word <= Long
      /\ MaxGap \in Nat /\ MaxGap <= half /\ now \in 0 .. Long - 1 /\ u \in Int
  BY TimeFacts, ClockReads DEF TimeTypes, CallType
<1>2. half \in Nat /\ 2 * half <= Long /\ Word <= half
  BY <1>1
<1>3. now + Long * n = u + e /\ call.local = (u + us) % Long /\ e <= us + MaxGap
  BY DEF Began
<1>4. hal_time_expired(call.local) <=> (IF left < half THEN left ELSE left - Long) <= 0
  BY DEF hal_time_expired, Signed
<1> HIDE DEF us, now
<1>5. left = (us - e) % Long
  <2> DEFINE a == u + us
             d == us - e
             w == Long * n
  <2>1. a \in Int /\ now \in Int /\ d \in Int /\ n \in Int /\ w \in Int /\ w = Long * n
    BY <1>1
  <2>2. a - now = d + w
    BY <1>1, <1>3, <2>1
  <2> HIDE DEF a, d, w
  <2>3. Long \in Nat \ {0}
    BY <1>1
  <2>4. ((a % Long) - now) % Long = (a - now) % Long
    BY <2>1, <2>3, ReducedOnTheLeft
  <2>5. (d + Long * n) % Long = d % Long
    BY <2>1, <2>3, MultiplesVanish
  <2>6. a - now = d + Long * n
    BY <2>1, <2>2
  <2> QED
    BY <1>3, <2>4, <2>5, <2>6 DEF a, d
<1> HIDE DEF left, half
<1>6. CASE e <= us
  <2>1. us - e \in 0 .. Long - 1
    BY <1>1, <1>6
  <2>2. left = us - e
    BY <1>1, <1>5, <2>1, SmallRemainder
  <2> QED
    BY <1>1, <1>2, <1>4, <1>6, <2>2 DEF us
<1>7. CASE e > us
  <2> DEFINE d == us - e
             x == Long - (e - us)
             q == -1
  <2>1. d = Long * q + x /\ d \in Int /\ x \in 0 .. Long - 1 /\ q \in Int
    BY <1>1, <1>2, <1>3, <1>7
  <2>2. left = d % Long
    BY <1>5
  <2> HIDE DEF d, x, q
  <2>3. left = x
    BY <1>1, <2>1, <2>2, QuotientUnique
  <2>4. left = Long - (e - us)
    BY <2>3 DEF x
  <2> QED
    BY <1>1, <1>2, <1>3, <1>4, <1>7, <2>4 DEF us
<1> QED
  BY <1>1, <1>6, <1>7

(* As long as the clock does not wrap, what remains is what was asked for  *)
(* less what has gone.                                                     *)
LEMMA RemainingCountsDown ==
  ASSUME TimeTypes, call.op = "wait_until",
         NEW u \in 0 .. Long - 1, NEW r \in 0 .. Rate - 1, NEW e \in Nat, NEW n \in Nat,
         NEW k \in Nat, Began(u, r, e, n, k),
         hal_time_us_now - e \in 0 .. Long - 1 - call.us
  PROVE  hal_time_remaining_us(call.local) = IF e < call.us THEN call.us - e ELSE 0
<1> DEFINE us  == call.us
           now == hal_time_us_now
<1>1. /\ us \in 0 .. Word - 1 /\ Long \in Nat \ {0} /\ Word \in Nat \ {0}
      /\ now \in 0 .. Long - 1
  BY TimeFacts, ClockReads DEF TimeTypes, CallType
<1>2. now + Long * n = u + e /\ call.local = (u + us) % Long /\ now - e \in 0 .. Long - 1 - us
  BY DEF Began
<1>3. hal_time_remaining_us(call.local) =
        IF call.local - now <= 0 THEN 0
        ELSE IF call.local - now > Word - 1 THEN Word - 1 ELSE call.local - now
  BY DEF hal_time_remaining_us
<1> HIDE DEF us, now
<1>4. n = 0
  <2> SUFFICES ASSUME n >= 1 PROVE FALSE
    OBVIOUS
  <2>1. Long * n >= Long /\ Long * n \in Nat
    BY <1>1
  <2> QED
    BY <1>1, <1>2, <2>1
<1>5. Long * n = 0
  BY <1>1, <1>4
<1>6. u + us \in 0 .. Long - 1 /\ u + us - now = us - e
  BY <1>1, <1>2, <1>5
<1>7. call.local = u + us
  <2> DEFINE a == u + us
  <2>1. a \in 0 .. Long - 1 /\ call.local = a % Long
    BY <1>2, <1>6
  <2> HIDE DEF a
  <2>2. call.local = a
    BY <1>1, <2>1, SmallRemainder
  <2> QED
    BY <2>2 DEF a
<1>8. call.local - now = us - e
  <2>1. u \in Int /\ us \in Int /\ now \in Int /\ e \in Int
    BY <1>1
  <2> QED
    BY <1>6, <1>7, <2>1
<1> QED
  BY <1>1, <1>3, <1>8 DEF us

LEMMA WaitHolds ==
  ASSUME TimeTypes, call.op = "wait_until", ~call.returned, UnderWay
  PROVE  DeadlinesHold
<1>1. PICK u \in 0 .. Long - 1, r \in 0 .. Rate - 1, e \in Nat, n \in Nat, k \in Nat :
        Began(u, r, e, n, k) /\ NotYetDue(r, k)
  BY DEF UnderWay
<1>2. k < Rate * call.us + Rate + MaxGap /\ UsGone = e /\ call.gone = k
  BY <1>1, WaitBound
<1>3. (call.us + 1) * g.cycles_per_us = Rate * call.us + Rate
  BY TimeFacts DEF TimeTypes, CallType, Rate
<1>4. hal_time_us_now - e \in 0 .. Long - 1 - call.us =>
        hal_time_remaining_us(call.local) = IF e < call.us THEN call.us - e ELSE 0
  BY <1>1, RemainingCountsDown
<1> QED
  BY <1>2, <1>3, <1>4 DEF DeadlinesHold

(* What a spin measures: the cycles that have gone, or those of whole      *)
(* microseconds, modulo the range of the counter.                          *)
LEMMA SpinMeasures ==
  ASSUME TimeTypes, call.op = "spin_cycles",
         NEW u \in 0 .. Long - 1, NEW r \in 0 .. Rate - 1, NEW e \in Nat, NEW n \in Nat,
         NEW k \in Nat, Began(u, r, e, n, k)
  PROVE  hal_cycles_diff(hal_cycles_now, call.local) =
           IF g.dwt_ok THEN k % Word ELSE (Rate * e) % Word
<1> DEFINE now == hal_time_us_now
           q   == clock % Rate
           c   == Rate
           w   == Long \div Word
           m   == -(c * (w * n))
<1>1. /\ c \in Nat \ {0} /\ Long \in Nat \ {0} /\ Word \in Nat \ {0} /\ u \in Nat /\ r \in Nat
      /\ now \in Int /\ q \in Int /\ clock = c * now + q /\ clock \in Int
  BY TimeFacts, ClockReads
<1>2. now + Long * n = u + e /\ r + k = c * e + q
  BY DEF Began
<1>3. w \in Nat /\ Long = Word * w
  <2>1. Long \in Nat /\ Long % Word = 0
    BY HalTimeAssumption
  <2>2. w \in Nat /\ Long = Word * w + (Long % Word)
    BY <1>1, <2>1, DivFacts
  <2> HIDE DEF w
  <2>3. Word * w \in Nat
    BY <1>1, <2>2
  <2> QED
    BY <2>1, <2>2, <2>3
<1>4. call.local = IF g.dwt_ok THEN (c * u + r) % Word ELSE (c * u) % Word
  BY DEF Began
<1>5. hal_cycles_now = IF g.dwt_ok THEN clock % Word ELSE (now * c) % Word
  BY DEF hal_cycles_now, Rate
<1> HIDE DEF now, q, c, w
<1>6. now * c = c * now
  BY <1>1
<1>7. c * now = c * u + c * e + Word * m /\ m \in Int
  <2>1. now = u + e - Long * n /\ Long * n = Word * (w * n) /\ w * n \in Nat
    BY <1>1, <1>2, <1>3
  <2> DEFINE v == w * n
  <2> HIDE DEF v
  <2>2. now = u + e - Word * v /\ v \in Nat
    BY <2>1 DEF v
  <2>3. c * now = c * u + c * e - c * (Word * v)
    BY <1>1, <2>2
  <2>4. c * (Word * v) = Word * (c * v) /\ Word * (-(c * v)) = -(Word * (c * v))
    BY <1>1, <2>2
  <2>5. /\ c * (Word * v) \in Int /\ Word * (c * v) \in Int /\ -(c * v) \in Int
        /\ c * u \in Int /\ c * e \in Int
    BY <1>1, <2>2
  <2>6. m = -(c * v)
    BY DEF v
  <2> HIDE DEF m
  <2> QED
    BY <2>3, <2>4, <2>5, <2>6
<1> HIDE DEF m
<1>8. c * u \in Int /\ c * e \in Int /\ c * now \in Int /\ Word * m \in Int
  BY <1>1, <1>7
<1>9. CASE g.dwt_ok
  <2> DEFINE b == c * u + r
  <2>1. clock - b = k + Word * m /\ b \in Int
    BY <1>1, <1>2, <1>7, <1>8
  <2> HIDE DEF b
  <2>2. ((clock % Word) - (b % Word)) % Word = (clock - b) % Word
    BY <1>1, <2>1, Reduced
  <2>3. (k + Word * m) % Word = k % Word
    <3>1. k \in Int /\ m \in Int /\ Word \in Nat \ {0}
      BY <1>1, <1>7
    <3> QED
      BY <3>1, MultiplesVanish
  <2>4. hal_cycles_diff(hal_cycles_now, call.local) = ((clock % Word) - (b % Word)) % Word
    BY <1>4, <1>5, <1>9 DEF hal_cycles_diff, b
  <2> QED
    BY <1>9, <2>1, <2>2, <2>3, <2>4
<1>10. CASE ~g.dwt_ok
  <2> DEFINE a == c * now
             b == c * u
             d == c * e
  <2>1. a - b = d + Word * m /\ a \in Int /\ b \in Int /\ d \in Int
    BY <1>7, <1>8
  <2>2. hal_cycles_diff(hal_cycles_now, call.local) = ((a % Word) - (b % Word)) % Word
    BY <1>4, <1>5, <1>6, <1>10 DEF hal_cycles_diff
  <2> HIDE DEF a, b, d
  <2>3. ((a % Word) - (b % Word)) % Word = (a - b) % Word
    BY <1>1, <2>1, Reduced
  <2>4. (d + Word * m) % Word = d % Word
    BY <1>1, <1>7, <2>1, MultiplesVanish
  <2>5. hal_cycles_diff(hal_cycles_now, call.local) = d % Word
    BY <2>1, <2>2, <2>3, <2>4
  <2> QED
    BY <1>10, <2>5 DEF d, c
<1> QED
  BY <1>9, <1>10

(* A spin whose cycles and one gap fit the counter is no more than a gap   *)
(* late.                                                                   *)
LEMMA SpinBound ==
  ASSUME TimeTypes, call.op = "spin_cycles",
         NEW u \in 0 .. Long - 1, NEW r \in 0 .. Rate - 1, NEW e \in Nat, NEW n \in Nat,
         NEW k \in Nat, Began(u, r, e, n, k), NotYetDue(r, k),
         Rate * call.us + MaxGap <= Word
  PROVE  k <= Rate * call.us + MaxGap
<1>1. /\ call.gap \in 0 .. MaxGap /\ MaxGap \in Nat /\ r \in Nat /\ Rate * call.us \in Nat
  BY TimeFacts DEF TimeTypes, CallType
<1>2. \/ k = call.gap
      \/ (IF g.dwt_ok THEN 0 ELSE r) + k - call.gap < Rate * call.us
  BY DEF NotYetDue
<1> QED
  BY <1>1, <1>2

LEMMA SpinHolds ==
  ASSUME TimeTypes, call.op = "spin_cycles", ~call.returned, UnderWay
  PROVE  SpinsAsAsked
<1>1. PICK u \in 0 .. Long - 1, r \in 0 .. Rate - 1, e \in Nat, n \in Nat, k \in Nat :
        Began(u, r, e, n, k) /\ NotYetDue(r, k)
  BY DEF UnderWay
<1>2. call.us * g.cycles_per_us = Rate * call.us /\ Rate * call.us \in Nat
  BY TimeFacts DEF TimeTypes, CallType, Rate
<1>3. Rate * call.us + MaxGap <= Word => k <= Rate * call.us + MaxGap
  BY <1>1, SpinBound
<1>4. call.gone <= k
  BY <1>1, TimeFacts DEF Began
<1>5. call.gone \in Nat /\ MaxGap \in Nat
  BY TimeFacts DEF TimeTypes, CallType
<1> QED
  BY <1>2, <1>3, <1>4, <1>5 DEF SpinsAsAsked

-----------------------------------------------------------------------------
(* The steps of the time layer. *)

LEMMA InitTime == TimeInit => TimeInv
<1> SUFFICES ASSUME TimeInit PROVE TimeInv
  OBVIOUS
<1>1. ASSUME NEW hz \in ClockHz PROVE CyclesPerUs(hz) \in Nat \ {0}
  <2> DEFINE rate == IF hz = 0 THEN DefaultHz ELSE hz
  <2>1. rate \in Nat /\ Million \in Nat \ {0}
    BY HalTimeAssumption
  <2> HIDE DEF rate
  <2>2. rate \div Million \in Nat
    BY <2>1, DivFacts
  <2> QED
    BY <2>2 DEF CyclesPerUs, rate
<1>2. g \in [cycles_per_us : Nat \ {0}, dwt_ok : BOOLEAN]
  BY <1>1 DEF TimeInit
<1>3. call = NoCall /\ NoCall \in CallType
  BY HalTimeAssumption DEF TimeInit, NoCall, CallType
<1>4. clock = 0 /\ 0 \in 0 .. ClockRange - 1
  <2>1. Long \in Nat \ {0} /\ g.cycles_per_us \in Nat \ {0}
    BY <1>2, HalTimeAssumption
  <2>2. Long * g.cycles_per_us \in Nat \ {0}
    BY <2>1
  <2> QED
    BY <2>2 DEF TimeInit, ClockRange
<1> QED
  BY <1>2, <1>3, <1>4 DEF TimeInv, TimeTypes

LEMMA BeginUnderWay ==
  ASSUME TimeInv, WaitUntil \/ SpinCycles
  PROVE  TimeInv'
<1>1. PICK op, us, local :
        /\ op \in {"wait_until", "spin_cycles"} /\ us \in Waits
        /\ call = NoCall
        /\ call' = [op |-> op, us |-> us, local |-> local, gone |-> 0, gap |-> 0,
                    returned |-> FALSE]
        /\ clock' = clock /\ g' = g
        /\ local = IF op = "wait_until" THEN hal_time_deadline_us(us) ELSE hal_cycles_now
  BY DEF WaitUntil, SpinCycles, Begin
<1> DEFINE now == hal_time_us_now
           q   == clock % Rate
<1>2. /\ TimeTypes /\ Rate \in Nat \ {0} /\ Long \in Nat \ {0} /\ Word \in Nat \ {0}
      /\ MaxGap \in Nat \ {0} /\ Horizon \in Nat \ {0} /\ us \in 0 .. Word - 1
      /\ now \in 0 .. Long - 1 /\ q \in 0 .. Rate - 1 /\ clock = Rate * now + q
  BY <1>1, TimeFacts, ClockReads, HalTimeAssumption DEF TimeInv
<1>3. local \in Int
  <2>1. hal_time_deadline_us(us) \in Int
    BY <1>2 DEF hal_time_deadline_us
  <2>2. hal_cycles_now \in Int
    <3>1. now * g.cycles_per_us \in Int /\ clock \in Int
      BY <1>2 DEF Rate
    <3> QED
      BY <1>2, <3>1 DEF hal_cycles_now
  <2> QED
    BY <1>1, <2>1, <2>2
<1>4. TimeTypes'
  BY <1>1, <1>2, <1>3 DEF TimeTypes, CallType, ClockRange
<1>5. Rate' = Rate /\ Horizon' = Horizon /\ now' = now /\ clock' = clock /\ g' = g
  BY <1>1 DEF Rate, Horizon, hal_time_us_now
<1>6. local = IF op = "wait_until" THEN (now + us) % Long
              ELSE IF g.dwt_ok THEN (Rate * now + q) % Word ELSE (Rate * now) % Word
  <2>1. now * g.cycles_per_us = Rate * now
    BY <1>2 DEF Rate
  <2> QED
    BY <1>1, <1>2, <2>1 DEF hal_time_deadline_us, hal_cycles_now
<1>7. /\ call'.op = op /\ call'.us = us /\ call'.local = local /\ call'.gone = 0
      /\ call'.gap = 0 /\ ~call'.returned
  BY <1>1
<1>8. (clock % Rate)' = q
  BY <1>5
<1>9. PICK u \in 0 .. Long - 1, r \in 0 .. Rate - 1 : u = now /\ r = q
  BY <1>2
<1>10. Began(u, r, 0, 0, 0)'
  <2>1. u + Long * 0 = u + 0 /\ r + 0 = Rate * 0 + r
    BY <1>2
  <2> QED
    BY <1>2, <1>5, <1>6, <1>7, <1>8, <1>9, <2>1 DEF Began
<1>11. NotYetDue(r, 0)'
  BY <1>7 DEF NotYetDue
<1>12. UnderWay'
  <2>1. r \in 0 .. Rate' - 1 /\ 0 \in Nat
    BY <1>5
  <2> QED
    BY <1>10, <1>11, <2>1 DEF UnderWay
<1> QED
  BY <1>4, <1>7, <1>12 DEF TimeInv

(* A test that came too early leaves a wait as long as it was, and a spin, *)
(* provided that the counter did not pass its range since.                 *)
LEMMA TooEarly ==
  ASSUME TimeTypes, GoesRound,
         NEW u \in 0 .. Long - 1, NEW r \in 0 .. Rate - 1, NEW e \in Nat, NEW n \in Nat,
         NEW k \in Nat, Began(u, r, e, n, k), NotYetDue(r, k)
  PROVE  LET asked == Rate * call.us
             grain == IF call.op = "spin_cycles" /\ g.dwt_ok THEN 0 ELSE r
         IN call.op = "wait_until" \/ asked + MaxGap <= Word => grain + k < asked
<1> DEFINE us    == call.us
           gap   == call.gap
           c     == Rate
           q     == clock % Rate
           asked == c * us
<1>1. /\ c \in Nat \ {0} /\ Word \in Nat \ {0} /\ MaxGap \in Nat \ {0}
      /\ us \in 0 .. Word - 1 /\ gap \in 0 .. MaxGap /\ q \in 0 .. c - 1 /\ r \in 0 .. c - 1
  BY TimeFacts, ClockReads DEF TimeTypes, CallType
<1>2. r + k = c * e + q
  BY DEF Began
<1>3. us * g.cycles_per_us = asked
  BY <1>1 DEF Rate
<1> HIDE DEF us, gap, c, q
<1>4. asked \in Nat /\ c * e \in Nat
  BY <1>1
<1>5. ASSUME e < us PROVE r + k < asked /\ us >= 1 /\ asked >= c
  <2>1. c * (e + 1) <= c * us /\ c * (e + 1) = c * e + c
    BY <1>1, <1>5
  <2> QED
    BY <1>1, <1>2, <1>4, <1>5, <2>1
<1>6. CASE call.op = "wait_until"
  <2>1. e <= us + MaxGap
    BY <1>6, WaitBound DEF us
  <2>2. ~hal_time_expired(call.local)
    BY <1>6 DEF GoesRound, WaitsOnDeadline, SpinsOn
  <2>3. e < us
    BY <1>1, <1>6, <2>1, <2>2, ExpiredMeansPassed DEF us
  <2> QED
    BY <1>5, <1>6, <2>3 DEF asked, c, us
<1>7. CASE call.op = "spin_cycles" /\ asked + MaxGap <= Word
  <2> DEFINE grain == IF g.dwt_ok THEN 0 ELSE r
             diff  == hal_cycles_diff(hal_cycles_now, call.local)
  <2>1. hal_us_to_cycles(us) = asked
    BY <1>1, <1>3, <1>4, <1>7 DEF hal_us_to_cycles
  <2>2. diff < asked
    BY <1>7, <2>1 DEF GoesRound, WaitsOnDeadline, SpinsOn, us
  <2>3. diff = IF g.dwt_ok THEN k % Word ELSE (c * e) % Word
    BY <1>7, SpinMeasures DEF c
  <2>4. k = gap \/ grain + k - gap < asked
    BY <1>7 DEF NotYetDue, asked, c, us, gap
  <2> HIDE DEF diff, asked
  <2>5. k \in Int /\ c * e \in Int /\ diff \in Nat
    <3>1. k % Word \in Nat /\ (c * e) % Word \in Nat
      <4> DEFINE x == c * e
      <4>1. x \in Int /\ k \in Int
        BY <1>4
      <4> HIDE DEF x
      <4> QED
        BY <1>1, <4>1, DivFacts DEF x
    <3> QED
      BY <1>4, <2>3, <3>1
  <2>6. asked >= 1
    BY <1>4, <2>2, <2>5
  <2>7. CASE g.dwt_ok
    <3>1. k \in 0 .. Word - 1
      BY <1>1, <1>4, <1>7, <2>4, <2>6, <2>7
    <3>2. diff = k
      BY <1>1, <2>3, <2>7, <3>1, SmallRemainder
    <3> QED
      BY <1>7, <2>2, <2>7, <3>2 DEF asked, c, us
  <2>8. CASE ~g.dwt_ok
    <3>1. asked >= c
      <4>1. us >= 1
        BY <1>1, <2>6 DEF asked
      <4>2. c * us >= c
        BY <1>1, <4>1
      <4> QED
        BY <4>2 DEF asked
    <3>2. r + k < Word
      BY <1>1, <1>4, <1>7, <2>4, <2>8, <3>1
    <3> DEFINE x == c * e
    <3>3. x \in 0 .. Word - 1
      BY <1>1, <1>2, <1>4, <3>2
    <3> HIDE DEF x
    <3>4. x % Word = x
      BY <1>1, <3>3, SmallRemainder
    <3>5. c * e < c * us
      BY <2>2, <2>3, <2>8, <3>4 DEF x, asked
    <3>6. e < us
      <4> SUFFICES ASSUME e >= us PROVE FALSE
        BY <1>1
      <4>1. c * e >= c * us /\ c * us \in Nat
        BY <1>1
      <4> QED
        BY <1>4, <3>5, <4>1
    <3> QED
      BY <1>5, <1>7, <2>8, <3>6 DEF asked, c, us
  <2> QED
    BY <2>7, <2>8
<1>8. call.op \in {"wait_until", "spin_cycles"}
  BY DEF GoesRound, WaitsOnDeadline, SpinsOn
<1> QED
  BY <1>6, <1>7, <1>8 DEF asked, c, us

LEMMA TestKeepsUnderWay ==
  ASSUME TimeInv, TestAgain
  PROVE  TimeInv'
<1>1. /\ TimeTypes /\ call # NoCall /\ ~call.returned /\ GoesRound
      /\ call' = [call EXCEPT !.gap = 0] /\ clock' = clock /\ g' = g
  BY DEF TimeInv, TestAgain, GoesRound, WaitsOnDeadline, SpinsOn, NoCall
<1>2. PICK u \in 0 .. Long - 1, r \in 0 .. Rate - 1, e \in Nat, n \in Nat, k \in Nat :
        Began(u, r, e, n, k) /\ NotYetDue(r, k)
  BY <1>1 DEF TimeInv, UnderWay
<1>3. /\ call'.op = call.op /\ call'.us = call.us /\ call'.local = call.local
      /\ call'.gone = call.gone /\ call'.gap = 0 /\ call'.returned = call.returned
      /\ call' \in CallType /\ call'.op # "none"
  BY <1>1, TimeFacts DEF TimeTypes, CallType, GoesRound, WaitsOnDeadline, SpinsOn
<1>4. TimeTypes'
  BY <1>1, <1>3 DEF TimeTypes, ClockRange
<1>5. Rate' = Rate /\ Horizon' = Horizon /\ hal_time_us_now' = hal_time_us_now
  BY <1>1 DEF Rate, Horizon, hal_time_us_now
<1>6. Began(u, r, e, n, k)'
  BY <1>1, <1>2, <1>3, <1>5 DEF Began
<1>7. NotYetDue(r, k)'
  <2> DEFINE asked == Rate * call.us
             grain == IF call.op = "spin_cycles" /\ g.dwt_ok THEN 0 ELSE r
  <2>1. call.op = "wait_until" \/ asked + MaxGap <= Word => grain + k < asked
    BY <1>1, <1>2, TooEarly
  <2>2. grain + k - 0 = grain + k
    BY TimeFacts, <1>1
  <2> QED
    BY <1>1, <1>3, <1>5, <2>1, <2>2 DEF NotYetDue
<1>8. UnderWay'
  <2>1. r \in 0 .. Rate' - 1
    BY <1>5
  <2> QED
    BY <1>6, <1>7, <2>1 DEF UnderWay
<1>9. ~call'.returned
  BY <1>1, <1>3
<1> QED
  BY <1>4, <1>8, <1>9 DEF TimeInv

LEMMA WaitReturns ==
  ASSUME TimeInv, Return, call.op = "wait_until"
  PROVE  TimeInv'
<1>1. /\ TimeTypes /\ call # NoCall /\ ~call.returned /\ ~GoesRound
      /\ call' = [call EXCEPT !.returned = TRUE, !.local = @] /\ clock' = clock /\ g' = g
  BY DEF TimeInv, Return
<1>2. PICK u \in 0 .. Long - 1, r \in 0 .. Rate - 1, e \in Nat, n \in Nat, k \in Nat :
        Began(u, r, e, n, k) /\ NotYetDue(r, k)
  BY <1>1 DEF TimeInv, UnderWay
<1>3. /\ call'.op = "wait_until" /\ call'.us = call.us /\ call'.local = call.local
      /\ call'.gone = call.gone /\ call'.gap = call.gap /\ call'.returned
      /\ call' \in CallType
  BY <1>1 DEF TimeTypes, CallType
<1>4. TimeTypes'
  BY <1>1, <1>3 DEF TimeTypes, ClockRange
<1>5. /\ UsGone' = UsGone /\ hal_time_us_now' = hal_time_us_now
      /\ hal_time_remaining_us(call.local)' = hal_time_remaining_us(call.local)
  BY <1>1, <1>3 DEF UsGone, hal_time_us_now, hal_time_remaining_us
<1>6. DeadlinesHold
  BY <1>1, WaitHolds DEF TimeInv
<1>7. UsGone >= call.us
  <2>1. hal_time_expired(call.local)
    BY <1>1 DEF GoesRound, WaitsOnDeadline, SpinsOn
  <2>2. UsGone = e /\ e <= call.us + MaxGap
    BY <1>1, <1>2, WaitBound
  <2> QED
    BY <1>1, <1>2, <2>1, <2>2, ExpiredMeansPassed
<1>8. DeadlinesHold'
  BY <1>1, <1>3, <1>5, <1>6, <1>7 DEF DeadlinesHold
<1>9. SpinsAsAsked'
  BY <1>3 DEF SpinsAsAsked
<1> QED
  BY <1>3, <1>4, <1>8, <1>9 DEF TimeInv

LEMMA SpinReturns ==
  ASSUME TimeInv, Return, call.op = "spin_cycles"
  PROVE  TimeInv'
<1> DEFINE us    == call.us
           c     == Rate
           q     == clock % Rate
           asked == us * g.cycles_per_us
           diff  == hal_cycles_diff(hal_cycles_now, call.local)
<1>1. /\ TimeTypes /\ call # NoCall /\ ~call.returned /\ ~GoesRound
      /\ call' = [call EXCEPT !.returned = TRUE, !.local = diff \div c]
      /\ clock' = clock /\ g' = g
  BY DEF TimeInv, Return, Measured, hal_cycles_to_us, Rate
<1>2. PICK u \in 0 .. Long - 1, r \in 0 .. Rate - 1, e \in Nat, n \in Nat, k \in Nat :
        Began(u, r, e, n, k) /\ NotYetDue(r, k)
  BY <1>1 DEF TimeInv, UnderWay
<1>3. /\ c \in Nat \ {0} /\ Word \in Nat \ {0} /\ MaxGap \in Nat \ {0} /\ us \in 0 .. Word - 1
      /\ q \in 0 .. c - 1 /\ r \in 0 .. c - 1 /\ call.gone \in Nat
      /\ Horizon \in Nat /\ Horizon = Word * c + MaxGap /\ Word * c \in Nat /\ Word <= Word * c
  BY <1>1, TimeFacts, ClockReads DEF TimeTypes, CallType
<1>4. /\ r + k = c * e + q /\ call.gone = IF k < Horizon THEN k ELSE Horizon
      /\ c * e \in Nat
  BY <1>2, <1>3 DEF Began
<1>5. diff = IF g.dwt_ok THEN k % Word ELSE (c * e) % Word
  BY <1>1, <1>2, SpinMeasures
<1>6. diff \in Nat /\ diff <= (IF g.dwt_ok THEN k ELSE c * e)
  <2>1. ASSUME NEW x \in Nat PROVE x % Word \in Nat /\ x % Word <= x
    <3> DEFINE y == x % Word
               z == x \div Word
    <3>1. z \in Nat /\ y \in 0 .. Word - 1 /\ x = Word * z + y
      BY <1>3, DivFacts
    <3> HIDE DEF y, z
    <3>2. Word * z \in Nat
      BY <1>3, <3>1
    <3>3. y \in Nat /\ y <= x
      BY <1>3, <3>1, <3>2
    <3> QED
      BY <3>3 DEF y
  <2> HIDE DEF diff
  <2>2. k % Word \in Nat /\ k % Word <= k
    BY <2>1
  <2>3. (c * e) % Word \in Nat /\ (c * e) % Word <= c * e
    BY <1>4, <2>1
  <2> QED
    BY <1>5, <2>2, <2>3
<1>7. diff >= IF asked < Word THEN asked ELSE Word - 1
  <2>1. asked \in Nat
    BY <1>3 DEF Rate
  <2>2. ~(diff < hal_us_to_cycles(us))
    BY <1>1 DEF GoesRound, WaitsOnDeadline, SpinsOn
  <2> HIDE DEF diff, us
  <2>3. hal_us_to_cycles(us) = IF asked < Word THEN asked ELSE Word - 1
    BY <1>3, <2>1 DEF hal_us_to_cycles
  <2> HIDE DEF asked
  <2> QED
    BY <1>3, <1>6, <2>1, <2>2, <2>3
<1>8. UsGone' = UsGone /\ Grain' = Grain /\ Grain = IF g.dwt_ok THEN 1 ELSE c
  <2>1. call'.gone = call.gone
    BY <1>1 DEF TimeTypes, CallType
  <2> QED
    BY <1>1, <2>1 DEF UsGone, Grain, Rate
<1>9. /\ call'.op = "spin_cycles" /\ call'.us = us /\ call'.local = diff \div c
      /\ call'.gone = call.gone /\ call'.gap = call.gap /\ call'.returned
  BY <1>1 DEF TimeTypes, CallType
<1>10. TimeTypes'
  <2>1. diff \div c \in Int
    BY <1>3, <1>6, DivFacts
  <2>2. call' \in CallType
    BY <1>1, <2>1 DEF TimeTypes, CallType
  <2> QED
    BY <1>1, <1>9, <2>2 DEF TimeTypes, ClockRange
<1>11. call.gone + Grain > IF asked < Word THEN asked ELSE Word - 1
  <2>1. call.gone + Grain > diff
    <3> HIDE DEF diff, c, q
    <3>1. CASE k < Horizon
      BY <1>3, <1>4, <1>6, <1>8, <3>1
    <3>2. CASE k >= Horizon
      <4>1. diff < Word
        <5> DEFINE x == IF g.dwt_ok THEN k ELSE c * e
        <5>1. x \in Nat /\ diff = x % Word
          BY <1>4, <1>5
        <5> HIDE DEF x
        <5> QED
          BY <1>3, <5>1, DivFacts
      <4> QED
        BY <1>3, <1>4, <1>6, <1>8, <3>2, <4>1
    <3> QED
      BY <1>3, <3>1, <3>2
  <2> HIDE DEF diff, asked
  <2>2. (IF asked < Word THEN asked ELSE Word - 1) \in Int
    BY <1>3 DEF asked, Rate
  <2>3. call.gone + Grain \in Int
    BY <1>3, <1>8
  <2> QED
    BY <1>6, <1>7, <2>1, <2>2, <2>3
<1>12. asked + MaxGap <= Word => call.gone <= asked + MaxGap
  BY <1>1, SpinHolds DEF TimeInv, SpinsAsAsked
<1>13. call.gone + g.cycles_per_us <= Word => diff \div c \in {call.gone \div g.cycles_per_us, UsGone}
  <2> SUFFICES ASSUME call.gone + c <= Word
               PROVE  diff \div c \in {call.gone \div c, UsGone}
    BY DEF Rate
  <2>1. k < Horizon /\ call.gone = k
    BY <1>3, <1>4
  <2>2. CASE g.dwt_ok
    <3>1. k \in 0 .. Word - 1
      BY <1>3, <2>1
    <3>2. diff = k
      BY <1>3, <1>5, <2>2, <3>1, SmallRemainder
    <3> QED
      BY <2>1, <3>2
  <2>3. CASE ~g.dwt_ok
    <3> DEFINE x == c * e
    <3>1. x \in 0 .. Word - 1
      BY <1>3, <1>4, <2>1
    <3>2. x = c * e + 0 /\ 0 \in 0 .. c - 1 /\ x \in Int /\ e \in Int
      BY <1>3, <1>4
    <3>3. diff = x % Word
      BY <1>5, <2>3
    <3> HIDE DEF x, diff
    <3>4. diff = x
      BY <1>3, <3>1, <3>3, SmallRemainder
    <3>5. x \div c = e
      BY <1>3, <3>2, QuotientUnique
    <3>6. UsGone = e
      BY <1>1, <1>2, <2>1, UsGoneIs
    <3> QED
      BY <3>4, <3>5, <3>6
  <2> QED
    BY <2>2, <2>3
<1>14. SpinsAsAsked'
  <2> HIDE DEF diff
  <2>1. (us * g.cycles_per_us)' = asked /\ g'.cycles_per_us = g.cycles_per_us
    BY <1>1, <1>9
  <2> QED
    BY <1>8, <1>9, <1>11, <1>12, <1>13, <2>1 DEF SpinsAsAsked
<1>15. DeadlinesHold'
  BY <1>9 DEF DeadlinesHold
<1> QED
  BY <1>9, <1>10, <1>14, <1>15 DEF TimeInv

(* One cycle: the clock goes on within a microsecond, to the next one, or  *)
(* from the last one to 0.                                                 *)
LEMMA ClockGoesOn ==
  ASSUME TimeTypes, clock' = (clock + 1) % ClockRange, g' = g
  PROVE  LET now == hal_time_us_now
             q   == clock % Rate
         IN /\ clock' \in 0 .. ClockRange - 1
            /\ \/ q + 1 < Rate /\ hal_time_us_now' = now /\ clock' % Rate = q + 1
               \/ /\ q + 1 = Rate /\ clock' % Rate = 0
                  /\ \/ now + 1 < Long /\ hal_time_us_now' = now + 1
                     \/ now + 1 = Long /\ hal_time_us_now' = 0
<1> DEFINE now == hal_time_us_now
           q   == clock % Rate
           c   == Rate
           L   == Long * c
<1>1. /\ c \in Nat \ {0} /\ Long \in Nat \ {0} /\ L \in Nat \ {0} /\ ClockRange = L
      /\ now \in 0 .. Long - 1 /\ q \in 0 .. c - 1 /\ clock = c * now + q /\ clock \in 0 .. L - 1
  BY TimeFacts, ClockReads
<1>2. hal_time_us_now' = clock' \div c /\ clock' = (clock + 1) % L
  BY <1>1 DEF hal_time_us_now, Rate
<1> HIDE DEF now, q, c
<1>3. L = c * Long /\ c * now \in Nat
  BY <1>1
<1> HIDE DEF L
<1>4. CASE q + 1 < c
  <2>1. c * (now + 1) <= c * Long /\ c * (now + 1) = c * now + c
    BY <1>1
  <2>2. clock + 1 \in 0 .. L - 1 /\ clock + 1 = c * now + (q + 1)
    BY <1>1, <1>3, <1>4, <2>1
  <2> DEFINE x == clock + 1
             p == q + 1
  <2>3. clock' = x
    BY <1>1, <1>2, <2>2, SmallRemainder
  <2>4. x \in 0 .. L - 1 /\ x \in Int /\ x = c * now + p /\ p \in 0 .. c - 1 /\ now \in Int
    BY <1>1, <1>4, <2>2
  <2> HIDE DEF x, p
  <2>5. x \div c = now /\ x % c = p
    BY <1>1, <2>4, QuotientUnique
  <2> QED
    BY <1>1, <1>2, <1>4, <2>3, <2>4, <2>5 DEF p, now, q, c
<1>5. CASE q + 1 = c /\ now + 1 < Long
  <2> DEFINE x == clock + 1
             n == now + 1
  <2>1. c * (n + 1) <= c * Long /\ c * (n + 1) = c * now + c + c
    BY <1>1, <1>5
  <2>2. c * n = c * now + c
    BY <1>1
  <2>3. /\ x \in 0 .. L - 1 /\ x \in Int /\ x = c * n + 0 /\ 0 \in 0 .. c - 1 /\ n \in Int
    BY <1>1, <1>3, <1>5, <2>1, <2>2
  <2> HIDE DEF x, n
  <2>4. clock' = x
    BY <1>1, <1>2, <2>3, SmallRemainder DEF x
  <2>5. x \div c = n /\ x % c = 0
    BY <1>1, <2>3, QuotientUnique
  <2> QED
    BY <1>1, <1>2, <1>5, <2>3, <2>4, <2>5 DEF n, now, q, c
<1>6. CASE q + 1 = c /\ now + 1 = Long
  <2>1. c * (now + 1) = c * now + c
    BY <1>1
  <2>2. clock + 1 = L
    BY <1>1, <1>3, <1>6, <2>1
  <2>3. L = L * 1 + 0 /\ L \in Int /\ 0 \in 0 .. L - 1
    BY <1>1
  <2>4. L % L = 0
    BY <1>1, <2>3, QuotientUnique
  <2>5. clock' = 0
    BY <1>2, <2>2, <2>4
  <2>6. 0 = c * 0 + 0 /\ 0 \in 0 .. c - 1
    BY <1>1
  <2>7. 0 \div c = 0 /\ 0 % c = 0
    BY <1>1, <2>6, QuotientUnique
  <2> QED
    BY <1>1, <1>2, <1>6, <2>5, <2>7 DEF now, q, c
<1> QED
  BY <1>1, <1>4, <1>5, <1>6 DEF q, now, c

LEMMA CycleKeepsUnderWay ==
  ASSUME TimeInv, Cycle
  PROVE  TimeInv'
<1> DEFINE now == hal_time_us_now
           q   == clock % Rate
<1>1. /\ TimeTypes /\ call # NoCall /\ ~call.returned /\ call.gap < MaxGap
      /\ clock' = (clock + 1) % ClockRange /\ g' = g
      /\ call' = [call EXCEPT !.gap = @ + 1, !.gone = IF @ < Horizon THEN @ + 1 ELSE @]
  BY DEF TimeInv, Cycle
<1>2. PICK u \in 0 .. Long - 1, r \in 0 .. Rate - 1, e \in Nat, n \in Nat, k \in Nat :
        Began(u, r, e, n, k) /\ NotYetDue(r, k)
  BY <1>1 DEF TimeInv, UnderWay
<1>3. /\ Rate \in Nat \ {0} /\ Long \in Nat \ {0} /\ MaxGap \in Nat /\ Horizon \in Nat
      /\ now \in 0 .. Long - 1 /\ q \in 0 .. Rate - 1
      /\ call.gap \in Nat /\ call.gone \in Nat /\ u \in Nat /\ r \in Nat
      /\ Rate * call.us \in Nat
  BY <1>1, TimeFacts, ClockReads DEF TimeTypes, CallType
<1>4. /\ call'.op = call.op /\ call'.us = call.us /\ call'.local = call.local
      /\ call'.gone = (IF call.gone < Horizon THEN call.gone + 1 ELSE call.gone)
      /\ call'.gap = call.gap + 1 /\ call'.returned = call.returned
  BY <1>1 DEF TimeTypes, CallType
<1>5. Rate' = Rate /\ Horizon' = Horizon /\ ClockRange' = ClockRange /\ g' = g
  BY <1>1 DEF Rate, Horizon, ClockRange
<1>6. call' \in CallType
  <2>1. call.gap + 1 \in 0 .. MaxGap
    BY <1>1, <1>3
  <2>2. (IF call.gone < Horizon THEN call.gone + 1 ELSE call.gone) \in Nat
    BY <1>3
  <2> QED
    BY <1>1, <2>1, <2>2 DEF TimeTypes, CallType
<1>7. /\ clock' \in 0 .. ClockRange - 1
      /\ \/ q + 1 < Rate /\ hal_time_us_now' = now /\ clock' % Rate = q + 1
         \/ /\ q + 1 = Rate /\ clock' % Rate = 0
            /\ \/ now + 1 < Long /\ hal_time_us_now' = now + 1
               \/ now + 1 = Long /\ hal_time_us_now' = 0
  BY <1>1, ClockGoesOn
<1>8. TimeTypes'
  <2>1. call'.op # "none"
    BY <1>1, <1>4 DEF TimeTypes
  <2> QED
    BY <1>1, <1>5, <1>6, <1>7, <2>1 DEF TimeTypes
<1>9. /\ now + Long * n = u + e /\ r + k = Rate * e + q /\ Rate * e \in Nat /\ Long * n \in Nat
      /\ call.gone = (IF k < Horizon THEN k ELSE Horizon) /\ call.gap <= k
      /\ call.local = IF call.op = "wait_until" THEN (u + call.us) % Long
                      ELSE IF g.dwt_ok THEN (Rate * u + r) % Word
                      ELSE (Rate * u) % Word
  BY <1>2, <1>3 DEF Began
<1>10. PICK d \in Nat, m \in Nat :
         /\ now' + Long * m = u + d
         /\ r + (k + 1) = Rate * d + (clock' % Rate)
  <2>1. Rate * (e + 1) = Rate * e + Rate /\ Long * (n + 1) = Long * n + Long
    BY <1>3
  <2>2. e + 1 \in Nat /\ n + 1 \in Nat
    OBVIOUS
  <2>3. q \in Int /\ Rate \in Int
    BY <1>3
  <2>4. CASE q + 1 < Rate
    <3>1. ~(q + 1 = Rate)
      BY <2>3, <2>4
    <3>2. now' = now /\ clock' % Rate = q + 1
      BY <1>7, <3>1
    <3>3. r + (k + 1) = Rate * e + (q + 1)
      BY <1>3, <1>9
    <3> QED
      BY <1>9, <3>2, <3>3
  <2>5. CASE q + 1 = Rate
    <3>1. ~(q + 1 < Rate)
      BY <2>3, <2>5
    <3>2. /\ clock' % Rate = 0
          /\ now' = now + 1 \/ (now + 1 = Long /\ now' = 0)
      BY <1>7, <3>1
    <3>3. r + (k + 1) = Rate * (e + 1) + 0
      BY <1>3, <1>9, <2>1, <2>5
    <3>4. CASE now' = now + 1
      <4>1. now' + Long * n = u + (e + 1)
        BY <1>3, <1>9, <3>4
      <4> QED
        BY <2>2, <3>2, <3>3, <4>1
    <3>5. CASE now + 1 = Long /\ now' = 0
      <4>1. now' + Long * (n + 1) = u + (e + 1)
        BY <1>3, <1>9, <2>1, <3>5
      <4> QED
        BY <2>2, <3>2, <3>3, <4>1
    <3> QED
      BY <3>2, <3>4, <3>5
  <2> QED
    BY <1>3, <2>4, <2>5
<1>11. Began(u, r, d, m, k + 1)'
  <2>1. call'.gone = IF k + 1 < Horizon THEN k + 1 ELSE Horizon
    BY <1>3, <1>4, <1>9
  <2>2. call'.gap <= k + 1
    BY <1>3, <1>4, <1>9
  <2> QED
    BY <1>4, <1>5, <1>9, <1>10, <2>1, <2>2 DEF Began
<1>12. NotYetDue(r, k + 1)'
  <2>1. k + 1 = call.gap + 1 <=> k = call.gap
    BY <1>3
  <2>2. \A grain \in Nat : grain + (k + 1) - (call.gap + 1) = grain + k - call.gap
    BY <1>3
  <2> QED
    BY <1>2, <1>3, <1>4, <1>5, <2>1, <2>2 DEF NotYetDue
<1>13. UnderWay'
  <2>1. r \in 0 .. Rate' - 1 /\ d \in Nat /\ m \in Nat /\ k + 1 \in Nat
    BY <1>5
  <2> QED
    BY <1>11, <1>12, <2>1 DEF UnderWay
<1>14. ~call'.returned
  BY <1>1, <1>4
<1> QED
  BY <1>8, <1>13, <1>14 DEF TimeInv

LEMMA NextTime == TimeInv /\ [TimeNext]_timeVars => TimeInv'
<1> SUFFICES ASSUME TimeInv, [TimeNext]_timeVars PROVE TimeInv'
  OBVIOUS
<1>1. CASE WaitUntil \/ SpinCycles
  BY <1>1, BeginUnderWay
<1>2. CASE TestAgain
  BY <1>2, TestKeepsUnderWay
<1>3. CASE Return
  <2>1. call.op \in {"wait_until", "spin_cycles"}
    BY <1>3 DEF Return, TimeInv, TimeTypes, CallType
  <2> QED
    BY <1>3, <2>1, WaitReturns, SpinReturns
<1>4. CASE Cycle
  BY <1>4, CycleKeepsUnderWay
<1>5. CASE Elsewhere
  <2>1. NoCall \in CallType /\ NoCall.op = "none"
    BY TimeFacts DEF TimeInv, NoCall, CallType
  <2>2. clock' \in 0 .. ClockRange' - 1 /\ g' = g /\ call' = NoCall
    BY <1>5 DEF Elsewhere, ClockRange
  <2> QED
    BY <2>1, <2>2 DEF TimeInv, TimeTypes
<1>6. CASE UNCHANGED timeVars
  <2>1. clock' = clock /\ g' = g /\ call' = call
    BY <1>6 DEF timeVars
  <2>2. TimeTypes'
    BY <2>1 DEF TimeInv, TimeTypes, ClockRange
  <2>3. UnderWay' <=> UnderWay
    BY <2>1 DEF UnderWay, Began, NotYetDue, Rate, Horizon, hal_time_us_now
  <2>4. DeadlinesHold' <=> DeadlinesHold
    BY <2>1 DEF DeadlinesHold, UsGone, hal_time_us_now, hal_time_remaining_us
  <2>5. SpinsAsAsked' <=> SpinsAsAsked
    BY <2>1 DEF SpinsAsAsked, UsGone, Grain
  <2> QED
    BY <2>1, <2>2, <2>3, <2>4, <2>5 DEF TimeInv
<1> QED
  BY <1>1, <1>2, <1>3, <1>4, <1>5, <1>6 DEF TimeNext

LEMMA TimeInvHolds == TimeInv => DeadlinesHold /\ SpinsAsAsked
<1> SUFFICES ASSUME TimeInv PROVE DeadlinesHold /\ SpinsAsAsked
  OBVIOUS
<1>1. CASE call = NoCall
  BY <1>1 DEF NoCall, DeadlinesHold, SpinsAsAsked
<1>2. CASE call # NoCall /\ ~call.returned
  <2>1. call.op = "wait_until" => DeadlinesHold
    BY <1>2, WaitHolds DEF TimeInv
  <2>2. call.op = "spin_cycles" => SpinsAsAsked
    BY <1>2, SpinHolds DEF TimeInv
  <2>3. call.op # "wait_until" => DeadlinesHold
    BY DEF DeadlinesHold
  <2>4. call.op # "spin_cycles" => SpinsAsAsked
    BY DEF SpinsAsAsked
  <2> QED
    BY <2>1, <2>2, <2>3, <2>4
<1>3. CASE call # NoCall /\ call.returned
  BY <1>3 DEF TimeInv
<1> QED
  BY <1>1, <1>2, <1>3

(* Whatever the widths, the clocks, the wait and the place where the clock *)
(* wraps: hal_time_wait_until is never short and late by one gap between   *)
(* two tests at most, and what remains of a wait counts down to 0.         *)
THEOREM DeadlinesAreKept == TimeSpec => []DeadlinesHold
  BY InitTime, NextTime, TimeInvHolds, PTL DEF TimeSpec

(* With the cycle counter or the one derived from the microseconds, and    *)
(* wherever they wrap: hal_time_spin_cycles is not short by a step of the  *)
(* counter, ends with the first test due unless the counter can run past   *)
(* its range between two tests, and is measured to the microsecond.        *)
THEOREM SpinsAreKept == TimeSpec => []SpinsAsAsked
  BY InitTime, NextTime, TimeInvHolds, PTL DEF TimeSpec
=============================================================================
