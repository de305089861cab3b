------------------------------ MODULE HalGpio ------------------------------
(***************************************************************************)
(* pico_aer_rx/hal/hal_gpio.c on the pins of an RP2350: DATA anywhere in   *)
(* GPIO 0-63, ACK of either polarity.  The levels of the pins are read     *)
(* from two registers, 32 pins each, one after the other.                  *)
(*                                                                         *)
(* The caller is the handshake of aer_rx_poll_step without its timeouts;   *)
(* the sensor at the pins follows the four phases.                         *)
(***************************************************************************)
EXTENDS Naturals

CONSTANTS
  GpioCfgs,   \* bound: values of hal_gpio_cfg_t
  DataWords   \* bound: the words the sensor sends, as sets of DATA wires

ASSUME GpioAssumption ==
  /\ GpioCfgs \subseteq [data_base : 0 .. 63, data_width : 1 .. 32, ack_pin : 0 .. 63,
                         ack_active_high : BOOLEAN, ack_deasserted_level : BOOLEAN]
  /\ \A c \in GpioCfgs :
       /\ c.data_base + c.data_width <= 64
       /\ c.ack_pin \notin c.data_base .. c.data_base + c.data_width - 1
       /\ c.ack_deasserted_level # c.ack_active_high   \* the code does not check it
       /\ \A w \in DataWords : w # {} /\ w \subseteq 0 .. c.data_width - 1

VARIABLES
  g_cfg,   \* the configuration given to hal_gpio_init
  pins,    \* the pins whose level is high, and those that are outputs
  hal_pc,  \* where the caller is
  lo,      \* local of hal_gpio_read_all: what the first register held
  word,    \* local of the caller: the word it latched
  sensor,  \* the sensor's phase and its word
  early    \* history: DATA lies in both registers, and a word was latched
           \* before all its wires were up
gpioVars == <<g_cfg, pins, hal_pc, lo, word, sensor, early>>

LoPins == 0 .. 31
HiPins == 32 .. 63

MaskOneWide(c) == c.data_base .. c.data_base + c.data_width      \* mutant
DataMask(c) == c.data_base .. c.data_base + c.data_width - 1

(* The pins of some DATA wires. *)
PinsOf(wires) == {g_cfg.data_base + i : i \in wires}
(* (all & g_data_mask64) >> g_data_shift *)
Packed32(all) == {p - g_cfg.data_base : p \in all \cap DataMask(g_cfg)}

WritePin(pin, level) ==
  pins' = [pins EXCEPT !.high = IF level THEN @ \cup {pin} ELSE @ \ {pin}]

LevelIgnoresPolarity(asserted) == asserted                       \* mutant
ack_level_for_asserted(asserted) == IF g_cfg.ack_active_high THEN asserted ELSE ~asserted

(* hal_gpio_ack_is_asserted *)
AckIsAsserted == (g_cfg.ack_pin \in pins.high) = g_cfg.ack_active_high

-----------------------------------------------------------------------------
(* hal_gpio_init, in the order in which the pins change.  The definitions  *)
(* marked "mutant" are plausible bugs in the definition that follows them; *)
(* nothing else uses them.                                                 *)

GpioInit ==
  /\ g_cfg \in GpioCfgs
  /\ pins = [high |-> {}, out |-> {}]
  /\ hal_pc = "off"
  /\ lo = {} /\ word = {}
  /\ sensor = [pc |-> "idle", word |-> {}]
  /\ early = FALSE

(* DATA are inputs; gpio_init takes ACK low while it is not yet an output. *)
InitPins ==
  /\ hal_pc = "off"
  /\ pins' = [high |-> pins.high \ {g_cfg.ack_pin},
              out |-> pins.out \ (DataMask(g_cfg) \cup {g_cfg.ack_pin})]
  /\ hal_pc' = "ack_out"
  /\ UNCHANGED <<g_cfg, lo, word, sensor, early>>

InitAckOut ==
  /\ hal_pc = "ack_out"
  /\ pins' = [pins EXCEPT !.out = @ \cup {g_cfg.ack_pin}]
  /\ hal_pc' = "ack_level"
  /\ UNCHANGED <<g_cfg, lo, word, sensor, early>>

InitAckLevel ==
  /\ hal_pc = "ack_level"
  /\ WritePin(g_cfg.ack_pin, g_cfg.ack_deasserted_level)
  /\ hal_pc' = "rest"
  /\ UNCHANGED <<g_cfg, lo, word, sensor, early>>

(* hal_gpio_idle, between handshakes *)
GpioIdle ==
  /\ hal_pc = "rest"
  /\ pins' = [high |-> IF g_cfg.ack_deasserted_level THEN pins.high \cup {g_cfg.ack_pin}
                       ELSE pins.high \ {g_cfg.ack_pin},
              out |-> pins.out \ DataMask(g_cfg)]
  /\ UNCHANGED <<g_cfg, hal_pc, lo, word, sensor, early>>

-----------------------------------------------------------------------------
(* hal_gpio_ack_write; by gpio_put. *)
AckWrite(from, asserted, to) ==
  /\ hal_pc = from
  /\ WritePin(g_cfg.ack_pin, ack_level_for_asserted(asserted))
  /\ hal_pc' = to
  /\ UNCHANGED <<g_cfg, lo, word, sensor, early>>

Step    == AckWrite("rest", FALSE, "valid_lo")
Assert  == AckWrite("ack", TRUE, "neutral_lo")
Release == AckWrite("release", FALSE, "rest")

(* hal_gpio_read_all: gpio_in, then gpio_hi_in. *)
ReadLo ==
  /\ hal_pc \in {"valid_lo", "neutral_lo"}
  /\ lo' = pins.high \cap LoPins
  /\ hal_pc' = IF hal_pc = "valid_lo" THEN "valid_hi" ELSE "neutral_hi"
  /\ UNCHANGED <<g_cfg, pins, word, sensor, early>>

(* What the step does with a read: it takes a word, or sees neutral, or    *)
(* reads again.                                                            *)
InBoth == \A R \in {LoPins, HiPins} : DataMask(g_cfg) \cap R # {}
Use(raw32) ==
  \/ /\ hal_pc = "valid_hi" /\ raw32 # {}
     /\ word' = raw32
     /\ hal_pc' = "ack"
     /\ early' = (early \/ (InBoth /\ raw32 # sensor.word))
  \/ /\ \/ hal_pc = "valid_hi" /\ raw32 = {} /\ hal_pc' = "valid_lo"
        \/ hal_pc = "neutral_hi" /\ raw32 # {} /\ hal_pc' = "neutral_lo"
        \/ hal_pc = "neutral_hi" /\ raw32 = {} /\ hal_pc' = "release"
     /\ UNCHANGED <<word, early>>

(* The word that hal_gpio_read_data_raw returns. *)
ReadHi ==
  /\ hal_pc \in {"valid_hi", "neutral_hi"}
  /\ Use(Packed32(lo \cup (pins.high \cap HiPins)))
  /\ lo' = {}
  /\ UNCHANGED <<g_cfg, pins, sensor>>

Handshake == Step \/ ReadLo \/ ReadHi \/ Assert \/ Release
InitCall  == InitPins \/ InitAckOut \/ InitAckLevel
Caller    == InitCall \/ Handshake

-----------------------------------------------------------------------------
(* The sensor, and what it sees of ACK. *)
SeesAck == g_cfg.ack_pin \in pins.out /\ AckIsAsserted
Data    == {i \in 0 .. g_cfg.data_width - 1 : g_cfg.data_base + i \in pins.high}
Drives(wires) ==
  /\ pins' = [pins EXCEPT !.high = (@ \ PinsOf(0 .. g_cfg.data_width - 1)) \cup PinsOf(wires)]
  /\ UNCHANGED <<g_cfg, hal_pc, lo, word, early>>

(* gpio_init asserts an active-low ACK for a moment: a sensor with such an *)
(* ACK is taken to be held in reset until hal_gpio_init is over.           *)
Initialising == hal_pc \in {"off", "ack_out", "ack_level"}
SensorStarts ==
  /\ sensor.pc = "idle"
  /\ g_cfg.ack_active_high \/ ~Initialising
  /\ \E w \in DataWords : sensor' = [pc |-> "drive", word |-> w]
  /\ UNCHANGED <<g_cfg, pins, hal_pc, lo, word, early>>

SensorRaises ==
  /\ sensor.pc = "drive"
  /\ \E i \in sensor.word \ Data : Drives(Data \cup {i})
  /\ UNCHANGED sensor

SensorLowers ==
  /\ sensor.pc = "clear"
  /\ \E i \in Data : Drives(Data \ {i})
  /\ UNCHANGED sensor

SensorTurns ==
  /\ \/ sensor.pc = "drive" /\ Data = sensor.word /\ SeesAck
        /\ sensor' = [sensor EXCEPT !.pc = "clear"]
     \/ sensor.pc = "clear" /\ Data = {} /\ ~SeesAck
        /\ sensor' = [sensor EXCEPT !.pc = "idle"]
  /\ UNCHANGED <<g_cfg, pins, hal_pc, lo, word, early>>

SensorContinues == SensorRaises \/ SensorLowers \/ SensorTurns

GpioNext == Caller \/ GpioIdle \/ SensorStarts \/ SensorContinues

GpioFairness == WF_gpioVars(Caller) /\ WF_gpioVars(SensorContinues)
GpioSpec == GpioInit /\ [][GpioNext]_gpioVars /\ GpioFairness

-----------------------------------------------------------------------------
(* "Read all GPIO inputs as a single snapshot", hal_gpio.h: it is not one  *)
(* when DATA lies in both registers, and the word read may never have been *)
(* on the bus.  The sensor is shown the four phases all the same, whatever *)
(* the polarity, from power up on: ACK rises only for a word that is part  *)
(* of the one being sent and falls only on neutral DATA, and neither       *)
(* hal_gpio_init nor hal_gpio_idle makes an edge of it.  This holds as     *)
(* long as the words latched on such a bus were complete: a read that is   *)
(* torn between the last wires to rise and the first to fall sees a        *)
(* neutral that never was.                                                 *)
AckEdgesFollowData ==
  [][ (g_cfg.ack_active_high \/ ~Initialising) /\ ~early =>
        /\ ~SeesAck /\ SeesAck' =>
             hal_pc = "ack" /\ Data # {} /\ word # {} /\ word \subseteq sensor.word
        /\ SeesAck /\ ~SeesAck' => hal_pc = "release" /\ Data = {} ]_gpioVars

(* Whatever pins DATA and ACK are on, each word is handshaken to the end.  *)
PinsComplete == sensor.pc = "drive" ~> sensor.pc = "idle"
=============================================================================
