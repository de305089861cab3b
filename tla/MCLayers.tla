------------------------------ MODULE MCLayers ------------------------------
(***************************************************************************)
(* For TLC: the codec, the GPIO layer, the time layer and the service loop *)
(* of the receiver.  As modelled they share no state, so that one of them  *)
(* moves while the other three are in their first state.                   *)
(***************************************************************************)
EXTENDS CodecBits, HalGpio, HalTime, RxService

(* Four DATA wires below ACK, as on the pins of main(); then across the    *)
(* two registers with an active-low ACK.                                   *)
MainCfg  == [data_base |-> 2, data_width |-> 4, ack_pin |-> 6,
             ack_active_high |-> TRUE, ack_deasserted_level |-> FALSE]
SplitCfg == [data_base |-> 30, data_width |-> 4, ack_pin |-> 6,
             ack_active_high |-> FALSE, ack_deasserted_level |-> TRUE]
MCGpioCfgs  == {MainCfg, SplitCfg}
MCDataWords == {{0, 2}, {1, 2, 3}}

MCRates == CHOOSE rates \in [cycles_per_us : {CyclesPerUs(hz) : hz \in ClockHz},
                             dwt_ok : BOOLEAN] : TRUE

CONSTANT g1a
MCWords == {{g1a}}
MCCalls == {<<1, 0>>, <<2, 1>>}

CodecRests   == raw = 0
GpioRests    == g_cfg = MainCfg /\ hal_pc = "off" /\ sensor.pc = "idle"
TimeRests    == g = MCRates /\ clock = 0 /\ call = NoCall
ServiceRests == ~svc.running /\ tx_pc = "idle" /\ status = "OK" /\ rb = <<>>
                /\ stats = ZeroStats /\ svc = NoService

GpioMoves    == CodecRests /\ TimeRests /\ ServiceRests
ServiceMoves == CodecRests /\ GpioRests /\ TimeRests

MCInit == CodecInit /\ GpioInit /\ TimeInit /\ ServiceInit /\ (GpioRests \/ TimeRests)

MCNext ==
  \/ /\ GpioRests /\ TimeRests /\ ServiceRests
     /\ CodecNext /\ UNCHANGED <<gpioVars, timeVars, sVars>>
  \/ /\ GpioMoves
     /\ GpioNext /\ UNCHANGED <<raw, timeVars, sVars>>
  \/ /\ CodecRests /\ GpioRests /\ ServiceRests
     /\ TimeNext /\ UNCHANGED <<raw, gpioVars, sVars>>
  \/ /\ ServiceMoves
     /\ ServiceNext /\ UNCHANGED <<raw, gpioVars, timeVars>>

(* The fairness of the GPIO layer and of the service loop, each while it   *)
(* is the one that may move: a layer at rest must not be asked to move,    *)
(* or no behaviour of another one would be fair.                           *)
MCSpec ==
  /\ MCInit /\ [][MCNext]_<<raw, gpioVars, timeVars, sVars>>
  /\ WF_gpioVars(GpioMoves /\ Caller) /\ WF_gpioVars(GpioMoves /\ SensorContinues)
  /\ WF_sVars(ServiceMoves /\ Service) /\ WF_sVars(ServiceMoves /\ TimePasses)
=============================================================================
