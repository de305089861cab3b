--------------------------- MODULE MCAerFirmware ---------------------------
(***************************************************************************)
(* AerFirmware for TLC: two groups of two wires, hence payloads 0..3 with  *)
(* one index bit and one pad bit, 3 being the TAIL.                        *)
(***************************************************************************)
EXTENDS AerFirmware

MCWords == {Encode(0), Encode(1), Encode(3)}
=============================================================================
