------------------------------- MODULE AerCfg -------------------------------
(***************************************************************************)
(* The index width of common/include/aer_cfg.h, which the codec (for its   *)
(* pad-bit warning) and the burst assembler (for its mask) share.          *)
(***************************************************************************)
EXTENDS Integers

CONSTANT IndexSpan  \* 1 << AER_INDEX_BITS

ASSUME CfgAssumption == IndexSpan \in Nat \ {0}
=============================================================================
