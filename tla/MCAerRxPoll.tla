---------------------------- MODULE MCAerRxPoll ----------------------------
(***************************************************************************)
(* AerRxPoll for TLC.  Two groups of two wires stand for the three groups  *)
(* of four: {g1a, g2a} is a word, {g1a} is not.                            *)
(***************************************************************************)
EXTENDS AerRxPoll

CONSTANTS g1a, g1b, g2a, g2b

MCWords == {{g1a, g2a}, {g1a, g2b}, {g1b, g2a}}
=============================================================================
