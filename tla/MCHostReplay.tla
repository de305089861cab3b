---------------------------- MODULE MCHostReplay ----------------------------
(***************************************************************************)
(* HostReplay for TLC: two groups of two wires, hence payloads 0..3 with   *)
(* one index bit and one pad bit, 3 being the TAIL.                        *)
(***************************************************************************)
EXTENDS HostReplay

MCWords   == {Encode(0), Encode(1), Encode(3)}
MCTimings == {<<0, 0, 0>>, <<1, 0, 1>>, <<1, 2, 1>>}   \* the second is the default

(* A mask that garbles a word, one that clears it, one that makes another  *)
(* word of it and one of a bit above the bus; a window of several instants. *)
MCMasks == {{<<0, 0>>}, Encode(0), {<<0, 0>>, <<0, 1>>}, {<<NumGroups, 0>>}}
MCFaults ==
  {NoFault, [kind |-> "abort", from |-> 3]}
  \cup {[kind |-> "drop_neutral", enabled |-> b] : b \in BOOLEAN}
  \cup {[kind |-> "glitch", mask |-> m, from |-> 1, to |-> 3] : m \in MCMasks}
  \cup {[kind |-> "stuck_ack", from |-> 3, level |-> b] : b \in BOOLEAN}
  \cup {[kind |-> "stuck_ack", from |-> 0, level |-> TRUE]}

MCCfgs ==
  {CfgDefault, [CfgDefault EXCEPT !.ignore_invalid_words = FALSE,
                                  !.count_neutral_as_error = TRUE]}

MCLines == {[dt |-> 1, data |-> Neutral, ack |-> FALSE],
            [dt |-> 1, data |-> Neutral, ack |-> TRUE],
            [dt |-> 0, data |-> Encode(0), ack |-> TRUE],
            [dt |-> 0, data |-> Encode(3), ack |-> FALSE]}
=============================================================================
