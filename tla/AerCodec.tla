------------------------------ MODULE AerCodec ------------------------------
(***************************************************************************)
(* The 1-of-N codec of common/src/aer_codec.c over sets of asserted wires. *)
(* A wire is a pair <<group, symbol>>; a raw word is a set of wires, those *)
(* of groups past the last one being the bits above AER_DATA_WIDTH.        *)
(* CodecBits shows that the code's masks and shifts compute this.          *)
(***************************************************************************)
EXTENDS AerCfg

CONSTANTS
  NumGroups,   \* AER_NUM_GROUPS
  GroupWidth   \* AER_GROUP_WIDTH: 4 wires, hence 2-bit symbols

ASSUME CodecAssumption ==
  /\ NumGroups \in Nat \ {0}
  /\ GroupWidth \in Nat \ {0, 1}

Groups  == 0 .. NumGroups - 1
Symbols == 0 .. GroupWidth - 1
BusWires == Groups \X Symbols

(* 1 << (g * AER_SYMBOL_BITS): what a symbol of group g counts in a payload. *)
Place[g \in Nat] == IF g = 0 THEN 1 ELSE GroupWidth * Place[g - 1]

PayloadSpan == Place[NumGroups]   \* 1 << AER_PAYLOAD_BITS
TailPayload == PayloadSpan - 1    \* AER_TAIL_PAYLOAD

Hot(raw, g)    == {s \in Symbols : <<g, s>> \in raw}
OneHot(raw, g) == \E s \in Symbols : Hot(raw, g) = {s}
Valid(raw)     == \A g \in Groups : OneHot(raw, g)

(* The words of the code: one wire of each group. *)
CodeWords == {raw \in SUBSET BusWires : Valid(raw)}

(* payload |= sym << (g * AER_SYMBOL_BITS), group by group, over the groups *)
(* that are one-hot.                                                       *)
SymbolOf(raw, g) == CHOOSE s \in Symbols : Hot(raw, g) = {s}
Share(raw, g)    == IF OneHot(raw, g) THEN SymbolOf(raw, g) * Place[g] ELSE 0

PayloadOf(raw) ==
  LET payload[n \in 0 .. NumGroups] ==
        IF n = 0 THEN 0 ELSE payload[n - 1] + Share(raw, n - 1)
  IN payload[NumGroups]

(* aer_decode_word *)
ErrFlags(raw) ==
     {e \in {"OUT_OF_RANGE"} : raw \ BusWires # {}}
  \cup
     IF raw \cap BusWires = {} THEN {"NEUTRAL"}
     ELSE {e \in {"ZERO_HOT"}  : \E g \in Groups : Hot(raw, g) = {}}
     \cup {e \in {"MULTI_HOT"} : \E g \in Groups : Hot(raw, g) # {} /\ ~OneHot(raw, g)}
     \cup {e \in {"PAD_BIT_SET"} : /\ Valid(raw)
                                   /\ PayloadOf(raw) # TailPayload
                                   /\ PayloadOf(raw) >= IndexSpan}

Decode(raw) ==
  [ ok        |-> Valid(raw),
    payload   |-> PayloadOf(raw),
    is_tail   |-> Valid(raw) /\ PayloadOf(raw) = TailPayload,
    err_flags |-> ErrFlags(raw) ]

(* aer_encode_payload, for a payload of AER_PAYLOAD_BITS *)
Encode(payload) == {<<g, (payload \div Place[g]) % GroupWidth>> : g \in Groups}
=============================================================================
