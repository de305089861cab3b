----------------------------- MODULE CodecBits -----------------------------
(***************************************************************************)
(* common/src/aer_codec.c as the C computes it, with masks, shifts and the *)
(* SWAR bit count, beside AerCodec over sets of wires.  The bus moves one  *)
(* wire at a time through every raw value of RawBits bits, so that each    *)
(* value is compared and each pair of neighbours is a step.                *)
(***************************************************************************)
EXTENDS Naturals, Bitwise, FiniteSetsExt

CONSTANTS
  AER_INDEX_BITS,
  AER_PAYLOAD_BITS,
  RawBits            \* wires of the bus, those above AER_DATA_WIDTH included

AER_SYMBOL_BITS == 2
AER_GROUP_WIDTH == 4
AER_NUM_GROUPS  == AER_PAYLOAD_BITS \div AER_SYMBOL_BITS
AER_DATA_WIDTH  == AER_NUM_GROUPS * AER_GROUP_WIDTH
AER_RAW_MASK    == 2 ^ AER_DATA_WIDTH - 1
AER_TAIL_PAYLOAD == 2 ^ AER_PAYLOAD_BITS - 1

ASSUME BitsAssumption ==
  /\ AER_PAYLOAD_BITS % AER_SYMBOL_BITS = 0   \* aer_types.h
  /\ AER_DATA_WIDTH <= 32                     \* aer_types.h
  /\ AER_PAYLOAD_BITS <= 8                    \* payload is a uint8_t
  /\ AER_INDEX_BITS <= AER_PAYLOAD_BITS

VARIABLE raw  \* the raw word, DATA packed into its low bits

GroupIds == 0 .. AER_NUM_GROUPS - 1
Code == INSTANCE AerCodec WITH NumGroups <- AER_NUM_GROUPS,
                               GroupWidth <- AER_GROUP_WIDTH,
                               IndexSpan <- 2 ^ AER_INDEX_BITS

-----------------------------------------------------------------------------
(* The definitions marked "mutant" are plausible bugs in the definition    *)
(* that follows them; nothing else uses them.                              *)

popcount4_half(x) ==                                             \* mutant
  LET y == x - (shiftR(x, 1) & 5)
  IN y & 3
(* Pairs of bits are counted in place, then the two counts are added. *)
popcount4(x) ==
  LET y == x - (shiftR(x, 1) & 5)
  IN (y & 3) + (shiftR(y, 2) & 3)

ctz4_swapped(x) == IF x & 1 # 0 THEN 0                           \* mutant
                   ELSE IF x & 2 # 0 THEN 2 ELSE IF x & 4 # 0 THEN 1 ELSE 3
ctz4(x) == IF x & 1 # 0 THEN 0
           ELSE IF x & 2 # 0 THEN 1 ELSE IF x & 4 # 0 THEN 2 ELSE 3

nib(masked, g) == shiftR(masked, g * AER_GROUP_WIDTH) & 15

nib_error(n) == IF n = 0 THEN "ZERO_HOT"
                ELSE IF popcount4(n) # 1 THEN "MULTI_HOT" ELSE "NONE"

(* aer_decode_word *)
aer_decode_word(r) ==
  LET masked == r & AER_RAW_MASK
      range  == IF r # masked THEN {"OUT_OF_RANGE"} ELSE {}
      errors == {nib_error(nib(masked, g)) : g \in GroupIds} \ {"NONE"}
      sym(g) == ctz4(nib(masked, g)) & 3
      coded  == {g \in GroupIds : nib_error(nib(masked, g)) = "NONE"}
      payload == FoldSet(LAMBDA a, b : a | b, 0,
                         {sym(g) * 2 ^ (g * AER_SYMBOL_BITS) : g \in coded})
      pad_mask == (2 ^ AER_PAYLOAD_BITS - 1) - (2 ^ AER_INDEX_BITS - 1)
      is_tail  == errors = {} /\ payload = AER_TAIL_PAYLOAD
  IN IF masked = 0
     THEN [ok |-> FALSE, payload |-> 0, is_tail |-> FALSE,
           err_flags |-> range \cup {"NEUTRAL"}]
     ELSE [ok |-> errors = {}, payload |-> payload, is_tail |-> is_tail,
           err_flags |-> range \cup errors
             \cup IF errors = {} /\ ~is_tail /\ payload & pad_mask # 0
                  THEN {"PAD_BIT_SET"} ELSE {}]

(* aer_encode_payload: whether it succeeds, and *out_raw *)
aer_encode_payload(payload) ==
  IF payload > 2 ^ AER_PAYLOAD_BITS - 1
  THEN [ok |-> FALSE, raw |-> 0]
  ELSE LET sym(g) == shiftR(payload, g * AER_SYMBOL_BITS) & 3
           word   == FoldSet(LAMBDA a, b : a | b, 0,
                             {2 ^ sym(g) * 2 ^ (g * AER_GROUP_WIDTH) : g \in GroupIds})
       IN [ok |-> TRUE, raw |-> word & AER_RAW_MASK]

-----------------------------------------------------------------------------
Bit(r, k)    == (r \div 2 ^ k) % 2
Toggle(r, k) == IF Bit(r, k) = 1 THEN r - 2 ^ k ELSE r + 2 ^ k

CodecInit == raw = 0
CodecNext == \E k \in 0 .. RawBits - 1 : raw' = Toggle(raw, k)
CodecSpec == CodecInit /\ [][CodecNext]_raw

(* The wires that are high in a raw word, and back. *)
WiresOf(r) == {<<k \div AER_GROUP_WIDTH, k % AER_GROUP_WIDTH>> :
                 k \in {j \in 0 .. RawBits - 1 : Bit(r, j) = 1}}
Packed(wires) == MapThenSumSet(LAMBDA w : 2 ^ (w[1] * AER_GROUP_WIDTH + w[2]), wires)

-----------------------------------------------------------------------------
(* The masks and shifts of aer_decode_word compute the wire-set decoder:   *)
(* the same verdict, payload, tail and error flags for every raw word.     *)
BitsMatchSets == aer_decode_word(raw) = Code!Decode(WiresOf(raw))

(* Decoding and encoding are inverse: a valid word encodes back to itself, *)
(* every payload that fits decodes back, and one that does not is refused. *)
RoundTrip ==
  LET decoded == aer_decode_word(raw)
      payload == raw % 256
      encoded == aer_encode_payload(payload)
  IN /\ decoded.ok => aer_encode_payload(decoded.payload).raw = raw & AER_RAW_MASK
     /\ encoded.ok = (payload < 2 ^ AER_PAYLOAD_BITS)
     /\ encoded.ok => /\ aer_decode_word(encoded.raw).ok
                      /\ aer_decode_word(encoded.raw).payload = payload
                      /\ encoded.raw = Packed(Code!Encode(payload))

=============================================================================
