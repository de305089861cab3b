------------------------------ MODULE AerBurst ------------------------------
(***************************************************************************)
(* The burst assembler of common/src/aer_burst.c: decoded words go in, one *)
(* at a time, and at each TAIL the buffered (row, col) events come out.    *)
(*                                                                         *)
(* A decoded word is a record with the fields of aer_codec_result_t that   *)
(* the assembler reads: ok, is_tail and payload.  "emitted" is what the    *)
(* latest call handed to the event callback, in the order of the calls.    *)
(***************************************************************************)
EXTENDS AerCfg, Sequences

CONSTANTS
  Rows,       \* AER_ROWS
  Cols,       \* AER_COLS, also the capacity of cols[]
  CounterMod  \* the range of the uint32_t counters (2^32 in the code)

ASSUME BurstAssumption ==
  /\ Rows \in Nat \ {0}
  /\ Cols \in Nat \ {0}
  /\ CounterMod \in Nat \ {0}

VARIABLES
  burst,   \* aer_burst_t
  emitted  \* sequence of <<row, col>>: callback calls of the latest call

ExpectRow       == "EXPECT_ROW"
ExpectColOrTail == "EXPECT_COL_OR_TAIL"

Unwritten == -1   \* a slot of cols[] that nothing was stored in yet
Slots     == 0 .. Cols - 1
Indices   == 0 .. IndexSpan - 1
BurstErrs == {"TAIL_WITHOUT_ROW", "ROW_OOR", "COL_OOR", "COL_OVERFLOW"}

BurstType ==
  [ state            : {ExpectRow, ExpectColOrTail},
    row              : Indices,
    cols             : [Slots -> Indices \cup {Unwritten}],
    col_count        : 0 .. Cols,
    err_flags        : SUBSET BurstErrs,
    bursts_completed : 0 .. CounterMod - 1,
    events_emitted   : 0 .. CounterMod - 1 ]

(* aer_payload_to_index: the pad bits are masked off. *)
Index(payload) == payload % IndexSpan

(* cols[] is not touched by aer_burst_init. *)
BurstInit ==
  /\ burst = [ state |-> ExpectRow, row |-> 0,
               cols |-> [i \in Slots |-> Unwritten], col_count |-> 0,
               err_flags |-> {}, bursts_completed |-> 0, events_emitted |-> 0 ]
  /\ emitted = <<>>

(* aer_burst_reset(b, clear_counters) *)
ResetKeepsColumns(clear) ==                                      \* mutant
  /\ burst' = [burst EXCEPT
                 !.state = ExpectRow, !.row = 0, !.err_flags = {},
                 !.bursts_completed = IF clear THEN 0 ELSE @,
                 !.events_emitted   = IF clear THEN 0 ELSE @]
  /\ emitted' = <<>>
BurstReset(clear) ==
  /\ burst' = [burst EXCEPT
                 !.state = ExpectRow, !.row = 0, !.col_count = 0, !.err_flags = {},
                 !.bursts_completed = IF clear THEN 0 ELSE @,
                 !.events_emitted   = IF clear THEN 0 ELSE @]
  /\ emitted' = <<>>

-----------------------------------------------------------------------------
(* aer_burst_feed, one action for each path through the function.  The     *)
(* definitions marked "mutant" are plausible bugs in the definition that   *)
(* follows them; nothing else uses them.                                   *)

FeedNotOk(word) ==
  /\ ~word.ok
  /\ emitted' = <<>>
  /\ UNCHANGED burst

FeedTailOpensBurst(word) ==                                      \* mutant
  /\ word.ok /\ word.is_tail
  /\ burst.state = ExpectRow
  /\ burst' = [burst EXCEPT !.state = ExpectColOrTail,
                            !.err_flags = @ \cup {"TAIL_WITHOUT_ROW"}]
  /\ emitted' = <<>>
FeedTailWithoutRow(word) ==
  /\ word.ok /\ word.is_tail
  /\ burst.state = ExpectRow
  /\ burst' = [burst EXCEPT !.err_flags = @ \cup {"TAIL_WITHOUT_ROW"}]
  /\ emitted' = <<>>

(* The events aer_emit_and_clear hands to the callback, in order. *)
EventsFromOne == [i \in 1 .. burst.col_count |-> <<burst.row, burst.cols[i % Cols]>>]  \* mutant
BufferedEvents == [i \in 1 .. burst.col_count |-> <<burst.row, burst.cols[i - 1]>>]

FeedTailForgetsFlags(word) ==                                    \* mutant
  /\ word.ok /\ word.is_tail
  /\ burst.state # ExpectRow
  /\ emitted' = BufferedEvents
  /\ burst' = [burst EXCEPT
                 !.state = ExpectRow,
                 !.err_flags        = {},
                 !.events_emitted   = (@ + burst.col_count) % CounterMod,
                 !.col_count        = 0,
                 !.bursts_completed = (@ + 1) % CounterMod]
FeedTailCountsLate(word) ==                                      \* mutant
  /\ word.ok /\ word.is_tail
  /\ burst.state # ExpectRow
  /\ emitted' = BufferedEvents
  /\ burst' = [burst EXCEPT
                 !.state = ExpectRow,
                 !.events_emitted   = @ % CounterMod,
                 !.col_count        = 0,
                 !.bursts_completed = (@ + 1) % CounterMod]
FeedTail(word) ==
  /\ word.ok /\ word.is_tail
  /\ burst.state # ExpectRow
  /\ emitted' = BufferedEvents
  /\ burst' = [burst EXCEPT
                 !.state = ExpectRow,
                 !.events_emitted   = (@ + burst.col_count) % CounterMod,
                 !.col_count        = 0,
                 !.bursts_completed = (@ + 1) % CounterMod]

FeedRow(word) ==
  /\ word.ok /\ ~word.is_tail
  /\ burst.state = ExpectRow
  /\ burst' = [burst EXCEPT
                 !.state = ExpectColOrTail,
                 !.row = Index(word.payload),
                 !.err_flags = IF Index(word.payload) >= Rows
                               THEN @ \cup {"ROW_OOR"} ELSE @,
                 !.col_count = 0]
  /\ emitted' = <<>>

FeedColUnbounded(word) ==                                        \* mutant
  /\ word.ok /\ ~word.is_tail
  /\ burst.state # ExpectRow
  /\ burst.col_count <= Cols
  /\ burst' = [burst EXCEPT
                 !.cols[burst.col_count % Cols] = Index(word.payload),
                 !.col_count = @ + 1,
                 !.err_flags = IF Index(word.payload) >= Cols
                               THEN @ \cup {"COL_OOR"} ELSE @]
  /\ emitted' = <<>>
FeedCol(word) ==
  /\ word.ok /\ ~word.is_tail
  /\ burst.state # ExpectRow
  /\ burst.col_count < Cols
  /\ burst' = [burst EXCEPT
                 !.cols[burst.col_count] = Index(word.payload),
                 !.col_count = @ + 1,
                 !.err_flags = IF Index(word.payload) >= Cols
                               THEN @ \cup {"COL_OOR"} ELSE @]
  /\ emitted' = <<>>

FeedColOverflow(word) ==
  /\ word.ok /\ ~word.is_tail
  /\ burst.state # ExpectRow
  /\ burst.col_count >= Cols
  /\ burst' = [burst EXCEPT !.err_flags = @ \cup {"COL_OVERFLOW"}]
  /\ emitted' = <<>>

Feed(word) ==
  \/ FeedNotOk(word)
  \/ FeedTailWithoutRow(word)
  \/ FeedTail(word)
  \/ FeedRow(word)
  \/ FeedCol(word)
  \/ FeedColOverflow(word)
=============================================================================
