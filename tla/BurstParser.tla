---------------------------- MODULE BurstParser ----------------------------
(***************************************************************************)
(* The burst assembler fed with every stream of decoded words the codec    *)
(* can produce, in any order, with resets in between.  History variables   *)
(* record the stream itself, so that the properties compare what the       *)
(* assembler buffered, flagged, counted and emitted with what it was fed.  *)
(***************************************************************************)
EXTENDS AerBurst, FiniteSets

CONSTANTS
  PayloadSpan,  \* 1 << AER_PAYLOAD_BITS
  MaxHeard      \* bound: row and column words between two TAILs

ASSUME ParserAssumption ==
  /\ PayloadSpan \in Nat \ {0}
  /\ MaxHeard \in Nat

VARIABLES
  heard,      \* history: indices of the valid words since the last TAIL or reset
  anomalies,  \* history: what was irregular in the stream since the last reset
  columns,    \* history: valid column words since the counters were cleared
  discarded   \* history: those of them given up, by overflow or by a reset

history == <<heard, anomalies, columns, discarded>>
vars    == <<burst, emitted, heard, anomalies, columns, discarded>>

TailPayload == PayloadSpan - 1   \* AER_TAIL_PAYLOAD

NotOkWord == [ok |-> FALSE, is_tail |-> FALSE, payload |-> 0]
OkWord(p) == [ok |-> TRUE, is_tail |-> p = TailPayload, payload |-> p]
Words     == {NotOkWord} \cup {OkWord(p) : p \in 0 .. TailPayload}

(* The columns of a burst that fit in the buffer. *)
Kept(h) == IF Len(h) - 1 > Cols THEN Cols ELSE Len(h) - 1

(* What a burst with this history must emit: its row with each kept column. *)
EventsOf(h) == [i \in 1 .. Kept(h) |-> <<h[1], h[i + 1]>>]

-----------------------------------------------------------------------------
Init ==
  /\ BurstInit
  /\ heard = <<>>
  /\ anomalies = {}
  /\ columns = 0
  /\ discarded = 0

IsTail(word)   == word.ok /\ word.is_tail
IsData(word)   == word.ok /\ ~word.is_tail
IsRow(word)    == IsData(word) /\ heard = <<>>
IsColumn(word) == IsData(word) /\ heard # <<>>
IsExcess(word) == IsColumn(word) /\ Len(heard) > Cols

HearsAnomaly(word) ==
     {e \in {"TAIL_WITHOUT_ROW"} : IsTail(word) /\ heard = <<>>}
  \cup {e \in {"ROW_OOR"}      : IsRow(word) /\ Index(word.payload) >= Rows}
  \cup {e \in {"COL_OOR"}      : IsColumn(word) /\ ~IsExcess(word)
                                 /\ Index(word.payload) >= Cols}
  \cup {e \in {"COL_OVERFLOW"} : IsExcess(word)}

Hear(word) ==
  /\ heard' = IF IsTail(word) THEN <<>>
              ELSE IF IsData(word) THEN Append(heard, Index(word.payload))
              ELSE heard
  /\ anomalies' = anomalies \cup HearsAnomaly(word)
  /\ columns'   = IF IsColumn(word) THEN (columns + 1) % CounterMod ELSE columns
  /\ discarded' = IF IsExcess(word) THEN (discarded + 1) % CounterMod ELSE discarded

(* One call of aer_burst_feed; MaxHeard bounds the length of a burst. *)
FeedWord(word) ==
  /\ IsData(word) => Len(heard) < MaxHeard
  /\ Feed(word)
  /\ Hear(word)

(* One call of aer_burst_reset: the burst being assembled is given up. *)
Reset(clear) ==
  /\ BurstReset(clear)
  /\ heard' = <<>>
  /\ anomalies' = {}
  /\ columns' = IF clear THEN 0 ELSE columns
  /\ discarded' = IF clear THEN 0
                  ELSE IF heard = <<>> THEN discarded
                  ELSE (discarded + Kept(heard)) % CounterMod

Next ==
  \/ \E word \in Words : FeedWord(word)
  \/ \E clear \in BOOLEAN : Reset(clear)

Spec == Init /\ [][Next]_vars

-----------------------------------------------------------------------------
(* The state of the assembler, of its last output and of the history has   *)
(* the C types' ranges: col_count never indexes past cols[AER_COLS].       *)
TypeOK ==
  /\ burst \in BurstType
  /\ emitted \in Seq(Indices \X (Indices \cup {Unwritten}))
  /\ heard \in Seq(Indices)
  /\ anomalies \in SUBSET BurstErrs
  /\ columns \in 0 .. CounterMod - 1
  /\ discarded \in 0 .. CounterMod - 1

(* The parser's state, row and buffer are exactly the words heard since    *)
(* the last TAIL or reset: the first is the row, the next Cols are the     *)
(* columns, whatever invalid words came in between and whatever an earlier *)
(* burst left in cols[].                                                   *)
BufferIsHistory ==
  /\ (burst.state = ExpectRow) = (heard = <<>>)
  /\ heard = <<>> => burst.col_count = 0
  /\ heard # <<>> =>
       /\ burst.row = heard[1]
       /\ burst.col_count = Kept(heard)
       /\ \A i \in 1 .. burst.col_count : burst.cols[i - 1] = heard[i + 1]

(* The callback is called at the TAIL that ends a burst and by no other    *)
(* call, and it is handed the events of that very burst: in order, none    *)
(* twice, none of an earlier burst, none read from an unwritten slot.      *)
EmitsTheBurst ==
  [][ /\ \A word \in Words :
           FeedWord(word) => emitted' = IF IsTail(word) /\ heard # <<>>
                                        THEN EventsOf(heard) ELSE <<>>
      /\ \A clear \in BOOLEAN : Reset(clear) => emitted' = <<>> ]_vars

(* err_flags records every irregularity since the last reset and invents   *)
(* none: a flag is never lost to a later word or to the end of a burst.    *)
FlagsAreAnomalies == burst.err_flags = anomalies

(* Every valid column word is emitted, waiting in the buffer, or was       *)
(* discarded by an overflow or a reset: none disappears, and none is       *)
(* counted twice, when the uint32_t counters wrap.                         *)
NoColumnUnaccounted ==
  (burst.events_emitted + burst.col_count + discarded) % CounterMod
    = columns % CounterMod

=============================================================================
