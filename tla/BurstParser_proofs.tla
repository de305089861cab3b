------------------------- MODULE BurstParser_proofs -------------------------
(***************************************************************************)
(* What BurstParser promises, proved for every sensor geometry, every      *)
(* payload width and every counter width.  The inductive invariant is      *)
(* IInv: the types, the buffer as the image of the words heard since the   *)
(* last TAIL, and the flags as the set of anomalies heard.  The account of *)
(* the columns needs IInv and some arithmetic modulo the counters' range.  *)
(***************************************************************************)
EXTENDS BurstParser, SequenceTheorems, TLAPS

IInv == TypeOK /\ BufferIsHistory /\ FlagsAreAnomalies

(* The pad-bit mask of aer_payload_to_index leaves an index of the sensor's *)
(* address space, whatever the payload.                                    *)
LEMMA IndexInSpan == ASSUME NEW p \in Nat PROVE Index(p) \in Indices
  BY CfgAssumption DEF Index, Indices

(* A counter that wraps stays in the range of its type. *)
LEMMA WrapInRange == ASSUME NEW n \in Nat PROVE n % CounterMod \in 0 .. CounterMod - 1
  BY BurstAssumption

(* The payload of a decoded word, valid or not, is a payload. *)
LEMMA WordPayload ==
  ASSUME NEW word \in Words
  PROVE  /\ word.payload \in Nat
         /\ word.ok \in BOOLEAN
         /\ word.is_tail \in BOOLEAN
  <1>1. CASE word = NotOkWord
    BY <1>1 DEF NotOkWord
  <1>2. ASSUME NEW p \in 0 .. TailPayload, word = OkWord(p)
        PROVE  /\ word.payload \in Nat
               /\ word.ok \in BOOLEAN
               /\ word.is_tail \in BOOLEAN
    <2>1. word = [ok |-> TRUE, is_tail |-> p = TailPayload, payload |-> p]
      BY <1>2 DEF OkWord
    <2>2. word.ok = TRUE /\ word.is_tail = (p = TailPayload) /\ word.payload = p
      BY <2>1
    <2>3. p \in Nat
      BY ParserAssumption DEF TailPayload
    <2> QED
      BY <2>2, <2>3
  <1> QED
    BY <1>1, <1>2 DEF Words

(* The number of columns kept is a length the buffer can hold. *)
LEMMA KeptIsACount ==
  ASSUME NEW h \in Seq(Indices), h # <<>>
  PROVE  /\ Kept(h) \in 0 .. Cols
         /\ Kept(h) <= Len(h) - 1
         /\ Len(h) \in Nat \ {0}
  BY BurstAssumption DEF Kept

-----------------------------------------------------------------------------
(* aer_burst_init leaves the assembler in a state of the invariant. *)
LEMMA InitIInv == Init => IInv
  <1> SUFFICES ASSUME Init PROVE IInv
    OBVIOUS
  <1> USE BurstAssumption, CfgAssumption DEF Init, BurstInit
  <1>1. burst \in BurstType
    BY DEF BurstType, ExpectRow, Slots, Indices, Unwritten, BurstErrs
  <1>2. TypeOK
    BY <1>1 DEF TypeOK
  <1>3. BufferIsHistory /\ FlagsAreAnomalies
    BY DEF BufferIsHistory, FlagsAreAnomalies, ExpectRow
  <1> QED
    BY <1>2, <1>3 DEF IInv

(* The history variables keep their types, whatever is fed. *)
LEMMA HearKeepsTypes ==
  ASSUME TypeOK, NEW word \in Words, Hear(word)
  PROVE  /\ heard' \in Seq(Indices)
         /\ anomalies' \in SUBSET BurstErrs
         /\ columns' \in 0 .. CounterMod - 1
         /\ discarded' \in 0 .. CounterMod - 1
  <1> USE DEF Hear
  <1>1. heard \in Seq(Indices) /\ anomalies \in SUBSET BurstErrs
    BY DEF TypeOK
  <1>2. columns \in 0 .. CounterMod - 1 /\ discarded \in 0 .. CounterMod - 1
    BY DEF TypeOK
  <1>3. Index(word.payload) \in Indices
    BY WordPayload, IndexInSpan
  <1>4. heard' \in Seq(Indices)
    BY <1>1, <1>3
  <1>5. anomalies' \in SUBSET BurstErrs
    BY <1>1 DEF HearsAnomaly, BurstErrs
  <1>6. (columns + 1) % CounterMod \in 0 .. CounterMod - 1
        /\ (discarded + 1) % CounterMod \in 0 .. CounterMod - 1
    <2>1. columns + 1 \in Nat /\ discarded + 1 \in Nat
      BY <1>2, BurstAssumption
    <2> QED
      BY <2>1, WrapInRange
  <1>7. columns' \in 0 .. CounterMod - 1 /\ discarded' \in 0 .. CounterMod - 1
    BY <1>2, <1>6
  <1> QED
    BY <1>4, <1>5, <1>7

(* One call of aer_burst_feed keeps the invariant: one case for each path  *)
(* through the function.                                                   *)
LEMMA FeedKeepsIInv ==
  ASSUME IInv, NEW word \in Words, FeedWord(word)
  PROVE  IInv'
  <1>1. Feed(word) /\ Hear(word)
    BY DEF FeedWord
  <1>2. TypeOK /\ BufferIsHistory /\ FlagsAreAnomalies
    BY DEF IInv
  <1>3. /\ heard' \in Seq(Indices)
        /\ anomalies' \in SUBSET BurstErrs
        /\ columns' \in 0 .. CounterMod - 1
        /\ discarded' \in 0 .. CounterMod - 1
    BY <1>1, <1>2, HearKeepsTypes
  <1>4. /\ Index(word.payload) \in Indices
        /\ word.ok \in BOOLEAN
        /\ word.is_tail \in BOOLEAN
    BY WordPayload, IndexInSpan
  <1>5. burst \in BurstType /\ heard \in Seq(Indices)
    BY <1>2 DEF TypeOK
  <1>6. /\ heard' = IF IsTail(word) THEN <<>>
                    ELSE IF IsData(word) THEN Append(heard, Index(word.payload))
                    ELSE heard
        /\ anomalies' = anomalies \cup HearsAnomaly(word)
    BY <1>1 DEF Hear
  <1>7. (burst.state = ExpectRow) = (heard = <<>>)
    BY <1>2 DEF BufferIsHistory
  <1>8. Cols \in Nat \ {0} /\ Len(heard) \in Nat
    BY <1>5, BurstAssumption
  <1>9. 0 \in 0 .. Cols
    BY <1>8
  <1>a. CASE FeedNotOk(word)
    <2>1. UNCHANGED burst /\ emitted' = <<>> /\ ~word.ok
      BY <1>a DEF FeedNotOk
    <2>2. heard' = heard /\ anomalies' = anomalies
      BY <1>6, <2>1 DEF IsTail, IsData, HearsAnomaly, IsRow, IsColumn, IsExcess
    <2>3. TypeOK'
      BY <1>2, <1>3, <2>1 DEF TypeOK
    <2> QED
      BY <1>2, <2>1, <2>2, <2>3 DEF IInv, BufferIsHistory, FlagsAreAnomalies
  <1>b. CASE FeedTailWithoutRow(word)
    <2>1. /\ word.ok /\ word.is_tail /\ heard = <<>> /\ emitted' = <<>>
          /\ burst' = [burst EXCEPT !.err_flags = @ \cup {"TAIL_WITHOUT_ROW"}]
      BY <1>b, <1>7 DEF FeedTailWithoutRow
    <2>2. heard' = <<>> /\ anomalies' = anomalies \cup {"TAIL_WITHOUT_ROW"}
      BY <1>6, <2>1 DEF IsTail, IsData, HearsAnomaly, IsRow, IsColumn, IsExcess
    <2>3. TypeOK'
      BY <1>3, <1>5, <2>1 DEF TypeOK, BurstType, BurstErrs
    <2> QED
      BY <1>2, <1>5, <2>1, <2>2, <2>3
      DEF IInv, BufferIsHistory, FlagsAreAnomalies, BurstType
  <1>c. CASE FeedTail(word)
    <2>1. /\ word.ok /\ word.is_tail /\ heard # <<>>
          /\ emitted' = BufferedEvents
          /\ burst' = [burst EXCEPT
                         !.state = ExpectRow,
                         !.events_emitted   = (@ + burst.col_count) % CounterMod,
                         !.col_count        = 0,
                         !.bursts_completed = (@ + 1) % CounterMod]
      BY <1>c, <1>7 DEF FeedTail
    <2>2. heard' = <<>> /\ anomalies' = anomalies
      BY <1>6, <2>1 DEF IsTail, IsData, HearsAnomaly, IsRow, IsColumn, IsExcess
    <2>3. burst' \in BurstType
      <3>1. /\ (burst.events_emitted + burst.col_count) % CounterMod \in 0 .. CounterMod - 1
            /\ (burst.bursts_completed + 1) % CounterMod \in 0 .. CounterMod - 1
        <4>1. /\ burst.events_emitted + burst.col_count \in Nat
              /\ burst.bursts_completed + 1 \in Nat
          BY <1>5, BurstAssumption DEF BurstType
        <4> QED
          BY <4>1, WrapInRange
      <3> DEFINE events == (burst.events_emitted + burst.col_count) % CounterMod
                 bursts == (burst.bursts_completed + 1) % CounterMod
      <3>2. burst' = [burst EXCEPT !.state = ExpectRow, !.events_emitted = events,
                                   !.col_count = 0, !.bursts_completed = bursts]
        BY <2>1
      <3>3. events \in 0 .. CounterMod - 1 /\ bursts \in 0 .. CounterMod - 1
        BY <3>1
      <3> HIDE DEF events, bursts
      <3> QED
        BY <1>5, <1>9, <3>2, <3>3 DEF BurstType
    <2>4. emitted' \in Seq(Indices \X (Indices \cup {Unwritten}))
      <3>1. burst.col_count \in Nat /\ burst.col_count <= Cols /\ burst.row \in Indices
        BY <1>5, <1>8 DEF BurstType
      <3>2. ASSUME NEW i \in 1 .. burst.col_count
            PROVE  <<burst.row, burst.cols[i - 1]>>
                     \in Indices \X (Indices \cup {Unwritten})
        <4>1. i - 1 \in Slots
          BY <1>8, <3>1 DEF Slots
        <4> QED
          BY <1>5, <3>1, <4>1 DEF BurstType
      <3>3. BufferedEvents
              \in [1 .. burst.col_count -> Indices \X (Indices \cup {Unwritten})]
        BY <3>2 DEF BufferedEvents
      <3> QED
        BY <2>1, <3>1, <3>3, SeqDef
    <2>5. TypeOK'
      BY <1>3, <2>3, <2>4 DEF TypeOK
    <2> QED
      BY <1>2, <1>5, <2>1, <2>2, <2>5
      DEF IInv, BufferIsHistory, FlagsAreAnomalies, BurstType
  <1>d. CASE FeedRow(word)
    <2>1. /\ word.ok /\ ~word.is_tail /\ heard = <<>> /\ emitted' = <<>>
          /\ burst' = [burst EXCEPT
                         !.state = ExpectColOrTail,
                         !.row = Index(word.payload),
                         !.err_flags = IF Index(word.payload) >= Rows
                                       THEN @ \cup {"ROW_OOR"} ELSE @,
                         !.col_count = 0]
      BY <1>d, <1>7 DEF FeedRow
    <2>2. /\ heard' = <<Index(word.payload)>>
          /\ anomalies' = IF Index(word.payload) >= Rows
                          THEN anomalies \cup {"ROW_OOR"} ELSE anomalies
      BY <1>6, <2>1 DEF IsTail, IsData, HearsAnomaly, IsRow, IsColumn, IsExcess
    <2>3. TypeOK'
      <3> DEFINE flags == IF Index(word.payload) >= Rows
                          THEN burst.err_flags \cup {"ROW_OOR"} ELSE burst.err_flags
                 index == Index(word.payload)
      <3>1. burst' = [burst EXCEPT !.state = ExpectColOrTail, !.row = index,
                                   !.err_flags = flags, !.col_count = 0]
        BY <2>1
      <3>2. flags \in SUBSET BurstErrs /\ index \in Indices
        BY <1>4, <1>5 DEF BurstType, BurstErrs
      <3> HIDE DEF flags, index
      <3>3. burst' \in BurstType
        BY <1>5, <1>9, <3>1, <3>2 DEF BurstType
      <3> QED
        BY <1>3, <2>1, <3>3 DEF TypeOK
    <2>4. Len(heard') = 1 /\ Kept(heard') = 0 /\ heard'[1] = Index(word.payload)
      BY <1>8, <2>2 DEF Kept
    <2>5. BufferIsHistory'
      BY <1>5, <2>1, <2>2, <2>4 DEF BufferIsHistory, BurstType, ExpectRow, ExpectColOrTail
    <2>6. FlagsAreAnomalies'
      BY <1>2, <1>5, <2>1, <2>2 DEF FlagsAreAnomalies, BurstType
    <2> QED
      BY <2>3, <2>5, <2>6 DEF IInv
  <1>e. CASE FeedCol(word)
    <2>1. /\ word.ok /\ ~word.is_tail /\ heard # <<>> /\ emitted' = <<>>
          /\ burst.col_count < Cols
          /\ burst' = [burst EXCEPT
                         !.cols[burst.col_count] = Index(word.payload),
                         !.col_count = @ + 1,
                         !.err_flags = IF Index(word.payload) >= Cols
                                       THEN @ \cup {"COL_OOR"} ELSE @]
      BY <1>e, <1>7 DEF FeedCol
    <2>2. /\ Len(heard) \in Nat \ {0} /\ burst.col_count = Len(heard) - 1
          /\ Len(heard) <= Cols /\ burst.col_count \in Slots
      BY <1>2, <1>5, <1>8, <2>1, KeptIsACount DEF BufferIsHistory, Kept, Slots
    <2>3. /\ heard' = Append(heard, Index(word.payload))
          /\ anomalies' = IF Index(word.payload) >= Cols
                          THEN anomalies \cup {"COL_OOR"} ELSE anomalies
      BY <1>6, <1>8, <2>1, <2>2 DEF IsTail, IsData, HearsAnomaly, IsRow, IsColumn, IsExcess
    <2>4. TypeOK'
      <3> DEFINE flags == IF Index(word.payload) >= Cols
                          THEN burst.err_flags \cup {"COL_OOR"} ELSE burst.err_flags
                 cols == [burst.cols EXCEPT ![burst.col_count] = Index(word.payload)]
                 count == burst.col_count + 1
      <3>1. burst' = [burst EXCEPT !.cols = cols, !.col_count = count, !.err_flags = flags]
        BY <2>1
      <3>2. flags \in SUBSET BurstErrs
        BY <1>5 DEF BurstType, BurstErrs
      <3>3. cols \in [Slots -> Indices \cup {Unwritten}]
        BY <1>4, <1>5, <2>2 DEF BurstType
      <3>4. count \in 0 .. Cols
        BY <1>5, <1>8, <2>1 DEF BurstType
      <3> HIDE DEF flags, cols, count
      <3>5. burst' \in BurstType
        BY <1>5, <3>1, <3>2, <3>3, <3>4 DEF BurstType
      <3> QED
        BY <1>3, <2>1, <3>5 DEF TypeOK
    <2>5. /\ heard' # <<>> /\ heard'[1] = heard[1]
          /\ Len(heard') = Len(heard) + 1 /\ Kept(heard') = burst'.col_count
          /\ heard'[Len(heard) + 1] = Index(word.payload)
          /\ \A i \in 1 .. Len(heard) : heard'[i] = heard[i]
      BY <1>4, <1>5, <1>8, <2>1, <2>2, <2>3 DEF Kept, BurstType
    <2>6. /\ burst'.state = burst.state /\ burst'.row = burst.row
          /\ burst'.col_count = burst.col_count + 1
          /\ burst'.cols = [burst.cols EXCEPT ![burst.col_count] = Index(word.payload)]
          /\ burst.cols \in [Slots -> Indices \cup {Unwritten}]
      BY <1>5, <2>1 DEF BurstType
    <2>7. ASSUME NEW i \in 1 .. burst'.col_count
          PROVE  burst'.cols[i - 1] = heard'[i + 1]
      <3>1. i \in 1 .. Len(heard) /\ i - 1 \in Slots
        BY <1>8, <2>2, <2>6 DEF Slots
      <3>2. CASE i = Len(heard)
        BY <2>2, <2>5, <2>6, <3>1, <3>2
      <3>3. CASE i # Len(heard)
        <4>1. i \in 1 .. burst.col_count /\ i - 1 # burst.col_count
          BY <2>2, <3>1, <3>3
        <4>2. burst.cols[i - 1] = heard[i + 1]
          BY <1>2, <2>1, <4>1 DEF BufferIsHistory
        <4>3. i + 1 \in 1 .. Len(heard)
          BY <2>2, <4>1
        <4> QED
          BY <2>5, <2>6, <3>1, <4>1, <4>2, <4>3
      <3> QED
        BY <3>2, <3>3
    <2>8. BufferIsHistory'
      BY <1>2, <1>7, <2>1, <2>5, <2>6, <2>7 DEF BufferIsHistory
    <2>9. FlagsAreAnomalies'
      BY <1>2, <1>5, <2>1, <2>3 DEF FlagsAreAnomalies, BurstType
    <2> QED
      BY <2>4, <2>8, <2>9 DEF IInv
  <1>f. CASE FeedColOverflow(word)
    <2>1. /\ word.ok /\ ~word.is_tail /\ heard # <<>> /\ emitted' = <<>>
          /\ burst.col_count >= Cols
          /\ burst' = [burst EXCEPT !.err_flags = @ \cup {"COL_OVERFLOW"}]
      BY <1>f, <1>7 DEF FeedColOverflow
    <2>2. /\ Len(heard) \in Nat \ {0} /\ burst.col_count = Cols /\ Len(heard) > Cols
      BY <1>2, <1>5, <1>8, <2>1, KeptIsACount DEF BufferIsHistory, Kept, BurstType
    <2>3. /\ heard' = Append(heard, Index(word.payload))
          /\ anomalies' = anomalies \cup {"COL_OVERFLOW"}
      BY <1>6, <1>8, <2>1, <2>2 DEF IsTail, IsData, HearsAnomaly, IsRow, IsColumn, IsExcess
    <2>4. TypeOK'
      BY <1>3, <1>5, <2>1 DEF TypeOK, BurstType, BurstErrs
    <2>5. /\ heard' # <<>> /\ Kept(heard') = Cols
          /\ \A i \in 1 .. Len(heard) : heard'[i] = heard[i]
      BY <1>4, <1>5, <1>8, <2>2, <2>3 DEF Kept
    <2>6. /\ burst'.state = burst.state /\ burst'.row = burst.row
          /\ burst'.col_count = burst.col_count /\ burst'.cols = burst.cols
      BY <1>5, <2>1 DEF BurstType
    <2>7. ASSUME NEW i \in 1 .. burst'.col_count
          PROVE  burst'.cols[i - 1] = heard'[i + 1]
      <3>1. i \in 1 .. burst.col_count /\ i + 1 \in 1 .. Len(heard)
        BY <1>8, <2>2, <2>6
      <3> QED
        BY <1>2, <2>1, <2>5, <2>6, <3>1 DEF BufferIsHistory
    <2>8. BufferIsHistory'
      BY <1>2, <1>7, <2>1, <2>2, <2>5, <2>6, <2>7 DEF BufferIsHistory
    <2>9. FlagsAreAnomalies'
      BY <1>2, <1>5, <2>1, <2>3 DEF FlagsAreAnomalies, BurstType
    <2> QED
      BY <2>4, <2>8, <2>9 DEF IInv
  <1> QED
    BY <1>1, <1>a, <1>b, <1>c, <1>d, <1>e, <1>f DEF Feed

(* One call of aer_burst_reset keeps the invariant. *)
LEMMA ResetKeepsIInv ==
  ASSUME IInv, NEW clear \in BOOLEAN, Reset(clear)
  PROVE  IInv'
  <1>1. TypeOK
    BY DEF IInv
  <1>2. burst' \in BurstType
    <2>1. burst \in BurstType /\ 0 \in 0 .. CounterMod - 1 /\ 0 \in 0 .. Cols
          /\ 0 \in Indices /\ {} \in SUBSET BurstErrs
          /\ ExpectRow \in {ExpectRow, ExpectColOrTail}
      BY <1>1, BurstAssumption, CfgAssumption DEF TypeOK, Indices
    <2>2. CASE clear
      BY <2>1, <2>2 DEF Reset, BurstReset, BurstType
    <2>3. CASE ~clear
      BY <2>1, <2>3 DEF Reset, BurstReset, BurstType
    <2> QED
      BY <2>2, <2>3
  <1>3. discarded' \in 0 .. CounterMod - 1
    <2>1. CASE ~clear /\ heard # <<>>
      <3>1. discarded + Kept(heard) \in Nat
        BY <1>1, <2>1, KeptIsACount, BurstAssumption DEF TypeOK
      <3> QED
        BY <2>1, <3>1, WrapInRange DEF Reset
    <2> QED
      BY <1>1, <2>1, BurstAssumption DEF TypeOK, Reset
  <1>4. TypeOK'
    BY <1>1, <1>2, <1>3, BurstAssumption DEF TypeOK, Reset, BurstReset
  <1>5. BufferIsHistory' /\ FlagsAreAnomalies'
    BY <1>1 DEF TypeOK, BurstType, Reset, BurstReset, BufferIsHistory, FlagsAreAnomalies
  <1> QED
    BY <1>4, <1>5 DEF IInv
(* The invariant holds in every reachable state, whatever the geometry. *)
THEOREM Invariant == Spec => []IInv
  <1>1. IInv /\ [Next]_vars => IInv'
    <2> SUFFICES ASSUME IInv, [Next]_vars PROVE IInv'
      OBVIOUS
    <2>1. CASE \E word \in Words : FeedWord(word)
      BY <2>1, FeedKeepsIInv
    <2>2. CASE \E clear \in BOOLEAN : Reset(clear)
      BY <2>2, ResetKeepsIInv
    <2>3. CASE UNCHANGED vars
      BY <2>3 DEF vars, IInv, TypeOK, BufferIsHistory, FlagsAreAnomalies, Kept
    <2> QED
      BY <2>1, <2>2, <2>3 DEF Next
  <1> QED
    BY <1>1, InitIInv, PTL DEF Spec

(* Every field of aer_burst_t keeps the range of its C type; in particular *)
(* cols[col_count] is only written with col_count < AER_COLS.              *)
THEOREM TypeCorrect == Spec => []TypeOK
  <1>1. IInv => TypeOK
    BY DEF IInv
  <1> QED
    BY <1>1, Invariant, PTL

(* The assembler's buffer is the image of the words heard since the last   *)
(* TAIL: first the row, then the first AER_COLS columns.                   *)
THEOREM BufferCorrect == Spec => []BufferIsHistory
  <1>1. IInv => BufferIsHistory
    BY DEF IInv
  <1> QED
    BY <1>1, Invariant, PTL

(* err_flags is exactly the set of irregularities heard since the reset. *)
THEOREM FlagsCorrect == Spec => []FlagsAreAnomalies
  <1>1. IInv => FlagsAreAnomalies
    BY DEF IInv
  <1> QED
    BY <1>1, Invariant, PTL

(* One call of aer_burst_feed hands the callback the events of the burst   *)
(* that this call ends, in order, or nothing.                              *)
LEMMA FeedEmits ==
  ASSUME IInv, NEW word \in Words, FeedWord(word)
  PROVE  emitted' = IF IsTail(word) /\ heard # <<>> THEN EventsOf(heard) ELSE <<>>
  <1>1. Feed(word) /\ TypeOK /\ BufferIsHistory
    BY DEF FeedWord, IInv
  <1>2. (burst.state = ExpectRow) = (heard = <<>>)
    BY <1>1 DEF BufferIsHistory
  <1>3. word.ok \in BOOLEAN /\ word.is_tail \in BOOLEAN
    BY WordPayload
  <1>4. CASE FeedTail(word)
    <2>1. IsTail(word) /\ heard # <<>> /\ emitted' = BufferedEvents
      BY <1>2, <1>4 DEF FeedTail, IsTail
    <2>2. burst.col_count = Kept(heard) /\ burst.row = heard[1]
          /\ \A i \in 1 .. burst.col_count : burst.cols[i - 1] = heard[i + 1]
      BY <1>1, <2>1 DEF BufferIsHistory
    <2>3. BufferedEvents = EventsOf(heard)
      BY <2>2 DEF BufferedEvents, EventsOf
    <2> QED
      BY <2>1, <2>3
  <1>5. CASE ~FeedTail(word)
    BY <1>1, <1>2, <1>3, <1>5
    DEF Feed, FeedNotOk, FeedTailWithoutRow, FeedTail, FeedRow, FeedCol,
        FeedColOverflow, IsTail
  <1> QED
    BY <1>4, <1>5

(* Every burst that ends is emitted exactly, and nothing else ever is. *)
THEOREM EmitsCorrect == Spec => EmitsTheBurst
  <1> DEFINE Good ==
        /\ \A word \in Words :
             FeedWord(word) => emitted' = IF IsTail(word) /\ heard # <<>>
                                          THEN EventsOf(heard) ELSE <<>>
        /\ \A clear \in BOOLEAN : Reset(clear) => emitted' = <<>>
  <1>1. IInv /\ [Next]_vars => [Good]_vars
    <2> SUFFICES ASSUME IInv PROVE Good
      OBVIOUS
    <2>1. ASSUME NEW word \in Words, FeedWord(word)
          PROVE  emitted' = IF IsTail(word) /\ heard # <<>>
                            THEN EventsOf(heard) ELSE <<>>
      BY <2>1, FeedEmits
    <2>2. ASSUME NEW clear \in BOOLEAN, Reset(clear) PROVE emitted' = <<>>
      BY <2>2 DEF Reset, BurstReset
    <2> QED
      BY <2>1, <2>2
  <1> QED
    BY <1>1, Invariant, PTL DEF Spec, EmitsTheBurst

-----------------------------------------------------------------------------
(* Arithmetic modulo the range of the uint32_t counters, which may be less *)
(* than the buffer: sums may be reduced at any point.                      *)
LEMMA Multiples ==
  ASSUME NEW a \in Nat, NEW b \in Nat, a < b
  PROVE  CounterMod * a + CounterMod <= CounterMod * b
  <1>1. CounterMod * b = CounterMod * a + CounterMod * (b - a)
    BY BurstAssumption
  <1>2. \A d \in Nat \ {0} : CounterMod <= CounterMod * d
    BY BurstAssumption
  <1>3. b - a \in Nat \ {0}
    OBVIOUS
  <1>4. /\ CounterMod * a \in Nat /\ CounterMod * b \in Nat
        /\ CounterMod * (b - a) \in Nat /\ CounterMod \in Nat
    BY <1>3, BurstAssumption
  <1>5. CounterMod <= CounterMod * (b - a)
    BY <1>2, <1>3
  <1> QED
    BY <1>1, <1>4, <1>5

LEMMA Division ==
  ASSUME NEW n \in Nat
  PROVE  \E q \in Nat : /\ n % CounterMod \in 0 .. CounterMod - 1
                        /\ n = CounterMod * q + (n % CounterMod)
  <1>1. n \div CounterMod \in Nat /\ n % CounterMod \in 0 .. CounterMod - 1
    BY BurstAssumption
  <1>2. n = CounterMod * (n \div CounterMod) + (n % CounterMod)
    BY BurstAssumption
  <1> QED
    BY <1>1, <1>2

LEMMA RemainderIsUnique ==
  ASSUME NEW n \in Nat, NEW k \in Nat, NEW r \in 0 .. CounterMod - 1,
         n = CounterMod * k + r
  PROVE  n % CounterMod = r
  <1> DEFINE m == n % CounterMod
  <1>1. PICK q \in Nat : m \in 0 .. CounterMod - 1 /\ n = CounterMod * q + m
    BY Division
  <1> HIDE DEF m
  <1>2. CounterMod * k \in Nat /\ CounterMod * q \in Nat /\ CounterMod \in Nat
    BY BurstAssumption
  <1>3. ~(k < q)
    <2> SUFFICES ASSUME k < q PROVE FALSE
      OBVIOUS
    <2>1. CounterMod * k + CounterMod <= CounterMod * q
      BY Multiples
    <2> QED
      BY <1>1, <1>2, <2>1
  <1>4. ~(q < k)
    <2> SUFFICES ASSUME q < k PROVE FALSE
      OBVIOUS
    <2>1. CounterMod * q + CounterMod <= CounterMod * k
      BY Multiples
    <2> QED
      BY <1>1, <1>2, <2>1
  <1>5. m = r
    BY <1>1, <1>2, <1>3, <1>4
  <1> QED
    BY <1>5 DEF m

LEMMA ReduceAnyTime ==
  ASSUME NEW m \in Nat, NEW n \in Nat
  PROVE  ((m % CounterMod) + n) % CounterMod = (m + n) % CounterMod
  <1> DEFINE low == m % CounterMod
             sum == low + n
             r   == sum % CounterMod
  <1>1. PICK q \in Nat : low \in 0 .. CounterMod - 1 /\ m = CounterMod * q + low
    BY Division
  <1>2. sum \in Nat
    BY <1>1
  <1> HIDE DEF low
  <1>3. PICK p \in Nat : r \in 0 .. CounterMod - 1 /\ sum = CounterMod * p + r
    <2> HIDE DEF sum
    <2> QED
      BY <1>2, Division
  <1> HIDE DEF r
  <1>4. /\ CounterMod * (q + p) = CounterMod * q + CounterMod * p
        /\ CounterMod * q \in Nat /\ CounterMod * p \in Nat /\ q + p \in Nat
    BY BurstAssumption
  <1>5. m + n = CounterMod * (q + p) + r
    BY <1>1, <1>3, <1>4
  <1>6. (m + n) % CounterMod = r
    BY <1>3, <1>4, <1>5, RemainderIsUnique
  <1> QED
    BY <1>6 DEF r, low

-----------------------------------------------------------------------------
(* What became of the columns heard: emitted, buffered or given up.        *)
Spent == burst.events_emitted + burst.col_count + discarded

LEMMA SpentTyped ==
  ASSUME TypeOK
  PROVE  /\ Spent \in Nat /\ columns \in Nat /\ discarded \in Nat
         /\ burst.events_emitted \in Nat /\ burst.col_count \in 0 .. Cols
         /\ burst.col_count \in Nat
         /\ burst \in BurstType
  BY BurstAssumption DEF TypeOK, BurstType, Spent

(* A column more among those heard and among those spent. *)
LEMMA OneColumnMore ==
  ASSUME TypeOK, NoColumnUnaccounted
  PROVE  (Spent + 1) % CounterMod = ((columns + 1) % CounterMod) % CounterMod
  <1>1. Spent % CounterMod = columns % CounterMod
    BY DEF NoColumnUnaccounted, Spent
  <1>2. (Spent + 1) % CounterMod = (columns + 1) % CounterMod
    <2>1. ((Spent % CounterMod) + 1) % CounterMod = (Spent + 1) % CounterMod
      BY SpentTyped, ReduceAnyTime
    <2>2. ((columns % CounterMod) + 1) % CounterMod = (columns + 1) % CounterMod
      BY SpentTyped, ReduceAnyTime
    <2> QED
      BY <1>1, <2>1, <2>2
  <1>3. (((columns + 1) % CounterMod) + 0) % CounterMod = (columns + 1 + 0) % CounterMod
    BY SpentTyped, ReduceAnyTime
  <1>4. (columns + 1) % CounterMod \in Nat /\ columns + 1 \in Nat
    BY SpentTyped, BurstAssumption
  <1>5. ((columns + 1) % CounterMod) % CounterMod = (columns + 1) % CounterMod
    BY <1>3, <1>4
  <1> QED
    BY <1>2, <1>5

(* One call of aer_burst_feed: a column goes into the buffer or overflows, *)
(* a TAIL moves the buffer to the events emitted.                          *)
LEMMA FeedAccounts ==
  ASSUME IInv, NoColumnUnaccounted, NEW word \in Words, FeedWord(word)
  PROVE  NoColumnUnaccounted'
  <1>1. TypeOK /\ BufferIsHistory /\ Feed(word) /\ Hear(word) /\ heard \in Seq(Indices)
    BY DEF IInv, FeedWord, TypeOK
  <1>2. word.ok \in BOOLEAN /\ word.is_tail \in BOOLEAN
    BY WordPayload
  <1>3. /\ (burst.state = ExpectRow) = (heard = <<>>)
        /\ heard = <<>> => burst.col_count = 0
        /\ heard # <<>> => burst.col_count = Kept(heard)
    BY <1>1 DEF BufferIsHistory
  <1>4. Spent % CounterMod = columns % CounterMod
    BY DEF NoColumnUnaccounted, Spent
  <1> SUFFICES Spent' % CounterMod = columns' % CounterMod
    BY DEF NoColumnUnaccounted, Spent
  <1>5. CASE FeedNotOk(word) \/ FeedTailWithoutRow(word) \/ FeedRow(word)
    <2>1. ~IsColumn(word) /\ ~IsExcess(word)
      BY <1>3, <1>5 DEF FeedNotOk, FeedTailWithoutRow, FeedRow, IsColumn, IsExcess, IsData
    <2>2. columns' = columns /\ discarded' = discarded
      BY <1>1, <2>1 DEF Hear
    <2>3. burst'.events_emitted = burst.events_emitted /\ burst'.col_count = burst.col_count
      BY <1>1, <1>3, <1>5, SpentTyped
      DEF FeedNotOk, FeedTailWithoutRow, FeedRow, BurstType
    <2> QED
      BY <1>4, <2>2, <2>3 DEF Spent
  <1>6. CASE FeedTail(word)
    <2>1. columns' = columns /\ discarded' = discarded
      BY <1>1, <1>6 DEF Hear, FeedTail, IsColumn, IsExcess, IsData
    <2>2. /\ burst'.events_emitted = (burst.events_emitted + burst.col_count) % CounterMod
          /\ burst'.col_count = 0
      BY <1>1, <1>6, SpentTyped DEF FeedTail, BurstType
    <2> DEFINE e == burst.events_emitted
               c == burst.col_count
               d == discarded
    <2>3. (((e + c) % CounterMod) + d) % CounterMod = (e + c + d) % CounterMod
      <3>1. e + c \in Nat /\ d \in Nat
        BY <1>1, SpentTyped
      <3> HIDE DEF e, c, d
      <3> QED
        BY <3>1, ReduceAnyTime
    <2>4. (e + c) % CounterMod \in Nat /\ d \in Nat
      BY <1>1, SpentTyped, BurstAssumption
    <2>5. Spent' = ((e + c) % CounterMod) + d
      BY <2>1, <2>2, <2>4 DEF Spent
    <2> QED
      BY <1>4, <2>1, <2>3, <2>5 DEF Spent
  <1>7. CASE FeedCol(word)
    <2>1. IsColumn(word) /\ burst.col_count < Cols /\ heard # <<>>
      BY <1>3, <1>7 DEF FeedCol, IsColumn, IsData
    <2>2. ~IsExcess(word)
      BY <1>1, <1>3, <2>1, BurstAssumption DEF Kept, IsExcess
    <2>3. columns' = (columns + 1) % CounterMod /\ discarded' = discarded
      BY <1>1, <2>1, <2>2 DEF Hear
    <2>4. /\ burst'.events_emitted = burst.events_emitted
          /\ burst'.col_count = burst.col_count + 1
      BY <1>1, <1>7, SpentTyped DEF FeedCol, BurstType
    <2>5. Spent' = Spent + 1
      BY <1>1, <2>3, <2>4, SpentTyped DEF Spent
    <2> QED
      BY <1>1, <2>3, <2>5, OneColumnMore
  <1>8. CASE FeedColOverflow(word)
    <2>1. IsColumn(word) /\ burst.col_count >= Cols /\ heard # <<>>
      BY <1>3, <1>8 DEF FeedColOverflow, IsColumn, IsData
    <2>2. Len(heard) > Cols
      BY <1>1, <1>3, <2>1, BurstAssumption DEF Kept
    <2>3. /\ columns' = (columns + 1) % CounterMod
          /\ discarded' = (discarded + 1) % CounterMod
      BY <1>1, <2>1, <2>2 DEF Hear, IsExcess
    <2>4. /\ burst'.events_emitted = burst.events_emitted
          /\ burst'.col_count = burst.col_count
      BY <1>8 DEF FeedColOverflow
    <2> DEFINE rest == burst.events_emitted + burst.col_count
               d    == (discarded + 1) % CounterMod
    <2>5. rest \in Nat /\ d \in Nat /\ discarded + 1 \in Nat
      BY <1>1, SpentTyped, BurstAssumption
    <2>6. (d + rest) % CounterMod = (discarded + 1 + rest) % CounterMod
      <3> HIDE DEF rest
      <3> QED
        BY <2>5, ReduceAnyTime
    <2>7. Spent' = d + rest
      BY <2>3, <2>4, <2>5 DEF Spent
    <2>8. Spent + 1 = discarded + 1 + rest
      BY <1>1, SpentTyped DEF Spent
    <2> QED
      BY <1>1, <2>3, <2>6, <2>7, <2>8, OneColumnMore
  <1> QED
    BY <1>1, <1>5, <1>6, <1>7, <1>8 DEF Feed

(* aer_burst_reset gives up what is buffered, and clears both sides or     *)
(* neither.                                                                *)
LEMMA ResetAccounts ==
  ASSUME IInv, NoColumnUnaccounted, NEW clear \in BOOLEAN, Reset(clear)
  PROVE  NoColumnUnaccounted'
  <1>1. TypeOK /\ BufferIsHistory /\ BurstReset(clear)
    BY DEF IInv, Reset
  <1>2. /\ burst'.col_count = 0
        /\ burst'.events_emitted = IF clear THEN 0 ELSE burst.events_emitted
    BY <1>1, SpentTyped DEF BurstReset, BurstType
  <1>3. CASE clear
    BY <1>2, <1>3 DEF Reset, NoColumnUnaccounted
  <1>4. CASE ~clear /\ heard = <<>>
    <2>1. burst.col_count = 0 /\ columns' = columns /\ discarded' = discarded
      BY <1>1, <1>4 DEF Reset, BufferIsHistory
    <2> QED
      BY <1>2, <1>4, <2>1 DEF NoColumnUnaccounted
  <1>5. CASE ~clear /\ heard # <<>>
    <2> DEFINE e == burst.events_emitted
               c == burst.col_count
    <2>1. /\ columns' = columns
          /\ discarded' = (discarded + c) % CounterMod
      BY <1>1, <1>5 DEF Reset, BufferIsHistory
    <2>2. (((discarded + c) % CounterMod) + e) % CounterMod = (discarded + c + e) % CounterMod
      <3>1. discarded + c \in Nat /\ e \in Nat
        BY <1>1, SpentTyped
      <3> HIDE DEF e, c
      <3> QED
        BY <3>1, ReduceAnyTime
    <2>3. (discarded + c) % CounterMod \in Nat /\ e \in Nat
      BY <1>1, SpentTyped, BurstAssumption
    <2>4. burst'.events_emitted + burst'.col_count + discarded'
            = ((discarded + c) % CounterMod) + e
      BY <1>2, <1>5, <2>1, <2>3
    <2>5. discarded + c + e = e + c + discarded
      BY <1>1, SpentTyped
    <2> QED
      BY <2>1, <2>2, <2>4, <2>5 DEF NoColumnUnaccounted
  <1> QED
    BY <1>3, <1>4, <1>5

(* Every column word that comes through the link is emitted, buffered, or  *)
(* counted as discarded, for every stream, every capacity and every width  *)
(* of the counters.                                                        *)
THEOREM ColumnsAccounted == Spec => []NoColumnUnaccounted
  <1>1. Init => NoColumnUnaccounted
    BY DEF Init, BurstInit, NoColumnUnaccounted
  <1>2. IInv /\ NoColumnUnaccounted /\ [Next]_vars => NoColumnUnaccounted'
    <2> SUFFICES ASSUME IInv, NoColumnUnaccounted, [Next]_vars PROVE NoColumnUnaccounted'
      OBVIOUS
    <2>1. CASE \E word \in Words : FeedWord(word)
      BY <2>1, FeedAccounts
    <2>2. CASE \E clear \in BOOLEAN : Reset(clear)
      BY <2>2, ResetAccounts
    <2>3. CASE UNCHANGED vars
      BY <2>3 DEF vars, NoColumnUnaccounted
    <2> QED
      BY <2>1, <2>2, <2>3 DEF Next
  <1> QED
    BY <1>1, <1>2, Invariant, PTL DEF Spec
=============================================================================
