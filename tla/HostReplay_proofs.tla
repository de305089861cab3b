-------------------------- MODULE HostReplay_proofs --------------------------
(***************************************************************************)
(* The host side, for every word list, every timing and every fault that   *)
(* the injectors know.  WaveInv describes the waveform: one transaction of *)
(* four samples for each word with an edge.  ReplayInv relates the loop of *)
(* aer_rx_replay_run to it: after i samples the words latched are those    *)
(* whose ACK rises at one of them, until an injector holds ACK.  CountInv  *)
(* is about the statistics, and EventsInv about the assembler, which holds *)
(* the burst that the words of the run have begun.  Together they are      *)
(* inductive.                                                              *)
(***************************************************************************)
EXTENDS HostReplay, Common_proofs, SequenceTheorems, FiniteSetTheorems

(* A raw word may have bits above AER_DATA_WIDTH, from a mask.             *)
AnyRaw      == SUBSET (Nat \X Symbols)
SampleType  == [t : Nat, data : SUBSET BusWires, ack : BOOLEAN]
ScriptEntry == [word : TxWords, rise : Nat]
TxRecord    ==
  [delays : Nat \X Nat \X Nat, initial_ack : BOOLEAN, t : Nat, ack : BOOLEAN]

(* The types of the transmitter model and of the waveform.                 *)
WaveTypes ==
  /\ wf \in Seq(SampleType) /\ Len(wf) \in Nat \ {0}
  /\ tx \in TxRecord
  /\ script \in Seq(ScriptEntry)
  /\ loaded \in BOOLEAN

(* Time does not run backwards along a waveform.                           *)
InOrder == \A i, j \in 1 .. Len(wf) : i <= j => wf[i].t <= wf[j].t

(* The samples before the first word whose rise is an edge. *)
Lead  == IF tx.initial_ack /\ script # <<>> THEN 4 ELSE 1

(* The samples b .. b + 4 show one word between two neutral states.        *)
TransactionAt(b, e) ==
  /\ ~wf[b].ack /\ wf[b].data = Neutral
  /\ wf[b + 1].data = e.word /\ ~wf[b + 1].ack
  /\ wf[b + 2].data = e.word /\ wf[b + 2].ack /\ wf[b + 2].t = e.rise
  /\ wf[b + 3].data = Neutral /\ wf[b + 3].ack
  /\ wf[b + 4].data = Neutral /\ ~wf[b + 4].ack

(* The waveform is a transaction for each word that has an edge; what comes *)
(* before has none, and it ends in the state the transmitter is in.        *)
Shape ==
  ~loaded =>
    /\ wf[Len(wf)].t <= tx.t
    /\ wf[Len(wf)].data = Neutral /\ wf[Len(wf)].ack = tx.ack
    /\ tx.ack = (tx.initial_ack /\ script = <<>>)
    /\ Len(wf) = Lead + 4 * Len(Emitted)
    /\ \A i \in 2 .. Lead : wf[i - 1].ack \/ ~wf[i].ack
    /\ \A k \in 1 .. Len(Emitted) : TransactionAt(Lead + 4 * (k - 1), Emitted[k])

WaveInv == WaveTypes /\ InOrder /\ Shape

(* wf_push_transition appends a sample that changes the data or ACK.       *)
LEMMA PushNew ==
  ASSUME NEW w \in Seq(SampleType), w # <<>>, NEW s \in SampleType,
         w[Len(w)].data # s.data \/ w[Len(w)].ack # s.ack
  PROVE  /\ Push(w, s) = Append(w, s)
         /\ Append(w, s) \in Seq(SampleType) /\ Len(Append(w, s)) = Len(w) + 1
         /\ Append(w, s) # <<>> /\ Append(w, s)[Len(w) + 1] = s
         /\ \A i \in 1 .. Len(w) : Append(w, s)[i] = w[i]
BY DEF Push, Last

(* It leaves out a sample that changes neither.                            *)
LEMMA PushSame ==
  ASSUME NEW w \in Seq(SampleType), w # <<>>, NEW s \in SampleType,
         w[Len(w)].data = s.data /\ w[Len(w)].ack = s.ack
  PROVE  Push(w, s) = w
BY DEF Push, Last

(* aer_tx_model_init leaves a waveform of the invariant.                   *)
LEMMA InitWaveInv == Init => WaveInv
<1> SUFFICES ASSUME Init PROVE WaveInv
  OBVIOUS
<1>1. PICK delays \in Timings, initial_ack \in BOOLEAN :
         /\ tx = [delays |-> delays, initial_ack |-> initial_ack, t |-> 0, ack |-> initial_ack]
         /\ wf = <<Sample(0, Neutral, initial_ack)>>
  BY DEF Init
<1>2. script = <<>> /\ loaded = FALSE
  BY DEF Init
<1>3. Sample(0, Neutral, initial_ack) \in SampleType /\ delays \in Nat \X Nat \X Nat
  BY ReplayAssumption DEF Sample, SampleType, Neutral
<1>4. WaveTypes
  <2>1. wf \in Seq(SampleType) /\ Len(wf) = 1
    BY <1>1, <1>3
  <2>2. tx \in TxRecord
    BY <1>1, <1>3 DEF TxRecord
  <2>3. <<>> \in Seq(ScriptEntry)
    OBVIOUS
  <2>4. Len(wf) \in Nat \ {0}
    BY <2>1
  <2> QED
    BY <1>2, <2>1, <2>2, <2>3, <2>4 DEF WaveTypes
<1>5. Len(wf) = 1 /\ wf[1] = Sample(0, Neutral, initial_ack)
  BY <1>1
<1>6. InOrder
  <2>1. wf[1].t = 0
    BY <1>5 DEF Sample
  <2> QED
    BY <1>5, <2>1 DEF InOrder
<1>7. Emitted = <<>> /\ Lead = 1 /\ Len(Emitted) = 0
  BY <1>2 DEF Emitted, Lead
<1>8. Shape
  BY <1>1, <1>2, <1>5, <1>7 DEF Shape, Sample
<1> QED
  BY <1>4, <1>6, <1>8 DEF WaveInv

(* Four samples more.                                                      *)
LEMMA AppendFour ==
  ASSUME NEW S, NEW w \in Seq(S), NEW a \in S, NEW b \in S, NEW c \in S, NEW d \in S,
         NEW v, v = Append(Append(Append(Append(w, a), b), c), d)
  PROVE  /\ v \in Seq(S) /\ Len(v) = Len(w) + 4
         /\ \A i \in 1 .. Len(w) : v[i] = w[i]
         /\ v[Len(w) + 1] = a /\ v[Len(w) + 2] = b /\ v[Len(w) + 3] = c /\ v[Len(w) + 4] = d
OBVIOUS

(* Three samples more.                                                     *)
LEMMA AppendThree ==
  ASSUME NEW S, NEW w \in Seq(S), NEW a \in S, NEW b \in S, NEW c \in S,
         NEW v, v = Append(Append(Append(w, a), b), c)
  PROVE  /\ v \in Seq(S) /\ Len(v) = Len(w) + 3
         /\ \A i \in 1 .. Len(w) : v[i] = w[i]
         /\ v[Len(w) + 1] = a /\ v[Len(w) + 2] = b /\ v[Len(w) + 3] = c
OBVIOUS

(* What aer_tx_model_emit_word appends: the four phases, but for the rise  *)
(* of an ACK that was high before.                                         *)
LEMMA EmitAppends ==
  ASSUME WaveInv, NEW word \in TxWords, EmitWord(word)
  PROVE  \E hi, ne, la \in Nat :
            /\ tx.t <= hi /\ hi <= ne /\ ne <= la /\ ~loaded
            /\ tx' = [tx EXCEPT !.t = la, !.ack = FALSE]
            /\ script' = Append(script, [word |-> word, rise |-> hi])
            /\ wf' \in Seq(SampleType)
            /\ \A i \in 1 .. Len(wf) : wf'[i] = wf[i]
            /\ wf'[Len(wf) + 1] = Sample(tx.t, word, tx.ack)
            /\ tx.ack  => /\ Len(wf') = Len(wf) + 3
                          /\ wf'[Len(wf) + 2] = Sample(ne, Neutral, TRUE)
                          /\ wf'[Len(wf) + 3] = Sample(la, Neutral, FALSE)
            /\ ~tx.ack => /\ Len(wf') = Len(wf) + 4
                          /\ wf'[Len(wf) + 2] = Sample(hi, word, TRUE)
                          /\ wf'[Len(wf) + 3] = Sample(ne, Neutral, TRUE)
                          /\ wf'[Len(wf) + 4] = Sample(la, Neutral, FALSE)
<1> DEFINE hi == tx.t + tx.delays[1]
           ne == hi + tx.delays[2]
           la == ne + tx.delays[3]
           p1 == Sample(tx.t, word, tx.ack)
           p2 == Sample(hi, word, TRUE)
           p3 == Sample(ne, Neutral, TRUE)
           p4 == Sample(la, Neutral, FALSE)
<1>1. /\ tx.t \in Nat /\ tx.ack \in BOOLEAN /\ hi \in Nat /\ ne \in Nat /\ la \in Nat
      /\ tx.t <= hi /\ hi <= ne /\ ne <= la
  BY DEF WaveInv, WaveTypes, TxRecord
<1>2. word \in SUBSET BusWires /\ word # Neutral /\ Neutral \in SUBSET BusWires
  BY ReplayAssumption DEF Neutral
<1>3. Phases(tx.t, tx.ack, word) = <<p1, p2, p3, p4>>
  BY DEF Phases
<1>4. /\ wf' = Push(Push(Push(Push(wf, p1), p2), p3), p4) /\ ~loaded
      /\ tx' = [tx EXCEPT !.t = p4.t, !.ack = FALSE]
      /\ script' = Append(script, [word |-> word, rise |-> p2.t])
  <2> HIDE DEF p1, p2, p3, p4
  <2> QED
    BY <1>3 DEF EmitWord
<1>5. p4.t = la /\ p2.t = hi
  BY DEF Sample
<1> HIDE DEF hi, ne, la
<1>6. p1 \in SampleType /\ p2 \in SampleType /\ p3 \in SampleType /\ p4 \in SampleType
  BY <1>1, <1>2 DEF Sample, SampleType
<1>7. /\ p1.data = word /\ p1.ack = tx.ack /\ p2.data = word /\ p2.ack = TRUE
      /\ p3.data = Neutral /\ p3.ack = TRUE /\ p4.data = Neutral /\ p4.ack = FALSE
  BY DEF Sample
<1>8. wf \in Seq(SampleType) /\ wf # <<>> /\ wf[Len(wf)].data = Neutral
  BY <1>4 DEF WaveInv, WaveTypes, Shape
<1> DEFINE w1 == Append(wf, p1)
<1> HIDE DEF p1, p2, p3, p4
<1>9. Push(wf, p1) = w1 /\ w1 \in Seq(SampleType) /\ w1 # <<>> /\ w1[Len(w1)] = p1
  BY <1>2, <1>6, <1>7, <1>8, PushNew
<1> HIDE DEF w1
<1>10. CASE tx.ack
  <2> DEFINE w3 == Append(w1, p3)
  <2>1. Push(w1, p2) = w1
    BY <1>6, <1>7, <1>9, <1>10, PushSame
  <2>2. Push(w1, p3) = w3 /\ w3 \in Seq(SampleType) /\ w3 # <<>> /\ w3[Len(w3)] = p3
    BY <1>2, <1>6, <1>7, <1>9, PushNew
  <2> HIDE DEF w3
  <2>3. Push(w3, p4) = Append(w3, p4)
    BY <1>6, <1>7, <2>2, PushNew
  <2>4. wf' = Append(w3, p4)
    BY <1>4, <1>9, <2>1, <2>2, <2>3
  <2>5. wf' = Append(Append(Append(wf, p1), p3), p4)
    BY <2>4 DEF w1, w3
  <2>6. /\ wf' \in Seq(SampleType) /\ Len(wf') = Len(wf) + 3
        /\ \A i \in 1 .. Len(wf) : wf'[i] = wf[i]
        /\ wf'[Len(wf) + 1] = p1 /\ wf'[Len(wf) + 2] = p3 /\ wf'[Len(wf) + 3] = p4
    BY <1>6, <1>8, <2>5, AppendThree
  <2> QED
    BY <1>1, <1>4, <1>5, <1>10, <2>6 DEF p1, p3, p4
<1>11. CASE ~tx.ack
  <2> DEFINE w2 == Append(w1, p2)
  <2>1. Push(w1, p2) = w2 /\ w2 \in Seq(SampleType) /\ w2 # <<>> /\ w2[Len(w2)] = p2
    BY <1>1, <1>6, <1>7, <1>9, <1>11, PushNew
  <2> HIDE DEF w2
  <2> DEFINE w3 == Append(w2, p3)
  <2>2. Push(w2, p3) = w3 /\ w3 \in Seq(SampleType) /\ w3 # <<>> /\ w3[Len(w3)] = p3
    BY <1>2, <1>6, <1>7, <2>1, PushNew
  <2> HIDE DEF w3
  <2>3. Push(w3, p4) = Append(w3, p4)
    BY <1>6, <1>7, <2>2, PushNew
  <2>4. wf' = Append(w3, p4)
    BY <1>4, <1>9, <2>1, <2>2, <2>3
  <2>5. wf' = Append(Append(Append(Append(wf, p1), p2), p3), p4)
    BY <2>4 DEF w1, w2, w3
  <2>6. /\ wf' \in Seq(SampleType) /\ Len(wf') = Len(wf) + 4
        /\ \A i \in 1 .. Len(wf) : wf'[i] = wf[i]
        /\ wf'[Len(wf) + 1] = p1 /\ wf'[Len(wf) + 2] = p2
        /\ wf'[Len(wf) + 3] = p3 /\ wf'[Len(wf) + 4] = p4
    BY <1>6, <1>8, <2>5, AppendFour
  <2> QED
    BY <1>1, <1>4, <1>5, <1>11, <2>6 DEF p1, p2, p3, p4
<1> QED
  BY <1>1, <1>10, <1>11

(* The words with an edge, after one more word. *)
LEMMA EmittedGrows ==
  ASSUME WaveInv, NEW e \in ScriptEntry, ~loaded,
         script' = Append(script, e), tx'.initial_ack = tx.initial_ack
  PROVE  /\ script' \in Seq(ScriptEntry)
         /\ Emitted \in Seq(ScriptEntry) /\ Emitted' \in Seq(ScriptEntry)
         /\ tx.ack  => Lead' = 4 /\ Lead = 1 /\ Emitted' = <<>> /\ Emitted = <<>>
         /\ ~tx.ack => /\ Lead' = Lead /\ Len(Emitted') = Len(Emitted) + 1
                       /\ \A k \in 1 .. Len(Emitted) : Emitted'[k] = Emitted[k]
                       /\ Emitted'[Len(Emitted) + 1] = e
<1>1. script \in Seq(ScriptEntry) /\ tx.ack = (tx.initial_ack /\ script = <<>>)
  BY DEF WaveInv, WaveTypes, Shape
<1>2. script' \in Seq(ScriptEntry) /\ script' # <<>> /\ Len(script') = Len(script) + 1
  BY <1>1
<1>3. CASE tx.initial_ack /\ script = <<>>
  <2>1. Tail(script') = <<>>
    BY <1>2, <1>3
  <2>2. Emitted' = <<>> /\ Emitted = <<>> /\ Lead' = 4 /\ Lead = 1
    BY <1>2, <1>3, <2>1 DEF Emitted, Lead
  <2>3. <<>> \in Seq(ScriptEntry)
    OBVIOUS
  <2> QED
    BY <1>1, <1>2, <1>3, <2>2, <2>3
<1>4. CASE tx.initial_ack /\ script # <<>>
  <2>1. Emitted = Tail(script) /\ Emitted' = Tail(script') /\ Lead' = Lead
    BY <1>2, <1>4 DEF Emitted, Lead
  <2> DEFINE a == Tail(script)
             b == Tail(script')
  <2>2. /\ a \in Seq(ScriptEntry) /\ b \in Seq(ScriptEntry)
        /\ Len(b) = Len(script) /\ Len(a) = Len(script) - 1 /\ Len(script) \in Nat
    BY <1>1, <1>2, <1>4
  <2>3. Len(b) = Len(a) + 1 /\ b[Len(a) + 1] = e
    BY <1>1, <1>2, <1>4, <2>2
  <2>4. \A k \in 1 .. Len(a) : b[k] = a[k]
    BY <1>1, <1>2, <1>4, <2>2
  <2> HIDE DEF a, b
  <2>5. Emitted = a /\ Emitted' = b
    BY <2>1 DEF a, b
  <2>6. ~tx.ack
    BY <1>1, <1>4
  <2> QED
    BY <1>2, <2>1, <2>2, <2>3, <2>4, <2>5, <2>6
<1>5. CASE ~tx.initial_ack
  <2>1. Emitted = script /\ Emitted' = script' /\ Lead' = Lead
    BY <1>5 DEF Emitted, Lead
  <2>2. ~tx.ack
    BY <1>1, <1>5
  <2> QED
    BY <1>1, <1>2, <2>1, <2>2
<1> QED
  BY <1>3, <1>4, <1>5

(* The first n samples are in time order.                                  *)
OrderedTo(w, n) ==
  /\ \A i \in 1 .. n : w[i].t \in Nat
  /\ \A i, j \in 1 .. n : i <= j => w[i].t <= w[j].t

(* A sample that is not earlier than the last keeps the samples in order.  *)
LEMMA OneLater ==
  ASSUME NEW w, NEW n \in Nat \ {0}, OrderedTo(w, n),
         w[n + 1].t \in Nat, w[n].t <= w[n + 1].t
  PROVE  OrderedTo(w, n + 1)
<1>1. \A i \in 1 .. n + 1 : i \in 1 .. n \/ i = n + 1
  OBVIOUS
<1>2. \A i \in 1 .. n : w[i].t \in Nat /\ w[i].t <= w[n].t /\ w[i].t <= w[n + 1].t
  BY DEF OrderedTo
<1> QED
  BY <1>1, <1>2 DEF OrderedTo

(* aer_tx_model_emit_word appends one transaction.                         *)
LEMMA EmitKeepsWave ==
  ASSUME WaveInv, NEW word \in TxWords, EmitWord(word)
  PROVE  WaveInv'
<1> DEFINE L == Len(wf)
<1>1. PICK hi \in Nat, ne \in Nat, la \in Nat :
            /\ tx.t <= hi /\ hi <= ne /\ ne <= la /\ ~loaded
            /\ tx' = [tx EXCEPT !.t = la, !.ack = FALSE]
            /\ script' = Append(script, [word |-> word, rise |-> hi])
            /\ wf' \in Seq(SampleType)
            /\ \A i \in 1 .. L : wf'[i] = wf[i]
            /\ wf'[L + 1] = Sample(tx.t, word, tx.ack)
            /\ tx.ack  => /\ Len(wf') = L + 3
                          /\ wf'[L + 2] = Sample(ne, Neutral, TRUE)
                          /\ wf'[L + 3] = Sample(la, Neutral, FALSE)
            /\ ~tx.ack => /\ Len(wf') = L + 4
                          /\ wf'[L + 2] = Sample(hi, word, TRUE)
                          /\ wf'[L + 3] = Sample(ne, Neutral, TRUE)
                          /\ wf'[L + 4] = Sample(la, Neutral, FALSE)
  BY EmitAppends
<1> DEFINE e == [word |-> word, rise |-> hi]
<1>2. /\ wf \in Seq(SampleType) /\ L \in Nat \ {0} /\ wf[L].t <= tx.t
      /\ wf[L].data = Neutral /\ wf[L].ack = tx.ack
      /\ tx \in TxRecord
      /\ tx.t \in Nat /\ tx.ack \in BOOLEAN
      /\ L = Lead + 4 * Len(Emitted)
  BY <1>1 DEF WaveInv, WaveTypes, Shape, TxRecord
<1>3. e \in ScriptEntry /\ e.word = word /\ e.rise = hi
  BY DEF ScriptEntry
<1>4. tx'.initial_ack = tx.initial_ack /\ tx'.t = la /\ tx'.ack = FALSE
  BY <1>1, <1>2
<1>5. /\ script' \in Seq(ScriptEntry)
      /\ Emitted \in Seq(ScriptEntry) /\ Emitted' \in Seq(ScriptEntry)
      /\ tx.ack  => Lead' = 4 /\ Lead = 1 /\ Emitted' = <<>> /\ Emitted = <<>>
      /\ ~tx.ack => /\ Lead' = Lead /\ Len(Emitted') = Len(Emitted) + 1
                    /\ \A k \in 1 .. Len(Emitted) : Emitted'[k] = Emitted[k]
                    /\ Emitted'[Len(Emitted) + 1] = e
  BY <1>1, <1>3, <1>4, EmittedGrows
<1>6. /\ L \in Nat \ {0} /\ tx.ack \in BOOLEAN /\ tx.t \in Nat
      /\ L = Lead + 4 * Len(Emitted)
      /\ wf[L].ack = tx.ack
  BY <1>2
<1>7. \A i \in 1 .. L : wf'[i] = wf[i]
  BY <1>1
<1>8. /\ tx.ack  => Len(wf') = L + 3
      /\ ~tx.ack => Len(wf') = L + 4
  BY <1>1
<1>9. \A i \in 1 .. L : wf[i].t \in Nat
  <2>1. \A i \in 1 .. L : wf[i] \in SampleType
    BY <1>2
  <2> QED
    BY <2>1 DEF SampleType
<1>13. \A i, j \in 1 .. L : i <= j => wf[i].t <= wf[j].t
  BY DEF WaveInv, InOrder
<1>14. \A i \in 1 .. L : wf[i].t <= tx.t
  <2>1. wf[L].t <= tx.t /\ L \in 1 .. L
    BY <1>2
  <2>2. \A i \in 1 .. L : i <= L
    BY <1>6
  <2> QED
    BY <1>6, <1>9, <1>13, <2>1, <2>2
<1>15. /\ wf'[L + 1].t = tx.t /\ wf'[L + 1].data = word /\ wf'[L + 1].ack = tx.ack
       /\ tx.ack  => /\ wf'[L + 2].t = ne /\ wf'[L + 2].data = Neutral /\ wf'[L + 2].ack = TRUE
                     /\ wf'[L + 3].t = la /\ wf'[L + 3].data = Neutral /\ wf'[L + 3].ack = FALSE
       /\ ~tx.ack => /\ wf'[L + 2].t = hi /\ wf'[L + 2].data = word /\ wf'[L + 2].ack = TRUE
                     /\ wf'[L + 3].t = ne /\ wf'[L + 3].data = Neutral /\ wf'[L + 3].ack = TRUE
                     /\ wf'[L + 4].t = la /\ wf'[L + 4].data = Neutral /\ wf'[L + 4].ack = FALSE
  BY <1>1 DEF Sample
<1>16. tx.t <= hi /\ hi <= ne /\ ne <= la /\ ~loaded
  BY <1>1
<1>17. Len(wf') \in Nat \ {0}
  BY <1>6, <1>8
<1> HIDE DEF e, L
<1>10. InOrder'
  <2>1. OrderedTo(wf', L)
    BY <1>6, <1>7, <1>9, <1>13 DEF OrderedTo
  <2>2. wf'[L].t <= tx.t
    BY <1>6, <1>7, <1>14
  <2>3. OrderedTo(wf', L + 1)
    BY <1>6, <1>15, <2>1, <2>2, OneLater
  <2>4. CASE tx.ack
    <3>1. /\ wf'[L + 1].t = tx.t
          /\ wf'[L + 2].t = ne /\ wf'[L + 3].t = la /\ Len(wf') = L + 3
      BY <1>8, <1>15, <2>4
    <3>2. OrderedTo(wf', L + 2)
      <4>1. L + 1 \in Nat \ {0} /\ (L + 1) + 1 = L + 2
        BY <1>6
      <4>2. wf'[(L + 1) + 1].t \in Nat /\ wf'[L + 1].t <= wf'[(L + 1) + 1].t
        BY <1>6, <1>16, <3>1, <4>1
      <4>3. OrderedTo(wf', (L + 1) + 1)
        BY <2>3, <4>1, <4>2, OneLater
      <4> QED
        BY <4>1, <4>3
    <3>3. OrderedTo(wf', L + 3)
      <4>1. L + 2 \in Nat \ {0} /\ (L + 2) + 1 = L + 3
        BY <1>6
      <4>2. wf'[(L + 2) + 1].t \in Nat /\ wf'[L + 2].t <= wf'[(L + 2) + 1].t
        BY <1>6, <1>16, <3>1, <4>1
      <4>3. OrderedTo(wf', (L + 2) + 1)
        BY <3>2, <4>1, <4>2, OneLater
      <4> QED
        BY <4>1, <4>3
    <3> QED
      BY <1>6, <3>1, <3>3 DEF InOrder, OrderedTo
  <2>5. CASE ~tx.ack
    <3>1. /\ wf'[L + 1].t = tx.t /\ wf'[L + 2].t = hi
          /\ wf'[L + 3].t = ne /\ wf'[L + 4].t = la /\ Len(wf') = L + 4
      BY <1>8, <1>15, <2>5
    <3>2. OrderedTo(wf', L + 2)
      <4>1. L + 1 \in Nat \ {0} /\ (L + 1) + 1 = L + 2
        BY <1>6
      <4>2. wf'[(L + 1) + 1].t \in Nat /\ wf'[L + 1].t <= wf'[(L + 1) + 1].t
        BY <1>6, <1>16, <3>1, <4>1
      <4>3. OrderedTo(wf', (L + 1) + 1)
        BY <2>3, <4>1, <4>2, OneLater
      <4> QED
        BY <4>1, <4>3
    <3>3. OrderedTo(wf', L + 3)
      <4>1. L + 2 \in Nat \ {0} /\ (L + 2) + 1 = L + 3
        BY <1>6
      <4>2. wf'[(L + 2) + 1].t \in Nat /\ wf'[L + 2].t <= wf'[(L + 2) + 1].t
        BY <1>6, <1>16, <3>1, <4>1
      <4>3. OrderedTo(wf', (L + 2) + 1)
        BY <3>2, <4>1, <4>2, OneLater
      <4> QED
        BY <4>1, <4>3
    <3>4. OrderedTo(wf', L + 4)
      <4>1. L + 3 \in Nat \ {0} /\ (L + 3) + 1 = L + 4
        BY <1>6
      <4>2. wf'[(L + 3) + 1].t \in Nat /\ wf'[L + 3].t <= wf'[(L + 3) + 1].t
        BY <1>6, <1>16, <3>1, <4>1
      <4>3. OrderedTo(wf', (L + 3) + 1)
        BY <3>3, <4>1, <4>2, OneLater
      <4> QED
        BY <4>1, <4>3
    <3> QED
      BY <1>6, <3>1, <3>4 DEF InOrder, OrderedTo
  <2> QED
    BY <2>4, <2>5
<1>11. WaveTypes'
  <2>1. tx' \in TxRecord
    <3>1. tx' = [tx EXCEPT !.t = la, !.ack = FALSE]
      BY <1>1
    <3>2. tx \in TxRecord
      BY <1>2
    <3> QED
      BY <3>1, <3>2 DEF TxRecord
  <2>2. Len(wf') \in Nat \ {0}
    BY <1>17
  <2>3. loaded' \in BOOLEAN
    BY Zenon DEF EmitWord, WaveInv, WaveTypes
  <2> QED
    BY <1>1, <1>5, <2>1, <2>2, <2>3 DEF WaveTypes
<1>12. Shape'
  <2>1. script' # <<>> /\ tx'.ack = FALSE
    <3>1. script \in Seq(ScriptEntry) /\ script' = Append(script, e)
      BY <1>1 DEF WaveInv, WaveTypes, e
    <3> QED
      BY <1>4, <3>1
  <2>4. tx'.ack = (tx'.initial_ack /\ script' = <<>>)
    BY <2>1
  <2>2. CASE tx.ack
    <3>1. Len(wf') = 4 /\ L = 1 /\ Lead' = 4 /\ Emitted' = <<>> /\ Len(Emitted') = 0
      <4>1. Lead' = 4 /\ Lead = 1 /\ Emitted' = <<>> /\ Emitted = <<>>
        BY <1>5, <2>2
      <4>2. Len(Emitted) = 0 /\ Len(Emitted') = 0
        BY <4>1
      <4>3. L = 1
        BY <1>6, <4>1, <4>2
      <4>4. Len(wf') = 4
        BY <1>8, <2>2, <4>3
      <4> QED
        BY <4>1, <4>2, <4>3, <4>4
    <3>2. wf'[4].t = la /\ wf'[4].data = Neutral /\ wf'[4].ack = FALSE
      BY <1>15, <2>2, <3>1
    <3>3. wf'[1].ack /\ wf'[2].ack /\ wf'[3].ack
      <4>1. wf'[1] = wf[1] /\ wf[1].ack = tx.ack
        BY <1>6, <1>7, <3>1
      <4>2. wf'[L + 1].ack = tx.ack /\ wf'[L + 2].ack = TRUE
        BY <1>15, <2>2
      <4>3. wf'[2].ack = tx.ack /\ wf'[3].ack = TRUE
        BY <3>1, <4>2
      <4> QED
        BY <2>2, <4>1, <4>3
    <3>4. \A i \in 2 .. 4 : wf'[i - 1].ack
      <4>1. \A i \in 2 .. 4 : i - 1 = 1 \/ i - 1 = 2 \/ i - 1 = 3
        OBVIOUS
      <4> QED
        BY <3>3, <4>1
    <3> QED
      <4>1. (wf[Len(wf)].t <= tx.t)' /\ (wf[Len(wf)].data = Neutral)'
        BY <1>4, <3>1, <3>2
      <4>5. (wf[Len(wf)].ack = tx.ack)'
        BY <1>4, <3>1, <3>2
      <4>2. (Len(wf) = Lead + 4 * Len(Emitted))'
        BY <3>1
      <4>3. (\A i \in 2 .. Lead : wf[i - 1].ack \/ ~wf[i].ack)'
        BY <3>1, <3>4
      <4>4. (\A k \in 1 .. Len(Emitted) : TransactionAt(Lead + 4 * (k - 1), Emitted[k]))'
        BY <3>1
      <4> QED
        BY <2>4, <4>1, <4>2, <4>3, <4>4, <4>5, Zenon DEF Shape
  <2>3. CASE ~tx.ack
    <3>1. /\ Len(wf') = L + 4 /\ Lead' = Lead /\ Lead \in {1, 4}
          /\ Len(Emitted') = Len(Emitted) + 1 /\ Len(Emitted) \in Nat
      <4>1. Lead \in {1, 4}
        BY DEF Lead
      <4> QED
        BY <1>5, <1>8, <2>3, <4>1
    <3>2. wf'[L + 4].t = la /\ wf'[L + 4].data = Neutral /\ wf'[L + 4].ack = FALSE
      BY <1>15, <2>3
    <3>3. Len(wf') = Lead' + 4 * Len(Emitted')
      <4> DEFINE n == Len(Emitted)
                 m == Len(Emitted')
      <4>1. n \in Nat /\ m = n + 1 /\ L = Lead + 4 * n /\ Len(wf') = L + 4 /\ Lead' = Lead
        BY <1>6, <3>1
      <4>2. Lead \in Nat /\ L \in Nat
        BY <1>6, <3>1
      <4> HIDE DEF n, m
      <4>3. Len(wf') = Lead' + 4 * m
        BY <4>1, <4>2
      <4> QED
        BY <4>3 DEF m
    <3>4. \A i \in 2 .. Lead' : wf'[i - 1].ack \/ ~wf'[i].ack
      <4>1. \A i \in 2 .. Lead : i \in 1 .. L /\ i - 1 \in 1 .. L
        BY <1>6, <3>1
      <4>2. \A i \in 2 .. Lead : wf[i - 1].ack \/ ~wf[i].ack
        BY <1>1 DEF WaveInv, Shape
      <4> QED
        BY <1>7, <3>1, <4>1, <4>2
    <3>5. ASSUME NEW k \in 1 .. Len(Emitted)
          PROVE  TransactionAt(Lead + 4 * (k - 1), Emitted[k])'
      <4> DEFINE b == Lead + 4 * (k - 1)
      <4>1. b \in 1 .. L /\ b + 1 \in 1 .. L /\ b + 2 \in 1 .. L /\ b + 3 \in 1 .. L /\ b + 4 \in 1 .. L
        BY <1>6, <3>1
      <4>2. TransactionAt(b, Emitted[k])
        BY <1>1 DEF WaveInv, Shape
      <4>3. Emitted'[k] = Emitted[k] /\ (Lead + 4 * (k - 1))' = b
        BY <1>5, <2>3, <3>1
      <4> HIDE DEF b
      <4> QED
        BY <1>7, <4>1, <4>2, <4>3 DEF TransactionAt
    <3>6. ASSUME NEW k, k = Len(Emitted) + 1
          PROVE  TransactionAt(Lead + 4 * (k - 1), Emitted[k])'
      <4>1. Lead' + 4 * (k - 1) = L
        BY <1>6, <3>1, <3>6
      <4>2. Emitted'[k] = e
        BY <1>5, <2>3, <3>6
      <4>3. wf'[L].data = Neutral /\ ~wf'[L].ack
        BY <1>2, <1>6, <1>7, <2>3 DEF L
      <4> QED
        BY <1>3, <1>15, <2>3, <4>1, <4>2, <4>3 DEF TransactionAt
    <3>7. \A k \in 1 .. Len(Emitted') : TransactionAt(Lead + 4 * (k - 1), Emitted[k])'
      <4>1. \A k \in 1 .. Len(Emitted') : k \in 1 .. Len(Emitted) \/ k = Len(Emitted) + 1
        BY <3>1
      <4> QED
        BY <3>5, <3>6, <4>1
    <3> QED
      <4>1. (wf[Len(wf)].t <= tx.t)' /\ (wf[Len(wf)].data = Neutral)'
        BY <1>4, <3>1, <3>2
      <4>5. (wf[Len(wf)].ack = tx.ack)'
        BY <1>4, <3>1, <3>2
      <4> QED
        BY <2>4, <3>3, <3>4, <3>7, <4>1, <4>5, Zenon DEF Shape
  <2> QED
    BY <2>2, <2>3
<1> QED
  BY <1>10, <1>11, <1>12 DEF WaveInv

(* A line of a trace is not earlier than the last sample.                  *)
LEMMA LoadKeepsWave ==
  ASSUME WaveInv, LoadAnyLine
  PROVE  WaveInv'
<1> DEFINE L == Len(wf)
<1>1. PICK l \in Lines : LoadLine(Sample(Last(wf).t + l.dt, l.data, l.ack))
  BY DEF LoadAnyLine
<1> DEFINE s == Sample(wf[L].t + l.dt, l.data, l.ack)
<1>2. /\ wf \in Seq(SampleType) /\ L \in Nat \ {0} /\ wf[L].t \in Nat
      /\ \A i \in 1 .. L : wf[i].t \in Nat
  <2>1. wf \in Seq(SampleType) /\ L \in Nat \ {0}
    BY DEF WaveInv, WaveTypes
  <2>2. \A i \in 1 .. L : wf[i] \in SampleType
    BY <2>1
  <2> QED
    BY <2>1, <2>2 DEF SampleType
<1>3. s \in SampleType /\ s.t = wf[L].t + l.dt /\ l.dt \in Nat
  BY <1>2, ReplayAssumption DEF Sample, SampleType
<1>4. wf' = Append(wf, s) /\ loaded' = TRUE /\ UNCHANGED <<tx, script>>
  BY <1>1 DEF LoadLine, Last
<1> HIDE DEF s
<1>5. /\ wf' \in Seq(SampleType) /\ Len(wf') = L + 1 /\ wf'[L + 1] = s
      /\ \A i \in 1 .. L : wf'[i] = wf[i]
  BY <1>2, <1>3, <1>4
<1>6. WaveTypes'
  <2>1. Len(wf') \in Nat \ {0}
    BY <1>2, <1>5
  <2>2. loaded' \in BOOLEAN
    BY <1>4, Zenon
  <2> QED
    BY <1>4, <1>5, <2>1, <2>2 DEF WaveInv, WaveTypes
<1>7. InOrder'
  <2>1. \A i \in 1 .. L + 1 : i \in 1 .. L \/ i = L + 1
    BY <1>2
  <2>2. \A i \in 1 .. L : wf[i].t <= s.t
    BY <1>2, <1>3 DEF WaveInv, InOrder
  <2> QED
    BY <1>2, <1>3, <1>5, <2>1, <2>2 DEF WaveInv, InOrder
<1>8. Shape'
  BY <1>4 DEF Shape
<1> QED
  BY <1>6, <1>7, <1>8 DEF WaveInv

(* Every step keeps the invariant of the waveform.                         *)
LEMMA NextKeepsWave ==
  ASSUME WaveInv, [Next]_vars
  PROVE  WaveInv'
<1>1. ASSUME NEW word \in TxWords, EmitWord(word) PROVE WaveInv'
  BY <1>1, EmitKeepsWave
<1>2. CASE LoadAnyLine
  BY <1>2, LoadKeepsWave
<1>3. ASSUME UNCHANGED build PROVE WaveInv'
  <2>1. wf' = wf /\ tx' = tx /\ script' = script /\ loaded' = loaded
    BY <1>3 DEF build
  <2>2. Emitted' = Emitted /\ Lead' = Lead
    BY <2>1 DEF Emitted, Lead
  <2>3. \A b, f : TransactionAt(b, f)' = TransactionAt(b, f)
    BY <2>1 DEF TransactionAt
  <2>4. InOrder' /\ WaveTypes'
    BY <2>1 DEF WaveInv, InOrder, WaveTypes
  <2>5. Shape'
    BY <2>1, <2>2 DEF WaveInv, Shape, TransactionAt
  <2> QED
    BY <2>4, <2>5 DEF WaveInv
<1>4. CASE \E fault \in Faults, cfg \in Cfgs : Start(fault, cfg)
  BY <1>3, <1>4 DEF Start, build
<1>5. CASE Replay
  BY <1>3, <1>5 DEF Replay, SampleAborts, SamplePasses, SampleLatches, End, Advance
<1>6. CASE UNCHANGED vars
  BY <1>3, <1>6 DEF vars, build
<1> QED
  BY <1>1, <1>2, <1>4, <1>5, <1>6 DEF Next
(* The invariant of the waveform is stronger than the property.            *)
LEMMA WaveShows == WaveInv => WaveformIsFourPhase
<1> SUFFICES ASSUME WaveInv PROVE WaveformIsFourPhase
  OBVIOUS
<1> DEFINE L == Len(wf)
<1>1. wf \in Seq(SampleType) /\ L \in Nat \ {0}
  BY DEF WaveInv, WaveTypes
<1>2. \A i \in 1 .. L - 1 : wf[i].t <= wf[i + 1].t
  <2>1. \A i \in 1 .. L - 1 : i \in 1 .. L /\ i + 1 \in 1 .. L /\ i <= i + 1
    BY <1>1
  <2> QED
    BY <2>1 DEF WaveInv, InOrder
<1>3. ASSUME ~tx.initial_ack, ~loaded
      PROVE  /\ Len(wf) = 4 * Len(script) + 1
             /\ \A i \in 1 .. L - 1 : FourPhase(wf[i], wf[i + 1])
  <2>1. Lead = 1 /\ Emitted = script
    BY <1>3 DEF Lead, Emitted
  <2> DEFINE n == Len(script)
  <2>2. script \in Seq(ScriptEntry) /\ n \in Nat
    BY DEF WaveInv, WaveTypes
  <2>3. L = 1 + 4 * n /\ \A k \in 1 .. n : TransactionAt(1 + 4 * (k - 1), script[k])
    BY <1>3, <2>1 DEF WaveInv, Shape
  <2>4. \A k \in 1 .. n : script[k].word # Neutral
    <3>1. \A k \in 1 .. n : script[k] \in ScriptEntry
      BY <2>2
    <3> QED
      BY <3>1, ReplayAssumption DEF ScriptEntry
  <2> HIDE DEF L, n
  <2>5. ASSUME NEW i \in 1 .. L - 1 PROVE FourPhase(wf[i], wf[i + 1])
    <3> DEFINE k == (i - 1) \div 4 + 1
    <3>1. k \in 1 .. n /\ i \in (1 + 4 * (k - 1)) .. (4 + 4 * (k - 1))
      BY <2>2, <2>3
    <3> HIDE DEF k
    <3> DEFINE b == 1 + 4 * (k - 1)
    <3>2. TransactionAt(b, script[k]) /\ b \in Nat
      BY <2>3, <3>1
    <3>3. i \in b .. b + 3
      BY <3>1
    <3> HIDE DEF b
    <3>4. i = b \/ i = b + 1 \/ i = b + 2 \/ i = b + 3
      BY <3>2, <3>3
    <3>5. b + 1 + 1 = b + 2 /\ b + 2 + 1 = b + 3 /\ b + 3 + 1 = b + 4
      BY <3>2
    <3> QED
      BY <2>4, <3>1, <3>2, <3>4, <3>5 DEF TransactionAt, FourPhase
  <2> QED
    BY <2>2, <2>3, <2>5 DEF n, L
<1> QED
  BY <1>2, <1>3 DEF WaveformIsFourPhase

-----------------------------------------------------------------------------
(* The replay.                                                             *)

(* The sample at which the ACK of a word rises.                            *)
Rise(k) == Lead + 4 * (k - 1) + 2

RunRecord ==
  [ pc : {"build", "run", "done"}, calls : Nat, fault : FaultType, cfg : CfgType,
    i : Nat \ {0}, last_ack : BOOLEAN, have_last : BOOLEAN ]

(* A run goes over the samples in order, and stops early only when the     *)
(* injector aborts it.                                                     *)
RunTypes ==
  /\ run \in RunRecord
  /\ run.i <= Len(wf) + 1
  /\ (run.have_last <=> run.i > 1)
  /\ run.pc = "build" => run.i = 1
  /\ run.pc = "done" /\ run.fault.kind # "abort" => run.i = Len(wf) + 1
  /\ last_nonzero \in SUBSET BusWires
  /\ latched \in Seq(AnyRaw)

(* The injector has not held ACK yet.                                      *)
Healthy ==
  \/ run.fault.kind # "stuck_ack"
  \/ run.i = 1
  \/ wf[run.i - 1].t < run.fault.from

(* The word as aer_fault_glitch_data leaves it at the rise of its ACK.     *)
FaultedWord(k) ==
  IF /\ run.fault.kind = "glitch"
     /\ Emitted[k].rise \in run.fault.from .. run.fault.to
  THEN Xor(Emitted[k].word, run.fault.mask) ELSE Emitted[k].word

(* Until then the words latched are those whose rise has been passed.      *)
EdgesLatched ==
  /\ run.i > 1 => run.last_ack = wf[run.i - 1].ack
  /\ Len(latched) <= Len(Emitted)
  /\ \A k \in 1 .. Len(Emitted) : k <= Len(latched) <=> Rise(k) < run.i
  /\ \A k \in 1 .. Len(latched) : latched[k] = FaultedWord(k)

(* After that they are the words that rose before, and one more at most.   *)
HeldLatched ==
  /\ run.last_ack = run.fault.level
  /\ \E n \in 0 .. Len(Emitted) :
       /\ {k \in 1 .. Len(Emitted) : Emitted[k].rise < run.fault.from} = 1 .. n
       /\ Len(latched) \in n .. n + (IF run.fault.level THEN 1 ELSE 0)
       /\ \A k \in 1 .. n : latched[k] = Emitted[k].word

ReplayInv ==
  run.pc # "build" /\ ~loaded /\ run.cfg.latch_on_ack_rise =>
    /\ Healthy  => EdgesLatched
    /\ ~Healthy => HeldLatched

(* Which parameters an injector has.                                       *)
LEMMA FaultParameters ==
  ASSUME NEW f \in FaultType
  PROVE  /\ f.kind \in {"none", "drop_neutral", "abort", "stuck_ack", "glitch"}
         /\ f.kind = "stuck_ack" => f.from \in Nat /\ f.level \in BOOLEAN
         /\ f.kind = "glitch" => f.from \in Nat /\ f.to \in Nat /\ f.mask \in AnyRaw
BY DEF FaultType, AnyRaw

(* A word of the bus is a raw word.                                        *)
LEMMA BusIsRaw == SUBSET BusWires \subseteq AnyRaw
BY CodecAssumption DEF BusWires, Groups, AnyRaw

(* What the injector makes of the current sample.                          *)
LEMMA CurrentSample ==
  ASSUME WaveInv, RunTypes, Running
  PROVE  /\ run.i \in 1 .. Len(wf)
         /\ wf[run.i] \in SampleType
         /\ Current.data \in AnyRaw /\ Current.ack \in BOOLEAN
         /\ NewNonzero(run.fault, wf[run.i]) \in SUBSET BusWires
         /\ run.fault.kind # "stuck_ack" => Current.ack = wf[run.i].ack
         /\ run.fault.kind = "stuck_ack" =>
              /\ run.fault.from \in Nat
              /\ Current.data = wf[run.i].data
              /\ Current.ack = IF wf[run.i].t < run.fault.from THEN wf[run.i].ack
                               ELSE run.fault.level
         /\ run.fault.kind # "stuck_ack" /\ wf[run.i].data # Neutral =>
              Current.data = IF InWindow(run.fault, wf[run.i].t)
                             THEN Xor(wf[run.i].data, run.fault.mask) ELSE wf[run.i].data
<1> DEFINE s == wf[run.i]
           f == run.fault
<1>1. run.i \in 1 .. Len(wf) /\ f \in FaultType /\ last_nonzero \in SUBSET BusWires
  BY DEF RunTypes, Running, WaveInv, WaveTypes, RunRecord
<1>2. s \in SampleType
  BY <1>1 DEF WaveInv, WaveTypes
<1>3. s = [t |-> s.t, data |-> s.data, ack |-> s.ack]
      /\ s.t \in Nat /\ s.data \in SUBSET BusWires /\ s.ack \in BOOLEAN
  BY <1>2 DEF SampleType
<1>4. Current = Faulted(f, s)
  BY DEF Current
<1> HIDE DEF s, f
<1>5. /\ f.kind \in {"none", "drop_neutral", "abort", "stuck_ack", "glitch"}
      /\ f.kind = "stuck_ack" => f.from \in Nat /\ f.level \in BOOLEAN
      /\ f.kind = "glitch" => f.from \in Nat /\ f.to \in Nat /\ f.mask \in AnyRaw
  BY <1>1, FaultParameters
<1>6. NewNonzero(f, s) \in SUBSET BusWires
  BY <1>1, <1>3 DEF NewNonzero, Drops
<1>7. CASE f.kind = "stuck_ack"
  <2>1. ~InWindow(f, s.t) /\ Current = IF s.t >= f.from THEN [s EXCEPT !.ack = f.level] ELSE s
    BY <1>4, <1>7 DEF Faulted, Drops, InWindow
  <2>2. Current.data = s.data /\ Current.ack = IF s.t < f.from THEN s.ack ELSE f.level
    BY <1>3, <1>5, <1>7, <2>1
  <2> QED
    BY <1>1, <1>2, <1>3, <1>5, <1>6, <1>7, <2>2, BusIsRaw DEF s, f
<1>8. CASE f.kind = "drop_neutral"
  <2>1. /\ ~InWindow(f, s.t)
        /\ Current = IF f.enabled /\ s.data = Neutral THEN [s EXCEPT !.data = last_nonzero] ELSE s
    BY <1>4, <1>8 DEF Faulted, Drops, InWindow
  <2>2. /\ Current.ack = s.ack
        /\ Current.data = IF f.enabled /\ s.data = Neutral THEN last_nonzero ELSE s.data
    BY <1>3, <2>1
  <2> QED
    BY <1>1, <1>2, <1>3, <1>6, <1>8, <2>1, <2>2, BusIsRaw DEF s, f
<1>9. CASE f.kind \in {"none", "abort", "glitch"}
  <2>1. Current = IF InWindow(f, s.t) THEN [s EXCEPT !.data = Xor(@, f.mask)] ELSE s
    BY <1>4, <1>9 DEF Faulted, Drops
  <2>2. /\ Current.ack = s.ack
        /\ Current.data = IF InWindow(f, s.t) THEN Xor(s.data, f.mask) ELSE s.data
    BY <1>3, <2>1
  <2>3. InWindow(f, s.t) => Xor(s.data, f.mask) \in AnyRaw
    BY <1>3, <1>5, BusIsRaw DEF InWindow, Xor, AnyRaw
  <2>4. Current.data \in AnyRaw
    BY <1>3, <2>2, <2>3, BusIsRaw
  <2> QED
    BY <1>1, <1>2, <1>3, <1>6, <1>9, <2>2, <2>4 DEF s, f
<1> QED
  BY <1>5, <1>7, <1>8, <1>9

(* The rises of ACK that are edges are those of the words in Emitted. *)
LEMMA RiseIsEdge ==
  ASSUME WaveInv, ~loaded, NEW i \in 2 .. Len(wf)
  PROVE  (~wf[i - 1].ack /\ wf[i].ack) <=> \E k \in 1 .. Len(Emitted) : i = Rise(k)
<1> DEFINE n == Len(Emitted)
           L == Len(wf)
<1>1. Emitted \in Seq(ScriptEntry) /\ n \in Nat
  BY DEF WaveInv, WaveTypes, Emitted
<1>2. Lead \in {1, 4}
  BY DEF Lead
<1>3. L = Lead + 4 * n
  BY DEF WaveInv, Shape
<1>4. \A j \in 2 .. Lead : wf[j - 1].ack \/ ~wf[j].ack
  BY DEF WaveInv, Shape
<1>5. \A k \in 1 .. n : TransactionAt(Lead + 4 * (k - 1), Emitted[k])
  BY DEF WaveInv, Shape
<1>6. i \in Int /\ 2 <= i /\ i <= L
  BY <1>2, <1>3, <1>1
<1> HIDE DEF n, L
<1>7. CASE i <= Lead
  <2>1. \A k \in 1 .. n : i # Rise(k)
    BY <1>1, <1>2, <1>7 DEF Rise
  <2> QED
    BY <1>2, <1>4, <1>6, <1>7, <2>1 DEF n
<1>8. CASE i > Lead
  <2> DEFINE k == (i - Lead - 1) \div 4 + 1
             b == Lead + 4 * (k - 1)
  <2>1. k \in 1 .. n /\ b \in Nat /\ i \in b + 1 .. b + 4
    BY <1>1, <1>2, <1>3, <1>6, <1>8
  <2> HIDE DEF k
  <2>2. \A j \in 1 .. n : i = Rise(j) => j = k
    BY <1>2, <2>1 DEF Rise
  <2>3. (\E j \in 1 .. n : i = Rise(j)) <=> i = b + 2
    BY <1>2, <2>1, <2>2 DEF Rise
  <2>4. TransactionAt(b, Emitted[k])
    BY <1>5, <2>1
  <2> HIDE DEF b
  <2>5. i = b + 1 \/ i = b + 2 \/ i = b + 3 \/ i = b + 4
    BY <2>1
  <2>6. (b + 1) - 1 = b /\ (b + 2) - 1 = b + 1 /\ (b + 3) - 1 = b + 2 /\ (b + 4) - 1 = b + 3
        /\ b + 1 # b + 2 /\ b + 3 # b + 2 /\ b + 4 # b + 2
    BY <2>1
  <2>7. (~wf[i - 1].ack /\ wf[i].ack) <=> i = b + 2
    BY <2>4, <2>5, <2>6 DEF TransactionAt
  <2> QED
    BY <2>3, <2>7 DEF n
<1> QED
  BY <1>2, <1>6, <1>7, <1>8

(* The sample at the rise of a word shows that word.                       *)
LEMMA RiseSample ==
  ASSUME WaveInv, ~loaded, NEW k \in 1 .. Len(Emitted)
  PROVE  /\ Rise(k) \in 2 .. Len(wf) /\ Rise(k) \in Int
         /\ Emitted[k].word \in SUBSET BusWires /\ Emitted[k].word # Neutral
         /\ Emitted[k].rise \in Nat
         /\ wf[Rise(k)].data = Emitted[k].word
         /\ wf[Rise(k)].t = Emitted[k].rise
<1> DEFINE n == Len(Emitted)
<1>1. Emitted \in Seq(ScriptEntry) /\ n \in Nat
  BY DEF WaveInv, WaveTypes, Emitted
<1>2. Lead \in {1, 4}
  BY DEF Lead
<1>3. Len(wf) = Lead + 4 * n
  BY DEF WaveInv, Shape
<1>4. TransactionAt(Lead + 4 * (k - 1), Emitted[k])
  BY DEF WaveInv, Shape
<1>5. Emitted[k] \in ScriptEntry
  BY <1>1
<1>6. Rise(k) \in 2 .. Len(wf) /\ Rise(k) \in Int
  BY <1>1, <1>2, <1>3 DEF Rise
<1> QED
  BY <1>4, <1>5, <1>6, ReplayAssumption DEF Rise, TransactionAt, ScriptEntry

(* The samples rise in time, and so do the positions of the rises. *)
LEMMA RiseOrder ==
  ASSUME WaveInv, ~loaded, NEW k \in 1 .. Len(Emitted), NEW i \in 1 .. Len(wf)
  PROVE  /\ Rise(k) <= i => Emitted[k].rise <= wf[i].t
         /\ i <= Rise(k) => wf[i].t <= Emitted[k].rise
<1>1. Rise(k) \in 1 .. Len(wf) /\ wf[Rise(k)].t = Emitted[k].rise
  BY RiseSample
<1> HIDE DEF Rise
<1> QED
  BY <1>1 DEF WaveInv, InOrder

-----------------------------------------------------------------------------
(* Before the first run nothing is latched.                                *)
LEMMA InitReplay == Init => RunTypes /\ ReplayInv
<1> SUFFICES ASSUME Init PROVE RunTypes /\ ReplayInv
  OBVIOUS
<1>1. run = [pc |-> "build", calls |-> 0, fault |-> NoFault, cfg |-> CfgDefault,
             i |-> 1, last_ack |-> FALSE, have_last |-> FALSE]
      /\ last_nonzero = Neutral /\ latched = <<>> /\ Len(wf) \in Nat
  BY InitWaveInv DEF Init, WaveInv, WaveTypes
<1>2. NoFault \in FaultType /\ CfgDefault \in CfgType
  BY DEF NoFault, FaultType, CfgDefault, CfgType
<1>3. run \in RunRecord
  BY <1>1, <1>2 DEF RunRecord
<1>4. <<>> \in Seq(AnyRaw)
  OBVIOUS
<1>5. run.i = 1 /\ run.have_last = FALSE /\ run.pc = "build"
  BY <1>1
<1>8. /\ run.i <= Len(wf) + 1 /\ (run.have_last <=> run.i > 1)
      /\ last_nonzero \in SUBSET BusWires
  BY <1>1, <1>5 DEF Neutral
<1>6. RunTypes
  BY <1>1, <1>3, <1>4, <1>5, <1>8 DEF RunTypes
<1>7. ReplayInv
  BY <1>5 DEF ReplayInv
<1> QED
  BY <1>6, <1>7

(* Building the waveform and a finished run leave the replay alone. *)
LEMMA BuildKeepsReplay ==
  ASSUME WaveInv, WaveInv', RunTypes, run.pc = "build", Len(wf') >= Len(wf),
         UNCHANGED <<run, last_nonzero, latched>>
  PROVE  RunTypes' /\ ReplayInv'
<1>1. run.i = 1 /\ run.have_last = FALSE /\ Len(wf') \in Nat
  BY DEF RunTypes, WaveInv, WaveTypes
<1> QED
  BY <1>1 DEF RunTypes, ReplayInv

(* A run starts at the first sample with nothing latched.                  *)
LEMMA StartKeepsReplay ==
  ASSUME WaveInv, RunTypes, NEW f \in Faults, NEW cfg \in Cfgs, Start(f, cfg)
  PROVE  RunTypes' /\ ReplayInv'
<1>1. /\ run' = [pc |-> "run", calls |-> run.calls + 1, fault |-> f, cfg |-> cfg,
                 i |-> 1, last_ack |-> FALSE, have_last |-> FALSE]
      /\ latched' = <<>> /\ UNCHANGED <<wf, tx, script, loaded, last_nonzero>>
  BY DEF Start
<1>2. f \in FaultType /\ cfg \in CfgType
  BY ReplayAssumption
<1>3. run.calls + 1 \in Nat
  BY DEF RunTypes, RunRecord
<1>4. run' \in RunRecord
  BY <1>1, <1>2, <1>3 DEF RunRecord
<1>5. run'.i = 1 /\ run'.have_last = FALSE /\ run'.pc = "run"
  BY <1>1
<1>6. <<>> \in Seq(AnyRaw) /\ Len(<<>>) = 0
  OBVIOUS
<1>7. Len(wf) \in Nat \ {0}
  BY DEF WaveInv, WaveTypes
<1>11. run'.i <= Len(wf') + 1 /\ (run'.have_last <=> run'.i > 1)
  BY <1>1, <1>5, <1>7
<1>12. last_nonzero' \in SUBSET BusWires /\ latched' \in Seq(AnyRaw)
  BY <1>1, <1>6 DEF RunTypes
<1>8. RunTypes'
  BY <1>4, <1>5, <1>11, <1>12 DEF RunTypes
<1>9. ASSUME ~loaded' PROVE EdgesLatched'
  <2>1. \A k \in 1 .. Len(Emitted) : Rise(k) \in 2 .. Len(wf)
    BY <1>1, <1>9, RiseSample
  <2>2. Emitted' = Emitted /\ Lead' = Lead /\ Len(Emitted) \in Nat
    BY <1>1 DEF Emitted, Lead, WaveInv, WaveTypes
  <2> QED
    BY <1>1, <1>5, <1>6, <2>1, <2>2 DEF EdgesLatched, Rise
<1>10. Healthy'
  BY <1>5 DEF Healthy
<1> QED
  BY <1>8, <1>9, <1>10 DEF ReplayInv

(* One sample of the loop of aer_rx_replay_run, as far as the history of   *)
(* the latched words is concerned.                                         *)
ReplaySample ==
  /\ Running /\ Advance(Current)
  /\ latched' = IF AckRise(Current) THEN Append(latched, Current.data) ELSE latched

(* One sample further in the loop of aer_rx_replay_run.                    *)
LEMMA SampleKeepsTypes ==
  ASSUME WaveInv, RunTypes, ReplaySample
  PROVE  /\ RunTypes'
         /\ run'.i = run.i + 1 /\ run'.last_ack = Current.ack /\ run'.pc = "run" /\ run.pc = "run"
         /\ run'.fault = run.fault /\ run'.cfg = run.cfg
<1>1. /\ run' = [run EXCEPT !.i = @ + 1, !.last_ack = Current.ack, !.have_last = TRUE]
      /\ last_nonzero' = NewNonzero(run.fault, wf[run.i])
      /\ UNCHANGED <<wf, tx, script, loaded>>
  BY DEF ReplaySample, Advance, build
<1>2. /\ run \in RunRecord
      /\ run.pc = "run" /\ run.i \in 1 .. Len(wf) /\ latched \in Seq(AnyRaw)
  BY CurrentSample DEF RunTypes, ReplaySample, Running
<1>3. Current.data \in AnyRaw /\ Current.ack \in BOOLEAN
      /\ NewNonzero(run.fault, wf[run.i]) \in SUBSET BusWires
  BY CurrentSample DEF ReplaySample
<1>4. Len(wf) \in Nat
  BY DEF WaveInv, WaveTypes
<1>5. /\ run' \in RunRecord
      /\ run'.i = run.i + 1 /\ run'.last_ack = Current.ack /\ run'.have_last = TRUE
      /\ run'.pc = "run" /\ run'.fault = run.fault /\ run'.cfg = run.cfg
  <2> DEFINE a == Current.ack
             j == run.i + 1
  <2>1. a \in BOOLEAN /\ j \in Nat \ {0}
    BY <1>2, <1>3
  <2>2. run' = [run EXCEPT !.i = j, !.last_ack = a, !.have_last = TRUE]
    BY <1>1
  <2> HIDE DEF a, j
  <2>3. /\ run' \in RunRecord
        /\ run'.i = j /\ run'.last_ack = a /\ run'.have_last = TRUE
        /\ run'.pc = run.pc /\ run'.fault = run.fault /\ run'.cfg = run.cfg
    BY <1>2, <2>1, <2>2 DEF RunRecord
  <2> QED
    BY <1>2, <2>3 DEF a, j
<1>6. latched' \in Seq(AnyRaw)
  BY <1>2, <1>3 DEF ReplaySample
<1>7. run'.i <= Len(wf') + 1 /\ (run'.have_last <=> run'.i > 1)
  BY <1>1, <1>2, <1>4, <1>5
<1>8. last_nonzero' \in SUBSET BusWires
  BY <1>1, <1>3
<1>9. RunTypes'
  BY <1>5, <1>6, <1>7, <1>8 DEF RunTypes
<1> QED
  BY <1>2, <1>5, <1>9

(* The parameters of a stuck ACK say when the injector is not yet active.  *)
LEMMA HealthyBefore ==
  ASSUME WaveInv, RunTypes, Running,
         run.fault.kind # "stuck_ack" \/ wf[run.i].t < run.fault.from
  PROVE  Healthy /\ Current.ack = wf[run.i].ack
<1>1. run.i \in 1 .. Len(wf) /\ \A j \in 1 .. Len(wf) : wf[j] \in SampleType
  BY CurrentSample DEF WaveInv, WaveTypes
<1>2. run.fault.kind = "stuck_ack" => run.fault.from \in Nat
  BY CurrentSample
<1>3. Current.ack = wf[run.i].ack
  BY CurrentSample
<1>4. run.i > 1 => wf[run.i - 1].t <= wf[run.i].t /\ run.i - 1 \in 1 .. Len(wf)
  BY <1>1 DEF WaveInv, InOrder
<1>5. \A j \in 1 .. Len(wf) : wf[j].t \in Nat
  BY <1>1 DEF SampleType
<1> QED
  BY <1>1, <1>2, <1>3, <1>4, <1>5 DEF Healthy

(* While the injector leaves ACK alone, a word is latched at each edge.    *)
LEMMA HealthySample ==
  ASSUME WaveInv, RunTypes, ~loaded, run.cfg.latch_on_ack_rise, EdgesLatched, ReplaySample,
         run.fault.kind # "stuck_ack" \/ wf[run.i].t < run.fault.from
  PROVE  EdgesLatched'
<1> DEFINE n == Len(Emitted)
           m == Len(latched)
           i == run.i
<1>1. /\ i \in 1 .. Len(wf) /\ i \in Nat /\ Current.ack = wf[i].ack
      /\ latched \in Seq(AnyRaw) /\ Current.data \in AnyRaw /\ m \in Nat
  BY CurrentSample, HealthyBefore DEF ReplaySample, RunTypes
<1>2. /\ run'.i = i + 1 /\ run'.last_ack = wf[i].ack /\ run'.fault = run.fault
      /\ UNCHANGED <<wf, tx, script, loaded>>
  BY <1>1, SampleKeepsTypes DEF ReplaySample, Advance, build
<1>3. /\ Emitted' = Emitted /\ Lead' = Lead /\ Lead \in {1, 4}
      /\ \A k : Rise(k)' = Rise(k)
      /\ n \in Nat
  BY <1>2 DEF Emitted, Lead, Rise, WaveInv, WaveTypes
<1>4. m <= n /\ \A k \in 1 .. n : k <= m <=> Rise(k) < i
  BY DEF EdgesLatched
<1>5. \A k \in 1 .. n : Rise(k) \in 2 .. Len(wf) /\ Rise(k) \in Int
  BY RiseSample
<1>6. AckRise(Current) <=> \E k \in 1 .. n : i = Rise(k)
  <2>1. CASE i = 1
    BY <1>5, <2>1 DEF AckRise, RunTypes
  <2>2. CASE i > 1
    <3>1. run.have_last /\ run.last_ack = wf[i - 1].ack
      BY <2>2 DEF RunTypes, EdgesLatched
    <3>2. AckRise(Current) <=> ~wf[i - 1].ack /\ wf[i].ack
      BY <1>1, <3>1 DEF AckRise
    <3>3. i \in 2 .. Len(wf)
      BY <1>1, <2>2
    <3> QED
      BY <3>2, <3>3, RiseIsEdge
  <2> QED
    BY <1>1, <2>1, <2>2
<1>7. \A k \in 1 .. n : FaultedWord(k)' = FaultedWord(k)
  BY <1>2, <1>3 DEF FaultedWord
<1>8. \A k \in 1 .. m : latched[k] = FaultedWord(k)
  BY DEF EdgesLatched
<1>9. run'.i > 1 => run'.last_ack = wf'[run'.i - 1].ack
  BY <1>1, <1>2
<1>10. CASE ~AckRise(Current)
  <2>1. latched' = latched
    BY <1>10 DEF ReplaySample
  <2>2. \A k \in 1 .. n : Rise(k) < i <=> Rise(k) < i + 1
    BY <1>1, <1>5, <1>6, <1>10
  <2>3. (\A k \in 1 .. Len(Emitted) : k <= Len(latched) <=> Rise(k) < run.i)'
    BY <1>2, <1>3, <1>4, <2>1, <2>2
  <2>4. (\A k \in 1 .. Len(latched) : latched[k] = FaultedWord(k))'
    BY <1>3, <1>4, <1>7, <1>8, <2>1
  <2>5. (Len(latched) <= Len(Emitted))'
    BY <1>3, <1>4, <2>1
  <2> QED
    BY <1>9, <2>3, <2>4, <2>5 DEF EdgesLatched
<1>11. CASE AckRise(Current)
  <2>1. PICK k \in 1 .. n : i = Rise(k)
    BY <1>6, <1>11
  <2>2. k = m + 1
    <3>1. k > m
      BY <1>1, <1>3, <1>4, <2>1
    <3>2. k > 1 => k - 1 \in 1 .. n /\ Rise(k - 1) < i
      BY <1>3, <2>1 DEF Rise
    <3> QED
      BY <1>1, <1>3, <1>4, <3>1, <3>2
  <2>3. latched' = Append(latched, Current.data)
    BY <1>11 DEF ReplaySample
  <2>4. /\ Len(latched') = m + 1 /\ latched'[m + 1] = Current.data
        /\ \A j \in 1 .. m : latched'[j] = latched[j]
    BY <1>1, <2>3
  <2>5. \A j \in 1 .. n : j <= m + 1 <=> Rise(j) < i + 1
    <3>1. \A j \in 1 .. n : Rise(j) < i + 1 <=> j <= k
      BY <1>3, <2>1 DEF Rise
    <3> QED
      BY <2>2, <3>1
  <2>6. Current.data = FaultedWord(k)
    <3>1. /\ wf[i].data = Emitted[k].word /\ wf[i].t = Emitted[k].rise
          /\ wf[i].data # Neutral /\ wf[i].t \in Nat
      BY <2>1, RiseSample
    <3>2. run.fault \in FaultType
      BY DEF RunTypes, RunRecord
    <3>3. run.fault.kind = "glitch" => run.fault.from \in Nat /\ run.fault.to \in Nat
      BY <3>2, FaultParameters
    <3>4. InWindow(run.fault, wf[i].t) <=>
            run.fault.kind = "glitch" /\ Emitted[k].rise \in run.fault.from .. run.fault.to
      BY <3>1, <3>3 DEF InWindow
    <3>5. CASE run.fault.kind = "stuck_ack"
      BY <3>1, <3>5, CurrentSample DEF FaultedWord, ReplaySample
    <3>6. CASE run.fault.kind # "stuck_ack"
      BY <3>1, <3>4, <3>6, CurrentSample DEF FaultedWord, ReplaySample
    <3> QED
      BY <3>5, <3>6
  <2>7. (\A j \in 1 .. Len(Emitted) : j <= Len(latched) <=> Rise(j) < run.i)'
    BY <1>2, <1>3, <2>4, <2>5
  <2>8. (\A j \in 1 .. Len(latched) : latched[j] = FaultedWord(j))'
    <3>1. \A j \in 1 .. m + 1 : j \in 1 .. m \/ j = m + 1
      BY <1>1
    <3>2. \A j \in 1 .. m + 1 : j \in 1 .. n
      BY <1>1, <1>3, <2>1, <2>2
    <3> QED
      BY <1>7, <1>8, <2>2, <2>4, <2>6, <3>1, <3>2
  <2>9. (Len(latched) <= Len(Emitted))'
    BY <1>1, <1>3, <2>1, <2>2, <2>4
  <2> QED
    BY <1>9, <2>7, <2>8, <2>9 DEF EdgesLatched
<1> QED
  BY <1>10, <1>11

(* Once the injector holds ACK, one word more is latched at most: when the *)
(* level is high and ACK was low before.                                   *)
LEMMA StuckSample ==
  ASSUME WaveInv, RunTypes, ~loaded, run.cfg.latch_on_ack_rise, ReplaySample,
         Healthy => EdgesLatched, ~Healthy => HeldLatched,
         run.fault.kind = "stuck_ack", wf[run.i].t >= run.fault.from
  PROVE  ~Healthy' /\ HeldLatched'
<1> DEFINE n == Len(Emitted)
           m == Len(latched)
           i == run.i
           from == run.fault.from
           level == run.fault.level
<1>1. /\ i \in 1 .. Len(wf) /\ i \in Nat /\ wf[i].t \in Nat /\ from \in Nat
      /\ latched \in Seq(AnyRaw) /\ Current.data \in AnyRaw /\ m \in Nat
      /\ Current.ack = level /\ level \in BOOLEAN
  <2>1. i \in 1 .. Len(wf) /\ wf[i] \in SampleType /\ from \in Nat /\ Current.data \in AnyRaw
    BY CurrentSample DEF ReplaySample
  <2>2. wf[i].t \in Nat
    BY <2>1 DEF SampleType
  <2>3. Current.ack = level
    BY <2>1, <2>2, CurrentSample DEF ReplaySample
  <2>4. level \in BOOLEAN
    BY FaultParameters DEF RunTypes, RunRecord
  <2> QED
    BY <2>1, <2>2, <2>3, <2>4 DEF RunTypes
<1>2. /\ run'.i = i + 1 /\ run'.last_ack = level /\ run'.fault = run.fault
      /\ UNCHANGED <<wf, tx, script, loaded>>
  BY <1>1, SampleKeepsTypes DEF ReplaySample, Advance, build
<1>3. Emitted' = Emitted /\ n \in Nat
  BY <1>2 DEF Emitted, WaveInv, WaveTypes
<1>4. ~Healthy'
  BY <1>1, <1>2 DEF Healthy
<1>5. /\ m \in Nat
      /\ latched' \in Seq(AnyRaw)
      /\ AckRise(Current) => Len(latched') = m + 1 /\ level
      /\ ~AckRise(Current) => Len(latched') = m
      /\ \A k \in 1 .. m : latched'[k] = latched[k]
  <2>1. CASE AckRise(Current)
    <3>1. latched' = Append(latched, Current.data)
      BY <2>1 DEF ReplaySample
    <3>2. level
      BY <1>1, <2>1 DEF AckRise
    <3> QED
      BY <1>1, <2>1, <3>1, <3>2
  <2>2. CASE ~AckRise(Current)
    BY <1>1, <2>2 DEF ReplaySample
  <2> QED
    BY <2>1, <2>2
<1>6. CASE Healthy
  <2>1. EdgesLatched
    BY <1>6
  <2>2. m <= n /\ \A k \in 1 .. n : k <= m <=> Rise(k) < i
    BY <2>1 DEF EdgesLatched
  <2>3. \A k \in 1 .. n : Rise(k) \in 2 .. Len(wf) /\ Rise(k) \in Int /\ Emitted[k].rise \in Nat
    BY RiseSample
  <2>4. \A k \in 1 .. n : k <= m => Emitted[k].rise < from
    <3>1. SUFFICES ASSUME NEW k \in 1 .. n, k <= m PROVE Emitted[k].rise < from
      OBVIOUS
    <3>2. Rise(k) <= i - 1 /\ i - 1 \in 1 .. Len(wf)
      BY <1>1, <2>2, <2>3, <3>1
    <3>3. wf[i - 1].t < from
      BY <1>1, <1>6, <3>2 DEF Healthy
    <3>4. Emitted[k].rise <= wf[i - 1].t
      BY <3>2, RiseOrder
    <3>5. wf[i - 1].t \in Nat
      <4>1. wf[i - 1] \in SampleType
        BY <3>2 DEF WaveInv, WaveTypes
      <4> QED
        BY <4>1 DEF SampleType
    <3> QED
      BY <1>1, <2>3, <3>3, <3>4, <3>5
  <2>5. \A k \in 1 .. n : ~(k <= m) => ~(Emitted[k].rise < from)
    <3>1. SUFFICES ASSUME NEW k \in 1 .. n, ~(k <= m) PROVE ~(Emitted[k].rise < from)
      OBVIOUS
    <3>2. i <= Rise(k)
      BY <1>1, <2>2, <2>3, <3>1
    <3>3. wf[i].t <= Emitted[k].rise
      BY <1>1, <3>2, RiseOrder
    <3> QED
      BY <1>1, <2>3, <3>3
  <2>6. {k \in 1 .. n : Emitted[k].rise < from} = 1 .. m
    BY <1>1, <1>3, <2>2, <2>4, <2>5
  <2>7. \A k \in 1 .. m : latched[k] = Emitted[k].word
    BY <2>1 DEF EdgesLatched, FaultedWord
  <2>8. Len(latched') \in m .. m + (IF level THEN 1 ELSE 0)
    BY <1>1, <1>5
  <2>9. m \in 0 .. n
    BY <1>1, <1>3, <2>2
  <2> HIDE DEF n, m
  <2>10. \E q \in 0 .. n :
           /\ {k \in 1 .. n : Emitted[k].rise < from} = 1 .. q
           /\ Len(latched') \in q .. q + (IF level THEN 1 ELSE 0)
           /\ \A k \in 1 .. q : latched'[k] = Emitted[k].word
    BY <1>5, <2>6, <2>7, <2>8, <2>9
  <2> QED
    BY <1>2, <1>3, <1>4, <2>10 DEF HeldLatched, n
<1>7. CASE ~Healthy
  <2>1. HeldLatched
    BY <1>7
  <2>2. run.last_ack = level
    BY <2>1 DEF HeldLatched
  <2>3. ~AckRise(Current)
    BY <1>1, <2>2 DEF AckRise
  <2>4. latched' = latched
    BY <2>3 DEF ReplaySample
  <2> QED
    BY <1>2, <1>3, <1>4, <2>1, <2>4 DEF HeldLatched
<1> QED
  BY <1>6, <1>7

(* Each sample keeps the invariant of the run.                             *)
LEMMA SampleKeepsReplay ==
  ASSUME WaveInv, RunTypes, ReplayInv, ReplaySample
  PROVE  RunTypes' /\ ReplayInv'
<1>1. /\ RunTypes' /\ run'.i = run.i + 1 /\ run'.pc = "run" /\ run.pc = "run"
      /\ run'.fault = run.fault /\ run'.cfg = run.cfg /\ loaded' = loaded /\ wf' = wf
  BY SampleKeepsTypes DEF ReplaySample, Advance, build
<1>2. SUFFICES ASSUME ~loaded, run.cfg.latch_on_ack_rise
               PROVE  (Healthy' => EdgesLatched') /\ (~Healthy' => HeldLatched')
  BY <1>1 DEF ReplayInv
<1>3. (Healthy => EdgesLatched) /\ (~Healthy => HeldLatched)
  BY <1>1, <1>2 DEF ReplayInv
<1>4. run.i \in Nat /\ run.i \in 1 .. Len(wf) /\ wf[run.i] \in SampleType
  BY CurrentSample DEF ReplaySample
<1>5. CASE run.fault.kind = "stuck_ack" /\ wf[run.i].t >= run.fault.from
  BY <1>2, <1>3, <1>5, StuckSample
<1>6. CASE ~(run.fault.kind = "stuck_ack" /\ wf[run.i].t >= run.fault.from)
  <2>1. run.fault.kind # "stuck_ack" \/ wf[run.i].t < run.fault.from
    <3>1. wf[run.i].t \in Nat
      BY <1>4 DEF SampleType
    <3>2. run.fault.kind = "stuck_ack" => run.fault.from \in Nat
      BY CurrentSample DEF ReplaySample
    <3> QED
      BY <1>6, <3>1, <3>2
  <2>2. Healthy
    BY <2>1, HealthyBefore DEF ReplaySample
  <2>3. EdgesLatched'
    BY <1>2, <1>3, <2>1, <2>2, HealthySample
  <2>4. Healthy'
    BY <1>1, <1>4, <2>1 DEF Healthy
  <2> QED
    BY <2>3, <2>4
<1> QED
  BY <1>5, <1>6

(* The end of a run leaves what it latched.                                *)
LEMMA DoneKeepsReplay ==
  ASSUME WaveInv, RunTypes, ReplayInv, run.pc = "run",
         run.fault.kind = "abort" \/ run.i > Len(wf),
         run' = [run EXCEPT !.pc = "done"],
         UNCHANGED <<wf, tx, script, loaded, last_nonzero, latched>>
  PROVE  RunTypes' /\ ReplayInv'
<1>1. run \in RunRecord
  BY DEF RunTypes
<1>2. /\ run' \in RunRecord
      /\ run'.pc = "done" /\ run'.i = run.i /\ run'.fault = run.fault /\ run'.cfg = run.cfg
      /\ run'.last_ack = run.last_ack /\ run'.have_last = run.have_last
  BY <1>1 DEF RunRecord
<1>3. Len(wf) \in Nat /\ run.i \in Nat
  BY <1>1 DEF WaveInv, WaveTypes, RunRecord
<1>4. RunTypes'
  BY <1>2, <1>3 DEF RunTypes
<1>5. Emitted' = Emitted /\ Lead' = Lead
  BY DEF Emitted, Lead
<1>6. (Healthy' <=> Healthy) /\ (EdgesLatched => EdgesLatched') /\ (HeldLatched => HeldLatched')
  <2>1. Healthy' <=> Healthy
    BY <1>2 DEF Healthy
  <2>2. EdgesLatched => EdgesLatched'
    BY <1>2, <1>5 DEF EdgesLatched, Rise, FaultedWord
  <2>3. HeldLatched => HeldLatched'
    BY <1>2, <1>5 DEF HeldLatched
  <2> QED
    BY <2>1, <2>2, <2>3
<1>7. ReplayInv'
  BY <1>2, <1>6 DEF ReplayInv
<1> QED
  BY <1>4, <1>7

(* Every step keeps the invariant of the run.                              *)
LEMMA NextKeepsReplay ==
  ASSUME WaveInv, RunTypes, ReplayInv, [Next]_vars
  PROVE  RunTypes' /\ ReplayInv'
<1>1. WaveInv'
  BY NextKeepsWave
<1>2. ASSUME NEW word \in TxWords, EmitWord(word) PROVE RunTypes' /\ ReplayInv'
  <2>1. Len(wf') >= Len(wf)
    <3>1. /\ tx.ack  => Len(wf') = Len(wf) + 3
          /\ ~tx.ack => Len(wf') = Len(wf) + 4
      BY <1>2, EmitAppends
    <3>2. Len(wf) \in Nat
      BY DEF WaveInv, WaveTypes
    <3> QED
      BY <3>1, <3>2
  <2> QED
    BY <1>1, <1>2, <2>1, BuildKeepsReplay DEF EmitWord
<1>3. CASE LoadAnyLine
  <2>1. Len(wf') >= Len(wf)
    BY <1>3 DEF LoadAnyLine, LoadLine, WaveInv, WaveTypes
  <2> QED
    BY <1>1, <1>3, <2>1, BuildKeepsReplay DEF LoadAnyLine, LoadLine
<1>4. ASSUME NEW f \in Faults, NEW cfg \in Cfgs, Start(f, cfg) PROVE RunTypes' /\ ReplayInv'
  BY <1>4, StartKeepsReplay
<1>5. CASE SampleAborts
  BY <1>5, DoneKeepsReplay DEF SampleAborts, Running, Aborts, build
<1>6. CASE SamplePasses
  BY <1>6, SampleKeepsReplay DEF SamplePasses, ReplaySample
<1>7. CASE SampleLatches
  BY <1>7, SampleKeepsReplay DEF SampleLatches, ReplaySample
<1>8. CASE End
  BY <1>8, DoneKeepsReplay DEF End, build
<1>9. CASE UNCHANGED vars
  <2>1. UNCHANGED <<wf, tx, script, loaded, run, last_nonzero, latched>>
    BY <1>9 DEF vars
  <2>2. Emitted' = Emitted /\ Lead' = Lead
    BY <2>1 DEF Emitted, Lead
  <2>3. (Healthy' <=> Healthy) /\ (EdgesLatched => EdgesLatched') /\ (HeldLatched => HeldLatched')
    <3>1. Healthy' <=> Healthy
      BY <2>1 DEF Healthy
    <3>2. EdgesLatched => EdgesLatched'
      BY <2>1, <2>2 DEF EdgesLatched, Rise, FaultedWord
    <3>3. HeldLatched => HeldLatched'
      BY <2>1, <2>2 DEF HeldLatched
    <3> QED
      BY <3>1, <3>2, <3>3
  <2> QED
    BY <2>1, <2>3 DEF RunTypes, ReplayInv
<1> QED
  BY <1>2, <1>3, <1>4, <1>5, <1>6, <1>7, <1>8, <1>9 DEF Next, Replay

-----------------------------------------------------------------------------
(* The invariant of the run is stronger than the two properties.           *)
LEMMA ReplayShows ==
  ASSUME WaveInv, RunTypes, ReplayInv
  PROVE  ReplaysTheWords /\ StuckAckStops
<1> DEFINE n == Len(Emitted)
<1>1. n \in Nat /\ latched \in Seq(AnyRaw)
  BY DEF RunTypes, WaveInv, WaveTypes, Emitted
<1>2. ASSUME Finished, run.fault.kind # "abort", Healthy
      PROVE  /\ Len(latched) = n
             /\ \A k \in 1 .. n : latched[k] = FaultedWord(k)
  <2>1. EdgesLatched /\ run.i = Len(wf) + 1
    BY <1>2 DEF ReplayInv, RunTypes, Finished
  <2>2. \A k \in 1 .. n : Rise(k) < run.i
    BY <1>2, <2>1, RiseSample DEF Finished, WaveInv, WaveTypes
  <2>3. Len(latched) = n
    BY <1>1, <2>1, <2>2 DEF EdgesLatched
  <2> QED
    BY <2>1, <2>3 DEF EdgesLatched
<1>3. ReplaysTheWords
  <2>1. SUFFICES ASSUME Finished, run.fault.kind \in {"none", "drop_neutral", "glitch"}
                 PROVE  latched = [k \in 1 .. n |-> FaultedWord(k)]
    BY DEF ReplaysTheWords, FaultedWord
  <2>2. Healthy
    BY <2>1 DEF Healthy
  <2>3. Len(latched) = n /\ \A k \in 1 .. n : latched[k] = FaultedWord(k)
    BY <1>2, <2>1, <2>2
  <2> HIDE DEF n
  <2> QED
    BY <1>1, <2>3
<1>4. StuckAckStops
  <2>1. SUFFICES ASSUME Finished, run.fault.kind = "stuck_ack"
                 PROVE  LET q == RisesBefore(run.fault.from)
                        IN /\ Len(latched) \in q .. q + (IF run.fault.level THEN 1 ELSE 0)
                           /\ \A k \in 1 .. q : latched[k] = Emitted[k].word
    BY DEF StuckAckStops
  <2>2. \E q \in Nat :
           /\ {k \in 1 .. n : Emitted[k].rise < run.fault.from} = 1 .. q
           /\ Len(latched) \in q .. q + (IF run.fault.level THEN 1 ELSE 0)
           /\ \A k \in 1 .. q : latched[k] = Emitted[k].word
    <3>1. CASE Healthy
      <4>1. Len(latched) = n /\ \A k \in 1 .. n : latched[k] = Emitted[k].word
        BY <1>2, <2>1, <3>1 DEF FaultedWord
      <4>2. run.i = Len(wf) + 1 /\ Len(wf) \in Nat \ {0}
        BY <2>1 DEF RunTypes, Finished, WaveInv, WaveTypes
      <4>3. wf[Len(wf)].t < run.fault.from /\ Len(wf) \in 1 .. Len(wf)
        BY <2>1, <3>1, <4>2 DEF Healthy
      <4>4. run.fault.from \in Nat /\ wf[Len(wf)].t \in Nat
        <5>1. wf[Len(wf)] \in SampleType
          BY <4>3 DEF WaveInv, WaveTypes
        <5> QED
          BY <2>1, <5>1, FaultParameters DEF RunTypes, SampleType, RunRecord
      <4>5. \A k \in 1 .. n : Emitted[k].rise < run.fault.from
        <5>1. \A k \in 1 .. n : Emitted[k].rise <= wf[Len(wf)].t /\ Emitted[k].rise \in Nat
          BY <2>1, <4>3, RiseSample, RiseOrder DEF Finished
        <5> QED
          BY <4>3, <4>4, <5>1
      <4>6. {k \in 1 .. n : Emitted[k].rise < run.fault.from} = 1 .. n
        BY <4>5
      <4> HIDE DEF n
      <4>7. n \in n .. n + (IF run.fault.level THEN 1 ELSE 0)
        BY <1>1
      <4> QED
        BY <1>1, <4>1, <4>6, <4>7
    <3>2. CASE ~Healthy
      <4>1. HeldLatched
        BY <2>1, <3>2 DEF ReplayInv, Finished
      <4> QED
        BY <1>1, <4>1 DEF HeldLatched
    <3> QED
      BY <3>1, <3>2
  <2>3. PICK q \in Nat :
           /\ {k \in 1 .. n : Emitted[k].rise < run.fault.from} = 1 .. q
           /\ Len(latched) \in q .. q + (IF run.fault.level THEN 1 ELSE 0)
           /\ \A k \in 1 .. q : latched[k] = Emitted[k].word
    BY <2>2
  <2>4. Cardinality(1 .. q) = q
    BY FS_Interval
  <2>5. RisesBefore(run.fault.from) = q
    BY <2>3, <2>4 DEF RisesBefore
  <2> QED
    BY <2>3, <2>5
<1> QED
  BY <1>3, <1>4

-----------------------------------------------------------------------------
(* The statistics.                                                         *)

(* The types of what a run counts, and of the assembler it counts for.     *)
BurstTypes ==
  /\ burst \in BurstType
  /\ events \in Seq(Seq(EventType))
  /\ reported \in Nat
  /\ st \in [DOMAIN ZeroStats -> Nat]

(* The assembler's counter goes on from run to run.                        *)
CounterRuns == burst.events_emitted = reported % CounterMod

(* A run that was not aborted has counted what it latched.                 *)
StatsInv ==
  ~(run.pc = "done" /\ run.i <= Len(wf)) =>
     /\ st.samples_seen = Counted(run.i - 1)
     /\ st.ack_rises = Counted(Len(latched)) /\ st.words_latched = Counted(Len(latched))
     /\ st.codec_ok = Counted(Cardinality(CodeWordsAt))
     /\ st.codec_invalid = Counted(Len(latched) - Cardinality(CodeWordsAt))
     /\ st.codec_neutral = Counted(Cardinality(NeutralsAt))
     /\ st.protocol_issues = IF run.cfg.count_neutral_as_error
                             THEN Counted(Cardinality(NeutralsAt)) ELSE 0
     /\ run.pc = "done" => st.events_emitted = burst.events_emitted

CountInv == BurstTypes /\ CounterRuns /\ StatsInv

(* A counter that wraps counts on modulo its range. *)
LEMMA PlusCounts ==
  /\ Counted(0) = 0
  /\ \A m, n \in Nat : /\ Plus(m, n) \in Nat
                       /\ Plus(Counted(m), n) = Counted(m + n)
<1>1. CounterMod \in Nat \ {0}
  BY BurstAssumption
<1>2. 0 % CounterMod = 0 /\ \A m, n \in Nat : (m + n) % CounterMod \in Nat
  BY <1>1
<1>3. \A m, n \in Nat : ((m % CounterMod) + n) % CounterMod = (m + n) % CounterMod
  BY CountOn
<1> QED
  BY <1>2, <1>3 DEF Plus, Counted

(* A word that is latched is counted once in each set of words it is in.   *)
LEMMA OneMoreAt ==
  ASSUME NEW n \in Nat, NEW A \in SUBSET (1 .. n)
  PROVE  /\ Cardinality(A) \in Nat /\ Cardinality(A) <= n
         /\ Cardinality(A \cup {n + 1}) = Cardinality(A) + 1
<1>1. IsFiniteSet(1 .. n) /\ Cardinality(1 .. n) = n
  BY FS_Interval
<1>2. IsFiniteSet(A) /\ Cardinality(A) <= n
  BY <1>1, FS_Subset
<1>3. n + 1 \notin A
  OBVIOUS
<1> QED
  BY <1>2, <1>3, FS_AddElement, FS_CardinalityType

(* The sets of words that are counted when one more is latched.            *)
LEMMA LatchCounts ==
  ASSUME latched \in Seq(AnyRaw), NEW raw \in AnyRaw, latched' = Append(latched, raw)
  PROVE  /\ Len(latched') = Len(latched) + 1 /\ Len(latched) \in Nat
         /\ Cardinality(CodeWordsAt) \in Nat /\ Cardinality(NeutralsAt) \in Nat
         /\ Cardinality(CodeWordsAt) <= Len(latched)
         /\ Cardinality(CodeWordsAt') = Cardinality(CodeWordsAt) + (IF Valid(raw) THEN 1 ELSE 0)
         /\ Cardinality(NeutralsAt') = Cardinality(NeutralsAt)
                                         + (IF raw \cap BusWires = Neutral THEN 1 ELSE 0)
<1> DEFINE n == Len(latched)
<1>1. /\ n \in Nat /\ Len(latched') = n + 1 /\ latched'[n + 1] = raw
      /\ \A k \in 1 .. n : latched'[k] = latched[k]
  OBVIOUS
<1>2. 1 .. n + 1 = (1 .. n) \cup {n + 1}
  BY <1>1
<1>3. CodeWordsAt \in SUBSET (1 .. n) /\ NeutralsAt \in SUBSET (1 .. n)
  BY DEF CodeWordsAt, NeutralsAt
<1>4. CodeWordsAt' = IF Valid(raw) THEN CodeWordsAt \cup {n + 1} ELSE CodeWordsAt
  <2>1. CodeWordsAt' = {k \in (1 .. n) \cup {n + 1} : Valid(latched'[k])}
    BY <1>1, <1>2 DEF CodeWordsAt, Valid
  <2> QED
    BY <1>1, <2>1 DEF CodeWordsAt
<1>5. NeutralsAt' = IF raw \cap BusWires = Neutral THEN NeutralsAt \cup {n + 1} ELSE NeutralsAt
  <2>1. NeutralsAt' = {k \in (1 .. n) \cup {n + 1} : latched'[k] \cap BusWires = Neutral}
    BY <1>1, <1>2 DEF NeutralsAt
  <2> QED
    BY <1>1, <2>1 DEF NeutralsAt
<1>6. /\ Cardinality(CodeWordsAt) \in Nat /\ Cardinality(NeutralsAt) \in Nat
      /\ Cardinality(CodeWordsAt) <= n
      /\ Cardinality(CodeWordsAt \cup {n + 1}) = Cardinality(CodeWordsAt) + 1
      /\ Cardinality(NeutralsAt \cup {n + 1}) = Cardinality(NeutralsAt) + 1
  BY <1>1, <1>3, OneMoreAt
<1> HIDE DEF n
<1>7. Cardinality(CodeWordsAt') = Cardinality(CodeWordsAt) + (IF Valid(raw) THEN 1 ELSE 0)
  BY <1>4, <1>6
<1>8. Cardinality(NeutralsAt') = Cardinality(NeutralsAt)
                                   + (IF raw \cap BusWires = Neutral THEN 1 ELSE 0)
  BY <1>5, <1>6
<1> QED
  BY <1>1, <1>6, <1>7, <1>8 DEF n

(* The fields of aer_rx_replay_stats_t.                                    *)
StatsFields == {"samples_seen", "ack_rises", "words_latched", "codec_ok", "codec_invalid",
                "codec_neutral", "protocol_issues", "bursts_completed", "events_emitted"}

(* memset of the statistics.                                               *)
LEMMA ZeroStatsTyped == DOMAIN ZeroStats = StatsFields /\ ZeroStats \in [StatsFields -> Nat]
BY DEF ZeroStats, StatsFields

(* A run that has latched nothing has nothing to count.                    *)
LEMMA NothingLatched ==
  ASSUME latched = <<>>
  PROVE  Len(latched) = 0 /\ Cardinality(CodeWordsAt) = 0 /\ Cardinality(NeutralsAt) = 0
<1>1. Len(latched) = 0 /\ CodeWordsAt = {} /\ NeutralsAt = {}
  BY DEF CodeWordsAt, NeutralsAt
<1> QED
  BY <1>1, FS_EmptySet

(* Before the first run all counters are 0.                                *)
LEMMA InitCounts == Init => CountInv
<1> SUFFICES ASSUME Init PROVE CountInv
  OBVIOUS
<1>1. /\ burst = [ state |-> ExpectRow, row |-> 0,
                   cols |-> [i \in Slots |-> Unwritten], col_count |-> 0,
                   err_flags |-> {}, bursts_completed |-> 0, events_emitted |-> 0 ]
      /\ latched = <<>> /\ events = <<>> /\ reported = 0 /\ st = ZeroStats
      /\ run = [pc |-> "build", calls |-> 0, fault |-> NoFault, cfg |-> CfgDefault,
                i |-> 1, last_ack |-> FALSE, have_last |-> FALSE]
  BY DEF Init, BurstInit
<1>2. burst \in BurstType
  BY <1>1, BurstAssumption, CfgAssumption DEF BurstType, ExpectRow, Slots, Indices, Unwritten, BurstErrs
<1>3. <<>> \in Seq(Seq(EventType))
  OBVIOUS
<1>4. BurstTypes
  BY <1>1, <1>2, <1>3, ZeroStatsTyped DEF BurstTypes
<1>5. CounterRuns
  <2>1. burst.events_emitted = 0
    BY <1>1
  <2>2. 0 % CounterMod = 0
    BY BurstAssumption
  <2> QED
    BY <1>1, <2>1, <2>2 DEF CounterRuns
<1>6. StatsInv
  <2>1. run.i - 1 = 0 /\ 0 - 0 = 0 /\ run.pc = "build"
    BY <1>1
  <2> QED
    BY <1>1, <2>1, NothingLatched, PlusCounts DEF StatsInv, ZeroStats, CfgDefault
<1> QED
  BY <1>4, <1>5, <1>6 DEF CountInv

(* A run starts with its own statistics at 0 and the assembler's left.     *)
LEMMA StartCounts ==
  ASSUME WaveInv, RunTypes, CountInv, NEW f \in Faults, NEW cfg \in Cfgs, Start(f, cfg)
  PROVE  CountInv'
<1>1. /\ run' = [pc |-> "run", calls |-> run.calls + 1, fault |-> f, cfg |-> cfg,
                 i |-> 1, last_ack |-> FALSE, have_last |-> FALSE]
      /\ latched' = <<>> /\ events' = <<>> /\ reported' = reported /\ st' = ZeroStats
      /\ burst' = [burst EXCEPT !.state = ExpectRow, !.row = 0, !.col_count = 0, !.err_flags = {},
                                !.bursts_completed = burst.bursts_completed,
                                !.events_emitted   = burst.events_emitted]
  BY DEF Start, ResetAssembler, BurstReset
<1>2. burst \in BurstType /\ reported \in Nat
  BY DEF CountInv, BurstTypes
<1>3. burst' \in BurstType /\ burst'.events_emitted = burst.events_emitted
  <2>1. 0 \in 0 .. Cols /\ 0 \in Indices
    BY BurstAssumption, CfgAssumption DEF Indices
  <2> QED
    BY <1>1, <1>2, <2>1 DEF BurstType
<1>4. <<>> \in Seq(Seq(EventType))
  OBVIOUS
<1>5. BurstTypes'
  BY <1>1, <1>2, <1>3, <1>4, ZeroStatsTyped DEF BurstTypes
<1>6. CounterRuns'
  BY <1>1, <1>3 DEF CountInv, CounterRuns
<1>7. Len(latched') = 0 /\ Cardinality(CodeWordsAt') = 0 /\ Cardinality(NeutralsAt') = 0
  <2>1. Len(latched') = 0 /\ CodeWordsAt' = {} /\ NeutralsAt' = {}
    BY <1>1 DEF CodeWordsAt, NeutralsAt
  <2> QED
    BY <2>1, FS_EmptySet
<1>8. run'.i = 1 /\ run'.pc = "run" /\ run'.cfg = cfg
  BY <1>1
<1>9. StatsInv'
  <2>1. run'.i - 1 = 0 /\ 0 - 0 = 0
    BY <1>8
  <2> QED
    BY <1>1, <1>7, <1>8, <2>1, PlusCounts DEF StatsInv, ZeroStats, Counted
<1> QED
  BY <1>5, <1>6, <1>9 DEF CountInv

(* A sample without an edge is counted as a sample, and as nothing else.   *)
LEMMA PassCounts ==
  ASSUME WaveInv, RunTypes, CountInv, SamplePasses
  PROVE  CountInv'
<1>1. /\ run'.i = run.i + 1 /\ run'.pc = "run" /\ run.pc = "run" /\ run'.cfg = run.cfg
      /\ run.i \in Nat
  BY SampleKeepsTypes DEF SamplePasses, ReplaySample, RunTypes, RunRecord
<1>2. /\ st' = [st EXCEPT !.samples_seen = Plus(@, 1)]
      /\ UNCHANGED <<burst, latched, events, reported, wf>>
  BY DEF SamplePasses, Advance, build
<1>3. st \in [StatsFields -> Nat]
  BY ZeroStatsTyped DEF CountInv, BurstTypes
<1>4. /\ st' \in [StatsFields -> Nat]
      /\ st'.samples_seen = Plus(st.samples_seen, 1)
      /\ \A x \in StatsFields \ {"samples_seen"} : st'[x] = st[x]
  <2> DEFINE v == Plus(st.samples_seen, 1)
  <2>1. v \in Nat
    BY <1>3, PlusCounts DEF StatsFields
  <2>2. st' = [st EXCEPT !.samples_seen = v]
    BY <1>2
  <2> HIDE DEF v
  <2>3. /\ st' \in [StatsFields -> Nat] /\ st'.samples_seen = v
        /\ \A x \in StatsFields \ {"samples_seen"} : st'[x] = st[x]
    BY <1>3, <2>1, <2>2 DEF StatsFields
  <2> QED
    BY <2>3 DEF v
<1>5. BurstTypes' /\ CounterRuns'
  BY <1>2, <1>4, ZeroStatsTyped DEF CountInv, BurstTypes, CounterRuns
<1>6. CodeWordsAt' = CodeWordsAt /\ NeutralsAt' = NeutralsAt
  BY <1>2 DEF CodeWordsAt, NeutralsAt
<1>7. /\ st'.ack_rises = st.ack_rises /\ st'.words_latched = st.words_latched
      /\ st'.codec_ok = st.codec_ok /\ st'.codec_invalid = st.codec_invalid
      /\ st'.codec_neutral = st.codec_neutral /\ st'.protocol_issues = st.protocol_issues
  BY <1>4 DEF StatsFields
<1>8. StatsInv'
  <2>1. run.i \in Nat \ {0}
    BY DEF RunTypes, RunRecord
  <2>2. run.i - 1 \in Nat /\ (run.i - 1) + 1 = run'.i - 1
    BY <1>1, <2>1
  <2>3. st.samples_seen = Counted(run.i - 1)
    BY <1>1 DEF CountInv, StatsInv
  <2>4. st'.samples_seen = Counted(run'.i - 1)
    <3>1. 1 \in Nat
      OBVIOUS
    <3> QED
      BY <1>4, <2>2, <2>3, <3>1, PlusCounts, Zenon
  <2> QED
    BY <1>1, <1>2, <1>6, <1>7, <2>4 DEF CountInv, StatsInv, Counted
<1> QED
  BY <1>5, <1>8 DEF CountInv

(* The NEUTRAL flag says that the word is 0 under AER_RAW_MASK.            *)
LEMMA NeutralFlag ==
  ASSUME NEW raw
  PROVE  "NEUTRAL" \in Decode(raw).err_flags <=> raw \cap BusWires = Neutral
BY DEF Decode, ErrFlags, Neutral

(* A latched word is counted by what aer_decode_word says of it.           *)
LEMMA LatchKeepsCounts ==
  ASSUME WaveInv, RunTypes, CountInv, SampleLatches
  PROVE  CountInv'
<1> DEFINE raw  == Current.data
           word == Decode(Current.data)
           neutral == IF "NEUTRAL" \in word.err_flags THEN 1 ELSE 0
<1>1. /\ run'.i = run.i + 1 /\ run'.pc = "run" /\ run.pc = "run" /\ run'.cfg = run.cfg
      /\ run.i \in Nat /\ raw \in AnyRaw /\ latched \in Seq(AnyRaw)
  BY SampleKeepsTypes, CurrentSample DEF SampleLatches, ReplaySample, RunTypes
<1>2. /\ st' = LatchStats(word) /\ latched' = Append(latched, raw)
      /\ wf' = wf
      /\ \/ UNCHANGED <<burst, emitted, reported>> /\ events' = Append(events, <<>>)
         \/ /\ Feed(word) /\ events' = Append(events, emitted')
            /\ reported' = reported + Len(emitted')
  BY DEF SampleLatches, Advance, build
<1>3. /\ burst \in BurstType /\ events \in Seq(Seq(EventType)) /\ reported \in Nat
      /\ st \in [StatsFields -> Nat]
  BY ZeroStatsTyped DEF CountInv, BurstTypes
<1>4. /\ word.ok = Valid(raw) /\ neutral = IF raw \cap BusWires = Neutral THEN 1 ELSE 0
  BY NeutralFlag DEF Decode
<1>5. /\ Len(latched') = Len(latched) + 1 /\ Len(latched) \in Nat
      /\ Cardinality(CodeWordsAt) \in Nat /\ Cardinality(NeutralsAt) \in Nat
      /\ Cardinality(CodeWordsAt) <= Len(latched)
      /\ Cardinality(CodeWordsAt') = Cardinality(CodeWordsAt) + (IF Valid(raw) THEN 1 ELSE 0)
      /\ Cardinality(NeutralsAt') = Cardinality(NeutralsAt) + neutral
  BY <1>1, <1>2, <1>4, LatchCounts
<1>6. /\ burst' \in BurstType /\ events' \in Seq(Seq(EventType)) /\ reported' \in Nat
      /\ burst'.events_emitted = reported' % CounterMod
  <2>1. burst.events_emitted = reported % CounterMod
    BY DEF CountInv, CounterRuns
  <2>2. CASE UNCHANGED <<burst, emitted, reported>> /\ events' = Append(events, <<>>)
    <3>1. <<>> \in Seq(EventType)
      OBVIOUS
    <3>2. events' \in Seq(Seq(EventType))
      BY <1>3, <2>2, <3>1
    <3> QED
      BY <1>3, <2>1, <2>2, <3>2
  <2>3. CASE /\ Feed(word) /\ events' = Append(events, emitted')
             /\ reported' = reported + Len(emitted')
    <3>1. burst' \in BurstType
      BY <1>3, <2>3, DecodedIndex, FeedKeepsTypes
    <3>2. /\ emitted' \in Seq(EventType)
          /\ burst'.events_emitted = (burst.events_emitted + Len(emitted')) % CounterMod
      BY <1>3, <2>3, FeedCounts
    <3>3. Len(emitted') \in Nat /\ events' \in Seq(Seq(EventType))
      BY <1>3, <2>3, <3>2
    <3>4. ((reported % CounterMod) + Len(emitted')) % CounterMod
            = (reported + Len(emitted')) % CounterMod
      BY <1>3, <3>3, CountOn
    <3> QED
      BY <1>3, <2>1, <2>3, <3>1, <3>2, <3>3, <3>4
  <2> QED
    BY <1>2, <2>2, <2>3
<1>7. /\ st' \in [StatsFields -> Nat]
      /\ st'.samples_seen = Plus(st.samples_seen, 1)
      /\ st'.ack_rises = Plus(st.ack_rises, 1)
      /\ st'.words_latched = Plus(st.words_latched, 1)
      /\ st'.codec_ok = Plus(st.codec_ok, IF Valid(raw) THEN 1 ELSE 0)
      /\ st'.codec_invalid = Plus(st.codec_invalid, IF Valid(raw) THEN 0 ELSE 1)
      /\ st'.codec_neutral = Plus(st.codec_neutral, neutral)
      /\ st'.protocol_issues = Plus(st.protocol_issues,
                                      IF run.cfg.count_neutral_as_error THEN neutral ELSE 0)
  <2> DEFINE good  == IF word.ok THEN 1 ELSE 0
             bad   == IF word.ok THEN 0 ELSE 1
             issue == IF run.cfg.count_neutral_as_error THEN neutral ELSE 0
  <2>1. good \in Nat /\ bad \in Nat /\ issue \in Nat /\ neutral \in Nat
    OBVIOUS
  <2>2. st' = [st EXCEPT !.samples_seen = Plus(@, 1), !.ack_rises = Plus(@, 1),
                         !.words_latched = Plus(@, 1),
                         !.codec_ok = Plus(@, good), !.codec_invalid = Plus(@, bad),
                         !.codec_neutral = Plus(@, neutral), !.protocol_issues = Plus(@, issue)]
    BY <1>2 DEF LatchStats
  <2>3. good = (IF Valid(raw) THEN 1 ELSE 0) /\ bad = IF Valid(raw) THEN 0 ELSE 1
    BY <1>4
  <2> HIDE DEF good, bad, issue, neutral
  <2> DEFINE v1 == Plus(st.samples_seen, 1)
             v2 == Plus(st.ack_rises, 1)
             v3 == Plus(st.words_latched, 1)
             v4 == Plus(st.codec_ok, good)
             v5 == Plus(st.codec_invalid, bad)
             v6 == Plus(st.codec_neutral, neutral)
             v7 == Plus(st.protocol_issues, issue)
  <2>5. /\ v1 \in Nat /\ v2 \in Nat /\ v3 \in Nat /\ v4 \in Nat
        /\ v5 \in Nat /\ v6 \in Nat /\ v7 \in Nat
    <3>1. \A x \in StatsFields : st[x] \in Nat
      BY <1>3
    <3>2. /\ st.samples_seen \in Nat /\ st.ack_rises \in Nat /\ st.words_latched \in Nat
          /\ st.codec_ok \in Nat /\ st.codec_invalid \in Nat
          /\ st.codec_neutral \in Nat /\ st.protocol_issues \in Nat
      BY <3>1 DEF StatsFields
    <3>3. v1 \in Nat /\ v2 \in Nat /\ v3 \in Nat
      BY <3>2, PlusCounts
    <3>4. v4 \in Nat /\ v5 \in Nat
      BY <2>1, <3>2, PlusCounts
    <3>5. v6 \in Nat /\ v7 \in Nat
      BY <2>1, <3>2, PlusCounts
    <3> QED
      BY <3>3, <3>4, <3>5
  <2>6. st' = [st EXCEPT !.samples_seen = v1, !.ack_rises = v2, !.words_latched = v3,
                         !.codec_ok = v4, !.codec_invalid = v5,
                         !.codec_neutral = v6, !.protocol_issues = v7]
    BY <2>2
  <2> HIDE DEF v1, v2, v3, v4, v5, v6, v7
  <2>7. st' \in [StatsFields -> Nat]
    BY <1>3, <2>5, <2>6 DEF StatsFields
  <2>8. /\ st'.samples_seen = v1 /\ st'.ack_rises = v2 /\ st'.words_latched = v3
        /\ st'.codec_ok = v4 /\ st'.codec_invalid = v5
        /\ st'.codec_neutral = v6 /\ st'.protocol_issues = v7
    BY <1>3, <2>6 DEF StatsFields
  <2>4. /\ st' \in [StatsFields -> Nat]
        /\ st'.samples_seen = Plus(st.samples_seen, 1)
        /\ st'.ack_rises = Plus(st.ack_rises, 1)
        /\ st'.words_latched = Plus(st.words_latched, 1)
        /\ st'.codec_ok = Plus(st.codec_ok, good)
        /\ st'.codec_invalid = Plus(st.codec_invalid, bad)
        /\ st'.codec_neutral = Plus(st.codec_neutral, neutral)
        /\ st'.protocol_issues = Plus(st.protocol_issues, issue)
    BY <2>7, <2>8 DEF v1, v2, v3, v4, v5, v6, v7
  <2> QED
    BY <2>3, <2>4 DEF issue
<1>8. BurstTypes' /\ CounterRuns'
  BY <1>2, <1>3, <1>6, <1>7, ZeroStatsTyped DEF BurstTypes, CounterRuns
<1>9. StatsInv'
  <2> DEFINE n == Len(latched)
             c == Cardinality(CodeWordsAt)
             z == Cardinality(NeutralsAt)
             good == IF Valid(raw) THEN 1 ELSE 0
             bad  == IF Valid(raw) THEN 0 ELSE 1
  <2>1. neutral \in Nat /\ good \in Nat /\ bad \in Nat /\ 1 \in Nat
    OBVIOUS
  <2>2. /\ st.samples_seen = Counted(run.i - 1)
        /\ st.ack_rises = Counted(n) /\ st.words_latched = Counted(n)
        /\ st.codec_ok = Counted(c) /\ st.codec_invalid = Counted(n - c)
        /\ st.codec_neutral = Counted(z)
        /\ st.protocol_issues = IF run.cfg.count_neutral_as_error THEN Counted(z) ELSE 0
    BY <1>1 DEF CountInv, StatsInv
  <2>3. run.i \in Nat \ {0}
    BY DEF RunTypes, RunRecord
  <2>4. /\ run.i - 1 \in Nat /\ (run.i - 1) + 1 = run'.i - 1
        /\ n \in Nat /\ c \in Nat /\ z \in Nat /\ n - c \in Nat
        /\ (n - c) + bad = (n + 1) - (c + good)
    <3>1. run.i - 1 \in Nat /\ (run.i - 1) + 1 = run'.i - 1
      BY <1>1, <2>3
    <3>2. n \in Nat /\ c \in Nat /\ z \in Nat /\ c <= n
      BY <1>5
    <3>3. (good = 1 /\ bad = 0) \/ (good = 0 /\ bad = 1)
      OBVIOUS
    <3> HIDE DEF n, c, z, good, bad, raw, neutral
    <3>4. n - c \in Nat /\ (n - c) + bad = (n + 1) - (c + good)
      BY <3>2, <3>3
    <3> QED
      BY <3>1, <3>2, <3>4
  <2>5. /\ Len(latched') = n + 1
        /\ Cardinality(CodeWordsAt') = c + good /\ Cardinality(NeutralsAt') = z + neutral
    BY <1>5
  <2>6. /\ st'.samples_seen = Plus(st.samples_seen, 1)
        /\ st'.ack_rises = Plus(st.ack_rises, 1) /\ st'.words_latched = Plus(st.words_latched, 1)
        /\ st'.codec_ok = Plus(st.codec_ok, good) /\ st'.codec_invalid = Plus(st.codec_invalid, bad)
        /\ st'.codec_neutral = Plus(st.codec_neutral, neutral)
        /\ st'.protocol_issues = Plus(st.protocol_issues,
                                      IF run.cfg.count_neutral_as_error THEN neutral ELSE 0)
    BY <1>7
  <2> HIDE DEF raw, neutral, n, c, z, good, bad
  <2>7. /\ st'.samples_seen = Counted(run'.i - 1)
        /\ st'.ack_rises = Counted(n + 1) /\ st'.words_latched = Counted(n + 1)
    <3>1. Plus(Counted(run.i - 1), 1) = Counted((run.i - 1) + 1)
      BY <2>1, <2>4, PlusCounts, Zenon
    <3>2. Plus(Counted(n), 1) = Counted(n + 1)
      BY <2>1, <2>4, PlusCounts, Zenon
    <3> QED
      BY <2>2, <2>4, <2>6, <3>1, <3>2, Zenon
  <2>8. /\ st'.codec_ok = Counted(c + good)
        /\ st'.codec_invalid = Counted((n + 1) - (c + good))
    <3>1. Plus(Counted(c), good) = Counted(c + good)
      BY <2>1, <2>4, PlusCounts, Zenon
    <3>2. Plus(Counted(n - c), bad) = Counted((n - c) + bad)
      BY <2>1, <2>4, PlusCounts, Zenon
    <3> QED
      BY <2>2, <2>4, <2>6, <3>1, <3>2, Zenon
  <2>9. /\ st'.codec_neutral = Counted(z + neutral)
        /\ st'.protocol_issues = IF run.cfg.count_neutral_as_error THEN Counted(z + neutral) ELSE 0
    <3>1. Plus(Counted(z), neutral) = Counted(z + neutral)
      BY <2>1, <2>4, PlusCounts, Zenon
    <3>2. Plus(0, 0) = 0
      <4>1. 0 \in Nat /\ 0 + 0 = 0
        OBVIOUS
      <4> QED
        BY <4>1, PlusCounts, Zenon
    <3> QED
      BY <2>2, <2>6, <3>1, <3>2
  <2> QED
    BY <1>1, <2>5, <2>7, <2>8, <2>9 DEF StatsInv, Counted
<1> QED
  BY <1>8, <1>9 DEF CountInv

(* The end of a run copies the counters of the assembler.                  *)
LEMMA EndCounts ==
  ASSUME WaveInv, RunTypes, CountInv, End
  PROVE  CountInv'
<1>1. /\ run' = [run EXCEPT !.pc = "done"] /\ run.pc = "run"
      /\ st' = [st EXCEPT !.bursts_completed = burst.bursts_completed,
                          !.events_emitted   = burst.events_emitted]
      /\ UNCHANGED <<burst, latched, events, reported, wf>>
  BY DEF End, build
<1>2. run'.pc = "done" /\ run'.i = run.i /\ run'.cfg = run.cfg
  BY <1>1 DEF RunTypes
<1>3. st \in [StatsFields -> Nat] /\ burst \in BurstType
  BY ZeroStatsTyped DEF CountInv, BurstTypes
<1>4. burst.bursts_completed \in Nat /\ burst.events_emitted \in Nat
  BY <1>3, BurstAssumption DEF BurstType
<1>5. /\ st' \in [StatsFields -> Nat]
      /\ st'.samples_seen = st.samples_seen
      /\ st'.ack_rises = st.ack_rises /\ st'.words_latched = st.words_latched
      /\ st'.codec_ok = st.codec_ok /\ st'.codec_invalid = st.codec_invalid
      /\ st'.codec_neutral = st.codec_neutral /\ st'.protocol_issues = st.protocol_issues
      /\ st'.events_emitted = burst.events_emitted
  BY <1>1, <1>3, <1>4 DEF StatsFields
<1>6. BurstTypes' /\ CounterRuns'
  BY <1>1, <1>5, ZeroStatsTyped DEF CountInv, BurstTypes, CounterRuns
<1>7. CodeWordsAt' = CodeWordsAt /\ NeutralsAt' = NeutralsAt
  BY <1>1 DEF CodeWordsAt, NeutralsAt
<1>8. StatsInv'
  BY <1>1, <1>2, <1>5, <1>7 DEF CountInv, StatsInv, Counted
<1> QED
  BY <1>6, <1>8 DEF CountInv

(* An aborted run hands out no statistics.                                 *)
LEMMA AbortCounts ==
  ASSUME WaveInv, RunTypes, CountInv, SampleAborts
  PROVE  CountInv'
<1>1. /\ run' = [run EXCEPT !.pc = "done"] /\ run.i <= Len(wf)
      /\ st' = ZeroStats
      /\ UNCHANGED <<burst, events, reported, wf>>
  BY DEF SampleAborts, Running, build
<1>2. run'.pc = "done" /\ run'.i <= Len(wf')
  BY <1>1 DEF RunTypes
<1>3. StatsInv'
  BY <1>2 DEF StatsInv
<1> QED
  BY <1>1, <1>3, ZeroStatsTyped DEF CountInv, BurstTypes, CounterRuns

(* Every step keeps the invariant of the counters.                         *)
LEMMA NextKeepsCounts ==
  ASSUME WaveInv, RunTypes, CountInv, [Next]_vars
  PROVE  CountInv'
<1>1. ASSUME UNCHANGED <<burst, latched, events, reported, run, st>>, run.pc = "build" \/ wf' = wf
      PROVE  CountInv'
  <2>1. CodeWordsAt' = CodeWordsAt /\ NeutralsAt' = NeutralsAt
    BY <1>1 DEF CodeWordsAt, NeutralsAt
  <2>2. BurstTypes' /\ CounterRuns'
    BY <1>1 DEF CountInv, BurstTypes, CounterRuns
  <2>3. StatsInv'
    BY <1>1, <2>1 DEF CountInv, StatsInv, Counted
  <2> QED
    BY <2>2, <2>3 DEF CountInv
<1>2. ASSUME NEW word \in TxWords, EmitWord(word) PROVE CountInv'
  BY <1>1, <1>2 DEF EmitWord
<1>3. CASE LoadAnyLine
  BY <1>1, <1>3 DEF LoadAnyLine, LoadLine
<1>4. ASSUME NEW f \in Faults, NEW cfg \in Cfgs, Start(f, cfg) PROVE CountInv'
  BY <1>4, StartCounts
<1>5. CASE Replay
  BY <1>5, AbortCounts, PassCounts, LatchKeepsCounts, EndCounts DEF Replay
<1>6. CASE UNCHANGED vars
  BY <1>1, <1>6 DEF vars
<1> QED
  BY <1>2, <1>3, <1>4, <1>5, <1>6 DEF Next

-----------------------------------------------------------------------------
(* The events.                                                             *)

(* The assembler holds the burst under way: its row, and its columns as    *)
(* far as there is room for them.                                          *)
Holds(b, words) ==
  LET n == Len(words) + 1
      S == BurstAt(words, n)
  IN /\ S = {} => b.state = ExpectRow
     /\ S # {} =>
          /\ b.state = ExpectColOrTail /\ b.col_count = Columns(words, n)
          /\ \A p \in S : Rank(words, n, p) = 0 => b.row = IndexOf(words[p])
          /\ \A p \in S : Rank(words, n, p) \in 1 .. Cols =>
               b.cols[Rank(words, n, p) - 1] = IndexOf(words[p])
EventsInv == Holds(burst, latched) /\ EventsAreOfThisRun

LEMMA BurstIsFinite ==
  ASSUME NEW words, NEW k \in Nat
  PROVE  /\ IsFiniteSet(BurstAt(words, k)) /\ BurstAt(words, k) \subseteq 1 .. k - 1
         /\ Cardinality(BurstAt(words, k)) \in Nat
         /\ BurstAt(words, k) = {} <=> Cardinality(BurstAt(words, k)) = 0
         /\ \A p \in BurstAt(words, k) :
              Rank(words, k, p) \in 0 .. Cardinality(BurstAt(words, k)) - 1
<1> DEFINE S == BurstAt(words, k)
<1>1. S \subseteq 1 .. k - 1
  BY DEF BurstAt
<1>2. IsFiniteSet(S)
  <2>1. IsFiniteSet(1 .. k - 1)
    BY FS_Interval
  <2> QED
    BY <1>1, <2>1, FS_Subset
<1>3. Cardinality(S) \in Nat /\ (S = {} <=> Cardinality(S) = 0)
  BY <1>2, FS_CardinalityType, FS_EmptySet
<1>4. ASSUME NEW p \in S
      PROVE  Rank(words, k, p) \in 0 .. Cardinality(S) - 1
  <2> DEFINE R == {q \in S : q < p}
  <2>1. R \subseteq S \ {p} /\ p \in Nat
    BY <1>1
  <2>2. IsFiniteSet(S \ {p}) /\ Cardinality(S \ {p}) = Cardinality(S) - 1
    BY <1>2, FS_RemoveElement
  <2>3. Cardinality(R) <= Cardinality(S \ {p}) /\ IsFiniteSet(R)
    BY <2>1, <2>2, FS_Subset
  <2>4. Cardinality(R) \in Nat
    BY <2>3, FS_CardinalityType
  <2>5. Rank(words, k, p) = Cardinality(R)
    BY DEF Rank
  <2> HIDE DEF R, S
  <2> QED
    BY <1>3, <2>2, <2>3, <2>4, <2>5
<1> QED
  BY <1>1, <1>2, <1>3, <1>4

(* Whether the words of two sequences agree up to k decides the burst at k. *)
LEMMA SameBurst ==
  ASSUME NEW v, NEW w, NEW k \in Nat, \A i \in 1 .. k - 1 : v[i] = w[i]
  PROVE  /\ BurstAt(v, k) = BurstAt(w, k)
         /\ \A p : Rank(v, k, p) = Rank(w, k, p)
         /\ Columns(v, k) = Columns(w, k)
<1>1. ASSUME NEW p \in 1 .. k - 1, NEW j \in p .. k - 1
      PROVE  v[j] = w[j]
  <2>1. j \in 1 .. k - 1
    OBVIOUS
  <2> QED
    BY <2>1
<1>2. BurstAt(v, k) = BurstAt(w, k)
  BY <1>1 DEF BurstAt
<1> QED
  BY <1>2 DEF Rank, Columns

(* The burst under way behind one more word.                               *)
LEMMA OneMoreWord ==
  ASSUME NEW v, NEW w, NEW n \in Nat \ {0}, \A i \in 1 .. n - 1 : v[i] = w[i]
  PROVE  /\ IsTail(w[n]) => BurstAt(w, n + 1) = {}
         /\ ~Valid(w[n]) /\ ~IsTail(w[n]) =>
              /\ BurstAt(w, n + 1) = BurstAt(v, n) /\ Columns(w, n + 1) = Columns(v, n)
              /\ \A p \in BurstAt(v, n) : Rank(w, n + 1, p) = Rank(v, n, p)
         /\ Valid(w[n]) /\ ~IsTail(w[n]) =>
              /\ BurstAt(w, n + 1) = BurstAt(v, n) \cup {n}
              /\ Cardinality(BurstAt(w, n + 1)) = Cardinality(BurstAt(v, n)) + 1
              /\ \A p \in BurstAt(v, n) : Rank(w, n + 1, p) = Rank(v, n, p)
              /\ Rank(w, n + 1, n) = Cardinality(BurstAt(v, n))
<1> DEFINE S == BurstAt(w, n)
           T == BurstAt(w, n + 1)
<1>1. /\ BurstAt(v, n) = S /\ \A p : Rank(v, n, p) = Rank(w, n, p)
      /\ Columns(v, n) = Columns(w, n)
  BY SameBurst
<1>2. T = {p \in 1 .. n : Valid(w[p]) /\ \A j \in p .. n : ~IsTail(w[j])}
  <2>1. (n + 1) - 1 = n
    OBVIOUS
  <2> QED
    BY <2>1 DEF BurstAt
<1>3. S = {p \in 1 .. n - 1 : Valid(w[p]) /\ \A j \in p .. n - 1 : ~IsTail(w[j])}
  BY DEF BurstAt
<1>4. IsFiniteSet(S) /\ S \subseteq 1 .. n - 1 /\ Cardinality(S) \in Nat
  BY BurstIsFinite
<1> HIDE DEF S, T
<1>5. ASSUME IsTail(w[n]) PROVE T = {}
  <2>1. \A p \in 1 .. n : n \in p .. n
    OBVIOUS
  <2> QED
    BY <1>2, <1>5, <2>1
<1>6. ASSUME ~IsTail(w[n])
      PROVE  \A p : p \in T <=> p \in S \/ (p = n /\ Valid(w[n]))
  <2>1. ASSUME NEW p \in 1 .. n - 1
        PROVE  (\A j \in p .. n : ~IsTail(w[j])) <=> \A j \in p .. n - 1 : ~IsTail(w[j])
    <3>1. \A j : j \in p .. n <=> j \in p .. n - 1 \/ j = n
      OBVIOUS
    <3> QED
      BY <1>6, <3>1
  <2>2. \A j : j \in n .. n <=> j = n
    OBVIOUS
  <2>3. \A p : p \in 1 .. n <=> p \in 1 .. n - 1 \/ p = n
    OBVIOUS
  <2> QED
    BY <1>2, <1>3, <1>6, <2>1, <2>2, <2>3
<1>7. ASSUME ~IsTail(w[n]), NEW p \in S
      PROVE  Rank(w, n + 1, p) = Rank(w, n, p)
  <2>1. {q \in T : q < p} = {q \in S : q < p}
    BY <1>4, <1>6, <1>7
  <2> QED
    BY <2>1 DEF Rank, S, T
<1>8. ASSUME Valid(w[n]), ~IsTail(w[n])
      PROVE  T = S \cup {n} /\ Cardinality(T) = Cardinality(S) + 1 /\ Rank(w, n + 1, n) = Cardinality(S)
  <2>1. T = S \cup {n} /\ n \notin S
    BY <1>4, <1>6, <1>8
  <2>2. Cardinality(T) = Cardinality(S) + 1
    <3>1. Cardinality(S \cup {n}) = IF n \in S THEN Cardinality(S) ELSE Cardinality(S) + 1
      BY <1>4, FS_AddElement, Zenon
    <3>2. Cardinality(S \cup {n}) = Cardinality(S) + 1
      BY <2>1, <3>1
    <3> QED
      BY <2>1, <3>2
  <2>3. {q \in T : q < n} = S
    <3>1. ~(n < n) /\ \A q \in 1 .. n - 1 : q < n
      OBVIOUS
    <3>2. \A q : q \in T /\ q < n <=> q \in S
      BY <1>4, <2>1, <3>1
    <3> QED
      BY <3>2
  <2> QED
    BY <2>1, <2>2, <2>3 DEF Rank, T
<1>9. ASSUME ~Valid(w[n]), ~IsTail(w[n])
      PROVE  T = S /\ Columns(w, n + 1) = Columns(w, n)
  <2>1. T = S
    BY <1>6, <1>9
  <2> QED
    BY <2>1 DEF Columns, S, T
<1> QED
  BY <1>1, <1>5, <1>7, <1>8, <1>9 DEF S, T

(* What is latched next, and what the assembler made of it.                *)
Hands(words, n, out) ==
  /\ Len(out) = IF IsTail(words[n]) /\ BurstAt(words, n) # {} THEN Columns(words, n) ELSE 0
  /\ IsTail(words[n]) =>
       \A row, col \in BurstAt(words, n) :
         Rank(words, n, row) = 0 /\ Rank(words, n, col) \in 1 .. Cols =>
           out[Rank(words, n, col)] = <<IndexOf(words[row]), IndexOf(words[col])>>

LEMMA AppendWord ==
  ASSUME NEW v \in Seq(AnyRaw), NEW raw \in AnyRaw
  PROVE  /\ Len(Append(v, raw)) = Len(v) + 1 /\ Len(v) + 1 \in Nat \ {0}
         /\ Append(v, raw)[Len(v) + 1] = raw
         /\ \A i \in 1 .. (Len(v) + 1) - 1 : Append(v, raw)[i] = v[i]
OBVIOUS

(* A word that is none leaves the burst as it is.                          *)
LEMMA InvalidIsNothing ==
  ASSUME NEW v \in Seq(AnyRaw), NEW raw \in AnyRaw, NEW b, Holds(b, v), ~Valid(raw)
  PROVE  Holds(b, Append(v, raw)) /\ Hands(Append(v, raw), Len(v) + 1, <<>>)
<1> DEFINE w == Append(v, raw)
           n == Len(v) + 1
<1>1. /\ Len(w) = n /\ n \in Nat \ {0} /\ w[n] = raw /\ \A i \in 1 .. n - 1 : w[i] = v[i]
  BY AppendWord
<1> HIDE DEF w, n
<1>2. ~IsTail(w[n]) /\ ~Valid(w[n])
  BY <1>1 DEF IsTail, Decode
<1>3. /\ BurstAt(w, n + 1) = BurstAt(v, n) /\ Columns(w, n + 1) = Columns(v, n)
      /\ \A p \in BurstAt(v, n) : Rank(w, n + 1, p) = Rank(v, n, p)
  BY <1>1, <1>2, OneMoreWord
<1>4. \A p \in BurstAt(v, n) : w[p] = v[p]
  BY <1>1, BurstIsFinite
<1>5. Holds(b, w)
  BY <1>1, <1>3, <1>4 DEF Holds, n
<1>6. Hands(w, n, <<>>)
  <2>1. Len(<<>>) = 0
    OBVIOUS
  <2> QED
    BY <1>2, <2>1 DEF Hands
<1> QED
  BY <1>5, <1>6 DEF w, n

(* A TAIL ends the burst and hands it out.                                 *)
LEMMA TailHandsOut ==
  ASSUME burst \in BurstType, NEW v \in Seq(AnyRaw), NEW raw \in AnyRaw, Holds(burst, v),
         IsTail(raw), Feed(Decode(raw))
  PROVE  Holds(burst', Append(v, raw)) /\ Hands(Append(v, raw), Len(v) + 1, emitted')
<1> DEFINE w == Append(v, raw)
           n == Len(v) + 1
           S == BurstAt(v, n)
<1>1. /\ Len(w) = n /\ n \in Nat \ {0} /\ w[n] = raw /\ \A i \in 1 .. n - 1 : w[i] = v[i]
  BY AppendWord
<1> HIDE DEF w, n
<1>2. /\ BurstAt(w, n + 1) = {} /\ BurstAt(w, n) = S
      /\ \A p : Rank(w, n, p) = Rank(v, n, p)
      /\ Columns(w, n) = Columns(v, n)
  <2>1. BurstAt(w, n + 1) = {}
    BY <1>1, OneMoreWord
  <2>2. n \in Nat
    BY <1>1
  <2>3. /\ BurstAt(w, n) = S /\ \A p : Rank(w, n, p) = Rank(v, n, p)
        /\ Columns(w, n) = Columns(v, n)
    BY <1>1, <2>2, SameBurst
  <2> QED
    BY <2>1, <2>3
<1>3. /\ \A p \in S : w[p] = v[p] /\ Rank(v, n, p) \in 0 .. Cardinality(S) - 1
      /\ Cardinality(S) \in Nat /\ Cols \in Nat \ {0}
  BY <1>1, BurstIsFinite, BurstAssumption
<1>4. /\ S = {} => burst.state = ExpectRow
      /\ S # {} =>
          /\ burst.state = ExpectColOrTail /\ burst.col_count = Columns(v, n)
          /\ \A p \in S : Rank(v, n, p) = 0 => burst.row = IndexOf(v[p])
          /\ \A p \in S : Rank(v, n, p) \in 1 .. Cols =>
               burst.cols[Rank(v, n, p) - 1] = IndexOf(v[p])
  BY DEF Holds, n
<1>5. FeedTailWithoutRow(Decode(raw)) \/ FeedTail(Decode(raw))
  BY DEF Feed, IsTail, Decode, FeedNotOk, FeedRow, FeedCol, FeedColOverflow
<1>6. burst'.state = ExpectRow
  BY <1>5 DEF FeedTailWithoutRow, FeedTail, BurstType
<1>7. Holds(burst', w)
  BY <1>1, <1>2, <1>6 DEF Holds
<1>8. CASE S = {}
  <2>1. FeedTailWithoutRow(Decode(raw))
    BY <1>4, <1>5, <1>8 DEF FeedTail
  <2>2. emitted' = <<>> /\ Len(<<>>) = 0
    BY <2>1 DEF FeedTailWithoutRow
  <2> QED
    BY <1>2, <1>7, <1>8, <2>2 DEF Hands, w, n
<1>9. CASE S # {}
  <2>1. FeedTail(Decode(raw))
    BY <1>4, <1>5, <1>9 DEF FeedTailWithoutRow, ExpectRow, ExpectColOrTail
  <2>2. emitted' = [i \in 1 .. burst.col_count |-> <<burst.row, burst.cols[i - 1]>>]
    BY <2>1 DEF FeedTail, BufferedEvents
  <2>3. burst.col_count = (IF Cardinality(S) > Cols THEN Cols ELSE Cardinality(S) - 1)
        /\ burst.col_count = Columns(v, n) /\ burst.col_count \in Nat
    BY <1>4, <1>9 DEF Columns, BurstType
  <2>4. Len(emitted') = Columns(v, n)
    BY <2>2, <2>3
  <2>5. ASSUME NEW row \in S, NEW col \in S, Rank(v, n, row) = 0, Rank(v, n, col) \in 1 .. Cols
        PROVE  emitted'[Rank(v, n, col)] = <<IndexOf(w[row]), IndexOf(w[col])>>
    <3>1. burst.row = IndexOf(w[row]) /\ burst.cols[Rank(v, n, col) - 1] = IndexOf(w[col])
      BY <1>3, <1>4, <1>9, <2>5
    <3>2. Rank(v, n, col) \in 1 .. burst.col_count
      <4> DEFINE r == Rank(v, n, col)
                 c == Cardinality(S)
      <4>1. r \in 0 .. c - 1 /\ r \in 1 .. Cols /\ c \in Nat
        BY <1>3, <2>5
      <4>2. burst.col_count = (IF c > Cols THEN Cols ELSE c - 1)
        BY <2>3
      <4> HIDE DEF r, c
      <4>3. r \in 1 .. burst.col_count
        BY <1>3, <4>1, <4>2
      <4> QED
        BY <4>3 DEF r
    <3> QED
      BY <2>2, <3>1, <3>2
  <2>6. Hands(w, n, emitted')
    <3>1. IsTail(w[n]) /\ BurstAt(w, n) # {} /\ Len(emitted') = Columns(w, n)
      BY <1>1, <1>2, <1>9, <2>4
    <3>2. ASSUME NEW row \in BurstAt(w, n), NEW col \in BurstAt(w, n),
                 Rank(w, n, row) = 0, Rank(w, n, col) \in 1 .. Cols
          PROVE  emitted'[Rank(w, n, col)] = <<IndexOf(w[row]), IndexOf(w[col])>>
      <4>1. row \in S /\ col \in S /\ Rank(v, n, row) = 0 /\ Rank(v, n, col) \in 1 .. Cols
        BY <1>2, <3>2
      <4>2. emitted'[Rank(v, n, col)] = <<IndexOf(w[row]), IndexOf(w[col])>>
        BY <2>5, <4>1
      <4> QED
        BY <1>2, <4>2
    <3> QED
      BY <3>1, <3>2 DEF Hands
  <2> QED
    BY <1>7, <2>6 DEF w, n
<1> QED
  BY <1>8, <1>9

(* A valid word that is no TAIL is the row, a column, or one too many.     *)
LEMMA WordIsKept ==
  ASSUME burst \in BurstType, NEW v \in Seq(AnyRaw), NEW raw \in AnyRaw, Holds(burst, v),
         Valid(raw), ~IsTail(raw), Feed(Decode(raw))
  PROVE  Holds(burst', Append(v, raw)) /\ Hands(Append(v, raw), Len(v) + 1, emitted')
<1> DEFINE w == Append(v, raw)
           n == Len(v) + 1
           S == BurstAt(v, n)
           T == BurstAt(w, n + 1)
           c == Cardinality(S)
<1>1. /\ Len(w) = n /\ n \in Nat \ {0} /\ w[n] = raw /\ \A i \in 1 .. n - 1 : w[i] = v[i]
  BY AppendWord
<1> HIDE DEF w, n
<1>2. /\ T = S \cup {n} /\ Cardinality(T) = c + 1
      /\ \A p \in S : Rank(w, n + 1, p) = Rank(v, n, p)
      /\ Rank(w, n + 1, n) = c
  BY <1>1, OneMoreWord
<1>3. /\ \A p \in S : w[p] = v[p] /\ Rank(v, n, p) \in 0 .. c - 1
      /\ c \in Nat /\ Cols \in Nat \ {0} /\ (S = {} <=> c = 0)
  BY <1>1, BurstIsFinite, BurstAssumption
<1>4. /\ S = {} => burst.state = ExpectRow
      /\ S # {} =>
          /\ burst.state = ExpectColOrTail /\ burst.col_count = Columns(v, n)
          /\ \A p \in S : Rank(v, n, p) = 0 => burst.row = IndexOf(v[p])
          /\ \A p \in S : Rank(v, n, p) \in 1 .. Cols =>
               burst.cols[Rank(v, n, p) - 1] = IndexOf(v[p])
  BY DEF Holds, n
<1>5. /\ Decode(raw).ok /\ ~Decode(raw).is_tail /\ Index(Decode(raw).payload) = IndexOf(w[n])
      /\ \/ FeedRow(Decode(raw)) \/ FeedCol(Decode(raw)) \/ FeedColOverflow(Decode(raw))
  BY <1>1 DEF Feed, IsTail, IndexOf, Decode, FeedNotOk, FeedTailWithoutRow, FeedTail
<1>6. emitted' = <<>> /\ Len(<<>>) = 0
  BY <1>5 DEF FeedRow, FeedCol, FeedColOverflow
<1>7. Hands(w, n, emitted')
  BY <1>1, <1>6 DEF Hands
<1> DEFINE k == Columns(w, n + 1)
<1>8. k = (IF c + 1 > Cols THEN Cols ELSE c)
  <2>1. k = (IF c + 1 > Cols THEN Cols ELSE (c + 1) - 1)
    BY <1>2 DEF Columns
  <2> QED
    BY <1>3, <2>1
<1>9. Columns(v, n) = (IF c > Cols THEN Cols ELSE c - 1)
  BY DEF Columns
<1> HIDE DEF S, T, c, k
<1> SUFFICES ASSUME TRUE
             PROVE  /\ burst'.state = ExpectColOrTail /\ burst'.col_count = k
                    /\ \A p \in T : Rank(w, n + 1, p) = 0 => burst'.row = IndexOf(w[p])
                    /\ \A p \in T : Rank(w, n + 1, p) \in 1 .. Cols =>
                         burst'.cols[Rank(w, n + 1, p) - 1] = IndexOf(w[p])
  <2>1. T # {}
    BY <1>2
  <2> QED
    BY <1>1, <1>7, <2>1 DEF Holds, w, n, k, T
<1>10. CASE S = {}
  <2>1. FeedRow(Decode(raw))
    BY <1>4, <1>5, <1>10 DEF FeedCol, FeedColOverflow
  <2>2. /\ burst'.state = ExpectColOrTail /\ burst'.col_count = 0
        /\ burst'.row = IndexOf(w[n])
    BY <1>5, <2>1 DEF FeedRow, BurstType
  <2>3. k = 0 /\ T = {n} /\ Rank(w, n + 1, n) = 0
    BY <1>2, <1>3, <1>8, <1>10
  <2> QED
    BY <2>2, <2>3
<1>11. CASE S # {}
  <2>1. /\ burst.state = ExpectColOrTail /\ burst.col_count = Columns(v, n)
        /\ \A p \in S : Rank(v, n, p) = 0 => burst.row = IndexOf(v[p])
        /\ \A p \in S : Rank(v, n, p) \in 1 .. Cols =>
             burst.cols[Rank(v, n, p) - 1] = IndexOf(v[p])
    BY <1>4, <1>11
  <2>2. FeedCol(Decode(raw)) \/ FeedColOverflow(Decode(raw))
    BY <1>5, <2>1 DEF FeedRow, ExpectRow, ExpectColOrTail
  <2>3. burst'.state = ExpectColOrTail /\ burst'.row = burst.row
    BY <2>1, <2>2 DEF FeedCol, FeedColOverflow, BurstType
  <2>4. \A p \in T : Rank(w, n + 1, p) = 0 => burst'.row = IndexOf(w[p])
    BY <1>2, <1>3, <1>11, <2>1, <2>3
  <2>5. CASE FeedCol(Decode(raw))
    <3>1. /\ burst.col_count < Cols /\ burst'.col_count = burst.col_count + 1
          /\ burst'.cols = [burst.cols EXCEPT ![burst.col_count] = IndexOf(w[n])]
      BY <1>5, <2>5 DEF FeedCol, BurstType
    <3>2. burst.col_count = c - 1 /\ k = c /\ c \in 1 .. Cols
      BY <1>3, <1>8, <1>9, <1>11, <2>1, <3>1
    <3>3. burst.cols \in [0 .. Cols - 1 -> Indices \cup {Unwritten}]
      BY DEF BurstType, Slots
    <3>4. burst'.cols[c - 1] = IndexOf(w[n])
      <4>1. c - 1 \in 0 .. Cols - 1
        BY <1>3, <3>2
      <4> QED
        BY <3>1, <3>2, <3>3, <4>1
    <3>5. ASSUME NEW p \in S, Rank(v, n, p) \in 1 .. Cols
          PROVE  burst'.cols[Rank(v, n, p) - 1] = IndexOf(w[p])
      <4> DEFINE r == Rank(v, n, p)
      <4>1. r \in 1 .. Cols /\ r \in 0 .. c - 1
        BY <1>3, <3>5
      <4>2. burst.cols[r - 1] = IndexOf(w[p])
        BY <1>3, <2>1, <3>5
      <4> HIDE DEF r
      <4>3. r - 1 \in 0 .. Cols - 1 /\ r - 1 # c - 1
        BY <1>3, <4>1
      <4>4. burst'.cols[r - 1] = burst.cols[r - 1]
        BY <3>1, <3>2, <3>3, <4>3
      <4> QED
        BY <4>2, <4>4 DEF r
    <3>6. \A p \in T : Rank(w, n + 1, p) \in 1 .. Cols =>
            burst'.cols[Rank(w, n + 1, p) - 1] = IndexOf(w[p])
      BY <1>2, <3>4, <3>5
    <3>7. burst'.col_count = k
      BY <1>3, <3>1, <3>2
    <3> QED
      BY <2>3, <2>4, <3>6, <3>7
  <2>6. CASE FeedColOverflow(Decode(raw))
    <3>1. /\ burst.col_count >= Cols /\ burst'.col_count = burst.col_count
          /\ burst'.cols = burst.cols
      BY <2>6 DEF FeedColOverflow, BurstType
    <3>2. c > Cols /\ k = Cols /\ burst.col_count = Cols
      BY <1>3, <1>8, <1>9, <1>11, <2>1, <3>1
    <3>3. c \notin 1 .. Cols
      BY <1>3, <3>2
    <3>4. \A p \in T : Rank(w, n + 1, p) \in 1 .. Cols =>
            burst'.cols[Rank(w, n + 1, p) - 1] = IndexOf(w[p])
      BY <1>2, <1>3, <2>1, <3>1, <3>3
    <3> QED
      BY <2>3, <2>4, <3>1, <3>2, <3>4
  <2> QED
    BY <2>2, <2>5, <2>6
<1> QED
  BY <1>10, <1>11

(* A latched word is fed, or is none and ignored.                          *)
LEMMA LatchKeepsEvents ==
  ASSUME RunTypes, CountInv, EventsInv, SampleLatches, Current.data \in AnyRaw
  PROVE  EventsInv'
<1> DEFINE raw == Current.data
           w == Append(latched, raw)
           n == Len(latched) + 1
<1>1. latched \in Seq(AnyRaw) /\ burst \in BurstType /\ events \in Seq(Seq(EventType))
  BY DEF RunTypes, CountInv, BurstTypes
<1>2. /\ latched' = w
      /\ \/ /\ ~Valid(raw) /\ burst' = burst /\ events' = Append(events, <<>>)
         \/ Feed(Decode(raw)) /\ events' = Append(events, emitted')
  BY DEF SampleLatches, Decode
<1>3. PICK out : events' = Append(events, out) /\ Holds(burst', w) /\ Hands(w, n, out)
  <2>1. CASE ~Valid(raw) /\ burst' = burst /\ events' = Append(events, <<>>)
    BY <1>1, <2>1, InvalidIsNothing DEF EventsInv
  <2>2. CASE Feed(Decode(raw)) /\ events' = Append(events, emitted') /\ ~Valid(raw)
    <3>1. burst' = burst /\ emitted' = <<>>
      BY <2>2 DEF Feed, Decode, FeedNotOk, FeedTailWithoutRow, FeedTail, FeedRow, FeedCol, FeedColOverflow
    <3> QED
      BY <1>1, <2>2, <3>1, InvalidIsNothing DEF EventsInv
  <2>3. CASE Feed(Decode(raw)) /\ events' = Append(events, emitted') /\ Valid(raw)
    BY <1>1, <2>3, TailHandsOut, WordIsKept DEF EventsInv
  <2> QED
    BY <1>2, <2>1, <2>2, <2>3
<1>4. /\ Len(w) = n /\ n \in Nat \ {0} /\ w[n] = raw /\ \A i \in 1 .. n - 1 : w[i] = latched[i]
  BY <1>1, AppendWord
<1>5. Len(events) = n - 1 /\ \A k \in 1 .. n - 1 : Hands(latched, k, events[k])
  <2>1. Len(latched) = n - 1
    BY <1>1
  <2> QED
    BY <2>1 DEF EventsInv, EventsAreOfThisRun, Hands
<1> HIDE DEF w, n, raw
<1>6. Len(events') = n /\ events'[n] = out /\ \A k \in 1 .. n - 1 : events'[k] = events[k]
  BY <1>1, <1>3, <1>4, <1>5
<1>7. ASSUME NEW k \in 1 .. n
      PROVE  Hands(w, k, events'[k])
  <2>1. CASE k = n
    BY <1>3, <1>6, <2>1
  <2>2. CASE k # n
    <3>1. k \in 1 .. n - 1 /\ k \in Nat
      BY <1>4, <2>2
    <3>2. \A i \in 1 .. k - 1 : i \in 1 .. n - 1
      BY <1>4, <3>1
    <3>3. /\ BurstAt(w, k) = BurstAt(latched, k) /\ Columns(w, k) = Columns(latched, k)
          /\ \A p : Rank(w, k, p) = Rank(latched, k, p)
      BY <1>4, <3>1, <3>2, SameBurst
    <3>4. w[k] = latched[k] /\ \A p \in BurstAt(latched, k) : w[p] = latched[p]
      BY <1>4, <3>1, <3>2, BurstIsFinite
    <3>5. Hands(latched, k, events[k]) /\ events'[k] = events[k]
      BY <1>5, <1>6, <3>1
    <3> QED
      BY <3>3, <3>4, <3>5 DEF Hands
  <2> QED
    BY <2>1, <2>2
<1>8. EventsAreOfThisRun'
  BY <1>2, <1>4, <1>6, <1>7 DEF EventsAreOfThisRun, Hands
<1> QED
  BY <1>2, <1>3, <1>8 DEF EventsInv

(* With nothing latched the assembler waits for a row.                     *)
LEMMA NoBurstYet ==
  ASSUME NEW b, b.state = ExpectRow
  PROVE  Holds(b, <<>>)
<1>1. Len(<<>>) + 1 = 1
  OBVIOUS
<1>2. BurstAt(<<>>, 1) = {}
  BY DEF BurstAt
<1> QED
  BY <1>1, <1>2 DEF Holds

LEMMA NextKeepsEvents ==
  ASSUME RunTypes, CountInv, EventsInv, [Next]_vars,
         Running => Current.data \in AnyRaw
  PROVE  EventsInv'
<1>1. ASSUME UNCHANGED <<burst, latched, events>>
      PROVE  EventsInv'
  BY <1>1 DEF EventsInv, EventsAreOfThisRun
<1>2. ASSUME NEW word \in TxWords, EmitWord(word) PROVE EventsInv'
  BY <1>1, <1>2 DEF EmitWord
<1>3. CASE LoadAnyLine
  BY <1>1, <1>3 DEF LoadAnyLine, LoadLine
<1>4. ASSUME NEW f \in Faults, NEW cfg \in Cfgs, Start(f, cfg) PROVE EventsInv'
  <2>1. latched' = <<>> /\ events' = <<>>
    BY <1>4 DEF Start
  <2>2. burst'.state = ExpectRow
    BY <1>4 DEF Start, ResetAssembler, BurstReset, CountInv, BurstTypes, BurstType
  <2>3. EventsAreOfThisRun'
    BY <2>1 DEF EventsAreOfThisRun
  <2>4. Holds(burst', latched')
    BY <2>1, <2>2, NoBurstYet
  <2> QED
    BY <2>3, <2>4 DEF EventsInv
<1>5. CASE SamplePasses \/ End \/ SampleAborts
  BY <1>1, <1>5 DEF SamplePasses, End, SampleAborts
<1>6. CASE SampleLatches
  <2>1. Running
    BY <1>6 DEF SampleLatches
  <2> QED
    BY <1>6, <2>1, LatchKeepsEvents
<1>7. CASE UNCHANGED vars
  BY <1>1, <1>7 DEF vars
<1> QED
  BY <1>2, <1>3, <1>4, <1>5, <1>6, <1>7 DEF Next, Replay

LEMMA InitEvents == Init => EventsInv
<1> SUFFICES ASSUME Init PROVE EventsInv
  OBVIOUS
<1>1. burst.state = ExpectRow /\ latched = <<>> /\ events = <<>>
  BY DEF Init, BurstInit
<1>2. EventsAreOfThisRun
  BY <1>1 DEF EventsAreOfThisRun
<1> QED
  BY <1>1, <1>2, NoBurstYet DEF EventsInv

-----------------------------------------------------------------------------
(* The inductive invariant of the host side: the waveform is made of whole *)
(* transactions in time order, the words latched are those whose rise has  *)
(* been passed, the counters count them, and the assembler holds the burst *)
(* that they have begun.                                                   *)
THEOREM ReplayInvariant == Spec => [](WaveInv /\ RunTypes /\ ReplayInv /\ CountInv /\ EventsInv)
<1>1. Init => WaveInv /\ RunTypes /\ ReplayInv /\ CountInv /\ EventsInv
  BY InitWaveInv, InitReplay, InitCounts, InitEvents
<1>2. /\ WaveInv /\ RunTypes /\ ReplayInv /\ CountInv /\ EventsInv
      /\ [Next]_vars
      => (WaveInv /\ RunTypes /\ ReplayInv /\ CountInv /\ EventsInv)'
  <2>1. WaveInv /\ RunTypes /\ Running => Current.data \in AnyRaw
    BY CurrentSample
  <2> QED
    BY <2>1, NextKeepsWave, NextKeepsReplay, NextKeepsCounts, NextKeepsEvents
<1> QED
  BY <1>1, <1>2, PTL DEF Spec

(* Whatever the words and the delays, the transmitter model writes every   *)
(* phase of every word, in order.                                          *)
THEOREM FourPhaseWaveform == Spec => []WaveformIsFourPhase
  BY ReplayInvariant, WaveShows, PTL

(* A replay without a fault, or with its spacers dropped, latches exactly  *)
(* the words emitted, and a glitch changes exactly those whose ACK rises   *)
(* in its window.                                                          *)
THEOREM ReplayLatchesTheWords == Spec => []ReplaysTheWords
  BY ReplayInvariant, ReplayShows, PTL

(* A replay whose ACK gets stuck latches the words that rose before, and   *)
(* one more at most, if the level is high.                                 *)
THEOREM StuckAckLatchesNoMore == Spec => []StuckAckStops
  BY ReplayInvariant, ReplayShows, PTL

(* The statistics of a run count the words of that run, and the counter of *)
(* events goes on from run to run, modulo its range.                       *)
THEOREM StatisticsAddUp == Spec => []StatsAddUp
<1>1. CountInv => StatsAddUp
  BY DEF CountInv, CounterRuns, StatsInv, StatsAddUp, Counted
<1> QED
  BY <1>1, ReplayInvariant, PTL

(* The burst assembler in a replay: each word hands out the events of its  *)
(* burst if it is the TAIL of one and none otherwise, and the burst is     *)
(* made of the valid words latched in this run, whatever the runs before   *)
(* it left behind.                                                         *)
THEOREM EventsOfThisRunOnly == Spec => []EventsAreOfThisRun
<1>1. EventsInv => EventsAreOfThisRun
  BY DEF EventsInv
<1> QED
  BY <1>1, ReplayInvariant, PTL
=============================================================================
