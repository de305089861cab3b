----------------------------- MODULE HostReplay -----------------------------
(***************************************************************************)
(* The host side: aer_tx_model.c writes the waveform of a number of words, *)
(* aer_waveform_load_file may append lines of a trace to it, and           *)
(* aer_rx_replay.c runs over the samples, latches a word at each rise of   *)
(* ACK and feeds it through the codec into the burst assembler, with a     *)
(* fault injector in between.  One assembler serves several runs.          *)
(***************************************************************************)
EXTENDS AerBurst, AerCodec, SequencesExt

CONSTANTS
  TxWords,    \* bound: the words given to aer_tx_model_emit_word
  Timings,    \* bound: values of <<ack_rise_delay, data_clear_delay, ack_fall_delay>>
  Faults,     \* bound: fault injectors with their parameters
  Cfgs,       \* bound: values of aer_rx_replay_cfg_t
  Lines,      \* bound: lines of a trace, with the time since the line before
  MaxWords,   \* bound: words emitted
  MaxLines,   \* bound: lines loaded, unless words were emitted
  MaxRuns     \* bound: calls of aer_rx_replay_run

Neutral  == {}   \* neutral_word, "0" in aer_tx_model.h, and set to nothing else
NoFault  == [kind |-> "none"]

(* The injectors of aer_rx_replay.c with their parameters, and one that ends *)
(* the run; a mask may have bits above AER_DATA_WIDTH.                     *)
FaultType ==
       [kind : {"none"}]
  \cup [kind : {"drop_neutral"}, enabled : BOOLEAN]
  \cup [kind : {"abort"}, from : Nat]
  \cup [kind : {"stuck_ack"}, from : Nat, level : BOOLEAN]
  \cup [kind : {"glitch"}, from : Nat, to : Nat, mask : SUBSET (Nat \X Symbols)]
CfgType ==
  [latch_on_ack_rise : BOOLEAN, ignore_invalid_words : BOOLEAN,
   count_neutral_as_error : BOOLEAN]

ASSUME ReplayAssumption ==
  /\ TxWords \subseteq (SUBSET BusWires) \ {Neutral}
  /\ Timings \subseteq Nat \X Nat \X Nat
  /\ Faults \subseteq FaultType
  /\ Cfgs \subseteq CfgType
  /\ Lines \subseteq [dt : Nat, data : SUBSET BusWires, ack : BOOLEAN]
  /\ MaxWords \in Nat /\ MaxLines \in Nat /\ MaxRuns \in Nat

VARIABLES
  wf,            \* aer_waveform_t: samples of time, data and ack
  tx,            \* aer_tx_model_t: delays, initial ACK, time, ACK
  script,        \* history: each word emitted, with the time its ACK rises
  loaded,        \* history: lines of a trace were appended
  run,           \* the call of aer_rx_replay_run: its locals and configuration
  st,            \* aer_rx_replay_stats_t of the call
  last_nonzero,  \* static variable of aer_fault_drop_neutral
  latched,       \* history: the words latched in this run
  events,        \* history: the events of this run, those of each latched word
  reported       \* history: how many events all runs had so far

build == <<wf, tx, script, loaded>>
vars  == <<burst, emitted, wf, tx, script, loaded,
           run, st, last_nonzero, latched, events, reported>>

-----------------------------------------------------------------------------
(* aer_tx_model.c.  The definitions marked "mutant" are plausible bugs in  *)
(* the definition that follows them; nothing else uses them.               *)

Sample(t, data, ack) == [t |-> t, data |-> data, ack |-> ack]

(* wf_push_transition: a sample that changes nothing is left out. *)
PushByTime(w, s) ==                                              \* mutant
  IF w # <<>> /\ Last(w).t = s.t THEN w ELSE Append(w, s)
Push(w, s) ==
  IF w # <<>> /\ Last(w).data = s.data /\ Last(w).ack = s.ack THEN w ELSE Append(w, s)

(* valid word, ACK high, neutral, ACK low *)
Phases(t, ack, word) ==
  LET t_ack_hi  == t + tx.delays[1]
      t_neutral == t_ack_hi + tx.delays[2]
      t_ack_lo  == t_neutral + tx.delays[3]
  IN << Sample(t, word, ack), Sample(t_ack_hi, word, TRUE),
        Sample(t_neutral, Neutral, TRUE), Sample(t_ack_lo, Neutral, FALSE) >>

EmitWord(word) ==
  LET p == Phases(tx.t, tx.ack, word)
  IN /\ run.pc = "build" /\ ~loaded
     /\ Len(script) < MaxWords
     /\ wf' = Push(Push(Push(Push(wf, p[1]), p[2]), p[3]), p[4])
     /\ tx' = [tx EXCEPT !.t = p[4].t, !.ack = FALSE]
     /\ script' = Append(script, [word |-> word, rise |-> p[2].t])
     /\ UNCHANGED <<burst, emitted, loaded, run, st, last_nonzero, latched, events, reported>>

(* wf_push_raw for a line of a trace file; it refuses a time that has passed. *)
LoadLine(s) ==
  /\ run.pc = "build"
  /\ Len(wf) <= MaxLines
  /\ s.t >= Last(wf).t
  /\ wf' = Append(wf, s)
  /\ loaded' = TRUE
  /\ UNCHANGED <<burst, emitted, tx, script, run, st, last_nonzero, latched, events, reported>>

LoadAnyLine ==
  \E l \in Lines : LoadLine(Sample(Last(wf).t + l.dt, l.data, l.ack))

-----------------------------------------------------------------------------
(* The fault injectors of aer_rx_replay.c. *)

Xor(a, b) == (a \ b) \cup (b \ a)

InWindowHalfOpen(f, t) == f.kind = "glitch" /\ f.from <= t /\ t < f.to   \* mutant
InWindow(f, t) == f.kind = "glitch" /\ f.from <= t /\ t <= f.to

(* aer_fault_drop_neutral, aer_fault_stuck_ack, aer_fault_glitch_data *)
FaultedOnce(f, s) ==                                             \* mutant
  IF f.kind = "stuck_ack" /\ s.t = f.from THEN [s EXCEPT !.ack = f.level]
  ELSE IF InWindow(f, s.t) THEN [s EXCEPT !.data = Xor(@, f.mask)]
  ELSE s
Drops(f) == f.kind = "drop_neutral" /\ f.enabled
Faulted(f, s) ==
  IF Drops(f) /\ s.data = Neutral THEN [s EXCEPT !.data = last_nonzero]
  ELSE IF f.kind = "stuck_ack" /\ s.t >= f.from THEN [s EXCEPT !.ack = f.level]
  ELSE IF InWindow(f, s.t) THEN [s EXCEPT !.data = Xor(@, f.mask)]
  ELSE s

NewNonzero(f, s) ==
  IF Drops(f) /\ s.data # Neutral THEN s.data ELSE last_nonzero

(* A fault function may end the run. *)
Aborts(f, s) == f.kind = "abort" /\ s.t >= f.from

-----------------------------------------------------------------------------
(* aer_rx_replay_run *)

(* The statistics are as wide as the counters of the assembler, and wrap.  *)
Plus(counter, n) == (counter + n) % CounterMod
ZeroStats == [samples_seen |-> 0, ack_rises |-> 0, words_latched |-> 0,
              codec_ok |-> 0, codec_invalid |-> 0, codec_neutral |-> 0,
              protocol_issues |-> 0, bursts_completed |-> 0, events_emitted |-> 0]

CfgDefault == [latch_on_ack_rise |-> TRUE, ignore_invalid_words |-> TRUE,
               count_neutral_as_error |-> FALSE]

(* The assembler is reset for each run, its counters are not. *)
ResetForgotten == emitted' = <<>> /\ UNCHANGED burst              \* mutant
ResetWithCounters == BurstReset(TRUE)                            \* mutant
ResetAssembler == BurstReset(FALSE)

Start(fault, cfg) ==
  /\ run.pc \in {"build", "done"} /\ run.calls < MaxRuns
  /\ ResetAssembler
  /\ run' = [pc |-> "run", calls |-> run.calls + 1, fault |-> fault, cfg |-> cfg,
             i |-> 1, last_ack |-> FALSE, have_last |-> FALSE]
  /\ st' = ZeroStats
  /\ latched' = <<>> /\ events' = <<>>
  /\ UNCHANGED <<wf, tx, script, loaded, last_nonzero, reported>>

Running == run.pc = "run" /\ run.i <= Len(wf)
Current == Faulted(run.fault, wf[run.i])

(* return false: the statistics are not handed out. *)
SampleAborts ==
  /\ Running /\ Aborts(run.fault, wf[run.i])
  /\ run' = [run EXCEPT !.pc = "done"]
  /\ st' = ZeroStats
  /\ UNCHANGED <<burst, emitted, build, last_nonzero, latched, events, reported>>

Advance(s) ==
  /\ ~Aborts(run.fault, wf[run.i])
  /\ run' = [run EXCEPT !.i = @ + 1, !.last_ack = s.ack, !.have_last = TRUE]
  /\ last_nonzero' = NewNonzero(run.fault, wf[run.i])
  /\ UNCHANGED build

AckRise(s) == run.have_last /\ run.cfg.latch_on_ack_rise /\ ~run.last_ack /\ s.ack

(* The first sample is only a reference, and others are no rise of ACK. *)
SamplePasses ==
  /\ Running /\ ~AckRise(Current)
  /\ Advance(Current)
  /\ st' = [st EXCEPT !.samples_seen = Plus(@, 1)]
  /\ UNCHANGED <<burst, emitted, latched, events, reported>>

LatchStats(word) ==
  LET neutral == IF "NEUTRAL" \in word.err_flags THEN 1 ELSE 0
  IN [st EXCEPT
        !.samples_seen    = Plus(@, 1),
        !.ack_rises       = Plus(@, 1),
        !.words_latched   = Plus(@, 1),
        !.codec_ok        = Plus(@, IF word.ok THEN 1 ELSE 0),
        !.codec_invalid   = Plus(@, IF word.ok THEN 0 ELSE 1),
        !.codec_neutral   = Plus(@, neutral),
        !.protocol_issues = Plus(@, IF run.cfg.count_neutral_as_error THEN neutral ELSE 0)]
SampleLatches ==
  /\ Running /\ AckRise(Current)
  /\ Advance(Current)
  /\ LET word == Decode(Current.data)
     IN /\ st' = LatchStats(word)
        /\ IF run.cfg.ignore_invalid_words /\ ~word.ok
           THEN /\ events' = Append(events, <<>>)
                /\ UNCHANGED <<burst, emitted, reported>>
           ELSE /\ Feed(word)
                /\ events' = Append(events, emitted')
                /\ reported' = reported + Len(emitted')
  /\ latched' = Append(latched, Current.data)

End ==
  /\ run.pc = "run" /\ run.i > Len(wf)
  /\ run' = [run EXCEPT !.pc = "done"]
  /\ st' = [st EXCEPT !.bursts_completed = burst.bursts_completed,
                      !.events_emitted   = burst.events_emitted]
  /\ UNCHANGED <<burst, emitted, build, last_nonzero, latched, events, reported>>

-----------------------------------------------------------------------------
(* aer_tx_model_init: the first sample is the initial state. *)
Init ==
  /\ BurstInit
  /\ \E delays \in Timings, initial_ack \in BOOLEAN :
       /\ tx = [delays |-> delays, initial_ack |-> initial_ack, t |-> 0, ack |-> initial_ack]
       /\ wf = <<Sample(0, Neutral, initial_ack)>>
  /\ script = <<>> /\ loaded = FALSE
  /\ run = [pc |-> "build", calls |-> 0, fault |-> NoFault, cfg |-> CfgDefault,
            i |-> 1, last_ack |-> FALSE, have_last |-> FALSE]
  /\ st = ZeroStats
  /\ last_nonzero = Neutral
  /\ latched = <<>> /\ events = <<>> /\ reported = 0

Replay == SampleAborts \/ SamplePasses \/ SampleLatches \/ End
Next ==
  \/ \E word \in TxWords : EmitWord(word)
  \/ LoadAnyLine
  \/ \E fault \in Faults, cfg \in Cfgs : Start(fault, cfg)
  \/ Replay

Spec == Init /\ [][Next]_vars

-----------------------------------------------------------------------------
(* "valid -> ack high -> neutral -> ack low", aer_tx_model.h: whatever the *)
(* delays, 0 included, the waveform of a transmitter that starts with ACK  *)
(* low shows every phase of every word, in this order and in time order.   *)
FourPhase(a, b) ==
  \/ a.data = Neutral /\ ~a.ack /\ b.data # Neutral /\ ~b.ack
  \/ a.data # Neutral /\ ~a.ack /\ b.data = a.data /\ b.ack
  \/ a.data # Neutral /\ a.ack /\ b.data = Neutral /\ b.ack
  \/ a.data = Neutral /\ a.ack /\ b.data = Neutral /\ ~b.ack
WaveformIsFourPhase ==
  /\ \A i \in 1 .. Len(wf) - 1 : wf[i].t <= wf[i + 1].t
  /\ ~tx.initial_ack /\ ~loaded =>
       /\ Len(wf) = 4 * Len(script) + 1
       /\ \A i \in 1 .. Len(wf) - 1 : FourPhase(wf[i], wf[i + 1])

(* The words a replay has to latch: all that were emitted, but the first   *)
(* when ACK was high from the start, because its rise is no edge.          *)
Emitted == IF tx.initial_ack /\ script # <<>> THEN Tail(script) ELSE script
RisesBefore(t) == Cardinality({k \in 1 .. Len(Emitted) : Emitted[k].rise < t})
Finished == run.pc = "done" /\ ~loaded /\ run.cfg.latch_on_ack_rise

(* A run without a fault, or with the spacers removed, latches exactly the *)
(* words emitted, and a glitch changes those words whose ACK rises in its  *)
(* window, and no others.                                                  *)
ReplaysTheWords ==
  Finished /\ run.fault.kind \in {"none", "drop_neutral", "glitch"} =>
    latched = [k \in 1 .. Len(Emitted) |->
                 IF /\ run.fault.kind = "glitch"
                    /\ Emitted[k].rise \in run.fault.from .. run.fault.to
                 THEN Xor(Emitted[k].word, run.fault.mask) ELSE Emitted[k].word]

(* "force ACK to a fixed level starting at start_t": the words before it   *)
(* are latched, then none when the level is low, and at most what is on    *)
(* the bus at that moment when it is high.                                 *)
StuckAckStops ==
  Finished /\ run.fault.kind = "stuck_ack" =>
    LET n == RisesBefore(run.fault.from)
    IN /\ Len(latched) \in n .. n + (IF run.fault.level THEN 1 ELSE 0)
       /\ \A k \in 1 .. n : latched[k] = Emitted[k].word

(* The burst under way when word k is latched: the valid words since the   *)
(* last TAIL.  The first of them is the row, the next Cols are columns.    *)
IsTail(word)      == Decode(word).is_tail
IndexOf(word)     == Index(PayloadOf(word))
BurstAt(words, k) ==
  {p \in 1 .. k - 1 : Valid(words[p]) /\ \A j \in p .. k - 1 : ~IsTail(words[j])}
Rank(words, k, p) == Cardinality({q \in BurstAt(words, k) : q < p})
Columns(words, k) == LET n == Cardinality(BurstAt(words, k)) IN IF n > Cols THEN Cols ELSE n - 1

(* The events of a run are those of its own words, burst by burst: an      *)
(* earlier run, even one that was aborted in the middle of a burst, leaves *)
(* nothing behind in the assembler, and invalid words change nothing,      *)
(* whether they are fed or ignored.                                        *)
EventsAreOfThisRun ==
  /\ Len(events) = Len(latched)
  /\ \A k \in 1 .. Len(latched) :
       LET burst_k == BurstAt(latched, k)
           rank(p) == Rank(latched, k, p)
       IN /\ Len(events[k]) =
               IF IsTail(latched[k]) /\ burst_k # {} THEN Columns(latched, k) ELSE 0
          /\ IsTail(latched[k]) =>
               \A row, col \in burst_k :
                 rank(row) = 0 /\ rank(col) \in 1 .. Cols =>
                   events[k][rank(col)] = <<IndexOf(latched[row]), IndexOf(latched[col])>>

(* The statistics of a run are those of the run, modulo their range,       *)
(* except the two that are copied from the assembler: they go on counting  *)
(* from run to run.                                                        *)
Counted(n) == n % CounterMod
CodeWordsAt == {k \in 1 .. Len(latched) : Valid(latched[k])}
NeutralsAt  == {k \in 1 .. Len(latched) : latched[k] \cap BusWires = Neutral}   \* "raw==0 after mask"
StatsAddUp ==
  LET aborted  == run.pc = "done" /\ run.i <= Len(wf)
      neutrals == Cardinality(NeutralsAt)
  IN ~aborted =>
       /\ st.samples_seen = Counted(run.i - 1)
       /\ st.ack_rises = Counted(Len(latched)) /\ st.words_latched = Counted(Len(latched))
       /\ st.codec_ok = Counted(Cardinality(CodeWordsAt))
       /\ st.codec_invalid = Counted(Len(latched) - Cardinality(CodeWordsAt))
       /\ st.codec_neutral = Counted(neutrals)
       /\ st.protocol_issues = IF run.cfg.count_neutral_as_error THEN Counted(neutrals) ELSE 0
       /\ run.pc = "done" => st.events_emitted = Counted(reported)
=============================================================================
