------------------------------ MODULE HalTime ------------------------------
(***************************************************************************)
(* pico_aer_rx/hal/hal_time.c: deadlines on the microsecond clock, and the *)
(* 32-bit cycle counter, which is the DWT's or is derived from the         *)
(* microseconds.  The widths are parameters and arithmetic wraps as in C.  *)
(*                                                                         *)
(* One caller at a time waits for a deadline or spins for a number of      *)
(* cycles; between two reads of a clock it may be held up by MaxGap cycles.*)
(***************************************************************************)
EXTENDS Integers

CONSTANTS
  Word,       \* the range of a uint32_t, 2^32 in the code
  Long,       \* the range of a uint64_t, and of the microsecond clock
  Million,    \* 10^6 in the code
  DefaultHz,  \* 125000000 in the code
  ClockHz,    \* bound: what clock_get_hz(clk_sys) returns, 0 included
  Waits,      \* bound: the microseconds that callers ask for
  MaxGap      \* bound: cycles between two reads of a clock

(* The system clock is a whole number of megahertz, and no caller is held  *)
(* up for half the range of the microsecond clock.                         *)
ASSUME HalTimeAssumption ==
  /\ Word \in Nat \ {0} /\ Long \in Nat
  /\ Long % Word = 0 /\ Long >= 2 * Word
  /\ Million \in Nat \ {0} /\ DefaultHz \in Nat \ {0} /\ ClockHz \subseteq Nat
  /\ \A hz \in ClockHz \cup {DefaultHz} : hz % Million = 0
  /\ Waits \subseteq 0 .. Word - 1
  /\ MaxGap \in 1 .. Long \div 2

VARIABLES
  clock,  \* the microsecond clock, in cycles
  g,      \* g_cycles_per_us and g_dwt_ok
  call    \* the wait or spin under way, or the last one: its argument in
          \* microseconds, its local; history: the cycles since its first read
timeVars == <<clock, g, call>>

(* hal_time_init; the DWT counts, or is locked or missing. *)
CyclesPerUs(hz) ==
  LET rate == IF hz = 0 THEN DefaultHz ELSE hz
  IN IF rate \div Million = 0 THEN 1 ELSE rate \div Million

NoCall == [op |-> "none", us |-> 0, local |-> 0, gone |-> 0, gap |-> 0, returned |-> FALSE]

TimeInit ==
  /\ clock = 0
  /\ g \in [cycles_per_us : {CyclesPerUs(hz) : hz \in ClockHz}, dwt_ok : BOOLEAN]
  /\ call = NoCall

-----------------------------------------------------------------------------
(* Reading the clocks.  CYCCNT starts at any value relative to the         *)
(* microseconds, because the clock may be anywhere when a call begins.     *)
(* The definitions marked "mutant" are plausible bugs in the definition    *)
(* that follows them; nothing else uses them.                              *)

ClockRange == Long * g.cycles_per_us
hal_time_us_now == clock \div g.cycles_per_us

hal_cycles_now ==
  IF g.dwt_ok THEN clock % Word ELSE (hal_time_us_now * g.cycles_per_us) % Word

DiffClamped(newer, older) == IF newer < older THEN 0 ELSE newer - older  \* mutant
hal_cycles_diff(newer, older) == (newer - older) % Word

hal_cycles_to_us(cycles) == cycles \div g.cycles_per_us

hal_us_to_cycles(us) ==
  LET c == us * g.cycles_per_us IN IF c > Word - 1 THEN Word - 1 ELSE c

hal_time_deadline_us(us) == (hal_time_us_now + us) % Long

(* (int64_t) *)
Signed(x) == IF x < Long \div 2 THEN x ELSE x - Long

ExpiredUnsigned(deadline) == deadline <= hal_time_us_now         \* mutant
hal_time_expired(deadline) == Signed((deadline - hal_time_us_now) % Long) <= 0

hal_time_remaining_us(deadline) ==
  LET rem == deadline - hal_time_us_now
  IN IF rem <= 0 THEN 0 ELSE IF rem > Word - 1 THEN Word - 1 ELSE rem

-----------------------------------------------------------------------------
(* hal_time_wait_until and hal_time_spin_cycles *)

Begin(op, us, local) ==
  /\ call = NoCall
  /\ call' = [op |-> op, us |-> us, local |-> local, gone |-> 0, gap |-> 0,
              returned |-> FALSE]
  /\ UNCHANGED <<clock, g>>

WaitUntil  == \E us \in Waits : Begin("wait_until", us, hal_time_deadline_us(us))
SpinCycles == \E us \in Waits : Begin("spin_cycles", us, hal_cycles_now)

(* The loops test, and go round or return. *)
WaitsOnDeadline == call.op = "wait_until" /\ ~hal_time_expired(call.local)
SpinsOn ==
  /\ call.op = "spin_cycles"
  /\ hal_cycles_diff(hal_cycles_now, call.local) < hal_us_to_cycles(call.us)
GoesRound == WaitsOnDeadline \/ SpinsOn

TestAgain ==
  /\ ~call.returned /\ GoesRound
  /\ call' = [call EXCEPT !.gap = 0]
  /\ UNCHANGED <<clock, g>>

(* The caller of a spin measures it, which is what hal_cycles_diff and     *)
(* hal_cycles_to_us are for.                                               *)
Measured == hal_cycles_to_us(hal_cycles_diff(hal_cycles_now, call.local))
Return ==
  /\ call # NoCall /\ ~call.returned /\ ~GoesRound
  /\ call' = [call EXCEPT !.returned = TRUE,
                          !.local = IF call.op = "spin_cycles" THEN Measured ELSE @]
  /\ UNCHANGED <<clock, g>>

(* The clock moves on: during a call by one cycle, between calls at will. *)
Horizon == Word * g.cycles_per_us + MaxGap   \* bound: the history of a call ends there
Cycle ==
  /\ call # NoCall /\ ~call.returned
  /\ call.gap < MaxGap
  /\ clock' = (clock + 1) % ClockRange
  /\ call' = [call EXCEPT !.gap = @ + 1, !.gone = IF @ < Horizon THEN @ + 1 ELSE @]
  /\ UNCHANGED g

Elsewhere ==
  /\ call = NoCall \/ call.returned
  /\ clock' \in 0 .. ClockRange - 1
  /\ call' = NoCall
  /\ UNCHANGED g

TimeNext == WaitUntil \/ SpinCycles \/ TestAgain \/ Return \/ Cycle \/ Elsewhere

TimeSpec == TimeInit /\ [][TimeNext]_timeVars

-----------------------------------------------------------------------------
(* The microseconds on the clock since the call began. *)
UsGone == (((clock - call.gone) % g.cycles_per_us) + call.gone) \div g.cycles_per_us

(* "Signed compare is robust even if you ever change timebase to wrap":    *)
(* no wait for a deadline is short, and none passes it by more than the    *)
(* gap between two tests, wherever the clock wraps.  As long as it does    *)
(* not wrap, as 64 bits of microseconds never do, hal_time_remaining_us    *)
(* counts a deadline down to 0, where it stays.                            *)
DeadlinesHold ==
  call.op = "wait_until" =>
    /\ call.returned => UsGone >= call.us
    /\ call.gone < (call.us + 1) * g.cycles_per_us + MaxGap
    /\ hal_time_us_now - UsGone \in 0 .. Long - 1 - call.us =>
         hal_time_remaining_us(call.local) = IF UsGone < call.us THEN call.us - UsGone ELSE 0

(* "Busy-wait for a number of cycles (wrap-safe)": a spin for so many      *)
(* microseconds, or for the cycles that fit a uint32_t, is less than one   *)
(* step of the counter short; and it ends with the first test that is due  *)
(* unless the counter can run past its range between two tests.  A span    *)
(* shorter than that range is measured to the microsecond.                 *)
Grain == IF g.dwt_ok THEN 1 ELSE g.cycles_per_us
SpinsAsAsked ==
  LET asked == call.us * g.cycles_per_us
  IN call.op = "spin_cycles" =>
       /\ call.returned => call.gone + Grain > IF asked < Word THEN asked ELSE Word - 1
       /\ asked + MaxGap <= Word => call.gone <= asked + MaxGap
       /\ call.returned /\ call.gone + g.cycles_per_us <= Word =>
            call.local \in {call.gone \div g.cycles_per_us, UsGone}
=============================================================================
