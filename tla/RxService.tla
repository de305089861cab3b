----------------------------- MODULE RxService -----------------------------
(***************************************************************************)
(* aer_rx_poll_service of pico_aer_rx/aer_rx_poll.c on top of the step of  *)
(* AerRxPoll, with the clock of hal/hal_time.c: the one local "deadline"   *)
(* that both waits of a step share, and the time budget of the call.       *)
(*                                                                         *)
(* Times are counted from the beginning of the call.  The receiver may be  *)
(* held up between any two of its actions, but by at most MaxDelay.        *)
(***************************************************************************)
EXTENDS AerRxPoll

CONSTANTS
  ValidUs,    \* wait_valid_timeout_us
  NeutralUs,  \* wait_neutral_timeout_us
  Calls,      \* bound: <<max_words, time_budget_us>> of the calls
  MaxDelay,   \* bound: time between two actions of the receiver
  ClockEnd    \* bound: the time after which the clock of a call stands still

ASSUME ServiceAssumption ==
  /\ ValidUs \in Nat /\ NeutralUs \in Nat
  /\ ValidTimeout = (ValidUs # 0) /\ NeutralTimeout = (NeutralUs # 0)
  /\ Calls \subseteq Nat \X Nat
  /\ MaxDelay \in Nat \ {0} /\ ClockEnd \in Nat

VARIABLES
  svc,  \* the call: whether it runs, its arguments, i and ok, and whether the
        \* next step is about to be called
  clk   \* now, the step's deadline, the time since the receiver's last action;
        \* history: when the step's present wait began

sVars == <<vars, svc, clk>>

NoService == [running |-> FALSE, max_words |-> 0, budget |-> 0, i |-> 0, ok |-> 0, took |-> 0,
              turn |-> FALSE]
Zero   == [now |-> 0, deadline |-> 0, gap |-> 0, since |-> 0]

ServiceInit == Init /\ svc = NoService /\ clk = Zero

(* Time passes while a call runs.  The definitions marked "mutant" are     *)
(* plausible bugs in the definition that follows them; nothing else uses   *)
(* them.                                                                   *)
TimePasses ==
  /\ svc.running
  /\ clk.gap < MaxDelay
  /\ clk' = [clk EXCEPT !.now = IF @ < ClockEnd THEN @ + 1 ELSE @, !.gap = @ + 1]
  /\ UNCHANGED <<vars, svc>>

ExpiredAtDeadline(deadline) == deadline = clk.now                \* mutant
(* hal_time_expired: a signed difference of deadline and now *)
Expired(deadline) == deadline - clk.now <= 0

-----------------------------------------------------------------------------
(* aer_rx_poll_service.                                                    *)

ServiceCall ==
  /\ ~svc.running
  /\ \E c \in Calls :
       svc' = [NoService EXCEPT !.running = TRUE, !.max_words = c[1], !.budget = c[2]]
  /\ UNCHANGED <<vars, clk>>

(* Only the value returned, and the history of it, outlive the call. *)
Returned == [NoService EXCEPT !.ok = svc.ok, !.took = svc.took]

OutOfBudget == svc.budget # 0 /\ Expired(svc.budget)

(* The loop tests i, then the budget, ... *)
BeginTurnUnbudgeted ==                                           \* mutant
  /\ svc.running /\ rx_pc = "idle" /\ ~svc.turn /\ svc.i < svc.max_words
  /\ svc' = [svc EXCEPT !.turn = TRUE]
  /\ clk' = [clk EXCEPT !.gap = 0]
  /\ UNCHANGED vars
BeginTurn ==
  /\ svc.running /\ rx_pc = "idle" /\ ~svc.turn /\ svc.i < svc.max_words /\ ~OutOfBudget
  /\ svc' = [svc EXCEPT !.turn = TRUE]
  /\ clk' = [clk EXCEPT !.gap = 0]
  /\ UNCHANGED vars

(* ... and calls the step, which takes its first deadline. *)
ServiceStep ==
  /\ svc.turn
  /\ StepCall
  /\ svc' = [svc EXCEPT !.turn = FALSE]
  /\ clk' = [clk EXCEPT !.deadline = clk.now + ValidUs, !.gap = 0, !.since = clk.now]

ServiceReturn ==
  /\ svc.running /\ rx_pc = "idle" /\ ~svc.turn
  /\ svc.i >= svc.max_words \/ OutOfBudget
  /\ svc' = Returned
  /\ clk' = Zero
  /\ UNCHANGED vars

(* What the step does at once, without a look at the clock. *)
Acts == ReadValid \/ ReadNotValid \/ AssertAck \/ ReadNeutral \/ ReadNotNeutral
RunStep ==
  /\ Acts
  /\ svc' = [svc EXCEPT !.took = IF rx_pc' = "ack" THEN @ + 1 ELSE @]
  /\ clk' = [clk EXCEPT !.gap = 0]

StoresKeepsDeadline ==                                           \* mutant
  /\ CheckFull \/ Push
  /\ clk' = [clk EXCEPT !.gap = 0, !.since = IF rx_pc' = "wait_neutral" THEN clk.now ELSE @]
  /\ UNCHANGED svc
(* The word is stored or dropped, and the deadline is taken anew. *)
Stores ==
  /\ CheckFull \/ Push
  /\ clk' = IF rx_pc' = "wait_neutral"
            THEN [clk EXCEPT !.gap = 0, !.since = clk.now, !.deadline = clk.now + NeutralUs]
            ELSE [clk EXCEPT !.gap = 0]
  /\ UNCHANGED svc

WaitsOn ==
  /\ \/ ValidNotExpired   /\ (ValidUs # 0   => ~Expired(clk.deadline))
     \/ NeutralNotExpired /\ (NeutralUs # 0 => ~Expired(clk.deadline))
  /\ clk' = [clk EXCEPT !.gap = 0]
  /\ UNCHANGED svc

TimesOutGoesOn ==                                                \* mutant
  /\ ValidExpired \/ NeutralExpired
  /\ Expired(clk.deadline)
  /\ clk' = [clk EXCEPT !.gap = 0]
  /\ svc' = [svc EXCEPT !.i = @ + 1]
(* "On timeouts, return control to main" *)
TimesOut ==
  /\ ValidExpired \/ NeutralExpired
  /\ Expired(clk.deadline)
  /\ svc' = Returned
  /\ clk' = Zero

Completes ==
  /\ Deassert
  /\ svc' = [svc EXCEPT !.i = @ + 1, !.ok = @ + 1]
  /\ clk' = [clk EXCEPT !.gap = 0]

Service ==
  \/ BeginTurn \/ ServiceStep \/ RunStep \/ Stores \/ WaitsOn
  \/ Completes \/ TimesOut \/ ServiceReturn

Beside ==
  /\ \E w \in Words : TxStart(w) \/ Transmitter \/ Pop
  /\ UNCHANGED <<svc, clk>>

(* aer_rx_poll_reset is called between two calls. *)
ResetStats == Reset /\ ~svc.running /\ UNCHANGED <<svc, clk>>

ServiceNext == ServiceCall \/ Service \/ TimePasses \/ Beside \/ ResetStats

(* The receiver runs and time passes; the transmitter may stop anywhere. *)
ServiceFairness == WF_sVars(Service) /\ WF_sVars(TimePasses)
ServiceSpec == ServiceInit /\ [][ServiceNext]_sVars /\ ServiceFairness

-----------------------------------------------------------------------------
(* The value returned is the number of completed handshakes: of the words  *)
(* latched in the call it leaves out the one whose neutral timeout ended   *)
(* the call, stored though it was, and it includes those dropped.          *)
ReturnAccounts ==
  LET unfinished == \/ rx_pc \in Latched \cup Finishing
                    \/ ~svc.running /\ svc.took # 0 /\ status = "TIMEOUT_WAIT_NEUTRAL"
  IN /\ svc.took = svc.ok + IF unfinished THEN 1 ELSE 0
     /\ svc.running => svc.took <= svc.max_words

(* "optionally stops after time_budget_us", aer_rx_poll.h: with both       *)
(* timeouts on a call outlasts its budget by one step at most, and a step  *)
(* outlasts its two timeouts only by the gaps between its actions.         *)
StepBound == ValidUs + NeutralUs + 8 * MaxDelay
ServiceIsPrompt ==
  /\ clk.now <= svc.max_words * StepBound + MaxDelay
  /\ svc.budget # 0 => clk.now <= svc.budget + StepBound

(* Each wait of a step is given its whole timeout, although both waits     *)
(* share one deadline.                                                     *)
NeverTimesOutEarly ==
  [][ rx_pc' = "idle" =>
        /\ rx_pc = "valid_late"   => clk.now - clk.since >= ValidUs
        /\ rx_pc = "neutral_late" => clk.now - clk.since >= NeutralUs ]_sVars

(* With both timeouts on a call returns even if the transmitter hangs, for *)
(* no other reason than that the clock goes on.                            *)
ServiceReturns == svc.running ~> ~svc.running
=============================================================================
