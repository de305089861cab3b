----------------------------- MODULE BurstPipe -----------------------------
(***************************************************************************)
(* What the receiver promises to the host for one sensor: a row, its       *)
(* columns and a TAIL go in, and the events of each burst come out, once,  *)
(* in order and before the next burst ends.                                *)
(***************************************************************************)
EXTENDS Integers, Sequences

CONSTANTS Indices, MaxCols

VARIABLES
  sent,  \* <<row, column, ...>>: the burst the sensor is sending
  due,   \* <<>> or a burst that has ended and is not yet reported
  out    \* the events reported last, <<>> after the next word

vars == <<sent, due, out>>

EventsOf(b) == [i \in 1 .. Len(b) - 1 |-> <<b[1], b[i + 1]>>]

Init == sent = <<>> /\ due = <<>> /\ out = <<>>

Row(i) ==
  /\ sent = <<>>
  /\ sent' = <<i>>
  /\ UNCHANGED <<due, out>>

Column(i) ==
  /\ sent # <<>> /\ Len(sent) <= MaxCols
  /\ sent' = Append(sent, i)
  /\ UNCHANGED <<due, out>>

EndBurst ==
  /\ Len(sent) > 1
  /\ due = <<>>
  /\ due' = sent
  /\ sent' = <<>>
  /\ UNCHANGED out

Report ==
  /\ due # <<>>
  /\ out' = EventsOf(due)
  /\ due' = <<>>
  /\ UNCHANGED sent

Quiet == out' = <<>> /\ UNCHANGED <<sent, due>>

Next ==
  \/ \E i \in Indices : Row(i) \/ Column(i)
  \/ EndBurst
  \/ Report
  \/ Quiet

Spec == Init /\ [][Next]_vars
=============================================================================
