-------------------------- MODULE HandshakeChannel --------------------------
(***************************************************************************)
(* What the link of AerRxPoll promises: words cross it one at a time, in   *)
(* order, and each is stored exactly once in a queue of Slots elements, or *)
(* dropped and counted when the queue is full at that moment.  A link that *)
(* garbles may lose wires of a word on the way, never all of them.         *)
(***************************************************************************)
EXTENDS Integers, Sequences

CONSTANTS
  Words,   \* nonempty sets of wires
  Garble,  \* the link may lose wires of a word
  Slots,   \* capacity of the queue
  DropMod  \* range of the counter of dropped words

VARIABLES
  chan,    \* <<>> or <<w>>: the word crossing the link
  queue,   \* words received and not yet consumed
  dropped  \* words dropped because the queue was full

vars == <<chan, queue, dropped>>

Init == chan = <<>> /\ queue = <<>> /\ dropped = 0

Send(w) ==
  /\ chan = <<>>
  /\ chan' = <<w>>
  /\ UNCHANGED <<queue, dropped>>

LoseWires ==
  /\ Garble
  /\ chan # <<>>
  /\ \E w \in SUBSET chan[1] : w # {} /\ chan' = <<w>>
  /\ UNCHANGED <<queue, dropped>>

Receive ==
  /\ chan # <<>>
  /\ Len(queue) < Slots
  /\ queue' = Append(queue, chan[1])
  /\ chan' = <<>>
  /\ UNCHANGED dropped

Drop ==
  /\ chan # <<>>
  /\ Len(queue) = Slots
  /\ chan' = <<>>
  /\ dropped' = (dropped + 1) % DropMod
  /\ UNCHANGED queue

Consume ==
  /\ queue # <<>>
  /\ queue' = Tail(queue)
  /\ UNCHANGED <<chan, dropped>>

ClearCount ==
  /\ dropped' = 0
  /\ UNCHANGED <<chan, queue>>

Next ==
  \/ \E w \in Words : Send(w)
  \/ LoseWires
  \/ Receive
  \/ Drop
  \/ Consume
  \/ ClearCount

Spec == Init /\ [][Next]_vars
=============================================================================
