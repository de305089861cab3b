---------------------------- MODULE BoundedFifo ----------------------------
(***************************************************************************)
(* What common/include/ringbuf.h promises its two users: a first-in        *)
(* first-out queue of at most Slots values.  A push fails only when the    *)
(* queue is full and a pop or a peek only when it is empty.                *)
(***************************************************************************)
EXTENDS Integers, Sequences

CONSTANTS
  Values,  \* what can be stored
  Nothing, \* what a failed pop returns
  Slots    \* how many values fit

VARIABLES
  queue,   \* contents, oldest first
  stored,  \* what the last push returned
  got      \* the value the last pop or peek returned, or Nothing

vars == <<queue, stored, got>>

Init == queue = <<>> /\ stored = TRUE /\ got = Nothing

Push(v) ==
  /\ Len(queue) < Slots
  /\ queue' = Append(queue, v)
  /\ stored' = TRUE
  /\ UNCHANGED got

PushFails ==
  /\ Len(queue) = Slots
  /\ stored' = FALSE
  /\ UNCHANGED <<queue, got>>

Pop ==
  /\ queue # <<>>
  /\ got' = queue[1]
  /\ queue' = Tail(queue)
  /\ UNCHANGED stored

Peek ==
  /\ queue # <<>>
  /\ got' = queue[1]
  /\ UNCHANGED <<queue, stored>>

FindsEmpty ==
  /\ queue = <<>>
  /\ got' = Nothing
  /\ UNCHANGED <<queue, stored>>

Reset == queue' = <<>> /\ UNCHANGED <<stored, got>>

Next ==
  \/ \E v \in Values : Push(v)
  \/ PushFails
  \/ Pop
  \/ Peek
  \/ FindsEmpty
  \/ Reset

Spec == Init /\ [][Next]_vars
=============================================================================
