------------------------------ MODULE FifoLock ------------------------------
(***************************************************************************)
(* What the Mutex class of source/div.js promises its callers: at most one *)
(* of them is inside the protected section, and they enter it in the order *)
(* in which they asked.  ProtocolWriter queues its messages on one such    *)
(* lock and its frames on another.                                         *)
(***************************************************************************)
EXTENDS Sequences

CONSTANT Callers

VARIABLES queue,    \* who asked and has not left, in the order of the requests
          holders   \* who is inside the protected section

vars == <<queue, holders>>

Waiting == {queue[i] : i \in DOMAIN queue}

Init == queue = <<>> /\ holders = {}

Request(c) ==
  /\ c \notin Waiting
  /\ queue' = Append(queue, c)
  /\ UNCHANGED holders

Grant(c) ==
  /\ holders = {}
  /\ queue # <<>>
  /\ c = Head(queue)
  /\ holders' = {c}
  /\ UNCHANGED queue

Release(c) ==
  /\ c \in holders
  /\ queue' = Tail(queue)
  /\ holders' = holders \ {c}

Next == \E c \in Callers : Request(c) \/ Grant(c) \/ Release(c)

Spec == Init /\ [][Next]_vars
=============================================================================
