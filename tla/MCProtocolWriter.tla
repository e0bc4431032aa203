-------------------------- MODULE MCProtocolWriter --------------------------
(* A message of two fragments, one of a single frame, a Blob, a stream of  *)
(* two chunks, a ping or pong and the close call.                          *)
EXTENDS ProtocolWriter

CONSTANTS m1, m2, m3, st, c1, c2, ping, close

None == {}
AllFaults == {"end", "destroy", "error"}

ThreeSends == {m1, m2, m3}
TheBlob == {m3}
OneStream == {st}
TwoChunks == {c1, c2}
OnePing == {ping}

SmallChunks == [t \in ThreeSends \cup TwoChunks |-> IF t = m1 THEN 2 ELSE 1]
LargeChunk == [t \in ThreeSends \cup TwoChunks |-> IF t \in {m1, c1} THEN 2 ELSE 1]
ChunksOfStream == [c \in TwoChunks |-> st]

(* Bound: the program sends its two plain messages or the Blob and the     *)
(* stream; what it does not call stays idle.                               *)
TwoMessages ==
  (\A t \in {m1, m2} : pc[t] = "idle") \/ (\A t \in {m3, st} : pc[t] = "idle")
=============================================================================
