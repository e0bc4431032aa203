------------------------ MODULE ProtocolWriterProofs ------------------------
(***************************************************************************)
(* What source/protocolWriter.js keeps for any number of messages, streams *)
(* and control frames and whatever the socket does.                        *)
(***************************************************************************)
EXTENDS ProtocolWriter, SequenceTheorems, TLAPS

(* How the sets of calls lie in each other. *)
LEMMA CallSets ==
  /\ Closing \in Calls /\ Sends \subseteq Calls /\ Streams \subseteq Calls
  /\ Chunks \subseteq Calls /\ Controls \subseteq Calls
  /\ Sends \subseteq Messages /\ Streams \subseteq Messages
  /\ \A c \in Chunks : Of[c] \in Streams
BY WriterAssumption DEF Calls, Messages

(* Calls that asked for the message lock and did not unlock it. *)
Active(m) == pc[m] \notin {"idle", "blob", "done"}

Queued == {msgQueue[i] : i \in 1..Len(msgQueue)}

Holding == Messages \cup {Closing}

(* #msgMutex: who is queued is active, once, and only the first is past    *)
(* its lock().                                                             *)
MessageLockInv ==
  /\ \A i, j \in 1..Len(msgQueue) : msgQueue[i] = msgQueue[j] => i = j
  /\ \A m \in Holding : m \in Queued <=> Active(m)
  /\ \A i \in 2..Len(msgQueue) : pc[msgQueue[i]] = "msgWait"

(* A call that got #msgMutex and did not unlock it is first in the queue. *)
LEMMA PastLockHolds ==
  ASSUME TypeOK, MessageLockInv, NEW m \in Holding, Active(m), pc[m] # "msgWait"
  PROVE  HoldsMessageLock(m)
<1>1. PICK i \in 1..Len(msgQueue) : msgQueue[i] = m
  BY DEF MessageLockInv, Queued
<1>2. i = 1
  BY <1>1 DEF MessageLockInv, TypeOK
<1> QED
  BY <1>1, <1>2 DEF HoldsMessageLock, TypeOK

(* #frameMutex: while it is not lost the callers of the queued frames wait  *)
(* for them, each for one.                                                 *)
FrameLockInv ==
  /\ writing # "free" => frameQueue # <<>>
  /\ writing = "stuck" => ~Writable
  /\ writing # "stuck" =>
       /\ \A i \in 1..Len(frameQueue) : pc[frameQueue[i].call] \in {"frame", "final"}
       /\ \A i, j \in 1..Len(frameQueue) : frameQueue[i].call = frameQueue[j].call => i = j

(* What writeFrame() changes up to its lock(), and what it leaves alone. *)
LEMMA SubmitType ==
  ASSUME TypeOK, NEW c \in Calls, NEW m \in Calls, NEW op \in Ops, NEW n \in Nat \ {0},
         NEW fin \in BOOLEAN, NEW payload \in BOOLEAN, NEW newPc \in Pcs,
         Submit(c, m, op, n, fin, payload, newPc)
  PROVE  /\ pc' \in [Calls -> Pcs] /\ frameQueue' \in Seq(Frames)
         /\ writing' = writing /\ backlog' = backlog /\ asked' = asked
         /\ io' = io /\ errored' = errored /\ needDrain' = needDrain /\ wire' = wire
         /\ reports' = reports
<1>1. [call |-> c, msg |-> m, op |-> op, n |-> n, fin |-> fin, payload |-> payload] \in Frames
  BY DEF Frames
<1> QED
  BY <1>1 DEF Submit, TypeOK, socket

(* The frame that is written is removed and its caller resumed. *)
LEMMA UnlockFrameType ==
  ASSUME TypeOK, frameQueue # <<>>, errored' \in BOOLEAN, UnlockFrame
  PROVE  pc' \in [Calls -> Pcs] /\ frameQueue' \in Seq(Frames) /\ writing' = "free"
<1>1. Head(frameQueue) \in Frames
  BY DEF TypeOK
<1>2. Head(frameQueue).call \in Calls
  BY <1>1 DEF Frames
<1> QED
  BY <1>2 DEF UnlockFrame, Result, TypeOK, Pcs

(* The type of what ioStream.write() changes. *)
LEMMA WriteToSocketType ==
  ASSUME TypeOK, frameQueue # <<>>, NEW part \in {"head", "payload"}, WriteToSocket(part)
  PROVE  /\ io' \in {"open", "ended", "destroyed"} /\ errored' \in BOOLEAN
         /\ needDrain' \in BOOLEAN /\ wire' \in Seq(Parts) /\ reports' \in Nat
<1>1. Head(frameQueue) \in Frames
  BY DEF TypeOK
<1>2. [frame |-> Head(frameQueue), part |-> part] \in Parts
  BY <1>1 DEF Parts
<1>3. wire \in Seq(Parts) /\ Append(wire, [frame |-> Head(frameQueue), part |-> part]) \in Seq(Parts)
  BY <1>2 DEF TypeOK
<1> QED
  BY <1>3 DEF WriteToSocket, TypeOK

(* The type of what a caller's step leaves alone. *)
LEMMA FrameStepType ==
  ASSUME TypeOK, FrameUnchanged,
         pc' \in [Calls -> Pcs], frameQueue' \in Seq(Frames),
         writing' \in {"free", "head", "headDrain", "payload", "payloadDrain", "stuck"},
         io' \in {"open", "ended", "destroyed"}, errored' \in BOOLEAN, needDrain' \in BOOLEAN,
         wire' \in Seq(Parts), reports' \in Nat
  PROVE  TypeOK'
BY DEF TypeOK, FrameUnchanged

(* Leaving #msgMutex keeps the types. *)
LEMMA UnlockMessageType ==
  ASSUME TypeOK, NEW m \in Messages, UnlockMessage(m, "done"), HoldsMessageLock(m),
         backlog' \subseteq Sends
  PROVE  TypeOK'
<1>1. m \in Calls /\ "done" \in Pcs
  BY DEF Calls, Pcs
<1>2. msgQueue # <<>> /\ Tail(msgQueue) \in Seq(Messages \cup {Closing})
  BY DEF HoldsMessageLock, TypeOK
<1> QED
  BY <1>1, <1>2 DEF UnlockMessage, TypeOK, socket

(* So does asking for it. *)
LEMMA AskType ==
  ASSUME TypeOK, NEW m \in Holding,
         asked' = Append(asked, m) \/ asked' = asked,
         pc' = [pc EXCEPT ![m] = "msgWait"], backlog' \subseteq Sends, LockMessage(m)
  PROVE  TypeOK'
<1>1. m \in Calls /\ "msgWait" \in Pcs
  BY DEF Calls, Pcs, Holding
<1>2. Append(asked, m) \in Seq(Messages \cup {Closing}) /\ Append(msgQueue, m) \in Seq(Messages \cup {Closing})
  BY DEF TypeOK, Holding
<1> QED
  BY <1>1, <1>2 DEF LockMessage, TypeOK, socket

(* So does submitting a fragment of a message. *)
LEMMA SubmitFragmentType ==
  ASSUME TypeOK, NEW t \in Sends, SubmitFragment(t)
  PROVE  TypeOK'
<1>1. t \in Calls /\ t \in Sends \cup Chunks
  BY CallSets
<1>2. PICK op \in Ops, fin \in BOOLEAN : Submit(t, t, op, next[t], fin, TRUE, "frame")
  BY DEF SubmitFragment, Ops
<1>3. next[t] \in Nat \ {0} /\ "frame" \in Pcs
  BY <1>1 DEF TypeOK, Pcs
<1>4. /\ pc' \in [Calls -> Pcs] /\ frameQueue' \in Seq(Frames)
      /\ writing' = writing /\ backlog' = backlog /\ asked' = asked
      /\ io' = io /\ errored' = errored /\ needDrain' = needDrain /\ wire' = wire
      /\ reports' = reports
  BY <1>1, <1>2, <1>3, SubmitType
<1>5. next' \in [Sends \cup Chunks -> Nat \ {0}]
  BY <1>1 DEF SubmitFragment, TypeOK
<1> QED
  BY <1>4, <1>5 DEF SubmitFragment, TypeOK

(* Types under the steps of a send(). *)
LEMMA SendType ==
  ASSUME TypeOK, MessageLockInv, NEW t \in Sends,
         Send(t) \/ BlobRead(t) \/ SendGranted(t) \/ SendContinues(t)
  PROVE  TypeOK'
<1>1. t \in Calls /\ t \in Messages /\ t \in Holding
  BY CallSets DEF Holding
<1>2. CASE Send(t)
  <2>1. CASE t \in Blobs
    <3>1. Append(asked, t) \in Seq(Messages \cup {Closing})
      BY <1>1 DEF TypeOK
    <3> QED
      BY <1>1, <1>2, <2>1, <3>1 DEF Send, TypeOK, Pcs, socket
  <2>2. CASE t \notin Blobs
    BY <1>1, <1>2, <2>2, AskType DEF Send, TypeOK
  <2> QED
    BY <2>1, <2>2
<1>3. CASE BlobRead(t)
  BY <1>1, <1>3, AskType DEF BlobRead, TypeOK
<1>4. CASE SendGranted(t)
  BY <1>1, <1>4, UnlockMessageType, SubmitFragmentType DEF SendGranted, TypeOK
<1>5. CASE SendContinues(t)
  <2>1. HoldsMessageLock(t)
    BY <1>1, <1>5, PastLockHolds DEF SendContinues, Active
  <2> QED
    BY <1>1, <1>5, <2>1, UnlockMessageType, SubmitFragmentType DEF SendContinues, TypeOK
<1> QED
  BY <1>2, <1>3, <1>4, <1>5

(* Types under a fragment of a chunk. *)
LEMMA SubmitChunkType ==
  ASSUME TypeOK, NEW c \in Chunks, SubmitChunk(c)
  PROVE  TypeOK'
<1>1. c \in Calls /\ c \in Sends \cup Chunks /\ Of[c] \in Streams /\ Of[c] \in Calls
  BY CallSets
<1>2. PICK op \in Ops : Submit(c, Of[c], op, frameNum[Of[c]] + 1, FALSE, TRUE, "frame")
  BY DEF SubmitChunk, Ops
<1>3. frameNum[Of[c]] + 1 \in Nat \ {0} /\ "frame" \in Pcs
  BY <1>1 DEF TypeOK, Pcs
<1>4. /\ pc' \in [Calls -> Pcs] /\ frameQueue' \in Seq(Frames)
      /\ writing' = writing /\ backlog' = backlog /\ asked' = asked
      /\ io' = io /\ errored' = errored /\ needDrain' = needDrain /\ wire' = wire
      /\ reports' = reports
  BY <1>1, <1>2, <1>3, SubmitType
<1>5. /\ next' \in [Sends \cup Chunks -> Nat \ {0}]
      /\ frameNum' \in [Streams -> Nat]
  BY <1>1 DEF SubmitChunk, TypeOK
<1> QED
  BY <1>4, <1>5 DEF SubmitChunk, TypeOK

(* Types under the steps of a sendStream(). *)
LEMMA StreamType ==
  ASSUME TypeOK, MessageLockInv, NEW s \in Streams,
         Ask(s) \/ StreamGranted(s) \/ StreamClose(s) \/ StreamFinished(s)
  PROVE  TypeOK'
<1>1. s \in Calls /\ s \in Messages /\ s \in Holding
  BY CallSets DEF Holding
<1>2. CASE Ask(s)
  BY <1>1, <1>2, AskType DEF Ask, TypeOK
<1>3. CASE StreamGranted(s)
  <2>1. CASE Writable
    BY <1>1, <1>3, <2>1 DEF StreamGranted, TypeOK, Pcs, socket
  <2>2. CASE ~Writable
    BY <1>1, <1>3, <2>2, UnlockMessageType DEF StreamGranted, TypeOK
  <2> QED
    BY <2>1, <2>2
<1>4. CASE StreamClose(s)
  <2>1. frameNum[s] + 1 \in Nat \ {0} /\ "continuation" \in Ops /\ "final" \in Pcs
    BY DEF TypeOK, Ops, Pcs
  <2>2. /\ pc' \in [Calls -> Pcs] /\ frameQueue' \in Seq(Frames)
        /\ writing' = writing /\ backlog' = backlog /\ asked' = asked
        /\ io' = io /\ errored' = errored /\ needDrain' = needDrain /\ wire' = wire
        /\ reports' = reports
    BY <1>1, <1>4, <2>1, SubmitType DEF StreamClose
  <2> QED
    BY <1>4, <2>2 DEF StreamClose, TypeOK
<1>5. CASE StreamFinished(s)
  <2>1. HoldsMessageLock(s)
    BY <1>1, <1>5, PastLockHolds DEF StreamFinished, Active
  <2> QED
    BY <1>1, <1>5, <2>1, UnlockMessageType DEF StreamFinished, TypeOK
<1> QED
  BY <1>2, <1>3, <1>4, <1>5

(* Types under the steps of a stream's 'data' handler. *)
LEMMA ChunkType ==
  ASSUME TypeOK, NEW c \in Chunks, StreamData(c) \/ ChunkContinues(c)
  PROVE  TypeOK'
<1>1. c \in Calls
  BY CallSets
<1>2. CASE StreamData(c)
  BY <1>2, SubmitChunkType DEF StreamData
<1>3. CASE ChunkContinues(c)
  <2>1. CASE SubmitChunk(c)
    BY <2>1, SubmitChunkType
  <2>2. CASE /\ pc' = [pc EXCEPT ![c] = "done"]
             /\ UNCHANGED <<next, frameNum, msgQueue, frameQueue, writing, backlog, socket, asked>>
    BY <1>1, <2>2 DEF TypeOK, Pcs, socket
  <2> QED
    BY <1>3, <2>1, <2>2 DEF ChunkContinues
<1> QED
  BY <1>2, <1>3

(* Types under ping() and pong(). *)
LEMMA ControlType ==
  ASSUME TypeOK, NEW c \in Controls, Control(c)
  PROVE  TypeOK'
<1>1. c \in Calls /\ "control" \in Ops /\ "frame" \in Pcs /\ 1 \in Nat \ {0}
  BY CallSets DEF Ops, Pcs
<1>2. /\ pc' \in [Calls -> Pcs] /\ frameQueue' \in Seq(Frames)
      /\ writing' = writing /\ backlog' = backlog /\ asked' = asked
      /\ io' = io /\ errored' = errored /\ needDrain' = needDrain /\ wire' = wire
      /\ reports' = reports
  BY <1>1, SubmitType DEF Control
<1>3. UNCHANGED <<next, frameNum, msgQueue>>
  BY DEF Control
<1> QED
  BY <1>2, <1>3 DEF TypeOK

(* Types under close(). *)
LEMMA CloseType ==
  ASSUME TypeOK, Ask(Closing) \/ CloseGranted
  PROVE  TypeOK'
<1>1. /\ Closing \in Calls /\ Closing \in Holding
      /\ "close" \in Ops /\ "frame" \in Pcs /\ 1 \in Nat \ {0}
  BY CallSets DEF Holding, Ops, Pcs
<1>2. CASE Ask(Closing)
  BY <1>1, <1>2, AskType DEF Ask, TypeOK
<1>3. CASE CloseGranted
  <2>1. CASE Submit(Closing, Closing, "close", 1, TRUE, TRUE, "frame")
    <3>1. /\ pc' \in [Calls -> Pcs] /\ frameQueue' \in Seq(Frames)
          /\ writing' = writing /\ backlog' = backlog /\ asked' = asked
          /\ io' = io /\ errored' = errored /\ needDrain' = needDrain /\ wire' = wire
          /\ reports' = reports
      BY <1>1, <2>1, SubmitType
    <3>2. UNCHANGED <<next, frameNum, msgQueue>>
      BY <1>3 DEF CloseGranted
    <3> QED
      BY <3>1, <3>2 DEF TypeOK
  <2>2. CASE ~Submit(Closing, Closing, "close", 1, TRUE, TRUE, "frame")
    BY <1>1, <1>3, <2>2 DEF CloseGranted, TypeOK, Pcs, socket
  <2> QED
    BY <2>1, <2>2
<1> QED
  BY <1>2, <1>3

(* Types under writeFrame() past its lock(). *)
LEMMA FrameType ==
  ASSUME TypeOK, FrameLockInv, GrantFrame \/ WriteHead \/ WritePayload
  PROVE  TypeOK'
<1>1. frameQueue # <<>>
  BY DEF GrantFrame, WriteHead, WritePayload, FrameLockInv
<1>2. Head(frameQueue).call \in Calls
  <2>1. Head(frameQueue) \in Frames
    BY <1>1 DEF TypeOK
  <2> QED
    BY <2>1 DEF Frames
<1>3. CASE GrantFrame
  <2>1. pc' \in [Calls -> Pcs] /\ writing' \in {"head", "stuck"}
    BY <1>2, <1>3 DEF GrantFrame, TypeOK, Pcs
  <2>2. UNCHANGED <<frameQueue, io, errored, needDrain, wire, reports>> /\ FrameUnchanged
    BY <1>3 DEF GrantFrame, socket
  <2> QED
    BY <2>1, <2>2 DEF FrameUnchanged, TypeOK
<1>4. CASE WriteHead
  <2>1. CASE MustDrain
    BY <1>4, <2>1 DEF WriteHead, FrameUnchanged, TypeOK, socket
  <2>2. CASE ~MustDrain
    BY <1>1, <1>4, <2>2, WriteToSocketType, UnlockFrameType, FrameStepType
       DEF WriteHead, TypeOK
  <2> QED
    BY <2>1, <2>2
<1>5. CASE WritePayload
  <2>1. CASE MustDrain
    BY <1>5, <2>1 DEF WritePayload, FrameUnchanged, TypeOK, socket
  <2>2. CASE ~MustDrain
    BY <1>1, <1>5, <2>2, WriteToSocketType, UnlockFrameType, FrameStepType
       DEF WritePayload, TypeOK
  <2> QED
    BY <2>1, <2>2
<1> QED
  BY <1>3, <1>4, <1>5

(* Types under what happens to the socket. *)
LEMMA SocketType ==
  ASSUME TypeOK, FrameLockInv, Drain \/ End \/ Destroy \/ SocketError
  PROVE  TypeOK'
<1>1. CASE Drain
  BY <1>1 DEF Drain, FrameUnchanged, TypeOK
<1>2. CASE End
  BY <1>2 DEF End, FrameUnchanged, TypeOK
<1>3. CASE Destroy
  BY <1>3 DEF Destroy, FrameUnchanged, TypeOK
<1>4. CASE SocketError
  <2>1. CASE writing \in {"headDrain", "payloadDrain"}
    BY <1>4, <2>1, UnlockFrameType, FrameStepType DEF SocketError, FrameLockInv, TypeOK
  <2>2. CASE writing \notin {"headDrain", "payloadDrain"}
    BY <1>4, <2>2 DEF SocketError, FrameUnchanged, TypeOK
  <2> QED
    BY <2>1, <2>2
<1> QED
  BY <1>1, <1>2, <1>3, <1>4

(* Every step keeps the types. *)
LEMMA TypeStep ==
  TypeOK /\ MessageLockInv /\ FrameLockInv /\ [Next]_vars => TypeOK'
<1>1. CASE UNCHANGED vars
  BY <1>1 DEF vars, socket, TypeOK
<1> QED
  BY <1>1, SendType, StreamType, ChunkType, ControlType, CloseType, FrameType, SocketType
     DEF Next

-----------------------------------------------------------------------------
(* Asking for #msgMutex keeps its invariant. *)
LEMMA LockKeeps ==
  ASSUME TypeOK, MessageLockInv, NEW m \in Holding, ~Active(m),
         msgQueue' = Append(msgQueue, m), pc' = [pc EXCEPT ![m] = "msgWait"]
  PROVE  MessageLockInv'
<1> DEFINE q == msgQueue
           r == msgQueue'
<1>1. m \in Calls /\ \A x \in Holding : x \in Calls
  BY CallSets DEF Holding, Messages, Calls
<1>2. /\ q \in Seq(Holding) /\ Len(q) \in Nat /\ Len(r) = Len(q) + 1 /\ r[Len(r)] = m
      /\ \A i \in 1..Len(q) : r[i] = q[i] /\ q[i] \in Holding
  BY DEF TypeOK, Holding
<1>3. \A i \in 1..Len(q) : q[i] # m
  BY DEF MessageLockInv, Queued
<1>4. \A x \in Calls : pc'[x] = IF x = m THEN "msgWait" ELSE pc[x]
  BY <1>1 DEF TypeOK
<1>5. \A i, j \in 1..Len(r) : r[i] = r[j] => i = j
  BY <1>2, <1>3 DEF MessageLockInv
<1>6. \A x \in Holding : (x \in Queued)' <=> Active(x)'
  <2> SUFFICES ASSUME NEW x \in Holding PROVE (x \in Queued)' <=> Active(x)'
    OBVIOUS
  <2>1. (x \in Queued)' <=> x = m \/ x \in Queued
    BY <1>2 DEF Queued
  <2>2. Active(x)' <=> x = m \/ Active(x)
    BY <1>1, <1>4 DEF Active
  <2> QED
    BY <2>1, <2>2 DEF MessageLockInv
<1>7. \A i \in 2..Len(r) : pc'[r[i]] = "msgWait"
  BY <1>1, <1>2, <1>4 DEF MessageLockInv
<1> QED
  BY <1>5, <1>6, <1>7 DEF MessageLockInv

(* So does a step of the call that holds #msgMutex and keeps it, or of a    *)
(* call that has nothing to do with it.                                    *)
LEMMA HolderKeeps ==
  ASSUME TypeOK, MessageLockInv, NEW c \in Calls, NEW p \in Pcs,
         pc' = [pc EXCEPT ![c] = p], msgQueue' = msgQueue,
         c \in Holding => HoldsMessageLock(c) /\ p \notin {"idle", "blob", "done"}
  PROVE  MessageLockInv'
<1> DEFINE q == msgQueue
<1>1. \A x \in Holding : x \in Calls
  BY CallSets DEF Holding, Messages, Calls
<1>2. \A x \in Calls : pc'[x] = IF x = c THEN p ELSE pc[x]
  BY DEF TypeOK
<1>3. q \in Seq(Holding) /\ Len(q) \in Nat /\ \A i \in 1..Len(q) : q[i] \in Holding
  BY DEF TypeOK, Holding
<1>4. c \in Holding => Len(q) > 0 /\ q[1] = c /\ Active(c)
  <2> HAVE c \in Holding
  <2>1. Len(q) > 0 /\ q[1] = c
    BY <1>3 DEF HoldsMessageLock
  <2> QED
    BY <2>1, <1>3 DEF MessageLockInv, Queued
<1>5. \A x \in Holding : Active(x)' <=> Active(x)
  BY <1>1, <1>2, <1>4 DEF Active
<1>6. \A i \in 2..Len(q) : q[i] # c
  BY <1>3, <1>4 DEF MessageLockInv
<1> QED
  BY <1>1, <1>2, <1>3, <1>5, <1>6 DEF MessageLockInv, Queued

(* So does unlocking it. *)
LEMMA UnlockKeeps ==
  ASSUME TypeOK, MessageLockInv, NEW m \in Holding, HoldsMessageLock(m),
         msgQueue' = Tail(msgQueue), pc' = [pc EXCEPT ![m] = "done"]
  PROVE  MessageLockInv'
<1> DEFINE q == msgQueue
           r == msgQueue'
<1>1. \A x \in Holding : x \in Calls
  BY CallSets DEF Holding, Messages, Calls
<1>2. /\ q \in Seq(Holding) /\ Len(q) \in Nat /\ Len(q) > 0 /\ q[1] = m
      /\ Len(r) = Len(q) - 1 /\ \A i \in 1..Len(r) : r[i] = q[i + 1]
      /\ \A i \in 1..Len(q) : q[i] \in Holding
  BY DEF TypeOK, Holding, HoldsMessageLock
<1>3. \A i \in 1..Len(r) : r[i] # m
  BY <1>2 DEF MessageLockInv
<1>4. \A x \in Calls : pc'[x] = IF x = m THEN "done" ELSE pc[x]
  BY DEF TypeOK
<1>5. \A i, j \in 1..Len(r) : r[i] = r[j] => i = j
  BY <1>2 DEF MessageLockInv
<1>6. \A x \in Holding : (x \in Queued)' <=> Active(x)'
  <2> SUFFICES ASSUME NEW x \in Holding PROVE (x \in Queued)' <=> Active(x)'
    OBVIOUS
  <2>1. CASE x = m
    BY <1>1, <1>3, <1>4, <2>1 DEF Queued, Active
  <2>2. CASE x # m
    <3>1. Active(x)' <=> Active(x)
      BY <1>1, <1>4, <2>2 DEF Active
    <3>2. x \in Queued => (x \in Queued)'
      <4> SUFFICES ASSUME NEW i \in 1..Len(q), q[i] = x PROVE (x \in Queued)'
        BY DEF Queued
      <4>1. i # 1
        BY <1>2, <2>2
      <4>2. i - 1 \in 1..Len(r) /\ r[i - 1] = x
        BY <1>2, <4>1
      <4> QED
        BY <4>2 DEF Queued
    <3>3. (x \in Queued)' => x \in Queued
      BY <1>2 DEF Queued
    <3> QED
      BY <3>1, <3>2, <3>3 DEF MessageLockInv
  <2> QED
    BY <2>1, <2>2
<1>7. \A i \in 2..Len(r) : pc'[r[i]] = "msgWait"
  BY <1>1, <1>2, <1>3, <1>4 DEF MessageLockInv
<1> QED
  BY <1>5, <1>6, <1>7 DEF MessageLockInv

(* Submitting a frame keeps the invariant of #frameMutex. *)
LEMMA SubmitKeeps ==
  ASSUME TypeOK, FrameLockInv, NEW c \in Calls, NEW m \in Calls, NEW op \in Ops,
         NEW n \in Nat \ {0}, NEW fin \in BOOLEAN, NEW payload \in BOOLEAN,
         NEW p \in {"frame", "final"}, pc[c] \notin {"frame", "final"},
         Submit(c, m, op, n, fin, payload, p)
  PROVE  FrameLockInv'
<1> DEFINE q == frameQueue
           r == frameQueue'
           f == [call |-> c, msg |-> m, op |-> op, n |-> n, fin |-> fin, payload |-> payload]
<1>1. \A i \in 1..Len(q) : q[i] \in Frames
  BY DEF TypeOK
<1>2. \A i \in 1..Len(q) : q[i].call \in Calls
  BY <1>1 DEF Frames
<1>3. /\ Len(q) \in Nat /\ r # <<>> /\ Len(r) = Len(q) + 1 /\ r[Len(r)] = f
      /\ \A i \in 1..Len(q) : r[i] = q[i]
  <2>1. q \in Seq(Frames) /\ f \in Frames
    BY DEF TypeOK, Frames
  <2>2. r = Append(q, f)
    BY DEF Submit
  <2> HIDE DEF f, r
  <2> QED
    BY <2>1, <2>2
<1>4. \A x \in Calls : pc'[x] = IF x = c THEN p ELSE pc[x]
  BY DEF Submit, TypeOK
<1>5. writing' = writing /\ (Writable' <=> Writable)
  BY DEF Submit, socket, Writable
<1>6. CASE writing = "stuck"
  BY <1>3, <1>5, <1>6 DEF FrameLockInv
<1>7. CASE writing # "stuck"
  <2>1. \A i \in 1..Len(q) : q[i].call # c
    BY <1>7 DEF FrameLockInv
  <2>2. \A i \in 1..Len(r) : pc'[r[i].call] \in {"frame", "final"}
    BY <1>2, <1>3, <1>4, <1>7, <2>1 DEF FrameLockInv
  <2>3. \A i, j \in 1..Len(r) : r[i].call = r[j].call => i = j
    <3>1. f.call = c
      OBVIOUS
    <3> QED
      BY <1>3, <1>7, <2>1, <3>1 DEF FrameLockInv
  <2> QED
    BY <1>3, <1>5, <1>7, <2>2, <2>3 DEF FrameLockInv
<1> QED
  BY <1>6, <1>7

(* So does a step of a call that waits for no frame. *)
LEMMA OthersKeepFrames ==
  ASSUME TypeOK, FrameLockInv, NEW c \in Calls, NEW p \in Pcs,
         pc[c] \notin {"frame", "final"}, pc' = [pc EXCEPT ![c] = p],
         UNCHANGED <<frameQueue, writing, io>>
  PROVE  FrameLockInv'
<1> DEFINE q == frameQueue
<1>1. \A i \in 1..Len(q) : q[i] \in Frames
  BY DEF TypeOK
<1>2. \A i \in 1..Len(q) : q[i].call \in Calls
  BY <1>1 DEF Frames
<1>3. \A x \in Calls : pc'[x] = IF x = c THEN p ELSE pc[x]
  BY DEF TypeOK
<1>4. CASE writing = "stuck"
  BY <1>4 DEF FrameLockInv, Writable
<1>5. CASE writing # "stuck"
  <2>1. \A i \in 1..Len(q) : q[i].call # c
    BY <1>5 DEF FrameLockInv
  <2>2. \A i \in 1..Len(q) : pc'[q[i].call] \in {"frame", "final"}
    BY <1>2, <1>3, <1>5, <2>1 DEF FrameLockInv
  <2> QED
    BY <1>5, <2>2 DEF FrameLockInv, Writable
<1> QED
  BY <1>4, <1>5

(* So does removing the frame that was written. *)
LEMMA UnlockFrameKeeps ==
  ASSUME TypeOK, FrameLockInv, writing \notin {"free", "stuck"}, UnlockFrame
  PROVE  FrameLockInv'
<1> DEFINE q == frameQueue
           r == frameQueue'
<1>1. \A i \in 1..Len(q) : q[i] \in Frames
  BY DEF TypeOK
<1>2. \A i \in 1..Len(q) : q[i].call \in Calls
  BY <1>1 DEF Frames
<1>3. q # <<>>
  BY DEF FrameLockInv
<1>4. /\ Len(q) \in Nat /\ Len(q) > 0 /\ Len(r) = Len(q) - 1
      /\ \A i \in 1..Len(r) : r[i] = q[i + 1] /\ i + 1 \in 1..Len(q)
      /\ Head(q) = q[1] /\ 1 \in 1..Len(q)
  BY <1>3 DEF UnlockFrame, TypeOK
<1>5. \A i \in 1..Len(r) : r[i].call # q[1].call
  BY <1>4 DEF FrameLockInv
<1>6. \A x \in Calls : x # q[1].call => pc'[x] = pc[x]
  BY <1>4 DEF UnlockFrame, TypeOK
<1>7. \A i \in 1..Len(r) : pc'[r[i].call] \in {"frame", "final"}
  BY <1>2, <1>4, <1>5, <1>6 DEF FrameLockInv
<1>8. \A i, j \in 1..Len(r) : r[i].call = r[j].call => i = j
  BY <1>4 DEF FrameLockInv
<1>9. writing' = "free"
  BY DEF UnlockFrame
<1> QED
  BY <1>7, <1>8, <1>9 DEF FrameLockInv

LockInv == MessageLockInv /\ FrameLockInv

(* So does writing on with the lock held. *)
LEMMA WritingKeeps ==
  ASSUME LockInv, frameQueue # <<>>, writing # "stuck", writing' # "stuck",
         UNCHANGED <<pc, msgQueue, frameQueue>>
  PROVE  LockInv'
BY DEF LockInv, FrameLockInv, MessageLockInv, Queued, Active

(* The locks under the steps of a send(). *)
LEMMA SendKeeps ==
  ASSUME TypeOK, LockInv, NEW t \in Sends,
         Send(t) \/ BlobRead(t) \/ SendGranted(t) \/ SendContinues(t)
  PROVE  LockInv'
<1>1. t \in Calls /\ t \in Holding /\ {"msgWait", "blob", "done", "frame"} \subseteq Pcs
  BY CallSets DEF Holding, Pcs
<1>2. CASE Send(t) /\ t \in Blobs
  <2>1. pc[t] = "idle" /\ pc' = [pc EXCEPT ![t] = "blob"] /\ UNCHANGED <<msgQueue, frameQueue, writing, io>>
    BY <1>2 DEF Send, socket
  <2>2. \A x \in Holding : Active(x)' <=> Active(x)
    BY <1>1, <2>1 DEF Active, TypeOK
  <2>3. \A i \in 1..Len(msgQueue) : pc[msgQueue[i]] # "idle"
    <3>1. \A i \in 1..Len(msgQueue) : msgQueue[i] \in Holding
      BY DEF TypeOK, Holding
    <3> QED
      BY <3>1 DEF LockInv, MessageLockInv, Queued, Active
  <2>4. MessageLockInv'
    <3>1. \A i \in 2..Len(msgQueue) : pc'[msgQueue[i]] = "msgWait"
      <4>1. \A i \in 2..Len(msgQueue) : i \in 1..Len(msgQueue) /\ msgQueue[i] # t
        BY <2>1, <2>3 DEF TypeOK
      <4>2. \A i \in 2..Len(msgQueue) : pc'[msgQueue[i]] = pc[msgQueue[i]]
        BY <2>1, <4>1 DEF TypeOK, Calls, Messages
      <4> QED
        BY <4>2 DEF LockInv, MessageLockInv
    <3> QED
      BY <2>1, <2>2, <3>1 DEF LockInv, MessageLockInv, Queued
  <2> QED
    BY <1>1, <2>1, <2>4, OthersKeepFrames DEF LockInv
<1>3. CASE (Send(t) /\ t \notin Blobs) \/ BlobRead(t)
  <2>1. /\ pc[t] \in {"idle", "blob"} /\ pc' = [pc EXCEPT ![t] = "msgWait"]
        /\ msgQueue' = Append(msgQueue, t) /\ UNCHANGED <<frameQueue, writing, io>>
    BY <1>3 DEF Send, BlobRead, LockMessage, socket
  <2>2. MessageLockInv'
    BY <1>1, <2>1, LockKeeps DEF Active, LockInv
  <2> QED
    BY <1>1, <2>1, <2>2, OthersKeepFrames DEF LockInv
<1>4. CASE SendGranted(t) \/ SendContinues(t)
  <2>1. HoldsMessageLock(t) /\ pc[t] \in {"msgWait", "sent", "failed"}
    BY <1>1, <1>4, PastLockHolds DEF SendGranted, SendContinues, Active, LockInv
  <2>2. CASE UnlockMessage(t, "done")
    <3>1. MessageLockInv'
      BY <1>1, <2>1, <2>2, UnlockKeeps DEF UnlockMessage, LockInv
    <3>2. FrameLockInv'
      BY <1>1, <2>1, <2>2, OthersKeepFrames DEF UnlockMessage, LockInv, socket
    <3> QED
      BY <3>1, <3>2 DEF LockInv
  <2>3. CASE SubmitFragment(t)
    <3>1. next[t] \in Nat \ {0}
      BY CallSets DEF TypeOK
    <3>2. PICK op \in Ops, fin \in BOOLEAN : Submit(t, t, op, next[t], fin, TRUE, "frame")
      BY <2>3 DEF SubmitFragment, Ops
    <3>3. msgQueue' = msgQueue /\ pc' = [pc EXCEPT ![t] = "frame"]
      BY <2>3 DEF SubmitFragment, Submit
    <3>4. MessageLockInv'
      BY <1>1, <2>1, <3>3, HolderKeeps DEF LockInv
    <3>5. FrameLockInv'
      BY <1>1, <2>1, <3>1, <3>2, SubmitKeeps DEF LockInv
    <3> QED
      BY <3>4, <3>5 DEF LockInv
  <2> QED
    BY <1>4, <2>2, <2>3 DEF SendGranted, SendContinues
<1> QED
  BY <1>2, <1>3, <1>4

(* The locks under the steps of a sendStream(). *)
LEMMA StreamKeeps ==
  ASSUME TypeOK, LockInv, NEW s \in Streams,
         Ask(s) \/ StreamGranted(s) \/ StreamClose(s) \/ StreamFinished(s)
  PROVE  LockInv'
<1>1. s \in Calls /\ s \in Holding /\ {"msgWait", "streaming", "done", "final"} \subseteq Pcs
  BY CallSets DEF Holding, Pcs
<1>2. CASE Ask(s)
  <2>1. /\ pc[s] = "idle" /\ pc' = [pc EXCEPT ![s] = "msgWait"]
        /\ msgQueue' = Append(msgQueue, s) /\ UNCHANGED <<frameQueue, writing, io>>
    BY <1>2 DEF Ask, LockMessage, socket
  <2>2. MessageLockInv'
    BY <1>1, <2>1, LockKeeps DEF Active, LockInv
  <2> QED
    BY <1>1, <2>1, <2>2, OthersKeepFrames DEF LockInv
<1>3. CASE ~Ask(s)
  <2>1. HoldsMessageLock(s) /\ pc[s] \in {"msgWait", "streaming", "sent", "failed"}
    BY <1>1, <1>3, PastLockHolds DEF StreamGranted, StreamClose, StreamFinished, Active, LockInv
  <2>2. CASE UnlockMessage(s, "done")
    <3>1. MessageLockInv'
      BY <1>1, <2>1, <2>2, UnlockKeeps DEF UnlockMessage, LockInv
    <3>2. FrameLockInv'
      BY <1>1, <2>1, <2>2, OthersKeepFrames DEF UnlockMessage, LockInv, socket
    <3> QED
      BY <3>1, <3>2 DEF LockInv
  <2>3. CASE /\ pc' = [pc EXCEPT ![s] = "streaming"]
             /\ UNCHANGED <<next, frameNum, msgQueue, frameQueue, writing, backlog, socket, asked>>
    <3>1. UNCHANGED <<msgQueue, frameQueue, writing, io>>
      BY <2>3 DEF socket
    <3> QED
      BY <1>1, <2>1, <2>3, <3>1, HolderKeeps, OthersKeepFrames DEF LockInv
  <2>4. CASE StreamClose(s)
    <3>1. frameNum[s] + 1 \in Nat \ {0} /\ "continuation" \in Ops
      BY DEF TypeOK, Ops
    <3>2. /\ Submit(s, s, "continuation", frameNum[s] + 1, TRUE, FALSE, "final")
          /\ msgQueue' = msgQueue /\ pc' = [pc EXCEPT ![s] = "final"]
      BY <2>4 DEF StreamClose, Submit
    <3>3. MessageLockInv'
      BY <1>1, <2>1, <3>2, HolderKeeps DEF LockInv
    <3>4. FrameLockInv'
      BY <1>1, <2>1, <3>1, <3>2, SubmitKeeps DEF LockInv
    <3> QED
      BY <3>3, <3>4 DEF LockInv
  <2> QED
    BY <1>3, <2>2, <2>3, <2>4 DEF StreamGranted, StreamFinished
<1> QED
  BY <1>2, <1>3

(* The locks under the steps of a stream's 'data' handler. *)
LEMMA ChunkKeeps ==
  ASSUME TypeOK, LockInv, NEW c \in Chunks, StreamData(c) \/ ChunkContinues(c)
  PROVE  LockInv'
<1>1. c \in Calls /\ c \notin Holding /\ Of[c] \in Calls /\ Of[c] \in Streams /\ {"done", "frame"} \subseteq Pcs
  BY CallSets, WriterAssumption DEF Holding, Pcs
<1>2. pc[c] \in {"idle", "sent", "failed"}
  BY DEF StreamData, ChunkContinues
<1>3. CASE SubmitChunk(c)
  <2>1. frameNum[Of[c]] + 1 \in Nat \ {0}
    BY <1>1 DEF TypeOK
  <2>2. PICK op \in Ops : Submit(c, Of[c], op, frameNum[Of[c]] + 1, FALSE, TRUE, "frame")
    BY <1>3 DEF SubmitChunk, Ops
  <2>3. msgQueue' = msgQueue /\ pc' = [pc EXCEPT ![c] = "frame"]
    BY <1>3 DEF SubmitChunk, Submit
  <2>4. MessageLockInv'
    BY <1>1, <2>3, HolderKeeps DEF LockInv
  <2>5. FrameLockInv'
    BY <1>1, <1>2, <2>1, <2>2, SubmitKeeps DEF LockInv
  <2> QED
    BY <2>4, <2>5 DEF LockInv
<1>4. CASE /\ pc' = [pc EXCEPT ![c] = "done"]
           /\ UNCHANGED <<next, frameNum, msgQueue, frameQueue, writing, backlog, socket, asked>>
  <2>1. UNCHANGED <<msgQueue, frameQueue, writing, io>>
    BY <1>4 DEF socket
  <2> QED
    BY <1>1, <1>2, <1>4, <2>1, HolderKeeps, OthersKeepFrames DEF LockInv
<1> QED
  BY <1>3, <1>4 DEF StreamData, ChunkContinues

(* The locks under ping() and pong(). *)
LEMMA ControlKeeps ==
  ASSUME TypeOK, LockInv, NEW c \in Controls, Control(c)
  PROVE  LockInv'
<1>1. c \in Calls /\ c \notin Holding /\ "control" \in Ops /\ "frame" \in Pcs /\ 1 \in Nat \ {0}
  BY CallSets, WriterAssumption DEF Holding, Ops, Pcs
<1>2. /\ pc[c] = "idle" /\ Submit(c, c, "control", 1, TRUE, TRUE, "frame")
      /\ msgQueue' = msgQueue /\ pc' = [pc EXCEPT ![c] = "frame"]
  BY DEF Control, Submit
<1>3. MessageLockInv'
  BY <1>1, <1>2, HolderKeeps DEF LockInv
<1>4. FrameLockInv'
  BY <1>1, <1>2, SubmitKeeps DEF LockInv
<1> QED
  BY <1>3, <1>4 DEF LockInv

(* The locks under close(). *)
LEMMA CloseKeeps ==
  ASSUME TypeOK, LockInv, Ask(Closing) \/ CloseGranted
  PROVE  LockInv'
<1>1. /\ Closing \in Calls /\ Closing \in Holding /\ "close" \in Ops /\ 1 \in Nat \ {0}
      /\ {"msgWait", "frame", "rejected", "failed"} \subseteq Pcs
  BY CallSets DEF Holding, Ops, Pcs
<1>2. CASE Ask(Closing)
  <2>1. /\ pc[Closing] = "idle" /\ pc' = [pc EXCEPT ![Closing] = "msgWait"]
        /\ msgQueue' = Append(msgQueue, Closing) /\ UNCHANGED <<frameQueue, writing, io>>
    BY <1>2 DEF Ask, LockMessage, socket
  <2>2. MessageLockInv'
    BY <1>1, <2>1, LockKeeps DEF Active, LockInv
  <2> QED
    BY <1>1, <2>1, <2>2, OthersKeepFrames DEF LockInv
<1>3. CASE CloseGranted
  <2>1. HoldsMessageLock(Closing) /\ pc[Closing] = "msgWait" /\ msgQueue' = msgQueue
    BY <1>3 DEF CloseGranted
  <2>2. CASE Submit(Closing, Closing, "close", 1, TRUE, TRUE, "frame")
    <3>1. pc' = [pc EXCEPT ![Closing] = "frame"]
      BY <2>2 DEF Submit
    <3>2. MessageLockInv'
      BY <1>1, <2>1, <3>1, HolderKeeps DEF LockInv
    <3>3. FrameLockInv'
      BY <1>1, <2>1, <2>2, SubmitKeeps DEF LockInv
    <3> QED
      BY <3>2, <3>3 DEF LockInv
  <2>3. CASE ~Submit(Closing, Closing, "close", 1, TRUE, TRUE, "frame")
    <3>1. PICK p \in {"rejected", "failed"} :
            pc' = [pc EXCEPT ![Closing] = p] /\ UNCHANGED <<frameQueue, writing, io>>
      BY <1>3, <2>3 DEF CloseGranted, socket
    <3>2. MessageLockInv'
      BY <1>1, <2>1, <3>1, HolderKeeps DEF LockInv
    <3> QED
      BY <1>1, <2>1, <3>1, <3>2, OthersKeepFrames DEF LockInv
  <2> QED
    BY <2>2, <2>3
<1> QED
  BY <1>2, <1>3

(* Whoever waits for a frame of a message or of the close holds #msgMutex,  *)
(* so answering it keeps both invariants.                                  *)
LEMMA AnswerKeeps ==
  ASSUME TypeOK, LockInv, NEW c \in Calls, pc[c] \in {"frame", "final"},
         NEW p \in {"sent", "failed"}, pc' = [pc EXCEPT ![c] = p], msgQueue' = msgQueue
  PROVE  MessageLockInv'
<1>1. c \in Holding => HoldsMessageLock(c)
  BY PastLockHolds DEF LockInv, Active
<1>2. p \in Pcs
  BY DEF Pcs
<1> QED
  BY <1>1, <1>2, HolderKeeps DEF LockInv

(* Removing the written frame and resuming its caller keeps both locks. *)
LEMMA UnlockKeepsBoth ==
  ASSUME TypeOK, LockInv, writing \notin {"free", "stuck"}, UnlockFrame, msgQueue' = msgQueue
  PROVE  LockInv'
<1>1. frameQueue # <<>> /\ 1 \in 1..Len(frameQueue) /\ Head(frameQueue) = frameQueue[1]
  BY DEF LockInv, FrameLockInv, TypeOK
<1>2. Head(frameQueue) \in Frames
  BY <1>1 DEF TypeOK
<1>3. Head(frameQueue).call \in Calls /\ pc[Head(frameQueue).call] \in {"frame", "final"}
  BY <1>1, <1>2 DEF Frames, LockInv, FrameLockInv
<1>4. MessageLockInv'
  BY <1>3, AnswerKeeps DEF UnlockFrame, Result
<1> QED
  BY <1>4, UnlockFrameKeeps DEF LockInv

(* The locks under writeFrame() past its lock(). *)
LEMMA FrameKeeps ==
  ASSUME TypeOK, LockInv, GrantFrame \/ WriteHead \/ WritePayload
  PROVE  LockInv'
<1>1. frameQueue # <<>> /\ 1 \in 1..Len(frameQueue) /\ Head(frameQueue) = frameQueue[1]
  BY DEF GrantFrame, WriteHead, WritePayload, LockInv, FrameLockInv, TypeOK
<1>2. writing # "stuck" /\ msgQueue' = msgQueue
  BY DEF GrantFrame, WriteHead, WritePayload, FrameUnchanged
<1>3. CASE GrantFrame
  <2>1. CASE Writable
    BY <1>1, <1>2, <1>3, <2>1, WritingKeeps DEF GrantFrame
  <2>2. CASE ~Writable
    <3>1. Head(frameQueue) \in Frames
      BY <1>1 DEF TypeOK
    <3>2. Head(frameQueue).call \in Calls /\ pc[Head(frameQueue).call] \in {"frame", "final"}
      BY <1>1, <1>2, <3>1 DEF Frames, LockInv, FrameLockInv
    <3>3. /\ writing' = "stuck" /\ pc' = [pc EXCEPT ![Head(frameQueue).call] = "failed"]
          /\ frameQueue' = frameQueue /\ io' = io
      BY <1>3, <2>2 DEF GrantFrame, socket
    <3>4. MessageLockInv'
      BY <1>2, <3>2, <3>3, AnswerKeeps
    <3>5. FrameLockInv'
      BY <1>1, <2>2, <3>3 DEF FrameLockInv, Writable
    <3> QED
      BY <3>4, <3>5 DEF LockInv
  <2> QED
    BY <2>1, <2>2
<1>4. CASE WriteHead \/ WritePayload
  <2>1. writing \notin {"free", "stuck"}
    BY <1>4 DEF WriteHead, WritePayload
  <2>2. CASE UnlockFrame
    BY <1>2, <2>1, <2>2, UnlockKeepsBoth
  <2>3. CASE ~UnlockFrame
    BY <1>1, <1>2, <1>4, <2>3, WritingKeeps DEF WriteHead, WritePayload
  <2> QED
    BY <2>2, <2>3
<1> QED
  BY <1>3, <1>4

(* The locks under what happens to the socket. *)
LEMMA SocketKeeps ==
  ASSUME TypeOK, LockInv, Drain \/ End \/ Destroy \/ SocketError
  PROVE  LockInv'
<1>1. msgQueue' = msgQueue
  BY DEF Drain, End, Destroy, SocketError, FrameUnchanged
<1>2. CASE Drain
  <2>1. CASE writing = "free"
    BY <1>1, <1>2, <2>1 DEF Drain, LockInv, FrameLockInv, MessageLockInv, Queued, Active
  <2>2. CASE writing # "free"
    <3>1. frameQueue # <<>> /\ writing # "stuck"
      BY <1>2, <2>2 DEF Drain, MustDrain, LockInv, FrameLockInv, Writable
    <3> QED
      BY <1>1, <1>2, <3>1, WritingKeeps DEF Drain
  <2> QED
    BY <2>1, <2>2
<1>3. CASE pc' = pc /\ frameQueue' = frameQueue /\ writing' = writing /\ io' # "open"
  BY <1>1, <1>3 DEF LockInv, FrameLockInv, MessageLockInv, Queued, Active, Writable
<1>4. CASE SocketError /\ writing \in {"headDrain", "payloadDrain"}
  BY <1>1, <1>4, UnlockKeepsBoth DEF SocketError
<1>5. CASE End \/ Destroy
  BY <1>3, <1>5 DEF End, Destroy
<1>6. CASE SocketError /\ writing \notin {"headDrain", "payloadDrain"}
  BY <1>3, <1>6 DEF SocketError
<1> QED
  BY <1>2, <1>4, <1>5, <1>6

(* Every step keeps the invariants of the two locks. *)
LEMMA LockStep == TypeOK /\ LockInv /\ [Next]_vars => LockInv'
<1>1. CASE UNCHANGED vars
  BY <1>1 DEF vars, socket, LockInv, FrameLockInv, MessageLockInv, Queued, Active, Writable
<1> QED
  BY <1>1, SendKeeps, StreamKeeps, ChunkKeeps, ControlKeeps, CloseKeeps, FrameKeeps, SocketKeeps
     DEF Next

(* A new writer has both locks free. *)
LEMMA InitLocks == Init => TypeOK /\ LockInv
<1> SUFFICES ASSUME Init PROVE TypeOK /\ LockInv
  OBVIOUS
<1>1. TypeOK
  <2>1. /\ pc \in [Calls -> Pcs] /\ next \in [Sends \cup Chunks -> Nat \ {0}]
        /\ frameNum \in [Streams -> Nat]
    BY DEF Init, Pcs
  <2>2. <<>> \in Seq(Messages \cup {Closing}) /\ <<>> \in Seq(Frames) /\ <<>> \in Seq(Parts)
    OBVIOUS
  <2> QED
    BY <2>1, <2>2 DEF Init, TypeOK
<1>2. Len(msgQueue) = 0 /\ Len(frameQueue) = 0
  BY DEF Init
<1>3. \A m \in Holding : ~Active(m)
  BY CallSets DEF Init, Active, Holding, Messages, Calls
<1>4. MessageLockInv
  BY <1>2, <1>3 DEF MessageLockInv, Queued
<1>5. FrameLockInv
  BY <1>2 DEF Init, FrameLockInv
<1> QED
  BY <1>1, <1>4, <1>5 DEF LockInv

(* The state of the writer keeps its shape: no call resumes another in a  *)
(* place it does not have, and no frame is taken from an empty queue.      *)
THEOREM TypeCorrect == Spec => []TypeOK
<1>1. Init => TypeOK /\ LockInv
  BY InitLocks
<1>2. TypeOK /\ LockInv /\ [Next]_vars => TypeOK' /\ LockInv'
  BY TypeStep, LockStep DEF LockInv
<1> QED
  BY <1>1, <1>2, PTL DEF Spec

(* Nobody keeps a lock it should have returned, however many messages,     *)
(* streams and control frames there are and however the socket fails:      *)
(* #frameMutex is lost only on a socket that is closing, and #msgMutex is  *)
(* never left to a message that is over.                                   *)
THEOREM LocksAreReturned == Spec => []LocksReturned
<1>1. Init => TypeOK /\ LockInv
  BY InitLocks
<1>2. TypeOK /\ LockInv /\ [Next]_vars => TypeOK' /\ LockInv'
  BY TypeStep, LockStep DEF LockInv
<1>3. TypeOK /\ LockInv => LocksReturned
  <2> SUFFICES ASSUME TypeOK, LockInv PROVE LocksReturned
    OBVIOUS
  <2>1. \A i \in 1..Len(msgQueue) : msgQueue[i] \in Holding /\ msgQueue[i] \in Queued
    BY DEF TypeOK, Holding, Queued
  <2>2. \A i \in 1..Len(msgQueue) : pc[msgQueue[i]] # "done"
    BY <2>1 DEF LockInv, MessageLockInv, Active
  <2>3. \A i \in DOMAIN msgQueue : i \in 1..Len(msgQueue) /\ (i # 1 => i \in 2..Len(msgQueue))
    BY DEF TypeOK
  <2> QED
    BY <2>2, <2>3 DEF LocksReturned, LockInv, FrameLockInv, MessageLockInv
<1> QED
  BY <1>1, <1>2, <1>3, PTL DEF Spec

-----------------------------------------------------------------------------
(* With chunks that fit in a frame no handler of 'data' outlives the final  *)
(* frame of its stream (a larger one may: see WriterLargeChunks.cfg).      *)
SmallChunks == \A c \in Chunks : Fragments[c] = 1

Last == {"close", "control"}

CloseSubmitted ==
  \/ \E i \in 1..Len(frameQueue) : frameQueue[i].op = "close"
  \/ \E i \in 1..Len(wire) : wire[i].frame.op = "close"

Closed == pc[Closing] \in {"frame", "sent", "failed"}

(* Once the close frame is submitted its call is past #msgMutex for good,   *)
(* and what is queued or written behind it belongs to no message.          *)
CloseInv ==
  /\ CloseSubmitted => Closed
  /\ \A i, j \in 1..Len(frameQueue) :
       i < j /\ frameQueue[i].op = "close" => frameQueue[j].op \in Last
  /\ \A i \in 1..Len(wire), j \in 1..Len(frameQueue) :
       wire[i].frame.op = "close" => frameQueue[j].op \in Last
  /\ \A i, j \in 1..Len(wire) :
       i < j /\ wire[i].frame.op = "close" => wire[j].frame.op \in Last

(* While a message holds #msgMutex the close frame was not submitted. *)
LEMMA HolderPrecedesClose ==
  ASSUME TypeOK, LockInv, CloseInv, NEW h \in Messages, HoldsMessageLock(h)
  PROVE  ~CloseSubmitted
<1> SUFFICES ASSUME CloseSubmitted PROVE FALSE
  OBVIOUS
<1>1. Closed
  BY DEF CloseInv
<1>2. HoldsMessageLock(Closing)
  BY <1>1, PastLockHolds DEF Closed, Holding, Active, LockInv
<1>3. h # Closing
  BY WriterAssumption
<1> QED
  BY <1>2, <1>3 DEF HoldsMessageLock

(* A submitted frame is the last of the queue. *)
LEMMA AppendFrame ==
  ASSUME TypeOK, NEW c \in Calls, NEW m \in Calls, NEW op \in Ops,
         NEW n \in Nat \ {0}, NEW fin \in BOOLEAN, NEW payload \in BOOLEAN,
         NEW p \in Pcs, Submit(c, m, op, n, fin, payload, p)
  PROVE  /\ Len(frameQueue) \in Nat /\ Len(frameQueue') = Len(frameQueue) + 1
         /\ frameQueue'[Len(frameQueue')].op = op
         /\ \A i \in 1..Len(frameQueue) : frameQueue'[i] = frameQueue[i]
         /\ wire' = wire
         /\ \A x \in Calls : pc'[x] = IF x = c THEN p ELSE pc[x]
<1> DEFINE f == [call |-> c, msg |-> m, op |-> op, n |-> n, fin |-> fin, payload |-> payload]
<1>1. f \in Frames /\ f.op = op
  BY DEF Frames
<1>2. frameQueue \in Seq(Frames) /\ frameQueue' = Append(frameQueue, f)
  BY DEF Submit, TypeOK
<1>3. wire' = wire /\ \A x \in Calls : pc'[x] = IF x = c THEN p ELSE pc[x]
  BY DEF Submit, TypeOK, socket
<1> HIDE DEF f
<1> QED
  BY <1>1, <1>2, <1>3

(* The holder of #msgMutex may submit a message's frame: no close frame is *)
(* before it.                                                              *)
LEMMA DataKeepsClose ==
  ASSUME TypeOK, LockInv, CloseInv, NEW h \in Messages, HoldsMessageLock(h),
         NEW c \in Calls, NEW m \in Calls, NEW op \in {"message", "continuation"},
         NEW n \in Nat \ {0}, NEW fin \in BOOLEAN, NEW payload \in BOOLEAN,
         NEW p \in {"frame", "final"}, Submit(c, m, op, n, fin, payload, p)
  PROVE  CloseInv'
<1>1. ~CloseSubmitted
  BY HolderPrecedesClose
<1>2. op \in Ops /\ p \in Pcs
  BY DEF Ops, Pcs
<1>3. /\ Len(frameQueue) \in Nat /\ Len(frameQueue') = Len(frameQueue) + 1
      /\ frameQueue'[Len(frameQueue')].op = op
      /\ \A i \in 1..Len(frameQueue) : frameQueue'[i] = frameQueue[i]
      /\ wire' = wire
  BY <1>2, AppendFrame
<1>4. ~CloseSubmitted' /\ \A i \in 1..Len(frameQueue') : frameQueue'[i].op # "close"
  BY <1>1, <1>3 DEF CloseSubmitted
<1>5. \A i \in 1..Len(wire) : wire[i].frame.op # "close"
  BY <1>1 DEF CloseSubmitted
<1> QED
  BY <1>3, <1>4, <1>5 DEF CloseInv

(* A control frame or the close frame may follow a close frame. *)
LEMMA LastKeepsClose ==
  ASSUME TypeOK, CloseInv, NEW c \in Calls, NEW op \in Last, op = "close" <=> c = Closing,
         NEW n \in Nat \ {0}, NEW fin \in BOOLEAN, NEW payload \in BOOLEAN,
         Submit(c, c, op, n, fin, payload, "frame")
  PROVE  CloseInv'
<1>1. op \in Ops /\ "frame" \in Pcs /\ Closing \in Calls
  BY CallSets DEF Ops, Pcs, Last
<1>2. /\ Len(frameQueue) \in Nat /\ Len(frameQueue') = Len(frameQueue) + 1
      /\ frameQueue'[Len(frameQueue')].op = op
      /\ \A i \in 1..Len(frameQueue) : frameQueue'[i] = frameQueue[i]
      /\ wire' = wire
      /\ \A x \in Calls : pc'[x] = IF x = c THEN "frame" ELSE pc[x]
  BY <1>1, AppendFrame
<1>3. CloseSubmitted' => Closed'
  <2>1. CloseSubmitted' => CloseSubmitted \/ c = Closing
    BY <1>2 DEF CloseSubmitted
  <2> QED
    BY <1>1, <1>2, <2>1 DEF CloseInv, Closed
<1>4. \A i, j \in 1..Len(frameQueue') :
        i < j /\ frameQueue'[i].op = "close" => frameQueue'[j].op \in Last
  BY <1>2 DEF CloseInv
<1>5. \A i \in 1..Len(wire), j \in 1..Len(frameQueue') :
        wire[i].frame.op = "close" => frameQueue'[j].op \in Last
  BY <1>2 DEF CloseInv
<1> QED
  BY <1>2, <1>3, <1>4, <1>5 DEF CloseInv

(* A step that moves the first frame towards the socket, or none. *)
LEMMA WritingKeepsClose ==
  ASSUME TypeOK, CloseInv, frameQueue # <<>> \/ UNCHANGED <<frameQueue, wire>>,
         frameQueue' \in {frameQueue, Tail(frameQueue)},
         \/ wire' = wire
         \/ \E part \in {"head", "payload"} :
              wire' = Append(wire, [frame |-> Head(frameQueue), part |-> part]),
         Closed => Closed'
  PROVE  CloseInv'
<1> DEFINE q == frameQueue
           r == frameQueue'
           w == wire
           v == wire'
<1>1. CASE UNCHANGED <<frameQueue, wire>>
  BY <1>1 DEF CloseInv, CloseSubmitted
<1>2. CASE q # <<>>
  <2>1. q \in Seq(Frames) /\ w \in Seq(Parts) /\ Len(q) \in Nat /\ Len(q) > 0 /\ Len(w) \in Nat
    BY <1>2 DEF TypeOK
  <2>2. /\ Len(r) \in Nat
        /\ \A j \in 1..Len(r) : \E i \in 1..Len(q) : i >= j /\ r[j] = q[i]
        /\ \A i, j \in 1..Len(r) : i < j /\ r[i].op = "close" => r[j].op \in Last
    <3>1. CASE r = q
      BY <2>1, <3>1 DEF CloseInv
    <3>2. CASE r = Tail(q)
      <4>1. Len(r) = Len(q) - 1 /\ \A i \in 1..Len(r) : r[i] = q[i + 1] /\ i + 1 \in 1..Len(q)
        BY <2>1, <3>2
      <4>2. \A i, j \in 1..Len(r) : i < j => i + 1 < j + 1
        BY <2>1, <4>1
      <4>3. \A i, j \in 1..Len(r) : i < j /\ r[i].op = "close" => r[j].op \in Last
        BY <4>1, <4>2 DEF CloseInv
      <4> QED
        BY <2>1, <4>1, <4>3
    <3> QED
      BY <3>1, <3>2
  <2>3. \A j \in 1..Len(r) : q[1].op = "close" => r[j].op \in Last
    <3>1. \A i \in 1..Len(q) : q[1].op = "close" => q[i].op \in Last
      BY <2>1 DEF CloseInv, Last
    <3> QED
      BY <2>2, <3>1
  <2>4. CASE v = w
    <3>1. CloseSubmitted' => CloseSubmitted
      BY <2>2, <2>4 DEF CloseSubmitted
    <3>2. \A i \in 1..Len(w), j \in 1..Len(r) : w[i].frame.op = "close" => r[j].op \in Last
      BY <2>2 DEF CloseInv
    <3> QED
      BY <2>2, <2>4, <3>1, <3>2 DEF CloseInv
  <2>5. CASE v # w
    <3>1. PICK part \in {"head", "payload"} : v = Append(w, [frame |-> q[1], part |-> part])
      BY <2>1, <2>5
    <3>2. Len(v) = Len(w) + 1 /\ v[Len(v)].frame = q[1] /\ \A i \in 1..Len(w) : v[i] = w[i]
      BY <2>1, <3>1
    <3>3. 1 \in 1..Len(q) /\ \A i \in 1..Len(v) : i = Len(v) \/ i \in 1..Len(w)
      BY <2>1, <3>2
    <3>4. CloseSubmitted' => CloseSubmitted
      BY <2>2, <3>2, <3>3 DEF CloseSubmitted
    <3>5. \A i, j \in 1..Len(v) : i < j /\ v[i].frame.op = "close" => v[j].frame.op \in Last
      <4> SUFFICES ASSUME NEW i \in 1..Len(v), NEW j \in 1..Len(v), i < j, v[i].frame.op = "close"
                   PROVE  v[j].frame.op \in Last
        OBVIOUS
      <4>1. i \in 1..Len(w) /\ w[i].frame.op = "close"
        BY <2>1, <3>2
      <4> QED
        BY <3>2, <3>3, <4>1 DEF CloseInv
    <3>6. \A i \in 1..Len(v), j \in 1..Len(r) : v[i].frame.op = "close" => r[j].op \in Last
      <4>1. \A i \in 1..Len(w), j \in 1..Len(r) : w[i].frame.op = "close" => r[j].op \in Last
        BY <2>2 DEF CloseInv
      <4>2. \A i \in 1..Len(v) : v[i].frame = q[1] \/ (i \in 1..Len(w) /\ v[i] = w[i])
        BY <3>2, <3>3
      <4> QED
        BY <2>3, <4>1, <4>2
    <3> QED
      BY <2>2, <3>4, <3>5, <3>6 DEF CloseInv
  <2> QED
    BY <2>4, <2>5
<1> QED
  BY <1>1, <1>2

(* A step of a call that submits nothing. *)
LEMMA QuietKeepsClose ==
  ASSUME TypeOK, CloseInv, NEW c \in Calls, NEW p \in Pcs, c # Closing,
         pc' = [pc EXCEPT ![c] = p], UNCHANGED <<frameQueue, wire>>
  PROVE  CloseInv'
<1>1. Closed => Closed'
  BY CallSets DEF Closed, TypeOK
<1> QED
  BY <1>1, WritingKeepsClose

(* The close frame stays last under the steps of a send(). *)
LEMMA MessagesKeepClose ==
  ASSUME TypeOK, LockInv, CloseInv, NEW t \in Sends,
         Send(t) \/ BlobRead(t) \/ SendGranted(t) \/ SendContinues(t)
  PROVE  CloseInv'
<1>1. /\ t \in Calls /\ t \in Messages /\ t \in Holding /\ t # Closing
      /\ {"msgWait", "blob", "done", "frame"} \subseteq Pcs
  BY CallSets, WriterAssumption DEF Holding, Pcs
<1>2. CASE SubmitFragment(t)
  <2>1. HoldsMessageLock(t)
    BY <1>1, <1>2, PastLockHolds DEF Send, BlobRead, SendGranted, SendContinues, Active, LockInv,
       SubmitFragment, LockMessage, Submit
  <2>2. next[t] \in Nat \ {0}
    BY CallSets DEF TypeOK
  <2>3. PICK op \in {"message", "continuation"}, fin \in BOOLEAN :
          Submit(t, t, op, next[t], fin, TRUE, "frame")
    BY <1>2 DEF SubmitFragment
  <2> QED
    BY <1>1, <2>1, <2>2, <2>3, DataKeepsClose
<1>3. CASE ~SubmitFragment(t)
  <2>1. \E p \in {"msgWait", "blob", "done"} : pc' = [pc EXCEPT ![t] = p]
    BY <1>3 DEF Send, BlobRead, SendGranted, SendContinues, UnlockMessage
  <2>2. UNCHANGED <<frameQueue, wire>>
    BY <1>3 DEF Send, BlobRead, SendGranted, SendContinues, UnlockMessage, LockMessage, socket
  <2> QED
    BY <1>1, <2>1, <2>2, QuietKeepsClose
<1> QED
  BY <1>2, <1>3

(* It does under the steps of a sendStream(). *)
LEMMA StreamsKeepClose ==
  ASSUME TypeOK, LockInv, CloseInv, NEW s \in Streams,
         Ask(s) \/ StreamGranted(s) \/ StreamClose(s) \/ StreamFinished(s)
  PROVE  CloseInv'
<1>1. /\ s \in Calls /\ s \in Messages /\ s \in Holding /\ s # Closing
      /\ {"msgWait", "streaming", "done"} \subseteq Pcs
  BY CallSets, WriterAssumption DEF Holding, Pcs
<1>2. CASE StreamClose(s)
  <2>1. HoldsMessageLock(s)
    BY <1>1, <1>2, PastLockHolds DEF StreamClose, Active, LockInv
  <2>2. frameNum[s] + 1 \in Nat \ {0}
    BY DEF TypeOK
  <2>3. Submit(s, s, "continuation", frameNum[s] + 1, TRUE, FALSE, "final")
    BY <1>2 DEF StreamClose
  <2> QED
    BY <1>1, <2>1, <2>2, <2>3, DataKeepsClose
<1>3. CASE Ask(s) \/ StreamGranted(s) \/ StreamFinished(s)
  <2>1. \E p \in {"msgWait", "streaming", "done"} : pc' = [pc EXCEPT ![s] = p]
    BY <1>3 DEF Ask, StreamGranted, StreamFinished, UnlockMessage
  <2>2. UNCHANGED <<frameQueue, wire>>
    BY <1>3 DEF Ask, StreamGranted, StreamFinished, UnlockMessage, LockMessage, socket
  <2> QED
    BY <1>1, <2>1, <2>2, QuietKeepsClose
<1> QED
  BY <1>2, <1>3

(* A small chunk's handler submits its only frame while its stream holds    *)
(* #msgMutex.                                                              *)
ChunkInv == \A c \in Chunks : pc[c] # "idle" => next[c] > Fragments[c]

(* It does under the steps of a small chunk's handler. *)
LEMMA ChunksKeepClose ==
  ASSUME TypeOK, LockInv, CloseInv, ChunkInv, NEW c \in Chunks, StreamData(c) \/ ChunkContinues(c)
  PROVE  CloseInv'
<1>1. /\ c \in Calls /\ c # Closing /\ Of[c] \in Streams /\ Of[c] \in Calls
      /\ Of[c] \in Messages /\ Of[c] \in Holding /\ {"done", "frame"} \subseteq Pcs
  BY CallSets, WriterAssumption DEF Holding, Pcs
<1>2. CASE StreamData(c)
  <2>1. HoldsMessageLock(Of[c])
    BY <1>1, <1>2, PastLockHolds DEF StreamData, Active, LockInv
  <2>2. frameNum[Of[c]] + 1 \in Nat \ {0}
    BY <1>1 DEF TypeOK
  <2>3. PICK op \in {"message", "continuation"} :
          Submit(c, Of[c], op, frameNum[Of[c]] + 1, FALSE, TRUE, "frame")
    BY <1>2 DEF StreamData, SubmitChunk
  <2> QED
    BY <1>1, <2>1, <2>2, <2>3, DataKeepsClose
<1>3. CASE ChunkContinues(c)
  <2>1. next[c] > Fragments[c]
    BY <1>3 DEF ChunkContinues, ChunkInv
  <2>2. pc' = [pc EXCEPT ![c] = "done"] /\ UNCHANGED <<frameQueue, wire>>
    BY <1>3, <2>1 DEF ChunkContinues, socket
  <2> QED
    BY <1>1, <2>2, QuietKeepsClose
<1> QED
  BY <1>2, <1>3

(* It does under ping(), pong() and close(). *)
LEMMA LastFramesKeepClose ==
  ASSUME TypeOK, CloseInv,
         (\E c \in Controls : Control(c)) \/ Ask(Closing) \/ CloseGranted
  PROVE  CloseInv'
<1>1. /\ Closing \in Calls /\ 1 \in Nat \ {0} /\ {"close", "control"} = Last
      /\ {"msgWait", "rejected", "failed"} \subseteq Pcs
  BY CallSets DEF Last, Pcs
<1>2. CASE \E c \in Controls : Control(c)
  <2>1. PICK c \in Controls : Control(c)
    BY <1>2
  <2>2. c \in Calls /\ c # Closing /\ "control" \in Last
    BY CallSets, WriterAssumption DEF Last
  <2>3. Submit(c, c, "control", 1, TRUE, TRUE, "frame")
    BY <2>1 DEF Control
  <2> QED
    BY <1>1, <2>2, <2>3, LastKeepsClose
<1>3. CASE Submit(Closing, Closing, "close", 1, TRUE, TRUE, "frame")
  BY <1>1, <1>3, LastKeepsClose DEF Last
<1>4. CASE Ask(Closing) \/ (CloseGranted /\ ~Submit(Closing, Closing, "close", 1, TRUE, TRUE, "frame"))
  <2>1. UNCHANGED <<frameQueue, wire>> /\ pc[Closing] \in {"idle", "msgWait"}
    BY <1>4 DEF Ask, CloseGranted, LockMessage, socket
  <2> QED
    BY <2>1, WritingKeepsClose DEF Closed
<1> QED
  BY <1>2, <1>3, <1>4

(* It does while frames are written or the socket fails. *)
LEMMA WriterKeepsClose ==
  ASSUME TypeOK, LockInv, CloseInv, GrantFrame \/ WriteHead \/ WritePayload \/ SocketError
  PROVE  CloseInv'
<1>1. frameQueue # <<>> \/ (SocketError /\ writing \notin {"headDrain", "payloadDrain"})
  BY DEF GrantFrame, WriteHead, WritePayload, LockInv, FrameLockInv
<1>2. frameQueue' \in {frameQueue, Tail(frameQueue)}
  BY DEF GrantFrame, WriteHead, WritePayload, SocketError, UnlockFrame
<1>3. \/ wire' = wire
      \/ \E part \in {"head", "payload"} :
           wire' = Append(wire, [frame |-> Head(frameQueue), part |-> part])
  BY DEF GrantFrame, WriteHead, WritePayload, SocketError, WriteToSocket, socket
<1>4. \/ pc' = pc
      \/ \E p \in {"sent", "failed"} : pc' = [pc EXCEPT ![Head(frameQueue).call] = p]
  BY DEF GrantFrame, WriteHead, WritePayload, SocketError, UnlockFrame, Result
<1>5. Closed => Closed'
  BY <1>4, CallSets DEF Closed, TypeOK
<1>6. frameQueue # <<>> \/ UNCHANGED <<frameQueue, wire>>
  BY <1>1 DEF SocketError
<1> QED
  BY <1>2, <1>3, <1>5, <1>6, WritingKeepsClose

(* A step that leaves the handlers of chunks where they are. *)
LEMMA ChunkUntouched ==
  ASSUME TypeOK, ChunkInv, NEW c \in Calls, NEW p \in Pcs,
         pc' = [pc EXCEPT ![c] = p], c \in Chunks => pc[c] # "idle",
         \A d \in Chunks : next'[d] = next[d]
  PROVE  ChunkInv'
<1>1. \A d \in Chunks : d \in Calls /\ (pc'[d] # "idle" => pc[d] # "idle")
  BY CallSets DEF TypeOK
<1> QED
  BY <1>1 DEF ChunkInv

(* Every step keeps a small chunk to its one frame. *)
LEMMA ChunkStep == SmallChunks /\ TypeOK /\ LockInv /\ ChunkInv /\ [Next]_vars => ChunkInv'
<1> SUFFICES ASSUME SmallChunks, TypeOK, LockInv, ChunkInv, [Next]_vars PROVE ChunkInv'
  OBVIOUS
<1>1. CASE UNCHANGED <<pc, next>>
  BY <1>1 DEF ChunkInv
<1>2. ASSUME NEW t \in Sends, Send(t) \/ BlobRead(t) \/ SendGranted(t) \/ SendContinues(t)
      PROVE  ChunkInv'
  <2>1. t \in Calls /\ t \notin Chunks
    BY CallSets, WriterAssumption DEF Messages
  <2>2. \E p \in {"blob", "msgWait", "frame", "done"} : pc' = [pc EXCEPT ![t] = p]
    BY <1>2 DEF Send, BlobRead, SendGranted, SendContinues, SubmitFragment, UnlockMessage, Submit
  <2>3. next' = next \/ next' = [next EXCEPT ![t] = @ + 1]
    BY <1>2 DEF Send, BlobRead, SendGranted, SendContinues, SubmitFragment, UnlockMessage, LockMessage
  <2>4. \A d \in Chunks : next'[d] = next[d]
    BY <2>1, <2>3 DEF TypeOK
  <2>5. {"blob", "msgWait", "frame", "done"} \subseteq Pcs
    BY DEF Pcs
  <2> QED
    BY <2>1, <2>2, <2>4, <2>5, ChunkUntouched
<1>3. ASSUME NEW s \in Streams, Ask(s) \/ StreamGranted(s) \/ StreamClose(s) \/ StreamFinished(s)
      PROVE  ChunkInv'
  <2>1. s \in Calls /\ s \notin Chunks
    BY CallSets, WriterAssumption
  <2>2. \E p \in {"msgWait", "streaming", "final", "done"} : pc' = [pc EXCEPT ![s] = p]
    BY <1>3 DEF Ask, StreamGranted, StreamClose, StreamFinished, UnlockMessage, Submit
  <2>3. next' = next
    BY <1>3 DEF Ask, StreamGranted, StreamClose, StreamFinished, UnlockMessage, LockMessage
  <2>4. {"msgWait", "streaming", "final", "done"} \subseteq Pcs
    BY DEF Pcs
  <2> QED
    BY <2>1, <2>2, <2>3, <2>4, ChunkUntouched
<1>4. ASSUME NEW c \in Chunks, StreamData(c) \/ ChunkContinues(c)
      PROVE  ChunkInv'
  <2>1. c \in Calls /\ c \in Sends \cup Chunks /\ "done" \in Pcs /\ next[c] \in Nat \ {0}
    BY CallSets DEF Pcs, TypeOK
  <2>2. CASE SubmitChunk(c)
    <3>1. pc' = [pc EXCEPT ![c] = "frame"] /\ next' = [next EXCEPT ![c] = @ + 1]
      BY <2>2 DEF SubmitChunk, Submit
    <3>2. next'[c] > Fragments[c]
      BY <2>1, <3>1 DEF SmallChunks, TypeOK
    <3>3. \A d \in Chunks : d # c => pc'[d] = pc[d] /\ next'[d] = next[d]
      BY <2>1, <3>1 DEF TypeOK
    <3> QED
      BY <3>2, <3>3 DEF ChunkInv
  <2>3. CASE ~SubmitChunk(c)
    <3>1. pc[c] # "idle" /\ pc' = [pc EXCEPT ![c] = "done"] /\ next' = next
      BY <1>4, <2>3 DEF StreamData, ChunkContinues
    <3> QED
      BY <2>1, <3>1, ChunkUntouched
  <2> QED
    BY <2>2, <2>3
<1>5. ASSUME (\E c \in Controls : Control(c)) \/ Ask(Closing) \/ CloseGranted
      PROVE  ChunkInv'
  <2>1. \E c \in Controls \cup {Closing} : \E p \in {"msgWait", "frame", "rejected", "failed"} :
          pc' = [pc EXCEPT ![c] = p]
    BY <1>5 DEF Control, Ask, CloseGranted, Submit
  <2>2. next' = next
    BY <1>5 DEF Control, Ask, CloseGranted, LockMessage
  <2>3. \A c \in Controls \cup {Closing} : c \in Calls /\ c \notin Chunks
    BY CallSets, WriterAssumption
  <2>4. {"msgWait", "frame", "rejected", "failed"} \subseteq Pcs
    BY DEF Pcs
  <2> QED
    BY <2>1, <2>2, <2>3, <2>4, ChunkUntouched
<1>6. ASSUME GrantFrame \/ WriteHead \/ WritePayload \/ SocketError
      PROVE  ChunkInv'
  <2>1. next' = next
    BY <1>6 DEF GrantFrame, WriteHead, WritePayload, SocketError, FrameUnchanged
  <2>2. CASE pc' = pc
    BY <2>1, <2>2 DEF ChunkInv
  <2>3. CASE pc' # pc
    <3>1. PICK p \in {"sent", "failed"} : pc' = [pc EXCEPT ![Head(frameQueue).call] = p]
      BY <1>6, <2>3 DEF GrantFrame, WriteHead, WritePayload, SocketError, UnlockFrame, Result
    <3>2. writing # "stuck"
      BY <1>6, <2>3 DEF GrantFrame, WriteHead, WritePayload, SocketError
    <3>3. frameQueue # <<>>
      BY <1>6, <2>3 DEF GrantFrame, WriteHead, WritePayload, SocketError, LockInv, FrameLockInv
    <3>4. 1 \in 1..Len(frameQueue) /\ Head(frameQueue) = frameQueue[1] /\ Head(frameQueue) \in Frames
      BY <3>3 DEF TypeOK
    <3>5. Head(frameQueue).call \in Calls /\ pc[Head(frameQueue).call] # "idle" /\ p \in Pcs
      BY <3>2, <3>4 DEF LockInv, FrameLockInv, Frames, Pcs
    <3> QED
      BY <2>1, <3>1, <3>5, ChunkUntouched
  <2> QED
    BY <2>2, <2>3
<1> QED
  BY <1>1, <1>2, <1>3, <1>4, <1>5, <1>6
     DEF Next, vars, Drain, End, Destroy, FrameUnchanged

(* Every step keeps the close frame last. *)
LEMMA CloseStep ==
  TypeOK /\ LockInv /\ CloseInv /\ ChunkInv /\ [Next]_vars => CloseInv'
<1>1. CASE UNCHANGED vars
  BY <1>1 DEF vars, socket, CloseInv, CloseSubmitted, Closed
<1>2. CASE Drain \/ End \/ Destroy
  <2>1. UNCHANGED <<frameQueue, wire, pc>>
    BY <1>2 DEF Drain, End, Destroy
  <2> QED
    BY <2>1 DEF CloseInv, CloseSubmitted, Closed
<1> QED
  BY <1>1, <1>2, MessagesKeepClose, StreamsKeepClose, ChunksKeepClose, LastFramesKeepClose,
     WriterKeepsClose DEF Next

(* Behind the close frame the socket gets pings and pongs at most: close()  *)
(* keeps #msgMutex, and the messages before it have no frame left to write *)
(* when it is their turn, provided the chunks of streams fit in a frame.   *)
THEOREM NothingFollowsClose == SmallChunks => (Spec => []NothingAfterClose)
<1> SUFFICES ASSUME SmallChunks PROVE Spec => []NothingAfterClose
  OBVIOUS
<1>1. Init => TypeOK /\ LockInv /\ ChunkInv /\ CloseInv
  <2>1. Init => ChunkInv
    BY CallSets DEF Init, ChunkInv
  <2>2. Init => Len(frameQueue) = 0 /\ Len(wire) = 0
    BY DEF Init
  <2>3. Init => CloseInv
    BY <2>2 DEF CloseInv, CloseSubmitted
  <2> QED
    BY <2>1, <2>3, InitLocks
<1>2. TypeOK /\ LockInv /\ ChunkInv /\ CloseInv /\ [Next]_vars
        => TypeOK' /\ LockInv' /\ ChunkInv' /\ CloseInv'
  <2>1. TypeOK /\ LockInv /\ [Next]_vars => TypeOK' /\ LockInv'
    BY TypeStep, LockStep DEF LockInv
  <2> QED
    BY <2>1, ChunkStep, CloseStep
<1>3. TypeOK /\ CloseInv => NothingAfterClose
  <2>1. TypeOK => DOMAIN wire = 1..Len(wire)
    BY DEF TypeOK
  <2> QED
    BY <2>1 DEF CloseInv, NothingAfterClose, Last
<1> QED
  BY <1>1, <1>2, <1>3, PTL DEF Spec

=============================================================================
