---------------------- MODULE ProtocolWriterOrderProofs ----------------------
(***************************************************************************)
(* In which order and in which company what source/protocolWriter.js is    *)
(* given reaches the socket, for any number of messages, streams and       *)
(* control frames, any backpressure and whatever the socket does.          *)
(***************************************************************************)
EXTENDS ProtocolWriterProofs

(* A socket that was finished is not opened again. *)
LEMMA NeverReopens ==
  ASSUME [Next]_vars, Writable'
  PROVE  Writable
BY DEF Next, vars, socket, Writable, Send, BlobRead, SendGranted, SendContinues, Ask, LockMessage,
   StreamGranted, StreamClose, StreamFinished, StreamData, ChunkContinues, Control, CloseGranted,
   GrantFrame, WriteHead, WritePayload, WriteToSocket, Drain, End, Destroy, SocketError,
   Submit, SubmitFragment, SubmitChunk, UnlockMessage, UnlockFrame

(* Which calls of errorHandler there were, and what the socket is then. *)
ReportInv ==
  /\ reports \in {0, 1}
  /\ reports = 1 => io = "destroyed"
  /\ errored => io = "destroyed"

(* What a step of a caller leaves alone. *)
LEMMA CallerStep ==
  ASSUME \/ \E t \in Sends : Send(t) \/ BlobRead(t) \/ SendGranted(t) \/ SendContinues(t)
         \/ \E s \in Streams : Ask(s) \/ StreamGranted(s) \/ StreamClose(s) \/ StreamFinished(s)
         \/ \E c \in Chunks : StreamData(c) \/ ChunkContinues(c)
         \/ \E c \in Controls : Control(c)
         \/ Ask(Closing) \/ CloseGranted
  PROVE  UNCHANGED <<io, errored, needDrain, wire, reports, writing>>
BY DEF socket, Send, BlobRead, SendGranted, SendContinues, Ask, LockMessage,
   StreamGranted, StreamClose, StreamFinished, StreamData, ChunkContinues, Control, CloseGranted,
   Submit, SubmitFragment, SubmitChunk, UnlockMessage

(* Every step keeps the count of reports. *)
LEMMA ReportStep == ReportInv /\ [Next]_vars => ReportInv'
<1> SUFFICES ASSUME ReportInv, [Next]_vars PROVE ReportInv'
  OBVIOUS
<1>1. CASE UNCHANGED <<io, errored, reports>>
  BY <1>1 DEF ReportInv
<1>2. CASE GrantFrame \/ WriteHead \/ WritePayload
  BY <1>2 DEF ReportInv, GrantFrame, WriteHead, WritePayload, WriteToSocket, socket
<1>3. CASE Drain \/ End \/ Destroy
  BY <1>3 DEF ReportInv, Drain, End, Destroy, MustDrain
<1>4. CASE SocketError
  BY <1>4 DEF ReportInv, SocketError
<1> QED
  BY <1>1, <1>2, <1>3, <1>4, CallerStep DEF Next, vars, socket

(* One failure of the socket is reported once, however many frames wait:   *)
(* the report is made by the frame that waits for 'drain', of which there  *)
(* is one, and a destroyed socket fails no second time.                    *)
THEOREM OneReport == Spec => []ReportedOnce
<1>1. Init => ReportInv
  BY DEF Init, ReportInv
<1>2. ReportInv => ReportedOnce
  BY DEF ReportInv, ReportedOnce
<1> QED
  BY <1>1, <1>2, ReportStep, PTL DEF Spec

-----------------------------------------------------------------------------
Pending == {t \in Sends : pc[t] \notin {"idle", "blob", "done"}}

(* While frames are written a caller goes from one place where it counts   *)
(* to another, and bufferedAmount stays.                                   *)
LEMMA WritingKeepsPending ==
  ASSUME TypeOK, LockInv, GrantFrame \/ WriteHead \/ WritePayload \/ SocketError
  PROVE  backlog' = backlog /\ Pending' = Pending
<1>1. backlog' = backlog
  BY DEF GrantFrame, WriteHead, WritePayload, SocketError, FrameUnchanged
<1>2. CASE pc' = pc
  BY <1>1, <1>2 DEF Pending
<1>3. CASE pc' # pc
  <2>1. PICK p \in {"sent", "failed"} : pc' = [pc EXCEPT ![Head(frameQueue).call] = p]
    BY <1>3 DEF GrantFrame, WriteHead, WritePayload, SocketError, UnlockFrame, Result
  <2>2. writing # "stuck" /\ frameQueue # <<>>
    BY <1>3 DEF GrantFrame, WriteHead, WritePayload, SocketError, LockInv, FrameLockInv
  <2>3. 1 \in 1..Len(frameQueue) /\ Head(frameQueue) = frameQueue[1] /\ Head(frameQueue) \in Frames
    BY <2>2 DEF TypeOK
  <2>4. Head(frameQueue).call \in Calls /\ pc[Head(frameQueue).call] \in {"frame", "final"}
    BY <2>2, <2>3 DEF LockInv, FrameLockInv, Frames
  <2>5. \A t \in Sends : t \in Calls /\ (pc'[t] \in {"idle", "blob", "done"} <=> pc[t] \in {"idle", "blob", "done"})
    BY <2>1, <2>4, CallSets DEF TypeOK
  <2> QED
    BY <1>1, <2>5 DEF Pending
<1> QED
  BY <1>2, <1>3

(* Every step keeps bufferedAmount right while the socket is open. *)
LEMMA BacklogStep == TypeOK /\ LockInv /\ BacklogIsPending /\ [Next]_vars => BacklogIsPending'
<1> SUFFICES ASSUME TypeOK, LockInv, BacklogIsPending, [Next]_vars, Writable'
             PROVE  backlog' = Pending'
  BY DEF BacklogIsPending, Pending
<1>1. Writable /\ backlog = Pending
  BY NeverReopens DEF BacklogIsPending, Pending
<1>2. CASE UNCHANGED <<pc, backlog>>
  BY <1>1, <1>2 DEF Pending
<1>3. ASSUME NEW t \in Sends, Send(t) \/ BlobRead(t) \/ SendGranted(t) \/ SendContinues(t)
      PROVE  backlog' = Pending'
  <2>1. t \in Calls /\ Sends \subseteq Calls
    BY CallSets
  <2>2. \A p : pc' = [pc EXCEPT ![t] = p] => \A x \in Sends : pc'[x] = IF x = t THEN p ELSE pc[x]
    BY <2>1 DEF TypeOK
  <2>3. CASE pc' = [pc EXCEPT ![t] = "done"] /\ backlog' = backlog \ {t}
    BY <1>1, <2>2, <2>3 DEF Pending
  <2>4. CASE pc' = [pc EXCEPT ![t] = "msgWait"] /\ backlog' = backlog \cup {t}
    <3>0. \A x \in Sends : pc'[x] = IF x = t THEN "msgWait" ELSE pc[x]
      BY <2>2, <2>4
    <3>1. \A x \in Sends : x = t \/ x \in Pending <=> pc'[x] \notin {"idle", "blob", "done"}
      BY <3>0 DEF Pending
    <3> QED
      BY <1>1, <2>4, <3>1 DEF Pending
  <2>5. CASE pc' = [pc EXCEPT ![t] = "frame"] /\ backlog' = backlog /\ pc[t] \in {"msgWait", "sent", "failed"}
    BY <1>1, <2>2, <2>5 DEF Pending
  <2>6. CASE pc' = [pc EXCEPT ![t] = "blob"] /\ backlog' = backlog /\ pc[t] = "idle"
    BY <1>1, <2>2, <2>6 DEF Pending
  <2> QED
    BY <1>1, <1>3, <2>3, <2>4, <2>5, <2>6
       DEF Send, BlobRead, SendGranted, SendContinues, SubmitFragment, Submit, UnlockMessage
<1>4. ASSUME NEW c \in Calls \ Sends, NEW p \in Pcs, pc' = [pc EXCEPT ![c] = p], backlog' = backlog
      PROVE  backlog' = Pending'
  <2>1. \A x \in Sends : pc'[x] = pc[x]
    BY <1>4, CallSets DEF TypeOK
  <2> QED
    BY <1>1, <1>4, <2>1 DEF Pending
<1>5. CASE \E s \in Streams : Ask(s) \/ StreamGranted(s) \/ StreamClose(s) \/ StreamFinished(s)
  <2>1. \E s \in Streams : backlog' = backlog /\ \E p \in {"msgWait", "streaming", "done", "final"} : pc' = [pc EXCEPT ![s] = p]
    BY <1>5 DEF Ask, StreamGranted, StreamClose, StreamFinished, Submit, UnlockMessage
  <2> QED
    BY <1>4, <2>1, CallSets, WriterAssumption DEF Pcs
<1>6. CASE \E c \in Chunks : StreamData(c) \/ ChunkContinues(c)
  <2>1. \E c \in Chunks : backlog' = backlog /\ \E p \in {"frame", "done"} : pc' = [pc EXCEPT ![c] = p]
    BY <1>6 DEF StreamData, ChunkContinues, SubmitChunk, Submit
  <2> QED
    BY <1>4, <2>1, CallSets, WriterAssumption DEF Pcs, Messages
<1>7. CASE (\E c \in Controls : Control(c)) \/ Ask(Closing) \/ CloseGranted
  <2>1. \E c \in Controls \cup {Closing} : backlog' = backlog /\
          \E p \in {"msgWait", "frame", "rejected", "failed"} : pc' = [pc EXCEPT ![c] = p]
    BY <1>7 DEF Control, Ask, CloseGranted, Submit
  <2> QED
    BY <1>4, <2>1, CallSets, WriterAssumption DEF Pcs, Messages
<1>8. CASE GrantFrame \/ WriteHead \/ WritePayload \/ SocketError
  BY <1>1, <1>8, WritingKeepsPending
<1> QED
  BY <1>2, <1>3, <1>5, <1>6, <1>7, <1>8 DEF Next, vars, Drain, End, Destroy, FrameUnchanged

(* bufferedAmount is right as long as the socket is open, for any number   *)
(* of messages and of fragments: what it counts are the calls of send()    *)
(* that wait for #msgMutex or hold it.                                     *)
THEOREM BacklogCorrect == Spec => []BacklogIsPending
<1>1. Init => TypeOK /\ LockInv
  BY InitLocks
<1>2. Init => BacklogIsPending
  BY CallSets DEF Init, BacklogIsPending
<1>3. TypeOK /\ LockInv /\ [Next]_vars => TypeOK' /\ LockInv'
  BY TypeStep, LockStep DEF LockInv
<1> QED
  BY <1>1, <1>2, <1>3, BacklogStep, PTL DEF Spec

-----------------------------------------------------------------------------
(* The head of the first frame in the queue is on the wire, its payload is *)
(* not.                                                                    *)
Started == writing \in {"payload", "payloadDrain"}

(* A payload follows its own head; the last head waits for its payload     *)
(* exactly while writeFrame() is between the two writes.                   *)
ContiguousInv ==
  /\ \A i \in 1..Len(wire) :
       /\ wire[i].part = "payload" => i > 1 /\ wire[i - 1] = [frame |-> wire[i].frame, part |-> "head"]
       /\ wire[i].part = "head" /\ wire[i].frame.payload /\ i < Len(wire) => wire[i + 1].part = "payload"
  /\ Writable /\ Len(wire) > 0 /\ wire[Len(wire)].part = "head" /\ wire[Len(wire)].frame.payload => Started
  /\ Writable /\ Started =>
       Len(wire) > 0 /\ wire[Len(wire)] = [frame |-> Head(frameQueue), part |-> "head"]

(* A frame that is appended to a queue in use leaves its first one there.  *)
LEMMA HeadStays ==
  ASSUME TypeOK, frameQueue # <<>>, NEW f, frameQueue' = Append(frameQueue, f)
  PROVE  Head(frameQueue') = Head(frameQueue)
BY DEF TypeOK

(* A step that writes nothing. *)
LEMMA QuietKeepsContiguous ==
  ASSUME ContiguousInv, wire' = wire, Writable' => Writable,
         Writable' => (Started' <=> Started),
         Writable' /\ Started => Head(frameQueue') = Head(frameQueue)
  PROVE  ContiguousInv'
BY DEF ContiguousInv

(* The steps of the callers write nothing. *)
LEMMA CallerKeepsContiguous ==
  ASSUME TypeOK, LockInv, ContiguousInv, UNCHANGED <<io, wire, writing>>,
         frameQueue' = frameQueue \/ \E f : frameQueue' = Append(frameQueue, f)
  PROVE  ContiguousInv'
<1>1. Writable' => Writable
  BY DEF Writable
<1>2. Started' <=> Started
  BY DEF Started
<1>3. Started => frameQueue # <<>>
  BY DEF Started, LockInv, FrameLockInv
<1>4. Started => Head(frameQueue') = Head(frameQueue)
  BY <1>3, HeadStays
<1> QED
  BY <1>1, <1>2, <1>4, QuietKeepsContiguous

(* What a caller does to the queue of frames. *)
LEMMA CallerAppends ==
  ASSUME \/ \E t \in Sends : Send(t) \/ BlobRead(t) \/ SendGranted(t) \/ SendContinues(t)
         \/ \E s \in Streams : Ask(s) \/ StreamGranted(s) \/ StreamClose(s) \/ StreamFinished(s)
         \/ \E c \in Chunks : StreamData(c) \/ ChunkContinues(c)
         \/ \E c \in Controls : Control(c)
         \/ Ask(Closing) \/ CloseGranted
  PROVE  frameQueue' = frameQueue \/ \E f : frameQueue' = Append(frameQueue, f)
BY DEF Send, BlobRead, SendGranted, SendContinues, Ask, LockMessage,
   StreamGranted, StreamClose, StreamFinished, StreamData, ChunkContinues, Control, CloseGranted,
   Submit, SubmitFragment, SubmitChunk, UnlockMessage

(* The write of a head. *)
LEMMA HeadKeepsContiguous ==
  ASSUME TypeOK, LockInv, ContiguousInv, WriteHead
  PROVE  ContiguousInv'
<1> DEFINE w == wire
           v == wire'
           h == Head(frameQueue)
<1>1. frameQueue # <<>> /\ ~Started /\ w \in Seq(Parts) /\ Len(w) \in Nat
  BY DEF WriteHead, LockInv, FrameLockInv, Started, TypeOK
<1>2. CASE wire' = wire /\ (Writable' => Writable /\ ~Started')
  BY <1>1, <1>2, QuietKeepsContiguous
<1>3. CASE /\ Writable /\ v = Append(w, [frame |-> h, part |-> "head"])
           /\ IF h.payload THEN writing' = "payload" /\ frameQueue' = frameQueue ELSE writing' = "free"
  <2>1. [frame |-> h, part |-> "head"] \in Parts
    BY <1>1 DEF TypeOK, Parts
  <2>2. Len(v) = Len(w) + 1 /\ v[Len(v)] = [frame |-> h, part |-> "head"] /\ \A i \in 1..Len(w) : v[i] = w[i]
    BY <1>1, <1>3, <2>1
  <2>3. \A i \in 1..Len(v) : v[i].part = "payload" => i > 1 /\ v[i - 1] = [frame |-> v[i].frame, part |-> "head"]
    <3> SUFFICES ASSUME NEW i \in 1..Len(v), v[i].part = "payload"
                 PROVE  i > 1 /\ v[i - 1] = [frame |-> v[i].frame, part |-> "head"]
      OBVIOUS
    <3>1. i \in 1..Len(w) /\ v[i] = w[i]
      BY <1>1, <2>2
    <3>2. i > 1 /\ w[i - 1] = [frame |-> w[i].frame, part |-> "head"]
      BY <3>1 DEF ContiguousInv
    <3> QED
      BY <1>1, <2>2, <3>1, <3>2
  <2>4. \A i \in 1..Len(v) : v[i].part = "head" /\ v[i].frame.payload /\ i < Len(v) => v[i + 1].part = "payload"
    <3> SUFFICES ASSUME NEW i \in 1..Len(v), v[i].part = "head", v[i].frame.payload, i < Len(v)
                 PROVE  v[i + 1].part = "payload"
      OBVIOUS
    <3>1. i \in 1..Len(w) /\ v[i] = w[i]
      BY <1>1, <2>2
    <3>2. i # Len(w)
      BY <1>1, <1>3, <3>1 DEF ContiguousInv
    <3>3. i < Len(w) /\ i + 1 \in 1..Len(w)
      BY <1>1, <3>1, <3>2
    <3>4. w[i].part = "head" /\ w[i].frame.payload
      BY <3>1
    <3>5. w[i + 1].part = "payload"
      BY <3>1, <3>3, <3>4 DEF ContiguousInv
    <3> QED
      BY <2>2, <3>3, <3>5
  <2> HIDE DEF v
  <2>5. Len(v) > 0 /\ v[Len(v)].frame = h
    BY <1>1, <2>2
  <2>6. CASE h.payload
    <3>1. Started' /\ Head(frameQueue') = h
      BY <1>3, <2>6 DEF Started
    <3> QED
      BY <2>2, <2>3, <2>4, <2>5, <3>1 DEF ContiguousInv, v
  <2>7. CASE ~h.payload
    <3>1. ~Started'
      BY <1>3, <2>7 DEF Started
    <3> QED
      BY <2>2, <2>3, <2>4, <2>5, <2>7, <3>1 DEF ContiguousInv, v
  <2> QED
    BY <2>6, <2>7
<1> QED
  <2>1. CASE MustDrain
    BY <1>2, <2>1 DEF WriteHead, MustDrain, Writable, Started, socket
  <2>2. CASE ~MustDrain /\ Writable
    BY <1>3, <2>2 DEF WriteHead, WriteToSocket, Writable, UnlockFrame
  <2>3. CASE ~MustDrain /\ ~Writable
    BY <1>2, <2>3 DEF WriteHead, WriteToSocket, Writable
  <2> QED
    BY <2>1, <2>2, <2>3

(* The write of a payload. *)
LEMMA PayloadKeepsContiguous ==
  ASSUME TypeOK, LockInv, ContiguousInv, WritePayload
  PROVE  ContiguousInv'
<1> DEFINE w == wire
           v == wire'
           h == Head(frameQueue)
<1>1. frameQueue # <<>> /\ Started /\ w \in Seq(Parts) /\ Len(w) \in Nat
  BY DEF WritePayload, LockInv, FrameLockInv, Started, TypeOK
<1>2. CASE MustDrain
  BY <1>1, <1>2, QuietKeepsContiguous DEF WritePayload, MustDrain, Writable, Started, socket
<1>3. CASE ~MustDrain /\ ~Writable
  <2>1. wire' = wire /\ ~Writable'
    BY <1>3 DEF WritePayload, WriteToSocket, Writable
  <2> QED
    BY <2>1, QuietKeepsContiguous
<1>4. CASE ~MustDrain /\ Writable
  <2>1. v = Append(w, [frame |-> h, part |-> "payload"]) /\ ~Started'
    BY <1>4 DEF WritePayload, WriteToSocket, Writable, UnlockFrame, Started
  <2>2. [frame |-> h, part |-> "payload"] \in Parts
    BY <1>1 DEF TypeOK, Parts
  <2>3. /\ Len(v) = Len(w) + 1 /\ v[Len(v)] = [frame |-> h, part |-> "payload"]
        /\ \A i \in 1..Len(w) : v[i] = w[i]
    BY <1>1, <2>1, <2>2
  <2>4. Len(w) > 0 /\ w[Len(w)] = [frame |-> h, part |-> "head"]
    BY <1>1, <1>4 DEF ContiguousInv
  <2> HIDE DEF v, h
  <2>5. \A i \in 1..Len(v) : v[i].part = "payload" => i > 1 /\ v[i - 1] = [frame |-> v[i].frame, part |-> "head"]
    <3> SUFFICES ASSUME NEW i \in 1..Len(v), v[i].part = "payload"
                 PROVE  i > 1 /\ v[i - 1] = [frame |-> v[i].frame, part |-> "head"]
      OBVIOUS
    <3>1. CASE i = Len(v)
      BY <1>1, <2>3, <2>4, <3>1
    <3>2. CASE i # Len(v)
      <4>1. i \in 1..Len(w) /\ v[i] = w[i]
        BY <1>1, <2>3, <3>2
      <4>2. i > 1 /\ w[i - 1] = [frame |-> w[i].frame, part |-> "head"]
        BY <4>1 DEF ContiguousInv
      <4> QED
        BY <1>1, <2>3, <4>1, <4>2
    <3> QED
      BY <3>1, <3>2
  <2>6. \A i \in 1..Len(v) : v[i].part = "head" /\ v[i].frame.payload /\ i < Len(v) => v[i + 1].part = "payload"
    <3> SUFFICES ASSUME NEW i \in 1..Len(v), v[i].part = "head", v[i].frame.payload, i < Len(v)
                 PROVE  v[i + 1].part = "payload"
      OBVIOUS
    <3>1. i \in 1..Len(w) /\ v[i] = w[i]
      BY <1>1, <2>3
    <3>2. CASE i = Len(w)
      BY <1>1, <2>3, <3>2
    <3>3. CASE i # Len(w)
      <4>1. i < Len(w) /\ i + 1 \in 1..Len(w)
        BY <1>1, <3>1, <3>3
      <4>2. w[i].part = "head" /\ w[i].frame.payload
        BY <3>1
      <4>3. w[i + 1].part = "payload"
        BY <3>1, <4>1, <4>2 DEF ContiguousInv
      <4> QED
        BY <2>3, <4>1, <4>3
    <3> QED
      BY <3>2, <3>3
  <2>7. v[Len(v)].part # "head"
    BY <2>3
  <2> QED
    BY <2>1, <2>5, <2>6, <2>7 DEF ContiguousInv, v
<1> QED
  BY <1>2, <1>3, <1>4

(* Every step keeps the parts of each frame together. *)
LEMMA ContiguousStep == TypeOK /\ LockInv /\ ContiguousInv /\ [Next]_vars => ContiguousInv'
<1> SUFFICES ASSUME TypeOK, LockInv, ContiguousInv, [Next]_vars PROVE ContiguousInv'
  OBVIOUS
<1>1. CASE UNCHANGED vars
  BY <1>1, CallerKeepsContiguous DEF vars, socket
<1>2. CASE GrantFrame
  <2>1. wire' = wire /\ io' = io /\ ~Started /\ ~Started'
    BY <1>2 DEF GrantFrame, Started, socket
  <2> QED
    BY <2>1, QuietKeepsContiguous DEF Writable
<1>3. CASE Drain
  BY <1>3, QuietKeepsContiguous DEF Drain, Writable, Started
<1>4. CASE End \/ Destroy \/ SocketError
  <2>1. wire' = wire /\ ~Writable'
    BY <1>4 DEF End, Destroy, SocketError, Writable
  <2> QED
    BY <2>1, QuietKeepsContiguous
<1> QED
  BY <1>1, <1>2, <1>3, <1>4, CallerStep, CallerAppends, CallerKeepsContiguous,
     HeadKeepsContiguous, PayloadKeepsContiguous DEF Next

(* The bytes of two frames never mix on the socket, whichever calls are    *)
(* interleaved and however often it asks to wait for 'drain'.              *)
THEOREM FramesTogether == Spec => []FramesContiguous
<1>1. Init => TypeOK /\ LockInv
  BY InitLocks
<1>2. Init => ContiguousInv
  <2>1. Init => Len(wire) = 0 /\ ~Started
    BY DEF Init, Started
  <2> QED
    BY <2>1 DEF ContiguousInv
<1>3. TypeOK /\ LockInv /\ [Next]_vars => TypeOK' /\ LockInv'
  BY TypeStep, LockStep DEF LockInv
<1>4. TypeOK /\ ContiguousInv => FramesContiguous
  <2> SUFFICES ASSUME TypeOK, ContiguousInv PROVE FramesContiguous
    OBVIOUS
  <2>1. DOMAIN wire = 1..Len(wire) /\ Len(wire) \in Nat /\ \A i \in 1..Len(wire) : wire[i] \in Parts
    BY DEF TypeOK
  <2>2. \A p \in Parts : [p EXCEPT !.part = "head"] = [frame |-> p.frame, part |-> "head"]
    BY DEF Parts
  <2>3. SUFFICES ASSUME NEW i \in 1..Len(wire)
                 PROVE  /\ wire[i].part = "payload" => i > 1 /\ wire[i - 1] = [wire[i] EXCEPT !.part = "head"]
                        /\ wire[i].part = "head" /\ wire[i].frame.payload =>
                             IF i < Len(wire) THEN wire[i + 1].part = "payload"
                             ELSE Started \/ ~Writable
    BY <2>1 DEF FramesContiguous, Started
  <2>4. wire[i].part = "payload" => i > 1 /\ wire[i - 1] = [wire[i] EXCEPT !.part = "head"]
    BY <2>1, <2>2 DEF ContiguousInv
  <2>5. wire[i].part = "head" /\ wire[i].frame.payload /\ i < Len(wire) => wire[i + 1].part = "payload"
    BY DEF ContiguousInv
  <2>6. i >= Len(wire) => i = Len(wire) /\ Len(wire) > 0
    <3>1. Len(wire) \in Nat
      BY <2>1
    <3> QED
      BY <3>1
  <2>7. wire[i].part = "head" /\ wire[i].frame.payload /\ i >= Len(wire) => Started \/ ~Writable
    BY <2>6 DEF ContiguousInv
  <2> QED
    BY <2>1, <2>4, <2>5, <2>7
<1> QED
  BY <1>1, <1>2, <1>3, <1>4, ContiguousStep, PTL DEF Spec

-----------------------------------------------------------------------------
(* What writing does while the socket stays open: it moves nothing, or it  *)
(* writes the head, the whole or the payload of the first frame in the     *)
(* queue.                                                                  *)
Resumes ==
  /\ frameQueue' = Tail(frameQueue)
  /\ pc' = [pc EXCEPT ![Head(frameQueue).call] = "sent"]

Puts(part) == wire' = Append(wire, [frame |-> Head(frameQueue), part |-> part])

WritesNothing == UNCHANGED <<pc, frameQueue, wire>> /\ (Started' <=> Started)
WritesHead == Puts("head") /\ ~Started /\ Started' /\ UNCHANGED <<pc, frameQueue>>
WritesFrame == Puts("head") /\ ~Started /\ ~Started' /\ Resumes /\ ~Head(frameQueue).payload
WritesPayload == Puts("payload") /\ Started /\ ~Started' /\ Resumes

(* The steps of writing, in these terms. *)
LEMMA WriterStep ==
  ASSUME TypeOK, LockInv, ReportInv, Writable', Writable,
         GrantFrame \/ WriteHead \/ WritePayload \/ Drain \/ End \/ Destroy \/ SocketError
  PROVE  /\ FrameUnchanged
         /\ \/ WritesNothing
            \/ frameQueue # <<>> /\ (WritesHead \/ WritesFrame \/ WritesPayload)
<1>1. frameQueue # <<>> \/ ~(WriteHead \/ WritePayload)
  BY DEF WriteHead, WritePayload, LockInv, FrameLockInv
<1>2. errored = FALSE
  BY DEF ReportInv, Writable, TypeOK
<1>3. CASE GrantFrame
  BY <1>3 DEF GrantFrame, WritesNothing, Started, Writable, socket
<1>4. CASE WriteHead
  <2>1. CASE MustDrain
    BY <1>4, <2>1 DEF WriteHead, WritesNothing, Started, socket
  <2>2. CASE ~MustDrain
    <3>1. Puts("head") /\ ~errored'
      BY <1>2, <1>4, <2>2 DEF WriteHead, WriteToSocket, Puts, Writable
    <3>2. CASE Head(frameQueue).payload
      BY <1>1, <1>4, <2>2, <3>1, <3>2 DEF WriteHead, WritesHead, Started
    <3>3. CASE ~Head(frameQueue).payload
      BY <1>1, <1>4, <2>2, <3>1, <3>3 DEF WriteHead, WritesFrame, Started, UnlockFrame, Resumes, Result
    <3> QED
      BY <1>4, <3>2, <3>3
  <2> QED
    BY <2>1, <2>2
<1>5. CASE WritePayload
  <2>1. CASE MustDrain
    BY <1>5, <2>1 DEF WritePayload, WritesNothing, Started, socket
  <2>2. CASE ~MustDrain
    <3>1. Puts("payload") /\ ~errored'
      BY <1>2, <1>5, <2>2 DEF WritePayload, WriteToSocket, Puts, Writable
    <3> QED
      BY <1>1, <1>5, <2>2, <3>1 DEF WritePayload, WritesPayload, Started, UnlockFrame, Resumes, Result
  <2> QED
    BY <2>1, <2>2
<1>6. CASE Drain
  BY <1>6 DEF Drain, WritesNothing, Started
<1>7. CASE End \/ Destroy \/ SocketError
  BY <1>7 DEF End, Destroy, SocketError, Writable
<1>8. FrameUnchanged
  BY DEF GrantFrame, WriteHead, WritePayload, Drain, End, Destroy, SocketError
<1> QED
  BY <1>3, <1>4, <1>5, <1>6, <1>7, <1>8

(* What is written is put behind what was. *)
LEMMA PutsLast ==
  ASSUME TypeOK, frameQueue # <<>>, NEW part \in {"head", "payload"}, Puts(part)
  PROVE  /\ Len(wire) \in Nat /\ Len(wire') = Len(wire) + 1
         /\ wire'[Len(wire')] = [frame |-> Head(frameQueue), part |-> part]
         /\ \A i \in 1..Len(wire) : wire'[i] = wire[i]
<1>1. Head(frameQueue) \in Frames /\ wire \in Seq(Parts)
  BY DEF TypeOK
<1>2. [frame |-> Head(frameQueue), part |-> part] \in Parts
  BY <1>1 DEF Parts
<1> QED
  BY <1>1, <1>2 DEF Puts

(* A frame of call c joins the queue, behind those that are there. *)
Joins(c) ==
  /\ Len(frameQueue) \in Nat /\ Len(frameQueue') = Len(frameQueue) + 1
  /\ frameQueue'[Len(frameQueue')].call = c
  /\ \A i \in 1..Len(frameQueue) : frameQueue'[i] = frameQueue[i]

(* So does each that is submitted. *)
LEMMA SubmitJoins ==
  ASSUME TypeOK, NEW c, NEW m, NEW op, NEW n, NEW fin, NEW payload, NEW p,
         Submit(c, m, op, n, fin, payload, p)
  PROVE  Joins(c)
<1> DEFINE f == [call |-> c, msg |-> m, op |-> op, n |-> n, fin |-> fin, payload |-> payload]
<1>1. f.call = c /\ frameQueue \in Seq(Frames) /\ frameQueue' = Append(frameQueue, f)
  BY DEF Submit, TypeOK
<1> HIDE DEF f
<1> QED
  BY <1>1 DEF Joins

(* Which frame that is. *)
LEMMA SubmitsLast ==
  ASSUME TypeOK, NEW c, NEW m, NEW op, NEW n, NEW fin, NEW payload, NEW p,
         Submit(c, m, op, n, fin, payload, p)
  PROVE  frameQueue'[Len(frameQueue')] =
           [call |-> c, msg |-> m, op |-> op, n |-> n, fin |-> fin, payload |-> payload]
<1> DEFINE f == [call |-> c, msg |-> m, op |-> op, n |-> n, fin |-> fin, payload |-> payload]
<1>1. frameQueue \in Seq(Frames) /\ frameQueue' = Append(frameQueue, f)
  BY DEF Submit, TypeOK
<1> HIDE DEF f
<1>2. frameQueue'[Len(frameQueue')] = f
  BY <1>1
<1> QED
  BY <1>2 DEF f

(* What is left in the queue when its first frame is removed. *)
LEMMA ResumesFirst ==
  ASSUME TypeOK, LockInv, writing # "stuck", frameQueue # <<>>, Resumes
  PROVE  /\ Len(frameQueue) \in Nat /\ Len(frameQueue) > 0 /\ Len(frameQueue') = Len(frameQueue) - 1
         /\ \A i \in 1..Len(frameQueue') : frameQueue'[i] = frameQueue[i + 1] /\ i + 1 \in 1..Len(frameQueue)
         /\ Head(frameQueue) = frameQueue[1] /\ frameQueue[1] \in Frames
         /\ frameQueue[1].call \in Calls /\ pc[frameQueue[1].call] \in {"frame", "final"}
         /\ \A x \in Calls : pc'[x] = IF x = frameQueue[1].call THEN "sent" ELSE pc[x]
         /\ \A i \in 1..Len(frameQueue') : frameQueue'[i].call # frameQueue[1].call
<1>1. frameQueue \in Seq(Frames) /\ 1 \in 1..Len(frameQueue) /\ Head(frameQueue) = frameQueue[1]
  BY DEF TypeOK
<1>2. /\ Len(frameQueue) \in Nat /\ Len(frameQueue) > 0 /\ Len(frameQueue') = Len(frameQueue) - 1
      /\ \A i \in 1..Len(frameQueue') : frameQueue'[i] = frameQueue[i + 1] /\ i + 1 \in 1..Len(frameQueue)
  BY <1>1 DEF Resumes
<1>3. frameQueue[1] \in Frames /\ frameQueue[1].call \in Calls
  <2>1. frameQueue[1] \in Frames
    BY <1>1
  <2> QED
    BY <2>1 DEF Frames
<1>4. pc[frameQueue[1].call] \in {"frame", "final"}
  BY <1>1 DEF LockInv, FrameLockInv
<1>5. \A i \in 1..Len(frameQueue') : frameQueue[i + 1].call # frameQueue[1].call
  <2> SUFFICES ASSUME NEW i \in 1..Len(frameQueue'), frameQueue[i + 1].call = frameQueue[1].call PROVE FALSE
    OBVIOUS
  <2>1. i + 1 \in 1..Len(frameQueue)
    BY <1>2
  <2>2. i + 1 = 1
    BY <1>1, <2>1 DEF LockInv, FrameLockInv
  <2> QED
    BY <1>2, <2>2
<1>6. \A x \in Calls : pc'[x] = IF x = frameQueue[1].call THEN "sent" ELSE pc[x]
  BY <1>1, <1>3 DEF Resumes, TypeOK
<1> QED
  BY <1>1, <1>2, <1>3, <1>4, <1>5, <1>6

-----------------------------------------------------------------------------
(* Fragment n of message t has been written with its payload. *)
OnWire(t, n) ==
  \E i \in 1..Len(wire) : wire[i].frame.msg = t /\ wire[i].frame.n = n /\ wire[i].part = "payload"

(* How far a send() is: its fragments are written up to the one it waits   *)
(* for, which is the only one in the queue.                                *)
SendWritten(t) ==
  /\ pc[t] \notin {"failed", "final"}
  /\ pc[t] \in {"idle", "blob", "msgWait"} => next[t] = 1
  /\ pc[t] \in {"frame", "sent"} => next[t] > 1
  /\ pc[t] = "sent" => \A n \in 1..(next[t] - 1) : OnWire(t, n)
  /\ pc[t] = "frame" =>
       /\ \A n \in 1..(next[t] - 2) : OnWire(t, n)
       /\ \A i \in 1..Len(frameQueue) : frameQueue[i].call = t =>
            frameQueue[i].msg = t /\ frameQueue[i].n = next[t] - 1 /\ frameQueue[i].payload
  /\ pc[t] = "done" => \A n \in 1..Fragments[t] : OnWire(t, n)

WrittenInv == Writable => \A t \in Sends : SendWritten(t)

(* What is on the wire stays there. *)
LEMMA WireGrows ==
  ASSUME TypeOK, frameQueue # <<>>, NEW t, NEW n, OnWire(t, n),
         wire' = wire \/ Puts("head") \/ Puts("payload")
  PROVE  OnWire(t, n)'
<1>1. PICK i \in 1..Len(wire) : wire[i].frame.msg = t /\ wire[i].frame.n = n /\ wire[i].part = "payload"
  BY DEF OnWire
<1>2. i \in 1..Len(wire') /\ wire'[i] = wire[i]
  BY PutsLast
<1> QED
  BY <1>1, <1>2 DEF OnWire

(* A step that does not concern a send(). *)
LEMMA OthersKeepWritten ==
  ASSUME NEW t \in Sends, SendWritten(t), pc'[t] = pc[t], next'[t] = next[t],
         \A n : OnWire(t, n) => OnWire(t, n)',
         \A i \in 1..Len(frameQueue') : frameQueue'[i].call = t =>
            \E j \in 1..Len(frameQueue) : frameQueue'[i] = frameQueue[j]
  PROVE  SendWritten(t)'
<1>1. pc'[t] = "frame" => \A i \in 1..Len(frameQueue') : frameQueue'[i].call = t =>
            frameQueue'[i].msg = t /\ frameQueue'[i].n = next'[t] - 1 /\ frameQueue'[i].payload
  BY DEF SendWritten
<1> QED
  BY <1>1 DEF SendWritten

(* A send() submits its next fragment. *)
LEMMA FragmentKeepsWritten ==
  ASSUME TypeOK, LockInv, NEW t \in Sends, SendWritten(t), wire' = wire, writing # "stuck",
         pc[t] \in {"msgWait", "sent"}, SubmitFragment(t)
  PROVE  SendWritten(t)'
<1>1. t \in Calls /\ next[t] \in Nat \ {0} /\ next'[t] = next[t] + 1
  BY CallSets DEF TypeOK, SubmitFragment
<1>2. PICK o \in Ops, last \in BOOLEAN, carries \in BOOLEAN :
         carries /\ Submit(t, t, o, next[t], last, carries, "frame")
  BY DEF SubmitFragment, Ops
<1>3. /\ Len(frameQueue) \in Nat /\ Len(frameQueue') = Len(frameQueue) + 1
      /\ \A i \in 1..Len(frameQueue) : frameQueue'[i] = frameQueue[i]
  BY <1>2, SubmitJoins DEF Joins
<1>10. /\ frameQueue'[Len(frameQueue')].msg = t /\ frameQueue'[Len(frameQueue')].n = next[t]
      /\ frameQueue'[Len(frameQueue')].payload
  <2>1. frameQueue'[Len(frameQueue')] =
           [call |-> t, msg |-> t, op |-> o, n |-> next[t], fin |-> last, payload |-> carries]
    <3> DEFINE k == next[t]
    <3>1. Submit(t, t, o, k, last, carries, "frame")
      BY <1>2
    <3> HIDE DEF k
    <3>2. frameQueue'[Len(frameQueue')] =
             [call |-> t, msg |-> t, op |-> o, n |-> k, fin |-> last, payload |-> carries]
      BY <3>1, SubmitsLast
    <3> QED
      BY <3>2 DEF k
  <2> QED
    BY <1>2, <2>1
<1>4. \A i \in 1..Len(frameQueue) : frameQueue[i].call # t
  BY DEF LockInv, FrameLockInv
<1>5. \A i \in 1..Len(frameQueue') : frameQueue'[i].call = t => frameQueue'[i] = frameQueue'[Len(frameQueue')]
  <2>1. \A i \in 1..Len(frameQueue') : i \in 1..Len(frameQueue) \/ i = Len(frameQueue')
    BY <1>3
  <2> QED
    BY <1>3, <1>4, <2>1
<1>6. pc'[t] = "frame"
  BY <1>1, <1>2 DEF Submit, TypeOK
<1>7. \A n : OnWire(t, n) => OnWire(t, n)'
  BY DEF OnWire
<1>8. \A n \in 1..(next'[t] - 2) : OnWire(t, n)
  BY <1>1 DEF SendWritten
<1>9. \A i \in 1..Len(frameQueue') : frameQueue'[i].call = t =>
         frameQueue'[i].msg = t /\ frameQueue'[i].n = next'[t] - 1 /\ frameQueue'[i].payload
  BY <1>1, <1>5, <1>10
<1> QED
  BY <1>1, <1>6, <1>7, <1>8, <1>9 DEF SendWritten

(* Its steps keep count of what is written. *)
LEMMA SendKeepsWritten ==
  ASSUME TypeOK, LockInv, NEW t \in Sends, SendWritten(t), Writable,
         Send(t) \/ BlobRead(t) \/ SendGranted(t) \/ SendContinues(t)
  PROVE  SendWritten(t)'
<1>1. t \in Calls /\ next[t] \in Nat \ {0} /\ wire' = wire /\ writing # "stuck"
  BY CallSets, CallerStep DEF TypeOK, LockInv, FrameLockInv
<1>2. \A n : OnWire(t, n) => OnWire(t, n)'
  BY <1>1 DEF OnWire
<1>3. CASE SubmitFragment(t)
  <2>1. pc[t] \in {"msgWait", "sent"}
    BY <1>3 DEF Send, BlobRead, SendGranted, SendContinues, LockMessage, SubmitFragment, Submit, SendWritten
  <2> QED
    BY <1>1, <1>3, <2>1, FragmentKeepsWritten
<1>4. CASE ~SubmitFragment(t) /\ SendContinues(t)
  <2>1. pc[t] = "sent" /\ next[t] > Fragments[t] /\ pc'[t] = "done"
    BY <1>1, <1>4 DEF SendContinues, UnlockMessage, SendWritten, TypeOK
  <2>2. \A n \in 1..(next[t] - 1) : OnWire(t, n)'
    BY <1>2, <2>1 DEF SendWritten
  <2>3. Fragments[t] \in Nat
    BY WriterAssumption
  <2>4. \A n \in 1..Fragments[t] : OnWire(t, n)'
    BY <1>1, <2>1, <2>2, <2>3
  <2> QED
    BY <2>1, <2>4 DEF SendWritten
<1>5. CASE ~SubmitFragment(t) /\ ~SendContinues(t)
  <2>1. pc[t] \in {"idle", "blob"} /\ pc'[t] \in {"blob", "msgWait"} /\ next' = next
    BY <1>1, <1>5 DEF Send, BlobRead, SendGranted, LockMessage, TypeOK
  <2> QED
    BY <2>1 DEF SendWritten
<1> QED
  BY <1>3, <1>4, <1>5

(* A step of any other call does. *)
LEMMA CallerKeepsWritten ==
  ASSUME TypeOK, NEW t \in Sends, SendWritten(t),
         \/ \E x \in Sends \ {t} : Send(x) \/ BlobRead(x) \/ SendGranted(x) \/ SendContinues(x)
         \/ \E s \in Streams : Ask(s) \/ StreamGranted(s) \/ StreamClose(s) \/ StreamFinished(s)
         \/ \E c \in Chunks : StreamData(c) \/ ChunkContinues(c)
         \/ \E c \in Controls : Control(c)
         \/ Ask(Closing) \/ CloseGranted
  PROVE  SendWritten(t)'
<1>1. t \in Calls /\ t \in Sends \cup Chunks
  BY CallSets
<1>2. wire' = wire
  BY CallerStep
<1>3. \A n : OnWire(t, n) => OnWire(t, n)'
  BY <1>2 DEF OnWire
<1>4. PICK c \in Calls \ {t} : /\ pc'[t] = pc[t] /\ next'[t] = next[t]
                               /\ frameQueue' = frameQueue \/ Joins(c)
  <2>1. CASE \E x \in Sends \ {t} : Send(x) \/ BlobRead(x) \/ SendGranted(x) \/ SendContinues(x)
    <3>1. PICK x \in Sends \ {t} : Send(x) \/ BlobRead(x) \/ SendGranted(x) \/ SendContinues(x)
      BY <2>1
    <3>2. x \in Calls
      BY CallSets
    <3>3. pc'[t] = pc[t] /\ next'[t] = next[t]
      BY <1>1, <3>1, <3>2 DEF Send, BlobRead, SendGranted, SendContinues, LockMessage, SubmitFragment,
         Submit, UnlockMessage, TypeOK
    <3>4. frameQueue' = frameQueue \/ Joins(x)
      BY <3>1, SubmitJoins DEF Send, BlobRead, SendGranted, SendContinues, LockMessage, SubmitFragment,
         UnlockMessage
    <3> QED
      BY <3>2, <3>3, <3>4
  <2>2. CASE \E s \in Streams : Ask(s) \/ StreamGranted(s) \/ StreamClose(s) \/ StreamFinished(s)
    <3>1. PICK s \in Streams : Ask(s) \/ StreamGranted(s) \/ StreamClose(s) \/ StreamFinished(s)
      BY <2>2
    <3>2. s \in Calls /\ s # t
      BY CallSets, WriterAssumption
    <3>3. pc'[t] = pc[t] /\ next'[t] = next[t]
      BY <1>1, <3>1, <3>2 DEF Ask, LockMessage, StreamGranted, StreamClose, StreamFinished,
         Submit, UnlockMessage, TypeOK
    <3>4. frameQueue' = frameQueue \/ Joins(s)
      BY <3>1, SubmitJoins DEF Ask, LockMessage, StreamGranted, StreamClose, StreamFinished, UnlockMessage
    <3> QED
      BY <3>2, <3>3, <3>4
  <2>3. CASE \E c \in Chunks : StreamData(c) \/ ChunkContinues(c)
    <3>1. PICK c \in Chunks : StreamData(c) \/ ChunkContinues(c)
      BY <2>3
    <3>2. c \in Calls /\ c # t
      BY CallSets, WriterAssumption DEF Messages
    <3>3. pc'[t] = pc[t] /\ next'[t] = next[t]
      BY <1>1, <3>1, <3>2 DEF StreamData, ChunkContinues, SubmitChunk, Submit, TypeOK
    <3>4. frameQueue' = frameQueue \/ Joins(c)
      BY <3>1, SubmitJoins DEF StreamData, ChunkContinues, SubmitChunk
    <3> QED
      BY <3>2, <3>3, <3>4
  <2>4. CASE (\E c \in Controls : Control(c)) \/ Ask(Closing) \/ CloseGranted
    <3>1. PICK c \in Controls \cup {Closing} : Control(c) \/ (c = Closing /\ (Ask(c) \/ CloseGranted))
      BY <2>4
    <3>2. c \in Calls /\ c # t
      BY CallSets, WriterAssumption DEF Messages
    <3>3. pc'[t] = pc[t] /\ next'[t] = next[t]
      BY <1>1, <3>1, <3>2 DEF Control, Ask, LockMessage, CloseGranted, Submit, TypeOK
    <3>4. frameQueue' = frameQueue \/ Joins(c)
      BY <3>1, SubmitJoins DEF Control, Ask, LockMessage, CloseGranted
    <3> QED
      BY <3>2, <3>3, <3>4
  <2> QED
    BY <2>1, <2>2, <2>3, <2>4
<1>5. CASE frameQueue' = frameQueue
  <2>1. \A i \in 1..Len(frameQueue') : frameQueue'[i].call = t =>
            \E j \in 1..Len(frameQueue) : frameQueue'[i] = frameQueue[j]
    BY <1>5
  <2>2. pc'[t] = pc[t] /\ next'[t] = next[t]
    BY <1>4 DEF Joins
  <2> QED
    BY <1>3, <2>1, <2>2, OthersKeepWritten
<1>6. CASE frameQueue' # frameQueue
  <2>2. /\ Len(frameQueue) \in Nat /\ Len(frameQueue') = Len(frameQueue) + 1
        /\ frameQueue'[Len(frameQueue')].call # t
        /\ \A i \in 1..Len(frameQueue) : frameQueue'[i] = frameQueue[i]
    BY <1>4, <1>6 DEF Joins
  <2>4. \A i \in 1..Len(frameQueue') : frameQueue'[i].call = t =>
            \E j \in 1..Len(frameQueue) : frameQueue'[i] = frameQueue[j]
    BY <2>2
  <2>5. pc'[t] = pc[t] /\ next'[t] = next[t]
    BY <1>4
  <2> QED
    BY <1>3, <2>4, <2>5, OthersKeepWritten
<1> QED
  BY <1>5, <1>6

(* Writing a frame does: the last fragment of a send() to be written is    *)
(* the one it waited for.                                                  *)
LEMMA WritingKeepsWritten ==
  ASSUME TypeOK, LockInv, ReportInv, NEW t \in Sends, SendWritten(t), Writable, Writable',
         GrantFrame \/ WriteHead \/ WritePayload \/ Drain \/ End \/ Destroy \/ SocketError
  PROVE  SendWritten(t)'
<1>1. t \in Calls /\ next[t] \in Nat \ {0} /\ writing # "stuck"
  BY CallSets DEF TypeOK, LockInv, FrameLockInv
<1>2. next' = next
  BY WriterStep DEF FrameUnchanged
<1>3. CASE UNCHANGED <<pc, frameQueue>> /\ (wire' = wire \/ (frameQueue # <<>> /\ Puts("head")))
  <2>1. \A n : OnWire(t, n) => OnWire(t, n)'
    BY <1>3, WireGrows DEF OnWire
  <2> QED
    BY <1>2, <1>3, <2>1, OthersKeepWritten
<1>4. CASE frameQueue # <<>> /\ (WritesFrame \/ WritesPayload)
  <2> DEFINE h == frameQueue[1]
  <2>1. /\ Len(frameQueue) \in Nat /\ Len(frameQueue) > 0 /\ Len(frameQueue') = Len(frameQueue) - 1
        /\ \A i \in 1..Len(frameQueue') : frameQueue'[i] = frameQueue[i + 1] /\ i + 1 \in 1..Len(frameQueue)
        /\ Head(frameQueue) = h /\ h.call \in Calls
        /\ pc'[t] = IF t = h.call THEN "sent" ELSE pc[t]
        /\ pc[h.call] \in {"frame", "final"}
    BY <1>1, <1>4, ResumesFirst DEF WritesFrame, WritesPayload
  <2>2. \A n : OnWire(t, n) => OnWire(t, n)'
    BY <1>4, WireGrows DEF WritesFrame, WritesPayload
  <2>3. CASE t # h.call
    BY <1>2, <2>1, <2>2, <2>3, OthersKeepWritten
  <2>4. CASE t = h.call
    <3>1. pc[t] \in {"frame", "final"} /\ pc'[t] = "sent"
      BY <2>1, <2>4
    <3>2. pc[t] = "frame"
      BY <3>1 DEF SendWritten
    <3>3. /\ \A n \in 1..(next[t] - 2) : OnWire(t, n)
          /\ h.msg = t /\ h.n = next[t] - 1 /\ h.payload /\ next[t] > 1
      BY <2>1, <2>4, <3>2 DEF SendWritten
    <3>4. Puts("payload")
      BY <1>4, <2>1, <3>3 DEF WritesFrame, WritesPayload
    <3>5. OnWire(t, next[t] - 1)'
      <4>1. Len(wire) \in Nat /\ Len(wire') = Len(wire) + 1 /\ wire'[Len(wire')] = [frame |-> h, part |-> "payload"]
        BY <1>4, <2>1, <3>4, PutsLast
      <4>2. Len(wire') \in 1..Len(wire')
        BY <4>1
      <4> QED
        BY <1>2, <3>3, <4>1, <4>2 DEF OnWire
    <3>6. \A n \in 1..(next[t] - 1) : n \in 1..(next[t] - 2) \/ n = next[t] - 1
      BY <1>1
    <3>7. \A n \in 1..(next'[t] - 1) : OnWire(t, n)'
      BY <1>2, <2>2, <3>3, <3>5, <3>6
    <3> QED
      BY <1>2, <3>1, <3>3, <3>7 DEF SendWritten
  <2> QED
    BY <2>3, <2>4
<1> QED
  BY <1>3, <1>4, WriterStep DEF WritesNothing, WritesHead

(* Every step keeps the account of what is written. *)
LEMMA WrittenStep == TypeOK /\ LockInv /\ ReportInv /\ WrittenInv /\ [Next]_vars => WrittenInv'
<1> SUFFICES ASSUME TypeOK, LockInv, ReportInv, WrittenInv, [Next]_vars, Writable', NEW t \in Sends
             PROVE  SendWritten(t)'
  BY DEF WrittenInv
<1>1. Writable /\ SendWritten(t)
  BY NeverReopens DEF WrittenInv
<1>2. CASE UNCHANGED vars
  BY <1>1, <1>2 DEF vars, socket, SendWritten, OnWire
<1>3. CASE Send(t) \/ BlobRead(t) \/ SendGranted(t) \/ SendContinues(t)
  BY <1>1, <1>3, SendKeepsWritten
<1>4. CASE \/ \E x \in Sends \ {t} : Send(x) \/ BlobRead(x) \/ SendGranted(x) \/ SendContinues(x)
           \/ \E s \in Streams : Ask(s) \/ StreamGranted(s) \/ StreamClose(s) \/ StreamFinished(s)
           \/ \E c \in Chunks : StreamData(c) \/ ChunkContinues(c)
           \/ \E c \in Controls : Control(c)
           \/ Ask(Closing) \/ CloseGranted
  BY <1>1, <1>4, CallerKeepsWritten
<1>5. CASE GrantFrame \/ WriteHead \/ WritePayload \/ Drain \/ End \/ Destroy \/ SocketError
  BY <1>1, <1>5, WritingKeepsWritten
<1> QED
  BY <1>2, <1>3, <1>4, <1>5 DEF Next

(* A send() that is over has written each of its fragments, if the socket  *)
(* is still open: no failed frame makes it return early.                   *)
THEOREM DoneSendsAreWritten == Spec => []DoneMeansWritten
<1>1. Init => TypeOK /\ LockInv
  BY InitLocks
<1>2. Init => ReportInv /\ WrittenInv
  <2>1. Init => ReportInv
    BY DEF Init, ReportInv
  <2>2. Init => WrittenInv
    BY CallSets DEF Init, WrittenInv, SendWritten
  <2> QED
    BY <2>1, <2>2
<1>3. TypeOK /\ LockInv /\ [Next]_vars => TypeOK' /\ LockInv'
  BY TypeStep, LockStep DEF LockInv
<1>4. TypeOK /\ WrittenInv => DoneMeansWritten
  <2> SUFFICES ASSUME TypeOK, WrittenInv, NEW t \in Sends, pc[t] = "done", Writable PROVE Written(t)
    BY DEF DoneMeansWritten
  <2>1. DOMAIN wire = 1..Len(wire)
    BY DEF TypeOK
  <2>2. \A n \in 1..Fragments[t] : OnWire(t, n)
    BY DEF WrittenInv, SendWritten
  <2> QED
    BY <2>1, <2>2 DEF Written, OnWire
<1> QED
  BY <1>1, <1>2, <1>3, <1>4, ReportStep, WrittenStep, PTL DEF Spec

-----------------------------------------------------------------------------
(* Where a call may go from where it is. *)
Moves(c, p) ==
  /\ pc' = [pc EXCEPT ![c] = p]
  /\ \/ pc[c] = "idle" /\ p = "blob" /\ c \in Blobs
     \/ pc[c] = "idle" /\ p = "msgWait" /\ c \in Holding
     \/ pc[c] = "idle" /\ p = "frame" /\ c \in Chunks \cup Controls
     \/ pc[c] = "blob" /\ p = "msgWait"
     \/ pc[c] = "msgWait" /\ p \in {"frame", "done", "streaming", "rejected", "failed"}
     \/ pc[c] = "streaming" /\ p = "final"
     \/ pc[c] \in {"frame", "final"} /\ p \in {"sent", "failed"}
     \/ pc[c] \in {"sent", "failed"} /\ p \in {"frame", "done"} /\ c # Closing

(* A step moves at most one call, along one of these edges. *)
LEMMA OneMoves ==
  ASSUME TypeOK, LockInv, [Next]_vars
  PROVE  pc' = pc \/ \E c \in Calls : \E p \in Pcs : Moves(c, p)
<1>1. CASE pc' = pc
  BY <1>1
<1>2. ASSUME NEW t \in Sends, Send(t) \/ BlobRead(t) \/ SendGranted(t) \/ SendContinues(t)
      PROVE  \E p \in Pcs : Moves(t, p)
  BY <1>2, CallSets, WriterAssumption DEF Send, BlobRead, SendGranted, SendContinues, SubmitFragment,
     Submit, UnlockMessage, Moves, Pcs, Holding
<1>3. ASSUME NEW s \in Streams, Ask(s) \/ StreamGranted(s) \/ StreamClose(s) \/ StreamFinished(s)
      PROVE  \E p \in Pcs : Moves(s, p)
  BY <1>3, CallSets, WriterAssumption DEF Ask, StreamGranted, StreamClose, StreamFinished, Submit,
     UnlockMessage, Moves, Pcs, Holding
<1>4. ASSUME NEW c \in Chunks, StreamData(c) \/ ChunkContinues(c)
      PROVE  \E p \in Pcs : Moves(c, p)
  BY <1>4, CallSets, WriterAssumption DEF StreamData, ChunkContinues, SubmitChunk, Submit, Moves, Pcs
<1>5. ASSUME NEW c \in Controls, Control(c)
      PROVE  \E p \in Pcs : Moves(c, p)
  BY <1>5 DEF Control, Submit, Moves, Pcs
<1>6. ASSUME Ask(Closing) \/ CloseGranted
      PROVE  \E p \in Pcs : Moves(Closing, p)
  BY <1>6 DEF Ask, CloseGranted, Submit, Moves, Pcs, Holding
<1>7. ASSUME GrantFrame \/ WriteHead \/ WritePayload \/ SocketError, pc' # pc
      PROVE  \E c \in Calls : \E p \in Pcs : Moves(c, p)
  <2>1. writing # "stuck" /\ frameQueue # <<>>
    BY <1>7 DEF GrantFrame, WriteHead, WritePayload, SocketError, LockInv, FrameLockInv
  <2>2. 1 \in 1..Len(frameQueue) /\ Head(frameQueue) = frameQueue[1] /\ frameQueue[1] \in Frames
    BY <2>1 DEF TypeOK
  <2>3. frameQueue[1].call \in Calls
    BY <2>2 DEF Frames
  <2>4. pc[frameQueue[1].call] \in {"frame", "final"}
    BY <2>1, <2>2 DEF LockInv, FrameLockInv
  <2>5. \E p \in {"sent", "failed"} : pc' = [pc EXCEPT ![frameQueue[1].call] = p]
    BY <1>7, <2>2 DEF GrantFrame, WriteHead, WritePayload, SocketError, UnlockFrame, Result
  <2> DEFINE c == frameQueue[1].call
  <2> HIDE DEF c
  <2>6. c \in Calls /\ pc[c] \in {"frame", "final"} /\ \E p \in {"sent", "failed"} : pc' = [pc EXCEPT ![c] = p]
    BY <2>3, <2>4, <2>5 DEF c
  <2> QED
    BY <2>6 DEF Moves, Pcs
<1> QED
  <2>1. ASSUME Drain \/ End \/ Destroy \/ UNCHANGED vars PROVE pc' = pc
    BY <2>1 DEF Drain, End, Destroy, vars
  <2> QED
    BY <1>1, <1>2, <1>3, <1>4, <1>5, <1>6, <1>7, <2>1, CallSets DEF Next

(* What a step does to a call of its own. *)
LEMMA MovesOn ==
  ASSUME TypeOK, LockInv, [Next]_vars
  PROVE  /\ \A m \in Calls : pc[m] # "idle" => pc'[m] # "idle"
         /\ \A t \in Sends : pc'[t] = "blob" => pc[t] = "blob" \/ t \in Blobs
         /\ Closed => Closed'
<1>1. CASE pc' = pc
  BY <1>1, CallSets DEF Closed
<1>2. CASE \E c \in Calls : \E p \in Pcs : Moves(c, p)
  <2>1. PICK c \in Calls, p \in Pcs : Moves(c, p)
    BY <1>2
  <2>2. \A x \in Calls : pc'[x] = IF x = c THEN p ELSE pc[x]
    BY <2>1 DEF Moves, TypeOK
  <2>3. \A m \in Calls : pc[m] # "idle" => pc'[m] # "idle"
    BY <2>1, <2>2 DEF Moves
  <2>4. \A t \in Sends : pc'[t] = "blob" => pc[t] = "blob" \/ t \in Blobs
    BY <2>1, <2>2, CallSets DEF Moves
  <2>5. Closed => Closed'
    BY <2>1, <2>2, CallSets DEF Moves, Closed
  <2> QED
    BY <2>3, <2>4, <2>5
<1> QED
  BY <1>1, <1>2, OneMoves

-----------------------------------------------------------------------------
Asked(m) == \E i \in 1..Len(asked) : asked[i] = m

(* Message m was asked for before message k. *)
Before(m, k) == \E i, j \in 1..Len(asked) : i < j /\ asked[i] = m /\ asked[j] = k

(* Message m is before message k in the queue of #msgMutex. *)
Precedes(m, k) == \E i, j \in 1..Len(msgQueue) : i < j /\ msgQueue[i] = m /\ msgQueue[j] = k

(* Whoever was called is in asked once, and what waits for #msgMutex is,   *)
(* Blobs aside, in the order of the calls.                                 *)
AskedInv ==
  /\ \A i, j \in 1..Len(asked) : asked[i] = asked[j] => i = j
  /\ \A m \in Holding : pc[m] # "idle" <=> Asked(m)
  /\ \A t \in Sends : pc[t] = "blob" => t \in Blobs
  /\ \A m, k : m \notin Blobs /\ k \notin Blobs /\ Precedes(m, k) => Before(m, k)

(* A call that is made goes to the end of asked. *)
LEMMA AskedGrows ==
  ASSUME TypeOK, NEW m \in Holding, asked' = Append(asked, m)
  PROVE  /\ Len(asked) \in Nat /\ Len(asked') = Len(asked) + 1
         /\ asked'[Len(asked')] = m
         /\ \A i \in 1..Len(asked) : asked'[i] = asked[i] /\ i \in 1..Len(asked')
         /\ \A k : Asked(k)' <=> Asked(k) \/ k = m
         /\ \A k, l : Before(k, l) => Before(k, l)'
         /\ \A k : Asked(k) => Before(k, m)'
<1>1. asked \in Seq(Holding)
  BY DEF TypeOK, Holding
<1>2. /\ Len(asked) \in Nat /\ Len(asked') = Len(asked) + 1
      /\ asked'[Len(asked')] = m
      /\ \A i \in 1..Len(asked) : asked'[i] = asked[i] /\ i \in 1..Len(asked')
  BY <1>1
<1>3. Len(asked') \in 1..Len(asked') /\ \A i \in 1..Len(asked') : i \in 1..Len(asked) \/ i = Len(asked')
  BY <1>2
<1>4. \A k : Asked(k)' <=> Asked(k) \/ k = m
  BY <1>2, <1>3 DEF Asked
<1>5. \A k, l : Before(k, l) => Before(k, l)'
  BY <1>2 DEF Before
<1>6. \A k : Asked(k) => Before(k, m)'
  <2> SUFFICES ASSUME NEW k, Asked(k) PROVE Before(k, m)'
    OBVIOUS
  <2>1. PICK i \in 1..Len(asked) : asked[i] = k
    BY DEF Asked
  <2>2. i < Len(asked')
    BY <1>2
  <2> QED
    BY <1>2, <1>3, <2>1, <2>2 DEF Before
<1> QED
  BY <1>2, <1>4, <1>5, <1>6

(* The queue of #msgMutex and the history of the calls change in one of    *)
(* three ways: a call is made, a Blob that was read joins the queue, or    *)
(* the queue keeps its order.                                              *)
Calling(m) ==
  /\ pc[m] = "idle" /\ pc'[m] # "idle" /\ asked' = Append(asked, m)
  /\ msgQueue' = msgQueue \/ msgQueue' = Append(msgQueue, m)
  /\ \A k \in Holding : k # m => pc'[k] = pc[k]

BlobJoins(t) == pc[t] = "blob" /\ msgQueue' = Append(msgQueue, t)

QueueStays == msgQueue' = msgQueue \/ (msgQueue # <<>> /\ msgQueue' = Tail(msgQueue))

(* What a step does to the calls that were made and to the queue. *)
LEMMA AskedShape ==
  ASSUME TypeOK, LockInv, [Next]_vars
  PROVE  \/ \E m \in Holding : Calling(m)
         \/ /\ asked' = asked /\ \A k \in Holding : pc'[k] # "idle" => pc[k] # "idle"
            /\ QueueStays \/ \E t \in Sends : BlobJoins(t)
<1>1. \A h \in Holding : h \in Calls
  BY CallSets DEF Holding, Messages
<1>2. ASSUME asked' = asked, pc' = pc, msgQueue' = msgQueue
      PROVE  asked' = asked /\ QueueStays /\ \A k \in Holding : pc'[k] # "idle" => pc[k] # "idle"
  BY <1>2 DEF QueueStays
<1>3. ASSUME NEW c \in Calls, NEW p, pc' = [pc EXCEPT ![c] = p], pc[c] # "idle" \/ c \notin Holding
      PROVE  \A k \in Holding : pc'[k] # "idle" => pc[k] # "idle"
  BY <1>1, <1>3 DEF TypeOK
<1>4. ASSUME NEW m \in Holding, NEW p, pc' = [pc EXCEPT ![m] = p], p # "idle", pc[m] = "idle",
             asked' = Append(asked, m), msgQueue' = msgQueue \/ msgQueue' = Append(msgQueue, m)
      PROVE  Calling(m)
  BY <1>1, <1>4 DEF TypeOK, Calling
<1>5. ASSUME NEW m \in Holding, pc[m] \notin {"idle", "blob", "done", "msgWait"} \/ HoldsMessageLock(m)
      PROVE  msgQueue # <<>>
  BY <1>5, PastLockHolds DEF LockInv, Active, HoldsMessageLock
<1>6. ASSUME NEW t \in Sends, Send(t) \/ BlobRead(t) \/ SendGranted(t) \/ SendContinues(t)
      PROVE  \/ Calling(t)
             \/ /\ asked' = asked /\ \A k \in Holding : pc'[k] # "idle" => pc[k] # "idle"
                /\ QueueStays \/ BlobJoins(t)
  <2>1. t \in Holding /\ t \in Calls
    BY CallSets DEF Holding
  <2>2. CASE Send(t)
    BY <1>4, <2>1, <2>2 DEF Send, LockMessage
  <2>3. CASE BlobRead(t)
    BY <1>3, <2>1, <2>3 DEF BlobRead, LockMessage, BlobJoins
  <2>4. CASE SendGranted(t) \/ SendContinues(t)
    <3>1. pc[t] # "idle" /\ msgQueue # <<>>
      BY <1>5, <2>1, <2>4 DEF SendGranted, SendContinues
    <3>2. asked' = asked /\ msgQueue' \in {msgQueue, Tail(msgQueue)} /\ \E p : pc' = [pc EXCEPT ![t] = p]
      BY <2>4 DEF SendGranted, SendContinues, SubmitFragment, Submit, UnlockMessage
    <3> QED
      BY <1>3, <2>1, <3>1, <3>2 DEF QueueStays
  <2> QED
    BY <1>6, <2>2, <2>3, <2>4
<1>7. ASSUME NEW s \in Streams, Ask(s) \/ StreamGranted(s) \/ StreamClose(s) \/ StreamFinished(s)
      PROVE  \/ Calling(s)
             \/ asked' = asked /\ QueueStays /\ \A k \in Holding : pc'[k] # "idle" => pc[k] # "idle"
  <2>1. s \in Holding /\ s \in Calls
    BY CallSets DEF Holding
  <2>2. CASE Ask(s)
    BY <1>4, <2>1, <2>2 DEF Ask, LockMessage
  <2>3. CASE StreamGranted(s) \/ StreamClose(s) \/ StreamFinished(s)
    <3>1. pc[s] # "idle" /\ msgQueue # <<>>
      BY <1>5, <2>1, <2>3 DEF StreamGranted, StreamClose, StreamFinished
    <3>2. asked' = asked /\ msgQueue' \in {msgQueue, Tail(msgQueue)} /\ \E p : pc' = [pc EXCEPT ![s] = p]
      BY <2>3 DEF StreamGranted, StreamClose, StreamFinished, Submit, UnlockMessage
    <3> QED
      BY <1>3, <2>1, <3>1, <3>2 DEF QueueStays
  <2> QED
    BY <1>7, <2>2, <2>3
<1>8. ASSUME NEW c \in Chunks \cup Controls, StreamData(c) \/ ChunkContinues(c) \/ Control(c)
      PROVE  asked' = asked /\ QueueStays /\ \A k \in Holding : pc'[k] # "idle" => pc[k] # "idle"
  <2>1. c \notin Holding /\ c \in Calls
    BY CallSets, WriterAssumption DEF Holding
  <2>2. asked' = asked /\ msgQueue' = msgQueue /\ \E p : pc' = [pc EXCEPT ![c] = p]
    BY <1>8 DEF StreamData, ChunkContinues, Control, SubmitChunk, Submit
  <2> QED
    BY <1>3, <2>1, <2>2 DEF QueueStays
<1>9. ASSUME Ask(Closing) \/ CloseGranted
      PROVE  \/ Calling(Closing)
             \/ asked' = asked /\ QueueStays /\ \A k \in Holding : pc'[k] # "idle" => pc[k] # "idle"
  <2>1. Closing \in Holding /\ Closing \in Calls
    BY CallSets DEF Holding
  <2>2. CASE Ask(Closing)
    BY <1>4, <2>1, <2>2 DEF Ask, LockMessage
  <2>3. CASE CloseGranted
    <3>1. pc[Closing] # "idle" /\ asked' = asked /\ msgQueue' = msgQueue
          /\ \E p : pc' = [pc EXCEPT ![Closing] = p]
      BY <2>3 DEF CloseGranted, Submit
    <3> QED
      BY <1>3, <2>1, <3>1 DEF QueueStays
  <2> QED
    BY <1>9, <2>2, <2>3
<1>10. ASSUME GrantFrame \/ WriteHead \/ WritePayload \/ Drain \/ End \/ Destroy \/ SocketError
       PROVE  asked' = asked /\ QueueStays /\ \A k \in Holding : pc'[k] # "idle" => pc[k] # "idle"
  <2>1. asked' = asked /\ msgQueue' = msgQueue
    BY <1>10 DEF GrantFrame, WriteHead, WritePayload, Drain, End, Destroy, SocketError, FrameUnchanged
  <2>2. CASE pc' = pc
    BY <2>1, <2>2 DEF QueueStays
  <2>3. CASE pc' # pc
    <3>1. writing # "stuck" /\ frameQueue # <<>>
      BY <1>10, <2>3 DEF GrantFrame, WriteHead, WritePayload, SocketError, Drain, End, Destroy,
         LockInv, FrameLockInv
    <3>2. 1 \in 1..Len(frameQueue) /\ Head(frameQueue) = frameQueue[1] /\ frameQueue[1] \in Frames
      BY <3>1 DEF TypeOK
    <3>3. frameQueue[1].call \in Calls
      BY <3>2 DEF Frames
    <3>4. pc[frameQueue[1].call] # "idle"
      BY <3>1, <3>2 DEF LockInv, FrameLockInv
    <3>5. \E p : pc' = [pc EXCEPT ![frameQueue[1].call] = p]
      BY <1>10, <2>3, <3>2 DEF GrantFrame, WriteHead, WritePayload, SocketError, Drain, End, Destroy,
         UnlockFrame
    <3> QED
      BY <1>3, <2>1, <3>3, <3>4, <3>5 DEF QueueStays
  <2> QED
    BY <2>2, <2>3
<1> QED
  <2>1. \A x \in Sends \cup Streams \cup {Closing} : x \in Holding
    BY CallSets DEF Holding
  <2>2. CASE UNCHANGED vars
    BY <1>2, <2>2 DEF vars
  <2> QED
    BY <1>6, <1>7, <1>8, <1>9, <1>10, <2>1, <2>2 DEF Next

(* What is in the queue of #msgMutex was asked for. *)
LEMMA QueuedAsked ==
  ASSUME TypeOK, LockInv, AskedInv, NEW i \in 1..Len(msgQueue)
  PROVE  msgQueue[i] \in Holding /\ Active(msgQueue[i]) /\ Asked(msgQueue[i])
<1>1. msgQueue[i] \in Holding
  BY DEF TypeOK, Holding
<1>2. Active(msgQueue[i])
  BY <1>1 DEF LockInv, MessageLockInv, Queued
<1> QED
  BY <1>1, <1>2 DEF AskedInv, Active

(* Every step keeps the order of the queue. *)
LEMMA AskedStep == TypeOK /\ LockInv /\ AskedInv /\ [Next]_vars => AskedInv'
<1> SUFFICES ASSUME TypeOK, LockInv, AskedInv, [Next]_vars PROVE AskedInv'
  OBVIOUS
<1>1. \A h \in Holding : h \in Calls
  BY CallSets DEF Holding, Messages
<1>2. \A m \in Holding : pc[m] # "idle" => pc'[m] # "idle"
  BY <1>1, MovesOn
<1>3. \A t \in Sends : pc'[t] = "blob" => t \in Blobs
  BY MovesOn DEF AskedInv
<1>4. ASSUME QueueStays, NEW k, NEW l, Precedes(k, l)' PROVE Precedes(k, l)
  <2>1. PICK i \in 1..Len(msgQueue'), j \in 1..Len(msgQueue') :
          i < j /\ msgQueue'[i] = k /\ msgQueue'[j] = l
    BY <1>4 DEF Precedes
  <2>2. CASE msgQueue' = msgQueue
    BY <2>1, <2>2 DEF Precedes
  <2>3. CASE msgQueue # <<>> /\ msgQueue' = Tail(msgQueue)
    <3>1. \A x \in 1..Len(msgQueue') : msgQueue'[x] = msgQueue[x + 1] /\ x + 1 \in 1..Len(msgQueue)
      BY <2>3 DEF TypeOK
    <3>2. i + 1 < j + 1
      BY <2>1
    <3> QED
      BY <2>1, <3>1, <3>2 DEF Precedes
  <2> QED
    BY <1>4, <2>2, <2>3 DEF QueueStays
<1>5. ASSUME NEW m \in Holding, msgQueue' = Append(msgQueue, m), NEW k, NEW l, Precedes(k, l)'
      PROVE  Precedes(k, l) \/ (l = m /\ Asked(k))
  <2>1. /\ Len(msgQueue) \in Nat /\ Len(msgQueue') = Len(msgQueue) + 1
        /\ msgQueue'[Len(msgQueue')] = m
        /\ \A i \in 1..Len(msgQueue) : msgQueue'[i] = msgQueue[i]
    BY <1>5 DEF TypeOK, Holding
  <2>2. PICK i \in 1..Len(msgQueue'), j \in 1..Len(msgQueue') :
          i < j /\ msgQueue'[i] = k /\ msgQueue'[j] = l
    BY <1>5 DEF Precedes
  <2>3. i \in 1..Len(msgQueue) /\ msgQueue'[i] = msgQueue[i]
    BY <2>1, <2>2
  <2>4. CASE j = Len(msgQueue')
    BY <2>1, <2>2, <2>3, <2>4, QueuedAsked
  <2>5. CASE j # Len(msgQueue')
    <3>1. j \in 1..Len(msgQueue) /\ msgQueue'[j] = msgQueue[j]
      BY <2>1, <2>5
    <3> QED
      BY <2>2, <2>3, <3>1 DEF Precedes
  <2> QED
    BY <2>4, <2>5
<1>6. CASE \E m \in Holding : Calling(m)
  <2>1. PICK m \in Holding : Calling(m)
    BY <1>6
  <2>2. /\ Len(asked) \in Nat /\ Len(asked') = Len(asked) + 1
        /\ asked'[Len(asked')] = m
        /\ \A i \in 1..Len(asked) : asked'[i] = asked[i] /\ i \in 1..Len(asked')
        /\ \A k : Asked(k)' <=> Asked(k) \/ k = m
        /\ \A k, l : Before(k, l) => Before(k, l)'
        /\ \A k : Asked(k) => Before(k, m)'
    BY <2>1, AskedGrows DEF Calling
  <2>3. ~Asked(m)
    BY <2>1 DEF Calling, AskedInv
  <2>4. \A i, j \in 1..Len(asked') : asked'[i] = asked'[j] => i = j
    <3>1. \A i \in 1..Len(asked') : i \in 1..Len(asked) \/ i = Len(asked')
      BY <2>2
    <3>2. \A i \in 1..Len(asked) : asked'[i] # m
      BY <2>2, <2>3 DEF Asked
    <3> QED
      BY <2>2, <3>1, <3>2 DEF AskedInv
  <2>5. \A k \in Holding : pc'[k] # "idle" <=> Asked(k)'
    BY <2>1, <2>2 DEF Calling, AskedInv
  <2>6. \A k, l : k \notin Blobs /\ l \notin Blobs /\ Precedes(k, l)' => Before(k, l)'
    BY <1>4, <1>5, <2>1, <2>2 DEF Calling, QueueStays, AskedInv
  <2> QED
    BY <1>3, <2>4, <2>5, <2>6 DEF AskedInv
<1>7. CASE /\ asked' = asked /\ \A k \in Holding : pc'[k] # "idle" => pc[k] # "idle"
           /\ QueueStays \/ \E t \in Sends : BlobJoins(t)
  <2>1. (\A k : Asked(k)' <=> Asked(k)) /\ \A k, l : Before(k, l) => Before(k, l)'
    BY <1>7 DEF Asked, Before
  <2>2. \A k, l : k \notin Blobs /\ l \notin Blobs /\ Precedes(k, l)' => Before(k, l)'
    <3>1. CASE QueueStays
      BY <1>4, <2>1, <3>1 DEF AskedInv
    <3>2. CASE \E t \in Sends : BlobJoins(t)
      <4>1. PICK t \in Sends : BlobJoins(t)
        BY <3>2
      <4>2. t \in Blobs /\ t \in Holding /\ msgQueue' = Append(msgQueue, t)
        BY <4>1, CallSets DEF BlobJoins, AskedInv, Holding
      <4> QED
        BY <1>5, <2>1, <4>2 DEF AskedInv
    <3> QED
      BY <1>7, <3>1, <3>2
  <2>3. \A k \in Holding : pc'[k] # "idle" <=> Asked(k)'
    BY <1>2, <1>7, <2>1 DEF AskedInv
  <2>4. \A i, j \in 1..Len(asked') : asked'[i] = asked'[j] => i = j
    BY <1>7 DEF AskedInv
  <2> QED
    BY <1>3, <2>2, <2>3, <2>4 DEF AskedInv
<1> QED
  BY <1>6, <1>7, AskedShape

-----------------------------------------------------------------------------
(* Whose first frame was submitted, by the counts each call keeps. *)
CountInv ==
  /\ \A t \in Sends : pc[t] \in {"idle", "blob", "msgWait"} => next[t] = 1
  /\ \A t \in Sends : pc[t] \in {"frame", "sent", "failed"} => next[t] > 1
  /\ \A t \in Sends : pc[t] # "final"
  /\ \A s \in Streams : pc[s] \in {"idle", "msgWait"} => frameNum[s] = 0
  /\ \A c \in Chunks : pc[c] # "idle" => frameNum[Of[c]] > 0

Opened(m) ==
  \/ m \in Sends /\ next[m] > 1
  \/ m \in Streams /\ frameNum[m] > 0
  \/ m = Closing /\ Closed

(* A step that does not count moves a call past its first frame only after *)
(* that frame was counted.                                                 *)
LEMMA UncountedMove ==
  ASSUME TypeOK, CountInv, UNCHANGED <<next, frameNum>>, NEW c \in Calls, NEW p,
         pc' = [pc EXCEPT ![c] = p],
         c \in Sends => \/ p \in {"blob", "msgWait"} /\ pc[c] \in {"idle", "blob"}
                        \/ p \in {"sent", "failed"} /\ pc[c] \in {"frame", "final"}
                        \/ p = "done",
         c \in Streams => p \notin {"idle", "msgWait"} \/ pc[c] = "idle",
         c \in Chunks => pc[c] # "idle"
  PROVE  CountInv'
<1>1. \A x \in Calls : pc'[x] = IF x = c THEN p ELSE pc[x]
  BY DEF TypeOK
<1>2. /\ \A t \in Sends : pc'[t] \in {"idle", "blob", "msgWait"} => next[t] = 1
      /\ \A t \in Sends : pc'[t] \in {"frame", "sent", "failed"} => next[t] > 1
      /\ \A t \in Sends : pc'[t] # "final"
  BY <1>1, CallSets DEF CountInv
<1>3. \A s \in Streams : pc'[s] \in {"idle", "msgWait"} => frameNum[s] = 0
  BY <1>1, CallSets DEF CountInv
<1>4. \A d \in Chunks : pc'[d] # "idle" => frameNum[Of[d]] > 0
  BY <1>1, CallSets DEF CountInv
<1> QED
  BY <1>2, <1>3, <1>4 DEF CountInv

(* What writing and the socket do to the calls. *)
LEMMA AnsweredCall ==
  ASSUME TypeOK, LockInv, pc' # pc,
         GrantFrame \/ WriteHead \/ WritePayload \/ Drain \/ End \/ Destroy \/ SocketError
  PROVE  \E c \in Calls : \E p \in {"sent", "failed"} :
           pc[c] \in {"frame", "final"} /\ pc' = [pc EXCEPT ![c] = p]
<1>1. writing # "stuck" /\ frameQueue # <<>>
  BY DEF GrantFrame, WriteHead, WritePayload, SocketError, Drain, End, Destroy, LockInv, FrameLockInv
<1>2. 1 \in 1..Len(frameQueue) /\ Head(frameQueue) = frameQueue[1] /\ frameQueue[1] \in Frames
  BY <1>1 DEF TypeOK
<1>3. frameQueue[1].call \in Calls
  BY <1>2 DEF Frames
<1>4. pc[frameQueue[1].call] \in {"frame", "final"}
  BY <1>1, <1>2 DEF LockInv, FrameLockInv
<1>5. \E p \in {"sent", "failed"} : pc' = [pc EXCEPT ![frameQueue[1].call] = p]
  BY <1>2 DEF GrantFrame, WriteHead, WritePayload, SocketError, Drain, End, Destroy, UnlockFrame, Result
<1> QED
  BY <1>3, <1>4, <1>5

(* Every step keeps the counts. *)
LEMMA CountStep == TypeOK /\ LockInv /\ CountInv /\ [Next]_vars => CountInv'
<1> SUFFICES ASSUME TypeOK, LockInv, CountInv, [Next]_vars PROVE CountInv'
  OBVIOUS
<1>1. CASE UNCHANGED <<pc, next, frameNum>>
  BY <1>1 DEF CountInv
<1>2. ASSUME NEW t \in Sends, Send(t) \/ BlobRead(t) \/ SendGranted(t) \/ SendContinues(t)
      PROVE  CountInv'
  <2>1. t \in Calls /\ t \in Sends \cup Chunks /\ t \notin Streams /\ t \notin Chunks
    BY CallSets, WriterAssumption DEF Messages
  <2>2. CASE Send(t) \/ BlobRead(t)
    <3>1. /\ UNCHANGED <<next, frameNum>> /\ pc[t] \in {"idle", "blob"}
          /\ \E p \in {"blob", "msgWait"} : pc' = [pc EXCEPT ![t] = p]
      BY <2>2 DEF Send, BlobRead, LockMessage
    <3> QED
      BY <2>1, <3>1, UncountedMove
  <2>3. CASE SubmitFragment(t)
    <3>1. \A x \in Calls : pc'[x] = IF x = t THEN "frame" ELSE pc[x]
      BY <2>1, <2>3 DEF SubmitFragment, Submit, TypeOK
    <3>2. frameNum' = frameNum /\ \A x \in Sends : next'[x] = IF x = t THEN next[t] + 1 ELSE next[x]
      BY <2>1, <2>3 DEF SubmitFragment, TypeOK
    <3>3. next[t] + 1 > 1
      BY <2>1 DEF TypeOK
    <3> QED
      BY <2>1, <3>1, <3>2, <3>3, CallSets DEF CountInv
  <2>4. CASE ~SubmitFragment(t) /\ (SendGranted(t) \/ SendContinues(t))
    <3>1. UNCHANGED <<next, frameNum>> /\ pc' = [pc EXCEPT ![t] = "done"]
      BY <2>4 DEF SendGranted, SendContinues, UnlockMessage
    <3> QED
      BY <2>1, <3>1, UncountedMove
  <2> QED
    BY <1>2, <2>2, <2>3, <2>4
<1>3. ASSUME NEW s \in Streams, Ask(s) \/ StreamGranted(s) \/ StreamClose(s) \/ StreamFinished(s)
      PROVE  CountInv'
  <2>1. s \in Calls /\ s \notin Sends /\ s \notin Chunks
    BY CallSets, WriterAssumption DEF Messages
  <2>2. UNCHANGED <<next, frameNum>> /\ \E p \in {"msgWait", "streaming", "done", "final"} :
          pc' = [pc EXCEPT ![s] = p] /\ (p = "msgWait" => pc[s] = "idle")
    BY <1>3 DEF Ask, LockMessage, StreamGranted, StreamClose, StreamFinished, Submit, UnlockMessage
  <2> QED
    BY <2>1, <2>2, UncountedMove
<1>4. ASSUME NEW c \in Chunks, StreamData(c) \/ ChunkContinues(c)
      PROVE  CountInv'
  <2>1. c \in Calls /\ c \notin Sends /\ c \notin Streams /\ Of[c] \in Streams /\ Of[c] \in Calls
    BY CallSets, WriterAssumption DEF Messages
  <2>2. CASE SubmitChunk(c)
    <3>1. \A x \in Calls : pc'[x] = IF x = c THEN "frame" ELSE pc[x]
      BY <2>1, <2>2 DEF SubmitChunk, Submit, TypeOK
    <3>2. /\ \A x \in Sends : next'[x] = next[x]
          /\ \A x \in Streams : frameNum'[x] = IF x = Of[c] THEN frameNum[x] + 1 ELSE frameNum[x]
          /\ \A x \in Streams : frameNum[x] \in Nat
      BY <2>1, <2>2 DEF SubmitChunk, TypeOK
    <3>3. pc[Of[c]] \notin {"idle", "msgWait"}
      BY <1>4, <2>1 DEF StreamData, ChunkContinues, CountInv
    <3>4. /\ \A t \in Sends : pc'[t] \in {"idle", "blob", "msgWait"} => next'[t] = 1
          /\ \A t \in Sends : pc'[t] \in {"frame", "sent", "failed"} => next'[t] > 1
          /\ \A t \in Sends : pc'[t] # "final"
      BY <2>1, <3>1, <3>2, CallSets DEF CountInv
    <3>5. \A s \in Streams : pc'[s] \in {"idle", "msgWait"} => frameNum'[s] = 0
      BY <2>1, <3>1, <3>2, <3>3, CallSets DEF CountInv
    <3>6. \A d \in Chunks : pc'[d] # "idle" => frameNum'[Of[d]] > 0
      BY <2>1, <3>1, <3>2, CallSets DEF CountInv
    <3> QED
      BY <3>4, <3>5, <3>6 DEF CountInv
  <2>3. CASE ~SubmitChunk(c)
    <3>1. UNCHANGED <<next, frameNum>> /\ pc' = [pc EXCEPT ![c] = "done"] /\ pc[c] # "idle"
      BY <1>4, <2>3 DEF StreamData, ChunkContinues
    <3> QED
      BY <2>1, <3>1, UncountedMove
  <2> QED
    BY <2>2, <2>3
<1>5. CASE (\E c \in Controls : Control(c)) \/ Ask(Closing) \/ CloseGranted
  <2>1. PICK c \in Controls \cup {Closing} : Control(c) \/ (c = Closing /\ (Ask(c) \/ CloseGranted))
    BY <1>5
  <2>2. c \in Calls /\ c \notin Sends /\ c \notin Streams /\ c \notin Chunks
    BY CallSets, WriterAssumption DEF Messages
  <2>3. UNCHANGED <<next, frameNum>> /\ \E p : pc' = [pc EXCEPT ![c] = p]
    BY <2>1 DEF Control, Ask, LockMessage, CloseGranted, Submit
  <2> QED
    BY <2>2, <2>3, UncountedMove
<1>6. CASE GrantFrame \/ WriteHead \/ WritePayload \/ Drain \/ End \/ Destroy \/ SocketError
  <2>1. UNCHANGED <<next, frameNum>>
    BY <1>6 DEF GrantFrame, WriteHead, WritePayload, Drain, End, Destroy, SocketError, FrameUnchanged
  <2>2. CASE pc' = pc
    BY <1>1, <2>1, <2>2
  <2>3. CASE pc' # pc
    <3>1. PICK c \in Calls, p \in {"sent", "failed"} :
            pc[c] \in {"frame", "final"} /\ pc' = [pc EXCEPT ![c] = p]
      BY <1>6, <2>3, AnsweredCall
    <3> QED
      BY <2>1, <3>1, UncountedMove
  <2> QED
    BY <2>2, <2>3
<1> QED
  BY <1>1, <1>2, <1>3, <1>4, <1>5, <1>6 DEF Next, vars

(* A message whose first frame was submitted stays one. *)
LEMMA StaysOpened ==
  ASSUME TypeOK, LockInv, [Next]_vars, NEW m, Opened(m)
  PROVE  Opened(m)'
<1>1. Closed => Closed'
  BY MovesOn
<1>2. ASSUME NEW t \in Sends PROVE next'[t] = next[t] \/ next'[t] = next[t] + 1
  <2>1. next' = next \/ \E x \in Sends \cup Chunks : next' = [next EXCEPT ![x] = @ + 1]
    BY DEF Next, vars, Send, BlobRead, SendGranted, SendContinues, SubmitFragment, LockMessage,
       UnlockMessage, Ask, StreamGranted, StreamClose, StreamFinished, StreamData, ChunkContinues,
       SubmitChunk, Control, CloseGranted, GrantFrame, WriteHead, WritePayload, Drain, End, Destroy,
       SocketError, FrameUnchanged
  <2> QED
    BY <2>1 DEF TypeOK
<1>3. ASSUME NEW s \in Streams PROVE frameNum'[s] = frameNum[s] \/ frameNum'[s] = frameNum[s] + 1
  <2>1. frameNum' = frameNum \/ \E c \in Chunks : frameNum' = [frameNum EXCEPT ![Of[c]] = @ + 1]
    BY DEF Next, vars, Send, BlobRead, SendGranted, SendContinues, SubmitFragment, LockMessage,
       UnlockMessage, Ask, StreamGranted, StreamClose, StreamFinished, StreamData, ChunkContinues,
       SubmitChunk, Control, CloseGranted, GrantFrame, WriteHead, WritePayload, Drain, End, Destroy,
       SocketError, FrameUnchanged
  <2> QED
    BY <2>1 DEF TypeOK
<1>4. CASE m \in Sends /\ next[m] > 1
  BY <1>2, <1>4 DEF Opened, TypeOK
<1>5. CASE m \in Streams /\ frameNum[m] > 0
  <2>1. frameNum[m] \in Nat
    BY <1>5 DEF TypeOK
  <2> QED
    BY <1>3, <1>5, <2>1 DEF Opened
<1> QED
  BY <1>1, <1>4, <1>5 DEF Opened

-----------------------------------------------------------------------------
(* The wire as it will be if the socket stays open and nobody writes more: *)
(* what is on it, the payload of the frame whose head is and the heads of  *)
(* the frames behind.                                                      *)
LineLen == Len(wire) + Len(frameQueue)

Line ==
  [i \in 1..LineLen |->
     IF i <= Len(wire) THEN wire[i]
     ELSE [frame |-> frameQueue[i - Len(wire)],
           part |-> IF Started /\ i = Len(wire) + 1 THEN "payload" ELSE "head"]]

(* Line t is line s with a payload put in, or with a part put behind.      *)
Inserted(s, t, n) ==
  \E k \in 1..(n + 1) :
    /\ t[k].part = "payload"
    /\ \A i \in 1..(n + 1) : i < k => t[i] = s[i]
    /\ \A i \in 1..(n + 1) : i > k => t[i] = s[i - 1]

Extended(s, t, n, f) ==
  /\ \A i \in 1..n : t[i] = s[i]
  /\ t[n + 1] = [frame |-> f, part |-> "head"]

LineStays == LineLen' = LineLen /\ \A i \in 1..LineLen : Line'[i] = Line[i]
LineFills == LineLen' = LineLen + 1 /\ Inserted(Line, Line', LineLen)
LineTakes(f) == LineLen' = LineLen + 1 /\ Extended(Line, Line', LineLen, f)

(* What the line has at each place. *)
LineParted ==
  /\ Len(wire) \in Nat /\ Len(frameQueue) \in Nat /\ LineLen \in Nat
  /\ LineLen = Len(wire) + Len(frameQueue)
  /\ \A i \in 1..Len(wire) : i \in 1..LineLen /\ Line[i] = wire[i]
  /\ \A j \in 1..Len(frameQueue) :
       /\ Len(wire) + j \in 1..LineLen
       /\ Line[Len(wire) + j] = [frame |-> frameQueue[j],
                                 part |-> IF Started /\ j = 1 THEN "payload" ELSE "head"]
  /\ \A i \in 1..LineLen : i \in 1..Len(wire) \/ \E j \in 1..Len(frameQueue) : i = Len(wire) + j

(* It is the wire, and behind it the queue of frames. *)
LEMMA LineParts == TypeOK => LineParted
<1> SUFFICES ASSUME TypeOK PROVE LineParted
  OBVIOUS
<1>1. Len(wire) \in Nat /\ Len(frameQueue) \in Nat
  BY DEF TypeOK
<1>2. LineLen \in Nat /\ LineLen = Len(wire) + Len(frameQueue)
  BY <1>1 DEF LineLen
<1>3. \A i \in 1..Len(wire) : i \in 1..LineLen /\ Line[i] = wire[i]
  BY <1>1, <1>2 DEF Line
<1>4. ASSUME NEW j \in 1..Len(frameQueue)
      PROVE  /\ Len(wire) + j \in 1..LineLen
             /\ Line[Len(wire) + j] = [frame |-> frameQueue[j],
                                       part |-> IF Started /\ j = 1 THEN "payload" ELSE "head"]
  <2>1. /\ Len(wire) + j \in 1..LineLen /\ ~(Len(wire) + j <= Len(wire)) /\ (Len(wire) + j) - Len(wire) = j
        /\ (Len(wire) + j = Len(wire) + 1 <=> j = 1)
    BY <1>1, <1>2
  <2> QED
    BY <2>1 DEF Line
<1>5. ASSUME NEW i \in 1..LineLen
      PROVE  i \in 1..Len(wire) \/ \E j \in 1..Len(frameQueue) : i = Len(wire) + j
  <2>1. i \in 1..Len(wire) \/ (i - Len(wire) \in 1..Len(frameQueue) /\ i = Len(wire) + (i - Len(wire)))
    BY <1>1, <1>2
  <2> QED
    BY <2>1
<1> QED
  BY <1>1, <1>2, <1>3, <1>4, <1>5 DEF LineParted

(* Writing leaves the line as it is, or fills in a payload. *)
LEMMA WritingKeepsLine ==
  ASSUME TypeOK, TypeOK', LockInv, frameQueue # <<>>, WritesHead \/ WritesFrame \/ WritesPayload
  PROVE  LineStays \/ LineFills
<1> DEFINE L == Len(wire)
           Q == Len(frameQueue)
           h == frameQueue[1]
<1>0. LineParted /\ LineParted'
  BY LineParts, PTL
<1>1. /\ L \in Nat /\ Q \in Nat /\ Q > 0 /\ Head(frameQueue) = h
      /\ LineLen = L + Q
  BY <1>0 DEF LineParted, TypeOK
<1>2. ASSUME NEW part \in {"head", "payload"}, Puts(part), frameQueue' = Tail(frameQueue),
             Started <=> part = "payload", ~Started'
      PROVE  LineStays
  <2>1. /\ Len(wire') = L + 1 /\ wire'[L + 1] = [frame |-> h, part |-> part]
        /\ \A i \in 1..L : wire'[i] = wire[i]
    BY <1>1, <1>2, PutsLast
  <2>2. Len(frameQueue') = Q - 1 /\ \A j \in 1..(Q - 1) : frameQueue'[j] = frameQueue[j + 1]
    BY <1>1, <1>2 DEF TypeOK
  <2>3. LineLen' = LineLen
    BY <1>1, <2>1, <2>2 DEF LineLen
  <2>4. ASSUME NEW i \in 1..L PROVE Line'[i] = Line[i]
    <3>1. i \in 1..(L + 1)
      BY <1>1
    <3> QED
      BY <2>1, <3>1, <1>0 DEF LineParted
  <2>5. Line'[L + 1] = Line[L + 1]
    <3>1. L + 1 \in 1..(L + 1) /\ 1 \in 1..Q
      BY <1>1
    <3>2. Line[L + 1] = [frame |-> h, part |-> IF Started THEN "payload" ELSE "head"]
      BY <3>1, <1>0 DEF LineParted
    <3>3. Line'[L + 1] = wire'[L + 1]
      BY <2>1, <3>1, <1>0 DEF LineParted
    <3> QED
      BY <1>2, <2>1, <3>2, <3>3
  <2>6. ASSUME NEW j \in 2..Q PROVE Line'[L + j] = Line[L + j]
    <3>1. j \in 1..Q /\ j # 1 /\ j - 1 \in 1..(Q - 1) /\ (L + 1) + (j - 1) = L + j /\ (j - 1) + 1 = j
      BY <1>1
    <3>2. Line[L + j] = [frame |-> frameQueue[j], part |-> "head"]
      BY <3>1, <1>0 DEF LineParted
    <3>3. Line'[(L + 1) + (j - 1)] = [frame |-> frameQueue'[j - 1], part |-> "head"]
      BY <1>2, <2>1, <2>2, <3>1, <1>0 DEF LineParted
    <3> QED
      BY <2>2, <3>1, <3>2, <3>3
  <2>7. \A i \in 1..LineLen : i \in 1..L \/ i = L + 1 \/ \E j \in 2..Q : i = L + j
    <3> SUFFICES ASSUME NEW i \in 1..LineLen, i \notin 1..L, i # L + 1
                 PROVE  \E j \in 2..Q : i = L + j
      OBVIOUS
    <3>1. i - L \in 2..Q /\ i = L + (i - L)
      BY <1>1
    <3> QED
      BY <3>1
  <2> QED
    BY <2>3, <2>4, <2>5, <2>6, <2>7 DEF LineStays
<1>3. CASE WritesHead
  <2>1. /\ Len(wire') = L + 1 /\ wire'[L + 1] = [frame |-> h, part |-> "head"]
        /\ \A i \in 1..L : wire'[i] = wire[i]
    BY <1>1, <1>3, PutsLast DEF WritesHead
  <2>2. frameQueue' = frameQueue /\ ~Started /\ Started'
    BY <1>3 DEF WritesHead
  <2>3. LineLen' = LineLen + 1
    BY <1>1, <2>1, <2>2 DEF LineLen
  <2>4. Line'[L + 2].part = "payload"
    <3>1. 1 \in 1..Q /\ (L + 1) + 1 = L + 2
      BY <1>1
    <3>2. Line'[(L + 1) + 1] = [frame |-> h, part |-> "payload"]
      BY <2>1, <2>2, <3>1, <1>0 DEF LineParted
    <3> QED
      BY <3>1, <3>2
  <2>5. ASSUME NEW i \in 1..L PROVE Line'[i] = Line[i]
    <3>1. i \in 1..(L + 1)
      BY <1>1
    <3> QED
      BY <2>1, <3>1, <1>0 DEF LineParted
  <2>6. Line'[L + 1] = Line[L + 1]
    <3>1. L + 1 \in 1..(L + 1) /\ 1 \in 1..Q
      BY <1>1
    <3> QED
      BY <2>1, <2>2, <3>1, <1>0 DEF LineParted
  <2>7. ASSUME NEW j \in 2..Q PROVE Line'[(L + 1) + j] = Line[L + j]
    <3>1. j \in 1..Q /\ j # 1
      BY <1>1
    <3> QED
      BY <2>1, <2>2, <3>1, <1>0 DEF LineParted
  <2>8. \A i \in 1..(LineLen + 1) : i < L + 2 => Line'[i] = Line[i]
    <3>1. \A i \in 1..(LineLen + 1) : i < L + 2 => i \in 1..L \/ i = L + 1
      BY <1>1
    <3> QED
      BY <2>5, <2>6, <3>1
  <2>9. \A i \in 1..(LineLen + 1) : i > L + 2 => Line'[i] = Line[i - 1]
    <3> SUFFICES ASSUME NEW i \in 1..(LineLen + 1), i > L + 2 PROVE Line'[i] = Line[i - 1]
      OBVIOUS
    <3>1. i - (L + 1) \in 2..Q /\ (L + 1) + (i - (L + 1)) = i /\ L + (i - (L + 1)) = i - 1
      BY <1>1
    <3> QED
      BY <2>7, <3>1
  <2>10. L + 2 \in 1..(LineLen + 1)
    BY <1>1
  <2>11. Inserted(Line, Line', LineLen)
    BY <2>4, <2>8, <2>9, <2>10 DEF Inserted
  <2> QED
    BY <2>3, <2>11 DEF LineFills
<1> QED
  BY <1>1, <1>2, <1>3 DEF WritesFrame, WritesPayload, Resumes

(* A caller leaves the line, or puts the head of its frame behind it. *)
LEMMA CallerKeepsLine ==
  ASSUME TypeOK, TypeOK', LockInv, UNCHANGED <<wire, writing>>
  PROVE  /\ frameQueue' = frameQueue => LineStays
         /\ \A c : Joins(c) => LineTakes(frameQueue'[Len(frameQueue')])
<1> DEFINE L == Len(wire)
           Q == Len(frameQueue)
<1>0. LineParted /\ LineParted'
  BY LineParts, PTL
<1>1. /\ L \in Nat /\ Q \in Nat /\ LineLen = L + Q /\ (Started' <=> Started)
  BY <1>0 DEF LineParted, Started
<1>2. ASSUME frameQueue' = frameQueue PROVE LineStays
  BY <1>2 DEF LineStays, Line, LineLen, Started
<1>3. ASSUME NEW c, Joins(c) PROVE LineTakes(frameQueue'[Len(frameQueue')])
  <2>1. Len(frameQueue') = Q + 1 /\ \A j \in 1..Q : frameQueue'[j] = frameQueue[j]
    BY <1>3 DEF Joins
  <2>2. LineLen' = LineLen + 1
    BY <1>1, <2>1 DEF LineLen
  <2>3. ASSUME NEW i \in 1..L PROVE Line'[i] = Line[i]
    BY <1>0 DEF LineParted
  <2>4. ASSUME NEW j \in 1..Q PROVE Line'[L + j] = Line[L + j]
    <3>1. j \in 1..(Q + 1)
      BY <1>1
    <3>2. Line[L + j] = [frame |-> frameQueue[j], part |-> IF Started /\ j = 1 THEN "payload" ELSE "head"]
      BY <1>0 DEF LineParted
    <3>3. Line'[L + j] = [frame |-> frameQueue'[j], part |-> IF Started' /\ j = 1 THEN "payload" ELSE "head"]
      BY <1>0, <2>1, <3>1 DEF LineParted
    <3> QED
      BY <1>1, <2>1, <3>2, <3>3
  <2>5. \A i \in 1..LineLen : Line'[i] = Line[i]
    <3>1. \A i \in 1..LineLen : i \in 1..L \/ \E j \in 1..Q : i = L + j
      BY <1>0 DEF LineParted
    <3> QED
      BY <2>3, <2>4, <3>1
  <2>6. Line'[LineLen + 1] = [frame |-> frameQueue'[Len(frameQueue')], part |-> "head"]
    <3>1. Q + 1 \in 1..(Q + 1) /\ L + (Q + 1) = LineLen + 1
      BY <1>1
    <3>2. ~(Started /\ Q + 1 = 1)
      BY <1>1 DEF Started, LockInv, FrameLockInv
    <3>3. Line'[L + (Q + 1)] = [frame |-> frameQueue'[Q + 1], part |-> "head"]
      BY <1>0, <1>1, <2>1, <3>1, <3>2 DEF LineParted
    <3> QED
      BY <2>1, <3>1, <3>3
  <2> QED
    BY <2>2, <2>5, <2>6 DEF LineTakes, Extended
<1> QED
  BY <1>2, <1>3

(* Every step while the socket stays open. *)
LEMMA LineStep ==
  ASSUME TypeOK, TypeOK', LockInv, ReportInv, Writable, Writable',
         GrantFrame \/ WriteHead \/ WritePayload \/ Drain \/ End \/ Destroy \/ SocketError
  PROVE  LineStays \/ LineFills
<1>1. CASE WritesNothing
  BY <1>1 DEF WritesNothing, LineStays, Line, LineLen
<1>2. CASE frameQueue # <<>> /\ (WritesHead \/ WritesFrame \/ WritesPayload)
  BY <1>2, WritingKeepsLine
<1> QED
  BY <1>1, <1>2, WriterStep

-----------------------------------------------------------------------------
(* The messages on the first n places of a line that are no Blob are in    *)
(* the order of their calls, those of close() included.                    *)
InOrder(s, n) ==
  \A i, j \in 1..n :
    i < j /\ Opens(s[i]) /\ Opens(s[j]) => Before(s[i].frame.msg, s[j].frame.msg)

(* A payload that is put in changes no order. *)
LEMMA InsertedInOrder ==
  ASSUME NEW s, NEW t, NEW n \in Nat, Inserted(s, t, n), InOrder(s, n)
  PROVE  InOrder(t, n + 1)
<1>1. PICK k \in 1..(n + 1) : /\ t[k].part = "payload"
                              /\ \A i \in 1..(n + 1) : i < k => t[i] = s[i]
                              /\ \A i \in 1..(n + 1) : i > k => t[i] = s[i - 1]
  BY DEF Inserted
<1> DEFINE Old(i) == IF i < k THEN i ELSE i - 1
<1>2. ~Opens(t[k])
  BY <1>1 DEF Opens
<1>3. \A i \in 1..(n + 1) : i # k => Old(i) \in 1..n /\ t[i] = s[Old(i)]
  BY <1>1
<1>4. \A i, j \in 1..(n + 1) : i # k /\ j # k /\ i < j => Old(i) < Old(j)
  OBVIOUS
<1> HIDE DEF Old
<1> SUFFICES ASSUME NEW i \in 1..(n + 1), NEW j \in 1..(n + 1), i < j, Opens(t[i]), Opens(t[j])
             PROVE  Before(t[i].frame.msg, t[j].frame.msg)
  BY DEF InOrder
<1>5. i # k /\ j # k
  BY <1>2
<1> QED
  BY <1>3, <1>4, <1>5 DEF InOrder

(* The messages that were opened on a line. *)
Shown(s, n, m) == \E i \in 1..n : Opens(s[i]) /\ s[i].frame.msg = m

(* Nor does it show another message. *)
LEMMA InsertedShown ==
  ASSUME NEW s, NEW t, NEW n \in Nat, Inserted(s, t, n), NEW m, Shown(t, n + 1, m)
  PROVE  Shown(s, n, m)
<1>1. PICK k \in 1..(n + 1) : /\ t[k].part = "payload"
                              /\ \A i \in 1..(n + 1) : i < k => t[i] = s[i]
                              /\ \A i \in 1..(n + 1) : i > k => t[i] = s[i - 1]
  BY DEF Inserted
<1>2. PICK i \in 1..(n + 1) : Opens(t[i]) /\ t[i].frame.msg = m
  BY DEF Shown
<1>3. i # k
  BY <1>1, <1>2 DEF Opens
<1>4. CASE i < k
  BY <1>1, <1>2, <1>4 DEF Shown
<1>5. CASE i > k
  <2>1. i - 1 \in 1..n /\ t[i] = s[i - 1]
    BY <1>1, <1>5
  <2> QED
    BY <1>2, <2>1 DEF Shown
<1> QED
  BY <1>3, <1>4, <1>5

(* A call that has the turn and submits its first frame. *)
Presents(m) ==
  m \in Holding /\ HoldsMessageLock(m) /\ pc[m] # "idle" /\ ~Opened(m) /\ Opened(m)'

OpensFrame(f) == f.op \in {"message", "close"} /\ f.msg \notin Blobs

(* The last frame of the queue opens no message but the one whose turn it is. *)
LastPresents == \A f : f = frameQueue'[Len(frameQueue')] /\ OpensFrame(f) => Presents(f.msg)

(* A caller does nothing to the queue of frames, or puts such a frame      *)
(* behind it.                                                              *)
FrameJoins == LastPresents /\ \E c : Joins(c)

(* No caller does anything else. *)
LEMMA CallerPresents ==
  ASSUME TypeOK, LockInv, CountInv,
         \/ \E t \in Sends : Send(t) \/ BlobRead(t) \/ SendGranted(t) \/ SendContinues(t)
         \/ \E s \in Streams : Ask(s) \/ StreamGranted(s) \/ StreamClose(s) \/ StreamFinished(s)
         \/ \E c \in Chunks : StreamData(c) \/ ChunkContinues(c)
         \/ \E c \in Controls : Control(c)
         \/ Ask(Closing) \/ CloseGranted
  PROVE  frameQueue' = frameQueue \/ FrameJoins
<1>1. ASSUME NEW c, NEW m, NEW o, NEW k, NEW last, NEW carries, NEW p,
             Submit(c, m, o, k, last, carries, p),
             o \in {"message", "close"} /\ m \notin Blobs => Presents(m)
      PROVE  FrameJoins
  <2>1. Joins(c)
    BY <1>1, SubmitJoins
  <2>2. frameQueue'[Len(frameQueue')] =
          [call |-> c, msg |-> m, op |-> o, n |-> k, fin |-> last, payload |-> carries]
    BY <1>1, SubmitsLast
  <2>3. frameQueue'[Len(frameQueue')].msg = m /\ frameQueue'[Len(frameQueue')].op = o
    BY <2>2
  <2> QED
    BY <1>1, <2>1, <2>3 DEF FrameJoins, LastPresents, OpensFrame
<1>2. ASSUME NEW t \in Sends, Send(t) \/ BlobRead(t) \/ SendGranted(t) \/ SendContinues(t)
      PROVE  frameQueue' = frameQueue \/ FrameJoins
  <2>1. t \in Holding /\ t \in Calls /\ t \in Sends \cup Chunks
    BY CallSets DEF Holding
  <2>2. CASE SubmitFragment(t)
    <3>1. next[t] = 1 => Presents(t)
      <4>1. next[t] = 1 => pc[t] = "msgWait" /\ HoldsMessageLock(t)
        BY <1>2, <2>2 DEF Send, BlobRead, SendGranted, SendContinues, LockMessage, SubmitFragment, Submit, CountInv
      <4>2. next'[t] = next[t] + 1
        BY <2>1, <2>2 DEF SubmitFragment, TypeOK
      <4>3. t \notin Streams /\ t # Closing
        BY WriterAssumption DEF Messages
      <4> QED
        BY <2>1, <4>1, <4>2, <4>3 DEF Presents, Opened
    <3>2. PICK o, k, last : Submit(t, t, o, k, last, TRUE, "frame") /\ (o = "message" => next[t] = 1) /\ o # "close"
      BY <2>2 DEF SubmitFragment
    <3> QED
      BY <1>1, <3>1, <3>2
  <2>3. CASE ~SubmitFragment(t)
    BY <1>2, <2>3 DEF Send, BlobRead, SendGranted, SendContinues, LockMessage, UnlockMessage
  <2> QED
    BY <2>2, <2>3
<1>3. ASSUME NEW s \in Streams, Ask(s) \/ StreamGranted(s) \/ StreamClose(s) \/ StreamFinished(s)
      PROVE  frameQueue' = frameQueue \/ FrameJoins
  <2>1. CASE StreamClose(s)
    <3>1. PICK k : Submit(s, s, "continuation", k, TRUE, FALSE, "final")
      BY <2>1 DEF StreamClose
    <3> QED
      BY <1>1, <3>1
  <2>2. CASE ~StreamClose(s)
    BY <1>3, <2>2 DEF Ask, LockMessage, StreamGranted, StreamFinished, UnlockMessage
  <2> QED
    BY <2>1, <2>2
<1>4. ASSUME NEW c \in Chunks, StreamData(c) \/ ChunkContinues(c)
      PROVE  frameQueue' = frameQueue \/ FrameJoins
  <2> DEFINE s == Of[c]
  <2>1. s \in Streams /\ s \in Holding /\ s \notin Sends /\ s # Closing
    BY CallSets, WriterAssumption DEF Holding, Messages
  <2>2. CASE SubmitChunk(c)
    <3>1. frameNum[s] = 0 => Presents(s)
      <4> HAVE frameNum[s] = 0
      <4>1. pc[s] = "streaming"
        BY <1>4 DEF StreamData, ChunkContinues, CountInv
      <4>2. HoldsMessageLock(s)
        BY <2>1, <4>1, PastLockHolds DEF LockInv, Active
      <4>3. frameNum'[s] = frameNum[s] + 1
        BY <2>1, <2>2 DEF SubmitChunk, TypeOK
      <4>4. Opened(s)' /\ ~Opened(s)
        BY <2>1, <4>3 DEF Opened
      <4> QED
        BY <2>1, <4>1, <4>2, <4>4 DEF Presents
    <3>2. PICK o, k : Submit(c, s, o, k, FALSE, TRUE, "frame") /\ (o = "message" => frameNum[s] = 0) /\ o # "close"
      BY <2>2 DEF SubmitChunk
    <3> QED
      BY <1>1, <3>1, <3>2
  <2>3. CASE ~SubmitChunk(c)
    BY <1>4, <2>3 DEF StreamData, ChunkContinues
  <2> QED
    BY <2>2, <2>3
<1>5. ASSUME NEW c \in Controls, Control(c)
      PROVE  FrameJoins
  <2>1. Submit(c, c, "control", 1, TRUE, TRUE, "frame")
    BY <1>5 DEF Control
  <2> QED
    BY <1>1, <2>1
<1>6. ASSUME Ask(Closing) \/ CloseGranted
      PROVE  frameQueue' = frameQueue \/ FrameJoins
  <2>1. CASE Submit(Closing, Closing, "close", 1, TRUE, TRUE, "frame") /\ CloseGranted
    <3>1. Closing \in Holding /\ Closing \in Calls /\ Closing \notin Sends /\ Closing \notin Streams
      BY CallSets, WriterAssumption DEF Holding, Messages
    <3>2. pc[Closing] = "msgWait" /\ HoldsMessageLock(Closing) /\ pc'[Closing] = "frame"
      BY <2>1, <3>1 DEF CloseGranted, Submit, TypeOK
    <3>3. Presents(Closing)
      BY <3>1, <3>2 DEF Presents, Opened, Closed
    <3> QED
      BY <1>1, <2>1, <3>3
  <2>2. CASE ~Submit(Closing, Closing, "close", 1, TRUE, TRUE, "frame") \/ ~CloseGranted
    BY <1>6, <2>2 DEF Ask, LockMessage, CloseGranted
  <2> QED
    BY <2>1, <2>2
<1> QED
  BY <1>2, <1>3, <1>4, <1>5, <1>6

(* Whoever joins the queue of #msgMutex and is no Blob was asked for after *)
(* all that were called before.                                            *)
LEMMA JoinsLater ==
  ASSUME TypeOK, LockInv, AskedInv, [Next]_vars
  PROVE  /\ \A m, k : Before(m, k) => Before(m, k)'
         /\ \A k : k \in Queued' /\ k \notin Blobs =>
              k \in Queued \/ \A m : Asked(m) => Before(m, k)'
<1>1. ASSUME QueueStays PROVE \A k : k \in Queued' => k \in Queued
  <2>1. CASE msgQueue' = msgQueue
    BY <2>1 DEF Queued
  <2>2. CASE msgQueue # <<>> /\ msgQueue' = Tail(msgQueue)
    <3>1. \A i \in 1..Len(msgQueue') : msgQueue'[i] = msgQueue[i + 1] /\ i + 1 \in 1..Len(msgQueue)
      BY <2>2 DEF TypeOK
    <3> QED
      BY <3>1 DEF Queued
  <2> QED
    BY <1>1, <2>1, <2>2 DEF QueueStays
<1>2. ASSUME NEW m \in Holding, msgQueue' = Append(msgQueue, m)
      PROVE  \A k : k \in Queued' => k \in Queued \/ k = m
  <2>1. /\ Len(msgQueue) \in Nat /\ Len(msgQueue') = Len(msgQueue) + 1
        /\ msgQueue'[Len(msgQueue')] = m
        /\ \A i \in 1..Len(msgQueue) : msgQueue'[i] = msgQueue[i]
    BY <1>2 DEF TypeOK, Holding
  <2>2. \A i \in 1..Len(msgQueue') : i \in 1..Len(msgQueue) \/ i = Len(msgQueue')
    BY <2>1
  <2> QED
    BY <2>1, <2>2 DEF Queued
<1>3. CASE \E m \in Holding : Calling(m)
  <2>1. PICK m \in Holding : Calling(m)
    BY <1>3
  <2>2. (\A k, l : Before(k, l) => Before(k, l)') /\ \A k : Asked(k) => Before(k, m)'
    BY <2>1, AskedGrows DEF Calling
  <2> QED
    BY <1>1, <1>2, <2>1, <2>2 DEF Calling, QueueStays
<1>4. CASE /\ asked' = asked
           /\ QueueStays \/ \E t \in Sends : BlobJoins(t)
  <2>1. \A k, l : Before(k, l) => Before(k, l)'
    BY <1>4 DEF Before
  <2>2. ASSUME NEW t \in Sends, BlobJoins(t) PROVE \A k : k \in Queued' => k \in Queued \/ k \in Blobs
    <3>1. t \in Holding /\ t \in Blobs /\ msgQueue' = Append(msgQueue, t)
      BY <2>2, CallSets DEF Holding, BlobJoins, AskedInv
    <3> QED
      BY <1>2, <3>1
  <2> QED
    BY <1>1, <1>4, <2>1, <2>2
<1> QED
  BY <1>3, <1>4, AskedShape

(* Who was shown on the line is past its first frame, and whoever waits    *)
(* for #msgMutex was called after it.                                      *)
OpenedInv ==
  \A m : Shown(Line, LineLen, m) =>
    /\ m \in Holding /\ pc[m] # "idle" /\ Opened(m)
    /\ \A k \in Queued : k \notin Blobs /\ k # m => Before(m, k)

OrderInv ==
  /\ InOrder(wire, Len(wire))
  /\ Writable => InOrder(Line, LineLen) /\ OpenedInv

(* The line stays in order. *)
LEMMA LineStaysInOrder ==
  ASSUME TypeOK, TypeOK', LockInv, AskedInv, [Next]_vars, InOrder(Line, LineLen), OpenedInv,
         \/ LineStays
         \/ LineFills
         \/ LineTakes(frameQueue'[Len(frameQueue')]) /\ LastPresents
  PROVE  InOrder(Line, LineLen)' /\ OpenedInv'
<1>0. PICK joined : joined = frameQueue'[Len(frameQueue')]
  OBVIOUS
<1> DEFINE s == Line
           t == Line'
           n == LineLen
           k == joined.msg
           opens == OpensFrame(joined)
<1>1. n \in Nat
  BY LineParts DEF LineParted
<1>2. /\ \A m, l : Before(m, l) => Before(m, l)'
      /\ \A l : l \in Queued' /\ l \notin Blobs => l \in Queued \/ \A m : Asked(m) => Before(m, l)'
  BY JoinsLater
<1>3. \A m : m \in Holding /\ pc[m] # "idle" => Asked(m) /\ pc'[m] # "idle"
  BY MovesOn, CallSets DEF AskedInv, Holding, Messages
<1>4. LineTakes(joined) =>
        /\ LineLen' = n + 1 /\ t[n + 1].frame.msg = k /\ (Opens(t[n + 1]) <=> opens)
        /\ \A i \in 1..n : t[i] = s[i]
  BY DEF LineTakes, Extended, Opens, OpensFrame
<1>5. InOrder(s, n) /\ OpenedInv
  OBVIOUS
<1>6. LineStays => LineLen' = n /\ \A i \in 1..n : t[i] = s[i]
  BY DEF LineStays
<1>7. LineFills => LineLen' = n + 1 /\ Inserted(s, t, n)
  BY DEF LineFills
<1>8. LineStays \/ LineFills \/ (LineTakes(joined) /\ (opens => Presents(k)))
  BY <1>0 DEF LastPresents
<1>9. \A m : Shown(s, n, m) => /\ m \in Holding /\ pc[m] # "idle" /\ Opened(m)
                               /\ \A l \in Queued : l \notin Blobs /\ l # m => Before(m, l)
  BY DEF OpenedInv
<1>10. Presents(k) => k \in Queued
  <2> HAVE Presents(k)
  <2>1. 1 \in 1..Len(msgQueue) /\ msgQueue[1] = k
    BY DEF Presents, HoldsMessageLock, TypeOK
  <2> QED
    BY <2>1 DEF Queued
<1>11. opens => k \notin Blobs
  BY DEF OpensFrame
<1> HIDE DEF s, t, n, k, opens
<1>12. InOrder(t, LineLen')
  <2>1. CASE LineStays
    BY <1>5, <1>6, <2>1 DEF InOrder
  <2>2. CASE LineFills
    BY <1>1, <1>5, <1>7, <2>2, InsertedInOrder
  <2>3. CASE LineTakes(joined) /\ (opens => Presents(k))
    <3> SUFFICES ASSUME NEW i \in 1..(n + 1), NEW j \in 1..(n + 1), i < j, Opens(t[i]), Opens(t[j])
                 PROVE  Before(t[i].frame.msg, t[j].frame.msg)
      BY <1>4, <2>3 DEF InOrder
    <3>1. i \in 1..n /\ t[i] = s[i]
      BY <1>1, <1>4, <2>3
    <3>2. CASE j \in 1..n
      BY <1>4, <1>5, <2>3, <3>1, <3>2 DEF InOrder
    <3>3. CASE j = n + 1
      <4>1. opens /\ t[j].frame.msg = k /\ Presents(k)
        BY <1>4, <2>3, <3>3
      <4>2. k \in Queued /\ k \notin Blobs /\ ~Opened(k)
        BY <1>10, <1>11, <4>1 DEF Presents
      <4>3. Shown(s, n, t[i].frame.msg)
        BY <3>1 DEF Shown
      <4> QED
        BY <1>9, <4>1, <4>2, <4>3
    <3> QED
      BY <1>1, <3>2, <3>3
  <2> QED
    BY <1>8, <2>1, <2>2, <2>3
<1>13. InOrder(Line, LineLen)'
  BY <1>2, <1>12 DEF InOrder, t
<1>14. ASSUME NEW m, Shown(t, LineLen', m)
       PROVE  Shown(s, n, m) \/ (Presents(m) /\ m \notin Blobs)
  <2>1. CASE LineStays
    BY <1>6, <1>14, <2>1 DEF Shown
  <2>2. CASE LineFills
    BY <1>1, <1>7, <1>14, <2>2, InsertedShown
  <2>3. CASE LineTakes(joined) /\ (opens => Presents(k))
    <3>1. PICK i \in 1..(n + 1) : Opens(t[i]) /\ t[i].frame.msg = m
      BY <1>4, <1>14, <2>3 DEF Shown
    <3>2. CASE i \in 1..n
      BY <1>4, <2>3, <3>1, <3>2 DEF Shown
    <3>3. CASE i = n + 1
      BY <1>4, <1>11, <2>3, <3>1, <3>3
    <3> QED
      BY <1>1, <3>2, <3>3
  <2> QED
    BY <1>8, <2>1, <2>2, <2>3
<1>15. ASSUME NEW m, Shown(t, LineLen', m)
       PROVE  /\ m \in Holding /\ pc'[m] # "idle" /\ Opened(m)'
              /\ \A l \in Queued' : l \notin Blobs /\ l # m => Before(m, l)'
  <2>1. CASE Shown(s, n, m)
    <3>1. m \in Holding /\ pc'[m] # "idle" /\ Asked(m)
      BY <1>3, <1>9, <2>1
    <3>2. Opened(m)'
      BY <1>9, <2>1, StaysOpened
    <3> QED
      BY <1>2, <1>9, <2>1, <3>1, <3>2
  <2>2. CASE Presents(m) /\ m \notin Blobs
    <3>1. m \in Holding /\ pc'[m] # "idle" /\ Asked(m) /\ Opened(m)'
      BY <1>3, <2>2 DEF Presents
    <3>2. \A l \in Queued : l # m => Precedes(m, l)
      <4>1. 1 \in 1..Len(msgQueue) /\ msgQueue[1] = m
        BY <2>2 DEF Presents, HoldsMessageLock, TypeOK
      <4> SUFFICES ASSUME NEW j \in 1..Len(msgQueue), msgQueue[j] # m PROVE 1 < j
        BY <4>1 DEF Queued, Precedes
      <4> QED
        BY <4>1
    <3>3. \A l \in Queued : l \notin Blobs /\ l # m => Before(m, l)
      BY <2>2, <3>2 DEF AskedInv
    <3> QED
      BY <1>2, <3>1, <3>3
  <2> QED
    BY <1>14, <1>15, <2>1, <2>2
<1>16. OpenedInv'
  <2> SUFFICES ASSUME NEW m, Shown(Line, LineLen, m)'
               PROVE  /\ m \in Holding /\ pc'[m] # "idle" /\ Opened(m)'
                      /\ \A l \in Queued' : l \notin Blobs /\ l # m => Before(m, l)'
    BY DEF OpenedInv
  <2>1. Shown(t, LineLen', m)
    BY DEF Shown, t
  <2> QED
    BY <1>15, <2>1
<1> QED
  BY <1>13, <1>16

(* What a step does to the line while the socket stays open. *)
LEMMA LineMoves ==
  ASSUME TypeOK, TypeOK', LockInv, ReportInv, CountInv, [Next]_vars, Writable, Writable'
  PROVE  \/ LineStays
         \/ LineFills
         \/ LineTakes(frameQueue'[Len(frameQueue')]) /\ LastPresents
<1>1. CASE UNCHANGED vars
  BY <1>1, CallerKeepsLine DEF vars, socket
<1>2. CASE \/ \E t \in Sends : Send(t) \/ BlobRead(t) \/ SendGranted(t) \/ SendContinues(t)
           \/ \E s \in Streams : Ask(s) \/ StreamGranted(s) \/ StreamClose(s) \/ StreamFinished(s)
           \/ \E c \in Chunks : StreamData(c) \/ ChunkContinues(c)
           \/ \E c \in Controls : Control(c)
           \/ Ask(Closing) \/ CloseGranted
  <2>1. UNCHANGED <<wire, writing>>
    BY <1>2, CallerStep
  <2>2. frameQueue' = frameQueue \/ FrameJoins
    BY <1>2, CallerPresents
  <2>3. CASE frameQueue' = frameQueue
    BY <2>1, <2>3, CallerKeepsLine
  <2>4. CASE FrameJoins
    <3>1. \E c : Joins(c)
      BY <2>4 DEF FrameJoins
    <3>2. LineTakes(frameQueue'[Len(frameQueue')])
      BY <2>1, <3>1, CallerKeepsLine
    <3> QED
      BY <2>4, <3>2 DEF FrameJoins
  <2> QED
    BY <2>2, <2>3, <2>4
<1>3. CASE GrantFrame \/ WriteHead \/ WritePayload \/ Drain \/ End \/ Destroy \/ SocketError
  BY <1>3, LineStep
<1> QED
  BY <1>1, <1>2, <1>3 DEF Next

(* Nothing is written by a step that leaves the socket finished. *)
LEMMA FinishedWritesNothing ==
  ASSUME [Next]_vars, ~Writable'
  PROVE  wire' = wire
BY CallerStep DEF Next, vars, socket, Writable, GrantFrame, WriteHead, WritePayload, WriteToSocket,
   Drain, End, Destroy, SocketError

(* The wire is the beginning of the line. *)
LEMMA WireOfLine == TypeOK /\ InOrder(Line, LineLen) => InOrder(wire, Len(wire))
BY LineParts DEF LineParted, InOrder

(* Every step keeps the order of the messages. *)
LEMMA OrderStep ==
  TypeOK /\ TypeOK' /\ LockInv /\ ReportInv /\ AskedInv /\ CountInv /\ OrderInv /\ [Next]_vars => OrderInv'
<1> SUFFICES ASSUME TypeOK, TypeOK', LockInv, ReportInv, AskedInv, CountInv, OrderInv, [Next]_vars
             PROVE  OrderInv'
  OBVIOUS
<1>1. CASE ~Writable'
  <2>1. wire' = wire
    BY <1>1, FinishedWritesNothing
  <2>2. \A m, k : Before(m, k) => Before(m, k)'
    BY JoinsLater
  <2>3. InOrder(wire, Len(wire))'
    BY <2>1, <2>2 DEF OrderInv, InOrder
  <2> QED
    BY <1>1, <2>3 DEF OrderInv
<1>2. CASE Writable'
  <2>1. Writable
    BY <1>2, NeverReopens
  <2>2. InOrder(Line, LineLen)' /\ OpenedInv'
    BY <1>2, <2>1, LineMoves, LineStaysInOrder DEF OrderInv
  <2>3. InOrder(wire, Len(wire))'
    BY <2>2, WireOfLine, PTL
  <2> QED
    BY <2>2, <2>3 DEF OrderInv
<1> QED
  BY <1>1, <1>2

(* What one endpoint sends arrives in the order of its calls: neither the  *)
(* two locks nor fragments, streams and control frames in between let a    *)
(* later message, or the close frame, overtake one that is no Blob.        *)
THEOREM MessagesInOrder == Spec => []SentInOrder
<1>1. Init => TypeOK /\ LockInv
  BY InitLocks
<1>2. Init => ReportInv /\ AskedInv /\ CountInv /\ OrderInv
  <2> SUFFICES ASSUME Init PROVE ReportInv /\ AskedInv /\ CountInv /\ OrderInv
    OBVIOUS
  <2>1. ReportInv
    BY DEF Init, ReportInv
  <2>2. Len(asked) = 0 /\ Len(msgQueue) = 0 /\ Len(wire) = 0 /\ Len(frameQueue) = 0
    BY DEF Init
  <2>3. \A c \in Calls : pc[c] = "idle"
    BY DEF Init
  <2>4. AskedInv
    BY <2>2, <2>3, CallSets DEF AskedInv, Asked, Precedes, Holding, Messages
  <2>5. CountInv
    BY <2>3, CallSets DEF Init, CountInv
  <2>6. LineLen = 0
    BY <2>2 DEF LineLen
  <2>7. OrderInv
    BY <2>2, <2>6 DEF OrderInv, InOrder, OpenedInv, Shown
  <2> QED
    BY <2>1, <2>4, <2>5, <2>7
<1>3. TypeOK /\ LockInv /\ [Next]_vars => TypeOK' /\ LockInv'
  BY TypeStep, LockStep DEF LockInv
<1>4. TypeOK /\ AskedInv /\ OrderInv => SentInOrder
  <2> SUFFICES ASSUME TypeOK, AskedInv, OrderInv PROVE SentInOrder
    OBVIOUS
  <2>1. DOMAIN wire = 1..Len(wire) /\ DOMAIN asked = 1..Len(asked)
    BY DEF TypeOK
  <2>2. ASSUME NEW i \in 1..Len(asked) PROVE AskedAt(asked[i]) = i
    <3>1. \A j \in 1..Len(asked) : asked[j] = asked[i] <=> j = i
      BY DEF AskedInv
    <3> QED
      BY <2>1, <3>1 DEF AskedAt
  <2>3. ASSUME NEW m, NEW k, Before(m, k) PROVE AskedAt(m) < AskedAt(k)
    BY <2>2, <2>3 DEF Before
  <2> QED
    BY <2>1, <2>3 DEF SentInOrder, OrderInv, InOrder
<1> QED
  BY <1>1, <1>2, <1>3, <1>4, ReportStep, AskedStep, CountStep, OrderStep, PTL DEF Spec

-----------------------------------------------------------------------------
(* The frames of messages on the first n places of a line. *)
Data(s, n) == {s[i].frame : i \in {j \in 1..n : IsDataHead(s[j])}}

IsDataFrame(f) == f.op \in {"message", "continuation"}

(* Frame f may come after the frames F: it is the first of its message or  *)
(* the next one, and no other message is unfinished.                       *)
Follows(f, F) ==
  /\ f.op = "message" <=> f.n = 1
  /\ f.n > 1 => \E g \in F : g.msg = f.msg /\ g.n = f.n - 1
  /\ \A g \in F : g.msg = f.msg => ~g.fin /\ g.n < f.n
  /\ \A g \in F : g.msg # f.msg => \E e \in F : e.msg = g.msg /\ e.fin

Whole(s, n) == \A i \in 1..n : IsDataHead(s[i]) => Follows(s[i].frame, Data(s, i - 1))

(* Two lines that are the same so far have the same frames. *)
LEMMA SameData ==
  ASSUME NEW s, NEW t, NEW n, \A i \in 1..n : t[i] = s[i]
  PROVE  Data(t, n) = Data(s, n)
BY DEF Data

(* A payload that is put in changes nothing about that. *)
LEMMA InsertedData ==
  ASSUME NEW s, NEW t, NEW n \in Nat, Inserted(s, t, n)
  PROVE  /\ Data(t, n + 1) = Data(s, n)
         /\ Whole(s, n) => Whole(t, n + 1)
<1>1. PICK k \in 1..(n + 1) : /\ t[k].part = "payload"
                              /\ \A i \in 1..(n + 1) : i < k => t[i] = s[i]
                              /\ \A i \in 1..(n + 1) : i > k => t[i] = s[i - 1]
  BY DEF Inserted
<1>2. ~IsDataHead(t[k])
  BY <1>1 DEF IsDataHead
<1>3. ASSUME NEW i \in 0..(n + 1), i < k PROVE Data(t, i) = Data(s, i)
  <2>1. \A j \in 1..i : t[j] = s[j]
    BY <1>1, <1>3
  <2> QED
    BY <2>1, SameData
<1>4. ASSUME NEW i \in 0..(n + 1), i >= k PROVE Data(t, i) = Data(s, i - 1)
  <2>1. \A j \in 1..i : j # k => \E l \in 1..(i - 1) : t[j] = s[l]
    <3> SUFFICES ASSUME NEW j \in 1..i, j # k PROVE \E l \in 1..(i - 1) : t[j] = s[l]
      OBVIOUS
    <3>1. CASE j < k
      BY <1>1, <1>4, <3>1
    <3>2. CASE j > k
      <4>1. j - 1 \in 1..(i - 1) /\ t[j] = s[j - 1]
        BY <1>1, <1>4, <3>2
      <4> QED
        BY <4>1
    <3> QED
      BY <3>1, <3>2
  <2>2. \A l \in 1..(i - 1) : \E j \in 1..i : t[j] = s[l]
    <3> SUFFICES ASSUME NEW l \in 1..(i - 1) PROVE \E j \in 1..i : t[j] = s[l]
      OBVIOUS
    <3>1. CASE l < k
      <4>1. l \in 1..i /\ l \in 1..(n + 1)
        BY <1>4
      <4> QED
        BY <1>1, <3>1, <4>1
    <3>2. CASE l >= k
      <4>1. l + 1 \in 1..i /\ l + 1 \in 1..(n + 1) /\ l + 1 > k /\ (l + 1) - 1 = l
        BY <1>4, <3>2
      <4>2. t[l + 1] = s[(l + 1) - 1]
        BY <1>1, <4>1
      <4> QED
        BY <4>1, <4>2
    <3> QED
      BY <3>1, <3>2
  <2>3. Data(t, i) \subseteq Data(s, i - 1)
    BY <1>2, <2>1 DEF Data
  <2>4. Data(s, i - 1) \subseteq Data(t, i)
    BY <2>2 DEF Data
  <2> QED
    BY <2>3, <2>4
<1>5. Data(t, n + 1) = Data(s, n)
  <2>1. n + 1 \in 0..(n + 1) /\ n + 1 >= k /\ (n + 1) - 1 = n
    OBVIOUS
  <2>2. Data(t, n + 1) = Data(s, (n + 1) - 1)
    BY <1>4, <2>1
  <2> QED
    BY <2>1, <2>2
<1>6. ASSUME Whole(s, n), NEW i \in 1..(n + 1), IsDataHead(t[i])
      PROVE  Follows(t[i].frame, Data(t, i - 1))
  <2>1. i # k
    BY <1>2, <1>6
  <2>2. CASE i < k
    <3>1. i \in 1..n /\ t[i] = s[i] /\ i - 1 \in 0..(n + 1) /\ i - 1 < k
      BY <1>1, <2>2
    <3>2. Data(t, i - 1) = Data(s, i - 1)
      BY <1>3, <3>1
    <3> QED
      BY <1>6, <3>1, <3>2 DEF Whole
  <2>3. CASE i > k
    <3>1. i - 1 \in 1..n /\ t[i] = s[i - 1] /\ i - 1 \in 0..(n + 1) /\ i - 1 >= k
      BY <1>1, <2>3
    <3>2. Data(t, i - 1) = Data(s, (i - 1) - 1)
      BY <1>4, <3>1
    <3> QED
      BY <1>6, <3>1, <3>2 DEF Whole
  <2> QED
    BY <2>1, <2>2, <2>3
<1> QED
  BY <1>5, <1>6 DEF Whole

(* A frame that is put behind is added. *)
LEMMA ExtendedData ==
  ASSUME NEW s, NEW t, NEW n \in Nat, NEW f, Extended(s, t, n, f)
  PROVE  /\ Data(t, n + 1) = IF IsDataFrame(f) THEN Data(s, n) \cup {f} ELSE Data(s, n)
         /\ Whole(s, n) /\ (IsDataFrame(f) => Follows(f, Data(s, n))) => Whole(t, n + 1)
<1>1. /\ \A i \in 1..n : t[i] = s[i]
      /\ t[n + 1].frame = f /\ (IsDataHead(t[n + 1]) <=> IsDataFrame(f))
  BY DEF Extended, IsDataHead, IsDataFrame
<1>2. \A i \in 1..(n + 1) : i \in 1..n \/ i = n + 1
  OBVIOUS
<1>3. n + 1 \in 1..(n + 1) /\ \A i \in 1..n : i \in 1..(n + 1)
  OBVIOUS
<1>4. Data(t, n + 1) = IF IsDataFrame(f) THEN Data(s, n) \cup {f} ELSE Data(s, n)
  <2>1. CASE IsDataFrame(f)
    <3>1. Data(t, n + 1) \subseteq Data(s, n) \cup {f}
      BY <1>1, <1>2 DEF Data
    <3>2. Data(s, n) \cup {f} \subseteq Data(t, n + 1)
      BY <1>1, <1>3, <2>1 DEF Data
    <3> QED
      BY <2>1, <3>1, <3>2
  <2>2. CASE ~IsDataFrame(f)
    <3>1. Data(t, n + 1) \subseteq Data(s, n)
      BY <1>1, <1>2, <2>2 DEF Data
    <3>2. Data(s, n) \subseteq Data(t, n + 1)
      BY <1>1, <1>3 DEF Data
    <3> QED
      BY <2>2, <3>1, <3>2
  <2> QED
    BY <2>1, <2>2
<1>5. ASSUME Whole(s, n), IsDataFrame(f) => Follows(f, Data(s, n)), NEW i \in 1..(n + 1), IsDataHead(t[i])
      PROVE  Follows(t[i].frame, Data(t, i - 1))
  <2>1. Data(t, i - 1) = Data(s, i - 1)
    <3>1. \A j \in 1..(i - 1) : t[j] = s[j]
      BY <1>1
    <3> QED
      BY <3>1, SameData
  <2>2. CASE i \in 1..n
    BY <1>1, <1>5, <2>1, <2>2 DEF Whole
  <2>3. CASE i = n + 1
    <3>1. (n + 1) - 1 = n
      OBVIOUS
    <3> QED
      BY <1>1, <1>5, <2>1, <2>3, <3>1
  <2> QED
    BY <1>2, <2>2, <2>3
<1> QED
  BY <1>4, <1>5 DEF Whole

-----------------------------------------------------------------------------
(* A message that submitted frames, but not its final one. *)
Half(m) ==
  \/ m \in Sends /\ pc[m] \in {"frame", "sent"} /\ next[m] <= Fragments[m]
  \/ m \in Streams /\ pc[m] = "streaming" /\ frameNum[m] > 0

Progress(m) == IF m \in Sends THEN next[m] - 1 ELSE frameNum[m]

Submitting(m) == pc[m] \notin {"idle", "blob", "msgWait"} /\ (m \in Streams => frameNum[m] > 0)

(* The frames F of the messages are those the calls count: all but the     *)
(* final one of a message that is half submitted, the final one too of     *)
(* any other.                                                              *)
ProgressOf(F) ==
  /\ \A f \in F :
       /\ f.msg \in Messages /\ f.n \in Nat \ {0} /\ Submitting(f.msg)
       /\ Half(f.msg) => f.n <= Progress(f.msg) /\ ~f.fin
       /\ ~Half(f.msg) => \E e \in F : e.msg = f.msg /\ e.fin
  /\ \A m \in Messages : Half(m) => \E f \in F : f.msg = m /\ f.n = Progress(m)

(* What a step leaves as it is for message m. *)
Rests(m) ==
  /\ Half(m)' <=> Half(m)
  /\ Half(m) => Progress(m)' = Progress(m)
  /\ Submitting(m) => Submitting(m)'

(* A step that submits no frame of a message. *)
LEMMA ProgressRests ==
  ASSUME NEW F, ProgressOf(F), \A m \in Messages : Rests(m)
  PROVE  ProgressOf(F)'
BY DEF ProgressOf, Rests

(* A step that submits a frame of message m. *)
LEMMA ProgressAdds ==
  ASSUME NEW F, ProgressOf(F), NEW m \in Messages, NEW f, f.msg = m, f.n \in Nat \ {0}, Submitting(m)',
         \A x \in Messages : x # m => Rests(x),
         \/ Half(m)' /\ ~f.fin /\ f.n = Progress(m)' /\ \A g \in F : g.msg = m => ~g.fin /\ g.n <= f.n
         \/ ~Half(m)' /\ f.fin
  PROVE  ProgressOf(F \cup {f})'
<1> DEFINE G == F \cup {f}
<1>1. ASSUME NEW g \in G PROVE g.msg \in Messages /\ g.n \in Nat \ {0} /\ Submitting(g.msg)'
  BY DEF ProgressOf, Rests
<1>2. ASSUME NEW g \in G, Half(g.msg)' PROVE g.n <= Progress(g.msg)' /\ ~g.fin
  <2>1. CASE g.msg = m
    <3>1. Half(m)' /\ ~f.fin /\ f.n = Progress(m)' /\ \A h \in F : h.msg = m => ~h.fin /\ h.n <= f.n
      BY <1>2, <2>1
    <3>2. CASE g = f
      <4>1. f.n <= f.n
        OBVIOUS
      <4> QED
        BY <2>1, <3>1, <3>2, <4>1
    <3>3. CASE g \in F
      BY <2>1, <3>1, <3>3
    <3> QED
      BY <3>2, <3>3
  <2>2. CASE g.msg # m
    BY <1>2, <2>2 DEF ProgressOf, Rests
  <2> QED
    BY <2>1, <2>2
<1>3. ASSUME NEW g \in G, ~Half(g.msg)' PROVE \E e \in G : e.msg = g.msg /\ e.fin
  <2>1. CASE g.msg = m
    BY <1>3, <2>1
  <2>2. CASE g.msg # m
    BY <1>3, <2>2 DEF ProgressOf, Rests
  <2> QED
    BY <2>1, <2>2
<1>4. ASSUME NEW x \in Messages, Half(x)' PROVE \E g \in G : g.msg = x /\ g.n = Progress(x)'
  <2>1. CASE x = m
    BY <1>4, <2>1
  <2>2. CASE x # m
    BY <1>4, <2>2 DEF ProgressOf, Rests
  <2> QED
    BY <2>1, <2>2
<1> HIDE DEF G
<1>5. ProgressOf(G)'
  BY <1>1, <1>2, <1>3, <1>4 DEF ProgressOf
<1> QED
  BY <1>5 DEF G

(* A message that is half submitted holds #msgMutex, so the next frame is  *)
(* the holder's, and follows what is on the line.                          *)
LEMMA HolderFollows ==
  ASSUME TypeOK, LockInv, NEW F, ProgressOf(F), NEW m \in Messages, HoldsMessageLock(m),
         NEW f, f.msg = m, f.op = "message" <=> f.n = 1,
         \/ f.n = 1 /\ \A g \in F : g.msg # m
         \/ Half(m) /\ f.n = Progress(m) + 1 /\ Progress(m) \in Nat
  PROVE  Follows(f, F)
<1>1. ASSUME NEW x \in Messages, Half(x) PROVE x = m
  <2>1. x \in Holding /\ Active(x) /\ pc[x] # "msgWait"
    BY <1>1 DEF Half, Active, Holding
  <2>2. HoldsMessageLock(x)
    BY <2>1, PastLockHolds DEF LockInv
  <2> QED
    BY <2>2 DEF HoldsMessageLock
<1>2. \A g \in F : g.msg # f.msg => \E e \in F : e.msg = g.msg /\ e.fin
  BY <1>1 DEF ProgressOf
<1>3. CASE f.n = 1 /\ \A g \in F : g.msg # m
  BY <1>2, <1>3 DEF Follows
<1>4. CASE Half(m) /\ f.n = Progress(m) + 1 /\ Progress(m) \in Nat
  <2>1. \E g \in F : g.msg = f.msg /\ g.n = f.n - 1
    <3>1. f.n - 1 = Progress(m)
      BY <1>4
    <3> QED
      BY <1>4, <3>1 DEF ProgressOf
  <2>2. \A g \in F : g.msg = f.msg => ~g.fin /\ g.n <= Progress(m) /\ g.n \in Nat
    BY <1>4 DEF ProgressOf
  <2> QED
    BY <1>2, <1>4, <2>1, <2>2 DEF Follows
<1> QED
  BY <1>3, <1>4

(* A message rests whose call and counts are left as they are. *)
LEMMA UntouchedRests ==
  ASSUME NEW m \in Messages, pc'[m] = pc[m],
         m \in Sends => next'[m] = next[m], m \notin Sends => frameNum'[m] = frameNum[m],
         m \in Streams => m \notin Sends
  PROVE  Rests(m)
BY DEF Rests, Half, Progress, Submitting

(* A frame of a message is submitted after those it follows, or none is.   *)
AddsData(F) ==
  \E f : /\ \E c : Joins(c)
         /\ frameQueue'[Len(frameQueue')] = f
         /\ IsDataFrame(f) /\ Follows(f, F) /\ ProgressOf(F \cup {f})'

AddsNone(F) ==
  /\ frameQueue' = frameQueue \/ (\E c : Joins(c) /\ ~IsDataFrame(frameQueue'[Len(frameQueue')]))
  /\ ProgressOf(F)'

(* The holder of #msgMutex submits the frame that is next. *)
LEMMA HolderAdds ==
  ASSUME TypeOK, LockInv, NEW F, ProgressOf(F), NEW m \in Messages, HoldsMessageLock(m),
         NEW c, NEW o, NEW k \in Nat \ {0}, NEW last, NEW carries, NEW p, Submit(c, m, o, k, last, carries, p),
         o \in {"message", "continuation"}, o = "message" <=> k = 1,
         \/ k = 1 /\ \A g \in F : g.msg # m
         \/ Half(m) /\ k = Progress(m) + 1 /\ Progress(m) \in Nat,
         \A x \in Messages : x # m => Rests(x), Submitting(m)',
         \/ Half(m)' /\ ~last /\ k = Progress(m)'
         \/ ~Half(m)' /\ last
  PROVE  AddsData(F)
<1>1. Joins(c)
  BY SubmitJoins
<1>2. PICK f : f = [call |-> c, msg |-> m, op |-> o, n |-> k, fin |-> last, payload |-> carries]
  OBVIOUS
<1>3. frameQueue'[Len(frameQueue')] = f
  BY <1>2, SubmitsLast
<1>4. f.msg = m /\ f.op = o /\ f.n = k /\ f.fin = last
  BY <1>2
<1>5. Follows(f, F)
  BY <1>4, HolderFollows
<1>6. \A g \in F : g.msg = m => ~g.fin /\ g.n <= f.n
  <2>1. \A g \in F : g.msg = m => Half(m) /\ g.n \in Nat
    BY DEF ProgressOf
  <2> QED
    BY <1>4, <2>1 DEF ProgressOf
<1>7. ProgressOf(F \cup {f})'
  <2>1. CASE Half(m)' /\ ~last /\ k = Progress(m)'
    BY <1>4, <1>6, <2>1, ProgressAdds
  <2>2. CASE ~Half(m)' /\ last
    BY <1>4, <2>2, ProgressAdds
  <2> QED
    BY <2>1, <2>2
<1> QED
  BY <1>1, <1>3, <1>4, <1>5, <1>7 DEF AddsData, IsDataFrame

(* The steps of a send(). *)
LEMMA SendAdds ==
  ASSUME TypeOK, LockInv, Writable, CountInv, NEW F, ProgressOf(F), NEW t \in Sends, SendWritten(t),
         Send(t) \/ BlobRead(t) \/ SendGranted(t) \/ SendContinues(t)
  PROVE  AddsData(F) \/ AddsNone(F)
<1>1. /\ t \in Calls /\ t \in Messages /\ t \in Holding /\ t \notin Streams
      /\ next[t] \in Nat \ {0} /\ Fragments[t] \in Nat \ {0}
  BY CallSets, WriterAssumption DEF TypeOK, Holding
<1>2. ASSUME NEW p, pc' = [pc EXCEPT ![t] = p] PROVE pc'[t] = p /\ \A x \in Messages : x # t => pc'[x] = pc[x]
  BY <1>1, <1>2, CallSets DEF TypeOK, Messages
<1>3. CASE SubmitFragment(t)
  <2>1. /\ pc[t] \in {"msgWait", "sent"} /\ HoldsMessageLock(t) /\ next[t] <= Fragments[t]
        /\ pc[t] = "msgWait" => next[t] = 1
        /\ pc[t] = "sent" => next[t] > 1
    <3>1. CASE SendGranted(t)
      <4>1. pc[t] = "msgWait" /\ HoldsMessageLock(t) /\ next[t] = 1
        BY <3>1 DEF SendGranted, CountInv
      <4> QED
        BY <1>1, <4>1
    <3>2. CASE SendContinues(t)
      <4>1. pc[t] = "sent" /\ next[t] > 1
        BY <3>2 DEF SendContinues, SendWritten, CountInv
      <4>2. HoldsMessageLock(t)
        BY <1>1, <4>1, PastLockHolds DEF LockInv, Active
      <4>3. ~(next[t] > Fragments[t])
        BY <1>1, <1>3, <3>2, <4>1 DEF SendContinues, UnlockMessage, SubmitFragment, Submit, TypeOK
      <4> QED
        BY <1>1, <4>1, <4>2, <4>3
    <3>3. CASE ~SendGranted(t) /\ ~SendContinues(t)
      BY <1>1, <1>3, <3>3 DEF Send, BlobRead, LockMessage, SubmitFragment, Submit, TypeOK
    <3> QED
      BY <3>1, <3>2, <3>3
  <2> DEFINE k == next[t]
  <2>2. PICK o \in {"message", "continuation"}, last \in BOOLEAN :
          /\ Submit(t, t, o, k, last, TRUE, "frame")
          /\ o = "message" <=> k = 1
          /\ last <=> k = Fragments[t]
    BY <1>3 DEF SubmitFragment
  <2>3. /\ frameNum' = frameNum /\ \A x \in Sends : next'[x] = IF x = t THEN k + 1 ELSE next[x]
        /\ pc'[t] = "frame" /\ \A x \in Messages : x # t => pc'[x] = pc[x]
    BY <1>1, <1>2, <1>3 DEF SubmitFragment, Submit, TypeOK
  <2>4. \A x \in Messages : x # t => Rests(x)
    BY <2>3, WriterAssumption, UntouchedRests
  <2>5. Submitting(t)'
    BY <1>1, <2>3 DEF Submitting
  <2>6. Progress(t)' = k
    <3>1. (k + 1) - 1 = k
      BY <1>1
    <3> QED
      BY <2>3, <3>1 DEF Progress
  <2>7. Half(t)' <=> k < Fragments[t]
    BY <1>1, <2>3 DEF Half
  <2>8. (Half(t)' /\ ~last) \/ (~Half(t)' /\ last)
    <3>1. k <= Fragments[t] /\ k \in Nat /\ Fragments[t] \in Nat
      BY <1>1, <2>1
    <3>2. k < Fragments[t] <=> k # Fragments[t]
      BY <3>1
    <3> QED
      BY <2>2, <2>7, <3>2
  <2>9. \/ k = 1 /\ \A g \in F : g.msg # t
        \/ Half(t) /\ k = Progress(t) + 1 /\ Progress(t) \in Nat
    <3>1. CASE pc[t] = "msgWait"
      BY <2>1, <3>1 DEF ProgressOf, Submitting
    <3>2. CASE pc[t] = "sent"
      BY <1>1, <2>1, <3>2 DEF Half, Progress
    <3> QED
      BY <2>1, <3>1, <3>2
  <2> HIDE DEF k
  <2>10. k \in Nat \ {0}
    BY <1>1 DEF k
  <2> QED
    BY <1>1, <2>1, <2>2, <2>4, <2>5, <2>6, <2>8, <2>9, <2>10, HolderAdds
<1>4. CASE ~SubmitFragment(t)
  <2>1. /\ UNCHANGED <<next, frameNum, frameQueue>>
        /\ \/ pc[t] = "idle" /\ pc'[t] \in {"blob", "msgWait"}
           \/ pc[t] = "blob" /\ pc'[t] = "msgWait"
           \/ pc[t] = "sent" /\ next[t] > Fragments[t] /\ pc'[t] = "done"
        /\ \A x \in Messages : x # t => pc'[x] = pc[x]
    <3>1. CASE Send(t) \/ BlobRead(t)
      BY <1>2, <3>1 DEF Send, BlobRead, LockMessage
    <3>2. CASE SendContinues(t)
      <4>1. pc[t] = "sent"
        BY <3>2 DEF SendContinues, SendWritten
      <4> QED
        BY <1>2, <1>4, <3>2, <4>1 DEF SendContinues, UnlockMessage
    <3>3. ~SendGranted(t)
      BY <1>4 DEF SendGranted
    <3> QED
      BY <3>1, <3>2, <3>3
  <2>2. Rests(t)
    BY <1>1, <2>1 DEF Rests, Half, Submitting
  <2>3. \A x \in Messages : Rests(x)
    BY <2>1, <2>2, WriterAssumption, UntouchedRests
  <2>4. ProgressOf(F)'
    BY <2>3, ProgressRests
  <2> QED
    BY <2>1, <2>4 DEF AddsNone
<1> QED
  BY <1>3, <1>4

(* What the next lemmas assume: a chunk is one frame, no stream is broken   *)
(* off and none ends without data.  The code breaks MessagesWhole without. *)
WholeStreams == SmallChunks /\ Fragile = {} /\ \A s \in Streams : \E c \in Chunks : Of[c] = s

(* The steps of sendStream() that are no 'data' event. *)
LEMMA StreamAdds ==
  ASSUME WholeStreams, TypeOK, LockInv, Writable, CountInv, ChunkInv, NEW F, ProgressOf(F),
         NEW s \in Streams, Ask(s) \/ StreamGranted(s) \/ StreamClose(s) \/ StreamFinished(s)
  PROVE  AddsData(F) \/ AddsNone(F)
<1>1. s \in Calls /\ s \in Messages /\ s \in Holding /\ s \notin Sends /\ frameNum[s] \in Nat
  BY CallSets, WriterAssumption DEF TypeOK, Holding
<1>2. ASSUME NEW p, pc' = [pc EXCEPT ![s] = p] PROVE pc'[s] = p /\ \A x \in Messages : x # s => pc'[x] = pc[x]
  BY <1>1, <1>2, CallSets DEF TypeOK, Messages
<1>3. CASE StreamClose(s)
  <2>1. pc[s] = "streaming" /\ HoldsMessageLock(s)
    BY <1>1, <1>3, PastLockHolds DEF StreamClose, LockInv, Active
  <2>2. ~StreamBroken(s)
    <3>1. ASSUME NEW c \in Chunks, pc[c] = "done" PROVE ~(next[c] <= Fragments[c])
      <4>1. next[c] > Fragments[c]
        BY <3>1 DEF ChunkInv
      <4>2. next[c] \in Nat /\ Fragments[c] \in Nat
        BY WriterAssumption DEF TypeOK
      <4> QED
        BY <4>1, <4>2
    <3> QED
      BY <3>1 DEF StreamBroken, WholeStreams
  <2>3. frameNum[s] > 0
    <3>1. PICK c \in Chunks : Of[c] = s
      BY DEF WholeStreams
    <3> QED
      BY <1>3, <2>2, <3>1 DEF StreamClose, CountInv
  <2> DEFINE k == frameNum[s] + 1
  <2>4. Submit(s, s, "continuation", k, TRUE, FALSE, "final") /\ UNCHANGED <<next, frameNum>>
    BY <1>3 DEF StreamClose
  <2>5. pc'[s] = "final" /\ \A x \in Messages : x # s => pc'[x] = pc[x]
    BY <1>2, <2>4 DEF Submit
  <2>6. \A x \in Messages : x # s => Rests(x)
    BY <2>4, <2>5, WriterAssumption, UntouchedRests
  <2>7. Submitting(s)' /\ ~Half(s)'
    BY <1>1, <2>3, <2>4, <2>5 DEF Submitting, Half
  <2>8. Half(s) /\ k = Progress(s) + 1 /\ Progress(s) \in Nat
    BY <1>1, <2>1, <2>3 DEF Half, Progress
  <2>9. k \in Nat \ {0} /\ k # 1
    BY <1>1, <2>3
  <2> HIDE DEF k
  <2> QED
    BY <1>1, <2>1, <2>4, <2>6, <2>7, <2>8, <2>9, HolderAdds
<1>4. CASE ~StreamClose(s)
  <2>1. /\ UNCHANGED <<next, frameNum, frameQueue>>
        /\ \/ pc[s] = "idle" /\ pc'[s] = "msgWait"
           \/ pc[s] = "msgWait" /\ pc'[s] = "streaming" /\ frameNum[s] = 0
           \/ pc[s] \in {"sent", "failed"} /\ pc'[s] = "done"
        /\ \A x \in Messages : x # s => pc'[x] = pc[x]
    <3>1. CASE Ask(s)
      BY <1>2, <3>1 DEF Ask, LockMessage
    <3>2. CASE StreamGranted(s)
      BY <1>2, <3>2 DEF StreamGranted, CountInv
    <3>3. CASE StreamFinished(s)
      BY <1>2, <3>3 DEF StreamFinished, UnlockMessage
    <3> QED
      BY <1>4, <3>1, <3>2, <3>3
  <2>2. Rests(s)
    BY <1>1, <2>1 DEF Rests, Half, Submitting
  <2>3. \A x \in Messages : Rests(x)
    BY <2>1, <2>2, WriterAssumption, UntouchedRests
  <2>4. ProgressOf(F)'
    BY <2>3, ProgressRests
  <2> QED
    BY <2>1, <2>4 DEF AddsNone
<1> QED
  BY <1>3, <1>4

(* Those of its 'data' events. *)
LEMMA ChunkAdds ==
  ASSUME WholeStreams, TypeOK, LockInv, Writable, CountInv, ChunkInv, NEW F, ProgressOf(F),
         NEW c \in Chunks, StreamData(c) \/ ChunkContinues(c)
  PROVE  AddsData(F) \/ AddsNone(F)
<1> DEFINE s == Of[c]
<1>1. /\ c \in Calls /\ s \in Streams /\ s \in Messages /\ s \in Holding /\ s \notin Sends
      /\ c \notin Messages /\ frameNum[s] \in Nat
  BY CallSets, WriterAssumption DEF TypeOK, Holding
<1>2. ASSUME NEW p, pc' = [pc EXCEPT ![c] = p] PROVE \A x \in Messages : pc'[x] = pc[x]
  BY <1>1, <1>2, CallSets DEF TypeOK, Messages
<1>3. CASE StreamData(c)
  <2>1. pc[s] = "streaming" /\ HoldsMessageLock(s)
    BY <1>1, <1>3, PastLockHolds DEF StreamData, LockInv, Active
  <2> DEFINE k == frameNum[s] + 1
  <2>2. PICK o \in {"message", "continuation"} :
          Submit(c, s, o, k, FALSE, TRUE, "frame") /\ (o = "message" <=> frameNum[s] = 0)
    BY <1>3 DEF StreamData, SubmitChunk
  <2>3. /\ \A x \in Streams : frameNum'[x] = IF x = s THEN k ELSE frameNum[x]
        /\ \A x \in Sends : next'[x] = next[x]
        /\ \A x \in Messages : pc'[x] = pc[x]
    <3>1. \A x \in Streams : frameNum'[x] = IF x = s THEN k ELSE frameNum[x]
      BY <1>1, <1>3 DEF StreamData, SubmitChunk, TypeOK
    <3>2. \A x \in Sends : next'[x] = next[x]
      BY <1>1, <1>3, CallSets DEF StreamData, SubmitChunk, TypeOK, Messages
    <3> QED
      BY <1>2, <2>2, <3>1, <3>2 DEF Submit
  <2>4. \A x \in Messages : x # s => Rests(x)
    BY <2>3, WriterAssumption, UntouchedRests DEF Messages
  <2>5. k \in Nat \ {0} /\ k > 0 /\ (k = 1 <=> frameNum[s] = 0)
    BY <1>1
  <2>6. Submitting(s)' /\ Half(s)' /\ k = Progress(s)'
    BY <1>1, <2>1, <2>3, <2>5 DEF Submitting, Half, Progress
  <2>7. \/ k = 1 /\ \A g \in F : g.msg # s
        \/ Half(s) /\ k = Progress(s) + 1 /\ Progress(s) \in Nat
    <3>1. CASE frameNum[s] = 0
      BY <1>1, <2>5, <3>1 DEF ProgressOf, Submitting
    <3>2. CASE frameNum[s] > 0
      BY <1>1, <2>1, <3>2 DEF Half, Progress
    <3> QED
      BY <1>1, <3>1, <3>2
  <2> HIDE DEF k, s
  <2> QED
    BY <1>1, <2>1, <2>2, <2>4, <2>5, <2>6, <2>7, HolderAdds
<1>4. CASE ~StreamData(c)
  <2>1. pc[c] \in {"sent", "failed"} /\ next[c] > Fragments[c]
    BY <1>4 DEF ChunkContinues, ChunkInv
  <2>2. UNCHANGED <<next, frameNum, frameQueue>> /\ \A x \in Messages : pc'[x] = pc[x]
    BY <1>2, <1>4, <2>1 DEF ChunkContinues
  <2>3. \A x \in Messages : Rests(x)
    BY <2>2, WriterAssumption, UntouchedRests
  <2>4. ProgressOf(F)'
    BY <2>3, ProgressRests
  <2> QED
    BY <2>2, <2>4 DEF AddsNone
<1> QED
  BY <1>3, <1>4

(* A ping, a pong or the close frame adds nothing to the messages. *)
LEMMA LastAdds ==
  ASSUME TypeOK, NEW F, ProgressOf(F),
         (\E c \in Controls : Control(c)) \/ Ask(Closing) \/ CloseGranted
  PROVE  AddsNone(F)
<1>1. ASSUME NEW c \in Controls \cup {Closing}, NEW p, pc' = [pc EXCEPT ![c] = p]
      PROVE  \A x \in Messages : pc'[x] = pc[x]
  BY <1>1, CallSets, WriterAssumption DEF TypeOK, Messages
<1>2. (\A x \in Messages : pc'[x] = pc[x]) /\ UNCHANGED <<next, frameNum>>
  BY <1>1 DEF Control, Submit, Ask, LockMessage, CloseGranted
<1>3. ProgressOf(F)'
  <2>1. \A x \in Messages : Rests(x)
    BY <1>2, WriterAssumption, UntouchedRests
  <2> QED
    BY <2>1, ProgressRests
<1>4. ASSUME NEW c, NEW m, NEW o, NEW k, NEW last, NEW carries, NEW p,
             Submit(c, m, o, k, last, carries, p), o \in {"control", "close"}
      PROVE  Joins(c) /\ ~IsDataFrame(frameQueue'[Len(frameQueue')])
  <2>1. Joins(c)
    BY <1>4, SubmitJoins
  <2>2. frameQueue'[Len(frameQueue')] =
          [call |-> c, msg |-> m, op |-> o, n |-> k, fin |-> last, payload |-> carries]
    BY <1>4, SubmitsLast
  <2>3. frameQueue'[Len(frameQueue')].op = o
    BY <2>2
  <2> QED
    BY <1>4, <2>1, <2>3 DEF IsDataFrame
<1>5. \/ frameQueue' = frameQueue
      \/ \E c : \E o \in {"control", "close"} : Submit(c, c, o, 1, TRUE, TRUE, "frame")
  BY DEF Control, Ask, LockMessage, CloseGranted
<1> QED
  BY <1>3, <1>4, <1>5 DEF AddsNone

(* Nor does writing. *)
LEMMA WriterRests ==
  ASSUME TypeOK, LockInv, ReportInv, CountInv, Writable, Writable', NEW F, ProgressOf(F),
         GrantFrame \/ WriteHead \/ WritePayload \/ Drain \/ End \/ Destroy \/ SocketError
  PROVE  ProgressOf(F)'
<1>1. UNCHANGED <<next, frameNum>>
  BY WriterStep DEF FrameUnchanged
<1>2. \A x \in Messages : \/ pc'[x] = pc[x]
                          \/ pc[x] \in {"frame", "final"} /\ pc'[x] = "sent"
  <2>1. pc' = pc \/ (frameQueue # <<>> /\ Resumes /\ pc' # pc)
    BY WriterStep DEF WritesNothing, WritesHead, WritesFrame, WritesPayload
  <2>2. CASE pc' = pc
    BY <2>2
  <2>3. CASE pc' # pc
    <3>1. PICK c \in Calls : \E p \in {"sent", "failed"} :
            pc[c] \in {"frame", "final"} /\ pc' = [pc EXCEPT ![c] = p]
      BY <2>3, AnsweredCall
    <3>2. writing # "stuck"
      BY <2>3 DEF GrantFrame, WriteHead, WritePayload, SocketError, Drain, End, Destroy
    <3>3. \A x \in Calls : pc'[x] = IF x = frameQueue[1].call THEN "sent" ELSE pc[x]
      BY <2>1, <2>3, <3>2, ResumesFirst
    <3>4. pc[frameQueue[1].call] \in {"frame", "final"}
      BY <2>1, <2>3, <3>2, ResumesFirst
    <3> QED
      BY <3>3, <3>4, CallSets DEF Messages
  <2> QED
    BY <2>2, <2>3
<1>3. ASSUME NEW m \in Messages PROVE Rests(m)
  <2>1. CASE m \in Sends
    <3>1. pc[m] # "final" /\ m \notin Streams
      BY <2>1, WriterAssumption DEF CountInv
    <3> QED
      BY <1>1, <1>2, <2>1, <3>1 DEF Rests, Half, Progress, Submitting
  <2>2. CASE m \notin Sends
    BY <1>1, <1>2, <2>2 DEF Rests, Half, Progress, Submitting
  <2> QED
    BY <2>1, <2>2
<1> QED
  BY <1>3, ProgressRests

(* The messages on the wire are whole; so are those on the line while the  *)
(* socket is open, and the calls know how far each is.                     *)
ProgressInv == \E F : F = Data(Line, LineLen) /\ ProgressOf(F)

WholeInv ==
  /\ Whole(wire, Len(wire))
  /\ Writable => Whole(Line, LineLen) /\ ProgressInv

(* What happens to the frames of messages on the line. *)
LEMMA LineData ==
  ASSUME TypeOK, NEW F, F = Data(Line, LineLen), Whole(Line, LineLen)
  PROVE  /\ LineStays \/ LineFills => F = Data(Line', LineLen') /\ Whole(Line', LineLen')
         /\ \A f : LineTakes(f) /\ ~IsDataFrame(f) => F = Data(Line', LineLen') /\ Whole(Line', LineLen')
         /\ \A f : LineTakes(f) /\ IsDataFrame(f) /\ Follows(f, F)
                   => F \cup {f} = Data(Line', LineLen') /\ Whole(Line', LineLen')
<1> DEFINE s == Line
           t == Line'
           n == LineLen
<1>1. n \in Nat
  BY LineParts DEF LineParted
<1> HIDE DEF s, t, n
<1>2. ASSUME LineStays PROVE F = Data(t, LineLen') /\ Whole(t, LineLen')
  <2>1. LineLen' = n /\ \A i \in 1..n : t[i] = s[i]
    BY <1>2 DEF LineStays, s, t, n
  <2>2. \A i \in 1..n : \A j \in 1..(i - 1) : t[j] = s[j]
    BY <1>1, <2>1
  <2>3. \A i \in 1..n : Data(t, i - 1) = Data(s, i - 1)
    BY <2>2, SameData
  <2>4. Data(t, n) = Data(s, n)
    BY <2>1, SameData
  <2>5. F = Data(s, n) /\ Whole(s, n)
    BY DEF s, n
  <2> QED
    BY <2>1, <2>3, <2>4, <2>5 DEF Whole
<1>3. ASSUME LineFills PROVE F = Data(t, LineLen') /\ Whole(t, LineLen')
  <2>1. LineLen' = n + 1 /\ Inserted(s, t, n)
    BY <1>3 DEF LineFills, s, t, n
  <2>2. F = Data(s, n) /\ Whole(s, n)
    BY DEF s, n
  <2> QED
    BY <1>1, <2>1, <2>2, InsertedData
<1>4. ASSUME NEW f, LineTakes(f), IsDataFrame(f) => Follows(f, F)
      PROVE  /\ Data(t, LineLen') = IF IsDataFrame(f) THEN F \cup {f} ELSE F
             /\ Whole(t, LineLen')
  <2>1. LineLen' = n + 1 /\ Extended(s, t, n, f)
    BY <1>4 DEF LineTakes, s, t, n
  <2>2. F = Data(s, n) /\ Whole(s, n)
    BY DEF s, n
  <2> QED
    BY <1>1, <1>4, <2>1, <2>2, ExtendedData
<1>5. LineStays \/ LineFills => F = Data(Line', LineLen') /\ Whole(Line', LineLen')
  BY <1>2, <1>3 DEF t
<1>6. ASSUME NEW f, LineTakes(f), ~IsDataFrame(f)
      PROVE  F = Data(Line', LineLen') /\ Whole(Line', LineLen')
  BY <1>4, <1>6 DEF t
<1>7. ASSUME NEW f, LineTakes(f), IsDataFrame(f), Follows(f, F)
      PROVE  F \cup {f} = Data(Line', LineLen') /\ Whole(Line', LineLen')
  BY <1>4, <1>7 DEF t
<1> QED
  BY <1>5, <1>6, <1>7

(* While the socket is open the line stays whole. *)
LEMMA WholeLine ==
  ASSUME WholeStreams, TypeOK, TypeOK', LockInv, ReportInv, CountInv, ChunkInv, WrittenInv,
         Writable, Writable', [Next]_vars, Whole(Line, LineLen), ProgressInv
  PROVE  Whole(Line, LineLen)' /\ ProgressInv'
<1>1. PICK F : F = Data(Line, LineLen) /\ ProgressOf(F)
  BY DEF ProgressInv
<1>2. ASSUME LineStays \/ LineFills, ProgressOf(F)'
      PROVE  Whole(Line, LineLen)' /\ ProgressInv'
  <2>1. F = Data(Line', LineLen') /\ Whole(Line', LineLen')
    BY <1>1, <1>2, LineData
  <2> QED
    BY <1>2, <2>1 DEF ProgressInv
<1>3. CASE UNCHANGED vars
  <2>1. LineStays
    BY <1>3, CallerKeepsLine DEF vars, socket
  <2>2. \A m \in Messages : Rests(m)
    BY <1>3, WriterAssumption, UntouchedRests DEF vars
  <2>3. ProgressOf(F)'
    BY <1>1, <2>2, ProgressRests
  <2> QED
    BY <1>2, <2>1, <2>3
<1>4. CASE \/ \E t \in Sends : Send(t) \/ BlobRead(t) \/ SendGranted(t) \/ SendContinues(t)
           \/ \E s \in Streams : Ask(s) \/ StreamGranted(s) \/ StreamClose(s) \/ StreamFinished(s)
           \/ \E c \in Chunks : StreamData(c) \/ ChunkContinues(c)
           \/ \E c \in Controls : Control(c)
           \/ Ask(Closing) \/ CloseGranted
  <2>1. UNCHANGED <<wire, writing>>
    BY <1>4, CallerStep
  <2>2. AddsData(F) \/ AddsNone(F)
    <3>1. ASSUME NEW t \in Sends, Send(t) \/ BlobRead(t) \/ SendGranted(t) \/ SendContinues(t)
          PROVE  AddsData(F) \/ AddsNone(F)
      <4>1. SendWritten(t)
        BY DEF WrittenInv
      <4> QED
        BY <1>1, <3>1, <4>1, SendAdds
    <3> QED
      BY <1>1, <1>4, <3>1, StreamAdds, ChunkAdds, LastAdds
  <2>3. CASE AddsData(F)
    <3>1. PICK f : /\ \E c : Joins(c)
                   /\ frameQueue'[Len(frameQueue')] = f
                   /\ IsDataFrame(f) /\ Follows(f, F) /\ ProgressOf(F \cup {f})'
      BY <2>3 DEF AddsData
    <3>2. LineTakes(f)
      BY <2>1, <3>1, CallerKeepsLine
    <3>3. F \cup {f} = Data(Line', LineLen') /\ Whole(Line', LineLen')
      BY <1>1, <3>1, <3>2, LineData
    <3> QED
      BY <3>1, <3>3 DEF ProgressInv
  <2>4. CASE AddsNone(F)
    <3>1. CASE frameQueue' = frameQueue
      BY <1>2, <2>1, <2>4, <3>1, CallerKeepsLine DEF AddsNone
    <3>2. CASE frameQueue' # frameQueue
      <4>1. PICK f : f = frameQueue'[Len(frameQueue')]
        OBVIOUS
      <4>2. LineTakes(f) /\ ~IsDataFrame(f)
        BY <2>1, <2>4, <3>2, <4>1, CallerKeepsLine DEF AddsNone
      <4>3. F = Data(Line', LineLen') /\ Whole(Line', LineLen')
        BY <1>1, <4>2, LineData
      <4> QED
        BY <2>4, <4>3 DEF AddsNone, ProgressInv
    <3> QED
      BY <3>1, <3>2
  <2> QED
    BY <2>2, <2>3, <2>4
<1>5. CASE GrantFrame \/ WriteHead \/ WritePayload \/ Drain \/ End \/ Destroy \/ SocketError
  BY <1>1, <1>2, <1>5, LineStep, WriterRests
<1> QED
  BY <1>3, <1>4, <1>5 DEF Next

(* The wire is the beginning of the line. *)
LEMMA WholeOfLine == TypeOK /\ Whole(Line, LineLen) => Whole(wire, Len(wire))
<1> SUFFICES ASSUME TypeOK, Whole(Line, LineLen), NEW i \in 1..Len(wire), IsDataHead(wire[i])
             PROVE  Follows(wire[i].frame, Data(wire, i - 1))
  BY DEF Whole
<1>1. Len(wire) \in Nat /\ \A j \in 1..Len(wire) : j \in 1..LineLen /\ Line[j] = wire[j]
  BY LineParts DEF LineParted
<1>2. \A j \in 1..(i - 1) : Line[j] = wire[j]
  BY <1>1
<1>3. Data(Line, i - 1) = Data(wire, i - 1)
  BY <1>2, SameData
<1> QED
  BY <1>1, <1>3 DEF Whole

(* Every step keeps the messages whole. *)
LEMMA WholeStep ==
  WholeStreams /\ TypeOK /\ TypeOK' /\ LockInv /\ ReportInv /\ CountInv /\ ChunkInv /\ WrittenInv /\ WholeInv
    /\ [Next]_vars => WholeInv'
<1> SUFFICES ASSUME WholeStreams, TypeOK, TypeOK', LockInv, ReportInv, CountInv, ChunkInv, WrittenInv, WholeInv,
                    [Next]_vars
             PROVE  WholeInv'
  OBVIOUS
<1>1. CASE ~Writable'
  <2>1. wire' = wire
    BY <1>1, FinishedWritesNothing
  <2>2. Whole(wire, Len(wire))'
    BY <2>1 DEF WholeInv
  <2> QED
    BY <1>1, <2>2 DEF WholeInv
<1>2. CASE Writable'
  <2>1. Writable
    BY <1>2, NeverReopens
  <2>2. Whole(Line, LineLen)' /\ ProgressInv'
    BY <1>2, <2>1, WholeLine DEF WholeInv
  <2>3. Whole(wire, Len(wire))'
    BY <2>2, WholeOfLine, PTL
  <2> QED
    BY <2>2, <2>3 DEF WholeInv
<1> QED
  BY <1>1, <1>2

(* What MessagesWhole says of two frames in a row follows. *)
LEMMA WholeMessages == TypeOK /\ Whole(wire, Len(wire)) => MessagesWhole
<1> SUFFICES ASSUME TypeOK, Whole(wire, Len(wire)) PROVE MessagesWhole
  OBVIOUS
<1>0. DOMAIN wire = 1..Len(wire)
  BY DEF TypeOK
<1> SUFFICES ASSUME NEW j \in 1..Len(wire), IsDataHead(wire[j])
             PROVE  LET f == wire[j].frame
                    IN  IF f.op = "message"
                        THEN f.n = 1 /\ \A g \in DataFrameBefore(j) : g.fin
                        ELSE \E g \in DataFrameBefore(j) : ~g.fin /\ f.msg = g.msg /\ f.n = g.n + 1
  BY <1>0, Zenon DEF MessagesWhole
<1> DEFINE f == wire[j].frame
<1>1. Len(wire) \in Nat /\ \A i \in 1..Len(wire) : wire[i] \in Parts /\ wire[i].frame \in Frames
  <2>1. \A i \in 1..Len(wire) : wire[i] \in Parts
    BY DEF TypeOK
  <2> QED
    BY <2>1 DEF TypeOK, Parts
<1>2. \A i \in 1..Len(wire) : wire[i].frame.n \in Nat \ {0} /\ wire[i].frame.op \in Ops
  BY <1>1 DEF Frames
<1>3. f \in Frames /\ f.n \in Nat \ {0} /\ (f.op = "message" <=> f.n = 1) /\ Follows(f, Data(wire, j - 1))
  BY <1>1, <1>2 DEF Whole, Follows
<1>4. ASSUME NEW k \in 1..(j - 1), IsDataHead(wire[k])
      PROVE  /\ k \in 1..Len(wire) /\ wire[k].frame \in Data(wire, j - 1)
             /\ Follows(wire[k].frame, Data(wire, k - 1))
             /\ wire[k].frame.msg = f.msg => ~wire[k].frame.fin /\ wire[k].frame.n < f.n
             /\ wire[k].frame.msg # f.msg =>
                  \E l \in 1..(j - 1) : IsDataHead(wire[l]) /\ wire[l].frame.msg = wire[k].frame.msg /\ wire[l].frame.fin
  <2>1. k \in 1..Len(wire)
    BY <1>1
  <2>2. wire[k].frame \in Data(wire, j - 1)
    BY <1>4 DEF Data
  <2>3. Follows(wire[k].frame, Data(wire, k - 1))
    BY <1>4, <2>1 DEF Whole
  <2>4. wire[k].frame.msg = f.msg => ~wire[k].frame.fin /\ wire[k].frame.n < f.n
    BY <1>3, <2>2 DEF Follows
  <2>5. wire[k].frame.msg # f.msg =>
          \E l \in 1..(j - 1) : IsDataHead(wire[l]) /\ wire[l].frame.msg = wire[k].frame.msg /\ wire[l].frame.fin
    BY <1>3, <2>2 DEF Follows, Data
  <2> QED
    BY <2>1, <2>2, <2>3, <2>4, <2>5
<1>5. ASSUME NEW k \in 1..(j - 1), IsDataHead(wire[k]), \A l \in (k + 1)..(j - 1) : ~IsDataHead(wire[l]),
             wire[k].frame.msg # f.msg
      PROVE  wire[k].frame.fin
  <2>1. PICK l \in 1..(j - 1) : IsDataHead(wire[l]) /\ wire[l].frame.msg = wire[k].frame.msg /\ wire[l].frame.fin
    BY <1>4, <1>5
  <2>2. l <= k
    BY <1>1, <1>5, <2>1
  <2>3. CASE l < k
    <3>1. l \in 1..(k - 1)
      BY <2>3
    <3>2. wire[l].frame \in Data(wire, k - 1)
      BY <2>1, <3>1 DEF Data
    <3>3. Follows(wire[k].frame, Data(wire, k - 1))
      BY <1>4, <1>5
    <3> QED
      BY <2>1, <3>2, <3>3 DEF Follows
  <2> QED
    BY <2>1, <2>2, <2>3
<1>6. CASE f.op = "message"
  <2>1. f.n = 1
    BY <1>3, <1>6
  <2>2. ASSUME NEW k \in 1..(j - 1), IsDataHead(wire[k]), \A l \in (k + 1)..(j - 1) : ~IsDataHead(wire[l])
        PROVE  wire[k].frame.fin
    <3>1. wire[k].frame.msg # f.msg
      <4>1. wire[k].frame.msg = f.msg => wire[k].frame.n < 1 /\ k \in 1..Len(wire)
        BY <1>4, <2>1, <2>2
      <4> QED
        BY <1>2, <4>1
    <3> QED
      BY <1>5, <2>2, <3>1
  <2> QED
    BY <1>6, <2>1, <2>2 DEF DataFrameBefore
<1>7. CASE f.op # "message"
  <2>1. f.n > 1
    BY <1>3, <1>7
  <2>2. PICK k \in 1..(j - 1) : IsDataHead(wire[k]) /\ wire[k].frame.msg = f.msg /\ wire[k].frame.n = f.n - 1
    BY <1>3, <2>1 DEF Follows, Data
  <2>3. k \in 1..Len(wire) /\ ~wire[k].frame.fin /\ f.n = wire[k].frame.n + 1
    BY <1>3, <1>4, <2>2
  <2>4. ASSUME NEW l \in (k + 1)..(j - 1), IsDataHead(wire[l]) PROVE FALSE
    <3>1. l \in 1..(j - 1) /\ l \in 1..Len(wire) /\ k \in 1..(l - 1)
      BY <1>1, <2>3
    <3>2. wire[k].frame \in Data(wire, l - 1)
      BY <2>2, <3>1 DEF Data
    <3>3. Follows(wire[l].frame, Data(wire, l - 1))
      BY <1>4, <2>4, <3>1
    <3>4. CASE wire[l].frame.msg = f.msg
      <4>1. wire[l].frame.n < f.n
        BY <1>4, <2>4, <3>1, <3>4
      <4>2. f.n - 1 < wire[l].frame.n
        BY <2>2, <3>2, <3>3, <3>4 DEF Follows
      <4> QED
        BY <1>2, <1>3, <3>1, <4>1, <4>2
    <3>5. CASE wire[l].frame.msg # f.msg
      <4>1. PICK e \in 1..(l - 1) : IsDataHead(wire[e]) /\ wire[e].frame.msg = f.msg /\ wire[e].frame.fin
        BY <2>2, <3>2, <3>3, <3>5 DEF Follows, Data
      <4>2. e \in 1..(j - 1)
        BY <3>1
      <4> QED
        BY <1>4, <4>1, <4>2
    <3> QED
      BY <3>4, <3>5
  <2>5. wire[k].frame \in DataFrameBefore(j)
    BY <2>2, <2>4 DEF DataFrameBefore
  <2> QED
    BY <1>7, <2>2, <2>3, <2>5
<1> QED
  BY <1>6, <1>7

(* With chunks of one frame each, from streams that have some and end, the *)
(* frames of two messages never mix: neither a stream, a Blob nor a large  *)
(* message lets another one in before its final frame.                     *)
THEOREM MessagesStayWhole == WholeStreams => (Spec => []MessagesWhole)
<1> SUFFICES ASSUME WholeStreams PROVE Spec => []MessagesWhole
  OBVIOUS
<1>1. Init => TypeOK /\ LockInv
  BY InitLocks
<1>2. Init => ReportInv /\ CountInv /\ ChunkInv /\ WrittenInv /\ WholeInv
  <2> SUFFICES ASSUME Init PROVE ReportInv /\ CountInv /\ ChunkInv /\ WrittenInv /\ WholeInv
    OBVIOUS
  <2>1. ReportInv
    BY DEF Init, ReportInv
  <2>2. Len(wire) = 0 /\ Len(frameQueue) = 0 /\ \A c \in Calls : pc[c] = "idle"
    BY DEF Init
  <2>3. CountInv /\ ChunkInv
    BY <2>2, CallSets DEF Init, CountInv, ChunkInv
  <2>4. WrittenInv
    BY <2>2, CallSets DEF Init, WrittenInv, SendWritten
  <2>5. LineLen = 0
    BY <2>2 DEF LineLen
  <2>6. \A s : Whole(s, 0) /\ Data(s, 0) = {}
    BY DEF Whole, Data
  <2>7. ProgressInv
    <3>1. ProgressOf({})
      BY <2>2, CallSets DEF ProgressOf, Half, Messages
    <3> QED
      BY <2>5, <2>6, <3>1 DEF ProgressInv
  <2> QED
    BY <2>1, <2>2, <2>3, <2>4, <2>5, <2>6, <2>7 DEF WholeInv
<1>3. TypeOK /\ LockInv /\ [Next]_vars => TypeOK' /\ LockInv'
  BY TypeStep, LockStep DEF LockInv
<1>4. TypeOK /\ LockInv /\ ChunkInv /\ [Next]_vars => ChunkInv'
  BY ChunkStep DEF WholeStreams
<1>5. TypeOK /\ TypeOK' /\ LockInv /\ ReportInv /\ CountInv /\ ChunkInv /\ WrittenInv /\ WholeInv /\ [Next]_vars
        => WholeInv'
  BY WholeStep
<1>6. TypeOK /\ WholeInv => MessagesWhole
  BY WholeMessages DEF WholeInv
<1> QED
  BY <1>1, <1>2, <1>3, <1>4, <1>5, <1>6, ReportStep, CountStep, WrittenStep, PTL DEF Spec
=============================================================================
