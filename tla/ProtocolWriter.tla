--------------------------- MODULE ProtocolWriter ---------------------------
(***************************************************************************)
(* source/protocolWriter.js: everything an endpoint sends goes through one *)
(* ProtocolWriter.  A message (send, sendStream) and the close frame hold  *)
(* #msgMutex from their first frame to their last; every frame, pings and  *)
(* pongs included, holds #frameMutex while it is written to the socket.    *)
(* The two mutexes are the queues a FifoLock specifies: whoever is first   *)
(* in the queue holds the lock (MutexProofs shows that Mutex does that).   *)
(*                                                                         *)
(* An operator no action uses is a plausible mistake in the one after it,  *)
(* kept to show which property would notice.                               *)
(*                                                                         *)
(* A step is what runs up to the next await.  The socket is node's         *)
(* Writable, modelled from what the writer relies on: "drain" comes only   *)
(* while it is open, a write after end() destroys it with an error, and a  *)
(* write to a destroyed socket is dropped in silence.                      *)
(***************************************************************************)
EXTENDS Naturals, Sequences, FiniteSets

CONSTANTS Sends,      \* calls of send()
          Blobs,      \* those of them whose data is a Blob
          Streams,    \* calls of sendStream()
          Chunks,     \* the 'data' events of those streams
          Fragile,    \* streams that may be destroyed before they end
          Controls,   \* calls of ping() and pong(), with a payload
          Closing,    \* the only call of close()
          Fragments,  \* how many frames a message or a chunk is cut into
          Of,         \* the stream of a chunk
          Faults      \* what may happen to the socket: "end", "destroy", "error"

Messages == Sends \cup Streams
Calls == Messages \cup Chunks \cup Controls \cup {Closing}

ASSUME WriterAssumption ==
  /\ Blobs \subseteq Sends
  /\ Fragile \subseteq Streams
  /\ Faults \subseteq {"end", "destroy", "error"}
  /\ Of \in [Chunks -> Streams]
  /\ Fragments \in [Sends \cup Chunks -> Nat \ {0}]
  /\ Sends \cap Streams = {} /\ Messages \cap Chunks = {}
  /\ Controls \cap (Messages \cup Chunks) = {}
  /\ Closing \notin Messages \cup Chunks \cup Controls

VARIABLES pc,         \* where each call is
          next,       \* the fragment a send or a chunk handler writes next
          frameNum,   \* sendStream's count of the frames it started
          msgQueue,   \* who called #msgMutex.lock() and has not unlocked
          frameQueue, \* the frames whose writeFrame() called #frameMutex.lock()
          writing,    \* where writeFrame() is with the frame it holds the lock for
          backlog,    \* the sends whose length bufferedAmount counts
          io,         \* the socket: "open", "ended", "destroyed"
          errored,    \* ioStream.errored
          needDrain,  \* its writableNeedDrain while it is open
          wire,       \* what it accepted, in order
          reports,    \* calls of errorHandler
          asked       \* history: the messages and the close in the order of the calls

socket == <<io, errored, needDrain, wire, reports>>
vars == <<pc, next, frameNum, msgQueue, frameQueue, writing, backlog, socket, asked>>

Pcs == {"idle", "blob", "msgWait", "frame", "sent", "failed", "streaming",
        "final", "rejected", "done"}
Ops == {"message", "continuation", "control", "close"}
Frames == [call : Calls, msg : Calls, op : Ops, n : Nat \ {0}, fin : BOOLEAN,
           payload : BOOLEAN]
Parts == [frame : Frames, part : {"head", "payload"}]

TypeOK ==
  /\ pc \in [Calls -> Pcs]
  /\ next \in [Sends \cup Chunks -> Nat \ {0}]
  /\ frameNum \in [Streams -> Nat]
  /\ msgQueue \in Seq(Messages \cup {Closing})
  /\ frameQueue \in Seq(Frames)
  /\ writing \in {"free", "head", "headDrain", "payload", "payloadDrain", "stuck"}
  /\ backlog \subseteq Sends
  /\ io \in {"open", "ended", "destroyed"}
  /\ errored \in BOOLEAN /\ needDrain \in BOOLEAN
  /\ wire \in Seq(Parts)
  /\ reports \in Nat
  /\ asked \in Seq(Messages \cup {Closing})

Init ==
  /\ pc = [c \in Calls |-> "idle"]
  /\ next = [c \in Sends \cup Chunks |-> 1]
  /\ frameNum = [s \in Streams |-> 0]
  /\ msgQueue = <<>> /\ frameQueue = <<>> /\ writing = "free"
  /\ backlog = {}
  /\ io = "open" /\ errored = FALSE /\ needDrain = FALSE
  /\ wire = <<>> /\ reports = 0 /\ asked = <<>>

Writable == io = "open"

(* Calls of the writer up to their lock() ---------------------------------*)
LockMessage(m) ==
  /\ msgQueue' = Append(msgQueue, m)
  /\ UNCHANGED <<next, frameNum, frameQueue, writing, socket>>

(* send(): a Blob is read before the lock is asked for. *)
Send(t) ==
  /\ pc[t] = "idle"
  /\ asked' = Append(asked, t)
  /\ IF t \in Blobs
     THEN /\ pc' = [pc EXCEPT ![t] = "blob"]
          /\ UNCHANGED <<backlog, next, frameNum, msgQueue, frameQueue, writing, socket>>
     ELSE /\ pc' = [pc EXCEPT ![t] = "msgWait"]
          /\ backlog' = backlog \cup {t}
          /\ LockMessage(t)

BlobRead(t) ==
  /\ pc[t] = "blob"
  /\ pc' = [pc EXCEPT ![t] = "msgWait"]
  /\ backlog' = backlog \cup {t}
  /\ LockMessage(t)
  /\ UNCHANGED asked

(* sendStream() and close() *)
Ask(m) ==
  /\ pc[m] = "idle"
  /\ asked' = Append(asked, m)
  /\ pc' = [pc EXCEPT ![m] = "msgWait"]
  /\ LockMessage(m)
  /\ UNCHANGED backlog

(* writeFrame() up to its lock(); pc becomes that of the waiting caller. *)
Submit(c, m, op, n, fin, payload, newPc) ==
  /\ frameQueue' = Append(frameQueue, [call |-> c, msg |-> m, op |-> op, n |-> n,
                                       fin |-> fin, payload |-> payload])
  /\ pc' = [pc EXCEPT ![c] = newPc]
  /\ UNCHANGED <<writing, backlog, socket, asked>>

Control(c) ==
  /\ pc[c] = "idle"
  /\ Submit(c, c, "control", 1, TRUE, TRUE, "frame")
  /\ UNCHANGED <<next, frameNum, msgQueue>>

CountsFromZero(t) ==
  /\ Submit(t, t, IF next[t] = 1 THEN "message" ELSE "continuation", next[t] - 1,
            next[t] = Fragments[t], TRUE, "frame")
  /\ next' = [next EXCEPT ![t] = @ + 1]
  /\ UNCHANGED <<frameNum, msgQueue>>

SubmitFragment(t) ==
  /\ Submit(t, t, IF next[t] = 1 THEN "message" ELSE "continuation", next[t],
            next[t] = Fragments[t], TRUE, "frame")
  /\ next' = [next EXCEPT ![t] = @ + 1]
  /\ UNCHANGED <<frameNum, msgQueue>>

UnlockMessage(m, newPc) ==
  /\ pc' = [pc EXCEPT ![m] = newPc]
  /\ msgQueue' = Tail(msgQueue)
  /\ UNCHANGED <<next, frameNum, frameQueue, writing, socket, asked>>

DoesNotWait(m) == TRUE

HoldsMessageLock(m) == msgQueue # <<>> /\ Head(msgQueue) = m

(* Past #msgMutex.lock() --------------------------------------------------*)
(* A send that finds the socket not writable leaves its length in          *)
(* bufferedAmount.                                                         *)
SendGranted(t) ==
  /\ pc[t] = "msgWait" /\ HoldsMessageLock(t)
  /\ IF Writable THEN SubmitFragment(t)
                 ELSE UnlockMessage(t, "done") /\ UNCHANGED backlog

StopsEarly(t) ==
  /\ pc[t] \in {"sent", "failed"}
  /\ UnlockMessage(t, "done") /\ backlog' = backlog \ {t}

KeepsBacklog(t) ==
  /\ pc[t] \in {"sent", "failed"}
  /\ IF next[t] > Fragments[t] \/ (pc[t] = "failed" /\ next[t] > 2)
     THEN UnlockMessage(t, "done") /\ UNCHANGED backlog
     ELSE SubmitFragment(t)

(* The result of the first frame is not looked at. *)
SendContinues(t) ==
  /\ pc[t] \in {"sent", "failed"}
  /\ IF next[t] > Fragments[t] \/ (pc[t] = "failed" /\ next[t] > 2)
     THEN UnlockMessage(t, "done") /\ backlog' = backlog \ {t}
     ELSE SubmitFragment(t)

StreamGranted(s) ==
  /\ pc[s] = "msgWait" /\ HoldsMessageLock(s)
  /\ IF Writable
     THEN /\ pc' = [pc EXCEPT ![s] = "streaming"]
          /\ UNCHANGED <<next, frameNum, msgQueue, frameQueue, writing, backlog, socket, asked>>
     ELSE UnlockMessage(s, "done") /\ UNCHANGED backlog

CloseUnlocks ==
  /\ pc[Closing] = "msgWait" /\ HoldsMessageLock(Closing)
  /\ Submit(Closing, Closing, "close", 1, TRUE, TRUE, "frame")
  /\ msgQueue' = Tail(msgQueue)
  /\ UNCHANGED <<next, frameNum>>

(* The close call never unlocks #msgMutex, whatever its outcome; a code or *)
(* a reason it refuses is a rejected promise.                              *)
CloseGranted ==
  /\ pc[Closing] = "msgWait" /\ HoldsMessageLock(Closing)
  /\ IF Writable
     THEN \/ Submit(Closing, Closing, "close", 1, TRUE, TRUE, "frame")
          \/ /\ pc' = [pc EXCEPT ![Closing] = "rejected"]
             /\ UNCHANGED <<frameQueue, writing, backlog, socket, asked>>
     ELSE /\ pc' = [pc EXCEPT ![Closing] = "failed"]
          /\ UNCHANGED <<frameQueue, writing, backlog, socket, asked>>
  /\ UNCHANGED <<next, frameNum, msgQueue>>

(* The stream's 'data' and 'close' events ---------------------------------*)
ForgetsFirst(c) ==
  /\ Submit(c, Of[c], "message", frameNum[Of[c]] + 1, FALSE, TRUE, "frame")
  /\ next' = [next EXCEPT ![c] = @ + 1]
  /\ frameNum' = [frameNum EXCEPT ![Of[c]] = @ + 1]
  /\ UNCHANGED msgQueue

SubmitChunk(c) ==
  /\ Submit(c, Of[c], IF frameNum[Of[c]] = 0 THEN "message" ELSE "continuation",
            frameNum[Of[c]] + 1, FALSE, TRUE, "frame")
  /\ next' = [next EXCEPT ![c] = @ + 1]
  /\ frameNum' = [frameNum EXCEPT ![Of[c]] = @ + 1]
  /\ UNCHANGED msgQueue

StreamData(c) ==
  /\ pc[c] = "idle" /\ pc[Of[c]] = "streaming"
  /\ SubmitChunk(c)

(* After a failed frame of a large chunk the handler destroys the stream.  *)
ChunkContinues(c) ==
  /\ pc[c] \in {"sent", "failed"}
  /\ IF next[c] > Fragments[c] \/ pc[c] = "failed"
     THEN /\ pc' = [pc EXCEPT ![c] = "done"]
          /\ UNCHANGED <<next, frameNum, msgQueue, frameQueue, writing, backlog, socket, asked>>
     ELSE SubmitChunk(c)

(* Destroyed by its owner or by the handler above. *)
StreamBroken(s) ==
  s \in Fragile \/ \E c \in Chunks : Of[c] = s /\ pc[c] = "done" /\ next[c] <= Fragments[c]

StreamClose(s) ==
  /\ pc[s] = "streaming"
  /\ StreamBroken(s) \/ \A c \in Chunks : Of[c] = s => pc[c] # "idle"
  /\ Submit(s, s, "continuation", frameNum[s] + 1, TRUE, FALSE, "final")
  /\ UNCHANGED <<next, frameNum, msgQueue>>

StreamFinished(s) ==
  /\ pc[s] \in {"sent", "failed"}
  /\ UnlockMessage(s, "done")
  /\ UNCHANGED backlog

(* writeFrame() past #frameMutex.lock() -----------------------------------*)
Result == IF errored' THEN "failed" ELSE "sent"

UnlockFrame ==
  /\ frameQueue' = Tail(frameQueue)
  /\ writing' = "free"
  /\ pc' = [pc EXCEPT ![Head(frameQueue).call] = Result]

FrameUnchanged == UNCHANGED <<next, frameNum, msgQueue, backlog, asked>>

GrantWhenDrained ==
  /\ writing = "free" /\ frameQueue # <<>>
  /\ IF ~needDrain
     THEN writing' = "head" /\ UNCHANGED pc
     ELSE writing' = "stuck" /\ pc' = [pc EXCEPT ![Head(frameQueue).call] = "failed"]
  /\ UNCHANGED <<frameQueue, socket>>
  /\ FrameUnchanged

ReportEach ==
  /\ writing = "free" /\ frameQueue # <<>>
  /\ IF Writable
     THEN writing' = "head" /\ UNCHANGED <<pc, frameQueue, reports>>
     ELSE /\ reports' = reports + 1 /\ frameQueue' = Tail(frameQueue) /\ UNCHANGED writing
          /\ pc' = [pc EXCEPT ![Head(frameQueue).call] = "failed"]
  /\ UNCHANGED <<io, errored, needDrain, wire>>
  /\ FrameUnchanged

(* Compressing and masking are between this step and the next.  A socket   *)
(* that is not writable makes writeFrame() return without unlocking.       *)
GrantFrame ==
  /\ writing = "free" /\ frameQueue # <<>>
  /\ IF Writable
     THEN writing' = "head" /\ UNCHANGED pc
     ELSE writing' = "stuck" /\ pc' = [pc EXCEPT ![Head(frameQueue).call] = "failed"]
  /\ UNCHANGED <<frameQueue, socket>>
  /\ FrameUnchanged

(* ioStream.write() *)
WriteToSocket(part) ==
  /\ \/ /\ io = "open"
        /\ wire' = Append(wire, [frame |-> Head(frameQueue), part |-> part])
        /\ needDrain' \in BOOLEAN
        /\ UNCHANGED <<io, errored>>
     \/ /\ io = "ended"
        /\ io' = "destroyed" /\ errored' = TRUE
        /\ UNCHANGED <<wire, needDrain>>
     \/ /\ io = "destroyed"
        /\ UNCHANGED <<io, errored, wire, needDrain>>
  /\ UNCHANGED reports

MustDrain == io = "open" /\ needDrain

UnlocksAfterHead ==
  /\ writing = "head" /\ ~MustDrain
  /\ WriteToSocket("head") /\ UnlockFrame
  /\ FrameUnchanged

WriteHead ==
  /\ writing = "head"
  /\ IF MustDrain
     THEN writing' = "headDrain" /\ UNCHANGED <<pc, frameQueue, socket>>
     ELSE /\ WriteToSocket("head")
          /\ IF Head(frameQueue).payload
             THEN writing' = "payload" /\ UNCHANGED <<pc, frameQueue>>
             ELSE UnlockFrame
  /\ FrameUnchanged

WritePayload ==
  /\ writing = "payload"
  /\ IF MustDrain
     THEN writing' = "payloadDrain" /\ UNCHANGED <<pc, frameQueue, socket>>
     ELSE WriteToSocket("payload") /\ UnlockFrame
  /\ FrameUnchanged

(* The socket -------------------------------------------------------------*)
MissesDrain ==
  /\ MustDrain
  /\ needDrain' = FALSE
  /\ UNCHANGED <<pc, frameQueue, writing, io, errored, wire, reports>>
  /\ FrameUnchanged

Drain ==
  /\ MustDrain
  /\ needDrain' = FALSE
  /\ writing' = IF writing = "headDrain" THEN "head"
                ELSE IF writing = "payloadDrain" THEN "payload" ELSE writing
  /\ UNCHANGED <<pc, frameQueue, io, errored, wire, reports>>
  /\ FrameUnchanged

(* WebSocket calls ioStream.end() or ioStream.destroy(). *)
End ==
  /\ "end" \in Faults /\ io = "open"
  /\ io' = "ended"
  /\ UNCHANGED <<pc, frameQueue, writing, errored, needDrain, wire, reports>>
  /\ FrameUnchanged

Destroy ==
  /\ "destroy" \in Faults /\ io # "destroyed"
  /\ io' = "destroyed"
  /\ UNCHANGED <<pc, frameQueue, writing, errored, needDrain, wire, reports>>
  /\ FrameUnchanged

(* The socket fails: whoever waits for "drain" is rejected, which          *)
(* writeFrame() catches, reports and unlocks after.                        *)
SocketError ==
  /\ "error" \in Faults /\ io # "destroyed"
  /\ io' = "destroyed" /\ errored' = TRUE
  /\ IF writing \in {"headDrain", "payloadDrain"}
     THEN reports' = reports + 1 /\ UnlockFrame
     ELSE UNCHANGED <<reports, pc, frameQueue, writing>>
  /\ UNCHANGED <<needDrain, wire>>
  /\ FrameUnchanged

Next ==
  \/ \E t \in Sends : Send(t) \/ BlobRead(t) \/ SendGranted(t) \/ SendContinues(t)
  \/ \E s \in Streams : Ask(s) \/ StreamGranted(s) \/ StreamClose(s) \/ StreamFinished(s)
  \/ \E c \in Chunks : StreamData(c) \/ ChunkContinues(c)
  \/ \E c \in Controls : Control(c)
  \/ Ask(Closing) \/ CloseGranted
  \/ GrantFrame \/ WriteHead \/ WritePayload
  \/ Drain \/ End \/ Destroy \/ SocketError

Spec == Init /\ [][Next]_vars

(* The event loop runs what is ready, a Blob is read, the peer keeps on    *)
(* reading and the streams that are piped in end.                          *)
Fairness ==
  /\ \A t \in Sends : WF_vars(BlobRead(t)) /\ WF_vars(SendGranted(t)) /\ WF_vars(SendContinues(t))
  /\ \A s \in Streams : WF_vars(StreamGranted(s)) /\ WF_vars(StreamClose(s)) /\ WF_vars(StreamFinished(s))
  /\ \A c \in Chunks : WF_vars(StreamData(c)) /\ WF_vars(ChunkContinues(c))
  /\ WF_vars(CloseGranted) /\ WF_vars(GrantFrame)
  /\ WF_vars(WriteHead) /\ WF_vars(WritePayload) /\ WF_vars(Drain)

FairSpec == Spec /\ Fairness
-----------------------------------------------------------------------------
(* The bytes of two frames never mix: on the socket a payload follows the  *)
(* head of its own frame, and a head without its payload is the last thing *)
(* there, of a frame still being written or of a socket that is finished.  *)
FramesContiguous ==
  \A i \in DOMAIN wire :
    /\ wire[i].part = "payload" => i > 1 /\ wire[i - 1] = [wire[i] EXCEPT !.part = "head"]
    /\ wire[i].part = "head" /\ wire[i].frame.payload =>
         IF i < Len(wire) THEN wire[i + 1].part = "payload"
         ELSE writing \in {"payload", "payloadDrain"} \/ ~Writable

IsDataHead(p) == p.part = "head" /\ p.frame.op \in {"message", "continuation"}

(* The frame of the data head before the one at j, if there is one. *)
DataFrameBefore(j) ==
  {wire[i].frame : i \in {k \in 1..(j - 1) : /\ IsDataHead(wire[k])
                                             /\ \A l \in (k + 1)..(j - 1) : ~IsDataHead(wire[l])}}

(* Control frames aside, a message is on the socket from its first frame   *)
(* to its final one, in order and with no other message in between.        *)
MessagesWhole ==
  \A j \in DOMAIN wire : IsDataHead(wire[j]) =>
    LET f == wire[j].frame
    IN  IF f.op = "message"
        THEN f.n = 1 /\ \A g \in DataFrameBefore(j) : g.fin
        ELSE \E g \in DataFrameBefore(j) : ~g.fin /\ f.msg = g.msg /\ f.n = g.n + 1

(* Comment of close(): "do not unlock because nothing more should be       *)
(* sent".  Only pings and pongs may follow a close frame.                  *)
NothingAfterClose ==
  \A i, j \in DOMAIN wire :
    i < j /\ wire[i].frame.op = "close" => wire[j].frame.op \in {"close", "control"}

AskedAt(m) == CHOOSE i \in DOMAIN asked : asked[i] = m

Opens(p) ==
  p.part = "head" /\ p.frame.op \in {"message", "close"} /\ p.frame.msg \notin Blobs

(* send(): "Messages sent before it resolves are buffered and sent in      *)
(* order"; close(): "after any buffered messages are sent".  A Blob is     *)
(* aside: it asks for its turn only once it is read.                       *)
SentInOrder ==
  \A i, j \in DOMAIN wire :
    i < j /\ Opens(wire[i]) /\ Opens(wire[j])
      => AskedAt(wire[i].frame.msg) < AskedAt(wire[j].frame.msg)

Written(t) ==
  \A n \in 1..Fragments[t] :
    \E i \in DOMAIN wire : wire[i].frame.msg = t /\ wire[i].frame.n = n /\ wire[i].part = "payload"

(* A send that is over has handed all of its message to the socket, unless *)
(* the socket is closing.                                                  *)
DoneMeansWritten == \A t \in Sends : pc[t] = "done" => Written(t) \/ ~Writable

(* send(): "a Promise which will resolve when the message has been         *)
(* consumed by the underlying stream".                                     *)
ResolvedMeansConsumed == \A t \in Sends : pc[t] = "done" => Written(t)

(* bufferedAmount counts the messages that are waiting or being written,   *)
(* as long as the socket is open.                                          *)
BacklogIsPending ==
  Writable => backlog = {t \in Sends : pc[t] \notin {"idle", "blob", "done"}}

(* One failure of the socket is one error event from the writer, however   *)
(* many frames and messages were waiting.                                  *)
ReportedOnce == reports <= 1

(* writeFrame() keeps #frameMutex for ever only once the socket is closing *)
(* and #msgMutex is never kept by a message that is over.                  *)
LocksReturned ==
  /\ writing = "stuck" => ~Writable
  /\ \A i \in DOMAIN msgQueue : IF i = 1 THEN pc[msgQueue[i]] # "done" ELSE pc[msgQueue[i]] = "msgWait"

BehindClose(t) == \E i, j \in DOMAIN msgQueue : i < j /\ msgQueue[i] = Closing /\ msgQueue[j] = t

(* While the peer reads and the socket stays open every send() resolves,   *)
(* except those behind a close(); pings, pongs and the close frame get     *)
(* out too, between the fragments of a large message if need be.           *)
SendsResolve ==
  \A t \in Sends : (pc[t] # "idle") ~> (pc[t] = "done" \/ BehindClose(t) \/ ~Writable)

ControlsAreSent ==
  \A c \in Controls \cup {Closing} :
    (pc[c] # "idle") ~> (pc[c] \in {"sent", "rejected"} \/ ~Writable)
=============================================================================
