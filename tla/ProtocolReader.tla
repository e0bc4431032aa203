--------------------------- MODULE ProtocolReader ---------------------------
(***************************************************************************)
(* source/protocolReader.js: the Transform the socket is piped into.  It   *)
(* buffers what arrives in whatever pieces, takes frame headers and        *)
(* payloads off the buffer, assembles messages, and calls the handlers of  *)
(* WebSocket or destroys itself with a close code.  A payload of a         *)
(* compressed message goes through the inflater, which answers later.      *)
(*                                                                         *)
(* A scenario is what the peer sends and how the connection was set up.    *)
(* A byte is its position in the stream of the frames, so data is a        *)
(* sequence of positions and nothing can be lost, repeated or moved        *)
(* unseen.  Masking, the text of reasons, binaryType and JSON are left     *)
(* out; receiveFragmentedMessages never reaches the reader as true.        *)
(*                                                                         *)
(* An operator no action uses is a plausible mistake in the one after it,  *)
(* kept to show which property would notice.                               *)
(***************************************************************************)
EXTENDS Naturals, Sequences, FiniteSets, SequencesExt, FiniteSetsExt

CONSTANTS Scenarios,  \* what may be sent, and to whom
          Huge        \* a payload size above Number.MAX_SAFE_INTEGER

DataOps == {"text", "binary", "continuation"}
ControlOps == {"ping", "pong", "close"}

FrameType ==
  [op : DataOps \cup ControlOps \cup {"unknown"}, fin : BOOLEAN,
   rsv : {"none", "rsv1", "other"},
   masked : BOOLEAN,
   ext : {0, 2, 8},   \* bytes of the extended payload length
   size : Nat,
   ok : BOOLEAN,      \* FALSE: the last byte makes it invalid UTF-8 or DEFLATE
   code : Nat]        \* of a close frame

ASSUME ReaderAssumption ==
  /\ Huge \in Nat
  /\ \A s \in Scenarios :
       /\ s.frames \in Seq(FrameType)
       /\ \A i \in DOMAIN s.frames : /\ s.frames[i].size = Huge => s.frames[i].ext = 8
                                     /\ ~s.frames[i].ok => s.frames[i].size > 0
       /\ {s.client, s.compression, s.failFast} \subseteq BOOLEAN
       /\ s.streams \in Nat

VARIABLES scenario,     \* constant once chosen
          starts,       \* how many bytes precede each of its frames
          expected,     \* what its frames mean, see Decoded below
          arrived,      \* how many bytes _transform() was given
          taken,        \* history: how many it has taken off the buffer
          chunks,       \* #chunks
          chunkOffset,  \* #chunkOffset
          buffered,     \* #buffered
          next,         \* #next
          frame,        \* #frame: its index, what of its payload was consumed, and its data if a control frame
          msg,          \* the message, the streams, what was handed over and the outcome
          pc,           \* where _transform() is
          inflates,     \* calls of #decompressChunk() the inflater has to answer
          held,         \* what it has been given and not put out
          calls         \* calls of receiveStream()

given == <<scenario, starts, expected>>
buffer == <<chunks, chunkOffset, buffered>>
vars == <<given, arrived, taken, buffer, next, frame, msg, pc, inflates, held, calls>>

(* The bytes on the wire --------------------------------------------------*)
frames == scenario.frames
Header2Size(f) == f.ext + (IF f.masked THEN 4 ELSE 0)
WireSize(f) == 2 + Header2Size(f) + (IF f.size = Huge THEN 0 ELSE f.size)
Starts == LET at[i \in 1..(Len(frames) + 1)] == IF i = 1 THEN 0 ELSE at[i - 1] + WireSize(frames[i - 1])
          IN  at
Total == starts[Len(frames) + 1]
Span(from, n) == [k \in 1..n |-> from + k]
Payload(i) == Span(starts[i] + 2 + Header2Size(frames[i]), frames[i].size)
Bad(bytes) == \E i \in DOMAIN frames : ~frames[i].ok /\ Contains(bytes, starts[i + 1])
IsControl(f) == f.op \in ControlOps

NextSize == CASE next = "header1" -> 2
              [] next = "header2" -> Header2Size(frames[frame.i])
              [] next = "payload" -> 1

validServerCodes == {1000, 1001, 1002, 1003, 1007, 1008, 1009, 1011, 1012, 1013, 1014}
validClientCodes == {1000, 1001, 1002, 1003, 1007, 1008, 1009, 1010}

LegalCode(code) ==
  code \in (IF scenario.client THEN validServerCodes ELSE validClientCodes) \cup 3000..4999

(* What the frames mean when they are taken one by one and whole ---------*)
Broken(f, open) ==
  \/ f.rsv = "other" \/ (f.rsv = "rsv1" /\ (~scenario.compression \/ IsControl(f)))
  \/ f.op = "unknown"
  \/ (scenario.client /\ f.masked) \/ (~scenario.client /\ f.size > 0 /\ ~f.masked)
  \/ IsControl(f) /\ (f.ext # 0 \/ ~f.fin)
  \/ f.op \in DataOps /\ (f.op = "continuation") # open

CloseVerdict(f) ==
  CASE f.size = 0 -> "ok"
    [] f.size = 1 -> "1002"
    [] f.size > 2 /\ ~f.ok -> "1007"
    [] OTHER -> IF LegalCode(f.code) THEN "ok" ELSE "1002"

Verdict(f, d, started) ==
  IF f.size = Huge THEN "1009"
  ELSE IF Broken(f, d.open) THEN "1002"
  ELSE IF IsControl(f) THEN (IF f.op = "close" THEN CloseVerdict(f) ELSE "ok")
  ELSE IF started.op = "text" /\ started.bad /\ (f.fin \/ scenario.failFast) THEN "1007"
  ELSE IF started.op = "binary" /\ started.packed /\ ~f.ok THEN "1002" ELSE "ok"

DecodeFrame(d, i) ==
  LET f == frames[i]
      first == IF f.op = "continuation" THEN d
               ELSE [d EXCEPT !.op = f.op, !.packed = (f.rsv = "rsv1"), !.data = <<>>, !.bad = FALSE]
      grown == [first EXCEPT !.data = @ \o Payload(i), !.bad = (@ \/ ~f.ok), !.open = ~f.fin]
      verdict == Verdict(f, d, grown)
      event == IF f.op = "close" THEN [op |-> "close", data |-> <<IF f.size = 0 THEN 1005 ELSE f.code>>]
               ELSE IF IsControl(f) THEN [op |-> f.op, data |-> Payload(i)]
               ELSE [op |-> grown.op, data |-> grown.data]
  IN  IF d.verdict # "ok" THEN d
      ELSE IF verdict # "ok" THEN [d EXCEPT !.verdict = verdict]
      ELSE IF IsControl(f) THEN [d EXCEPT !.events = Append(@, event)]
      ELSE IF f.fin THEN [grown EXCEPT !.events = Append(@, event)]
      ELSE grown

NothingDecoded == [open |-> FALSE, op |-> "none", packed |-> FALSE, data |-> <<>>, bad |-> FALSE,
                   events |-> <<>>, verdict |-> "ok"]

Decoded ==
  LET after[i \in 0..Len(frames)] == IF i = 0 THEN NothingDecoded ELSE DecodeFrame(after[i - 1], i)
  IN  after[Len(frames)]

(* The reader -------------------------------------------------------------*)
(* What was handed over, and to which stream.  A stream that utf8failFast  *)
(* leaves behind may be ended later, without an opcode.                    *)
Event == [op : {"none", "text", "binary"} \cup ControlOps, data : Seq(Nat), via : Nat]
Outcomes == {"ok", "1002", "1007", "1009", "destroyed", "crashed"}

Message == [op : {"none", "text", "binary"}, fragmented : BOOLEAN, compressed : BOOLEAN,
            payload : Seq(Nat), bad : BOOLEAN, stream : Nat, queue : Seq(Nat),
            events : Seq(Event), outcome : Outcomes]

TypeOK ==
  /\ scenario \in Scenarios
  /\ arrived \in 0..Total /\ taken \in 0..arrived
  /\ chunks \in Seq(Seq(Nat)) /\ chunkOffset \in Nat /\ buffered \in Nat
  /\ next \in {"header1", "header2", "payload"}
  /\ frame \in [i : 0..Len(frames), consumed : Nat, payload : Seq(Nat)]
  /\ msg \in Message
  /\ pc \in {"idle", "loop", "payload", "inflating"}
  /\ inflates \in Seq([chunk : Seq(Nat), final : BOOLEAN, control : BOOLEAN, awaited : BOOLEAN])
  /\ held \in Seq(Nat)
  /\ calls \in 0..scenario.streams

Init ==
  /\ scenario \in Scenarios /\ starts = Starts /\ expected = Decoded
  /\ arrived = 0 /\ taken = 0
  /\ chunks = <<>> /\ chunkOffset = 0 /\ buffered = 0
  /\ next = "header1"
  /\ frame = [i |-> 0, consumed |-> 0, payload |-> <<>>]
  /\ msg = [op |-> "none", fragmented |-> FALSE, compressed |-> FALSE, payload |-> <<>>,
            bad |-> FALSE, stream |-> 0, queue |-> <<>>, events |-> <<>>, outcome |-> "ok"]
  /\ pc = "idle"
  /\ inflates = <<>> /\ held = <<>> /\ calls = 0

(* What the methods make of msg -------------------------------------------*)
Fail(m, code) == IF m.outcome = "ok" THEN [m EXCEPT !.outcome = code] ELSE m

Emit(m, op, data, via) ==
  [m EXCEPT !.events = Append(@, [op |-> op, data |-> data, via |-> via])]

Forget(m) == [m EXCEPT !.op = "none", !.fragmented = FALSE, !.compressed = FALSE,
                       !.payload = <<>>, !.bad = FALSE]

(* A piped message has no #msgPayload; only an empty one gets here.  What  *)
(* utf8failFast lets through is null.                                      *)
EmitMessage(m) ==
  IF m.stream # 0 /\ m.op = "binary" THEN [m EXCEPT !.outcome = "crashed"]
  ELSE IF m.op = "text" /\ ~scenario.failFast /\ (m.bad \/ m.stream # 0) THEN Fail(m, "1007")
  ELSE Forget(Emit(m, m.op, m.payload, 0))

EndMessageStream(m) == Forget([Emit(m, m.op, m.payload, m.stream) EXCEPT !.stream = 0])

HandleCloseFrame(m, f, payload) ==
  CASE Len(payload) = 0 -> Emit(m, "close", <<1005>>, 0)
    [] Len(payload) = 1 -> Fail(m, "1002")
    [] OTHER -> IF Len(payload) > 2 /\ Bad(payload) THEN Fail(m, "1007")
                ELSE IF ~LegalCode(f.code) THEN Fail(m, "1002")
                ELSE Emit(m, "close", <<f.code>>, 0)

HandleControlFrame(m, f, payload) ==
  IF f.op = "close" THEN HandleCloseFrame(m, f, payload) ELSE Emit(m, f.op, payload, 0)

EndsWithFrame(m, f, chunk, finalChunk) ==
  LET got == [m EXCEPT !.payload = @ \o chunk, !.bad = (@ \/ Bad(chunk))]
  IN  IF finalChunk THEN EmitMessage(got) ELSE got

(* Once the message was cleaned up there is no #msgPayload to push to. *)
ConsumeMessagePayloadChunk(m, f, chunk, finalChunk) ==
  LET got == [m EXCEPT !.payload = @ \o chunk, !.bad = (@ \/ Bad(chunk))]
      ends == finalChunk /\ f.fin
  IN  IF m.stream # 0 THEN (IF ends THEN EndMessageStream(got) ELSE got)
      ELSE IF m.op = "none" THEN [m EXCEPT !.outcome = "crashed"]
      ELSE IF m.op = "text" /\ scenario.failFast /\ Bad(chunk) THEN Fail(m, "1007")
      ELSE IF ends THEN EmitMessage(got) ELSE got

(* #consumePayloadChunk() past the inflater: #frame is read again.         *)
Consumed(m, fr, chunk, finalChunkOfFrame) ==
  LET f == frames[fr.i]
  IN  IF IsControl(f)
      THEN IF finalChunkOfFrame THEN HandleControlFrame(m, f, fr.payload \o chunk) ELSE m
      ELSE ConsumeMessagePayloadChunk(m, f, chunk, fr.consumed = f.size)

IllegalHeader(m, f) ==
  \/ f.rsv = "other" \/ (f.rsv = "rsv1" /\ ~scenario.compression)
  \/ IsControl(f) /\ (f.ext # 0 \/ ~f.fin \/ f.rsv = "rsv1")
  \/ IF scenario.client THEN f.masked ELSE f.size > 0 /\ ~f.masked
  \/ f.op = "unknown"
  \/ f.op = "continuation" /\ ~m.fragmented
  \/ f.op \in {"text", "binary"} /\ m.fragmented

StartMessage(m, f) ==
  [m EXCEPT !.op = f.op, !.fragmented = ~f.fin, !.compressed = (f.rsv = "rsv1"),
            !.payload = <<>>, !.bad = FALSE,
            !.stream = IF m.queue # <<>> THEN Head(m.queue) ELSE @,
            !.queue = IF m.queue # <<>> THEN Tail(@) ELSE @]

(* A message that ends with an empty continuation frame. *)
EmptyEnd(m, f) == f.op = "continuation" /\ f.size = 0 /\ f.fin /\ ~IllegalHeader(m, f)

HandleHeader(m, f) ==
  IF IllegalHeader(m, f) THEN Fail(m, "1002")
  ELSE IF IsControl(f) THEN (IF f.size = 0 THEN HandleControlFrame(m, f, <<>>) ELSE m)
  ELSE IF f.op = "continuation"
  THEN IF EmptyEnd(m, f) /\ ~m.compressed THEN ConsumeMessagePayloadChunk(m, f, <<>>, TRUE) ELSE m
  ELSE IF f.size = 0 /\ f.fin THEN EmitMessage(StartMessage(m, f)) ELSE StartMessage(m, f)

(* Taking bytes off the buffer --------------------------------------------*)
(* How many bytes the first k chunks hold. *)
ChunkSizes == LET sizes[k \in 0..Len(chunks)] == IF k = 0 THEN 0 ELSE sizes[k - 1] + Len(chunks[k])
              IN  sizes

KeepsOffset(n) ==
  LET sizes == ChunkSizes
      c == CHOOSE c \in DOMAIN chunks : sizes[c] >= n + chunkOffset /\ sizes[c - 1] < n + chunkOffset
      over == sizes[c] - chunkOffset - n
  IN  IF over = 0 THEN chunks' = SubSeq(chunks, c + 1, Len(chunks)) /\ UNCHANGED chunkOffset
      ELSE chunks' = SubSeq(chunks, c, Len(chunks)) /\ chunkOffset' = Len(chunks[c]) - over

(* #fillScratch() for more than 8 bytes: the chunk that completes them     *)
(* stays, unless they end with it.                                         *)
ConcatChunks(n) ==
  LET sizes == ChunkSizes
      c == CHOOSE c \in DOMAIN chunks : sizes[c] >= n + chunkOffset /\ sizes[c - 1] < n + chunkOffset
      over == sizes[c] - chunkOffset - n
      trimmed == <<SubSeq(chunks[1], chunkOffset + 1, Len(chunks[1]))>> \o Tail(chunks)
  IN  IF over = 0 THEN chunks' = SubSeq(chunks, c + 1, Len(chunks)) /\ chunkOffset' = 0
      ELSE chunks' = SubSeq(trimmed, c, Len(chunks)) /\ chunkOffset' = Len(trimmed[c]) - over

(* #read() in one chunk, and #fillScratch() byte by byte: a chunk goes     *)
(* once its last byte is read.                                             *)
ReadBytes(n) ==
  LET sizes == ChunkSizes
      gone == Max({k \in 0..Len(chunks) : sizes[k] <= n + chunkOffset})
  IN  /\ chunks' = SubSeq(chunks, gone + 1, Len(chunks))
      /\ chunkOffset' = n + chunkOffset - sizes[gone]

Take(n) ==
  /\ IF n <= 8 \/ n <= Len(chunks[1]) - chunkOffset THEN ReadBytes(n) ELSE ConcatChunks(n)
  /\ buffered' = buffered - n
  /\ taken' = taken + n

(* _transform() -----------------------------------------------------------*)
Transform(n) ==
  /\ pc = "idle" /\ msg.outcome = "ok" /\ arrived + n <= Total
  /\ chunks' = Append(chunks, Span(arrived, n))
  /\ buffered' = buffered + n
  /\ arrived' = arrived + n
  /\ pc' = "loop"
  /\ UNCHANGED <<given, taken, chunkOffset, next, frame, msg, inflates, held, calls>>

ReadsTooEarly(part) == pc = "loop" /\ msg.outcome = "ok" /\ next = part

Reading(part) == pc = "loop" /\ msg.outcome = "ok" /\ next = part /\ buffered >= NextSize

ForgetsEmptyFrame(f) == next' = "payload"

AfterHeader(f) == next' = IF f.size > 0 THEN "payload" ELSE "header1"

(* Only here is #consumePayloadChunk() not awaited. *)
HandleFrameHeader(f) ==
  /\ msg' = HandleHeader(msg, f)
  /\ inflates' = IF EmptyEnd(msg, f) /\ msg.compressed
                 THEN Append(inflates, [chunk |-> <<>>, final |-> TRUE, control |-> FALSE, awaited |-> FALSE])
                 ELSE inflates
  /\ AfterHeader(f)

Read16bitHeader ==
  /\ Reading("header1")
  /\ Take(2)
  /\ frame' = [i |-> CHOOSE i \in DOMAIN frames : starts[i] = taken, consumed |-> 0, payload |-> <<>>]
  /\ LET f == frames[frame'.i]
     IN  IF Header2Size(f) > 0 THEN next' = "header2" /\ UNCHANGED <<msg, inflates>>
         ELSE HandleFrameHeader(f)
  /\ UNCHANGED <<given, arrived, pc, held, calls>>

ReadRestOfHeader ==
  /\ Reading("header2")
  /\ Take(NextSize)
  /\ LET f == frames[frame.i]
     IN  IF f.size = Huge THEN msg' = Fail(msg, "1009") /\ UNCHANGED <<next, inflates>>
         ELSE HandleFrameHeader(f)
  /\ UNCHANGED <<given, arrived, frame, pc, held, calls>>

PutBack(chunk, n) ==
  chunks' = IF n = Len(chunk) THEN Tail(chunks)
            ELSE <<SubSeq(chunk, n + 1, Len(chunk))>> \o Tail(chunks)

(* One turn of the loop over the chunks, up to its await. *)
ReadPayload ==
  /\ Reading("payload") \/ (pc = "payload" /\ msg.outcome = "ok")
  /\ LET f == frames[frame.i]
         chunk == SubSeq(chunks[1], chunkOffset + 1, Len(chunks[1]))
         n == Min({Len(chunk), f.size - frame.consumed})
         part == SubSeq(chunk, 1, n)
         final == frame.consumed + n = f.size
         onward == [frame EXCEPT !.consumed = @ + n]
     IN  /\ frame.consumed < f.size /\ chunks # <<>>
         /\ PutBack(chunk, n) /\ chunkOffset' = 0
         /\ buffered' = buffered - n /\ taken' = taken + n
         /\ next' = IF final THEN "header1" ELSE next
         /\ IF msg.compressed
            THEN /\ inflates' = Append(inflates, [chunk |-> part, final |-> final,
                                                  control |-> IsControl(f), awaited |-> TRUE])
                 /\ frame' = onward /\ pc' = "inflating" /\ UNCHANGED msg
            ELSE /\ msg' = Consumed(msg, onward, part, final)
                 /\ frame' = [onward EXCEPT !.payload = IF IsControl(f) THEN @ \o part ELSE @]
                 /\ pc' = "payload" /\ UNCHANGED inflates
  /\ UNCHANGED <<given, arrived, held, calls>>

LeavePayload ==
  /\ pc = "payload"
  /\ msg.outcome # "ok" \/ frame.consumed = frames[frame.i].size \/ chunks = <<>>
  /\ pc' = "loop"
  /\ UNCHANGED <<given, arrived, taken, buffer, next, frame, msg, inflates, held, calls>>

Callback ==
  /\ pc = "loop"
  /\ buffered < NextSize \/ msg.outcome # "ok"
  /\ pc' = "idle"
  /\ UNCHANGED <<given, arrived, taken, buffer, next, frame, msg, inflates, held, calls>>

LosesHeld(p, out) ==
  /\ msg' = Consumed(msg, frame, p.chunk, p.final)
  /\ frame' = IF IsControl(frames[frame.i]) THEN [frame EXCEPT !.payload = @ \o out] ELSE frame
  /\ held' = <<>>

(* The inflater's output is handed on with whatever it held, to the frame  *)
(* that is then the current one.                                           *)
HandOn(p, out) ==
  /\ msg' = Consumed(msg, frame, out, p.final)
  /\ frame' = IF IsControl(frames[frame.i]) THEN [frame EXCEPT !.payload = @ \o out] ELSE frame
  /\ held' = <<>>

(* The inflater answers the oldest call, with an output it may hold back   *)
(* until it is flushed at the end of the frame.  The bytes of a control    *)
(* frame are not what its peer deflated: an error, or anything comes out.  *)
Inflated ==
  /\ pc # "loop" /\ inflates # <<>>
  /\ LET p == Head(inflates)
         corrupt == msg.op = "binary" /\ Bad(p.chunk)
     IN  /\ \/ (p.control \/ corrupt) /\ msg' = Fail(msg, "1002") /\ UNCHANGED <<frame, held>>
            \/ p.control /\ HandOn(p, <<0>>)
            \/ ~p.control /\ ~corrupt /\ HandOn(p, held \o p.chunk)
            \/ ~p.control /\ ~p.final /\ held' = held \o p.chunk /\ UNCHANGED <<frame, msg>>
         /\ pc' = IF p.awaited THEN "payload" ELSE pc
  /\ inflates' = Tail(inflates)
  /\ UNCHANGED <<given, arrived, taken, buffer, next, calls>>

(* The program's calls *)
ReceiveStream ==
  /\ pc # "loop" /\ calls < scenario.streams
  /\ calls' = calls + 1
  /\ msg' = [msg EXCEPT !.queue = Append(@, calls')]
  /\ UNCHANGED <<given, arrived, taken, buffer, next, frame, pc, inflates, held>>

Destroy ==
  /\ pc # "loop" /\ msg.outcome = "ok"
  /\ msg' = Fail(msg, "destroyed")
  /\ UNCHANGED <<given, arrived, taken, buffer, next, frame, pc, inflates, held, calls>>

Next ==
  \/ \E n \in 1..(Total - arrived) : Transform(n)
  \/ Read16bitHeader \/ ReadRestOfHeader \/ ReadPayload \/ LeavePayload \/ Callback
  \/ Inflated \/ ReceiveStream \/ Destroy

Spec == Init /\ [][Next]_vars

(* The peer's bytes arrive, the event loop runs what is ready and the      *)
(* inflater answers.                                                       *)
Fairness ==
  /\ WF_vars(\E n \in 1..(Total - arrived) : Transform(n))
  /\ WF_vars(Read16bitHeader) /\ WF_vars(ReadRestOfHeader) /\ WF_vars(ReadPayload)
  /\ WF_vars(LeavePayload) /\ WF_vars(Callback) /\ WF_vars(Inflated)

FairSpec == Spec /\ Fairness
-----------------------------------------------------------------------------
HandedOver == [k \in DOMAIN msg.events |-> [op |-> msg.events[k].op, data |-> msg.events[k].data]]

(* However the bytes were cut, what #chunks, #chunkOffset and #buffered    *)
(* say is left is exactly what arrived and was not taken, and no chunk     *)
(* that is used up stays in front.                                         *)
BufferIsTheRest ==
  LET sizes == ChunkSizes
  IN  msg.outcome = "ok" =>
        /\ \A c \in DOMAIN chunks : chunks[c] = Span(taken - chunkOffset + sizes[c - 1], Len(chunks[c]))
        /\ buffered = arrived - taken /\ buffered = sizes[Len(chunks)] - chunkOffset
        /\ IF chunks = <<>> THEN chunkOffset = 0 ELSE chunkOffset < Len(chunks[1])

IsStreamed(e) == e.via # 0

(* Comments of Opcode and of receiveStream(): messages, pings, pongs and   *)
(* the close frame are handed over whole and in the order they were sent,  *)
(* control frames between the fragments of a message included, and the     *)
(* queued streams are used in turn.                                        *)
DeliveredAsSent ==
  /\ IsPrefix(HandedOver, expected.events)
  /\ \A k \in DOMAIN msg.events :
       IsStreamed(msg.events[k]) =>
         msg.events[k].via = Cardinality({j \in 1..k : IsStreamed(msg.events[j])})

(* The connection is failed only for what the peer did wrong, with the     *)
(* code of its first wrong frame and after everything before that frame.   *)
ErrorsAreDeserved ==
  msg.outcome \notin {"ok", "destroyed"} =>
    msg.outcome = expected.verdict /\ HandedOver = expected.events

(* Whatever arrives is dealt with in the end: no callback is lost, no      *)
(* frame stays in the buffer and no wrong frame is overlooked.             *)
EverythingIsHandled ==
  <>[](msg.outcome = "destroyed" \/ (HandedOver = expected.events /\ msg.outcome = expected.verdict))
=============================================================================
