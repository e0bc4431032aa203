# A TLA+ development of jlc-websocket

jlc-websocket is a WebSocket library for Node.js: a client and a server endpoint
with the same class, permessage-deflate, messages as values or as streams. The
directory holds TLA+ models of its core (`source/`), the TLC configurations that
check them on small instances, and theorems about them checked by TLAPS.

Paths below are relative to the repository's `source/` unless they say otherwise.

## 1. The system

| component | state | operations | interacts with |
|---|---|---|---|
| **Mutex** (`div.js`) | `#lock`, `#keys`, the promise and flags of each key | `lock`, `unlock`, timeout, `locked` | the writer (two of them), `ping()` |
| **ProtocolWriter** (`protocolWriter.js`) | `#msgMutex`, `#frameMutex`, `bufferedAmount`, `checkCloseCode`, deflater, masker | `send`, `sendStream`, `close`, `ping`, `pong`, `writeFrame` | writes to the socket, waits for its `drain`; reports errors to WebSocket |
| **ProtocolReader** (`protocolReader.js`) | buffered chunks, `#next`/`#nextSize`, the frame, the message, queued streams, inflater | `_transform`, `receiveStream`, `destroy` | the socket is piped into it; calls the message, ping, pong and close handlers |
| **WebSocket** (`websocket.js`) | `readyState`, the close flags and code, `#pingMutex`, timers | `send`, `close`, `ping`, `protocolError`, socket events | owns reader, writer and socket |
| **Opening handshake** (`clientHandshake.js`, `serverHandshake.js`) | URLs tried, the pending request, its socket | `connectToServer`, `handleWebSocketUpgrade`, `close()` while CONNECTING | WebSocket's `#start` |
| **Extension negotiation** (`protocolRelated.js`) | the compression configuration | parse, generate | both handshakes |
| **Frame header codec** (`frameHeader`, `read16bitHeader`, `readRestOfHeader`) | none | encode, decode | writer, reader |
| **Masker** (`masker.js`) | mask, offset | `newMask`, `maskInPlace` | writer, reader |
| **Configuration** (`websocket.js`) | `config` | defaults, sanity check, freeze | everything |
| Trigger, BufferStream (`div.js`) | | | tests only |

What is hard about it: the code is single threaded, but nearly every method is an
async function, so calls interleave at each `await`: on a mutex, on the socket's
`drain`, on the inflater, on the close frame being written. The two endpoints
and their TCP connection run concurrently; sockets end, reset and stall; three
timers (forced termination, pong, idle ping) race with answers. Bytes arrive cut
anywhere. `PROJECT.json` lists the hazards one by one with the line where each
bites and the properties that would notice it.

What makes each component correct:

* Mutex: mutual exclusion, first come first served, nobody left waiting.
* ProtocolWriter: the bytes of two frames and the frames of two messages never
  mix; messages leave in the order of the calls and nothing after the close
  frame; locks are returned whatever fails; every `send()` ends.
* ProtocolReader: whatever the chunks, the buffer is what is left to read; what
  is handed over, and the code of a failure, depend on the frames only.
* WebSocket: a graceful close delivers every message, and is reported as clean,
  with the same code, at both ends when one side asked for it; `wasClean` is never claimed wrongly; the
  close event always comes; one failure is one error.
* Opening handshake: each end has one outcome, `open` or `error`, whatever comes
  late; redirections stay within what was allowed; what arrives with the upgrade is
  neither lost nor handled before `open`; a `close()` made early is not forgotten.
* Negotiation: two ends of this library always accept each other's line, and end
  up with the same windows and context settings, within both configurations.
* Codec and masker: the reader gets the header and the payload the writer was
  given, at every size, and however the payload is cut.

## 2. Modules

A step of every model is what JavaScript runs without interruption: from one
`await` (or event) to the next. Names are those of the source where TLA+ allows
it. An operator that no action uses is a plausible mistake in the definition
after it; the mutants of `PROJECT.json` put it in that definition's place, and
TLC then refutes the property they name. `map` in `PROJECT.json` gives the lines
each definition stands for.

**`FifoLock`** is what a Mutex promises: a queue of requests, its head inside.

**`Mutex`** is the class as written. A key's promise is the key itself; `waitFor`
is the promise a call found in `#lock`; `unlocked` are the resolved ones. A call
with a timeout rejects at once, since `Promise.race` is given two arguments where
it wants an iterable, and its timer then unlocks a key that nobody holds:
`Lock` and `Timeout` do that. `Lock1` maps it to FifoLock.

**`ProtocolWriter`** has the pc of each call (a send, a stream, a chunk of a
stream, a ping or pong, the close), the two mutexes as queues (the Mutex theorems
below justify that: the library passes no timeout), and the socket. `writeFrame`
is `Submit`, `GrantFrame`, `WriteHead`, `WritePayload`, with a wait for `drain`
possible before each write. The socket is node's Writable as the writer relies on
it: a write after `end()` destroys it with an error, a write to a destroyed socket
is dropped, `drain` comes only while it is open. `wire` is what it accepted.

**`ProtocolReader`** takes a scenario: the frames the peer sends and how the
connection is set up. A byte is its position in that stream, so `chunks` and every
payload are sequences of positions and no byte can be lost or moved unnoticed.
`#buffered`, `#chunkOffset`, `#read` and both branches of `#fillScratch` are as in
the code (`Take`, `ReadBytes`, `ConcatChunks`). The methods that assemble messages
are operators on the record `msg`; `_transform` is `Transform`, the header and
payload steps, `LeavePayload` and `Callback`. `inflates` are the calls the inflater
has to answer, awaited or not; it may hold output back until the end of the frame.
A second empty continuation frame, taken before the inflater has answered the first,
finds a message that is cleaned up and no `#msgPayload`: outcome "crashed".
`Decoded` is the reference: the frames one by one, whole. `scenario`, `starts`,
`expected` and `taken` are ghosts.

**`WebSocket`** has both endpoints of one connection after `#start`. An endpoint is
a record; `Close`, `ProtocolError`, `ReceiveClose` are the methods up to their next
await and `Resume` is what a caller of `close()` does once its close frame is
written. The writer appears as what ProtocolWriter shows of it: messages and the
close frame in the order of the calls, control frames allowed to overtake.
`net` is TCP with FIN, `end()` and `destroy()`. `faulty` records that something
happened (a timer, an error, garbage, a refused code) after which a clean close is
not owed. Either owner or both may call `close()` at any time; `closers` says who did.

**`Handshake`** has both ends from their constructors to OPEN or CLOSED. The client
takes a URL (`Request`, with the checks of `MayNotRequest`), and each request it made
may be answered by an upgrade, a redirection, another status, an error or node's
timeout, in time or late (`request[u] = "late"`: the promise is settled, the request
lives on). The server has two awaits, the import of `crypto` and the digest
(`ServerChecks`, `ServerAnswers`). `Start` is `#start()` up to `emit('open')`, whose
listeners are what `close()` left; `StartWith` gives the reader the chunk of the
upgrade. Home is the host where this library serves; any other host answers what it
likes, and with the visitor "other" a client of another make asks at Home.
`Negotiation` is pure: `Said` is what an end writes of a configuration, `ServerAgrees`
and `ClientAgrees` what each makes of the other's parameters, `ServerRefuses` and
`ClientRefuses` where they throw. `ExtensionLine` puts the header line between: tokens
are generated, and `parsePermessageDeflateExtLine` reads them one by one as the state
machine of the source does (a set: empty where it throws). Handshake uses both.

**`Wire`** is one connection on which frames go one at a time from a client, a client
with `zeroMasking` or a server: `WriteFrame` encodes header and mask, the reader's
`Read16bitHeader` and `ReadRestOfHeader` decode them, `ConsumePayloadChunk` unmasks any
number of bytes. A header is a sequence of bytes, numbers are in decimal arithmetic of
bytes, since the shifts and ors of the source touch separate bits. A payload
byte is the set of key bytes it is xored with, which is what xor does when no key byte
equals another. `aligned` says whether the bytes happen to lie where 32-bit words can
be used. The maskers live as long as the connection, so the offset a frame leaves is
there when the next begins.

`MCMutex`, `MCProtocolWriter`, `MCProtocolReader`, `MCWebSocket`, `MCHandshake` and
`MCWire` give the constants their small sets. `MutexProofs`, `ProtocolWriterProofs`,
`ProtocolWriterOrderProofs`, `ProtocolReaderProofs`, `WebSocketProofs`,
`HandshakeProofs`, `NegotiationProofs` and `WireProofs` hold the theorems.

How they compose: ProtocolWriter takes the Mutex as a queue, which FifoLock and the
theorems of MutexProofs justify; WebSocket takes the writer as an outbox in the order
of the calls; WebSocket begins where Handshake ends, with `Started`; ProtocolReader and
ProtocolWriter take a header as its fields, which Wire justifies.

Abstracted from: the content of payloads, compression ratios, `binaryType`, JSON,
texts of reasons, `emitFragments` (the sanity check wants `liveTextDecode` beside
`receiveFragmentedMessages`, and that is no key of the configuration, so the reader
never sees it as true), the size of the socket's buffer (any write may or may not ask
for a drain), HTTP itself, quoted values in an extension line, digits that are
no number in the line of another make, and what a failed or late handshake leaves in
`config`, which nothing reads any more. Three paths are left out: a failing deflater in
the writer, JSON that does not parse in the reader (1007), and the answer 1000 to a
close frame without a code (`websocket.js:469`), since `close()` of this library always
writes one.

## 3. Runs

| run | configuration | what it shows |
|---|---|---|
| mutex | 6 calls, 2 of them with a timeout | until a timer fires: `MutualExclusion`, `ChainInv`, `ImplementsFifoLock`; at any time: `OverlapOnlyByTimeouts`, `LockedCountsPendingUnlocks`, `EveryCallGetsItsKey` |
| writer | a message of 2 fragments and one of 1, or a Blob and a stream of 2 chunks; a ping, the close; the socket may end, be destroyed or fail | order of the messages, nothing after the close frame, frames contiguous, messages whole, locks returned, `bufferedAmount`, one report per failure, every send resolves, every control frame leaves |
| writer_large_chunks | the same, one chunk of 2 fragments, no failures | **violated** `MessagesWhole` |
| websocket_close | 2 messages of the server, 1 of the client, a ping each, codes 1000 and 1012, one owner closes or both, no failures | no error whoever closes, a clean close if one does, a graceful one but for `LosesItsQueue`, readyState moves forward |
| websocket_faults | 2 messages of one end, or a ping of the server and a message of the client; codes 1000 and (refused) 1012; all failures and timers, compression | order and no duplicates, `wasClean`, the close event comes |
| websocket_ping_error | a ping each, garbage on the wire | **violated** `OneErrorEvent` |
| websocket_inflate | messages and a ping, compression | **violated** `CloseIsGraceful` |
| reader_frames | 31 scenarios of at most 4 frames, every cut into chunks | buffer, hand-over, deserved errors, everything handled |
| reader_empty_final | a compressed message ended by an empty frame, then another | **violated** `ErrorsAreDeserved` |
| reader_inflated_ping | a ping between fragments of a compressed message | **violated** `DeliveredAsSent` |
| wire | 11 sizes around every boundary, 4 opcodes, 2 keys, 11 bytes of payload followed | header decoded as written, payload masked as the reference says and restored |
| handshake | 124 scenarios: windows, discards, subprotocols, redirections, foreign clients | one outcome, the same subprotocol and compression at both ends, early messages, early `close()`, safe redirections, an end |

Bounds. Six calls give the Mutex a holder with three waiters behind it and a timed
call anywhere between, twice, so that a key shifted by one timer is missed by the
other. The writer's mutexes see every kind of caller; two fragments are enough for a
"first" and a "continuation", and a third would repeat the second. The constraint
`TwoMessages` of the run writer keeps the two plain messages and the two awaited ones
(Blob, stream) apart: each pair meets the ping, the close and every failure, and the
constraint only says what the program does not call. In the reader every header length
(2, 4, 6, 8, 10 and 14 bytes) occurs, 12 bytes of a second header are cut in every way,
and each kind of wrong frame stands inside a fragmented message with a frame before and
after it. Its scenarios avoid three situations known to go wrong: those of the two
violated runs, and an empty message while a stream is queued. In WebSocket one failure
besides the timers is allowed, and each end pings once. Two messages in a row are what
order, loss and a gap need; in websocket_faults the constraint `MessagesOrAPing` keeps
them apart from the ping, and `RefusedWithoutMessages` has only the client close with
the code that is refused, without messages. Both constrain nothing but what the owners
call, and no action of an owner is fair, so a behaviour that stays within them is never
cut short and `CloseEventComes` is checked on it to its end. In Wire 11 bytes are two words
and a rest, cut anywhere; a masker's offset takes every value at the start of a chunk.
In Handshake a client tries up to three URLs, which a circle over two hosts needs, and
the limits 1 and 3 are both reached; two calls of `close()` let a second one find the
first; windows of 8, 12 and 15 bits are the smallest, one between and the default.
Deadlock is checked in Wire only: the other systems stop when their calls are done.

Fairness. The event loop resumes a call whose promise is resolved and delivers an
event that is due (weak fairness of those actions); a timer that runs fires; a
holder of a Mutex unlocks it; for `SendsResolve` the peer keeps reading (`Drain`) and
streams end; for `EverythingIsHandled` the bytes arrive and the inflater answers.
`CloseEventComes` assumes none of the writer's steps, which a peer that does not
read can hold up for ever: only the forced termination timer, the socket's own
events and delivery. `HandshakeEnds` assumes that an end takes its next step once an
await is over, and that node's timer of a request fires, so `config.timeout` is not 0;
no answer of a server is assumed. No action of the program's owner is fair.

### What the violated runs say

* **writer_large_chunks**, `protocolWriter.js:60`: a chunk larger than
  `maxFragmentSize` is written one awaited frame at a time while the stream's
  `close` handler queues the final frame and unlocks the message mutex, which line
  49 says "is unlocked after final fragment".
* **websocket_ping_error**, `websocket.js:242`: `once('error', doReject)` passes the
  error as `didTimeout`, so the branch that should "not throw another error"
  (line 232) is never taken on an error.
* **websocket_inflate**, `websocket.js:350`: `end` destroys a socket whose reader
  still inflates, so messages sent before `close()` are lost, against line 188,
  "Gracefully close the connection after any buffered messages are sent".
* **reader_empty_final**, `protocolReader.js:241`: the consumption of the empty final
  frame of a compressed message is not awaited, and the next message is refused as
  sent "before finishing a fragmented one".
* **reader_inflated_ping**, `protocolReader.js:420`: control frames "can be
  interjected in the middle of a fragmented message" (`protocolRelated.js:12`),
  but their payloads are inflated when the message is compressed.

### What the models show besides

These have no violated run of their own: of the first the run websocket_close shows
that it is the only such case, some contradict a comment but need a single step, of some
nothing in the repository promises otherwise.

* When both owners close, messages of the server can be lost without any failure. The
  server has called `close()` and its messages and close frame wait to be written (for
  `drain`, or for the message before them); the client's close frame arrives, and
  `#receiveClose()` awaits `this.close()`, which returns at once since `#closeCalled` is
  set (`websocket.js:200`), and `end()`s the socket (line 470). What was queued is never
  written, the server reports `wasClean: false` and the client 1006. Line 188 says
  "Gracefully close the connection after any buffered messages are sent".
  `CloseIsGraceful` excepts the case by name, `LosesItsQueue`: a server, both owners
  closed, and it did not get to write its close frame. Without the exception TLC refutes
  the property after 8 states; with it the property holds while nothing is compressed, so
  messages are lost in no other case, in particular never those of a client.
* A Blob is read before the message mutex is asked for (`protocolWriter.js:87`), so what
  is sent after it leaves first, although `websocket.js:180` says "Messages sent before
  it resolves are buffered and sent in order": `SentInOrder` without its exception for
  Blobs is violated after 12 steps.
* An empty message that was given to a stream of `receiveStream()` is emitted all the
  same (`protocolReader.js:264`), from a payload that was never set: 1007 for text, a
  TypeError for binary; "even empty messages are allowed" (`websocket.js:178`).
* A request whose `upgrade` or version header does not match gets no answer
  (`serverHandshake.js:23`), though the comment at line 7 says "connect to client or
  answer with error"; `answered` stays "no" in the model.
* A `close()` while CONNECTING leaves a listener for `error` that calls `off()` without
  one and throws (`websocket.js:197`); `Fails` ends the process.
* The handlers of socket errors during the handshake call `debug()`, which only the
  tests define (`ServerSocketError`, `ClientSocketError`).
* A socket that is upgraded after the timeout is left open (`socket[u] = "late"`).
* `maxRedirections` counts the first URL too; a relative location does not parse.
* `compression: false` is not kept by the merge of configurations (`websocket.js:134`).
* `protocolReader.js:363` shifts the size by `64n` where it wants the top bit, and the
  next check makes up for it; `masker.js:36` compares a buffer with 0, so a mask of zero
  is applied like any other; `protocolWriter.js:102` reads a key the configuration has
  not, so one of the two thresholds of compression is never used.

## 4. Proofs

For every value of the constants:

* `MutexProofs`: `TypeCorrect` and `CountCorrect` (`LockedCountsPendingUnlocks`) always;
  and until a timer fires, which for the library is always, since it passes no
  timeout, `ChainCorrect`, `Exclusion` and `Refinement` (`Spec => ImplementsFifoLock`).
  The mutex is correct because two structures agree: `#keys`, shifted by whoever
  unlocks, and the chain of promises. `ChainInv` says so (each queued key waits for the
  one before it, `#lock` is the last one, only the first can have proceeded) and is
  inductive; exclusion alone is not. `FifoStep` maps each step to a step of FifoLock.
  `OverlapBounded` (`OverlapOnlyByTimeouts`) is what is left once timers fire: `PlacesInv`
  counts the calls that are in or have nothing to wait for any more, and each timer that
  fires adds at most one to the one there is.
* `ProtocolWriterProofs`: `TypeCorrect`, `LocksAreReturned` and
  `NothingFollowsClose`. The types are not inductive by themselves, since a step may
  take the tail of a queue that must not be empty: `LockInv` says which calls are in
  which queue, once, at which pc. `NothingFollowsClose` adds `CloseInv`: once the
  close frame is queued, everything behind it, in the queue or on the wire, is a
  control frame, because `close()` never gives the message mutex back. It assumes
  `SmallChunks`, that every chunk of a stream fits one frame; writer_large_chunks
  shows the assumption is needed. `WriterAssumption` (the kinds of calls are disjoint)
  is the only other assumption.
* `ProtocolWriterOrderProofs`: the other safety invariants of the writer. `OneReport`
  rests on `ReportInv` (a report leaves the socket destroyed), `BacklogCorrect` counts the
  calls in the message queue, `FramesTogether` rests on `ContiguousInv` (a head whose
  payload is missing is the last part of the wire, and belongs to the frame whose turn it
  is), `DoneSendsAreWritten` on `WrittenInv` (which fragments of a call are on the wire at
  each of its pcs). For `MessagesInOrder` (`SentInOrder`) the wire and the frames that
  wait are one line (`Line`): a step leaves it, inserts a payload or puts a frame behind
  it, and a frame that opens a message is put there by the call at the head of
  `#msgMutex`, whose queue is in the order of the calls but for Blobs (`AskedInv`,
  `OrderInv`). `MessagesStayWhole` follows the last data frame of that line and the call
  that holds the message mutex (`WholeInv`, `ProgressInv`). It assumes `WholeStreams`: a
  chunk is one frame, no stream breaks off and none ends without data. Without the first
  the property is false (writer_large_chunks), without the others so is it
  (section 5, 3).
* `WebSocketProofs`: `TypeCorrect`; `CleanIsMutual` from `MutualInv` (what an end believes
  of the other's close frame, on the way or received, was written);
  `MessagesArriveInOrder` (`DeliveredInOrder`), under all failures, from `OutboxInv`,
  `DeliveryInv` (what is on the way continues what was delivered, without a gap while
  both sockets live) and `LastInv` (the close frame is behind every message);
  `StatesAdvance` (the action property `ReadyStateAdvances`) from `SafeInv`. With nothing
  that fails and no compression, `ClosesAreClean` (`CloseIsClean`) and
  `ClosesAreGraceful` (`CloseIsGraceful`). Both rest on `FollowInv`, for any number of
  calls of `close()`: no end refuses a close frame of the other (`Behaves`, `Welcome`,
  `Accepted`: where the writer no longer checks a code the reader of the other end does
  not either, or it is the other end's own code that comes back), so none emits an error;
  and the client finishes after the server and, if the server wrote its close frame, has
  it by then, since it stays in front of the FIN (`Follows`, `Warned`). For one owner
  `CleanInv` says more: while nobody called `close()`, that both ends are open with
  nothing that closes on the way, and after exactly one call with code c in which of the
  phases of the closing handshake the two ends are together (`Parties`), in which order
  their sockets finish (`Ordered`), and that no other code occurs anywhere (`Quiets`). An
  end that has the other's close frame has all its messages by `LastInv`
  (`ClosedIsTold` says when it has). The hypothesis `~Compression` is needed:
  websocket_inflate violates `CloseIsGraceful` with it.
* `HandshakeProofs`: `TypeCorrect`, `HandshakesEndOnce` (`OneOutcome`),
  `RedirectionsAreSafe` (`RequestsAreSafe`), `EarlyClosesAreKept` (`ClosePostponed`) and
  `NothingEarlyIsLost` (`EarlyMessages`), for any scenarios. The inductive `ClientInv`
  relates the client's pc to the request it waits for, of which there is at most one,
  and the URLs tried to the redirections left; `ClosesInv`, `SentInv` and `EarlyInv` relate
  the calls of `close()`, what the server sent and what the client has read.
  `ConnectedEndsAgree` (`Agreement`) assumes `LinesAreUnderstood`: what one end writes
  into an extension line the other reads as it was meant. That is a fact about the
  parser of ExtensionLine, a recursive function, which the provers cannot evaluate for
  every line; the library can write only finitely many, and TLC evaluates
  all of them, request and answer of all 256 configurations (`MCUnderstood`, an
  assumption of MCHandshake). `EndsAgree` of NegotiationProofs does the rest.
* `NegotiationProofs`: `EndsAgree`. For any two configurations the server accepts what
  the client says, the client accepts the answer, and both end with the same windows
  and contexts, within both configurations. No assumption.
* `WireProofs`: `TypeCorrect`, `HeaderCorrect` and `PayloadCorrect`, for any sizes below
  2^53, opcodes, keys, chunks and alignments (`WireAssumption`). `HeaderAsWritten` and
  `PayloadRestored` are about the end of the decoding, so the invariant `IInv` adds what
  holds on the way: the frame on the wire was written with one key (`Written`), the
  first two bytes were taken apart rightly (`FirstPartRead`), and the reader's masker
  has the writer's key and stands at `Len(got) % 4`. `BitFieldDecoded`, `TwoBytes` and
  `EightBytes` are the arithmetic; `MaskedByOffset` says that masking by words and
  leftovers is masking byte by byte.

* `ProtocolReaderProofs`: `TypeCorrect`, `BufferCorrect` (`BufferIsTheRest`) and
  `PositionCorrect`, for any frames, any chunks, with or without a failure, compression
  or streams. The types alone are not inductive: that the frame a header belongs to
  exists, and that `#read()` has what it asks for, rests on where the reader stands.
  `ReaderInv` is therefore `BufferInv` (`Holds`: the chunks are the bytes behind those
  taken, none of them empty), `PositionInv` (what was taken is whole frames and what
  `#next` and `payloadConsumed` say of the current one), `AwaitInv` (only the last call
  of the inflater is awaited) and the types. `HoldsMore`, `ReadHolds`, `ConcatHolds`
  and `PutBackHolds` are one lemma for each way the code adds bytes or takes them;
  `StartsAre` says of the recursive function `Starts` what they use. It assumes of the
  scenarios that their frames are frames, that a size above 2^53 is written in eight
  bytes and that a frame with an invalid byte has one (`ReaderAssumption`).

  `DeliveryCorrect` (`DeliveredAsSent`) and `ErrorsCorrect` (`ErrorsAreDeserved`) say what
  the buffer is for, with the hypothesis `Usual` on the frames. `After[i]` is what the
  first `i` frames mean when each is taken whole (`After[Len(frames)]` is `expected`). The
  inductive `MeaningInv` relates the message to it wherever `_transform()` stands:
  - between two frames (`Settled`) the message is what the frames so far mean;
  - within data frame `i` (`Framed`) the bytes consumed of it are divided into those the
    message has, those the inflater holds back and those it is asked for (`Divided`), and
    at most one call of the inflater is pending (`AnswerInv`): that the current frame is
    still the one the inflater answers for is what makes `HandOn` right;
  - within a control frame the message is as before it, its payload aside;
  - once failed or destroyed (`Over`), all before some frame was handed over, and unless
    it was destroyed that frame is the first wrong one and its verdict the code;
  - the streams in use, used and queued are the calls of `receiveStream()` (`StreamsInTurn`).

  Each operator is related to the decoding of one frame first (`DataGoesOn`, `DataEnds`,
  `ControlEnds`, `HeaderHandled`: `Ends(v, e)` says that `v` is what a frame leaves), then
  each action keeps the invariant (`ReadPayloadMeans`, `InflatedMeans`, ...); `AfterBegins`
  makes what was handed over a prefix of what is expected.

  `Usual` excludes what the code gets wrong, and 30 of the 31 scenarios of reader_frames
  satisfy it. Within a compressed message there is no ping, pong or close frame with a
  payload (reader_inflated_ping violates `DeliveredAsSent`) and no empty last frame
  (reader_empty_final violates `ErrorsAreDeserved`; the 31st scenario has one with nothing
  after it, where no harm comes of it). With `receiveStream()` in use there is no empty
  message in one frame (`protocolReader.js:264`) and no invalid data, which a piped message
  is not checked for. Any frames in between, wrong ones included, are covered.

Model-checked only: the liveness properties and ENABLED, which the prover cannot do, and
`LinesAreUnderstood`, since what the recursive functions of ExtensionLine compute is an
induction over data. Every invariant a passing run checks is stated by a theorem, with the
hypotheses named above.

## 5. Not modelled, and what is left of the plan

1. **Backpressure of received streams** (`protocolReader.js:447,472`): the reader's
   readable buffer, `pipe`, `unpipe`, and a destination that asks to wait. It would go
   into ProtocolReader, where a stream accepts everything at once today.
2. **Writer and ping timer composed**: a ping that waits for `drain` has not started its
   timer (`websocket.js:224`).
3. Streams that break or end without data (`protocolWriter.js:52`): modelled
   (`StreamBroken`), but the run has only streams that end well, since `MessagesWhole`
   would not hold and nothing promises that it does.
Left out for good: configuration (a sequential conversion), Trigger and BufferStream
(used by tests only), tests and examples, except that two tests' treatment of the
socket are actions of WebSocket (`Garbage`, `Drop`). Sizes of 2^53 and more, which the
writer cannot produce, are ProtocolReader's `Huge`.
