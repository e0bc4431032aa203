----------------------------- MODULE WebSocket ------------------------------
(***************************************************************************)
(* The WebSocket class of source/websocket.js, once #start() has run: the  *)
(* two endpoints of one connection, each with its closing handshake, its   *)
(* ping mutex and its timers, and the TCP connection between them.         *)
(*                                                                         *)
(* An operator no action uses is a plausible mistake in the one after it,  *)
(* kept to show which property would notice.                               *)
(*                                                                         *)
(* The state of an endpoint is a record.  The methods of the class are     *)
(* operators that return the record they leave behind up to their next     *)
(* await; an action is an event of node's event loop together with all the *)
(* methods it calls.  The writer is what ProtocolWriter promises: messages *)
(* and the close frame leave in the order of the calls, a ping or a pong   *)
(* may overtake them, nothing leaves after the close frame except these.   *)
(***************************************************************************)
EXTENDS Naturals, Sequences, FiniteSets

CONSTANTS UserCodes,   \* the codes the owners of the endpoints call close() with
          MaxSends,    \* bound: calls of send() of each endpoint
          MaxPings,    \* bound: calls of ping() of each endpoint
          Events,      \* which of the events below may happen
          Compression  \* whether received messages are inflated (asynchronously)

Ends == {"client", "server"}

ASSUME ConnectionAssumption ==
  /\ UserCodes \subseteq Nat \ {0}
  /\ MaxSends \in [Ends -> Nat] /\ MaxPings \in [Ends -> Nat]
  /\ Events \subseteq {"forced", "pongTimeout", "socketError", "garbage", "drop"}
  /\ Compression \in BOOLEAN

Peer(e) == IF e = "client" THEN "server" ELSE "client"

VARIABLES ws,        \* the two WebSocket objects
          net,       \* net[e]: what e wrote and its peer has not read
          sent,      \* history: messages of e sent before its close()
          delivered, \* history: message events of e
          closers,   \* history: the calls of close() by an owner that took effect
          closeWritten, \* history: who wrote its close frame
          faulty     \* history: one of Events happened, or close() was refused

vars == <<ws, net, sent, delivered, closers, closeWritten, faulty>>

(* The codes the writer accepts from the owner: 1000, what RFC 6455 allows *)
(* a server and 3000-4999.  None of the others used here is accepted.      *)
validServerCodes == {1000, 1001, 1002, 1003, 1007, 1008, 1009, 1011, 1012, 1013, 1014}
validClientCodes == {1000, 1001, 1002, 1003, 1007, 1008, 1009, 1010}

MaySend(e, code) ==
  code \in 3000..4999 \/ IF e = "client" THEN code = 1000 ELSE code \in validServerCodes

(* The codes the reader of e accepts from its peer. *)
MayReceive(e, code) ==
  code \in 3000..4999 \/ code \in IF e = "client" THEN validServerCodes ELSE validClientCodes

Frame(kind, n) == [kind |-> kind, n |-> n]

Codes == UserCodes \cup {1002, 1006, 1011}
Waits == {"none", "user", "reply", "error"}

Frames(kinds) == [kind : kinds, n : Nat]

Endpoints ==
  [readyState : {"open", "closing", "closed"},
   closeCalled : BOOLEAN, closeFrameSent : BOOLEAN, closeFrameReceived : BOOLEAN,
   closeCode : Codes \cup {0}, forcedTimer : BOOLEAN,
   writerChecks : BOOLEAN, readerChecks : BOOLEAN,
   waiting : [by : Waits, code : Codes \cup {0}],
   outbox : Seq(Frames({"data", "close", "held"})),
   control : Seq(Frames({"ping", "pong"})), stuck : BOOLEAN,
   pingQueue : Nat, ping : {"idle", "sending", "waiting"}, pongTimer : BOOLEAN,
   pings : Nat, sends : Nat,
   io : {"open", "ended", "destroyed", "closed"}, reader : {"on", "off"},
   errors : Nat,
   closed : Seq([code : Codes, wasClean : BOOLEAN])]

TypeOK ==
  /\ ws \in [Ends -> Endpoints]
  /\ net \in [Ends -> Seq(Frames({"data", "ping", "pong", "close", "garbage", "fin"}))]
  /\ sent \in [Ends -> Seq(Nat)] /\ delivered \in [Ends -> Seq(Nat)]
  /\ closers \subseteq [end : Ends, code : UserCodes] /\ closeWritten \subseteq Ends /\ faulty \in BOOLEAN

(* What #start() leaves. *)
Started ==
  [readyState |-> "open",
   closeCalled |-> FALSE, closeFrameSent |-> FALSE, closeFrameReceived |-> FALSE,
   closeCode |-> 0, forcedTimer |-> FALSE, writerChecks |-> TRUE, readerChecks |-> TRUE,
   waiting |-> [by |-> "none", code |-> 0],
   outbox |-> <<>>, control |-> <<>>, stuck |-> FALSE,
   pingQueue |-> 0, ping |-> "idle", pongTimer |-> FALSE, pings |-> 0, sends |-> 0,
   io |-> "open", reader |-> "on", errors |-> 0, closed |-> <<>>]

Init ==
  /\ ws = [e \in Ends |-> Started]
  /\ net = [e \in Ends |-> <<>>]
  /\ sent = [e \in Ends |-> <<>>] /\ delivered = [e \in Ends |-> <<>>]
  /\ closers = {} /\ closeWritten = {} /\ faulty = FALSE

(* The socket -------------------------------------------------------------*)
Reads(w) == w.io \in {"open", "ended"}

Destroy(w) == IF Reads(w) THEN [w EXCEPT !.io = "destroyed"] ELSE w

EndSocket(w) == IF w.io = "open" THEN [w EXCEPT !.io = "ended"] ELSE w

Fin == Frame("fin", 0)

(* end() sends a FIN behind what was written; destroy() drops what node    *)
(* still buffers and what was not read; both ends then see the connection  *)
(* finish.                                                                 *)
NetAfter(e, old, new, flow) ==
  CASE new.io = "destroyed" /\ Reads(old) ->
         {[flow EXCEPT ![e] = Append(SubSeq(@, 1, k), Fin), ![Peer(e)] = <<>>] :
            k \in {n \in 0..Len(flow[e]) : \A i \in 1..n : flow[e][i] # Fin}}
    [] new.io = "ended" /\ old.io = "open" -> {[flow EXCEPT ![e] = Append(@, Fin)]}
    [] OTHER -> {flow}

Becomes(e, w, flow) ==
  /\ ws' = [ws EXCEPT ![e] = w]
  /\ net' \in NetAfter(e, ws[e], w, flow)

(* The methods ------------------------------------------------------------*)
(* What a caller of close() does when close() returns. *)
ServerDestroys(e, w, by, code) ==
  CASE by = "reply" /\ e = "server" -> Destroy(w)
    [] by = "error" -> Destroy([w EXCEPT !.closeCode = code])
    [] OTHER -> w

Resume(e, w, by, code) ==
  CASE by = "reply" /\ e = "server" -> EndSocket(w)
    [] by = "error" -> Destroy([w EXCEPT !.closeCode = code])
    [] OTHER -> w

NoTimer(w) == w

StartForcedTimer(w) == [w EXCEPT !.forcedTimer = TRUE]

(* ProtocolWriter.close() up to its lock of #msgMutex *)
CloseJumpsTheQueue(w, by, code) ==
  [w EXCEPT !.waiting = [by |-> by, code |-> code], !.outbox = <<Frame("close", code)>> \o @]

QueueClose(w, by, code) ==
  [w EXCEPT !.waiting = [by |-> by, code |-> code], !.outbox = Append(@, Frame("close", code))]

(* Only the first caller waits for the close frame to be written. *)
CloseTwice(e, w, by, code) ==
  QueueClose(StartForcedTimer([w EXCEPT !.readyState = "closing"]), by, code)

Close(e, w, by, code) ==
  IF w.closeCalled THEN Resume(e, w, by, code)
  ELSE QueueClose(StartForcedTimer([w EXCEPT !.closeCalled = TRUE, !.readyState = "closing",
                                             !.readerChecks = @ /\ e = "client"]),
                  by, code)

(* emit('error'): ping() listens with doReject, which takes the error for  *)
(* a timeout and raises a protocol error of its own; its timer goes on.    *)
EmitError(w) == [w EXCEPT !.readyState = "closing", !.errors = @ + 1, !.writerChecks = FALSE]

ProtocolError(e, w, code) ==
  IF w.ping = "waiting"
  THEN LET nested == EmitError(EmitError([w EXCEPT !.ping = "idle"]))
       IN  Close(e, Close(e, nested, "error", 1002), "error", code)
  ELSE Close(e, EmitError(w), "error", code)

(* The reader is destroyed with an error. *)
ReaderError(e, w, code) == ProtocolError(e, [w EXCEPT !.reader = "off"], code)

ReceiveClose(e, w, code) ==
  IF w.closeFrameReceived THEN w
  ELSE Close(e, [w EXCEPT !.closeFrameReceived = TRUE, !.readyState = "closing",
                          !.closeCode = code, !.writerChecks = FALSE], "reply", code)

HandleCloseFrame(e, w, code) ==
  IF w.readerChecks /\ ~MayReceive(e, code) THEN ReaderError(e, w, 1002)
                                            ELSE ReceiveClose(e, w, code)

ReceivePing(w) ==
  IF w.closeFrameReceived THEN w ELSE [w EXCEPT !.control = Append(@, Frame("pong", 0))]

ReceivePong(w) ==
  IF w.ping = "waiting" THEN [w EXCEPT !.ping = "idle", !.pongTimer = FALSE] ELSE w

(* A frame that waits for "drain" when the socket fails is reported by the *)
(* writer.                                                                 *)
MayBlock(w) ==
  w.control # <<>> \/ (w.outbox # <<>> /\ Head(w.outbox).kind # "held")

WriterError(e, w) == ProtocolError(e, w, 1011)

(* What the owner of e does -----------------------------------------------*)
UserSend(e) ==
  LET n == ws[e].sends + 1
  IN  /\ n <= MaxSends[e]
      /\ ws' = [ws EXCEPT ![e].sends = n, ![e].outbox = Append(@, Frame("data", n))]
      /\ sent' = IF ws[e].closeCalled THEN sent ELSE [sent EXCEPT ![e] = Append(@, n)]
      /\ UNCHANGED <<net, delivered, closers, faulty, closeWritten>>

UserClose(e) ==
  \E code \in UserCodes :
    /\ ~ws[e].closeCalled
    /\ Becomes(e, Close(e, ws[e], "user", code), net)
    /\ closers' = closers \cup {[end |-> e, code |-> code]}
    /\ UNCHANGED <<sent, delivered, faulty, closeWritten>>

(* ping(), of the owner or of the idle timer of a server *)
Ping(e) ==
  /\ ws[e].pings < MaxPings[e]
  /\ ws' = [ws EXCEPT ![e].pings = @ + 1, ![e].pingQueue = @ + 1]
  /\ UNCHANGED <<net, sent, delivered, closers, faulty, closeWritten>>

(* ping() past #pingMutex.lock() *)
GrantPing(e) ==
  /\ ws[e].ping = "idle" /\ ws[e].pingQueue > 0
  /\ ws' = IF ws[e].readyState # "open" THEN [ws EXCEPT ![e].pingQueue = @ - 1]
           ELSE [ws EXCEPT ![e].pingQueue = @ - 1, ![e].ping = "sending",
                           ![e].control = Append(@, Frame("ping", 0))]
  /\ UNCHANGED <<net, sent, delivered, closers, faulty, closeWritten>>

(* The owner writes to the socket itself, as a test does (bound: once). *)
Garbage(e) ==
  /\ "garbage" \in Events /\ ~faulty /\ ws[e].io = "open"
  /\ net' = [net EXCEPT ![e] = Append(@, Frame("garbage", 0))]
  /\ faulty' = TRUE
  /\ UNCHANGED <<ws, sent, delivered, closers, closeWritten>>

(* The owner destroys the socket, as another test does. *)
Drop(e) ==
  /\ "drop" \in Events /\ ~faulty /\ Reads(ws[e])
  /\ Becomes(e, Destroy(ws[e]), net)
  /\ faulty' = TRUE
  /\ UNCHANGED <<sent, delivered, closers, closeWritten>>

(* What the writer does ---------------------------------------------------*)
Write(e, f) ==
  IF ws[e].io = "open" /\ Reads(ws[Peer(e)]) THEN [net EXCEPT ![e] = Append(@, f)] ELSE net

(* A message that is ready would not wait for those before it. *)
WriteWhenReady(e) ==
  LET o == ws[e].outbox
  IN  \E i \in 1..Len(o) :
        /\ \A j \in 1..i : o[j].kind = "data"
        /\ ws' = [ws EXCEPT ![e].outbox = SubSeq(@, 1, i - 1) \o SubSeq(@, i + 1, Len(@))]
        /\ net' = Write(e, o[i])
        /\ UNCHANGED <<sent, delivered, closers, faulty, closeWritten>>

WriteMessage(e) ==
  LET w == ws[e]
  IN  /\ w.outbox # <<>> /\ Head(w.outbox).kind = "data"
      /\ ws' = [ws EXCEPT ![e].outbox = Tail(@)]
      /\ net' = Write(e, Head(w.outbox))
      /\ UNCHANGED <<sent, delivered, closers, faulty, closeWritten>>

(* The close call keeps #msgMutex: whatever is behind it stays there. *)
KeepsLock(queue) == <<Frame("held", 0)>> \o Tail(queue)

SentAnyway(w) == TRUE

CloseIsSent(w) == w.io = "open"

(* The close frame is written, or refused, or the socket is not writable. *)
WriteClose(e) ==
  LET f == Head(ws[e].outbox)
      by == ws[e].waiting
      w == [ws[e] EXCEPT !.outbox = KeepsLock(@), !.waiting = [by |-> "none", code |-> 0]]
  IN  /\ ws[e].outbox # <<>> /\ f.kind = "close"
      /\ IF w.io = "open" /\ w.writerChecks /\ ~MaySend(e, f.n)
         THEN /\ Becomes(e, w, net)
              /\ faulty' = TRUE
              /\ UNCHANGED closeWritten
         ELSE /\ Becomes(e, Resume(e, [w EXCEPT !.closeFrameSent = CloseIsSent(w)], by.by, by.code),
                         Write(e, f))
              /\ closeWritten' = IF w.io = "open" THEN closeWritten \cup {e} ELSE closeWritten
              /\ UNCHANGED faulty
      /\ UNCHANGED <<sent, delivered, closers>>

(* A ping starts its timer once it is written, or found it could not be. *)
WriteControl(e) ==
  LET w == ws[e]
      f == Head(w.control)
  IN  /\ w.control # <<>> /\ ~w.stuck
      /\ ws' = [ws EXCEPT ![e].control = Tail(@), ![e].stuck = w.io # "open",
                          ![e].ping = IF f.kind = "ping" THEN "waiting" ELSE @,
                          ![e].pongTimer = @ \/ f.kind = "ping"]
      /\ net' = Write(e, f)
      /\ UNCHANGED <<sent, delivered, closers, faulty, closeWritten>>

(* What the socket and the reader do --------------------------------------*)
Receive(e) ==
  LET w == ws[e]
      f == Head(net[Peer(e)])
      rest == [net EXCEPT ![Peer(e)] = Tail(@)]
  IN  /\ Reads(w) /\ w.reader = "on" /\ net[Peer(e)] # <<>>
      /\ Becomes(e, CASE f.kind = "data" -> w
                      [] f.kind = "ping" -> ReceivePing(w)
                      [] f.kind = "pong" -> ReceivePong(w)
                      [] f.kind = "close" -> HandleCloseFrame(e, w, f.n)
                      [] f.kind = "garbage" -> ReaderError(e, w, 1002)
                      [] f.kind = "fin" -> Destroy(w),
                 rest)
      /\ delivered' = IF f.kind = "data" THEN [delivered EXCEPT ![e] = Append(@, f.n)] ELSE delivered
      /\ UNCHANGED <<sent, closers, faulty, closeWritten>>

(* The 'end' of the socket while the reader is still inflating: the frames *)
(* behind the message are in the reader, and it is destroyed.              *)
EndOvertakes(e) ==
  LET flow == net[Peer(e)]
  IN  /\ Compression /\ Reads(ws[e]) /\ ws[e].reader = "on"
      /\ flow # <<>> /\ Head(flow).kind = "data" /\ flow[Len(flow)] = Fin
      /\ Becomes(e, Destroy(ws[e]), net)
      /\ delivered' = [delivered EXCEPT ![e] = Append(@, Head(flow).n)]
      /\ UNCHANGED <<sent, closers, faulty, closeWritten>>

(* ECONNRESET, which the handler of 'error' ignores: the peer is gone. *)
Reset(e) ==
  /\ Reads(ws[e]) /\ ~Reads(ws[Peer(e)])
  /\ LET w == Destroy(ws[e])
     IN  \/ Becomes(e, w, net) /\ UNCHANGED faulty
         \/ MayBlock(w) /\ Becomes(e, WriterError(e, w), net) /\ faulty' = TRUE
  /\ UNCHANGED <<sent, delivered, closers, closeWritten>>

(* Any other error of the socket (bound: one, and none after Garbage). *)
SocketError(e) ==
  /\ "socketError" \in Events /\ ~faulty /\ Reads(ws[e])
  /\ LET w == Destroy(ws[e])
         new == IF w.readyState = "open" THEN ReaderError(e, w, 1006) ELSE w
     IN  Becomes(e, new, net) \/ (MayBlock(w) /\ Becomes(e, WriterError(e, new), net))
  /\ faulty' = TRUE
  /\ UNCHANGED <<sent, delivered, closers, closeWritten>>

(* The 'close' event of the socket. *)
PlainCode(w) == w.closeCode

ReportedCode(w) == IF w.closeCode = 0 THEN 1006 ELSE w.closeCode

SocketClosed(e) ==
  LET w == ws[e]
  IN  /\ w.io = "destroyed"
      /\ ws' = [ws EXCEPT ![e].io = "closed", ![e].forcedTimer = FALSE,
                          ![e].readyState = "closed", ![e].reader = "off",
                          ![e].closed = Append(@, [code |-> ReportedCode(w),
                             wasClean |-> w.closeFrameReceived /\ w.closeFrameSent])]
      /\ UNCHANGED <<net, sent, delivered, closers, closeWritten, faulty>>

(* The timers -------------------------------------------------------------*)
ForcedTermination(e) ==
  /\ "forced" \in Events /\ ws[e].forcedTimer
  /\ Becomes(e, Destroy([ws[e] EXCEPT !.forcedTimer = FALSE]), net)
  /\ faulty' = TRUE
  /\ UNCHANGED <<sent, delivered, closers, closeWritten>>

PongTimeout(e) ==
  /\ "pongTimeout" \in Events /\ ws[e].pongTimer
  /\ Becomes(e, ProtocolError(e, [ws[e] EXCEPT !.pongTimer = FALSE, !.ping = "idle"], 1002), net)
  /\ faulty' = TRUE
  /\ UNCHANGED <<sent, delivered, closers, closeWritten>>

Next ==
  \E e \in Ends :
    \/ UserSend(e) \/ UserClose(e) \/ Ping(e) \/ GrantPing(e) \/ Garbage(e) \/ Drop(e)
    \/ WriteMessage(e) \/ WriteClose(e) \/ WriteControl(e)
    \/ Receive(e) \/ EndOvertakes(e) \/ Reset(e) \/ SocketError(e) \/ SocketClosed(e)
    \/ ForcedTermination(e) \/ PongTimeout(e)

Spec == Init /\ [][Next]_vars

(* What the event loop is given it handles, a timer that runs fires, and   *)
(* what was sent arrives; the writer may be kept from writing for ever by  *)
(* a peer that does not read.                                              *)
Fairness ==
  \A e \in Ends :
    WF_vars(Receive(e)) /\ WF_vars(SocketClosed(e)) /\ WF_vars(ForcedTermination(e))

FairSpec == Spec /\ Fairness
-----------------------------------------------------------------------------
IsClosed(e) == ws[e].closed # <<>>

(* What an endpoint reports when the connection is closed by one owner.    *)
Clean(e) == \E c \in closers : ws[e].closed = <<[code |-> c.code, wasClean |-> TRUE]>>

OneOwnerCloses == Cardinality(closers) <= 1

(* Without a failure, a timeout or a refused code no end emits an error,   *)
(* whoever closes; and a connection that one side closes emits one close   *)
(* event at each end, clean and with the code of that close().             *)
CloseIsClean ==
  ~faulty => \A e \in Ends : ws[e].errors = 0 /\ (OneOwnerCloses /\ IsClosed(e) => Clean(e))

(* Both owners called close(), and the close frame of the client came      *)
(* while messages and the close frame of the server still waited to be     *)
(* written: #receiveClose() ends the socket without waiting for them.      *)
LosesItsQueue(e) == e = "server" /\ ~OneOwnerCloses /\ e \notin closeWritten

(* close(): "Gracefully close the connection after any buffered messages   *)
(* are sent": by the time of its close event each end has been given every *)
(* message the other one sent before its close frame, when one side closes *)
(* and when both do.  The code breaks the promise in one case, and here it *)
(* is broken in no other: a server that never got to write its close frame.*)
CloseIsGraceful ==
  ~faulty => \A e \in Ends : IsClosed(e) => delivered[e] = sent[Peer(e)] \/ LosesItsQueue(Peer(e))

(* Whatever fails, messages arrive in order, once, none is skipped and     *)
(* none that was sent after close() arrives.                               *)
DeliveredInOrder ==
  \A e \in Ends :
    /\ Len(delivered[e]) <= Len(sent[Peer(e)])
    /\ \A i \in DOMAIN delivered[e] : delivered[e][i] = sent[Peer(e)][i]

(* wasClean is never claimed for a close frame the other end did not write *)
(* or that never left this end.                                            *)
WasCleanIsMutual ==
  \A e \in Ends : \A i \in DOMAIN ws[e].closed :
    ws[e].closed[i].wasClean =>
      e \in closeWritten /\ Peer(e) \in closeWritten

(* The states of a connection follow each other as CONNECTING, OPEN,       *)
(* CLOSING and CLOSED do in the API the readme refers to.                  *)
Rank(state) == CASE state = "open" -> 1 [] state = "closing" -> 2 [] state = "closed" -> 3

ReadyStateAdvances ==
  [][~faulty' => \A e \in Ends : Rank(ws[e].readyState) <= Rank(ws'[e].readyState)]_vars

(* Comment of ping(): "protocol error happened: clearTimeout(pongTimeout)  *)
(* // to not throw another error".                                         *)
OneErrorEvent == \A e \in Ends : ws[e].errors <= 1

(* Once close() was called, an error was emitted or the other end is gone, *)
(* the close event comes, however stuck the writer and the peer are.       *)
CloseEventComes ==
  \A e \in Ends :
    (ws[e].closeCalled \/ ws[e].errors > 0 \/ IsClosed(Peer(e))) ~> IsClosed(e)
=============================================================================
