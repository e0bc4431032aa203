--------------------------- MODULE WebSocketProofs ---------------------------
(***************************************************************************)
(* What the two endpoints of source/websocket.js keep for any codes, any   *)
(* number of messages and pings and any choice of the events that fail.    *)
(*                                                                         *)
(* The methods of an endpoint are first described by what they may do to   *)
(* its record (Alters, Turns), then every action by what it may do to the  *)
(* two records and to the connection (Turned, Sends, Writes, WritesClose,  *)
(* Closes; for a step in which nothing fails Calm).  The invariants are    *)
(* proved from these descriptions.                                         *)
(***************************************************************************)
EXTENDS WebSocket, FiniteSetTheorems, SequenceTheorems, TLAPS

(* There are two ends. *)
LEMMA Peers ==
  ASSUME NEW e \in Ends
  PROVE  /\ Peer(e) \in Ends /\ Peer(e) # e /\ Peer(Peer(e)) = e
         /\ \A x \in Ends : x = e \/ x = Peer(e)
BY DEF Ends, Peer

(* The codes the program closes with of its own accord are codes. *)
LEMMA CodesSet == 1002 \in Codes /\ 1006 \in Codes /\ 1011 \in Codes /\ \A c \in Codes : c \in Nat /\ c # 0
BY ConnectionAssumption DEF Codes

-----------------------------------------------------------------------------
(* The methods ------------------------------------------------------------*)
(* What a method that takes record w to record v may do: finish the socket,*)
(* leave the open state and queue a close frame if close() was not called. *)
Alters(w, v) ==
  /\ v.closeFrameSent = w.closeFrameSent /\ v.closed = w.closed /\ v.sends = w.sends
  /\ v.io = w.io \/ (Reads(w) /\ v.io = "destroyed") \/ (w.io = "open" /\ v.io = "ended")
  /\ v.readyState \in {w.readyState, "closing"}
  /\ IF w.closeCalled THEN v.closeCalled /\ v.outbox = w.outbox /\ v.waiting = w.waiting
     ELSE v.closeCalled => \E c \in Codes : v.outbox = Append(w.outbox, Frame("close", c))
  /\ ~v.closeCalled => v.outbox = w.outbox /\ v.waiting = w.waiting
  /\ v.waiting = w.waiting \/ v.waiting.code \in Codes

Turns(w, v) == Alters(w, v) /\ v.closeFrameReceived = w.closeFrameReceived

(* One method after another *)
LEMMA TurnsOn ==
  ASSUME NEW u \in Endpoints, NEW v, NEW w, Turns(u, v), Turns(v, w)
  PROVE  Turns(u, w)
<1>1. u.closeCalled \in BOOLEAN
  BY DEF Endpoints
<1> QED
  BY <1>1 DEF Turns, Alters, Reads

(* destroy() of the socket *)
LEMMA DestroyTurns ==
  ASSUME NEW w \in Endpoints
  PROVE  Destroy(w) \in Endpoints /\ Turns(w, Destroy(w))
<1>1. [w EXCEPT !.io = "destroyed"] \in Endpoints
  BY DEF Endpoints
<1>2. PICK v : v = Destroy(w)
  OBVIOUS
<1>3. v \in Endpoints
  BY <1>1, <1>2 DEF Destroy
<1>4. /\ v.closeFrameSent = w.closeFrameSent /\ v.closed = w.closed /\ v.sends = w.sends
      /\ v.closeFrameReceived = w.closeFrameReceived
      /\ v.io = w.io \/ (Reads(w) /\ v.io = "destroyed")
      /\ v.closeCalled = w.closeCalled /\ v.outbox = w.outbox /\ v.waiting = w.waiting
      /\ v.readyState = w.readyState
  BY <1>2 DEF Destroy, Endpoints
<1> QED
  BY <1>2, <1>3, <1>4 DEF Turns, Alters

(* end() of the socket *)
LEMMA EndTurns ==
  ASSUME NEW w \in Endpoints
  PROVE  EndSocket(w) \in Endpoints /\ Turns(w, EndSocket(w))
<1>1. [w EXCEPT !.io = "ended"] \in Endpoints
  BY DEF Endpoints
<1>2. PICK v : v = EndSocket(w)
  OBVIOUS
<1>3. v \in Endpoints
  BY <1>1, <1>2 DEF EndSocket
<1>4. /\ v.closeFrameSent = w.closeFrameSent /\ v.closed = w.closed /\ v.sends = w.sends
      /\ v.closeFrameReceived = w.closeFrameReceived
      /\ v.io = w.io \/ (w.io = "open" /\ v.io = "ended")
      /\ v.closeCalled = w.closeCalled /\ v.outbox = w.outbox /\ v.waiting = w.waiting
      /\ v.readyState = w.readyState
  BY <1>2 DEF EndSocket, Endpoints
<1> QED
  BY <1>2, <1>3, <1>4 DEF Turns, Alters

(* emit('error') *)
LEMMA EmitTurns ==
  ASSUME NEW w \in Endpoints
  PROVE  EmitError(w) \in Endpoints /\ Turns(w, EmitError(w))
<1>1. PICK n \in Nat : n = w.errors + 1
  BY DEF Endpoints
<1>2. PICK v : v = [w EXCEPT !.readyState = "closing", !.errors = n, !.writerChecks = FALSE]
  OBVIOUS
<1>3. v = EmitError(w)
  BY <1>1, <1>2 DEF EmitError
<1>4. v \in Endpoints
  BY <1>2 DEF Endpoints
<1>5. /\ v.closeFrameSent = w.closeFrameSent /\ v.closed = w.closed /\ v.sends = w.sends
      /\ v.closeFrameReceived = w.closeFrameReceived /\ v.io = w.io
      /\ v.closeCalled = w.closeCalled /\ v.outbox = w.outbox /\ v.waiting = w.waiting
      /\ v.readyState = "closing"
  BY <1>2 DEF Endpoints
<1> QED
  BY <1>3, <1>4, <1>5 DEF Turns, Alters

(* close() returns at once *)
LEMMA ResumeTurns ==
  ASSUME NEW w \in Endpoints, NEW e \in Ends, NEW by, NEW code, by = "error" => code \in Codes
  PROVE  Resume(e, w, by, code) \in Endpoints /\ Turns(w, Resume(e, w, by, code))
<1>5. CASE by = "reply" /\ e = "server"
  BY <1>5, EndTurns DEF Resume
<1>6. CASE by = "error"
  <2>1. PICK v : v = [w EXCEPT !.closeCode = code]
    OBVIOUS
  <2>2. v \in Endpoints
    BY <1>6, <2>1 DEF Endpoints
  <2>3. Turns(w, v)
    BY <2>1 DEF Turns, Alters, Endpoints
  <2>4. Turns(w, Destroy(v)) /\ Destroy(v) \in Endpoints
    BY <2>2, <2>3, DestroyTurns, TurnsOn
  <2> QED
    BY <1>6, <2>1, <2>4 DEF Resume
<1>7. CASE by # "error" /\ ~(by = "reply" /\ e = "server")
  <2>1. Resume(e, w, by, code) = w
    BY <1>7 DEF Resume
  <2>2. Turns(w, w)
    BY DEF Turns, Alters
  <2> QED
    BY <2>1, <2>2
<1> QED
  BY <1>5, <1>6, <1>7

(* or it queues the close frame. *)
LEMMA QueueTurns ==
  ASSUME NEW w \in Endpoints, ~w.closeCalled, NEW e \in Ends, NEW by \in Waits, NEW code \in Codes
  PROVE  Close(e, w, by, code) \in Endpoints /\ Turns(w, Close(e, w, by, code)) /\ Close(e, w, by, code).closeCalled
<1>1. PICK f : f = Frame("close", code)
  OBVIOUS
<1>2. PICK o : o = Append(w.outbox, f)
  OBVIOUS
<1>3. f \in Frames({"data", "close", "held"})
  BY <1>1, CodesSet DEF Frame, Frames
<1>4. o \in Seq(Frames({"data", "close", "held"}))
  BY <1>2, <1>3 DEF Endpoints
<1>5. PICK a : a = [by |-> by, code |-> code]
  OBVIOUS
<1>6. a \in [by : Waits, code : Codes \cup {0}]
  BY <1>5
<1>7. PICK r \in BOOLEAN : r = (w.readerChecks /\ e = "client")
  OBVIOUS
<1>8. PICK v : v = [w EXCEPT !.closeCalled = TRUE, !.readyState = "closing", !.readerChecks = r,
                             !.forcedTimer = TRUE, !.waiting = a, !.outbox = o]
  OBVIOUS
<1>9. v = Close(e, w, by, code)
  <2>1. PICK u : u = [w EXCEPT !.closeCalled = TRUE, !.readyState = "closing", !.readerChecks = r]
    OBVIOUS
  <2>2. PICK t : t = [u EXCEPT !.forcedTimer = TRUE]
    OBVIOUS
  <2>3. t.outbox = w.outbox
    BY <2>1, <2>2 DEF Endpoints
  <2>4. v = [t EXCEPT !.waiting = a, !.outbox = o]
    BY <1>8, <2>1, <2>2 DEF Endpoints
  <2>5. t = StartForcedTimer([w EXCEPT !.closeCalled = TRUE, !.readyState = "closing",
                                       !.readerChecks = @ /\ e = "client"])
    BY <1>7, <2>1, <2>2 DEF StartForcedTimer
  <2>6. Close(e, w, by, code) = QueueClose(t, by, code)
    BY <2>5 DEF Close
  <2> QED
    BY <1>1, <1>2, <1>5, <2>3, <2>4, <2>6 DEF QueueClose
<1>10. v \in Endpoints
  BY <1>4, <1>6, <1>8 DEF Endpoints
<1>11. /\ v.closeFrameSent = w.closeFrameSent /\ v.closed = w.closed /\ v.sends = w.sends
       /\ v.closeFrameReceived = w.closeFrameReceived /\ v.io = w.io
       /\ v.closeCalled /\ v.outbox = o /\ v.readyState = "closing" /\ v.waiting.code = code
  BY <1>5, <1>8 DEF Endpoints
<1> QED
  BY <1>1, <1>2, <1>9, <1>10, <1>11 DEF Turns, Alters

(* close() in either case *)
LEMMA CloseTurns ==
  ASSUME NEW w \in Endpoints, NEW e \in Ends, NEW by \in Waits, NEW code \in Codes
  PROVE  Close(e, w, by, code) \in Endpoints /\ Turns(w, Close(e, w, by, code)) /\ Close(e, w, by, code).closeCalled
<1>1. CASE w.closeCalled
  <2>1. PICK v : v = Resume(e, w, by, code)
    OBVIOUS
  <2>2. Close(e, w, by, code) = v
    BY <1>1, <2>1 DEF Close
  <2>3. v \in Endpoints /\ Turns(w, v)
    BY <2>1, ResumeTurns
  <2>4. v.closeCalled
    BY <1>1, <2>3 DEF Turns, Alters
  <2> QED
    BY <2>2, <2>3, <2>4
<1>2. CASE ~w.closeCalled
  BY <1>2, QueueTurns
<1> QED
  BY <1>1, <1>2

(* ERROR-paths: an error event or three, and close(). *)
LEMMA ErrorTurns ==
  ASSUME NEW w \in Endpoints, NEW e \in Ends, NEW code \in Codes
  PROVE  /\ ProtocolError(e, w, code) \in Endpoints /\ Turns(w, ProtocolError(e, w, code))
         /\ ProtocolError(e, w, code).closeCalled
<1>1. 1002 \in Codes /\ "error" \in Waits
  BY CodesSet DEF Waits
<1>2. CASE w.ping = "waiting"
  <2>1. PICK u : u = [w EXCEPT !.ping = "idle"]
    OBVIOUS
  <2>2. u \in Endpoints
    BY <2>1 DEF Endpoints
  <2>3. Turns(w, u)
    BY <2>1 DEF Turns, Alters, Endpoints
  <2>4. PICK a : a = EmitError(u)
    OBVIOUS
  <2>5. PICK b : b = EmitError(a)
    OBVIOUS
  <2>6. PICK c : c = Close(e, b, "error", 1002)
    OBVIOUS
  <2>7. PICK d : d = Close(e, c, "error", code)
    OBVIOUS
  <2>8. a \in Endpoints /\ Turns(u, a)
    BY <2>2, <2>4, EmitTurns
  <2>9. b \in Endpoints /\ Turns(a, b)
    BY <2>5, <2>8, EmitTurns
  <2>10. c \in Endpoints /\ Turns(b, c)
    BY <1>1, <2>6, <2>9, CloseTurns
  <2>11. d \in Endpoints /\ Turns(c, d) /\ d.closeCalled
    BY <1>1, <2>7, <2>10, CloseTurns
  <2>12. Turns(w, a)
    BY <2>2, <2>3, <2>8, TurnsOn
  <2>13. Turns(w, b)
    BY <2>8, <2>9, <2>12, TurnsOn
  <2>14. Turns(w, c)
    BY <2>9, <2>10, <2>13, TurnsOn
  <2>15. Turns(w, d)
    BY <2>10, <2>11, <2>14, TurnsOn
  <2>16. d = ProtocolError(e, w, code)
    BY <1>2, <2>1, <2>4, <2>5, <2>6, <2>7 DEF ProtocolError
  <2> QED
    BY <2>11, <2>15, <2>16
<1>3. CASE w.ping # "waiting"
  <2>1. PICK a : a = EmitError(w)
    OBVIOUS
  <2>2. PICK d : d = Close(e, a, "error", code)
    OBVIOUS
  <2>3. a \in Endpoints /\ Turns(w, a)
    BY <2>1, EmitTurns
  <2>4. d \in Endpoints /\ Turns(a, d) /\ d.closeCalled
    BY <1>1, <2>2, <2>3, CloseTurns
  <2>5. Turns(w, d)
    BY <2>3, <2>4, TurnsOn
  <2>6. d = ProtocolError(e, w, code)
    BY <1>3, <2>1, <2>2 DEF ProtocolError
  <2> QED
    BY <2>4, <2>5, <2>6
<1> QED
  BY <1>2, <1>3

(* The reader is destroyed, or the timer of ping() fires. *)
LEMMA ReaderErrorTurns ==
  ASSUME NEW w \in Endpoints, NEW e \in Ends, NEW code \in Codes
  PROVE  /\ ReaderError(e, w, code) \in Endpoints /\ Turns(w, ReaderError(e, w, code))
         /\ ReaderError(e, w, code).closeCalled
<1>1. PICK u : u = [w EXCEPT !.reader = "off"]
  OBVIOUS
<1>2. u \in Endpoints
  BY <1>1 DEF Endpoints
<1>3. Turns(w, u)
  BY <1>1 DEF Turns, Alters, Endpoints
<1>4. PICK v : v = ProtocolError(e, u, code)
  OBVIOUS
<1>5. v \in Endpoints /\ Turns(u, v) /\ v.closeCalled
  BY <1>2, <1>4, ErrorTurns
<1>6. Turns(w, v)
  BY <1>2, <1>3, <1>5, TurnsOn
<1>7. v = ReaderError(e, w, code)
  BY <1>1, <1>4 DEF ReaderError
<1> QED
  BY <1>5, <1>6, <1>7

(* The close frame of the other end is read. *)
LEMMA CloseFrameAlters ==
  ASSUME NEW w \in Endpoints, NEW e \in Ends, NEW code \in Codes
  PROVE  /\ HandleCloseFrame(e, w, code) \in Endpoints /\ Alters(w, HandleCloseFrame(e, w, code))
         /\ HandleCloseFrame(e, w, code).closeCalled \/ HandleCloseFrame(e, w, code) = w
<1>1. CASE w.readerChecks /\ ~MayReceive(e, code)
  BY <1>1, CodesSet, ReaderErrorTurns DEF HandleCloseFrame, Turns
<1>2. CASE ~(w.readerChecks /\ ~MayReceive(e, code)) /\ w.closeFrameReceived
  BY <1>2 DEF HandleCloseFrame, ReceiveClose, Alters
<1>3. CASE ~(w.readerChecks /\ ~MayReceive(e, code)) /\ ~w.closeFrameReceived
  <2>1. PICK u : u = [w EXCEPT !.closeFrameReceived = TRUE, !.readyState = "closing",
                               !.closeCode = code, !.writerChecks = FALSE]
    OBVIOUS
  <2>2. u \in Endpoints
    BY <2>1 DEF Endpoints
  <2>3. Alters(w, u)
    BY <2>1 DEF Alters, Endpoints
  <2>4. PICK v : v = Close(e, u, "reply", code)
    OBVIOUS
  <2>5. v \in Endpoints /\ Turns(u, v) /\ v.closeCalled
    BY <2>2, <2>4, CloseTurns DEF Waits
  <2>6. Alters(w, v)
    <3>1. w.closeCalled \in BOOLEAN
      BY DEF Endpoints
    <3> QED
      BY <2>3, <2>5, <3>1 DEF Turns, Alters, Reads
  <2>7. v = HandleCloseFrame(e, w, code)
    BY <1>3, <2>1, <2>4 DEF HandleCloseFrame, ReceiveClose
  <2> QED
    BY <2>5, <2>6, <2>7
<1> QED
  BY <1>1, <1>2, <1>3

-----------------------------------------------------------------------------
(* The connection ---------------------------------------------------------*)
Flows == [Ends -> Seq(Frames({"data", "ping", "pong", "close", "garbage", "fin"}))]

(* What node still has to send is cut off somewhere, and the FIN follows. *)
Cut(s, t) ==
  \E k \in 0..Len(s) : Len(t) = k + 1 /\ t[k + 1] = Fin /\ \A i \in 1..k : t[i] = s[i]

(* What happens to the connection when the socket of end e was finished. *)
LEMMA NetMoves ==
  ASSUME NEW e \in Ends, NEW w, NEW v, NEW flow \in Flows, NEW g \in NetAfter(e, w, v, flow)
  PROVE  /\ g \in Flows
         /\ \/ v.io = "destroyed" /\ Reads(w) /\ Cut(flow[e], g[e]) /\ g[Peer(e)] = <<>>
            \/ v.io = "ended" /\ w.io = "open" /\ Cut(flow[e], g[e]) /\ g[Peer(e)] = flow[Peer(e)]
            \/ g = flow /\ ~(v.io = "destroyed" /\ Reads(w)) /\ ~(v.io = "ended" /\ w.io = "open")
<1> DEFINE Fs == Frames({"data", "ping", "pong", "close", "garbage", "fin"})
<1>1. Fin \in Fs
  BY DEF Fin, Frame, Frames
<1>2. flow[e] \in Seq(Fs) /\ Peer(e) \in Ends /\ Peer(e) # e
  BY Peers DEF Flows
<1> HIDE DEF Fs
<1>3. ASSUME NEW s \in Seq(Fs), NEW k \in 0..Len(s)
      PROVE  Append(SubSeq(s, 1, k), Fin) \in Seq(Fs) /\ Cut(s, Append(SubSeq(s, 1, k), Fin))
  <2>1. PICK t : t = SubSeq(s, 1, k)
    OBVIOUS
  <2>2. t \in Seq(Fs) /\ Len(t) = k /\ \A i \in 1..k : t[i] = s[i]
    BY <2>1
  <2>3. PICK u : u = Append(t, Fin)
    OBVIOUS
  <2>4. u \in Seq(Fs) /\ Len(u) = k + 1 /\ u[k + 1] = Fin /\ \A i \in 1..k : u[i] = t[i]
    BY <1>1, <2>2, <2>3
  <2> QED
    BY <2>1, <2>2, <2>3, <2>4 DEF Cut
<1>4. CASE v.io = "destroyed" /\ Reads(w)
  <2>1. PICK k \in 0..Len(flow[e]) : g = [flow EXCEPT ![e] = Append(SubSeq(@, 1, k), Fin), ![Peer(e)] = <<>>]
    BY <1>4 DEF NetAfter
  <2>2. PICK u : u = Append(SubSeq(flow[e], 1, k), Fin)
    OBVIOUS
  <2>3. u \in Seq(Fs) /\ Cut(flow[e], u)
    BY <1>2, <1>3, <2>2
  <2>4. g = [flow EXCEPT ![e] = u, ![Peer(e)] = <<>>]
    BY <2>1, <2>2
  <2>5. g \in Flows /\ g[e] = u /\ g[Peer(e)] = <<>>
    BY <1>2, <2>3, <2>4 DEF Flows, Fs
  <2> QED
    BY <1>4, <2>3, <2>5
<1>5. CASE v.io = "ended" /\ w.io = "open"
  <2>1. g = [flow EXCEPT ![e] = Append(@, Fin)]
    BY <1>5 DEF NetAfter, Reads
  <2>2. PICK u : u = Append(flow[e], Fin)
    OBVIOUS
  <2>3. u \in Seq(Fs) /\ Len(u) = Len(flow[e]) + 1 /\ u[Len(flow[e]) + 1] = Fin
        /\ Len(flow[e]) \in 0..Len(flow[e]) /\ \A i \in 1..Len(flow[e]) : u[i] = flow[e][i]
    BY <1>1, <1>2, <2>2
  <2>4. Cut(flow[e], u)
    BY <2>3 DEF Cut
  <2>5. g \in Flows /\ g[e] = u /\ g[Peer(e)] = flow[Peer(e)]
    BY <1>2, <2>1, <2>2, <2>3 DEF Flows, Fs
  <2> QED
    BY <1>5, <2>4, <2>5
<1>6. CASE ~(v.io = "destroyed" /\ Reads(w)) /\ ~(v.io = "ended" /\ w.io = "open")
  BY <1>6 DEF NetAfter
<1> QED
  BY <1>4, <1>5, <1>6

(* What is read or waits to be written as a close frame has a code, and is  *)
(* queued by close() alone.                                                *)
CodesInv ==
  \A e \in Ends :
    /\ ws[e].closeCalled \/ \A i \in 1..Len(ws[e].outbox) : ws[e].outbox[i].kind = "data"
    /\ ws[e].waiting.by # "none" => ws[e].waiting.code \in Codes
    /\ \A i \in 1..Len(ws[e].outbox) : ws[e].outbox[i].kind = "close" => ws[e].outbox[i].n \in Codes
    /\ \A i \in 1..Len(net[e]) : net[e][i].kind = "close" => net[e][i].n \in Codes

-----------------------------------------------------------------------------
(* The actions of an end, but for those that send, write or report: it may *)
(* read a frame or write a ping, a pong or garbage, then methods run.      *)
Puts(e, flow) ==
  /\ delivered' = delivered
  /\ flow = net \/ \E f : /\ f.kind \notin {"data", "close", "fin"}
                          /\ flow = [net EXCEPT ![e] = Append(@, f)]

Takes(e, flow) ==
  /\ net[Peer(e)] # <<>> /\ flow = [net EXCEPT ![Peer(e)] = Tail(@)]
  /\ delivered' = IF Head(net[Peer(e)]).kind = "data"
                  THEN [delivered EXCEPT ![e] = Append(@, Head(net[Peer(e)]).n)] ELSE delivered

Overtakes(e, v, flow) ==
  /\ net[Peer(e)] # <<>> /\ Head(net[Peer(e)]).kind = "data" /\ flow = net /\ v.io = "destroyed"
  /\ delivered' = [delivered EXCEPT ![e] = Append(@, Head(net[Peer(e)]).n)]

Turned(e) ==
  \E v \in Endpoints : \E flow \in Flows :
    /\ ws' = [ws EXCEPT ![e] = v] /\ Alters(ws[e], v)
    /\ net' \in NetAfter(e, ws[e], v, flow)
    /\ UNCHANGED <<sent, closeWritten>>
    /\ \/ Puts(e, flow)
       \/ Reads(ws[e]) /\ (Takes(e, flow) \/ Overtakes(e, v, flow))
    /\ \/ v.closeFrameReceived = ws[e].closeFrameReceived
       \/ Takes(e, flow) /\ Head(net[Peer(e)]).kind = "close"

(* A socket that is not finished leaves the connection alone. *)
LEMMA NetStays ==
  ASSUME NEW e, NEW w, NEW v, v.io = w.io, NEW flow
  PROVE  NetAfter(e, w, v, flow) = {flow}
BY DEF NetAfter, Reads

(* The methods alone. *)
LEMMA MethodTurns ==
  ASSUME TypeOK, NEW e \in Ends, NEW v \in Endpoints, Turns(ws[e], v), Becomes(e, v, net),
         UNCHANGED <<sent, closeWritten, delivered>>
  PROVE  Turned(e)
<1>1. net \in Flows
  BY DEF TypeOK, Flows
<1> QED
  BY <1>1 DEF Turned, Turns, Becomes, Puts

(* A change of the other fields. *)
LEMMA FieldsTurn ==
  ASSUME TypeOK, NEW e \in Ends, NEW v \in Endpoints, Turns(ws[e], v), v.io = ws[e].io, ws' = [ws EXCEPT ![e] = v],
         NEW f \in Frames({"ping", "pong", "garbage"}), net' \in {net, [net EXCEPT ![e] = Append(@, f)]},
         UNCHANGED <<sent, closeWritten, delivered>>
  PROVE  Turned(e)
<1>1. net' \in Flows
  <2> DEFINE Fs == Frames({"data", "ping", "pong", "close", "garbage", "fin"})
  <2>1. f \in Fs
    BY DEF Frames
  <2>2. net \in [Ends -> Seq(Fs)]
    BY DEF TypeOK
  <2> HIDE DEF Fs
  <2>3. PICK s : s = Append(net[e], f)
    OBVIOUS
  <2>4. s \in Seq(Fs)
    BY <2>1, <2>2, <2>3
  <2>5. net' \in [Ends -> Seq(Fs)]
    BY <2>2, <2>3, <2>4
  <2> QED
    BY <2>5 DEF Fs, Flows
<1>2. f.kind \notin {"data", "close", "fin"}
  BY DEF Frames
<1>3. PICK flow : flow = net'
  OBVIOUS
<1>4. Puts(e, flow)
  BY <1>2, <1>3 DEF Puts
<1>5. net' \in NetAfter(e, ws[e], v, flow)
  BY <1>3, NetStays
<1> QED
  BY <1>1, <1>3, <1>4, <1>5 DEF Turned, Turns

(* Pings, what the writer sends besides messages, and garbage. *)
LEMMA QuietTurns ==
  ASSUME TypeOK, NEW e \in Ends, Ping(e) \/ GrantPing(e) \/ Garbage(e) \/ WriteControl(e)
  PROVE  Turned(e)
<1> DEFINE w == ws[e]
<1>1. w \in Endpoints
  BY DEF TypeOK
<1> HIDE DEF w
<1>2. CASE Ping(e)
  <2>1. PICK a \in Nat : a = w.pings + 1
    BY <1>1 DEF Endpoints
  <2>2. PICK b \in Nat : b = w.pingQueue + 1
    BY <1>1 DEF Endpoints
  <2>3. PICK v : v = [w EXCEPT !.pings = a, !.pingQueue = b]
    OBVIOUS
  <2>4. v \in Endpoints
    BY <1>1, <2>3 DEF Endpoints
  <2>5. Turns(w, v) /\ v.io = w.io
    BY <1>1, <2>3 DEF Turns, Alters, Endpoints
  <2>6. ws' = [ws EXCEPT ![e] = v]
    BY <1>1, <1>2, <2>1, <2>2, <2>3 DEF Ping, w, TypeOK
  <2>7. Frame("ping", 0) \in Frames({"ping", "pong", "garbage"})
    BY DEF Frame, Frames
  <2>8. net' = net /\ UNCHANGED <<sent, closeWritten, delivered>>
    BY <1>2 DEF Ping
  <2> QED
    BY <2>4, <2>5, <2>6, <2>7, <2>8, FieldsTurn DEF w
<1>3. CASE GrantPing(e)
  <2>1. PICK b \in Nat : b = w.pingQueue - 1
    BY <1>1, <1>3 DEF GrantPing, w, Endpoints
  <2>2. PICK f : f = Frame("ping", 0)
    OBVIOUS
  <2>3. f \in Frames({"ping", "pong", "garbage"}) /\ f \in Frames({"ping", "pong"})
    BY <2>2 DEF Frame, Frames
  <2>4. PICK c : c = Append(w.control, f)
    OBVIOUS
  <2>5. c \in Seq(Frames({"ping", "pong"}))
    BY <1>1, <2>3, <2>4 DEF Endpoints
  <2>6. PICK v : v = IF w.readyState # "open" THEN [w EXCEPT !.pingQueue = b]
                     ELSE [w EXCEPT !.pingQueue = b, !.ping = "sending", !.control = c]
    OBVIOUS
  <2>7. v \in Endpoints
    BY <1>1, <2>5, <2>6 DEF Endpoints
  <2>8. Turns(w, v) /\ v.io = w.io
    BY <1>1, <2>6 DEF Turns, Alters, Endpoints
  <2>9. ws' = [ws EXCEPT ![e] = v]
    BY <1>1, <1>3, <2>1, <2>2, <2>4, <2>6 DEF GrantPing, w, TypeOK
  <2>10. net' = net /\ UNCHANGED <<sent, closeWritten, delivered>>
    BY <1>3 DEF GrantPing
  <2> QED
    BY <2>3, <2>7, <2>8, <2>9, <2>10, FieldsTurn DEF w
<1>4. CASE Garbage(e)
  <2>1. PICK f : f = Frame("garbage", 0)
    OBVIOUS
  <2>2. f \in Frames({"ping", "pong", "garbage"})
    BY <2>1 DEF Frame, Frames
  <2>3. Turns(w, w)
    BY <1>1 DEF Turns, Alters
  <2>4. ws' = [ws EXCEPT ![e] = w] /\ net' = [net EXCEPT ![e] = Append(@, f)]
        /\ UNCHANGED <<sent, closeWritten, delivered>>
    BY <1>4, <2>1 DEF Garbage, w, TypeOK
  <2> QED
    BY <1>1, <2>2, <2>3, <2>4, FieldsTurn DEF w
<1>5. CASE WriteControl(e)
  <2>1. PICK f : f = Head(w.control)
    OBVIOUS
  <2>2. f \in Frames({"ping", "pong"})
    BY <1>1, <1>5, <2>1 DEF WriteControl, w, Endpoints
  <2>3. f \in Frames({"ping", "pong", "garbage"})
    BY <2>2 DEF Frames
  <2>4. PICK c : c = Tail(w.control)
    OBVIOUS
  <2>5. c \in Seq(Frames({"ping", "pong"}))
    BY <1>1, <1>5, <2>4 DEF WriteControl, w, Endpoints
  <2>6. PICK s \in BOOLEAN : s = (w.io # "open")
    OBVIOUS
  <2>7. PICK p \in BOOLEAN : p = (w.pongTimer \/ f.kind = "ping")
    OBVIOUS
  <2>8. PICK g \in {"idle", "sending", "waiting"} : g = IF f.kind = "ping" THEN "waiting" ELSE w.ping
    BY <1>1 DEF Endpoints
  <2>9. PICK v : v = [w EXCEPT !.control = c, !.stuck = s, !.ping = g, !.pongTimer = p]
    OBVIOUS
  <2>10. v \in Endpoints
    BY <1>1, <2>5, <2>9 DEF Endpoints
  <2>11. Turns(w, v) /\ v.io = w.io
    BY <1>1, <2>9 DEF Turns, Alters, Endpoints
  <2>12. ws' = [ws EXCEPT ![e] = v]
    BY <1>1, <1>5, <2>1, <2>4, <2>6, <2>7, <2>8, <2>9 DEF WriteControl, w, TypeOK
  <2>13. net' \in {net, [net EXCEPT ![e] = Append(@, f)]} /\ UNCHANGED <<sent, closeWritten, delivered>>
    BY <1>5, <2>1 DEF WriteControl, Write, w
  <2> QED
    BY <2>3, <2>10, <2>11, <2>12, <2>13, FieldsTurn DEF w
<1> QED
  BY <1>2, <1>3, <1>4, <1>5

(* What the owner, the timers and the socket set off. *)
LEMMA EventTurns ==
  ASSUME TypeOK, NEW e \in Ends,
         UserClose(e) \/ Drop(e) \/ Reset(e) \/ SocketError(e) \/ ForcedTermination(e) \/ PongTimeout(e)
  PROVE  Turned(e)
<1> DEFINE w == ws[e]
<1>1. w \in Endpoints
  BY DEF TypeOK
<1>2. UNCHANGED <<sent, closeWritten, delivered>>
  BY DEF UserClose, Drop, Reset, SocketError, ForcedTermination, PongTimeout
<1>3. ASSUME NEW v \in Endpoints, Turns(w, v), Becomes(e, v, net) PROVE Turned(e)
  BY <1>2, <1>3, MethodTurns
<1>4. CASE UserClose(e)
  <2>1. PICK code \in UserCodes : Becomes(e, Close(e, w, "user", code), net)
    BY <1>4 DEF UserClose
  <2>2. code \in Codes /\ "user" \in Waits
    BY DEF Codes, Waits
  <2> QED
    BY <1>1, <1>3, <2>1, <2>2, CloseTurns
<1>5. CASE Drop(e)
  BY <1>1, <1>3, <1>5, DestroyTurns DEF Drop
<1> DEFINE d == Destroy(w)
<1>6. d \in Endpoints /\ Turns(w, d)
  BY <1>1, DestroyTurns
<1>7. ASSUME NEW u \in Endpoints, Turns(w, u)
      PROVE  WriterError(e, u) \in Endpoints /\ Turns(w, WriterError(e, u))
  <2>1. PICK v : v = ProtocolError(e, u, 1011)
    OBVIOUS
  <2>2. v \in Endpoints /\ Turns(u, v)
    BY <1>7, <2>1, CodesSet, ErrorTurns
  <2>3. Turns(w, v)
    BY <1>1, <1>7, <2>2, TurnsOn
  <2> QED
    BY <2>1, <2>2, <2>3 DEF WriterError
<1>8. CASE Reset(e)
  <2>1. Becomes(e, d, net) \/ Becomes(e, WriterError(e, d), net)
    BY <1>8 DEF Reset
  <2> QED
    BY <1>3, <1>6, <1>7, <2>1
<1>9. CASE SocketError(e)
  <2>1. PICK u : u = IF d.readyState = "open" THEN ReaderError(e, d, 1006) ELSE d
    OBVIOUS
  <2>2. Becomes(e, u, net) \/ Becomes(e, WriterError(e, u), net)
    BY <1>9, <2>1 DEF SocketError
  <2>3. u \in Endpoints /\ Turns(w, u)
    <3>1. ReaderError(e, d, 1006) \in Endpoints /\ Turns(d, ReaderError(e, d, 1006))
      BY <1>6, CodesSet, ReaderErrorTurns
    <3>2. Turns(w, ReaderError(e, d, 1006))
      BY <1>1, <1>6, <3>1, TurnsOn
    <3> QED
      BY <1>6, <2>1, <3>1, <3>2
  <2> QED
    BY <1>3, <1>7, <2>2, <2>3
<1>10. CASE ForcedTermination(e)
  <2>1. PICK u : u = [w EXCEPT !.forcedTimer = FALSE]
    OBVIOUS
  <2>2. u \in Endpoints
    BY <1>1, <2>1 DEF Endpoints
  <2>3. Turns(w, u)
    BY <1>1, <2>1 DEF Turns, Alters, Endpoints
  <2>4. Destroy(u) \in Endpoints /\ Turns(w, Destroy(u))
    BY <1>1, <2>2, <2>3, DestroyTurns, TurnsOn
  <2> QED
    BY <1>3, <1>10, <2>1, <2>4 DEF ForcedTermination
<1>11. CASE PongTimeout(e)
  <2>1. PICK u : u = [w EXCEPT !.pongTimer = FALSE, !.ping = "idle"]
    OBVIOUS
  <2>2. u \in Endpoints
    BY <1>1, <2>1 DEF Endpoints
  <2>3. Turns(w, u)
    BY <1>1, <2>1 DEF Turns, Alters, Endpoints
  <2>4. PICK v : v = ProtocolError(e, u, 1002)
    OBVIOUS
  <2>5. v \in Endpoints /\ Turns(u, v)
    BY <2>2, <2>4, CodesSet, ErrorTurns
  <2>6. Turns(w, v)
    BY <1>1, <2>2, <2>3, <2>5, TurnsOn
  <2> QED
    BY <1>3, <1>11, <2>1, <2>4, <2>5, <2>6 DEF PongTimeout
<1> QED
  BY <1>4, <1>5, <1>8, <1>9, <1>10, <1>11

(* What the reader is given. *)
LEMMA ReceiveTurns ==
  ASSUME TypeOK, CodesInv, NEW e \in Ends, Receive(e) \/ EndOvertakes(e)
  PROVE  Turned(e)
<1> DEFINE w == ws[e]
           p == Peer(e)
           f == Head(net[p])
<1>1. w \in Endpoints /\ p \in Ends /\ net \in Flows /\ net[p] # <<>> /\ Reads(w) /\ UNCHANGED <<sent, closeWritten>>
  BY Peers DEF TypeOK, Flows, Receive, EndOvertakes
<1> DEFINE rest == [net EXCEPT ![p] = Tail(@)]
<1>2. rest \in Flows
  BY <1>1 DEF Flows
<1>3. f.kind = "close" => f.n \in Codes
  <2>1. f = net[p][1] /\ 1 \in 1..Len(net[p])
    BY <1>1 DEF Flows
  <2> QED
    BY <1>1, <2>1 DEF CodesInv
<1>4. CASE Receive(e)
  <2>1. PICK v : v = CASE f.kind = "data" -> w
                       [] f.kind = "ping" -> ReceivePing(w)
                       [] f.kind = "pong" -> ReceivePong(w)
                       [] f.kind = "close" -> HandleCloseFrame(e, w, f.n)
                       [] f.kind = "garbage" -> ReaderError(e, w, 1002)
                       [] f.kind = "fin" -> Destroy(w)
    OBVIOUS
  <2>2. Becomes(e, v, rest)
    BY <1>4, <2>1 DEF Receive
  <2>3. Takes(e, rest)
    BY <1>1, <1>4 DEF Receive, Takes
  <2>4. f.kind \in {"data", "ping", "pong", "close", "garbage", "fin"}
    <3>1. f \in Frames({"data", "ping", "pong", "close", "garbage", "fin"})
      BY <1>1 DEF Flows
    <3> QED
      BY <3>1 DEF Frames
  <2>5. CASE f.kind = "data"
    <3>1. v = w
      BY <2>1, <2>5
    <3>2. Turns(w, v) /\ v \in Endpoints
      BY <1>1, <3>1 DEF Turns, Alters
    <3> QED
      BY <1>1, <1>2, <2>2, <2>3, <3>2 DEF Turned, Turns, Becomes
  <2>6. CASE f.kind = "ping"
    <3>1. v = ReceivePing(w)
      BY <2>1, <2>6
    <3>2. PICK c : c = Append(w.control, Frame("pong", 0))
      OBVIOUS
    <3>3. c \in Seq(Frames({"ping", "pong"}))
      <4>1. Frame("pong", 0) \in Frames({"ping", "pong"})
        BY DEF Frame, Frames
      <4> QED
        BY <1>1, <3>2, <4>1 DEF Endpoints
    <3>4. PICK u : u = [w EXCEPT !.control = c]
      OBVIOUS
    <3>5. u \in Endpoints
      BY <1>1, <3>3, <3>4 DEF Endpoints
    <3>6. Turns(w, u) /\ Turns(w, w)
      BY <1>1, <3>4 DEF Turns, Alters, Endpoints
    <3>7. v = u \/ v = w
      BY <3>1, <3>2, <3>4 DEF ReceivePing
    <3> QED
      BY <1>1, <1>2, <2>2, <2>3, <3>5, <3>6, <3>7 DEF Turned, Turns, Becomes
  <2>7. CASE f.kind = "pong"
    <3>1. v = ReceivePong(w)
      BY <2>1, <2>7
    <3>2. PICK u : u = [w EXCEPT !.ping = "idle", !.pongTimer = FALSE]
      OBVIOUS
    <3>3. u \in Endpoints
      BY <1>1, <3>2 DEF Endpoints
    <3>4. Turns(w, u) /\ Turns(w, w)
      BY <1>1, <3>2 DEF Turns, Alters, Endpoints
    <3>5. v = u \/ v = w
      BY <3>1, <3>2 DEF ReceivePong
    <3> QED
      BY <1>1, <1>2, <2>2, <2>3, <3>3, <3>4, <3>5 DEF Turned, Turns, Becomes
  <2>8. CASE f.kind = "close"
    <3>1. v = HandleCloseFrame(e, w, f.n)
      BY <2>1, <2>8
    <3>2. v \in Endpoints /\ Alters(w, v)
      BY <1>1, <1>3, <2>8, <3>1, CloseFrameAlters
    <3> QED
      BY <1>1, <1>2, <2>2, <2>3, <2>8, <3>2 DEF Turned, Becomes
  <2>9. CASE f.kind = "garbage"
    <3>1. v = ReaderError(e, w, 1002)
      BY <2>1, <2>9
    <3>2. v \in Endpoints /\ Turns(w, v)
      BY <1>1, <3>1, CodesSet, ReaderErrorTurns
    <3> QED
      BY <1>1, <1>2, <2>2, <2>3, <3>2 DEF Turned, Turns, Becomes
  <2>10. CASE f.kind = "fin"
    <3>1. v = Destroy(w)
      BY <2>1, <2>10
    <3>2. v \in Endpoints /\ Turns(w, v)
      BY <1>1, <3>1, DestroyTurns
    <3> QED
      BY <1>1, <1>2, <2>2, <2>3, <3>2 DEF Turned, Turns, Becomes
  <2> QED
    BY <2>4, <2>5, <2>6, <2>7, <2>8, <2>9, <2>10
<1>5. CASE EndOvertakes(e)
  <2>1. PICK v : v = Destroy(w)
    OBVIOUS
  <2>2. v \in Endpoints /\ Turns(w, v)
    BY <1>1, <2>1, DestroyTurns
  <2>3. v.io = "destroyed"
    BY <1>1, <2>1 DEF Destroy, Endpoints
  <2>4. Becomes(e, v, net) /\ Overtakes(e, v, net)
    BY <1>1, <1>5, <2>1, <2>3 DEF EndOvertakes, Overtakes
  <2> QED
    BY <1>1, <2>2, <2>4 DEF Turned, Turns, Becomes
<1> QED
  BY <1>4, <1>5

-----------------------------------------------------------------------------
(* The other four actions -------------------------------------------------*)
Keeps(w, v) ==
  /\ v.closeFrameSent = w.closeFrameSent /\ v.closeFrameReceived = w.closeFrameReceived
  /\ v.closed = w.closed /\ v.io = w.io /\ v.readyState = w.readyState /\ v.closeCalled = w.closeCalled
  /\ v.closeCode = w.closeCode /\ v.errors = w.errors
  /\ v.writerChecks = w.writerChecks /\ v.readerChecks = w.readerChecks

Sends(e, v) ==
  /\ Keeps(ws[e], v) /\ v.waiting = ws[e].waiting
  /\ v.sends = ws[e].sends + 1 /\ v.outbox = Append(ws[e].outbox, Frame("data", v.sends))
  /\ net' = net

Writes(e, v) ==
  /\ Keeps(ws[e], v) /\ v.waiting = ws[e].waiting
  /\ v.sends = ws[e].sends /\ v.outbox = Tail(ws[e].outbox)
  /\ ws[e].outbox # <<>> /\ Head(ws[e].outbox).kind = "data" /\ net' = Write(e, Head(ws[e].outbox))

(* send() queues a message. *)
LEMMA SendIs ==
  ASSUME TypeOK, NEW e \in Ends, UserSend(e)
  PROVE  \E v \in Endpoints : ws' = [ws EXCEPT ![e] = v] /\ Sends(e, v)
<1> DEFINE w == ws[e]
<1>1. w \in Endpoints
  BY DEF TypeOK
<1>2. PICK n \in Nat : n = w.sends + 1
  BY <1>1 DEF Endpoints
<1>3. PICK o : o = Append(w.outbox, Frame("data", n))
  OBVIOUS
<1>4. o \in Seq(Frames({"data", "close", "held"}))
  <2>1. Frame("data", n) \in Frames({"data", "close", "held"})
    BY DEF Frame, Frames
  <2> QED
    BY <1>1, <1>3, <2>1 DEF Endpoints
<1>5. PICK v : v = [w EXCEPT !.sends = n, !.outbox = o]
  OBVIOUS
<1>6. v \in Endpoints
  BY <1>1, <1>4, <1>5 DEF Endpoints
<1>7. Keeps(w, v) /\ v.waiting = w.waiting /\ v.sends = n /\ v.outbox = o
  BY <1>1, <1>5 DEF Keeps, Endpoints
<1>8. ws' = [ws EXCEPT ![e] = v] /\ net' = net
  BY <1>1, <1>2, <1>3, <1>5 DEF UserSend, TypeOK
<1> QED
  BY <1>2, <1>3, <1>6, <1>7, <1>8 DEF Sends

(* The message at the head of the outbox is written. *)
LEMMA WriteIs ==
  ASSUME TypeOK, NEW e \in Ends, WriteMessage(e)
  PROVE  \E v \in Endpoints : ws' = [ws EXCEPT ![e] = v] /\ Writes(e, v)
<1> DEFINE w == ws[e]
<1>1. w \in Endpoints
  BY DEF TypeOK
<1>2. PICK o : o = Tail(w.outbox)
  OBVIOUS
<1>3. o \in Seq(Frames({"data", "close", "held"}))
  BY <1>1, <1>2 DEF WriteMessage, Endpoints
<1>4. PICK v : v = [w EXCEPT !.outbox = o]
  OBVIOUS
<1>5. v \in Endpoints
  BY <1>1, <1>3, <1>4 DEF Endpoints
<1>6. Keeps(w, v) /\ v.waiting = w.waiting /\ v.sends = w.sends /\ v.outbox = o
  BY <1>1, <1>4 DEF Keeps, Endpoints
<1>7. ws' = [ws EXCEPT ![e] = v]
  BY <1>1, <1>2, <1>4 DEF WriteMessage, TypeOK
<1> QED
  BY <1>2, <1>5, <1>6, <1>7 DEF Writes, WriteMessage

(* The close frame leaves its place in the outbox to the lock. *)
Holds(o, q) == Len(q) = Len(o) /\ q[1].kind = "held" /\ \A i \in 2..Len(o) : q[i] = o[i]

(* The lock is typed, and nothing behind it moves. *)
LEMMA LockHolds ==
  ASSUME NEW w \in Endpoints, w.outbox # <<>>
  PROVE  KeepsLock(w.outbox) \in Seq(Frames({"data", "close", "held"})) /\ Holds(w.outbox, KeepsLock(w.outbox))
<1>1. PICK o : o = KeepsLock(w.outbox)
  OBVIOUS
<1>2. PICK s : s = Tail(w.outbox)
  OBVIOUS
<1>3. /\ s \in Seq(Frames({"data", "close", "held"})) /\ Len(s) = Len(w.outbox) - 1 /\ Len(w.outbox) \in Nat
      /\ \A i \in 1..Len(s) : s[i] = w.outbox[i + 1]
  BY <1>2 DEF Endpoints
<1>4. PICK h : h = Frame("held", 0)
  OBVIOUS
<1>5. h \in Frames({"data", "close", "held"}) /\ h.kind = "held"
  BY <1>4 DEF Frame, Frames
<1>6. o = <<h>> \o s
  BY <1>1, <1>2, <1>4 DEF KeepsLock
<1>7. /\ o \in Seq(Frames({"data", "close", "held"})) /\ Len(o) = Len(s) + 1
      /\ o[1] = h /\ \A i \in 2..Len(o) : o[i] = s[i - 1]
  BY <1>3, <1>5, <1>6
<1>8. \A i \in 2..Len(w.outbox) : i - 1 \in 1..Len(s) /\ (i - 1) + 1 = i
  BY <1>3
<1> QED
  BY <1>1, <1>3, <1>5, <1>7, <1>8 DEF Holds

WritesClose(e, v) ==
  /\ ws[e].outbox # <<>> /\ Head(ws[e].outbox).kind = "close" /\ Holds(ws[e].outbox, v.outbox)
  /\ v.sends = ws[e].sends /\ v.waiting.by = "none"
  /\ v.closed = ws[e].closed /\ v.closeCalled = ws[e].closeCalled
  /\ v.readyState \in {ws[e].readyState, "closing"}
  /\ v.closeFrameReceived = ws[e].closeFrameReceived
  /\ v.io = ws[e].io \/ (Reads(ws[e]) /\ v.io = "destroyed") \/ (ws[e].io = "open" /\ v.io = "ended")
  /\ \/ v.closeFrameSent = ws[e].closeFrameSent /\ net' \in NetAfter(e, ws[e], v, net) /\ closeWritten' = closeWritten
     \/ /\ v.closeFrameSent = (ws[e].io = "open") /\ net' \in NetAfter(e, ws[e], v, Write(e, Head(ws[e].outbox)))
        /\ closeWritten' = IF ws[e].io = "open" THEN closeWritten \cup {e} ELSE closeWritten

(* The close frame at the head of the outbox is written, or it is refused. *)
LEMMA CloseIs ==
  ASSUME TypeOK, CodesInv, NEW e \in Ends, WriteClose(e)
  PROVE  \E v \in Endpoints : ws' = [ws EXCEPT ![e] = v] /\ WritesClose(e, v)
<1> DEFINE w == ws[e]
<1>1. w \in Endpoints
  BY DEF TypeOK
<1>2. w.outbox # <<>> /\ Head(w.outbox).kind = "close"
  BY DEF WriteClose
<1>3. PICK o : o = KeepsLock(w.outbox)
  OBVIOUS
<1>4. o \in Seq(Frames({"data", "close", "held"})) /\ Holds(w.outbox, o)
  BY <1>1, <1>2, <1>3, LockHolds
<1>5. w.closeCalled
  <2>1. 1 \in 1..Len(w.outbox) /\ w.outbox[1].kind = "close"
    BY <1>1, <1>2 DEF Endpoints
  <2> QED
    BY <2>1 DEF CodesInv
<1>6. PICK a : a = [by |-> "none", code |-> 0]
  OBVIOUS
<1>7. a \in [by : Waits, code : Codes \cup {0}] /\ a.by = "none"
  BY <1>6 DEF Waits
<1>8. PICK u : u = [w EXCEPT !.outbox = o, !.waiting = a]
  OBVIOUS
<1>9. u \in Endpoints /\ Keeps(w, u) /\ u.sends = w.sends /\ u.outbox = o /\ u.waiting = a
  BY <1>1, <1>4, <1>7, <1>8 DEF Endpoints, Keeps
<1>10. CASE w.io = "open" /\ w.writerChecks /\ ~MaySend(e, Head(w.outbox).n)
  <2>1. Becomes(e, u, net) /\ closeWritten' = closeWritten
    BY <1>3, <1>6, <1>8, <1>10 DEF WriteClose
  <2> QED
    BY <1>2, <1>4, <1>7, <1>9, <2>1 DEF WritesClose, Becomes, Keeps
<1>11. CASE ~(w.io = "open" /\ w.writerChecks /\ ~MaySend(e, Head(w.outbox).n))
  <2>1. PICK b \in BOOLEAN : b = (w.io = "open")
    OBVIOUS
  <2>2. PICK t : t = [u EXCEPT !.closeFrameSent = b]
    OBVIOUS
  <2>3. /\ t \in Endpoints /\ t.outbox = o /\ t.waiting = a /\ t.closeFrameSent = b /\ t.io = w.io
        /\ t.sends = w.sends /\ t.closed = w.closed /\ t.closeCalled = w.closeCalled
        /\ t.readyState = w.readyState /\ t.closeFrameReceived = w.closeFrameReceived
    BY <1>9, <2>1, <2>2 DEF Endpoints, Keeps
  <2>4. PICK v : v = Resume(e, t, w.waiting.by, w.waiting.code)
    OBVIOUS
  <2>5. w.waiting.by = "error" => w.waiting.code \in Codes
    BY DEF CodesInv
  <2>6. v \in Endpoints /\ Turns(t, v)
    BY <2>3, <2>4, <2>5, ResumeTurns
  <2>7. /\ Becomes(e, v, Write(e, Head(w.outbox)))
        /\ closeWritten' = IF w.io = "open" THEN closeWritten \cup {e} ELSE closeWritten
    BY <1>3, <1>6, <1>8, <1>9, <1>11, <2>1, <2>2, <2>4 DEF WriteClose, CloseIsSent, Keeps
  <2>8. /\ v.outbox = o /\ v.waiting = a /\ v.closeFrameSent = b /\ v.sends = w.sends /\ v.closed = w.closed
        /\ v.closeCalled = w.closeCalled /\ v.readyState \in {w.readyState, "closing"}
        /\ v.closeFrameReceived = w.closeFrameReceived
        /\ v.io = w.io \/ (Reads(w) /\ v.io = "destroyed") \/ (w.io = "open" /\ v.io = "ended")
    <3>1. w.closeCalled \in BOOLEAN /\ v.closeCalled \in BOOLEAN
      BY <1>1, <2>6 DEF Endpoints
    <3> QED
      BY <1>5, <2>3, <2>6, <3>1 DEF Turns, Alters, Reads
  <2> QED
    BY <1>2, <1>4, <1>7, <2>1, <2>6, <2>7, <2>8 DEF WritesClose, Becomes
<1> QED
  BY <1>10, <1>11

(* The 'close' event *)
Closes(e, v) ==
  /\ ws[e].io = "destroyed" /\ v.io = "closed" /\ v.readyState = "closed"
  /\ v.closeFrameSent = ws[e].closeFrameSent /\ v.closeFrameReceived = ws[e].closeFrameReceived
  /\ v.closeCalled = ws[e].closeCalled /\ v.sends = ws[e].sends /\ v.outbox = ws[e].outbox
  /\ v.waiting = ws[e].waiting /\ v.closeCode = ws[e].closeCode /\ v.errors = ws[e].errors
  /\ v.writerChecks = ws[e].writerChecks /\ v.readerChecks = ws[e].readerChecks
  /\ v.closed = Append(ws[e].closed, [code |-> ReportedCode(ws[e]),
                                      wasClean |-> ws[e].closeFrameReceived /\ ws[e].closeFrameSent])

(* The close event is reported, and nothing else changes. *)
LEMMA ClosedIs ==
  ASSUME TypeOK, NEW e \in Ends, SocketClosed(e)
  PROVE  \E v \in Endpoints : ws' = [ws EXCEPT ![e] = v] /\ Closes(e, v)
<1> DEFINE w == ws[e]
<1>1. w \in Endpoints
  BY DEF TypeOK
<1>2. PICK r \in [code : Codes, wasClean : BOOLEAN] :
         r = [code |-> ReportedCode(w), wasClean |-> w.closeFrameReceived /\ w.closeFrameSent]
  <2>1. ReportedCode(w) \in Codes
    <3>1. w.closeCode \in Codes \cup {0}
      BY <1>1 DEF Endpoints
    <3> QED
      BY <3>1, CodesSet DEF ReportedCode
  <2>2. (w.closeFrameReceived /\ w.closeFrameSent) \in BOOLEAN
    OBVIOUS
  <2> QED
    BY <2>1, <2>2
<1>3. PICK c \in Seq([code : Codes, wasClean : BOOLEAN]) : c = Append(w.closed, r)
  <2> DEFINE Reports == [code : Codes, wasClean : BOOLEAN]
  <2>1. w.closed \in Seq(Reports) /\ r \in Reports
    BY <1>1 DEF Endpoints
  <2> HIDE DEF Reports
  <2>2. Append(w.closed, r) \in Seq(Reports)
    BY <2>1
  <2> QED
    BY <2>2 DEF Reports
<1>4. PICK v : v = [w EXCEPT !.io = "closed", !.forcedTimer = FALSE, !.readyState = "closed",
                             !.reader = "off", !.closed = c]
  OBVIOUS
<1>5. v \in Endpoints
  BY <1>1, <1>4 DEF Endpoints
<1>6. /\ v.io = "closed" /\ v.readyState = "closed" /\ v.closed = c
      /\ v.closeFrameSent = w.closeFrameSent /\ v.closeFrameReceived = w.closeFrameReceived
      /\ v.closeCalled = w.closeCalled /\ v.sends = w.sends /\ v.outbox = w.outbox /\ v.waiting = w.waiting
      /\ v.closeCode = w.closeCode /\ v.errors = w.errors
      /\ v.writerChecks = w.writerChecks /\ v.readerChecks = w.readerChecks
  BY <1>1, <1>4 DEF Endpoints
<1>7. ws' = [ws EXCEPT ![e] = v]
  BY <1>1, <1>2, <1>3, <1>4 DEF SocketClosed, TypeOK
<1> QED
  BY <1>2, <1>3, <1>5, <1>6, <1>7 DEF Closes, SocketClosed

-----------------------------------------------------------------------------
(* Every action is one of these. *)
LEMMA Actions ==
  ASSUME TypeOK, CodesInv, Next
  PROVE  \E e \in Ends :
           \/ Turned(e)
           \/ UserSend(e) /\ \E v \in Endpoints : ws' = [ws EXCEPT ![e] = v] /\ Sends(e, v)
           \/ WriteMessage(e) /\ \E v \in Endpoints : ws' = [ws EXCEPT ![e] = v] /\ Writes(e, v)
           \/ WriteClose(e) /\ \E v \in Endpoints : ws' = [ws EXCEPT ![e] = v] /\ WritesClose(e, v)
           \/ SocketClosed(e) /\ \E v \in Endpoints : ws' = [ws EXCEPT ![e] = v] /\ Closes(e, v)
BY QuietTurns, EventTurns, ReceiveTurns, SendIs, WriteIs, CloseIs, ClosedIs DEF Next

(* What a socket was written is there, until the end that reads it or the   *)
(* one that wrote it is finished.                                          *)
LEMMA WriteKeeps ==
  ASSUME TypeOK, NEW e \in Ends, NEW f \in Frames({"data", "ping", "pong", "close", "garbage", "fin"})
  PROVE  Write(e, f) \in Flows /\ Write(e, f) \in {net, [net EXCEPT ![e] = Append(@, f)]}
<1> DEFINE Fs == Frames({"data", "ping", "pong", "close", "garbage", "fin"})
<1>1. f \in Fs /\ net \in [Ends -> Seq(Fs)]
  BY DEF TypeOK
<1> HIDE DEF Fs
<1>2. PICK s : s = Append(net[e], f)
  OBVIOUS
<1>3. s \in Seq(Fs)
  BY <1>1, <1>2
<1>4. Write(e, f) \in {net, [net EXCEPT ![e] = s]}
  BY <1>2 DEF Write
<1>5. Write(e, f) \in [Ends -> Seq(Fs)]
  BY <1>1, <1>3, <1>4
<1> QED
  BY <1>2, <1>4, <1>5 DEF Flows, Fs

(* The frame that is written. *)
LEMMA HeadOfOutbox ==
  ASSUME TypeOK, NEW e \in Ends, ws[e].outbox # <<>>
  PROVE  /\ Head(ws[e].outbox) \in Frames({"data", "ping", "pong", "close", "garbage", "fin"})
            \/ Head(ws[e].outbox).kind = "held"
         /\ Head(ws[e].outbox) = ws[e].outbox[1] /\ 1 \in 1..Len(ws[e].outbox)
<1>1. ws[e] \in Endpoints
  BY DEF TypeOK
<1>2. ws[e].outbox \in Seq(Frames({"data", "close", "held"}))
  BY <1>1 DEF Endpoints
<1>3. Head(ws[e].outbox) \in Frames({"data", "close", "held"})
  BY <1>2
<1>4. Head(ws[e].outbox) = ws[e].outbox[1] /\ 1 \in 1..Len(ws[e].outbox)
  BY <1>2
<1> QED
  BY <1>3, <1>4 DEF Frames

(* Failures are noted for good, and only close() is noted as a close.       *)
LEMMA Histories ==
  ASSUME Next
  PROVE  /\ faulty' = faulty \/ faulty' = TRUE
         /\ \/ closers' = closers
            \/ \E e \in Ends : \E code \in UserCodes :
                 UserClose(e) /\ closers' = closers \cup {[end |-> e, code |-> code]}
<1>1. PICK e \in Ends :
         \/ UserSend(e) \/ UserClose(e) \/ Ping(e) \/ GrantPing(e) \/ Garbage(e) \/ Drop(e)
         \/ WriteMessage(e) \/ WriteClose(e) \/ WriteControl(e)
         \/ Receive(e) \/ EndOvertakes(e) \/ Reset(e) \/ SocketError(e) \/ SocketClosed(e)
         \/ ForcedTermination(e) \/ PongTimeout(e)
  BY DEF Next
<1>2. CASE UserClose(e)
  BY <1>2 DEF UserClose
<1>3. CASE UserSend(e) \/ Ping(e) \/ GrantPing(e) \/ WriteMessage(e) \/ WriteControl(e)
  BY <1>3 DEF UserSend, Ping, GrantPing, WriteMessage, WriteControl
<1>4. CASE Receive(e) \/ EndOvertakes(e) \/ SocketClosed(e)
  BY <1>4 DEF Receive, EndOvertakes, SocketClosed
<1>5. CASE Garbage(e) \/ Drop(e) \/ SocketError(e) \/ ForcedTermination(e) \/ PongTimeout(e)
  BY <1>5 DEF Garbage, Drop, SocketError, ForcedTermination, PongTimeout
<1>6. CASE WriteClose(e)
  BY <1>6 DEF WriteClose
<1>7. CASE Reset(e)
  BY <1>7 DEF Reset
<1> QED
  BY <1>1, <1>2, <1>3, <1>4, <1>5, <1>6, <1>7

(* What a step does to the connection and to what was delivered is typed.  *)
LEMMA TurnedType ==
  ASSUME TypeOK, NEW e \in Ends, Turned(e)
  PROVE  /\ ws' \in [Ends -> Endpoints] /\ net' \in Flows
         /\ sent' \in [Ends -> Seq(Nat)] /\ delivered' \in [Ends -> Seq(Nat)] /\ closeWritten' \subseteq Ends
<1>1. PICK v \in Endpoints, flow \in Flows :
        /\ ws' = [ws EXCEPT ![e] = v]
        /\ net' \in NetAfter(e, ws[e], v, flow)
        /\ UNCHANGED <<sent, closeWritten>>
        /\ Puts(e, flow) \/ Takes(e, flow) \/ Overtakes(e, v, flow)
  BY DEF Turned
<1>2. net' \in Flows
  BY <1>1, NetMoves
<1>3. delivered' \in [Ends -> Seq(Nat)]
  <2>1. CASE delivered' = delivered
    BY <2>1 DEF TypeOK
  <2>2. CASE net[Peer(e)] # <<>> /\ delivered' = [delivered EXCEPT ![e] = Append(@, Head(net[Peer(e)]).n)]
    <3>1. Head(net[Peer(e)]) \in Frames({"data", "ping", "pong", "close", "garbage", "fin"})
      BY <2>2, Peers DEF TypeOK
    <3>2. PICK n \in Nat : n = Head(net[Peer(e)]).n
      BY <3>1 DEF Frames
    <3> QED
      BY <2>2, <3>2 DEF TypeOK
  <2> QED
    BY <1>1, <2>1, <2>2 DEF Puts, Takes, Overtakes
<1> QED
  BY <1>1, <1>2, <1>3 DEF TypeOK

(* What the other four actions leave behind is typed. *)
LEMMA OthersType ==
  ASSUME TypeOK, NEW e \in Ends, NEW v \in Endpoints, ws' = [ws EXCEPT ![e] = v],
         \/ UserSend(e) /\ Sends(e, v)
         \/ WriteMessage(e) /\ Writes(e, v)
         \/ WriteClose(e) /\ WritesClose(e, v)
         \/ SocketClosed(e) /\ Closes(e, v)
  PROVE  /\ ws' \in [Ends -> Endpoints] /\ net' \in Flows
         /\ sent' \in [Ends -> Seq(Nat)] /\ delivered' \in [Ends -> Seq(Nat)] /\ closeWritten' \subseteq Ends
<1>1. ws' \in [Ends -> Endpoints] /\ net \in Flows
  BY DEF TypeOK, Flows
<1>2. delivered' = delivered
  BY DEF UserSend, WriteMessage, WriteClose, SocketClosed
<1>3. sent' \in [Ends -> Seq(Nat)]
  <2>1. CASE UserSend(e)
    <3>1. PICK n \in Nat : n = ws[e].sends + 1
      BY DEF TypeOK, Endpoints
    <3>2. sent' = sent \/ sent' = [sent EXCEPT ![e] = Append(@, n)]
      BY <2>1, <3>1 DEF UserSend
    <3>3. Append(sent[e], n) \in Seq(Nat)
      BY DEF TypeOK
    <3> QED
      BY <3>2, <3>3 DEF TypeOK
  <2>2. CASE WriteMessage(e) \/ WriteClose(e) \/ SocketClosed(e)
    BY <2>2 DEF WriteMessage, WriteClose, SocketClosed, TypeOK
  <2> QED
    BY <2>1, <2>2
<1>4. closeWritten' \subseteq Ends
  BY DEF UserSend, WriteMessage, SocketClosed, WritesClose, TypeOK
<1>5. net' \in Flows
  <2>1. CASE WriteMessage(e) /\ Writes(e, v)
    <3>1. Head(ws[e].outbox) \in Frames({"data", "ping", "pong", "close", "garbage", "fin"})
      BY <2>1, HeadOfOutbox DEF Writes
    <3> QED
      BY <2>1, <3>1, WriteKeeps DEF Writes
  <2>2. CASE WritesClose(e, v)
    <3>1. Head(ws[e].outbox) \in Frames({"data", "ping", "pong", "close", "garbage", "fin"})
      BY <2>2, HeadOfOutbox DEF WritesClose
    <3>2. Write(e, Head(ws[e].outbox)) \in Flows
      BY <3>1, WriteKeeps
    <3>3. PICK flow \in Flows : net' \in NetAfter(e, ws[e], v, flow)
      BY <1>1, <2>2, <3>2 DEF WritesClose
    <3> QED
      BY <3>3, NetMoves
  <2>3. CASE UserSend(e) \/ SocketClosed(e)
    BY <1>1, <2>3 DEF UserSend, SocketClosed
  <2> QED
    BY <2>1, <2>2, <2>3
<1> QED
  BY <1>1, <1>2, <1>3, <1>4, <1>5 DEF TypeOK

(* Every step keeps the types. *)
LEMMA TypeStep == TypeOK /\ CodesInv /\ [Next]_vars => TypeOK'
<1> SUFFICES ASSUME TypeOK, CodesInv, [Next]_vars PROVE TypeOK'
  OBVIOUS
<1>1. CASE UNCHANGED vars
  BY <1>1 DEF vars, TypeOK
<1>2. CASE Next
  <2>1. faulty' \in BOOLEAN
    BY <1>2, Histories DEF TypeOK
  <2>2. closers' \subseteq [end : Ends, code : UserCodes]
    BY <1>2, Histories DEF TypeOK
  <2>3. /\ ws' \in [Ends -> Endpoints] /\ net' \in Flows
        /\ sent' \in [Ends -> Seq(Nat)] /\ delivered' \in [Ends -> Seq(Nat)] /\ closeWritten' \subseteq Ends
    <3>1. PICK e \in Ends :
           \/ Turned(e)
           \/ UserSend(e) /\ \E v \in Endpoints : ws' = [ws EXCEPT ![e] = v] /\ Sends(e, v)
           \/ WriteMessage(e) /\ \E v \in Endpoints : ws' = [ws EXCEPT ![e] = v] /\ Writes(e, v)
           \/ WriteClose(e) /\ \E v \in Endpoints : ws' = [ws EXCEPT ![e] = v] /\ WritesClose(e, v)
           \/ SocketClosed(e) /\ \E v \in Endpoints : ws' = [ws EXCEPT ![e] = v] /\ Closes(e, v)
      BY <1>2, Actions
    <3>2. CASE Turned(e)
      BY <3>2, TurnedType
    <3>3. CASE ~Turned(e)
      BY <3>1, <3>3, OthersType
    <3> QED
      BY <3>2, <3>3
  <2> QED
    BY <2>1, <2>2, <2>3 DEF TypeOK, Flows
<1> QED
  BY <1>1, <1>2

-----------------------------------------------------------------------------
(* Close frames -----------------------------------------------------------*)
(* Each frame of t is a frame of s or is no close frame. *)
NoNewClose(s, t) ==
  \A i \in 1..Len(t) : t[i].kind = "close" => \E j \in 1..Len(s) : t[i] = s[j]

(* A connection that is cut off carries nothing new. *)
LEMMA NetKeepsClose ==
  ASSUME NEW e \in Ends, NEW w, NEW v, NEW flow \in Flows, NEW g \in NetAfter(e, w, v, flow), NEW x \in Ends
  PROVE  NoNewClose(flow[x], g[x])
<1>1. flow[x] \in Seq(Frames({"data", "ping", "pong", "close", "garbage", "fin"}))
  BY DEF Flows
<1>2. ASSUME Cut(flow[x], g[x]) PROVE NoNewClose(flow[x], g[x])
  <2>1. PICK k \in 0..Len(flow[x]) :
          Len(g[x]) = k + 1 /\ g[x][k + 1] = Fin /\ \A i \in 1..k : g[x][i] = flow[x][i]
    BY <1>2 DEF Cut
  <2>2. Fin.kind = "fin"
    BY DEF Fin, Frame
  <2>3. ASSUME NEW i \in 1..Len(g[x]), g[x][i].kind = "close" PROVE \E j \in 1..Len(flow[x]) : g[x][i] = flow[x][j]
    <3>1. i \in 1..k /\ k <= Len(flow[x]) /\ Len(flow[x]) \in Nat
      BY <1>1, <2>1, <2>2, <2>3
    <3>2. i \in 1..Len(flow[x]) /\ g[x][i] = flow[x][i]
      BY <2>1, <3>1
    <3> QED
      BY <3>2
  <2> QED
    BY <2>3 DEF NoNewClose
<1>3. ASSUME g[x] = <<>> \/ g[x] = flow[x] PROVE NoNewClose(flow[x], g[x])
  BY <1>1, <1>3 DEF NoNewClose
<1>4. x = e \/ x = Peer(e)
  BY Peers
<1> QED
  BY <1>2, <1>3, <1>4, NetMoves

(* No step but the one that writes it brings a close frame to the connection. *)
LEMMA TurnedKeepsClose ==
  ASSUME TypeOK, NEW e \in Ends, Turned(e), NEW x \in Ends
  PROVE  NoNewClose(net[x], net'[x])
<1>1. PICK v \in Endpoints, flow \in Flows :
        /\ net' \in NetAfter(e, ws[e], v, flow)
        /\ Puts(e, flow) \/ Takes(e, flow) \/ Overtakes(e, v, flow)
  BY DEF Turned
<1>2. net \in Flows /\ Peer(e) \in Ends
  BY Peers DEF TypeOK, Flows
<1>3. NoNewClose(flow[x], net'[x])
  BY <1>1, NetKeepsClose
<1>4. NoNewClose(net[x], flow[x])
  <2>1. CASE flow = net
    BY <2>1 DEF NoNewClose
  <2>2. CASE Puts(e, flow) /\ flow # net
    <3>1. PICK f : f.kind \notin {"data", "close", "fin"} /\ flow = [net EXCEPT ![e] = Append(@, f)]
      BY <2>2 DEF Puts
    <3>2. PICK s : s = Append(net[e], f)
      OBVIOUS
    <3>3. \A i \in 1..Len(s) : s[i].kind = "close" => i \in 1..Len(net[e]) /\ s[i] = net[e][i]
      BY <1>2, <3>1, <3>2 DEF Flows
    <3>4. flow[x] = IF x = e THEN s ELSE net[x]
      BY <1>2, <3>1, <3>2 DEF Flows
    <3> QED
      BY <3>3, <3>4 DEF NoNewClose
  <2>3. CASE Takes(e, flow)
    <3>1. net[Peer(e)] # <<>> /\ flow[x] = IF x = Peer(e) THEN Tail(net[x]) ELSE net[x]
      BY <1>2, <2>3 DEF Takes, Flows
    <3>2. x = Peer(e) => \A i \in 1..Len(Tail(net[x])) : i + 1 \in 1..Len(net[x]) /\ Tail(net[x])[i] = net[x][i + 1]
      BY <1>2, <3>1 DEF Flows
    <3> QED
      BY <3>1, <3>2 DEF NoNewClose
  <2> QED
    BY <1>1, <2>1, <2>2, <2>3 DEF Overtakes
<1>5. ASSUME NEW i \in 1..Len(net'[x]), net'[x][i].kind = "close" PROVE \E j \in 1..Len(net[x]) : net'[x][i] = net[x][j]
  <2>1. PICK k \in 1..Len(flow[x]) : net'[x][i] = flow[x][k]
    BY <1>3, <1>5 DEF NoNewClose
  <2> QED
    BY <1>4, <1>5, <2>1 DEF NoNewClose
<1> QED
  BY <1>5 DEF NoNewClose

(* The close frame that is written comes from the outbox. *)
LEMMA WrittenClose ==
  ASSUME TypeOK, NEW e \in Ends, NEW v \in Endpoints, NEW x \in Ends,
         \/ Sends(e, v)
         \/ Writes(e, v)
         \/ WritesClose(e, v)
         \/ SocketClosed(e) /\ Closes(e, v),
         NEW i \in 1..Len(net'[x]), net'[x][i].kind = "close"
  PROVE  \/ \E j \in 1..Len(net[x]) : net'[x][i] = net[x][j]
         \/ x = e /\ WritesClose(e, v) /\ ws[e].io = "open" /\ closeWritten' = closeWritten \cup {e}
            /\ net'[x][i] = ws[e].outbox[1]
<1> DEFINE f == Head(ws[e].outbox)
<1>1. net \in Flows
  BY DEF TypeOK, Flows
<1>2. CASE net' = net
  BY <1>2
<1>3. ASSUME NEW g \in Flows, g = Write(e, f), NEW j \in 1..Len(g[x]), ws[e].outbox # <<>>, f.kind \in {"data", "close"}
      PROVE  (j \in 1..Len(net[x]) /\ g[x][j] = net[x][j]) \/ (g[x][j] = f /\ x = e /\ ws[e].io = "open")
  <2>1. CASE g = net
    BY <2>1
  <2>2. CASE g # net
    <3>1. ws[e].io = "open" /\ g = [net EXCEPT ![e] = Append(@, f)]
      BY <1>3, <2>2 DEF Write
    <3>2. PICK s : s = Append(net[e], f)
      OBVIOUS
    <3>3. \A k \in 1..Len(s) : (k \in 1..Len(net[e]) /\ s[k] = net[e][k]) \/ s[k] = f
      BY <1>1, <3>2 DEF Flows
    <3>4. g[x] = IF x = e THEN s ELSE net[x]
      BY <1>1, <3>1, <3>2 DEF Flows
    <3> QED
      BY <1>3, <3>1, <3>3, <3>4
  <2> QED
    BY <2>1, <2>2
<1>4. CASE Writes(e, v)
  <2>1. f \in Frames({"data", "ping", "pong", "close", "garbage", "fin"}) /\ f.kind = "data" /\ ws[e].outbox # <<>>
    BY <1>4, HeadOfOutbox DEF Writes
  <2>2. net' \in Flows /\ net' = Write(e, f)
    BY <1>4, <2>1, WriteKeeps DEF Writes
  <2> QED
    BY <1>3, <2>1, <2>2
<1>5. CASE WritesClose(e, v)
  <2>1. /\ f \in Frames({"data", "ping", "pong", "close", "garbage", "fin"}) /\ f.kind = "close"
        /\ ws[e].outbox # <<>> /\ f = ws[e].outbox[1]
    BY <1>5, HeadOfOutbox DEF WritesClose
  <2>2. CASE net' \in NetAfter(e, ws[e], v, net)
    <3>1. NoNewClose(net[x], net'[x])
      BY <1>1, <2>2, NetKeepsClose
    <3> QED
      BY <3>1 DEF NoNewClose
  <2>3. CASE net' \notin NetAfter(e, ws[e], v, net)
    <3>1. /\ net' \in NetAfter(e, ws[e], v, Write(e, f))
          /\ closeWritten' = IF ws[e].io = "open" THEN closeWritten \cup {e} ELSE closeWritten
      BY <1>5, <2>3 DEF WritesClose
    <3>2. Write(e, f) \in Flows
      BY <2>1, WriteKeeps
    <3>3. NoNewClose(Write(e, f)[x], net'[x])
      BY <3>1, <3>2, NetKeepsClose
    <3>4. PICK j \in 1..Len(Write(e, f)[x]) : net'[x][i] = Write(e, f)[x][j]
      BY <3>3 DEF NoNewClose
    <3> QED
      BY <1>3, <1>5, <2>1, <3>1, <3>2, <3>4
  <2> QED
    BY <2>2, <2>3
<1>6. Sends(e, v) \/ SocketClosed(e) => net' = net
  BY DEF Sends, SocketClosed
<1> QED
  BY <1>2, <1>4, <1>5, <1>6

(* The other end has its record still. *)
LEMMA OthersStay ==
  ASSUME TypeOK, NEW e \in Ends, NEW v, ws' = [ws EXCEPT ![e] = v]
  PROVE  ws'[e] = v /\ \A x \in Ends : x # e => ws'[x] = ws[x]
BY DEF TypeOK

(* Every step keeps the codes. *)
LEMMA CodesStep == TypeOK /\ CodesInv /\ [Next]_vars => CodesInv'
<1> SUFFICES ASSUME TypeOK, CodesInv, [Next]_vars PROVE CodesInv'
  OBVIOUS
<1>1. CASE UNCHANGED vars
  BY <1>1 DEF vars, CodesInv
<1>2. CASE Next
  <2>1. PICK e \in Ends, v \in Endpoints :
          /\ ws' = [ws EXCEPT ![e] = v]
          /\ \/ Turned(e) /\ Alters(ws[e], v)
             \/ Sends(e, v)
             \/ Writes(e, v)
             \/ WritesClose(e, v)
             \/ SocketClosed(e) /\ Closes(e, v)
    BY <1>2, Actions DEF Turned
  <2> DEFINE w == ws[e]
             Named(o) == \A i \in 1..Len(o) : o[i].kind = "close" => o[i].n \in Codes
             Fit(u) == /\ u.closeCalled \/ \A i \in 1..Len(u.outbox) : u.outbox[i].kind = "data"
                       /\ u.waiting.by # "none" => u.waiting.code \in Codes
                       /\ Named(u.outbox)
  <2>2. w \in Endpoints /\ Fit(w)
    BY DEF TypeOK, CodesInv
  <2>3. w.outbox \in Seq(Frames({"data", "close", "held"})) /\ w.closeCalled \in BOOLEAN
    BY <2>2 DEF Endpoints
  <2>4. ASSUME NEW o, NEW f, o = Append(w.outbox, f), f.kind = "close" => f.n \in Codes
        PROVE  Named(o) /\ \A i \in 1..Len(o) : o[i] = f \/ (i \in 1..Len(w.outbox) /\ o[i] = w.outbox[i])
    <3>1. \A i \in 1..Len(o) : o[i] = f \/ (i \in 1..Len(w.outbox) /\ o[i] = w.outbox[i])
      BY <2>3, <2>4
    <3> QED
      BY <2>2, <2>4, <3>1
  <2>5. ASSUME Turned(e) /\ Alters(w, v) PROVE Fit(v)
    <3>1. CASE v.outbox = w.outbox
      BY <2>2, <2>3, <2>5, <3>1 DEF Alters
    <3>2. CASE v.outbox # w.outbox
      <4>1. v.closeCalled /\ \E c \in Codes : v.outbox = Append(w.outbox, Frame("close", c))
        BY <2>3, <2>5, <3>2 DEF Alters
      <4>2. PICK c \in Codes : v.outbox = Append(w.outbox, Frame("close", c))
        BY <4>1
      <4>3. Frame("close", c).n \in Codes
        BY DEF Frame
      <4>4. Named(v.outbox)
        BY <2>4, <4>2, <4>3
      <4> QED
        BY <2>2, <2>5, <4>1, <4>4 DEF Alters
    <3> QED
      BY <3>1, <3>2
  <2>6. ASSUME Sends(e, v) PROVE Fit(v)
    <3>1. PICK f : f = Frame("data", v.sends)
      OBVIOUS
    <3>2. f.kind = "data" /\ v.outbox = Append(w.outbox, f) /\ v.waiting = w.waiting /\ v.closeCalled = w.closeCalled
      BY <2>6, <3>1 DEF Sends, Keeps, Frame
    <3>3. Named(v.outbox) /\ \A i \in 1..Len(v.outbox) : v.outbox[i] = f \/ (i \in 1..Len(w.outbox) /\ v.outbox[i] = w.outbox[i])
      BY <2>4, <3>2
    <3>4. v.closeCalled \/ \A i \in 1..Len(v.outbox) : v.outbox[i].kind = "data"
      BY <2>2, <3>2, <3>3
    <3> QED
      BY <2>2, <3>2, <3>3, <3>4
  <2>7. ASSUME Writes(e, v) PROVE Fit(v)
    <3>1. w.outbox # <<>> /\ v.outbox = Tail(w.outbox) /\ v.waiting = w.waiting /\ v.closeCalled = w.closeCalled
      BY <2>7 DEF Writes, Keeps
    <3>2. \A i \in 1..Len(v.outbox) : i + 1 \in 1..Len(w.outbox) /\ v.outbox[i] = w.outbox[i + 1]
      BY <2>3, <3>1
    <3> QED
      BY <2>2, <3>1, <3>2
  <2>8. ASSUME WritesClose(e, v) PROVE Fit(v)
    <3>1. w.closeCalled
      <4>1. 1 \in 1..Len(w.outbox) /\ w.outbox[1].kind = "close"
        BY <2>8, HeadOfOutbox DEF WritesClose
      <4> QED
        BY <2>2, <4>1
    <3>2. /\ v.closeCalled /\ v.waiting.by = "none" /\ Len(v.outbox) = Len(w.outbox) /\ v.outbox[1].kind = "held"
          /\ \A i \in 2..Len(w.outbox) : v.outbox[i] = w.outbox[i]
      BY <2>8, <3>1 DEF WritesClose, Holds
    <3>3. Named(v.outbox)
      BY <2>2, <2>3, <3>2
    <3> QED
      BY <3>2, <3>3
  <2>9. ASSUME Closes(e, v) PROVE Fit(v)
    BY <2>2, <2>9 DEF Closes
  <2>10. Fit(v)
    BY <2>1, <2>5, <2>6, <2>7, <2>8, <2>9
  <2>11. \A x \in Ends : Fit(ws'[x])
    <3>1. \A x \in Ends : ws'[x] = v \/ ws'[x] = ws[x]
      BY <2>1, OthersStay
    <3>2. \A x \in Ends : Fit(ws[x])
      BY DEF CodesInv
    <3> QED
      BY <2>10, <3>1, <3>2
  <2>12. ASSUME NEW x \in Ends, NEW i \in 1..Len(net'[x]), net'[x][i].kind = "close" PROVE net'[x][i].n \in Codes
    <3>1. CASE \E j \in 1..Len(net[x]) : net'[x][i] = net[x][j]
      BY <2>12, <3>1 DEF CodesInv
    <3>2. CASE ~\E j \in 1..Len(net[x]) : net'[x][i] = net[x][j]
      <4>1. ~Turned(e)
        BY <2>12, <3>2, TurnedKeepsClose DEF NoNewClose
      <4>2. x = e /\ WritesClose(e, v) /\ net'[x][i] = w.outbox[1]
        BY <2>1, <2>12, <3>2, <4>1, WrittenClose
      <4>3. 1 \in 1..Len(w.outbox) /\ w.outbox[1].kind = "close"
        BY <4>2, HeadOfOutbox DEF WritesClose
      <4> QED
        BY <2>2, <4>2, <4>3
    <3> QED
      BY <3>1, <3>2
  <2> QED
    BY <2>11, <2>12 DEF CodesInv
<1> QED
  BY <1>1, <1>2

(* What an end holds of the close frames, and what it reported.             *)
MutualInv ==
  \A e \in Ends :
    /\ ws[e].closeFrameSent => e \in closeWritten
    /\ ws[e].closeFrameReceived => Peer(e) \in closeWritten
    /\ \A i \in 1..Len(net[e]) : net[e][i].kind = "close" => e \in closeWritten
    /\ \A i \in 1..Len(ws[e].closed) : ws[e].closed[i].wasClean => e \in closeWritten /\ Peer(e) \in closeWritten

(* A close frame is held to be received once the other end wrote it, and it *)
(* stays written.                                                          *)
LEMMA MutualStep == TypeOK /\ CodesInv /\ MutualInv /\ [Next]_vars => MutualInv'
<1> SUFFICES ASSUME TypeOK, CodesInv, MutualInv, [Next]_vars PROVE MutualInv'
  OBVIOUS
<1>1. CASE UNCHANGED vars
  BY <1>1 DEF vars, MutualInv
<1>2. CASE Next
  <2>1. PICK e \in Ends, v \in Endpoints :
          /\ ws' = [ws EXCEPT ![e] = v]
          /\ \/ /\ Turned(e) /\ Alters(ws[e], v) /\ closeWritten' = closeWritten
                /\ \/ v.closeFrameReceived = ws[e].closeFrameReceived
                   \/ net[Peer(e)] # <<>> /\ Head(net[Peer(e)]).kind = "close"
             \/ Sends(e, v) /\ closeWritten' = closeWritten
             \/ Writes(e, v) /\ closeWritten' = closeWritten
             \/ WritesClose(e, v)
             \/ SocketClosed(e) /\ Closes(e, v) /\ closeWritten' = closeWritten
    <3>1. PICK e \in Ends :
            \/ Turned(e)
            \/ UserSend(e) /\ \E v \in Endpoints : ws' = [ws EXCEPT ![e] = v] /\ Sends(e, v)
            \/ WriteMessage(e) /\ \E v \in Endpoints : ws' = [ws EXCEPT ![e] = v] /\ Writes(e, v)
            \/ WriteClose(e) /\ \E v \in Endpoints : ws' = [ws EXCEPT ![e] = v] /\ WritesClose(e, v)
            \/ SocketClosed(e) /\ \E v \in Endpoints : ws' = [ws EXCEPT ![e] = v] /\ Closes(e, v)
      BY <1>2, Actions
    <3>2. CASE Turned(e)
      BY <3>2 DEF Turned, Takes
    <3>3. CASE ~Turned(e)
      BY <3>1, <3>3 DEF UserSend, WriteMessage, SocketClosed
    <3> QED
      BY <3>2, <3>3
  <2> DEFINE w == ws[e]
  <2>2. w \in Endpoints /\ Peer(e) \in Ends /\ Peer(e) # e /\ net \in Flows
    BY Peers DEF TypeOK, Flows
  <2>3. closeWritten \subseteq closeWritten'
    BY <2>1 DEF WritesClose
  <2>4. ASSUME NEW x \in Ends, NEW i \in 1..Len(net'[x]), net'[x][i].kind = "close" PROVE x \in closeWritten'
    <3>1. CASE \E j \in 1..Len(net[x]) : net'[x][i] = net[x][j]
      BY <2>3, <2>4, <3>1 DEF MutualInv
    <3>2. CASE ~\E j \in 1..Len(net[x]) : net'[x][i] = net[x][j]
      <4>1. ~Turned(e)
        BY <2>4, <3>2, TurnedKeepsClose DEF NoNewClose
      <4>2. x = e /\ closeWritten' = closeWritten \cup {e}
        BY <2>1, <2>4, <3>2, <4>1, WrittenClose
      <4> QED
        BY <4>2
    <3> QED
      BY <3>1, <3>2
  <2>5. v.closeFrameSent => e \in closeWritten'
    <3>1. CASE v.closeFrameSent = w.closeFrameSent
      BY <2>3, <3>1 DEF MutualInv
    <3>2. CASE v.closeFrameSent # w.closeFrameSent
      BY <2>1, <3>2 DEF Alters, Sends, Writes, Keeps, Closes, WritesClose
    <3> QED
      BY <3>1, <3>2
  <2>6. v.closeFrameReceived => Peer(e) \in closeWritten'
    <3>1. CASE v.closeFrameReceived = w.closeFrameReceived
      BY <2>3, <3>1 DEF MutualInv
    <3>2. CASE v.closeFrameReceived # w.closeFrameReceived
      <4>1. net[Peer(e)] # <<>> /\ Head(net[Peer(e)]).kind = "close"
        BY <2>1, <3>2 DEF Sends, Writes, Keeps, Closes, WritesClose
      <4>2. 1 \in 1..Len(net[Peer(e)]) /\ net[Peer(e)][1].kind = "close"
        BY <2>2, <4>1 DEF Flows
      <4> QED
        BY <2>2, <2>3, <4>2 DEF MutualInv
    <3> QED
      BY <3>1, <3>2
  <2>7. \A i \in 1..Len(v.closed) : v.closed[i].wasClean => e \in closeWritten' /\ Peer(e) \in closeWritten'
    <3>1. CASE v.closed = w.closed
      BY <2>3, <3>1 DEF MutualInv
    <3>2. CASE v.closed # w.closed
      <4>1. Closes(e, v)
        BY <2>1, <3>2 DEF Alters, Sends, Writes, Keeps, WritesClose
      <4>2. PICK r : r = [code |-> ReportedCode(w), wasClean |-> w.closeFrameReceived /\ w.closeFrameSent]
        OBVIOUS
      <4>3. r.wasClean => e \in closeWritten' /\ Peer(e) \in closeWritten'
        BY <2>3, <4>2 DEF MutualInv
      <4>4. v.closed = Append(w.closed, r)
        BY <4>1, <4>2 DEF Closes
      <4>5. w.closed \in Seq([code : Codes, wasClean : BOOLEAN])
        BY <2>2 DEF Endpoints
      <4> DEFINE Reports == [code : Codes, wasClean : BOOLEAN]
      <4>6. w.closed \in Seq(Reports)
        BY <4>5
      <4> HIDE DEF Reports
      <4>7. \A i \in 1..Len(v.closed) : v.closed[i] = r \/ (i \in 1..Len(w.closed) /\ v.closed[i] = w.closed[i])
        BY <4>4, <4>6
      <4> QED
        BY <2>3, <4>3, <4>7 DEF MutualInv
    <3> QED
      BY <3>1, <3>2
  <2>8. \A x \in Ends : x # e => ws'[x] = ws[x]
    BY <2>1, OthersStay
  <2>9. ws'[e] = v
    BY <2>1, OthersStay
  <2>10. ASSUME NEW x \in Ends
         PROVE  /\ ws'[x].closeFrameSent => x \in closeWritten'
                /\ ws'[x].closeFrameReceived => Peer(x) \in closeWritten'
                /\ \A i \in 1..Len(ws'[x].closed) : ws'[x].closed[i].wasClean => x \in closeWritten' /\ Peer(x) \in closeWritten'
    <3>1. CASE x = e
      BY <2>5, <2>6, <2>7, <2>9, <3>1
    <3>2. CASE x # e
      BY <2>3, <2>8, <3>2 DEF MutualInv
    <3> QED
      BY <3>1, <3>2
  <2> QED
    BY <2>4, <2>10 DEF MutualInv
<1> QED
  BY <1>1, <1>2

(* The two invariants hold at the start. *)
LEMMA InitInv == Init => TypeOK /\ CodesInv /\ MutualInv
<1> SUFFICES ASSUME Init PROVE TypeOK /\ CodesInv /\ MutualInv
  OBVIOUS
<1>1. Started \in Endpoints
  <2>1. <<>> \in Seq(Frames({"data", "close", "held"})) /\ <<>> \in Seq(Frames({"ping", "pong"}))
        /\ <<>> \in Seq([code : Codes, wasClean : BOOLEAN])
    OBVIOUS
  <2>2. [by |-> "none", code |-> 0] \in [by : Waits, code : Codes \cup {0}]
    BY DEF Waits
  <2> QED
    BY <2>1, <2>2 DEF Started, Endpoints
<1>2. TypeOK
  <2>1. ws \in [Ends -> Endpoints]
    BY <1>1 DEF Init
  <2>2. net \in [Ends -> Seq(Frames({"data", "ping", "pong", "close", "garbage", "fin"}))]
    BY DEF Init
  <2>3. sent \in [Ends -> Seq(Nat)] /\ delivered \in [Ends -> Seq(Nat)]
    BY DEF Init
  <2>4. closers \subseteq [end : Ends, code : UserCodes] /\ closeWritten \subseteq Ends /\ faulty \in BOOLEAN
    BY DEF Init
  <2> QED
    BY <2>1, <2>2, <2>3, <2>4, Zenon DEF TypeOK
<1>3. Started.outbox = <<>> /\ Started.waiting.by = "none" /\ Started.closed = <<>>
      /\ ~Started.closeFrameSent /\ ~Started.closeFrameReceived
  BY DEF Started
<1>4. \A e \in Ends : ws[e] = Started /\ net[e] = <<>>
  BY DEF Init
<1>5. CodesInv
  BY <1>3, <1>4 DEF CodesInv
<1>6. MutualInv
  BY <1>3, <1>4 DEF MutualInv
<1> QED
  BY <1>2, <1>5, <1>6

(* The records of the two ends, the connection between them and the         *)
(* histories keep their types, whatever fails.                             *)
THEOREM TypeCorrect == Spec => []TypeOK
<1>1. TypeOK /\ CodesInv /\ [Next]_vars => (TypeOK /\ CodesInv)'
  BY TypeStep, CodesStep
<1> QED
  BY <1>1, InitInv, PTL DEF Spec

(* The close event says wasClean only when each end wrote its close frame,  *)
(* however the closing handshake was interrupted.                          *)
THEOREM CleanIsMutual == Spec => []WasCleanIsMutual
<1>1. TypeOK /\ CodesInv /\ MutualInv /\ [Next]_vars => (TypeOK /\ CodesInv /\ MutualInv)'
  BY TypeStep, CodesStep, MutualStep
<1>2. TypeOK /\ MutualInv => WasCleanIsMutual
  BY DEF TypeOK, Endpoints, MutualInv, WasCleanIsMutual
<1> QED
  BY <1>1, <1>2, InitInv, PTL DEF Spec

-----------------------------------------------------------------------------
(* Messages ---------------------------------------------------------------*)
(* How many messages left the outbox of w: the close frame, or the lock it  *)
(* holds, stays in the outbox.                                             *)
Written(w) == (w.sends + (IF w.closeCalled THEN 1 ELSE 0)) - Len(w.outbox)

(* Of n messages sent before close() the first m were written; the others   *)
(* wait in order, with the close frame or its lock behind them.            *)
Queued(w, m, n) ==
  /\ m \in 0..n
  /\ \A i \in 1..(n - m) : i <= Len(w.outbox) /\ w.outbox[i] = Frame("data", m + i)
  /\ IF w.closeCalled THEN n - m + 1 <= Len(w.outbox) /\ w.outbox[n - m + 1].kind \in {"close", "held"}
                      ELSE Len(w.outbox) = n - m /\ w.sends = n

OutboxInv ==
  \A x \in Ends : /\ Queued(ws[x], Written(ws[x]), Len(sent[x]))
                  /\ \A i \in 1..Len(sent[x]) : sent[x][i] = i

(* Message k is among the first i frames of q. *)
Has(q, k, i) == \E j \in 1..i : q[j].kind = "data" /\ q[j].n = k

(* When d messages were delivered and m written, q carries d + 1, d + 2 and *)
(* so on, in that order ...                                                *)
InOrder(q, d, m) ==
  /\ d <= m
  /\ \A i \in 1..Len(q) : q[i].kind = "data" =>
       /\ q[i].n \in (d + 1)..m
       /\ \A j \in 1..(i - 1) : q[j].kind = "data" => q[j].n < q[i].n
       /\ \A k \in (d + 1)..q[i].n : Has(q, k, i)

(* ... and all of them while neither end is finished. *)
Full(q, d, m) == \A k \in (d + 1)..m : Has(q, k, Len(q))

Carried == Frames({"data", "ping", "pong", "close", "garbage", "fin"})

(* A message may be written to no connection. *)
LEMMA WrittenMore ==
  ASSUME NEW q, NEW d \in Nat, NEW m \in Nat, InOrder(q, d, m)
  PROVE  InOrder(q, d, m + 1)
<1>1. ASSUME NEW i \in 1..Len(q), q[i].kind = "data"
      PROVE  /\ q[i].n \in (d + 1)..(m + 1)
             /\ \A j \in 1..(i - 1) : q[j].kind = "data" => q[j].n < q[i].n
             /\ \A k \in (d + 1)..q[i].n : Has(q, k, i)
  <2>1. /\ q[i].n \in (d + 1)..m
        /\ \A j \in 1..(i - 1) : q[j].kind = "data" => q[j].n < q[i].n
        /\ \A k \in (d + 1)..q[i].n : Has(q, k, i)
    BY <1>1 DEF InOrder
  <2>2. q[i].n \in (d + 1)..(m + 1)
    BY <2>1
  <2> QED
    BY <2>1, <2>2
<1>2. d <= m + 1
  BY DEF InOrder
<1> QED
  BY <1>1, <1>2 DEF InOrder

(* A flow that is cut off loses its last frames. *)
LEMMA CutInOrder ==
  ASSUME NEW q \in Seq(Carried), NEW r, Cut(q, r), NEW d \in Nat, NEW m \in Nat, InOrder(q, d, m)
  PROVE  InOrder(r, d, m)
<1>1. PICK kept \in 0..Len(q) : Len(r) = kept + 1 /\ r[kept + 1] = Fin /\ \A i \in 1..kept : r[i] = q[i]
  BY DEF Cut
<1>2. Fin.kind = "fin"
  BY DEF Fin, Frame
<1>3. ASSUME NEW i \in 1..Len(r), r[i].kind = "data"
      PROVE  i \in 1..Len(q) /\ \A j \in 1..i : r[j] = q[j]
  BY <1>1, <1>2, <1>3
<1>4. ASSUME NEW i \in 1..Len(r), r[i].kind = "data"
      PROVE  /\ r[i].n \in (d + 1)..m
             /\ \A j \in 1..(i - 1) : r[j].kind = "data" => r[j].n < r[i].n
             /\ \A k \in (d + 1)..r[i].n : Has(r, k, i)
  <2>1. i \in 1..Len(q) /\ \A j \in 1..i : r[j] = q[j]
    BY <1>3, <1>4
  <2>2. /\ q[i].n \in (d + 1)..m
        /\ \A j \in 1..(i - 1) : q[j].kind = "data" => q[j].n < q[i].n
        /\ \A k \in (d + 1)..q[i].n : Has(q, k, i)
    BY <1>4, <2>1 DEF InOrder
  <2>3. ASSUME NEW k \in (d + 1)..r[i].n PROVE Has(r, k, i)
    <3>1. Has(q, k, i)
      BY <2>1, <2>2
    <3> QED
      BY <2>1, <3>1 DEF Has
  <2> QED
    BY <2>1, <2>2, <2>3
<1> QED
  BY <1>4 DEF InOrder

(* A frame without a message changes nothing ... *)
LEMMA OtherAppended ==
  ASSUME NEW q \in Seq(Carried), NEW f, f.kind # "data", NEW d \in Nat, NEW m \in Nat, InOrder(q, d, m)
  PROVE  InOrder(Append(q, f), d, m) /\ (Full(q, d, m) => Full(Append(q, f), d, m))
<1>1. PICK r : r = Append(q, f)
  OBVIOUS
<1>2. Len(r) = Len(q) + 1 /\ r[Len(r)] = f /\ \A i \in 1..Len(q) : r[i] = q[i]
  BY <1>1
<1>3. ASSUME NEW i \in 1..Len(r), r[i].kind = "data"
      PROVE  i \in 1..Len(q) /\ \A j \in 1..i : r[j] = q[j]
  BY <1>2, <1>3
<1>4. ASSUME NEW i \in 1..Len(r), r[i].kind = "data"
      PROVE  /\ r[i].n \in (d + 1)..m
             /\ \A j \in 1..(i - 1) : r[j].kind = "data" => r[j].n < r[i].n
             /\ \A k \in (d + 1)..r[i].n : Has(r, k, i)
  <2>1. i \in 1..Len(q) /\ \A j \in 1..i : r[j] = q[j]
    BY <1>3, <1>4
  <2>2. /\ q[i].n \in (d + 1)..m
        /\ \A j \in 1..(i - 1) : q[j].kind = "data" => q[j].n < q[i].n
        /\ \A k \in (d + 1)..q[i].n : Has(q, k, i)
    BY <1>4, <2>1 DEF InOrder
  <2>3. ASSUME NEW k \in (d + 1)..r[i].n PROVE Has(r, k, i)
    <3>1. Has(q, k, i)
      BY <2>1, <2>2
    <3> QED
      BY <2>1, <3>1 DEF Has
  <2> QED
    BY <2>1, <2>2, <2>3
<1>5. InOrder(r, d, m)
  BY <1>4 DEF InOrder
<1>6. Full(q, d, m) => Full(r, d, m)
  BY <1>2 DEF Full, Has
<1> QED
  BY <1>1, <1>5, <1>6

(* ... written or read. *)
LEMMA OtherTaken ==
  ASSUME NEW q \in Seq(Carried), q # <<>>, Head(q).kind # "data", NEW d \in Nat, NEW m \in Nat, InOrder(q, d, m)
  PROVE  InOrder(Tail(q), d, m) /\ (Full(q, d, m) => Full(Tail(q), d, m))
<1>1. PICK r : r = Tail(q)
  OBVIOUS
<1>2. Len(q) = Len(r) + 1 /\ Len(r) \in Nat /\ q[1].kind # "data" /\ \A i \in 1..Len(r) : r[i] = q[i + 1]
  BY <1>1
<1>3. ASSUME NEW k, NEW i \in 0..Len(r), Has(q, k, i + 1) PROVE Has(r, k, i)
  <2>1. PICK j \in 1..(i + 1) : q[j].kind = "data" /\ q[j].n = k
    BY <1>3 DEF Has
  <2>2. j - 1 \in 1..i /\ j - 1 \in 1..Len(r) /\ (j - 1) + 1 = j
    BY <1>2, <2>1
  <2>3. r[j - 1] = q[j]
    BY <1>2, <2>2
  <2> QED
    BY <2>1, <2>2, <2>3 DEF Has
<1>4. ASSUME NEW i \in 1..Len(r), r[i].kind = "data"
      PROVE  /\ r[i].n \in (d + 1)..m
             /\ \A j \in 1..(i - 1) : r[j].kind = "data" => r[j].n < r[i].n
             /\ \A k \in (d + 1)..r[i].n : Has(r, k, i)
  <2>1. i + 1 \in 1..Len(q) /\ r[i] = q[i + 1] /\ i \in 0..Len(r)
    BY <1>2
  <2>2. \A k \in (d + 1)..r[i].n : Has(q, k, i + 1)
    BY <1>4, <2>1 DEF InOrder
  <2>3. \A j \in 1..(i - 1) : j + 1 \in 1..((i + 1) - 1) /\ r[j] = q[j + 1]
    BY <1>2
  <2>4. \A j \in 1..((i + 1) - 1) : q[j].kind = "data" => q[j].n < q[i + 1].n
    BY <1>4, <2>1 DEF InOrder
  <2>5. \A j \in 1..(i - 1) : r[j].kind = "data" => r[j].n < r[i].n
    BY <2>1, <2>3, <2>4
  <2>6. r[i].n \in (d + 1)..m
    BY <1>4, <2>1 DEF InOrder
  <2> QED
    BY <1>3, <2>1, <2>2, <2>5, <2>6
<1>5. InOrder(r, d, m)
  BY <1>4 DEF InOrder
<1>6. Full(q, d, m) => Full(r, d, m)
  BY <1>2, <1>3 DEF Full
<1> QED
  BY <1>1, <1>5, <1>6

(* The message that is read is the next one. *)
LEMMA MessageTaken ==
  ASSUME NEW q \in Seq(Carried), q # <<>>, Head(q).kind = "data", NEW d \in Nat, NEW m \in Nat, InOrder(q, d, m)
  PROVE  /\ Head(q).n = d + 1 /\ d + 1 <= m
         /\ InOrder(Tail(q), d + 1, m) /\ (Full(q, d, m) => Full(Tail(q), d + 1, m))
<1>1. PICK r : r = Tail(q)
  OBVIOUS
<1>2. Len(q) = Len(r) + 1 /\ Len(r) \in Nat /\ Head(q) = q[1] /\ \A i \in 1..Len(r) : r[i] = q[i + 1]
  BY <1>1
<1>3. q[1].n = d + 1 /\ d + 1 <= m
  <2>1. q[1].n \in (d + 1)..m /\ \A k \in (d + 1)..q[1].n : Has(q, k, 1)
    BY <1>2 DEF InOrder
  <2>2. d + 1 \in (d + 1)..q[1].n
    BY <2>1
  <2>3. Has(q, d + 1, 1)
    BY <2>1, <2>2
  <2>4. q[1].n = d + 1
    BY <2>3 DEF Has
  <2> QED
    BY <2>1, <2>4
<1>4. ASSUME NEW k \in ((d + 1) + 1)..m, NEW i \in 0..Len(r), Has(q, k, i + 1) PROVE Has(r, k, i)
  <2>1. PICK j \in 1..(i + 1) : q[j].kind = "data" /\ q[j].n = k
    BY <1>4 DEF Has
  <2>2. j - 1 \in 1..i /\ j - 1 \in 1..Len(r) /\ (j - 1) + 1 = j
    BY <1>2, <1>3, <2>1
  <2>3. r[j - 1] = q[j]
    BY <1>2, <2>2
  <2> QED
    BY <2>1, <2>2, <2>3 DEF Has
<1>5. ASSUME NEW i \in 1..Len(r), r[i].kind = "data"
      PROVE  /\ r[i].n \in ((d + 1) + 1)..m
             /\ \A j \in 1..(i - 1) : r[j].kind = "data" => r[j].n < r[i].n
             /\ \A k \in ((d + 1) + 1)..r[i].n : Has(r, k, i)
  <2>1. i + 1 \in 1..Len(q) /\ r[i] = q[i + 1] /\ i \in 0..Len(r) /\ 1 \in 1..((i + 1) - 1)
    BY <1>2
  <2>2. \A k \in (d + 1)..r[i].n : Has(q, k, i + 1)
    BY <1>5, <2>1 DEF InOrder
  <2>3. \A j \in 1..(i - 1) : j + 1 \in 1..((i + 1) - 1) /\ r[j] = q[j + 1]
    BY <1>2
  <2>4. \A j \in 1..((i + 1) - 1) : q[j].kind = "data" => q[j].n < q[i + 1].n
    BY <1>5, <2>1 DEF InOrder
  <2>5. \A j \in 1..(i - 1) : r[j].kind = "data" => r[j].n < r[i].n
    BY <2>1, <2>3, <2>4
  <2>6. r[i].n \in (d + 1)..m
    BY <1>5, <2>1 DEF InOrder
  <2>7. q[1].n < r[i].n
    BY <1>2, <2>1, <2>4
  <2>8. r[i].n \in ((d + 1) + 1)..m
    BY <1>3, <2>6, <2>7
  <2>9. ASSUME NEW k \in ((d + 1) + 1)..r[i].n PROVE Has(r, k, i)
    <3>1. k \in (d + 1)..r[i].n /\ k \in ((d + 1) + 1)..m
      BY <2>8
    <3> QED
      BY <1>4, <2>1, <2>2, <3>1
  <2> QED
    BY <2>5, <2>8, <2>9
<1>6. InOrder(r, d + 1, m)
  BY <1>3, <1>5 DEF InOrder
<1>7. ASSUME Full(q, d, m) PROVE Full(r, d + 1, m)
  <2>1. ASSUME NEW k \in ((d + 1) + 1)..m PROVE Has(r, k, Len(r))
    <3>1. k \in (d + 1)..m
      OBVIOUS
    <3>2. Has(q, k, Len(r) + 1) /\ Len(r) \in 0..Len(r)
      BY <1>2, <1>7, <3>1 DEF Full
    <3> QED
      BY <1>4, <3>2
  <2> QED
    BY <2>1 DEF Full
<1> QED
  BY <1>1, <1>2, <1>3, <1>6, <1>7

(* The next message is written. *)
LEMMA MessageAppended ==
  ASSUME NEW q \in Seq(Carried), NEW f, NEW d \in Nat, NEW m \in Nat, f.kind = "data", f.n = m + 1,
         InOrder(q, d, m), Full(q, d, m)
  PROVE  InOrder(Append(q, f), d, m + 1) /\ Full(Append(q, f), d, m + 1)
<1>1. PICK r : r = Append(q, f)
  OBVIOUS
<1>2. Len(r) = Len(q) + 1 /\ Len(q) \in Nat /\ r[Len(r)] = f /\ \A i \in 1..Len(q) : r[i] = q[i]
  BY <1>1
<1>3. ASSUME NEW k \in (d + 1)..(m + 1) PROVE Has(r, k, Len(r))
  <2>1. CASE k = m + 1
    BY <1>2, <2>1 DEF Has
  <2>2. CASE k # m + 1
    <3>1. k \in (d + 1)..m
      BY <2>2
    <3>2. PICK j \in 1..Len(q) : q[j].kind = "data" /\ q[j].n = k
      BY <3>1 DEF Full, Has
    <3> QED
      BY <1>2, <3>2 DEF Has
  <2> QED
    BY <2>1, <2>2
<1>4. ASSUME NEW i \in 1..Len(r), r[i].kind = "data"
      PROVE  /\ r[i].n \in (d + 1)..(m + 1)
             /\ \A j \in 1..(i - 1) : r[j].kind = "data" => r[j].n < r[i].n
             /\ \A k \in (d + 1)..r[i].n : Has(r, k, i)
  <2>1. CASE i = Len(r)
    <3>1. r[i].n = m + 1 /\ d <= m
      BY <1>2, <2>1 DEF InOrder
    <3>2. ASSUME NEW j \in 1..(i - 1), r[j].kind = "data" PROVE r[j].n < r[i].n
      <4>1. j \in 1..Len(q) /\ r[j] = q[j]
        BY <1>2, <2>1
      <4>2. q[j].n \in (d + 1)..m
        BY <3>2, <4>1 DEF InOrder
      <4> QED
        BY <3>1, <4>1, <4>2
    <3> QED
      BY <1>3, <2>1, <3>1, <3>2
  <2>2. CASE i # Len(r)
    <3>1. i \in 1..Len(q) /\ \A j \in 1..i : r[j] = q[j]
      BY <1>2, <2>2
    <3>2. /\ q[i].n \in (d + 1)..m
          /\ \A j \in 1..(i - 1) : q[j].kind = "data" => q[j].n < q[i].n
          /\ \A k \in (d + 1)..q[i].n : Has(q, k, i)
      BY <1>4, <3>1 DEF InOrder
    <3>3. \A k \in (d + 1)..r[i].n : Has(r, k, i)
      BY <3>1, <3>2 DEF Has
    <3> QED
      BY <3>1, <3>2, <3>3
  <2> QED
    BY <2>1, <2>2
<1>5. InOrder(r, d, m + 1)
  BY <1>4 DEF InOrder
<1>6. Full(r, d, m + 1)
  BY <1>3 DEF Full
<1> QED
  BY <1>1, <1>5, <1>6

-----------------------------------------------------------------------------
(* Methods leave the messages in the outbox alone. *)
LEMMA MethodQueues ==
  ASSUME NEW w \in Endpoints, NEW v \in Endpoints, Alters(w, v), NEW n \in Nat, Queued(w, Written(w), n)
  PROVE  Written(v) = Written(w) /\ Queued(v, Written(v), n)
<1> DEFINE o == w.outbox
           m == Written(w)
<1>1. /\ o \in Seq(Frames({"data", "close", "held"})) /\ w.closeCalled \in BOOLEAN /\ v.closeCalled \in BOOLEAN
      /\ w.sends \in Nat /\ v.sends = w.sends
  BY DEF Endpoints, Alters
<1>2. CASE v.outbox = o /\ v.closeCalled = w.closeCalled
  BY <1>1, <1>2 DEF Written, Queued
<1>3. CASE ~(v.outbox = o /\ v.closeCalled = w.closeCalled)
  <2>1. ~w.closeCalled /\ v.closeCalled
    BY <1>1, <1>3 DEF Alters
  <2>2. PICK c \in Codes : v.outbox = Append(o, Frame("close", c))
    BY <2>1 DEF Alters
  <2>3. PICK f : f = Frame("close", c)
    OBVIOUS
  <2>4. f.kind = "close"
    BY <2>3 DEF Frame
  <2>5. PICK r : r = Append(o, f)
    OBVIOUS
  <2>6. v.outbox = r
    BY <2>2, <2>3, <2>5
  <2>7. Len(r) = Len(o) + 1 /\ Len(o) \in Nat /\ r[Len(o) + 1] = f /\ \A i \in 1..Len(o) : r[i] = o[i]
    BY <1>1, <2>5
  <2>8. Written(v) = m /\ m = w.sends - Len(o)
    <3>1. Written(v) = (w.sends + 1) - Len(r)
      BY <1>1, <2>1, <2>6 DEF Written
    <3>2. Written(w) = (w.sends + 0) - Len(o)
      BY <2>1 DEF Written
    <3>3. \A a, b \in Nat : (a + 1) - (b + 1) = (a + 0) - b /\ (a + 0) - b = a - b
      OBVIOUS
    <3> QED
      BY <1>1, <2>7, <3>1, <3>2, <3>3
  <2>9. Len(o) = n - m /\ w.sends = n /\ m \in 0..n /\ \A i \in 1..(n - m) : o[i] = Frame("data", m + i)
    BY <2>1 DEF Queued
  <2>10. \A i \in 1..(n - m) : i <= Len(r) /\ r[i] = Frame("data", m + i)
    BY <2>7, <2>9
  <2>11. n - m + 1 <= Len(r) /\ r[n - m + 1].kind = "close"
    BY <2>4, <2>7, <2>9
  <2> HIDE DEF m, o
  <2>12. Queued(v, m, n)
    BY <2>1, <2>6, <2>9, <2>10, <2>11 DEF Queued
  <2> QED
    BY <2>8, <2>12 DEF m
<1> QED
  BY <1>2, <1>3

(* send() *)
LEMMA SendQueues ==
  ASSUME NEW w \in Endpoints, NEW v \in Endpoints, v.closeCalled = w.closeCalled, v.sends = w.sends + 1,
         v.outbox = Append(w.outbox, Frame("data", v.sends)), NEW n \in Nat, Queued(w, Written(w), n)
  PROVE  /\ Written(v) = Written(w)
         /\ IF w.closeCalled THEN Queued(v, Written(v), n) ELSE w.sends = n /\ Queued(v, Written(v), n + 1)
<1> DEFINE o == w.outbox
           m == Written(w)
<1>1. /\ o \in Seq(Frames({"data", "close", "held"})) /\ w.closeCalled \in BOOLEAN /\ w.sends \in Nat
  BY DEF Endpoints
<1>2. PICK f : f = Frame("data", v.sends)
  OBVIOUS
<1>3. PICK r : r = Append(o, f)
  OBVIOUS
<1>4. v.outbox = r
  BY <1>2, <1>3
<1>5. Len(r) = Len(o) + 1 /\ Len(o) \in Nat /\ r[Len(o) + 1] = f /\ \A i \in 1..Len(o) : r[i] = o[i]
  BY <1>1, <1>3
<1>6. Written(v) = m
  <2>1. PICK k \in Nat : k = IF w.closeCalled THEN 1 ELSE 0
    BY <1>1
  <2>2. Written(v) = ((w.sends + 1) + k) - (Len(o) + 1)
    BY <1>4, <1>5, <2>1 DEF Written
  <2>3. Written(w) = (w.sends + k) - Len(o)
    BY <2>1 DEF Written
  <2>4. \A a, b \in Nat : ((a + 1) + k) - (b + 1) = (a + k) - b
    OBVIOUS
  <2> QED
    BY <1>1, <1>5, <2>2, <2>3, <2>4
<1>7. m \in 0..n /\ \A i \in 1..(n - m) : i <= Len(o) /\ o[i] = Frame("data", m + i)
  BY DEF Queued
<1>8. \A i \in 1..(n - m) : i <= Len(r) /\ r[i] = Frame("data", m + i)
  BY <1>5, <1>7
<1>9. ASSUME w.closeCalled PROVE Queued(v, m, n)
  <2>1. n - m + 1 <= Len(o) /\ o[n - m + 1].kind \in {"close", "held"}
    BY <1>9 DEF Queued
  <2>2. n - m + 1 <= Len(r) /\ r[n - m + 1].kind \in {"close", "held"}
    BY <1>5, <1>7, <2>1
  <2> HIDE DEF m, o
  <2> QED
    BY <1>4, <1>7, <1>8, <1>9, <2>2 DEF Queued
<1>10. ASSUME ~w.closeCalled PROVE w.sends = n /\ Queued(v, m, n + 1)
  <2>1. Len(o) = n - m /\ w.sends = n
    BY <1>10 DEF Queued
  <2>2. m + (n - m + 1) = n + 1 /\ v.sends = n + 1 /\ (n + 1) - m = n - m + 1 /\ Len(r) = (n + 1) - m
    BY <1>5, <1>7, <2>1
  <2>3. \A i \in 1..((n + 1) - m) : i <= Len(r) /\ r[i] = Frame("data", m + i)
    <3>1. TAKE i \in 1..((n + 1) - m)
    <3>2. CASE i = n - m + 1
      BY <1>2, <1>5, <2>1, <2>2, <3>2
    <3>3. CASE i # n - m + 1
      <4>1. i \in 1..(n - m)
        BY <1>7, <2>2, <3>1, <3>3
      <4> QED
        BY <1>8, <4>1
    <3> QED
      BY <3>2, <3>3
  <2>4. m \in 0..(n + 1)
    BY <1>7
  <2> HIDE DEF m, o
  <2> QED
    BY <1>4, <1>10, <2>1, <2>2, <2>3, <2>4 DEF Queued
<1> QED
  BY <1>6, <1>9, <1>10

(* The message that is written is the next one. *)
LEMMA WriteQueues ==
  ASSUME NEW w \in Endpoints, NEW v \in Endpoints, v.closeCalled = w.closeCalled, v.sends = w.sends,
         w.outbox # <<>>, Head(w.outbox).kind = "data", v.outbox = Tail(w.outbox),
         NEW n \in Nat, Queued(w, Written(w), n)
  PROVE  /\ Written(w) + 1 <= n /\ Written(v) = Written(w) + 1 /\ Queued(v, Written(v), n)
         /\ Head(w.outbox).n = Written(w) + 1
<1> DEFINE o == w.outbox
           m == Written(w)
<1>1. /\ o \in Seq(Frames({"data", "close", "held"})) /\ w.closeCalled \in BOOLEAN /\ w.sends \in Nat
  BY DEF Endpoints
<1>2. PICK r : r = Tail(o)
  OBVIOUS
<1>3. v.outbox = r
  BY <1>2
<1>4. Len(o) = Len(r) + 1 /\ Len(r) \in Nat /\ Head(o) = o[1] /\ \A i \in 1..Len(r) : r[i] = o[i + 1]
  BY <1>1, <1>2
<1>5. Written(v) = m + 1
  <2>1. PICK k \in Nat : k = IF w.closeCalled THEN 1 ELSE 0
    BY <1>1
  <2>2. Written(v) = (w.sends + k) - Len(r)
    BY <1>3, <2>1 DEF Written
  <2>3. Written(w) = (w.sends + k) - (Len(r) + 1)
    BY <1>4, <2>1 DEF Written
  <2>4. \A a, b \in Nat : (a + k) - b = ((a + k) - (b + 1)) + 1
    OBVIOUS
  <2> QED
    BY <1>1, <1>4, <2>2, <2>3, <2>4
<1>6. m \in 0..n /\ \A i \in 1..(n - m) : i <= Len(o) /\ o[i] = Frame("data", m + i)
  BY DEF Queued
<1>7. /\ w.closeCalled => n - m + 1 <= Len(o) /\ o[n - m + 1].kind \in {"close", "held"}
      /\ ~w.closeCalled => Len(o) = n - m /\ w.sends = n
  BY DEF Queued
<1> HIDE DEF m, o
<1>8. n - m >= 1
  <2>1. CASE n - m = 0
    <3>1. w.closeCalled => o[0 + 1].kind \in {"close", "held"}
      BY <1>7, <2>1
    <3>2. ~w.closeCalled => Len(o) = 0
      BY <1>7, <2>1
    <3>3. o[1].kind = "data" /\ Len(o) # 0
      BY <1>4 DEF o
    <3>4. w.closeCalled => o[1].kind \in {"close", "held"}
      BY <3>1
    <3> QED
      BY <1>1, <3>2, <3>3, <3>4
  <2> QED
    BY <1>6, <2>1
<1>9. o[1].n = m + 1
  <2>1. 1 \in 1..(n - m)
    BY <1>6, <1>8
  <2>2. o[1] = Frame("data", m + 1)
    BY <1>6, <2>1
  <2> QED
    BY <2>2 DEF Frame
<1>10. n - (m + 1) + 1 = n - m /\ m + 1 \in 0..n /\ n - (m + 1) = (n - m) - 1
  BY <1>6, <1>8
<1>11. \A i \in 1..(n - (m + 1)) : i <= Len(r) /\ r[i] = Frame("data", (m + 1) + i)
  <2>1. TAKE i \in 1..(n - (m + 1))
  <2>2. i + 1 \in 1..(n - m) /\ m + (i + 1) = (m + 1) + i
    BY <1>6, <1>8, <2>1
  <2> QED
    BY <1>4, <1>6, <2>2
<1>12. IF w.closeCalled THEN n - (m + 1) + 1 <= Len(r) /\ r[n - (m + 1) + 1].kind \in {"close", "held"}
                        ELSE Len(r) = n - (m + 1) /\ w.sends = n
  <2>1. CASE w.closeCalled
    <3>1. n - m + 1 <= Len(o) /\ o[n - m + 1].kind \in {"close", "held"}
      BY <1>7, <2>1
    <3>2. n - m \in 1..Len(r)
      BY <1>4, <1>6, <1>8, <3>1
    <3> QED
      BY <1>4, <1>10, <2>1, <3>1, <3>2
  <2>2. CASE ~w.closeCalled
    <3>1. Len(o) = n - m /\ w.sends = n
      BY <1>7, <2>2
    <3>2. Len(r) = n - (m + 1)
      <4>1. PICK a \in Nat : a = Len(r) /\ a + 1 = n - m
        BY <1>4, <3>1
      <4>2. m \in Nat
        BY <1>6
      <4>3. a = n - (m + 1)
        BY <4>1, <4>2
      <4> QED
        BY <4>1, <4>3
    <3> QED
      BY <2>2, <3>1, <3>2
  <2> QED
    BY <2>1, <2>2
<1>13. Queued(v, m + 1, n)
  BY <1>3, <1>10, <1>11, <1>12 DEF Queued
<1> QED
  BY <1>4, <1>5, <1>6, <1>8, <1>9, <1>13 DEF m, o

(* The close frame is written when no message sent before it is left. *)
LEMMA CloseQueues ==
  ASSUME NEW w \in Endpoints, NEW v \in Endpoints, v.closeCalled = w.closeCalled, v.sends = w.sends,
         w.outbox # <<>>, Head(w.outbox).kind = "close", Holds(w.outbox, v.outbox),
         NEW n \in Nat, Queued(w, Written(w), n)
  PROVE  Written(w) = n /\ Written(v) = n /\ Queued(v, Written(v), n)
<1> DEFINE o == w.outbox
           r == v.outbox
           m == Written(w)
<1>1. /\ o \in Seq(Frames({"data", "close", "held"})) /\ w.closeCalled \in BOOLEAN /\ w.sends \in Nat
  BY DEF Endpoints
<1>2. Head(o) = o[1] /\ Len(o) \in Nat /\ Len(o) >= 1
  BY <1>1
<1>3. Len(r) = Len(o) /\ r[1].kind = "held"
  BY DEF Holds
<1>4. Written(v) = m
  BY <1>3 DEF Written
<1>5. m \in 0..n /\ \A i \in 1..(n - m) : o[i] = Frame("data", m + i)
  BY DEF Queued
<1>6. n - m = 0
  <2>1. CASE n - m # 0
    <3>1. o[1] = Frame("data", m + 1)
      BY <1>5, <2>1
    <3> QED
      BY <1>2, <3>1 DEF Frame
  <2> QED
    BY <2>1
<1>7. w.closeCalled
  BY <1>2, <1>6 DEF Queued
<1>8. m = n
  BY <1>5, <1>6
<1>9. n - n + 1 = 1 /\ n - n = 0 /\ n \in 0..n
  OBVIOUS
<1>10. Queued(v, n, n)
  BY <1>2, <1>3, <1>7, <1>9 DEF Queued
<1> QED
  BY <1>4, <1>8, <1>10

(* What is sent is numbered, and what waits in the outbox is the rest.      *)
LEMMA OutboxStep == TypeOK /\ CodesInv /\ OutboxInv /\ [Next]_vars => OutboxInv'
<1> SUFFICES ASSUME TypeOK, CodesInv, OutboxInv, [Next]_vars PROVE OutboxInv'
  OBVIOUS
<1> DEFINE Fit(w, s) == Queued(w, Written(w), Len(s)) /\ \A i \in 1..Len(s) : s[i] = i
<1>1. CASE UNCHANGED vars
  BY <1>1 DEF vars, OutboxInv
<1>2. CASE Next
  <2>1. PICK e \in Ends :
           \/ Turned(e)
           \/ UserSend(e) /\ \E v \in Endpoints : ws' = [ws EXCEPT ![e] = v] /\ Sends(e, v)
           \/ WriteMessage(e) /\ \E v \in Endpoints : ws' = [ws EXCEPT ![e] = v] /\ Writes(e, v)
           \/ WriteClose(e) /\ \E v \in Endpoints : ws' = [ws EXCEPT ![e] = v] /\ WritesClose(e, v)
           \/ SocketClosed(e) /\ \E v \in Endpoints : ws' = [ws EXCEPT ![e] = v] /\ Closes(e, v)
    BY <1>2, Actions
  <2> DEFINE w == ws[e]
             n == Len(sent[e])
  <2>2. w \in Endpoints /\ Fit(w, sent[e]) /\ n \in Nat
    BY DEF TypeOK, OutboxInv
  <2>3. \A x \in Ends : Fit(ws[x], sent[x])
    BY DEF OutboxInv
  <2>4. ASSUME NEW v, ws' = [ws EXCEPT ![e] = v], sent' = sent, Fit(v, sent[e]) PROVE OutboxInv'
    <3>1. ws'[e] = v /\ \A x \in Ends : x # e => ws'[x] = ws[x]
      BY <2>4, OthersStay
    <3>2. \A x \in Ends : Fit(ws'[x], sent'[x])
      BY <2>3, <2>4, <3>1
    <3> QED
      BY <3>2 DEF OutboxInv
  <2>5. CASE Turned(e)
    <3>1. PICK v \in Endpoints : ws' = [ws EXCEPT ![e] = v] /\ Alters(w, v) /\ sent' = sent
      BY <2>5 DEF Turned
    <3>2. Queued(v, Written(v), n)
      BY <2>2, <3>1, MethodQueues
    <3> QED
      BY <2>2, <2>4, <3>1, <3>2
  <2>6. CASE UserSend(e) /\ \E v \in Endpoints : ws' = [ws EXCEPT ![e] = v] /\ Sends(e, v)
    <3>1. PICK v \in Endpoints : ws' = [ws EXCEPT ![e] = v] /\ Sends(e, v)
      BY <2>6
    <3>2. IF w.closeCalled THEN Queued(v, Written(v), n) ELSE w.sends = n /\ Queued(v, Written(v), n + 1)
      BY <2>2, <3>1, SendQueues DEF Sends, Keeps
    <3>3. CASE w.closeCalled
      BY <2>2, <2>4, <2>6, <3>1, <3>2, <3>3 DEF UserSend
    <3>4. CASE ~w.closeCalled
      <4>1. PICK s : s = Append(sent[e], n + 1)
        OBVIOUS
      <4>2. Len(s) = n + 1 /\ \A i \in 1..Len(s) : s[i] = i
        <5>1. sent[e] \in Seq(Nat) /\ \A i \in 1..n : sent[e][i] = i
          BY <2>2 DEF TypeOK
        <5> QED
          BY <4>1, <5>1
      <4>3. sent' = [sent EXCEPT ![e] = s]
        BY <2>6, <3>2, <3>4, <4>1 DEF UserSend
      <4>4. ws'[e] = v /\ \A x \in Ends : x # e => ws'[x] = ws[x]
        BY <3>1, OthersStay
      <4>5. sent'[e] = s /\ \A x \in Ends : x # e => sent'[x] = sent[x]
        BY <4>3 DEF TypeOK
      <4>6. Fit(v, s)
        BY <3>2, <3>4, <4>2
      <4>7. \A x \in Ends : Fit(ws'[x], sent'[x])
        BY <2>3, <4>4, <4>5, <4>6
      <4> QED
        BY <4>7 DEF OutboxInv
    <3> QED
      BY <3>3, <3>4
  <2>7. CASE WriteMessage(e) /\ \E v \in Endpoints : ws' = [ws EXCEPT ![e] = v] /\ Writes(e, v)
    <3>1. PICK v \in Endpoints : ws' = [ws EXCEPT ![e] = v] /\ Writes(e, v)
      BY <2>7
    <3>2. Queued(v, Written(v), n)
      BY <2>2, <3>1, WriteQueues DEF Writes, Keeps
    <3> QED
      BY <2>2, <2>4, <2>7, <3>1, <3>2 DEF WriteMessage
  <2>8. CASE WriteClose(e) /\ \E v \in Endpoints : ws' = [ws EXCEPT ![e] = v] /\ WritesClose(e, v)
    <3>1. PICK v \in Endpoints : ws' = [ws EXCEPT ![e] = v] /\ WritesClose(e, v)
      BY <2>8
    <3>2. Queued(v, Written(v), n)
      BY <2>2, <3>1, CloseQueues DEF WritesClose
    <3>3. sent' = sent
      BY <2>8 DEF WriteClose
    <3> QED
      BY <2>2, <2>4, <3>1, <3>2, <3>3
  <2>9. CASE SocketClosed(e) /\ \E v \in Endpoints : ws' = [ws EXCEPT ![e] = v] /\ Closes(e, v)
    <3>1. PICK v \in Endpoints : ws' = [ws EXCEPT ![e] = v] /\ Closes(e, v)
      BY <2>9
    <3>2. Queued(v, Written(v), n)
      BY <2>2, <3>1 DEF Closes, Written, Queued
    <3>3. sent' = sent
      BY <2>9 DEF SocketClosed
    <3> QED
      BY <2>2, <2>4, <3>1, <3>2, <3>3
  <2> QED
    BY <2>1, <2>5, <2>6, <2>7, <2>8, <2>9
<1> QED
  BY <1>1, <1>2

-----------------------------------------------------------------------------
(* What one end was given, what is under way to it and what the other end   *)
(* has written.                                                            *)
Alive(w, u) == w.io = "open" /\ Reads(u)

DeliveryInv ==
  \A x \in Ends :
    /\ \A i \in 1..Len(delivered[Peer(x)]) : delivered[Peer(x)][i] = i
    /\ InOrder(net[x], Len(delivered[Peer(x)]), Written(ws[x]))
    /\ Alive(ws[x], ws[Peer(x)]) => Full(net[x], Len(delivered[Peer(x)]), Written(ws[x]))

(* A socket may only be finished. *)
Shuts(w, v) ==
  v.io = w.io \/ (Reads(w) /\ v.io \in {"destroyed", "closed"}) \/ (w.io = "open" /\ v.io = "ended")
    \/ (w.io = "destroyed" /\ v.io = "closed")

(* When a socket is finished what it was given or still has to send is cut  *)
(* off.                                                                    *)
LEMMA CutsInOrder ==
  ASSUME TypeOK, NEW e \in Ends, NEW v \in Endpoints, ws' = [ws EXCEPT ![e] = v], Shuts(ws[e], v),
         NEW flow \in Flows, net' \in NetAfter(e, ws[e], v, flow),
         NEW x \in Ends, NEW d \in Nat, NEW m \in Nat, InOrder(flow[x], d, m),
         Alive(ws[x], ws[Peer(x)]) => Full(flow[x], d, m)
  PROVE  /\ InOrder(net'[x], d, m)
         /\ Alive(ws'[x], ws'[Peer(x)]) => Full(net'[x], d, m)
<1>1. PICK g : g = net'
  OBVIOUS
<1>2. /\ \/ v.io = "destroyed" /\ Reads(ws[e]) /\ Cut(flow[e], g[e]) /\ g[Peer(e)] = <<>>
         \/ v.io = "ended" /\ ws[e].io = "open" /\ Cut(flow[e], g[e]) /\ g[Peer(e)] = flow[Peer(e)]
         \/ g = flow
  BY <1>1, NetMoves
<1>3. /\ Peer(e) \in Ends /\ Peer(e) # e /\ (x = e \/ x = Peer(e)) /\ Peer(Peer(e)) = e
      /\ flow[x] \in Seq(Carried)
  BY Peers DEF Flows, Carried
<1>4. ws'[e] = v /\ \A y \in Ends : y # e => ws'[y] = ws[y]
  BY OthersStay
<1>5. Alive(ws'[x], ws'[Peer(x)]) => Alive(ws[x], ws[Peer(x)])
  BY <1>3, <1>4 DEF Alive, Shuts, Reads
<1>6. InOrder(<<>>, d, m)
  BY DEF InOrder
<1>7. CASE g[x] = flow[x]
  BY <1>1, <1>5, <1>7
<1>8. CASE Cut(flow[x], g[x]) /\ x = e /\ v.io # "open"
  <2>1. InOrder(g[x], d, m)
    BY <1>3, <1>8, CutInOrder
  <2>2. ~Alive(ws'[x], ws'[Peer(x)])
    BY <1>4, <1>8 DEF Alive
  <2> QED
    BY <1>1, <2>1, <2>2
<1>9. CASE g[x] = <<>> /\ x = Peer(e) /\ v.io = "destroyed"
  <2>1. ~Alive(ws'[x], ws'[Peer(x)])
    BY <1>3, <1>4, <1>9 DEF Alive, Reads
  <2> QED
    BY <1>1, <1>6, <1>9, <2>1
<1> QED
  BY <1>2, <1>3, <1>7, <1>8, <1>9

(* One more message was delivered. *)
LEMMA NextDelivered ==
  ASSUME NEW s \in Seq(Nat), \A i \in 1..Len(s) : s[i] = i, NEW n, n = Len(s) + 1
  PROVE  /\ Len(Append(s, n)) = Len(s) + 1
         /\ \A i \in 1..Len(Append(s, n)) : Append(s, n)[i] = i
OBVIOUS

(* Methods, reads and the frames that carry no message. *)
LEMMA TurnedDelivers ==
  ASSUME TypeOK, OutboxInv, DeliveryInv, NEW e \in Ends, Turned(e)
  PROVE  DeliveryInv'
<1>1. PICK v \in Endpoints, flow \in Flows :
        /\ ws' = [ws EXCEPT ![e] = v] /\ Alters(ws[e], v)
        /\ net' \in NetAfter(e, ws[e], v, flow)
        /\ \/ Puts(e, flow)
           \/ Reads(ws[e]) /\ (Takes(e, flow) \/ Overtakes(e, v, flow))
  BY DEF Turned
<1> DEFINE x == Peer(e)
           d == Len(delivered[e])
           n == Len(delivered[x])
<1>2. /\ x \in Ends /\ x # e /\ Peer(x) = e /\ \A y \in Ends : y = e \/ y = x
      /\ net[e] \in Seq(Carried) /\ net[x] \in Seq(Carried) /\ net \in Flows
      /\ ws[e] \in Endpoints /\ ws[x] \in Endpoints
      /\ d \in Nat /\ n \in Nat /\ delivered[e] \in Seq(Nat)
  BY Peers DEF TypeOK, Carried, Flows
<1>3. /\ Written(ws[e]) \in Nat /\ Written(ws[x]) \in Nat /\ Written(v) = Written(ws[e])
  <2>1. \A y \in Ends : Queued(ws[y], Written(ws[y]), Len(sent[y])) /\ Len(sent[y]) \in Nat
    BY DEF OutboxInv, TypeOK
  <2>2. \A y \in Ends : Written(ws[y]) \in Nat
    BY <2>1 DEF Queued
  <2>3. Written(v) = Written(ws[e])
    BY <1>1, <1>2, <2>1, MethodQueues
  <2> QED
    BY <1>2, <2>2, <2>3
<1>4. ws'[e] = v /\ ws'[x] = ws[x]
  BY <1>1, <1>2, OthersStay
<1>5. Shuts(ws[e], v)
  BY <1>1 DEF Alters, Shuts
<1>6. /\ \A i \in 1..d : delivered[e][i] = i
      /\ \A i \in 1..n : delivered[x][i] = i
      /\ InOrder(net[e], n, Written(ws[e])) /\ (Alive(ws[e], ws[x]) => Full(net[e], n, Written(ws[e])))
      /\ InOrder(net[x], d, Written(ws[x])) /\ (Alive(ws[x], ws[e]) => Full(net[x], d, Written(ws[x])))
  BY <1>2 DEF DeliveryInv
<1>7. SUFFICES ASSUME NEW y \in Ends
               PROVE  /\ \A i \in 1..Len(delivered'[Peer(y)]) : delivered'[Peer(y)][i] = i
                      /\ InOrder(net'[y], Len(delivered'[Peer(y)]), Written(ws'[y]))
                      /\ Alive(ws'[y], ws'[Peer(y)]) => Full(net'[y], Len(delivered'[Peer(y)]), Written(ws'[y]))
  BY DEF DeliveryInv
<1>8. CASE y = e
  <2>1. delivered'[x] = delivered[x]
    BY <1>1, <1>2 DEF Puts, Takes, Overtakes, TypeOK
  <2>2. InOrder(flow[e], n, Written(ws[e])) /\ (Alive(ws[e], ws[x]) => Full(flow[e], n, Written(ws[e])))
    <3>1. CASE flow[e] = net[e]
      BY <1>6, <3>1
    <3>2. CASE flow[e] # net[e]
      <4>1. PICK f : f.kind # "data" /\ flow = [net EXCEPT ![e] = Append(@, f)]
        BY <1>1, <1>2, <3>2 DEF Puts, Takes, Overtakes, Flows
      <4>2. flow[e] = Append(net[e], f)
        BY <1>2, <4>1 DEF Flows
      <4> QED
        BY <1>2, <1>3, <1>6, <4>1, <4>2, OtherAppended
    <3> QED
      BY <3>1, <3>2
  <2>3. /\ InOrder(net'[e], n, Written(ws[e]))
        /\ Alive(ws'[e], ws'[x]) => Full(net'[e], n, Written(ws[e]))
    BY <1>1, <1>2, <1>3, <1>5, <2>2, CutsInOrder
  <2> QED
    BY <1>2, <1>3, <1>4, <1>6, <1>8, <2>1, <2>3
<1>9. CASE y = x
  <2> DEFINE m == Written(ws[x])
             f == Head(net[x])
  <2>1. CASE delivered'[e] = delivered[e] /\ InOrder(flow[x], d, m) /\ (Alive(ws[x], ws[e]) => Full(flow[x], d, m))
    <3>1. /\ InOrder(net'[x], d, m)
          /\ Alive(ws'[x], ws'[e]) => Full(net'[x], d, m)
      BY <1>1, <1>2, <1>3, <1>5, <2>1, CutsInOrder
    <3> QED
      BY <1>2, <1>4, <1>6, <1>9, <2>1, <3>1
  <2>2. CASE Puts(e, flow)
    <3>1. flow[x] = net[x] /\ delivered'[e] = delivered[e]
      BY <1>2, <2>2 DEF Puts, Flows
    <3> QED
      BY <1>6, <2>1, <3>1
  <2>3. CASE Takes(e, flow) /\ f.kind # "data"
    <3>1. flow[x] = Tail(net[x]) /\ delivered'[e] = delivered[e] /\ net[x] # <<>>
      BY <1>2, <2>3 DEF Takes, Flows
    <3>2. InOrder(flow[x], d, m) /\ (Full(net[x], d, m) => Full(flow[x], d, m))
      BY <1>2, <1>3, <1>6, <2>3, <3>1, OtherTaken
    <3> QED
      BY <1>6, <2>1, <3>1, <3>2
  <2>4. CASE (Takes(e, flow) \/ Overtakes(e, v, flow)) /\ f.kind = "data"
    <3>1. /\ net[x] # <<>> /\ delivered' = [delivered EXCEPT ![e] = Append(@, f.n)]
      BY <2>4 DEF Takes, Overtakes
    <3>2. /\ f.n = d + 1 /\ d + 1 <= m /\ d + 1 \in Nat
          /\ InOrder(Tail(net[x]), d + 1, m) /\ (Full(net[x], d, m) => Full(Tail(net[x]), d + 1, m))
      BY <1>2, <1>3, <1>6, <2>4, <3>1, MessageTaken
    <3>3. delivered'[e] = Append(delivered[e], d + 1)
      BY <1>2, <3>1, <3>2 DEF TypeOK
    <3>4. Len(delivered'[e]) = d + 1 /\ \A i \in 1..Len(delivered'[e]) : delivered'[e][i] = i
      BY <1>2, <1>6, <3>3, NextDelivered
    <3>5. CASE Takes(e, flow)
      <4>1. flow[x] = Tail(net[x])
        BY <1>2, <3>5 DEF Takes, Flows
      <4>2. /\ InOrder(net'[x], d + 1, m)
            /\ Alive(ws'[x], ws'[e]) => Full(net'[x], d + 1, m)
        <5>1. PICK k \in Nat : k = d + 1
          BY <1>2
        <5>2. InOrder(flow[x], k, m) /\ (Alive(ws[x], ws[e]) => Full(flow[x], k, m))
          BY <1>6, <3>2, <4>1, <5>1
        <5>3. /\ InOrder(net'[x], k, m)
              /\ Alive(ws'[x], ws'[e]) => Full(net'[x], k, m)
          BY <1>1, <1>2, <1>3, <1>5, <5>2, CutsInOrder
        <5> QED
          BY <5>1, <5>3
      <4> QED
        BY <1>2, <1>4, <1>9, <3>4, <4>2
    <3>6. CASE Overtakes(e, v, flow) /\ ~Takes(e, flow)
      <4>1. v.io = "destroyed" /\ Reads(ws[e])
        <5>1. ~Puts(e, flow)
          <6>1. CASE Puts(e, flow)
            <7>1. delivered'[e] = delivered[e]
              BY <6>1 DEF Puts
            <7>2. Len(delivered'[e]) = d
              BY <7>1
            <7> QED
              BY <1>2, <3>4, <7>2
          <6> QED
            BY <6>1
        <5> QED
          BY <1>1, <3>6, <5>1 DEF Overtakes
      <4>2. net'[x] = <<>>
        <5>1. PICK g : g = net'
          OBVIOUS
        <5>2. g[x] = <<>>
          BY <1>1, <4>1, <5>1, NetMoves
        <5> QED
          BY <5>1, <5>2
      <4>3. InOrder(<<>>, d + 1, m)
        BY <3>2 DEF InOrder
      <4>4. ~Alive(ws'[x], ws'[e])
        BY <1>4, <4>1 DEF Alive, Reads
      <4> QED
        BY <1>2, <1>4, <1>9, <3>4, <4>2, <4>3, <4>4
    <3> QED
      BY <2>4, <3>5, <3>6
  <2> QED
    BY <1>1, <2>2, <2>3, <2>4 DEF Overtakes
<1> QED
  BY <1>2, <1>8, <1>9

(* What is delivered is a prefix of what was written, what is under way     *)
(* follows it.                                                             *)
LEMMA DeliveryStep == TypeOK /\ CodesInv /\ OutboxInv /\ DeliveryInv /\ [Next]_vars => DeliveryInv'
<1> SUFFICES ASSUME TypeOK, CodesInv, OutboxInv, DeliveryInv, [Next]_vars PROVE DeliveryInv'
  OBVIOUS
<1>1. CASE UNCHANGED vars
  BY <1>1 DEF vars, DeliveryInv
<1>2. CASE Next
  <2>1. PICK e \in Ends :
           \/ Turned(e)
           \/ UserSend(e) /\ \E v \in Endpoints : ws' = [ws EXCEPT ![e] = v] /\ Sends(e, v)
           \/ WriteMessage(e) /\ \E v \in Endpoints : ws' = [ws EXCEPT ![e] = v] /\ Writes(e, v)
           \/ WriteClose(e) /\ \E v \in Endpoints : ws' = [ws EXCEPT ![e] = v] /\ WritesClose(e, v)
           \/ SocketClosed(e) /\ \E v \in Endpoints : ws' = [ws EXCEPT ![e] = v] /\ Closes(e, v)
    BY <1>2, Actions
  <2>2. CASE Turned(e)
    BY <2>2, TurnedDelivers
  <2>3. CASE ~Turned(e)
    <3>1. PICK v \in Endpoints :
            /\ ws' = [ws EXCEPT ![e] = v]
            /\ \/ Sends(e, v) \/ Writes(e, v) \/ WritesClose(e, v)
               \/ Closes(e, v) /\ net' = net
      BY <2>1, <2>3 DEF SocketClosed
    <3>2. delivered' = delivered
      BY <2>1, <2>3 DEF UserSend, WriteMessage, WriteClose, SocketClosed
    <3> DEFINE w == ws[e]
               p == Peer(e)
               n == Len(delivered[p])
               m == Written(w)
               f == Head(w.outbox)
    <3>3. /\ p \in Ends /\ p # e /\ Peer(p) = e /\ \A y \in Ends : y = e \/ y = p
          /\ net \in Flows /\ net[e] \in Seq(Carried) /\ net[p] \in Seq(Carried)
          /\ w \in Endpoints /\ n \in Nat /\ Len(sent[e]) \in Nat
      BY Peers DEF TypeOK, Flows, Carried
    <3>4. Queued(w, m, Len(sent[e])) /\ m \in Nat
      <4>1. Queued(w, m, Len(sent[e]))
        BY DEF OutboxInv
      <4> QED
        BY <3>3, <4>1 DEF Queued
    <3>5. ws'[e] = v /\ ws'[p] = ws[p]
      BY <3>1, <3>3, OthersStay
    <3>6. Shuts(w, v)
      BY <3>1 DEF Sends, Writes, Keeps, WritesClose, Closes, Shuts
    <3>7. InOrder(net[e], n, m) /\ (Alive(w, ws[p]) => Full(net[e], n, m))
      BY <3>3 DEF DeliveryInv
    <3>8. /\ InOrder(net'[e], n, Written(v))
          /\ Alive(v, ws[p]) => Full(net'[e], n, Written(v))
      <4>1. Alive(v, ws[p]) => Alive(w, ws[p])
        BY <3>6 DEF Shuts, Alive, Reads
      <4>2. CASE Sends(e, v)
        <5>1. Written(v) = m
          BY <3>3, <3>4, <4>2, SendQueues DEF Sends, Keeps
        <5> QED
          BY <3>7, <4>1, <4>2, <5>1 DEF Sends
      <4>3. CASE Writes(e, v)
        <5>1. Written(v) = m + 1 /\ f.n = m + 1 /\ f.kind = "data"
          BY <3>3, <3>4, <4>3, WriteQueues DEF Writes, Keeps
        <5>2. CASE Alive(w, ws[p])
          <6>1. net'[e] = Append(net[e], f)
            BY <3>3, <4>3, <5>2 DEF Writes, Write, Alive, Flows
          <6> QED
            BY <3>3, <3>4, <3>7, <5>1, <5>2, <6>1, MessageAppended
        <5>3. CASE ~Alive(w, ws[p])
          <6>1. net'[e] = net[e]
            BY <4>3, <5>3 DEF Writes, Write, Alive
          <6>2. InOrder(net[e], n, m + 1)
            BY <3>3, <3>4, <3>7, WrittenMore
          <6> QED
            BY <4>1, <5>1, <5>3, <6>1, <6>2
        <5> QED
          BY <5>2, <5>3
      <4>4. CASE WritesClose(e, v)
        <5>1. Written(v) = m
          BY <3>3, <3>4, <4>4, CloseQueues DEF WritesClose
        <5>2. f.kind = "close" /\ f \in Carried
          BY <4>4, HeadOfOutbox DEF WritesClose, Carried
        <5>3. PICK flow \in {net, Write(e, f)} : net' \in NetAfter(e, w, v, flow)
          BY <4>4 DEF WritesClose
        <5>4. flow \in Flows
          BY <3>3, <5>2, <5>3, WriteKeeps DEF Carried
        <5>5. InOrder(flow[e], n, m) /\ (Alive(w, ws[p]) => Full(flow[e], n, m))
          <6>1. flow[e] = net[e] \/ flow[e] = Append(net[e], f)
            BY <3>3, <5>3 DEF Write, Flows
          <6> QED
            BY <3>3, <3>4, <3>7, <5>2, <6>1, OtherAppended
        <5>6. /\ InOrder(net'[e], n, m)
              /\ Alive(ws'[e], ws'[p]) => Full(net'[e], n, m)
          BY <3>1, <3>3, <3>4, <3>6, <5>3, <5>4, <5>5, CutsInOrder
        <5> QED
          BY <3>5, <5>1, <5>6
      <4>5. CASE Closes(e, v) /\ net' = net
        <5>1. Written(v) = m
          BY <4>5 DEF Closes, Written
        <5> QED
          BY <3>7, <4>1, <4>5, <5>1
      <4> QED
        BY <3>1, <4>2, <4>3, <4>4, <4>5
    <3>9. /\ InOrder(net'[p], Len(delivered[e]), Written(ws[p]))
          /\ Alive(ws[p], v) => Full(net'[p], Len(delivered[e]), Written(ws[p]))
      <4>1. /\ InOrder(net[p], Len(delivered[e]), Written(ws[p]))
            /\ Alive(ws[p], w) => Full(net[p], Len(delivered[e]), Written(ws[p]))
        BY <3>3 DEF DeliveryInv
      <4>2. Written(ws[p]) \in Nat /\ Len(delivered[e]) \in Nat
        <5>1. Queued(ws[p], Written(ws[p]), Len(sent[p])) /\ Len(sent[p]) \in Nat
          BY <3>3 DEF OutboxInv, TypeOK
        <5> QED
          BY <5>1 DEF Queued, TypeOK
      <4>3. PICK flow \in Flows : flow[p] = net[p] /\ net' \in NetAfter(e, w, v, flow)
        <5>1. CASE WritesClose(e, v)
          <6>1. PICK flow \in {net, Write(e, f)} : net' \in NetAfter(e, w, v, flow)
            BY <5>1 DEF WritesClose
          <6>2. flow \in Flows /\ flow[p] = net[p]
            <7>1. f \in Carried
              BY <5>1, HeadOfOutbox DEF WritesClose, Carried
            <7>2. Write(e, f) \in Flows /\ Write(e, f) \in {net, [net EXCEPT ![e] = Append(@, f)]}
              BY <7>1, WriteKeeps DEF Carried
            <7> QED
              BY <3>3, <6>1, <7>2 DEF Flows
          <6> QED
            BY <6>1, <6>2
        <5>2. CASE ~WritesClose(e, v)
          <6>1. v.io = w.io \/ (w.io = "destroyed" /\ v.io = "closed")
            BY <2>1, <2>3, <3>1, <5>2 DEF Sends, Writes, Keeps, Closes
          <6>2. NetAfter(e, w, v, net') = {net'}
            BY <6>1 DEF NetAfter, Reads
          <6>3. net' \in Flows /\ net'[p] = net[p]
            <7>1. CASE Writes(e, v)
              <8>1. f \in Carried
                BY <7>1, HeadOfOutbox DEF Writes, Carried
              <8>2. Write(e, f) \in Flows /\ Write(e, f) \in {net, [net EXCEPT ![e] = Append(@, f)]}
                BY <8>1, WriteKeeps DEF Carried
              <8> QED
                BY <3>3, <7>1, <8>2 DEF Writes, Flows
            <7>2. CASE net' = net
              BY <3>3, <7>2
            <7> QED
              BY <3>1, <5>2, <7>1, <7>2 DEF Sends
          <6> QED
            BY <6>2, <6>3
        <5> QED
          BY <5>1, <5>2
      <4>4. /\ InOrder(net'[p], Len(delivered[e]), Written(ws[p]))
            /\ Alive(ws'[p], ws'[e]) => Full(net'[p], Len(delivered[e]), Written(ws[p]))
        BY <3>1, <3>3, <3>6, <4>1, <4>2, <4>3, CutsInOrder
      <4> QED
        BY <3>5, <4>4
    <3>10. ASSUME NEW y \in Ends
           PROVE  /\ \A i \in 1..Len(delivered'[Peer(y)]) : delivered'[Peer(y)][i] = i
                  /\ InOrder(net'[y], Len(delivered'[Peer(y)]), Written(ws'[y]))
                  /\ Alive(ws'[y], ws'[Peer(y)]) => Full(net'[y], Len(delivered'[Peer(y)]), Written(ws'[y]))
      <4>1. CASE y = e
        BY <3>2, <3>3, <3>5, <3>8, <4>1 DEF DeliveryInv
      <4>2. CASE y = p
        BY <3>2, <3>3, <3>5, <3>9, <4>2 DEF DeliveryInv
      <4> QED
        BY <3>3, <4>1, <4>2
    <3> QED
      BY <3>10 DEF DeliveryInv
  <2> QED
    BY <2>2, <2>3
<1> QED
  BY <1>1, <1>2
-----------------------------------------------------------------------------
(* The close frame is the last --------------------------------------------*)
(* In front of a close frame are the messages that are still to be given    *)
(* to the other end: d of n were.                                          *)
Last(q, d, n) == \A i \in 1..Len(q) : q[i].kind = "close" => \A k \in (d + 1)..n : Has(q, k, i)

LastInv ==
  \A x \in Ends :
    /\ \A i \in 1..Len(net[x]) : net[x][i].kind = "close" => ws[x].closeCalled
    /\ Last(net[x], Len(delivered[Peer(x)]), Len(sent[x]))
    /\ ws[Peer(x)].closeFrameReceived => ws[x].closeCalled /\ Len(delivered[Peer(x)]) = Len(sent[x])

(* A flow that is cut off, *)
LEMMA CutLast ==
  ASSUME NEW q \in Seq(Carried), NEW r, Cut(q, r), NEW d, NEW n, Last(q, d, n)
  PROVE  Last(r, d, n)
<1>1. PICK k \in 0..Len(q) : Len(r) = k + 1 /\ r[k + 1] = Fin /\ \A i \in 1..k : r[i] = q[i]
  BY DEF Cut
<1>2. Fin.kind = "fin"
  BY DEF Fin, Frame
<1>3. ASSUME NEW i \in 1..Len(r), r[i].kind = "close"
      PROVE  i \in 1..Len(q) /\ \A j \in 1..i : r[j] = q[j]
  BY <1>1, <1>2, <1>3
<1>4. ASSUME NEW i \in 1..Len(r), r[i].kind = "close", NEW h \in (d + 1)..n PROVE Has(r, h, i)
  <2>1. i \in 1..Len(q) /\ \A j \in 1..i : r[j] = q[j]
    BY <1>3, <1>4
  <2>2. Has(q, h, i)
    BY <1>4, <2>1 DEF Last
  <2> QED
    BY <2>1, <2>2 DEF Has
<1> QED
  BY <1>4 DEF Last

(* one frame more, *)
LEMMA AppendedLast ==
  ASSUME NEW q \in Seq(Carried), NEW f, NEW d, NEW n, Last(q, d, n), f.kind = "close" => Full(q, d, n)
  PROVE  Last(Append(q, f), d, n)
<1>1. PICK r : r = Append(q, f)
  OBVIOUS
<1>2. Len(r) = Len(q) + 1 /\ Len(q) \in Nat /\ r[Len(r)] = f /\ \A i \in 1..Len(q) : r[i] = q[i]
  BY <1>1
<1>3. ASSUME NEW i \in 1..Len(r), r[i].kind = "close", NEW h \in (d + 1)..n PROVE Has(r, h, i)
  <2>1. PICK c \in 1..Len(q) : c <= i /\ Has(q, h, c)
    <3>1. CASE i = Len(r)
      <4>1. Has(q, h, Len(q))
        BY <1>2, <1>3, <3>1 DEF Full
      <4>2. Len(q) \in 1..Len(q)
        BY <1>2, <4>1 DEF Has
      <4> QED
        BY <1>2, <3>1, <4>1, <4>2
    <3>2. CASE i # Len(r)
      <4>1. i \in 1..Len(q) /\ q[i].kind = "close"
        BY <1>2, <1>3, <3>2
      <4> QED
        BY <4>1 DEF Last
    <3> QED
      BY <3>1, <3>2
  <2>2. \A j \in 1..c : j \in 1..i /\ r[j] = q[j]
    BY <1>2, <2>1
  <2> QED
    BY <2>1, <2>2 DEF Has
<1> QED
  BY <1>1, <1>3 DEF Last

(* a message or another frame less. *)
LEMMA TakenLast ==
  ASSUME NEW q \in Seq(Carried), q # <<>>, NEW d \in Nat, NEW n \in Nat, Last(q, d, n)
  PROVE  /\ Head(q).kind # "data" => Last(Tail(q), d, n)
         /\ Head(q).kind = "data" /\ Head(q).n = d + 1 => Last(Tail(q), d + 1, n)
         /\ Head(q).kind = "close" => d >= n
<1>1. PICK r : r = Tail(q)
  OBVIOUS
<1>2. Len(q) = Len(r) + 1 /\ Len(r) \in Nat /\ Head(q) = q[1] /\ \A i \in 1..Len(r) : r[i] = q[i + 1]
  BY <1>1
<1>3. ASSUME NEW k, NEW i \in 1..Len(r), Has(q, k, i + 1), ~(q[1].kind = "data" /\ q[1].n = k) PROVE Has(r, k, i)
  <2>1. PICK j \in 1..(i + 1) : q[j].kind = "data" /\ q[j].n = k
    BY <1>3 DEF Has
  <2>2. j - 1 \in 1..i /\ j - 1 \in 1..Len(r) /\ (j - 1) + 1 = j
    BY <1>2, <1>3, <2>1
  <2>3. r[j - 1] = q[j]
    BY <1>2, <2>2
  <2> QED
    BY <2>1, <2>2, <2>3 DEF Has
<1>4. ASSUME NEW i \in 1..Len(r), r[i].kind = "close", NEW k \in (d + 1)..n PROVE Has(q, k, i + 1)
  <2>1. i + 1 \in 1..Len(q) /\ q[i + 1].kind = "close"
    BY <1>2, <1>4
  <2> QED
    BY <2>1 DEF Last
<1>5. ASSUME q[1].kind # "data" PROVE Last(r, d, n)
  BY <1>3, <1>4, <1>5 DEF Last
<1>6. ASSUME q[1].kind = "data" /\ q[1].n = d + 1 PROVE Last(r, d + 1, n)
  <2>1. ASSUME NEW i \in 1..Len(r), r[i].kind = "close", NEW k \in ((d + 1) + 1)..n PROVE Has(r, k, i)
    <3>1. k \in (d + 1)..n /\ k # d + 1
      OBVIOUS
    <3>2. Has(q, k, i + 1)
      BY <1>4, <2>1, <3>1
    <3> QED
      BY <1>3, <1>6, <3>1, <3>2
  <2> QED
    BY <2>1 DEF Last
<1>7. ASSUME q[1].kind = "close" PROVE d >= n
  <2>1. CASE d < n
    <3>1. d + 1 \in (d + 1)..n /\ 1 \in 1..Len(q)
      BY <1>2, <2>1
    <3>2. Has(q, d + 1, 1)
      BY <1>7, <3>1 DEF Last
    <3> QED
      BY <1>7, <3>2 DEF Has
  <2> QED
    BY <2>1
<1> QED
  BY <1>1, <1>2, <1>5, <1>6, <1>7

(* What is cut off when a socket is finished keeps the close frame last.    *)
LEMMA CutsLast ==
  ASSUME NEW e \in Ends, NEW w, NEW v, NEW flow \in Flows, NEW g \in NetAfter(e, w, v, flow),
         NEW x \in Ends, NEW d, NEW n, Last(flow[x], d, n)
  PROVE  Last(g[x], d, n)
<1>1. Cut(flow[x], g[x]) \/ g[x] = <<>> \/ g[x] = flow[x]
  BY NetMoves, Peers
<1>2. flow[x] \in Seq(Carried)
  BY DEF Flows, Carried
<1>3. Last(<<>>, d, n)
  BY DEF Last
<1> QED
  BY <1>1, <1>2, <1>3, CutLast

(* Methods and reads *)
LEMMA TurnedLast ==
  ASSUME TypeOK, OutboxInv, DeliveryInv, LastInv, NEW e \in Ends, Turned(e)
  PROVE  LastInv'
<1>1. PICK v \in Endpoints, flow \in Flows :
        /\ ws' = [ws EXCEPT ![e] = v] /\ Alters(ws[e], v)
        /\ net' \in NetAfter(e, ws[e], v, flow) /\ sent' = sent
        /\ \/ Puts(e, flow)
           \/ Reads(ws[e]) /\ (Takes(e, flow) \/ Overtakes(e, v, flow))
        /\ \/ v.closeFrameReceived = ws[e].closeFrameReceived
           \/ Takes(e, flow) /\ Head(net[Peer(e)]).kind = "close"
  BY DEF Turned
<1> DEFINE x == Peer(e)
           d == Len(delivered[e])
           n == Len(sent[x])
           f == Head(net[x])
<1>2. /\ x \in Ends /\ x # e /\ Peer(x) = e /\ \A y \in Ends : y = e \/ y = x
      /\ net[e] \in Seq(Carried) /\ net[x] \in Seq(Carried) /\ net \in Flows
      /\ d \in Nat /\ n \in Nat /\ delivered[e] \in Seq(Nat)
  BY Peers DEF TypeOK, Carried, Flows
<1>3. /\ ws'[e] = v /\ ws'[x] = ws[x] /\ (ws[e].closeCalled => v.closeCalled)
  BY <1>1, <1>2, OthersStay DEF Alters
<1>4. ASSUME NEW y \in Ends, NEW i \in 1..Len(net'[y]), net'[y][i].kind = "close" PROVE ws'[y].closeCalled
  <2>1. PICK j \in 1..Len(net[y]) : net'[y][i] = net[y][j]
    BY <1>4, TurnedKeepsClose DEF NoNewClose
  <2>2. ws[y].closeCalled
    BY <1>4, <2>1 DEF LastInv
  <2> QED
    BY <1>2, <1>3, <2>2
<1>5. /\ Last(net'[e], Len(delivered'[x]), Len(sent'[e]))
      /\ ws'[x].closeFrameReceived => ws'[e].closeCalled /\ Len(delivered'[x]) = Len(sent'[e])
  <2>1. delivered'[x] = delivered[x]
    BY <1>1, <1>2 DEF Puts, Takes, Overtakes, TypeOK
  <2>2. Last(net[e], Len(delivered[x]), Len(sent[e]))
    BY DEF LastInv
  <2>3. Last(flow[e], Len(delivered[x]), Len(sent[e]))
    <3>1. CASE flow[e] = net[e]
      BY <2>2, <3>1
    <3>2. CASE flow[e] # net[e]
      <4>1. PICK h : h.kind # "close" /\ flow = [net EXCEPT ![e] = Append(@, h)]
        BY <1>1, <1>2, <3>2 DEF Puts, Takes, Overtakes, Flows
      <4>2. flow[e] = Append(net[e], h)
        BY <1>2, <4>1 DEF Flows
      <4> QED
        BY <1>2, <2>2, <4>1, <4>2, AppendedLast
    <3> QED
      BY <3>1, <3>2
  <2>4. Last(net'[e], Len(delivered[x]), Len(sent[e]))
    BY <1>1, <2>3, CutsLast
  <2> QED
    BY <1>1, <1>3, <2>1, <2>4 DEF LastInv
<1>6. /\ Last(net'[x], Len(delivered'[e]), Len(sent'[x]))
      /\ ws'[e].closeFrameReceived => ws'[x].closeCalled /\ Len(delivered'[e]) = Len(sent'[x])
  <2>1. /\ Last(net[x], d, n)
        /\ ws[e].closeFrameReceived => ws[x].closeCalled /\ d = n
        /\ \A i \in 1..Len(net[x]) : net[x][i].kind = "close" => ws[x].closeCalled
    BY <1>2 DEF LastInv
  <2>2. PICK m \in 0..n : InOrder(net[x], d, m)
    BY <1>2 DEF DeliveryInv, OutboxInv, Queued
  <2>3. CASE delivered'[e] = delivered[e] /\ Last(flow[x], d, n) /\ v.closeFrameReceived = ws[e].closeFrameReceived
    <3>1. Last(net'[x], d, n)
      BY <1>1, <1>2, <2>3, CutsLast
    <3> QED
      BY <1>1, <1>3, <2>1, <2>3, <3>1
  <2>4. CASE Puts(e, flow) /\ v.closeFrameReceived = ws[e].closeFrameReceived
    <3>1. flow[x] = net[x] /\ delivered'[e] = delivered[e]
      BY <1>2, <2>4 DEF Puts, Flows
    <3> QED
      BY <2>1, <2>3, <2>4, <3>1
  <2>5. CASE Takes(e, flow) /\ f.kind # "data"
    <3>1. flow[x] = Tail(net[x]) /\ delivered'[e] = delivered[e] /\ net[x] # <<>>
      BY <1>2, <2>5 DEF Takes, Flows
    <3>2. Last(flow[x], d, n) /\ (f.kind = "close" => d >= n)
      BY <1>2, <2>1, <2>5, <3>1, TakenLast
    <3>3. Last(net'[x], d, n)
      BY <1>1, <1>2, <3>2, CutsLast
    <3>4. v.closeFrameReceived => ws[x].closeCalled /\ d = n
      <4>1. CASE v.closeFrameReceived = ws[e].closeFrameReceived
        BY <2>1, <4>1
      <4>2. CASE f.kind = "close"
        <5>1. 1 \in 1..Len(net[x]) /\ net[x][1].kind = "close"
          BY <1>2, <3>1, <4>2
        <5>2. d >= n /\ d <= m
          BY <2>2, <3>2, <4>2 DEF InOrder
        <5> QED
          BY <1>2, <2>1, <2>2, <5>1, <5>2
      <4> QED
        BY <1>1, <4>1, <4>2
    <3> QED
      BY <1>1, <1>3, <3>1, <3>3, <3>4
  <2>6. CASE (Takes(e, flow) \/ Overtakes(e, v, flow)) /\ f.kind = "data"
    <3>1. net[x] # <<>> /\ delivered' = [delivered EXCEPT ![e] = Append(@, f.n)] /\ flow[x] \in {net[x], Tail(net[x])}
      BY <1>2, <2>6 DEF Takes, Overtakes, Flows
    <3>2. f.n = d + 1 /\ d + 1 <= m
      <4>1. m \in Nat
        BY <1>2, <2>2
      <4> QED
        BY <1>2, <2>2, <2>6, <3>1, <4>1, MessageTaken
    <3>3. Len(delivered'[e]) = d + 1
      <4>1. delivered'[e] = Append(delivered[e], d + 1) /\ d + 1 \in Nat
        BY <1>2, <3>1, <3>2 DEF TypeOK
      <4> QED
        BY <1>2, <4>1
    <3>4. ~ws[e].closeFrameReceived
      BY <1>2, <2>1, <2>2, <3>2
    <3>5. ~v.closeFrameReceived
      BY <1>1, <2>6, <3>4
    <3>6. Last(net[x], d + 1, n)
      <4>1. ASSUME NEW i \in 1..Len(net[x]), net[x][i].kind = "close", NEW k \in ((d + 1) + 1)..n
            PROVE  Has(net[x], k, i)
        <5>1. k \in (d + 1)..n
          BY <1>2
        <5> QED
          BY <2>1, <4>1, <5>1 DEF Last
      <4> QED
        BY <4>1 DEF Last
    <3>7. Last(Tail(net[x]), d + 1, n)
      BY <1>2, <2>1, <2>6, <3>1, <3>2, TakenLast
    <3>8. Last(net'[x], d + 1, n)
      <4>1. PICK k : k = d + 1
        OBVIOUS
      <4>2. Last(flow[x], k, n)
        BY <3>1, <3>6, <3>7, <4>1
      <4>3. Last(net'[x], k, n)
        BY <1>1, <1>2, <4>2, CutsLast
      <4> QED
        BY <4>1, <4>3
    <3> QED
      BY <1>1, <1>3, <3>3, <3>5, <3>8
  <2> QED
    BY <1>1, <2>4, <2>5, <2>6 DEF Overtakes
<1>7. ASSUME NEW y \in Ends
      PROVE  /\ \A i \in 1..Len(net'[y]) : net'[y][i].kind = "close" => ws'[y].closeCalled
             /\ Last(net'[y], Len(delivered'[Peer(y)]), Len(sent'[y]))
             /\ ws'[Peer(y)].closeFrameReceived => ws'[y].closeCalled /\ Len(delivered'[Peer(y)]) = Len(sent'[y])
  BY <1>2, <1>4, <1>5, <1>6
<1> QED
  BY <1>7 DEF LastInv

(* Who was given the close frame of the other end was given all messages    *)
(* sent before it, and nothing is delivered behind it.                     *)
LEMMA LastStep == TypeOK /\ CodesInv /\ OutboxInv /\ DeliveryInv /\ LastInv /\ [Next]_vars => LastInv'
<1> SUFFICES ASSUME TypeOK, CodesInv, OutboxInv, DeliveryInv, LastInv, [Next]_vars PROVE LastInv'
  OBVIOUS
<1>1. CASE UNCHANGED vars
  BY <1>1 DEF vars, LastInv
<1>2. CASE Next
  <2>1. PICK e \in Ends :
           \/ Turned(e)
           \/ UserSend(e) /\ \E v \in Endpoints : ws' = [ws EXCEPT ![e] = v] /\ Sends(e, v)
           \/ WriteMessage(e) /\ \E v \in Endpoints : ws' = [ws EXCEPT ![e] = v] /\ Writes(e, v)
           \/ WriteClose(e) /\ \E v \in Endpoints : ws' = [ws EXCEPT ![e] = v] /\ WritesClose(e, v)
           \/ SocketClosed(e) /\ \E v \in Endpoints : ws' = [ws EXCEPT ![e] = v] /\ Closes(e, v)
    BY <1>2, Actions
  <2>2. CASE Turned(e)
    BY <2>2, TurnedLast
  <2>3. CASE ~Turned(e)
    <3>1. PICK v \in Endpoints :
            /\ ws' = [ws EXCEPT ![e] = v]
            /\ \/ UserSend(e) /\ Sends(e, v)
               \/ Writes(e, v) /\ sent' = sent
               \/ WritesClose(e, v) /\ sent' = sent
               \/ Closes(e, v) /\ net' = net /\ sent' = sent
      BY <2>1, <2>3 DEF SocketClosed, WriteMessage, WriteClose
    <3>2. delivered' = delivered
      BY <2>1, <2>3 DEF UserSend, WriteMessage, WriteClose, SocketClosed
    <3> DEFINE w == ws[e]
               p == Peer(e)
               d == Len(delivered[p])
               n == Len(sent[e])
               f == Head(w.outbox)
    <3>3. /\ p \in Ends /\ p # e /\ Peer(p) = e /\ \A y \in Ends : y = e \/ y = p
          /\ net \in Flows /\ net[e] \in Seq(Carried) /\ net[p] \in Seq(Carried)
          /\ w \in Endpoints /\ d \in Nat /\ n \in Nat
      BY Peers DEF TypeOK, Flows, Carried
    <3>4. Queued(w, Written(w), n)
      BY DEF OutboxInv
    <3>5. ws'[e] = v /\ ws'[p] = ws[p] /\ v.closeCalled = w.closeCalled /\ v.closeFrameReceived = w.closeFrameReceived
      BY <3>1, <3>3, OthersStay DEF Sends, Writes, WritesClose, Closes, Keeps
    <3>6. /\ \A i \in 1..Len(net[e]) : net[e][i].kind = "close" => w.closeCalled
          /\ Last(net[e], d, n)
          /\ ws[p].closeFrameReceived => w.closeCalled /\ d = n
      BY DEF LastInv
    <3>7. sent' = sent \/ (~w.closeCalled /\ sent'[p] = sent[p])
      BY <3>1, <3>3 DEF UserSend, TypeOK
    <3>8. ASSUME NEW y \in Ends, NEW i \in 1..Len(net'[y]), net'[y][i].kind = "close" PROVE ws'[y].closeCalled
      <4>1. Sends(e, v) \/ Writes(e, v) \/ WritesClose(e, v) \/ (SocketClosed(e) /\ Closes(e, v)) \/ net' = net
        BY <3>1
      <4>2. CASE \E j \in 1..Len(net[y]) : net'[y][i] = net[y][j]
        <5>1. ws[y].closeCalled
          BY <3>8, <4>2 DEF LastInv
        <5> QED
          BY <3>3, <3>5, <5>1
      <4>3. CASE ~\E j \in 1..Len(net[y]) : net'[y][i] = net[y][j]
        <5>1. y = e /\ WritesClose(e, v)
          BY <3>8, <4>1, <4>3, WrittenClose
        <5>2. 1 \in 1..Len(w.outbox) /\ w.outbox[1].kind = "close"
          BY <5>1, HeadOfOutbox DEF WritesClose
        <5>3. w.closeCalled
          BY <5>2 DEF CodesInv
        <5> QED
          BY <3>5, <5>1, <5>3
      <4> QED
        BY <4>2, <4>3
    <3>9. ws'[p].closeFrameReceived => ws'[e].closeCalled /\ Len(delivered'[p]) = Len(sent'[e])
      BY <3>2, <3>5, <3>6, <3>7
    <3>10. Last(net'[e], d, Len(sent'[e]))
      <4>1. CASE UserSend(e) /\ Sends(e, v)
        <5>1. CASE sent' = sent
          BY <3>6, <4>1, <5>1 DEF Sends
        <5>2. CASE sent' # sent
          <6>1. \A i \in 1..Len(net[e]) : net[e][i].kind # "close"
            BY <3>6, <3>7, <5>2
          <6> QED
            BY <4>1, <6>1 DEF Sends, Last
        <5> QED
          BY <5>1, <5>2
      <4>2. CASE Writes(e, v) /\ sent' = sent
        <5>1. f.kind = "data" /\ (net'[e] = net[e] \/ net'[e] = Append(net[e], f))
          BY <3>3, <4>2 DEF Writes, Write, Flows
        <5> QED
          BY <3>3, <3>6, <4>2, <5>1, AppendedLast
      <4>3. CASE WritesClose(e, v) /\ sent' = sent
        <5>1. Written(w) = n
          BY <3>3, <3>4, <4>3, CloseQueues DEF WritesClose
        <5>2. f.kind = "close" /\ f \in Carried
          BY <4>3, HeadOfOutbox DEF WritesClose, Carried
        <5>3. PICK flow \in {net, Write(e, f)} : net' \in NetAfter(e, w, v, flow)
          BY <4>3 DEF WritesClose
        <5>4. flow \in Flows
          BY <3>3, <5>2, <5>3, WriteKeeps DEF Carried
        <5>5. Last(flow[e], d, n)
          <6>1. CASE Alive(w, ws[p])
            <7>1. Full(net[e], d, n)
              BY <3>3, <5>1, <6>1 DEF DeliveryInv
            <7>2. flow[e] = net[e] \/ flow[e] = Append(net[e], f)
              BY <3>3, <5>3 DEF Write, Flows
            <7> QED
              BY <3>3, <3>6, <7>1, <7>2, AppendedLast
          <6>2. CASE ~Alive(w, ws[p])
            BY <3>6, <5>3, <6>2 DEF Write, Alive
          <6> QED
            BY <6>1, <6>2
        <5> QED
          BY <4>3, <5>3, <5>4, <5>5, CutsLast
      <4>4. CASE Closes(e, v) /\ net' = net /\ sent' = sent
        BY <3>6, <4>4
      <4> QED
        BY <3>1, <4>1, <4>2, <4>3, <4>4
    <3>11. Last(net'[p], Len(delivered[e]), Len(sent'[p]))
      <4>1. Last(net[p], Len(delivered[e]), Len(sent[p])) /\ sent'[p] = sent[p]
        BY <3>3, <3>7 DEF LastInv
      <4>2. CASE WritesClose(e, v)
        <5>1. f \in Carried
          BY <4>2, HeadOfOutbox DEF WritesClose, Carried
        <5>2. PICK flow \in {net, Write(e, f)} : net' \in NetAfter(e, w, v, flow)
          BY <4>2 DEF WritesClose
        <5>3. flow \in Flows /\ flow[p] = net[p]
          <6>1. Write(e, f) \in Flows /\ Write(e, f) \in {net, [net EXCEPT ![e] = Append(@, f)]}
            BY <5>1, WriteKeeps DEF Carried
          <6> QED
            BY <3>3, <5>2, <6>1 DEF Flows
        <5> QED
          BY <3>3, <4>1, <5>2, <5>3, CutsLast
      <4>3. CASE ~WritesClose(e, v)
        <5>1. net'[p] = net[p]
          BY <3>1, <3>3, <4>3 DEF Sends, Writes, Write, Flows
        <5> QED
          BY <4>1, <5>1
      <4> QED
        BY <4>2, <4>3
    <3>12. ws'[e].closeFrameReceived => ws'[p].closeCalled /\ Len(delivered'[e]) = Len(sent'[p])
      <4>1. w.closeFrameReceived => ws[p].closeCalled /\ Len(delivered[e]) = Len(sent[p])
        BY <3>3 DEF LastInv
      <4> QED
        BY <3>2, <3>5, <3>7, <4>1
    <3>13. ASSUME NEW y \in Ends
           PROVE  /\ \A i \in 1..Len(net'[y]) : net'[y][i].kind = "close" => ws'[y].closeCalled
                  /\ Last(net'[y], Len(delivered'[Peer(y)]), Len(sent'[y]))
                  /\ ws'[Peer(y)].closeFrameReceived => ws'[y].closeCalled /\ Len(delivered'[Peer(y)]) = Len(sent'[y])
      <4>1. CASE y = e
        BY <3>2, <3>8, <3>9, <3>10, <4>1
      <4>2. CASE y = p
        BY <3>2, <3>3, <3>8, <3>11, <3>12, <4>2
      <4> QED
        BY <3>3, <4>1, <4>2
    <3> QED
      BY <3>13 DEF LastInv
  <2> QED
    BY <2>2, <2>3
<1> QED
  BY <1>1, <1>2

-----------------------------------------------------------------------------
(* Steps in which nothing fails -------------------------------------------*)
(* The fields the closing handshake does not touch. *)
Rests(w, v) == v.closeFrameSent = w.closeFrameSent /\ v.errors = w.errors /\ v.closed = w.closed

Same(w, v) ==
  /\ Rests(w, v)
  /\ v.readyState = w.readyState /\ v.closeCalled = w.closeCalled /\ v.closeFrameReceived = w.closeFrameReceived
  /\ v.closeCode = w.closeCode /\ v.writerChecks = w.writerChecks /\ v.readerChecks = w.readerChecks
  /\ v.waiting = w.waiting /\ v.outbox = w.outbox

(* The first call of close() *)
Calls(e, w, v, by, code) ==
  /\ Rests(w, v) /\ v.io = w.io
  /\ ~w.closeCalled /\ v.closeCalled /\ v.readyState = "closing"
  /\ v.readerChecks = (w.readerChecks /\ e = "client")
  /\ v.waiting = [by |-> by, code |-> code] /\ v.outbox = Append(w.outbox, Frame("close", code))

(* The close frame is accepted by the reader: the first one. *)
Answers(e, w, v, code) ==
  /\ ~w.closeFrameReceived /\ v.closeFrameReceived /\ v.closeCode = code /\ ~v.writerChecks
  /\ \/ Calls(e, w, v, "reply", code)
     \/ /\ Rests(w, v) /\ w.closeCalled /\ v.closeCalled /\ v.readyState = "closing"
        /\ v.readerChecks = w.readerChecks /\ v.waiting = w.waiting /\ v.outbox = w.outbox
        /\ v.io = IF e = "server" /\ w.io = "open" THEN "ended" ELSE w.io

(* The first call of close() is what it is described to be above. *)
LEMMA CallIs ==
  ASSUME NEW w \in Endpoints, ~w.closeCalled, NEW e \in Ends, NEW by \in Waits, NEW code \in Codes
  PROVE  \E v \in Endpoints :
           /\ v = Close(e, w, by, code) /\ Calls(e, w, v, by, code)
           /\ v.closeFrameReceived = w.closeFrameReceived /\ v.closeCode = w.closeCode
           /\ v.writerChecks = w.writerChecks
<1>1. PICK a : a = [by |-> by, code |-> code]
  OBVIOUS
<1>2. PICK o : o = Append(w.outbox, Frame("close", code))
  OBVIOUS
<1>3. PICK r \in BOOLEAN : r = (w.readerChecks /\ e = "client")
  OBVIOUS
<1>4. PICK v : v = [w EXCEPT !.closeCalled = TRUE, !.readyState = "closing", !.readerChecks = r,
                             !.forcedTimer = TRUE, !.waiting = a, !.outbox = o]
  OBVIOUS
<1>5. v = Close(e, w, by, code)
  <2>1. PICK u : u = [w EXCEPT !.closeCalled = TRUE, !.readyState = "closing", !.readerChecks = r]
    OBVIOUS
  <2>2. PICK t : t = [u EXCEPT !.forcedTimer = TRUE]
    OBVIOUS
  <2>3. t.outbox = w.outbox
    BY <2>1, <2>2 DEF Endpoints
  <2>4. v = [t EXCEPT !.waiting = a, !.outbox = o]
    BY <1>4, <2>1, <2>2 DEF Endpoints
  <2>5. t = StartForcedTimer([w EXCEPT !.closeCalled = TRUE, !.readyState = "closing",
                                       !.readerChecks = @ /\ e = "client"])
    BY <1>3, <2>1, <2>2 DEF StartForcedTimer
  <2>6. Close(e, w, by, code) = QueueClose(t, by, code)
    BY <2>5 DEF Close
  <2> QED
    BY <1>1, <1>2, <2>3, <2>4, <2>6 DEF QueueClose
<1>6. v \in Endpoints
  BY <1>5, QueueTurns
<1>7. /\ Rests(w, v) /\ v.io = w.io /\ v.closeCalled /\ v.readyState = "closing"
      /\ v.readerChecks = r /\ v.waiting = a /\ v.outbox = o
      /\ v.closeFrameReceived = w.closeFrameReceived /\ v.closeCode = w.closeCode
      /\ v.writerChecks = w.writerChecks
  BY <1>4 DEF Rests, Endpoints
<1> QED
  BY <1>1, <1>2, <1>3, <1>5, <1>6, <1>7 DEF Calls

(* So is a close frame the reader accepts. *)
LEMMA AnswerIs ==
  ASSUME NEW w \in Endpoints, ~w.closeFrameReceived, NEW e \in Ends, NEW code \in Codes,
         ~(w.readerChecks /\ ~MayReceive(e, code))
  PROVE  \E v \in Endpoints : v = HandleCloseFrame(e, w, code) /\ Answers(e, w, v, code)
<1>1. PICK u : u = [w EXCEPT !.closeFrameReceived = TRUE, !.readyState = "closing",
                             !.closeCode = code, !.writerChecks = FALSE]
  OBVIOUS
<1>2. u \in Endpoints
  BY <1>1 DEF Endpoints
<1>3. /\ Rests(w, u) /\ u.io = w.io /\ u.closeCalled = w.closeCalled /\ u.closeFrameReceived
      /\ u.readyState = "closing" /\ u.closeCode = code /\ ~u.writerChecks
      /\ u.readerChecks = w.readerChecks /\ u.waiting = w.waiting /\ u.outbox = w.outbox
  BY <1>1 DEF Rests, Endpoints
<1>4. HandleCloseFrame(e, w, code) = Close(e, u, "reply", code)
  BY <1>1 DEF HandleCloseFrame, ReceiveClose
<1>5. "reply" \in Waits
  BY DEF Waits
<1>6. CASE ~w.closeCalled
  <2>1. PICK v \in Endpoints :
          /\ v = Close(e, u, "reply", code) /\ Calls(e, u, v, "reply", code)
          /\ v.closeFrameReceived = u.closeFrameReceived /\ v.closeCode = u.closeCode
          /\ v.writerChecks = u.writerChecks
    BY <1>2, <1>3, <1>5, <1>6, CallIs
  <2>2. Calls(e, w, v, "reply", code)
    BY <1>3, <1>6, <2>1 DEF Calls, Rests
  <2> QED
    BY <1>3, <1>4, <2>1, <2>2 DEF Answers
<1>7. CASE w.closeCalled
  <2>1. Close(e, u, "reply", code) = Resume(e, u, "reply", code)
    BY <1>3, <1>7 DEF Close
  <2>2. PICK v : v = IF e = "server" THEN EndSocket(u) ELSE u
    OBVIOUS
  <2>3. v = HandleCloseFrame(e, w, code)
    BY <1>4, <2>1, <2>2 DEF Resume
  <2>4. v \in Endpoints
    BY <1>2, <2>2, EndTurns
  <2>5. v = u \/ v = [u EXCEPT !.io = "ended"]
    BY <2>2 DEF EndSocket
  <2>6. v.io = IF e = "server" /\ u.io = "open" THEN "ended" ELSE u.io
    BY <1>2, <2>2 DEF EndSocket, Endpoints
  <2>7. /\ Rests(u, v) /\ v.closeCalled = u.closeCalled /\ v.closeFrameReceived = u.closeFrameReceived
        /\ v.readyState = u.readyState /\ v.closeCode = u.closeCode /\ v.writerChecks = u.writerChecks
        /\ v.readerChecks = u.readerChecks /\ v.waiting = u.waiting /\ v.outbox = u.outbox
    BY <1>2, <2>5 DEF Rests, Endpoints
  <2>8. /\ Rests(w, v) /\ v.closeCalled /\ v.closeFrameReceived /\ v.readyState = "closing"
        /\ v.closeCode = code /\ ~v.writerChecks
        /\ v.readerChecks = w.readerChecks /\ v.waiting = w.waiting /\ v.outbox = w.outbox
    BY <1>3, <1>7, <2>7 DEF Rests
  <2>9. v.io = IF e = "server" /\ w.io = "open" THEN "ended" ELSE w.io
    BY <1>3, <2>6
  <2> QED
    BY <1>7, <2>3, <2>4, <2>8, <2>9 DEF Answers
<1> QED
  BY <1>6, <1>7

(* destroy() of a socket that is still read *)
LEMMA DestroyIs ==
  ASSUME NEW w \in Endpoints, Reads(w)
  PROVE  \E v \in Endpoints : v = Destroy(w) /\ Same(w, v) /\ v.io = "destroyed"
<1>1. PICK v : v = [w EXCEPT !.io = "destroyed"]
  OBVIOUS
<1>2. v \in Endpoints
  BY <1>1 DEF Endpoints
<1>3. Same(w, v) /\ v.io = "destroyed"
  BY <1>1 DEF Same, Rests, Endpoints
<1> QED
  BY <1>1, <1>2, <1>3 DEF Destroy

(* What a step without a failure is for the closing handshake: nothing ...  *)
Idles(e, v) ==
  /\ Same(ws[e], v) /\ v.io = ws[e].io /\ closers' = closers
  /\ \/ net' = net
     \/ \E f \in Frames({"data", "ping", "pong"}) : net' = [net EXCEPT ![e] = Append(@, f)]
     \/ /\ net[Peer(e)] # <<>> /\ net' = [net EXCEPT ![Peer(e)] = Tail(@)]
        /\ \/ Head(net[Peer(e)]).kind \in {"data", "ping", "pong"}
           \/ Head(net[Peer(e)]).kind = "close" /\ ws[e].closeFrameReceived

(* ... a call of close() by the owner ...                                  *)
Begins(e, v) ==
  \E code \in UserCodes :
    /\ Calls(e, ws[e], v, "user", code) /\ net' = net
    /\ v.closeFrameReceived = ws[e].closeFrameReceived /\ v.closeCode = ws[e].closeCode
    /\ v.writerChecks = ws[e].writerChecks
    /\ closers' = closers \cup {[end |-> e, code |-> code]}

(* ... a close frame, which the reader may refuse, as it refuses garbage ...*)
Accepts(e, v) ==
  LET f == Head(net[Peer(e)])
  IN  /\ Reads(ws[e]) /\ net[Peer(e)] # <<>> /\ f.kind = "close" /\ closers' = closers
      /\ ~(ws[e].readerChecks /\ ~MayReceive(e, f.n))
      /\ Answers(e, ws[e], v, f.n)
      /\ net' \in NetAfter(e, ws[e], v, [net EXCEPT ![Peer(e)] = Tail(@)])

Refuses(e, v) ==
  LET f == Head(net[Peer(e)])
  IN  /\ Reads(ws[e]) /\ net[Peer(e)] # <<>> /\ closers' = closers /\ v.closeCalled
      /\ v.readyState \in {ws[e].readyState, "closing"} /\ (ws[e].io # "open" => v.io # "open")
      /\ \/ f.kind = "close" /\ ws[e].readerChecks /\ ~MayReceive(e, f.n)
         \/ f.kind = "garbage"
      /\ net' \in NetAfter(e, ws[e], v, [net EXCEPT ![Peer(e)] = Tail(@)])

(* ... or the end of the connection.                                       *)
Finishes(e, v) ==
  /\ Reads(ws[e]) /\ Same(ws[e], v) /\ v.io = "destroyed" /\ closers' = closers
  /\ \/ ~Reads(ws[Peer(e)])
     \/ \E i \in 1..Len(net[Peer(e)]) : net[Peer(e)][i].kind = "fin" /\ (i = 1 \/ Compression)
  /\ \E flow : /\ flow = net \/ (net[Peer(e)] # <<>> /\ flow = [net EXCEPT ![Peer(e)] = Tail(@)])
               /\ net' \in NetAfter(e, ws[e], v, flow)

(* Pings and pongs leave the closing handshake alone. *)
LEMMA IdleIs ==
  ASSUME TypeOK, NEW e \in Ends, Ping(e) \/ GrantPing(e) \/ WriteControl(e)
  PROVE  \E v \in Endpoints : ws' = [ws EXCEPT ![e] = v] /\ Idles(e, v)
<1> DEFINE w == ws[e]
<1>1. w \in Endpoints
  BY DEF TypeOK
<1>2. PICK v : v = ws'[e]
  OBVIOUS
<1>3. CASE Ping(e)
  <2>1. PICK a \in Nat : a = w.pings + 1
    BY <1>1 DEF Endpoints
  <2>2. PICK b \in Nat : b = w.pingQueue + 1
    BY <1>1 DEF Endpoints
  <2>3. PICK u : u = [w EXCEPT !.pings = a, !.pingQueue = b]
    OBVIOUS
  <2>4. u \in Endpoints /\ Same(w, u) /\ u.io = w.io
    BY <1>1, <2>3 DEF Endpoints, Same, Rests
  <2>5. ws' = [ws EXCEPT ![e] = u] /\ closers' = closers /\ net' = net
    BY <1>1, <1>3, <2>1, <2>2, <2>3 DEF Ping, TypeOK
  <2> QED
    BY <2>4, <2>5 DEF Idles
<1>4. CASE GrantPing(e)
  <2>1. PICK b \in Nat : b = w.pingQueue - 1
    BY <1>1, <1>4 DEF GrantPing, Endpoints
  <2>2. PICK f : f = Frame("ping", 0)
    OBVIOUS
  <2>3. f \in Frames({"ping", "pong"})
    BY <2>2 DEF Frame, Frames
  <2>4. PICK c : c = Append(w.control, f)
    OBVIOUS
  <2>5. c \in Seq(Frames({"ping", "pong"}))
    BY <1>1, <2>3, <2>4 DEF Endpoints
  <2>6. PICK u : u = IF w.readyState # "open" THEN [w EXCEPT !.pingQueue = b]
                     ELSE [w EXCEPT !.pingQueue = b, !.ping = "sending", !.control = c]
    OBVIOUS
  <2>7. u \in Endpoints
    BY <1>1, <2>5, <2>6 DEF Endpoints
  <2>8. Same(w, u) /\ u.io = w.io
    BY <1>1, <2>6 DEF Endpoints, Same, Rests
  <2>9. ws' = [ws EXCEPT ![e] = u] /\ closers' = closers /\ net' = net
    BY <1>1, <1>4, <2>1, <2>2, <2>4, <2>6 DEF GrantPing, TypeOK
  <2> QED
    BY <2>7, <2>8, <2>9 DEF Idles
<1>5. CASE WriteControl(e)
  <2>1. PICK f : f = Head(w.control)
    OBVIOUS
  <2>2. f \in Frames({"ping", "pong"})
    BY <1>1, <1>5, <2>1 DEF WriteControl, Endpoints
  <2>3. f \in Frames({"data", "ping", "pong"})
    BY <2>2 DEF Frames
  <2>4. PICK c : c = Tail(w.control)
    OBVIOUS
  <2>5. c \in Seq(Frames({"ping", "pong"}))
    BY <1>1, <1>5, <2>4 DEF WriteControl, Endpoints
  <2>6. PICK s \in BOOLEAN : s = (w.io # "open")
    OBVIOUS
  <2>7. PICK p \in BOOLEAN : p = (w.pongTimer \/ f.kind = "ping")
    OBVIOUS
  <2>8. PICK g \in {"idle", "sending", "waiting"} : g = IF f.kind = "ping" THEN "waiting" ELSE w.ping
    BY <1>1 DEF Endpoints
  <2>9. PICK u : u = [w EXCEPT !.control = c, !.stuck = s, !.ping = g, !.pongTimer = p]
    OBVIOUS
  <2>10. u \in Endpoints
    BY <1>1, <2>5, <2>9 DEF Endpoints
  <2>11. Same(w, u) /\ u.io = w.io
    BY <1>1, <2>9 DEF Endpoints, Same, Rests
  <2>12. ws' = [ws EXCEPT ![e] = u]
    BY <1>1, <1>5, <2>1, <2>4, <2>6, <2>7, <2>8, <2>9 DEF WriteControl, TypeOK
  <2>13. closers' = closers /\ net' \in {net, [net EXCEPT ![e] = Append(@, f)]}
    BY <1>5, <2>1 DEF WriteControl, Write
  <2> QED
    BY <2>3, <2>10, <2>11, <2>12, <2>13 DEF Idles
<1> QED
  BY <1>3, <1>4, <1>5

(* A frame that is read is one of the four. *)
LEMMA ReceiveIs ==
  ASSUME TypeOK, CodesInv, NEW e \in Ends, Receive(e)
  PROVE  \E v \in Endpoints : /\ ws' = [ws EXCEPT ![e] = v]
                              /\ Idles(e, v) \/ Accepts(e, v) \/ Refuses(e, v) \/ Finishes(e, v)
<1> DEFINE w == ws[e]
           p == Peer(e)
           f == Head(net[p])
           rest == [net EXCEPT ![p] = Tail(@)]
<1>1. /\ w \in Endpoints /\ p \in Ends /\ net \in Flows /\ net[p] # <<>> /\ Reads(w) /\ closers' = closers
      /\ f = net[p][1] /\ 1 \in 1..Len(net[p]) /\ f \in Frames({"data", "ping", "pong", "close", "garbage", "fin"})
  BY Peers DEF TypeOK, Flows, Receive
<1>2. f.kind = "close" => f.n \in Codes
  BY <1>1 DEF CodesInv
<1>3. PICK v : v = CASE f.kind = "data" -> w
                     [] f.kind = "ping" -> ReceivePing(w)
                     [] f.kind = "pong" -> ReceivePong(w)
                     [] f.kind = "close" -> HandleCloseFrame(e, w, f.n)
                     [] f.kind = "garbage" -> ReaderError(e, w, 1002)
                     [] f.kind = "fin" -> Destroy(w)
  OBVIOUS
<1>4. ws' = [ws EXCEPT ![e] = v] /\ net' \in NetAfter(e, w, v, rest)
  BY <1>3 DEF Receive, Becomes
<1>5. ASSUME v \in Endpoints, Same(w, v), v.io = w.io,
             f.kind \in {"data", "ping", "pong"} \/ (f.kind = "close" /\ w.closeFrameReceived)
      PROVE  Idles(e, v)
  <2>1. NetAfter(e, w, v, rest) = {rest}
    BY <1>5 DEF NetAfter, Reads
  <2> QED
    BY <1>1, <1>4, <1>5, <2>1 DEF Idles
<1>6. CASE f.kind = "data" \/ (f.kind = "close" /\ w.closeFrameReceived /\ ~(w.readerChecks /\ ~MayReceive(e, f.n)))
  <2>1. v = w
    BY <1>3, <1>6 DEF HandleCloseFrame, ReceiveClose
  <2> QED
    BY <1>1, <1>4, <1>5, <1>6, <2>1 DEF Same, Rests
<1>7. CASE f.kind = "ping"
  <2>1. PICK c : c = Append(w.control, Frame("pong", 0))
    OBVIOUS
  <2>2. c \in Seq(Frames({"ping", "pong"}))
    <3>1. Frame("pong", 0) \in Frames({"ping", "pong"})
      BY DEF Frame, Frames
    <3> QED
      BY <1>1, <2>1, <3>1 DEF Endpoints
  <2>3. PICK u : u = [w EXCEPT !.control = c]
    OBVIOUS
  <2>4. u \in Endpoints
    BY <1>1, <2>2, <2>3 DEF Endpoints
  <2>5. Same(w, u) /\ u.io = w.io /\ Same(w, w)
    BY <1>1, <2>3 DEF Endpoints, Same, Rests
  <2>6. v = u \/ v = w
    BY <1>3, <1>7, <2>1, <2>3 DEF ReceivePing
  <2> QED
    BY <1>1, <1>4, <1>5, <1>7, <2>4, <2>5, <2>6
<1>8. CASE f.kind = "pong"
  <2>1. PICK u : u = [w EXCEPT !.ping = "idle", !.pongTimer = FALSE]
    OBVIOUS
  <2>2. u \in Endpoints
    BY <1>1, <2>1 DEF Endpoints
  <2>3. Same(w, u) /\ u.io = w.io /\ Same(w, w)
    BY <1>1, <2>1 DEF Endpoints, Same, Rests
  <2>4. v = u \/ v = w
    BY <1>3, <1>8, <2>1 DEF ReceivePong
  <2> QED
    BY <1>1, <1>4, <1>5, <1>8, <2>2, <2>3, <2>4
<1>9. CASE f.kind = "close" /\ w.readerChecks /\ ~MayReceive(e, f.n)
  <2>1. v = ReaderError(e, w, 1002)
    BY <1>3, <1>9 DEF HandleCloseFrame
  <2>2. /\ v \in Endpoints /\ v.closeCalled /\ v.readyState \in {w.readyState, "closing"}
        /\ w.io # "open" => v.io # "open"
    <3>1. w \in Endpoints
      BY <1>1
    <3>2. v \in Endpoints /\ v.closeCalled /\ Turns(w, v)
      BY <2>1, <3>1, CodesSet, ReaderErrorTurns
    <3> QED
      BY <3>2 DEF Turns, Alters
  <2> QED
    BY <1>1, <1>4, <1>9, <2>2 DEF Refuses
<1>10. CASE f.kind = "close" /\ ~(w.readerChecks /\ ~MayReceive(e, f.n)) /\ ~w.closeFrameReceived
  <2>1. v = HandleCloseFrame(e, w, f.n)
    BY <1>3, <1>10
  <2>2. v \in Endpoints /\ Answers(e, w, v, f.n)
    BY <1>1, <1>2, <1>10, <2>1, AnswerIs
  <2> QED
    BY <1>1, <1>4, <1>10, <2>2 DEF Accepts
<1>11. CASE f.kind = "garbage"
  <2>1. v = ReaderError(e, w, 1002)
    BY <1>3, <1>11
  <2>2. /\ v \in Endpoints /\ v.closeCalled /\ v.readyState \in {w.readyState, "closing"}
        /\ w.io # "open" => v.io # "open"
    <3>1. w \in Endpoints
      BY <1>1
    <3>2. v \in Endpoints /\ v.closeCalled /\ Turns(w, v)
      BY <2>1, <3>1, CodesSet, ReaderErrorTurns
    <3> QED
      BY <3>2 DEF Turns, Alters
  <2> QED
    BY <1>1, <1>4, <1>11, <2>2 DEF Refuses
<1>12. CASE f.kind = "fin"
  <2>1. v = Destroy(w)
    BY <1>3, <1>12
  <2>2. v \in Endpoints /\ Same(w, v) /\ v.io = "destroyed"
    BY <1>1, <2>1, DestroyIs
  <2> QED
    BY <1>1, <1>4, <1>12, <2>2 DEF Finishes
<1> QED
  <2>1. f.kind \in {"data", "ping", "pong", "close", "garbage", "fin"}
    BY <1>1 DEF Frames
  <2> QED
    BY <2>1, <1>6, <1>7, <1>8, <1>9, <1>10, <1>11, <1>12

(* The close frame is written, or found that it cannot be: close() returns. *)
Concludes(e, v) ==
  LET w == ws[e]
      f == Head(w.outbox)
  IN  /\ w.outbox # <<>> /\ f.kind = "close" /\ (w.io = "open" /\ w.writerChecks => MaySend(e, f.n))
      /\ Holds(w.outbox, v.outbox) /\ v.waiting.by = "none" /\ v.closeFrameSent = (w.io = "open")
      /\ v.errors = w.errors /\ v.closed = w.closed /\ v.readyState = w.readyState
      /\ v.closeCalled = w.closeCalled /\ v.closeFrameReceived = w.closeFrameReceived
      /\ v.writerChecks = w.writerChecks /\ v.readerChecks = w.readerChecks
      /\ \/ w.waiting.by = "error" /\ v.io = IF Reads(w) THEN "destroyed" ELSE w.io
         \/ /\ v.closeCode = w.closeCode
            /\ v.io = IF w.waiting.by = "reply" /\ e = "server" /\ w.io = "open" THEN "ended" ELSE w.io
      /\ closers' = closers
      /\ closeWritten' = IF w.io = "open" THEN closeWritten \cup {e} ELSE closeWritten
      /\ net' \in NetAfter(e, w, v, Write(e, f))

(* That is all WriteClose does unless the code is refused. *)
LEMMA ConcludeIs ==
  ASSUME TypeOK, CodesInv, NEW e \in Ends, WriteClose(e), ~faulty'
  PROVE  \E v \in Endpoints : ws' = [ws EXCEPT ![e] = v] /\ Concludes(e, v)
<1> DEFINE w == ws[e]
           f == Head(w.outbox)
<1>1. w \in Endpoints
  BY DEF TypeOK
<1>2. w.outbox # <<>> /\ f.kind = "close" /\ closers' = closers /\ ~(w.io = "open" /\ w.writerChecks /\ ~MaySend(e, f.n))
  BY DEF WriteClose
<1>3. PICK o : o = KeepsLock(w.outbox)
  OBVIOUS
<1>4. o \in Seq(Frames({"data", "close", "held"})) /\ Holds(w.outbox, o)
  BY <1>1, <1>2, <1>3, LockHolds
<1>5. PICK a : a = [by |-> "none", code |-> 0]
  OBVIOUS
<1>6. a \in [by : Waits, code : Codes \cup {0}] /\ a.by = "none"
  BY <1>5 DEF Waits
<1>7. PICK b \in BOOLEAN : b = (w.io = "open")
  OBVIOUS
<1>8. PICK u : u = [w EXCEPT !.outbox = o, !.waiting = a]
  OBVIOUS
<1>9. PICK t : t = [u EXCEPT !.closeFrameSent = b]
  OBVIOUS
<1>10. /\ t \in Endpoints /\ t.outbox = o /\ t.waiting = a /\ t.closeFrameSent = b /\ t.io = w.io
       /\ t.errors = w.errors /\ t.closed = w.closed /\ t.readyState = w.readyState /\ t.closeCode = w.closeCode
       /\ t.closeCalled = w.closeCalled /\ t.closeFrameReceived = w.closeFrameReceived
       /\ t.writerChecks = w.writerChecks /\ t.readerChecks = w.readerChecks /\ u.io = w.io /\ u.writerChecks = w.writerChecks
  BY <1>1, <1>4, <1>6, <1>8, <1>9 DEF Endpoints
<1>11. PICK v : v = Resume(e, t, w.waiting.by, w.waiting.code)
  OBVIOUS
<1>12. w.waiting.by = "error" => w.waiting.code \in Codes
  BY DEF CodesInv
<1>13. v \in Endpoints /\ Turns(t, v)
  BY <1>10, <1>11, <1>12, ResumeTurns
<1>14. /\ Becomes(e, v, Write(e, f))
       /\ closeWritten' = IF w.io = "open" THEN closeWritten \cup {e} ELSE closeWritten
  BY <1>2, <1>3, <1>5, <1>7, <1>8, <1>9, <1>10, <1>11 DEF WriteClose, CloseIsSent
<1>15. /\ v.outbox = o /\ v.waiting = a /\ v.closeFrameSent = b /\ v.errors = w.errors /\ v.closed = w.closed
       /\ v.readyState = w.readyState /\ v.closeCalled = w.closeCalled
       /\ v.closeFrameReceived = w.closeFrameReceived
       /\ v.writerChecks = w.writerChecks /\ v.readerChecks = w.readerChecks
  <2>1. v = t \/ v = EndSocket(t) \/ \E c : v = Destroy([t EXCEPT !.closeCode = c])
    BY <1>11 DEF Resume
  <2>2. \/ v = t \/ v = [t EXCEPT !.io = "ended"]
        \/ \E c : v = [t EXCEPT !.closeCode = c] \/ v = [[t EXCEPT !.closeCode = c] EXCEPT !.io = "destroyed"]
    BY <2>1 DEF EndSocket, Destroy
  <2>3. CASE v = t
    BY <1>10, <2>3
  <2>4. CASE v = [t EXCEPT !.io = "ended"]
    BY <1>10, <2>4 DEF Endpoints
  <2>5. ASSUME NEW c, v = [t EXCEPT !.closeCode = c] \/ v = [[t EXCEPT !.closeCode = c] EXCEPT !.io = "destroyed"]
        PROVE  /\ v.outbox = t.outbox /\ v.waiting = t.waiting /\ v.closeFrameSent = t.closeFrameSent
               /\ v.errors = t.errors /\ v.closed = t.closed
               /\ v.readyState = t.readyState /\ v.closeCalled = t.closeCalled
               /\ v.closeFrameReceived = t.closeFrameReceived
               /\ v.writerChecks = t.writerChecks /\ v.readerChecks = t.readerChecks
    BY <1>10, <2>5 DEF Endpoints
  <2> QED
    BY <1>10, <2>2, <2>3, <2>4, <2>5
<1>16. \/ w.waiting.by = "error" /\ v.io = IF Reads(w) THEN "destroyed" ELSE w.io
       \/ /\ v.closeCode = w.closeCode
          /\ v.io = IF w.waiting.by = "reply" /\ e = "server" /\ w.io = "open" THEN "ended" ELSE w.io
  <2>1. CASE w.waiting.by = "reply" /\ e = "server"
    <3>1. v = EndSocket(t)
      BY <1>11, <2>1 DEF Resume
    <3>2. v = IF t.io = "open" THEN [t EXCEPT !.io = "ended"] ELSE t
      BY <3>1 DEF EndSocket
    <3> QED
      BY <1>10, <2>1, <3>2 DEF Endpoints
  <2>2. CASE w.waiting.by # "error" /\ ~(w.waiting.by = "reply" /\ e = "server")
    <3>1. v = t
      BY <1>11, <2>2 DEF Resume
    <3> QED
      BY <1>10, <2>2, <3>1
  <2>3. CASE w.waiting.by = "error"
    <3>1. PICK s : s = [t EXCEPT !.closeCode = w.waiting.code]
      OBVIOUS
    <3>2. s \in Endpoints /\ s.io = w.io
      BY <1>10, <1>12, <2>3, <3>1 DEF Endpoints
    <3>3. v = IF Reads(s) THEN [s EXCEPT !.io = "destroyed"] ELSE s
      BY <1>11, <2>3, <3>1 DEF Resume, Destroy
    <3> QED
      BY <2>3, <3>2, <3>3 DEF Endpoints, Reads
  <2> QED
    BY <2>1, <2>2, <2>3
<1> QED
  BY <1>2, <1>4, <1>6, <1>7, <1>13, <1>14, <1>15, <1>16 DEF Concludes, Becomes

(* A step that leaves no failure behind *)
Calm(e, v) ==
  /\ ws' = [ws EXCEPT ![e] = v]
  /\ \/ /\ closeWritten' = closeWritten
        /\ \/ Idles(e, v) \/ Begins(e, v) \/ Accepts(e, v) \/ Refuses(e, v) \/ Finishes(e, v)
           \/ closers' = closers /\ (Sends(e, v) \/ Writes(e, v) \/ (Closes(e, v) /\ net' = net))
     \/ Concludes(e, v)

(* Every such step is one of these. *)
LEMMA CalmSteps ==
  ASSUME TypeOK, CodesInv, Next, ~faulty'
  PROVE  \E e \in Ends : \E v \in Endpoints : Calm(e, v)
<1>1. PICK e \in Ends :
         \/ UserSend(e) \/ UserClose(e) \/ Ping(e) \/ GrantPing(e) \/ Garbage(e) \/ Drop(e)
         \/ WriteMessage(e) \/ WriteClose(e) \/ WriteControl(e)
         \/ Receive(e) \/ EndOvertakes(e) \/ Reset(e) \/ SocketError(e) \/ SocketClosed(e)
         \/ ForcedTermination(e) \/ PongTimeout(e)
  BY DEF Next
<1> DEFINE w == ws[e]
           p == Peer(e)
<1>2. w \in Endpoints /\ p \in Ends /\ net \in Flows
  BY Peers DEF TypeOK, Flows
<1>3. CASE Ping(e) \/ GrantPing(e) \/ WriteControl(e)
  BY <1>3, IdleIs DEF Calm, Ping, GrantPing, WriteControl
<1>4. CASE Receive(e)
  BY <1>4, ReceiveIs DEF Calm, Receive
<1>5. CASE UserClose(e)
  <2>1. PICK code \in UserCodes :
          /\ ~w.closeCalled /\ Becomes(e, Close(e, w, "user", code), net)
          /\ closers' = closers \cup {[end |-> e, code |-> code]} /\ closeWritten' = closeWritten
    BY <1>5 DEF UserClose
  <2>2. code \in Codes /\ "user" \in Waits
    BY DEF Codes, Waits
  <2>3. PICK v \in Endpoints :
          /\ v = Close(e, w, "user", code) /\ Calls(e, w, v, "user", code)
          /\ v.closeFrameReceived = w.closeFrameReceived /\ v.closeCode = w.closeCode
          /\ v.writerChecks = w.writerChecks
    BY <1>2, <2>1, <2>2, CallIs
  <2>4. ws' = [ws EXCEPT ![e] = v] /\ net' \in NetAfter(e, w, v, net)
    BY <2>1, <2>3 DEF Becomes
  <2>5. net' = net
    BY <2>3, <2>4 DEF Calls, NetAfter, Reads
  <2>6. Begins(e, v)
    BY <2>1, <2>3, <2>5 DEF Begins
  <2> QED
    BY <2>1, <2>4, <2>6 DEF Calm
<1>6. CASE EndOvertakes(e)
  <2>1. /\ Compression /\ Reads(w) /\ closers' = closers /\ closeWritten' = closeWritten
        /\ net[p] # <<>> /\ net[p][Len(net[p])] = Fin /\ Becomes(e, Destroy(w), net)
    BY <1>6 DEF EndOvertakes
  <2>2. PICK v \in Endpoints : v = Destroy(w) /\ Same(w, v) /\ v.io = "destroyed"
    BY <1>2, <2>1, DestroyIs
  <2>3. Len(net[p]) \in 1..Len(net[p]) /\ net[p][Len(net[p])].kind = "fin"
    BY <1>2, <2>1 DEF Flows, Fin, Frame
  <2>4. Finishes(e, v)
    BY <2>1, <2>2, <2>3 DEF Finishes, Becomes
  <2> QED
    BY <2>1, <2>2, <2>4 DEF Calm, Becomes
<1>7. CASE Reset(e)
  <2>1. /\ Reads(w) /\ ~Reads(ws[p]) /\ closers' = closers /\ closeWritten' = closeWritten
        /\ Becomes(e, Destroy(w), net)
    BY <1>7 DEF Reset
  <2>2. PICK v \in Endpoints : v = Destroy(w) /\ Same(w, v) /\ v.io = "destroyed"
    BY <1>2, <2>1, DestroyIs
  <2>3. Finishes(e, v)
    BY <2>1, <2>2 DEF Finishes, Becomes
  <2> QED
    BY <2>1, <2>2, <2>3 DEF Calm, Becomes
<1>8. CASE UserSend(e)
  BY <1>8, SendIs DEF Calm, UserSend
<1>9. CASE WriteMessage(e)
  BY <1>9, WriteIs DEF Calm, WriteMessage
<1>10. CASE WriteClose(e)
  BY <1>10, ConcludeIs DEF Calm
<1>11. CASE SocketClosed(e)
  BY <1>11, ClosedIs DEF Calm, SocketClosed
<1>12. ~(Garbage(e) \/ Drop(e) \/ SocketError(e) \/ ForcedTermination(e) \/ PongTimeout(e))
  BY DEF Garbage, Drop, SocketError, ForcedTermination, PongTimeout
<1> QED
  BY <1>1, <1>3, <1>4, <1>5, <1>6, <1>7, <1>8, <1>9, <1>10, <1>11, <1>12

-----------------------------------------------------------------------------
(* The states of a connection ---------------------------------------------*)
(* Frames of a connection that was cut off, by their place *)
LEMMA CutFrames ==
  ASSUME NEW e \in Ends, NEW w, NEW v, NEW flow \in Flows, NEW g \in NetAfter(e, w, v, flow),
         NEW x \in Ends, NEW i \in 1..Len(g[x])
  PROVE  \/ i \in 1..Len(flow[x]) /\ g[x][i] = flow[x][i]
         \/ x = e /\ g[x][i].kind = "fin" /\ v.io # "open"
<1>1. flow[x] \in Seq(Carried)
  BY DEF Flows, Carried
<1>2. Fin.kind = "fin"
  BY DEF Fin, Frame
<1>3. ASSUME Cut(flow[x], g[x]) PROVE (i \in 1..Len(flow[x]) /\ g[x][i] = flow[x][i]) \/ g[x][i].kind = "fin"
  <2>1. PICK k \in 0..Len(flow[x]) :
          Len(g[x]) = k + 1 /\ g[x][k + 1] = Fin /\ \A j \in 1..k : g[x][j] = flow[x][j]
    BY <1>3 DEF Cut
  <2> QED
    BY <1>1, <1>2, <2>1
<1>4. x = e \/ x = Peer(e)
  BY Peers
<1> QED
  BY <1>3, <1>4, NetMoves

(* What a step without a failure puts on the connection *)
LEMMA CalmFrames ==
  ASSUME TypeOK, NEW e \in Ends, NEW v \in Endpoints,
         \/ Idles(e, v) \/ Begins(e, v) \/ Accepts(e, v) \/ Refuses(e, v) \/ Finishes(e, v)
         \/ Sends(e, v) \/ Writes(e, v) \/ (Closes(e, v) /\ net' = net) \/ Concludes(e, v),
         NEW x \in Ends, NEW i \in 1..Len(net'[x])
  PROVE  \/ \E j \in 1..Len(net[x]) : net'[x][i] = net[x][j]
         \/ net'[x][i].kind \in {"data", "ping", "pong"}
         \/ x = e /\ net'[x][i].kind = "fin" /\ v.io # "open"
         \/ x = e /\ Concludes(e, v) /\ ws[e].io = "open" /\ net'[x][i] = ws[e].outbox[1]
<1> DEFINE w == ws[e]
           p == Peer(e)
           From(s, t) == \A k \in 1..Len(t) : \E j \in 1..Len(s) : t[k] = s[j]
           Plain(t, s, f) == \A k \in 1..Len(t) : t[k] = f \/ \E j \in 1..Len(s) : t[k] = s[j]
<1>1. p \in Ends /\ net \in Flows /\ \A y \in Ends : net[y] \in Seq(Carried)
  BY Peers DEF TypeOK, Flows, Carried
<1>2. ASSUME NEW s \in Seq(Carried), NEW f PROVE Plain(Append(s, f), s, f)
  <2>1. PICK t : t = Append(s, f)
    OBVIOUS
  <2>2. \A k \in 1..Len(t) : t[k] = f \/ (k \in 1..Len(s) /\ t[k] = s[k])
    BY <2>1
  <2> QED
    BY <2>1, <2>2
<1>3. ASSUME NEW s \in Seq(Carried), s # <<>> PROVE From(s, Tail(s))
  <2>1. PICK t : t = Tail(s)
    OBVIOUS
  <2>2. \A k \in 1..Len(t) : k + 1 \in 1..Len(s) /\ t[k] = s[k + 1]
    BY <1>3, <2>1
  <2> QED
    BY <2>1, <2>2
<1>4. From(net[x], net[x])
  OBVIOUS
<1>5. CASE net' = net
  BY <1>5
<1>6. CASE Idles(e, v)
  <2>1. CASE \E f \in Frames({"data", "ping", "pong"}) : net' = [net EXCEPT ![e] = Append(@, f)]
    <3>1. PICK f \in Frames({"data", "ping", "pong"}) : net' = [net EXCEPT ![e] = Append(@, f)]
      BY <2>1
    <3>2. f.kind \in {"data", "ping", "pong"}
      BY DEF Frames
    <3>3. net'[x] = IF x = e THEN Append(net[e], f) ELSE net[x]
      BY <1>1, <3>1 DEF Flows
    <3>4. Plain(Append(net[e], f), net[e], f)
      BY <1>1, <1>2
    <3> QED
      BY <3>2, <3>3, <3>4
  <2>2. CASE net[p] # <<>> /\ net' = [net EXCEPT ![p] = Tail(@)]
    <3>1. net'[x] = IF x = p THEN Tail(net[p]) ELSE net[x]
      BY <1>1, <2>2 DEF Flows
    <3>2. From(net[p], Tail(net[p]))
      BY <1>1, <1>3, <2>2
    <3> QED
      BY <3>1, <3>2
  <2> QED
    BY <1>5, <1>6, <2>1, <2>2 DEF Idles
<1>7. CASE Accepts(e, v) \/ Refuses(e, v) \/ Finishes(e, v)
  <2>1. PICK flow : /\ flow = net \/ (net[p] # <<>> /\ flow = [net EXCEPT ![p] = Tail(@)])
                    /\ net' \in NetAfter(e, w, v, flow)
    <3>1. CASE Finishes(e, v)
      BY <3>1 DEF Finishes
    <3>2. CASE Accepts(e, v) \/ Refuses(e, v)
      BY <3>2 DEF Accepts, Refuses
    <3> QED
      BY <1>7, <3>1, <3>2
  <2>2. flow \in Flows
    <3>1. net[p] # <<>> => [net EXCEPT ![p] = Tail(@)] \in Flows
      BY <1>1 DEF Flows
    <3> QED
      BY <1>1, <2>1, <3>1
  <2>3. flow[x] = net[x] \/ (net[x] # <<>> /\ flow[x] = Tail(net[x]))
    BY <1>1, <2>1 DEF Flows
  <2>4. From(net[x], flow[x])
    <3>1. net[x] # <<>> => From(net[x], Tail(net[x]))
      BY <1>1, <1>3
    <3> QED
      BY <1>4, <2>3, <3>1
  <2>5. \/ i \in 1..Len(flow[x]) /\ net'[x][i] = flow[x][i]
        \/ x = e /\ net'[x][i].kind = "fin" /\ v.io # "open"
    <3>1. PICK g : g = net'
      OBVIOUS
    <3>2. \/ i \in 1..Len(flow[x]) /\ g[x][i] = flow[x][i]
          \/ x = e /\ g[x][i].kind = "fin" /\ v.io # "open"
      BY <2>1, <2>2, <3>1, CutFrames
    <3> QED
      BY <3>1, <3>2
  <2> QED
    BY <2>4, <2>5
<1>8. ASSUME NEW f, w.outbox # <<>>, f = Head(w.outbox), f.kind \in {"data", "close"}
      PROVE  /\ Write(e, f) \in Flows /\ f = w.outbox[1]
             /\ Write(e, f)[x] = net[x] \/ (x = e /\ w.io = "open" /\ Write(e, f)[x] = Append(net[x], f))
  <2>1. f \in Carried /\ f = w.outbox[1]
    BY <1>8, HeadOfOutbox DEF Carried
  <2>2. Write(e, f) \in Flows
    BY <2>1, WriteKeeps DEF Carried
  <2> QED
    BY <1>1, <2>1, <2>2 DEF Write, Flows
<1>9. CASE Writes(e, v)
  <2>1. PICK f : f = Head(w.outbox)
    OBVIOUS
  <2>2. f.kind = "data" /\ net' = Write(e, f) /\ w.outbox # <<>>
    BY <1>9, <2>1 DEF Writes
  <2>3. net'[x] = net[x] \/ net'[x] = Append(net[x], f)
    BY <1>8, <2>1, <2>2
  <2>4. Plain(Append(net[x], f), net[x], f)
    BY <1>1, <1>2
  <2> QED
    BY <2>2, <2>3, <2>4
<1>10. CASE Concludes(e, v)
  <2>1. PICK f : f = Head(w.outbox)
    OBVIOUS
  <2>2. f.kind = "close" /\ net' \in NetAfter(e, w, v, Write(e, f)) /\ w.outbox # <<>>
    BY <1>10, <2>1 DEF Concludes
  <2>3. PICK flow : flow = Write(e, f)
    OBVIOUS
  <2>4. /\ flow \in Flows /\ f = w.outbox[1]
        /\ flow[x] = net[x] \/ (x = e /\ w.io = "open" /\ flow[x] = Append(net[x], f))
    BY <1>8, <2>1, <2>2, <2>3
  <2>5. \/ i \in 1..Len(flow[x]) /\ net'[x][i] = flow[x][i]
        \/ x = e /\ net'[x][i].kind = "fin" /\ v.io # "open"
    <3>1. PICK g : g = net'
      OBVIOUS
    <3>2. \/ i \in 1..Len(flow[x]) /\ g[x][i] = flow[x][i]
          \/ x = e /\ g[x][i].kind = "fin" /\ v.io # "open"
      BY <2>2, <2>3, <2>4, <3>1, CutFrames
    <3> QED
      BY <3>1, <3>2
  <2>6. Plain(Append(net[x], f), net[x], f)
    BY <1>1, <1>2
  <2> QED
    BY <1>10, <2>4, <2>5, <2>6
<1> QED
  BY <1>5, <1>6, <1>7, <1>9, <1>10 DEF Begins, Sends

(* While nothing failed, a socket is finished only after both ends called   *)
(* close(), and it is finished before its FIN is under way.                *)
SafeInv ==
  ~faulty =>
    \A e \in Ends :
      /\ ws[e].io # "open" => ws[e].closeCalled /\ ws[Peer(e)].closeCalled
      /\ ws[e].waiting.by \in {"reply", "error"} => ws[Peer(e)].closeCalled
      /\ ws[e].readyState = "closed" => ws[e].io = "closed"
      /\ \A i \in 1..Len(net[e]) : net[e][i].kind # "garbage" /\ (net[e][i].kind = "fin" => ws[e].io # "open")

(* A step without a failure keeps this, and never returns to an earlier     *)
(* state.                                                                  *)
LEMMA SafeStep ==
  TypeOK /\ CodesInv /\ LastInv /\ SafeInv /\ [Next]_vars =>
    /\ SafeInv'
    /\ ~faulty' => \A e \in Ends : Rank(ws[e].readyState) <= Rank(ws'[e].readyState)
<1> SUFFICES ASSUME TypeOK, CodesInv, LastInv, SafeInv, [Next]_vars, ~faulty'
             PROVE  SafeInv' /\ \A e \in Ends : Rank(ws[e].readyState) <= Rank(ws'[e].readyState)
  BY DEF SafeInv
<1>1. \A x \in Ends : ws[x] \in Endpoints
  BY DEF TypeOK
<1>2. \A s \in {"open", "closing", "closed"} : Rank(s) <= Rank(s) /\ Rank(s) <= Rank("closed")
  BY DEF Rank
<1>3. \A s \in {"open", "closing"} : Rank(s) <= Rank("closing")
  BY DEF Rank
<1>4. CASE UNCHANGED vars
  <2>1. SafeInv'
    BY <1>4 DEF vars, SafeInv
  <2>2. \A e \in Ends : ws[e].readyState \in {"open", "closing", "closed"} /\ ws'[e] = ws[e]
    BY <1>1, <1>4 DEF vars, Endpoints
  <2> QED
    BY <1>2, <2>1, <2>2
<1>5. CASE Next
  <2>1. PICK e \in Ends, v \in Endpoints :
           /\ ws' = [ws EXCEPT ![e] = v]
           /\ \/ Idles(e, v) \/ Begins(e, v) \/ Accepts(e, v) \/ Refuses(e, v) \/ Finishes(e, v)
              \/ Sends(e, v) \/ Writes(e, v) \/ (Closes(e, v) /\ net' = net) \/ Concludes(e, v)
    BY <1>5, CalmSteps DEF Calm
  <2>2. ~faulty
    BY <1>5, Histories
  <2> DEFINE w == ws[e]
             p == Peer(e)
             f == Head(net[p])
  <2>3. /\ p \in Ends /\ p # e /\ Peer(p) = e /\ \A y \in Ends : y = e \/ y = p
        /\ w \in Endpoints /\ ws[p] \in Endpoints
    BY <1>1, Peers
  <2>4. ws'[e] = v /\ ws'[p] = ws[p]
    BY <2>1, <2>3, OthersStay
  <2>5. /\ w.io # "open" => w.closeCalled /\ ws[p].closeCalled
        /\ ws[p].io # "open" => w.closeCalled /\ ws[p].closeCalled
        /\ w.waiting.by \in {"reply", "error"} => ws[p].closeCalled
        /\ ws[p].waiting.by \in {"reply", "error"} => w.closeCalled
        /\ w.readyState = "closed" => w.io = "closed"
        /\ ws[p].readyState = "closed" => ws[p].io = "closed"
    BY <2>2, <2>3 DEF SafeInv
  <2>6. \A x \in Ends : \A i \in 1..Len(net[x]) :
          net[x][i].kind # "garbage" /\ (net[x][i].kind = "fin" => ws[x].io # "open")
    BY <2>2 DEF SafeInv
  <2>7. w.readyState \in {"open", "closing", "closed"} /\ w.closeCalled \in BOOLEAN
    BY <2>3 DEF Endpoints
  <2>8. ASSUME net[p] # <<>>
        PROVE  f.kind # "garbage" /\ (f.kind = "close" => ws[p].closeCalled)
    <3>1. f = net[p][1] /\ 1 \in 1..Len(net[p])
      BY <2>3, <2>8 DEF TypeOK
    <3> QED
      BY <2>3, <2>6, <3>1 DEF LastInv
  <2> DEFINE Fit == /\ w.closeCalled => v.closeCalled
                    /\ v.io # "open" => v.closeCalled /\ ws[p].closeCalled
                    /\ w.io # "open" => v.io # "open"
                    /\ v.waiting.by \in {"reply", "error"} => ws[p].closeCalled
                    /\ v.readyState = "closed" => v.io = "closed"
                    /\ Rank(w.readyState) <= Rank(v.readyState)
  <2>9. ASSUME Idles(e, v) PROVE Fit
    BY <1>2, <2>5, <2>7, <2>9 DEF Idles, Same
  <2>10. ASSUME Begins(e, v) PROVE Fit
    <3>1. v.waiting.by = "user"
      BY <2>10 DEF Begins, Calls
    <3>2. w.readyState \in {"open", "closing"}
      BY <2>5, <2>7, <2>10 DEF Begins, Calls
    <3> QED
      BY <1>3, <2>5, <2>10, <3>1, <3>2 DEF Begins, Calls
  <2>11. ASSUME Accepts(e, v) PROVE Fit
    <3>1. ws[p].closeCalled
      BY <2>8, <2>11 DEF Accepts
    <3>2. w.readyState \in {"open", "closing"}
      BY <2>5, <2>7, <2>11 DEF Accepts, Reads
    <3>3. v.closeCalled /\ v.readyState = "closing" /\ (w.io # "open" => v.io # "open")
      BY <2>11 DEF Accepts, Answers, Calls
    <3> QED
      BY <1>3, <3>1, <3>2, <3>3
  <2>12. ASSUME Refuses(e, v) PROVE Fit
    <3>1. ws[p].closeCalled /\ v.closeCalled
      BY <2>8, <2>12 DEF Refuses
    <3>2. w.readyState \in {"open", "closing"} /\ v.readyState \in {w.readyState, "closing"}
      BY <2>5, <2>7, <2>12 DEF Refuses, Reads
    <3>3. w.io # "open" => v.io # "open"
      BY <2>12 DEF Refuses
    <3> QED
      BY <1>2, <1>3, <3>1, <3>2, <3>3
  <2>13. ASSUME Finishes(e, v) PROVE Fit
    <3>1. ws[p].io # "open"
      BY <2>3, <2>6, <2>13 DEF Finishes, Reads
    <3>2. w.readyState # "closed"
      BY <2>5, <2>13 DEF Finishes, Reads
    <3> QED
      BY <1>2, <2>5, <2>7, <2>13, <3>1, <3>2 DEF Finishes, Same
  <2>14. ASSUME Sends(e, v) \/ Writes(e, v) PROVE Fit
    BY <1>2, <2>5, <2>7, <2>14 DEF Sends, Writes, Keeps
  <2>15. ASSUME Closes(e, v) PROVE Fit
    BY <1>2, <2>5, <2>7, <2>15 DEF Closes
  <2>16. ASSUME Concludes(e, v) PROVE Fit
    <3>1. w.closeCalled
      <4>1. 1 \in 1..Len(w.outbox) /\ w.outbox[1].kind = "close"
        BY <2>16, HeadOfOutbox DEF Concludes
      <4> QED
        BY <4>1 DEF CodesInv
    <3>2. /\ v.closeCalled = w.closeCalled /\ v.waiting.by = "none" /\ v.readyState = w.readyState
          /\ \/ w.waiting.by = "error" /\ v.io = IF Reads(w) THEN "destroyed" ELSE w.io
             \/ v.io = IF w.waiting.by = "reply" /\ e = "server" /\ w.io = "open" THEN "ended" ELSE w.io
      BY <2>16 DEF Concludes
    <3>3. /\ v.io # "open" => ws[p].closeCalled
          /\ w.io # "open" => v.io # "open"
      BY <2>5, <3>2 DEF Reads
    <3>4. v.readyState = "closed" => v.io = "closed"
      BY <2>5, <3>2 DEF Reads
    <3> QED
      BY <1>2, <2>5, <2>7, <3>1, <3>2, <3>3, <3>4
  <2>17. Fit
    BY <2>1, <2>9, <2>10, <2>11, <2>12, <2>13, <2>14, <2>15, <2>16
  <2>18. ASSUME NEW x \in Ends, NEW i \in 1..Len(net'[x])
         PROVE  net'[x][i].kind # "garbage" /\ (net'[x][i].kind = "fin" => ws'[x].io # "open")
    <3>1. ws[x].io # "open" => ws'[x].io # "open"
      BY <2>3, <2>4, <2>17
    <3>2. CASE \E j \in 1..Len(net[x]) : net'[x][i] = net[x][j]
      BY <2>6, <3>1, <3>2
    <3>3. CASE x = e /\ net'[x][i].kind = "fin" /\ v.io # "open"
      BY <2>4, <3>3
    <3>4. CASE x = e /\ Concludes(e, v) /\ net'[x][i] = w.outbox[1]
      BY <3>4, HeadOfOutbox DEF Concludes
    <3> QED
      BY <2>1, <2>18, <3>2, <3>3, <3>4, CalmFrames
  <2>19. ASSUME NEW x \in Ends
         PROVE  /\ ws'[x].io # "open" => ws'[x].closeCalled /\ ws'[Peer(x)].closeCalled
                /\ ws'[x].waiting.by \in {"reply", "error"} => ws'[Peer(x)].closeCalled
                /\ ws'[x].readyState = "closed" => ws'[x].io = "closed"
                /\ Rank(ws[x].readyState) <= Rank(ws'[x].readyState)
    <3>1. CASE x = e
      BY <2>3, <2>4, <2>17, <3>1
    <3>2. CASE x = p
      <4>1. ws[p].readyState \in {"open", "closing", "closed"}
        BY <2>3 DEF Endpoints
      <4> QED
        BY <1>2, <2>3, <2>4, <2>5, <2>17, <3>2, <4>1
    <3> QED
      BY <2>3, <3>1, <3>2
  <2> QED
    BY <2>18, <2>19 DEF SafeInv
<1> QED
  BY <1>4, <1>5

(* The invariants so far hold at the start. *)
LEMMA InitMessages == Init => OutboxInv /\ DeliveryInv /\ LastInv /\ SafeInv
<1> SUFFICES ASSUME Init PROVE OutboxInv /\ DeliveryInv /\ LastInv /\ SafeInv
  OBVIOUS
<1>1. \A x \in Ends : ws[x] = Started /\ net[x] = <<>> /\ sent[x] = <<>> /\ delivered[x] = <<>>
  BY DEF Init
<1>2. /\ Started.outbox = <<>> /\ Started.sends = 0 /\ ~Started.closeCalled /\ ~Started.closeFrameReceived
      /\ Started.io = "open" /\ Started.waiting.by = "none" /\ Started.readyState = "open"
  BY DEF Started
<1>3. Written(Started) = 0
  BY <1>2 DEF Written
<1>4. Queued(Started, 0, 0)
  BY <1>2 DEF Queued
<1>5. InOrder(<<>>, 0, 0) /\ Full(<<>>, 0, 0) /\ Last(<<>>, 0, 0)
  BY DEF InOrder, Full, Last
<1>6. OutboxInv
  BY <1>1, <1>3, <1>4 DEF OutboxInv
<1>7. DeliveryInv
  BY <1>1, <1>3, <1>5, Peers DEF DeliveryInv
<1>8. LastInv
  BY <1>1, <1>2, <1>5, Peers DEF LastInv
<1>9. SafeInv
  BY <1>1, <1>2 DEF SafeInv
<1> QED
  BY <1>6, <1>7, <1>8, <1>9

(* What holds whatever fails, whoever closes and with any codes and bounds  *)
Inv == TypeOK /\ CodesInv /\ MutualInv /\ OutboxInv /\ DeliveryInv /\ LastInv /\ SafeInv

(* Every step keeps all of it. *)
LEMMA InvStep == Inv /\ [Next]_vars => Inv'
BY TypeStep, CodesStep, MutualStep, OutboxStep, DeliveryStep, LastStep, SafeStep DEF Inv

(* It holds in every state, for any codes, bounds and events. *)
LEMMA InvHolds == Spec => []Inv
<1>1. Init => Inv
  BY InitInv, InitMessages DEF Inv
<1> QED
  BY <1>1, InvStep, PTL DEF Spec

(* Whatever fails, messages are delivered in order, each once, none is      *)
(* skipped, and none that was sent after close() is delivered.             *)
THEOREM MessagesArriveInOrder == Spec => []DeliveredInOrder
<1>1. Inv => DeliveredInOrder
  <2> SUFFICES ASSUME Inv, NEW e \in Ends
               PROVE  /\ Len(delivered[e]) <= Len(sent[Peer(e)])
                      /\ \A i \in DOMAIN delivered[e] : delivered[e][i] = sent[Peer(e)][i]
    BY DEF DeliveredInOrder
  <2>1. Peer(e) \in Ends /\ Peer(Peer(e)) = e /\ delivered[e] \in Seq(Nat) /\ sent[Peer(e)] \in Seq(Nat)
    BY Peers DEF Inv, TypeOK
  <2>2. /\ \A i \in 1..Len(delivered[e]) : delivered[e][i] = i
        /\ Len(delivered[e]) <= Written(ws[Peer(e)])
    BY <2>1 DEF Inv, DeliveryInv, InOrder
  <2>3. /\ Written(ws[Peer(e)]) \in 0..Len(sent[Peer(e)])
        /\ \A i \in 1..Len(sent[Peer(e)]) : sent[Peer(e)][i] = i
    BY <2>1 DEF Inv, OutboxInv, Queued
  <2>4. Len(delivered[e]) <= Len(sent[Peer(e)]) /\ DOMAIN delivered[e] = 1..Len(delivered[e])
    BY <2>1, <2>2, <2>3
  <2>5. \A i \in 1..Len(delivered[e]) : delivered[e][i] = i /\ i \in 1..Len(sent[Peer(e)])
    BY <2>1, <2>2, <2>4
  <2> QED
    BY <2>3, <2>4, <2>5
<1> QED
  BY <1>1, InvHolds, PTL

(* While nothing fails readyState goes from open to closing to closed and   *)
(* never back, though error events, close frames and close() itself race   *)
(* to set it.                                                              *)
THEOREM StatesAdvance == Spec => ReadyStateAdvances
<1>1. Inv /\ [Next]_vars => [~faulty' => \A e \in Ends : Rank(ws[e].readyState) <= Rank(ws'[e].readyState)]_vars
  BY SafeStep DEF Inv
<1> QED
  BY <1>1, InvHolds, PTL DEF Spec, ReadyStateAdvances

-----------------------------------------------------------------------------
(* Connections that both owners may close ---------------------------------*)
(* A FIN of the server is behind its close frame, which the client either   *)
(* received (r) or still has in front of it.                               *)
Warned(q, r) == \A i \in 1..Len(q) : q[i].kind = "fin" => r \/ \E j \in 1..(i - 1) : q[j].kind = "close"
Shown(q, r) == r \/ \E j \in 1..Len(q) : q[j].kind = "close"

(* No end is left with an error; the reader and the writer that check codes *)
(* are those of an end that did not get the close frame of the other one.   *)
Behaves(e, w) ==
  /\ w.errors = 0 /\ w.waiting.by # "error" /\ (w.waiting.by = "reply" => w.closeFrameReceived)
  /\ w.writerChecks \/ w.closeFrameReceived
  /\ w.closeFrameReceived => w.closeCalled
  /\ w.closed # <<>> => w.io = "closed"
  /\ e = "server" => (w.closeCalled => ~w.readerChecks) /\ (w.io # "open" => w.closeFrameReceived)
  /\ e = "client" => w.io # "ended"

(* A close frame the server may still write is one the client accepts.      *)
Welcome(w) ==
  w.closeFrameReceived /\ w.io = "open" =>
    \A i \in 1..Len(w.outbox) : w.outbox[i].kind = "close" => MayReceive("client", w.outbox[i].n)

(* The client finishes after the server, with the server's close frame if   *)
(* there is one, which is in front of the FIN.                              *)
Follows ==
  LET s == ws["server"]
      k == ws["client"]
  IN  /\ k.io # "open" => s.io # "open" /\ ("server" \in closeWritten => k.closeFrameReceived)
      /\ Reads(s) \/ ~Reads(k)
      /\ "server" \in closeWritten =>
           Warned(net["server"], k.closeFrameReceived) /\ Shown(net["server"], k.closeFrameReceived)

(* No close frame under way is refused.                                     *)
Accepted ==
  /\ \A i \in 1..Len(net["server"]) :
       net["server"][i].kind = "close" => MayReceive("client", net["server"][i].n)
  /\ \A i \in 1..Len(net["client"]) :
       net["client"][i].kind = "close" => ws["server"].closeCalled \/ MaySend("client", net["client"][i].n)

FollowInv ==
  ~faulty => (\A x \in Ends : Behaves(x, ws[x])) /\ Welcome(ws["server"]) /\ Follows /\ Accepted

(* The server's frames on the way to the client: what is appended ...       *)
LEMMA AppendedWarns ==
  ASSUME NEW q \in Seq(Carried), NEW r \in BOOLEAN, Warned(q, r), NEW f \in Carried, NEW t, t = Append(q, f),
         f.kind = "fin" => Shown(q, r)
  PROVE  Warned(t, r) /\ (Shown(q, r) \/ f.kind = "close" => Shown(t, r))
<1>1. /\ Len(q) \in Nat /\ Len(t) = Len(q) + 1 /\ t[Len(t)] = f
      /\ \A i \in 1..Len(q) : i \in 1..Len(t) /\ t[i] = q[i]
  OBVIOUS
<1>2. ASSUME NEW i \in 1..Len(t), t[i].kind = "fin" PROVE r \/ \E j \in 1..(i - 1) : t[j].kind = "close"
  <2>1. CASE i \in 1..Len(q)
    <3>1. r \/ \E j \in 1..(i - 1) : q[j].kind = "close"
      BY <1>1, <1>2, <2>1 DEF Warned
    <3> QED
      BY <1>1, <2>1, <3>1
  <2>2. CASE i = Len(t)
    BY <1>1, <1>2, <2>2 DEF Shown
  <2> QED
    BY <1>1, <2>1, <2>2
<1>3. Shown(q, r) \/ f.kind = "close" => Shown(t, r)
  <2>1. Len(t) \in 1..Len(t)
    BY <1>1
  <2> QED
    BY <1>1, <2>1 DEF Shown
<1> QED
  BY <1>2, <1>3 DEF Warned

(* ... and what is taken away.                                             *)
LEMMA TakenWarns ==
  ASSUME NEW q \in Seq(Carried), q # <<>>, NEW r \in BOOLEAN, Warned(q, r), r \/ Head(q).kind # "close",
         NEW t, t = Tail(q)
  PROVE  Warned(t, r) /\ (Shown(q, r) => Shown(t, r))
<1>1. /\ Len(q) \in Nat /\ Len(t) = Len(q) - 1 /\ Head(q) = q[1]
      /\ \A i \in 1..Len(t) : i + 1 \in 1..Len(q) /\ t[i] = q[i + 1]
  OBVIOUS
<1>2. ASSUME ~r, NEW j \in 1..Len(q), q[j].kind = "close" PROVE j - 1 \in 1..Len(t) /\ t[j - 1].kind = "close"
  <2>1. j # 1
    BY <1>1, <1>2
  <2>2. j - 1 \in 1..Len(t) /\ (j - 1) + 1 = j
    BY <1>1, <2>1
  <2> QED
    BY <1>1, <1>2, <2>2
<1>3. ASSUME ~r, NEW i \in 1..Len(t), t[i].kind = "fin" PROVE \E j \in 1..(i - 1) : t[j].kind = "close"
  <2>1. PICK j \in 1..i : q[j].kind = "close"
    <3>1. i + 1 \in 1..Len(q) /\ q[i + 1].kind = "fin" /\ (i + 1) - 1 = i
      BY <1>1, <1>3
    <3> QED
      BY <1>3, <3>1 DEF Warned
  <2>2. j \in 1..Len(q)
    BY <1>1
  <2>3. j - 1 \in 1..(i - 1) /\ t[j - 1].kind = "close"
    BY <1>1, <1>2, <1>3, <2>1, <2>2
  <2> QED
    BY <2>3
<1> QED
  BY <1>2, <1>3 DEF Warned, Shown

(* What a writer lets an owner send the other reader accepts. *)
LEMMA SentIsAccepted ==
  ASSUME NEW c
  PROVE  /\ MaySend("client", c) => MayReceive("server", c) /\ MayReceive("client", c)
         /\ MaySend("server", c) => MayReceive("client", c)
BY DEF MaySend, MayReceive, validServerCodes, validClientCodes

(* The premises of the lemmas below: a step in which nothing fails          *)
Steps(e, v) ==
  /\ ~Compression /\ TypeOK /\ CodesInv /\ LastInv /\ SafeInv /\ FollowInv /\ ~faulty
  /\ Calm(e, v)

(* What is known where such a step is taken. *)
LEMMA StepFacts ==
  ASSUME NEW e \in Ends, NEW v \in Endpoints, Steps(e, v)
  PROVE  /\ ws[e] \in Endpoints /\ Peer(e) \in Ends /\ Peer(Peer(e)) = e /\ net \in Flows
         /\ "client" \in Ends /\ "server" \in Ends
         /\ (e = "client" /\ Peer(e) = "server") \/ (e = "server" /\ Peer(e) = "client")
         /\ \A x \in Ends : net[x] \in Seq(Carried) /\ Behaves(x, ws[x])
         /\ ws'[e] = v /\ \A x \in Ends : x # e => ws'[x] = ws[x]
<1>1. /\ ws[e] \in Endpoints /\ Peer(e) \in Ends /\ Peer(Peer(e)) = e /\ net \in Flows
      /\ \A x \in Ends : net[x] \in Seq(Carried)
  BY Peers DEF Steps, TypeOK, Flows, Carried
<1>2. /\ "client" \in Ends /\ "server" \in Ends
      /\ (e = "client" /\ Peer(e) = "server") \/ (e = "server" /\ Peer(e) = "client")
  BY DEF Ends, Peer
<1>3. ws'[e] = v /\ \A x \in Ends : x # e => ws'[x] = ws[x]
  BY OthersStay DEF Steps, Calm
<1> QED
  BY <1>1, <1>2, <1>3 DEF Steps, FollowInv

(* No close frame is refused, and there is no garbage. *)
LEMMA NoRefusal ==
  ASSUME NEW e \in Ends, NEW v \in Endpoints, Steps(e, v)
  PROVE  ~Refuses(e, v)
<1> SUFFICES ASSUME Refuses(e, v) PROVE FALSE
  OBVIOUS
<1> DEFINE w == ws[e]
           p == Peer(e)
           f == Head(net[p])
<1>1. /\ p \in Ends /\ f = net[p][1] /\ 1 \in 1..Len(net[p])
      /\ (e = "client" /\ p = "server") \/ (e = "server" /\ p = "client")
      /\ Behaves(e, w)
  BY StepFacts DEF Refuses
<1>2. f.kind = "close" /\ w.readerChecks /\ ~MayReceive(e, f.n)
  BY <1>1 DEF Refuses, SafeInv, Steps
<1>3. CASE e = "client"
  BY <1>1, <1>2, <1>3 DEF Steps, FollowInv, Accepted
<1>4. CASE e = "server"
  <2>1. ~w.closeCalled
    BY <1>1, <1>2, <1>4 DEF Behaves
  <2>2. MaySend("client", f.n)
    BY <1>1, <1>2, <1>4, <2>1 DEF Steps, FollowInv, Accepted
  <2> QED
    BY <1>2, <1>4, <2>2, SentIsAccepted
<1> QED
  BY <1>1, <1>3, <1>4

(* How the connection of an end finishes: the socket of the other one was   *)
(* finished before, and that of the server before that of the client.       *)
LEMMA FinishFollows ==
  ASSUME NEW e \in Ends, NEW v \in Endpoints, Steps(e, v), Finishes(e, v)
  PROVE  /\ ws["server"].io # "open"
         /\ "server" \in closeWritten => ws["client"].closeFrameReceived
         /\ e = "server" => ~Reads(ws["client"])
<1> DEFINE p == Peer(e)
<1>1. /\ p \in Ends /\ "client" \in Ends /\ "server" \in Ends
      /\ (e = "client" /\ p = "server") \/ (e = "server" /\ p = "client")
      /\ Behaves("client", ws["client"]) /\ ws["client"] \in Endpoints
  BY StepFacts DEF Steps, TypeOK
<1>2. /\ ~Reads(ws[p]) \/ (1 \in 1..Len(net[p]) /\ net[p][1].kind = "fin")
      /\ ws[p].io # "open" /\ Reads(ws[e])
  <2>1. (~Reads(ws[p]) \/ (1 \in 1..Len(net[p]) /\ net[p][1].kind = "fin")) /\ Reads(ws[e])
    BY DEF Finishes, Steps
  <2> QED
    BY <1>1, <2>1 DEF SafeInv, Reads, Steps
<1>3. Follows
  BY DEF Steps, FollowInv
<1>4. CASE e = "server"
  BY <1>1, <1>2, <1>3, <1>4 DEF Follows, Behaves, Reads, Endpoints
<1>5. CASE e = "client"
  <2>1. 1 \in 1..Len(net["server"]) /\ net["server"][1].kind = "fin"
    BY <1>1, <1>2, <1>3, <1>5 DEF Follows
  <2>2. "server" \in closeWritten => ws["client"].closeFrameReceived
    <3>1. Warned(net["server"], ws["client"].closeFrameReceived)
             => ws["client"].closeFrameReceived \/ \E j \in 1..(1 - 1) : net["server"][j].kind = "close"
      BY <2>1 DEF Warned
    <3> QED
      BY <1>3, <3>1 DEF Follows
  <2> QED
    BY <1>1, <1>2, <1>5, <2>2
<1> QED
  BY <1>1, <1>4, <1>5

(* What a step makes of the end that takes it                              *)
LEMMA BehavesStep ==
  ASSUME NEW e \in Ends, NEW v \in Endpoints, Steps(e, v)
  PROVE  Behaves(e, v) /\ (ws[e].closeCalled => v.closeCalled)
<1> DEFINE w == ws[e]
<1>1. w \in Endpoints /\ Behaves(e, w)
  BY StepFacts
<1>2. CASE Idles(e, v) \/ Sends(e, v) \/ Writes(e, v)
  <2>1. /\ v.errors = w.errors /\ v.waiting = w.waiting /\ v.closed = w.closed /\ v.io = w.io
        /\ v.closeCalled = w.closeCalled /\ v.closeFrameReceived = w.closeFrameReceived
        /\ v.writerChecks = w.writerChecks /\ v.readerChecks = w.readerChecks
    BY <1>2 DEF Idles, Same, Rests, Sends, Writes, Keeps
  <2> QED
    BY <1>1, <2>1 DEF Behaves
<1>3. CASE Begins(e, v)
  <2>1. PICK c : /\ Calls(e, w, v, "user", c) /\ v.closeFrameReceived = w.closeFrameReceived
                 /\ v.writerChecks = w.writerChecks
    BY <1>3 DEF Begins
  <2>2. /\ v.waiting.by = "user" /\ v.errors = w.errors /\ v.closed = w.closed /\ v.io = w.io
        /\ v.closeCalled /\ v.readerChecks = (w.readerChecks /\ e = "client")
    BY <2>1 DEF Calls, Rests
  <2>3. e = "server" => ~v.readerChecks
    BY <2>2
  <2> QED
    BY <1>1, <2>1, <2>2, <2>3 DEF Behaves
<1>4. CASE Accepts(e, v)
  <2>1. PICK c : Answers(e, w, v, c) /\ Reads(w)
    BY <1>4 DEF Accepts
  <2>2. /\ v.errors = w.errors /\ v.closed = w.closed /\ v.closeCalled /\ v.closeFrameReceived
        /\ v.waiting.by = "reply" \/ v.waiting = w.waiting
        /\ v.io = w.io \/ (e = "server" /\ v.io = "ended")
    BY <2>1 DEF Answers, Calls, Rests
  <2>3. e = "server" => ~v.readerChecks
    <3>1. v.readerChecks = (w.readerChecks /\ e = "client") \/ (w.closeCalled /\ v.readerChecks = w.readerChecks)
      BY <2>1 DEF Answers, Calls
    <3> QED
      BY <1>1, <3>1 DEF Behaves
  <2>4. w.closed = <<>>
    BY <1>1, <2>1 DEF Behaves, Reads
  <2> QED
    BY <1>1, <2>2, <2>3, <2>4 DEF Behaves
<1>5. CASE Finishes(e, v)
  <2>1. /\ v.errors = w.errors /\ v.waiting = w.waiting /\ v.closed = w.closed /\ v.io = "destroyed"
        /\ v.closeCalled = w.closeCalled /\ v.closeFrameReceived = w.closeFrameReceived
        /\ v.writerChecks = w.writerChecks /\ v.readerChecks = w.readerChecks /\ Reads(w)
    BY <1>5 DEF Finishes, Same, Rests
  <2>2. ws["server"].io # "open"
    BY <1>5, FinishFollows
  <2>3. w.closed = <<>>
    BY <1>1, <2>1 DEF Behaves, Reads
  <2> QED
    BY <1>1, <2>1, <2>2, <2>3 DEF Behaves
<1>6. CASE Closes(e, v)
  <2>1. /\ v.errors = w.errors /\ v.waiting = w.waiting /\ v.io = "closed" /\ w.io = "destroyed"
        /\ v.closeCalled = w.closeCalled /\ v.closeFrameReceived = w.closeFrameReceived
        /\ v.writerChecks = w.writerChecks /\ v.readerChecks = w.readerChecks
    BY <1>6 DEF Closes
  <2> QED
    BY <1>1, <2>1 DEF Behaves
<1>7. CASE Concludes(e, v)
  <2>1. /\ v.errors = w.errors /\ v.waiting.by = "none" /\ v.closed = w.closed
        /\ v.closeCalled = w.closeCalled /\ v.closeFrameReceived = w.closeFrameReceived
        /\ v.writerChecks = w.writerChecks /\ v.readerChecks = w.readerChecks
        /\ v.io = IF w.waiting.by = "reply" /\ e = "server" /\ w.io = "open" THEN "ended" ELSE w.io
    BY <1>1, <1>7 DEF Concludes, Behaves
  <2> QED
    BY <1>1, <2>1 DEF Behaves
<1> QED
  BY <1>2, <1>3, <1>4, <1>5, <1>6, <1>7, NoRefusal DEF Steps, Calm

(* What the server may still write is welcome. *)
LEMMA WelcomeStep ==
  ASSUME NEW e \in Ends, NEW v \in Endpoints, Steps(e, v)
  PROVE  Welcome(ws'["server"])
<1> DEFINE w == ws[e]
           s == ws["server"]
<1>1. /\ w \in Endpoints /\ Behaves(e, w) /\ ws'[e] = v /\ \A x \in Ends : x # e => ws'[x] = ws[x]
      /\ "client" \in Ends /\ "server" \in Ends /\ Welcome(s)
      /\ (e = "client" /\ Peer(e) = "server") \/ (e = "server" /\ Peer(e) = "client")
  BY StepFacts DEF Steps, FollowInv
<1>2. CASE e = "client"
  BY <1>1, <1>2
<1>3. CASE e = "server"
  <2> DEFINE Fit(o) == \A i \in 1..Len(o) : o[i].kind = "close" => MayReceive("client", o[i].n)
  <2> SUFFICES ASSUME v.closeFrameReceived, v.io = "open" PROVE Fit(v.outbox)
    BY <1>1, <1>3 DEF Welcome
  <2>1. w.outbox \in Seq(Frames({"data", "close", "held"}))
    BY <1>1 DEF Endpoints
  <2>2. ASSUME w.closeFrameReceived, w.io = "open" PROVE Fit(w.outbox)
    BY <1>1, <1>3, <2>2 DEF Welcome
  <2>3. ASSUME NEW f, v.outbox = Append(w.outbox, f), Fit(w.outbox),
               f.kind = "close" => MayReceive("client", f.n)
        PROVE  Fit(v.outbox)
    <3>1. \A i \in 1..Len(v.outbox) : v.outbox[i] = f \/ (i \in 1..Len(w.outbox) /\ v.outbox[i] = w.outbox[i])
      BY <2>1, <2>3
    <3> QED
      BY <2>3, <3>1
  <2>4. CASE Idles(e, v)
    BY <2>2, <2>4 DEF Idles, Same
  <2>5. CASE Begins(e, v)
    <3>1. ~w.closeCalled /\ v.closeFrameReceived = w.closeFrameReceived
      BY <2>5 DEF Begins, Calls
    <3> QED
      BY <1>1, <3>1 DEF Behaves
  <2>6. CASE Accepts(e, v)
    <3>1. PICK f : f = Head(net["client"])
      OBVIOUS
    <3>2. f.kind = "close" /\ Answers(e, w, v, f.n) /\ Reads(w) /\ net["client"] # <<>>
      BY <1>1, <1>3, <2>6, <3>1 DEF Accepts
    <3>3. Calls(e, w, v, "reply", f.n)
      BY <1>3, <3>2 DEF Answers, Reads
    <3>4. ~w.closeCalled /\ v.outbox = Append(w.outbox, Frame("close", f.n))
      BY <3>3 DEF Calls
    <3>5. MayReceive("client", f.n)
      <4>1. f = net["client"][1] /\ 1 \in 1..Len(net["client"])
        BY <1>1, <3>1, <3>2, StepFacts
      <4> QED
        BY <1>3, <3>2, <3>4, <4>1, SentIsAccepted DEF Steps, FollowInv, Accepted
    <3>6. \A i \in 1..Len(w.outbox) : w.outbox[i].kind = "data"
      BY <3>4 DEF Steps, CodesInv
    <3>7. Frame("close", f.n).n = f.n
      BY DEF Frame
    <3> QED
      BY <2>3, <3>4, <3>5, <3>6, <3>7
  <2>7. CASE Finishes(e, v)
    BY <2>7 DEF Finishes
  <2>8. CASE Sends(e, v)
    <3>1. w.closeFrameReceived /\ w.io = "open" /\ v.outbox = Append(w.outbox, Frame("data", v.sends))
      BY <2>8 DEF Sends, Keeps
    <3>2. Frame("data", v.sends).kind # "close"
      BY DEF Frame
    <3> QED
      BY <2>2, <2>3, <3>1, <3>2
  <2>9. CASE Writes(e, v)
    <3>1. w.closeFrameReceived /\ w.io = "open" /\ v.outbox = Tail(w.outbox) /\ w.outbox # <<>>
      BY <2>9 DEF Writes, Keeps
    <3>2. \A i \in 1..Len(v.outbox) : i + 1 \in 1..Len(w.outbox) /\ v.outbox[i] = w.outbox[i + 1]
      BY <2>1, <3>1
    <3> QED
      BY <2>2, <3>1, <3>2
  <2>10. CASE Closes(e, v)
    BY <2>10 DEF Closes
  <2>11. CASE Concludes(e, v)
    <3>1. w.closeFrameReceived /\ w.io = "open" /\ Holds(w.outbox, v.outbox)
      BY <1>1, <2>11 DEF Concludes, Behaves
    <3>2. \A i \in 1..Len(v.outbox) : v.outbox[i].kind = "close" => i \in 1..Len(w.outbox) /\ v.outbox[i] = w.outbox[i]
      BY <2>1, <3>1 DEF Holds
    <3> QED
      BY <2>2, <3>1, <3>2
  <2> QED
    BY <2>4, <2>5, <2>6, <2>7, <2>8, <2>9, <2>10, <2>11, NoRefusal DEF Steps, Calm
<1> QED
  BY <1>1, <1>2, <1>3

(* Nothing under way is refused after the step either.                      *)
LEMMA AcceptedStep ==
  ASSUME NEW e \in Ends, NEW v \in Endpoints, Steps(e, v)
  PROVE  Accepted'
<1> DEFINE w == ws[e]
<1>1. /\ w \in Endpoints /\ Behaves(e, w) /\ ws'[e] = v /\ \A x \in Ends : x # e => ws'[x] = ws[x]
      /\ "client" \in Ends /\ "server" \in Ends
      /\ (e = "client" /\ Peer(e) = "server") \/ (e = "server" /\ Peer(e) = "client")
      /\ Accepted /\ Welcome(ws["server"])
  BY StepFacts DEF Steps, FollowInv
<1>2. ws["server"].closeCalled => ws'["server"].closeCalled
  BY <1>1, BehavesStep
<1>3. ASSUME NEW x \in Ends, NEW i \in 1..Len(net'[x]), net'[x][i].kind = "close"
      PROVE  \/ \E j \in 1..Len(net[x]) : net'[x][i] = net[x][j]
             \/ x = e /\ Concludes(e, v) /\ w.io = "open" /\ net'[x][i] = w.outbox[1]
  BY <1>3, CalmFrames DEF Steps, Calm
<1>4. ASSUME Concludes(e, v), w.io = "open"
      PROVE  /\ w.outbox[1].kind = "close" /\ 1 \in 1..Len(w.outbox)
             /\ MaySend(e, w.outbox[1].n) \/ w.closeFrameReceived
  <2>1. w.outbox[1] = Head(w.outbox) /\ 1 \in 1..Len(w.outbox)
    BY <1>4, HeadOfOutbox DEF Concludes, Steps
  <2> QED
    BY <1>1, <1>4, <2>1 DEF Concludes, Behaves
<1>5. ASSUME NEW i \in 1..Len(net'["server"]), net'["server"][i].kind = "close"
      PROVE  MayReceive("client", net'["server"][i].n)
  <2>1. CASE \E j \in 1..Len(net["server"]) : net'["server"][i] = net["server"][j]
    BY <1>1, <1>5, <2>1 DEF Accepted
  <2>2. CASE e = "server" /\ Concludes(e, v) /\ w.io = "open" /\ net'["server"][i] = w.outbox[1]
    BY <1>1, <1>4, <2>2, SentIsAccepted DEF Welcome
  <2> QED
    BY <1>1, <1>3, <1>5, <2>1, <2>2
<1>6. ASSUME NEW i \in 1..Len(net'["client"]), net'["client"][i].kind = "close"
      PROVE  ws'["server"].closeCalled \/ MaySend("client", net'["client"][i].n)
  <2>1. CASE \E j \in 1..Len(net["client"]) : net'["client"][i] = net["client"][j]
    BY <1>1, <1>2, <1>6, <2>1 DEF Accepted
  <2>2. CASE e = "client" /\ Concludes(e, v) /\ w.io = "open" /\ net'["client"][i] = w.outbox[1]
    <3>1. w.closeFrameReceived => ws["server"].closeCalled
      BY <1>1, <2>2 DEF Steps, LastInv, Peer
    <3> QED
      BY <1>2, <1>4, <2>2, <3>1
  <2> QED
    BY <1>1, <1>3, <1>6, <2>1, <2>2
<1> QED
  BY <1>5, <1>6 DEF Accepted

(* The server's frames on the way to the client, while the client has not   *)
(* received the close frame: what the step appends to them or takes away.   *)
PlainFlow ==
  LET q == net["server"]
  IN  \/ net'["server"] = q
      \/ \E f \in Carried : f.kind \in {"data", "ping", "pong"} /\ net'["server"] = Append(q, f)
      \/ q # <<>> /\ Head(q).kind # "close" /\ net'["server"] = Tail(q)
      \/ "server" \in closeWritten /\ net'["server"] = Append(q, Fin)

(* ... or its close frame, and the FIN if there is nothing more to wait for. *)
LastFlow ==
  \E f \in Carried : /\ f.kind = "close"
                     /\ net'["server"] \in {Append(net["server"], f), Append(Append(net["server"], f), Fin)}

(* A step in which the closing handshake of the server goes no further      *)
LEMMA QuietFlow ==
  ASSUME NEW e \in Ends, NEW v \in Endpoints, Steps(e, v),
         Idles(e, v) \/ Sends(e, v) \/ Writes(e, v) \/ Begins(e, v) \/ (Closes(e, v) /\ net' = net),
         ~ws["client"].closeFrameReceived
  PROVE  PlainFlow
<1> DEFINE w == ws[e]
           p == Peer(e)
           q == net["server"]
<1>1. /\ net \in Flows /\ p \in Ends /\ "server" \in Ends
      /\ (e = "client" /\ p = "server") \/ (e = "server" /\ p = "client")
  BY StepFacts
<1>2. CASE net' = net
  BY <1>2 DEF PlainFlow
<1>3. CASE Idles(e, v) /\ net' # net
  <2>1. CASE \E f \in Frames({"data", "ping", "pong"}) : net' = [net EXCEPT ![e] = Append(@, f)]
    <3>1. PICK f \in Frames({"data", "ping", "pong"}) : net' = [net EXCEPT ![e] = Append(@, f)]
      BY <2>1
    <3>2. f \in Carried /\ f.kind \in {"data", "ping", "pong"}
      BY DEF Carried, Frames
    <3>3. net'["server"] = IF e = "server" THEN Append(q, f) ELSE q
      BY <1>1, <3>1 DEF Flows
    <3> QED
      BY <3>2, <3>3 DEF PlainFlow
  <2>2. CASE /\ net[p] # <<>> /\ net' = [net EXCEPT ![p] = Tail(@)]
             /\ \/ Head(net[p]).kind \in {"data", "ping", "pong"}
                \/ Head(net[p]).kind = "close" /\ w.closeFrameReceived
    <3>1. net'["server"] = IF e = "client" THEN Tail(q) ELSE q
      BY <1>1, <2>2 DEF Flows
    <3> QED
      BY <1>1, <2>2, <3>1 DEF PlainFlow
  <2> QED
    BY <1>3, <2>1, <2>2 DEF Idles
<1>4. CASE Writes(e, v) /\ net' # net
  <2>1. PICK f : f = Head(w.outbox)
    OBVIOUS
  <2>2. f.kind = "data" /\ net' = [net EXCEPT ![e] = Append(@, f)] /\ f \in Carried
    BY <1>4, <2>1, HeadOfOutbox DEF Writes, Write, Carried, Steps
  <2>3. net'["server"] = IF e = "server" THEN Append(q, f) ELSE q
    BY <1>1, <2>2 DEF Flows
  <2> QED
    BY <2>2, <2>3 DEF PlainFlow
<1> QED
  BY <1>2, <1>3, <1>4 DEF Sends, Begins

(* The server accepts a close frame. *)
LEMMA AcceptFlow ==
  ASSUME NEW e \in Ends, NEW v \in Endpoints, Steps(e, v), Accepts(e, v), e = "server",
         "server" \in closeWritten
  PROVE  PlainFlow
<1> DEFINE w == ws[e]
           q == net["server"]
<1>1. net \in Flows /\ Peer(e) = "client" /\ "client" \in Ends /\ "server" \in Ends
  BY StepFacts
<1>2. PICK rest : rest = [net EXCEPT !["client"] = Tail(@)]
  OBVIOUS
<1>3. net' \in NetAfter(e, w, v, rest) /\ (v.io = w.io \/ (w.io = "open" /\ v.io = "ended")) /\ Reads(w)
  BY <1>1, <1>2 DEF Accepts, Answers, Calls
<1>4. rest["server"] = q /\ "server" \in DOMAIN rest
  BY <1>1, <1>2 DEF Flows
<1>5. CASE v.io = w.io
  <2>1. net' = rest
    BY <1>3, <1>5, NetStays
  <2> QED
    BY <1>4, <2>1 DEF PlainFlow
<1>6. CASE w.io = "open" /\ v.io = "ended"
  <2>1. net' = [rest EXCEPT ![e] = Append(@, Fin)]
    BY <1>3, <1>6 DEF NetAfter
  <2>2. net'["server"] = Append(q, Fin)
    BY <1>4, <2>1
  <2> QED
    BY <2>2 DEF PlainFlow
<1> QED
  BY <1>3, <1>5, <1>6

(* An end writes its close frame, or finds that it cannot. *)
LEMMA ConcludeFlow ==
  ASSUME NEW e \in Ends, NEW v \in Endpoints, Steps(e, v), Concludes(e, v)
  PROVE  IF e = "server" /\ ws[e].io = "open" THEN LastFlow ELSE net'["server"] = net["server"]
<1> DEFINE w == ws[e]
           p == Peer(e)
           q == net["server"]
<1>1. /\ net \in Flows /\ "client" \in Ends /\ "server" \in Ends /\ Behaves(e, w)
      /\ (e = "client" /\ p = "server") \/ (e = "server" /\ p = "client")
  BY StepFacts
<1>2. PICK f : f = Head(w.outbox)
  OBVIOUS
<1>3. f.kind = "close" /\ f \in Carried /\ net' \in NetAfter(e, w, v, Write(e, f))
  BY <1>2, HeadOfOutbox DEF Concludes, Carried, Steps
<1>4. v.io = IF w.waiting.by = "reply" /\ e = "server" /\ w.io = "open" THEN "ended" ELSE w.io
  BY <1>1 DEF Concludes, Behaves
<1>5. PICK flow : flow = Write(e, f)
  OBVIOUS
<1>6. flow \in Flows /\ flow \in {net, [net EXCEPT ![e] = Append(@, f)]}
  BY <1>3, <1>5, WriteKeeps DEF Carried, Steps
<1>7. CASE e = "client"
  <2>1. net' = flow
    BY <1>3, <1>4, <1>5, <1>7, NetStays
  <2>2. net'["server"] = q
    BY <1>1, <1>6, <1>7, <2>1 DEF Flows
  <2> QED
    BY <1>1, <1>7, <2>2
<1>8. CASE e = "server" /\ w.io # "open"
  <2>1. net' = flow /\ flow = net
    BY <1>3, <1>4, <1>5, <1>8, NetStays DEF Write
  <2> QED
    BY <1>8, <2>1
<1>9. CASE e = "server" /\ w.io = "open"
  <2>1. Reads(ws[p])
    BY <1>1, <1>9 DEF Steps, FollowInv, Follows, Reads
  <2>2. flow = [net EXCEPT ![e] = Append(@, f)]
    BY <1>5, <1>9, <2>1 DEF Write
  <2>3. flow["server"] = Append(q, f) /\ "server" \in DOMAIN flow
    BY <1>1, <1>9, <2>2 DEF Flows
  <2>4. CASE v.io = "open"
    <3>1. net' = flow
      BY <1>3, <1>5, <1>9, <2>4, NetStays
    <3> QED
      BY <1>3, <1>9, <2>3, <3>1 DEF LastFlow
  <2>5. CASE v.io = "ended"
    <3>1. net' = [flow EXCEPT ![e] = Append(@, Fin)]
      BY <1>3, <1>5, <1>9, <2>5 DEF NetAfter
    <3>2. net'["server"] = Append(Append(q, f), Fin)
      BY <1>9, <2>3, <3>1
    <3> QED
      BY <1>3, <1>9, <3>2 DEF LastFlow
  <2> QED
    BY <1>4, <1>9, <2>4, <2>5
<1> QED
  BY <1>1, <1>7, <1>8, <1>9

(* When the server's close frame was written it stays in front of the FIN.  *)
LEMMA ServerWarns ==
  ASSUME NEW e \in Ends, NEW v \in Endpoints, Steps(e, v), "server" \in closeWritten'
  PROVE  LET r == ws'["client"].closeFrameReceived
         IN  Warned(net'["server"], r) /\ Shown(net'["server"], r)
<1> DEFINE q == net["server"]
<1>1. /\ "client" \in Ends /\ "server" \in Ends /\ q \in Seq(Carried) /\ FALSE \in BOOLEAN
      /\ (e = "client" /\ Peer(e) = "server") \/ (e = "server" /\ Peer(e) = "client")
      /\ ws'[e] = v /\ \A x \in Ends : x # e => ws'[x] = ws[x]
  BY StepFacts
<1>2. CASE ws'["client"].closeFrameReceived
  BY <1>2 DEF Warned, Shown
<1>3. CASE ~ws'["client"].closeFrameReceived
  <2>1. ASSUME Finishes(e, v), "server" \in closeWritten PROVE FALSE
    <3>1. ws["client"].closeFrameReceived /\ v.closeFrameReceived = ws[e].closeFrameReceived
      BY <2>1, FinishFollows DEF Finishes, Same
    <3> QED
      BY <1>1, <1>3, <3>1
  <2>2. ~ws["client"].closeFrameReceived \/ Accepts(e, v)
    <3>1. Accepts(e, v) \/ v.closeFrameReceived = ws[e].closeFrameReceived
      BY NoRefusal DEF Steps, Calm, Idles, Same, Begins, Finishes, Sends, Writes, Keeps, Closes, Concludes
    <3>2. CASE e = "client"
      BY <1>1, <1>3, <3>1, <3>2
    <3>3. CASE e = "server"
      BY <1>1, <1>3, <3>3
    <3> QED
      BY <1>1, <3>2, <3>3
  <2>3. Accepts(e, v) => e = "server" /\ ~ws["client"].closeFrameReceived
    BY <1>1, <1>3 DEF Accepts, Answers
  <2>4. "server" \in closeWritten \/ (e = "server" /\ Concludes(e, v) /\ ws[e].io = "open")
    BY <1>1 DEF Steps, Calm, Concludes
  <2>5. IF e = "server" /\ Concludes(e, v) /\ ws[e].io = "open" THEN LastFlow ELSE PlainFlow /\ "server" \in closeWritten
    BY <2>1, <2>2, <2>3, <2>4, NoRefusal, QuietFlow, AcceptFlow, ConcludeFlow DEF Steps, Calm, PlainFlow
  <2>6. Warned(q, FALSE) /\ ("server" \in closeWritten => Shown(q, FALSE))
    <3>1. CASE "server" \in closeWritten
      BY <2>2, <2>3, <3>1 DEF Steps, FollowInv, Follows, Warned, Shown
    <3>2. CASE "server" \notin closeWritten
      <4>1. \A i \in 1..Len(q) : q[i].kind # "fin"
        BY <1>1, <2>4, <3>2 DEF Steps, SafeInv
      <4> QED
        BY <3>2, <4>1 DEF Warned
    <3> QED
      BY <3>1, <3>2
  <2> DEFINE Fits(t) == Warned(t, FALSE) /\ Shown(t, FALSE)
  <2>7. ASSUME NEW u \in Seq(Carried), Warned(u, FALSE), NEW f \in Carried, f.kind = "fin" => Shown(u, FALSE),
               Shown(u, FALSE) \/ f.kind = "close"
        PROVE  Append(u, f) \in Seq(Carried) /\ Fits(Append(u, f))
    <3>1. PICK t : t = Append(u, f)
      OBVIOUS
    <3>2. t \in Seq(Carried)
      BY <2>7, <3>1
    <3>3. Warned(t, FALSE) /\ (Shown(u, FALSE) \/ f.kind = "close" => Shown(t, FALSE))
      BY <1>1, <2>7, <3>1, AppendedWarns
    <3> QED
      BY <2>7, <3>1, <3>2, <3>3
  <2>8. Fin \in Carried /\ Fin.kind = "fin"
    BY DEF Fin, Frame, Frames, Carried
  <2>9. Fits(net'["server"])
    <3>1. CASE LastFlow
      <4>1. PICK f \in Carried : f.kind = "close" /\ net'["server"] \in {Append(q, f), Append(Append(q, f), Fin)}
        BY <3>1 DEF LastFlow
      <4>2. PICK t : t = Append(q, f)
        OBVIOUS
      <4>3. t \in Seq(Carried) /\ Fits(t)
        BY <1>1, <2>6, <2>7, <4>1, <4>2
      <4>4. Fits(Append(t, Fin))
        BY <2>7, <2>8, <4>3
      <4> QED
        BY <4>1, <4>2, <4>3, <4>4
    <3>2. CASE PlainFlow /\ "server" \in closeWritten
      <4>1. CASE net'["server"] = q
        BY <2>6, <3>2, <4>1
      <4>2. CASE \E f \in Carried : f.kind \in {"data", "ping", "pong"} /\ net'["server"] = Append(q, f)
        BY <1>1, <2>6, <2>7, <3>2, <4>2
      <4>3. CASE q # <<>> /\ Head(q).kind # "close" /\ net'["server"] = Tail(q)
        <5>1. PICK t : t = net'["server"]
          OBVIOUS
        <5>2. Fits(t)
          BY <1>1, <2>6, <3>2, <4>3, <5>1, TakenWarns
        <5> QED
          BY <5>1, <5>2
      <4>4. CASE net'["server"] = Append(q, Fin)
        BY <1>1, <2>6, <2>7, <2>8, <3>2, <4>4
      <4> QED
        BY <3>2, <4>1, <4>2, <4>3, <4>4 DEF PlainFlow
    <3> QED
      BY <2>5, <3>1, <3>2
  <2> QED
    BY <1>3, <2>9 DEF Warned, Shown
<1> QED
  BY <1>2, <1>3

(* The order in which the ends finish is kept. *)
LEMMA FollowsStep ==
  ASSUME NEW e \in Ends, NEW v \in Endpoints, Steps(e, v)
  PROVE  Follows'
<1> DEFINE w == ws[e]
           s == ws["server"]
           k == ws["client"]
<1>1. /\ w \in Endpoints /\ "client" \in Ends /\ "server" \in Ends
      /\ (e = "client" /\ Peer(e) = "server") \/ (e = "server" /\ Peer(e) = "client")
      /\ ws'[e] = v /\ \A x \in Ends : x # e => ws'[x] = ws[x]
      /\ Behaves(e, w) /\ Follows
  BY StepFacts DEF Steps, FollowInv
<1>2. /\ w.io # "open" => v.io # "open"
      /\ w.closeFrameReceived => v.closeFrameReceived
      /\ Reads(v) => Reads(w)
      /\ closeWritten' = closeWritten \/ (w.io = "open" /\ closeWritten' = closeWritten \cup {e})
  <2>1. CASE Idles(e, v) \/ Begins(e, v) \/ Sends(e, v) \/ Writes(e, v)
    <3>1. v.io = w.io /\ v.closeFrameReceived = w.closeFrameReceived
      BY <2>1 DEF Idles, Same, Begins, Calls, Sends, Writes, Keeps
    <3> QED
      BY <2>1, <3>1 DEF Reads, Steps, Calm, Concludes
  <2>2. CASE Accepts(e, v)
    BY <2>2 DEF Reads, Steps, Calm, Concludes, Accepts, Answers, Calls
  <2>3. CASE Finishes(e, v) \/ Closes(e, v)
    BY <2>3 DEF Reads, Steps, Calm, Concludes, Finishes, Same, Closes
  <2>4. CASE Concludes(e, v)
    BY <1>1, <2>4 DEF Reads, Concludes, Behaves
  <2> QED
    BY <2>1, <2>2, <2>3, <2>4, NoRefusal DEF Steps, Calm
<1>3. ASSUME Reads(w), ~Reads(v)
      PROVE  /\ s.io # "open" /\ ("server" \in closeWritten => k.closeFrameReceived)
             /\ e = "server" => ~Reads(k)
             /\ closeWritten' = closeWritten
  <2>1. Finishes(e, v)
    <3>1. CASE Idles(e, v) \/ Begins(e, v) \/ Sends(e, v) \/ Writes(e, v)
      <4>1. v.io = w.io
        BY <3>1 DEF Idles, Begins, Calls, Sends, Writes, Keeps
      <4> QED
        BY <1>3, <4>1 DEF Reads
    <3>2. CASE Accepts(e, v)
      BY <1>3, <3>2 DEF Reads, Accepts, Answers, Calls
    <3>3. CASE Closes(e, v)
      BY <1>3, <3>3 DEF Reads, Closes
    <3>4. CASE Concludes(e, v)
      BY <1>1, <1>3, <3>4 DEF Reads, Concludes, Behaves
    <3> QED
      BY <3>1, <3>2, <3>3, <3>4, NoRefusal DEF Steps, Calm
  <2>2. closeWritten' = closeWritten
    BY <1>1, <1>3 DEF Steps, Calm, Concludes, Behaves, Reads
  <2> QED
    BY <2>1, <2>2, FinishFollows
<1>4. "server" \in closeWritten' =>
        Warned(net'["server"], ws'["client"].closeFrameReceived) /\ Shown(net'["server"], ws'["client"].closeFrameReceived)
  BY ServerWarns
<1>5. CASE e = "server"
  <2>1. ws'["server"] = v /\ ws'["client"] = k
    BY <1>1, <1>5
  <2> QED
    BY <1>1, <1>2, <1>3, <1>4, <1>5, <2>1 DEF Follows
<1>6. CASE e = "client"
  <2>1. ws'["server"] = s /\ ws'["client"] = v
    BY <1>1, <1>6
  <2>2. v.io # "open" => w.io # "open" \/ (Reads(w) /\ ~Reads(v))
    <3>1. v.io # "ended"
      BY <1>6, BehavesStep DEF Behaves
    <3> QED
      BY <3>1 DEF Reads
  <2>3. "server" \in closeWritten' <=> "server" \in closeWritten
    BY <1>2, <1>6
  <2> QED
    BY <1>1, <1>2, <1>3, <1>4, <1>6, <2>1, <2>2, <2>3 DEF Follows
<1> QED
  BY <1>1, <1>5, <1>6

(* Every step keeps it, whoever closes and whenever. *)
LEMMA FollowStep ==
  ASSUME ~Compression, TypeOK, CodesInv, LastInv, SafeInv, FollowInv, [Next]_vars
  PROVE  FollowInv'
<1> SUFFICES ASSUME ~faulty' PROVE FollowInv'
  BY DEF FollowInv
<1>1. CASE UNCHANGED vars
  BY <1>1 DEF vars, FollowInv, Follows, Accepted
<1>2. CASE Next
  <2>1. PICK e \in Ends, v \in Endpoints : Calm(e, v)
    BY <1>2, CalmSteps
  <2>2. ~faulty
    BY <1>2, Histories
  <2>3. Steps(e, v)
    BY <2>1, <2>2 DEF Steps
  <2>4. \A x \in Ends : Behaves(x, ws'[x])
    BY <2>3, StepFacts, BehavesStep
  <2> QED
    BY <2>3, <2>4, WelcomeStep, FollowsStep, AcceptedStep DEF FollowInv
<1> QED
  BY <1>1, <1>2

-----------------------------------------------------------------------------
(* A connection that one owner closes -------------------------------------*)
(* Nobody called close().                                                  *)
Busy ==
  /\ closeWritten = {}
  /\ \A e \in Ends :
       /\ ~ws[e].closeCalled /\ ~ws[e].closeFrameReceived /\ ~ws[e].closeFrameSent /\ ws[e].writerChecks
       /\ ws[e].waiting.by = "none" /\ ws[e].io = "open"
       /\ ws[e].errors = 0 /\ ws[e].closed = <<>> /\ ws[e].closeCode = 0
       /\ \A i \in 1..Len(net[e]) : net[e][i].kind \in {"data", "ping", "pong"}

(* The owner of a called close(c): its peer answers, and only answers.      *)
Parties(a, c) ==
  /\ ws[a].closeCalled /\ (a \in closeWritten => MaySend(a, c))
  /\ ws[a].waiting.by \in {"none", "user"} /\ ws[Peer(a)].waiting.by \in {"none", "reply"}
  /\ ws[a].writerChecks \/ ws[a].closeFrameReceived
  /\ ws[Peer(a)].closeCalled => ws[Peer(a)].closeFrameReceived

(* The server finishes the connection, when both close frames went through, *)
(* and the client follows.                                                 *)
Ordered ==
  LET s == ws["server"]
      k == ws["client"]
  IN  /\ s.closeCalled => ~s.readerChecks
      /\ s.io # "open" => s.closeFrameSent /\ s.closeFrameReceived
      /\ k.io # "open" => k.closeFrameSent /\ k.closeFrameReceived /\ s.io # "open"
      /\ k.io # "ended" /\ (Reads(s) \/ ~Reads(k))

(* One close frame of each end, with the code of the owner.                 *)
Single(w, c) ==
  \A i \in 1..Len(w.outbox) : w.outbox[i].kind = "close" =>
    /\ w.outbox[i].n = c /\ ~w.closeFrameSent
    /\ \A j \in 1..Len(w.outbox) : w.outbox[j].kind = "close" => j = i

Quiet(w, c) ==
  /\ w.errors = 0 /\ Single(w, c)
  /\ w.closeCode = IF w.closeFrameReceived THEN c ELSE 0
  /\ w.closed = IF w.io = "closed" THEN <<[code |-> c, wasClean |-> TRUE]>> ELSE <<>>

Quiets(c) ==
  \A e \in Ends :
    /\ Quiet(ws[e], c)
    /\ ws[e].closeFrameSent = (e \in closeWritten) /\ (ws[e].closeFrameSent => ws[e].closeCalled)
    /\ \A i \in 1..Len(net[e]) :
         net[e][i].kind \in {"data", "ping", "pong", "fin"} \/ (net[e][i].kind = "close" /\ net[e][i].n = c)

Closing(a, c) == Parties(a, c) /\ Ordered /\ Quiets(c)

CleanInv ==
  ~faulty =>
    /\ closers = {} => Busy
    /\ \A a \in Ends : \A c \in UserCodes : closers = {[end |-> a, code |-> c]} => Closing(a, c)

(* Nothing but another close frame could bring a second one into the outbox. *)
LEMMA SingleStays ==
  ASSUME NEW w \in Endpoints, NEW v, NEW c, Single(w, c),
         \/ v.outbox = w.outbox /\ v.closeFrameSent = w.closeFrameSent
         \/ /\ v.closeFrameSent = w.closeFrameSent /\ \E f : f.kind = "data" /\ v.outbox = Append(w.outbox, f)
         \/ v.closeFrameSent = w.closeFrameSent /\ w.outbox # <<>> /\ v.outbox = Tail(w.outbox)
         \/ w.outbox # <<>> /\ Head(w.outbox).kind = "close" /\ Holds(w.outbox, v.outbox)
  PROVE  Single(v, c)
<1>1. w.outbox \in Seq(Frames({"data", "close", "held"}))
  BY DEF Endpoints
<1>2. CASE v.outbox = w.outbox /\ v.closeFrameSent = w.closeFrameSent
  BY <1>2 DEF Single
<1>3. CASE v.closeFrameSent = w.closeFrameSent /\ \E f : f.kind = "data" /\ v.outbox = Append(w.outbox, f)
  <2>1. PICK f : f.kind = "data" /\ v.outbox = Append(w.outbox, f)
    BY <1>3
  <2>2. \A i \in 1..Len(v.outbox) : v.outbox[i] = f \/ (i \in 1..Len(w.outbox) /\ v.outbox[i] = w.outbox[i])
    BY <1>1, <2>1
  <2> QED
    BY <1>3, <2>1, <2>2 DEF Single
<1>4. CASE v.closeFrameSent = w.closeFrameSent /\ w.outbox # <<>> /\ v.outbox = Tail(w.outbox)
  <2>1. \A i \in 1..Len(v.outbox) : i \in Nat /\ i + 1 \in 1..Len(w.outbox) /\ v.outbox[i] = w.outbox[i + 1]
    BY <1>1, <1>4
  <2>2. ASSUME NEW i \in 1..Len(v.outbox), v.outbox[i].kind = "close", NEW j \in 1..Len(v.outbox), v.outbox[j].kind = "close"
        PROVE  j = i
    <3>1. j + 1 = i + 1
      BY <2>1, <2>2 DEF Single
    <3> QED
      BY <2>1, <3>1
  <2> QED
    BY <1>4, <2>1, <2>2 DEF Single
<1>5. CASE w.outbox # <<>> /\ Head(w.outbox).kind = "close" /\ Holds(w.outbox, v.outbox)
  <2>1. 1 \in 1..Len(w.outbox) /\ w.outbox[1].kind = "close"
    BY <1>1, <1>5
  <2>2. \A i \in 1..Len(w.outbox) : w.outbox[i].kind = "close" => i = 1
    BY <2>1 DEF Single
  <2>3. \A i \in 1..Len(v.outbox) : v.outbox[i].kind # "close"
    BY <1>1, <1>5, <2>2 DEF Holds
  <2> QED
    BY <2>3 DEF Single
<1> QED
  BY <1>2, <1>3, <1>4, <1>5

(* close() is called when there is none. *)
LEMMA SingleClose ==
  ASSUME NEW w \in Endpoints, NEW v, NEW c,
         \A i \in 1..Len(w.outbox) : w.outbox[i].kind = "data",
         v.outbox = Append(w.outbox, Frame("close", c)), ~v.closeFrameSent
  PROVE  Single(v, c)
<1>1. w.outbox \in Seq(Frames({"data", "close", "held"}))
  BY DEF Endpoints
<1>2. PICK f : f = Frame("close", c)
  OBVIOUS
<1>3. f.n = c
  BY <1>2 DEF Frame
<1>4. \A i \in 1..Len(v.outbox) : (i = Len(v.outbox) /\ v.outbox[i] = f) \/ (i \in 1..Len(w.outbox) /\ v.outbox[i] = w.outbox[i])
  BY <1>1, <1>2
<1> QED
  BY <1>3, <1>4 DEF Single

(* The first call of close() ends the quiet.                               *)
LEMMA BusyStep ==
  ASSUME TypeOK, CodesInv, Busy, NEW e \in Ends, NEW v \in Endpoints, Calm(e, v)
  PROVE  \/ closers' = closers /\ Busy'
         \/ \E c \in UserCodes : closers' = closers \cup {[end |-> e, code |-> c]} /\ Closing(e, c)'
<1> DEFINE w == ws[e]
           p == Peer(e)
<1>1. /\ p \in Ends /\ p # e /\ Peer(p) = e /\ w \in Endpoints /\ net \in Flows
      /\ \A x \in Ends : x = e \/ x = p
  BY Peers DEF TypeOK, Flows
<1>2. ws'[e] = v /\ ws'[p] = ws[p] /\ \A x \in Ends : x # e => ws'[x] = ws[x]
  BY <1>1, OthersStay DEF Calm
<1>3. /\ ~w.closeCalled /\ ~w.closeFrameReceived /\ ~w.closeFrameSent /\ w.writerChecks
      /\ w.waiting.by = "none" /\ w.io = "open" /\ w.errors = 0 /\ w.closed = <<>> /\ w.closeCode = 0
      /\ ws[p].io = "open" /\ closeWritten = {}
  BY <1>1 DEF Busy
<1>4. \A x \in Ends : \A i \in 1..Len(ws[x].outbox) : ws[x].outbox[i].kind = "data"
  BY DEF Busy, CodesInv
<1>5. ~Concludes(e, v)
  <2>1. w.outbox # <<>> => Head(w.outbox).kind = "data"
    BY <1>4, HeadOfOutbox
  <2> QED
    BY <2>1 DEF Concludes
<1>6. ~Accepts(e, v) /\ ~Refuses(e, v)
  <2>1. net[p] # <<>> => Head(net[p]).kind \in {"data", "ping", "pong"}
    <3>1. net[p] # <<>> => Head(net[p]) = net[p][1] /\ 1 \in 1..Len(net[p])
      BY <1>1 DEF Flows
    <3> QED
      BY <1>1, <3>1 DEF Busy
  <2> QED
    BY <2>1 DEF Accepts, Refuses
<1>7. ~Finishes(e, v) /\ ~Closes(e, v)
  <2>1. \A i \in 1..Len(net[p]) : net[p][i].kind # "fin"
    BY <1>1 DEF Busy
  <2> QED
    BY <1>3, <2>1 DEF Finishes, Closes, Reads
<1>8. Idles(e, v) \/ Begins(e, v) \/ Sends(e, v) \/ Writes(e, v)
  BY <1>5, <1>6, <1>7 DEF Calm
<1>9. closeWritten' = closeWritten /\ v.io = "open"
  BY <1>3, <1>5, <1>6, <1>7, <1>8 DEF Calm, Idles, Begins, Calls, Sends, Writes, Keeps
<1>10. ASSUME NEW x \in Ends, NEW i \in 1..Len(net'[x]) PROVE net'[x][i].kind \in {"data", "ping", "pong"}
  BY <1>5, <1>8, <1>9, <1>10, CalmFrames DEF Busy
<1>11. CASE ~Begins(e, v)
  <2>1. closers' = closers
    BY <1>5, <1>6, <1>7, <1>8, <1>11 DEF Calm, Idles
  <2>2. /\ ~v.closeCalled /\ ~v.closeFrameReceived /\ ~v.closeFrameSent /\ v.writerChecks
        /\ v.waiting.by = "none" /\ v.errors = 0 /\ v.closed = <<>> /\ v.closeCode = 0
    BY <1>3, <1>8, <1>11 DEF Idles, Same, Rests, Sends, Writes, Keeps
  <2>3. ASSUME NEW x \in Ends
        PROVE  /\ ~ws'[x].closeCalled /\ ~ws'[x].closeFrameReceived /\ ~ws'[x].closeFrameSent /\ ws'[x].writerChecks
               /\ ws'[x].waiting.by = "none" /\ ws'[x].io = "open"
               /\ ws'[x].errors = 0 /\ ws'[x].closed = <<>> /\ ws'[x].closeCode = 0
    BY <1>1, <1>2, <1>9, <2>2 DEF Busy
  <2> QED
    BY <1>3, <1>9, <1>10, <2>1, <2>3 DEF Busy
<1>12. CASE Begins(e, v)
  <2>1. PICK c \in UserCodes :
          /\ Calls(e, w, v, "user", c) /\ net' = net
          /\ v.closeFrameReceived = w.closeFrameReceived /\ v.closeCode = w.closeCode /\ v.writerChecks = w.writerChecks
          /\ closers' = closers \cup {[end |-> e, code |-> c]}
    BY <1>12 DEF Begins
  <2>2. /\ v.closeCalled /\ v.waiting.by = "user" /\ ~v.closeFrameReceived /\ v.closeCode = 0 /\ v.writerChecks
        /\ v.errors = 0 /\ v.closed = <<>> /\ ~v.closeFrameSent /\ (e = "server" => ~v.readerChecks)
        /\ v.outbox = Append(w.outbox, Frame("close", c))
    <3>1. /\ v.waiting = [by |-> "user", code |-> c] /\ v.readerChecks = (w.readerChecks /\ e = "client")
          /\ v.closeCalled /\ v.errors = w.errors /\ v.closed = w.closed /\ v.closeFrameSent = w.closeFrameSent
          /\ v.outbox = Append(w.outbox, Frame("close", c))
      BY <2>1 DEF Calls, Rests
    <3>2. e = "server" => ~v.readerChecks
      BY <3>1
    <3>3. v.waiting.by = "user"
      BY <3>1
    <3>4. ~v.closeFrameReceived /\ ~v.closeFrameSent
      BY <1>3, <2>1, <3>1
    <3>5. v.writerChecks /\ v.closeCode = 0 /\ v.errors = 0 /\ v.closed = <<>>
      BY <1>3, <2>1, <3>1
    <3> QED
      BY <3>1, <3>2, <3>3, <3>4, <3>5
  <2>3. Single(v, c)
    BY <1>1, <1>4, <2>2, SingleClose
  <2>4. Parties(e, c)'
    BY <1>1, <1>2, <1>3, <1>9, <2>2 DEF Parties, Busy
  <2>5. Ordered'
    <3>1. "server" \in Ends /\ "client" \in Ends
      BY DEF Ends
    <3>2. \A x \in Ends : ws'[x].io = "open" /\ ~ws'[x].closeFrameSent /\ (x # e => ~ws'[x].closeCalled)
      BY <1>1, <1>2, <1>9, <2>2 DEF Busy
    <3>3. ws'["server"].closeCalled => ~ws'["server"].readerChecks
      BY <1>2, <2>2, <3>1, <3>2
    <3> QED
      BY <3>1, <3>2, <3>3 DEF Ordered, Reads
  <2>6. Quiets(c)'
    <3>1. Quiet(v, c)
      BY <1>9, <2>2, <2>3 DEF Quiet
    <3>2. Quiet(ws[p], c)
      BY <1>1, <1>4 DEF Busy, Quiet, Single
    <3>3. ASSUME NEW x \in Ends PROVE Quiet(ws'[x], c) /\ ~ws'[x].closeFrameSent
      BY <1>1, <1>2, <2>2, <3>1, <3>2 DEF Busy
    <3>4. \A x \in Ends : ws'[x].closeFrameSent \in BOOLEAN
      BY <1>1, <1>2 DEF TypeOK, Endpoints
    <3> QED
      BY <1>3, <1>9, <1>10, <3>3, <3>4 DEF Quiets
  <2> QED
    BY <2>1, <2>4, <2>5, <2>6 DEF Closing
<1> QED
  BY <1>11, <1>12

(* What the close frames say of each other                                 *)
LEMMA ClosingFacts ==
  ASSUME TypeOK, MutualInv, NEW a \in Ends, NEW c \in UserCodes, Closing(a, c), NEW x \in Ends
  PROVE  /\ x \in closeWritten =>
              /\ ws[x].closeFrameSent /\ ws[x].closeCalled /\ MaySend(a, c)
              /\ MayReceive("client", c) /\ (a = "client" => MayReceive("server", c))
         /\ ws[x].closeFrameReceived => Peer(x) \in closeWritten
         /\ \A i \in 1..Len(net[x]) : net[x][i].kind = "close" => x \in closeWritten /\ net[x][i].n = c
         /\ ws[x].io # "open" => /\ ws[x].closeFrameSent /\ ws[x].closeFrameReceived
                                 /\ x = "client" => ws["server"].io # "open" /\ ws["client"].io # "ended"
<1>1. \A y \in Ends : y \in closeWritten => ws[y].closeFrameSent /\ ws[y].closeCalled
  BY DEF Closing, Quiets
<1>2. Peer(a) \in Ends /\ Peer(Peer(a)) = a /\ (x = a \/ x = Peer(a))
  BY Peers
<1>3. x \in closeWritten => a \in closeWritten
  <2>1. CASE x = Peer(a)
    BY <1>1, <1>2, <2>1 DEF Closing, Parties, MutualInv
  <2> QED
    BY <1>2, <2>1
<1>4. x \in closeWritten => MaySend(a, c)
  BY <1>3 DEF Closing, Parties
<1>5. MaySend(a, c) => MayReceive("client", c) /\ (a = "client" => MayReceive("server", c))
  BY ConnectionAssumption DEF MaySend, MayReceive, validServerCodes, validClientCodes
<1>6. /\ ws[x].closeFrameReceived => Peer(x) \in closeWritten
      /\ \A i \in 1..Len(net[x]) : net[x][i].kind = "close" => x \in closeWritten /\ net[x][i].n = c
  BY DEF MutualInv, Closing, Quiets
<1>7. ws[x].io # "open" => /\ ws[x].closeFrameSent /\ ws[x].closeFrameReceived
                           /\ x = "client" => ws["server"].io # "open" /\ ws["client"].io # "ended"
  BY DEF Closing, Ordered, Ends
<1> QED
  BY <1>1, <1>4, <1>5, <1>6, <1>7

(* What a step makes of the end that takes it                              *)
Fits(a, c, e, v) ==
  /\ ws[e].closeCalled => v.closeCalled
  /\ ws[e].closeFrameReceived => v.closeFrameReceived
  /\ v.waiting.by \in {ws[e].waiting.by, "none"} \/ (e # a /\ v.waiting.by = "reply")
  /\ ws[e].writerChecks => v.writerChecks \/ v.closeFrameReceived
  /\ v.closeCalled => ws[e].closeCalled \/ v.closeFrameReceived
  /\ e = "server" /\ v.closeCalled => ~v.readerChecks
  /\ ws[e].io # "open" => v.io # "open"
  /\ v.io # "open" => /\ v.closeFrameSent /\ v.closeFrameReceived
                      /\ e = "client" => ws["server"].io # "open" /\ v.io # "ended"
  /\ e = "server" => Reads(v) \/ ~Reads(ws["client"])
  /\ e = "client" => Reads(ws["server"]) \/ ~Reads(v)
  /\ Quiet(v, c) /\ v.closeFrameSent = (e \in closeWritten') /\ (v.closeFrameSent => v.closeCalled)
  /\ closeWritten' \in {closeWritten, closeWritten \cup {e}} /\ (a \in closeWritten' => MaySend(a, c))

(* A step that leaves the closing handshake alone *)
LEMMA SameFits ==
  ASSUME TypeOK, CodesInv, NEW a \in Ends, NEW c \in UserCodes, Closing(a, c),
         NEW e \in Ends, NEW v \in Endpoints, closeWritten' = closeWritten,
         Idles(e, v) \/ Sends(e, v) \/ Writes(e, v)
  PROVE  Fits(a, c, e, v)
<1> DEFINE w == ws[e]
<1>1. w \in Endpoints
  BY DEF TypeOK
<1>2. Quiet(w, c) /\ w.closeFrameSent = (e \in closeWritten) /\ (w.closeFrameSent => w.closeCalled)
  BY DEF Closing, Quiets
<1>3. /\ v.closeFrameSent = w.closeFrameSent /\ v.errors = w.errors /\ v.closed = w.closed
      /\ v.closeCalled = w.closeCalled /\ v.closeFrameReceived = w.closeFrameReceived
      /\ v.closeCode = w.closeCode /\ v.writerChecks = w.writerChecks /\ v.readerChecks = w.readerChecks
      /\ v.waiting = w.waiting /\ v.io = w.io
  BY DEF Idles, Same, Rests, Sends, Writes, Keeps
<1>4. Single(v, c)
  <2>1. \/ v.outbox = w.outbox \/ \E f : f.kind = "data" /\ v.outbox = Append(w.outbox, f)
        \/ w.outbox # <<>> /\ v.outbox = Tail(w.outbox)
    <3>1. Frame("data", v.sends).kind = "data"
      BY DEF Frame
    <3> QED
      BY <3>1 DEF Idles, Same, Sends, Writes
  <2> QED
    BY <1>1, <1>2, <1>3, <2>1, SingleStays DEF Quiet
<1>5. Quiet(v, c)
  BY <1>2, <1>3, <1>4 DEF Quiet
<1>6. /\ e = "server" /\ w.closeCalled => ~w.readerChecks
      /\ w.io # "open" => /\ w.closeFrameSent /\ w.closeFrameReceived
                          /\ e = "client" => ws["server"].io # "open" /\ w.io # "ended"
      /\ Reads(ws["server"]) \/ ~Reads(ws["client"])
      /\ a \in closeWritten => MaySend(a, c)
  BY DEF Closing, Ordered, Parties, Ends
<1> QED
  BY <1>2, <1>3, <1>5, <1>6 DEF Fits, Reads

(* The 'close' event *)
LEMMA ClosedFits ==
  ASSUME TypeOK, NEW a \in Ends, NEW c \in UserCodes, Closing(a, c),
         NEW e \in Ends, NEW v \in Endpoints, closeWritten' = closeWritten, Closes(e, v)
  PROVE  Fits(a, c, e, v)
<1> DEFINE w == ws[e]
<1>1. w \in Endpoints
  BY DEF TypeOK
<1>2. Quiet(w, c) /\ w.closeFrameSent = (e \in closeWritten) /\ (w.closeFrameSent => w.closeCalled)
  BY DEF Closing, Quiets
<1>3. /\ v.closeFrameSent = w.closeFrameSent /\ v.errors = w.errors
      /\ v.closeCalled = w.closeCalled /\ v.closeFrameReceived = w.closeFrameReceived
      /\ v.closeCode = w.closeCode /\ v.writerChecks = w.writerChecks /\ v.readerChecks = w.readerChecks
      /\ v.waiting = w.waiting /\ v.outbox = w.outbox /\ w.io = "destroyed" /\ v.io = "closed"
  BY DEF Closes
<1>4. /\ e = "server" /\ w.closeCalled => ~w.readerChecks
      /\ w.closeFrameSent /\ w.closeFrameReceived
      /\ e = "client" => ws["server"].io # "open"
      /\ Reads(ws["server"]) \/ ~Reads(ws["client"])
      /\ a \in closeWritten => MaySend(a, c)
  BY <1>3 DEF Closing, Ordered, Parties, Ends
<1>5. ~Reads(w) /\ ~Reads(v)
  BY <1>3 DEF Reads
<1>6. ReportedCode(w) = c
  BY <1>2, <1>4, ConnectionAssumption DEF Quiet, ReportedCode
<1>7. v.closed = <<[code |-> c, wasClean |-> TRUE]>>
  <2>1. w.closed = <<>>
    BY <1>2, <1>3 DEF Quiet
  <2>2. PICK r : r = [code |-> c, wasClean |-> TRUE]
    OBVIOUS
  <2>3. v.closed = Append(w.closed, r)
    BY <1>1, <1>4, <1>6, <2>2 DEF Closes, Endpoints
  <2> QED
    BY <2>1, <2>2, <2>3
<1>8. Quiet(v, c)
  BY <1>1, <1>2, <1>3, <1>7, SingleStays DEF Quiet
<1> QED
  BY <1>2, <1>3, <1>4, <1>5, <1>8 DEF Fits

(* A close frame that is accepted is answered, or it is the answer.         *)
LEMMA AcceptFits ==
  ASSUME TypeOK, CodesInv, MutualInv, NEW a \in Ends, NEW c \in UserCodes, Closing(a, c),
         NEW e \in Ends, NEW v \in Endpoints, closeWritten' = closeWritten, Accepts(e, v)
  PROVE  /\ Fits(a, c, e, v)
         /\ v.closeFrameReceived /\ (e = "client" \/ ws["client"].io = "open")
         /\ v.io # ws[e].io => e = "server" /\ v.io = "ended" /\ ws["client"].closeFrameReceived
<1> DEFINE w == ws[e]
           p == Peer(e)
           f == Head(net[p])
<1>1. w \in Endpoints /\ p \in Ends /\ net \in Flows /\ Peer(p) = e /\ p # e
  BY Peers DEF TypeOK, Flows
<1>2. Quiet(w, c) /\ w.closeFrameSent = (e \in closeWritten) /\ (w.closeFrameSent => w.closeCalled)
  BY DEF Closing, Quiets
<1>3. f = net[p][1] /\ 1 \in 1..Len(net[p]) /\ f.kind = "close" /\ Answers(e, w, v, f.n) /\ Reads(w)
  BY <1>1 DEF Accepts, Flows
<1>4. p \in closeWritten /\ f.n = c /\ ws[p].closeCalled
  BY <1>1, <1>3, ClosingFacts
<1>5. /\ v.closeFrameReceived /\ ~w.closeFrameReceived /\ v.closeCode = c /\ v.closeCalled
      /\ v.closeFrameSent = w.closeFrameSent /\ v.errors = w.errors /\ v.closed = w.closed
  BY <1>3, <1>4 DEF Answers, Calls, Rests
<1>6. /\ e = "server" /\ w.closeCalled => ~w.readerChecks
      /\ w.io # "open" => w.closeFrameReceived
      /\ Reads(ws["server"]) \/ ~Reads(ws["client"])
      /\ a \in closeWritten => MaySend(a, c)
      /\ ws["client"].io # "open" => ws["server"].io # "open"
  BY DEF Closing, Ordered, Parties, Ends
<1>7. w.io = "open"
  BY <1>5, <1>6
<1>8. e = "server" => ws["client"].io = "open"
  BY <1>6, <1>7
<1>9. CASE Calls(e, w, v, "reply", c)
  <2>1. e # a
    BY <1>9 DEF Calls, Closing, Parties
  <2>2. /\ ~w.closeCalled /\ v.waiting.by = "reply" /\ v.io = "open" /\ v.outbox = Append(w.outbox, Frame("close", c))
        /\ e = "server" => ~v.readerChecks
    <3>1. /\ ~w.closeCalled /\ v.waiting = [by |-> "reply", code |-> c] /\ v.io = w.io
          /\ v.outbox = Append(w.outbox, Frame("close", c)) /\ v.readerChecks = (w.readerChecks /\ e = "client")
      BY <1>9 DEF Calls
    <3>2. e = "server" => ~v.readerChecks
      BY <3>1
    <3> QED
      BY <1>7, <3>1, <3>2
  <2>3. Single(v, c)
    BY <1>1, <1>2, <1>5, <2>2, SingleClose DEF CodesInv
  <2>4. Quiet(v, c)
    BY <1>2, <1>5, <1>7, <2>2, <2>3 DEF Quiet
  <2>5. Fits(a, c, e, v)
    BY <1>2, <1>5, <1>6, <1>7, <2>1, <2>2, <2>4 DEF Fits, Reads
  <2> QED
    BY <1>5, <1>7, <1>8, <2>2, <2>5, Peers DEF Ends
<1>10. CASE ~Calls(e, w, v, "reply", c)
  <2>1. /\ w.closeCalled /\ v.readerChecks = w.readerChecks /\ v.waiting = w.waiting /\ v.outbox = w.outbox
        /\ v.io = IF e = "server" /\ w.io = "open" THEN "ended" ELSE w.io
    BY <1>3, <1>4, <1>10 DEF Answers
  <2>2. e = a
    <3>1. e = a \/ e = Peer(a)
      BY Peers
    <3> QED
      BY <1>5, <2>1, <3>1 DEF Closing, Parties
  <2>3. ws[p].closeFrameReceived /\ w.closeFrameSent
    <3>1. ws[p].closeFrameReceived
      BY <1>4, <2>2 DEF Closing, Parties
    <3> QED
      BY <1>1, <3>1, ClosingFacts
  <2>4. Quiet(v, c)
    <3>1. Single(v, c)
      BY <1>1, <1>2, <1>5, <2>1, SingleStays DEF Quiet
    <3> QED
      BY <1>2, <1>5, <1>7, <2>1, <3>1 DEF Quiet
  <2>5. p = "client" <=> e = "server"
    BY DEF Ends, Peer
  <2>6. Fits(a, c, e, v)
    BY <1>2, <1>5, <1>6, <1>7, <2>1, <2>3, <2>4 DEF Fits, Reads
  <2> QED
    BY <1>5, <1>7, <1>8, <2>1, <2>3, <2>5, <2>6 DEF Ends
<1> QED
  BY <1>9, <1>10

(* The connection ends when both close frames went through: at the server   *)
(* before the client.                                                      *)
LEMMA FinishFits ==
  ASSUME MutualInv, NEW a \in Ends, NEW c \in UserCodes, Closing(a, c),
         NEW e \in Ends, NEW v \in Endpoints, Steps(e, v), closeWritten' = closeWritten, Finishes(e, v)
  PROVE  Fits(a, c, e, v)
<1> DEFINE w == ws[e]
<1>1. TypeOK /\ w \in Endpoints /\ "client" \in Ends /\ "server" \in Ends
  BY DEF Steps, TypeOK, Ends
<1>2. Quiet(w, c) /\ w.closeFrameSent = (e \in closeWritten) /\ (w.closeFrameSent => w.closeCalled)
  BY DEF Closing, Quiets
<1>3. /\ v.closeFrameSent = w.closeFrameSent /\ v.errors = w.errors /\ v.closed = w.closed
      /\ v.closeCalled = w.closeCalled /\ v.closeFrameReceived = w.closeFrameReceived
      /\ v.closeCode = w.closeCode /\ v.writerChecks = w.writerChecks /\ v.readerChecks = w.readerChecks
      /\ v.waiting = w.waiting /\ v.outbox = w.outbox /\ v.io = "destroyed" /\ Reads(w)
  BY DEF Finishes, Same, Rests
<1>4. /\ e = "server" /\ w.closeCalled => ~w.readerChecks
      /\ Reads(ws["server"]) \/ ~Reads(ws["client"])
      /\ ws["client"].io # "ended"
      /\ ws["client"].io # "open" => ws["client"].closeFrameReceived /\ ws["server"].io # "open"
      /\ ws["server"].io # "open" => ws["server"].closeFrameSent /\ ws["server"].closeFrameReceived
      /\ a \in closeWritten => MaySend(a, c)
  BY DEF Closing, Ordered, Parties
<1>5. ws["server"].io # "open" /\ (e = "server" => ~Reads(ws["client"]))
  BY FinishFollows
<1>6. ws["client"].closeFrameReceived
  <2>1. "server" \in closeWritten
    BY <1>1, <1>4, <1>5 DEF Closing, Quiets
  <2> QED
    BY <2>1, FinishFollows
<1>7. w.closeFrameSent /\ w.closeFrameReceived
  <2>1. ws["server"].closeFrameSent /\ ws["server"].closeFrameReceived
    BY <1>4, <1>5
  <2>2. "client" \in closeWritten
    BY <1>1, <2>1, ClosingFacts DEF Peer
  <2>3. ws["client"].closeFrameSent
    BY <1>1, <2>2, ClosingFacts
  <2> QED
    BY <1>6, <2>1, <2>3 DEF Ends
<1>8. Quiet(v, c)
  <2>1. Single(v, c)
    BY <1>1, <1>2, <1>3, SingleStays DEF Quiet
  <2> QED
    BY <1>2, <1>3, <2>1 DEF Quiet, Reads
<1>9. ~Reads(v)
  BY <1>3 DEF Reads
<1> QED
  BY <1>2, <1>3, <1>4, <1>5, <1>7, <1>8, <1>9 DEF Fits

(* The close frame is written on a socket that is still open.               *)
LEMMA ConcludeFits ==
  ASSUME TypeOK, CodesInv, MutualInv, NEW a \in Ends, NEW c \in UserCodes, Closing(a, c),
         NEW e \in Ends, NEW v \in Endpoints, Concludes(e, v)
  PROVE  Fits(a, c, e, v) /\ ws[e].io = "open" /\ v.closeFrameReceived = ws[e].closeFrameReceived
         /\ v.io \in {"open", "ended"} /\ Head(ws[e].outbox).n = c
<1> DEFINE w == ws[e]
           f == Head(w.outbox)
<1>1. w \in Endpoints /\ (e = a \/ e = Peer(a))
  BY Peers DEF TypeOK
<1>2. Quiet(w, c) /\ w.closeFrameSent = (e \in closeWritten) /\ (w.closeFrameSent => w.closeCalled)
  BY DEF Closing, Quiets
<1>3. w.outbox # <<>> /\ f.kind = "close" /\ f = w.outbox[1] /\ 1 \in 1..Len(w.outbox)
  BY HeadOfOutbox DEF Concludes
<1>4. f.n = c /\ ~w.closeFrameSent
  BY <1>2, <1>3 DEF Quiet, Single
<1>5. w.closeCalled
  BY <1>3 DEF CodesInv
<1>6. w.io = "open"
  BY <1>4, ClosingFacts
<1>7. w.waiting.by \in {"none", "user", "reply"} /\ (w.waiting.by = "reply" => e # a)
  BY <1>1 DEF Closing, Parties
<1>8. /\ v.closeFrameSent = TRUE /\ v.errors = w.errors /\ v.closed = w.closed
      /\ v.closeCalled = w.closeCalled /\ v.closeFrameReceived = w.closeFrameReceived
      /\ v.closeCode = w.closeCode /\ v.writerChecks = w.writerChecks /\ v.readerChecks = w.readerChecks
      /\ v.waiting.by = "none" /\ v.io = IF w.waiting.by = "reply" /\ e = "server" THEN "ended" ELSE "open"
      /\ closeWritten' = closeWritten \cup {e} /\ (w.writerChecks => MaySend(e, c)) /\ Holds(w.outbox, v.outbox)
  BY <1>4, <1>6, <1>7 DEF Concludes
<1>9. e # a => w.closeFrameReceived
  BY <1>1, <1>5 DEF Closing, Parties
<1>10. a \in closeWritten' => MaySend(a, c)
  <2>1. CASE a \in closeWritten
    BY <2>1 DEF Closing, Parties
  <2>2. CASE a \notin closeWritten
    <3>1. ~ws[a].closeFrameReceived
      <4>1. ws[a].closeFrameReceived => Peer(a) \in closeWritten
        BY ClosingFacts
      <4>2. Peer(a) \in closeWritten => ws[Peer(a)].closeCalled
        BY Peers, ClosingFacts
      <4>3. ws[Peer(a)].closeCalled => a \in closeWritten
        BY Peers DEF MutualInv, Closing, Parties
      <4> QED
        BY <2>2, <4>1, <4>2, <4>3
    <3>2. ws[a].writerChecks
      BY <3>1 DEF Closing, Parties
    <3> QED
      BY <1>8, <2>2, <3>2
  <2> QED
    BY <2>1, <2>2
<1>11. Quiet(v, c)
  <2>1. Single(v, c)
    BY <1>1, <1>2, <1>3, <1>8, SingleStays DEF Quiet
  <2> QED
    BY <1>2, <1>6, <1>8, <2>1 DEF Quiet
<1>12. /\ e = "server" /\ w.closeCalled => ~w.readerChecks
       /\ Reads(ws["server"]) \/ ~Reads(ws["client"])
  BY DEF Closing, Ordered
<1>13. Reads(v) /\ Reads(w)
  BY <1>6, <1>8 DEF Reads
<1>14. v.io # "open" => v.closeFrameReceived /\ e = "server"
  BY <1>7, <1>8, <1>9
<1>15. Fits(a, c, e, v)
  BY <1>5, <1>6, <1>8, <1>10, <1>11, <1>12, <1>13, <1>14 DEF Fits
<1> QED
  BY <1>4, <1>6, <1>8, <1>15

(* The closing handshake of one owner, step by step                        *)
LEMMA ClosingStep ==
  ASSUME MutualInv, NEW a \in Ends, NEW c \in UserCodes, Closing(a, c),
         NEW e \in Ends, NEW v \in Endpoints, Steps(e, v), ~Begins(e, v)
  PROVE  Closing(a, c)'
<1> DEFINE w == ws[e]
           p == Peer(e)
<1>1. /\ w \in Endpoints /\ p \in Ends /\ p # e /\ Peer(p) = e /\ \A x \in Ends : x = e \/ x = p
      /\ Peer(a) \in Ends /\ Peer(a) # a /\ Peer(Peer(a)) = a /\ \A x \in Ends : x = a \/ x = Peer(a)
      /\ "client" \in Ends /\ "server" \in Ends
      /\ \A x \in Ends : x = "client" \/ x = "server"
  BY Peers DEF Steps, TypeOK, Ends
<1>2. ws'[e] = v /\ \A x \in Ends : x # e => ws'[x] = ws[x]
  BY OthersStay DEF Steps, Calm
<1>3. ~Refuses(e, v)
  BY NoRefusal
<1>4. Fits(a, c, e, v)
  <2>1. CASE Concludes(e, v)
    BY <2>1, ConcludeFits DEF Steps
  <2>2. CASE closeWritten' = closeWritten /\ ~Concludes(e, v)
    BY <1>3, <2>2, SameFits, ClosedFits, AcceptFits, FinishFits DEF Steps, Calm
  <2> QED
    BY <2>1, <2>2 DEF Steps, Calm
<1>5. Parties(a, c)'
  <2>1. Parties(a, c)
    BY DEF Closing
  <2>2. CASE e = a
    BY <1>1, <1>2, <1>4, <2>1, <2>2 DEF Fits, Parties
  <2>3. CASE e = Peer(a)
    BY <1>1, <1>2, <1>4, <2>1, <2>3 DEF Fits, Parties
  <2> QED
    BY <1>1, <2>2, <2>3
<1>6. Ordered'
  <2>1. Ordered
    BY DEF Closing
  <2>2. CASE e = "server"
    <3>1. ws'["client"] = ws["client"] /\ ws'["server"] = v
      BY <1>1, <1>2, <2>2
    <3> QED
      BY <1>4, <2>1, <2>2, <3>1 DEF Fits, Ordered, Reads
  <2>3. CASE e = "client"
    <3>1. ws'["client"] = v /\ ws'["server"] = ws["server"]
      BY <1>1, <1>2, <2>3
    <3> QED
      BY <1>4, <2>1, <2>3, <3>1 DEF Fits, Ordered, Reads
  <2> QED
    BY <1>1, <2>2, <2>3
<1>7. Quiets(c)'
  <2>1. Quiets(c)
    BY DEF Closing
  <2>2. ASSUME NEW x \in Ends
        PROVE  /\ Quiet(ws'[x], c)
               /\ ws'[x].closeFrameSent = (x \in closeWritten') /\ (ws'[x].closeFrameSent => ws'[x].closeCalled)
    <3>1. CASE x = e
      BY <1>2, <1>4, <3>1 DEF Fits
    <3>2. CASE x # e
      <4>1. x \in closeWritten' <=> x \in closeWritten
        BY <1>4, <3>2 DEF Fits
      <4> QED
        BY <1>2, <2>1, <3>2, <4>1 DEF Quiets
    <3> QED
      BY <3>1, <3>2
  <2>3. ASSUME NEW x \in Ends, NEW i \in 1..Len(net'[x])
        PROVE  net'[x][i].kind \in {"data", "ping", "pong", "fin"} \/ (net'[x][i].kind = "close" /\ net'[x][i].n = c)
    <3>1. CASE Concludes(e, v) /\ net'[x][i] = w.outbox[1]
      <4>1. Head(w.outbox).n = c
        BY <3>1, ConcludeFits DEF Steps
      <4>2. Head(w.outbox).kind = "close" /\ Head(w.outbox) = w.outbox[1]
        BY <3>1, HeadOfOutbox DEF Concludes, Steps
      <4> QED
        BY <3>1, <4>1, <4>2
    <3>2. CASE \E j \in 1..Len(net[x]) : net'[x][i] = net[x][j]
      BY <2>1, <3>2 DEF Quiets
    <3> QED
      BY <2>3, <3>1, <3>2, CalmFrames DEF Steps, Calm
  <2> QED
    BY <2>2, <2>3 DEF Quiets
<1> QED
  BY <1>5, <1>6, <1>7 DEF Closing

(* Whoever closes, and whenever. *)
LEMMA CleanStep ==
  ASSUME ~Compression, TypeOK, CodesInv, MutualInv, LastInv, SafeInv, FollowInv, CleanInv, [Next]_vars
  PROVE  CleanInv'
<1> SUFFICES ASSUME ~faulty'
             PROVE  /\ closers' = {} => Busy'
                    /\ \A a \in Ends : \A c \in UserCodes : closers' = {[end |-> a, code |-> c]} => Closing(a, c)'
  BY DEF CleanInv
<1>1. CASE UNCHANGED vars
  BY <1>1 DEF vars, CleanInv, Busy, Closing, Parties, Ordered, Quiets
<1>2. CASE Next
  <2>1. PICK e \in Ends, v \in Endpoints : Calm(e, v)
    BY <1>2, CalmSteps
  <2>2. ~faulty
    BY <1>2, Histories
  <2>3. \/ closers' = closers
        \/ Begins(e, v) /\ \E code \in UserCodes : closers' = closers \cup {[end |-> e, code |-> code]}
    BY <2>1 DEF Calm, Idles, Accepts, Refuses, Finishes, Concludes, Begins
  <2>4. closers' = {} => Busy'
    <3>1. ASSUME closers' = {} PROVE closers = {} /\ \A c : closers' # closers \cup {[end |-> e, code |-> c]}
      BY <2>3, <3>1
    <3> QED
      BY <2>1, <2>2, <3>1, BusyStep DEF CleanInv
  <2>5. ASSUME NEW a \in Ends, NEW c \in UserCodes, closers' = {[end |-> a, code |-> c]}
        PROVE  Closing(a, c)'
    <3>1. closers = {} \/ closers = {[end |-> a, code |-> c]}
      BY <2>3, <2>5
    <3>2. ASSUME NEW d, closers' = closers \cup {[end |-> e, code |-> d]} PROVE e = a /\ d = c
      <4>1. [end |-> e, code |-> d] = [end |-> a, code |-> c]
        BY <2>5, <3>2
      <4> QED
        BY <4>1
    <3>3. CASE closers = {}
      <4>1. PICK d \in UserCodes : closers' = closers \cup {[end |-> e, code |-> d]} /\ Closing(e, d)'
        BY <2>1, <2>2, <2>5, <3>3, BusyStep DEF CleanInv
      <4> QED
        BY <3>2, <4>1
    <3>4. CASE closers = {[end |-> a, code |-> c]}
      <4>1. Closing(a, c)
        BY <2>2, <3>4 DEF CleanInv
      <4>2. ~Begins(e, v)
        <5>1. ASSUME Begins(e, v) PROVE e = a /\ ~ws[e].closeCalled
          BY <3>2, <5>1 DEF Begins, Calls
        <5> QED
          BY <4>1, <5>1 DEF Closing, Parties
      <4> QED
        BY <2>1, <2>2, <4>1, <4>2, ClosingStep DEF Steps
    <3> QED
      BY <3>1, <3>3, <3>4
  <2> QED
    BY <2>4, <2>5
<1> QED
  BY <1>1, <1>2

(* The same with what is known of every connection                         *)
CloseInv == Inv /\ FollowInv /\ CleanInv /\ IsFiniteSet(closers)

(* It holds in every state when received messages are not inflated. *)
LEMMA CloseHolds == ~Compression => (Spec => []CloseInv)
<1> SUFFICES ASSUME ~Compression PROVE Spec => []CloseInv
  OBVIOUS
<1>1. Init => CloseInv
  <2> SUFFICES ASSUME Init PROVE CloseInv
    OBVIOUS
  <2>1. Inv
    BY InitInv, InitMessages DEF Inv
  <2>2. /\ \A x \in Ends : ws[x] = Started /\ net[x] = <<>>
        /\ closers = {} /\ closeWritten = {}
    BY DEF Init
  <2>3. Busy
    BY <2>2 DEF Busy, Started
  <2>4. CleanInv
    BY <2>2, <2>3 DEF CleanInv
  <2>5. FollowInv
    <3>1. "client" \in Ends /\ "server" \in Ends
      BY DEF Ends
    <3> QED
      BY <2>2, <3>1 DEF FollowInv, Behaves, Welcome, Follows, Accepted, Started, Reads
  <2> QED
    BY <2>1, <2>2, <2>4, <2>5, FS_EmptySet DEF CloseInv
<1>2. CloseInv /\ [Next]_vars => CloseInv'
  <2> SUFFICES ASSUME CloseInv, [Next]_vars PROVE CloseInv'
    OBVIOUS
  <2>1. Inv'
    BY InvStep DEF CloseInv
  <2>2. CleanInv'
    BY CleanStep DEF CloseInv, Inv
  <2>3. IsFiniteSet(closers')
    <3>1. closers' = closers \/ \E c : closers' = closers \cup {c}
      BY Histories DEF vars
    <3> QED
      BY <3>1, FS_AddElement DEF CloseInv
  <2>4. FollowInv'
    BY FollowStep DEF CloseInv, Inv
  <2> QED
    BY <2>1, <2>2, <2>3, <2>4 DEF CloseInv
<1> QED
  BY <1>1, <1>2, PTL DEF Spec

(* A connection that one owner at most closes is in one of two situations.  *)
LEMMA OneCloser ==
  ASSUME TypeOK, CleanInv, IsFiniteSet(closers), ~faulty, OneOwnerCloses
  PROVE  \/ Busy
         \/ \E a \in Ends : \E c \in UserCodes : closers = {[end |-> a, code |-> c]} /\ Closing(a, c)
<1>1. Cardinality(closers) \in Nat /\ Cardinality(closers) <= 1 /\ ~faulty
  BY FS_CardinalityType DEF OneOwnerCloses
<1>2. CASE Cardinality(closers) = 0
  BY <1>1, <1>2, FS_EmptySet DEF CleanInv
<1>3. CASE Cardinality(closers) = 1
  <2>1. PICK x : closers = {x}
    BY <1>3, FS_Singleton
  <2>2. x \in [end : Ends, code : UserCodes]
    BY <2>1 DEF TypeOK
  <2>3. PICK a \in Ends, c \in UserCodes : x = [end |-> a, code |-> c]
    BY <2>2
  <2> QED
    BY <1>1, <2>1, <2>3 DEF CleanInv
<1> QED
  BY <1>1, <1>2, <1>3

(* Uncompressed, and with nothing that fails: no end emits an error, whoever *)
(* closes; and the connection that one owner closes is closed cleanly at     *)
(* both ends, with the code of that close().                                *)
THEOREM ClosesAreClean == ~Compression => (Spec => []CloseIsClean)
<1> SUFFICES ASSUME ~Compression PROVE Spec => []CloseIsClean
  OBVIOUS
<1>1. CloseInv => CloseIsClean
  <2> SUFFICES ASSUME CloseInv, ~faulty, NEW e \in Ends
               PROVE  ws[e].errors = 0 /\ (OneOwnerCloses /\ IsClosed(e) => Clean(e))
    BY DEF CloseIsClean
  <2>1. ws[e].errors = 0
    BY DEF CloseInv, FollowInv, Behaves
  <2>2. ASSUME OneOwnerCloses, IsClosed(e) PROVE Clean(e)
    <3>1. PICK a \in Ends, c \in UserCodes : closers = {[end |-> a, code |-> c]} /\ Closing(a, c)
      BY <2>2, OneCloser DEF CloseInv, Inv, Busy, IsClosed
    <3>2. ws[e].closed = IF ws[e].io = "closed" THEN <<[code |-> c, wasClean |-> TRUE]>> ELSE <<>>
      BY <3>1 DEF Closing, Quiets, Quiet
    <3>3. PICK x \in closers : x.code = c
      BY <3>1
    <3> QED
      BY <2>2, <3>2, <3>3 DEF IsClosed, Clean
  <2> QED
    BY <2>1, <2>2
<1> QED
  BY <1>1, CloseHolds, PTL

(* An end that reports the close was given the close frame of the other one, *)
(* unless both owners closed and the server never got to write its own.     *)
LEMMA ClosedIsTold ==
  ASSUME CloseInv, ~faulty, NEW e \in Ends, IsClosed(e), ~LosesItsQueue(Peer(e))
  PROVE  ws[e].closeFrameReceived
<1>1. Behaves(e, ws[e]) /\ Follows
  BY DEF CloseInv, FollowInv
<1>2. ws[e].io = "closed"
  BY <1>1 DEF Behaves, IsClosed
<1>3. CASE OneOwnerCloses
  <2>1. PICK a \in Ends, c \in UserCodes : Closing(a, c)
    BY <1>3, OneCloser DEF CloseInv, Inv, Busy, IsClosed
  <2> QED
    BY <1>2, <2>1 DEF Closing, Ordered, Ends
<1>4. CASE e = "server"
  BY <1>1, <1>2, <1>4 DEF Behaves
<1>5. CASE e = "client" /\ ~OneOwnerCloses
  <2>1. "server" \in closeWritten
    BY <1>5 DEF LosesItsQueue, Peer
  <2> QED
    BY <1>1, <1>2, <1>5, <2>1 DEF Follows
<1> QED
  BY <1>3, <1>4, <1>5 DEF Ends

(* ... and each end was given every message the other sent before close(),  *)
(* whoever closes, except for the messages of such a server.                *)
THEOREM ClosesAreGraceful == ~Compression => (Spec => []CloseIsGraceful)
<1> SUFFICES ASSUME ~Compression PROVE Spec => []CloseIsGraceful
  OBVIOUS
<1>1. CloseInv => CloseIsGraceful
  <2> SUFFICES ASSUME CloseInv, ~faulty, NEW e \in Ends, IsClosed(e), ~LosesItsQueue(Peer(e))
               PROVE  delivered[e] = sent[Peer(e)]
    BY DEF CloseIsGraceful
  <2>1. /\ Peer(e) \in Ends /\ Peer(Peer(e)) = e /\ delivered[e] \in Seq(Nat) /\ sent[Peer(e)] \in Seq(Nat)
        /\ LastInv /\ DeliveryInv /\ OutboxInv
    BY Peers DEF CloseInv, Inv, TypeOK
  <2>2. Len(delivered[e]) = Len(sent[Peer(e)])
    BY <2>1, ClosedIsTold DEF LastInv
  <2>3. \A i \in 1..Len(sent[Peer(e)]) : delivered[e][i] = i /\ sent[Peer(e)][i] = i
    BY <2>1, <2>2 DEF DeliveryInv, OutboxInv
  <2>4. PICK s \in Seq(Nat) : s = delivered[e]
    BY <2>1
  <2>5. PICK t \in Seq(Nat) : t = sent[Peer(e)]
    BY <2>1
  <2>6. Len(s) = Len(t) /\ \A i \in 1..Len(s) : s[i] = t[i]
    BY <2>2, <2>3, <2>4, <2>5
  <2>7. s = t
    BY <2>6, SeqEqual
  <2> QED
    BY <2>4, <2>5, <2>7
<1> QED
  BY <1>1, CloseHolds, PTL
=============================================================================
