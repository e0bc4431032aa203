------------------------------ MODULE Handshake ------------------------------
(***************************************************************************)
(* The opening handshake: connectToServer() of source/clientHandshake.js,  *)
(* handleWebSocketUpgrade() of source/serverHandshake.js, and what the     *)
(* WebSocket class of source/websocket.js does around them until both ends *)
(* are OPEN or CLOSED: calls of close() while CONNECTING, #start(), the    *)
(* error event, and the messages that arrive with the upgrade or behind it. *)
(*                                                                         *)
(* A URL is a scheme and a host.  At Home the program accepts with a       *)
(* WebSocket of this library; any other host answers as it likes, or not   *)
(* at all.  With the visitor "other" it is a client of another make that   *)
(* asks at Home.  HTTP itself is node's: "timeout" does not end a request. *)
(*                                                                         *)
(* An operator no action uses is a plausible mistake in the one after it,  *)
(* kept to show which property would notice.                               *)
(***************************************************************************)
EXTENDS ExtensionLine, FiniteSets, SequencesExt

CONSTANTS Scenarios,  \* how both programs called the constructor, and who visits Home
          Urls,       \* where a redirection may point
          Home,       \* the host of the server of this library
          Answers,    \* what other servers answer: [accept, protocol, line]
          Requests,   \* what other clients ask: [matches, protocols, line]
          Codes,      \* close() is called with these,
          MaxCloses,  \* bound: this often while CONNECTING
          Greetings,  \* what the server may send on "open"
          Protocols   \* the subprotocols there are

NoProtocol == "none"  \* the property is empty, the header is not there

ASSUME HandshakeAssumption ==
  /\ \A s \in Scenarios :
       /\ s.client \in Config /\ s.server \in Config /\ s.url \in Urls
       /\ s.maxRedirections \in Nat /\ s.allowRedirections \in BOOLEAN
       /\ s.visitor \in {"client", "other"} /\ s.debug \in BOOLEAN
       /\ s.protocols \in Seq(Protocols)
  /\ Urls \subseteq [scheme : STRING, host : STRING]
  /\ \A a \in Answers : a.accept \in BOOLEAN /\ a.protocol \in Protocols \cup {NoProtocol}
  /\ \A r \in Requests : r.matches \in BOOLEAN /\ r.protocols \in Seq(Protocols)
  /\ Greetings \subseteq Seq(STRING \ {"open", "error", "close"})
  /\ NoProtocol \notin Protocols
  /\ MaxCloses \in Nat /\ Codes \subseteq Nat \ {0}

Ends == {"client", "server"}

VARIABLES scenario,  \* constant once chosen
          ws,        \* the two WebSocket objects
          pc,        \* where their handshakes are
          url,       \* endpointUrl
          tried,     \* urlsTried, in the order they were tried
          request,   \* the HTTP request of the client to each URL
          socket,    \* the socket its "upgrade" handed over
          offer,     \* the request the server was made for
          answered,  \* what it answered: "no", "101" or "400"
          net,       \* what it sent after that and the client has not read
          sent,      \* history: all it sent
          ioErrored, \* ioStream.errored at the server
          crashed    \* the ends whose process an uncaught error ended

client == <<url, tried, request, socket>>
server == <<offer, answered, sent, ioErrored>>
vars == <<scenario, ws, pc, client, server, net, crashed>>

NoOffer == [matches |-> FALSE, protocols |-> <<>>, line |-> <<>>]

NewWebSocket(config) ==
  [readyState |-> "connecting", config |-> config, protocol |-> NoProtocol,
   closes |-> <<>>, closeCode |-> 0, events |-> <<>>]

Init ==
  /\ scenario \in Scenarios
  /\ ws = [e \in Ends |-> NewWebSocket(IF e = "client" THEN scenario.client ELSE scenario.server)]
  /\ pc = [client |-> "request", server |-> "none"]
  /\ url = scenario.url /\ tried = <<>>
  /\ request = [u \in Urls |-> "none"]
  /\ socket = [u \in Urls |-> "none"]
  /\ offer = NoOffer /\ answered = "no" /\ net = <<>> /\ sent = <<>>
  /\ ioErrored = FALSE /\ crashed = {}

Running(e) == e \notin crashed /\ pc[e] # "none"

(* What both ends do ------------------------------------------------------*)
(* close() while CONNECTING waits for "open" with once(). *)
Close(e, code) ==
  /\ Running(e) /\ ws[e].readyState = "connecting"
  /\ Len(ws[e].closes) < MaxCloses
  /\ ws' = [ws EXCEPT ![e].closes = Append(@, code)]
  /\ UNCHANGED <<scenario, pc, client, server, net, crashed>>

LastCloseWins(w) ==
  [w EXCEPT !.readyState = IF w.closes = <<>> THEN "open" ELSE "closing",
            !.closeCode = IF w.closes = <<>> THEN 0 ELSE w.closes[Len(w.closes)],
            !.events = Append(@, "open")]

(* #start() up to emit('open'), which runs the calls of close() that wait: *)
(* the first one closes, the others find #closeCalled.                     *)
Start(w) ==
  [w EXCEPT !.readyState = IF w.closes = <<>> THEN "open" ELSE "closing",
            !.closeCode = IF w.closes = <<>> THEN 0 ELSE Head(w.closes),
            !.events = Append(@, "open")]

(* The reader hands a message or a close frame to the WebSocket. *)
Take(w, message) ==
  [w EXCEPT !.events = Append(@, message),
            !.readyState = IF message = "close" THEN "closing" ELSE @]

(* The catch around the handshake: CLOSED, then emit('error'), where what  *)
(* close() left to do on "error" is off() without a listener, and throws.  *)
Fails(e, w) ==
  /\ ws' = [ws EXCEPT ![e] = [w EXCEPT !.readyState = "closed", !.events = Append(@, "error")]]
  /\ crashed' = IF w.closes = <<>> THEN crashed ELSE crashed \cup {e}

(* The client -------------------------------------------------------------*)
Secure(u) == u.scheme \in {"https", "wss"}

(* url.protocol = 'http:' or 'https:' *)
Normal(u) == [u EXCEPT !.scheme = IF Secure(u) THEN "https" ELSE "http"]

Tried == {tried[i] : i \in DOMAIN tried}

BeforeNormalising(u) ==
  \/ u.scheme \notin {"ws", "wss", "http", "https"}
  \/ tried # <<>> /\ Secure(tried[1]) /\ u.scheme = "http"
  \/ Normal(u) \in Tried
  \/ Len(tried) + 1 > scenario.maxRedirections
  \/ tried # <<>> /\ ~scenario.allowRedirections

(* The checks before a request: each of them throws. *)
MayNotRequest(u) ==
  \/ u.scheme \notin {"ws", "wss", "http", "https"}
  \/ tried # <<>> /\ Secure(tried[1]) /\ ~Secure(u)
  \/ Normal(u) \in Tried
  \/ Len(tried) + 1 > scenario.maxRedirections
  \/ tried # <<>> /\ ~scenario.allowRedirections

Request ==
  /\ Running("client") /\ pc["client"] = "request"
  /\ IF MayNotRequest(url)
     THEN /\ pc' = [pc EXCEPT !["client"] = "over"]
          /\ Fails("client", ws["client"])
          /\ UNCHANGED <<client, net>>
     ELSE /\ pc' = [pc EXCEPT !["client"] = "waiting"]
          /\ tried' = Append(tried, Normal(url))
          /\ request' = [request EXCEPT ![url] = "asked"]
          /\ UNCHANGED <<url, socket, net, ws, crashed>>
  /\ UNCHANGED <<scenario, server>>

SettledAgain(u) == request[u] \in {"asked", "late"}

(* The promise of a request is settled once: what comes later changes      *)
(* nothing but the socket.                                                 *)
Awaited(u) == request[u] = "asked"

(* What the client checks of an "upgrade", and the compression that comes  *)
(* of it: none where it throws.                                            *)
Agreed(a) ==
  IF ~a.accept \/ (scenario.protocols # <<>> /\ ~Contains(scenario.protocols, a.protocol)) THEN {}
  ELSE IF a.line = <<>> THEN {Off}
  ELSE {ClientAgrees(said, scenario.client) :
          said \in {s \in parsePermessageDeflateExtLine(a.line) : ~ClientRefuses(s, scenario.client)}}

BeforeOpen(w, chunk) ==
  [Start(w) EXCEPT !.events = w.events \o chunk \o <<"open">>]

(* "must be here before the write": 'open' is emitted, then the reader is  *)
(* given the chunk.                                                        *)
StartWith(w, chunk) ==
  [Start(w) EXCEPT !.events = @ \o chunk,
                   !.readyState = IF Contains(chunk, "close") THEN "closing" ELSE @]

(* The 'upgrade' event, with the first n of what the server sent already   *)
(* in its chunk, and #start() unless the promise is settled.               *)
Upgrade(u, a, n) ==
  /\ Running("client") /\ request[u] \in {"asked", "late"}
  /\ request' = [request EXCEPT ![u] = "over"]
  /\ pc' = IF Awaited(u) THEN [pc EXCEPT !["client"] = "over"] ELSE pc
  /\ \/ /\ Agreed(a) = {}
        /\ socket' = [socket EXCEPT ![u] = "ended"]
        /\ IF Awaited(u) THEN Fails("client", ws["client"]) ELSE UNCHANGED <<ws, crashed>>
        /\ UNCHANGED net
     \/ \E config \in Agreed(a) :
        /\ socket' = [socket EXCEPT ![u] = IF Awaited(u) THEN "used" ELSE "late"]
        /\ IF Awaited(u)
           THEN /\ ws' = [ws EXCEPT !["client"] =
                            StartWith([@ EXCEPT !.config = config,
                                                !.protocol = IF scenario.protocols = <<>> THEN NoProtocol ELSE a.protocol],
                                      SubSeq(net, 1, n))]
                /\ net' = SubSeq(net, n + 1, Len(net))
           ELSE UNCHANGED <<ws, net>>
        /\ UNCHANGED crashed
  /\ UNCHANGED <<scenario, url, tried, server>>

(* The 'response' event: a redirection,                                    *)
Redirect(u, location) ==
  /\ Running("client") /\ request[u] \in {"asked", "late"}
  /\ request' = [request EXCEPT ![u] = "over"]
  /\ IF Awaited(u) THEN url' = location /\ pc' = [pc EXCEPT !["client"] = "request"]
                   ELSE UNCHANGED <<url, pc>>
  /\ UNCHANGED <<scenario, ws, tried, socket, server, net, crashed>>

KeepsWaiting(u) ==
  /\ Running("client") /\ request[u] \in {"asked", "late"}
  /\ request' = [request EXCEPT ![u] = "over"]
  /\ UNCHANGED <<ws, pc, crashed, scenario, url, tried, socket, server, net>>

(* one without a location or another status; and the 'error' event.        *)
RequestFails(u) ==
  /\ Running("client") /\ request[u] \in {"asked", "late"}
  /\ request' = [request EXCEPT ![u] = "over"]
  /\ IF Awaited(u) THEN Fails("client", ws["client"]) /\ pc' = [pc EXCEPT !["client"] = "over"]
                   ELSE UNCHANGED <<ws, pc, crashed>>
  /\ UNCHANGED <<scenario, url, tried, socket, server, net>>

(* The 'timeout' event rejects, and leaves the request alone.              *)
RequestTimeout(u) ==
  /\ Running("client") /\ Awaited(u)
  /\ request' = [request EXCEPT ![u] = "late"]
  /\ Fails("client", ws["client"])
  /\ pc' = [pc EXCEPT !["client"] = "over"]
  /\ UNCHANGED <<scenario, url, tried, socket, server, net>>

(* The client reads on. *)
Receive ==
  /\ Running("client") /\ net # <<>>
  /\ \E u \in Urls : u.host = Home /\ socket[u] = "used"
  /\ ws' = [ws EXCEPT !["client"] = Take(@, Head(net))]
  /\ net' = Tail(net)
  /\ UNCHANGED <<scenario, pc, client, server, crashed>>

(* The server -------------------------------------------------------------*)
(* The 'upgrade' event of its HTTP server, where it is constructed.        *)
Visit(r) ==
  /\ pc["server"] = "none"
  /\ offer' = r
  /\ pc' = [pc EXCEPT !["server"] = "importing"]
  /\ UNCHANGED <<scenario, ws, client, answered, sent, ioErrored, net, crashed>>

OwnRequest ==
  [matches |-> TRUE, protocols |-> scenario.protocols,
   line |-> generatePermessageDeflateExtLine(TRUE, scenario.client)]

(* The first protocol of the client that the server supports. *)
Chosen(protocols) ==
  LET both == {i \in DOMAIN protocols : protocols[i] \in scenario.supported}
  IN  IF both = {} THEN NoProtocol ELSE protocols[CHOOSE i \in both : \A j \in both : i <= j]

(* The compression the server answers with: none where it throws. *)
Granted(line) ==
  IF line = <<>> THEN {Off}
  ELSE {ServerAgrees(said, scenario.server) :
          said \in {s \in parsePermessageDeflateExtLine(line) : ~ServerRefuses(s)}}

(* Without a match there is no answer, and no result to take apart.        *)
ServerChecks ==
  /\ Running("server") /\ pc["server"] = "importing"
  /\ \/ /\ ~offer.matches \/ Granted(offer.line) = {}
        /\ pc' = [pc EXCEPT !["server"] = "over"]
        /\ answered' = IF offer.matches THEN "400" ELSE "no"
        /\ Fails("server", ws["server"])
     \/ /\ offer.matches /\ \E config \in Granted(offer.line) :
             ws' = [ws EXCEPT !["server"].config = config, !["server"].protocol = Chosen(offer.protocols)]
        /\ pc' = [pc EXCEPT !["server"] = "hashing"]
        /\ UNCHANGED <<answered, crashed>>
  /\ UNCHANGED <<scenario, client, offer, sent, ioErrored, net>>

OwnAnswer ==
  [accept |-> TRUE, protocol |-> ws["server"].protocol,
   line |-> generatePermessageDeflateExtLine(FALSE, ws["server"].config)]

(* The digest is there: 101 and #start(), where the program sends its      *)
(* greeting on "open" before any close() that waits for it.                *)
ServerAnswers(greeting) ==
  /\ Running("server") /\ pc["server"] = "hashing"
  /\ pc' = [pc EXCEPT !["server"] = "over"]
  /\ IF ioErrored THEN Fails("server", ws["server"]) /\ UNCHANGED <<answered, sent, net>>
     ELSE /\ answered' = "101"
          /\ ws' = [ws EXCEPT !["server"] = Start(@)]
          /\ sent' = greeting \o If(ws["server"].closes # <<>>, <<"close">>)
          /\ net' = sent'
          /\ UNCHANGED crashed
  /\ UNCHANGED <<scenario, client, offer, ioErrored>>

(* An 'error' of a socket nobody listens to, or whose handler calls        *)
(* debug(), which only the tests define.                                   *)
ServerSocketError ==
  /\ Running("server") /\ pc["server"] \in {"importing", "hashing"} /\ ~ioErrored
  /\ ioErrored' = TRUE
  /\ crashed' = IF pc["server"] = "hashing" /\ scenario.debug THEN crashed ELSE crashed \cup {"server"}
  /\ UNCHANGED <<scenario, ws, pc, client, offer, answered, sent, net>>

ClientSocketError(u) ==
  /\ Running("client") /\ socket[u] \in {"late", "ended"} /\ ~scenario.debug
  /\ crashed' = crashed \cup {"client"}
  /\ UNCHANGED <<scenario, ws, pc, client, server, net>>

AtHome(u) == u.host = Home /\ scenario.visitor = "client"

Next ==
  \/ \E e \in Ends, code \in Codes : Close(e, code)
  \/ Request \/ Receive
  \/ \E u \in Urls :
       \/ AtHome(u) /\ answered = "101" /\ \E a \in {OwnAnswer}, n \in 0..Len(net) : Upgrade(u, a, n)
       \/ ~AtHome(u) /\ \E a \in Answers : Upgrade(u, a, 0)
       \/ ~AtHome(u) /\ \E location \in Urls : Redirect(u, location)
       \/ AtHome(u) /\ request[u] \in {"asked", "late"} /\ Visit(OwnRequest)
       \/ RequestFails(u) \/ RequestTimeout(u) \/ ClientSocketError(u)
  \/ scenario.visitor = "other" /\ \E r \in Requests : Visit(r)
  \/ ServerChecks \/ (\E greeting \in Greetings : ServerAnswers(greeting)) \/ ServerSocketError

Spec == Init /\ [][Next]_vars

(* The event loop runs what is ready, and node's timer of a request that   *)
(* nobody answers fires: config.timeout is not 0.                          *)
Fairness ==
  /\ WF_vars(Request) /\ \A u \in Urls : WF_vars(RequestTimeout(u))
  /\ WF_vars(ServerChecks) /\ WF_vars(\E greeting \in Greetings : ServerAnswers(greeting))

FairSpec == Spec /\ Fairness
-----------------------------------------------------------------------------
Event == {"open", "error", "close"} \cup UNION {{g[i] : i \in DOMAIN g} : g \in Greetings}

Object ==
  [readyState : {"connecting", "open", "closing", "closed"}, config : Config \cup {Off},
   protocol : Protocols \cup {NoProtocol}, closes : Seq(Codes), closeCode : Codes \cup {0}, events : Seq(Event)]

TypeOK ==
  /\ ws \in [Ends -> Object]
  /\ pc \in [Ends -> {"none", "request", "waiting", "importing", "hashing", "over"}]
  /\ pc["client"] \in {"request", "waiting", "over"}
  /\ pc["server"] \in {"none", "importing", "hashing", "over"}
  /\ url \in Urls /\ tried \in Seq([scheme : {"http", "https"}, host : STRING])
  /\ request \in [Urls -> {"none", "asked", "late", "over"}]
  /\ socket \in [Urls -> {"none", "used", "late", "ended"}]
  /\ offer.matches \in BOOLEAN /\ offer.protocols \in Seq(Protocols)
  /\ answered \in {"no", "101", "400"} /\ net \in Seq(Event) /\ sent \in Seq(Event)
  /\ ioErrored \in BOOLEAN /\ crashed \subseteq Ends

Opened(e) == ws[e].readyState \in {"open", "closing"}

Outcomes(e) == {i \in DOMAIN ws[e].events : ws[e].events[i] \in {"open", "error"}}

(* A handshake has one outcome, 'open' or 'error', whatever else comes of  *)
(* its requests and however late; readyState goes with it, and the socket  *)
(* of the one that opened is the only one in use.                          *)
OneOutcome ==
  /\ \A e \in Ends :
       IF ws[e].readyState = "connecting" THEN Outcomes(e) = {}
       ELSE /\ pc[e] = "over"
            /\ \E i \in DOMAIN ws[e].events :
                 /\ Outcomes(e) = {i}
                 /\ ws[e].events[i] = IF Opened(e) THEN "open" ELSE "error"
  /\ Cardinality({u \in Urls : socket[u] = "used"}) = IF Opened("client") THEN 1 ELSE 0

Connected == \E u \in Urls : AtHome(u) /\ socket[u] = "used"

(* Two ends of this library that are connected have the same subprotocol,  *)
(* one that both of them know, and the same compression, within what the   *)
(* owner of each configured.                                               *)
Agreement ==
  Connected =>
    LET c == ws["client"]
        s == ws["server"]
    IN  /\ c.config = s.config /\ Within(c.config, scenario.client) /\ Within(c.config, scenario.server)
        /\ c.protocol = s.protocol
        /\ c.protocol = NoProtocol <=> scenario.protocols = <<>>
        /\ c.protocol # NoProtocol => Contains(scenario.protocols, c.protocol) /\ c.protocol \in scenario.supported

(* Nothing the server sends at once is lost, repeated or overtakes 'open', *)
(* wherever the socket cuts what arrives with the upgrade from the rest.   *)
EarlyMessages == Connected => ws["client"].events \o net = <<"open">> \o sent

(* A call of close() while CONNECTING is not lost: an end that opens is    *)
(* CLOSING at once, with the code of the first call, and sends nothing     *)
(* behind its close frame.                                                 *)
ClosePostponed ==
  /\ \A e \in Ends : ws[e].closes # <<>> /\ "open" \in {ws[e].events[i] : i \in DOMAIN ws[e].events} =>
       ws[e].readyState = "closing" /\ ws[e].closeCode = Head(ws[e].closes)
  /\ \A i \in DOMAIN sent : sent[i] = "close" <=> (ws["server"].closes # <<>> /\ i = Len(sent))

(* Redirections never lead from a secure location to an insecure one, or   *)
(* in a circle, or on for ever, or anywhere when they are not allowed; and *)
(* one request is awaited at a time.                                       *)
RequestsAreSafe ==
  /\ tried # <<>> /\ Secure(tried[1]) => \A u \in Urls : request[u] # "none" => Secure(u)
  /\ Cardinality(Tried) = Len(tried) /\ Len(tried) <= scenario.maxRedirections
  /\ ~scenario.allowRedirections => Len(tried) <= 1
  /\ \A u, v \in Urls : Awaited(u) /\ Awaited(v) => u = v

(* Every handshake ends, by itself or with its process.                    *)
HandshakeEnds ==
  \A e \in Ends :
    (pc[e] # "none" /\ ws[e].readyState = "connecting")
      ~> (ws[e].readyState # "connecting" \/ e \in crashed)
=============================================================================
