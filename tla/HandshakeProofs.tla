-------------------------- MODULE HandshakeProofs ---------------------------
(***************************************************************************)
(* What comes of an opening handshake, whatever the programs configured    *)
(* and however many servers, redirections, late answers and calls of       *)
(* close() there are: one outcome at each end, redirections that stay      *)
(* safe, nothing lost of what was sent or asked early, and two ends that   *)
(* agree.                                                                  *)
(***************************************************************************)
EXTENDS Handshake, NegotiationProofs, SequenceTheorems, FiniteSetTheorems, WellFoundedInduction

(* The scenario is one of those chosen from, and the types hold. *)
TypeInv == scenario \in Scenarios /\ TypeOK

(* What a server sends behind its answer. *)
Sendable == Event \ {"open", "error"}

(* What has come of a handshake shows in the events of its end.            *)
Settled ==
  /\ net \in Seq(Sendable) /\ sent \in Seq(Sendable)
  /\ \A e \in Ends :
       /\ ws[e].readyState = "connecting" => ws[e].events = <<>> /\ pc[e] # "over"
       /\ ws[e].readyState = "closed" => ws[e].events = <<"error">> /\ pc[e] = "over"
       /\ Opened(e) =>
            /\ pc[e] = "over" /\ ws[e].events # <<>> /\ ws[e].events[1] = "open"
            /\ \A i \in DOMAIN ws[e].events \ {1} : ws[e].events[i] \in Sendable

(* The client that opened has one socket in use. *)
OneSocket ==
  /\ \A u \in Urls : socket[u] = "used" => Opened("client")
  /\ Opened("client") => \E u \in Urls : socket[u] = "used"
  /\ \A u, v \in Urls : socket[u] = "used" /\ socket[v] = "used" => u = v
  /\ \A u \in Urls : socket[u] # "none" => request[u] = "over"

(* What keeps redirections safe: a URL is tried once. *)
RequestsInv ==
  /\ \A u \in Urls : Awaited(u) => pc["client"] = "waiting"
  /\ \A u, v \in Urls : Awaited(u) /\ Awaited(v) => u = v
  /\ \A u \in Urls : request[u] # "none" => Normal(u) \in Tried
  /\ tried # <<>> /\ Secure(tried[1]) => \A u \in Urls : request[u] # "none" => Secure(u)
  /\ IsFiniteSet(Tried) /\ Cardinality(Tried) = Len(tried)
  /\ Len(tried) <= scenario.maxRedirections
  /\ ~scenario.allowRedirections => Len(tried) <= 1

(* An end that opened did what close() left it to do. *)
ClosesInv ==
  \A e \in Ends : Opened(e) /\ ws[e].closes # <<>> =>
    ws[e].readyState = "closing" /\ ws[e].closeCode = Head(ws[e].closes)

(* The server sends once, when it answers. *)
SentInv ==
  /\ answered = "101" <=> Opened("server")
  /\ ~Opened("server") => sent = <<>>
  /\ Opened("server") =>
       \A i \in DOMAIN sent : sent[i] = "close" <=> (ws["server"].closes # <<>> /\ i = Len(sent))

(* Until the two ends are connected the client has read nothing of it. *)
EarlyInv ==
  /\ Connected => Opened("server")
  /\ scenario.visitor = "client" /\ ~Connected => net = sent
  /\ EarlyMessages

(* The server answers the request the client made, and until the client    *)
(* opens only the server knows what comes of it.                           *)
AgreementInv ==
  /\ scenario.visitor = "client" /\ pc["server"] # "none" => offer = OwnRequest
  /\ scenario.visitor = "client" /\ (pc["server"] = "hashing" \/ Opened("server")) =>
       /\ ws["server"].config = ServerAgrees(Said(TRUE, scenario.client), scenario.server)
       /\ ws["server"].protocol = Chosen(scenario.protocols)
  /\ Agreement
-----------------------------------------------------------------------------
(* A sequence over fewer elements is one over more. *)
LEMMA SeqOver ==
  ASSUME NEW S, NEW T, S \subseteq T, NEW s \in Seq(S)
  PROVE  s \in Seq(T)
  OBVIOUS

(* What the client and the server agree to is a configuration. *)
LEMMA ClientAgreesType ==
  ASSUME NEW said, NEW own \in Config, ~ClientRefuses(said, own)
  PROVE  ClientAgrees(said, own) \in Config
  BY DEF ClientRefuses, ClientAgrees, Config, Invalid, Absent, Bits

(* So is what the server agrees to. *)
LEMMA ServerAgreesType ==
  ASSUME NEW said, NEW own \in Config, ~ServerRefuses(said)
  PROVE  ServerAgrees(said, own) \in Config
  BY DEF ServerRefuses, ServerAgrees, Config, Invalid, Absent, Bare, Bits, Min2

(* An end changes alone. *)
LEMMA SetEnd ==
  ASSUME ws \in [Ends -> Object], NEW e \in Ends, NEW v \in Object, ws' = [ws EXCEPT ![e] = v]
  PROVE  /\ ws' \in [Ends -> Object] /\ ws'[e] = v
         /\ \A f \in Ends : f # e => ws'[f] = ws[f]
  OBVIOUS

(* The events an end may emit. *)
LEMMA Events == {"open", "error"} \subseteq Event /\ Sendable \subseteq Event
  BY DEF Event, Sendable

(* close() is remembered while CONNECTING. *)
LEMMA CloseIs ==
  ASSUME NEW w \in Object, NEW code \in Codes, NEW v, v = [w EXCEPT !.closes = Append(w.closes, code)]
  PROVE  /\ v \in Object
         /\ v.readyState = w.readyState /\ v.events = w.events
         /\ v.config = w.config /\ v.protocol = w.protocol
<1>1. PICK cs : cs = Append(w.closes, code)
  OBVIOUS
<1>2. cs \in Seq(Codes)
  BY <1>1 DEF Object
<1>3. v = [w EXCEPT !.closes = cs]
  BY <1>1
<1> QED
  BY <1>2, <1>3 DEF Object

(* An end that fails is CLOSED. *)
LEMMA FailIs ==
  ASSUME NEW w \in Object, w.events = <<>>, NEW v,
         v = [w EXCEPT !.readyState = "closed", !.events = Append(w.events, "error")]
  PROVE  /\ v \in Object
         /\ v.readyState = "closed" /\ v.events = <<"error">>
         /\ v.closes = w.closes /\ v.config = w.config /\ v.protocol = w.protocol
<1>1. PICK es : es = Append(w.events, "error")
  OBVIOUS
<1>2. es = <<"error">> /\ es \in Seq(Event)
  BY <1>1, Events
<1>3. v = [w EXCEPT !.readyState = "closed", !.events = es]
  BY <1>1
<1> QED
  BY <1>2, <1>3 DEF Object

(* The reader hands something over. *)
LEMMA TakeIs ==
  ASSUME NEW w \in Object, NEW message \in Sendable
  PROVE  LET v == Take(w, message)
         IN  /\ v \in Object
             /\ v.readyState = IF message = "close" THEN "closing" ELSE w.readyState
             /\ v.events = Append(w.events, message)
             /\ v.closes = w.closes /\ v.closeCode = w.closeCode
             /\ v.config = w.config /\ v.protocol = w.protocol
<1>1. PICK es : es = Append(w.events, message)
  OBVIOUS
<1>2. es \in Seq(Event)
  BY <1>1, Events DEF Object
<1>3. PICK r : r = IF message = "close" THEN "closing" ELSE w.readyState
  OBVIOUS
<1>4. r \in {"connecting", "open", "closing", "closed"}
  BY <1>3 DEF Object
<1>5. Take(w, message) = [w EXCEPT !.events = es, !.readyState = r]
  BY <1>1, <1>3 DEF Take
<1> QED
  BY <1>1, <1>2, <1>3, <1>4, <1>5 DEF Object

(* An end starts, and runs what close() left to do. *)
LEMMA StartIs ==
  ASSUME NEW w \in Object, w.events = <<>>
  PROVE  LET v == Start(w)
         IN  /\ v \in Object
             /\ v.readyState = IF w.closes = <<>> THEN "open" ELSE "closing"
             /\ v.closeCode = IF w.closes = <<>> THEN 0 ELSE Head(w.closes)
             /\ v.events = <<"open">>
             /\ v.closes = w.closes /\ v.config = w.config /\ v.protocol = w.protocol
<1>1. PICK es : es = Append(w.events, "open")
  OBVIOUS
<1>2. es = <<"open">> /\ es \in Seq(Event)
  BY <1>1, Events
<1>3. PICK r : r = IF w.closes = <<>> THEN "open" ELSE "closing"
  OBVIOUS
<1>4. PICK c : c = IF w.closes = <<>> THEN 0 ELSE Head(w.closes)
  OBVIOUS
<1>5. c \in Codes \cup {0}
  BY <1>4 DEF Object
<1>6. r \in {"connecting", "open", "closing", "closed"}
  BY <1>3
<1>7. Start(w) = [w EXCEPT !.readyState = r, !.closeCode = c, !.events = es]
  BY <1>1, <1>3, <1>4 DEF Start
<1> QED
  BY <1>2, <1>3, <1>4, <1>5, <1>6, <1>7 DEF Object

(* The client starts, and takes what came with the upgrade. *)
LEMMA StartWithIs ==
  ASSUME NEW w \in Object, w.events = <<>>, NEW chunk \in Seq(Sendable)
  PROVE  LET v == StartWith(w, chunk)
         IN  /\ v \in Object
             /\ v.readyState \in {"open", "closing"}
             /\ w.closes # <<>> => v.readyState = "closing" /\ v.closeCode = Head(w.closes)
             /\ v.events = <<"open">> \o chunk
             /\ v.closes = w.closes /\ v.config = w.config /\ v.protocol = w.protocol
<1>1. PICK s : s = Start(w)
  OBVIOUS
<1>2. /\ s \in Object
      /\ s.readyState = IF w.closes = <<>> THEN "open" ELSE "closing"
      /\ s.closeCode = IF w.closes = <<>> THEN 0 ELSE Head(w.closes)
      /\ s.events = <<"open">>
      /\ s.closes = w.closes /\ s.config = w.config /\ s.protocol = w.protocol
  BY <1>1, StartIs
<1>3. PICK es : es = <<"open">> \o chunk
  OBVIOUS
<1>4. es \in Seq(Event)
  <2>1. <<"open">> \in Seq(Event) /\ chunk \in Seq(Event)
    BY Events, SeqOver
  <2> QED
    BY <1>3, <2>1
<1>5. PICK r : r = IF Contains(chunk, "close") THEN "closing" ELSE s.readyState
  OBVIOUS
<1>6. r \in {"open", "closing"} /\ (w.closes # <<>> => r = "closing")
  BY <1>2, <1>5
<1>7. StartWith(w, chunk) = [s EXCEPT !.events = es, !.readyState = r]
  BY <1>1, <1>2, <1>3, <1>5 DEF StartWith
<1> QED
  BY <1>2, <1>3, <1>4, <1>6, <1>7 DEF Object

(* The least element of a set of numbers. *)
LEMMA Least ==
  ASSUME NEW S, S \subseteq Nat, S # {}
  PROVE  \E m \in S : \A n \in S : m <= n
<1>1. PICK m \in S : \A n \in S : ~(<<n, m>> \in OpToRel(<, Nat))
  BY NatLessThanWellFounded, WFMin
<1>2. ASSUME NEW n \in S PROVE m <= n
  <2>1. m \in Nat /\ n \in Nat
    OBVIOUS
  <2>2. ~(n < m)
    BY <1>1, <2>1 DEF OpToRel
  <2> QED
    BY <2>1, <2>2
<1> QED
  BY <1>2

(* The server chooses a protocol that was offered and that it supports.    *)
LEMMA ChosenIs ==
  ASSUME NEW protocols \in Seq(Protocols)
  PROVE  /\ Chosen(protocols) \in Protocols \cup {NoProtocol}
         /\ \/ Chosen(protocols) = NoProtocol
            \/ /\ \E i \in DOMAIN protocols : protocols[i] = Chosen(protocols)
               /\ Chosen(protocols) \in scenario.supported
<1> DEFINE both == {i \in DOMAIN protocols : protocols[i] \in scenario.supported}
           first == CHOOSE i \in both : \A j \in both : i <= j
<1>1. Chosen(protocols) = IF both = {} THEN NoProtocol ELSE protocols[first]
  BY DEF Chosen
<1>2. CASE both = {}
  <2>1. Chosen(protocols) = NoProtocol
    BY <1>1, <1>2
  <2> QED
    BY <2>1
<1>3. CASE both # {}
  <2>1. both \subseteq Nat
    OBVIOUS
  <2>2. \E m \in both : \A n \in both : m <= n
    <3> HIDE DEF both
    <3> QED
      BY <1>3, <2>1, Least
  <2>3. first \in both
    BY <2>2
  <2>4. Chosen(protocols) = protocols[first]
    BY <1>1, <1>3
  <2> HIDE DEF first
  <2>5. first \in DOMAIN protocols /\ protocols[first] \in scenario.supported
    BY <2>3
  <2> QED
    BY <2>4, <2>5
<1> QED
  BY <1>2, <1>3

(* What is agreed is a configuration, or none. *)
LEMMA AgreedType ==
  ASSUME TypeInv, NEW a
  PROVE  Agreed(a) \subseteq Config \cup {Off}
<1>1. scenario.client \in Config
  BY HandshakeAssumption DEF TypeInv
<1> QED
  BY <1>1, ClientAgreesType DEF Agreed

(* What is granted is a configuration, or none. *)
LEMMA GrantedType ==
  ASSUME TypeInv, NEW line
  PROVE  Granted(line) \subseteq Config \cup {Off}
<1>1. scenario.server \in Config
  BY HandshakeAssumption DEF TypeInv
<1> QED
  BY <1>1, ServerAgreesType DEF Granted

(* An end whose handshake is not over is CONNECTING and has emitted        *)
(* nothing.                                                                *)
LEMMA NotOver ==
  ASSUME TypeInv, Settled, NEW e \in Ends, pc[e] # "over"
  PROVE  ws[e].readyState = "connecting" /\ ws[e].events = <<>> /\ ws[e] \in Object
<1>1. ws[e] \in Object
  BY DEF TypeInv, TypeOK
<1>2. ws[e].readyState \in {"connecting", "open", "closing", "closed"}
  BY <1>1 DEF Object
<1> QED
  BY <1>1, <1>2 DEF Settled, Opened

(* An upgrade as Next allows it: what the server of this library answered, *)
(* with whatever part of what it sent, or the answer of another one.       *)
Upgrades(u, a, n) ==
  /\ n \in 0..Len(net)
  /\ \/ AtHome(u) /\ answered = "101" /\ a = OwnAnswer
     \/ ~AtHome(u) /\ a \in Answers /\ n = 0
  /\ Upgrade(u, a, n)

(* A visit as Next allows it. *)
Visits(r) ==
  /\ \/ scenario.visitor = "client" /\ r = OwnRequest
     \/ scenario.visitor = "other" /\ r \in Requests
  /\ Visit(r)

(* The answer of a server names a protocol or none. *)
LEMMA AnswerType ==
  ASSUME TypeInv, NEW u, NEW a, NEW n, Upgrades(u, a, n)
  PROVE  a.protocol \in Protocols \cup {NoProtocol}
<1>1. ws["server"] \in Object
  BY DEF TypeInv, TypeOK, Ends
<1>2. OwnAnswer.protocol \in Protocols \cup {NoProtocol}
  BY <1>1 DEF OwnAnswer, Object
<1> QED
  BY <1>2, HandshakeAssumption DEF Upgrades

(* The ways an end may change in a step: not, or only in that its          *)
(* handshake is at another place;                                          *)
Same(e) ==
  ws'[e] = ws[e] /\ (pc'[e] = "over" <=> pc[e] = "over") /\ (pc'[e] = "hashing" => pc[e] = "hashing")

(* while CONNECTING, by a call of close() or by what a server grants;      *)
Grants(config, protocol) ==
  /\ pc["server"] = "importing" /\ pc'["server"] = "hashing"
  /\ config \in Granted(offer.line) /\ protocol = Chosen(offer.protocols)

Waits(e) ==
  /\ ws[e].readyState = "connecting" /\ pc[e] # "over" /\ pc'[e] # "over"
  /\ ws'[e].readyState = "connecting" /\ ws'[e].events = <<>>
  /\ \/ pc'[e] = pc[e] /\ ws'[e].config = ws[e].config /\ ws'[e].protocol = ws[e].protocol
     \/ e = "server" /\ Grants(ws'[e].config, ws'[e].protocol)

(* by an error;                                                            *)
Falls(e) ==
  /\ ws[e].readyState = "connecting" /\ pc[e] # "over" /\ pc'[e] = "over"
  /\ ws'[e].readyState = "closed" /\ ws'[e].events = <<"error">>

(* by the upgrade that the client waits for, or the answer of the server;  *)
ClientOpens(u, a, n) ==
  /\ Upgrades(u, a, n) /\ Awaited(u)
  /\ request' = [request EXCEPT ![u] = "over"] /\ socket' = [socket EXCEPT ![u] = "used"]
  /\ ws'["client"].config \in Agreed(a)
  /\ ws'["client"].protocol = IF scenario.protocols = <<>> THEN NoProtocol ELSE a.protocol
  /\ ws'["client"].events = <<"open">> \o SubSeq(net, 1, n)
  /\ net' = SubSeq(net, n + 1, Len(net))
  /\ ws'["server"] = ws["server"]

ServerOpens ==
  /\ pc["server"] = "hashing" /\ answered' = "101"
  /\ ws'["server"].config = ws["server"].config /\ ws'["server"].protocol = ws["server"].protocol

Opens(e) ==
  /\ ws[e].readyState = "connecting" /\ pc'[e] = "over"
  /\ ws'[e].readyState \in {"open", "closing"} /\ ws'[e].closes = ws[e].closes
  /\ ws[e].closes # <<>> => ws'[e].readyState = "closing" /\ ws'[e].closeCode = Head(ws[e].closes)
  /\ \E chunk \in Seq(Sendable) : ws'[e].events = <<"open">> \o chunk
  /\ e = "client" => \E u \in Urls : \E a, n : ClientOpens(u, a, n)
  /\ e = "server" => ServerOpens

(* and once it is open, by what the client reads.                          *)
Reads(e) ==
  /\ e = "client" /\ Opened(e) /\ pc'[e] = pc[e]
  /\ ws'[e].closes = ws[e].closes /\ ws'[e].closeCode = ws[e].closeCode
  /\ ws'[e].config = ws[e].config /\ ws'[e].protocol = ws[e].protocol
  /\ net # <<>> /\ net' = Tail(net) /\ sent' = sent
  /\ ws'[e].events = Append(ws[e].events, Head(net))
  /\ ws'[e].readyState = IF Head(net) = "close" THEN "closing" ELSE ws[e].readyState

(* One of these is what a step does to each end. *)
Changes ==
  /\ ws' \in [Ends -> Object]
  /\ \A e \in Ends : Same(e) \/ Waits(e) \/ Falls(e) \/ Opens(e) \/ Reads(e)

(* close() leaves an end CONNECTING. *)
LEMMA CloseChanges ==
  ASSUME TypeInv, Settled, NEW e \in Ends, NEW code \in Codes, Close(e, code)
  PROVE  Changes
<1>1. ws \in [Ends -> Object] /\ ws[e] \in Object /\ ws[e].readyState = "connecting" /\ pc' = pc
  BY DEF TypeInv, TypeOK, Close
<1>2. ws[e].events = <<>> /\ pc[e] # "over"
  BY <1>1 DEF Settled
<1>3. PICK v : v = [ws[e] EXCEPT !.closes = Append(ws[e].closes, code)]
  OBVIOUS
<1>4. /\ v \in Object /\ v.readyState = "connecting" /\ v.events = <<>>
      /\ v.config = ws[e].config /\ v.protocol = ws[e].protocol
  BY <1>1, <1>2, <1>3, CloseIs
<1>5. ws' = [ws EXCEPT ![e] = v]
  BY <1>1, <1>3 DEF Close
<1>6. ws' \in [Ends -> Object] /\ ws'[e] = v /\ \A f \in Ends : f # e => ws'[f] = ws[f]
  BY <1>1, <1>4, <1>5, SetEnd
<1>7. Waits(e)
  BY <1>1, <1>2, <1>4, <1>6 DEF Waits
<1>8. \A f \in Ends : f # e => Same(f)
  BY <1>1, <1>6 DEF Same
<1> QED
  BY <1>6, <1>7, <1>8 DEF Changes

(* The catch around the handshake ends it. *)
LEMMA FailChanges ==
  ASSUME TypeInv, Settled, NEW e \in Ends, pc[e] # "over", Fails(e, ws[e]),
         pc' = [pc EXCEPT ![e] = "over"]
  PROVE  Changes
<1>1. ws \in [Ends -> Object] /\ ws[e] \in Object
      /\ ws[e].readyState = "connecting" /\ ws[e].events = <<>>
  BY NotOver DEF TypeInv, TypeOK
<1>2. PICK v : v = [ws[e] EXCEPT !.readyState = "closed", !.events = Append(ws[e].events, "error")]
  OBVIOUS
<1>3. v \in Object /\ v.readyState = "closed" /\ v.events = <<"error">>
  BY <1>1, <1>2, FailIs
<1>4. ws' = [ws EXCEPT ![e] = v]
  BY <1>2 DEF Fails
<1>5. ws' \in [Ends -> Object] /\ ws'[e] = v /\ \A f \in Ends : f # e => ws'[f] = ws[f]
  BY <1>1, <1>3, <1>4, SetEnd
<1>6. pc'[e] = "over" /\ \A f \in Ends : f # e => pc'[f] = pc[f]
  BY DEF TypeInv, TypeOK
<1>7. Falls(e)
  BY <1>1, <1>3, <1>5, <1>6 DEF Falls
<1>8. \A f \in Ends : f # e => Same(f)
  BY <1>5, <1>6 DEF Same
<1> QED
  BY <1>5, <1>7, <1>8 DEF Changes

(* Steps that leave both ends as they are. *)
LEMMA NoChanges ==
  ASSUME TypeInv, Settled, ws' = ws,
         \A e \in Ends : (pc'[e] = "over" <=> pc[e] = "over") /\ (pc'[e] = "hashing" => pc[e] = "hashing")
  PROVE  Changes
  BY DEF Changes, Same, TypeInv, TypeOK

(* What the client reads it adds to its events. *)
LEMMA ReadChanges ==
  ASSUME TypeInv, Settled, OneSocket, Receive
  PROVE  Changes /\ Reads("client")
<1> DEFINE w == ws["client"]
           message == Head(net)
<1>1. Opened("client") /\ net # <<>> /\ "client" \in Ends
  BY DEF Receive, OneSocket, Ends
<1>2. message \in Sendable
  BY <1>1 DEF Settled
<1>3. w \in Object /\ ws \in [Ends -> Object]
  BY <1>1 DEF TypeInv, TypeOK
<1>4. PICK v : v = Take(w, message)
  OBVIOUS
<1>5. /\ v \in Object
      /\ v.readyState = IF message = "close" THEN "closing" ELSE w.readyState
      /\ v.events = Append(w.events, message)
      /\ v.closes = w.closes /\ v.closeCode = w.closeCode
      /\ v.config = w.config /\ v.protocol = w.protocol
  BY <1>2, <1>3, <1>4, TakeIs
<1>6. ws' = [ws EXCEPT !["client"] = v] /\ pc' = pc /\ net' = Tail(net) /\ sent' = sent
  BY <1>4 DEF Receive, server
<1>7. ws' \in [Ends -> Object] /\ ws'["client"] = v /\ \A f \in Ends : f # "client" => ws'[f] = ws[f]
  BY <1>1, <1>3, <1>5, <1>6, SetEnd
<1>8. Reads("client")
  BY <1>1, <1>2, <1>5, <1>6, <1>7 DEF Reads
<1>9. \A f \in Ends : f # "client" => Same(f)
  BY <1>6, <1>7 DEF Same
<1> QED
  BY <1>7, <1>8, <1>9 DEF Changes

(* What the steps of a client rest on. *)
ClientInv == TypeInv /\ Settled /\ OneSocket /\ RequestsInv

(* The upgrade the client waits for opens it, when they agree. *)
LEMMA UpgradeOpens ==
  ASSUME ClientInv, NEW u \in Urls, NEW a, NEW n, Upgrades(u, a, n), Awaited(u), Agreed(a) # {}
  PROVE  Changes /\ Opens("client")
<1>0. /\ a.protocol \in Protocols \cup {NoProtocol} /\ n \in 0..Len(net) /\ Upgrade(u, a, n)
  BY AnswerType DEF ClientInv, Upgrades
<1> USE DEF ClientInv
<1> DEFINE w == ws["client"]
<1>1. /\ {"client", "server"} = Ends /\ ws \in [Ends -> Object]
      /\ pc \in [Ends -> {"none", "request", "waiting", "importing", "hashing", "over"}]
  BY DEF Ends, TypeInv, TypeOK
<1>2. pc["client"] # "over"
  BY DEF RequestsInv
<1>3. pc' = [pc EXCEPT !["client"] = "over"]
  BY <1>0 DEF Upgrade
<1>4. w \in Object /\ w.readyState = "connecting" /\ w.events = <<>>
  BY <1>1, <1>2, NotOver
<1>5. PICK config \in Agreed(a) :
        /\ request' = [request EXCEPT ![u] = "over"] /\ socket' = [socket EXCEPT ![u] = "used"]
        /\ ws' = [ws EXCEPT !["client"] =
                    StartWith([@ EXCEPT !.config = config,
                                        !.protocol = IF scenario.protocols = <<>> THEN NoProtocol ELSE a.protocol],
                              SubSeq(net, 1, n))]
        /\ net' = SubSeq(net, n + 1, Len(net))
  BY <1>0 DEF Upgrade
<1>6. PICK p : p = IF scenario.protocols = <<>> THEN NoProtocol ELSE a.protocol
  OBVIOUS
<1>7. config \in Config \cup {Off} /\ p \in Protocols \cup {NoProtocol}
  BY <1>0, <1>6, AgreedType
<1>8. PICK x : x = [w EXCEPT !.config = config, !.protocol = p]
  OBVIOUS
<1>9. /\ x \in Object /\ x.events = <<>> /\ x.closes = w.closes
      /\ x.config = config /\ x.protocol = p
  BY <1>4, <1>7, <1>8 DEF Object
<1>10. PICK chunk : chunk = SubSeq(net, 1, n)
  OBVIOUS
<1>11. chunk \in Seq(Sendable)
  BY <1>0, <1>10, SubSeqProperties DEF Settled
<1>12. PICK v : v = StartWith(x, chunk)
  OBVIOUS
<1>13. /\ v \in Object /\ v.readyState \in {"open", "closing"}
       /\ x.closes # <<>> => v.readyState = "closing" /\ v.closeCode = Head(x.closes)
       /\ v.events = <<"open">> \o chunk
       /\ v.closes = x.closes /\ v.config = x.config /\ v.protocol = x.protocol
  BY <1>9, <1>11, <1>12, StartWithIs
<1>14. ws' = [ws EXCEPT !["client"] = v]
  BY <1>5, <1>6, <1>8, <1>10, <1>12
<1>15. ws' \in [Ends -> Object] /\ ws'["client"] = v /\ \A f \in Ends : f # "client" => ws'[f] = ws[f]
  BY <1>1, <1>13, <1>14, SetEnd
<1>16. pc'["client"] = "over" /\ \A f \in Ends : f # "client" => pc'[f] = pc[f]
  BY <1>1, <1>3
<1>17. ws'["server"] = ws["server"]
  BY <1>1, <1>15
<1>18. ClientOpens(u, a, n)
  BY <1>5, <1>6, <1>9, <1>10, <1>13, <1>15, <1>17 DEF ClientOpens
<1>19. Opens("client")
  BY <1>4, <1>9, <1>11, <1>13, <1>15, <1>16, <1>18 DEF Opens
<1>20. \A f \in Ends : f # "client" => Same(f)
  BY <1>15, <1>16 DEF Same
<1> QED
  BY <1>15, <1>19, <1>20 DEF Changes

(* An upgrade opens the client, fails it or comes too late. *)
LEMMA UpgradeChanges ==
  ASSUME ClientInv, NEW u \in Urls, NEW a, NEW n, Upgrades(u, a, n)
  PROVE  Changes
<1>1. CASE ~Awaited(u)
  <2>1. ws' = ws /\ pc' = pc
    BY <1>1 DEF Upgrades, Upgrade
  <2> QED
    BY <2>1, NoChanges DEF ClientInv
<1>2. CASE Awaited(u) /\ Agreed(a) = {}
  <2>1. "client" \in Ends /\ pc["client"] # "over"
    BY <1>2 DEF Ends, ClientInv, RequestsInv
  <2>2. pc' = [pc EXCEPT !["client"] = "over"] /\ Fails("client", ws["client"])
    BY <1>2 DEF Upgrades, Upgrade
  <2> QED
    BY <2>1, <2>2, FailChanges DEF ClientInv
<1>3. CASE Awaited(u) /\ Agreed(a) # {}
  BY <1>3, UpgradeOpens
<1> QED
  BY <1>1, <1>2, <1>3

(* The server grants what was asked, or refuses. *)
LEMMA ServerChecksChanges ==
  ASSUME TypeInv, Settled, ServerChecks
  PROVE  Changes
<1> DEFINE w == ws["server"]
<1>1. /\ "server" \in Ends /\ ws \in [Ends -> Object] /\ pc["server"] = "importing"
      /\ pc \in [Ends -> {"none", "request", "waiting", "importing", "hashing", "over"}]
  BY DEF Ends, TypeInv, TypeOK, ServerChecks
<1>2. CASE pc' = [pc EXCEPT !["server"] = "over"] /\ Fails("server", ws["server"])
  BY <1>1, <1>2, FailChanges
<1>3. ASSUME NEW config \in Granted(offer.line), pc' = [pc EXCEPT !["server"] = "hashing"],
             ws' = [ws EXCEPT !["server"].config = config, !["server"].protocol = Chosen(offer.protocols)]
      PROVE  Changes
  <2>1. w \in Object /\ w.readyState = "connecting" /\ w.events = <<>>
    BY <1>1, NotOver
  <2>2. PICK p : p = Chosen(offer.protocols)
    OBVIOUS
  <2>3. config \in Config \cup {Off} /\ p \in Protocols \cup {NoProtocol}
    BY <1>3, <2>2, GrantedType, ChosenIs DEF TypeInv, TypeOK
  <2>4. PICK v : v = [w EXCEPT !.config = config, !.protocol = p]
    OBVIOUS
  <2>5. v \in Object /\ v.readyState = "connecting" /\ v.events = <<>> /\ v.config = config /\ v.protocol = p
    BY <2>1, <2>3, <2>4 DEF Object
  <2>6. ws' = [ws EXCEPT !["server"] = v]
    BY <1>1, <1>3, <2>2, <2>4
  <2>7. ws' \in [Ends -> Object] /\ ws'["server"] = v /\ \A f \in Ends : f # "server" => ws'[f] = ws[f]
    BY <1>1, <2>5, <2>6, SetEnd
  <2>8. pc'["server"] = "hashing" /\ \A f \in Ends : f # "server" => pc'[f] = pc[f]
    BY <1>1, <1>3
  <2>9. Waits("server")
    BY <1>1, <2>1, <2>2, <2>5, <2>7, <2>8 DEF Waits, Grants
  <2>10. \A f \in Ends : f # "server" => Same(f)
    BY <2>7, <2>8 DEF Same
  <2> QED
    BY <2>7, <2>9, <2>10 DEF Changes
<1> QED
  BY <1>2, <1>3 DEF ServerChecks

(* The server opens, or its socket has failed. *)
LEMMA ServerAnswersChanges ==
  ASSUME TypeInv, Settled, NEW greeting \in Greetings, ServerAnswers(greeting)
  PROVE  Changes
<1> DEFINE w == ws["server"]
<1>1. /\ "server" \in Ends /\ ws \in [Ends -> Object] /\ pc["server"] = "hashing"
      /\ pc \in [Ends -> {"none", "request", "waiting", "importing", "hashing", "over"}]
      /\ pc' = [pc EXCEPT !["server"] = "over"]
  BY DEF Ends, TypeInv, TypeOK, ServerAnswers
<1>2. CASE ioErrored
  BY <1>1, <1>2, FailChanges DEF ServerAnswers
<1>3. CASE ~ioErrored
  <2>1. w \in Object /\ w.readyState = "connecting" /\ w.events = <<>>
    BY <1>1, NotOver
  <2>2. PICK v : v = Start(w)
    OBVIOUS
  <2>3. /\ v \in Object
        /\ v.readyState = IF w.closes = <<>> THEN "open" ELSE "closing"
        /\ v.closeCode = IF w.closes = <<>> THEN 0 ELSE Head(w.closes)
        /\ v.events = <<"open">> /\ v.closes = w.closes
        /\ v.config = w.config /\ v.protocol = w.protocol
    BY <2>1, <2>2, StartIs
  <2>4. ws' = [ws EXCEPT !["server"] = v]
    BY <1>3, <2>2 DEF ServerAnswers
  <2>5. ws' \in [Ends -> Object] /\ ws'["server"] = v /\ \A f \in Ends : f # "server" => ws'[f] = ws[f]
    BY <1>1, <2>3, <2>4, SetEnd
  <2>6. pc'["server"] = "over" /\ \A f \in Ends : f # "server" => pc'[f] = pc[f]
    BY <1>1
  <2>7. v.events = <<"open">> \o <<>> /\ <<>> \in Seq(Sendable)
    BY <2>3
  <2>8. Opens("server")
    BY <1>1, <1>3, <2>1, <2>3, <2>5, <2>6, <2>7 DEF Opens, ServerOpens, ServerAnswers
  <2>9. \A f \in Ends : f # "server" => Same(f)
    BY <2>5, <2>6 DEF Same
  <2> QED
    BY <2>5, <2>8, <2>9 DEF Changes
<1> QED
  BY <1>2, <1>3

(* What the handlers of the other steps do to the two ends. *)
LEMMA RequestChanges ==
  ASSUME ClientInv, Request
  PROVE  Changes
<1> USE DEF ClientInv
<1>1. "client" \in Ends /\ pc["client"] = "request"
  BY DEF Ends, Request
<1>2. CASE pc' = [pc EXCEPT !["client"] = "over"] /\ Fails("client", ws["client"])
  BY <1>1, <1>2, FailChanges
<1>3. CASE pc' = [pc EXCEPT !["client"] = "waiting"] /\ ws' = ws
  <2>1. \A e \in Ends :
          (pc'[e] = "over" <=> pc[e] = "over") /\ (pc'[e] = "hashing" => pc[e] = "hashing")
    BY <1>1, <1>3 DEF TypeInv, TypeOK
  <2> QED
    BY <1>3, <2>1, NoChanges
<1> QED
  BY <1>2, <1>3 DEF Request

(* A request that comes to nothing, or elsewhere. *)
LEMMA SettleChanges ==
  ASSUME ClientInv, NEW u \in Urls,
         RequestFails(u) \/ RequestTimeout(u) \/ \E location \in Urls : Redirect(u, location)
  PROVE  Changes
<1> USE DEF ClientInv
<1>1. "client" \in Ends /\ (Awaited(u) => pc["client"] = "waiting")
  BY DEF Ends, RequestsInv
<1>2. CASE RequestFails(u) \/ RequestTimeout(u)
  <2>1. CASE Awaited(u)
    BY <1>1, <1>2, <2>1, FailChanges DEF RequestFails, RequestTimeout
  <2>2. CASE ~Awaited(u)
    BY <1>2, <2>2, NoChanges DEF RequestFails, RequestTimeout
  <2> QED
    BY <2>1, <2>2
<1>3. ASSUME NEW location \in Urls, Redirect(u, location) PROVE Changes
  <2>1. ws' = ws /\ (pc' = pc \/ (Awaited(u) /\ pc' = [pc EXCEPT !["client"] = "request"]))
    BY <1>3 DEF Redirect
  <2>2. \A e \in Ends :
          (pc'[e] = "over" <=> pc[e] = "over") /\ (pc'[e] = "hashing" => pc[e] = "hashing")
    BY <1>1, <2>1 DEF TypeInv, TypeOK
  <2> QED
    BY <2>1, <2>2, NoChanges
<1> QED
  BY <1>2, <1>3

(* What changes neither end. *)
LEMMA OtherChanges ==
  ASSUME ClientInv,
         \/ \E r : Visit(r)
         \/ ServerSocketError
         \/ \E u \in Urls : ClientSocketError(u)
         \/ UNCHANGED vars
  PROVE  Changes
<1> USE DEF ClientInv
<1>1. ws' = ws /\ (pc' = pc \/ (pc["server"] = "none" /\ pc' = [pc EXCEPT !["server"] = "importing"]))
  BY DEF Visit, ServerSocketError, ClientSocketError, vars
<1>2. \A e \in Ends :
        (pc'[e] = "over" <=> pc[e] = "over") /\ (pc'[e] = "hashing" => pc[e] = "hashing")
  BY <1>1 DEF TypeInv, TypeOK
<1> QED
  BY <1>1, <1>2, NoChanges

(* The steps there are. *)
LEMMA Steps ==
  ASSUME TypeInv, [Next]_vars
  PROVE  \/ \E e \in Ends, code \in Codes : Close(e, code)
         \/ Request
         \/ Receive
         \/ \E u \in Urls : \E a, n : Upgrades(u, a, n)
         \/ \E u \in Urls : \E location \in Urls : ~AtHome(u) /\ Redirect(u, location)
         \/ \E u \in Urls : RequestFails(u)
         \/ \E u \in Urls : RequestTimeout(u)
         \/ \E u \in Urls : ClientSocketError(u)
         \/ \E r : Visits(r)
         \/ ServerChecks
         \/ \E greeting \in Greetings : ServerAnswers(greeting)
         \/ ServerSocketError
         \/ UNCHANGED vars
<1>1. net \in Seq(Event) /\ 0 \in 0..Len(net)
  BY DEF TypeInv, TypeOK
<1>2. ASSUME NEW u \in Urls, NEW a \in {OwnAnswer}, NEW n \in 0..Len(net), AtHome(u), answered = "101",
             Upgrade(u, a, n)
      PROVE  Upgrades(u, a, n)
  BY <1>2 DEF Upgrades
<1>3. ASSUME NEW u \in Urls, NEW a \in Answers, ~AtHome(u), Upgrade(u, a, 0)
      PROVE  Upgrades(u, a, 0)
  BY <1>1, <1>3 DEF Upgrades
<1>4. ASSUME NEW u \in Urls, AtHome(u), Visit(OwnRequest)
      PROVE  Visits(OwnRequest)
  BY <1>4 DEF Visits, AtHome
<1>5. ASSUME scenario.visitor = "other", NEW r \in Requests, Visit(r)
      PROVE  Visits(r)
  BY <1>5 DEF Visits
<1>6. CASE UNCHANGED vars
  BY <1>6
<1>7. CASE Next
  BY <1>2, <1>3, <1>4, <1>5, <1>7 DEF Next
<1> QED
  BY <1>6, <1>7

(* Every step changes an end in one of the ways above. *)
LEMMA NextChanges ==
  ASSUME ClientInv, [Next]_vars
  PROVE  Changes
<1>1. TypeInv /\ Settled /\ OneSocket
  BY DEF ClientInv
<1>2. ASSUME NEW u \in Urls, NEW a, NEW n, Upgrades(u, a, n) PROVE Changes
  BY <1>2, UpgradeChanges
<1>3. ASSUME NEW r, Visits(r) PROVE Changes
  <2>1. Visit(r)
    BY <1>3 DEF Visits
  <2> QED
    BY <2>1, OtherChanges
<1>4. ASSUME NEW e \in Ends, NEW code \in Codes, Close(e, code) PROVE Changes
  BY <1>1, <1>4, CloseChanges
<1>5. ASSUME NEW greeting \in Greetings, ServerAnswers(greeting) PROVE Changes
  BY <1>1, <1>5, ServerAnswersChanges
<1>6. CASE Request
  BY <1>6, RequestChanges
<1>7. CASE Receive
  BY <1>1, <1>7, ReadChanges
<1>8. CASE ServerChecks
  BY <1>1, <1>8, ServerChecksChanges
<1>9. ASSUME NEW u \in Urls,
             RequestFails(u) \/ RequestTimeout(u) \/ \E location \in Urls : Redirect(u, location)
      PROVE  Changes
  BY <1>9, SettleChanges
<1>10. CASE ServerSocketError \/ (\E u \in Urls : ClientSocketError(u)) \/ UNCHANGED vars
  BY <1>10, OtherChanges
<1> QED
  BY <1>1, <1>2, <1>3, <1>4, <1>5, <1>6, <1>7, <1>8, <1>9, <1>10, Steps

(* A server sends its greeting, and its close frame when it closes. *)
LEMMA SentIs ==
  ASSUME NEW greeting \in Greetings, NEW closes, NEW s,
         s = greeting \o If(closes, <<"close">>), closes \in BOOLEAN
  PROVE  /\ s \in Seq(Sendable)
         /\ \A i \in DOMAIN s : s[i] = "close" <=> (closes /\ i = Len(s))
<1>1. greeting \in Seq(STRING \ {"open", "error", "close"})
  BY HandshakeAssumption
<1>2. ASSUME NEW i \in DOMAIN greeting PROVE greeting[i] \in Sendable /\ greeting[i] # "close"
  <2>1. greeting[i] \in Event
    BY DEF Event
  <2> QED
    BY <1>1, <2>1 DEF Sendable
<1>3. greeting \in Seq(Sendable)
  BY <1>1, <1>2
<1>4. "close" \in Sendable
  BY DEF Event, Sendable
<1>5. CASE closes
  <2>1. s = greeting \o <<"close">>
    BY <1>5 DEF If
  <2>2. PICK last : last = <<"close">>
    OBVIOUS
  <2>3. last \in Seq(Sendable) /\ Len(last) = 1 /\ last[1] = "close"
    BY <1>4, <2>2
  <2>4. /\ s \in Seq(Sendable) /\ Len(s) = Len(greeting) + 1
        /\ \A i \in 1..Len(s) : s[i] = IF i <= Len(greeting) THEN greeting[i] ELSE last[i - Len(greeting)]
    <3>1. s = greeting \o last
      BY <2>1, <2>2
    <3> HIDE DEF Sendable
    <3>2. /\ greeting \o last \in Seq(Sendable)
          /\ Len(greeting \o last) = Len(greeting) + Len(last)
          /\ \A i \in 1..Len(greeting) + Len(last) :
               (greeting \o last)[i] = IF i <= Len(greeting) THEN greeting[i] ELSE last[i - Len(greeting)]
      BY <1>3, <2>3, ConcatProperties
    <3> QED
      BY <2>3, <3>1, <3>2
  <2>5. ASSUME NEW i \in DOMAIN s PROVE s[i] = "close" <=> (closes /\ i = Len(s))
    <3>1. i \in 1..Len(s) /\ Len(greeting) \in Nat
      BY <1>3, <2>4
    <3>2. CASE i <= Len(greeting)
      BY <1>2, <1>3, <2>4, <3>1, <3>2
    <3>3. CASE i > Len(greeting)
      <4>1. i = Len(s) /\ i - Len(greeting) = 1
        BY <2>4, <3>1, <3>3
      <4> QED
        <5>1. s[i] = last[i - Len(greeting)]
          BY <2>4, <3>1, <3>3
        <5>2. s[i] = "close"
          BY <2>3, <4>1, <5>1
        <5> QED
          BY <1>5, <4>1, <5>2
    <3> QED
      BY <3>1, <3>2, <3>3
  <2> QED
    BY <2>4, <2>5
<1>6. CASE ~closes
  <2>1. s = greeting \o <<>>
    BY <1>6 DEF If
  <2>2. s = greeting
    BY <1>3, <2>1, ConcatEmptySeq
  <2> QED
    BY <1>2, <1>3, <1>6, <2>2
<1> QED
  BY <1>5, <1>6

(* Nothing but what a server may send is ever on its way. *)
LEMMA NetStep ==
  ASSUME TypeInv, Settled, [Next]_vars
  PROVE  net' \in Seq(Sendable) /\ sent' \in Seq(Sendable)
<1> DEFINE Kept == net' = net /\ sent' = sent
<1>1. net \in Seq(Sendable) /\ sent \in Seq(Sendable)
  BY DEF Settled
<1>2. ASSUME NEW u \in Urls, NEW a, NEW n, Upgrades(u, a, n)
      PROVE  net' \in Seq(Sendable) /\ sent' \in Seq(Sendable)
  <2>1. n \in 0..Len(net) /\ sent' = sent /\ (net' = net \/ net' = SubSeq(net, n + 1, Len(net)))
    BY <1>2 DEF Upgrades, Upgrade, server
  <2>2. SubSeq(net, n + 1, Len(net)) \in Seq(Sendable)
    BY <1>1, <2>1, SubSeqProperties
  <2> QED
    BY <1>1, <2>1, <2>2
<1>3. ASSUME Receive
      PROVE  net' \in Seq(Sendable) /\ sent' \in Seq(Sendable)
  BY <1>1, <1>3 DEF Receive, server
<1>4. ASSUME NEW greeting \in Greetings, ServerAnswers(greeting)
      PROVE  net' \in Seq(Sendable) /\ sent' \in Seq(Sendable)
  <2>1. CASE ioErrored
    BY <1>1, <1>4, <2>1 DEF ServerAnswers
  <2>2. CASE ~ioErrored
    <3>1. PICK closes \in BOOLEAN : closes = (ws["server"].closes # <<>>)
      OBVIOUS
    <3>2. sent' = greeting \o If(closes, <<"close">>) /\ net' = sent'
      BY <1>4, <2>2, <3>1 DEF ServerAnswers
    <3>3. PICK s : s = sent'
      OBVIOUS
    <3>4. s \in Seq(Sendable)
      BY <3>1, <3>2, <3>3, SentIs
    <3> QED
      BY <3>2, <3>3, <3>4
  <2> QED
    BY <2>1, <2>2
<1>5. ASSUME NEW r, Visits(r) PROVE Kept
  BY <1>5 DEF Visits, Visit
<1>6. ASSUME \/ Request \/ ServerChecks \/ ServerSocketError \/ UNCHANGED vars
             \/ \E e \in Ends, code \in Codes : Close(e, code)
      PROVE  Kept
  BY <1>6 DEF Request, ServerChecks, ServerSocketError, vars, server, Close
<1>7. ASSUME NEW u \in Urls,
             \/ \E location \in Urls : Redirect(u, location)
             \/ RequestFails(u) \/ RequestTimeout(u) \/ ClientSocketError(u)
      PROVE  Kept
  BY <1>7 DEF Redirect, RequestFails, RequestTimeout, ClientSocketError, server
<1> QED
  BY <1>1, <1>2, <1>3, <1>4, <1>5, <1>6, <1>7, Steps

(* What urlsTried holds. *)
Normals == [scheme : {"http", "https"}, host : STRING]

(* A URL keeps its security when it is normalised. *)
LEMMA NormalIs ==
  ASSUME NEW u \in Urls
  PROVE  Normal(u) \in Normals /\ (Secure(Normal(u)) <=> Secure(u))
<1>1. u \in [scheme : STRING, host : STRING]
  BY HandshakeAssumption
<1>2. PICK s : s = IF Secure(u) THEN "https" ELSE "http"
  OBVIOUS
<1>3. Normal(u) = [u EXCEPT !.scheme = s]
  BY <1>2 DEF Normal
<1>4. Normal(u) \in Normals /\ Normal(u).scheme = s
  BY <1>1, <1>2, <1>3 DEF Normals
<1> QED
  BY <1>2, <1>4 DEF Secure

(* Every variable but the two WebSocket objects keeps its type. *)
LEMMA TypeStep ==
  ASSUME ClientInv, [Next]_vars
  PROVE  TypeInv'
<1>1. TypeInv /\ Settled
  BY DEF ClientInv
<1>2. ws' \in [Ends -> Object]
  BY NextChanges DEF Changes
<1>3. net' \in Seq(Event) /\ sent' \in Seq(Event)
  BY <1>1, NetStep, Events, SeqOver
<1> DEFINE Rest ==
      /\ pc' \in [Ends -> {"none", "request", "waiting", "importing", "hashing", "over"}]
      /\ pc'["client"] \in {"request", "waiting", "over"}
      /\ pc'["server"] \in {"none", "importing", "hashing", "over"}
      /\ url' \in Urls /\ tried' \in Seq([scheme : {"http", "https"}, host : STRING])
      /\ request' \in [Urls -> {"none", "asked", "late", "over"}]
      /\ socket' \in [Urls -> {"none", "used", "late", "ended"}]
      /\ offer'.matches \in BOOLEAN /\ offer'.protocols \in Seq(Protocols)
      /\ answered' \in {"no", "101", "400"}
      /\ ioErrored' \in BOOLEAN /\ crashed' \subseteq Ends
      /\ scenario' = scenario
<1> USE <1>1 DEF TypeInv, TypeOK, Ends, client, server
<1>4. ASSUME NEW e \in Ends, NEW code \in Codes, Close(e, code) PROVE Rest
  BY <1>4 DEF Close
<1>5. ASSUME Request PROVE Rest
  <2>1. tried' \in Seq(Normals)
    <3>1. Normal(url) \in Normals
      BY NormalIs
    <3>2. tried \in Seq(Normals)
      BY DEF Normals
    <3>3. tried' = tried \/ tried' = Append(tried, Normal(url))
      BY <1>5 DEF Request
    <3>4. Append(tried, Normal(url)) \in Seq(Normals)
      BY <3>1, <3>2, AppendProperties
    <3> QED
      BY <3>2, <3>3, <3>4
  <2>2. /\ pc' = [pc EXCEPT !["client"] = "over"] \/ pc' = [pc EXCEPT !["client"] = "waiting"]
        /\ request' = request \/ request' = [request EXCEPT ![url] = "asked"]
        /\ url' = url /\ socket' = socket /\ offer' = offer /\ answered' = answered
        /\ ioErrored' = ioErrored /\ scenario' = scenario
    BY <1>5 DEF Request
  <2>3. crashed' \subseteq Ends
    BY <1>5 DEF Request, Fails
  <2>4. request' \in [Urls -> {"none", "asked", "late", "over"}]
    BY <2>2
  <2>5. /\ pc' \in [Ends -> {"none", "request", "waiting", "importing", "hashing", "over"}]
        /\ pc'["client"] \in {"request", "waiting", "over"} /\ pc'["server"] = pc["server"]
    BY <2>2
  <2>6. tried' \in Seq([scheme : {"http", "https"}, host : STRING])
    BY <2>1 DEF Normals
  <2> QED
    BY <2>2, <2>3, <2>4, <2>5, <2>6
<1>6. ASSUME Receive PROVE Rest
  <2>1. UNCHANGED <<scenario, pc, client, server, crashed>>
    BY <1>6 DEF Receive
  <2> QED
    BY <2>1
<1>7. ASSUME NEW u \in Urls, NEW a, NEW n, Upgrades(u, a, n) PROVE Rest
  <2>1. Upgrade(u, a, n)
    BY <1>7 DEF Upgrades
  <2>2. /\ pc' = pc \/ pc' = [pc EXCEPT !["client"] = "over"]
        /\ request' = [request EXCEPT ![u] = "over"]
        /\ url' = url /\ tried' = tried /\ offer' = offer /\ answered' = answered
        /\ ioErrored' = ioErrored /\ scenario' = scenario
    BY <2>1 DEF Upgrade
  <2>3. socket' \in [Urls -> {"none", "used", "late", "ended"}]
    BY <2>1 DEF Upgrade
  <2>4. crashed' \subseteq Ends
    BY <2>1 DEF Upgrade, Fails
  <2>5. request' \in [Urls -> {"none", "asked", "late", "over"}]
    BY <2>2
  <2>6. /\ pc' \in [Ends -> {"none", "request", "waiting", "importing", "hashing", "over"}]
        /\ pc'["client"] \in {"request", "waiting", "over"} /\ pc'["server"] = pc["server"]
    BY <2>2
  <2> QED
    BY <2>2, <2>3, <2>4, <2>5, <2>6
<1>8. ASSUME NEW u \in Urls, NEW location \in Urls, Redirect(u, location) PROVE Rest
  BY <1>8 DEF Redirect
<1>9. ASSUME NEW u \in Urls, RequestFails(u) \/ RequestTimeout(u) \/ ClientSocketError(u) PROVE Rest
  BY <1>9 DEF RequestFails, RequestTimeout, ClientSocketError, Fails
<1>10. ASSUME NEW r, Visits(r) PROVE Rest
  <2>1. offer' = r /\ pc' = [pc EXCEPT !["server"] = "importing"]
        /\ UNCHANGED <<scenario, ws, client, answered, sent, ioErrored, net, crashed>>
    BY <1>10 DEF Visits, Visit
  <2>2. r.matches \in BOOLEAN /\ r.protocols \in Seq(Protocols)
    <3>1. CASE r = OwnRequest
      <4>1. r.matches = TRUE /\ r.protocols = scenario.protocols
        BY <3>1 DEF OwnRequest
      <4> QED
        BY <4>1, HandshakeAssumption
    <3>2. CASE r \in Requests
      BY <3>2, HandshakeAssumption
    <3> QED
      BY <1>10, <3>1, <3>2 DEF Visits
  <2> QED
    BY <2>1, <2>2
<1>11. ASSUME ServerChecks PROVE Rest
  <2>1. /\ pc' = [pc EXCEPT !["server"] = "over"] \/ pc' = [pc EXCEPT !["server"] = "hashing"]
        /\ answered' \in {answered, "400", "no"}
        /\ UNCHANGED <<scenario, client, offer, sent, ioErrored, net>>
    BY <1>11 DEF ServerChecks
  <2>2. crashed' \subseteq Ends
    BY <1>11 DEF ServerChecks, Fails
  <2> QED
    BY <2>1, <2>2
<1>12. ASSUME NEW greeting \in Greetings, ServerAnswers(greeting) PROVE Rest
  <2>1. /\ pc' = [pc EXCEPT !["server"] = "over"]
        /\ answered' \in {answered, "101"} /\ crashed' \subseteq Ends
        /\ UNCHANGED <<scenario, client, offer, ioErrored>>
    BY <1>12 DEF ServerAnswers, Fails
  <2> QED
    BY <2>1
<1>13. ASSUME ServerSocketError \/ UNCHANGED vars PROVE Rest
  BY <1>13 DEF ServerSocketError, vars
<1> HIDE DEF Rest, TypeInv, TypeOK, Ends, client, server
<1>14. Rest
  BY <1>4, <1>5, <1>6, <1>7, <1>8, <1>9, <1>10, <1>11, <1>12, <1>13, Steps
<1> QED
  BY <1>1, <1>2, <1>3, <1>14 DEF Rest, TypeInv, TypeOK

(* How the constructors were called does not change. *)
LEMMA StaysTheScenario ==
  ASSUME TypeInv, [Next]_vars
  PROVE  scenario' = scenario
<1>1. ASSUME NEW u \in Urls, NEW a, NEW n, Upgrades(u, a, n) PROVE scenario' = scenario
  BY <1>1 DEF Upgrades, Upgrade
<1>2. ASSUME NEW r, Visits(r) PROVE scenario' = scenario
  BY <1>2 DEF Visits, Visit
<1>3. ASSUME \/ Request \/ Receive \/ ServerChecks \/ ServerSocketError \/ UNCHANGED vars
             \/ \E e \in Ends, code \in Codes : Close(e, code)
             \/ \E greeting \in Greetings : ServerAnswers(greeting)
      PROVE  scenario' = scenario
  BY <1>3 DEF Request, Receive, ServerChecks, ServerSocketError, vars, Close, ServerAnswers
<1>4. ASSUME NEW u \in Urls,
             \/ \E location \in Urls : Redirect(u, location)
             \/ RequestFails(u) \/ RequestTimeout(u) \/ ClientSocketError(u)
      PROVE  scenario' = scenario
  BY <1>4 DEF Redirect, RequestFails, RequestTimeout, ClientSocketError
<1> QED
  BY <1>1, <1>2, <1>3, <1>4, Steps

(* What has come of a handshake does not change, and shows. *)
LEMMA SettledStep ==
  ASSUME ClientInv, [Next]_vars
  PROVE  Settled'
<1>1. TypeInv /\ Settled
  BY DEF ClientInv
<1>2. net' \in Seq(Sendable) /\ sent' \in Seq(Sendable)
  BY <1>1, NetStep
<1>3. ws' \in [Ends -> Object]
  BY NextChanges DEF Changes
<1>4. ASSUME NEW e \in Ends
      PROVE  /\ ws'[e].readyState = "connecting" => ws'[e].events = <<>> /\ pc'[e] # "over"
             /\ ws'[e].readyState = "closed" => ws'[e].events = <<"error">> /\ pc'[e] = "over"
             /\ Opened(e)' =>
                  /\ pc'[e] = "over" /\ ws'[e].events # <<>> /\ ws'[e].events[1] = "open"
                  /\ \A i \in DOMAIN ws'[e].events \ {1} : ws'[e].events[i] \in Sendable
  <2> USE DEF Opened
  <2>1. CASE Same(e)
    BY <1>1, <2>1 DEF Same, Settled
  <2>2. CASE Waits(e)
    BY <2>2 DEF Waits
  <2>3. CASE Falls(e)
    BY <2>3 DEF Falls
  <2>4. CASE Opens(e)
    <3>1. PICK chunk \in Seq(Sendable) : ws'[e].events = <<"open">> \o chunk
      BY <2>4 DEF Opens
    <3>2. PICK es : es = ws'[e].events
      OBVIOUS
    <3>3. es # <<>> /\ es[1] = "open" /\ \A i \in DOMAIN es \ {1} : es[i] \in Sendable
      BY <3>1, <3>2
    <3> QED
      BY <2>4, <3>2, <3>3 DEF Opens
  <2>5. CASE Reads(e)
    <3>1. PICK message \in Sendable : ws'[e].events = Append(ws[e].events, message)
      BY <1>1, <2>5 DEF Reads, Settled
    <3>2. PICK es, fs : es = ws[e].events /\ fs = ws'[e].events
      OBVIOUS
    <3>3. /\ es \in Seq(Event) /\ es # <<>> /\ es[1] = "open" /\ pc[e] = "over"
          /\ \A i \in DOMAIN es \ {1} : es[i] \in Sendable
      BY <1>1, <2>5, <3>2 DEF Reads, Settled, TypeInv, TypeOK, Object
    <3>4. fs = Append(es, message)
      BY <3>1, <3>2
    <3>5. fs # <<>> /\ fs[1] = "open" /\ \A i \in DOMAIN fs \ {1} : fs[i] \in Sendable
      BY <3>3, <3>4
    <3>6. pc'[e] = "over" /\ ws'[e].readyState \in {"open", "closing"}
      BY <2>5, <3>3 DEF Reads
    <3> QED
      BY <3>2, <3>5, <3>6
  <2> QED
    BY <2>1, <2>2, <2>3, <2>4, <2>5, NextChanges DEF Changes
<1> QED
  BY <1>2, <1>4 DEF Settled

(* A client that opens is one whose awaited request got a socket to use;   *)
(* no other step hands one over.                                           *)
LEMMA UsedStep ==
  ASSUME ClientInv, [Next]_vars, ~Opens("client")
  PROVE  /\ \A u \in Urls : socket'[u] = "used" <=> socket[u] = "used"
         /\ \A u \in Urls : socket'[u] # "none" => socket[u] # "none" \/ request'[u] = "over"
<1>1. socket \in [Urls -> {"none", "used", "late", "ended"}]
      /\ request \in [Urls -> {"none", "asked", "late", "over"}] /\ TypeInv
  BY DEF ClientInv, TypeInv, TypeOK
<1>2. ASSUME NEW u \in Urls, NEW a, NEW n, Upgrades(u, a, n)
      PROVE  /\ socket' = [socket EXCEPT ![u] = "ended"] \/ socket' = [socket EXCEPT ![u] = "late"]
             /\ socket[u] # "used" /\ request' = [request EXCEPT ![u] = "over"]
  <2>1. /\ Upgrade(u, a, n) /\ n \in 0..Len(net) /\ request[u] \in {"asked", "late"}
        /\ request' = [request EXCEPT ![u] = "over"]
    BY <1>2 DEF Upgrades, Upgrade
  <2>2. socket[u] # "used"
    BY <2>1 DEF ClientInv, OneSocket
  <2>3. ~(Awaited(u) /\ Agreed(a) # {})
    BY <1>2, UpgradeOpens
  <2>4. socket' = [socket EXCEPT ![u] = "ended"] \/ socket' = [socket EXCEPT ![u] = "late"]
    BY <2>1, <2>3 DEF Upgrade
  <2> QED
    BY <2>1, <2>2, <2>4
<1>3. ASSUME \/ Request \/ Receive \/ ServerChecks \/ ServerSocketError \/ UNCHANGED vars
             \/ \E e \in Ends, code \in Codes : Close(e, code)
             \/ \E greeting \in Greetings : ServerAnswers(greeting)
             \/ \E r : Visits(r)
      PROVE  socket' = socket
  BY <1>3 DEF Request, Receive, ServerChecks, ServerSocketError, vars, Close, ServerAnswers, Visits, Visit, client
<1>4. ASSUME NEW u \in Urls,
             \/ \E location \in Urls : Redirect(u, location)
             \/ RequestFails(u) \/ RequestTimeout(u) \/ ClientSocketError(u)
      PROVE  socket' = socket
  BY <1>4 DEF Redirect, RequestFails, RequestTimeout, ClientSocketError, client
<1>5. CASE \E u \in Urls : \E a, n : Upgrades(u, a, n)
  BY <1>1, <1>2, <1>5
<1>6. CASE socket' = socket
  BY <1>6
<1> QED
  BY <1>1, <1>3, <1>4, <1>5, <1>6, Steps

(* How a request goes on: it is asked once, and settled or late after      *)
(* that.                                                                   *)
LEMMA RequestStep ==
  ASSUME ClientInv, [Next]_vars
  PROVE  \/ /\ pc["client"] = "request" /\ pc'["client"] = "waiting"
            /\ ~MayNotRequest(url) /\ tried' = Append(tried, Normal(url))
            /\ request' = [request EXCEPT ![url] = "asked"]
         \/ /\ tried' = tried /\ pc'["client"] # "waiting"
            /\ \E u \in Urls : /\ Awaited(u)
                               /\ request' = [request EXCEPT ![u] = "over"]
                                  \/ request' = [request EXCEPT ![u] = "late"]
         \/ /\ tried' = tried /\ pc'["client"] = pc["client"]
            /\ \E u \in Urls : /\ request[u] = "late"
                               /\ request' = [request EXCEPT ![u] = "over"]
         \/ /\ tried' = tried /\ request' = request
            /\ pc["client"] = "waiting" => pc'["client"] = "waiting"
<1>1. /\ pc \in [Ends -> {"none", "request", "waiting", "importing", "hashing", "over"}]
      /\ Ends = {"client", "server"} /\ TypeInv
      /\ \A u \in Urls : Awaited(u) => pc["client"] = "waiting"
  BY DEF ClientInv, TypeInv, TypeOK, Ends, RequestsInv
<1> DEFINE Goes(u) ==
      /\ tried' = tried /\ request[u] \in {"asked", "late"}
      /\ request' = [request EXCEPT ![u] = "over"] \/ request' = [request EXCEPT ![u] = "late"]
      /\ IF Awaited(u) THEN pc'["client"] # "waiting"
         ELSE pc'["client"] = pc["client"] /\ request' = [request EXCEPT ![u] = "over"]
           Stays == tried' = tried /\ request' = request /\ pc'["client"] = pc["client"]
<1>2. ASSUME NEW u \in Urls, NEW a, NEW n, Upgrades(u, a, n) PROVE Goes(u)
  BY <1>1, <1>2 DEF Upgrades, Upgrade
<1>3. ASSUME NEW u \in Urls, NEW location \in Urls, Redirect(u, location) PROVE Goes(u)
  BY <1>1, <1>3 DEF Redirect
<1>4. ASSUME NEW u \in Urls, RequestFails(u) \/ RequestTimeout(u) PROVE Goes(u)
  BY <1>1, <1>4 DEF RequestFails, RequestTimeout, Awaited
<1>5. ASSUME \/ Receive \/ ServerSocketError \/ UNCHANGED vars
             \/ \E e \in Ends, code \in Codes : Close(e, code)
             \/ \E u \in Urls : ClientSocketError(u)
      PROVE  Stays
  BY <1>5 DEF Receive, ServerSocketError, vars, Close, ClientSocketError, client
<1>6. ASSUME \/ ServerChecks
             \/ \E greeting \in Greetings : ServerAnswers(greeting)
             \/ \E r : Visits(r)
      PROVE  Stays
  BY <1>1, <1>6 DEF ServerChecks, ServerAnswers, Visits, Visit, client
<1>7. CASE Request
  <2>1. CASE MayNotRequest(url)
    BY <1>1, <1>7, <2>1 DEF Request, client
  <2>2. CASE ~MayNotRequest(url)
    BY <1>1, <1>7, <2>2 DEF Request
  <2> QED
    BY <2>1, <2>2
<1>8. ASSUME NEW u \in Urls, Goes(u)
      PROVE  \/ /\ tried' = tried /\ pc'["client"] # "waiting" /\ Awaited(u)
                /\ request' = [request EXCEPT ![u] = "over"] \/ request' = [request EXCEPT ![u] = "late"]
             \/ /\ tried' = tried /\ pc'["client"] = pc["client"] /\ request[u] = "late"
                /\ request' = [request EXCEPT ![u] = "over"]
  BY <1>8 DEF Awaited
<1>9. CASE \E u \in Urls : Goes(u)
  BY <1>8, <1>9
<1>10. CASE Stays
  BY <1>10
<1> HIDE DEF Goes, Stays
<1> QED
  BY <1>1, <1>2, <1>3, <1>4, <1>5, <1>6, <1>7, <1>9, <1>10, Steps

(* One more URL is tried. *)
LEMMA TriedIs ==
  ASSUME TypeInv, RequestsInv, NEW u \in Urls, Normal(u) \notin Tried, tried' = Append(tried, Normal(u))
  PROVE  /\ Tried' = Tried \cup {Normal(u)} /\ Len(tried') = Len(tried) + 1
         /\ IsFiniteSet(Tried') /\ Cardinality(Tried') = Len(tried')
         /\ tried' # <<>> /\ tried'[1] = IF tried = <<>> THEN Normal(u) ELSE tried[1]
<1>1. PICK x, xs : x = Normal(u) /\ xs = tried'
  OBVIOUS
<1>2. tried \in Seq(Normals) /\ x \in Normals
  BY <1>1, NormalIs DEF TypeInv, TypeOK, Normals
<1>3. /\ xs \in Seq(Normals) /\ Len(xs) = Len(tried) + 1 /\ xs[Len(xs)] = x
      /\ \A i \in 1..Len(tried) : xs[i] = tried[i]
  BY <1>1, <1>2, AppendProperties
<1>4. {xs[i] : i \in DOMAIN xs} = {tried[i] : i \in DOMAIN tried} \cup {x}
  <2>1. DOMAIN xs = 1..(Len(tried) + 1) /\ DOMAIN tried = 1..Len(tried) /\ Len(tried) \in Nat
    BY <1>2, <1>3
  <2>2. \A i \in DOMAIN xs : xs[i] = x \/ (i \in DOMAIN tried /\ xs[i] = tried[i])
    BY <1>3, <2>1
  <2>3. \A i \in DOMAIN tried : i \in DOMAIN xs /\ tried[i] = xs[i]
    BY <1>3, <2>1
  <2>4. Len(xs) \in DOMAIN xs
    BY <1>3, <2>1
  <2> QED
    BY <1>3, <2>2, <2>3, <2>4
<1>5. Tried' = Tried \cup {x}
  BY <1>1, <1>4 DEF Tried
<1>6. /\ IsFiniteSet(Tried \cup {x}) /\ Cardinality(Tried \cup {x}) = Cardinality(Tried) + 1
  BY <1>1, FS_AddElement DEF RequestsInv
<1>7. xs # <<>> /\ xs[1] = IF tried = <<>> THEN x ELSE tried[1]
  BY <1>2, <1>3
<1> QED
  BY <1>1, <1>3, <1>5, <1>6, <1>7 DEF RequestsInv

(* Redirections stay safe. *)
LEMMA RequestsStep ==
  ASSUME ClientInv, [Next]_vars
  PROVE  RequestsInv'
<1>1. /\ RequestsInv /\ TypeInv /\ scenario' = scenario
      /\ request \in [Urls -> {"none", "asked", "late", "over"}] /\ url \in Urls
  BY StaysTheScenario DEF ClientInv, TypeInv, TypeOK
<1>2. CASE /\ pc["client"] = "request" /\ pc'["client"] = "waiting"
           /\ ~MayNotRequest(url) /\ tried' = Append(tried, Normal(url))
           /\ request' = [request EXCEPT ![url] = "asked"]
  <2>1. /\ Normal(url) \notin Tried /\ Len(tried) + 1 <= scenario.maxRedirections
        /\ tried # <<>> /\ Secure(tried[1]) => Secure(url)
        /\ ~scenario.allowRedirections => tried = <<>>
    <3>1. Len(tried) \in Nat /\ scenario.maxRedirections \in Nat
      BY <1>1, HandshakeAssumption DEF TypeInv, TypeOK
    <3> QED
      BY <1>2, <3>1 DEF MayNotRequest
  <2>2. /\ Tried' = Tried \cup {Normal(url)} /\ Len(tried') = Len(tried) + 1
        /\ IsFiniteSet(Tried') /\ Cardinality(Tried') = Len(tried')
        /\ tried' # <<>> /\ tried'[1] = IF tried = <<>> THEN Normal(url) ELSE tried[1]
    BY <1>1, <1>2, <2>1, TriedIs
  <2>3. \A u \in Urls : Awaited(u)' => u = url
    BY <1>1, <1>2 DEF RequestsInv, Awaited
  <2>4. \A u \in Urls : request'[u] # "none" => u = url \/ request[u] # "none"
    BY <1>1, <1>2
  <2>5. \A u \in Urls : request'[u] # "none" => Normal(u) \in Tried'
    BY <1>1, <2>2, <2>4 DEF RequestsInv
  <2>6. Secure(tried'[1]) => \A u \in Urls : request'[u] # "none" => Secure(u)
    <3>1. CASE tried = <<>>
      <4>1. Tried = {}
        BY <3>1 DEF Tried
      <4>2. \A u \in Urls : request'[u] # "none" => u = url
        BY <1>1, <2>4, <4>1 DEF RequestsInv
      <4> QED
        BY <1>1, <2>2, <3>1, <4>2, NormalIs
    <3>2. CASE tried # <<>>
      BY <1>1, <2>1, <2>2, <2>4, <3>2 DEF RequestsInv
    <3> QED
      BY <3>1, <3>2
  <2>7. ~scenario.allowRedirections => Len(tried') <= 1
    BY <2>1, <2>2
  <2> QED
    BY <1>1, <1>2, <2>1, <2>2, <2>3, <2>5, <2>6, <2>7 DEF RequestsInv
<1>3. CASE tried' = tried /\ pc'["client"] # "waiting"
           /\ \E u \in Urls : /\ Awaited(u)
                              /\ \/ request' = [request EXCEPT ![u] = "over"]
                                 \/ request' = [request EXCEPT ![u] = "late"]
  <2>1. Tried' = Tried
    BY <1>3 DEF Tried
  <2>2. PICK u \in Urls : /\ Awaited(u)
                          /\ \/ request' = [request EXCEPT ![u] = "over"]
                             \/ request' = [request EXCEPT ![u] = "late"]
    BY <1>3
  <2>3. /\ \A v \in Urls : ~Awaited(v)'
        /\ \A v \in Urls : request'[v] # "none" => request[v] # "none"
    BY <1>1, <2>2 DEF RequestsInv, Awaited
  <2> QED
    BY <1>1, <1>3, <2>1, <2>3 DEF RequestsInv
<1>4. CASE tried' = tried /\ pc'["client"] = pc["client"]
           /\ \E u \in Urls : request[u] = "late" /\ request' = [request EXCEPT ![u] = "over"]
  <2>1. Tried' = Tried
    BY <1>4 DEF Tried
  <2>2. /\ \A v \in Urls : Awaited(v)' => Awaited(v)
        /\ \A v \in Urls : request'[v] # "none" => request[v] # "none"
    BY <1>1, <1>4 DEF Awaited
  <2> QED
    BY <1>1, <1>4, <2>1, <2>2 DEF RequestsInv
<1>5. CASE tried' = tried /\ request' = request /\ (pc["client"] = "waiting" => pc'["client"] = "waiting")
  <2>1. Tried' = Tried /\ \A v \in Urls : Awaited(v)' <=> Awaited(v)
    BY <1>5 DEF Tried, Awaited
  <2> QED
    BY <1>1, <1>5, <2>1 DEF RequestsInv
<1> QED
  BY <1>2, <1>3, <1>4, <1>5, RequestStep

(* The client that opened has one socket in use. *)
LEMMA OneSocketStep ==
  ASSUME ClientInv, [Next]_vars
  PROVE  OneSocket'
<1>1. /\ TypeInv /\ OneSocket /\ RequestsInv /\ "client" \in Ends
      /\ socket \in [Urls -> {"none", "used", "late", "ended"}]
      /\ request \in [Urls -> {"none", "asked", "late", "over"}]
  BY DEF ClientInv, TypeInv, TypeOK, Ends
<1>2. ASSUME NEW u \in Urls, request[u] = "over" PROVE request'[u] = "over"
  <2>1. Normal(u) \in Tried
    BY <1>1, <1>2 DEF RequestsInv
  <2>2. ~MayNotRequest(url) => u # url
    BY <2>1 DEF MayNotRequest
  <2> QED
    BY <1>1, <1>2, <2>2, RequestStep DEF Awaited
<1>3. CASE Opens("client")
  <2>1. PICK u \in Urls : /\ Awaited(u) /\ request' = [request EXCEPT ![u] = "over"]
                          /\ socket' = [socket EXCEPT ![u] = "used"]
    BY <1>3 DEF Opens, ClientOpens
  <2>2. ~Opened("client") /\ Opened("client")'
    BY <1>3 DEF Opens, Opened
  <2>3. \A v \in Urls : socket[v] # "used"
    BY <1>1, <2>2 DEF OneSocket
  <2>4. \A v \in Urls : socket'[v] = "used" <=> v = u
    BY <1>1, <2>1, <2>3
  <2>5. request'[u] = "over"
    BY <1>1, <2>1
  <2>6. \A v \in Urls : socket'[v] # "none" => request'[v] = "over"
    BY <1>1, <1>2, <2>1, <2>5 DEF OneSocket
  <2> QED
    BY <2>1, <2>2, <2>4, <2>6 DEF OneSocket
<1>4. CASE ~Opens("client")
  <2>1. Opened("client")' <=> Opened("client")
    BY <1>1, <1>4, NextChanges DEF Changes, Same, Waits, Falls, Reads, Opened
  <2>2. /\ \A u \in Urls : socket'[u] = "used" <=> socket[u] = "used"
        /\ \A u \in Urls : socket'[u] # "none" => socket[u] # "none" \/ request'[u] = "over"
    BY <1>4, UsedStep
  <2> QED
    BY <1>1, <1>2, <2>1, <2>2 DEF OneSocket
<1> QED
  BY <1>3, <1>4
(* All of it holds at the start. *)
LEMMA ClientInit ==
  ASSUME Init
  PROVE  ClientInv
<1> USE DEF Init
<1>1. \A e \in Ends :
        /\ ws[e] = NewWebSocket(scenario.client) \/ ws[e] = NewWebSocket(scenario.server)
        /\ pc[e] \in {"request", "none"}
  BY DEF Ends
<1>2. ws \in [Ends -> Object]
  <2>1. ASSUME NEW config \in Config PROVE NewWebSocket(config) \in Object
    BY DEF NewWebSocket, Object
  <2> QED
    BY <1>1, <2>1, HandshakeAssumption
<1>3. \A e \in Ends : ws[e].readyState = "connecting" /\ ws[e].events = <<>> /\ pc[e] # "over"
  BY <1>1 DEF NewWebSocket
<1>4. TypeInv
  <2>1. pc \in [Ends -> {"none", "request", "waiting", "importing", "hashing", "over"}]
        /\ pc["client"] = "request" /\ pc["server"] = "none"
    BY DEF Ends
  <2>2. url \in Urls
    BY HandshakeAssumption
  <2>3. tried \in Seq([scheme : {"http", "https"}, host : STRING])
    OBVIOUS
  <2>4. offer.matches \in BOOLEAN /\ offer.protocols \in Seq(Protocols)
    BY DEF NoOffer
  <2>5. net \in Seq(Event) /\ sent \in Seq(Event)
    OBVIOUS
  <2> QED
    BY <1>2, <2>1, <2>2, <2>3, <2>4, <2>5 DEF TypeInv, TypeOK
<1>5. Settled
  <2>1. net \in Seq(Sendable) /\ sent \in Seq(Sendable)
    OBVIOUS
  <2> QED
    BY <1>3, <2>1 DEF Settled, Opened
<1>6. OneSocket
  <2>1. "client" \in Ends
    BY DEF Ends
  <2> QED
    BY <1>3, <2>1 DEF OneSocket, Opened
<1>7. RequestsInv
  <2>1. Tried = {} /\ Len(tried) = 0
    BY DEF Tried
  <2>2. scenario.maxRedirections \in Nat
    BY HandshakeAssumption
  <2> QED
    BY <2>1, <2>2, FS_EmptySet DEF RequestsInv, Awaited
<1> QED
  BY <1>4, <1>5, <1>6, <1>7 DEF ClientInv

(* Every step keeps it. *)
LEMMA ClientStep ==
  ASSUME ClientInv, [Next]_vars
  PROVE  ClientInv'
<1>1. TypeInv' /\ Settled' /\ OneSocket' /\ RequestsInv'
  BY TypeStep, SettledStep, OneSocketStep, RequestsStep
<1> QED
  BY <1>1 DEF ClientInv

(* The inductive invariant of types, outcomes, sockets and requests. *)
LEMMA ClientInvariant == Spec => []ClientInv
  BY ClientInit, ClientStep, PTL DEF Spec

(* Every variable of the handshake keeps its type. *)
THEOREM TypeCorrect == Spec => []TypeOK
<1>1. ClientInv => TypeOK
  BY DEF ClientInv, TypeInv
<1> QED
  BY <1>1, ClientInvariant, PTL

(* However many requests a client made, and whatever comes of the ones     *)
(* nobody waits for any more: its handshake has one outcome, and so has    *)
(* the server's, and the socket in use is that of the end that opened.     *)
THEOREM HandshakesEndOnce == Spec => []OneOutcome
<1>1. ASSUME ClientInv PROVE OneOutcome
  <2>1. TypeInv /\ Settled /\ OneSocket
    BY <1>1 DEF ClientInv
  <2>2. ASSUME NEW e \in Ends
        PROVE  IF ws[e].readyState = "connecting" THEN Outcomes(e) = {}
               ELSE /\ pc[e] = "over"
                    /\ \E i \in DOMAIN ws[e].events :
                         /\ Outcomes(e) = {i}
                         /\ ws[e].events[i] = IF Opened(e) THEN "open" ELSE "error"
    <3>1. PICK es : es = ws[e].events
      OBVIOUS
    <3>2. es \in Seq(Event) /\ ws[e].readyState \in {"connecting", "open", "closing", "closed"}
      BY <2>1, <3>1 DEF TypeInv, TypeOK, Object
    <3>3. Outcomes(e) = {i \in DOMAIN es : es[i] \in {"open", "error"}}
      BY <3>1 DEF Outcomes
    <3>4. CASE ws[e].readyState = "connecting"
      <4>1. es = <<>>
        BY <2>1, <3>1, <3>4 DEF Settled
      <4> QED
        BY <3>3, <3>4, <4>1
    <3>5. CASE ws[e].readyState = "closed"
      <4>1. es = <<"error">> /\ pc[e] = "over" /\ ~Opened(e)
        BY <2>1, <3>1, <3>5 DEF Settled, Opened
      <4>2. 1 \in DOMAIN es /\ es[1] = "error" /\ Outcomes(e) = {1}
        BY <3>3, <4>1
      <4> QED
        BY <3>1, <3>5, <4>1, <4>2
    <3>6. CASE Opened(e)
      <4>1. /\ pc[e] = "over" /\ es # <<>> /\ es[1] = "open"
            /\ \A i \in DOMAIN es \ {1} : es[i] \in Sendable
        BY <2>1, <3>1, <3>6 DEF Settled
      <4>2. 1 \in DOMAIN es
        BY <3>2, <4>1
      <4>3. Outcomes(e) = {1}
        BY <3>3, <4>1, <4>2 DEF Sendable
      <4> QED
        BY <3>1, <3>6, <4>1, <4>2, <4>3 DEF Opened
    <3> QED
      BY <3>2, <3>4, <3>5, <3>6 DEF Opened
  <2>3. Cardinality({u \in Urls : socket[u] = "used"}) = IF Opened("client") THEN 1 ELSE 0
    <3>1. CASE Opened("client")
      <4>1. PICK u \in Urls : socket[u] = "used"
        BY <2>1, <3>1 DEF OneSocket
      <4>2. {v \in Urls : socket[v] = "used"} = {u}
        BY <2>1, <4>1 DEF OneSocket
      <4> QED
        BY <3>1, <4>2, FS_Singleton
    <3>2. CASE ~Opened("client")
      <4>1. {v \in Urls : socket[v] = "used"} = {}
        BY <2>1, <3>2 DEF OneSocket
      <4> QED
        BY <3>2, <4>1, FS_EmptySet
    <3> QED
      BY <3>1, <3>2
  <2> QED
    BY <2>2, <2>3 DEF OneOutcome
<1> QED
  BY <1>1, ClientInvariant, PTL

(* Wherever the servers redirect a client to, it never goes from a secure  *)
(* location to an insecure one, in a circle or further than it may.        *)
THEOREM RedirectionsAreSafe == Spec => []RequestsAreSafe
<1>1. ClientInv => RequestsAreSafe
  BY DEF ClientInv, RequestsInv, RequestsAreSafe
<1> QED
  BY <1>1, ClientInvariant, PTL

(* What the server sends, and when. *)
Greets ==
  /\ Opens("server") /\ answered' = "101"
  /\ \E greeting \in Greetings : sent' = greeting \o If(ws["server"].closes # <<>>, <<"close">>)
  /\ net' = sent' /\ ws'["client"] = ws["client"] /\ UNCHANGED client

(* A server sends when it opens and answers, and at no other time.         *)
LEMMA SentStep ==
  ASSUME ClientInv, [Next]_vars
  PROVE  \/ Greets
         \/ /\ sent' = sent
            /\ answered' = answered \/ (~Opened("server") /\ answered' # "101")
            /\ net' = net \/ Receive \/ Opens("client")
<1>1. TypeInv /\ Settled
  BY DEF ClientInv
<1> DEFINE Kept ==
      /\ sent' = sent
      /\ answered' = answered \/ (~Opened("server") /\ answered' # "101")
      /\ net' = net \/ Receive \/ Opens("client")
<1>2. ASSUME NEW greeting \in Greetings, ServerAnswers(greeting)
      PROVE  Greets \/ Kept
  <2>1. CASE ioErrored
    BY <1>2, <2>1 DEF ServerAnswers
  <2>2. CASE ~ioErrored
    <3>1. /\ pc["server"] = "hashing" /\ pc' = [pc EXCEPT !["server"] = "over"]
          /\ ws' = [ws EXCEPT !["server"] = Start(@)]
          /\ answered' = "101" /\ net' = sent' /\ UNCHANGED client
          /\ sent' = greeting \o If(ws["server"].closes # <<>>, <<"close">>)
      BY <1>2, <2>2 DEF ServerAnswers
    <3>2. /\ "server" \in Ends /\ "client" \in Ends /\ ws \in [Ends -> Object]
          /\ pc \in [Ends -> {"none", "request", "waiting", "importing", "hashing", "over"}]
      BY <1>1 DEF Ends, TypeInv, TypeOK
    <3>3. PICK w : w = ws["server"]
      OBVIOUS
    <3>4. w \in Object /\ w.events = <<>>
      BY <1>1, <3>1, <3>2, <3>3, NotOver
    <3>5. Start(w).readyState \in {"open", "closing"}
      BY <3>4, StartIs
    <3>6. ws'["server"] = Start(w) /\ ws'["client"] = ws["client"] /\ pc'["server"] = "over"
      BY <3>1, <3>2, <3>3
    <3>7. Opens("server")
      BY <3>1, <3>2, <3>5, <3>6, NextChanges DEF Changes, Same, Waits, Falls, Reads
    <3> QED
      BY <3>1, <3>6, <3>7 DEF Greets
  <2> QED
    BY <2>1, <2>2
<1>3. ASSUME NEW u \in Urls, NEW a, NEW n, Upgrades(u, a, n) PROVE Kept
  <2>1. Upgrade(u, a, n) /\ sent' = sent /\ answered' = answered
    BY <1>3 DEF Upgrades, Upgrade, server
  <2>2. CASE Awaited(u) /\ Agreed(a) # {}
    BY <1>3, <2>1, <2>2, UpgradeOpens
  <2>3. CASE ~(Awaited(u) /\ Agreed(a) # {})
    BY <2>1, <2>3 DEF Upgrade
  <2> QED
    BY <2>1, <2>2, <2>3
<1>4. ASSUME NEW r, Visits(r) PROVE Kept
  BY <1>4 DEF Visits, Visit
<1>5. ASSUME ServerChecks PROVE Kept
  <2>1. sent' = sent /\ (answered' = answered \/ answered' # "101") /\ net' = net /\ pc["server"] = "importing"
    BY <1>5 DEF ServerChecks
  <2>2. ~Opened("server")
    BY <1>1, <2>1, NotOver DEF Opened, Ends
  <2> QED
    BY <2>1, <2>2
<1>6. ASSUME \/ Request \/ ServerSocketError \/ UNCHANGED vars
             \/ \E e \in Ends, code \in Codes : Close(e, code)
      PROVE  Kept
  BY <1>6 DEF Request, ServerSocketError, vars, server, Close
<1>7. ASSUME NEW u \in Urls,
             \/ \E location \in Urls : Redirect(u, location)
             \/ RequestFails(u) \/ RequestTimeout(u) \/ ClientSocketError(u)
      PROVE  Kept
  BY <1>7 DEF Redirect, RequestFails, RequestTimeout, ClientSocketError, server
<1>8. ASSUME Receive PROVE Kept
  BY <1>8 DEF Receive, server
<1> HIDE DEF Kept
<1>9. Greets \/ Kept
  BY <1>1, <1>2, <1>3, <1>4, <1>5, <1>6, <1>7, <1>8, Steps
<1> QED
  BY <1>9 DEF Kept

(* What close() left to do is done as the end opens. *)
LEMMA ClosesStep ==
  ASSUME ClientInv, ClosesInv, [Next]_vars
  PROVE  ClosesInv'
<1>1. ASSUME NEW e \in Ends, Opened(e)', ws'[e].closes # <<>>
      PROVE  ws'[e].readyState = "closing" /\ ws'[e].closeCode = Head(ws'[e].closes)
  <2>1. CASE Same(e)
    BY <1>1, <2>1 DEF Same, ClosesInv, Opened
  <2>2. CASE Waits(e) \/ Falls(e)
    BY <1>1, <2>2 DEF Waits, Falls, Opened
  <2>3. CASE Opens(e)
    BY <1>1, <2>3 DEF Opens
  <2>4. CASE Reads(e)
    BY <1>1, <2>4 DEF Reads, ClosesInv
  <2> QED
    BY <2>1, <2>2, <2>3, <2>4, NextChanges DEF Changes
<1> QED
  BY <1>1 DEF ClosesInv

(* The server sends its close frame last, when it has one to send.         *)
LEMMA SentInvStep ==
  ASSUME ClientInv, SentInv, [Next]_vars
  PROVE  SentInv'
<1>1. "server" \in Ends /\ TypeInv /\ Settled
  BY DEF Ends, ClientInv
<1>2. CASE Greets
  <2>1. /\ Opened("server")' /\ answered' = "101" /\ ws'["server"].closes = ws["server"].closes
    BY <1>2 DEF Greets, Opens, Opened
  <2>2. PICK greeting \in Greetings : sent' = greeting \o If(ws["server"].closes # <<>>, <<"close">>)
    BY <1>2 DEF Greets
  <2>3. PICK closes \in BOOLEAN : closes = (ws["server"].closes # <<>>)
    OBVIOUS
  <2>4. PICK s : s = sent'
    OBVIOUS
  <2>5. s = greeting \o If(closes, <<"close">>)
    BY <2>2, <2>3, <2>4
  <2>6. \A i \in DOMAIN s : s[i] = "close" <=> (closes /\ i = Len(s))
    BY <2>5, SentIs
  <2>7. \A i \in DOMAIN sent' : sent'[i] = "close" <=> (ws'["server"].closes # <<>> /\ i = Len(sent'))
    BY <2>1, <2>3, <2>4, <2>6
  <2> QED
    BY <2>1, <2>7 DEF SentInv
<1>3. CASE sent' = sent /\ (answered' = answered \/ (~Opened("server") /\ answered' # "101"))
  <2>1. ~Opens("server")
    <3>1. Opens("server") => answered' = "101" /\ ~Opened("server")
      BY DEF Opens, ServerOpens, Opened
    <3> QED
      BY <1>3, <3>1 DEF SentInv
  <2>2. /\ Opened("server")' <=> Opened("server")
        /\ Opened("server") => ws'["server"].closes = ws["server"].closes
    BY <1>1, <2>1, NextChanges DEF Changes, Same, Waits, Falls, Reads, Opened
  <2> QED
    BY <1>3, <2>2 DEF SentInv
<1> QED
  BY <1>2, <1>3, SentStep

(* What calls of close() while CONNECTING rest on. *)
CloseInv == ClientInv /\ ClosesInv /\ SentInv

(* It is inductive. *)
LEMMA CloseInvariant == Spec => []CloseInv
<1>1. Init => CloseInv
  <2>1. ASSUME Init PROVE CloseInv
    <3>1. ClientInv
      BY <2>1, ClientInit
    <3>2. \A e \in Ends : ~Opened(e)
      BY <2>1 DEF Init, Ends, NewWebSocket, Opened
    <3> QED
      BY <2>1, <3>1, <3>2 DEF Init, CloseInv, ClosesInv, SentInv, Ends
  <2> QED
    BY <2>1
<1>2. ASSUME CloseInv, [Next]_vars PROVE CloseInv'
  BY <1>2, ClientStep, ClosesStep, SentInvStep DEF CloseInv
<1> QED
  BY <1>1, <1>2, PTL DEF Spec

(* A call of close() that comes before the handshake is over is not lost:  *)
(* the end closes as soon as it opens, with the code of the first call,    *)
(* and the server's close frame is behind all that its program sent.       *)
THEOREM EarlyClosesAreKept == Spec => []ClosePostponed
<1>1. ASSUME CloseInv PROVE ClosePostponed
  <2>1. TypeInv /\ Settled /\ ClosesInv /\ SentInv
    BY <1>1 DEF CloseInv, ClientInv
  <2>2. ASSUME NEW e \in Ends, ws[e].closes # <<>>, "open" \in {ws[e].events[i] : i \in DOMAIN ws[e].events}
        PROVE  ws[e].readyState = "closing" /\ ws[e].closeCode = Head(ws[e].closes)
    <3>1. ws[e].readyState \in {"connecting", "open", "closing", "closed"}
      BY <2>1 DEF TypeInv, TypeOK, Object
    <3>2. Opened(e)
      BY <2>1, <2>2, <3>1 DEF Settled, Opened
    <3> QED
      BY <2>1, <2>2, <3>2 DEF ClosesInv
  <2>3. \A i \in DOMAIN sent : sent[i] = "close" <=> (ws["server"].closes # <<>> /\ i = Len(sent))
    BY <2>1 DEF SentInv
  <2> QED
    BY <2>2, <2>3 DEF ClosePostponed
<1> QED
  BY <1>1, CloseInvariant, PTL

(* What the server sends stays the same sequence, wherever it is cut.      *)
LEMMA CutAnywhere ==
  ASSUME NEW S, NEW x \in S, NEW s \in Seq(S), NEW n \in 0..Len(s)
  PROVE  (<<x>> \o SubSeq(s, 1, n)) \o SubSeq(s, n + 1, Len(s)) = <<x>> \o s
<1>1. PICK a, b, first : a = SubSeq(s, 1, n) /\ b = SubSeq(s, n + 1, Len(s)) /\ first = <<x>>
  OBVIOUS
<1>2. first \in Seq(S) /\ Len(s) \in Nat
  BY <1>1
<1>3. a \in Seq(S) /\ b \in Seq(S)
  BY <1>1, <1>2, SubSeqProperties
<1>4. a \o b = s
  <2>1. 1 \in 1..Len(s) + 1 /\ n \in 1 - 1..Len(s) /\ Len(s) \in n..Len(s)
    BY <1>2
  <2>2. a \o b = SubSeq(s, 1, Len(s))
    BY <1>1, <2>1, ConcatAdjacentSubSeq
  <2> QED
    BY <2>2, SubSeqFull
<1>5. (first \o a) \o b = first \o (a \o b)
  BY <1>2, <1>3, ConcatAssociative
<1> QED
  BY <1>1, <1>4, <1>5

(* An element that moves from what is left to what was read. *)
LEMMA MoveOne ==
  ASSUME NEW S, NEW s \in Seq(S), NEW t \in Seq(S), t # <<>>
  PROVE  Append(s, Head(t)) \o Tail(t) = s \o t
<1>1. PICK x, rest, one : x = Head(t) /\ rest = Tail(t) /\ one = <<x>>
  OBVIOUS
<1>2. x \in S /\ rest \in Seq(S) /\ one \in Seq(S)
  BY <1>1, HeadTailProperties
<1>3. Append(s, x) = s \o one
  BY <1>1, <1>2, AppendIsConcat
<1>4. one \o rest = t
  BY <1>1, <1>2
<1>5. (s \o one) \o rest = s \o (one \o rest)
  BY <1>2, ConcatAssociative
<1> QED
  BY <1>1, <1>3, <1>4, <1>5

(* The client reads what the server sent, from its beginning and in its    *)
(* order.                                                                  *)
LEMMA EarlyStep ==
  ASSUME ClientInv, SentInv, EarlyInv, [Next]_vars
  PROVE  EarlyInv'
<1>1. /\ TypeInv /\ Settled /\ OneSocket /\ "client" \in Ends /\ "server" \in Ends
      /\ socket \in [Urls -> {"none", "used", "late", "ended"}]
      /\ net \in Seq(Sendable) /\ ws["client"].events \in Seq(Event)
      /\ ws["client"].readyState \in {"connecting", "open", "closing", "closed"}
  BY DEF ClientInv, TypeInv, TypeOK, Ends, Settled, Object
<1>2. scenario' = scenario /\ \A u \in Urls : AtHome(u)' <=> AtHome(u)
  BY <1>1, StaysTheScenario DEF AtHome
<1>3. Opened("server") => Opened("server")'
  BY <1>1, NextChanges DEF Changes, Same, Waits, Falls, Opens, Reads, Opened
<1>4. CASE Opens("client")
  <2>0. PICK u \in Urls : \E a, n : ClientOpens(u, a, n)
    BY <1>4 DEF Opens
  <2>1. PICK a, n : ClientOpens(u, a, n)
    BY <2>0
  <2>2. ~Opened("client")
    BY <1>4 DEF Opens, Opened
  <2>3. ~Connected /\ \A v \in Urls : socket[v] # "used"
    BY <1>1, <2>2 DEF OneSocket, Connected
  <2>4. \A v \in Urls : socket'[v] = "used" <=> v = u
    BY <1>1, <2>1, <2>3 DEF ClientOpens
  <2>5. Connected' <=> AtHome(u)
    BY <1>2, <2>4 DEF Connected
  <2>6. sent' = sent
    <3>1. ~Greets
      BY <2>3, <2>4 DEF Greets, client
    <3> QED
      BY <3>1, SentStep
  <2>7. CASE AtHome(u)
    <3>1. n \in 0..Len(net) /\ answered = "101" /\ net = sent
      BY <2>1, <2>3, <2>7 DEF ClientOpens, Upgrades, EarlyInv, AtHome
    <3>2. Opened("server")'
      BY <1>3, <3>1 DEF SentInv
    <3>3. /\ ws'["client"].events = <<"open">> \o SubSeq(net, 1, n)
          /\ net' = SubSeq(net, n + 1, Len(net))
      BY <2>1 DEF ClientOpens
    <3>4. "open" \in Event /\ net \in Seq(Event)
      BY <1>1, Events, SeqOver
    <3>5. ws'["client"].events \o net' = <<"open">> \o sent'
      <4>1. n \in 0..Len(net) /\ net = sent'
        BY <2>6, <3>1
      <4>2. (<<"open">> \o SubSeq(net, 1, n)) \o SubSeq(net, n + 1, Len(net)) = <<"open">> \o net
        BY <3>4, <4>1, CutAnywhere
      <4> QED
        BY <3>3, <4>1, <4>2
    <3> QED
      BY <1>2, <2>5, <2>7, <3>2, <3>5 DEF EarlyInv, EarlyMessages
  <2>8. CASE ~AtHome(u)
    <3>1. n = 0 /\ net' = SubSeq(net, n + 1, Len(net))
      BY <2>1, <2>8 DEF ClientOpens, Upgrades
    <3>2. net' = net
      BY <1>1, <3>1, SubSeqFull
    <3> QED
      BY <1>2, <2>3, <2>5, <2>6, <2>8, <3>2 DEF EarlyInv, EarlyMessages
  <2> QED
    BY <2>7, <2>8
<1>5. CASE ~Opens("client")
  <2>1. Connected' <=> Connected
    BY <1>2, <1>5, UsedStep DEF Connected
  <2>2. CASE Greets
    <3>1. ~Opened("server") /\ net' = sent'
      BY <2>2 DEF Greets, Opens, Opened
    <3>2. ~Connected
      BY <3>1 DEF EarlyInv
    <3> QED
      BY <2>1, <3>1, <3>2 DEF EarlyInv, EarlyMessages
  <2>3. CASE Receive
    <3>1. Reads("client") /\ sent' = sent
      BY <1>1, <2>3, ReadChanges DEF Receive, server
    <3>2. scenario.visitor = "client" => Connected
      BY <2>3 DEF Receive, Connected, AtHome
    <3>3. ASSUME Connected
          PROVE  ws'["client"].events \o net' = <<"open">> \o sent'
      <4>1. ws["client"].events \o net = <<"open">> \o sent /\ net # <<>> /\ net \in Seq(Event)
        BY <1>1, <3>1, <3>3, Events, SeqOver DEF EarlyInv, EarlyMessages, Reads
      <4>2. ws'["client"].events = Append(ws["client"].events, Head(net)) /\ net' = Tail(net)
        BY <3>1 DEF Reads
      <4>3. Append(ws["client"].events, Head(net)) \o Tail(net) = ws["client"].events \o net
        BY <1>1, <4>1, MoveOne
      <4> QED
        BY <3>1, <4>1, <4>2, <4>3
    <3> QED
      BY <1>2, <1>3, <2>1, <3>2, <3>3 DEF EarlyInv, EarlyMessages
  <2>4. CASE sent' = sent /\ net' = net
    <3>1. Connected => ws'["client"].events = ws["client"].events
      <4>1. Connected => Opened("client")
        BY <1>1 DEF Connected, OneSocket
      <4>2. ~Reads("client")
        <5>1. net # <<>> => Len(Tail(net)) # Len(net)
          BY <1>1, HeadTailProperties
        <5> QED
          BY <2>4, <5>1 DEF Reads
      <4> QED
        BY <1>1, <1>5, <4>1, <4>2, NextChanges DEF Changes, Same, Waits, Falls, Opened
    <3> QED
      BY <1>2, <1>3, <2>1, <2>4, <3>1 DEF EarlyInv, EarlyMessages
  <2> QED
    BY <1>5, <2>2, <2>3, <2>4, SentStep
<1> QED
  BY <1>4, <1>5

(* What the early messages rest on. *)
EarlyReads == ClientInv /\ SentInv /\ EarlyInv

(* It is inductive, too. *)
LEMMA EarlyInvariant == Spec => []EarlyReads
<1>1. Init => EarlyReads
  <2>1. ASSUME Init PROVE EarlyReads
    <3>1. ClientInv
      BY <2>1, ClientInit
    <3>2. ~Opened("server") /\ ~Connected
      BY <2>1 DEF Init, Ends, NewWebSocket, Opened, Connected
    <3> QED
      BY <2>1, <3>1, <3>2 DEF Init, EarlyReads, SentInv, EarlyInv, EarlyMessages
  <2> QED
    BY <2>1
<1>2. ASSUME EarlyReads, [Next]_vars PROVE EarlyReads'
  BY <1>2, ClientStep, SentInvStep, EarlyStep DEF EarlyReads
<1> QED
  BY <1>1, <1>2, PTL DEF Spec

(* What the server sends as soon as it is open reaches the client once, in *)
(* its order and behind 'open', however much of it comes with the upgrade. *)
THEOREM NothingEarlyIsLost == Spec => []EarlyMessages
<1>1. EarlyReads => EarlyMessages
  BY DEF EarlyReads, EarlyInv
<1> QED
  BY <1>1, EarlyInvariant, PTL

(* A line has a title at least: it is there. *)
LEMMA LineIsThere ==
  ASSUME NEW isClient, NEW c
  PROVE  generatePermessageDeflateExtLine(isClient, c) # <<>>
<1>1. PICK m, n : m = ToString(c.clientMaxWindowBits) /\ n = ToString(c.serverMaxWindowBits)
  OBVIOUS
<1>2. PICK S : S = {"permessage-deflate", ";", " ", "=", m, n} \cup Parameters
  OBVIOUS
<1>3. \A name \in Parameters : Flag(name) \in Seq(S)
  <2>1. ASSUME NEW name \in Parameters PROVE Flag(name) \in Seq(S)
    <3>1. PICK a, b : a = ";" /\ b = " "
      OBVIOUS
    <3>2. a \in S /\ b \in S /\ name \in S
      BY <1>2, <3>1
    <3>3. <<a, b, name>> \in Seq(S)
      BY <3>2
    <3> QED
      BY <3>1, <3>3 DEF Flag
  <2> QED
    BY <2>1
<1>4. \A s, t \in Seq(S) : s \o t \in Seq(S) /\ Len(s \o t) = Len(s) + Len(t)
  BY ConcatProperties
<1>5. \A s \in Seq(S) : \A b : If(b, s) \in Seq(S)
  BY DEF If
<1>6. <<"=", m>> \in Seq(S) /\ <<"=", n>> \in Seq(S)
  <2>1. PICK a : a = "="
    OBVIOUS
  <2>2. a \in S /\ m \in S /\ n \in S
    BY <1>2, <2>1
  <2>3. <<a, m>> \in Seq(S) /\ <<a, n>> \in Seq(S)
    BY <2>2
  <2> QED
    BY <2>1, <2>3
<1>7. PICK t0, t1, t2, t3, t4 :
        /\ t0 = <<"permessage-deflate">>
        /\ t1 = IF c.clientMaxWindowBits # 15
                THEN Valued("client_max_window_bits", c.clientMaxWindowBits)
                ELSE If(isClient, Flag("client_max_window_bits"))
        /\ t2 = If(c.serverMaxWindowBits # 15, Valued("server_max_window_bits", c.serverMaxWindowBits))
        /\ t3 = If(~c.clientKeepSlidingWindow, Flag("client_no_context_takeover"))
        /\ t4 = If(~c.serverKeepSlidingWindow, Flag("server_no_context_takeover"))
  OBVIOUS
<1>8. t0 \in Seq(S) /\ Len(t0) = 1
  <2>1. PICK a : a = "permessage-deflate"
    OBVIOUS
  <2>2. a \in S
    BY <1>2, <2>1
  <2> QED
    BY <1>7, <2>1, <2>2
<1>9. t1 \in Seq(S)
  <2>1. "client_max_window_bits" \in Parameters
    BY DEF Parameters
  <2>2. Valued("client_max_window_bits", c.clientMaxWindowBits) \in Seq(S)
    BY <1>1, <1>3, <1>4, <1>6, <2>1 DEF Valued
  <2> QED
    BY <1>3, <1>5, <1>7, <2>1, <2>2
<1>10. t2 \in Seq(S)
  <2>1. "server_max_window_bits" \in Parameters
    BY DEF Parameters
  <2>2. Valued("server_max_window_bits", c.serverMaxWindowBits) \in Seq(S)
    BY <1>1, <1>3, <1>4, <1>6, <2>1 DEF Valued
  <2> QED
    BY <1>5, <1>7, <2>2
<1>11. t3 \in Seq(S) /\ t4 \in Seq(S)
  <2>1. "client_no_context_takeover" \in Parameters /\ "server_no_context_takeover" \in Parameters
    BY DEF Parameters
  <2> QED
    BY <1>3, <1>5, <1>7, <2>1
<1>12. Len((((t0 \o t1) \o t2) \o t3) \o t4) # 0
  <2>1. t0 \o t1 \in Seq(S) /\ Len(t0 \o t1) = 1 + Len(t1)
    BY <1>4, <1>8, <1>9
  <2>2. (t0 \o t1) \o t2 \in Seq(S) /\ Len((t0 \o t1) \o t2) = 1 + Len(t1) + Len(t2)
    BY <1>4, <1>10, <2>1
  <2>3. ((t0 \o t1) \o t2) \o t3 \in Seq(S)
        /\ Len(((t0 \o t1) \o t2) \o t3) = 1 + Len(t1) + Len(t2) + Len(t3)
    BY <1>4, <1>11, <2>2
  <2>4. Len((((t0 \o t1) \o t2) \o t3) \o t4) = 1 + Len(t1) + Len(t2) + Len(t3) + Len(t4)
    BY <1>4, <1>11, <2>3
  <2> QED
    BY <1>9, <1>10, <1>11, <2>4
<1>13. generatePermessageDeflateExtLine(isClient, c) = (((t0 \o t1) \o t2) \o t3) \o t4
  BY <1>7 DEF generatePermessageDeflateExtLine
<1> QED
  BY <1>12, <1>13

(* What the server of this library grants its own client, *)
LEMMA GrantedIs ==
  ASSUME LinesAreUnderstood, TypeInv, NEW config \in Granted(OwnRequest.line)
  PROVE  config = ServerAgrees(Said(TRUE, scenario.client), scenario.server)
<1>1. PICK line : line = generatePermessageDeflateExtLine(TRUE, scenario.client)
  OBVIOUS
<1>2. scenario.client \in Config
  BY HandshakeAssumption DEF TypeInv
<1>3. parsePermessageDeflateExtLine(line) = {Said(TRUE, scenario.client)}
  BY <1>1, <1>2 DEF LinesAreUnderstood
<1>4. line # <<>> /\ OwnRequest.line = line
  BY <1>1, LineIsThere DEF OwnRequest
<1> QED
  BY <1>3, <1>4 DEF Granted

(* and what the client makes of the answer. *)
LEMMA AgreedIs ==
  ASSUME LinesAreUnderstood, TypeInv, NEW config \in Agreed(OwnAnswer),
         ws["server"].config = ServerAgrees(Said(TRUE, scenario.client), scenario.server)
  PROVE  /\ config = ws["server"].config
         /\ Within(config, scenario.client) /\ Within(config, scenario.server)
         /\ scenario.protocols # <<>> => Contains(scenario.protocols, ws["server"].protocol)
<1>1. PICK agreed, line : agreed = ws["server"].config /\ line = generatePermessageDeflateExtLine(FALSE, agreed)
  OBVIOUS
<1>2. scenario.client \in Config /\ scenario.server \in Config
  BY HandshakeAssumption DEF TypeInv
<1>3. agreed \in Config
  BY <1>1, <1>2, ServerStaysWithin
<1>4. parsePermessageDeflateExtLine(line) = {Said(FALSE, agreed)}
  BY <1>1, <1>3 DEF LinesAreUnderstood
<1>5. /\ line # <<>> /\ OwnAnswer.line = line
      /\ OwnAnswer.accept /\ OwnAnswer.protocol = ws["server"].protocol
  BY <1>1, LineIsThere DEF OwnAnswer
<1>6. /\ config = ClientAgrees(Said(FALSE, agreed), scenario.client)
      /\ scenario.protocols # <<>> => Contains(scenario.protocols, ws["server"].protocol)
  BY <1>4, <1>5 DEF Agreed
<1>7. /\ ClientAgrees(Said(FALSE, agreed), scenario.client) = agreed
      /\ Within(agreed, scenario.client) /\ Within(agreed, scenario.server)
  BY <1>1, <1>2, EndsAgree
<1> QED
  BY <1>1, <1>6, <1>7

(* The server is made for one request, and does not change it.             *)
LEMMA OfferStep ==
  ASSUME TypeInv, [Next]_vars
  PROVE  \/ \E r : Visits(r)
         \/ offer' = offer /\ (pc["server"] = "none" => pc'["server"] = "none")
<1>1. /\ pc \in [Ends -> {"none", "request", "waiting", "importing", "hashing", "over"}]
      /\ Ends = {"client", "server"}
  BY DEF TypeInv, TypeOK, Ends
<1> DEFINE Kept == offer' = offer /\ (pc["server"] = "none" => pc'["server"] = "none")
<1>2. ASSUME NEW u \in Urls, NEW a, NEW n, Upgrades(u, a, n) PROVE Kept
  <2>1. offer' = offer /\ (pc' = pc \/ pc' = [pc EXCEPT !["client"] = "over"])
    BY <1>2 DEF Upgrades, Upgrade, server
  <2> QED
    BY <1>1, <2>1
<1>3. ASSUME NEW u \in Urls,
             \/ \E location \in Urls : Redirect(u, location)
             \/ RequestFails(u) \/ RequestTimeout(u) \/ ClientSocketError(u)
      PROVE  Kept
  BY <1>1, <1>3 DEF Redirect, RequestFails, RequestTimeout, ClientSocketError, server
<1>4. ASSUME \/ Request \/ Receive \/ ServerSocketError \/ UNCHANGED vars
             \/ \E e \in Ends, code \in Codes : Close(e, code)
      PROVE  Kept
  BY <1>1, <1>4 DEF Request, Receive, ServerSocketError, vars, server, Close
<1>5. ASSUME ServerChecks \/ \E greeting \in Greetings : ServerAnswers(greeting) PROVE Kept
  BY <1>1, <1>5 DEF ServerChecks, ServerAnswers
<1> HIDE DEF Kept
<1>6. Kept \/ \E r : Visits(r)
  BY <1>2, <1>3, <1>4, <1>5, Steps
<1> QED
  BY <1>6 DEF Kept

(* The client takes over what the server granted it.                       *)
LEMMA AgreementStep ==
  ASSUME LinesAreUnderstood, EarlyReads, AgreementInv, [Next]_vars
  PROVE  AgreementInv'
<1>1. /\ ClientInv /\ TypeInv /\ Settled /\ OneSocket /\ SentInv /\ EarlyInv
      /\ "client" \in Ends /\ "server" \in Ends /\ scenario' = scenario
      /\ \A u \in Urls : AtHome(u)' <=> AtHome(u)
      /\ socket \in [Urls -> {"none", "used", "late", "ended"}]
  BY StaysTheScenario DEF EarlyReads, ClientInv, TypeInv, TypeOK, Ends, AtHome
<1>2. scenario.visitor = "client" /\ pc'["server"] # "none" => offer' = OwnRequest
  <2>1. ASSUME NEW r, Visits(r), scenario.visitor = "client" PROVE offer' = OwnRequest
    BY <2>1 DEF Visits, Visit
  <2> QED
    BY <1>1, <2>1, OfferStep DEF AgreementInv
<1>3. OwnRequest' = OwnRequest /\ Chosen(scenario.protocols)' = Chosen(scenario.protocols)
  BY <1>1 DEF OwnRequest, Chosen
<1>4. ASSUME scenario.visitor = "client", pc'["server"] = "hashing" \/ Opened("server")'
      PROVE  /\ ws'["server"].config = ServerAgrees(Said(TRUE, scenario.client), scenario.server)
             /\ ws'["server"].protocol = Chosen(scenario.protocols)
  <2>1. CASE Same("server")
    BY <1>4, <2>1 DEF Same, AgreementInv, Opened
  <2>2. CASE Waits("server")
    <3>1. pc'["server"] = "hashing"
      BY <1>4, <2>2 DEF Waits, Opened
    <3>2. CASE /\ pc'["server"] = pc["server"] /\ ws'["server"].config = ws["server"].config
               /\ ws'["server"].protocol = ws["server"].protocol
      BY <1>4, <3>1, <3>2 DEF AgreementInv
    <3>3. CASE Grants(ws'["server"].config, ws'["server"].protocol)
      <4>1. offer = OwnRequest /\ OwnRequest.protocols = scenario.protocols
        BY <1>4, <3>3 DEF Grants, AgreementInv, OwnRequest
      <4>2. /\ ws'["server"].config \in Granted(OwnRequest.line)
            /\ ws'["server"].protocol = Chosen(scenario.protocols)
        BY <3>3, <4>1 DEF Grants
      <4> QED
        BY <1>1, <4>2, GrantedIs
    <3> QED
      BY <2>2, <3>2, <3>3 DEF Waits
  <2>3. CASE Opens("server")
    BY <1>4, <2>3 DEF Opens, ServerOpens, AgreementInv
  <2>4. ~Falls("server") /\ ~Reads("server")
    BY <1>4 DEF Falls, Reads, Opened
  <2> QED
    BY <1>1, <2>1, <2>2, <2>3, <2>4, NextChanges DEF Changes
<1>5. Agreement'
  <2> SUFFICES ASSUME Connected' PROVE Agreement'
    BY DEF Agreement
  <2>1. CASE Opens("client")
    <3>0. PICK u \in Urls : \E a, n : ClientOpens(u, a, n)
      BY <2>1 DEF Opens
    <3>1. PICK a, n : ClientOpens(u, a, n)
      BY <3>0
    <3>2. \A v \in Urls : socket[v] # "used"
      BY <1>1, <2>1 DEF OneSocket, Opens, Opened
    <3>3. \A v \in Urls : socket'[v] = "used" <=> v = u
      BY <1>1, <3>1, <3>2 DEF ClientOpens
    <3>4. AtHome(u) /\ scenario.visitor = "client"
      BY <1>1, <3>3 DEF Connected, AtHome
    <3>5. answered = "101" /\ a = OwnAnswer /\ ws'["server"] = ws["server"]
      BY <3>1, <3>4 DEF ClientOpens, Upgrades
    <3>6. /\ ws["server"].config = ServerAgrees(Said(TRUE, scenario.client), scenario.server)
          /\ ws["server"].protocol = Chosen(scenario.protocols)
      BY <1>1, <3>4, <3>5 DEF SentInv, AgreementInv
    <3>7. PICK config, p : config = ws'["client"].config /\ p = ws'["client"].protocol
      OBVIOUS
    <3>8. /\ config \in Agreed(OwnAnswer)
          /\ p = IF scenario.protocols = <<>> THEN NoProtocol ELSE ws["server"].protocol
      BY <3>1, <3>5, <3>7 DEF ClientOpens, OwnAnswer
    <3>9. /\ config = ws["server"].config
          /\ Within(config, scenario.client) /\ Within(config, scenario.server)
          /\ scenario.protocols # <<>> => Contains(scenario.protocols, ws["server"].protocol)
      BY <1>1, <3>6, <3>8, AgreedIs
    <3>10. /\ p = ws["server"].protocol /\ (p = NoProtocol <=> scenario.protocols = <<>>)
           /\ p # NoProtocol => Contains(scenario.protocols, p) /\ p \in scenario.supported
      <4>1. scenario.protocols \in Seq(Protocols) /\ NoProtocol \notin Protocols
        BY <1>1, HandshakeAssumption DEF TypeInv
      <4>2. PICK q : q = Chosen(scenario.protocols)
        OBVIOUS
      <4>3. \/ q = NoProtocol
            \/ /\ \E i \in DOMAIN scenario.protocols : scenario.protocols[i] = q
               /\ q \in scenario.supported
        BY <4>1, <4>2, ChosenIs
      <4>4. CASE scenario.protocols = <<>>
        <5>1. DOMAIN scenario.protocols = {}
          BY <4>4
        <5> QED
          BY <3>6, <3>8, <4>2, <4>3, <4>4, <5>1
      <4>5. CASE scenario.protocols # <<>>
        <5>1. p = q /\ Contains(scenario.protocols, q)
          BY <3>6, <3>8, <3>9, <4>2, <4>5
        <5>2. \E i \in 1..Len(scenario.protocols) : scenario.protocols[i] = q
          BY <5>1 DEF Contains
        <5>3. q \in Protocols
          BY <4>1, <5>2
        <5> QED
          BY <3>6, <4>1, <4>2, <4>3, <4>5, <5>1, <5>3
      <4> QED
        BY <4>4, <4>5
    <3> QED
      BY <1>1, <3>5, <3>7, <3>9, <3>10 DEF Agreement
  <2>2. CASE ~Opens("client")
    <3>1. Connected
      BY <1>1, <2>2, UsedStep DEF Connected
    <3>2. Opened("client") /\ Opened("server")
      BY <1>1, <3>1 DEF OneSocket, EarlyInv, Connected
    <3>3. ws'["client"].config = ws["client"].config /\ ws'["client"].protocol = ws["client"].protocol
      BY <1>1, <2>2, <3>2, NextChanges DEF Changes, Same, Waits, Falls, Reads, Opened
    <3>4. ws'["server"] = ws["server"]
      BY <1>1, <3>2, NextChanges DEF Changes, Same, Waits, Falls, Opens, Reads, Opened
    <3>5. PICK cc, cp, sc, sp :
            /\ cc = ws["client"].config /\ cp = ws["client"].protocol
            /\ sc = ws["server"].config /\ sp = ws["server"].protocol
      OBVIOUS
    <3>6. /\ cc = ws'["client"].config /\ cp = ws'["client"].protocol
          /\ sc = ws'["server"].config /\ sp = ws'["server"].protocol
      BY <3>3, <3>4, <3>5
    <3>7. /\ cc = sc /\ Within(cc, scenario.client) /\ Within(cc, scenario.server)
          /\ cp = sp /\ (cp = NoProtocol <=> scenario.protocols = <<>>)
          /\ cp # NoProtocol => Contains(scenario.protocols, cp) /\ cp \in scenario.supported
      BY <3>1, <3>5 DEF AgreementInv, Agreement
    <3> QED
      BY <1>1, <3>6, <3>7 DEF Agreement
  <2> QED
    BY <2>1, <2>2
<1> QED
  BY <1>1, <1>2, <1>3, <1>4, <1>5 DEF AgreementInv

(* Whatever their owners configured, a client and a server of this library *)
(* that are connected work with the same subprotocol, which both know, and *)
(* the same compression, within what each allows.  It rests on what every  *)
(* line of either means to the other one, which TLC evaluates for all the  *)
(* configurations there are: the parser is beyond the provers.             *)
THEOREM ConnectedEndsAgree == LinesAreUnderstood => (Spec => []Agreement)
<1> SUFFICES ASSUME LinesAreUnderstood PROVE Spec => []Agreement
  OBVIOUS
<1>1. Init => EarlyReads /\ AgreementInv
  <2>1. ASSUME Init PROVE EarlyReads /\ AgreementInv
    <3>1. ClientInv
      BY <2>1, ClientInit
    <3>2. ~Opened("server") /\ ~Connected /\ pc["server"] = "none"
      BY <2>1 DEF Init, Ends, NewWebSocket, Opened, Connected
    <3> QED
      BY <2>1, <3>1, <3>2
      DEF Init, EarlyReads, SentInv, EarlyInv, EarlyMessages, AgreementInv, Agreement
  <2> QED
    BY <2>1
<1>2. ASSUME EarlyReads, AgreementInv, [Next]_vars PROVE EarlyReads' /\ AgreementInv'
  BY <1>2, ClientStep, SentInvStep, EarlyStep, AgreementStep DEF EarlyReads
<1>3. AgreementInv => Agreement
  BY DEF AgreementInv
<1> QED
  BY <1>1, <1>2, <1>3, PTL DEF Spec


=============================================================================
