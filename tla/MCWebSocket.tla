---------------------------- MODULE MCWebSocket -----------------------------
(* A message or two and a ping per endpoint; a code either side may close  *)
(* with, one only a server may, and in the runs with failures one failure  *)
(* besides the timers.                                                     *)
EXTENDS WebSocket

OneCode == {1000}
TwoCodes == {1000, 1012}

NoEvents == {}
AllEvents == {"forced", "pongTimeout", "socketError", "garbage", "drop"}
OnlyGarbage == {"garbage"}

TwoEach == [e \in Ends |-> 2]
OneEach == [e \in Ends |-> 1]
TwoOfTheServer == [e \in Ends |-> IF e = "server" THEN 2 ELSE 1]
OneOfTheServer == [e \in Ends |-> IF e = "server" THEN 1 ELSE 0]
OneOfTheClient == [e \in Ends |-> IF e = "client" THEN 1 ELSE 0]

(* Bound: two messages of one end, so that order and loss show, without a   *)
(* ping; or a ping and at most one message of the client.                  *)
MessagesOrAPing ==
  \/ \E e \in Ends : ws[e].sends = 0 /\ \A x \in Ends : ws[x].pings = 0
  \/ ws["client"].sends <= 1 /\ ws["server"].sends = 0

(* Bound: only the client closes with the code that is refused, and then    *)
(* no end sends a message.                                                 *)
RefusedWithoutMessages ==
  \A c \in closers : c.code = 1012 => c.end = "client" /\ \A e \in Ends : ws[e].sends = 0
=============================================================================
