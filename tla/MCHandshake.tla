----------------------------- MODULE MCHandshake -----------------------------
(* Four families of scenarios: every combination of a few windows and of   *)
(* what each owner discards, of subprotocols, of redirections between two  *)
(* other hosts and Home, and of clients of another make.                   *)
EXTENDS Handshake

(* Of all configurations there are. *)
ASSUME MCUnderstood == LinesAreUnderstood

At(scheme, host) == [scheme |-> scheme, host |-> host]

MCUrls == {At("ws", "home"), At("wss", "home"), At("wss", "away"), At("http", "away"), At("none", "away")}

Configuration(cm, sm, ck, sk) ==
  [clientMaxWindowBits |-> cm, serverMaxWindowBits |-> sm,
   clientKeepSlidingWindow |-> ck, serverKeepSlidingWindow |-> sk]

Default == Configuration(15, 15, TRUE, TRUE)

Scenario ==
  [client |-> Default, server |-> Default, protocols |-> <<>>, supported |-> {},
   url |-> At("ws", "home"), maxRedirections |-> 10, allowRedirections |-> TRUE,
   visitor |-> "client", debug |-> FALSE]

Windows == {Configuration(cm, sm, TRUE, TRUE) : cm \in {8, 12, 15}, sm \in {8, 12, 15}}
Discards == {Configuration(15, 15, ck, sk) : ck \in BOOLEAN, sk \in BOOLEAN}

MCScenarios ==
  {[Scenario EXCEPT !.client = c, !.server = s] : c \in Windows, s \in Windows}
    \cup {[Scenario EXCEPT !.client = c, !.server = s] : c \in Discards, s \in Discards}
    \cup {[Scenario EXCEPT !.protocols = ps, !.supported = known, !.debug = TRUE] :
            ps \in {<<"chat">>, <<"log", "chat">>}, known \in {{}, {"chat"}, {"chat", "log"}}}
    \cup {[Scenario EXCEPT !.url = u, !.maxRedirections = max, !.allowRedirections = allow] :
            u \in MCUrls, max \in {1, 3}, allow \in BOOLEAN}
    \cup {[Scenario EXCEPT !.url = At("wss", "away"), !.allowRedirections = FALSE, !.visitor = "other",
                           !.protocols = ps] : ps \in {<<>>, <<"chat">>}}

Line(title, tokens) == <<title>> \o tokens

MCLines ==
  {<<>>,
   Line("permessage-deflate", <<>>),
   Line("permessage-deflate", Valued("client_max_window_bits", 16)),
   Line("permessage-deflate", Flag("server_max_window_bits")),
   Line("permessage-deflate", Flag("client_max_window_bits") \o <<",", " ", "x-other">>),
   Line("x-other", Flag("client_no_context_takeover"))}

MCAnswers ==
  {[accept |-> TRUE, protocol |-> p, line |-> l] : p \in {NoProtocol, "chat"}, l \in MCLines}
    \cup {[accept |-> FALSE, protocol |-> NoProtocol, line |-> <<>>]}

MCRequests ==
  {[matches |-> TRUE, protocols |-> <<>>, line |-> l] : l \in MCLines}
    \cup {[matches |-> FALSE, protocols |-> <<>>, line |-> <<>>]}

MCGreetings == {<<>>, <<"m1">>, <<"m1", "m2">>}
=============================================================================
