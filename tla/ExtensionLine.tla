--------------------------- MODULE ExtensionLine ----------------------------
(***************************************************************************)
(* The Sec-WebSocket-Extensions header of source/protocolRelated.js: the   *)
(* line one end generates from its configuration and what the other end    *)
(* parses from it.  A line is a sequence of tokens, each a word or one of  *)
(* the separators; quotes, which neither end writes, are left out.         *)
(***************************************************************************)
EXTENDS Negotiation, Sequences, TLC

Flag(name) == <<";", " ", name>>
Valued(name, n) == Flag(name) \o <<"=", ToString(n)>>
If(condition, tokens) == IF condition THEN tokens ELSE <<>>

generatePermessageDeflateExtLine(isClient, c) ==
  <<"permessage-deflate">>
    \o (IF c.clientMaxWindowBits # 15 THEN Valued("client_max_window_bits", c.clientMaxWindowBits)
        ELSE If(isClient, Flag("client_max_window_bits")))
    \o If(c.serverMaxWindowBits # 15, Valued("server_max_window_bits", c.serverMaxWindowBits))
    \o If(~c.clientKeepSlidingWindow, Flag("client_no_context_takeover"))
    \o If(~c.serverKeepSlidingWindow, Flag("server_no_context_takeover"))

(* The state of parseExtensionLine(): a word in the making, the titles of  *)
(* the extension and of the argument that are open, and what is complete.  *)
ConsumeArg(p) ==
  IF p.argTitle # ""
  THEN [p EXCEPT !.args = Append(@, <<p.argTitle, IF p.word = "" THEN "true" ELSE p.word>>),
                 !.argTitle = "", !.word = ""]
  ELSE [p EXCEPT !.args = Append(@, <<p.word, "true">>), !.word = ""]

ConsumeTitle(p) == [p EXCEPT !.extTitle = p.word, !.word = ""]

NextExt(p) ==
  [p EXCEPT !.exts = Append(@, [extension |-> p.extTitle, parameters |-> p.args]),
            !.args = <<>>, !.extTitle = ""]

Consume(p, token) ==
  CASE token = "=" -> [p EXCEPT !.argTitle = p.word, !.word = ""]
    [] token = " " -> IF p.word # "" THEN ConsumeArg(p) ELSE p
    [] token = ";" -> IF p.extTitle = "" THEN ConsumeTitle(p) ELSE p
    [] token = "," -> NextExt(IF p.extTitle = "" THEN ConsumeTitle(p)
                              ELSE IF p.word # "" THEN ConsumeArg(p) ELSE p)
    [] OTHER -> [p EXCEPT !.word = @ \o token]

Parser ==
  [word : STRING, extTitle : STRING, argTitle : STRING, args : Seq(Seq(STRING)),
   exts : Seq([extension : STRING, parameters : Seq(Seq(STRING))])]

Parse[p \in Parser, line \in Seq(STRING)] ==
  IF line = <<>> THEN p ELSE Parse[Consume(p, Head(line)), Tail(line)]

parseExtensionLine(line) ==
  LET start == [word |-> "", extTitle |-> "", argTitle |-> "", args |-> <<>>, exts |-> <<>>]
      p == Parse[start, line]
      last == IF p.extTitle = "" THEN ConsumeTitle(p)
              ELSE IF p.argTitle # "" \/ p.word # "" THEN ConsumeArg(p) ELSE p
  IN  (IF last.extTitle = "" THEN last ELSE NextExt(last)).exts

Number == [text \in {ToString(n) : n \in 0..99} |-> CHOOSE n \in 0..99 : ToString(n) = text]

Value(text) == IF text = "true" THEN Bare ELSE Number[text]

ReadParameter(said, name, text) ==
  CASE name = "client_max_window_bits" -> [said EXCEPT !.clientMaxWindowBits = Value(text)]
    [] name = "server_max_window_bits" -> [said EXCEPT !.serverMaxWindowBits = Value(text)]
    [] name = "client_no_context_takeover" -> [said EXCEPT !.clientDiscardSlidingWindow = TRUE]
    [] name = "server_no_context_takeover" -> [said EXCEPT !.serverDiscardSlidingWindow = TRUE]

Saying ==
  [clientMaxWindowBits : Int, serverMaxWindowBits : Int,
   clientDiscardSlidingWindow : BOOLEAN, serverDiscardSlidingWindow : BOOLEAN]

Read[said \in Saying, parameters \in Seq(Seq(STRING))] ==
  IF parameters = <<>> THEN said
  ELSE Read[ReadParameter(said, Head(parameters)[1], Head(parameters)[2]), Tail(parameters)]

Parameters == {"client_max_window_bits", "server_max_window_bits",
               "client_no_context_takeover", "server_no_context_takeover"}

(* What the first offer of a line says, or nothing where the parser throws. *)
parsePermessageDeflateExtLine(line) ==
  {Read[SaidNothing, first.parameters] :
     first \in {ext \in {exts[1] : exts \in {parseExtensionLine(line)} \ {<<>>}} :
                  /\ ext.extension = "permessage-deflate"
                  /\ \A i \in DOMAIN ext.parameters : ext.parameters[i][1] \in Parameters}}

(* What either end of this library writes means to the other one what it   *)
(* is meant to say.                                                        *)
LinesAreUnderstood ==
  \A isClient \in BOOLEAN, c \in Config :
    parsePermessageDeflateExtLine(generatePermessageDeflateExtLine(isClient, c)) = {Said(isClient, c)}
=============================================================================
