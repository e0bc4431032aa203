-------------------------- MODULE MCProtocolReader --------------------------
(* What a peer may send in a handful of frames: fragments, control frames  *)
(* between them, extended lengths, invalid text, every kind of wrong frame *)
(* at the start, in a message and after one.                               *)
EXTENDS ProtocolReader

MCHuge == 1000

ToServer(op, fin, size) ==
  [op |-> op, fin |-> fin, rsv |-> "none", masked |-> TRUE, ext |-> 0, size |-> size,
   ok |-> TRUE, code |-> 1000]
ToClient(op, fin, size) == [ToServer(op, fin, size) EXCEPT !.masked = FALSE]
Packed(f) == [f EXCEPT !.rsv = "rsv1"]
Invalid(f) == [f EXCEPT !.ok = FALSE]
Long(f, ext) == [f EXCEPT !.ext = ext]
Code(f, code) == [f EXCEPT !.code = code]

Of(list, client, compression, failFast, streams) ==
  [frames |-> list, client |-> client, compression |-> compression, failFast |-> failFast,
   streams |-> streams]
Plain(list) == Of(list, FALSE, FALSE, FALSE, 0)
AtClient(list) == Of(list, TRUE, FALSE, FALSE, 0)

Ping == ToServer("ping", TRUE, 1)
Text == ToServer("text", TRUE, 1)

Buffering ==
  { Plain(<<Long(ToServer("binary", TRUE, 3), 8), Ping>>),
    Plain(<<Ping, Long(ToServer("text", TRUE, 2), 2), ToServer("pong", TRUE, 0)>>),
    AtClient(<<Long(ToClient("binary", TRUE, 2), 8), ToClient("ping", TRUE, 0), Long(ToClient("text", TRUE, 3), 2)>>) }

Interjected ==
  { Plain(<<ToServer("text", FALSE, 1), Ping, ToServer("continuation", TRUE, 2), Text>>),
    Plain(<<ToServer("binary", FALSE, 0), ToServer("close", TRUE, 2), ToServer("continuation", TRUE, 0)>>),
    Of(<<ToServer("text", FALSE, 1), Invalid(ToServer("continuation", FALSE, 1)), Ping>>, FALSE, FALSE, TRUE, 0),
    Plain(<<Invalid(ToServer("text", FALSE, 1)), Ping, ToServer("continuation", TRUE, 1)>>) }

WrongFrames ==
  {Ping, ToServer("continuation", TRUE, 1), ToServer("unknown", TRUE, 1), ToServer("close", TRUE, 1),
   Packed(Text), [Text EXCEPT !.rsv = "other"], [Text EXCEPT !.masked = FALSE],
   Long(Ping, 2), [Ping EXCEPT !.fin = FALSE], Long(ToServer("text", TRUE, MCHuge), 8),
   Code(ToServer("close", TRUE, 2), 1012), Code(ToServer("close", TRUE, 2), 3000),
   Invalid(ToServer("close", TRUE, 3)), Invalid(Text)}

Wrong ==
  {Plain(<<ToServer("text", FALSE, 1), f, Text>>) : f \in WrongFrames \cup {Text}}
    \cup {Of(<<ToServer("binary", TRUE, 1), f>>, FALSE, TRUE, FALSE, 0) : f \in {Packed(Ping)}}
    \cup {AtClient(<<ToClient("binary", TRUE, 1), f, ToClient("text", TRUE, 1)>>) :
            f \in {Text, Code(ToClient("close", TRUE, 2), 1012), Code(ToClient("close", TRUE, 2), 1010)}}

Compressed ==
  { Of(<<Packed(ToServer("text", FALSE, 2)), ToServer("continuation", TRUE, 2), Text>>, FALSE, TRUE, FALSE, 0),
    Of(<<Packed(ToServer("text", TRUE, 2)), Ping, ToServer("binary", FALSE, 1), ToServer("continuation", TRUE, 0)>>,
       FALSE, TRUE, FALSE, 0),
    Of(<<Ping, Packed(Invalid(ToServer("binary", TRUE, 2)))>>, FALSE, TRUE, FALSE, 0),
    Of(<<Packed(ToServer("text", FALSE, 2)), ToServer("continuation", TRUE, 0)>>, FALSE, TRUE, TRUE, 1) }

Streamed ==
  { Of(<<Text, ToServer("binary", FALSE, 1), Ping, ToServer("continuation", TRUE, 2), Text>>, FALSE, FALSE, FALSE, 2) }

MCScenarios == Buffering \cup Interjected \cup Wrong \cup Compressed \cup Streamed

(* A compressed message as ProtocolWriter.sendStream() ends one, and another. *)
CompressedStream ==
  {Of(<<Packed(ToServer("text", FALSE, 1)), ToServer("continuation", TRUE, 0), Text>>, FALSE, TRUE, FALSE, 0)}

PingInCompressed ==
  {Of(<<Packed(ToServer("text", FALSE, 1)), Ping, ToServer("continuation", TRUE, 1)>>, FALSE, TRUE, FALSE, 0)}
=============================================================================
