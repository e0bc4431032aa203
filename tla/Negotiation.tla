---------------------------- MODULE Negotiation -----------------------------
(***************************************************************************)
(* The permessage-deflate parameters both ends of a connection must come   *)
(* out of the opening handshake with: what each of them says about its     *)
(* configuration (generatePermessageDeflateExtLine() of                    *)
(* source/protocolRelated.js), and what the server (serverHandshake.js)    *)
(* and then the client (clientHandshake.js) make of what the other said.   *)
(*                                                                         *)
(* The inflater of one end is created for the window of the deflater of    *)
(* the other, so a difference loses messages only once they are large.     *)
(*                                                                         *)
(* An operator no action uses is a plausible mistake in the one after it,  *)
(* kept to show which property would notice.                               *)
(***************************************************************************)
EXTENDS Integers

Bits == 8..15

(* config.compression *)
Config ==
  [clientMaxWindowBits : Bits, serverMaxWindowBits : Bits,
   clientKeepSlidingWindow : BOOLEAN, serverKeepSlidingWindow : BOOLEAN]

(* No compression: config.compression = false *)
Off == [clientMaxWindowBits |-> 0, serverMaxWindowBits |-> 0,
        clientKeepSlidingWindow |-> FALSE, serverKeepSlidingWindow |-> FALSE]

(* A parameter of the line that is not there, or there without a value. *)
Absent == -1
Bare == -2

SaidNothing ==
  [clientMaxWindowBits |-> Absent, serverMaxWindowBits |-> Absent,
   clientDiscardSlidingWindow |-> FALSE, serverDiscardSlidingWindow |-> FALSE]

(* What a line generated from a configuration says to its parser. *)
Said(isClient, c) ==
  [clientMaxWindowBits |-> IF c.clientMaxWindowBits # 15 THEN c.clientMaxWindowBits
                           ELSE IF isClient THEN Bare ELSE Absent,
   serverMaxWindowBits |-> IF c.serverMaxWindowBits # 15 THEN c.serverMaxWindowBits ELSE Absent,
   clientDiscardSlidingWindow |-> ~c.clientKeepSlidingWindow,
   serverDiscardSlidingWindow |-> ~c.serverKeepSlidingWindow]

Min2(a, b) == IF a < b THEN a ELSE b

Invalid(bits) == bits # Absent /\ bits \notin Bits

ServerRefuses(said) ==
  \/ said.clientMaxWindowBits # Bare /\ Invalid(said.clientMaxWindowBits)
  \/ Invalid(said.serverMaxWindowBits)

IgnoresTheOffer(said, own) ==
  [own EXCEPT !.clientMaxWindowBits =
     IF said.clientMaxWindowBits = Absent THEN 15
     ELSE IF said.clientMaxWindowBits = Bare THEN @ ELSE Min2(@, said.clientMaxWindowBits)]

(* What the server makes of an offer. *)
ServerAgrees(said, own) ==
  [clientMaxWindowBits |-> CASE said.clientMaxWindowBits = Bare   -> own.clientMaxWindowBits
                             [] said.clientMaxWindowBits = Absent -> 15
                             [] OTHER -> Min2(own.clientMaxWindowBits, said.clientMaxWindowBits),
   serverMaxWindowBits |-> IF said.serverMaxWindowBits = Absent THEN own.serverMaxWindowBits
                           ELSE Min2(own.serverMaxWindowBits, said.serverMaxWindowBits),
   clientKeepSlidingWindow |-> own.clientKeepSlidingWindow /\ ~said.clientDiscardSlidingWindow,
   serverKeepSlidingWindow |-> own.serverKeepSlidingWindow /\ ~said.serverDiscardSlidingWindow]

ClientRefuses(said, own) ==
  \/ Invalid(said.serverMaxWindowBits)
  \/ Invalid(said.clientMaxWindowBits)
  \/ said.clientMaxWindowBits > own.clientMaxWindowBits

ForgetsTheDefault(said, own) ==
  [own EXCEPT !.serverMaxWindowBits = said.serverMaxWindowBits]

(* What the client makes of the answer. *)
ClientAgrees(said, own) ==
  [clientMaxWindowBits |-> IF said.clientMaxWindowBits = Absent THEN own.clientMaxWindowBits
                           ELSE said.clientMaxWindowBits,
   serverMaxWindowBits |-> IF said.serverMaxWindowBits = Absent THEN 15 ELSE said.serverMaxWindowBits,
   clientKeepSlidingWindow |-> own.clientKeepSlidingWindow /\ ~said.clientDiscardSlidingWindow,
   serverKeepSlidingWindow |-> own.serverKeepSlidingWindow /\ ~said.serverDiscardSlidingWindow]

(* Neither end uses more than the other one can take: a window larger than *)
(* its owner allows, or one kept that its owner discards.                  *)
Within(c, own) ==
  /\ c.clientMaxWindowBits <= own.clientMaxWindowBits
  /\ c.serverMaxWindowBits <= own.serverMaxWindowBits
  /\ c.clientKeepSlidingWindow => own.clientKeepSlidingWindow
  /\ c.serverKeepSlidingWindow => own.serverKeepSlidingWindow
=============================================================================
