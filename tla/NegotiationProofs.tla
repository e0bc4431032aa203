------------------------- MODULE NegotiationProofs --------------------------
(***************************************************************************)
(* The two ends of a connection between a client and a server of this      *)
(* library agree on the compression, whatever their owners configured.     *)
(***************************************************************************)
EXTENDS Negotiation, TLAPS

(* What the server agrees to is a configuration again, within its own.     *)
LEMMA ServerStaysWithin ==
  ASSUME NEW c \in Config, NEW s \in Config
  PROVE  LET offer == Said(TRUE, c)
         IN  /\ ~ServerRefuses(offer)
             /\ ServerAgrees(offer, s) \in Config
             /\ Within(ServerAgrees(offer, s), s)
             /\ Within(ServerAgrees(offer, s), c)
  BY DEF Config, Bits, Said, Absent, Bare, ServerRefuses, Invalid, ServerAgrees, Min2, Within

(* The server answers with its half of the agreement, the client accepts   *)
(* the answer and ends with the same half: both deflate and inflate with   *)
(* the same windows, which neither of their owners forbids.                *)
THEOREM EndsAgree ==
  ASSUME NEW c \in Config, NEW s \in Config
  PROVE  LET agreed == ServerAgrees(Said(TRUE, c), s)
             answer == Said(FALSE, agreed)
         IN  /\ ~ServerRefuses(Said(TRUE, c))
             /\ ~ClientRefuses(answer, c)
             /\ ClientAgrees(answer, c) = agreed
             /\ Within(agreed, c) /\ Within(agreed, s)
<1> DEFINE agreed == ServerAgrees(Said(TRUE, c), s)
           answer == Said(FALSE, agreed)
<1>1. /\ ~ServerRefuses(Said(TRUE, c))
      /\ agreed \in Config
      /\ Within(agreed, s) /\ Within(agreed, c)
  BY ServerStaysWithin
<1> HIDE DEF agreed
<1>2. ~ClientRefuses(answer, c)
  BY <1>1 DEF Config, Bits, Said, Absent, ClientRefuses, Invalid, Within
<1>3. ClientAgrees(answer, c) = agreed
  <2>1. agreed.clientKeepSlidingWindow => c.clientKeepSlidingWindow
    BY <1>1 DEF Within
  <2>2. agreed.serverKeepSlidingWindow => c.serverKeepSlidingWindow
    BY <1>1 DEF Within
  <2>3. agreed.clientMaxWindowBits = 15 => c.clientMaxWindowBits = 15
    BY <1>1 DEF Within, Config, Bits
  <2> DEFINE ours == ClientAgrees(answer, c)
  <2>4. ours.clientMaxWindowBits = agreed.clientMaxWindowBits
    BY <1>1, <2>3 DEF Config, Bits, Said, Absent, ClientAgrees
  <2>5. ours.serverMaxWindowBits = agreed.serverMaxWindowBits
    BY <1>1 DEF Config, Bits, Said, Absent, ClientAgrees
  <2>6. ours.clientKeepSlidingWindow = agreed.clientKeepSlidingWindow
    <3>1. /\ ours.clientKeepSlidingWindow
               = (c.clientKeepSlidingWindow /\ ~~agreed.clientKeepSlidingWindow)
          /\ {agreed.clientKeepSlidingWindow, c.clientKeepSlidingWindow} \subseteq BOOLEAN
      BY <1>1 DEF Config, Said, ClientAgrees
    <3> QED
      BY <2>1, <3>1
  <2>7. ours.serverKeepSlidingWindow = agreed.serverKeepSlidingWindow
    <3>1. /\ ours.serverKeepSlidingWindow
               = (c.serverKeepSlidingWindow /\ ~~agreed.serverKeepSlidingWindow)
          /\ {agreed.serverKeepSlidingWindow, c.serverKeepSlidingWindow} \subseteq BOOLEAN
      BY <1>1 DEF Config, Said, ClientAgrees
    <3> QED
      BY <2>2, <3>1
  <2>8. ours \in Config
    BY <1>1, <2>4, <2>5, <2>6, <2>7 DEF Config, ClientAgrees
  <2> HIDE DEF ours
  <2>9. ours = agreed
    BY <1>1, <2>4, <2>5, <2>6, <2>7, <2>8 DEF Config
  <2> QED
    BY <2>9 DEF ours
<1> QED
  BY <1>1, <1>2, <1>3 DEF agreed
=============================================================================
