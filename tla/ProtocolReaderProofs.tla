------------------------ MODULE ProtocolReaderProofs ------------------------
(***************************************************************************)
(* Theorems about ProtocolReader: its buffer holds, in order, what arrived *)
(* and was not taken, what was taken is whole frames and what #next says   *)
(* of the current one, and what is handed over is what the frames mean.    *)
(*                                                                         *)
(* Holds says of any chunks what BufferIsTheRest says of #chunks; the      *)
(* lemmas about it are one for each way the code adds or takes bytes.      *)
(* They add up the sizes of chunks, and those of frames, with Adds: sums   *)
(* exist, are unique and grow, by least counterexample.                    *)
(*                                                                         *)
(* After[i] is what the first i frames mean.  MeaningInv relates the       *)
(* message to it at every point of _transform(): between two frames, at a  *)
(* byte within one, in the inflater, and once the connection was failed.   *)
(***************************************************************************)
EXTENDS ProtocolReader, SequenceTheorems, FiniteSetTheorems, WellFoundedInduction, TLAPS

(* A set of numbers has a least one ... *)
LEMMA Least ==
  ASSUME NEW S, S \subseteq Nat, S # {}
  PROVE  \E m \in S : \A n \in S : m <= n
<1>1. PICK m \in S : \A n \in S : ~(<<n, m>> \in OpToRel(<, Nat))
  BY NatLessThanWellFounded, WFMin
<1>2. ASSUME NEW n \in S PROVE m <= n
  <2>1. m \in Nat /\ n \in Nat
    OBVIOUS
  <2>2. ~(n < m)
    BY <1>1, <2>1 DEF OpToRel
  <2> QED
    BY <2>1, <2>2
<1> QED
  BY <1>2

(* ... and a bounded one a greatest.                                       *)
LEMMA Greatest ==
  ASSUME NEW n \in Nat, NEW S, S \subseteq 0..n, S # {}
  PROVE  Max(S) \in S /\ \A k \in S : k <= Max(S)
<1> DEFINE left == {n - k : k \in S}
<1>1. left \subseteq Nat /\ left # {}
  <2>1. \A k \in S : n - k \in Nat
    OBVIOUS
  <2>2. PICK k : k \in S
    OBVIOUS
  <2>3. n - k \in left
    BY <2>2
  <2> QED
    BY <2>1, <2>3
<1>2. PICK l \in left : \A k \in left : l <= k
  <2> HIDE DEF left
  <2> QED
    BY <1>1, Least
<1>3. PICK m \in S : l = n - m
  BY <1>2
<1>4. \A k \in S : m >= k
  BY <1>2, <1>3
<1>5. \A k \in S : Max(S) >= k
  BY <1>4 DEF Max
<1>6. Max(S) \in S
  BY <1>4 DEF Max
<1> QED
  BY <1>5, <1>6

-----------------------------------------------------------------------------
(* What the sizes of w[1] to w[n] add up to, one after the other.          *)
Adds(s, w, n) == s = [k \in 0..n |-> IF k = 0 THEN 0 ELSE s[k - 1] + w[k]]

(* There are such sums ... *)
LEMMA SumsExist ==
  ASSUME NEW n \in Nat, NEW w, \A k \in 1..n : w[k] \in Nat
  PROVE  \E s \in [0..n -> Nat] : Adds(s, w, n)
<1> DEFINE bad == {k \in 0..n : ~\E s \in [0..k -> Nat] : Adds(s, w, k)}
<1> SUFFICES ASSUME bad # {} PROVE FALSE
  OBVIOUS
<1>1. bad \subseteq 0..n /\ bad \subseteq Nat
  OBVIOUS
<1>2. PICK m \in bad : \A k \in bad : m <= k
  <2> HIDE DEF bad
  <2> QED
    BY <1>1, Least
<1>3. CASE m = 0
  <2> DEFINE t == [k \in 0..0 |-> 0]
  <2>1. t \in [0..0 -> Nat] /\ Adds(t, w, 0)
    BY DEF Adds
  <2> QED
    BY <1>3, <2>1
<1>4. CASE m # 0
  <2>1. m - 1 \in 0..n /\ m - 1 \notin bad
    <3> HIDE DEF bad
    <3> QED
      BY <1>1, <1>2, <1>4
  <2>2. PICK s \in [0..(m - 1) -> Nat] : Adds(s, w, m - 1)
    BY <2>1
  <2> DEFINE t == [k \in 0..m |-> IF k = m THEN s[m - 1] + w[m] ELSE s[k]]
  <2>3. t \in [0..m -> Nat]
    BY <1>4
  <2>4. \A k \in 0..(m - 1) : s[k] = IF k = 0 THEN 0 ELSE s[k - 1] + w[k]
    BY <2>2 DEF Adds
  <2>5. \A k \in 0..m : t[k] = IF k = 0 THEN 0 ELSE t[k - 1] + w[k]
    BY <1>4, <2>4
  <2>6. Adds(t, w, m)
    <3> HIDE DEF t
    <3> QED
      BY <2>3, <2>5 DEF Adds
  <2> QED
    BY <2>3, <2>6
<1> QED
  BY <1>3, <1>4

(* ... and no others.                                                      *)
LEMMA SumsUnique ==
  ASSUME NEW n \in Nat, NEW w, NEW s, NEW t, Adds(s, w, n), Adds(t, w, n)
  PROVE  s = t
<1>1. /\ \A k \in 0..n : s[k] = IF k = 0 THEN 0 ELSE s[k - 1] + w[k]
      /\ \A k \in 0..n : t[k] = IF k = 0 THEN 0 ELSE t[k - 1] + w[k]
  BY DEF Adds
<1> DEFINE bad == {k \in 0..n : s[k] # t[k]}
<1>2. bad = {}
  <2> SUFFICES ASSUME bad # {} PROVE FALSE
    OBVIOUS
  <2>1. bad \subseteq Nat
    OBVIOUS
  <2>2. PICK m \in bad : \A k \in bad : m <= k
    <3> HIDE DEF bad
    <3> QED
      BY <2>1, Least
  <2>3. m # 0
    BY <1>1, <2>2
  <2>4. m - 1 \in 0..n /\ m - 1 \notin bad
    BY <2>2, <2>3
  <2> QED
    BY <1>1, <2>3, <2>4
<1>3. \A k \in 0..n : s[k] = t[k]
  BY <1>2
<1>4. DOMAIN s = 0..n /\ DOMAIN t = 0..n
  BY DEF Adds
<1>5. s = [k \in 0..n |-> s[k]] /\ t = [k \in 0..n |-> t[k]]
  BY DEF Adds
<1> QED
  BY <1>3, <1>5

(* They do not decrease.                                                   *)
LEMMA SumsGrow ==
  ASSUME NEW n \in Nat, NEW w, \A k \in 1..n : w[k] \in Nat, NEW s \in [0..n -> Nat], Adds(s, w, n),
         NEW i \in 0..n, NEW j \in i..n
  PROVE  s[i] <= s[j]
<1>1. \A k \in 1..n : s[k] = s[k - 1] + w[k]
  BY DEF Adds
<1> DEFINE bad == {k \in i..n : ~(s[i] <= s[k])}
<1> SUFFICES ASSUME bad # {} PROVE FALSE
  OBVIOUS
<1>2. bad \subseteq Nat
  OBVIOUS
<1>3. PICK m \in bad : \A k \in bad : m <= k
  <2> HIDE DEF bad
  <2> QED
    BY <1>2, Least
<1>4. m # i
  BY <1>3
<1>5. m - 1 \in i..n /\ m - 1 \notin bad /\ m \in 1..n
  BY <1>3, <1>4
<1>6. s[i] <= s[m - 1] /\ s[m] = s[m - 1] + w[m] /\ w[m] \in Nat
  BY <1>1, <1>5
<1> QED
  BY <1>3, <1>5, <1>6
-----------------------------------------------------------------------------
(* What ChunkSizes is, of any chunks q.                                    *)
Sizes(q) == LET sizes[k \in 0..Len(q)] == IF k = 0 THEN 0 ELSE sizes[k - 1] + Len(q[k])
            IN  sizes

Lengths(q) == [k \in 1..Len(q) |-> Len(q[k])]

LEMMA SizesAdd ==
  ASSUME NEW q \in Seq(Seq(Nat))
  PROVE  Sizes(q) \in [0..Len(q) -> Nat] /\ Adds(Sizes(q), Lengths(q), Len(q))
<1>1. Len(q) \in Nat /\ \A k \in 1..Len(q) : Lengths(q)[k] = Len(q[k]) /\ Lengths(q)[k] \in Nat
  BY DEF Lengths
<1>2. PICK s \in [0..Len(q) -> Nat] : Adds(s, Lengths(q), Len(q))
  BY <1>1, SumsExist
<1>3. \A t : Adds(t, Lengths(q), Len(q)) <=>
               t = [k \in 0..Len(q) |-> IF k = 0 THEN 0 ELSE t[k - 1] + Len(q[k])]
  BY <1>1 DEF Adds
<1>4. Sizes(q) = CHOOSE t : t = [k \in 0..Len(q) |-> IF k = 0 THEN 0 ELSE t[k - 1] + Len(q[k])]
  BY DEF Sizes
<1>5. Adds(Sizes(q), Lengths(q), Len(q))
  BY <1>2, <1>3, <1>4
<1>6. Sizes(q) = s
  BY <1>1, <1>2, <1>5, SumsUnique
<1> QED
  BY <1>2, <1>5, <1>6

(* The bytes of the first k chunks.                                        *)
LEMMA SizesAre ==
  ASSUME NEW q \in Seq(Seq(Nat))
  PROVE  /\ Sizes(q) \in [0..Len(q) -> Nat] /\ Sizes(q)[0] = 0
         /\ \A k \in 1..Len(q) : Sizes(q)[k] = Sizes(q)[k - 1] + Len(q[k])
         /\ \A i \in 0..Len(q) : \A j \in i..Len(q) : Sizes(q)[i] <= Sizes(q)[j]
<1>1. Len(q) \in Nat /\ \A k \in 1..Len(q) : Lengths(q)[k] = Len(q[k]) /\ Lengths(q)[k] \in Nat
  BY DEF Lengths
<1>2. Sizes(q) \in [0..Len(q) -> Nat] /\ Adds(Sizes(q), Lengths(q), Len(q))
  BY SizesAdd
<1>3. \A i \in 0..Len(q) : \A j \in i..Len(q) : Sizes(q)[i] <= Sizes(q)[j]
  BY <1>1, <1>2, SumsGrow
<1>4. \A k \in 0..Len(q) : Sizes(q)[k] = IF k = 0 THEN 0 ELSE Sizes(q)[k - 1] + Lengths(q)[k]
  BY <1>2 DEF Adds
<1> QED
  BY <1>1, <1>2, <1>3, <1>4

(* What adds up like them is them.                                         *)
LEMMA SizesOnly ==
  ASSUME NEW q \in Seq(Seq(Nat)), NEW s, DOMAIN s = 0..Len(q), s = [k \in 0..Len(q) |-> s[k]], s[0] = 0,
         \A k \in 1..Len(q) : s[k] = s[k - 1] + Len(q[k])
  PROVE  Sizes(q) = s
<1>1. Len(q) \in Nat /\ \A k \in 1..Len(q) : Lengths(q)[k] = Len(q[k])
  BY DEF Lengths
<1>2. \A k \in 0..Len(q) : s[k] = IF k = 0 THEN 0 ELSE s[k - 1] + Lengths(q)[k]
  <2>1. \A k \in 0..Len(q) : k # 0 => k \in 1..Len(q)
    OBVIOUS
  <2> QED
    BY <1>1, <2>1
<1>3. Adds(s, Lengths(q), Len(q))
  BY <1>2 DEF Adds
<1> QED
  BY <1>1, <1>3, SizesAdd, SumsUnique

-----------------------------------------------------------------------------
(* The chunks q hold, behind the first off bytes of the first one, what    *)
(* follows byte from, n bytes of it, and none of them is used up.          *)
Holds(q, off, from, n) ==
  /\ q \in Seq(Seq(Nat)) /\ off \in Nat /\ from \in Nat /\ n \in Nat
  /\ \A c \in 1..Len(q) :
       Len(q[c]) > 0 /\ \A k \in 1..Len(q[c]) : q[c][k] = from - off + Sizes(q)[c - 1] + k
  /\ n = Sizes(q)[Len(q)] - off
  /\ IF Len(q) = 0 THEN off = 0 ELSE off < Len(q[1])

(* More arrives.                                                           *)
LEMMA HoldsMore ==
  ASSUME NEW q, NEW off, NEW from, NEW n, Holds(q, off, from, n), NEW m \in Nat, m > 0
  PROVE  Holds(Append(q, Span(from + n, m)), off, from, n + m)
<1>q. q \in Seq(Seq(Nat))
  BY DEF Holds
<1>0. off \in Nat /\ from \in Nat /\ n \in Nat /\ Len(q) \in Nat
  BY <1>q DEF Holds
<1>a. \A c \in 1..Len(q) : Len(q[c]) > 0 /\ \A k \in 1..Len(q[c]) : q[c][k] = from - off + Sizes(q)[c - 1] + k
  BY DEF Holds
<1>b. n = Sizes(q)[Len(q)] - off
  BY DEF Holds
<1>c. IF Len(q) = 0 THEN off = 0 ELSE off < Len(q[1])
  BY DEF Holds
<1>1. PICK x : x = Span(from + n, m)
  OBVIOUS
<1>2. x \in Seq(Nat) /\ Len(x) = m /\ \A k \in 1..m : x[k] = from + n + k
  BY <1>0, <1>1 DEF Span
<1>3. PICK r : r = Append(q, x)
  OBVIOUS
<1>4. r \in Seq(Seq(Nat)) /\ Len(r) = Len(q) + 1 /\ r[Len(q) + 1] = x /\ \A c \in 1..Len(q) : r[c] = q[c]
  BY <1>q, <1>2, <1>3
<1>5. PICK s : s = [k \in 0..Len(r) |-> IF k = Len(r) THEN Sizes(q)[Len(q)] + m ELSE Sizes(q)[k]]
  OBVIOUS
<1>6. DOMAIN s = 0..Len(r) /\ s = [k \in 0..Len(r) |-> s[k]]
  BY <1>5
<1>7. s[Len(r)] = Sizes(q)[Len(q)] + m /\ \A k \in 0..Len(q) : s[k] = Sizes(q)[k]
  BY <1>0, <1>4, <1>5
<1>8. s[0] = 0
  BY <1>q, <1>0, <1>7, SizesAre
<1>9. \A k \in 1..Len(r) : s[k] = s[k - 1] + Len(r[k])
  <2> SUFFICES ASSUME NEW k \in 1..Len(r) PROVE s[k] = s[k - 1] + Len(r[k])
    OBVIOUS
  <2>1. CASE k = Len(r)
    <3>1. k - 1 = Len(q) /\ k - 1 \in 0..Len(q) /\ r[k] = x
      BY <1>0, <1>4, <2>1
    <3> QED
      BY <1>2, <1>7, <2>1, <3>1
  <2>2. CASE k # Len(r)
    <3>1. k \in 1..Len(q) /\ k - 1 \in 0..Len(q) /\ k \in 0..Len(q)
      BY <1>0, <1>4, <2>2
    <3>2. Sizes(q)[k] = Sizes(q)[k - 1] + Len(q[k])
      BY <1>q, <1>0, <3>1, SizesAre
    <3> QED
      BY <1>4, <1>7, <3>1, <3>2
  <2> QED
    BY <2>1, <2>2
<1>10. Sizes(r) = s
  BY <1>4, <1>6, <1>8, <1>9, SizesOnly
<1>11. ASSUME NEW c \in 1..Len(r)
       PROVE  Len(r[c]) > 0 /\ \A k \in 1..Len(r[c]) : r[c][k] = from - off + Sizes(r)[c - 1] + k
  <2>1. CASE c = Len(r)
    <3>1. Sizes(r)[c - 1] = Sizes(q)[Len(q)] /\ r[c] = x
      BY <1>0, <1>4, <1>7, <1>10, <2>1
    <3>2. Sizes(q)[Len(q)] \in Nat
      <4>1. Len(q) \in 0..Len(q)
        BY <1>0
      <4> QED
        BY <1>q, <4>1, SizesAre
    <3>3. from + n = from - off + Sizes(q)[Len(q)]
      BY <1>0, <1>b, <3>2
    <3> QED
      BY <1>2, <3>1, <3>3
  <2>2. CASE c # Len(r)
    <3>1. c \in 1..Len(q) /\ c - 1 \in 0..Len(q)
      BY <1>0, <1>4, <2>2
    <3>2. r[c] = q[c] /\ Sizes(r)[c - 1] = Sizes(q)[c - 1]
      BY <1>4, <1>7, <1>10, <3>1
    <3> QED
      BY <1>a, <3>1, <3>2
  <2> QED
    BY <2>1, <2>2
<1>12. n + m = Sizes(r)[Len(r)] - off
  <2>1. Sizes(q)[Len(q)] \in Nat
    BY <1>q, <1>0, SizesAre
  <2> QED
    BY <1>0, <1>b, <1>7, <1>10, <2>1
<1>13. off < Len(r[1]) /\ Len(r) # 0
  <2>1. CASE Len(q) = 0
    <3>1. r[1] = x /\ off = 0
      BY <1>4, <1>c, <2>1
    <3> QED
      BY <1>2, <1>4, <2>1, <3>1
  <2>2. CASE Len(q) # 0
    <3>1. r[1] = q[1] /\ off < Len(q[1])
      BY <1>0, <1>4, <1>c, <2>2
    <3> QED
      BY <1>0, <1>4, <3>1
  <2> QED
    BY <2>1, <2>2
<1>14. n + m \in Nat
  BY <1>0
<1> QED
  BY <1>0, <1>1, <1>3, <1>4, <1>11, <1>12, <1>13, <1>14 DEF Holds

(* The first g chunks are used up, and the next one up to m bytes.         *)
LEMMA HoldsLess ==
  ASSUME NEW q, NEW off, NEW from, NEW n, Holds(q, off, from, n), NEW m \in 0..n,
         NEW g \in 0..Len(q), Sizes(q)[g] <= m + off, g < Len(q) => m + off < Sizes(q)[g + 1]
  PROVE  Holds(SubSeq(q, g + 1, Len(q)), m + off - Sizes(q)[g], from + m, n - m)
<1>q. q \in Seq(Seq(Nat))
  BY DEF Holds
<1>0. off \in Nat /\ from \in Nat /\ n \in Nat /\ Len(q) \in Nat
  BY <1>q DEF Holds
<1>a. \A c \in 1..Len(q) : Len(q[c]) > 0 /\ \A k \in 1..Len(q[c]) : q[c][k] = from - off + Sizes(q)[c - 1] + k
  BY DEF Holds
<1>b. n = Sizes(q)[Len(q)] - off
  BY DEF Holds
<1>c. IF Len(q) = 0 THEN off = 0 ELSE off < Len(q[1])
  BY DEF Holds
<1>1. PICK r : r = SubSeq(q, g + 1, Len(q))
  OBVIOUS
<1>2. Len(r) = Len(q) - g /\ \A c \in 1..Len(r) : r[c] = q[g + c]
  BY <1>q, <1>0, <1>1
<1>3. r \in Seq(Seq(Nat))
  BY <1>q, <1>0, <1>1, SubSeqProperties
<1>4. PICK S : S = Sizes(q)
  OBVIOUS
<1>5. S[0] = 0 /\ \A k \in 0..Len(q) : S[k] \in Nat
  BY <1>q, <1>4, SizesAre
<1>d. \A k \in 1..Len(q) : S[k] = S[k - 1] + Len(q[k])
  BY <1>q, <1>4, SizesAre
<1>6. PICK s : s = [k \in 0..Len(r) |-> S[g + k] - S[g]]
  OBVIOUS
<1>7. /\ DOMAIN s = 0..Len(r) /\ s = [k \in 0..Len(r) |-> s[k]]
      /\ \A k \in 0..Len(r) : s[k] = S[g + k] - S[g]
  BY <1>6
<1>8. s[0] = 0
  <2>1. 0 \in 0..Len(r) /\ g + 0 = g /\ S[g] \in Nat
    BY <1>0, <1>2, <1>5
  <2> QED
    BY <1>7, <2>1
<1>9. \A k \in 1..Len(r) : s[k] = s[k - 1] + Len(r[k])
  <2> SUFFICES ASSUME NEW k \in 1..Len(r) PROVE s[k] = s[k - 1] + Len(r[k])
    OBVIOUS
  <2>1. g + k \in 1..Len(q) /\ r[k] = q[g + k] /\ k \in 0..Len(r) /\ k - 1 \in 0..Len(r) /\ g + (k - 1) = (g + k) - 1
    BY <1>0, <1>2
  <2>2. S[g + k] = S[(g + k) - 1] + Len(q[g + k])
    BY <1>d, <2>1
  <2>4. S[(g + k) - 1] \in Nat /\ S[g] \in Nat /\ Len(q[g + k]) \in Nat
    <3>1. (g + k) - 1 \in 0..Len(q)
      BY <1>0, <2>1
    <3> QED
      BY <1>q, <1>5, <2>1, <3>1, SMTT(60)
  <2>3. s[k] = S[g + k] - S[g] /\ s[k - 1] = S[(g + k) - 1] - S[g]
    BY <1>7, <2>1
  <2> QED
    BY <2>1, <2>2, <2>3, <2>4, SMTT(60)
<1>10. Sizes(r) = s
  BY <1>3, <1>7, <1>8, <1>9, SizesOnly
<1>11. ASSUME NEW c \in 1..Len(r)
       PROVE  Len(r[c]) > 0 /\ \A k \in 1..Len(r[c]) :
                                 r[c][k] = (from + m) - (m + off - S[g]) + Sizes(r)[c - 1] + k
  <2>1. g + c \in 1..Len(q) /\ r[c] = q[g + c] /\ c - 1 \in 0..Len(r) /\ g + (c - 1) = (g + c) - 1
    BY <1>0, <1>2
  <2>2. Sizes(r)[c - 1] = S[(g + c) - 1] - S[g]
    BY <1>7, <1>10, <2>1
  <2>3. Len(q[g + c]) > 0 /\ \A k \in 1..Len(q[g + c]) : q[g + c][k] = from - off + S[(g + c) - 1] + k
    BY <1>a, <1>4, <2>1
  <2>4. S[g] \in Nat /\ S[(g + c) - 1] \in Nat
    <3>1. (g + c) - 1 \in 0..Len(q)
      BY <1>0, <2>1
    <3> QED
      BY <1>5, <3>1
  <2>5. from - off + S[(g + c) - 1] = (from + m) - (m + off - S[g]) + Sizes(r)[c - 1]
    <3>1. PICK x \in Nat, y \in Nat, z \in Int : x = S[g] /\ y = S[(g + c) - 1] /\ z = Sizes(r)[c - 1]
      BY <2>2, <2>4
    <3>2. z = y - x /\ m \in Nat
      BY <1>0, <2>2, <3>1
    <3>3. from - off + y = (from + m) - (m + off - x) + z
      BY <1>0, <3>2
    <3> QED
      BY <3>1, <3>3
  <2> QED
    BY <2>1, <2>3, <2>5
<1>12. /\ m + off - S[g] \in Nat /\ from + m \in Nat /\ n - m \in Nat
       /\ n - m = Sizes(r)[Len(r)] - (m + off - S[g])
  <2>1. Len(r) \in 0..Len(r) /\ g + Len(r) = Len(q)
    BY <1>0, <1>2
  <2>2. Sizes(r)[Len(r)] = S[Len(q)] - S[g]
    BY <1>7, <1>10, <2>1
  <2>3. S[g] \in Nat /\ S[Len(q)] \in Nat
    BY <1>0, <1>5
  <2> QED
    <3>1. PICK x \in Nat, y \in Nat, z \in Int : x = S[g] /\ y = S[Len(q)] /\ z = Sizes(r)[Len(r)]
      BY <2>2, <2>3
    <3>2. z = y - x /\ m \in Nat /\ m <= n /\ n = y - off /\ x <= m + off
      BY <1>0, <1>b, <1>4, <2>2, <3>1
    <3>3. m + off - x \in Nat /\ from + m \in Nat /\ n - m \in Nat /\ n - m = z - (m + off - x)
      BY <1>0, <3>2
    <3> QED
      BY <3>1, <3>3
<1>13. IF Len(r) = 0 THEN m + off - S[g] = 0 ELSE m + off - S[g] < Len(r[1])
  <2>1. CASE g = Len(q)
    <3>1. S[g] \in Nat /\ n = S[g] - off
      BY <1>0, <1>b, <1>4, <1>5, <2>1
    <3>2. m + off <= S[g] /\ S[g] <= m + off
      BY <1>0, <1>4, <3>1
    <3> QED
      BY <1>0, <1>2, <2>1, <3>1, <3>2
  <2>2. CASE g < Len(q)
    <3>1. g + 1 \in 1..Len(q) /\ (g + 1) - 1 = g /\ Len(r) # 0 /\ 1 \in 1..Len(r)
      BY <1>0, <1>2, <2>2
    <3>2. S[g + 1] = S[g] + Len(q[g + 1]) /\ S[g] \in Nat /\ r[1] = q[g + 1]
      BY <1>2, <1>5, <1>d, <3>1
    <3>3. Len(q[g + 1]) \in Nat /\ m + off < S[g + 1]
      BY <1>q, <1>4, <2>2, <3>1
    <3> QED
      BY <1>0, <3>1, <3>2, <3>3, SMTT(60)
  <2> QED
    BY <1>0, <2>1, <2>2
<1> QED
  BY <1>1, <1>3, <1>4, <1>11, <1>12, <1>13 DEF Holds

(* y is what of x is behind the first n bytes. *)
Rest(y, x, n) == y \in Seq(Nat) /\ Len(y) = Len(x) - n /\ \A k \in 1..Len(y) : y[k] = x[n + k]

(* The rest of a slice of a sequence.                                      *)
LEMMA RestOfSlice ==
  ASSUME NEW x \in Seq(Nat), NEW off \in Nat, off < Len(x), NEW m \in Nat, m < Len(x) - off,
         NEW y, y = SubSeq(SubSeq(x, off + 1, Len(x)), m + 1, Len(x) - off)
  PROVE  Rest(y, x, off + m)
<1>1. PICK z : z = SubSeq(x, off + 1, Len(x))
  OBVIOUS
<1>2. z \in Seq(Nat) /\ Len(z) = Len(x) - off
  BY <1>1, SubSeqProperties
<1>3. \A k \in 1..Len(z) : z[k] = x[off + k]
  <2>1. \A k \in 1..Len(z) : z[k] = x[off + 1 + k - 1]
    BY <1>1, <1>2, SubSeqProperties
  <2>2. \A k \in 1..Len(z) : off + 1 + k - 1 = off + k
    OBVIOUS
  <2> QED
    BY <2>1, <2>2
<1>4. y = SubSeq(z, m + 1, Len(z))
  BY <1>1, <1>2
<1>n. m + 1 \in Int /\ Len(z) \in Int /\ m + 1 <= Len(z) /\ Len(z) - (m + 1) + 1 = Len(z) - m
      /\ \A i \in (m + 1)..Len(z) : z[i] \in Nat
  BY <1>2, SMTT(60)
<1>5. y \in Seq(Nat) /\ Len(y) = Len(z) - m
  <2>1. SubSeq(z, m + 1, Len(z)) \in Seq(Nat)
    BY <1>n, SubSeqProperties
  <2>2. Len(SubSeq(z, m + 1, Len(z))) = Len(z) - (m + 1) + 1
    BY <1>n, SubSeqProperties
  <2> QED
    BY <1>n, <1>4, <2>1, <2>2
<1>6. \A k \in 1..Len(y) : y[k] = z[m + k]
  <2>1. \A k \in 1..Len(y) : y[k] = z[m + 1 + k - 1]
    <3>1. \A i \in 1..(Len(z) - (m + 1) + 1) : SubSeq(z, m + 1, Len(z))[i] = z[m + 1 + i - 1]
      BY <1>n, SubSeqProperties
    <3> QED
      BY <1>n, <1>4, <1>5, <3>1
  <2>2. \A k \in 1..Len(y) : m + 1 + k - 1 = m + k
    OBVIOUS
  <2> QED
    BY <2>1, <2>2
<1>7. \A k \in 1..Len(y) : m + k \in 1..Len(z) /\ off + (m + k) = off + m + k
  BY <1>2, <1>5
<1>8. Len(y) = Len(x) - (off + m)
  BY <1>2, <1>5
<1> QED
  BY <1>3, <1>5, <1>6, <1>7, <1>8, ZenonT(60) DEF Rest

LEMMA OneChunk ==
  ASSUME NEW y \in Seq(Nat)
  PROVE  <<y>> \in Seq(Seq(Nat)) /\ Len(<<y>>) = 1 /\ <<y>>[1] = y
OBVIOUS

(* Another first chunk. *)
LEMMA OtherFirst ==
  ASSUME NEW q \in Seq(Seq(Nat)), Len(q) # 0, NEW y \in Seq(Nat), NEW r, r = <<y>> \o Tail(q)
  PROVE  r \in Seq(Seq(Nat)) /\ Len(r) = Len(q) /\ r[1] = y /\ \A c \in 2..Len(q) : r[c] = q[c]
<1>q. Len(q) \in Nat /\ 1 \in 1..Len(q)
  OBVIOUS
<1>t. PICK T \in Seq(Seq(Nat)) : T = Tail(q) /\ Len(T) = Len(q) - 1 /\ \A i \in 1..Len(T) : T[i] = q[i + 1]
  <2>1. q # <<>>
    BY <1>q
  <2>2. Tail(q) \in Seq(Seq(Nat)) /\ Len(Tail(q)) = Len(q) - 1 /\ \A i \in 1..Len(Tail(q)) : Tail(q)[i] = q[i + 1]
    BY <1>q, <2>1, HeadTailProperties
  <2> QED
    BY <2>2
<1>u. PICK U \in Seq(Seq(Nat)) : U = <<y>> /\ Len(U) = 1 /\ U[1] = y
  BY OneChunk
<1>1. r = U \o T
  BY <1>t, <1>u
<1>2. r \in Seq(Seq(Nat)) /\ Len(r) = Len(U) + Len(T)
  BY <1>1, ConcatProperties
<1>3. 1 \in 1..(Len(U) + Len(T)) /\ 1 <= Len(U)
  BY <1>q, <1>t, <1>u
<1>4. r[1] = U[1]
  BY <1>1, <1>3, ConcatProperties
<1>5. Len(U) + Len(T) = Len(q)
  BY <1>q, <1>t, <1>u
<1>6. ASSUME NEW c \in 2..Len(q) PROVE r[c] = q[c]
  <2>1. c \in 1..(Len(U) + Len(T)) /\ ~(c <= Len(U)) /\ c - Len(U) \in 1..Len(T) /\ (c - Len(U)) + 1 = c
    BY <1>q, <1>t, <1>u
  <2>2. r[c] = T[c - Len(U)]
    BY <1>1, <1>t, <1>u, <2>1, ConcatProperties
  <2> QED
    BY <1>t, <2>1, <2>2
<1> QED
  BY <1>u, <1>2, <1>4, <1>5, <1>6, SMTT(60)

(* Less than the first chunk is taken, and the rest of it put back.        *)
LEMMA HoldsRest ==
  ASSUME NEW q, NEW off, NEW from, NEW n, Holds(q, off, from, n), Len(q) # 0,
         NEW m \in Nat, m < Len(q[1]) - off, NEW y, Rest(y, q[1], off + m)
  PROVE  Holds(<<y>> \o Tail(q), 0, from + m, n - m)
<1>q. q \in Seq(Seq(Nat)) /\ Len(q) \in Nat /\ 1 \in 1..Len(q) /\ q[1] \in Seq(Nat) /\ Len(q[1]) \in Nat
  BY DEF Holds
<1>0. off \in Nat /\ from \in Nat /\ n \in Nat /\ off < Len(q[1])
  BY <1>q DEF Holds
<1>a. \A c \in 1..Len(q) : Len(q[c]) > 0 /\ \A k \in 1..Len(q[c]) : q[c][k] = from - off + Sizes(q)[c - 1] + k
  BY DEF Holds
<1>b. n = Sizes(q)[Len(q)] - off
  BY DEF Holds
<1>x. PICK x \in Seq(Nat) : x = q[1]
  BY <1>q
<1>1. y \in Seq(Nat) /\ Len(y) = Len(q[1]) - (off + m)
  BY DEF Rest
<1>2. \A k \in 1..Len(y) : y[k] = q[1][off + m + k]
  BY DEF Rest
<1>y. Len(y) \in Nat /\ Len(y) > 0 /\ Len(y) = Len(q[1]) - off - m
  <2>1. PICK long \in Nat, short \in Nat : long = Len(q[1]) /\ short = Len(y)
    BY <1>q, <1>1
  <2>2. off < long /\ m < long - off /\ short = long - (off + m)
    BY <1>0, <1>1, <2>1
  <2>3. short > 0 /\ short = long - off - m
    BY <1>0, <2>2
  <2> QED
    BY <2>1, <2>3
<1>r. PICK r : r = <<y>> \o Tail(q)
  OBVIOUS
<1>3. r \in Seq(Seq(Nat)) /\ Len(r) = Len(q) /\ r[1] = y
  BY <1>q, <1>1, <1>r, OtherFirst
<1>4. \A c \in 2..Len(q) : r[c] = q[c]
  BY <1>q, <1>1, <1>r, OtherFirst
<1>5. PICK S : S = Sizes(q)
  OBVIOUS
<1>6. S[0] = 0 /\ \A k \in 0..Len(q) : S[k] \in Nat
  BY <1>q, <1>5, SizesAre
<1>7. \A k \in 1..Len(q) : S[k] = S[k - 1] + Len(q[k])
  BY <1>q, <1>5, SizesAre
<1>8. PICK s : s = [k \in 0..Len(r) |-> IF k = 0 THEN 0 ELSE S[k] - off - m]
  OBVIOUS
<1>9. /\ DOMAIN s = 0..Len(r) /\ s = [k \in 0..Len(r) |-> s[k]] /\ s[0] = 0
      /\ \A k \in 1..Len(r) : s[k] = S[k] - off - m
  BY <1>q, <1>3, <1>8
<1>10. S[1] = Len(q[1])
  BY <1>q, <1>6, <1>7
<1>11. \A k \in 1..Len(r) : s[k] = s[k - 1] + Len(r[k])
  <2> SUFFICES ASSUME NEW k \in 1..Len(r) PROVE s[k] = s[k - 1] + Len(r[k])
    OBVIOUS
  <2>1. CASE k = 1
    <3>1. k - 1 = 0 /\ r[k] = y
      BY <1>3, <2>1
    <3>2. s[k - 1] = 0 /\ s[k] = S[1] - off - m
      BY <1>9, <2>1, <3>1
    <3> QED
      BY <1>q, <1>0, <1>y, <1>10, <3>1, <3>2
  <2>2. CASE k # 1
    <3>1. k - 1 \in 1..Len(r) /\ k \in 1..Len(q) /\ k \in 2..Len(q) /\ k - 1 \in 0..Len(q)
      BY <1>q, <1>3, <2>2
    <3>2. s[k] = S[k] - off - m /\ s[k - 1] = S[k - 1] - off - m /\ r[k] = q[k]
      BY <1>4, <1>9, <3>1
    <3>3. S[k] = S[k - 1] + Len(q[k])
      BY <1>7, <3>1
    <3>4. S[k - 1] \in Nat /\ Len(q[k]) \in Nat
      BY <1>q, <1>6, <3>1
    <3> QED
      BY <1>0, <3>2, <3>3, <3>4, SMTT(60)
  <2> QED
    BY <2>1, <2>2
<1>12. Sizes(r) = s
  BY <1>3, <1>9, <1>11, SizesOnly
<1>13. ASSUME NEW c \in 1..Len(r)
       PROVE  Len(r[c]) > 0 /\ \A k \in 1..Len(r[c]) : r[c][k] = (from + m) - 0 + Sizes(r)[c - 1] + k
  <2>1. CASE c = 1
    <3>1. r[c] = y /\ Sizes(r)[c - 1] = 0 /\ Len(y) \in Nat /\ Len(y) > 0
      <4>1. c - 1 = 0
        BY <2>1
      <4>2. Sizes(r)[c - 1] = 0
        BY <1>9, <1>12, <4>1
      <4> QED
        BY <1>3, <1>y, <2>1, <4>2
    <3>2. ASSUME NEW k \in 1..Len(y) PROVE y[k] = from + m + k
      <4>1. off + m + k \in 1..Len(q[1])
        BY <1>q, <1>0, <1>y
      <4>3. y[k] = q[1][off + m + k]
        BY <1>2
      <4>2. q[1][off + m + k] = from - off + S[0] + (off + m + k)
        <5>1. 1 - 1 = 0
          OBVIOUS
        <5> QED
          BY <1>q, <1>a, <1>5, <4>1, <5>1
      <4> QED
        BY <1>0, <1>6, <4>2, <4>3
    <3>3. ASSUME NEW k \in 1..Len(y) PROVE from + m + k = (from + m) - 0 + 0 + k
      BY <1>0
    <3> QED
      BY <3>1, <3>2, <3>3
  <2>2. CASE c # 1
    <3>1. c \in 2..Len(q) /\ c \in 1..Len(q) /\ c - 1 \in 1..Len(r) /\ c - 1 \in 0..Len(q)
      BY <1>q, <1>3, <2>2
    <3>2. r[c] = q[c] /\ Sizes(r)[c - 1] = S[c - 1] - off - m /\ S[c - 1] \in Nat
      BY <1>4, <1>6, <1>9, <1>12, <3>1
    <3>3. (from + m) - 0 + Sizes(r)[c - 1] = from - off + S[c - 1]
      BY <1>0, <3>2, SMTT(60)
    <3>4. Len(q[c]) > 0 /\ \A k \in 1..Len(q[c]) : q[c][k] = from - off + S[c - 1] + k
      BY <1>a, <1>5, <3>1
    <3> QED
      BY <3>2, <3>3, <3>4
  <2> QED
    BY <2>1, <2>2
<1>14. n - m \in Nat /\ from + m \in Nat /\ n - m = Sizes(r)[Len(r)] - 0
  <2>1. Len(q) \in 1..Len(r) /\ Len(q) \in 0..Len(q) /\ 1 \in 0..Len(q) /\ Len(q) \in 1..Len(q)
    BY <1>q, <1>3
  <2>2. Sizes(r)[Len(r)] = S[Len(q)] - off - m /\ S[Len(q)] \in Nat
    BY <1>3, <1>6, <1>9, <1>12, <2>1
  <2>3. S[1] <= S[Len(q)]
    BY <1>q, <1>5, <2>1, SizesAre
  <2>4. PICK last \in Nat, len \in Nat : last = S[Len(q)] /\ len = Len(q[1])
    <3>1. PICK last \in Nat : last = S[Len(q)]
      BY <2>2
    <3>2. PICK len \in Nat : len = Len(q[1])
      BY <1>q
    <3> QED
      BY <3>1, <3>2
  <2>5. len <= last /\ n = last - off /\ off < len /\ m < len - off
    BY <1>0, <1>b, <1>5, <1>10, <2>2, <2>3, <2>4
  <2>6. n - m \in Nat /\ from + m \in Nat /\ n - m = (last - off - m) - 0
    BY <1>0, <2>5
  <2> QED
    BY <2>2, <2>4, <2>6
<1>15. 0 < Len(r[1]) /\ Len(r) # 0
  BY <1>q, <1>0, <1>1, <1>3
<1> QED
  BY <1>r, <1>3, <1>13, <1>14, <1>15 DEF Holds

-----------------------------------------------------------------------------
LEMMA HoldsTypes ==
  ASSUME NEW q, NEW off, NEW from, NEW n, Holds(q, off, from, n)
  PROVE  /\ q \in Seq(Seq(Nat)) /\ Len(q) \in Nat /\ off \in Nat /\ from \in Nat /\ n \in Nat
         /\ \A c \in 1..Len(q) : Len(q[c]) \in Nat /\ Len(q[c]) > 0
<1>1. q \in Seq(Seq(Nat)) /\ off \in Nat /\ from \in Nat /\ n \in Nat
  BY DEF Holds
<1>2. \A c \in 1..Len(q) : Len(q[c]) > 0
  BY DEF Holds
<1>3. \A c \in 1..Len(q) : q[c] \in Seq(Nat)
  BY <1>1
<1> QED
  BY <1>1, <1>2, <1>3

LEMMA SameSlice ==
  ASSUME NEW s, NEW t, NEW a \in Int, NEW b \in Int, \A k \in a..b : s[k] = t[k]
  PROVE  SubSeq(s, a, b) = SubSeq(t, a, b)
<1>1. \A S, u : (\A i \in a..b : u[i] \in S) =>
        /\ SubSeq(u, a, b) \in Seq(S) /\ Len(SubSeq(u, a, b)) = IF a <= b THEN b - a + 1 ELSE 0
        /\ \A i \in 1..(b - a + 1) : SubSeq(u, a, b)[i] = u[a + i - 1]
  BY SubSeqProperties
<1> DEFINE S == {s[k] : k \in a..b}
<1>2. /\ \A i \in a..b : s[i] \in S /\ t[i] \in S
  OBVIOUS
<1> HIDE DEF S
<1>3. PICK x, y : x = SubSeq(s, a, b) /\ y = SubSeq(t, a, b)
  OBVIOUS
<1>4. /\ x \in Seq(S) /\ y \in Seq(S) /\ Len(x) = Len(y) /\ Len(x) = IF a <= b THEN b - a + 1 ELSE 0
  BY <1>1, <1>2, <1>3
<1>5. \A i \in 1..(b - a + 1) : x[i] = s[a + i - 1] /\ y[i] = t[a + i - 1]
  BY <1>1, <1>2, <1>3
<1>6. ASSUME NEW i \in 1..Len(x) PROVE x[i] = y[i]
  <2>1. i \in 1..(b - a + 1) /\ a + i - 1 \in a..b
    BY <1>4
  <2> QED
    BY <1>5, <2>1
<1>7. x = y
  BY <1>4, <1>6, SeqEqual
<1> QED
  BY <1>3, <1>7

LEMMA SizesOfChunks == ChunkSizes = Sizes(chunks)
BY DEF ChunkSizes, Sizes

(* The chunk in which the next m bytes end. *)
LEMMA EndsIn ==
  ASSUME NEW q, NEW off, NEW from, NEW n, Holds(q, off, from, n), NEW m \in 1..n,
         NEW c, c = CHOOSE k \in DOMAIN q : Sizes(q)[k] >= m + off /\ Sizes(q)[k - 1] < m + off
  PROVE  c \in 1..Len(q) /\ Sizes(q)[c] >= m + off /\ Sizes(q)[c - 1] < m + off
<1>q. q \in Seq(Seq(Nat)) /\ Len(q) \in Nat /\ DOMAIN q = 1..Len(q)
  BY DEF Holds
<1>0. off \in Nat /\ n \in Nat /\ n = Sizes(q)[Len(q)] - off
  BY DEF Holds
<1>1. PICK S : S = Sizes(q)
  OBVIOUS
<1>2. S[0] = 0 /\ \A k \in 0..Len(q) : S[k] \in Nat
  BY <1>q, <1>1, SizesAre
<1>3. PICK last \in Nat : last = S[Len(q)]
  BY <1>q, <1>2
<1>4. last >= m + off
  BY <1>0, <1>1, <1>3
<1> DEFINE far == {k \in 0..Len(q) : S[k] >= m + off}
<1>5. Len(q) \in far /\ far \subseteq Nat
  BY <1>q, <1>3, <1>4
<1>6. PICK k \in far : \A j \in far : k <= j
  <2> HIDE DEF far
  <2> QED
    BY <1>5, Least
<1>7. k \in 0..Len(q) /\ S[k] >= m + off
  BY <1>6
<1>8. k # 0
  BY <1>0, <1>2, <1>7
<1>9. k - 1 \in 0..Len(q) /\ k - 1 \notin far
  <2>1. k - 1 \in 0..Len(q)
    BY <1>q, <1>7, <1>8
  <2> HIDE DEF far
  <2>2. ~(k <= k - 1)
    BY <1>7
  <2> QED
    BY <1>6, <2>1, <2>2
<1>10. S[k - 1] < m + off
  BY <1>0, <1>2, <1>9
<1>11. k \in DOMAIN q
  BY <1>q, <1>7, <1>8
<1>12. \E i \in DOMAIN q : S[i] >= m + off /\ S[i - 1] < m + off
  BY <1>7, <1>10, <1>11
<1> QED
  BY <1>q, <1>1, <1>12

(* #read() and #fillScratch() take the next m bytes.                       *)
LEMMA ReadHolds ==
  ASSUME NEW from, NEW n, Holds(chunks, chunkOffset, from, n), NEW m \in 1..n, ReadBytes(m)
  PROVE  Holds(chunks', chunkOffset', from + m, n - m)
<1>1. PICK q, off, S : q = chunks /\ off = chunkOffset /\ S = Sizes(q)
  OBVIOUS
<1>2. PICK gone : gone = Max({k \in 0..Len(q) : S[k] <= m + off})
  OBVIOUS
<1>3. chunks' = SubSeq(q, gone + 1, Len(q)) /\ chunkOffset' = m + off - S[gone]
  BY <1>1, <1>2, SizesOfChunks DEF ReadBytes
<1>4. Holds(q, off, from, n)
  BY <1>1
<1>5. q \in Seq(Seq(Nat)) /\ Len(q) \in Nat /\ off \in Nat /\ n \in Nat
  BY <1>4 DEF Holds
<1>6. S[0] = 0 /\ \A k \in 0..Len(q) : S[k] \in Nat
  BY <1>1, <1>5, SizesAre
<1> DEFINE read == {k \in 0..Len(q) : S[k] <= m + off}
<1>7. read \subseteq 0..Len(q) /\ 0 \in read
  BY <1>5, <1>6
<1>8. gone \in read /\ \A k \in read : k <= gone
  <2>1. gone = Max(read)
    BY <1>2
  <2> HIDE DEF read
  <2> QED
    BY <1>5, <1>7, <2>1, Greatest
<1>9. gone \in 0..Len(q) /\ S[gone] <= m + off
  BY <1>8
<1>10. gone < Len(q) => m + off < S[gone + 1]
  <2> HAVE gone < Len(q)
  <2>1. gone + 1 \in 0..Len(q) /\ ~(gone + 1 <= gone)
    BY <1>5, <1>9
  <2>2. gone + 1 \notin read
    <3> HIDE DEF read
    <3> QED
      BY <1>8, <2>1
  <2> QED
    BY <1>5, <1>6, <2>1, <2>2
<1>11. m \in 0..n
  BY <1>5
<1>12. Holds(SubSeq(q, gone + 1, Len(q)), m + off - S[gone], from + m, n - m)
  BY <1>1, <1>4, <1>9, <1>10, <1>11, HoldsLess
<1> QED
  BY <1>3, <1>12

(* So does Buffer.concat() when they are more than the first chunk has.    *)
LEMMA ConcatHolds ==
  ASSUME NEW from, NEW n, Holds(chunks, chunkOffset, from, n), NEW m \in 1..n,
         m > Len(chunks[1]) - chunkOffset, ConcatChunks(m)
  PROVE  Holds(chunks', chunkOffset', from + m, n - m)
<1>1. PICK q, off, S : q = chunks /\ off = chunkOffset /\ S = Sizes(q)
  OBVIOUS
<1>2. PICK c : c = CHOOSE k \in DOMAIN q : S[k] >= m + off /\ S[k - 1] < m + off
  OBVIOUS
<1>3. PICK trimmed : trimmed = <<SubSeq(q[1], off + 1, Len(q[1]))>> \o Tail(q)
  OBVIOUS
<1>4. IF S[c] - off - m = 0 THEN chunks' = SubSeq(q, c + 1, Len(q)) /\ chunkOffset' = 0
      ELSE /\ chunks' = SubSeq(trimmed, c, Len(q))
           /\ chunkOffset' = Len(trimmed[c]) - (S[c] - off - m)
  BY <1>1, <1>2, <1>3, SizesOfChunks DEF ConcatChunks
<1>5. Holds(q, off, from, n) /\ m > Len(q[1]) - off
  BY <1>1
<1>t. q \in Seq(Seq(Nat))
  BY <1>5, HoldsTypes
<1>l. \A k \in 1..Len(q) : Len(q[k]) \in Nat /\ Len(q[k]) > 0
  BY <1>5, HoldsTypes
<1>6. Len(q) \in Nat /\ off \in Nat /\ n \in Nat /\ m \in 0..n /\ m \in Nat
  BY <1>5, HoldsTypes
<1>7. \A k \in 0..Len(q) : S[k] \in Nat
  BY <1>1, <1>t, SizesAre
<1>8. S[0] = 0 /\ \A k \in 1..Len(q) : S[k] = S[k - 1] + Len(q[k])
  BY <1>1, <1>t, SizesAre
<1>9. c \in 1..Len(q) /\ S[c] >= m + off /\ S[c - 1] < m + off
  BY <1>1, <1>2, <1>5, EndsIn
<1>10. c - 1 \in 0..Len(q) /\ c \in 0..Len(q) /\ (c - 1) + 1 = c
  BY <1>6, <1>9
<1>e. PICK end \in Nat, start \in Nat : end = S[c] /\ start = S[c - 1]
  BY <1>7, <1>10
<1>f. end >= m + off /\ start < m + off
  BY <1>9, <1>e
<1>11. c # 1
  <2> SUFFICES ASSUME c = 1 PROVE FALSE
    OBVIOUS
  <2>1. S[1] = S[0] + Len(q[1]) /\ Len(q[1]) \in Nat
    BY <1>l, <1>8, <1>9
  <2>2. PICK len \in Nat : len = Len(q[1])
    BY <2>1
  <2>3. len >= m + off /\ m > len - off
    BY <1>5, <1>8, <1>9, <2>1, <2>2
  <2> QED
    BY <1>6, <2>3
<1>12. CASE S[c] - off - m = 0
  <2>1. chunks' = SubSeq(q, c + 1, Len(q)) /\ chunkOffset' = 0
    BY <1>4, <1>12
  <2>2. end = m + off
    BY <1>6, <1>e, <1>12, SMTT(60)
  <2>3. c < Len(q) => m + off < S[c + 1]
    <3> HAVE c < Len(q)
    <3>1. c + 1 \in 1..Len(q) /\ (c + 1) - 1 = c
      BY <1>6, <1>9
    <3>2. S[c + 1] = S[c] + Len(q[c + 1])
      BY <1>8, <3>1
    <3>3. PICK len \in Nat : len = Len(q[c + 1]) /\ len > 0
      BY <1>l, <3>1
    <3>4. len \in Nat /\ len > 0 /\ end \in Nat
      BY <1>e, <3>3
    <3>5. end < end + len
      BY <3>4
    <3> QED
      BY <1>e, <2>2, <3>2, <3>3, <3>5
  <2>4. m + off - S[c] = 0 /\ S[c] <= m + off
    BY <1>6, <1>e, <2>2
  <2>5. Holds(SubSeq(q, c + 1, Len(q)), m + off - S[c], from + m, n - m)
    BY <1>1, <1>5, <1>6, <1>10, <2>3, <2>4, HoldsLess
  <2> QED
    BY <2>1, <2>4, <2>5
<1>13. CASE S[c] - off - m # 0
  <2>1. chunks' = SubSeq(trimmed, c, Len(q)) /\ chunkOffset' = Len(trimmed[c]) - (S[c] - off - m)
    BY <1>4, <1>13
  <2>2. /\ trimmed \in Seq(Seq(Nat)) /\ Len(trimmed) = Len(q)
        /\ \A k \in 2..Len(q) : trimmed[k] = q[k]
    <3>1. Len(q) # 0 /\ 1 \in 1..Len(q)
      BY <1>6, <1>9
    <3>2. PICK x \in Seq(Nat) : x = q[1]
      BY <1>t, <3>1
    <3>3. SubSeq(x, off + 1, Len(x)) \in Seq(Nat)
      BY <1>6, <3>2, SubSeqProperties
    <3> QED
      BY <1>t, <1>3, <3>1, <3>2, <3>3, OtherFirst
  <2>3. SubSeq(trimmed, c, Len(q)) = SubSeq(q, (c - 1) + 1, Len(q))
    <3>1. \A k \in c..Len(q) : trimmed[k] = q[k]
      <4>1. PICK len \in Nat, d \in Nat : len = Len(q) /\ d = c /\ d > 0 /\ d <= len
        BY <1>6, <1>9
      <4>2. \A k \in d..len : k \in 2..len
        BY <1>11, <4>1
      <4> QED
        BY <2>2, <4>1, <4>2
    <3> QED
      BY <1>t, <1>6, <1>9, <1>10, <2>2, <3>1, SameSlice
  <2>4. Len(trimmed[c]) - (S[c] - off - m) = m + off - S[c - 1]
    <3>1. trimmed[c] = q[c]
      <4>1. PICK len \in Nat, d \in Nat : len = Len(q) /\ d = c /\ d > 0 /\ d <= len
        BY <1>6, <1>9
      <4>2. d \in 2..len
        BY <1>11, <4>1
      <4> QED
        BY <2>2, <4>1, <4>2
    <3>2. PICK len \in Nat : len = Len(q[c])
      BY <1>l, <1>9
    <3>3. end = start + len
      BY <1>8, <1>9, <1>e, <3>2
    <3>4. len - (end - off - m) = m + off - start
      BY <1>6, <3>3
    <3> QED
      BY <1>e, <3>1, <3>2, <3>4
  <2>5. c - 1 < Len(q) => m + off < S[(c - 1) + 1]
    <3>1. m + off < end
      BY <1>6, <1>e, <1>f, <1>13
    <3> QED
      BY <1>10, <1>e, <3>1
  <2>6. S[c - 1] <= m + off
    BY <1>6, <1>e, <1>f
  <2>7. Holds(SubSeq(q, (c - 1) + 1, Len(q)), m + off - S[c - 1], from + m, n - m)
    BY <1>1, <1>5, <1>6, <1>10, <2>5, <2>6, HoldsLess
  <2> QED
    BY <2>1, <2>3, <2>4, <2>7
<1> QED
  BY <1>12, <1>13
(* Whichever way a header is taken off the buffer.                         *)
LEMMA TakeHolds ==
  ASSUME Holds(chunks, chunkOffset, taken, buffered), NEW m \in 1..buffered, Take(m)
  PROVE  Holds(chunks', chunkOffset', taken', buffered') /\ taken' = taken + m /\ buffered' = buffered - m
<1>1. taken' = taken + m /\ buffered' = buffered - m
  BY DEF Take
<1>2. CASE m <= 8 \/ m <= Len(chunks[1]) - chunkOffset
  <2>1. ReadBytes(m)
    BY <1>2 DEF Take
  <2> QED
    BY <1>1, <2>1, ReadHolds
<1>3. CASE ~(m <= 8 \/ m <= Len(chunks[1]) - chunkOffset)
  <2>1. ConcatChunks(m)
    BY <1>3 DEF Take
  <2>2. m > Len(chunks[1]) - chunkOffset
    <3>1. Len(chunks) # 0
      <4>1. Len(chunks) = 0 => buffered = 0
        <5>1. chunks \in Seq(Seq(Nat))
          BY HoldsTypes
        <5>2. Sizes(chunks)[0] = 0
          BY <5>1, SizesAre
        <5> QED
          BY <5>2 DEF Holds
      <4> QED
        BY <4>1
    <3>2. PICK len \in Nat, off \in Nat : len = Len(chunks[1]) /\ off = chunkOffset
      <4>1. chunkOffset \in Nat /\ Len(chunks) \in Nat
        BY HoldsTypes
      <4>2. 1 \in 1..Len(chunks)
        BY <3>1, <4>1
      <4>3. Len(chunks[1]) \in Nat
        BY <4>2, HoldsTypes
      <4> QED
        BY <4>1, <4>3
    <3>3. m \in Nat /\ ~(m <= len - off)
      <4>1. buffered \in Nat
        BY HoldsTypes
      <4> QED
        BY <1>3, <3>2, <4>1
    <3>4. m > len - off
      BY <3>2, <3>3
    <3> QED
      BY <3>2, <3>4
  <2> QED
    BY <1>1, <2>1, <2>2, ConcatHolds
<1> QED
  BY <1>2, <1>3

(* What a payload takes of the first chunk, and what it puts back.         *)
FirstChunk == SubSeq(chunks[1], chunkOffset + 1, Len(chunks[1]))

LEMMA PutBackHolds ==
  ASSUME NEW from, NEW n, Holds(chunks, chunkOffset, from, n), chunks # <<>>,
         NEW chunk, chunk = FirstChunk, NEW m \in 1..Len(chunk), PutBack(chunk, m), chunkOffset' = 0
  PROVE  Holds(chunks', chunkOffset', from + m, n - m) /\ m <= n
<1>1. PICK q, off, S : q = chunks /\ off = chunkOffset /\ S = Sizes(q)
  OBVIOUS
<1>2. Holds(q, off, from, n)
  BY <1>1
<1>3. q \in Seq(Seq(Nat)) /\ Len(q) \in Nat /\ off \in Nat /\ from \in Nat /\ n \in Nat
  BY <1>2, HoldsTypes
<1>4. 1 \in 1..Len(q) /\ Len(q) # 0
  BY <1>1, <1>3
<1>5. PICK x \in Seq(Nat), len \in Nat : x = q[1] /\ len = Len(x)
  BY <1>3, <1>4
<1>6. off < len
  BY <1>2, <1>4, <1>5 DEF Holds
<1>7. chunk = SubSeq(x, off + 1, len)
  BY <1>1, <1>5 DEF FirstChunk
<1>8. Len(chunk) = len - off
  <2>1. Len(SubSeq(x, off + 1, len)) = len - (off + 1) + 1
    BY <1>3, <1>5, <1>6, SubSeqProperties
  <2> QED
    BY <1>3, <1>5, <1>6, <1>7, <2>1
<1>9. m \in Nat /\ m > 0 /\ m <= len - off
  BY <1>3, <1>5, <1>6, <1>8
<1>10. S[0] = 0 /\ \A k \in 0..Len(q) : S[k] \in Nat
  BY <1>1, <1>3, SizesAre
<1>11. S[1] = len
  <2>1. S[1] = S[1 - 1] + Len(q[1])
    BY <1>1, <1>3, <1>4, SizesAre
  <2> QED
    BY <1>5, <1>10, <2>1
<1>12. m <= n
  <2>1. S[1] <= S[Len(q)]
    <3>1. 1 \in 0..Len(q) /\ Len(q) \in 1..Len(q)
      BY <1>3, <1>4
    <3> QED
      BY <1>1, <1>3, <3>1, SizesAre
  <2>2. PICK last \in Nat : last = S[Len(q)]
    <3>1. Len(q) \in 0..Len(q)
      BY <1>3
    <3> QED
      BY <1>10, <3>1
  <2>3. n = last - off /\ len <= last
    BY <1>1, <1>2, <1>11, <2>1, <2>2 DEF Holds
  <2> QED
    BY <1>3, <1>9, <2>3
<1>13. CASE m = Len(chunk)
  <2>1. chunks' = Tail(q)
    BY <1>1, <1>13 DEF PutBack
  <2>2. Tail(q) = SubSeq(q, 1 + 1, Len(q))
    BY <1>1, <1>3, TailIsSubSeq
  <2>3. m + off = len
    BY <1>3, <1>8, <1>13
  <2>4. 1 < Len(q) => m + off < S[1 + 1]
    <3> HAVE 1 < Len(q)
    <3>1. 2 \in 1..Len(q)
      BY <1>3
    <3>2. S[2] = S[2 - 1] + Len(q[2])
      BY <1>1, <1>3, <3>1, SizesAre
    <3>3. PICK more \in Nat : more = Len(q[2]) /\ more > 0
      BY <1>2, <3>1, HoldsTypes
    <3>4. S[1 + 1] = len + more
      <4>1. 2 - 1 = 1 /\ 1 + 1 = 2
        OBVIOUS
      <4> QED
        BY <1>11, <3>2, <3>3, <4>1
    <3>5. len < len + more
      <4>1. \A a, b \in Nat : b > 0 => a < a + b
        OBVIOUS
      <4>2. len \in Nat /\ more \in Nat /\ more > 0
        BY <1>5, <3>3
      <4> QED
        BY <4>1, <4>2
    <3> QED
      BY <2>3, <3>4, <3>5
  <2>5. m \in 0..n /\ 1 \in 0..Len(q) /\ S[1] <= m + off
    BY <1>3, <1>4, <1>9, <1>11, <1>12, <2>3
  <2>6. Holds(SubSeq(q, 1 + 1, Len(q)), m + off - S[1], from + m, n - m)
    BY <1>1, <1>2, <2>4, <2>5, HoldsLess
  <2>7. m + off - S[1] = 0
    BY <1>3, <1>9, <1>11, <2>3
  <2> QED
    BY <1>12, <2>1, <2>2, <2>6, <2>7
<1>14. CASE m # Len(chunk)
  <2>1. PICK y : y = SubSeq(chunk, m + 1, Len(chunk))
    OBVIOUS
  <2>2. chunks' = <<y>> \o Tail(q)
    BY <1>1, <1>14, <2>1 DEF PutBack
  <2>3. m < len - off
    BY <1>3, <1>5, <1>8, <1>9, <1>14
  <2>4. Rest(y, x, off + m)
    <3>1. y = SubSeq(SubSeq(x, off + 1, Len(x)), m + 1, Len(x) - off)
      BY <1>5, <1>7, <1>8, <2>1
    <3> QED
      BY <1>3, <1>5, <1>6, <1>9, <2>3, <3>1, RestOfSlice
  <2>5. Holds(<<y>> \o Tail(q), 0, from + m, n - m)
    BY <1>2, <1>4, <1>5, <1>9, <2>3, <2>4, HoldsRest
  <2> QED
    BY <1>12, <2>2, <2>5
<1> QED
  BY <1>13, <1>14

-----------------------------------------------------------------------------
(* The scenario does not change, nor what is computed of it.               *)
Given == scenario \in Scenarios /\ starts = Starts

LEMMA ScenarioIs ==
  ASSUME Given
  PROVE  /\ frames \in Seq(FrameType) /\ Len(frames) \in Nat
         /\ scenario.client \in BOOLEAN /\ scenario.compression \in BOOLEAN /\ scenario.failFast \in BOOLEAN
         /\ scenario.streams \in Nat
         /\ \A i \in 1..Len(frames) : frames[i].size = Huge => frames[i].ext = 8
BY ReaderAssumption DEF Given, frames

LEMMA FrameIs ==
  ASSUME Given, NEW i \in 1..Len(frames)
  PROVE  /\ frames[i] \in FrameType /\ frames[i].size \in Nat /\ frames[i].code \in Nat
         /\ Header2Size(frames[i]) \in Nat /\ Header2Size(frames[i]) <= 12
         /\ WireSize(frames[i]) \in Nat /\ WireSize(frames[i]) >= 2
         /\ WireSize(frames[i]) = 2 + Header2Size(frames[i]) + (IF frames[i].size = Huge THEN 0 ELSE frames[i].size)
         /\ frames[i].size = Huge => Header2Size(frames[i]) > 0
<1>1. frames[i] \in FrameType
  BY ScenarioIs
<1>2. PICK f \in FrameType : f = frames[i]
  BY <1>1
<1>3. f.size \in Nat /\ f.code \in Nat /\ f.ext \in {0, 2, 8}
  BY DEF FrameType
<1>4. Header2Size(f) \in Nat /\ Header2Size(f) <= 12 /\ (f.ext = 8 => Header2Size(f) > 0)
  BY <1>3 DEF Header2Size
<1>5. f.size = Huge => f.ext = 8
  BY <1>2, ScenarioIs
<1>6. WireSize(f) \in Nat /\ WireSize(f) >= 2
  BY <1>3, <1>4 DEF WireSize
<1>7. WireSize(f) = 2 + Header2Size(f) + (IF f.size = Huge THEN 0 ELSE f.size)
  BY DEF WireSize
<1> QED
  BY <1>1, <1>2, <1>3, <1>4, <1>5, <1>6, <1>7

(* Frame i begins where the frames before it end.                          *)
LEMMA StartsAre ==
  ASSUME Given
  PROVE  /\ starts[1] = 0
         /\ \A i \in 1..(Len(frames) + 1) : starts[i] \in Nat
         /\ \A i \in 1..Len(frames) : starts[i + 1] = starts[i] + WireSize(frames[i])
         /\ \A i, j \in 1..(Len(frames) + 1) : i < j => starts[i] < starts[j]
<1>1. PICK n \in Nat : n = Len(frames)
  BY ScenarioIs
<1>2. PICK w : w = [k \in 1..n |-> WireSize(frames[k])]
  OBVIOUS
<1>3. \A k \in 1..n : w[k] \in Nat /\ w[k] = WireSize(frames[k]) /\ w[k] >= 2
  <2> SUFFICES ASSUME NEW k \in 1..n PROVE w[k] \in Nat /\ w[k] = WireSize(frames[k]) /\ w[k] >= 2
    OBVIOUS
  <2>1. w[k] = WireSize(frames[k])
    BY <1>2
  <2>2. WireSize(frames[k]) \in Nat /\ WireSize(frames[k]) >= 2
    BY <1>1, FrameIs
  <2> QED
    BY <2>1, <2>2
<1>4. PICK s \in [0..n -> Nat] : Adds(s, w, n)
  BY <1>3, SumsExist
<1>5. \A k \in 0..n : s[k] = IF k = 0 THEN 0 ELSE s[k - 1] + w[k]
  BY <1>4 DEF Adds
<1> DEFINE Starting(t) == t = [i \in 1..(n + 1) |-> IF i = 1 THEN 0 ELSE t[i - 1] + WireSize(frames[i - 1])]
<1>6. Starts = CHOOSE t : Starting(t)
  BY <1>1 DEF Starts
<1>7. \E t : Starting(t)
  <2> DEFINE t == [i \in 1..(n + 1) |-> s[i - 1]]
  <2>1. ASSUME NEW i \in 1..(n + 1) PROVE t[i] = IF i = 1 THEN 0 ELSE t[i - 1] + WireSize(frames[i - 1])
    <3>1. i - 1 \in 0..n /\ t[i] = s[i - 1]
      OBVIOUS
    <3>2. CASE i = 1
      BY <1>5, <3>1, <3>2
    <3>3. CASE i # 1
      <4>1. i - 1 \in 1..n /\ t[i - 1] = s[(i - 1) - 1]
        BY <3>3
      <4>2. s[i - 1] = s[(i - 1) - 1] + w[i - 1]
        BY <1>5, <4>1
      <4> QED
        BY <1>3, <3>1, <3>3, <4>1, <4>2
    <3> QED
      BY <3>2, <3>3
  <2>2. t = [i \in 1..(n + 1) |-> t[i]]
    OBVIOUS
  <2> HIDE DEF t
  <2>3. t = [i \in 1..(n + 1) |-> IF i = 1 THEN 0 ELSE t[i - 1] + WireSize(frames[i - 1])]
    BY <2>1, <2>2
  <2> QED
    BY <2>3
<1>8. Starting(Starts)
  <2> HIDE DEF Starting
  <2> QED
    BY <1>6, <1>7
<1>9. PICK t : t = Starts
  OBVIOUS
<1>10. /\ \A i \in 1..(n + 1) : t[i] = IF i = 1 THEN 0 ELSE t[i - 1] + WireSize(frames[i - 1])
  BY <1>8, <1>9
<1> DEFINE u == [k \in 0..n |-> t[k + 1]]
<1>11. ASSUME NEW k \in 0..n PROVE u[k] = IF k = 0 THEN 0 ELSE u[k - 1] + w[k]
  <2>1. k + 1 \in 1..(n + 1) /\ (k + 1) - 1 = k /\ u[k] = t[k + 1]
    OBVIOUS
  <2>2. CASE k = 0
    BY <1>10, <2>1, <2>2
  <2>3. CASE k # 0
    <3>1. k \in 1..n /\ k - 1 \in 0..n /\ (k - 1) + 1 = k
      BY <2>3
    <3>2. u[k - 1] = t[k] /\ k + 1 # 1
      BY <3>1
    <3>3. t[k + 1] = t[(k + 1) - 1] + WireSize(frames[(k + 1) - 1])
      BY <1>10, <2>1, <3>2
    <3> QED
      BY <1>3, <2>1, <2>3, <3>1, <3>2, <3>3
  <2> QED
    BY <2>2, <2>3
<1>12. Adds(u, w, n)
  <2>1. u = [k \in 0..n |-> u[k]]
    OBVIOUS
  <2> HIDE DEF u
  <2> QED
    BY <1>11, <2>1 DEF Adds
<1>13. u = s
  <2> HIDE DEF u
  <2> QED
    BY <1>4, <1>12, SumsUnique
<1>14. \A i \in 1..(n + 1) : t[i] = s[i - 1]
  <2> SUFFICES ASSUME NEW i \in 1..(n + 1) PROVE t[i] = s[i - 1]
    OBVIOUS
  <2>1. i - 1 \in 0..n /\ (i - 1) + 1 = i
    OBVIOUS
  <2>2. u[i - 1] = t[i]
    BY <2>1
  <2> QED
    BY <1>13, <2>2
<1> HIDE DEF u, Starting
<1>15. \A k \in 0..n : s[k] \in Nat
  BY <1>4
<1>16. \A k \in 1..n : s[k] = s[k - 1] + w[k]
  BY <1>5
<1>17. t[1] = 0
  BY <1>5, <1>14
<1>18. \A i \in 1..(n + 1) : t[i] \in Nat
  BY <1>14, <1>15
<1>19. ASSUME NEW i \in 1..n PROVE t[i + 1] = t[i] + WireSize(frames[i])
  <2>1. i + 1 \in 1..(n + 1) /\ i \in 1..(n + 1) /\ (i + 1) - 1 = i
    OBVIOUS
  <2>2. t[i + 1] = s[i] /\ t[i] = s[i - 1]
    BY <1>14, <2>1
  <2> QED
    BY <1>3, <1>16, <2>2
<1>20. ASSUME NEW i \in 1..(n + 1), NEW j \in 1..(n + 1), i < j PROVE t[i] < t[j]
  <2>1. i - 1 \in 0..n /\ i \in 1..n /\ i \in 0..n /\ j - 1 \in i..n /\ j - 1 \in 0..n
    BY <1>20
  <2>2. s[i] <= s[j - 1]
    BY <1>3, <1>4, <2>1, SumsGrow
  <2>3. s[i] = s[i - 1] + w[i] /\ w[i] \in Nat /\ w[i] >= 2
    BY <1>3, <1>16, <2>1
  <2>4. PICK a \in Nat, b \in Nat, c \in Nat, d \in Nat : a = s[i - 1] /\ b = s[i] /\ c = s[j - 1] /\ d = w[i]
    BY <1>15, <2>1, <2>3
  <2>5. a < c
    BY <2>2, <2>3, <2>4
  <2> QED
    BY <1>14, <2>4, <2>5
<1> QED
  BY <1>1, <1>9, <1>17, <1>18, <1>19, <1>20 DEF Given

-----------------------------------------------------------------------------
(* What the methods make of a message m: nothing makes up for an error.    *)
Goes(m, v) == v \in Message /\ (v.outcome = "ok" => m.outcome = "ok")

LEMMA FailGoes ==
  ASSUME NEW m \in Message, NEW code \in Outcomes \ {"ok"}
  PROVE  Goes(m, Fail(m, code)) /\ Fail(m, code).outcome # "ok"
BY DEF Fail, Goes, Message, Outcomes

LEMMA EmitGoes ==
  ASSUME NEW m \in Message, NEW op \in {"none", "text", "binary"} \cup ControlOps, NEW data \in Seq(Nat), NEW via \in Nat
  PROVE  Goes(m, Emit(m, op, data, via))
<1>1. PICK e \in Event : e = [op |-> op, data |-> data, via |-> via]
  BY DEF Event
<1>0. m.events \in Seq(Event)
  BY DEF Message
<1>2. PICK es \in Seq(Event) : es = Append(m.events, e)
  <2> QED
    BY <1>0, <1>1, AppendProperties
<1>3. Emit(m, op, data, via) = [m EXCEPT !.events = es]
  BY <1>1, <1>2 DEF Emit
<1>4. [m EXCEPT !.events = es] \in Message /\ [m EXCEPT !.events = es].outcome = m.outcome
  BY DEF Message
<1> QED
  BY <1>3, <1>4 DEF Goes

LEMMA ForgetGoes ==
  ASSUME NEW m \in Message
  PROVE  Goes(m, Forget(m))
<1>1. <<>> \in Seq(Nat)
  OBVIOUS
<1> QED
  BY <1>1 DEF Forget, Goes, Message

LEMMA GoesOn ==
  ASSUME NEW m, NEW v, NEW w, Goes(m, v), Goes(v, w)
  PROVE  Goes(m, w)
BY DEF Goes

LEMMA EmitMessageGoes ==
  ASSUME NEW m \in Message
  PROVE  Goes(m, EmitMessage(m))
<1>1. CASE m.stream # 0 /\ m.op = "binary"
  BY <1>1 DEF EmitMessage, Goes, Message, Outcomes
<1>2. CASE ~(m.stream # 0 /\ m.op = "binary") /\ m.op = "text" /\ ~scenario.failFast /\ (m.bad \/ m.stream # 0)
  BY <1>2, FailGoes DEF EmitMessage, Outcomes
<1>3. CASE ~(m.stream # 0 /\ m.op = "binary") /\ ~(m.op = "text" /\ ~scenario.failFast /\ (m.bad \/ m.stream # 0))
  <2>1. PICK v : v = Emit(m, m.op, m.payload, 0)
    OBVIOUS
  <2>2. m.op \in {"none", "text", "binary"} /\ m.payload \in Seq(Nat)
    BY DEF Message
  <2>3. Goes(m, v)
    BY <2>1, <2>2, EmitGoes
  <2>4. Goes(v, Forget(v))
    BY <2>3, ForgetGoes DEF Goes
  <2>5. EmitMessage(m) = Forget(v)
    BY <1>3, <2>1 DEF EmitMessage
  <2> QED
    BY <2>3, <2>4, <2>5, GoesOn
<1> QED
  BY <1>1, <1>2, <1>3

LEMMA EndMessageStreamGoes ==
  ASSUME NEW m \in Message
  PROVE  Goes(m, EndMessageStream(m))
<1>1. PICK v : v = Emit(m, m.op, m.payload, m.stream)
  OBVIOUS
<1>2. m.op \in {"none", "text", "binary"} /\ m.payload \in Seq(Nat) /\ m.stream \in Nat
  BY DEF Message
<1>3. Goes(m, v)
  BY <1>1, <1>2, EmitGoes
<1>4. PICK w : w = [v EXCEPT !.stream = 0]
  OBVIOUS
<1>5. Goes(v, w)
  BY <1>3, <1>4 DEF Goes, Message
<1>6. Goes(w, Forget(w))
  BY <1>5, ForgetGoes DEF Goes
<1>7. EndMessageStream(m) = Forget(w)
  BY <1>1, <1>4 DEF EndMessageStream
<1> QED
  BY <1>3, <1>5, <1>6, <1>7, GoesOn

LEMMA HandleControlFrameGoes ==
  ASSUME NEW m \in Message, NEW f \in FrameType, IsControl(f), NEW payload \in Seq(Nat)
  PROVE  Goes(m, HandleControlFrame(m, f, payload))
<1>1. f.code \in Nat /\ f.op \in ControlOps
  BY DEF FrameType, IsControl
<1>2. CASE f.op = "close"
  <2>1. \/ HandleControlFrame(m, f, payload) = Emit(m, "close", <<1005>>, 0)
        \/ HandleControlFrame(m, f, payload) = Fail(m, "1002")
        \/ HandleControlFrame(m, f, payload) = Fail(m, "1007")
        \/ HandleControlFrame(m, f, payload) = Emit(m, "close", <<f.code>>, 0)
    BY <1>2 DEF HandleControlFrame, HandleCloseFrame
  <2>2. <<1005>> \in Seq(Nat) /\ <<f.code>> \in Seq(Nat) /\ "close" \in {"none", "text", "binary"} \cup ControlOps
    BY <1>1 DEF ControlOps
  <2>a. PICK none \in Seq(Nat), some \in Seq(Nat), op \in {"none", "text", "binary"} \cup ControlOps :
          none = <<1005>> /\ some = <<f.code>> /\ op = "close"
    BY <2>2, ZenonT(60)
  <2>3. {"1002", "1007"} \subseteq Outcomes \ {"ok"}
    BY DEF Outcomes
  <2>4. Goes(m, Fail(m, "1002")) /\ Goes(m, Fail(m, "1007"))
    BY <2>3, FailGoes
  <2>5. Goes(m, Emit(m, "close", <<1005>>, 0)) /\ Goes(m, Emit(m, "close", <<f.code>>, 0))
    <3>1. Goes(m, Emit(m, op, none, 0)) /\ Goes(m, Emit(m, op, some, 0))
      BY EmitGoes
    <3> QED
      BY <2>a, <3>1
  <2> QED
    BY <2>1, <2>4, <2>5
<1>3. CASE f.op # "close"
  <2>1. HandleControlFrame(m, f, payload) = Emit(m, f.op, payload, 0)
    BY <1>3 DEF HandleControlFrame
  <2> QED
    BY <1>1, <2>1, EmitGoes
<1> QED
  BY <1>2, <1>3

LEMMA ConsumeGoes ==
  ASSUME Given, NEW m \in Message, NEW f \in FrameType, NEW chunk \in Seq(Nat), NEW final \in BOOLEAN
  PROVE  Goes(m, ConsumeMessagePayloadChunk(m, f, chunk, final))
<1>1. PICK got : got = [m EXCEPT !.payload = @ \o chunk, !.bad = (@ \/ Bad(chunk))]
  OBVIOUS
<1>2. Goes(m, got)
  <2>1. PICK p \in Seq(Nat) : p = m.payload \o chunk
    BY ConcatProperties DEF Message
  <2>2. PICK b \in BOOLEAN : b = (m.bad \/ Bad(chunk))
    OBVIOUS
  <2>3. got = [m EXCEPT !.payload = p, !.bad = b]
    BY <1>1, <2>1, <2>2
  <2> QED
    BY <2>3 DEF Goes, Message
<1>3. \/ ConsumeMessagePayloadChunk(m, f, chunk, final) = EndMessageStream(got)
      \/ ConsumeMessagePayloadChunk(m, f, chunk, final) = got
      \/ ConsumeMessagePayloadChunk(m, f, chunk, final) = [m EXCEPT !.outcome = "crashed"]
      \/ ConsumeMessagePayloadChunk(m, f, chunk, final) = Fail(m, "1007")
      \/ ConsumeMessagePayloadChunk(m, f, chunk, final) = EmitMessage(got)
  BY <1>1 DEF ConsumeMessagePayloadChunk
<1>4. Goes(got, EndMessageStream(got)) /\ Goes(got, EmitMessage(got))
  BY <1>2, EndMessageStreamGoes, EmitMessageGoes DEF Goes
<1>5. Goes(m, Fail(m, "1007"))
  BY FailGoes DEF Outcomes
<1>6. Goes(m, [m EXCEPT !.outcome = "crashed"])
  BY DEF Goes, Message, Outcomes
<1> QED
  BY <1>2, <1>3, <1>4, <1>5, <1>6, GoesOn

LEMMA ConsumedGoes ==
  ASSUME Given, NEW m \in Message, NEW fr, fr.i \in 1..Len(frames), fr.payload \in Seq(Nat),
         NEW chunk \in Seq(Nat), NEW final \in BOOLEAN
  PROVE  Goes(m, Consumed(m, fr, chunk, final))
<1>1. PICK f \in FrameType : f = frames[fr.i]
  BY FrameIs
<1>2. Goes(m, m)
  BY DEF Goes
<1>3. PICK p \in Seq(Nat) : p = fr.payload \o chunk
  BY ConcatProperties
<1>4. CASE IsControl(f)
  <2>1. Goes(m, HandleControlFrame(m, f, p))
    BY <1>4, HandleControlFrameGoes
  <2>2. Consumed(m, fr, chunk, final) = IF final THEN HandleControlFrame(m, f, p) ELSE m
    BY <1>1, <1>3, <1>4 DEF Consumed
  <2> QED
    BY <1>2, <2>1, <2>2
<1>5. CASE ~IsControl(f)
  <2>1. PICK b \in BOOLEAN : b = (fr.consumed = f.size)
    OBVIOUS
  <2>2. Consumed(m, fr, chunk, final) = ConsumeMessagePayloadChunk(m, f, chunk, b)
    BY <1>1, <1>5, <2>1 DEF Consumed
  <2> QED
    BY <2>2, ConsumeGoes
<1> QED
  BY <1>4, <1>5

LEMMA StartMessageGoes ==
  ASSUME NEW m \in Message, NEW f \in FrameType, f.op \in {"text", "binary"}
  PROVE  Goes(m, StartMessage(m, f))
<1>1. m.queue \in Seq(Nat) /\ m.stream \in Nat
  BY DEF Message
<1>2. PICK s \in Nat, q \in Seq(Nat) : /\ s = IF m.queue # <<>> THEN Head(m.queue) ELSE m.stream
                                      /\ q = IF m.queue # <<>> THEN Tail(m.queue) ELSE m.queue
  <2>1. CASE m.queue = <<>>
    BY <1>1, <2>1
  <2>2. CASE m.queue # <<>>
    <3>1. Head(m.queue) \in Nat /\ Tail(m.queue) \in Seq(Nat)
      BY <1>1, <2>2, HeadTailProperties
    <3> QED
      BY <2>2, <3>1
  <2> QED
    BY <2>1, <2>2
<1>3. PICK g \in BOOLEAN, c \in BOOLEAN : g = ~f.fin /\ c = (f.rsv = "rsv1")
  OBVIOUS
<1>4. PICK o \in {"text", "binary"} : o = f.op
  OBVIOUS
<1>5. <<>> \in Seq(Nat)
  OBVIOUS
<1>6. PICK none \in Seq(Nat), es \in Seq(Event), out \in Outcomes :
        none = <<>> /\ es = m.events /\ out = m.outcome
  BY <1>5 DEF Message
<1>7. PICK v : v = [op |-> o, fragmented |-> g, compressed |-> c, payload |-> none, bad |-> FALSE,
                    stream |-> s, queue |-> q, events |-> es, outcome |-> out]
  OBVIOUS
<1>8. StartMessage(m, f) = v
  <2>1. StartMessage(m, f) = [m EXCEPT !.op = o, !.fragmented = g, !.compressed = c,
                                       !.payload = none, !.bad = FALSE, !.stream = s, !.queue = q]
    BY <1>2, <1>3, <1>4, <1>6 DEF StartMessage
  <2> QED
    BY <1>6, <1>7, <2>1 DEF Message
<1>9. v \in Message
  BY <1>2, <1>3, <1>4, <1>6, <1>7 DEF Message
<1> QED
  BY <1>6, <1>7, <1>8, <1>9 DEF Goes

LEMMA HandleHeaderGoes ==
  ASSUME Given, NEW m \in Message, NEW f \in FrameType
  PROVE  Goes(m, HandleHeader(m, f))
<1>1. <<>> \in Seq(Nat) /\ Goes(m, m)
  BY DEF Goes
<1>2. CASE IllegalHeader(m, f)
  BY <1>2, FailGoes DEF HandleHeader, Outcomes
<1>3. CASE ~IllegalHeader(m, f) /\ IsControl(f)
  BY <1>1, <1>3, HandleControlFrameGoes DEF HandleHeader
<1>4. CASE ~IllegalHeader(m, f) /\ ~IsControl(f) /\ f.op = "continuation"
  <2>1. HandleHeader(m, f) = ConsumeMessagePayloadChunk(m, f, <<>>, TRUE) \/ HandleHeader(m, f) = m
    BY <1>4 DEF HandleHeader
  <2> QED
    BY <1>1, <2>1, ConsumeGoes
<1>5. CASE ~IllegalHeader(m, f) /\ ~IsControl(f) /\ f.op # "continuation"
  <2>1. f.op \in {"text", "binary"}
    BY <1>5 DEF IllegalHeader, IsControl, FrameType, DataOps
  <2>2. PICK v : v = StartMessage(m, f)
    OBVIOUS
  <2>3. Goes(m, v)
    BY <2>1, <2>2, StartMessageGoes
  <2>4. Goes(v, EmitMessage(v))
    BY <2>3, EmitMessageGoes DEF Goes
  <2>5. HandleHeader(m, f) = EmitMessage(v) \/ HandleHeader(m, f) = v
    BY <1>5, <2>2 DEF HandleHeader
  <2> QED
    BY <2>3, <2>4, <2>5, GoesOn
<1> QED
  BY <1>2, <1>3, <1>4, <1>5


-----------------------------------------------------------------------------
Inflate == [chunk : Seq(Nat), final : BOOLEAN, control : BOOLEAN, awaited : BOOLEAN]

(* TypeOK but for the position in the stream, and that there is a frame    *)
(* once one was begun.                                                     *)
TypeInv ==
  /\ Given
  /\ arrived \in Nat /\ arrived <= Total
  /\ next \in {"header1", "header2", "payload"}
  /\ pc \in {"idle", "loop", "payload", "inflating"}
  /\ frame \in [i : 0..Len(frames), consumed : Nat, payload : Seq(Nat)]
  /\ msg \in Message
  /\ inflates \in Seq(Inflate)
  /\ held \in Seq(Nat)
  /\ calls \in 0..scenario.streams
  /\ frame.i = 0 => next = "header1" /\ pc \in {"idle", "loop"} /\ inflates = <<>>

(* What is left in the chunks is what arrived and was not taken.           *)
BufferInv == Holds(chunks, chunkOffset, taken, buffered) /\ arrived = taken + buffered

(* Until the connection fails, what was taken is whole frames and of the   *)
(* current frame what #next and payloadConsumed say.                       *)
HeaderEnd(i) == starts[i] + 2 + Header2Size(frames[i])

PositionInv ==
  msg.outcome = "ok" =>
    /\ next = "header1" => taken = starts[frame.i + 1]
    /\ next = "header2" => /\ frame.i # 0 /\ pc \in {"idle", "loop"}
                           /\ taken = starts[frame.i] + 2 /\ frame.consumed = 0
                           /\ Header2Size(frames[frame.i]) > 0
    /\ next = "payload" => /\ frame.i # 0 /\ frames[frame.i].size # Huge
                           /\ taken = HeaderEnd(frame.i) + frame.consumed
                           /\ frame.consumed < frames[frame.i].size
    /\ pc \in {"payload", "inflating"} =>
         next = "payload" \/ (next = "header1" /\ frame.consumed = frames[frame.i].size)

(* Only the last call of the inflater may be awaited, by ReadPayload.      *)
AwaitInv ==
  \A k \in 1..Len(inflates) : inflates[k].awaited => k = Len(inflates) /\ pc = "inflating"

ReaderInv == TypeInv /\ BufferInv /\ PositionInv /\ AwaitInv

LEMMA GivenStays ==
  ASSUME Given, UNCHANGED given
  PROVE  Given' /\ scenario' = scenario /\ starts' = starts /\ frames' = frames /\ Total' = Total
<1>1. scenario' = scenario /\ starts' = starts
  BY DEF given
<1>2. frames' = frames
  BY <1>1 DEF frames
<1>3. Starts' = Starts
  BY <1>2 DEF Starts, WireSize, Header2Size
<1>4. Total' = Total
  BY <1>1, <1>2 DEF Total
<1> QED
  BY <1>1, <1>2, <1>3, <1>4 DEF Given

LEMMA TotalIs ==
  ASSUME Given
  PROVE  Total \in Nat /\ \A i \in 1..Len(frames) : starts[i + 1] <= Total
<1>1. PICK n \in Nat : n = Len(frames)
  BY ScenarioIs
<1>2. \A i \in 1..(n + 1) : starts[i] \in Nat
  BY <1>1, StartsAre
<1>3. n + 1 \in 1..(n + 1) /\ Total = starts[n + 1]
  BY <1>1 DEF Total
<1>4. ASSUME NEW i \in 1..n PROVE starts[i + 1] <= starts[n + 1]
  <2>1. i + 1 \in 1..(n + 1)
    OBVIOUS
  <2>2. PICK a \in Nat, b \in Nat : a = starts[i + 1] /\ b = starts[n + 1]
    BY <1>2, <1>3, <2>1
  <2>3. CASE i = n
    BY <2>2, <2>3
  <2>4. CASE i # n
    <3>1. i + 1 < n + 1
      BY <2>4
    <3>2. starts[i + 1] < starts[n + 1]
      BY <1>1, <1>3, <2>1, <3>1, StartsAre
    <3> QED
      BY <2>2, <3>2
  <2> QED
    BY <2>3, <2>4
<1> QED
  BY <1>1, <1>2, <1>3, <1>4

(* A step that takes nothing leaves the position what it was.              *)
LEMMA PositionStays ==
  ASSUME PositionInv, Given, UNCHANGED <<given, taken, next>>,
         frame'.i = frame.i, frame'.consumed = frame.consumed,
         msg'.outcome = "ok" => msg.outcome = "ok",
         pc' \in {"idle", "loop"} \/ pc' = pc \/ (pc = "inflating" /\ pc' = "payload")
  PROVE  PositionInv'
<1>1. starts' = starts /\ frames' = frames /\ taken' = taken /\ next' = next
  BY GivenStays
<1>2. HeaderEnd(frame.i)' = HeaderEnd(frame.i) /\ Header2Size(frames[frame.i])' = Header2Size(frames[frame.i])
  BY <1>1 DEF HeaderEnd, Header2Size
<1> QED
  BY <1>1, <1>2 DEF PositionInv

LEMMA BufferStays ==
  ASSUME BufferInv, UNCHANGED <<arrived, taken, buffer>>
  PROVE  BufferInv'
<1>1. /\ chunks' = chunks /\ chunkOffset' = chunkOffset /\ buffered' = buffered
      /\ taken' = taken /\ arrived' = arrived
  BY DEF buffer
<1>2. Holds(chunks', chunkOffset', taken', buffered')
  BY <1>1 DEF BufferInv
<1> QED
  BY <1>1, <1>2 DEF BufferInv

LEMMA TransformKeeps ==
  ASSUME ReaderInv, NEW n \in 1..(Total - arrived), Transform(n)
  PROVE  ReaderInv'
<1>1. Given /\ arrived \in Nat /\ BufferInv /\ PositionInv /\ Holds(chunks, chunkOffset, taken, buffered)
  BY DEF ReaderInv, TypeInv, BufferInv
<1>2. UNCHANGED given /\ Given' /\ scenario' = scenario /\ frames' = frames /\ Total' = Total /\ Total \in Nat
  BY <1>1, GivenStays, TotalIs DEF Transform
<1>3. n \in Nat /\ n > 0 /\ arrived + n \in Nat /\ arrived + n <= Total
  BY <1>1, <1>2
<1>4. TypeInv'
  BY <1>2, <1>3 DEF ReaderInv, TypeInv, Transform
<1>5. BufferInv'
  <2>1. taken \in Nat /\ buffered \in Nat /\ arrived = taken + buffered
    BY <1>1, HoldsTypes DEF BufferInv
  <2>2. Holds(Append(chunks, Span(arrived, n)), chunkOffset, taken, buffered + n)
    BY <1>1, <1>3, <2>1, HoldsMore
  <2>3. chunks' = Append(chunks, Span(arrived, n)) /\ chunkOffset' = chunkOffset /\ taken' = taken
    BY DEF Transform
  <2>4. buffered' = buffered + n /\ arrived' = taken + (buffered + n)
    BY <1>3, <2>1 DEF Transform
  <2>5. Holds(chunks, chunkOffset, taken, buffered)'
    BY <2>2, <2>3, <2>4
  <2> QED
    BY <2>3, <2>4, <2>5 DEF BufferInv
<1>6. PositionInv'
  BY <1>1, <1>2, PositionStays DEF Transform
<1>7. AwaitInv'
  BY DEF ReaderInv, AwaitInv, Transform
<1> QED
  BY <1>4, <1>5, <1>6, <1>7 DEF ReaderInv

LEMMA LeavePayloadKeeps ==
  ASSUME ReaderInv, LeavePayload
  PROVE  ReaderInv'
<1>1. Given /\ BufferInv /\ PositionInv
  BY DEF ReaderInv, TypeInv
<1>2. UNCHANGED given /\ Given' /\ scenario' = scenario /\ frames' = frames /\ Total' = Total
  BY <1>1, GivenStays DEF LeavePayload
<1>3. TypeInv'
  BY <1>2 DEF ReaderInv, TypeInv, LeavePayload
<1>4. BufferInv'
  BY <1>1, BufferStays DEF LeavePayload
<1>5. PositionInv'
  BY <1>1, PositionStays DEF LeavePayload
<1>6. AwaitInv'
  BY DEF ReaderInv, AwaitInv, LeavePayload
<1> QED
  BY <1>3, <1>4, <1>5, <1>6 DEF ReaderInv

LEMMA CallbackKeeps ==
  ASSUME ReaderInv, Callback
  PROVE  ReaderInv'
<1>1. Given /\ BufferInv /\ PositionInv
  BY DEF ReaderInv, TypeInv
<1>2. UNCHANGED given /\ Given' /\ scenario' = scenario /\ frames' = frames /\ Total' = Total
  BY <1>1, GivenStays DEF Callback
<1>3. TypeInv'
  BY <1>2 DEF ReaderInv, TypeInv, Callback
<1>4. BufferInv'
  BY <1>1, BufferStays DEF Callback
<1>5. PositionInv'
  BY <1>1, PositionStays DEF Callback
<1>6. AwaitInv'
  BY DEF ReaderInv, AwaitInv, Callback
<1> QED
  BY <1>3, <1>4, <1>5, <1>6 DEF ReaderInv

(* The program's calls, and what the inflater answers.                     *)
LEMMA ReceiveStreamKeeps ==
  ASSUME ReaderInv, ReceiveStream
  PROVE  ReaderInv'
<1>1. Given /\ BufferInv /\ PositionInv /\ msg \in Message /\ calls \in 0..scenario.streams
  BY DEF ReaderInv, TypeInv
<1>2. UNCHANGED given /\ Given' /\ scenario' = scenario /\ frames' = frames /\ Total' = Total
  BY <1>1, GivenStays DEF ReceiveStream
<1>3. calls' \in 0..scenario.streams /\ calls' \in Nat
  BY <1>1, ScenarioIs DEF ReceiveStream
<1>4. PICK q \in Seq(Nat) : q = Append(msg.queue, calls')
  <2>1. msg.queue \in Seq(Nat)
    BY <1>1 DEF Message
  <2> QED
    BY <1>3, <2>1, AppendProperties
<1>5. msg' = [msg EXCEPT !.queue = q]
  BY <1>4 DEF ReceiveStream
<1>6. msg' \in Message /\ msg'.outcome = msg.outcome
  BY <1>1, <1>5 DEF Message
<1>7. TypeInv'
  BY <1>2, <1>3, <1>6 DEF ReaderInv, TypeInv, ReceiveStream
<1>8. BufferInv'
  BY <1>1, BufferStays DEF ReceiveStream
<1>9. PositionInv'
  BY <1>1, <1>6, PositionStays DEF ReceiveStream
<1>10. AwaitInv'
  BY DEF ReaderInv, AwaitInv, ReceiveStream
<1> QED
  BY <1>7, <1>8, <1>9, <1>10 DEF ReaderInv

LEMMA DestroyKeeps ==
  ASSUME ReaderInv, Destroy
  PROVE  ReaderInv'
<1>1. Given /\ BufferInv /\ PositionInv /\ msg \in Message
  BY DEF ReaderInv, TypeInv
<1>2. UNCHANGED given /\ Given' /\ scenario' = scenario /\ frames' = frames /\ Total' = Total
  BY <1>1, GivenStays DEF Destroy
<1>3. Goes(msg, msg')
  BY <1>1, FailGoes DEF Destroy, Outcomes
<1>4. msg' \in Message /\ (msg'.outcome = "ok" => msg.outcome = "ok")
  BY <1>3 DEF Goes
<1>5. TypeInv'
  BY <1>2, <1>4 DEF ReaderInv, TypeInv, Destroy
<1>6. BufferInv'
  BY <1>1, BufferStays DEF Destroy
<1>7. PositionInv'
  BY <1>1, <1>4, PositionStays DEF Destroy
<1>8. AwaitInv'
  BY DEF ReaderInv, AwaitInv, Destroy
<1> QED
  BY <1>5, <1>6, <1>7, <1>8 DEF ReaderInv

(* The output, whatever it is, goes to the current frame.                  *)
LEMMA HandOnGoes ==
  ASSUME TypeInv, frame.i # 0, NEW p \in Inflate, NEW out \in Seq(Nat), HandOn(p, out)
  PROVE  Goes(msg, msg') /\ held' \in Seq(Nat) /\ frame'.i = frame.i /\ frame'.consumed = frame.consumed
         /\ frame' \in [i : 0..Len(frames), consumed : Nat, payload : Seq(Nat)]
<1>1. Given /\ msg \in Message /\ frame \in [i : 0..Len(frames), consumed : Nat, payload : Seq(Nat)]
  BY DEF TypeInv
<1>2. frame.i \in 1..Len(frames) /\ frame.payload \in Seq(Nat) /\ p.final \in BOOLEAN
  BY <1>1, ScenarioIs DEF Inflate
<1>3. Goes(msg, msg')
  BY <1>1, <1>2, ConsumedGoes DEF HandOn
<1>4. held' \in Seq(Nat)
  BY DEF HandOn
<1>5. PICK data \in Seq(Nat) : data = frame.payload \o out
  BY <1>2, ConcatProperties
<1>6. frame' = [frame EXCEPT !.payload = data] \/ frame' = frame
  BY <1>5 DEF HandOn
<1> QED
  BY <1>1, <1>3, <1>4, <1>6

LEMMA InflatedKeeps ==
  ASSUME ReaderInv, Inflated
  PROVE  ReaderInv'
<1>1. TypeInv /\ Given /\ BufferInv /\ PositionInv /\ AwaitInv /\ msg \in Message /\ held \in Seq(Nat)
  BY DEF ReaderInv, TypeInv
<1>2. UNCHANGED given /\ Given' /\ scenario' = scenario /\ frames' = frames /\ Total' = Total
  BY <1>1, GivenStays DEF Inflated
<1>3. frame \in [i : 0..Len(frames), consumed : Nat, payload : Seq(Nat)]
  BY <1>1 DEF TypeInv
<1>4. inflates \in Seq(Inflate) /\ inflates # <<>>
  BY <1>1 DEF TypeInv, Inflated
<1>5. PICK p \in Inflate, rest \in Seq(Inflate) : p = Head(inflates) /\ rest = Tail(inflates)
  BY <1>4, HeadTailProperties
<1>6. /\ Len(inflates) \in Nat /\ Len(inflates) > 0 /\ p = inflates[1]
      /\ Len(rest) = Len(inflates) - 1 /\ \A k \in 1..Len(rest) : rest[k] = inflates[k + 1]
  BY <1>4, <1>5, HeadTailProperties, EmptySeq
<1>7. inflates' = rest /\ pc # "loop" /\ pc' = IF p.awaited THEN "payload" ELSE pc
  BY <1>5 DEF Inflated
<1>8. frame.i # 0
  BY <1>1, <1>4 DEF TypeInv
<1>9. p.chunk \in Seq(Nat) /\ p.final \in BOOLEAN /\ p.awaited \in BOOLEAN
  BY DEF Inflate
<1>10. PICK out \in Seq(Nat) : out = held \o p.chunk
  BY <1>1, <1>9, ConcatProperties
<1>11. /\ Goes(msg, msg') /\ held' \in Seq(Nat) /\ frame'.i = frame.i /\ frame'.consumed = frame.consumed
       /\ frame' \in [i : 0..Len(frames), consumed : Nat, payload : Seq(Nat)]
  <2>1. \/ msg' = Fail(msg, "1002") /\ UNCHANGED <<frame, held>>
        \/ HandOn(p, <<0>>)
        \/ HandOn(p, out)
        \/ held' = out /\ UNCHANGED <<frame, msg>>
    BY <1>5, <1>10 DEF Inflated
  <2>2. CASE msg' = Fail(msg, "1002") /\ UNCHANGED <<frame, held>>
    <3>1. Goes(msg, Fail(msg, "1002"))
      BY <1>1, FailGoes DEF Outcomes
    <3> QED
      BY <1>1, <1>3, <2>2, <3>1
  <2>3. CASE HandOn(p, <<0>>)
    <3>1. <<0>> \in Seq(Nat)
      OBVIOUS
    <3> QED
      BY <1>1, <1>8, <2>3, <3>1, HandOnGoes
  <2>4. CASE HandOn(p, out)
    BY <1>1, <1>8, <2>4, HandOnGoes
  <2>5. CASE held' = out /\ UNCHANGED <<frame, msg>>
    BY <1>1, <1>3, <2>5 DEF Goes
  <2> QED
    BY <2>1, <2>2, <2>3, <2>4, <2>5
<1>12. msg' \in Message /\ (msg'.outcome = "ok" => msg.outcome = "ok")
  BY <1>11 DEF Goes
<1>13. p.awaited => pc = "inflating" /\ Len(inflates) = 1
  <2>1. 1 \in 1..Len(inflates)
    BY <1>6
  <2> QED
    BY <1>1, <1>6, <2>1 DEF AwaitInv
<1>14. pc' \in {"idle", "loop", "payload", "inflating"} /\ (pc' = pc \/ (pc = "inflating" /\ pc' = "payload"))
  BY <1>1, <1>7, <1>13 DEF TypeInv
<1>15. TypeInv'
  BY <1>1, <1>2, <1>7, <1>8, <1>11, <1>12, <1>14 DEF TypeInv, Inflated
<1>16. BufferInv'
  BY <1>1, BufferStays DEF Inflated
<1>17. PositionInv'
  BY <1>1, <1>11, <1>12, <1>14, PositionStays DEF Inflated
<1>18. AwaitInv'
  <2> SUFFICES ASSUME NEW k \in 1..Len(rest), rest[k].awaited PROVE k = Len(rest) /\ pc' = "inflating"
    BY <1>7 DEF AwaitInv
  <2>1. k + 1 \in 1..Len(inflates) /\ inflates[k + 1].awaited
    BY <1>6
  <2>2. k + 1 = Len(inflates) /\ pc = "inflating"
    BY <1>1, <2>1 DEF AwaitInv
  <2>3. ~p.awaited
    BY <1>6, <1>13, <2>2
  <2> QED
    BY <1>6, <1>7, <2>2, <2>3
<1> QED
  BY <1>15, <1>16, <1>17, <1>18 DEF ReaderInv

(* What a header makes of the message, and of the inflater.                *)
LEMMA HandleFrameHeaderGoes ==
  ASSUME TypeInv, AwaitInv, pc = "loop", pc' = pc, NEW f \in FrameType, HandleFrameHeader(f)
  PROVE  Goes(msg, msg') /\ inflates' \in Seq(Inflate) /\ AwaitInv'
         /\ next' = IF f.size > 0 THEN "payload" ELSE "header1"
<1>1. Given /\ msg \in Message /\ inflates \in Seq(Inflate)
  BY DEF TypeInv
<1>2. Goes(msg, msg')
  BY <1>1, HandleHeaderGoes DEF HandleFrameHeader
<1>3. PICK e \in Inflate : e = [chunk |-> <<>>, final |-> TRUE, control |-> FALSE, awaited |-> FALSE]
  <2>1. <<>> \in Seq(Nat)
    OBVIOUS
  <2> QED
    BY <2>1 DEF Inflate
<1>4. inflates' = Append(inflates, e) \/ inflates' = inflates
  BY <1>3 DEF HandleFrameHeader
<1>5. /\ Append(inflates, e) \in Seq(Inflate) /\ Len(Append(inflates, e)) = Len(inflates) + 1
      /\ Append(inflates, e)[Len(inflates) + 1] = e
      /\ \A k \in 1..Len(inflates) : Append(inflates, e)[k] = inflates[k]
  BY <1>1, AppendProperties
<1>6. \A k \in 1..Len(inflates) : ~inflates[k].awaited
  BY DEF AwaitInv
<1>7. AwaitInv'
  <2> SUFFICES ASSUME NEW k \in 1..Len(inflates') PROVE ~inflates'[k].awaited
    BY DEF AwaitInv
  <2>1. CASE inflates' = inflates
    BY <1>6, <2>1
  <2>2. CASE inflates' = Append(inflates, e)
    <3>1. Len(inflates) \in Nat
      BY <1>1
    <3>2. CASE k = Len(inflates) + 1
      BY <1>3, <1>5, <2>2, <3>2
    <3>3. CASE k # Len(inflates) + 1
      <4>1. k \in 1..Len(inflates)
        BY <1>5, <2>2, <3>1, <3>3
      <4> QED
        BY <1>5, <1>6, <2>2, <4>1
    <3> QED
      BY <3>2, <3>3
  <2> QED
    BY <1>4, <2>1, <2>2
<1>8. next' = IF f.size > 0 THEN "payload" ELSE "header1"
  BY DEF HandleFrameHeader, AfterHeader
<1> QED
  BY <1>1, <1>2, <1>4, <1>5, <1>7, <1>8

(* Behind the header of frame i.                                           *)
LEMMA PositionAfterHeader ==
  ASSUME Given, UNCHANGED given, NEW i \in 1..Len(frames), frame'.i = i, frame'.consumed = 0,
         taken' = HeaderEnd(i), frames[i].size # Huge,
         next' = IF frames[i].size > 0 THEN "payload" ELSE "header1", pc' = "loop"
  PROVE  PositionInv'
<1>1. starts' = starts /\ frames' = frames
  BY GivenStays
<1>2. HeaderEnd(frame.i)' = HeaderEnd(i) /\ HeaderEnd(i) = starts[i] + 2 + Header2Size(frames[i])
  BY <1>1 DEF HeaderEnd, Header2Size
<1>3. PICK s \in Nat, h \in Nat, size \in Nat :
        s = starts[i] /\ h = Header2Size(frames[i]) /\ size = frames[i].size
  <2>1. i \in 1..(Len(frames) + 1)
    BY ScenarioIs
  <2> QED
    BY <2>1, StartsAre, FrameIs
<1>4. starts[i + 1] = s + WireSize(frames[i]) /\ WireSize(frames[i]) = 2 + h + size
  BY <1>3, StartsAre, FrameIs
<1>5. i # 0
  BY ScenarioIs
<1>6. CASE size > 0
  <2>1. next' = "payload" /\ taken' = HeaderEnd(frame.i)' + frame'.consumed /\ frame'.consumed < size
    BY <1>2, <1>3, <1>6
  <2> QED
    BY <1>1, <1>3, <1>5, <2>1 DEF PositionInv
<1>7. CASE ~(size > 0)
  <2>1. size = 0
    BY <1>7
  <2>2. taken' = starts[i + 1] /\ next' = "header1"
    BY <1>2, <1>3, <1>4, <1>7, <2>1
  <2> QED
    BY <1>1, <2>2 DEF PositionInv
<1> QED
  BY <1>6, <1>7

(* The next frame is the one that begins where the last one ended.         *)
LEMMA NextFrame ==
  ASSUME TypeInv, BufferInv, PositionInv, msg.outcome = "ok", next = "header1", buffered >= 2
  PROVE  /\ frame.i + 1 \in 1..Len(frames) /\ taken = starts[frame.i + 1]
         /\ (CHOOSE i \in DOMAIN frames : starts[i] = taken) = frame.i + 1
<1>1. Given /\ arrived <= Total /\ arrived = taken + buffered /\ taken = starts[frame.i + 1]
  BY DEF TypeInv, BufferInv, PositionInv
<1>2. PICK n \in Nat : n = Len(frames)
  BY <1>1, ScenarioIs
<1>3. PICK j \in 0..n : j = frame.i
  BY <1>2 DEF TypeInv
<1>4. taken \in Nat /\ buffered \in Nat /\ Total \in Nat /\ Total = starts[n + 1]
  BY <1>1, <1>2, HoldsTypes, TotalIs DEF BufferInv, Total
<1>5. j # n
  <2> SUFFICES ASSUME j = n PROVE FALSE
    OBVIOUS
  <2>1. taken = Total
    BY <1>1, <1>3, <1>4
  <2> QED
    BY <1>1, <1>4, <2>1
<1>6. j + 1 \in 1..n /\ j + 1 \in 1..(n + 1)
  BY <1>5
<1>7. DOMAIN frames = 1..n
  BY <1>1, <1>2, ScenarioIs
<1>8. ASSUME NEW i \in 1..n, starts[i] = taken PROVE i = j + 1
  <2> SUFFICES ASSUME i # j + 1 PROVE FALSE
    OBVIOUS
  <2>1. i \in 1..(n + 1) /\ (i < j + 1 \/ j + 1 < i)
    BY <1>6
  <2>2. starts[i] = starts[j + 1] /\ starts[i] \in Nat
    BY <1>1, <1>3, <1>4, <1>8
  <2>3. starts[i] < starts[j + 1] \/ starts[j + 1] < starts[i]
    BY <1>1, <1>2, <1>6, <2>1, StartsAre
  <2> QED
    BY <2>2, <2>3
<1>9. (CHOOSE i \in DOMAIN frames : starts[i] = taken) = j + 1
  BY <1>1, <1>3, <1>6, <1>7, <1>8
<1> QED
  BY <1>1, <1>2, <1>3, <1>6, <1>9

LEMMA Read16bitHeaderKeeps ==
  ASSUME ReaderInv, Read16bitHeader
  PROVE  ReaderInv'
<1>1. TypeInv /\ Given /\ BufferInv /\ PositionInv /\ AwaitInv /\ msg \in Message
  BY DEF ReaderInv, TypeInv
<1>2. UNCHANGED given /\ Given' /\ scenario' = scenario /\ starts' = starts /\ frames' = frames /\ Total' = Total
  BY <1>1, GivenStays DEF Read16bitHeader
<1>3. pc = "loop" /\ pc' = "loop" /\ msg.outcome = "ok" /\ next = "header1" /\ buffered >= 2
  BY DEF Read16bitHeader, Reading, NextSize
<1>4. Take(2) /\ Holds(chunks, chunkOffset, taken, buffered) /\ buffered \in Nat /\ taken \in Nat /\ arrived' = arrived
  BY <1>1, HoldsTypes DEF Read16bitHeader, BufferInv
<1>5. PICK i \in 1..Len(frames) : /\ i = frame.i + 1 /\ taken = starts[i]
                                  /\ (CHOOSE k \in DOMAIN frames : starts[k] = taken) = i
  BY <1>1, <1>3, NextFrame
<1>6. frame' = [i |-> i, consumed |-> 0, payload |-> <<>>]
  BY <1>5 DEF Read16bitHeader
<1>7. frame'.i = i /\ frame'.consumed = 0 /\ i # 0 /\ i \in 0..Len(frames)
  BY <1>1, <1>5, <1>6, ScenarioIs
<1>8. frame' \in [i : 0..Len(frames), consumed : Nat, payload : Seq(Nat)]
  <2>1. <<>> \in Seq(Nat)
    OBVIOUS
  <2> QED
    BY <1>6, <1>7, <2>1
<1>9. BufferInv'
  <2>1. 2 \in 1..buffered
    BY <1>3, <1>4
  <2>2. Holds(chunks', chunkOffset', taken', buffered') /\ taken' = taken + 2 /\ buffered' = buffered - 2
    BY <1>4, <2>1, TakeHolds
  <2>3. arrived' = taken' + buffered'
    BY <1>1, <1>4, <2>2 DEF BufferInv
  <2> QED
    BY <2>2, <2>3 DEF BufferInv
<1>10. taken' = starts[i] + 2
  BY <1>4, <1>5 DEF Take
<1>11. PICK f \in FrameType : f = frames[i] /\ Header2Size(f) \in Nat /\ (f.size = Huge => Header2Size(f) > 0)
  BY <1>1, FrameIs
<1>12. CASE Header2Size(f) > 0
  <2>1. next' = "header2" /\ msg' = msg /\ inflates' = inflates
    BY <1>7, <1>11, <1>12 DEF Read16bitHeader
  <2>2. TypeInv'
    BY <1>1, <1>2, <1>3, <1>7, <1>8, <2>1 DEF TypeInv, Read16bitHeader
  <2>3. PositionInv'
    <3>1. Header2Size(frames[frame.i])' = Header2Size(f)
      BY <1>2, <1>7, <1>11 DEF Header2Size
    <3> QED
      BY <1>2, <1>3, <1>7, <1>10, <1>12, <2>1, <3>1 DEF PositionInv
  <2>4. AwaitInv'
    BY <1>1, <1>3, <2>1 DEF AwaitInv
  <2> QED
    BY <1>9, <2>2, <2>3, <2>4 DEF ReaderInv
<1>13. CASE ~(Header2Size(f) > 0)
  <2>1. HandleFrameHeader(f)
    BY <1>7, <1>11, <1>13 DEF Read16bitHeader
  <2>2. Goes(msg, msg') /\ inflates' \in Seq(Inflate) /\ AwaitInv' /\ next' = IF f.size > 0 THEN "payload" ELSE "header1"
    BY <1>1, <1>3, <2>1, HandleFrameHeaderGoes
  <2>3. TypeInv'
    BY <1>1, <1>2, <1>3, <1>7, <1>8, <2>2 DEF TypeInv, Read16bitHeader, Goes
  <2>4. PositionInv'
    <3>1. Header2Size(f) = 0 /\ f.size # Huge
      BY <1>11, <1>13
    <3>2. taken' = HeaderEnd(i)
      <4>1. starts[i] \in Nat
        BY <1>4, <1>5
      <4> QED
        BY <1>10, <1>11, <3>1, <4>1 DEF HeaderEnd
    <3> QED
      BY <1>1, <1>2, <1>3, <1>7, <1>11, <2>2, <3>1, <3>2, PositionAfterHeader
  <2> QED
    BY <1>9, <2>2, <2>3, <2>4 DEF ReaderInv
<1> QED
  BY <1>12, <1>13

LEMMA ReadRestOfHeaderKeeps ==
  ASSUME ReaderInv, ReadRestOfHeader
  PROVE  ReaderInv'
<1>1. TypeInv /\ Given /\ BufferInv /\ PositionInv /\ AwaitInv /\ msg \in Message
  BY DEF ReaderInv, TypeInv
<1>2. UNCHANGED given /\ Given' /\ scenario' = scenario /\ starts' = starts /\ frames' = frames /\ Total' = Total
  BY <1>1, GivenStays DEF ReadRestOfHeader
<1>3. pc = "loop" /\ pc' = "loop" /\ msg.outcome = "ok" /\ next = "header2" /\ frame' = frame /\ arrived' = arrived
  BY DEF ReadRestOfHeader, Reading
<1>4. PICK i \in 1..Len(frames) : i = frame.i
  BY <1>1, <1>3, ScenarioIs DEF TypeInv, PositionInv
<1>5. PICK f \in FrameType, h \in Nat : f = frames[i] /\ h = Header2Size(f)
  BY <1>1, FrameIs
<1>6. taken = starts[i] + 2 /\ frame.consumed = 0 /\ h > 0
  BY <1>1, <1>3, <1>4, <1>5 DEF PositionInv
<1>7. Take(h) /\ buffered >= h
  BY <1>3, <1>4, <1>5 DEF ReadRestOfHeader, Reading, NextSize
<1>8. Holds(chunks, chunkOffset, taken, buffered) /\ buffered \in Nat /\ taken \in Nat
  BY <1>1, HoldsTypes DEF BufferInv
<1>9. BufferInv'
  <2>1. h \in 1..buffered
    BY <1>6, <1>7, <1>8
  <2>2. Holds(chunks', chunkOffset', taken', buffered') /\ taken' = taken + h /\ buffered' = buffered - h
    BY <1>7, <1>8, <2>1, TakeHolds
  <2>3. arrived' = taken' + buffered'
    BY <1>1, <1>3, <1>8, <2>2 DEF BufferInv
  <2> QED
    BY <2>2, <2>3 DEF BufferInv
<1>10. i # 0 /\ frame.i # 0
  BY <1>1, <1>4, ScenarioIs
<1>11. CASE f.size = Huge
  <2>1. next' = next /\ inflates' = inflates /\ msg' = Fail(msg, "1009")
    BY <1>4, <1>5, <1>11 DEF ReadRestOfHeader
  <2>2. Goes(msg, msg') /\ msg'.outcome # "ok"
    BY <1>1, <2>1, FailGoes DEF Outcomes
  <2>3. TypeInv'
    BY <1>1, <1>2, <1>3, <1>10, <2>1, <2>2 DEF TypeInv, ReadRestOfHeader, Goes
  <2>4. PositionInv'
    BY <2>2 DEF PositionInv
  <2>5. AwaitInv'
    BY <1>1, <1>3, <2>1 DEF AwaitInv
  <2> QED
    BY <1>9, <2>3, <2>4, <2>5 DEF ReaderInv
<1>12. CASE f.size # Huge
  <2>1. HandleFrameHeader(f)
    BY <1>4, <1>5, <1>12 DEF ReadRestOfHeader
  <2>2. Goes(msg, msg') /\ inflates' \in Seq(Inflate) /\ AwaitInv' /\ next' = IF f.size > 0 THEN "payload" ELSE "header1"
    BY <1>1, <1>3, <2>1, HandleFrameHeaderGoes
  <2>3. TypeInv'
    BY <1>1, <1>2, <1>3, <1>10, <2>2 DEF TypeInv, ReadRestOfHeader, Goes
  <2>4. PositionInv'
    <3>1. taken' = HeaderEnd(i)
      BY <1>5, <1>6, <1>7 DEF Take, HeaderEnd
    <3> QED
      BY <1>1, <1>2, <1>3, <1>4, <1>5, <1>6, <1>12, <2>2, <3>1, PositionAfterHeader
  <2> QED
    BY <1>9, <2>2, <2>3, <2>4 DEF ReaderInv
<1> QED
  BY <1>11, <1>12

LEMMA FirstChunkIs ==
  ASSUME NEW from, NEW n, Holds(chunks, chunkOffset, from, n), chunks # <<>>
  PROVE  FirstChunk \in Seq(Nat) /\ Len(FirstChunk) \in Nat /\ Len(FirstChunk) > 0
<1>1. chunks \in Seq(Seq(Nat)) /\ chunkOffset \in Nat /\ Len(chunks) \in Nat
  BY HoldsTypes
<1>2. 1 \in 1..Len(chunks) /\ Len(chunks) # 0
  BY <1>1
<1>3. PICK x \in Seq(Nat), len \in Nat, off \in Nat : x = chunks[1] /\ len = Len(x) /\ off = chunkOffset
  BY <1>1, <1>2
<1>4. off < len
  BY <1>2, <1>3 DEF Holds
<1>5. FirstChunk = SubSeq(x, off + 1, len)
  BY <1>3 DEF FirstChunk
<1>6. SubSeq(x, off + 1, len) \in Seq(Nat) /\ Len(SubSeq(x, off + 1, len)) = len - (off + 1) + 1
  BY <1>3, <1>4, SubSeqProperties
<1>7. len - (off + 1) + 1 > 0
  BY <1>3, <1>4
<1> QED
  BY <1>5, <1>6, <1>7

LEMMA BeginningIs ==
  ASSUME NEW x \in Seq(Nat), NEW n \in Nat, n <= Len(x)
  PROVE  SubSeq(x, 1, n) \in Seq(Nat)
<1>1. \A k \in 1..n : x[k] \in Nat
  OBVIOUS
<1> QED
  BY <1>1, SubSeqProperties

(* The bytes it takes are the next ones.                                   *)
LEMMA BeginningBytes ==
  ASSUME NEW from, NEW m, Holds(chunks, chunkOffset, from, m), chunks # <<>>,
         NEW n \in Nat, n <= Len(FirstChunk)
  PROVE  SubSeq(FirstChunk, 1, n) = Span(from, n)
<1>1. chunks \in Seq(Seq(Nat)) /\ chunkOffset \in Nat /\ from \in Nat /\ Len(chunks) \in Nat
  BY HoldsTypes
<1>2. 1 \in 1..Len(chunks) /\ Len(chunks) # 0
  BY <1>1
<1>3. PICK x \in Seq(Nat), len \in Nat, off \in Nat : x = chunks[1] /\ len = Len(x) /\ off = chunkOffset
  BY <1>1, <1>2
<1>4. off < len
  BY <1>2, <1>3 DEF Holds
<1>5. PICK y : y = FirstChunk
  OBVIOUS
<1>6. y = SubSeq(x, off + 1, len)
  BY <1>3, <1>5 DEF FirstChunk
<1>7. y \in Seq(Nat) /\ Len(y) = len - off /\ \A k \in 1..(len - off) : y[k] = x[off + k]
  <2>1. y = [k \in 1..(len - (off + 1) + 1) |-> x[(off + 1) + k - 1]]
    BY <1>6 DEF SubSeq
  <2>2. len - (off + 1) + 1 = len - off /\ \A k \in 1..(len - off) : (off + 1) + k - 1 = off + k
    OBVIOUS
  <2>3. y = [k \in 1..(len - off) |-> x[off + k]]
    BY <2>1, <2>2
  <2>4. y \in Seq(Nat) /\ Len(y) \in Nat
    BY <1>5, FirstChunkIs
  <2>a. PICK a \in Nat : a = len - off
    BY <1>4
  <2>5. PICK b \in Nat : a = len - off /\ b = Len(y)
    BY <2>4, <2>a
  <2>6. 1..a = 1..b
    <3>1. DOMAIN y = 1..a /\ DOMAIN y = 1..b
      BY <2>3, <2>4, <2>5
    <3> QED
      BY <3>1
  <2>7. a = b
    <3>1. a # 0 => a \in 1..b
      BY <2>6
    <3>2. b # 0 => b \in 1..a
      BY <2>6
    <3> QED
      BY <3>1, <3>2
  <2> QED
    BY <2>3, <2>4, <2>5, <2>7
<1>8. \A k \in 1..len : x[k] = from - off + k
  <2>1. Sizes(chunks)[0] = 0
    BY <1>1, SizesAre
  <2>2. \A k \in 1..Len(chunks[1]) : chunks[1][k] = from - off + Sizes(chunks)[1 - 1] + k
    BY <1>2, <1>3 DEF Holds
  <2> QED
    BY <1>1, <1>3, <2>1, <2>2
<1>9. ASSUME NEW k \in 1..n PROVE y[k] = from + k
  <2>1. k \in 1..(len - off) /\ off + k \in 1..len
    BY <1>3, <1>4, <1>5, <1>7
  <2> QED
    BY <1>1, <1>3, <1>7, <1>8, <2>1, SMTT(60)
<1>10. SubSeq(y, 1, n) = [k \in 1..n |-> y[k]]
  <2>1. SubSeq(y, 1, n) = [k \in 1..(n - 1 + 1) |-> y[1 + k - 1]]
    BY DEF SubSeq
  <2>2. n - 1 + 1 = n /\ \A k \in 1..n : 1 + k - 1 = k
    OBVIOUS
  <2> QED
    BY <2>1, <2>2
<1>11. SubSeq(y, 1, n) = Span(from, n)
  BY <1>9, <1>10 DEF Span
<1> QED
  BY <1>5, <1>11

LEMMA MinIs ==
  ASSUME NEW a \in Nat, NEW b \in Nat
  PROVE  Min({a, b}) = IF a <= b THEN a ELSE b
BY DEF Min

(* One turn of the loop takes n bytes of frame i, and leaves the rest.     *)
Turn(i, size, n, part) ==
  LET f == frames[i]
      final == frame.consumed + n = size
      onward == [frame EXCEPT !.consumed = @ + n]
  IN  /\ next' = IF final THEN "header1" ELSE next
      /\ IF msg.compressed
         THEN /\ inflates' = Append(inflates, [chunk |-> part, final |-> final,
                                               control |-> IsControl(f), awaited |-> TRUE])
              /\ frame' = onward /\ pc' = "inflating" /\ msg' = msg
         ELSE /\ msg' = Consumed(msg, onward, part, final)
              /\ frame' = [onward EXCEPT !.payload = IF IsControl(f) THEN @ \o part ELSE @]
              /\ pc' = "payload" /\ inflates' = inflates

LEMMA ReadPayloadTakes ==
  ASSUME ReaderInv, ReadPayload
  PROVE  \E i \in 1..Len(frames), size \in Nat, n \in Nat, part \in Seq(Nat) :
           /\ i = frame.i /\ size = frames[i].size /\ size # Huge /\ n > 0 /\ frame.consumed + n <= size
           /\ taken = HeaderEnd(i) + frame.consumed /\ msg.outcome = "ok" /\ next = "payload"
           /\ pc \in {"loop", "payload"}
           /\ Holds(chunks', chunkOffset', taken', buffered') /\ taken' = taken + n /\ buffered' = buffered - n
           /\ part = Span(taken, n) /\ Turn(i, size, n, part)
<1>1. TypeInv /\ Given /\ BufferInv /\ PositionInv
  BY DEF ReaderInv, TypeInv
<1>2. msg.outcome = "ok" /\ pc \in {"loop", "payload"} /\ (pc = "payload" \/ next = "payload")
  BY DEF ReadPayload, Reading
<1>3. chunks # <<>> /\ frame.consumed < frames[frame.i].size
  BY DEF ReadPayload
<1>4. frame.i # 0
  BY <1>1, <1>2 DEF TypeInv
<1>5. PICK i \in 1..Len(frames) : i = frame.i
  BY <1>1, <1>4, ScenarioIs DEF TypeInv
<1>6. PICK f \in FrameType, size \in Nat : f = frames[i] /\ size = f.size
  BY <1>1, FrameIs
<1>7. PICK consumed \in Nat : consumed = frame.consumed
  BY <1>1 DEF TypeInv
<1>8. consumed < size
  BY <1>3, <1>5, <1>6, <1>7
<1>9. next = "payload"
  BY <1>1, <1>2, <1>5, <1>6, <1>7, <1>8 DEF PositionInv
<1>10. size # Huge /\ taken = HeaderEnd(i) + consumed
  BY <1>1, <1>2, <1>5, <1>6, <1>7, <1>9 DEF PositionInv
<1>11. Holds(chunks, chunkOffset, taken, buffered)
  BY <1>1 DEF BufferInv
<1>12. PICK chunk \in Seq(Nat), len \in Nat : chunk = FirstChunk /\ len = Len(chunk) /\ len > 0
  BY <1>3, <1>11, FirstChunkIs
<1>13. PICK n \in Nat : n = Min({Len(chunk), size - consumed})
  <2>1. PICK left \in Nat : left = size - consumed
    BY <1>8
  <2>2. Min({len, left}) \in Nat
    BY MinIs
  <2> QED
    BY <1>12, <2>1, <2>2
<1>14. n > 0 /\ n <= len /\ consumed + n <= size
  <2>1. PICK left \in Nat : left = size - consumed /\ left > 0
    BY <1>8
  <2>2. n = IF len <= left THEN len ELSE left
    BY <1>12, <1>13, <2>1, MinIs
  <2> QED
    BY <1>12, <2>1, <2>2
<1>15. PICK part \in Seq(Nat) : part = SubSeq(chunk, 1, n)
  <2>1. n <= Len(chunk)
    BY <1>12, <1>14
  <2>2. SubSeq(chunk, 1, n) \in Seq(Nat)
    BY <2>1, BeginningIs
  <2> QED
    BY <2>2
<1>16. PutBack(chunk, n) /\ chunkOffset' = 0 /\ buffered' = buffered - n /\ taken' = taken + n
  BY <1>5, <1>6, <1>7, <1>12, <1>13 DEF ReadPayload, FirstChunk
<1>17. Holds(chunks', chunkOffset', taken', buffered')
  <2>1. n \in 1..Len(chunk)
    BY <1>12, <1>13, <1>14
  <2>2. Holds(chunks', chunkOffset', taken + n, buffered - n)
    BY <1>3, <1>11, <1>12, <1>16, <2>1, PutBackHolds
  <2> QED
    BY <1>16, <2>2
<1>18. Turn(i, size, n, part)
  BY <1>5, <1>6, <1>7, <1>12, <1>13, <1>15 DEF ReadPayload, FirstChunk, Turn
<1>19. part = Span(taken, n)
  <2>1. n <= Len(FirstChunk)
    BY <1>12, <1>14
  <2>2. SubSeq(FirstChunk, 1, n) = Span(taken, n)
    BY <1>3, <1>11, <2>1, BeginningBytes
  <2> QED
    BY <1>12, <1>15, <2>2
<1> QED
  BY <1>2, <1>5, <1>6, <1>7, <1>9, <1>10, <1>14, <1>16, <1>17, <1>18, <1>19

LEMMA ReadPayloadKeeps ==
  ASSUME ReaderInv, ReadPayload
  PROVE  ReaderInv'
<1>1. TypeInv /\ Given /\ BufferInv /\ PositionInv /\ AwaitInv /\ msg \in Message
  BY DEF ReaderInv, TypeInv
<1>2. UNCHANGED given /\ Given' /\ scenario' = scenario /\ starts' = starts /\ frames' = frames /\ Total' = Total
  BY <1>1, GivenStays DEF ReadPayload
<1>3. PICK i \in 1..Len(frames), size \in Nat, n \in Nat, part \in Seq(Nat) :
        /\ i = frame.i /\ size = frames[i].size /\ size # Huge /\ n > 0 /\ frame.consumed + n <= size
        /\ taken = HeaderEnd(i) + frame.consumed /\ msg.outcome = "ok" /\ next = "payload"
        /\ pc \in {"loop", "payload"}
        /\ Holds(chunks', chunkOffset', taken', buffered') /\ taken' = taken + n /\ buffered' = buffered - n
        /\ part = Span(taken, n) /\ Turn(i, size, n, part)
  BY ReadPayloadTakes
<1>4. frame \in [i : 0..Len(frames), consumed : Nat, payload : Seq(Nat)] /\ inflates \in Seq(Inflate)
  BY <1>1 DEF TypeInv
<1>5. PICK consumed \in Nat, data \in Seq(Nat) : consumed = frame.consumed /\ data = frame.payload
  BY <1>4
<1>a. PICK sum \in Nat : sum = consumed + n
  OBVIOUS
<1>6. PICK onward : onward = [frame EXCEPT !.consumed = sum]
  OBVIOUS
<1>7. /\ onward \in [i : 0..Len(frames), consumed : Nat, payload : Seq(Nat)]
      /\ onward.i = i /\ onward.consumed = consumed + n /\ onward.payload = data
  BY <1>3, <1>4, <1>5, <1>6, <1>a
<1>8. PICK final \in BOOLEAN, control \in BOOLEAN :
        final = (consumed + n = size) /\ control = IsControl(frames[i])
  <2>1. (consumed + n = size) \in BOOLEAN /\ IsControl(frames[i]) \in BOOLEAN
    BY DEF IsControl
  <2> QED
    BY <2>1, Zenon
<1>9. Holds(chunks', chunkOffset', taken', buffered') /\ taken' = taken + n /\ buffered' = buffered - n
  BY <1>3
<1>10. next' = (IF final THEN "header1" ELSE "payload") /\ arrived' = arrived /\ consumed + n <= size /\ size # Huge
  BY <1>3, <1>5, <1>8 DEF ReadPayload, Turn
<1>11. BufferInv'
  <2>1. taken \in Nat /\ buffered \in Nat
    BY <1>1, HoldsTypes DEF BufferInv
  <2>2. arrived' = taken' + buffered'
    BY <1>1, <1>9, <1>10, <2>1 DEF BufferInv
  <2> QED
    BY <1>9, <2>2 DEF BufferInv
<1>12. ~msg.compressed =>
         msg' = Consumed(msg, onward, part, final) /\ pc' = "payload" /\ inflates' = inflates
  BY <1>3, <1>5, <1>6, <1>8, <1>a DEF Turn
<1>13. msg.compressed =>
         /\ inflates' = Append(inflates, [chunk |-> part, final |-> final, control |-> control, awaited |-> TRUE])
         /\ frame' = onward /\ pc' = "inflating" /\ msg' = msg
  BY <1>3, <1>5, <1>6, <1>8, <1>a DEF Turn
<1>14. Goes(msg, msg')
  <2>1. CASE msg.compressed
    BY <1>1, <1>13, <2>1 DEF Goes
  <2>2. CASE ~msg.compressed
    BY <1>1, <1>7, <1>12, <2>2, ConsumedGoes
  <2> QED
    BY <2>1, <2>2
<1>15. /\ frame' \in [i : 0..Len(frames), consumed : Nat, payload : Seq(Nat)]
       /\ frame'.i = i /\ frame'.consumed = consumed + n
  <2>1. CASE msg.compressed
    BY <1>7, <1>13, <2>1
  <2>2. CASE ~msg.compressed
    <3>1. PICK more \in Seq(Nat) : more = data \o part
      BY ConcatProperties
    <3>2. frame' = [onward EXCEPT !.payload = IF IsControl(frames[i]) THEN @ \o part ELSE @]
      BY <1>3, <1>5, <1>6, <1>a, <2>2 DEF Turn
    <3>3. frame' = [onward EXCEPT !.payload = more] \/ frame' = onward
      BY <1>7, <3>1, <3>2
    <3> QED
      BY <1>7, <3>3
  <2> QED
    BY <2>1, <2>2
<1>16. inflates' \in Seq(Inflate) /\ AwaitInv'
  <2>1. \A k \in 1..Len(inflates) : ~inflates[k].awaited
    BY <1>1, <1>3 DEF AwaitInv
  <2>2. CASE ~msg.compressed
    BY <1>4, <1>12, <2>1, <2>2 DEF AwaitInv
  <2>3. CASE msg.compressed
    <3>1. PICK e \in Inflate : e = [chunk |-> part, final |-> final, control |-> control, awaited |-> TRUE]
      BY DEF Inflate
    <3>2. inflates' = Append(inflates, e) /\ pc' = "inflating"
      BY <1>13, <2>3, <3>1
    <3>3. /\ inflates' \in Seq(Inflate) /\ Len(inflates') = Len(inflates) + 1 /\ Len(inflates) \in Nat
          /\ \A k \in 1..Len(inflates) : inflates'[k] = inflates[k]
      BY <1>4, <3>2, AppendProperties
    <3>4. ASSUME NEW k \in 1..Len(inflates'), inflates'[k].awaited PROVE k = Len(inflates')
      <4> SUFFICES ASSUME k # Len(inflates') PROVE FALSE
        OBVIOUS
      <4>1. k \in 1..Len(inflates)
        BY <3>3
      <4> QED
        BY <2>1, <3>3, <3>4, <4>1
    <3> QED
      BY <3>2, <3>3, <3>4 DEF AwaitInv
  <2> QED
    BY <2>2, <2>3
<1>17. i # 0 /\ pc' \in {"payload", "inflating"}
  BY <1>1, <1>12, <1>13, ScenarioIs
<1>18. TypeInv'
  BY <1>1, <1>2, <1>10, <1>14, <1>15, <1>16, <1>17 DEF TypeInv, ReadPayload, Goes
<1>19. PositionInv'
  <2>1. PICK s \in Nat, h \in Nat : s = starts[i] /\ h = Header2Size(frames[i])
    <3>1. i \in 1..(Len(frames) + 1)
      BY <1>1, ScenarioIs
    <3> QED
      BY <1>1, <3>1, StartsAre, FrameIs
  <2>2. starts[i + 1] = s + (2 + h + size)
    BY <1>1, <1>3, <1>10, <2>1, StartsAre, FrameIs
  <2>3. HeaderEnd(i) = s + 2 + h
    BY <2>1 DEF HeaderEnd
  <2>4. taken' = s + 2 + h + (consumed + n)
    BY <1>3, <1>5, <1>9, <2>3
  <2>5. HeaderEnd(frame.i)' = s + 2 + h
    BY <1>2, <1>15, <2>1 DEF HeaderEnd, Header2Size
  <2>6. frames[frame.i].size' = size
    BY <1>2, <1>3, <1>15
  <2>7. CASE final
    <3>1. consumed + n = size
      BY <1>8, <2>7
    <3>2. next' = "header1" /\ taken' = starts'[frame'.i + 1] /\ frame'.consumed = size
      BY <1>2, <1>10, <1>15, <2>2, <2>4, <2>7, <3>1
    <3> QED
      BY <2>6, <3>2 DEF PositionInv
  <2>8. CASE ~final
    <3>1. consumed + n < size
      <4>1. consumed + n # size /\ sum <= size /\ sum = consumed + n
        BY <1>8, <1>10, <1>a, <2>8
      <4>2. \A a, b \in Nat : a <= b /\ a # b => a < b
        OBVIOUS
      <4> QED
        BY <4>1, <4>2
    <3>2. next' = "payload" /\ taken' = HeaderEnd(frame.i)' + frame'.consumed /\ frame'.consumed < size
      BY <1>10, <1>15, <2>4, <2>5, <2>8, <3>1
    <3> QED
      BY <1>10, <1>15, <1>17, <2>6, <3>2 DEF PositionInv
  <2> QED
    BY <2>7, <2>8
<1> QED
  BY <1>11, <1>16, <1>18, <1>19 DEF ReaderInv

-----------------------------------------------------------------------------
LEMMA InitIsReader == Init => ReaderInv
<1> SUFFICES ASSUME Init PROVE ReaderInv
  OBVIOUS
<1>1. scenario \in Scenarios /\ starts = Starts
  BY DEF Init
<1>2. Given
  BY <1>1 DEF Given
<1>3. Total \in Nat /\ starts[1] = 0 /\ Len(frames) \in Nat /\ scenario.streams \in Nat
  BY <1>2, TotalIs, StartsAre, ScenarioIs
<1>4. arrived = 0 /\ taken = 0 /\ chunks = <<>> /\ chunkOffset = 0 /\ buffered = 0 /\ next = "header1"
  BY DEF Init
<1>5. pc = "idle" /\ inflates = <<>> /\ held = <<>> /\ calls = 0 /\ msg.outcome = "ok"
  BY DEF Init
<1>6. frame = [i |-> 0, consumed |-> 0, payload |-> <<>>]
  BY DEF Init
<1>7. <<>> \in Seq(Nat) /\ <<>> \in Seq(Event) /\ <<>> \in Seq(Inflate) /\ <<>> \in Seq(Seq(Nat))
  OBVIOUS
<1>8. msg \in Message
  BY <1>7 DEF Init, Message, Outcomes
<1>9. 0 \in 0..Len(frames) /\ 0 \in 0..scenario.streams /\ 0 <= Total
  BY <1>3
<1>10. TypeInv
  <2>1. frame \in [i : 0..Len(frames), consumed : Nat, payload : Seq(Nat)] /\ frame.i = 0
    BY <1>6, <1>7, <1>9
  <2> QED
    BY <1>2, <1>4, <1>5, <1>7, <1>8, <1>9, <2>1 DEF TypeInv
<1>11. BufferInv
  <2>1. Sizes(<<>>)[0] = 0
    BY <1>7, SizesAre
  <2>2. Holds(<<>>, 0, 0, 0)
    BY <1>7, <2>1 DEF Holds
  <2> QED
    BY <1>4, <2>2 DEF BufferInv
<1>12. PositionInv
  BY <1>3, <1>4, <1>5, <1>6 DEF PositionInv
<1>13. AwaitInv
  BY <1>5 DEF AwaitInv
<1> QED
  BY <1>10, <1>11, <1>12, <1>13 DEF ReaderInv

LEMMA StutterKeeps ==
  ASSUME ReaderInv, UNCHANGED vars
  PROVE  ReaderInv'
<1>1. Given /\ BufferInv /\ PositionInv
  BY DEF ReaderInv, TypeInv
<1>2. UNCHANGED given /\ UNCHANGED <<arrived, taken, buffer>>
  BY DEF vars
<1>3. /\ next' = next /\ frame' = frame /\ msg' = msg /\ pc' = pc /\ inflates' = inflates
      /\ held' = held /\ calls' = calls /\ arrived' = arrived
  BY DEF vars
<1>4. Given' /\ scenario' = scenario /\ frames' = frames /\ Total' = Total
  BY <1>1, <1>2, GivenStays
<1>5. TypeInv'
  BY <1>3, <1>4 DEF ReaderInv, TypeInv
<1>6. BufferInv'
  BY <1>1, <1>2, BufferStays
<1>7. PositionInv'
  BY <1>1, <1>2, <1>3, PositionStays
<1>8. AwaitInv'
  BY <1>3 DEF ReaderInv, AwaitInv
<1> QED
  BY <1>5, <1>6, <1>7, <1>8 DEF ReaderInv

LEMMA NextKeeps == ReaderInv /\ [Next]_vars => ReaderInv'
<1> SUFFICES ASSUME ReaderInv, [Next]_vars PROVE ReaderInv'
  OBVIOUS
<1>1. ASSUME NEW n \in 1..(Total - arrived), Transform(n) PROVE ReaderInv'
  BY <1>1, TransformKeeps
<1>2. CASE Read16bitHeader
  BY <1>2, Read16bitHeaderKeeps
<1>3. CASE ReadRestOfHeader
  BY <1>3, ReadRestOfHeaderKeeps
<1>4. CASE ReadPayload
  BY <1>4, ReadPayloadKeeps
<1>5. CASE LeavePayload
  BY <1>5, LeavePayloadKeeps
<1>6. CASE Callback
  BY <1>6, CallbackKeeps
<1>7. CASE Inflated
  BY <1>7, InflatedKeeps
<1>8. CASE ReceiveStream
  BY <1>8, ReceiveStreamKeeps
<1>9. CASE Destroy
  BY <1>9, DestroyKeeps
<1>10. CASE UNCHANGED vars
  BY <1>10, StutterKeeps
<1> QED
  BY <1>1, <1>2, <1>3, <1>4, <1>5, <1>6, <1>7, <1>8, <1>9, <1>10 DEF Next

LEMMA ReaderAlways == Spec => []ReaderInv
BY InitIsReader, NextKeeps, PTL DEF Spec

(* Whatever is sent and however it is cut, #chunks, #buffered, #next and   *)
(* #frame keep their types, no more is taken than has arrived, and the     *)
(* frame that is read is one that was sent.                                *)
THEOREM TypeCorrect == Spec => []TypeOK
<1>1. ReaderInv => TypeOK
  <2> SUFFICES ASSUME ReaderInv PROVE TypeOK
    OBVIOUS
  <2>1. TypeInv /\ BufferInv /\ Given
    BY DEF ReaderInv, TypeInv
  <2>2. Holds(chunks, chunkOffset, taken, buffered) /\ arrived = taken + buffered
    BY <2>1 DEF BufferInv
  <2>3. chunks \in Seq(Seq(Nat)) /\ chunkOffset \in Nat /\ buffered \in Nat /\ taken \in Nat
    BY <2>2, HoldsTypes
  <2>4. taken \in 0..arrived
    BY <2>2, <2>3
  <2>5. Total \in Nat
    BY <2>1, TotalIs
  <2>6. arrived \in 0..Total
    BY <2>1, <2>5 DEF TypeInv
  <2>7. scenario \in Scenarios
    BY <2>1 DEF Given
  <2> QED
    BY <2>1, <2>3, <2>4, <2>6, <2>7 DEF TypeInv, TypeOK, Inflate
<1> QED
  BY <1>1, ReaderAlways, PTL

(* However the bytes were cut, and whichever of #read(), #fillScratch() and*)
(* the payload loop took some, the chunks hold what arrived and was not    *)
(* taken, #buffered says how much that is, and no chunk in front is used up.*)
THEOREM BufferCorrect == Spec => []BufferIsTheRest
<1>1. ReaderInv => BufferIsTheRest
  <2> SUFFICES ASSUME ReaderInv PROVE BufferIsTheRest
    OBVIOUS
  <2>1. BufferInv
    BY DEF ReaderInv
  <2>2. Holds(chunks, chunkOffset, taken, buffered) /\ arrived = taken + buffered
    BY <2>1 DEF BufferInv
  <2>3. chunks \in Seq(Seq(Nat)) /\ chunkOffset \in Nat /\ buffered \in Nat /\ taken \in Nat /\ Len(chunks) \in Nat
    BY <2>2, HoldsTypes
  <2>4. buffered = arrived - taken
    BY <2>2, <2>3
  <2>5. buffered = Sizes(chunks)[Len(chunks)] - chunkOffset
    BY <2>2 DEF Holds
  <2>6. ASSUME NEW c \in DOMAIN chunks
        PROVE  chunks[c] = Span(taken - chunkOffset + Sizes(chunks)[c - 1], Len(chunks[c]))
    <3>1. c \in 1..Len(chunks)
      BY <2>3
    <3>2. \A k \in 1..Len(chunks[c]) : chunks[c][k] = taken - chunkOffset + Sizes(chunks)[c - 1] + k
      BY <2>2, <3>1 DEF Holds
    <3>3. PICK x \in Seq(Nat) : x = chunks[c]
      BY <2>3, <3>1
    <3>4. x = [k \in 1..Len(x) |-> x[k]]
      BY <3>3
    <3>5. PICK from : from = taken - chunkOffset + Sizes(chunks)[c - 1]
      OBVIOUS
    <3>6. x = [k \in 1..Len(x) |-> from + k]
      BY <3>2, <3>3, <3>4, <3>5
    <3> QED
      BY <3>3, <3>5, <3>6 DEF Span
  <2>7. IF chunks = <<>> THEN chunkOffset = 0 ELSE chunkOffset < Len(chunks[1])
    <3>1. chunks = <<>> <=> Len(chunks) = 0
      BY <2>3
    <3>2. IF Len(chunks) = 0 THEN chunkOffset = 0 ELSE chunkOffset < Len(chunks[1])
      BY <2>2 DEF Holds
    <3> QED
      BY <3>1, <3>2
  <2> QED
    BY <2>4, <2>5, <2>6, <2>7, SizesOfChunks DEF BufferIsTheRest
<1> QED
  BY <1>1, ReaderAlways, PTL

(* Until the connection fails, what was taken off the buffer is every frame*)
(* before the current one, whole, and of the current one just what #next   *)
(* and payloadConsumed say: a header is read where a frame begins.         *)
THEOREM PositionCorrect == Spec => []PositionInv
<1>1. ReaderInv => PositionInv
  BY DEF ReaderInv
<1> QED
  BY <1>1, ReaderAlways, PTL

-----------------------------------------------------------------------------
(* What the frames mean, one after the other: Decoded is what the last of  *)
(* them leaves.                                                            *)
After ==
  LET after[i \in 0..Len(frames)] == IF i = 0 THEN NothingDecoded ELSE DecodeFrame(after[i - 1], i)
  IN  after

(* What the properties need of a scenario.  With a stream queued, an empty *)
(* message fails and what is piped is not checked; in a compressed message *)
(* the payload of a control frame goes through the inflater, and an empty  *)
(* last frame is not waited for.                                           *)
Usual ==
  \A i \in 1..Len(frames) :
    LET f == frames[i]
    IN  /\ scenario.streams # 0 /\ f.op \in DataOps => f.ok /\ ~(f.op # "continuation" /\ f.fin /\ f.size = 0)
        /\ After[i - 1].open /\ After[i - 1].packed =>
             /\ IsControl(f) => f.size = 0
             /\ f.op = "continuation" /\ f.fin => f.size # 0

Handed(m) == [k \in DOMAIN m.events |-> [op |-> m.events[k].op, data |-> m.events[k].data]]

(* Between two frames, m is what the frames so far mean.                   *)
Between(m, d) ==
  /\ d.verdict = "ok" /\ Handed(m) = d.events /\ m.fragmented = d.open
  /\ IF d.open THEN m.op = d.op /\ m.payload = d.data /\ m.bad = d.bad /\ m.compressed = d.packed
     ELSE ~m.compressed /\ m.stream = 0

(* The message that frame f goes on with, or begins.                       *)
Opened(d, f) ==
  IF f.op = "continuation" THEN d
  ELSE [d EXCEPT !.op = f.op, !.packed = (f.rsv = "rsv1"), !.data = <<>>, !.bad = FALSE]

(* Within data frame i, m has got the first c bytes of its payload.        *)
Within(m, d, i, c) ==
  LET f == frames[i]
      o == Opened(d, f)
  IN  /\ m.op = o.op /\ m.compressed = o.packed /\ m.fragmented = (f.op = "continuation" \/ ~f.fin)
      /\ m.payload = o.data \o Span(HeaderEnd(i), c) /\ m.bad = o.bad
      /\ Handed(m) = d.events

InFrame == inflates # <<>> \/ (msg.outcome = "ok" /\ next = "payload")

(* A frame that is being read is one the peer may send now.                *)
Readable(d, i) ==
  /\ d.verdict = "ok" /\ frames[i].size # Huge /\ frames[i].size > 0 /\ ~Broken(frames[i], d.open)

(* Of the bytes consumed of data frame i the message has c, the inflater   *)
(* holds those up to x and is asked for the others, as q says.             *)
Divided(m, q, h, consumed, i, c, x) ==
  /\ Within(m, After[i - 1], i, c)
  /\ h = Span(HeaderEnd(i) + c, x - c) /\ (h # <<>> => m.compressed)
  /\ IF q = <<>> THEN x = consumed /\ x < frames[i].size
     ELSE /\ m.compressed /\ x < consumed
          /\ q = <<[chunk |-> Span(HeaderEnd(i) + x, consumed - x), final |-> (consumed = frames[i].size),
                    control |-> FALSE, awaited |-> TRUE]>>

(* What has become of m within frame fr.                                   *)
Framed(m, fr, q, h) ==
  LET i == fr.i
  IN  /\ i # 0 /\ Readable(After[i - 1], i) /\ fr.consumed <= frames[i].size
      /\ IF IsControl(frames[i])
         THEN /\ q = <<>> /\ h = <<>> /\ ~m.compressed /\ Between(m, After[i - 1])
              /\ fr.payload = Span(HeaderEnd(i), fr.consumed)
         ELSE \E x \in 0..fr.consumed : \E c \in 0..x : Divided(m, q, h, fr.consumed, i, c, x)

(* Between frames, or before the rest of a header.                         *)
Settled(m, part, fr, h) ==
  /\ h = <<>>
  /\ Between(m, After[IF part = "header2" THEN fr.i - 1 ELSE fr.i])
  /\ part = "header2" => fr.payload = <<>>

(* When the connection was failed or destroyed.                            *)
Over(m) ==
  /\ \E j \in 0..Len(frames) : Handed(m) = After[j].events
  /\ m.outcome # "destroyed" => m.outcome = expected.verdict /\ Handed(m) = expected.events

FrameInv == InFrame => Framed(msg, frame, inflates, held)
BetweenInv == msg.outcome = "ok" /\ ~InFrame => Settled(msg, next, frame, held)
OverInv == msg.outcome # "ok" /\ ~InFrame => Over(msg)

AnswerInv ==
  /\ inflates # <<>> <=> pc = "inflating"
  /\ inflates # <<>> => msg.outcome \in {"ok", "destroyed"}

Count(events, n) == Cardinality({k \in 1..n : IsStreamed(events[k])})

InTurn(events) ==
  \A k \in 1..Len(events) : IsStreamed(events[k]) => events[k].via = Count(events, k)

(* The streams n calls of receiveStream() have queued are used in turn.    *)
StreamsInTurn(m, n) ==
  LET used == Count(m.events, Len(m.events)) + (IF m.stream = 0 THEN 0 ELSE 1)
  IN  /\ InTurn(m.events)
      /\ m.stream \in {0, used}
      /\ \A k \in 1..Len(m.queue) : m.queue[k] = used + k
      /\ n = used + Len(m.queue)

MeaningInv ==
  /\ expected = After[Len(frames)]
  /\ FrameInv /\ BetweenInv /\ OverInv /\ AnswerInv
  /\ StreamsInTurn(msg, calls)

(* The inductive invariant.                                                *)
UsualInv == Usual => MeaningInv

Means(t, n) == t = [i \in 0..n |-> IF i = 0 THEN NothingDecoded ELSE DecodeFrame(t[i - 1], i)]

LEMMA MeansExists ==
  ASSUME NEW n \in Nat
  PROVE  \E t : Means(t, n)
<1> DEFINE bad == {k \in 0..n : ~\E t : Means(t, k)}
<1> SUFFICES ASSUME bad # {} PROVE FALSE
  <2>1. n \in 0..n
    OBVIOUS
  <2> QED
    BY <2>1
<1>1. bad \subseteq Nat
  OBVIOUS
<1>2. PICK m \in bad : \A k \in bad : m <= k
  <2> HIDE DEF bad
  <2> QED
    BY <1>1, Least
<1>3. m \in 0..n /\ ~\E t : Means(t, m)
  BY <1>2
<1>4. CASE m = 0
  <2> DEFINE t == [k \in 0..0 |-> NothingDecoded]
  <2>1. t = [i \in 0..0 |-> IF i = 0 THEN NothingDecoded ELSE DecodeFrame(t[i - 1], i)]
    OBVIOUS
  <2> QED
    BY <1>3, <1>4, <2>1 DEF Means
<1>5. CASE m # 0
  <2>1. m - 1 \in 0..n /\ m - 1 \notin bad
    <3>1. m - 1 \in 0..n /\ ~(m <= m - 1)
      BY <1>3, <1>5
    <3> HIDE DEF bad
    <3> QED
      BY <1>2, <3>1
  <2>2. PICK s : Means(s, m - 1)
    BY <2>1
  <2>3. \A k \in 0..(m - 1) : s[k] = IF k = 0 THEN NothingDecoded ELSE DecodeFrame(s[k - 1], k)
    BY <2>2 DEF Means
  <2> DEFINE t == [k \in 0..m |-> IF k = m THEN DecodeFrame(s[m - 1], m) ELSE s[k]]
  <2>4. ASSUME NEW k \in 0..m
        PROVE  t[k] = IF k = 0 THEN NothingDecoded ELSE DecodeFrame(t[k - 1], k)
    <3>1. CASE k = 0
      <4>1. 0 \in 0..(m - 1) /\ t[0] = s[0]
        BY <1>3, <1>5
      <4> QED
        BY <2>3, <3>1, <4>1
    <3>2. CASE k # 0
      <4>1. k - 1 \in 0..m /\ k - 1 # m
        BY <1>3, <3>2
      <4>2. t[k - 1] = s[k - 1]
        BY <4>1
      <4>3. CASE k = m
        BY <3>2, <4>2, <4>3
      <4>4. CASE k # m
        <5>1. k \in 0..(m - 1) /\ t[k] = s[k]
          BY <1>3, <4>4
        <5>2. s[k] = DecodeFrame(s[k - 1], k)
          BY <2>3, <3>2, <5>1
        <5> HIDE DEF t
        <5> QED
          BY <3>2, <4>2, <5>1, <5>2
      <4> QED
        BY <4>3, <4>4
    <3> QED
      BY <3>1, <3>2
  <2>5. t = [i \in 0..m |-> t[i]]
    OBVIOUS
  <2>6. Means(t, m)
    <3> HIDE DEF t
    <3> QED
      BY <2>4, <2>5 DEF Means
  <2> QED
    BY <1>3, <2>6
<1> QED
  BY <1>4, <1>5

LEMMA AfterIs ==
  ASSUME Given
  PROVE  /\ After[0] = NothingDecoded
         /\ \A i \in 1..Len(frames) : After[i] = DecodeFrame(After[i - 1], i)
<1>1. PICK n \in Nat : n = Len(frames)
  BY ScenarioIs
<1>2. After = CHOOSE t : Means(t, n)
  BY <1>1 DEF After, Means
<1>3. Means(After, n)
  BY <1>2, MeansExists
<1>4. \A i \in 0..n : After[i] = IF i = 0 THEN NothingDecoded ELSE DecodeFrame(After[i - 1], i)
  BY <1>3 DEF Means
<1> QED
  BY <1>1, <1>4

LEMMA DecodedIs ==
  ASSUME Given
  PROVE  Decoded = After[Len(frames)]
BY DEF Decoded, After

(* It is computed of the scenario alone.                                   *)
LEMMA AfterStays ==
  ASSUME Given, UNCHANGED given
  PROVE  After' = After /\ Usual' = Usual
<1>1. scenario' = scenario /\ starts' = starts /\ frames' = frames
  BY GivenStays
<1>2. ASSUME NEW d, NEW i PROVE DecodeFrame(d, i)' = DecodeFrame(d, i)
  BY <1>1 DEF DecodeFrame, Verdict, CloseVerdict, Broken, LegalCode, Payload, Header2Size
<1>3. After' = After
  BY <1>1, <1>2 DEF After
<1>4. Usual' = Usual
  BY <1>1, <1>3 DEF Usual, IsControl
<1> QED
  BY <1>3, <1>4

(* What one frame adds.                                                    *)
Decoding ==
  [open : BOOLEAN, op : {"none", "text", "binary"}, packed : BOOLEAN, data : Seq(Nat), bad : BOOLEAN,
   events : Seq([op : {"none", "text", "binary"} \cup ControlOps, data : Seq(Nat)]),
   verdict : {"ok", "1002", "1007", "1009"}]

LEMMA SpanIs ==
  ASSUME NEW a \in Nat, NEW n \in Nat
  PROVE  Span(a, n) \in Seq(Nat) /\ Len(Span(a, n)) = n /\ \A k \in 1..n : Span(a, n)[k] = a + k
<1>1. Span(a, n) = [k \in 1..n |-> a + k]
  BY DEF Span
<1>2. [k \in 1..n |-> a + k] \in Seq(Nat) /\ Len([k \in 1..n |-> a + k]) = n
  OBVIOUS
<1> QED
  BY <1>1, <1>2

LEMMA HeaderEndIs ==
  ASSUME Given, NEW i \in 1..Len(frames)
  PROVE  /\ HeaderEnd(i) \in Nat /\ starts[i] \in Nat /\ starts[i + 1] \in Nat /\ starts[i] < HeaderEnd(i)
         /\ frames[i].size # Huge => starts[i + 1] = HeaderEnd(i) + frames[i].size
         /\ Payload(i) = Span(HeaderEnd(i), frames[i].size) /\ Payload(i) \in Seq(Nat)
         /\ Len(Payload(i)) = frames[i].size
<1>1. PICK size \in Nat, h \in Nat, s \in Nat : size = frames[i].size /\ h = Header2Size(frames[i]) /\ s = starts[i]
  <2>1. i \in 1..(Len(frames) + 1)
    BY ScenarioIs
  <2> QED
    BY <2>1, FrameIs, StartsAre
<1>2. HeaderEnd(i) = s + 2 + h
  BY <1>1 DEF HeaderEnd
<1>3. starts[i + 1] = s + (2 + h + IF size = Huge THEN 0 ELSE size)
  BY <1>1, FrameIs, StartsAre
<1>4. Payload(i) = Span(HeaderEnd(i), size)
  BY <1>1 DEF Payload, HeaderEnd
<1>5. Payload(i) \in Seq(Nat) /\ Len(Payload(i)) = size
  <2>1. HeaderEnd(i) \in Nat
    BY <1>2
  <2> QED
    BY <1>4, <2>1, SpanIs
<1>6. starts[i + 1] \in Nat /\ HeaderEnd(i) \in Nat /\ s < HeaderEnd(i)
  BY <1>2, <1>3
<1>7. size # Huge => starts[i + 1] = HeaderEnd(i) + size
  BY <1>2, <1>3
<1> QED
  BY <1>1, <1>4, <1>5, <1>6, <1>7

Rejected(d, v) == [d EXCEPT !.verdict = v]
Told(d, op, data) == [d EXCEPT !.events = Append(@, [op |-> op, data |-> data])]
Grown(o, i) == [o EXCEPT !.data = @ \o Payload(i), !.bad = (@ \/ ~frames[i].ok), !.open = ~frames[i].fin]
CloseData(f) == <<IF f.size = 0 THEN 1005 ELSE f.code>>

LEMMA RejectedIs ==
  ASSUME NEW d \in Decoding, NEW v \in {"ok", "1002", "1007", "1009"}
  PROVE  /\ Rejected(d, v) \in Decoding /\ Rejected(d, v).verdict = v
         /\ Rejected(d, v).open = d.open /\ Rejected(d, v).op = d.op /\ Rejected(d, v).bad = d.bad
         /\ Rejected(d, v).events = d.events
BY DEF Rejected, Decoding

LEMMA ToldIs ==
  ASSUME NEW d \in Decoding, NEW op \in {"none", "text", "binary"} \cup ControlOps, NEW data \in Seq(Nat)
  PROVE  /\ Told(d, op, data) \in Decoding /\ Told(d, op, data).verdict = d.verdict
         /\ Told(d, op, data).open = d.open /\ Told(d, op, data).op = d.op /\ Told(d, op, data).bad = d.bad
         /\ Told(d, op, data).data = d.data /\ Told(d, op, data).packed = d.packed
         /\ Told(d, op, data).events = Append(d.events, [op |-> op, data |-> data])
<1> DEFINE Ev == [op : {"none", "text", "binary"} \cup ControlOps, data : Seq(Nat)]
<1>1. PICK x \in Ev : x = [op |-> op, data |-> data]
  OBVIOUS
<1>2. d.events \in Seq(Ev)
  BY DEF Decoding
<1>3. PICK s \in Seq(Ev) : s = Append(d.events, x)
  <2>1. Append(d.events, x) \in Seq(Ev)
    BY <1>2, AppendProperties
  <2> QED
    BY <2>1
<1>4. PICK e : e = [d EXCEPT !.events = s]
  OBVIOUS
<1>5. /\ e \in Decoding /\ e.open = d.open /\ e.op = d.op /\ e.bad = d.bad /\ e.events = s
      /\ e.verdict = d.verdict /\ e.data = d.data /\ e.packed = d.packed
  BY <1>2, <1>3, <1>4 DEF Decoding
<1>6. e = Told(d, op, data)
  BY <1>1, <1>2, <1>3, <1>4 DEF Decoding, Told
<1> QED
  BY <1>1, <1>3, <1>5, <1>6

LEMMA GrownIs ==
  ASSUME Given, NEW o \in Decoding, NEW i \in 1..Len(frames)
  PROVE  /\ Grown(o, i) \in Decoding /\ Grown(o, i).verdict = o.verdict /\ Grown(o, i).op = o.op
         /\ Grown(o, i).packed = o.packed /\ Grown(o, i).events = o.events
         /\ Grown(o, i).open = ~frames[i].fin /\ Grown(o, i).bad = (o.bad \/ ~frames[i].ok)
         /\ Grown(o, i).data = o.data \o Payload(i) /\ o.data \o Payload(i) \in Seq(Nat)
<1>1. PICK data \in Seq(Nat) : data = o.data \o Payload(i)
  <2>1. Payload(i) \in Seq(Nat) /\ o.data \in Seq(Nat)
    BY HeaderEndIs DEF Decoding
  <2>2. o.data \o Payload(i) \in Seq(Nat)
    BY <2>1, ConcatProperties
  <2> QED
    BY <2>2
<1>2. PICK f \in FrameType : f = frames[i]
  BY FrameIs
<1>3. f.ok \in BOOLEAN /\ f.fin \in BOOLEAN
  BY DEF FrameType
<1>4. Grown(o, i) = [o EXCEPT !.data = data, !.bad = (@ \/ ~f.ok), !.open = ~f.fin]
  BY <1>1, <1>2 DEF Grown
<1>5. PICK g : g = Grown(o, i)
  OBVIOUS
<1>6. /\ g \in Decoding /\ g.verdict = o.verdict /\ g.op = o.op /\ g.packed = o.packed /\ g.events = o.events
      /\ g.open = ~f.fin /\ g.bad = (o.bad \/ ~f.ok) /\ g.data = data
  BY <1>3, <1>4, <1>5 DEF Decoding
<1> QED
  BY <1>1, <1>2, <1>5, <1>6

LEMMA DecodeStopped ==
  ASSUME NEW d, d.verdict # "ok", NEW i
  PROVE  DecodeFrame(d, i) = d
BY DEF DecodeFrame

LEMMA DecodeWrong ==
  ASSUME NEW d, d.verdict = "ok", NEW i, frames[i].size = Huge \/ Broken(frames[i], d.open)
  PROVE  DecodeFrame(d, i) = Rejected(d, IF frames[i].size = Huge THEN "1009" ELSE "1002")
<1>1. \A g : Verdict(frames[i], d, g) = IF frames[i].size = Huge THEN "1009" ELSE "1002"
  BY DEF Verdict
<1> QED
  BY <1>1 DEF DecodeFrame, Rejected

LEMMA DecodeControl ==
  ASSUME NEW d, d.verdict = "ok", NEW i, frames[i].size # Huge, ~Broken(frames[i], d.open),
         IsControl(frames[i])
  PROVE  DecodeFrame(d, i) =
           IF frames[i].op # "close" THEN Told(d, frames[i].op, Payload(i))
           ELSE IF CloseVerdict(frames[i]) # "ok" THEN Rejected(d, CloseVerdict(frames[i]))
           ELSE Told(d, "close", CloseData(frames[i]))
<1>1. \A g : Verdict(frames[i], d, g) = IF frames[i].op = "close" THEN CloseVerdict(frames[i]) ELSE "ok"
  BY DEF Verdict
<1>2. CASE frames[i].op # "close"
  BY <1>1, <1>2 DEF DecodeFrame, Told
<1>3. CASE frames[i].op = "close" /\ CloseVerdict(frames[i]) = "ok"
  BY <1>1, <1>3 DEF DecodeFrame, Told, CloseData
<1>4. CASE frames[i].op = "close" /\ CloseVerdict(frames[i]) # "ok"
  BY <1>1, <1>4 DEF DecodeFrame, Rejected
<1> QED
  BY <1>2, <1>3, <1>4

(* The verdict on a data frame of the message o.                           *)
DataVerdict(o, f) ==
  IF o.op = "text" /\ (o.bad \/ ~f.ok) /\ (f.fin \/ scenario.failFast) THEN "1007"
  ELSE IF o.op = "binary" /\ o.packed /\ ~f.ok THEN "1002" ELSE "ok"

LEMMA OpenedIs ==
  ASSUME Given, NEW d \in Decoding, d.open => d.op # "none", NEW i \in 1..Len(frames),
         ~Broken(frames[i], d.open), ~IsControl(frames[i])
  PROVE  /\ Opened(d, frames[i]) \in Decoding /\ Opened(d, frames[i]).op \in {"text", "binary"}
         /\ Opened(d, frames[i]).events = d.events /\ Opened(d, frames[i]).verdict = d.verdict
         /\ frames[i].op \in DataOps /\ (frames[i].op = "continuation" <=> d.open)
<1>1. PICK f \in FrameType : f = frames[i]
  BY FrameIs
<1>2. f.op \in DataOps
  BY <1>1 DEF FrameType, Broken, IsControl
<1>3. f.op = "continuation" <=> d.open
  <2>1. (f.op = "continuation") = d.open
    BY <1>1, <1>2 DEF Broken
  <2> QED
    BY <2>1
<1>4. CASE f.op = "continuation"
  <2>1. Opened(d, f) = d
    BY <1>4 DEF Opened
  <2>2. d.op \in {"text", "binary"}
    BY <1>3, <1>4 DEF Decoding
  <2> QED
    BY <1>1, <1>2, <1>3, <2>1, <2>2
<1>5. CASE f.op # "continuation"
  <2>1. f.op \in {"text", "binary"}
    BY <1>2, <1>5 DEF DataOps
  <2>2. Opened(d, f) = [d EXCEPT !.op = f.op, !.packed = (f.rsv = "rsv1"), !.data = <<>>, !.bad = FALSE]
    BY <1>5 DEF Opened
  <2>3. <<>> \in Seq(Nat)
    OBVIOUS
  <2>4. Opened(d, f) \in Decoding /\ Opened(d, f).op = f.op
        /\ Opened(d, f).events = d.events /\ Opened(d, f).verdict = d.verdict
    BY <2>1, <2>2, <2>3 DEF Decoding
  <2> QED
    BY <1>1, <1>2, <1>3, <2>1, <2>4
<1> QED
  BY <1>4, <1>5

LEMMA DecodeData ==
  ASSUME Given, NEW d, d.verdict = "ok", NEW i \in 1..Len(frames), frames[i].size # Huge,
         ~Broken(frames[i], d.open), ~IsControl(frames[i]),
         NEW o \in Decoding, o = Opened(d, frames[i])
  PROVE  DecodeFrame(d, i) =
           IF DataVerdict(o, frames[i]) # "ok" THEN Rejected(d, DataVerdict(o, frames[i]))
           ELSE IF frames[i].fin THEN Told(Grown(o, i), o.op, o.data \o Payload(i))
           ELSE Grown(o, i)
<1>1. PICK f : f = frames[i]
  OBVIOUS
<1>2. PICK g : g = Grown(o, i)
  OBVIOUS
<1>3. g.op = o.op /\ g.packed = o.packed /\ g.data = o.data \o Payload(i) /\ g.bad = (o.bad \/ ~f.ok)
  BY <1>1, <1>2, GrownIs
<1>4. Verdict(f, d, g) = DataVerdict(o, f)
  BY <1>1, <1>3 DEF Verdict, DataVerdict
<1>5. f.op # "close"
  BY <1>1 DEF IsControl, ControlOps
<1>6. g = [Opened(d, f) EXCEPT !.data = @ \o Payload(i), !.bad = (@ \/ ~f.ok), !.open = ~f.fin]
  BY <1>1, <1>2 DEF Grown
<1>7. DecodeFrame(d, i) =
        IF Verdict(f, d, g) # "ok" THEN Rejected(d, Verdict(f, d, g))
        ELSE IF f.fin THEN Told(g, g.op, g.data) ELSE g
  BY <1>1, <1>5, <1>6 DEF DecodeFrame, Opened, Rejected, Told
<1> QED
  BY <1>1, <1>2, <1>3, <1>4, <1>7

LEMMA UsualIs ==
  ASSUME Usual, NEW i \in 1..Len(frames)
  PROVE  /\ scenario.streams # 0 /\ frames[i].op \in DataOps =>
              frames[i].ok /\ ~(frames[i].op # "continuation" /\ frames[i].fin /\ frames[i].size = 0)
         /\ After[i - 1].open /\ After[i - 1].packed =>
              /\ IsControl(frames[i]) => frames[i].size = 0
              /\ frames[i].op = "continuation" /\ frames[i].fin => frames[i].size # 0
BY DEF Usual

(* An open message is a text or binary one and, where that would have been *)
(* noticed or is not checked, a valid one.                                 *)
Meaningful(d) ==
  /\ d \in Decoding
  /\ d.open => d.op # "none"
  /\ d.verdict = "ok" /\ d.open /\ d.op = "text" /\ scenario.failFast => ~d.bad
  /\ Usual /\ scenario.streams # 0 /\ d.open => ~d.bad

Follows(d, e) ==
  e.events = d.events \/ \E x : e.events = Append(d.events, x)

LEMMA RejectedMeaningful ==
  ASSUME NEW d, Meaningful(d), NEW v \in {"ok", "1002", "1007", "1009"}, v # "ok"
  PROVE  Meaningful(Rejected(d, v)) /\ Follows(d, Rejected(d, v))
<1>1. PICK e : e = Rejected(d, v)
  OBVIOUS
<1>2. d \in Decoding
  BY DEF Meaningful
<1>3. e \in Decoding /\ e.open = d.open /\ e.op = d.op /\ e.bad = d.bad /\ e.events = d.events /\ e.verdict = v
  BY <1>1, <1>2, RejectedIs
<1>4. Meaningful(e)
  BY <1>3 DEF Meaningful
<1> QED
  BY <1>1, <1>3, <1>4 DEF Follows

LEMMA ToldMeaningful ==
  ASSUME NEW d, Meaningful(d), NEW op \in {"none", "text", "binary"} \cup ControlOps, NEW data \in Seq(Nat)
  PROVE  Meaningful(Told(d, op, data)) /\ Follows(d, Told(d, op, data))
<1>1. PICK e : e = Told(d, op, data)
  OBVIOUS
<1>2. d \in Decoding
  BY DEF Meaningful
<1>3. /\ e \in Decoding /\ e.open = d.open /\ e.op = d.op /\ e.bad = d.bad /\ e.verdict = d.verdict
      /\ e.events = Append(d.events, [op |-> op, data |-> data])
  BY <1>1, <1>2, ToldIs
<1>4. Meaningful(e)
  BY <1>3 DEF Meaningful
<1> QED
  BY <1>1, <1>3, <1>4 DEF Follows

LEMMA CloseVerdictIs ==
  ASSUME NEW f
  PROVE  CloseVerdict(f) \in {"ok", "1002", "1007", "1009"}
BY DEF CloseVerdict

LEMMA CloseDataIs ==
  ASSUME NEW f, f.code \in Nat
  PROVE  CloseData(f) \in Seq(Nat)
<1>1. PICK code \in Nat : code = IF f.size = 0 THEN 1005 ELSE f.code
  OBVIOUS
<1>2. CloseData(f) = <<code>>
  BY <1>1 DEF CloseData
<1> QED
  BY <1>2

LEMMA DataMeaningful ==
  ASSUME Given, NEW d, Meaningful(d), d.verdict = "ok", NEW i \in 1..Len(frames), frames[i].size # Huge,
         ~Broken(frames[i], d.open), ~IsControl(frames[i])
  PROVE  Meaningful(DecodeFrame(d, i)) /\ Follows(d, DecodeFrame(d, i))
<1>1. PICK f : f = frames[i]
  OBVIOUS
<1>2. d \in Decoding /\ (d.open => d.op # "none")
  BY DEF Meaningful
<1>3. /\ Opened(d, f) \in Decoding /\ Opened(d, f).op \in {"text", "binary"}
      /\ Opened(d, f).events = d.events /\ Opened(d, f).verdict = d.verdict
      /\ f.op \in DataOps /\ (f.op = "continuation" <=> d.open)
  BY <1>1, <1>2, OpenedIs
<1>4. PICK o \in Decoding : o = Opened(d, f) /\ o.op \in {"text", "binary"} /\ o.events = d.events /\ o.verdict = "ok"
  BY <1>3
<1>5. o = Opened(d, frames[i])
  BY <1>1, <1>4
<1>6. DecodeFrame(d, i) =
        IF DataVerdict(o, f) # "ok" THEN Rejected(d, DataVerdict(o, f))
        ELSE IF f.fin THEN Told(Grown(o, i), o.op, o.data \o Payload(i)) ELSE Grown(o, i)
  BY <1>1, <1>5, DecodeData
<1>7. CASE DataVerdict(o, f) # "ok"
  <2>1. PICK v \in {"ok", "1002", "1007", "1009"} : v = DataVerdict(o, f) /\ v # "ok"
    BY <1>7 DEF DataVerdict
  <2>2. DecodeFrame(d, i) = Rejected(d, v)
    BY <1>6, <2>1
  <2> QED
    BY <2>1, <2>2, RejectedMeaningful
<1>8. CASE DataVerdict(o, f) = "ok"
  <2>1. PICK g : g = Grown(o, i)
    OBVIOUS
  <2>2. /\ g \in Decoding /\ g.verdict = "ok" /\ g.op = o.op /\ g.events = d.events /\ g.open = ~f.fin
        /\ g.bad = (o.bad \/ ~f.ok) /\ o.data \o Payload(i) \in Seq(Nat)
    BY <1>1, <1>4, <2>1, GrownIs
  <2>3. Meaningful(g)
    <3>1. g.open /\ g.op = "text" /\ scenario.failFast => ~g.bad
      BY <1>8, <2>2 DEF DataVerdict
    <3>2. Usual /\ scenario.streams # 0 => ~g.bad
      <4> HAVE Usual /\ scenario.streams # 0
      <4>1. f.ok
        BY <1>1, <1>3, UsualIs
      <4>2. ~o.bad
        <5>1. CASE f.op = "continuation"
          <6>1. o = d /\ d.open
            BY <1>3, <1>4, <5>1 DEF Opened
          <6> QED
            BY <6>1 DEF Meaningful
        <5>2. CASE f.op # "continuation"
          BY <1>2, <1>4, <5>2 DEF Opened, Decoding
        <5> QED
          BY <5>1, <5>2
      <4> QED
        BY <2>2, <4>1, <4>2
    <3>3. g.op # "none"
      BY <1>4, <2>2
    <3> QED
      BY <2>2, <3>1, <3>2, <3>3 DEF Meaningful
  <2>4. CASE f.fin
    <3>1. PICK op \in {"none", "text", "binary"} \cup ControlOps, data \in Seq(Nat) :
            op = o.op /\ data = o.data \o Payload(i)
      BY <1>4, <2>2
    <3>2. DecodeFrame(d, i) = Told(g, op, data)
      BY <1>6, <1>8, <2>1, <2>4, <3>1
    <3>3. Meaningful(DecodeFrame(d, i)) /\ Follows(g, DecodeFrame(d, i))
      BY <2>3, <3>2, ToldMeaningful
    <3> QED
      BY <2>2, <3>3 DEF Follows
  <2>5. CASE ~f.fin
    <3>1. DecodeFrame(d, i) = g
      BY <1>6, <1>8, <2>1, <2>5
    <3> QED
      BY <2>2, <2>3, <3>1 DEF Follows
  <2> QED
    BY <2>4, <2>5
<1> QED
  BY <1>7, <1>8

LEMMA DecodeMeaningful ==
  ASSUME Given, NEW d, Meaningful(d), NEW i \in 1..Len(frames)
  PROVE  Meaningful(DecodeFrame(d, i)) /\ Follows(d, DecodeFrame(d, i))
<1>1. PICK f \in FrameType : f = frames[i]
  BY FrameIs
<1>2. d \in Decoding
  BY DEF Meaningful
<1>3. CASE d.verdict # "ok"
  BY <1>2, <1>3, DecodeStopped DEF Follows
<1>4. CASE d.verdict = "ok" /\ (f.size = Huge \/ Broken(f, d.open))
  <2>1. PICK v : v = IF f.size = Huge THEN "1009" ELSE "1002"
    OBVIOUS
  <2>2. DecodeFrame(d, i) = Rejected(d, v)
    BY <1>1, <1>2, <1>4, <2>1, DecodeWrong
  <2>3. v \in {"ok", "1002", "1007", "1009"} /\ v # "ok"
    BY <2>1
  <2> QED
    BY <2>2, <2>3, RejectedMeaningful
<1>5. CASE d.verdict = "ok" /\ f.size # Huge /\ ~Broken(f, d.open) /\ IsControl(f)
  <2>1. DecodeFrame(d, i) =
          IF f.op # "close" THEN Told(d, f.op, Payload(i))
          ELSE IF CloseVerdict(f) # "ok" THEN Rejected(d, CloseVerdict(f)) ELSE Told(d, "close", CloseData(f))
    BY <1>1, <1>2, <1>5, DecodeControl
  <2>2. Payload(i) \in Seq(Nat) /\ f.op \in ControlOps /\ "close" \in ControlOps /\ CloseData(f) \in Seq(Nat)
    <3>1. f.code \in Nat
      BY DEF FrameType
    <3>2. f.op \in ControlOps /\ "close" \in ControlOps
      BY <1>5 DEF IsControl, ControlOps
    <3> QED
      BY <3>1, <3>2, HeaderEndIs, CloseDataIs
  <2>3. CASE f.op # "close"
    BY <2>1, <2>2, <2>3, ToldMeaningful
  <2>4. CASE f.op = "close" /\ CloseVerdict(f) # "ok"
    BY <2>1, <2>4, CloseVerdictIs, RejectedMeaningful
  <2>5. CASE f.op = "close" /\ CloseVerdict(f) = "ok"
    BY <2>1, <2>2, <2>5, ToldMeaningful
  <2> QED
    BY <2>3, <2>4, <2>5
<1>6. CASE d.verdict = "ok" /\ f.size # Huge /\ ~Broken(f, d.open) /\ ~IsControl(f)
  BY <1>1, <1>6, DataMeaningful
<1> QED
  BY <1>3, <1>4, <1>5, <1>6

LEMMA AfterMeaningful ==
  ASSUME Given
  PROVE  \A i \in 0..Len(frames) : Meaningful(After[i])
<1>1. PICK n \in Nat : n = Len(frames)
  BY ScenarioIs
<1> DEFINE bad == {i \in 0..n : ~Meaningful(After[i])}
<1> SUFFICES ASSUME bad # {} PROVE FALSE
  BY <1>1
<1>2. bad \subseteq Nat
  OBVIOUS
<1>3. PICK m \in bad : \A k \in bad : m <= k
  <2> HIDE DEF bad
  <2> QED
    BY <1>2, Least
<1>4. m \in 0..n /\ ~Meaningful(After[m])
  BY <1>3
<1>5. CASE m = 0
  <2>1. After[0] = NothingDecoded
    BY AfterIs
  <2>2. Meaningful(NothingDecoded)
    <3>1. <<>> \in Seq(Nat) /\ <<>> \in Seq([op : {"none", "text", "binary"} \cup ControlOps, data : Seq(Nat)])
      OBVIOUS
    <3>2. NothingDecoded \in Decoding
      BY <3>1 DEF NothingDecoded, Decoding
    <3>3. ~NothingDecoded.open
      BY DEF NothingDecoded
    <3> QED
      BY <3>2, <3>3 DEF Meaningful
  <2> QED
    BY <1>4, <1>5, <2>1, <2>2
<1>6. CASE m # 0
  <2>1. m \in 1..Len(frames) /\ m - 1 \in 0..n /\ ~(m <= m - 1)
    BY <1>1, <1>4, <1>6
  <2>2. Meaningful(After[m - 1])
    <3>1. m - 1 \notin bad
      <4> HIDE DEF bad
      <4> QED
        BY <1>3, <2>1
    <3> QED
      BY <2>1, <3>1
  <2>3. Meaningful(DecodeFrame(After[m - 1], m))
    BY <2>1, <2>2, DecodeMeaningful
  <2> QED
    BY <1>4, <2>1, <2>3, AfterIs
<1> QED
  BY <1>5, <1>6

Begins(s, t) == Len(s) <= Len(t) /\ \A k \in 1..Len(s) : s[k] = t[k]

LEMMA FollowsBegins ==
  ASSUME NEW d \in Decoding, NEW e \in Decoding, Follows(d, e)
  PROVE  Begins(d.events, e.events)
<1>1. CASE e.events = d.events
  <2>1. Len(d.events) \in Nat
    BY DEF Decoding
  <2> QED
    BY <1>1, <2>1 DEF Begins
<1>2. CASE \E x : e.events = Append(d.events, x)
  <2> DEFINE Ev == [op : {"none", "text", "binary"} \cup ControlOps, data : Seq(Nat)]
  <2>0. PICK s \in Seq(Ev) : s = d.events
    BY DEF Decoding
  <2>1. PICK x : e.events = Append(s, x)
    BY <1>2, <2>0
  <2> HIDE DEF Ev
  <2>2. Append(s, x) \in Seq(Ev \cup {x}) /\ Len(Append(s, x)) = Len(s) + 1
        /\ \A k \in 1..Len(s) : Append(s, x)[k] = s[k]
    <3>1. s \in Seq(Ev \cup {x}) /\ x \in Ev \cup {x}
      OBVIOUS
    <3> QED
      BY <3>1, AppendProperties
  <2>3. Len(s) \in Nat
    OBVIOUS
  <2>4. Len(s) <= Len(Append(s, x))
    BY <2>2, <2>3
  <2> QED
    BY <2>0, <2>1, <2>2, <2>4 DEF Begins
<1> QED
  BY <1>1, <1>2 DEF Follows

(* What was handed over after one frame is the beginning of what is after  *)
(* any later one, and nothing follows a wrong one.                         *)
LEMMA AfterBegins ==
  ASSUME Given, NEW i \in 0..Len(frames), NEW j \in i..Len(frames)
  PROVE  Begins(After[i].events, After[j].events) /\ (After[i].verdict # "ok" => After[j] = After[i])
<1>1. PICK n \in Nat : n = Len(frames)
  BY ScenarioIs
<1> DEFINE Later(k) == Begins(After[i].events, After[k].events) /\ (After[i].verdict # "ok" => After[k] = After[i])
           bad == {k \in i..n : ~Later(k)}
<1> SUFFICES ASSUME bad # {} PROVE FALSE
  BY <1>1
<1>2. bad \subseteq Nat
  BY <1>1
<1>3. PICK m \in bad : \A k \in bad : m <= k
  <2> HIDE DEF bad
  <2> QED
    BY <1>2, Least
<1>4. m \in i..n /\ ~Later(m)
  BY <1>3
<1>5. \A k \in 0..n : After[k] \in Decoding /\ Len(After[k].events) \in Nat
  <2> TAKE k \in 0..n
  <2>1. After[k] \in Decoding
    BY <1>1, AfterMeaningful DEF Meaningful
  <2> QED
    BY <2>1 DEF Decoding
<1>6. m # i
  <2>1. Begins(After[i].events, After[i].events)
    BY <1>1, <1>5 DEF Begins
  <2> QED
    BY <1>4, <2>1
<1>7. m - 1 \in i..n /\ ~(m <= m - 1) /\ m \in 1..Len(frames) /\ m - 1 \in 0..n /\ m \in 0..n /\ i \in 0..n
  BY <1>1, <1>4, <1>6
<1>8. Later(m - 1)
  <2>1. m - 1 \notin bad
    <3> HIDE DEF bad
    <3> QED
      BY <1>3, <1>7
  <2> QED
    BY <1>7, <2>1
<1>9. PICK d, e, a : d = After[m - 1] /\ e = After[m] /\ a = After[i]
  OBVIOUS
<1>10. e = DecodeFrame(d, m) /\ d \in Decoding /\ e \in Decoding /\ a \in Decoding
  BY <1>5, <1>7, <1>9, AfterIs
<1>11. Meaningful(d)
  BY <1>1, <1>7, <1>9, AfterMeaningful
<1>12. Begins(d.events, e.events)
  <2>1. Follows(d, e)
    BY <1>7, <1>10, <1>11, DecodeMeaningful
  <2> QED
    BY <1>10, <2>1, FollowsBegins
<1>13. Begins(a.events, e.events)
  <2>1. PICK la \in Nat, ld \in Nat, le \in Nat :
          la = Len(a.events) /\ ld = Len(d.events) /\ le = Len(e.events)
    BY <1>5, <1>7, <1>9
  <2>2. la <= ld /\ ld <= le
    BY <1>8, <1>9, <1>12, <2>1 DEF Begins
  <2>3. la <= le /\ \A k \in 1..la : k \in 1..ld
    BY <2>2
  <2>4. \A k \in 1..la : a.events[k] = e.events[k]
    BY <1>8, <1>9, <1>12, <2>1, <2>3 DEF Begins
  <2> QED
    BY <2>1, <2>3, <2>4 DEF Begins
<1>14. a.verdict # "ok" => e = a
  BY <1>8, <1>9, <1>10, DecodeStopped
<1> QED
  BY <1>4, <1>9, <1>13, <1>14

LEMMA BeginsPrefix ==
  ASSUME NEW s, NEW t, Len(s) \in Nat, Begins(s, t)
  PROVE  IsPrefix(s, t)
BY SameSlice DEF Begins, IsPrefix

-----------------------------------------------------------------------------
(* The bytes of a frame, and which of them tells that it is invalid.       *)
LEMMA SpanConcat ==
  ASSUME NEW a \in Nat, NEW n \in Nat, NEW m \in Nat
  PROVE  Span(a, n) \o Span(a + n, m) = Span(a, n + m)
<1>1. PICK b \in Nat, l \in Nat : b = a + n /\ l = n + m
  OBVIOUS
<1>2. PICK s \in Seq(Nat), t \in Seq(Nat), u \in Seq(Nat) : s = Span(a, n) /\ t = Span(b, m) /\ u = Span(a, l)
  BY SpanIs
<1>3. Len(s) = n /\ Len(t) = m /\ Len(u) = l
  BY <1>2, SpanIs
<1>4. /\ \A k \in 1..n : s[k] = a + k
      /\ \A k \in 1..m : t[k] = b + k
      /\ \A k \in 1..l : u[k] = a + k
  BY <1>2, SpanIs
<1>5. PICK v : v = s \o t
  OBVIOUS
<1>6. v \in Seq(Nat) /\ Len(v) = l /\ \A k \in 1..l : v[k] = IF k <= n THEN s[k] ELSE t[k - n]
  <2>1. \A k \in 1..(Len(s) + Len(t)) : v[k] = IF k <= Len(s) THEN s[k] ELSE t[k - Len(s)]
    BY <1>5, ConcatProperties
  <2> QED
    BY <1>1, <1>3, <1>5, <2>1, ConcatProperties
<1>7. ASSUME NEW k \in 1..l PROVE v[k] = u[k]
  <2>1. CASE k <= n
    <3>1. k \in 1..n
      BY <2>1
    <3> QED
      BY <1>4, <1>6, <2>1, <3>1
  <2>2. CASE ~(k <= n)
    <3>1. k - n \in 1..m /\ b + (k - n) = a + k
      BY <1>1, <2>2
    <3>2. v[k] = t[k - n] /\ t[k - n] = b + (k - n) /\ u[k] = a + k
      BY <1>4, <1>6, <2>2, <3>1
    <3> QED
      BY <3>1, <3>2
  <2> QED
    BY <2>1, <2>2
<1>8. v = u
  BY <1>2, <1>3, <1>6, <1>7, SeqEqual
<1> QED
  BY <1>1, <1>2, <1>5, <1>8

LEMMA BadIs ==
  ASSUME Given, NEW i \in 1..Len(frames), frames[i].size # Huge, NEW c \in Nat, NEW n \in Nat,
         c + n <= frames[i].size
  PROVE  Bad(Span(HeaderEnd(i) + c, n)) <=> ~frames[i].ok /\ n # 0 /\ c + n = frames[i].size
<1>1. PICK e \in Nat, size \in Nat, s \in Nat, t \in Nat :
        /\ e = HeaderEnd(i) /\ size = frames[i].size /\ s = starts[i] /\ t = starts[i + 1]
        /\ s < e /\ t = e + size
  <2>1. PICK size \in Nat : size = frames[i].size
    BY FrameIs
  <2> QED
    BY <2>1, HeaderEndIs
<1>a. c + n <= size /\ \A k \in 1..n : c + k <= size /\ (c + k = size => n # 0 /\ c + n = size)
  <2>1. c + n <= size
    BY <1>1
  <2> QED
    BY <2>1
<1>2. PICK x : x = Span(e + c, n)
  OBVIOUS
<1>3. Len(x) = n /\ \A k \in 1..n : x[k] = e + c + k
  <2>1. e + c \in Nat
    OBVIOUS
  <2> QED
    BY <1>2, <2>1, SpanIs
<1>4. DOMAIN frames = 1..Len(frames) /\ Len(frames) \in Nat
  BY ScenarioIs
<1>5. ASSUME NEW j \in 1..Len(frames) PROVE Contains(x, starts[j + 1]) <=> j = i /\ n # 0 /\ c + n = size
  <2>1. PICK u \in Nat : u = starts[j + 1]
    <3>1. j + 1 \in 1..(Len(frames) + 1)
      BY <1>4
    <3> QED
      BY <3>1, StartsAre
  <2>2. Contains(x, u) <=> \E k \in 1..n : e + c + k = u
    BY <1>3 DEF Contains
  <2>3. CASE j = i
    <3>1. u = e + size
      BY <1>1, <2>1, <2>3
    <3>2. (\E k \in 1..n : e + c + k = u) <=> n # 0 /\ c + n = size
      <4>1. ASSUME NEW k \in 1..n, e + c + k = u PROVE n # 0 /\ c + n = size
        <5>1. c + k = size
          BY <3>1, <4>1
        <5> QED
          BY <1>a, <5>1
      <4>2. ASSUME n # 0, c + n = size PROVE \E k \in 1..n : e + c + k = u
        <5>1. n \in 1..n /\ e + c + n = u
          BY <3>1, <4>2
        <5> QED
          BY <5>1
      <4> QED
        BY <4>1, <4>2
    <3> QED
      BY <2>1, <2>2, <2>3, <3>2
  <2>4. CASE j < i
    <3>1. u <= s
      <4>1. j + 1 \in 1..(Len(frames) + 1) /\ i \in 1..(Len(frames) + 1) /\ (j + 1 = i \/ j + 1 < i)
        BY <1>4, <2>4
      <4>2. u = s \/ u < s
        BY <1>1, <2>1, <4>1, StartsAre
      <4> QED
        BY <4>2
    <3>2. ~\E k \in 1..n : e + c + k = u
      <4> SUFFICES ASSUME NEW k \in 1..n, e + c + k = u PROVE FALSE
        OBVIOUS
      <4> QED
        BY <1>1, <3>1, SMTT(60)
    <3> QED
      BY <2>1, <2>2, <2>4, <3>2
  <2>5. CASE i < j
    <3>1. t < u
      <4>1. j + 1 \in 1..(Len(frames) + 1) /\ i + 1 \in 1..(Len(frames) + 1) /\ i + 1 < j + 1
        BY <1>4, <2>5
      <4> QED
        BY <1>1, <2>1, <4>1, StartsAre
    <3>2. ~\E k \in 1..n : e + c + k = u
      <4> SUFFICES ASSUME NEW k \in 1..n, e + c + k = u PROVE FALSE
        OBVIOUS
      <4>1. c + k <= size
        BY <1>a
      <4>2. e + c + k <= t
        BY <1>1, <4>1, SMTT(60)
      <4> QED
        BY <3>1, <4>2
    <3> QED
      BY <2>1, <2>2, <2>5, <3>2
  <2> QED
    BY <2>3, <2>4, <2>5
<1>6. Bad(x) <=> \E j \in 1..Len(frames) : ~frames[j].ok /\ Contains(x, starts[j + 1])
  BY <1>4 DEF Bad
<1>7. Bad(x) <=> ~frames[i].ok /\ n # 0 /\ c + n = size
  BY <1>5, <1>6
<1> QED
  BY <1>1, <1>2, <1>7

LEMMA PartIs ==
  ASSUME Given, NEW i \in 1..Len(frames), NEW c \in Nat, NEW n \in Nat
  PROVE  /\ Span(HeaderEnd(i), c) \in Seq(Nat) /\ Span(HeaderEnd(i) + c, n) \in Seq(Nat)
         /\ Len(Span(HeaderEnd(i) + c, n)) = n
         /\ Span(HeaderEnd(i), c) \o Span(HeaderEnd(i) + c, n) = Span(HeaderEnd(i), c + n)
<1>1. PICK e \in Nat : e = HeaderEnd(i)
  BY HeaderEndIs
<1>2. e + c \in Nat
  OBVIOUS
<1> QED
  BY <1>1, <1>2, SpanIs, SpanConcat, ZenonT(60)

(* Nothing is invalid of an empty frame.                                   *)
LEMMA InvalidHasBytes ==
  ASSUME Given, NEW i \in 1..Len(frames), ~frames[i].ok
  PROVE  frames[i].size > 0
BY ReaderAssumption, ScenarioIs DEF Given, frames

-----------------------------------------------------------------------------
(* What the methods make of a message, field by field.                     *)
LEMMA HandedSame ==
  ASSUME NEW m, NEW v, v.events = m.events
  PROVE  Handed(v) = Handed(m)
BY DEF Handed

LEMMA FailIs ==
  ASSUME NEW m \in Message, NEW code \in Outcomes
  PROVE  /\ Fail(m, code) \in Message
         /\ Fail(m, code).outcome = (IF m.outcome = "ok" THEN code ELSE m.outcome)
         /\ Fail(m, code).events = m.events /\ Fail(m, code).stream = m.stream /\ Fail(m, code).queue = m.queue
         /\ Handed(Fail(m, code)) = Handed(m)
<1>1. PICK v : v = Fail(m, code)
  OBVIOUS
<1>2. CASE m.outcome = "ok"
  <2>1. v = [m EXCEPT !.outcome = code]
    BY <1>1, <1>2 DEF Fail
  <2>2. v \in Message /\ v.outcome = code /\ v.events = m.events /\ v.stream = m.stream /\ v.queue = m.queue
    BY <2>1 DEF Message
  <2> QED
    BY <1>1, <1>2, <2>2, HandedSame
<1>3. CASE m.outcome # "ok"
  <2>1. v = m
    BY <1>1, <1>3 DEF Fail
  <2> QED
    BY <1>1, <1>3, <2>1
<1> QED
  BY <1>2, <1>3

LEMMA EmitIs ==
  ASSUME NEW m \in Message, NEW op \in {"none", "text", "binary"} \cup ControlOps, NEW data \in Seq(Nat), NEW via \in Nat
  PROVE  /\ Emit(m, op, data, via) \in Message
         /\ Emit(m, op, data, via).outcome = m.outcome /\ Emit(m, op, data, via).op = m.op
         /\ Emit(m, op, data, via).fragmented = m.fragmented /\ Emit(m, op, data, via).compressed = m.compressed
         /\ Emit(m, op, data, via).payload = m.payload /\ Emit(m, op, data, via).bad = m.bad
         /\ Emit(m, op, data, via).stream = m.stream /\ Emit(m, op, data, via).queue = m.queue
         /\ Emit(m, op, data, via).events = Append(m.events, [op |-> op, data |-> data, via |-> via])
         /\ Handed(Emit(m, op, data, via)) = Append(Handed(m), [op |-> op, data |-> data])
<1>1. PICK e \in Event : e = [op |-> op, data |-> data, via |-> via]
  BY DEF Event
<1>2. m.events \in Seq(Event)
  BY DEF Message
<1>3. PICK s \in Seq(Event) : s = Append(m.events, e)
  <2>1. Append(m.events, e) \in Seq(Event)
    BY <1>2, AppendProperties
  <2> QED
    BY <2>1
<1>4. PICK v : v = [m EXCEPT !.events = s]
  OBVIOUS
<1>5. /\ v \in Message /\ v.outcome = m.outcome /\ v.op = m.op /\ v.fragmented = m.fragmented
      /\ v.compressed = m.compressed /\ v.payload = m.payload /\ v.bad = m.bad /\ v.stream = m.stream
      /\ v.queue = m.queue /\ v.events = s
  BY <1>4 DEF Message
<1>6. v = Emit(m, op, data, via)
  BY <1>1, <1>3, <1>4 DEF Emit
<1>7. Handed(v) = Append(Handed(m), [op |-> op, data |-> data])
  <2> DEFINE Told1(q) == [k \in DOMAIN q |-> [op |-> q[k].op, data |-> q[k].data]]
             Ev == [op : {"none", "text", "binary"} \cup ControlOps, data : Seq(Nat)]
  <2>1. PICK q \in Seq(Event), n \in Nat : q = m.events /\ n = Len(q)
    BY <1>2
  <2>2. s \in Seq(Event) /\ Len(s) = n + 1 /\ s[n + 1] = e /\ \A k \in 1..n : s[k] = q[k]
    BY <1>3, <2>1, AppendProperties
  <2>3. \A x \in Event : [op |-> x.op, data |-> x.data] \in Ev
    BY DEF Event
  <2>4. DOMAIN s = 1..(n + 1) /\ DOMAIN q = 1..n
    BY <2>1, <2>2
  <2>z. PICK z \in Ev : z = [op |-> op, data |-> data]
    BY <1>1 DEF Event
  <2>5. PICK a, b : a = Told1(q) /\ b = Told1(s)
    OBVIOUS
  <2>6. a = [k \in 1..n |-> [op |-> q[k].op, data |-> q[k].data]]
        /\ b = [k \in 1..(n + 1) |-> [op |-> s[k].op, data |-> s[k].data]]
    BY <2>4, <2>5
  <2>7. /\ \A k \in 1..n : a[k] = [op |-> q[k].op, data |-> q[k].data]
        /\ \A k \in 1..(n + 1) : b[k] = [op |-> s[k].op, data |-> s[k].data]
    BY <2>6
  <2>8. /\ \A k \in 1..n : q[k] \in Event
        /\ \A k \in 1..(n + 1) : s[k] \in Event
    BY <2>1, <2>2
  <2> HIDE DEF Ev, Told1
  <2>9. a \in Seq(Ev) /\ b \in Seq(Ev) /\ Len(a) = n /\ Len(b) = n + 1
    <3>1. \A j \in Nat : \A t \in [1..j -> Ev] : t \in Seq(Ev) /\ Len(t) = j
      OBVIOUS
    <3>2. a \in [1..n -> Ev]
      BY <2>3, <2>6, <2>7, <2>8
    <3>3. b \in [1..(n + 1) -> Ev]
      BY <2>3, <2>6, <2>7, <2>8
    <3>4. n + 1 \in Nat
      OBVIOUS
    <3> QED
      BY <3>1, <3>2, <3>3, <3>4
  <2>10. PICK c \in Seq(Ev) : c = Append(a, z) /\ Len(c) = n + 1 /\ c[n + 1] = z /\ \A k \in 1..n : c[k] = a[k]
    <3>1. Append(a, z) \in Seq(Ev) /\ Len(Append(a, z)) = Len(a) + 1 /\ Append(a, z)[Len(a) + 1] = z
          /\ \A k \in 1..Len(a) : Append(a, z)[k] = a[k]
      BY <2>9, AppendProperties
    <3> QED
      BY <2>9, <3>1
  <2>11. ASSUME NEW k \in 1..(n + 1) PROVE b[k] = c[k]
    <3>1. CASE k = n + 1
      <4>1. b[n + 1] = [op |-> e.op, data |-> e.data]
        BY <2>2, <2>7, <3>1
      <4>2. e.op = op /\ e.data = data
        BY <1>1
      <4> QED
        BY <2>z, <2>10, <3>1, <4>1, <4>2
    <3>2. CASE k # n + 1
      <4>1. k \in 1..n
        BY <3>2
      <4> QED
        BY <2>2, <2>7, <2>10, <4>1
    <3> QED
      BY <3>1, <3>2
  <2>12. b = c
    BY <2>9, <2>10, <2>11, SeqEqual
  <2>13. Handed(m) = a /\ Handed(v) = b
    BY <1>5, <2>1, <2>5 DEF Handed, Told1
  <2> QED
    BY <2>z, <2>10, <2>12, <2>13
<1> QED
  BY <1>1, <1>3, <1>5, <1>6, <1>7

LEMMA ForgetIs ==
  ASSUME NEW m \in Message
  PROVE  /\ Forget(m) \in Message /\ Forget(m).outcome = m.outcome
         /\ ~Forget(m).fragmented /\ ~Forget(m).compressed
         /\ Forget(m).stream = m.stream /\ Forget(m).queue = m.queue /\ Forget(m).events = m.events
         /\ Handed(Forget(m)) = Handed(m)
<1>1. PICK v : v = Forget(m)
  OBVIOUS
<1>2. <<>> \in Seq(Nat)
  OBVIOUS
<1>3. v \in Message /\ v.outcome = m.outcome /\ ~v.fragmented /\ ~v.compressed
      /\ v.stream = m.stream /\ v.queue = m.queue /\ v.events = m.events
  BY <1>1, <1>2 DEF Forget, Message
<1> QED
  BY <1>1, <1>3, HandedSame

(* The message with another chunk.                                         *)
Got(m, chunk) == [m EXCEPT !.payload = @ \o chunk, !.bad = (@ \/ Bad(chunk))]

LEMMA GotIs ==
  ASSUME NEW m \in Message, NEW chunk \in Seq(Nat)
  PROVE  /\ Got(m, chunk) \in Message /\ Got(m, chunk).outcome = m.outcome /\ Got(m, chunk).op = m.op
         /\ Got(m, chunk).fragmented = m.fragmented /\ Got(m, chunk).compressed = m.compressed
         /\ Got(m, chunk).payload = m.payload \o chunk /\ Got(m, chunk).bad = (m.bad \/ Bad(chunk))
         /\ Got(m, chunk).stream = m.stream /\ Got(m, chunk).queue = m.queue /\ Got(m, chunk).events = m.events
         /\ Handed(Got(m, chunk)) = Handed(m)
<1>1. PICK payload \in Seq(Nat) : payload = m.payload \o chunk
  <2>1. m.payload \in Seq(Nat)
    BY DEF Message
  <2>2. m.payload \o chunk \in Seq(Nat)
    BY <2>1, ConcatProperties
  <2> QED
    BY <2>2
<1>2. Bad(chunk) \in BOOLEAN
  BY DEF Bad
<1>3. PICK bad \in BOOLEAN : bad = (m.bad \/ Bad(chunk))
  <2>1. m.bad \in BOOLEAN
    BY DEF Message
  <2>2. (m.bad \/ Bad(chunk)) \in BOOLEAN
    BY <1>2, <2>1
  <2> QED
    BY <2>2, Zenon
<1>4. PICK v : v = [m EXCEPT !.payload = payload, !.bad = bad]
  OBVIOUS
<1>5. /\ v \in Message /\ v.outcome = m.outcome /\ v.op = m.op /\ v.fragmented = m.fragmented
      /\ v.compressed = m.compressed /\ v.payload = payload /\ v.bad = bad /\ v.stream = m.stream
      /\ v.queue = m.queue /\ v.events = m.events
  BY <1>4 DEF Message
<1>6. v = Got(m, chunk)
  BY <1>1, <1>3, <1>4 DEF Got
<1> QED
  BY <1>1, <1>3, <1>5, <1>6, HandedSame

(* A piped message is ended.                                               *)
LEMMA EndMessageStreamIs ==
  ASSUME NEW m \in Message
  PROVE  /\ EndMessageStream(m) \in Message /\ EndMessageStream(m).outcome = m.outcome
         /\ ~EndMessageStream(m).fragmented /\ ~EndMessageStream(m).compressed
         /\ EndMessageStream(m).stream = 0 /\ EndMessageStream(m).queue = m.queue
         /\ EndMessageStream(m).events = Append(m.events, [op |-> m.op, data |-> m.payload, via |-> m.stream])
         /\ Handed(EndMessageStream(m)) = Append(Handed(m), [op |-> m.op, data |-> m.payload])
<1>1. PICK op \in {"none", "text", "binary"} \cup ControlOps, data \in Seq(Nat), via \in Nat :
        op = m.op /\ data = m.payload /\ via = m.stream
  BY DEF Message
<1>2. PICK v \in Message : v = Emit(m, op, data, via)
  BY EmitIs
<1>3. PICK w : w = [v EXCEPT !.stream = 0]
  OBVIOUS
<1>4. w \in Message /\ w.outcome = v.outcome /\ w.stream = 0 /\ w.queue = v.queue /\ w.events = v.events
  BY <1>3 DEF Message
<1>5. EndMessageStream(m) = Forget(w)
  BY <1>1, <1>2, <1>3 DEF EndMessageStream
<1>6. v.outcome = m.outcome /\ v.queue = m.queue
      /\ v.events = Append(m.events, [op |-> op, data |-> data, via |-> via])
      /\ Handed(v) = Append(Handed(m), [op |-> op, data |-> data])
  BY <1>2, EmitIs, SMTT(60)
<1>7. Handed(w) = Handed(v)
  BY <1>4, HandedSame
<1> QED
  BY <1>1, <1>4, <1>5, <1>6, <1>7, ForgetIs

(* A message that is not piped is handed over, unless it is invalid text.  *)
LEMMA EmitMessageIs ==
  ASSUME NEW m \in Message, m.stream = 0
  PROVE  EmitMessage(m) = IF m.op = "text" /\ ~scenario.failFast /\ m.bad THEN Fail(m, "1007")
                          ELSE Forget(Emit(m, m.op, m.payload, 0))
BY DEF EmitMessage

LEMMA EmittedIs ==
  ASSUME NEW m \in Message
  PROVE  LET v == Forget(Emit(m, m.op, m.payload, 0))
         IN  /\ v \in Message /\ v.outcome = m.outcome /\ ~v.fragmented /\ ~v.compressed
             /\ v.stream = m.stream /\ v.queue = m.queue
             /\ v.events = Append(m.events, [op |-> m.op, data |-> m.payload, via |-> 0])
             /\ Handed(v) = Append(Handed(m), [op |-> m.op, data |-> m.payload])
<1>1. PICK op \in {"none", "text", "binary"} \cup ControlOps, data \in Seq(Nat), via \in Nat :
        op = m.op /\ data = m.payload /\ via = 0
  BY DEF Message
<1>2. PICK w \in Message : w = Emit(m, op, data, via)
  BY EmitIs
<1>3. w.outcome = m.outcome /\ w.stream = m.stream /\ w.queue = m.queue
      /\ w.events = Append(m.events, [op |-> op, data |-> data, via |-> via])
      /\ Handed(w) = Append(Handed(m), [op |-> op, data |-> data])
  BY <1>2, EmitIs, ZenonT(60)
<1>4. PICK v : v = Forget(w)
  OBVIOUS
<1>5. v \in Message /\ v.outcome = w.outcome /\ ~v.fragmented /\ ~v.compressed
      /\ v.stream = w.stream /\ v.queue = w.queue /\ v.events = w.events /\ Handed(v) = Handed(w)
  BY <1>4, ForgetIs
<1>6. v = Forget(Emit(m, m.op, m.payload, 0))
  BY <1>1, <1>2, <1>4
<1> QED
  BY <1>1, <1>3, <1>5, <1>6

-----------------------------------------------------------------------------
(* A frame is dealt with: v is what the frames up to it mean, e.           *)
Ends(v, e) ==
  /\ Handed(v) = e.events
  /\ v.outcome = "ok" => Between(v, e)
  /\ v.outcome \notin {"ok", "destroyed"} => v.outcome = e.verdict

LEMMA FailEnds ==
  ASSUME NEW m \in Message, m.outcome \in {"ok", "destroyed"}, NEW d \in Decoding, Handed(m) = d.events,
         NEW code \in {"1002", "1007", "1009"}
  PROVE  Ends(Fail(m, code), Rejected(d, code))
<1>1. code \in Outcomes /\ code # "ok" /\ code \in {"ok", "1002", "1007", "1009"}
  BY DEF Outcomes
<1>2. PICK v, e : v = Fail(m, code) /\ e = Rejected(d, code)
  OBVIOUS
<1>3. Handed(v) = Handed(m) /\ v.outcome = IF m.outcome = "ok" THEN code ELSE m.outcome
  BY <1>1, <1>2, FailIs
<1>4. e.events = d.events /\ e.verdict = code
  BY <1>1, <1>2, RejectedIs
<1> QED
  BY <1>1, <1>2, <1>3, <1>4 DEF Ends

LEMMA EmitEnds ==
  ASSUME NEW m \in Message, m.outcome = "ok", NEW d \in Decoding, Between(m, d),
         NEW op \in {"none", "text", "binary"} \cup ControlOps, NEW data \in Seq(Nat)
  PROVE  Ends(Emit(m, op, data, 0), Told(d, op, data))
<1>0. PICK via \in Nat : via = 0
  OBVIOUS
<1>1. PICK v, e : v = Emit(m, op, data, via) /\ e = Told(d, op, data)
  OBVIOUS
<1>2. /\ v.outcome = m.outcome /\ v.op = m.op /\ v.fragmented = m.fragmented /\ v.compressed = m.compressed
      /\ v.payload = m.payload /\ v.bad = m.bad /\ v.stream = m.stream
      /\ Handed(v) = Append(Handed(m), [op |-> op, data |-> data])
  BY <1>1, EmitIs, ZenonT(60)
<1>3. /\ e.verdict = d.verdict /\ e.open = d.open /\ e.op = d.op /\ e.bad = d.bad /\ e.data = d.data
      /\ e.packed = d.packed /\ e.events = Append(d.events, [op |-> op, data |-> data])
  BY <1>1, ToldIs
<1>4. Handed(v) = e.events
  BY <1>2, <1>3 DEF Between
<1>5. Between(v, e)
  BY <1>2, <1>3, <1>4 DEF Between
<1> QED
  BY <1>0, <1>1, <1>2, <1>4, <1>5 DEF Ends

(* #handleCloseFrame() and its like judge a whole control frame as Verdict *)
(* does.                                                                   *)
LEMMA ControlEnds ==
  ASSUME Given, NEW m \in Message, m.outcome = "ok", NEW d, Meaningful(d), Between(m, d),
         NEW i \in 1..Len(frames), frames[i].size # Huge, ~Broken(frames[i], d.open), IsControl(frames[i])
  PROVE  Ends(HandleControlFrame(m, frames[i], Payload(i)), DecodeFrame(d, i))
<1>1. PICK f \in FrameType, size \in Nat : f = frames[i] /\ size = f.size
  BY FrameIs
<1>2. d \in Decoding /\ d.verdict = "ok" /\ Handed(m) = d.events
  BY DEF Meaningful, Between
<1>3. PICK payload \in Seq(Nat) : payload = Payload(i) /\ Len(payload) = size
  BY <1>1, HeaderEndIs
<1>4. DecodeFrame(d, i) =
        IF f.op # "close" THEN Told(d, f.op, payload)
        ELSE IF CloseVerdict(f) # "ok" THEN Rejected(d, CloseVerdict(f)) ELSE Told(d, "close", CloseData(f))
  BY <1>1, <1>2, <1>3, DecodeControl
<1>5. f.op \in ControlOps /\ "close" \in ControlOps /\ f.code \in Nat
  BY <1>1 DEF IsControl, ControlOps, FrameType
<1>6. CASE f.op # "close"
  <2>1. HandleControlFrame(m, f, payload) = Emit(m, f.op, payload, 0)
    BY <1>6 DEF HandleControlFrame
  <2>2. PICK op \in {"none", "text", "binary"} \cup ControlOps : op = f.op
    BY <1>5
  <2>3. Ends(Emit(m, op, payload, 0), Told(d, op, payload))
    BY <1>2, EmitEnds
  <2> QED
    BY <1>1, <1>3, <1>4, <1>6, <2>1, <2>2, <2>3
<1>7. CASE f.op = "close"
  <2>1. HandleControlFrame(m, f, payload) = HandleCloseFrame(m, f, payload)
    BY <1>7 DEF HandleControlFrame
  <2>2. Bad(payload) <=> ~f.ok
    <3>1. ~f.ok => size # 0
      BY <1>1, InvalidHasBytes
    <3>2. PICK h \in Nat : h = HeaderEnd(i)
      BY HeaderEndIs
    <3>3. payload = Span(h, size) /\ h + 0 = h /\ 0 + size <= size /\ 0 + size = size
      BY <1>1, <1>3, <3>2, HeaderEndIs
    <3>4. payload = Span(HeaderEnd(i) + 0, size)
      BY <3>2, <3>3
    <3> QED
      BY <1>1, <3>1, <3>3, <3>4, BadIs
  <2>3. CloseData(f) \in Seq(Nat) /\ (CloseData(f) = IF size = 0 THEN <<1005>> ELSE <<f.code>>)
    BY <1>1, <1>5, CloseDataIs DEF CloseData
  <2>4. HandleCloseFrame(m, f, payload) =
          IF CloseVerdict(f) # "ok" THEN Fail(m, CloseVerdict(f)) ELSE Emit(m, "close", CloseData(f), 0)
    <3>1. CASE size = 0
      BY <1>1, <1>3, <2>3, <3>1 DEF HandleCloseFrame, CloseVerdict
    <3>2. CASE size = 1
      BY <1>1, <1>3, <2>3, <3>2 DEF HandleCloseFrame, CloseVerdict
    <3>3. CASE size # 0 /\ size # 1 /\ size > 2 /\ ~f.ok
      <4>1. HandleCloseFrame(m, f, payload) = Fail(m, "1007")
        BY <1>3, <2>2, <3>3 DEF HandleCloseFrame
      <4>2. CloseVerdict(f) = "1007"
        BY <1>1, <3>3 DEF CloseVerdict
      <4> QED
        BY <4>1, <4>2
    <3>4. CASE size # 0 /\ size # 1 /\ ~(size > 2 /\ ~f.ok)
      <4>1. HandleCloseFrame(m, f, payload) =
              IF ~LegalCode(f.code) THEN Fail(m, "1002") ELSE Emit(m, "close", <<f.code>>, 0)
        BY <1>3, <2>2, <3>4 DEF HandleCloseFrame
      <4>2. CloseVerdict(f) = IF LegalCode(f.code) THEN "ok" ELSE "1002"
        BY <1>1, <3>4 DEF CloseVerdict
      <4> QED
        BY <2>3, <3>4, <4>1, <4>2
    <3> QED
      BY <3>1, <3>2, <3>3, <3>4
  <2>5. CASE CloseVerdict(f) = "ok"
    <3>1. PICK op \in {"none", "text", "binary"} \cup ControlOps, data \in Seq(Nat) : op = "close" /\ data = CloseData(f)
      BY <1>5, <2>3, ZenonT(60)
    <3>2. Ends(Emit(m, op, data, 0), Told(d, op, data))
      BY <1>2, EmitEnds
    <3> QED
      BY <1>1, <1>3, <1>4, <1>7, <2>1, <2>4, <2>5, <3>1, <3>2
  <2>6. CASE CloseVerdict(f) # "ok"
    <3>1. PICK code \in {"1002", "1007", "1009"} : code = CloseVerdict(f)
      BY <2>6, CloseVerdictIs
    <3>2. Ends(Fail(m, code), Rejected(d, code))
      BY <1>2, FailEnds
    <3> QED
      BY <1>1, <1>3, <1>4, <1>7, <2>1, <2>4, <2>6, <3>1, <3>2
  <2> QED
    BY <2>5, <2>6
<1> QED
  BY <1>6, <1>7

(* What a message has got so far is valid where that is checked, or is not *)
(* checked at all.                                                         *)
LEMMA OpenedSound ==
  ASSUME Given, NEW d, Meaningful(d), d.verdict = "ok", NEW i \in 1..Len(frames),
         ~Broken(frames[i], d.open), ~IsControl(frames[i]), NEW o, o = Opened(d, frames[i])
  PROVE  /\ o \in Decoding /\ o.op \in {"text", "binary"} /\ o.events = d.events /\ o.verdict = "ok"
         /\ frames[i].op \in DataOps /\ (frames[i].op = "continuation" <=> d.open)
         /\ o.op = "text" /\ scenario.failFast => ~o.bad
         /\ Usual /\ scenario.streams # 0 => ~o.bad /\ frames[i].ok
<1>1. PICK f : f = frames[i]
  OBVIOUS
<1>2. d \in Decoding /\ (d.open => d.op # "none")
  BY DEF Meaningful
<1>3. /\ o \in Decoding /\ o.op \in {"text", "binary"} /\ o.events = d.events /\ o.verdict = d.verdict
      /\ f.op \in DataOps /\ (f.op = "continuation" <=> d.open)
  BY <1>1, <1>2, OpenedIs
<1>4. CASE f.op = "continuation"
  <2>1. o = d /\ d.open
    BY <1>1, <1>3, <1>4 DEF Opened
  <2>2. (d.op = "text" /\ scenario.failFast => ~d.bad) /\ (Usual /\ scenario.streams # 0 => ~d.bad)
    BY <2>1 DEF Meaningful
  <2>3. Usual /\ scenario.streams # 0 => f.ok
    BY <1>1, <1>3, UsualIs
  <2> QED
    BY <1>1, <1>3, <2>1, <2>2, <2>3
<1>5. CASE f.op # "continuation"
  <2>1. ~o.bad
    BY <1>1, <1>2, <1>5 DEF Opened, Decoding
  <2>2. Usual /\ scenario.streams # 0 => f.ok
    BY <1>1, <1>3, UsualIs
  <2> QED
    BY <1>1, <1>3, <2>1, <2>2
<1> QED
  BY <1>4, <1>5

LEMMA ConsumeIs ==
  ASSUME NEW m, m.op # "none", NEW f, NEW chunk, NEW final
  PROVE  ConsumeMessagePayloadChunk(m, f, chunk, final) =
           IF m.stream # 0
           THEN IF final /\ f.fin THEN EndMessageStream(Got(m, chunk)) ELSE Got(m, chunk)
           ELSE IF m.op = "text" /\ scenario.failFast /\ Bad(chunk) THEN Fail(m, "1007")
           ELSE IF final /\ f.fin THEN EmitMessage(Got(m, chunk)) ELSE Got(m, chunk)
BY DEF ConsumeMessagePayloadChunk, Got

LEMMA Associative ==
  ASSUME NEW x \in Seq(Nat), NEW y \in Seq(Nat), NEW z \in Seq(Nat)
  PROVE  (x \o y) \o z = x \o (y \o z)
<1>1. PICK a \in Nat, b \in Nat, c \in Nat : a = Len(x) /\ b = Len(y) /\ c = Len(z)
  OBVIOUS
<1>2. PICK p, q : p = x \o y /\ q = y \o z
  OBVIOUS
<1>p. p \in Seq(Nat) /\ q \in Seq(Nat)
  BY <1>2, ConcatProperties
<1>3. PICK s, t : s = p \o z /\ t = x \o q
  OBVIOUS
<1>s. s \in Seq(Nat) /\ t \in Seq(Nat)
  BY <1>3, <1>p, ConcatProperties
<1>4. /\ Len(p) = a + b /\ \A k \in 1..(a + b) : p[k] = IF k <= a THEN x[k] ELSE y[k - a]
      /\ Len(q) = b + c /\ \A k \in 1..(b + c) : q[k] = IF k <= b THEN y[k] ELSE z[k - b]
  BY <1>1, <1>2, ConcatProperties
<1>5. /\ Len(s) = (a + b) + c /\ \A k \in 1..((a + b) + c) : s[k] = IF k <= a + b THEN p[k] ELSE z[k - (a + b)]
      /\ Len(t) = a + (b + c) /\ \A k \in 1..(a + (b + c)) : t[k] = IF k <= a THEN x[k] ELSE q[k - a]
  <2>1. PICK e \in Nat, g \in Nat : e = a + b /\ g = b + c
    OBVIOUS
  <2>2. Len(p) = e /\ Len(q) = g
    BY <1>4, <2>1
  <2>3. Len(s) = e + c /\ \A k \in 1..(e + c) : s[k] = IF k <= e THEN p[k] ELSE z[k - e]
    BY <1>1, <1>3, <1>p, <2>2, ConcatProperties
  <2>4. Len(t) = a + g /\ \A k \in 1..(a + g) : t[k] = IF k <= a THEN x[k] ELSE q[k - a]
    BY <1>1, <1>3, <1>p, <2>2, ConcatProperties
  <2> QED
    BY <2>1, <2>3, <2>4
<1>6. ASSUME NEW k \in 1..(a + b + c) PROVE s[k] = t[k]
  <2>0. k \in 1..((a + b) + c) /\ k \in 1..(a + (b + c))
    OBVIOUS
  <2>1. CASE k <= a
    <3>1. k <= a + b /\ k \in 1..(a + b)
      BY <2>1
    <3> QED
      BY <1>4, <1>5, <2>0, <2>1, <3>1
  <2>2. CASE ~(k <= a) /\ k <= a + b
    <3>1. k \in 1..(a + b) /\ k - a \in 1..(b + c) /\ k - a <= b
      BY <2>2
    <3> QED
      BY <1>4, <1>5, <2>0, <2>2, <3>1
  <2>3. CASE ~(k <= a + b)
    <3>1. ~(k <= a) /\ k - a \in 1..(b + c) /\ ~(k - a <= b) /\ (k - a) - b = k - (a + b)
      BY <2>3
    <3> QED
      BY <1>4, <1>5, <2>0, <2>3, <3>1
  <2> QED
    BY <2>1, <2>2, <2>3
<1>7. s = t
  <2>1. Len(s) = a + b + c /\ Len(t) = a + b + c
    BY <1>5
  <2> QED
    BY <1>s, <1>6, <2>1, SeqEqual
<1> QED
  BY <1>2, <1>3, <1>7

(* A chunk of a data frame that is not its last.                           *)
LEMMA DataGoesOn ==
  ASSUME Given, NEW m \in Message, NEW d, Meaningful(d), d.verdict = "ok",
         NEW i \in 1..Len(frames), frames[i].size # Huge, ~Broken(frames[i], d.open), ~IsControl(frames[i]),
         NEW c \in Nat, NEW n \in Nat, c + n < frames[i].size, Within(m, d, i, c)
  PROVE  LET v == ConsumeMessagePayloadChunk(m, frames[i], Span(HeaderEnd(i) + c, n), FALSE)
         IN  Within(v, d, i, c + n) /\ v.outcome = m.outcome
<1>1. PICK f \in FrameType, size \in Nat : f = frames[i] /\ size = f.size
  BY FrameIs
<1>2. PICK o : o = Opened(d, f)
  OBVIOUS
<1>3. o \in Decoding /\ o.op \in {"text", "binary"}
  BY <1>1, <1>2, OpenedSound
<1>a. PICK chunk \in Seq(Nat) : chunk = Span(HeaderEnd(i) + c, n)
  BY PartIs
<1>4. PICK got : chunk = Span(HeaderEnd(i) + c, n) /\ got = Got(m, chunk)
  BY <1>a
<1>5. /\ m.op = o.op /\ m.compressed = o.packed /\ m.fragmented = (f.op = "continuation" \/ ~f.fin)
      /\ m.payload = o.data \o Span(HeaderEnd(i), c) /\ m.bad = o.bad /\ Handed(m) = d.events
  BY <1>1, <1>2 DEF Within
<1>6. ~Bad(chunk)
  <2>1. c + n <= frames[i].size /\ c + n # frames[i].size
    BY <1>1
  <2> QED
    BY <1>4, <2>1, BadIs
<1>7. ConsumeMessagePayloadChunk(m, f, chunk, FALSE) = got
  <2>1. m.op # "none"
    BY <1>3, <1>5
  <2> QED
    BY <1>4, <1>6, <2>1, ConsumeIs
<1>8. /\ got.outcome = m.outcome /\ got.op = m.op /\ got.fragmented = m.fragmented /\ got.compressed = m.compressed
      /\ got.payload = m.payload \o chunk /\ got.bad = (m.bad \/ Bad(chunk)) /\ Handed(got) = Handed(m)
  BY <1>4, GotIs
<1>9. got.payload = o.data \o Span(HeaderEnd(i), c + n)
  <2>1. PICK x \in Seq(Nat), y \in Seq(Nat) : x = o.data /\ y = Span(HeaderEnd(i), c)
    BY <1>3, PartIs DEF Decoding
  <2>2. (x \o y) \o chunk = x \o (y \o chunk)
    BY Associative
  <2>3. y \o chunk = Span(HeaderEnd(i), c + n)
    BY <1>4, <2>1, PartIs
  <2> QED
    BY <1>5, <1>8, <2>1, <2>2, <2>3
<1>10. got.bad = m.bad
  <2>1. m.bad \in BOOLEAN
    BY DEF Message
  <2> QED
    BY <1>6, <1>8, <2>1
<1>11. Within(got, d, i, c + n)
  BY <1>1, <1>2, <1>5, <1>8, <1>9, <1>10 DEF Within
<1> QED
  BY <1>1, <1>4, <1>7, <1>8, <1>11

(* The last chunk of a data frame: the message goes on, is handed over or  *)
(* is invalid, as DataVerdict says.  A binary message whose frame cannot   *)
(* be inflated does not get here.                                          *)
LEMMA DataEnds ==
  ASSUME Given, Usual, NEW m \in Message, m.outcome \in {"ok", "destroyed"}, scenario.streams = 0 => m.stream = 0,
         NEW d, Meaningful(d), d.verdict = "ok",
         NEW i \in 1..Len(frames), frames[i].size # Huge, ~Broken(frames[i], d.open), ~IsControl(frames[i]),
         ~(m.op = "binary" /\ m.compressed /\ ~frames[i].ok),
         NEW c \in Nat, NEW n \in Nat, c + n = frames[i].size, n = 0 => frames[i].size = 0, Within(m, d, i, c)
  PROVE  Ends(ConsumeMessagePayloadChunk(m, frames[i], Span(HeaderEnd(i) + c, n), TRUE), DecodeFrame(d, i))
<1>1. PICK f \in FrameType, size \in Nat : f = frames[i] /\ size = f.size
  BY FrameIs
<1>2. PICK o : o = Opened(d, frames[i])
  OBVIOUS
<1>3. /\ o \in Decoding /\ o.op \in {"text", "binary"} /\ o.events = d.events /\ o.verdict = "ok"
      /\ f.op \in DataOps /\ (f.op = "continuation" <=> d.open)
      /\ (o.op = "text" /\ scenario.failFast => ~o.bad)
      /\ (scenario.streams # 0 => ~o.bad /\ f.ok)
  BY <1>1, <1>2, OpenedSound
<1>a. PICK chunk \in Seq(Nat) : chunk = Span(HeaderEnd(i) + c, n)
  BY PartIs
<1>4. PICK got : chunk = Span(HeaderEnd(i) + c, n) /\ got = Got(m, chunk)
  BY <1>a
<1>5. /\ m.op = o.op /\ m.compressed = o.packed /\ m.fragmented = (f.op = "continuation" \/ ~f.fin)
      /\ m.payload = o.data \o Span(HeaderEnd(i), c) /\ m.bad = o.bad /\ Handed(m) = d.events
  BY <1>1, <1>2 DEF Within
<1>6. Bad(chunk) <=> ~f.ok
  <2>1. c + n <= frames[i].size
    BY <1>1
  <2>2. Bad(chunk) <=> ~f.ok /\ n # 0 /\ c + n = frames[i].size
    BY <1>1, <1>4, <2>1, BadIs
  <2>3. ~f.ok => n # 0
    BY <1>1, InvalidHasBytes
  <2> QED
    BY <2>2, <2>3
<1>7. /\ got \in Message /\ got.outcome = m.outcome /\ got.op = m.op /\ got.fragmented = m.fragmented
      /\ got.compressed = m.compressed /\ got.payload = m.payload \o chunk /\ got.bad = (m.bad \/ Bad(chunk))
      /\ got.stream = m.stream /\ Handed(got) = Handed(m)
  BY <1>4, GotIs
<1>8. got.payload = o.data \o Payload(i)
  <2>1. PICK x \in Seq(Nat), y \in Seq(Nat) : x = o.data /\ y = Span(HeaderEnd(i), c)
    BY <1>3, PartIs DEF Decoding
  <2>2. (x \o y) \o chunk = x \o (y \o chunk)
    BY Associative
  <2>3. y \o chunk = Span(HeaderEnd(i), c + n)
    BY <1>4, <2>1, PartIs
  <2>4. Span(HeaderEnd(i), c + n) = Payload(i)
    BY HeaderEndIs
  <2> QED
    BY <1>5, <1>7, <2>1, <2>2, <2>3, <2>4
<1>9. m.op # "none" /\ d \in Decoding
  BY <1>3, <1>5 DEF Meaningful
<1>10. ConsumeMessagePayloadChunk(m, f, chunk, TRUE) =
         IF m.stream # 0 THEN IF f.fin THEN EndMessageStream(got) ELSE got
         ELSE IF m.op = "text" /\ scenario.failFast /\ Bad(chunk) THEN Fail(m, "1007")
         ELSE IF f.fin THEN EmitMessage(got) ELSE got
  BY <1>4, <1>9, ConsumeIs
<1>11. PICK g : g = Grown(o, i)
  OBVIOUS
<1>12. /\ g \in Decoding /\ g.verdict = "ok" /\ g.op = o.op /\ g.packed = o.packed /\ g.events = d.events
       /\ g.open = ~f.fin /\ g.bad = (o.bad \/ ~f.ok) /\ g.data = o.data \o Payload(i)
       /\ o.data \o Payload(i) \in Seq(Nat)
  BY <1>1, <1>3, <1>11, GrownIs
<1>13. DecodeFrame(d, i) =
         IF DataVerdict(o, f) # "ok" THEN Rejected(d, DataVerdict(o, f))
         ELSE IF f.fin THEN Told(g, o.op, o.data \o Payload(i)) ELSE g
  BY <1>1, <1>2, <1>3, <1>11, DecodeData
<1>14. PICK op \in {"none", "text", "binary"} \cup ControlOps, data \in Seq(Nat) :
         op = o.op /\ data = o.data \o Payload(i)
  BY <1>3, <1>12
<1>15. got.op = op /\ got.payload = data /\ got.bad = g.bad
  BY <1>5, <1>6, <1>7, <1>8, <1>12, <1>14
(* Not the last frame.                                                     *)
<1>16. ~f.fin => Ends(got, g)
  <2> HAVE ~f.fin
  <2>1. Handed(got) = g.events
    BY <1>5, <1>7, <1>12
  <2>2. Between(got, g)
    BY <1>5, <1>7, <1>12, <1>14, <1>15, <2>1 DEF Between
  <2> QED
    BY <1>7, <2>1, <2>2 DEF Ends
(* The message handed over.                                                *)
<1>17. ASSUME NEW v, f.fin, Handed(v) = Append(Handed(got), [op |-> op, data |-> data]), v.outcome = got.outcome,
              ~v.fragmented, ~v.compressed, v.fragmented \in BOOLEAN, v.stream = 0
       PROVE  Ends(v, Told(g, op, data))
  <2>1. PICK e : e = Told(g, op, data)
    OBVIOUS
  <2>2. e.verdict = "ok" /\ e.open = g.open /\ e.events = Append(g.events, [op |-> op, data |-> data])
    BY <1>12, <2>1, ToldIs, ZenonT(60)
  <2>3. Handed(v) = e.events
    BY <1>5, <1>7, <1>12, <1>17, <2>2
  <2>4. ~e.open /\ v.fragmented = e.open
    <3>1. f.fin \in BOOLEAN
      BY DEF FrameType
    <3> QED
      BY <1>12, <1>17, <2>2, <3>1
  <2>5. Between(v, e)
    BY <1>17, <2>2, <2>3, <2>4 DEF Between
  <2> QED
    BY <1>7, <1>17, <2>1, <2>3, <2>5 DEF Ends
<1>18. CASE m.stream # 0
  <2>1. ~o.bad /\ f.ok
    BY <1>3, <1>18
  <2>2. DataVerdict(o, f) = "ok"
    BY <2>1 DEF DataVerdict
  <2>3. CASE f.fin
    <3>1. PICK v : v = EndMessageStream(got)
      OBVIOUS
    <3>2. /\ v \in Message /\ v.outcome = got.outcome /\ ~v.fragmented /\ ~v.compressed /\ v.stream = 0
          /\ Handed(v) = Append(Handed(got), [op |-> op, data |-> data])
      BY <1>7, <1>15, <3>1, EndMessageStreamIs
    <3>3. v.fragmented \in BOOLEAN
      BY <3>2 DEF Message
    <3>4. Ends(v, Told(g, op, data))
      BY <1>17, <2>3, <3>2, <3>3
    <3> QED
      BY <1>1, <1>4, <1>10, <1>13, <1>14, <1>18, <2>2, <2>3, <3>1, <3>4
  <2>4. CASE ~f.fin
    BY <1>1, <1>4, <1>10, <1>13, <1>16, <1>18, <2>2, <2>4
  <2> QED
    BY <2>3, <2>4
<1>19. ASSUME DataVerdict(o, f) = "1007"
       PROVE  Ends(Fail(m, "1007"), DecodeFrame(d, i)) /\ Ends(Fail(got, "1007"), DecodeFrame(d, i))
  <2>1. PICK code \in {"1002", "1007", "1009"} : code = "1007"
    OBVIOUS
  <2>2. DecodeFrame(d, i) = Rejected(d, code)
    BY <1>13, <1>19, <2>1
  <2>3. Ends(Fail(m, code), Rejected(d, code))
    BY <1>5, <1>9, FailEnds
  <2>4. Ends(Fail(got, code), Rejected(d, code))
    <3>1. Handed(got) = d.events /\ got.outcome \in {"ok", "destroyed"}
      BY <1>5, <1>7
    <3> QED
      BY <1>7, <1>9, <3>1, FailEnds
  <2> QED
    BY <2>1, <2>2, <2>3, <2>4
<1>20. CASE m.stream = 0 /\ m.op = "text" /\ scenario.failFast /\ Bad(chunk)
  <2>1. DataVerdict(o, f) = "1007"
    BY <1>5, <1>6, <1>20 DEF DataVerdict
  <2> QED
    BY <1>1, <1>4, <1>10, <1>19, <1>20, <2>1
<1>21. CASE m.stream = 0 /\ ~(m.op = "text" /\ scenario.failFast /\ Bad(chunk))
  <2>1. DataVerdict(o, f) = IF o.op = "text" /\ g.bad /\ f.fin /\ ~scenario.failFast THEN "1007" ELSE "ok"
    BY <1>1, <1>3, <1>5, <1>6, <1>12, <1>21 DEF DataVerdict
  <2>2. CASE ~f.fin
    BY <1>1, <1>4, <1>10, <1>13, <1>16, <1>21, <2>1, <2>2
  <2>3. CASE f.fin
    <3>1. EmitMessage(got) = IF got.op = "text" /\ ~scenario.failFast /\ got.bad THEN Fail(got, "1007")
                             ELSE Forget(Emit(got, got.op, got.payload, 0))
      BY <1>7, <1>21, EmitMessageIs
    <3>2. CASE o.op = "text" /\ g.bad /\ ~scenario.failFast
      BY <1>1, <1>4, <1>10, <1>14, <1>15, <1>19, <1>21, <2>1, <2>3, <3>1, <3>2
    <3>3. CASE ~(o.op = "text" /\ g.bad /\ ~scenario.failFast)
      <4>4. PICK v : v = Forget(Emit(got, got.op, got.payload, 0))
        OBVIOUS
      <4>5. v \in Message /\ v.outcome = got.outcome /\ ~v.fragmented /\ ~v.compressed /\ v.stream = got.stream
            /\ Handed(v) = Append(Handed(got), [op |-> got.op, data |-> got.payload])
        BY <1>7, <4>4, EmittedIs
      <4>6. v.fragmented \in BOOLEAN
        BY <4>5 DEF Message
      <4>7. Ends(v, Told(g, op, data))
        <5>1. /\ Handed(v) = Append(Handed(got), [op |-> op, data |-> data]) /\ v.outcome = got.outcome
              /\ v.stream = 0
          BY <1>7, <1>15, <1>21, <4>5
        <5> QED
          BY <1>17, <2>3, <4>5, <4>6, <5>1
      <4>8. EmitMessage(got) = v
        BY <1>14, <1>15, <3>1, <3>3, <4>4
      <4>9. DecodeFrame(d, i) = Told(g, op, data)
        BY <1>13, <1>14, <2>1, <2>3, <3>3
      <4> QED
        BY <1>1, <1>4, <1>10, <1>21, <2>3, <4>7, <4>8, <4>9
    <3> QED
      BY <3>2, <3>3
  <2> QED
    BY <2>2, <2>3
<1> QED
  BY <1>18, <1>20, <1>21

-----------------------------------------------------------------------------
(* #handleHeader() finds wrong what Broken says is.                        *)
LEMMA IllegalIs ==
  ASSUME Given, NEW m, NEW d, m.fragmented = d.open, d.open \in BOOLEAN, NEW f \in FrameType
  PROVE  IllegalHeader(m, f) <=> Broken(f, d.open)
<1>1. f.op \in DataOps \cup ControlOps \cup {"unknown"}
  BY DEF FrameType
<1>2. scenario.client \in BOOLEAN
  BY ScenarioIs
<1>3. (f.op \in DataOps /\ (f.op = "continuation") # d.open) <=>
        (f.op = "continuation" /\ ~d.open) \/ (f.op \in {"text", "binary"} /\ d.open)
  BY <1>1 DEF DataOps, ControlOps
<1>4. (IF scenario.client THEN f.masked ELSE f.size > 0 /\ ~f.masked) <=>
        (scenario.client /\ f.masked) \/ (~scenario.client /\ f.size > 0 /\ ~f.masked)
  BY <1>2
<1> QED
  BY <1>3, <1>4 DEF IllegalHeader, Broken

LEMMA StartMessageIs ==
  ASSUME NEW m \in Message, NEW f \in FrameType, f.op \in {"text", "binary"}
  PROVE  /\ StartMessage(m, f) \in Message /\ StartMessage(m, f).outcome = m.outcome /\ StartMessage(m, f).op = f.op
         /\ StartMessage(m, f).fragmented = ~f.fin /\ StartMessage(m, f).compressed = (f.rsv = "rsv1")
         /\ StartMessage(m, f).payload = <<>> /\ ~StartMessage(m, f).bad
         /\ StartMessage(m, f).events = m.events /\ Handed(StartMessage(m, f)) = Handed(m)
         /\ StartMessage(m, f).stream = (IF m.queue # <<>> THEN Head(m.queue) ELSE m.stream)
         /\ StartMessage(m, f).queue = (IF m.queue # <<>> THEN Tail(m.queue) ELSE m.queue)
<1>1. PICK v : v = StartMessage(m, f)
  OBVIOUS
<1>2. v \in Message
  BY <1>1, StartMessageGoes DEF Goes
<1>3. /\ v.outcome = m.outcome /\ v.op = f.op /\ v.fragmented = ~f.fin /\ v.compressed = (f.rsv = "rsv1")
      /\ v.payload = <<>> /\ ~v.bad /\ v.events = m.events
      /\ v.stream = (IF m.queue # <<>> THEN Head(m.queue) ELSE m.stream)
      /\ v.queue = (IF m.queue # <<>> THEN Tail(m.queue) ELSE m.queue)
  BY <1>1 DEF StartMessage, Message
<1>4. Handed(v) = Handed(m)
  BY <1>3, HandedSame
<1> QED
  BY <1>1, <1>2, <1>3, <1>4

LEMMA NoPart ==
  ASSUME Given, NEW i \in 1..Len(frames), NEW x \in Seq(Nat)
  PROVE  /\ Span(HeaderEnd(i), 0) = <<>> /\ Span(HeaderEnd(i) + 0, 0) = <<>> /\ x \o Span(HeaderEnd(i), 0) = x
         /\ frames[i].size = 0 => Payload(i) = <<>>
<1>1. PICK e \in Nat : e = HeaderEnd(i)
  BY HeaderEndIs
<1>2. Span(e, 0) \in Seq(Nat) /\ Len(Span(e, 0)) = 0
  BY SpanIs
<1>3. Span(e, 0) = <<>> /\ e + 0 = e
  BY <1>2, EmptySeq
<1>4. x \o <<>> = x
  BY ConcatEmptySeq
<1> QED
  BY <1>1, <1>3, <1>4, HeaderEndIs

(* A data frame begins or goes on a message, with nothing of its payload.  *)
LEMMA StartedWithin ==
  ASSUME Given, NEW m \in Message, NEW d, Meaningful(d), Between(m, d), NEW i \in 1..Len(frames),
         ~Broken(frames[i], d.open), ~IsControl(frames[i])
  PROVE  /\ frames[i].op # "continuation" => Within(StartMessage(m, frames[i]), d, i, 0)
         /\ frames[i].op = "continuation" => Within(m, d, i, 0)
<1>1. PICK f \in FrameType : f = frames[i]
  BY FrameIs
<1>2. PICK o : o = Opened(d, frames[i])
  OBVIOUS
<1>3. d \in Decoding /\ d.verdict = "ok" /\ Handed(m) = d.events /\ m.fragmented = d.open
  BY DEF Meaningful, Between
<1>4. o \in Decoding /\ f.op \in DataOps /\ (f.op = "continuation" <=> d.open)
  BY <1>1, <1>2, <1>3, OpenedSound
<1>5. o.data \in Seq(Nat)
  BY <1>4 DEF Decoding
<1>6. o.data \o Span(HeaderEnd(i), 0) = o.data
  BY <1>5, NoPart
<1>7. CASE f.op # "continuation"
  <2>1. f.op \in {"text", "binary"}
    BY <1>4, <1>7 DEF DataOps
  <2>2. PICK v : v = StartMessage(m, f)
    OBVIOUS
  <2>3. /\ v \in Message /\ v.op = f.op /\ v.fragmented = ~f.fin /\ v.compressed = (f.rsv = "rsv1")
        /\ v.payload = <<>> /\ ~v.bad /\ Handed(v) = Handed(m)
    BY <2>1, <2>2, StartMessageIs
  <2>4. o.op = f.op /\ o.packed = (f.rsv = "rsv1") /\ o.data = <<>> /\ o.bad = FALSE
    BY <1>1, <1>2, <1>3, <1>7 DEF Opened, Decoding
  <2>5. v.bad = FALSE
    BY <2>3 DEF Message
  <2>6. v.fragmented = (f.op = "continuation" \/ ~f.fin)
    BY <1>7, <2>3
  <2>7. Within(v, d, i, 0)
    BY <1>1, <1>2, <1>3, <1>6, <2>3, <2>4, <2>5, <2>6 DEF Within
  <2> QED
    BY <1>1, <1>7, <2>2, <2>7
<1>8. CASE f.op = "continuation"
  <2>1. o = d /\ d.open
    BY <1>1, <1>2, <1>4, <1>8 DEF Opened
  <2>2. m.op = d.op /\ m.payload = d.data /\ m.bad = d.bad /\ m.compressed = d.packed
    BY <2>1 DEF Between
  <2>3. m.fragmented = (f.op = "continuation" \/ ~f.fin)
    BY <1>3, <1>8, <2>1 DEF Decoding
  <2>4. Within(m, d, i, 0)
    BY <1>1, <1>2, <1>3, <1>6, <2>1, <2>2, <2>3 DEF Within
  <2> QED
    BY <1>1, <1>8, <2>4
<1> QED
  BY <1>7, <1>8

LEMMA GotNothing ==
  ASSUME NEW m \in Message
  PROVE  ~Bad(<<>>) /\ Got(m, <<>>) = m
<1>1. ~Bad(<<>>)
  BY DEF Bad, Contains
<1>2. m.payload \o <<>> = m.payload
  <2>1. m.payload \in Seq(Nat)
    BY DEF Message
  <2> QED
    BY <2>1, ConcatEmptySeq
<1>3. (m.bad \/ Bad(<<>>)) = m.bad
  <2>1. m.bad \in BOOLEAN
    BY DEF Message
  <2> QED
    BY <1>1, <2>1
<1>4. Got(m, <<>>) = [m EXCEPT !.payload = m.payload, !.bad = m.bad]
  BY <1>2, <1>3 DEF Got
<1> QED
  BY <1>1, <1>4, ZenonT(60) DEF Message

(* A data frame without payload.                                           *)
LEMMA EmptyDataEnds ==
  ASSUME Given, Usual, NEW m \in Message, m.outcome = "ok", scenario.streams = 0 => m.stream = 0,
         NEW d, Meaningful(d), d.verdict = "ok",
         NEW i \in 1..Len(frames), frames[i].size # Huge, frames[i].size = 0, ~Broken(frames[i], d.open),
         ~IsControl(frames[i]), Within(m, d, i, 0)
  PROVE  Ends(IF frames[i].fin THEN ConsumeMessagePayloadChunk(m, frames[i], <<>>, TRUE) ELSE m, DecodeFrame(d, i))
<1>1. PICK f \in FrameType, z \in Nat : f = frames[i] /\ z = 0
  BY FrameIs
<1>2. f.ok
  <2> SUFFICES ASSUME ~f.ok PROVE FALSE
    OBVIOUS
  <2>1. f.size > 0
    BY <1>1, InvalidHasBytes
  <2> QED
    BY <1>1, <2>1
<1>3. z + z = frames[i].size /\ (z = 0 => frames[i].size = 0) /\ Within(m, d, i, z)
  BY <1>1
<1>4. Ends(ConsumeMessagePayloadChunk(m, frames[i], Span(HeaderEnd(i) + z, z), TRUE), DecodeFrame(d, i))
  BY <1>1, <1>2, <1>3, DataEnds
<1>5. Span(HeaderEnd(i) + z, z) = <<>>
  <2>1. <<>> \in Seq(Nat)
    OBVIOUS
  <2> QED
    BY <1>1, <2>1, NoPart
<1>6. ~f.fin => ConsumeMessagePayloadChunk(m, f, <<>>, TRUE) = m
  <2>1. m.op # "none"
    BY OpenedSound DEF Within
  <2>2. ConsumeMessagePayloadChunk(m, f, <<>>, TRUE) =
          IF m.stream # 0
          THEN IF f.fin THEN EndMessageStream(Got(m, <<>>)) ELSE Got(m, <<>>)
          ELSE IF m.op = "text" /\ scenario.failFast /\ Bad(<<>>) THEN Fail(m, "1007")
          ELSE IF f.fin THEN EmitMessage(Got(m, <<>>)) ELSE Got(m, <<>>)
    BY <2>1, ConsumeIs
  <2> QED
    BY <2>2, GotNothing
<1> QED
  BY <1>1, <1>4, <1>5, <1>6

(* #handleHeader() of frame i, after the frames before it.                 *)
LEMMA HeaderHandled ==
  ASSUME Given, Usual, NEW m \in Message, m.outcome = "ok",
         scenario.streams = 0 => m.stream = 0 /\ m.queue = <<>>,
         NEW i \in 1..Len(frames), frames[i].size # Huge, Between(m, After[i - 1])
  PROVE  LET f == frames[i]
             d == After[i - 1]
             v == HandleHeader(m, f)
         IN  /\ ~(EmptyEnd(m, f) /\ m.compressed)
             /\ Broken(f, d.open) => v.outcome = "1002"
             /\ Broken(f, d.open) \/ f.size = 0 => Ends(v, After[i])
             /\ ~Broken(f, d.open) /\ f.size # 0 =>
                  /\ v.outcome = "ok"
                  /\ IF IsControl(f) THEN v = m ELSE Within(v, d, i, 0)
<1>a. PICK f \in FrameType, size \in Nat : f = frames[i] /\ size = f.size
  BY FrameIs
<1>1. PICK d, v : f = frames[i] /\ size = f.size /\ d = After[i - 1] /\ v = HandleHeader(m, f)
  BY <1>a
<1>2. Meaningful(d) /\ d \in Decoding /\ After[i] = DecodeFrame(d, i)
  <2>1. i - 1 \in 0..Len(frames)
    BY ScenarioIs
  <2> QED
    BY <1>1, <2>1, AfterMeaningful, AfterIs DEF Meaningful
<1>3. Between(m, d) /\ d.verdict = "ok" /\ Handed(m) = d.events /\ m.fragmented = d.open /\ d.open \in BOOLEAN
  BY <1>1, <1>2 DEF Between, Decoding
<1>4. IllegalHeader(m, f) <=> Broken(f, d.open)
  BY <1>3, IllegalIs
<1>5. ~(EmptyEnd(m, f) /\ m.compressed)
  <2> SUFFICES ASSUME EmptyEnd(m, f), m.compressed PROVE FALSE
    OBVIOUS
  <2>1. f.op = "continuation" /\ f.size = 0 /\ f.fin /\ ~IllegalHeader(m, f)
    BY DEF EmptyEnd
  <2>2. d.open
    BY <1>3, <2>1 DEF IllegalHeader
  <2>3. d.packed
    BY <1>3, <2>2 DEF Between
  <2> QED
    BY <1>1, <2>1, <2>2, <2>3, UsualIs
<1>6. CASE Broken(f, d.open)
  <2>1. PICK code \in {"1002", "1007", "1009"} : code = "1002"
    OBVIOUS
  <2>2. v = Fail(m, code)
    BY <1>1, <1>4, <1>6, <2>1 DEF HandleHeader
  <2>3. After[i] = Rejected(d, code)
    BY <1>1, <1>2, <1>3, <1>6, <2>1, DecodeWrong
  <2>4. Ends(v, After[i])
    BY <1>2, <1>3, <2>2, <2>3, FailEnds
  <2>5. code \in Outcomes
    BY <2>1 DEF Outcomes
  <2>6. v.outcome = "1002"
    BY <2>1, <2>2, <2>5, FailIs
  <2> QED
    BY <1>1, <1>5, <1>6, <2>4, <2>6
<1>7. CASE ~Broken(f, d.open) /\ IsControl(f)
  <2>1. v = IF f.size = 0 THEN HandleControlFrame(m, f, <<>>) ELSE m
    BY <1>1, <1>4, <1>7 DEF HandleHeader
  <2>2. f.size = 0 => Ends(v, After[i])
    <3> HAVE f.size = 0
    <3>1. Payload(i) = <<>>
      <4>1. <<>> \in Seq(Nat)
        OBVIOUS
      <4> QED
        BY <1>1, <4>1, NoPart
    <3>2. Ends(HandleControlFrame(m, f, Payload(i)), DecodeFrame(d, i))
      BY <1>1, <1>2, <1>3, <1>7, ControlEnds
    <3> QED
      BY <1>2, <2>1, <3>1, <3>2
  <2> QED
    BY <1>1, <1>5, <1>7, <2>1, <2>2
<1>8. CASE ~Broken(f, d.open) /\ ~IsControl(f) /\ f.op = "continuation"
  <2>1. Within(m, d, i, 0)
    BY <1>1, <1>2, <1>3, <1>8, StartedWithin
  <2>2. v = IF f.size = 0 /\ f.fin THEN ConsumeMessagePayloadChunk(m, f, <<>>, TRUE) ELSE m
    BY <1>1, <1>4, <1>5, <1>8 DEF HandleHeader, EmptyEnd
  <2>3. f.size = 0 => Ends(v, After[i])
    <3> HAVE f.size = 0
    <3>1. Ends(IF f.fin THEN ConsumeMessagePayloadChunk(m, f, <<>>, TRUE) ELSE m, DecodeFrame(d, i))
      BY <1>1, <1>2, <1>3, <1>8, <2>1, EmptyDataEnds
    <3> QED
      BY <1>2, <2>2, <3>1
  <2> QED
    BY <1>1, <1>5, <1>8, <2>1, <2>2, <2>3
<1>9. CASE ~Broken(f, d.open) /\ ~IsControl(f) /\ f.op # "continuation"
  <2>1. f.op \in {"text", "binary"} /\ f.op \in DataOps
    <3>1. f.op \in DataOps
      BY <1>1, <1>2, <1>3, <1>9, OpenedSound
    <3> QED
      BY <1>9, <3>1 DEF DataOps
  <2>2. PICK s : s = StartMessage(m, f)
    OBVIOUS
  <2>3. /\ s \in Message /\ s.outcome = "ok" /\ s.op = f.op /\ s.payload = <<>> /\ ~s.bad
        /\ s.stream = (IF m.queue # <<>> THEN Head(m.queue) ELSE m.stream)
    BY <2>1, <2>2, StartMessageIs
  <2>4. scenario.streams = 0 => s.stream = 0
    BY <2>3
  <2>5. Within(s, d, i, 0)
    BY <1>1, <1>2, <1>3, <1>9, <2>2, StartedWithin
  <2>6. v = IF f.size = 0 /\ f.fin THEN EmitMessage(s) ELSE s
    BY <1>1, <1>4, <1>9, <2>2 DEF HandleHeader
  <2>7. f.size = 0 => Ends(v, After[i])
    <3> HAVE f.size = 0
    <3>1. Ends(IF f.fin THEN ConsumeMessagePayloadChunk(s, f, <<>>, TRUE) ELSE s, DecodeFrame(d, i))
      BY <1>1, <1>2, <1>3, <1>9, <2>3, <2>4, <2>5, EmptyDataEnds
    <3>2. f.fin => ConsumeMessagePayloadChunk(s, f, <<>>, TRUE) = EmitMessage(s)
      <4> HAVE f.fin
      <4>1. s.stream = 0
        <5>1. scenario.streams = 0
          BY <1>1, <1>9, <2>1, UsualIs
        <5> QED
          BY <2>4, <5>1
      <4>2. s.op # "none"
        BY <2>1, <2>3
      <4>3. ConsumeMessagePayloadChunk(s, f, <<>>, TRUE) =
              IF s.stream # 0
              THEN IF f.fin THEN EndMessageStream(Got(s, <<>>)) ELSE Got(s, <<>>)
              ELSE IF s.op = "text" /\ scenario.failFast /\ Bad(<<>>) THEN Fail(s, "1007")
              ELSE IF f.fin THEN EmitMessage(Got(s, <<>>)) ELSE Got(s, <<>>)
        BY <4>2, ConsumeIs
      <4> QED
        BY <2>3, <4>1, <4>3, GotNothing
    <3> QED
      BY <1>2, <2>6, <3>1, <3>2
  <2> QED
    BY <1>1, <1>5, <1>9, <2>3, <2>5, <2>6, <2>7
<1> QED
  BY <1>6, <1>7, <1>8, <1>9

-----------------------------------------------------------------------------
(* The streams are used in turn: Count goes up with every streamed message.*)
LEMMA CountIs ==
  ASSUME NEW q, NEW k \in Nat
  PROVE  /\ Count(q, 0) = 0 /\ Count(q, k) \in Nat
         /\ Count(q, k + 1) = Count(q, k) + (IF IsStreamed(q[k + 1]) THEN 1 ELSE 0)
<1> DEFINE S(n) == {j \in 1..n : IsStreamed(q[j])}
<1>1. ASSUME NEW n \in Nat PROVE IsFiniteSet(S(n)) /\ Cardinality(S(n)) \in Nat
  <2>1. IsFiniteSet(1..n)
    BY FS_Interval
  <2>2. S(n) \in SUBSET (1..n)
    OBVIOUS
  <2>3. IsFiniteSet(S(n))
    <3> HIDE DEF S
    <3> QED
      BY <2>1, <2>2, FS_Subset
  <2> HIDE DEF S
  <2> QED
    BY <2>3, FS_CardinalityType
<1>2. \A n \in Nat : Count(q, n) = Cardinality(S(n))
  BY DEF Count
<1>3. S(0) = {}
  OBVIOUS
<1>4. S(k + 1) = IF IsStreamed(q[k + 1]) THEN S(k) \cup {k + 1} ELSE S(k)
  <2>1. 1..(k + 1) = (1..k) \cup {k + 1}
    OBVIOUS
  <2> QED
    BY <2>1
<1>5. k + 1 \notin S(k)
  OBVIOUS
<1> HIDE DEF S
<1>6. Cardinality(S(k) \cup {k + 1}) = Cardinality(S(k)) + 1
  BY <1>1, <1>5, FS_AddElement
<1>7. Cardinality(S(0)) = 0
  BY <1>3, FS_EmptySet
<1>8. k + 1 \in Nat /\ 0 \in Nat
  OBVIOUS
<1>9. Count(q, k + 1) = Cardinality(S(k + 1)) /\ Count(q, k) = Cardinality(S(k)) /\ Count(q, 0) = Cardinality(S(0))
  BY <1>2, <1>8
<1>10. Cardinality(S(k)) \in Nat
  BY <1>1
<1> QED
  BY <1>4, <1>6, <1>7, <1>9, <1>10

LEMMA CountSame ==
  ASSUME NEW q, NEW r, NEW n \in Nat, \A j \in 1..n : r[j] = q[j], NEW k \in 0..n
  PROVE  Count(r, k) = Count(q, k)
<1>1. {j \in 1..k : IsStreamed(r[j])} = {j \in 1..k : IsStreamed(q[j])}
  OBVIOUS
<1> QED
  BY <1>1 DEF Count

(* One more event.                                                         *)
LEMMA CountTold ==
  ASSUME NEW q \in Seq(Event), NEW e \in Event
  PROVE  /\ Append(q, e) \in Seq(Event) /\ Len(Append(q, e)) = Len(q) + 1
         /\ Count(q, Len(q)) \in Nat
         /\ Count(Append(q, e), Len(q) + 1) = Count(q, Len(q)) + (IF e.via # 0 THEN 1 ELSE 0)
         /\ InTurn(q) /\ (e.via # 0 => e.via = Count(q, Len(q)) + 1) => InTurn(Append(q, e))
<1>1. PICK n \in Nat : n = Len(q)
  OBVIOUS
<1>2. PICK r \in Seq(Event) : r = Append(q, e)
  <2>1. Append(q, e) \in Seq(Event)
    BY AppendProperties
  <2> QED
    BY <2>1
<1>3. Len(r) = n + 1 /\ r[n + 1] = e /\ \A j \in 1..n : r[j] = q[j]
  BY <1>1, <1>2, AppendProperties
<1>4. \A k \in 0..n : Count(r, k) = Count(q, k)
  BY <1>3, CountSame
<1>5. Count(q, n) \in Nat
  BY CountIs
<1>6. Count(r, n + 1) = Count(q, n) + (IF e.via # 0 THEN 1 ELSE 0)
  <2>1. Count(r, n + 1) = Count(r, n) + (IF IsStreamed(r[n + 1]) THEN 1 ELSE 0)
    BY CountIs
  <2>2. Count(r, n) = Count(q, n)
    BY <1>4
  <2> QED
    BY <1>3, <2>1, <2>2 DEF IsStreamed
<1>7. ASSUME InTurn(q), e.via # 0 => e.via = Count(q, n) + 1 PROVE InTurn(r)
  <2> SUFFICES ASSUME NEW k \in 1..Len(r), IsStreamed(r[k]) PROVE r[k].via = Count(r, k)
    BY DEF InTurn
  <2>1. CASE k = n + 1
    <3>1. r[k] = e /\ e.via # 0
      BY <1>3, <2>1 DEF IsStreamed
    <3> QED
      BY <1>6, <1>7, <2>1, <3>1
  <2>2. CASE k # n + 1
    <3>1. k \in 1..n /\ k \in 0..n
      BY <1>3, <2>2
    <3>2. r[k] = q[k] /\ Count(r, k) = Count(q, k)
      BY <1>3, <1>4, <3>1
    <3> QED
      BY <1>1, <1>7, <3>1, <3>2 DEF InTurn
  <2> QED
    BY <2>1, <2>2
<1> QED
  BY <1>1, <1>2, <1>3, <1>5, <1>6, <1>7

(* What becomes of m keeps the streams in turn.                            *)
Turns(m, v) == \A n \in Nat : StreamsInTurn(m, n) => StreamsInTurn(v, n)

LEMMA TurnsOn ==
  ASSUME NEW m, NEW v, NEW w, Turns(m, v), Turns(v, w)
  PROVE  Turns(m, w)
BY DEF Turns

LEMMA SameTurns ==
  ASSUME NEW m, NEW v, v.events = m.events, v.stream = m.stream, v.queue = m.queue
  PROVE  Turns(m, v)
BY DEF Turns, StreamsInTurn

LEMMA FailTurns ==
  ASSUME NEW m \in Message, NEW code \in Outcomes
  PROVE  Turns(m, Fail(m, code))
BY FailIs, SameTurns

LEMMA EmitTurns ==
  ASSUME NEW m \in Message, NEW op \in {"none", "text", "binary"} \cup ControlOps, NEW data \in Seq(Nat)
  PROVE  Turns(m, Emit(m, op, data, 0))
<1>1. PICK e \in Event : e = [op |-> op, data |-> data, via |-> 0]
  BY DEF Event
<1>2. PICK v : v = Emit(m, op, data, 0)
  OBVIOUS
<1>3. PICK q \in Seq(Event) : q = m.events
  BY DEF Message
<1>4. v.stream = m.stream /\ v.queue = m.queue /\ v.events = Append(q, e)
  <2>1. PICK via \in Nat : via = 0
    OBVIOUS
  <2>2. /\ Emit(m, op, data, via).stream = m.stream /\ Emit(m, op, data, via).queue = m.queue
        /\ Emit(m, op, data, via).events = Append(m.events, [op |-> op, data |-> data, via |-> via])
    BY EmitIs
  <2> QED
    BY <1>1, <1>2, <1>3, <2>1, <2>2
<1>5. PICK r : r = Append(q, e)
  OBVIOUS
<1>6. Len(r) = Len(q) + 1 /\ Count(r, Len(q) + 1) = Count(q, Len(q)) + (IF e.via # 0 THEN 1 ELSE 0)
      /\ Count(q, Len(q)) \in Nat /\ (InTurn(q) /\ (e.via # 0 => e.via = Count(q, Len(q)) + 1) => InTurn(r))
  BY <1>5, CountTold
<1>7. e.via = 0
  BY <1>1
<1>8. Count(r, Len(r)) = Count(q, Len(q)) /\ (InTurn(q) => InTurn(r))
  BY <1>6, <1>7
<1>9. Turns(m, v)
  BY <1>3, <1>4, <1>5, <1>8 DEF Turns, StreamsInTurn
<1> QED
  BY <1>2, <1>9

LEMMA EndMessageStreamTurns ==
  ASSUME NEW m \in Message, m.stream # 0
  PROVE  Turns(m, EndMessageStream(m))
<1>1. PICK e \in Event : e = [op |-> m.op, data |-> m.payload, via |-> m.stream]
  BY DEF Event, Message
<1>2. PICK v : v = EndMessageStream(m)
  OBVIOUS
<1>3. PICK q \in Seq(Event) : q = m.events
  BY DEF Message
<1>4. v.stream = 0 /\ v.queue = m.queue /\ v.events = Append(q, e)
  BY <1>1, <1>2, <1>3, EndMessageStreamIs
<1>5. PICK r : r = Append(q, e)
  OBVIOUS
<1>6. Len(r) = Len(q) + 1 /\ Count(r, Len(q) + 1) = Count(q, Len(q)) + (IF e.via # 0 THEN 1 ELSE 0)
      /\ Count(q, Len(q)) \in Nat /\ (InTurn(q) /\ (e.via # 0 => e.via = Count(q, Len(q)) + 1) => InTurn(r))
  BY <1>5, CountTold
<1>7. e.via = m.stream
  BY <1>1
<1>8. Count(r, Len(r)) = Count(q, Len(q)) + 1
  BY <1>6, <1>7
<1>9. ASSUME NEW n \in Nat, StreamsInTurn(m, n) PROVE StreamsInTurn(v, n)
  <2>1. /\ InTurn(q) /\ m.stream = Count(q, Len(q)) + 1
        /\ \A k \in 1..Len(m.queue) : m.queue[k] = Count(q, Len(q)) + 1 + k
        /\ n = Count(q, Len(q)) + 1 + Len(m.queue)
    BY <1>3, <1>6, <1>9 DEF StreamsInTurn
  <2>2. InTurn(r)
    BY <1>6, <1>7, <2>1
  <2>3. PICK c \in Nat : c = Count(q, Len(q)) + 1
    BY <1>6
  <2>4. PICK used : used = Count(v.events, Len(v.events)) + (IF v.stream = 0 THEN 0 ELSE 1)
    OBVIOUS
  <2>5. used = c
    BY <1>4, <1>5, <1>8, <2>3, <2>4
  <2> QED
    BY <1>4, <1>5, <2>1, <2>2, <2>3, <2>4, <2>5 DEF StreamsInTurn
<1>10. Turns(m, v)
  BY <1>9 DEF Turns
<1> QED
  BY <1>2, <1>10

LEMMA StartMessageTurns ==
  ASSUME NEW m \in Message, m.stream = 0, NEW f \in FrameType, f.op \in {"text", "binary"}
  PROVE  Turns(m, StartMessage(m, f))
<1>1. PICK v : v = StartMessage(m, f)
  OBVIOUS
<1>2. /\ v.events = m.events /\ v.stream = (IF m.queue # <<>> THEN Head(m.queue) ELSE 0)
      /\ v.queue = (IF m.queue # <<>> THEN Tail(m.queue) ELSE m.queue)
  BY <1>1, StartMessageIs
<1>3. PICK q \in Seq(Nat) : q = m.queue
  BY DEF Message
<1>4. PICK c \in Nat : c = Count(m.events, Len(m.events))
  <2>1. Len(m.events) \in Nat
    BY DEF Message
  <2> QED
    BY <2>1, CountIs
<1>5. CASE q = <<>>
  <2>1. v.stream = m.stream /\ v.queue = m.queue
    BY <1>2, <1>3, <1>5
  <2> QED
    BY <1>1, <1>2, <2>1, SameTurns
<1>6. CASE q # <<>>
  <2>1. v.stream = Head(q) /\ v.queue = Tail(q)
    BY <1>2, <1>3, <1>6
  <2>2. PICK t \in Seq(Nat), l \in Nat : t = Tail(q) /\ l = Len(q)
    <3>1. Tail(q) \in Seq(Nat) /\ Len(q) \in Nat
      BY <1>6, HeadTailProperties
    <3> QED
      BY <3>1
  <2>3. /\ l > 0 /\ Head(q) = q[1] /\ Len(t) = l - 1 /\ \A k \in 1..(l - 1) : t[k] = q[k + 1]
    BY <1>6, <2>2, HeadTailProperties, EmptySeq
  <2>4. ASSUME NEW n \in Nat, StreamsInTurn(m, n) PROVE StreamsInTurn(v, n)
    <3>1. InTurn(m.events) /\ (\A k \in 1..l : q[k] = c + k) /\ n = c + l
      BY <1>3, <1>4, <2>2, <2>4 DEF StreamsInTurn
    <3>2. q[1] = c + 1
      <4>1. 1 \in 1..l
        BY <2>3
      <4> QED
        BY <3>1, <4>1
    <3>3. v.stream = c + 1
      BY <2>1, <2>3, <3>2
    <3>4. ASSUME NEW k \in 1..(l - 1) PROVE t[k] = (c + 1) + k
      <4>1. k + 1 \in 1..l
        BY <2>3
      <4>2. q[k + 1] = c + (k + 1)
        BY <3>1, <4>1
      <4> QED
        BY <2>3, <4>2
    <3>5. n = (c + 1) + (l - 1)
      BY <2>3, <3>1
    <3>6. PICK used : used = Count(v.events, Len(v.events)) + (IF v.stream = 0 THEN 0 ELSE 1)
      OBVIOUS
    <3>7. used = c + 1
      BY <1>2, <1>4, <3>3, <3>6
    <3>8. v.queue = t /\ Len(v.queue) = l - 1 /\ InTurn(v.events)
      BY <1>2, <2>1, <2>2, <2>3, <3>1
    <3>9. \A k \in 1..Len(v.queue) : v.queue[k] = used + k
      BY <3>4, <3>7, <3>8
    <3>10. v.stream \in {0, used} /\ n = used + Len(v.queue)
      BY <3>3, <3>5, <3>7, <3>8
    <3> QED
      BY <3>6, <3>8, <3>9, <3>10 DEF StreamsInTurn
  <2>5. Turns(m, v)
    BY <2>4 DEF Turns
  <2> QED
    BY <1>1, <2>5
<1> QED
  BY <1>5, <1>6

(* receiveStream() queues one more.                                        *)
LEMMA QueuedTurns ==
  ASSUME NEW m \in Message, NEW n \in Nat, StreamsInTurn(m, n),
         NEW v, v.events = m.events, v.stream = m.stream, v.queue = Append(m.queue, n + 1)
  PROVE  StreamsInTurn(v, n + 1)
<1>1. PICK q \in Seq(Nat), l \in Nat : q = m.queue /\ l = Len(q)
  BY DEF Message
<1>2. PICK used \in Nat : used = Count(m.events, Len(m.events)) + (IF m.stream = 0 THEN 0 ELSE 1)
  <2>1. Len(m.events) \in Nat
    BY DEF Message
  <2>2. Count(m.events, Len(m.events)) \in Nat
    BY <2>1, CountIs
  <2> QED
    BY <2>2
<1>3. /\ InTurn(m.events) /\ m.stream \in {0, used}
      /\ (\A k \in 1..l : q[k] = used + k) /\ n = used + l
  BY <1>1, <1>2 DEF StreamsInTurn
<1>4. PICK r : r = Append(q, n + 1)
  OBVIOUS
<1>5. Len(r) = l + 1 /\ r[l + 1] = n + 1 /\ \A k \in 1..l : r[k] = q[k]
  <2>1. n + 1 \in Nat
    OBVIOUS
  <2> QED
    BY <1>1, <1>4, <2>1, AppendProperties
<1>6. ASSUME NEW k \in 1..(l + 1) PROVE r[k] = used + k
  <2>1. CASE k = l + 1
    BY <1>3, <1>5, <2>1
  <2>2. CASE k # l + 1
    <3>1. k \in 1..l
      BY <2>2
    <3> QED
      BY <1>3, <1>5, <3>1
  <2> QED
    BY <2>1, <2>2
<1>7. n + 1 = used + (l + 1)
  BY <1>3
<1>8. v.queue = r /\ used = Count(v.events, Len(v.events)) + (IF v.stream = 0 THEN 0 ELSE 1)
  BY <1>1, <1>2, <1>4
<1> QED
  BY <1>3, <1>5, <1>6, <1>7, <1>8 DEF StreamsInTurn

LEMMA EmitMessageTurns ==
  ASSUME NEW m \in Message
  PROVE  Turns(m, EmitMessage(m))
<1>1. m.op \in {"none", "text", "binary"} \cup ControlOps /\ m.payload \in Seq(Nat)
  BY DEF Message
<1>2. CASE m.stream # 0 /\ m.op = "binary"
  <2>1. EmitMessage(m) = [m EXCEPT !.outcome = "crashed"]
    BY <1>2 DEF EmitMessage
  <2>2. PICK v : v = [m EXCEPT !.outcome = "crashed"]
    OBVIOUS
  <2>3. v.events = m.events /\ v.stream = m.stream /\ v.queue = m.queue
    BY <2>2 DEF Message
  <2> QED
    BY <2>1, <2>2, <2>3, SameTurns
<1>3. CASE ~(m.stream # 0 /\ m.op = "binary") /\ m.op = "text" /\ ~scenario.failFast /\ (m.bad \/ m.stream # 0)
  BY <1>3, FailTurns DEF EmitMessage, Outcomes
<1>4. CASE ~(m.stream # 0 /\ m.op = "binary") /\ ~(m.op = "text" /\ ~scenario.failFast /\ (m.bad \/ m.stream # 0))
  <2>1. PICK v : v = Emit(m, m.op, m.payload, 0)
    OBVIOUS
  <2>2. Turns(m, v)
    BY <1>1, <2>1, EmitTurns
  <2>3. v \in Message
    BY <1>1, <2>1, EmitIs
  <2>4. Turns(v, Forget(v))
    BY <2>3, ForgetIs, SameTurns
  <2>5. EmitMessage(m) = Forget(v)
    BY <1>4, <2>1 DEF EmitMessage
  <2> QED
    BY <2>2, <2>4, <2>5, TurnsOn
<1> QED
  BY <1>2, <1>3, <1>4

LEMMA HandleControlFrameTurns ==
  ASSUME NEW m \in Message, NEW f \in FrameType, IsControl(f), NEW payload \in Seq(Nat)
  PROVE  Turns(m, HandleControlFrame(m, f, payload))
<1>1. f.code \in Nat /\ f.op \in ControlOps
  BY DEF FrameType, IsControl
<1>2. CASE f.op = "close"
  <2>1. \/ HandleControlFrame(m, f, payload) = Emit(m, "close", <<1005>>, 0)
        \/ HandleControlFrame(m, f, payload) = Fail(m, "1002")
        \/ HandleControlFrame(m, f, payload) = Fail(m, "1007")
        \/ HandleControlFrame(m, f, payload) = Emit(m, "close", <<f.code>>, 0)
    BY <1>2 DEF HandleControlFrame, HandleCloseFrame
  <2>2. <<1005>> \in Seq(Nat) /\ <<f.code>> \in Seq(Nat) /\ "close" \in {"none", "text", "binary"} \cup ControlOps
    BY <1>1 DEF ControlOps
  <2>3. PICK none \in Seq(Nat), some \in Seq(Nat), op \in {"none", "text", "binary"} \cup ControlOps :
          none = <<1005>> /\ some = <<f.code>> /\ op = "close"
    BY <2>2, ZenonT(60)
  <2>4. Turns(m, Fail(m, "1002")) /\ Turns(m, Fail(m, "1007"))
    BY FailTurns DEF Outcomes
  <2>5. Turns(m, Emit(m, op, none, 0)) /\ Turns(m, Emit(m, op, some, 0))
    BY EmitTurns
  <2> QED
    BY <2>1, <2>3, <2>4, <2>5
<1>3. CASE f.op # "close"
  <2>1. HandleControlFrame(m, f, payload) = Emit(m, f.op, payload, 0)
    BY <1>3 DEF HandleControlFrame
  <2> QED
    BY <1>1, <2>1, EmitTurns
<1> QED
  BY <1>2, <1>3

LEMMA ConsumeTurns ==
  ASSUME NEW m \in Message, NEW f, NEW chunk \in Seq(Nat), NEW final
  PROVE  Turns(m, ConsumeMessagePayloadChunk(m, f, chunk, final))
<1>1. PICK got : got = Got(m, chunk)
  OBVIOUS
<1>2. got \in Message /\ got.stream = m.stream /\ Turns(m, got)
  BY <1>1, GotIs, SameTurns
<1>3. CASE m.stream # 0
  <2>1. ConsumeMessagePayloadChunk(m, f, chunk, final) = IF final /\ f.fin THEN EndMessageStream(got) ELSE got
    BY <1>1, <1>3 DEF ConsumeMessagePayloadChunk, Got
  <2>2. Turns(got, EndMessageStream(got))
    BY <1>2, <1>3, EndMessageStreamTurns
  <2> QED
    BY <1>2, <2>1, <2>2, TurnsOn
<1>4. CASE m.stream = 0
  <2>1. \/ ConsumeMessagePayloadChunk(m, f, chunk, final) = got
        \/ ConsumeMessagePayloadChunk(m, f, chunk, final) = [m EXCEPT !.outcome = "crashed"]
        \/ ConsumeMessagePayloadChunk(m, f, chunk, final) = Fail(m, "1007")
        \/ ConsumeMessagePayloadChunk(m, f, chunk, final) = EmitMessage(got)
    BY <1>1, <1>4 DEF ConsumeMessagePayloadChunk, Got
  <2>2. Turns(got, EmitMessage(got))
    BY <1>2, EmitMessageTurns
  <2>3. Turns(m, Fail(m, "1007"))
    BY FailTurns DEF Outcomes
  <2>4. PICK v : v = [m EXCEPT !.outcome = "crashed"]
    OBVIOUS
  <2>5. v.events = m.events /\ v.stream = m.stream /\ v.queue = m.queue
    BY <2>4 DEF Message
  <2>6. Turns(m, v)
    BY <2>5, SameTurns
  <2> QED
    BY <1>2, <2>1, <2>2, <2>3, <2>4, <2>6, TurnsOn
<1> QED
  BY <1>3, <1>4

LEMMA ConsumedTurns ==
  ASSUME Given, NEW m \in Message, NEW fr, fr.i \in 1..Len(frames), fr.payload \in Seq(Nat),
         NEW chunk \in Seq(Nat), NEW final \in BOOLEAN
  PROVE  Turns(m, Consumed(m, fr, chunk, final))
<1>1. PICK f \in FrameType : f = frames[fr.i]
  BY FrameIs
<1>2. Turns(m, m)
  BY SameTurns
<1>3. PICK p \in Seq(Nat) : p = fr.payload \o chunk
  BY ConcatProperties
<1>4. CASE IsControl(f)
  <2>1. Turns(m, HandleControlFrame(m, f, p))
    BY <1>4, HandleControlFrameTurns
  <2>2. Consumed(m, fr, chunk, final) = IF final THEN HandleControlFrame(m, f, p) ELSE m
    BY <1>1, <1>3, <1>4 DEF Consumed
  <2> QED
    BY <1>2, <2>1, <2>2
<1>5. CASE ~IsControl(f)
  <2>1. PICK b : b = (fr.consumed = f.size)
    OBVIOUS
  <2>2. Consumed(m, fr, chunk, final) = ConsumeMessagePayloadChunk(m, f, chunk, b)
    BY <1>1, <1>5, <2>1 DEF Consumed
  <2> QED
    BY <2>2, ConsumeTurns
<1> QED
  BY <1>4, <1>5

LEMMA HandleHeaderTurns ==
  ASSUME Given, NEW m \in Message, ~m.fragmented => m.stream = 0, NEW f \in FrameType
  PROVE  Turns(m, HandleHeader(m, f))
<1>1. <<>> \in Seq(Nat) /\ Turns(m, m)
  BY SameTurns
<1>2. CASE IllegalHeader(m, f)
  BY <1>2, FailTurns DEF HandleHeader, Outcomes
<1>3. CASE ~IllegalHeader(m, f) /\ IsControl(f)
  BY <1>1, <1>3, HandleControlFrameTurns DEF HandleHeader
<1>4. CASE ~IllegalHeader(m, f) /\ ~IsControl(f) /\ f.op = "continuation"
  <2>1. HandleHeader(m, f) = ConsumeMessagePayloadChunk(m, f, <<>>, TRUE) \/ HandleHeader(m, f) = m
    BY <1>4 DEF HandleHeader
  <2> QED
    BY <1>1, <2>1, ConsumeTurns
<1>5. CASE ~IllegalHeader(m, f) /\ ~IsControl(f) /\ f.op # "continuation"
  <2>1. f.op \in {"text", "binary"} /\ m.stream = 0
    BY <1>5 DEF IllegalHeader, IsControl, FrameType, DataOps
  <2>2. PICK v : v = StartMessage(m, f)
    OBVIOUS
  <2>3. v \in Message /\ Turns(m, v)
    BY <2>1, <2>2, StartMessageTurns, StartMessageIs
  <2>4. Turns(v, EmitMessage(v))
    BY <2>3, EmitMessageTurns
  <2>5. HandleHeader(m, f) = EmitMessage(v) \/ HandleHeader(m, f) = v
    BY <1>5, <2>2 DEF HandleHeader
  <2> QED
    BY <2>3, <2>4, <2>5, TurnsOn
<1> QED
  BY <1>2, <1>3, <1>4, <1>5

(* Without streams none is used.                                           *)
LEMMA NoStreams ==
  ASSUME NEW m \in Message, StreamsInTurn(m, 0)
  PROVE  m.stream = 0 /\ m.queue = <<>>
<1>1. PICK used \in Nat : used = Count(m.events, Len(m.events)) + (IF m.stream = 0 THEN 0 ELSE 1)
  <2>1. Len(m.events) \in Nat
    BY DEF Message
  <2>2. Count(m.events, Len(m.events)) \in Nat
    BY <2>1, CountIs
  <2> QED
    BY <2>2
<1>2. PICK q \in Seq(Nat), l \in Nat : q = m.queue /\ l = Len(q)
  BY DEF Message
<1>3. m.stream \in {0, used} /\ 0 = used + l
  BY <1>1, <1>2 DEF StreamsInTurn
<1>4. used = 0 /\ l = 0
  BY <1>3
<1>5. q = <<>>
  BY <1>2, <1>4, EmptySeq
<1> QED
  BY <1>2, <1>3, <1>4, <1>5

-----------------------------------------------------------------------------
(* What is said of the frames that were sent does not change.              *)
LEMMA MeansStays ==
  ASSUME Given, UNCHANGED given
  PROVE  /\ expected' = expected /\ After' = After /\ frames' = frames
         /\ \A m, fr, q, h : Framed(m, fr, q, h)' <=> Framed(m, fr, q, h)
         /\ \A m, part, fr, h : Settled(m, part, fr, h)' <=> Settled(m, part, fr, h)
         /\ \A m : Over(m)' <=> Over(m)
<1>1. scenario' = scenario /\ starts' = starts /\ frames' = frames /\ After' = After
  BY GivenStays, AfterStays
<1>2. expected' = expected
  BY DEF given
<1>3. \A i : HeaderEnd(i)' = HeaderEnd(i)
  BY <1>1 DEF HeaderEnd, Header2Size
<1>4. \A f, open : Broken(f, open)' <=> Broken(f, open)
  BY <1>1 DEF Broken
<1>5. \A d, i : Readable(d, i)' <=> Readable(d, i)
  BY <1>1, <1>4 DEF Readable
<1>6. \A m, d, i, c : Within(m, d, i, c)' <=> Within(m, d, i, c)
  BY <1>1, <1>3, SMTT(60) DEF Within
<1>7. \A m, q, h, consumed, i, c, x : Divided(m, q, h, consumed, i, c, x)' <=> Divided(m, q, h, consumed, i, c, x)
  BY <1>1, <1>3, <1>6 DEF Divided
<1>8. \A m, fr, q, h : Framed(m, fr, q, h)' <=> Framed(m, fr, q, h)
  BY <1>1, <1>3, <1>5, <1>7 DEF Framed
<1>9. \A m, part, fr, h : Settled(m, part, fr, h)' <=> Settled(m, part, fr, h)
  BY <1>1 DEF Settled
<1>10. \A m : Over(m)' <=> Over(m)
  BY <1>1, <1>2 DEF Over
<1> QED
  BY <1>1, <1>2, <1>8, <1>9, <1>10

(* The step leaves the reader within a frame, ...                          *)
LEMMA NowFramed ==
  ASSUME Given, UNCHANGED given, MeaningInv, NEW m, NEW fr, NEW q, NEW h,
         msg' = m, frame' = fr, inflates' = q, held' = h, Framed(m, fr, q, h),
         IF q # <<>> THEN pc' = "inflating" /\ m.outcome \in {"ok", "destroyed"}
         ELSE pc' # "inflating" /\ m.outcome = "ok" /\ next' = "payload",
         StreamsInTurn(m, calls')
  PROVE  MeaningInv'
<1>1. expected' = expected /\ After' = After /\ frames' = frames /\ (Framed(m, fr, q, h)' <=> Framed(m, fr, q, h))
  BY MeansStays
<1>2. Framed(msg, frame, inflates, held)'
  BY <1>1
<1>3. InFrame'
  BY DEF InFrame
<1>4. FrameInv' /\ BetweenInv' /\ OverInv'
  BY <1>2, <1>3 DEF FrameInv, BetweenInv, OverInv
<1>5. AnswerInv'
  BY DEF AnswerInv
<1>6. StreamsInTurn(msg, calls)'
  BY DEF StreamsInTurn, InTurn, Count, IsStreamed
<1>7. (expected = After[Len(frames)])'
  BY <1>1 DEF MeaningInv
<1> QED
  BY <1>4, <1>5, <1>6, <1>7 DEF MeaningInv

(* ... between two, ...                                                    *)
LEMMA NowSettled ==
  ASSUME Given, UNCHANGED given, MeaningInv, NEW m, NEW part, NEW fr, NEW h,
         msg' = m, next' = part, frame' = fr, inflates' = <<>>, held' = h, Settled(m, part, fr, h),
         pc' # "inflating", m.outcome = "ok", part # "payload", StreamsInTurn(m, calls')
  PROVE  MeaningInv'
<1>1. expected' = expected /\ After' = After /\ frames' = frames /\ (Settled(m, part, fr, h)' <=> Settled(m, part, fr, h))
  BY MeansStays
<1>2. Settled(msg, next, frame, held)'
  BY <1>1
<1>3. ~InFrame'
  BY DEF InFrame
<1>4. FrameInv' /\ BetweenInv' /\ OverInv'
  BY <1>2, <1>3 DEF FrameInv, BetweenInv, OverInv
<1>5. AnswerInv'
  BY DEF AnswerInv
<1>6. StreamsInTurn(msg, calls)'
  BY DEF StreamsInTurn, InTurn, Count, IsStreamed
<1>7. (expected = After[Len(frames)])'
  BY <1>1 DEF MeaningInv
<1> QED
  BY <1>4, <1>5, <1>6, <1>7 DEF MeaningInv

(* ... or at its end.                                                      *)
LEMMA NowOver ==
  ASSUME Given, UNCHANGED given, MeaningInv, NEW m,
         msg' = m, inflates' = <<>>, Over(m), pc' # "inflating", m.outcome # "ok", StreamsInTurn(m, calls')
  PROVE  MeaningInv'
<1>1. expected' = expected /\ After' = After /\ frames' = frames /\ (Over(m)' <=> Over(m))
  BY MeansStays
<1>2. Over(msg)'
  BY <1>1
<1>3. ~InFrame'
  BY DEF InFrame
<1>4. FrameInv' /\ BetweenInv' /\ OverInv'
  BY <1>2, <1>3 DEF FrameInv, BetweenInv, OverInv
<1>5. AnswerInv'
  BY DEF AnswerInv
<1>6. StreamsInTurn(msg, calls)'
  BY DEF StreamsInTurn, InTurn, Count, IsStreamed
<1>7. (expected = After[Len(frames)])'
  BY <1>1 DEF MeaningInv
<1> QED
  BY <1>4, <1>5, <1>6, <1>7 DEF MeaningInv

(* A message that ends with frame i.                                       *)
LEMMA EndsOver ==
  ASSUME Given, expected = After[Len(frames)], NEW i \in 1..Len(frames), NEW m, Ends(m, After[i]), m.outcome # "ok"
  PROVE  Over(m)
<1>1. Len(frames) \in Nat /\ i \in 0..Len(frames) /\ Len(frames) \in i..Len(frames)
  BY ScenarioIs
<1>2. Handed(m) = After[i].events /\ (m.outcome \notin {"ok", "destroyed"} => m.outcome = After[i].verdict)
  BY DEF Ends
<1>3. m.outcome # "destroyed" => expected = After[i]
  BY <1>1, <1>2, AfterBegins
<1> QED
  BY <1>1, <1>2, <1>3 DEF Over

LEMMA NowEnded ==
  ASSUME Given, UNCHANGED given, MeaningInv, NEW m, NEW fr, NEW i \in 1..Len(frames),
         msg' = m, next' = "header1", frame' = fr, fr.i = i, inflates' = <<>>, held' = <<>>, pc' # "inflating",
         Ends(m, After[i]), StreamsInTurn(m, calls')
  PROVE  MeaningInv'
<1>1. CASE m.outcome = "ok"
  <2>1. Between(m, After[i])
    BY <1>1 DEF Ends
  <2>2. PICK h, part : h = <<>> /\ part = "header1"
    OBVIOUS
  <2>3. Settled(m, part, fr, h)
    BY <2>1, <2>2 DEF Settled
  <2>4. next' = part /\ held' = h /\ part # "payload"
    BY <2>2
  <2> QED
    BY <1>1, <2>3, <2>4, NowSettled
<1>2. CASE m.outcome # "ok"
  <2>1. expected = After[Len(frames)]
    BY DEF MeaningInv
  <2>2. Over(m)
    BY <1>2, <2>1, EndsOver
  <2> QED
    BY <1>2, <2>2, NowOver
<1> QED
  BY <1>1, <1>2

-----------------------------------------------------------------------------
(* A step that changes neither what a message is nor the frame.            *)
Alike(m, v) ==
  /\ v.op = m.op /\ v.fragmented = m.fragmented /\ v.compressed = m.compressed /\ v.payload = m.payload
  /\ v.bad = m.bad /\ v.stream = m.stream /\ v.events = m.events

LEMMA AlikeFramed ==
  ASSUME NEW m, NEW v, Alike(m, v)
  PROVE  /\ Handed(v) = Handed(m)
         /\ \A fr, q, h : Framed(m, fr, q, h) => Framed(v, fr, q, h)
         /\ \A part, fr, h : Settled(m, part, fr, h) => Settled(v, part, fr, h)
<1>1. Handed(v) = Handed(m)
  BY HandedSame DEF Alike
<1>2. \A d : Between(m, d) => Between(v, d)
  BY <1>1 DEF Alike, Between
<1>3. \A d, i, c : Within(m, d, i, c) => Within(v, d, i, c)
  BY <1>1 DEF Alike, Within
<1>4. \A q, h, consumed, i, c, x : Divided(m, q, h, consumed, i, c, x) => Divided(v, q, h, consumed, i, c, x)
  BY <1>3 DEF Alike, Divided
<1>5. \A fr, q, h : Framed(m, fr, q, h) => Framed(v, fr, q, h)
  BY <1>2, <1>4 DEF Alike, Framed
<1>6. \A part, fr, h : Settled(m, part, fr, h) => Settled(v, part, fr, h)
  BY <1>2 DEF Settled
<1> QED
  BY <1>1, <1>5, <1>6

(* What is handed over before a frame, or of the frames there were.        *)
LEMMA FramedHanded ==
  ASSUME Given, NEW m, NEW fr \in [i : 0..Len(frames), consumed : Nat, payload : Seq(Nat)], NEW q, NEW h, Framed(m, fr, q, h)
  PROVE  fr.i \in 1..Len(frames) /\ Handed(m) = After[fr.i - 1].events
<1>1. Len(frames) \in Nat
  BY ScenarioIs
<1>2. fr.i \in 1..Len(frames)
  BY <1>1 DEF Framed
<1>3. CASE IsControl(frames[fr.i])
  BY <1>2, <1>3 DEF Framed, Between
<1>4. CASE ~IsControl(frames[fr.i])
  <2>1. PICK x \in 0..fr.consumed : \E c \in 0..x : Divided(m, q, h, fr.consumed, fr.i, c, x)
    BY <1>4 DEF Framed
  <2>2. PICK c \in 0..x : Within(m, After[fr.i - 1], fr.i, c)
    BY <2>1 DEF Divided
  <2> QED
    BY <1>2, <2>2 DEF Within
<1> QED
  BY <1>3, <1>4

LEMMA SettledHanded ==
  ASSUME Given, NEW m, NEW fr \in [i : 0..Len(frames), consumed : Nat, payload : Seq(Nat)], NEW part, NEW h,
         part = "header2" => fr.i # 0, Settled(m, part, fr, h)
  PROVE  \E j \in 0..Len(frames) : Handed(m) = After[j].events
<1>1. Len(frames) \in Nat
  BY ScenarioIs
<1>2. PICK j : j = IF part = "header2" THEN fr.i - 1 ELSE fr.i
  OBVIOUS
<1>3. j \in 0..Len(frames)
  BY <1>1, <1>2
<1>4. Handed(m) = After[j].events
  BY <1>2 DEF Settled, Between
<1> QED
  BY <1>3, <1>4

LEMMA AlikeMeans ==
  ASSUME Given, UNCHANGED given, msg \in Message, MeaningInv, NEW v, msg' = v, Alike(msg, v), v.outcome = msg.outcome,
         UNCHANGED <<next, frame, inflates, held>>, pc' = pc \/ (pc # "inflating" /\ pc' # "inflating"),
         StreamsInTurn(v, calls')
  PROVE  MeaningInv'
<1>1. PICK part, fr, q, h : part = next /\ fr = frame /\ q = inflates /\ h = held
  OBVIOUS
<1>2. next' = part /\ frame' = fr /\ inflates' = q /\ held' = h
  BY <1>1
<1>3. FrameInv /\ BetweenInv /\ OverInv /\ AnswerInv
  BY DEF MeaningInv
<1>4. CASE InFrame
  <2>1. Framed(v, fr, q, h)
    <3>1. Framed(msg, fr, q, h)
      BY <1>1, <1>3, <1>4 DEF FrameInv
    <3> QED
      BY <3>1, AlikeFramed
  <2>2. IF q # <<>> THEN pc' = "inflating" /\ v.outcome \in {"ok", "destroyed"}
        ELSE pc' # "inflating" /\ v.outcome = "ok" /\ next' = "payload"
    BY <1>1, <1>2, <1>3, <1>4 DEF InFrame, AnswerInv
  <2> QED
    BY <1>2, <2>1, <2>2, NowFramed
<1>5. CASE ~InFrame
  <2>1. q = <<>> /\ pc' # "inflating" /\ ~(v.outcome = "ok" /\ part = "payload")
    BY <1>1, <1>3, <1>5 DEF InFrame, AnswerInv
  <2>2. CASE v.outcome = "ok"
    <3>1. Settled(v, part, fr, h)
      <4>1. Settled(msg, part, fr, h)
        BY <1>1, <1>3, <1>5, <2>2 DEF BetweenInv
      <4> QED
        BY <4>1, AlikeFramed
    <3> QED
      BY <1>2, <2>1, <2>2, <3>1, NowSettled
  <2>3. CASE v.outcome # "ok"
    <3>1. Over(v)
      <4>1. Over(msg)
        BY <1>3, <1>5, <2>3 DEF OverInv
      <4> QED
        BY <4>1, AlikeFramed DEF Over
    <3> QED
      BY <1>2, <2>1, <2>3, <3>1, NowOver
  <2> QED
    BY <2>2, <2>3
<1> QED
  BY <1>4, <1>5

LEMMA TransformMeans ==
  ASSUME ReaderInv, MeaningInv, NEW n, Transform(n)
  PROVE  MeaningInv'
<1>1. Given /\ msg \in Message /\ StreamsInTurn(msg, calls)
  BY DEF ReaderInv, TypeInv, MeaningInv
<1>2. PICK v : v = msg
  OBVIOUS
<1>3. Alike(msg, v)
  BY <1>2 DEF Alike
<1>4. UNCHANGED given /\ msg' = v /\ UNCHANGED <<next, frame, inflates, held>> /\ pc # "inflating" /\ pc' # "inflating" /\ calls' = calls
  BY <1>2 DEF Transform
<1> QED
  BY <1>1, <1>2, <1>3, <1>4, AlikeMeans

LEMMA LeavePayloadMeans ==
  ASSUME ReaderInv, MeaningInv, LeavePayload
  PROVE  MeaningInv'
<1>1. Given /\ msg \in Message /\ StreamsInTurn(msg, calls)
  BY DEF ReaderInv, TypeInv, MeaningInv
<1>2. PICK v : v = msg
  OBVIOUS
<1>3. Alike(msg, v)
  BY <1>2 DEF Alike
<1>4. UNCHANGED given /\ msg' = v /\ UNCHANGED <<next, frame, inflates, held>> /\ pc # "inflating" /\ pc' # "inflating" /\ calls' = calls
  BY <1>2 DEF LeavePayload
<1> QED
  BY <1>1, <1>2, <1>3, <1>4, AlikeMeans

LEMMA CallbackMeans ==
  ASSUME ReaderInv, MeaningInv, Callback
  PROVE  MeaningInv'
<1>1. Given /\ msg \in Message /\ StreamsInTurn(msg, calls)
  BY DEF ReaderInv, TypeInv, MeaningInv
<1>2. PICK v : v = msg
  OBVIOUS
<1>3. Alike(msg, v)
  BY <1>2 DEF Alike
<1>4. UNCHANGED given /\ msg' = v /\ UNCHANGED <<next, frame, inflates, held>> /\ pc # "inflating" /\ pc' # "inflating" /\ calls' = calls
  BY <1>2 DEF Callback
<1> QED
  BY <1>1, <1>2, <1>3, <1>4, AlikeMeans

LEMMA StutterMeans ==
  ASSUME ReaderInv, MeaningInv, UNCHANGED vars
  PROVE  MeaningInv'
<1>1. Given /\ msg \in Message /\ StreamsInTurn(msg, calls)
  BY DEF ReaderInv, TypeInv, MeaningInv
<1>2. PICK v : v = msg
  OBVIOUS
<1>3. Alike(msg, v)
  BY <1>2 DEF Alike
<1>4. UNCHANGED given /\ msg' = v /\ UNCHANGED <<next, frame, inflates, held>> /\ pc' = pc /\ calls' = calls
  BY <1>2 DEF vars
<1> QED
  BY <1>1, <1>2, <1>3, <1>4, AlikeMeans

LEMMA ReceiveStreamMeans ==
  ASSUME ReaderInv, MeaningInv, ReceiveStream
  PROVE  MeaningInv'
<1>1. Given /\ msg \in Message /\ StreamsInTurn(msg, calls) /\ calls \in 0..scenario.streams
  BY DEF ReaderInv, TypeInv, MeaningInv
<1>2. PICK n \in Nat : n = calls
  BY <1>1, ScenarioIs
<1>3. PICK s : s = Append(msg.queue, n + 1)
  OBVIOUS
<1>4. PICK v : v = [msg EXCEPT !.queue = s]
  OBVIOUS
<1>5. Alike(msg, v) /\ v.outcome = msg.outcome /\ v.queue = s /\ v.events = msg.events /\ v.stream = msg.stream
  BY <1>1, <1>4 DEF Alike, Message
<1>6. /\ UNCHANGED given /\ msg' = v /\ UNCHANGED <<next, frame, inflates, held>> /\ pc' = pc
      /\ calls' = n + 1
  BY <1>2, <1>3, <1>4 DEF ReceiveStream
<1>7. StreamsInTurn(v, calls')
  BY <1>1, <1>2, <1>3, <1>5, <1>6, QueuedTurns
<1> QED
  BY <1>1, <1>5, <1>6, <1>7, AlikeMeans

LEMMA DestroyMeans ==
  ASSUME ReaderInv, MeaningInv, Destroy
  PROVE  MeaningInv'
<1>1. /\ Given /\ msg \in Message /\ StreamsInTurn(msg, calls) /\ calls \in 0..scenario.streams
      /\ frame \in [i : 0..Len(frames), consumed : Nat, payload : Seq(Nat)]
      /\ frame.i = 0 => next = "header1"
  BY DEF ReaderInv, TypeInv, MeaningInv
<1>2. FrameInv /\ BetweenInv /\ AnswerInv
  BY DEF MeaningInv
<1>3. PICK v : v = [msg EXCEPT !.outcome = "destroyed"]
  OBVIOUS
<1>4. Alike(msg, v) /\ v.outcome = "destroyed" /\ v.queue = msg.queue
  BY <1>1, <1>3 DEF Alike, Message
<1>5. /\ UNCHANGED given /\ msg' = v /\ UNCHANGED <<next, frame, inflates, held, calls>> /\ pc' = pc
      /\ msg.outcome = "ok"
  BY <1>3 DEF Destroy, Fail
<1>6. StreamsInTurn(v, calls')
  <2>1. calls \in Nat
    BY <1>1, ScenarioIs
  <2>2. Turns(msg, v)
    BY <1>4, SameTurns DEF Alike
  <2> QED
    BY <1>1, <1>5, <2>1, <2>2 DEF Turns
<1>7. PICK part, fr, q, h : part = next /\ fr = frame /\ q = inflates /\ h = held
  OBVIOUS
<1>8. CASE inflates # <<>>
  <2>1. Framed(msg, fr, q, h)
    BY <1>2, <1>7, <1>8 DEF FrameInv, InFrame
  <2>2. Framed(v, fr, q, h)
    BY <1>4, <2>1, AlikeFramed
  <2>3. pc' = "inflating"
    BY <1>2, <1>5, <1>8 DEF AnswerInv
  <2>4. frame' = fr /\ inflates' = q /\ held' = h /\ q # <<>> /\ v.outcome \in {"ok", "destroyed"}
    BY <1>4, <1>5, <1>7, <1>8
  <2> QED
    BY <1>1, <1>5, <1>6, <2>2, <2>3, <2>4, NowFramed
<1>9. CASE inflates = <<>>
  <2>1. pc' # "inflating"
    BY <1>2, <1>5, <1>9 DEF AnswerInv
  <2>2. \E j \in 0..Len(frames) : Handed(msg) = After[j].events
    <3>1. CASE next = "payload"
      <4>1. Framed(msg, fr, q, h)
        BY <1>2, <1>5, <1>7, <3>1 DEF FrameInv, InFrame
      <4>2. fr.i \in 1..Len(frames) /\ Handed(msg) = After[fr.i - 1].events
        BY <1>1, <1>7, <4>1, FramedHanded
      <4>3. fr.i - 1 \in 0..Len(frames)
        BY <1>1, <4>2, ScenarioIs
      <4> QED
        BY <4>2, <4>3
    <3>2. CASE next # "payload"
      <4>1. Settled(msg, part, fr, h)
        BY <1>2, <1>5, <1>7, <1>9, <3>2 DEF BetweenInv, InFrame
      <4> QED
        BY <1>1, <1>7, <4>1, SettledHanded
    <3> QED
      BY <3>1, <3>2
  <2>3. Over(v)
    BY <1>4, <2>2, AlikeFramed DEF Over
  <2>4. inflates' = <<>> /\ v.outcome # "ok"
    BY <1>4, <1>5, <1>9
  <2> QED
    BY <1>1, <1>5, <1>6, <2>1, <2>3, <2>4, NowOver
<1> QED
  BY <1>8, <1>9

-----------------------------------------------------------------------------
(* The header of frame i was read between two frames.                      *)
LEMMA HeaderMeans ==
  ASSUME Given, UNCHANGED given, Usual, MeaningInv, msg \in Message, msg.outcome = "ok",
         calls \in 0..scenario.streams, calls' = calls, inflates = <<>>, held' = <<>>, pc' = "loop",
         NEW i \in 1..Len(frames), frames[i].size # Huge, Between(msg, After[i - 1]),
         NEW fr, frame' = fr, fr.i = i, fr.consumed = 0, fr.payload = <<>>,
         HandleFrameHeader(frames[i])
  PROVE  MeaningInv'
<1>1. PICK m \in Message : m = msg
  OBVIOUS
<1>2. PICK f \in FrameType, size \in Nat : f = frames[i] /\ size = f.size
  BY FrameIs
<1>3. PICK d, v : d = After[i - 1] /\ v = HandleHeader(m, f)
  OBVIOUS
<1>4. Meaningful(d)
  <2>1. i - 1 \in 0..Len(frames)
    BY ScenarioIs
  <2> QED
    BY <1>3, <2>1, AfterMeaningful
<1>5. StreamsInTurn(m, calls) /\ calls \in Nat
  BY <1>1, ScenarioIs DEF MeaningInv
<1>6. scenario.streams = 0 => m.stream = 0 /\ m.queue = <<>>
  <2> HAVE scenario.streams = 0
  <2>1. calls = 0
    BY <1>5
  <2> QED
    BY <1>5, <2>1, NoStreams
<1>7. m.outcome = "ok" /\ Between(m, d)
  BY <1>1, <1>3
<1>8. /\ ~(EmptyEnd(m, f) /\ m.compressed)
      /\ Broken(f, d.open) => v.outcome = "1002"
      /\ Broken(f, d.open) \/ f.size = 0 => Ends(v, After[i])
      /\ ~Broken(f, d.open) /\ f.size # 0 =>
           /\ v.outcome = "ok"
           /\ IF IsControl(f) THEN v = m ELSE Within(v, d, i, 0)
  BY <1>2, <1>3, <1>6, <1>7, HeaderHandled
<1>9. msg' = v /\ inflates' = <<>> /\ next' = IF size > 0 THEN "payload" ELSE "header1"
  BY <1>1, <1>2, <1>3, <1>8 DEF HandleFrameHeader, AfterHeader
<1>10. pc' # "inflating"
  OBVIOUS
<1>11. StreamsInTurn(v, calls')
  <2>1. ~m.fragmented => m.stream = 0
    BY <1>7 DEF Between
  <2>2. Turns(m, v)
    BY <1>3, <2>1, HandleHeaderTurns
  <2> QED
    BY <1>5, <2>2 DEF Turns
<1>12. CASE Broken(f, d.open)
  <2>1. expected = After[Len(frames)]
    BY DEF MeaningInv
  <2>2. v.outcome # "ok" /\ Ends(v, After[i])
    BY <1>8, <1>12
  <2>3. Over(v)
    BY <2>1, <2>2, EndsOver
  <2> QED
    BY <1>9, <1>10, <1>11, <2>2, <2>3, NowOver
<1>13. CASE ~Broken(f, d.open) /\ size = 0
  <2>1. Ends(v, After[i]) /\ next' = "header1"
    BY <1>2, <1>8, <1>9, <1>13
  <2> QED
    BY <1>9, <1>10, <1>11, <2>1, NowEnded
<1>14. CASE ~Broken(f, d.open) /\ size # 0
  <2>1. next' = "payload" /\ v.outcome = "ok" /\ IF IsControl(f) THEN v = m ELSE Within(v, d, i, 0)
    BY <1>2, <1>8, <1>9, <1>14
  <2>2. Readable(d, i) /\ i # 0
    <3>1. d.verdict = "ok"
      BY <1>7 DEF Between
    <3> QED
      BY <1>2, <1>14, <3>1, ScenarioIs DEF Readable
  <2>3. PICK none : none = <<>>
    OBVIOUS
  <2>4. Span(HeaderEnd(i), 0) = none /\ Span(HeaderEnd(i) + 0, 0 - 0) = none
    <3>1. Span(HeaderEnd(i), 0) = <<>> /\ Span(HeaderEnd(i) + 0, 0) = <<>>
      <4>1. <<>> \in Seq(Nat)
        OBVIOUS
      <4> QED
        BY <4>1, NoPart
    <3>2. 0 - 0 = 0
      OBVIOUS
    <3> QED
      BY <2>3, <3>1, <3>2
  <2>5. Framed(v, fr, none, none)
    <3>1. CASE IsControl(f)
      <4>1. ~m.compressed
        <5>1. d.open \in BOOLEAN /\ d.packed \in BOOLEAN
          BY <1>4 DEF Meaningful, Decoding
        <5>2. ~(d.open /\ d.packed)
          BY <1>2, <1>3, <1>14, <3>1, UsualIs
        <5> QED
          BY <1>7, <5>1, <5>2 DEF Between
      <4>2. v = m
        BY <2>1, <3>1
      <4> QED
        BY <1>2, <1>3, <1>7, <2>2, <2>3, <2>4, <3>1, <4>1, <4>2 DEF Framed
    <3>2. CASE ~IsControl(f)
      <4>1. Within(v, d, i, 0)
        BY <2>1, <3>2
      <4>2. 0 < frames[i].size
        BY <1>2, <1>14
      <4>3. Divided(v, none, none, 0, i, 0, 0)
        BY <1>3, <2>3, <2>4, <4>1, <4>2 DEF Divided
      <4>4. 0 <= frames[i].size
        BY <1>2
      <4> QED
        BY <1>2, <1>3, <2>2, <3>2, <4>3, <4>4 DEF Framed
    <3> QED
      BY <3>1, <3>2
  <2> QED
    BY <1>9, <1>10, <1>11, <2>1, <2>3, <2>5, NowFramed
<1> QED
  BY <1>12, <1>13, <1>14

LEMMA Read16bitHeaderMeans ==
  ASSUME ReaderInv, Usual, MeaningInv, Read16bitHeader
  PROVE  MeaningInv'
<1>1. TypeInv /\ Given /\ BufferInv /\ PositionInv /\ msg \in Message /\ calls \in 0..scenario.streams
  BY DEF ReaderInv, TypeInv
<1>2. pc = "loop" /\ pc' = "loop" /\ msg.outcome = "ok" /\ next = "header1" /\ buffered >= 2
  BY DEF Read16bitHeader, Reading, NextSize
<1>3. UNCHANGED given /\ held' = held /\ calls' = calls
  BY DEF Read16bitHeader
<1>4. PICK i \in 1..Len(frames) : i = frame.i + 1 /\ (CHOOSE k \in DOMAIN frames : starts[k] = taken) = i
  BY <1>1, <1>2, NextFrame
<1>5. PICK fr : fr = [i |-> i, consumed |-> 0, payload |-> <<>>]
  OBVIOUS
<1>6. frame' = fr /\ fr.i = i /\ fr.consumed = 0 /\ fr.payload = <<>>
  BY <1>4, <1>5 DEF Read16bitHeader
<1>7. inflates = <<>> /\ ~InFrame
  BY <1>2 DEF MeaningInv, AnswerInv, InFrame
<1>8. held = <<>> /\ Between(msg, After[i - 1])
  <2>1. Settled(msg, next, frame, held)
    BY <1>2, <1>7 DEF MeaningInv, BetweenInv
  <2>2. i - 1 = frame.i
    BY <1>1, <1>4 DEF TypeInv
  <2> QED
    BY <1>2, <2>1, <2>2 DEF Settled
<1>9. PICK f \in FrameType : f = frames[i] /\ Header2Size(f) \in Nat /\ (f.size = Huge => Header2Size(f) > 0)
  BY <1>1, FrameIs
<1>10. CASE Header2Size(f) > 0
  <2>1. next' = "header2" /\ msg' = msg /\ inflates' = inflates
    BY <1>6, <1>9, <1>10 DEF Read16bitHeader
  <2>2. PICK m, part, none : m = msg /\ part = "header2" /\ none = <<>>
    OBVIOUS
  <2>3. Settled(m, part, fr, none)
    BY <1>6, <1>8, <2>2 DEF Settled
  <2>4. msg' = m /\ next' = part /\ inflates' = <<>> /\ held' = none /\ m.outcome = "ok" /\ part # "payload" /\ pc' # "inflating"
    BY <1>2, <1>3, <1>7, <1>8, <2>1, <2>2
  <2>5. StreamsInTurn(m, calls')
    BY <1>3, <2>2 DEF MeaningInv
  <2> QED
    BY <1>1, <1>3, <1>6, <2>3, <2>4, <2>5, NowSettled
<1>11. CASE ~(Header2Size(f) > 0)
  <2>1. HandleFrameHeader(frames[i]) /\ frames[i].size # Huge
    BY <1>6, <1>9, <1>11 DEF Read16bitHeader
  <2> QED
    BY <1>1, <1>2, <1>3, <1>6, <1>7, <1>8, <2>1, HeaderMeans
<1> QED
  BY <1>10, <1>11

LEMMA ReadRestOfHeaderMeans ==
  ASSUME ReaderInv, Usual, MeaningInv, ReadRestOfHeader
  PROVE  MeaningInv'
<1>1. TypeInv /\ Given /\ PositionInv /\ msg \in Message /\ calls \in 0..scenario.streams
  BY DEF ReaderInv, TypeInv
<1>2. pc = "loop" /\ pc' = "loop" /\ msg.outcome = "ok" /\ next = "header2"
  BY DEF ReadRestOfHeader, Reading
<1>3. UNCHANGED given /\ held' = held /\ calls' = calls /\ frame' = frame
  BY DEF ReadRestOfHeader
<1>4. PICK i \in 1..Len(frames) : i = frame.i /\ frame.consumed = 0
  BY <1>1, <1>2, ScenarioIs DEF TypeInv, PositionInv
<1>5. PICK fr : fr = frame
  OBVIOUS
<1>6. inflates = <<>> /\ ~InFrame
  BY <1>2 DEF MeaningInv, AnswerInv, InFrame
<1>7. held = <<>> /\ Between(msg, After[i - 1]) /\ frame.payload = <<>>
  <2>1. Settled(msg, next, frame, held)
    BY <1>2, <1>6 DEF MeaningInv, BetweenInv
  <2> QED
    BY <1>2, <1>4, <2>1 DEF Settled
<1>8. CASE frames[i].size = Huge
  <2>1. msg' = Fail(msg, "1009") /\ inflates' = inflates
    BY <1>4, <1>8 DEF ReadRestOfHeader
  <2>2. PICK m \in Message, code \in {"1002", "1007", "1009"} : m = msg /\ code = "1009"
    BY <1>1
  <2>3. PICK v : v = Fail(m, code)
    OBVIOUS
  <2>4. PICK d : d = After[i - 1]
    OBVIOUS
  <2>5. Meaningful(d)
    <3>1. i - 1 \in 0..Len(frames)
      BY <1>1, ScenarioIs
    <3> QED
      BY <1>1, <2>4, <3>1, AfterMeaningful
  <2>6. d \in Decoding /\ d.verdict = "ok" /\ Handed(m) = d.events
    BY <1>7, <2>2, <2>4, <2>5 DEF Meaningful, Between
  <2>7. After[i] = Rejected(d, code)
    <3>1. After[i] = DecodeFrame(d, i)
      BY <1>1, <2>4, AfterIs
    <3>2. DecodeFrame(d, i) = Rejected(d, IF frames[i].size = Huge THEN "1009" ELSE "1002")
      BY <1>8, <2>6, DecodeWrong
    <3> QED
      BY <1>8, <2>2, <3>1, <3>2
  <2>8. Ends(v, After[i])
    BY <1>2, <2>2, <2>3, <2>6, <2>7, FailEnds
  <2>9. code \in Outcomes
    BY DEF Outcomes
  <2>10. v.outcome # "ok"
    BY <1>2, <2>2, <2>3, <2>9, FailIs
  <2>11. Over(v)
    <3>1. expected = After[Len(frames)]
      BY DEF MeaningInv
    <3> QED
      BY <1>1, <2>8, <2>10, <3>1, EndsOver
  <2>12. StreamsInTurn(v, calls')
    <3>1. calls \in Nat /\ StreamsInTurn(m, calls)
      BY <1>1, <2>2, ScenarioIs DEF MeaningInv
    <3>2. Turns(m, v)
      BY <2>3, <2>9, FailTurns
    <3> QED
      BY <1>3, <3>1, <3>2 DEF Turns
  <2>13. msg' = v /\ inflates' = <<>> /\ pc' # "inflating"
    BY <1>2, <1>6, <2>1, <2>2, <2>3
  <2> QED
    BY <1>1, <1>3, <2>10, <2>11, <2>12, <2>13, NowOver
<1>9. CASE frames[i].size # Huge
  <2>1. HandleFrameHeader(frames[i])
    BY <1>4, <1>9 DEF ReadRestOfHeader
  <2>2. frame' = fr /\ fr.i = i /\ fr.consumed = 0 /\ fr.payload = <<>> /\ held' = <<>>
    BY <1>3, <1>4, <1>5, <1>7
  <2> QED
    BY <1>1, <1>2, <1>3, <1>6, <1>7, <1>9, <2>1, <2>2, HeaderMeans
<1> QED
  BY <1>8, <1>9

-----------------------------------------------------------------------------
LEMMA NoneHeld ==
  ASSUME Given, NEW i \in 1..Len(frames), NEW x \in Nat, NEW c \in 0..x, Span(HeaderEnd(i) + c, x - c) = <<>>
  PROVE  c = x
<1>1. PICK n \in Nat : n = x - c
  OBVIOUS
<1>2. c \in Nat
  OBVIOUS
<1>3. Len(Span(HeaderEnd(i) + c, n)) = n
  BY <1>2, PartIs
<1>4. n = 0
  BY <1>1, <1>3
<1> QED
  BY <1>1, <1>4

(* n bytes of data frame i, of which m has c, are handed on.               *)
Chunk(m, d, i, c, n) ==
  /\ m.outcome \in {"ok", "destroyed"} /\ (scenario.streams = 0 => m.stream = 0)
  /\ Meaningful(d) /\ Readable(d, i) /\ ~IsControl(frames[i]) /\ Within(m, d, i, c) /\ n # 0
  /\ c + n = frames[i].size => ~(m.op = "binary" /\ m.compressed /\ ~frames[i].ok)

LEMMA DataFinished ==
  ASSUME Given, Usual, NEW m \in Message, NEW d, NEW i \in 1..Len(frames), NEW c \in Nat, NEW n \in Nat,
         Chunk(m, d, i, c, n), c + n = frames[i].size
  PROVE  Ends(ConsumeMessagePayloadChunk(m, frames[i], Span(HeaderEnd(i) + c, n), TRUE), DecodeFrame(d, i))
<1>1. /\ m.outcome \in {"ok", "destroyed"} /\ (scenario.streams = 0 => m.stream = 0)
      /\ Meaningful(d) /\ Readable(d, i) /\ ~IsControl(frames[i]) /\ Within(m, d, i, c) /\ n # 0
      /\ ~(m.op = "binary" /\ m.compressed /\ ~frames[i].ok)
  BY DEF Chunk
<1>2. d.verdict = "ok" /\ frames[i].size # Huge /\ ~Broken(frames[i], d.open)
  BY <1>1 DEF Readable
<1> QED
  BY <1>1, <1>2, DataEnds

(* The last of them is still to come.                                      *)
Partly(m, d, i, c, n, s) == Chunk(m, d, i, c, n) /\ s = c + n /\ s < frames[i].size

(* m has then got them, and goes on.                                       *)
Added(m, d, i, c, n, s) ==
  LET v == ConsumeMessagePayloadChunk(m, frames[i], Span(HeaderEnd(i) + c, n), FALSE)
  IN  Within(v, d, i, s) /\ v.outcome = m.outcome

LEMMA DataHandled ==
  ASSUME Given, Usual, NEW m \in Message, NEW d, NEW i \in 1..Len(frames), NEW c \in Nat, NEW n \in Nat, NEW s \in Nat,
         Partly(m, d, i, c, n, s)
  PROVE  Added(m, d, i, c, n, s)
<1>1. /\ m.outcome \in {"ok", "destroyed"} /\ (scenario.streams = 0 => m.stream = 0)
      /\ Meaningful(d) /\ Readable(d, i) /\ ~IsControl(frames[i]) /\ Within(m, d, i, c) /\ n # 0
      /\ c + n < frames[i].size
  BY DEF Chunk, Partly
<1>2. d.verdict = "ok" /\ frames[i].size # Huge /\ ~Broken(frames[i], d.open)
  BY <1>1 DEF Readable
<1>3. LET v == ConsumeMessagePayloadChunk(m, frames[i], Span(HeaderEnd(i) + c, n), FALSE)
      IN  Within(v, d, i, c + n) /\ v.outcome = m.outcome
  BY <1>1, <1>2, DataGoesOn, ZenonT(60)
<1> QED
  BY <1>3 DEF Partly, Added

(* What is known when a turn of the payload loop takes n bytes of frame i. *)
Turning(i, size, n, sum, part) ==
  /\ Given /\ UNCHANGED given /\ Usual /\ MeaningInv
  /\ msg \in Message /\ msg.outcome = "ok" /\ inflates = <<>> /\ next = "payload"
  /\ frame \in [i : 0..Len(frames), consumed : Nat, payload : Seq(Nat)] /\ i = frame.i /\ size = frames[i].size
  /\ n > 0 /\ sum = frame.consumed + n /\ sum <= size /\ part = Span(HeaderEnd(i) + frame.consumed, n)
  /\ Framed(msg, frame, inflates, held) /\ Turn(i, size, n, part)
  /\ calls \in 0..scenario.streams /\ calls' = calls /\ held' = held

(* One turn of the payload loop, for a control frame, ...                  *)
LEMMA ControlTurn ==
  ASSUME NEW i \in 1..Len(frames), NEW size \in Nat, NEW n \in Nat, NEW sum \in Nat, NEW part \in Seq(Nat),
         Turning(i, size, n, sum, part), IsControl(frames[i])
  PROVE  MeaningInv'
<1>g. Given /\ UNCHANGED given /\ Usual /\ MeaningInv
  BY DEF Turning
<1>0. /\ msg \in Message /\ msg.outcome = "ok" /\ inflates = <<>> /\ next = "payload"
      /\ frame \in [i : 0..Len(frames), consumed : Nat, payload : Seq(Nat)] /\ i = frame.i /\ size = frames[i].size
      /\ n > 0 /\ sum = frame.consumed + n /\ sum <= size /\ part = Span(HeaderEnd(i) + frame.consumed, n)
  BY DEF Turning
<1>t. Framed(msg, frame, inflates, held) /\ Turn(i, size, n, part)
  BY DEF Turning
<1>c. calls \in 0..scenario.streams /\ calls' = calls /\ held' = held
  BY DEF Turning
<1>1. PICK m \in Message, data \in Seq(Nat), consumed \in Nat :
        m = msg /\ data = frame.payload /\ consumed = frame.consumed
  BY <1>0
<1>2. PICK d : d = After[i - 1]
  OBVIOUS
<1>3. Meaningful(d)
  <2>1. i - 1 \in 0..Len(frames)
    BY <1>g, ScenarioIs
  <2> QED
    BY <1>g, <1>2, <2>1, AfterMeaningful
<1>4. /\ i # 0 /\ Readable(d, i) /\ held = <<>> /\ ~m.compressed /\ Between(m, d)
      /\ data = Span(HeaderEnd(i), consumed)
  BY <1>0, <1>t, <1>1, <1>2 DEF Framed
<1>5. PICK onward : onward = [frame EXCEPT !.consumed = sum]
  OBVIOUS
<1>6. onward.i = i /\ onward.consumed = sum /\ onward.payload = data
  BY <1>0, <1>1, <1>5
<1>7. PICK final \in BOOLEAN : final = (sum = size)
  OBVIOUS
<1>8. PICK v : v = Consumed(m, onward, part, final)
  OBVIOUS
<1>9. PICK all \in Seq(Nat) : all = Span(HeaderEnd(i), sum) /\ all = data \o part
  <2>1. sum = consumed + n /\ part = Span(HeaderEnd(i) + consumed, n)
    BY <1>0, <1>1
  <2>2. Span(HeaderEnd(i), sum) \in Seq(Nat) /\ data \o part = Span(HeaderEnd(i), sum)
    <3>1. Span(HeaderEnd(i), consumed) \o Span(HeaderEnd(i) + consumed, n) = Span(HeaderEnd(i), consumed + n)
      BY <1>g, PartIs
    <3>2. Span(HeaderEnd(i), sum) \in Seq(Nat)
      BY <1>g, PartIs
    <3> QED
      BY <1>4, <2>1, <3>1, <3>2
  <2> QED
    BY <2>2
<1>10. PICK fr : fr = [onward EXCEPT !.payload = all]
  OBVIOUS
<1>11. fr.i = i /\ fr.consumed = sum /\ fr.payload = all
  BY <1>0, <1>1, <1>5, <1>10
<1>12. /\ next' = (IF final THEN "header1" ELSE "payload") /\ msg' = v /\ frame' = fr /\ pc' = "payload"
       /\ inflates' = <<>> /\ held' = <<>>
  BY <1>0, <1>t, <1>c, <1>1, <1>4, <1>5, <1>6, <1>7, <1>8, <1>9, <1>10, ZenonT(60) DEF Turn
<1>13. v = IF final THEN HandleControlFrame(m, frames[i], all) ELSE m
  BY <1>6, <1>8, <1>9 DEF Consumed
<1>14. StreamsInTurn(v, calls')
  <2>1. Turns(m, v)
    BY <1>g, <1>6, <1>8, ConsumedTurns
  <2>2. calls \in Nat /\ StreamsInTurn(m, calls)
    BY <1>g, <1>c, <1>1, ScenarioIs DEF MeaningInv
  <2> QED
    BY <1>c, <2>1, <2>2 DEF Turns
<1>15. pc' # "inflating"
  BY <1>12
<1>16. CASE final
  <2>1. all = Payload(i)
    BY <1>g, <1>0, <1>7, <1>9, <1>16, HeaderEndIs
  <2>2. Ends(v, DecodeFrame(d, i))
    BY <1>g, <1>0, <1>1, <1>3, <1>4, <1>13, <1>16, <2>1, ControlEnds DEF Readable
  <2>3. Ends(v, After[i])
    BY <1>g, <1>2, <2>2, AfterIs
  <2> QED
    BY <1>11, <1>12, <1>14, <1>15, <1>16, <2>3, <1>g, NowEnded
<1>17. CASE ~final
  <2>1. v = m /\ next' = "payload"
    BY <1>12, <1>13, <1>17
  <2>2. PICK none : none = <<>>
    OBVIOUS
  <2>3. Framed(v, fr, none, none)
    BY <1>0, <1>2, <1>4, <1>9, <1>11, <2>1, <2>2 DEF Framed
  <2> QED
    BY <1>0, <1>1, <1>12, <1>14, <1>15, <2>1, <2>2, <2>3, <1>g, NowFramed
<1> QED
  BY <1>16, <1>17

(* ... for a message that is not compressed, ...                           *)
LEMMA DataTurn ==
  ASSUME NEW i \in 1..Len(frames), NEW size \in Nat, NEW n \in Nat, NEW sum \in Nat, NEW part \in Seq(Nat),
         Turning(i, size, n, sum, part), ~IsControl(frames[i]), ~msg.compressed
  PROVE  MeaningInv'
<1>g. Given /\ UNCHANGED given /\ Usual /\ MeaningInv
  BY DEF Turning
<1>0. /\ msg \in Message /\ msg.outcome = "ok" /\ inflates = <<>> /\ next = "payload"
      /\ frame \in [i : 0..Len(frames), consumed : Nat, payload : Seq(Nat)] /\ i = frame.i /\ size = frames[i].size
      /\ n > 0 /\ sum = frame.consumed + n /\ sum <= size /\ part = Span(HeaderEnd(i) + frame.consumed, n)
  BY DEF Turning
<1>t. Framed(msg, frame, inflates, held) /\ Turn(i, size, n, part)
  BY DEF Turning
<1>c. calls \in 0..scenario.streams /\ calls' = calls /\ held' = held
  BY DEF Turning
<1>1. PICK m \in Message, data \in Seq(Nat), consumed \in Nat :
        m = msg /\ data = frame.payload /\ consumed = frame.consumed
  BY <1>0
<1>2. PICK d : d = After[i - 1]
  OBVIOUS
<1>3. Meaningful(d)
  <2>1. i - 1 \in 0..Len(frames)
    BY <1>g, ScenarioIs
  <2> QED
    BY <1>g, <1>2, <2>1, AfterMeaningful
<1>4. i # 0 /\ Readable(d, i)
  BY <1>0, <1>t, <1>2 DEF Framed
<1>5. held = <<>> /\ Within(m, d, i, consumed)
  <2>1. PICK x \in 0..consumed : \E c \in 0..x : Divided(m, inflates, held, consumed, i, c, x)
    BY <1>0, <1>t, <1>1 DEF Framed
  <2>2. PICK c \in 0..x : Divided(m, inflates, held, consumed, i, c, x)
    BY <2>1
  <2>3. x = consumed /\ Within(m, d, i, c) /\ held = Span(HeaderEnd(i) + c, x - c) /\ held = <<>>
    BY <1>0, <1>1, <1>2, <2>2 DEF Divided
  <2>4. x \in Nat /\ Span(HeaderEnd(i) + c, x - c) = <<>>
    BY <2>3
  <2>7. c = x
    BY <1>g, <2>4, NoneHeld
  <2> QED
    BY <2>3, <2>7
<1>6. PICK onward : onward = [frame EXCEPT !.consumed = sum]
  OBVIOUS
<1>7. onward.i = i /\ onward.consumed = sum /\ onward.payload = data
  BY <1>0, <1>1, <1>6
<1>8. PICK final \in BOOLEAN : final = (sum = size)
  OBVIOUS
<1>9. PICK v : v = Consumed(m, onward, part, final)
  OBVIOUS
<1>10. /\ next' = (IF final THEN "header1" ELSE "payload") /\ msg' = v /\ frame' = onward /\ pc' = "payload"
       /\ inflates' = <<>> /\ held' = <<>>
  BY <1>0, <1>t, <1>c, <1>1, <1>5, <1>6, <1>8, <1>9 DEF Turn
<1>11. v = ConsumeMessagePayloadChunk(m, frames[i], part, final)
  BY <1>0, <1>7, <1>8, <1>9 DEF Consumed
<1>12. calls \in Nat /\ StreamsInTurn(m, calls)
  BY <1>g, <1>c, <1>1, ScenarioIs DEF MeaningInv
<1>13. StreamsInTurn(v, calls')
  <2>1. Turns(m, v)
    BY <1>g, <1>7, <1>9, ConsumedTurns
  <2> QED
    BY <1>c, <1>12, <2>1 DEF Turns
<1>14. pc' # "inflating"
  BY <1>10
<1>15. scenario.streams = 0 => m.stream = 0
  <2> HAVE scenario.streams = 0
  <2>1. calls = 0
    BY <1>c
  <2> QED
    BY <1>12, <2>1, NoStreams
<1>16. part = Span(HeaderEnd(i) + consumed, n) /\ sum = consumed + n /\ n # 0
  BY <1>0, <1>1
<1>17. Chunk(m, d, i, consumed, n)
  BY <1>0, <1>1, <1>3, <1>4, <1>5, <1>15, <1>16 DEF Chunk
<1>18. CASE final
  <2>3. Ends(v, After[i])
    <3>1. After[i] = DecodeFrame(d, i)
      BY <1>g, <1>2, AfterIs
    <3>2. consumed + n = frames[i].size /\ final = TRUE
      BY <1>0, <1>8, <1>16, <1>18
    <3>3. Ends(ConsumeMessagePayloadChunk(m, frames[i], Span(HeaderEnd(i) + consumed, n), TRUE), DecodeFrame(d, i))
      BY <1>g, <1>17, <3>2, DataFinished
    <3> QED
      BY <1>11, <1>16, <3>1, <3>2, <3>3
  <2>4. next' = "header1"
    BY <1>10, <1>18
  <2> QED
    BY <1>7, <1>10, <1>13, <1>14, <2>3, <2>4, <1>g, NowEnded
<1>19. CASE ~final
  <2>1. final = FALSE
    BY <1>8, <1>19
  <2>2. sum < frames[i].size
    <3>1. sum # size /\ sum <= size
      BY <1>0, <1>8, <1>19
    <3>2. \A a, b \in Nat : a <= b /\ a # b => a < b
      OBVIOUS
    <3>3. sum < size
      BY <3>1, <3>2
    <3> QED
      BY <1>0, <3>3
  <2>3. Within(v, d, i, sum) /\ v.outcome = "ok"
    <3>1. v = ConsumeMessagePayloadChunk(m, frames[i], Span(HeaderEnd(i) + consumed, n), FALSE)
      BY <1>11, <1>16, <2>1
    <3>2. Partly(m, d, i, consumed, n, sum)
      BY <1>16, <1>17, <2>2 DEF Partly
    <3>4. Added(m, d, i, consumed, n, sum)
      BY <1>g, <3>2, DataHandled
    <3>3. Within(v, d, i, sum) /\ v.outcome = m.outcome
      BY <3>1, <3>4 DEF Added
    <3> QED
      BY <1>0, <1>1, <3>3
  <2>4. PICK none : none = <<>>
    OBVIOUS
  <2>5. Span(HeaderEnd(i) + sum, sum - sum) = none
    <3>1. PICK a \in Nat : a = HeaderEnd(i) + sum
      <4>1. HeaderEnd(i) \in Nat
        BY <1>g, HeaderEndIs
      <4> QED
        BY <4>1
    <3>2. sum - sum = 0
      OBVIOUS
    <3>3. Span(a, 0) = <<>>
      BY DEF Span
    <3> QED
      BY <2>4, <3>1, <3>2, <3>3
  <2>7. Divided(v, none, none, sum, i, sum, sum)
    BY <1>2, <2>2, <2>3, <2>4, <2>5 DEF Divided
  <2>8. Framed(v, onward, none, none)
    <3>1. sum \in 0..sum /\ sum <= frames[i].size
      BY <1>0
    <3>2. \E a \in 0..sum : \E b \in 0..a : Divided(v, none, none, sum, i, b, a)
      BY <2>7, <3>1
    <3> QED
      BY <1>2, <1>4, <1>7, <3>1, <3>2 DEF Framed
  <2>9. next' = "payload"
    BY <1>10, <1>19
  <2> QED
    BY <1>10, <1>13, <1>14, <2>3, <2>4, <2>8, <2>9, <1>g, NowFramed
<1> QED
  BY <1>18, <1>19

(* ... and for one that is.                                                *)
LEMMA DeflatedTurn ==
  ASSUME NEW i \in 1..Len(frames), NEW size \in Nat, NEW n \in Nat, NEW sum \in Nat, NEW part \in Seq(Nat),
         Turning(i, size, n, sum, part), ~IsControl(frames[i]), msg.compressed
  PROVE  MeaningInv'
<1>g. Given /\ UNCHANGED given /\ Usual /\ MeaningInv
  BY DEF Turning
<1>0. /\ msg \in Message /\ msg.outcome = "ok" /\ inflates = <<>> /\ next = "payload"
      /\ frame \in [i : 0..Len(frames), consumed : Nat, payload : Seq(Nat)] /\ i = frame.i /\ size = frames[i].size
      /\ n > 0 /\ sum = frame.consumed + n /\ sum <= size /\ part = Span(HeaderEnd(i) + frame.consumed, n)
  BY DEF Turning
<1>t. Framed(msg, frame, inflates, held) /\ Turn(i, size, n, part)
  BY DEF Turning
<1>c. calls \in 0..scenario.streams /\ calls' = calls /\ held' = held
  BY DEF Turning
<1>1. PICK m \in Message, consumed \in Nat : m = msg /\ consumed = frame.consumed
  BY <1>0
<1>2. PICK h : h = held
  OBVIOUS
<1>3. i # 0 /\ Readable(After[i - 1], i)
  BY <1>0, <1>t DEF Framed
<1>4. PICK x \in 0..consumed : \E c \in 0..x : Divided(m, inflates, h, consumed, i, c, x)
  BY <1>0, <1>t, <1>1, <1>2 DEF Framed
<1>5. PICK c \in 0..x : Divided(m, inflates, h, consumed, i, c, x)
  BY <1>4
<1>6. x = consumed /\ Within(m, After[i - 1], i, c) /\ h = Span(HeaderEnd(i) + c, x - c)
  BY <1>0, <1>5 DEF Divided
<1>7. PICK final \in BOOLEAN : final = (sum = size)
  OBVIOUS
<1>8. PICK e : e = [chunk |-> part, final |-> final, control |-> FALSE, awaited |-> TRUE]
  OBVIOUS
<1>9. PICK q : q = <<e>>
  OBVIOUS
<1>10. PICK onward : onward = [frame EXCEPT !.consumed = sum]
  OBVIOUS
<1>11. onward.i = i /\ onward.consumed = sum
  BY <1>0, <1>10
<1>12. inflates' = q /\ frame' = onward /\ pc' = "inflating" /\ msg' = m /\ held' = h
  <2>1. inflates' = Append(inflates, [chunk |-> part, final |-> final, control |-> FALSE, awaited |-> TRUE])
    <3>1. IsControl(frames[i]) = FALSE
      BY DEF IsControl
    <3> QED
      BY <1>0, <1>t, <1>7, <3>1 DEF Turn
  <2>2. inflates' = Append(<<>>, e)
    BY <1>0, <1>8, <2>1
  <2>3. Append(<<>>, e) = <<e>>
    OBVIOUS
  <2>4. frame' = onward /\ pc' = "inflating" /\ msg' = m /\ held' = h
    BY <1>0, <1>t, <1>c, <1>1, <1>2, <1>10 DEF Turn
  <2> QED
    BY <1>9, <2>2, <2>3, <2>4
<1>13. q # <<>>
  BY <1>9
<1>14. Divided(m, q, h, sum, i, c, x)
  <2>1. x < sum /\ sum - x = n
    BY <1>0, <1>1, <1>6
  <2>2. part = Span(HeaderEnd(i) + x, sum - x)
    BY <1>0, <1>1, <1>6, <2>1
  <2>3. e = [chunk |-> Span(HeaderEnd(i) + x, sum - x), final |-> (sum = frames[i].size), control |-> FALSE, awaited |-> TRUE]
    BY <1>0, <1>7, <1>8, <2>2
  <2> QED
    BY <1>1, <1>6, <1>9, <1>13, <2>1, <2>3 DEF Divided
<1>15. Framed(m, onward, q, h)
  <2>1. x \in 0..sum /\ sum <= frames[i].size
    BY <1>0, <1>1, <1>6
  <2>2. \E a \in 0..sum : \E b \in 0..a : Divided(m, q, h, sum, i, b, a)
    BY <1>14, <2>1
  <2> QED
    BY <1>3, <1>11, <2>1, <2>2 DEF Framed
<1>16. m.outcome \in {"ok", "destroyed"} /\ StreamsInTurn(m, calls')
  BY <1>g, <1>0, <1>1, <1>c DEF MeaningInv
<1> QED
  BY <1>12, <1>13, <1>15, <1>16, <1>g, NowFramed

LEMMA ReadPayloadMeans ==
  ASSUME ReaderInv, Usual, MeaningInv, ReadPayload
  PROVE  MeaningInv'
<1>1. /\ Given /\ msg \in Message /\ calls \in 0..scenario.streams
      /\ frame \in [i : 0..Len(frames), consumed : Nat, payload : Seq(Nat)]
  BY DEF ReaderInv, TypeInv
<1>2. UNCHANGED given /\ calls' = calls /\ held' = held
  BY DEF ReadPayload
<1>3. PICK i \in 1..Len(frames), size \in Nat, n \in Nat, part \in Seq(Nat) :
        /\ i = frame.i /\ size = frames[i].size /\ size # Huge /\ n > 0 /\ frame.consumed + n <= size
        /\ taken = HeaderEnd(i) + frame.consumed /\ msg.outcome = "ok" /\ next = "payload"
        /\ pc \in {"loop", "payload"}
        /\ Holds(chunks', chunkOffset', taken', buffered') /\ taken' = taken + n /\ buffered' = buffered - n
        /\ part = Span(taken, n) /\ Turn(i, size, n, part)
  BY ReadPayloadTakes
<1>4. PICK sum \in Nat : sum = frame.consumed + n
  BY <1>1
<1>5. part = Span(HeaderEnd(i) + frame.consumed, n) /\ sum <= size
  BY <1>3, <1>4
<1>6. inflates = <<>> /\ InFrame
  BY <1>3 DEF MeaningInv, AnswerInv, InFrame
<1>7. Framed(msg, frame, inflates, held)
  BY <1>6 DEF MeaningInv, FrameInv
<1>t. Turning(i, size, n, sum, part)
  BY <1>1, <1>2, <1>3, <1>4, <1>5, <1>6, <1>7 DEF Turning
<1>8. CASE IsControl(frames[i])
  BY <1>t, <1>8, ControlTurn
<1>9. CASE ~IsControl(frames[i]) /\ ~msg.compressed
  BY <1>t, <1>9, DataTurn
<1>10. CASE ~IsControl(frames[i]) /\ msg.compressed
  BY <1>t, <1>10, DeflatedTurn
<1> QED
  BY <1>8, <1>9, <1>10

-----------------------------------------------------------------------------
(* The inflater is asked for y bytes of data frame i and holds the a bytes *)
(* before them, m has the c before those.                                  *)
Asked(m, d, i, consumed, c, a, y, p, h) ==
  /\ m.outcome \in {"ok", "destroyed"} /\ (scenario.streams = 0 => m.stream = 0)
  /\ Meaningful(d) /\ Readable(d, i) /\ ~IsControl(frames[i]) /\ Within(m, d, i, c) /\ m.compressed
  /\ y # 0 /\ consumed = c + (a + y) /\ consumed <= frames[i].size
  /\ h = Span(HeaderEnd(i) + c, a)
  /\ p = [chunk |-> Span(HeaderEnd(i) + (c + a), y), final |-> (consumed = frames[i].size),
          control |-> FALSE, awaited |-> TRUE]

LEMMA InflaterGave ==
  ASSUME Given, NEW i \in 1..Len(frames), NEW c \in Nat, NEW a \in Nat, NEW y \in Nat
  PROVE  Span(HeaderEnd(i) + c, a) \o Span(HeaderEnd(i) + (c + a), y) = Span(HeaderEnd(i) + c, a + y)
<1>1. PICK e \in Nat : e = HeaderEnd(i)
  BY HeaderEndIs
<1>2. PICK b \in Nat : b = e + c
  OBVIOUS
<1>3. Span(b, a) \o Span(b + a, y) = Span(b, a + y)
  BY SpanConcat
<1>4. b + a = e + (c + a)
  BY <1>2
<1> QED
  BY <1>1, <1>2, <1>3, <1>4

LEMMA AskedBad ==
  ASSUME Given, NEW m \in Message, NEW d, NEW i \in 1..Len(frames), NEW consumed \in Nat,
         NEW c \in Nat, NEW a \in Nat, NEW y \in Nat, NEW p, NEW h, Asked(m, d, i, consumed, c, a, y, p, h)
  PROVE  Bad(p.chunk) <=> ~frames[i].ok /\ consumed = frames[i].size
<1>1. /\ Readable(d, i) /\ y # 0 /\ consumed = c + (a + y) /\ consumed <= frames[i].size
      /\ p.chunk = Span(HeaderEnd(i) + (c + a), y)
  BY DEF Asked
<1>2. PICK b \in Nat : b = c + a
  OBVIOUS
<1>3. b + y = consumed /\ b + y <= frames[i].size
  BY <1>1, <1>2
<1>4. frames[i].size # Huge
  BY <1>1 DEF Readable
<1>5. Bad(Span(HeaderEnd(i) + b, y)) <=> ~frames[i].ok /\ y # 0 /\ b + y = frames[i].size
  BY <1>3, <1>4, BadIs
<1> QED
  BY <1>1, <1>2, <1>3, <1>5

(* What was deflated badly fails the connection.                           *)
LEMMA CorruptEnds ==
  ASSUME Given, Usual, NEW m \in Message, NEW d, NEW i \in 1..Len(frames), NEW consumed \in Nat,
         NEW c \in Nat, NEW a \in Nat, NEW y \in Nat, NEW p, NEW h, Asked(m, d, i, consumed, c, a, y, p, h),
         m.op = "binary", Bad(p.chunk)
  PROVE  Ends(Fail(m, "1002"), DecodeFrame(d, i))
<1>1. /\ m.outcome \in {"ok", "destroyed"} /\ Meaningful(d) /\ Readable(d, i) /\ ~IsControl(frames[i])
      /\ Within(m, d, i, c) /\ m.compressed
  BY DEF Asked
<1>2. ~frames[i].ok
  BY AskedBad
<1>3. d.verdict = "ok" /\ frames[i].size # Huge /\ ~Broken(frames[i], d.open)
  BY <1>1 DEF Readable
<1>4. PICK o : o = Opened(d, frames[i])
  OBVIOUS
<1>5. o \in Decoding
  BY <1>1, <1>3, <1>4, OpenedSound
<1>6. m.op = o.op /\ m.compressed = o.packed /\ Handed(m) = d.events
  BY <1>1, <1>4 DEF Within
<1>7. PICK code \in {"1002", "1007", "1009"} : code = "1002"
  OBVIOUS
<1>8. DataVerdict(o, frames[i]) = code
  BY <1>1, <1>2, <1>6, <1>7 DEF DataVerdict
<1>9. code # "ok"
  BY <1>7
<1>10. DecodeFrame(d, i) = Rejected(d, code)
  BY <1>1, <1>3, <1>4, <1>5, <1>8, <1>9, DecodeData
<1>11. d \in Decoding
  BY <1>1 DEF Meaningful
<1>12. Ends(Fail(m, code), Rejected(d, code))
  BY <1>1, <1>6, <1>11, FailEnds
<1> QED
  BY <1>7, <1>10, <1>12

LEMMA AskedChunk ==
  ASSUME Given, NEW m \in Message, NEW d, NEW i \in 1..Len(frames), NEW consumed \in Nat,
         NEW c \in Nat, NEW a \in Nat, NEW y \in Nat, NEW p, NEW h, Asked(m, d, i, consumed, c, a, y, p, h),
         ~(m.op = "binary" /\ Bad(p.chunk))
  PROVE  \E n \in Nat : /\ Chunk(m, d, i, c, n) /\ h \o p.chunk = Span(HeaderEnd(i) + c, n)
                        /\ consumed = c + n /\ consumed <= frames[i].size
<1>1. /\ m.outcome \in {"ok", "destroyed"} /\ (scenario.streams = 0 => m.stream = 0)
      /\ Meaningful(d) /\ Readable(d, i) /\ ~IsControl(frames[i]) /\ Within(m, d, i, c) /\ m.compressed
  BY DEF Asked
<1>2. /\ y # 0 /\ consumed = c + (a + y) /\ consumed <= frames[i].size
      /\ h = Span(HeaderEnd(i) + c, a) /\ p.chunk = Span(HeaderEnd(i) + (c + a), y)
  BY DEF Asked
<1>3. Span(HeaderEnd(i) + c, a) \o Span(HeaderEnd(i) + (c + a), y) = Span(HeaderEnd(i) + c, a + y)
  BY InflaterGave, ZenonT(60)
<1>4. PICK n \in Nat : n = a + y
  OBVIOUS
<1>5. n # 0 /\ consumed = c + n
  BY <1>2, <1>4
<1>6. Bad(p.chunk) <=> ~frames[i].ok /\ consumed = frames[i].size
  BY AskedBad
<1>7. Chunk(m, d, i, c, n)
  <2>1. c + n = frames[i].size => ~(m.op = "binary" /\ m.compressed /\ ~frames[i].ok)
    BY <1>5, <1>6
  <2> QED
    BY <1>1, <1>5, <2>1 DEF Chunk
<1> QED
  BY <1>2, <1>5, <1>7, <1>3, <1>4

LEMMA HeldMore ==
  ASSUME Given, NEW m \in Message, NEW d, NEW i \in 1..Len(frames), NEW consumed \in Nat,
         NEW c \in Nat, NEW a \in Nat, NEW y \in Nat, NEW p, NEW h, Asked(m, d, i, consumed, c, a, y, p, h)
  PROVE  /\ c \in 0..consumed /\ h \o p.chunk = Span(HeaderEnd(i) + c, consumed - c)
         /\ Within(m, d, i, c) /\ m.compressed
<1>1. Span(HeaderEnd(i) + c, a) \o Span(HeaderEnd(i) + (c + a), y) = Span(HeaderEnd(i) + c, a + y)
  BY InflaterGave, ZenonT(60)
<1>2. /\ Within(m, d, i, c) /\ m.compressed /\ h = Span(HeaderEnd(i) + c, a)
      /\ p.chunk = Span(HeaderEnd(i) + (c + a), y)
  BY DEF Asked
<1>3. consumed = c + (a + y)
  BY DEF Asked
<1>4. c \in 0..consumed /\ consumed - c = a + y
  BY <1>3
<1> QED
  BY <1>1, <1>2, <1>4

(* The frame whose bytes the inflater was asked for is still the current   *)
(* one.                                                                    *)
LEMMA InflaterAsked ==
  ASSUME ReaderInv, Usual, MeaningInv, inflates # <<>>
  PROVE  \E i \in 1..Len(frames), consumed \in Nat, c \in Nat, a \in Nat, y \in Nat :
           /\ i = frame.i /\ consumed = frame.consumed /\ Len(inflates) = 1
           /\ Asked(msg, After[i - 1], i, consumed, c, a, y, inflates[1], held)
<1>1. /\ Given /\ msg \in Message /\ calls \in 0..scenario.streams
      /\ frame \in [i : 0..Len(frames), consumed : Nat, payload : Seq(Nat)]
  BY DEF ReaderInv, TypeInv
<1>2. Framed(msg, frame, inflates, held) /\ msg.outcome \in {"ok", "destroyed"}
  BY DEF MeaningInv, FrameInv, InFrame, AnswerInv
<1>3. PICK i \in 1..Len(frames), consumed \in Nat : i = frame.i /\ consumed = frame.consumed
  <2>1. frame.i \in 1..Len(frames)
    BY <1>1, <1>2, FramedHanded
  <2> QED
    BY <1>1, <2>1
<1>4. PICK q, h, m : q = inflates /\ h = held /\ m = msg
  OBVIOUS
<1>5. /\ Readable(After[i - 1], i) /\ consumed <= frames[i].size /\ ~IsControl(frames[i])
      /\ \E x \in 0..consumed : \E c \in 0..x : Divided(m, q, h, consumed, i, c, x)
  BY <1>2, <1>3, <1>4 DEF Framed
<1>6. PICK x \in 0..consumed : \E c \in 0..x : Divided(m, q, h, consumed, i, c, x)
  BY <1>5
<1>7. PICK c \in 0..x : Divided(m, q, h, consumed, i, c, x)
  BY <1>6
<1>8. /\ Within(m, After[i - 1], i, c) /\ h = Span(HeaderEnd(i) + c, x - c) /\ m.compressed /\ x < consumed
      /\ q = <<[chunk |-> Span(HeaderEnd(i) + x, consumed - x), final |-> (consumed = frames[i].size),
                control |-> FALSE, awaited |-> TRUE]>>
  BY <1>4, <1>7 DEF Divided
<1>9. PICK a \in Nat : a = x - c
  OBVIOUS
<1>10. PICK y \in Nat : y = consumed - x
  OBVIOUS
<1>11. c \in Nat /\ x = c + a /\ consumed = c + (a + y) /\ y # 0
  <2>1. x < consumed /\ x \in Nat /\ c \in Nat
    BY <1>8
  <2> QED
    BY <1>9, <1>10, <2>1
<1>12. Meaningful(After[i - 1])
  <2>1. i - 1 \in 0..Len(frames)
    BY <1>1, ScenarioIs
  <2> QED
    BY <1>1, <2>1, AfterMeaningful
<1>13. scenario.streams = 0 => m.stream = 0
  <2> HAVE scenario.streams = 0
  <2>1. calls = 0 /\ StreamsInTurn(m, calls)
    BY <1>1, <1>4 DEF MeaningInv
  <2> QED
    BY <1>1, <1>4, <2>1, NoStreams
<1>14. PICK p : p = [chunk |-> Span(HeaderEnd(i) + x, consumed - x), final |-> (consumed = frames[i].size),
                     control |-> FALSE, awaited |-> TRUE]
  OBVIOUS
<1>15. Len(q) = 1 /\ q[1] = p
  BY <1>8, <1>14
<1>16. p = [chunk |-> Span(HeaderEnd(i) + (c + a), y), final |-> (consumed = frames[i].size),
            control |-> FALSE, awaited |-> TRUE]
  BY <1>10, <1>11, <1>14
<1>17. Asked(m, After[i - 1], i, consumed, c, a, y, p, h)
  BY <1>2, <1>4, <1>5, <1>8, <1>9, <1>11, <1>12, <1>13, <1>16 DEF Asked
<1> QED
  BY <1>3, <1>4, <1>11, <1>15, <1>17

LEMMA OnlyOne ==
  ASSUME NEW S, NEW q \in Seq(S), Len(q) = 1
  PROVE  q[1] \in S /\ Head(q) = q[1] /\ Tail(q) = <<>>
<1>1. q # <<>>
  OBVIOUS
<1>2. PICK r : r = Tail(q)
  OBVIOUS
<1>3. r \in Seq(S) /\ Len(r) = Len(q) - 1
  BY <1>1, <1>2, HeadTailProperties
<1>4. r = <<>>
  BY <1>3
<1>5. q[1] \in S /\ Head(q) = q[1]
  BY <1>1
<1> QED
  BY <1>2, <1>4, <1>5

LEMMA InflatedMeans ==
  ASSUME ReaderInv, Usual, MeaningInv, Inflated
  PROVE  MeaningInv'
<1>g. Given /\ UNCHANGED given /\ Usual /\ MeaningInv
  BY DEF ReaderInv, TypeInv, Inflated
<1>1. /\ msg \in Message /\ calls \in 0..scenario.streams /\ held \in Seq(Nat)
      /\ frame \in [i : 0..Len(frames), consumed : Nat, payload : Seq(Nat)]
      /\ inflates \in Seq(Inflate)
  BY DEF ReaderInv, TypeInv
<1>2. inflates # <<>> /\ pc = "inflating" /\ next' = next /\ calls' = calls /\ inflates' = Tail(inflates)
  BY <1>g DEF Inflated, MeaningInv, AnswerInv
<1>3. PICK i \in 1..Len(frames), consumed \in Nat, c \in Nat, a \in Nat, y \in Nat :
        /\ i = frame.i /\ consumed = frame.consumed /\ Len(inflates) = 1
        /\ Asked(msg, After[i - 1], i, consumed, c, a, y, inflates[1], held)
  BY <1>g, <1>2, InflaterAsked
<1>4. PICK m \in Message, h \in Seq(Nat) : m = msg /\ h = held
  BY <1>1
<1>5. PICK d, fr : d = After[i - 1] /\ fr = frame
  OBVIOUS
<1>6. PICK p : p = inflates[1]
  OBVIOUS
<1>7. Asked(m, d, i, consumed, c, a, y, p, h)
  BY <1>3, <1>4, <1>5, <1>6
<1>8. fr.i = i /\ fr.consumed = consumed /\ fr.payload \in Seq(Nat) /\ ~IsControl(frames[fr.i])
  BY <1>1, <1>3, <1>5, <1>7 DEF Asked
<1>9. /\ p.chunk \in Seq(Nat) /\ p.final \in BOOLEAN /\ p.control = FALSE /\ p.awaited = TRUE
      /\ p.final = (consumed = frames[i].size)
  <2>1. p \in [chunk : Seq(Nat), final : BOOLEAN, control : BOOLEAN, awaited : BOOLEAN]
    <3>1. inflates[1] \in Inflate
      BY <1>1, <1>3, OnlyOne
    <3> QED
      BY <1>6, <3>1 DEF Inflate
  <2>2. p.control = FALSE /\ p.awaited = TRUE /\ p.final = (consumed = frames[i].size)
    BY <1>7 DEF Asked
  <2> QED
    BY <2>1, <2>2
<1>10. inflates' = <<>> /\ p = Head(inflates)
  <2>1. Head(inflates) = inflates[1] /\ Tail(inflates) = <<>>
    BY <1>1, <1>3, OnlyOne
  <2> QED
    BY <1>2, <1>6, <2>1
<1>11. PICK out \in Seq(Nat) : out = h \o p.chunk
  BY <1>9, ConcatProperties
<1>12. PICK v : v = Consumed(m, fr, out, p.final)
  OBVIOUS
<1>13. pc' = "payload"
  BY <1>9, <1>10 DEF Inflated
<1>14. \/ (m.op = "binary" /\ Bad(p.chunk)) /\ msg' = Fail(m, "1002")
       \/ ~(m.op = "binary" /\ Bad(p.chunk)) /\ msg' = v /\ frame' = fr /\ held' = <<>>
       \/ ~p.final /\ msg' = m /\ frame' = fr /\ held' = out
  <2>1. \/ (msg.op = "binary" /\ Bad(p.chunk)) /\ msg' = Fail(msg, "1002")
        \/ ~(msg.op = "binary" /\ Bad(p.chunk)) /\ HandOn(p, held \o p.chunk)
        \/ ~p.final /\ held' = held \o p.chunk /\ frame' = frame /\ msg' = msg
    BY <1>9, <1>10 DEF Inflated
  <2>2. HandOn(p, out) => msg' = v /\ frame' = fr /\ held' = <<>>
    BY <1>4, <1>5, <1>8, <1>12 DEF HandOn
  <2> QED
    BY <1>4, <1>5, <1>11, <2>1, <2>2
<1>15. m.outcome = "ok" => next = IF p.final THEN "header1" ELSE "payload"
  <2> HAVE m.outcome = "ok"
  <2>1. PositionInv
    BY DEF ReaderInv
  <2>2. /\ next = "payload" => frame.consumed < frames[frame.i].size
        /\ next = "payload" \/ (next = "header1" /\ frame.consumed = frames[frame.i].size)
    BY <1>2, <1>4, <2>1 DEF PositionInv
  <2>3. consumed < frames[i].size => consumed # frames[i].size
    BY FrameIs
  <2> QED
    BY <1>3, <1>9, <2>2, <2>3
<1>16. Turns(m, Fail(m, "1002")) /\ Turns(m, v) /\ Turns(m, m) /\ Goes(m, v)
  <2>1. PICK code \in Outcomes : code = "1002"
    BY DEF Outcomes
  <2>2. Turns(m, Fail(m, code))
    BY FailTurns
  <2>3. Turns(m, v) /\ Goes(m, v)
    BY <1>g, <1>8, <1>9, <1>12, ConsumedTurns, ConsumedGoes
  <2> QED
    BY <2>1, <2>2, <2>3, SameTurns
<1>17. \A w : Turns(m, w) => StreamsInTurn(w, calls')
  <2>1. calls \in Nat /\ StreamsInTurn(m, calls)
    BY <1>g, <1>1, <1>4, ScenarioIs DEF MeaningInv
  <2> QED
    BY <1>2, <2>1 DEF Turns
<1>18. v = ConsumeMessagePayloadChunk(m, frames[i], out, p.final)
  BY <1>8, <1>9, <1>12 DEF Consumed
<1>19. m.outcome \in {"ok", "destroyed"} /\ Readable(d, i) /\ ~IsControl(frames[i]) /\ Handed(m) = d.events
  BY <1>7 DEF Asked, Within
<1>20. i - 1 \in 0..Len(frames) /\ After[i] = DecodeFrame(d, i)
  BY <1>g, <1>5, AfterIs, ScenarioIs
<1>21. CASE (m.op = "binary" /\ Bad(p.chunk)) /\ msg' = Fail(m, "1002")
  <2>1. PICK w : w = Fail(m, "1002")
    OBVIOUS
  <2>2. Ends(w, After[i])
    BY <1>g, <1>7, <1>20, <1>21, <2>1, CorruptEnds
  <2>3. w.outcome # "ok"
    BY <2>1 DEF Fail, Message
  <2>4. expected = After[Len(frames)]
    BY <1>g DEF MeaningInv
  <2>5. Over(w)
    BY <1>g, <2>2, <2>3, <2>4, EndsOver
  <2>6. StreamsInTurn(w, calls')
    BY <1>16, <1>17, <2>1
  <2>7. msg' = w /\ pc' # "inflating"
    BY <1>13, <1>21, <2>1
  <2> QED
    BY <1>g, <1>10, <2>3, <2>5, <2>6, <2>7, NowOver
<1>22. CASE ~(m.op = "binary" /\ Bad(p.chunk)) /\ msg' = v /\ frame' = fr /\ held' = <<>>
  <2>1. PICK n \in Nat : /\ Chunk(m, d, i, c, n) /\ h \o p.chunk = Span(HeaderEnd(i) + c, n)
                         /\ consumed = c + n /\ consumed <= frames[i].size
    BY <1>g, <1>7, <1>22, AskedChunk
  <2>2. v = ConsumeMessagePayloadChunk(m, frames[i], Span(HeaderEnd(i) + c, n), p.final)
    BY <1>11, <1>18, <2>1
  <2>3. StreamsInTurn(v, calls')
    BY <1>16, <1>17
  <2>4. CASE p.final
    <3>1. c + n = frames[i].size /\ p.final = TRUE
      BY <1>9, <2>1, <2>4
    <3>2. Ends(ConsumeMessagePayloadChunk(m, frames[i], Span(HeaderEnd(i) + c, n), TRUE), DecodeFrame(d, i))
      BY <1>g, <2>1, <3>1, DataFinished
    <3>3. Ends(v, After[i])
      BY <1>20, <2>2, <3>1, <3>2
    <3>4. CASE v.outcome = "ok"
      <4>1. next' = "header1"
        BY <1>2, <1>15, <1>16, <2>4, <3>4 DEF Goes
      <4> QED
        BY <1>g, <1>8, <1>10, <1>13, <1>22, <2>3, <3>3, <4>1, NowEnded
    <3>5. CASE v.outcome # "ok"
      <4>1. expected = After[Len(frames)]
        BY <1>g DEF MeaningInv
      <4>2. Over(v)
        BY <1>g, <3>3, <3>5, <4>1, EndsOver
      <4>3. msg' = v /\ pc' # "inflating"
        BY <1>13, <1>22
      <4> QED
        BY <1>g, <1>10, <2>3, <3>5, <4>2, <4>3, NowOver
    <3> QED
      BY <3>4, <3>5
  <2>5. CASE ~p.final
    <3>1. consumed < frames[i].size /\ p.final = FALSE
      <4>1. PICK size \in Nat : size = frames[i].size
        BY <1>g, FrameIs
      <4>3. consumed # size /\ consumed <= size
        BY <1>9, <2>1, <2>5, <4>1
      <4>4. \A k, l \in Nat : k <= l /\ k # l => k < l
        OBVIOUS
      <4>5. consumed < size
        BY <4>3, <4>4
      <4> QED
        BY <1>9, <2>5, <4>1, <4>5
    <3>2. Partly(m, d, i, c, n, consumed)
      BY <2>1, <3>1 DEF Partly
    <3>3. Added(m, d, i, c, n, consumed)
      BY <1>g, <3>2, DataHandled
    <3>4. Within(v, d, i, consumed) /\ v.outcome = m.outcome
      BY <2>2, <3>1, <3>3 DEF Added
    <3>5. CASE m.outcome = "ok"
      <4>1. PICK none : none = <<>>
        OBVIOUS
      <4>2. Span(HeaderEnd(i) + consumed, consumed - consumed) = none
        <5>1. PICK b \in Nat : b = HeaderEnd(i) + consumed
          <6>1. HeaderEnd(i) \in Nat
            BY <1>g, HeaderEndIs
          <6> QED
            BY <6>1
        <5>2. consumed - consumed = 0
          OBVIOUS
        <5>3. Span(b, 0) = <<>>
          BY DEF Span
        <5> QED
          BY <4>1, <5>1, <5>2, <5>3
      <4>3. Divided(v, none, none, consumed, i, consumed, consumed)
        BY <1>5, <3>1, <3>4, <4>1, <4>2 DEF Divided
      <4>4. \E x \in 0..consumed : \E b \in 0..x : Divided(v, none, none, consumed, i, b, x)
        BY <4>3
      <4>5. i # 0
        OBVIOUS
      <4>6. Framed(v, fr, none, none)
        BY <1>5, <1>8, <1>19, <2>1, <4>4, <4>5 DEF Framed
      <4>7. /\ msg' = v /\ frame' = fr /\ inflates' = none /\ held' = none /\ none = <<>> /\ pc' # "inflating"
            /\ v.outcome = "ok" /\ next' = "payload"
        BY <1>2, <1>10, <1>13, <1>15, <1>22, <2>5, <3>4, <3>5, <4>1
      <4> QED
        BY <1>g, <2>3, <4>6, <4>7, NowFramed
    <3>6. CASE m.outcome = "destroyed"
      <4>1. Handed(v) = After[i - 1].events
        BY <1>5, <3>4 DEF Within
      <4>2. v.outcome = "destroyed"
        BY <3>4, <3>6
      <4>3. Over(v)
        BY <1>20, <4>1, <4>2 DEF Over
      <4>4. msg' = v /\ pc' # "inflating" /\ v.outcome # "ok"
        BY <1>13, <1>22, <4>2
      <4> QED
        BY <1>g, <1>10, <2>3, <4>3, <4>4, NowOver
    <3> QED
      BY <1>19, <3>5, <3>6
  <2> QED
    BY <1>9, <2>4, <2>5
<1>23. CASE ~p.final /\ msg' = m /\ frame' = fr /\ held' = out
  <2>1. StreamsInTurn(m, calls')
    BY <1>16, <1>17
  <2>2. CASE m.outcome = "destroyed"
    <3>1. Over(m)
      BY <1>5, <1>19, <1>20, <2>2 DEF Over
    <3>2. pc' # "inflating" /\ m.outcome # "ok"
      BY <1>13, <2>2
    <3> QED
      BY <1>g, <1>10, <1>23, <2>1, <3>1, <3>2, NowOver
  <2>3. CASE m.outcome = "ok"
    <3>1. PICK none : none = <<>>
      OBVIOUS
    <3>2. consumed < frames[i].size
      <4>1. PICK size \in Nat : size = frames[i].size
        BY <1>g, FrameIs
      <4>2. consumed <= frames[i].size
        BY <1>7 DEF Asked
      <4>3. consumed # size /\ consumed <= size
        BY <1>9, <1>23, <4>1, <4>2
      <4>4. \A k, l \in Nat : k <= l /\ k # l => k < l
        OBVIOUS
      <4>5. consumed < size
        BY <4>3, <4>4
      <4> QED
        BY <1>9, <1>23, <4>1, <4>5
    <3>3. c \in 0..consumed /\ out = Span(HeaderEnd(i) + c, consumed - c) /\ Within(m, d, i, c) /\ m.compressed
      <4>1. /\ c \in 0..consumed /\ h \o p.chunk = Span(HeaderEnd(i) + c, consumed - c)
            /\ Within(m, d, i, c) /\ m.compressed
        BY <1>g, <1>7, HeldMore
      <4> QED
        BY <1>11, <4>1
    <3>4. Divided(m, none, out, consumed, i, c, consumed)
      BY <1>5, <3>1, <3>2, <3>3 DEF Divided
    <3>5. \E x \in 0..consumed : \E b \in 0..x : Divided(m, none, out, consumed, i, b, x)
      BY <3>3, <3>4
    <3>6. i # 0 /\ consumed <= frames[i].size
      BY <1>7 DEF Asked
    <3>7. Framed(m, fr, none, out)
      BY <1>5, <1>8, <1>19, <3>5, <3>6 DEF Framed
    <3>8. inflates' = none /\ none = <<>> /\ pc' # "inflating" /\ next' = "payload"
      BY <1>2, <1>10, <1>13, <1>15, <1>23, <2>3, <3>1
    <3> QED
      BY <1>g, <1>23, <2>1, <2>3, <3>7, <3>8, NowFramed
  <2> QED
    BY <1>19, <2>2, <2>3
<1> QED
  BY <1>14, <1>21, <1>22, <1>23

-----------------------------------------------------------------------------
LEMMA InitMeans == Init => UsualInv
<1> SUFFICES ASSUME Init PROVE MeaningInv
  BY DEF UsualInv
<1>1. Given
  BY InitIsReader DEF ReaderInv, TypeInv
<1>2. /\ expected = Decoded /\ next = "header1" /\ pc = "idle" /\ inflates = <<>> /\ held = <<>> /\ calls = 0
      /\ frame.i = 0 /\ msg.outcome = "ok" /\ msg.fragmented = FALSE /\ ~msg.compressed /\ msg.stream = 0
      /\ msg.queue = <<>> /\ msg.events = <<>>
  BY DEF Init
<1>3. expected = After[Len(frames)] /\ After[0] = NothingDecoded
  BY <1>1, <1>2, DecodedIs, AfterIs
<1>4. ~InFrame
  BY <1>2 DEF InFrame
<1>5. Handed(msg) = <<>>
  <2>1. PICK m : m = msg
    OBVIOUS
  <2>2. m.events = <<>>
    BY <1>2, <2>1
  <2>3. Handed(m) = <<>>
    BY <2>2 DEF Handed
  <2> QED
    BY <2>1, <2>3
<1>6. Between(msg, After[0])
  <2>1. /\ NothingDecoded.verdict = "ok" /\ NothingDecoded.events = <<>> /\ NothingDecoded.open = FALSE
    BY DEF NothingDecoded
  <2> QED
    BY <1>2, <1>3, <1>5, <2>1 DEF Between
<1>7. Settled(msg, next, frame, held)
  BY <1>2, <1>6 DEF Settled
<1>8. StreamsInTurn(msg, 0)
  <2>1. PICK none : none = <<>>
    OBVIOUS
  <2>2. Len(none) = 0
    BY <2>1
  <2>3. Count(none, 0) = 0
    BY CountIs
  <2>4. InTurn(none)
    BY <2>2 DEF InTurn
  <2>5. msg.events = none /\ msg.queue = none /\ msg.stream = 0
    BY <1>2, <2>1
  <2> QED
    BY <2>2, <2>3, <2>4, <2>5 DEF StreamsInTurn
<1>9. FrameInv /\ BetweenInv /\ OverInv /\ AnswerInv
  BY <1>2, <1>4, <1>7 DEF FrameInv, BetweenInv, OverInv, AnswerInv
<1> QED
  BY <1>2, <1>3, <1>8, <1>9 DEF MeaningInv

LEMMA GivenIsGiven ==
  ASSUME [Next]_vars
  PROVE  UNCHANGED given
BY DEF Next, vars, Transform, Read16bitHeader, ReadRestOfHeader, ReadPayload, LeavePayload, Callback, Inflated,
       ReceiveStream, Destroy

LEMMA NextMeans == ReaderInv /\ UsualInv /\ [Next]_vars => UsualInv'
<1> SUFFICES ASSUME ReaderInv, UsualInv, [Next]_vars, Usual' PROVE MeaningInv'
  BY DEF UsualInv
<1>0. Usual /\ MeaningInv
  <2>1. Given /\ UNCHANGED given
    BY GivenIsGiven DEF ReaderInv, TypeInv
  <2>2. Usual' = Usual
    BY <2>1, AfterStays
  <2> QED
    BY <2>2 DEF UsualInv
<1>1. ASSUME NEW n \in 1..(Total - arrived), Transform(n) PROVE MeaningInv'
  BY <1>0, <1>1, TransformMeans
<1>2. CASE Read16bitHeader
  BY <1>0, <1>2, Read16bitHeaderMeans
<1>3. CASE ReadRestOfHeader
  BY <1>0, <1>3, ReadRestOfHeaderMeans
<1>4. CASE ReadPayload
  BY <1>0, <1>4, ReadPayloadMeans
<1>5. CASE LeavePayload
  BY <1>0, <1>5, LeavePayloadMeans
<1>6. CASE Callback
  BY <1>0, <1>6, CallbackMeans
<1>7. CASE Inflated
  BY <1>0, <1>7, InflatedMeans
<1>8. CASE ReceiveStream
  BY <1>0, <1>8, ReceiveStreamMeans
<1>9. CASE Destroy
  BY <1>0, <1>9, DestroyMeans
<1>10. CASE UNCHANGED vars
  BY <1>0, <1>10, StutterMeans
<1> QED
  BY <1>1, <1>2, <1>3, <1>4, <1>5, <1>6, <1>7, <1>8, <1>9, <1>10 DEF Next

LEMMA UsualAlways == Spec => [](ReaderInv /\ UsualInv)
BY InitIsReader, NextKeeps, InitMeans, NextMeans, PTL DEF Spec

(* What has been handed over, at any time, is what the first frames mean.  *)
LEMMA HandedBegins ==
  ASSUME ReaderInv, MeaningInv
  PROVE  \E j \in 0..Len(frames) : Handed(msg) = After[j].events
<1>1. /\ Given /\ frame \in [i : 0..Len(frames), consumed : Nat, payload : Seq(Nat)]
      /\ frame.i = 0 => next = "header1"
  BY DEF ReaderInv, TypeInv
<1>2. FrameInv /\ BetweenInv /\ OverInv
  BY DEF MeaningInv
<1>3. CASE InFrame
  <2>1. frame.i \in 1..Len(frames) /\ Handed(msg) = After[frame.i - 1].events
    BY <1>1, <1>2, <1>3, FramedHanded DEF FrameInv
  <2>2. frame.i - 1 \in 0..Len(frames)
    BY <1>1, <2>1, ScenarioIs
  <2> QED
    BY <2>1, <2>2
<1>4. CASE ~InFrame /\ msg.outcome = "ok"
  <2>1. Settled(msg, next, frame, held)
    BY <1>2, <1>4 DEF BetweenInv
  <2> QED
    BY <1>1, <2>1, SettledHanded
<1>5. CASE ~InFrame /\ msg.outcome # "ok"
  BY <1>2, <1>5 DEF OverInv, Over
<1> QED
  BY <1>3, <1>4, <1>5

(* When the frames are usual, messages, pings, pongs and the close frame   *)
(* are handed over whole and in the order they were sent, whatever the     *)
(* pieces they arrive in and whenever the inflater answers, and the        *)
(* streams receiveStream() has queued are used in turn.                    *)
THEOREM DeliveryCorrect == Spec => [](Usual => DeliveredAsSent)
<1>1. ReaderInv /\ UsualInv => (Usual => DeliveredAsSent)
  <2> SUFFICES ASSUME ReaderInv, MeaningInv PROVE DeliveredAsSent
    BY DEF UsualInv
  <2>1. Given /\ Len(frames) \in Nat /\ expected = After[Len(frames)]
    BY ScenarioIs DEF ReaderInv, TypeInv, MeaningInv
  <2>2. PICK j \in 0..Len(frames) : Handed(msg) = After[j].events
    BY HandedBegins
  <2>3. Begins(After[j].events, expected.events)
    <3>1. Len(frames) \in j..Len(frames)
      BY <2>1
    <3> QED
      BY <2>1, <3>1, AfterBegins
  <2>4. Len(After[j].events) \in Nat
    <3>1. Meaningful(After[j])
      BY <2>1, AfterMeaningful
    <3> QED
      BY <3>1 DEF Meaningful, Decoding
  <2>5. HandedOver = Handed(msg)
    BY DEF HandedOver, Handed
  <2>6. IsPrefix(HandedOver, expected.events)
    BY <2>2, <2>3, <2>4, <2>5, BeginsPrefix
  <2>7. msg.events \in Seq(Event) /\ InTurn(msg.events)
    BY DEF ReaderInv, TypeInv, Message, MeaningInv, StreamsInTurn
  <2>8. DOMAIN msg.events = 1..Len(msg.events)
    BY <2>7
  <2> QED
    BY <2>6, <2>7, <2>8 DEF DeliveredAsSent, InTurn, Count
<1> QED
  BY <1>1, UsualAlways, PTL

(* Then the connection is also failed only for what the peer did wrong,    *)
(* with the code of its first wrong frame and after all before it has been *)
(* handed over, and no #msgPayload that was not set is ever used.          *)
THEOREM ErrorsCorrect == Spec => [](Usual => ErrorsAreDeserved)
<1>1. ReaderInv /\ UsualInv => (Usual => ErrorsAreDeserved)
  <2> SUFFICES ASSUME ReaderInv, MeaningInv, msg.outcome \notin {"ok", "destroyed"}
               PROVE  msg.outcome = expected.verdict /\ HandedOver = expected.events
    BY DEF UsualInv, ErrorsAreDeserved
  <2>1. OverInv /\ AnswerInv
    BY DEF MeaningInv
  <2>2. ~InFrame
    BY <2>1 DEF InFrame, AnswerInv
  <2>3. Over(msg)
    BY <2>1, <2>2 DEF OverInv
  <2>4. HandedOver = Handed(msg)
    BY DEF HandedOver, Handed
  <2> QED
    BY <2>3, <2>4 DEF Over
<1> QED
  BY <1>1, UsualAlways, PTL

=============================================================================
