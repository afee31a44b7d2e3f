------------------------------- MODULE Wire_proofs -------------------------------
(***************************************************************************)
(* Proofs about MqttCodec, for any packets, and about Wire, for any scripts,  *)
(* sizes and bounds.                                                        *)
(***************************************************************************)
EXTENDS Wire, SequenceTheorems, FiniteSetTheorems, WellFoundedInduction, TLAPS

Octet == 0..255

\* One sequence begins with the other.
Begins(a, b) == Len(a) <= Len(b) /\ \A i \in 1..Len(a) : a[i] = b[i]

\* A server finds in the octets of our packet what was encoded.
Legible(p) ==
    /\ Encode(p) \in Seq(Octet)
    /\ Len(Encode(p)) >= 2 /\ Encode(p)[2] = Len(Encode(p)) - 2
    /\ ReadPacket(Encode(p)) = {p}

\* Decode finds in the octets of the broker's what they are to mean, and refuses
\* what means nothing.
Intelligible(p) ==
    /\ p.octets \in Seq(Octet)
    /\ \/ \E m \in p.means :
             p.means = {m} /\ Decode(p.octets) = Answer("Ok", {m}, Len(p.octets))
       \/ p.means = {} /\ Decode(p.octets).result = "Malformed"

\* On its own, each packet is read as what it is, ours by the broker and the
\* broker's by us.
Understood ==
    /\ \A i \in DOMAIN sent : Legible(sent[i])
    /\ \A i \in DOMAIN script : Intelligible(script[i])
-----------------------------------------------------------------------------
(* Sequences.                                                              *)

LEMMA Elements ==
  ASSUME NEW a \in Seq(Octet)
  PROVE  /\ Len(a) \in Nat
         /\ \A i \in 1..Len(a) : a[i] \in Octet /\ a[i] \in Nat /\ a[i] < 256
<1>1. Len(a) \in Nat /\ \A i \in 1..Len(a) : a[i] \in Octet
  OBVIOUS
<1>2. \A n \in Octet : n \in Nat /\ n < 256
  BY DEF Octet
<1> QED BY <1>1, <1>2

LEMMA Split ==
  ASSUME NEW S, NEW a \in Seq(S), NEW n \in 0..Len(a)
  PROVE  /\ SubSeq(a, 1, n) \in Seq(S) /\ Len(SubSeq(a, 1, n)) = n
         /\ \A i \in 1..n : SubSeq(a, 1, n)[i] = a[i]
         /\ From(a, n + 1) \in Seq(S) /\ Len(From(a, n + 1)) = Len(a) - n
         /\ \A i \in 1..(Len(a) - n) : From(a, n + 1)[i] = a[n + i]
<1>1. /\ Len(a) \in Nat /\ n \in Nat /\ n <= Len(a)
      /\ \A i \in 1..n : a[i] \in S
      /\ \A i \in (n + 1)..Len(a) : a[i] \in S
  OBVIOUS
<1>2. /\ SubSeq(a, 1, n) \in Seq(S) /\ Len(SubSeq(a, 1, n)) = n
      /\ \A i \in 1..n : SubSeq(a, 1, n)[i] = a[i]
  BY <1>1, SubSeqProperties
<1>3. /\ SubSeq(a, n + 1, Len(a)) \in Seq(S)
      /\ Len(SubSeq(a, n + 1, Len(a))) = Len(a) - n
      /\ \A i \in 1..(Len(a) - n) : SubSeq(a, n + 1, Len(a))[i] = a[n + i]
  <2>1. n + 1 \in Int /\ Len(a) \in Int
    BY <1>1
  <2>2. /\ SubSeq(a, n + 1, Len(a)) \in Seq(S)
        /\ Len(SubSeq(a, n + 1, Len(a))) =
              IF n + 1 <= Len(a) THEN Len(a) - (n + 1) + 1 ELSE 0
        /\ \A i \in 1..(Len(a) - (n + 1) + 1) : SubSeq(a, n + 1, Len(a))[i] = a[(n + 1) + i - 1]
    BY <1>1, <2>1, SubSeqProperties
  <2> DEFINE r == SubSeq(a, n + 1, Len(a))
  <2>3. /\ r \in Seq(S)
        /\ Len(r) = IF n + 1 <= Len(a) THEN Len(a) - (n + 1) + 1 ELSE 0
        /\ \A i \in 1..(Len(a) - (n + 1) + 1) : r[i] = a[(n + 1) + i - 1]
    BY <2>2
  <2> HIDE DEF r
  <2>4. Len(r) = Len(a) - n
    BY <1>1, <2>3
  <2>5. ASSUME NEW i \in 1..(Len(a) - n)
        PROVE  r[i] = a[n + i]
    <3>1. i \in 1..(Len(a) - (n + 1) + 1) /\ (n + 1) + i - 1 = n + i
      BY <1>1
    <3> QED BY <2>3, <3>1
  <2> QED BY <2>3, <2>4, <2>5 DEF r
<1> QED BY <1>2, <1>3 DEF From

\* A piece that two sequences have in common.
LEMMA SamePiece ==
  ASSUME NEW S, NEW a \in Seq(S), NEW b \in Seq(S), Begins(a, b),
         NEW m \in Nat \ {0}, NEW n \in Int, n <= Len(a)
  PROVE  SubSeq(a, m, n) = SubSeq(b, m, n)
<1>1. /\ Len(a) \in Nat /\ Len(b) \in Nat /\ Len(a) <= Len(b)
      /\ \A i \in m..n : a[i] \in S /\ b[i] \in S /\ a[i] = b[i]
  BY DEF Begins
<1>2. /\ SubSeq(a, m, n) \in Seq(S)
      /\ Len(SubSeq(a, m, n)) = IF m <= n THEN n - m + 1 ELSE 0
      /\ \A i \in 1..(n - m + 1) : SubSeq(a, m, n)[i] = a[m + i - 1]
  BY <1>1, SubSeqProperties
<1>3. /\ SubSeq(b, m, n) \in Seq(S)
      /\ Len(SubSeq(b, m, n)) = IF m <= n THEN n - m + 1 ELSE 0
      /\ \A i \in 1..(n - m + 1) : SubSeq(b, m, n)[i] = b[m + i - 1]
  BY <1>1, SubSeqProperties
<1>4. ASSUME NEW i \in 1..Len(SubSeq(a, m, n))
      PROVE  SubSeq(a, m, n)[i] = SubSeq(b, m, n)[i]
  <2>1. i \in 1..(n - m + 1) /\ m + i - 1 \in m..n
    BY <1>2
  <2> QED BY <1>1, <1>2, <1>3, <2>1
<1> QED BY <1>2, <1>3, <1>4, SeqEqual
-----------------------------------------------------------------------------
(* Decode goes by the first packet of the buffer only.                      *)

\* A number that has ended has ended for good.
LEMMA EndsStay ==
  ASSUME NEW a \in Seq(Octet), NEW b \in Seq(Octet), Begins(a, b), Len(a) >= 2,
         VarIntEnds(a, 2) # {} \/ Len(a) >= 5
  PROVE  /\ VarIntEnds(b, 2) = VarIntEnds(a, 2)
         /\ \A i, j \in VarIntEnds(a, 2) : i = j
         /\ \A i \in VarIntEnds(a, 2) : i \in 2..5 /\ i <= Len(a)
<1>1. /\ Len(a) \in Nat /\ Len(b) \in Nat /\ Len(a) <= Len(b)
      /\ \A i \in 1..Len(a) : a[i] = b[i] /\ a[i] \in Nat
  BY Elements DEF Begins
<1>2. \A i \in VarIntEnds(a, 2) :
         i \in 2..5 /\ i <= Len(a) /\ a[i] < 128 /\ \A j \in 2..(i - 1) : a[j] >= 128
  BY DEF VarIntEnds
<1>3. \A i \in VarIntEnds(b, 2) :
         i \in 2..5 /\ i <= Len(b) /\ b[i] < 128 /\ \A j \in 2..(i - 1) : b[j] >= 128
  BY DEF VarIntEnds
<1>4. \A i, j \in VarIntEnds(a, 2) : i = j
  <2> SUFFICES ASSUME NEW i \in VarIntEnds(a, 2), NEW j \in VarIntEnds(a, 2), i < j PROVE FALSE
    BY <1>2
  <2>1. i \in 2..(j - 1) /\ a[i] \in Nat /\ a[i] < 128
    BY <1>1, <1>2
  <2>2. a[i] >= 128
    BY <1>2, <2>1
  <2> QED BY <2>1, <2>2
<1>5. \A i \in VarIntEnds(a, 2) : i \in VarIntEnds(b, 2)
  <2> SUFFICES ASSUME NEW i \in VarIntEnds(a, 2) PROVE i \in VarIntEnds(b, 2)
    OBVIOUS
  <2>1. i \in 2..5 /\ i <= Len(b) /\ b[i] < 128
    BY <1>1, <1>2
  <2>2. \A j \in 2..(i - 1) : b[j] >= 128
    BY <1>1, <1>2
  <2> QED BY <2>1, <2>2 DEF VarIntEnds
<1>6. \A i \in VarIntEnds(b, 2) : i \in VarIntEnds(a, 2)
  <2> SUFFICES ASSUME NEW i \in VarIntEnds(b, 2), i \notin VarIntEnds(a, 2) PROVE FALSE
    OBVIOUS
  <2>1. ~(i <= Len(a))
    <3> SUFFICES ASSUME i <= Len(a) PROVE FALSE
      OBVIOUS
    <3>1. i \in 2..5 /\ b[i] < 128 /\ \A j \in 2..(i - 1) : b[j] >= 128
      BY <1>3
    <3>2. a[i] < 128
      BY <1>1, <3>1
    <3>3. \A j \in 2..(i - 1) : a[j] >= 128
      BY <1>1, <3>1
    <3> QED BY <3>1, <3>2, <3>3 DEF VarIntEnds
  <2>2. PICK k \in VarIntEnds(a, 2) : TRUE
    <3>1. ~(Len(a) >= 5)
      BY <1>1, <1>3, <2>1
    <3> QED BY <3>1
  <2>3. k \in 2..(i - 1) /\ b[k] < 128 /\ b[k] \in Nat
    <3>1. k \in 2..5 /\ k <= Len(a) /\ a[k] < 128 /\ i \in 2..5 /\ i > Len(a)
      BY <1>1, <1>2, <1>3, <2>1
    <3>2. b[k] = a[k] /\ a[k] \in Nat
      BY <1>1, <3>1
    <3> QED BY <1>1, <3>1, <3>2
  <2>4. b[k] >= 128
    BY <1>3, <2>3
  <2> QED BY <2>3, <2>4
<1> QED BY <1>2, <1>4, <1>5, <1>6

LEMMA SameValue ==
  ASSUME NEW a \in Seq(Octet), NEW b \in Seq(Octet), Begins(a, b), NEW last \in 2..5,
         last <= Len(a)
  PROVE  /\ VarIntValue(a, 2, last) = VarIntValue(b, 2, last)
         /\ VarIntValue(a, 2, last) \in Nat
<1> DEFINE digit(c) == [k \in 0..3 |-> IF 2 + k > last THEN 0 ELSE c[2 + k] % 128]
<1>1. \A k \in 0..3 : 2 + k <= last => a[2 + k] = b[2 + k] /\ a[2 + k] % 128 \in Nat
  <2> SUFFICES ASSUME NEW k \in 0..3, 2 + k <= last
               PROVE  a[2 + k] = b[2 + k] /\ a[2 + k] % 128 \in Nat
    OBVIOUS
  <2>1. 2 + k \in 1..Len(a)
    BY Elements
  <2>2. a[2 + k] = b[2 + k] /\ a[2 + k] \in Nat
    BY <2>1, Elements DEF Begins
  <2> QED BY <2>2
<1>2. digit(a) = digit(b) /\ digit(a) \in [0..3 -> Nat]
  BY <1>1
<1>3. /\ VarIntValue(a, 2, last) =
             digit(a)[0] + 128 * digit(a)[1] + 16384 * digit(a)[2] + 2097152 * digit(a)[3]
      /\ VarIntValue(b, 2, last) =
             digit(b)[0] + 128 * digit(b)[1] + 16384 * digit(b)[2] + 2097152 * digit(b)[3]
  BY DEF VarIntValue
<1> HIDE DEF digit
<1> QED BY <1>2, <1>3, SMTT(30)

\* What Decode has said of a buffer it says of every longer one.
THEOREM DecodeIsFinal ==
  ASSUME NEW a \in Seq(Octet), NEW b \in Seq(Octet), Begins(a, b),
         Decode(a).result # "NeedMore"
  PROVE  Decode(b) = Decode(a)
<1>1. Len(a) >= 2 /\ Len(a) \in Nat /\ Len(b) \in Nat /\ Len(b) >= Len(a) /\ a[1] = b[1]
  <2>1. Len(a) >= 2
    BY DEF Decode, Answer
  <2> QED BY <2>1 DEF Begins
<1>2. CASE VarIntEnds(a, 2) = {}
  <2>1. DecodeVarInt(a, 2) = {}
    BY <1>2 DEF DecodeVarInt
  <2>2. Len(a) >= 5
    BY <2>1 DEF Decode, Answer
  <2>3. DecodeVarInt(b, 2) = {} /\ Len(b) >= 5
    BY <1>1, <1>2, <2>2, EndsStay DEF DecodeVarInt
  <2> QED BY <2>1, <2>2, <2>3 DEF Decode
<1>3. ASSUME NEW last \in VarIntEnds(a, 2)
      PROVE  Decode(b) = Decode(a)
  <2> DEFINE len == [value |-> VarIntValue(a, 2, last), next |-> last + 1]
  <2>1. /\ VarIntEnds(a, 2) = {last} /\ VarIntEnds(b, 2) = {last}
        /\ last \in 2..5 /\ last <= Len(a)
    BY <1>1, <1>3, EndsStay
  <2>2. VarIntValue(b, 2, last) = VarIntValue(a, 2, last) /\ VarIntValue(a, 2, last) \in Nat
    BY <2>1, SameValue
  <2>3. DecodeVarInt(a, 2) = {len} /\ DecodeVarInt(b, 2) = {len}
    BY <2>1, <2>2 DEF DecodeVarInt
  <2>4. len.next \in Nat \ {0} /\ len.value \in Nat
    BY <2>1, <2>2
  <2> HIDE DEF len
  <2>5. Decode(a) = Framed(a, len) /\ Decode(b) = Framed(b, len)
    <3>1. /\ ~(Len(a) < 2 \/ DecodeVarInt(a, 2) = {})
          /\ ~(Len(b) < 2 \/ DecodeVarInt(b, 2) = {})
      <4>1. ~(Len(a) < 2) /\ ~(Len(b) < 2)
        BY <1>1
      <4> QED BY <2>3, <4>1
    <3>2. \A x : (CHOOSE answer \in {x} : TRUE) = x
      OBVIOUS
    <3>3. /\ {Framed(a, l) : l \in DecodeVarInt(a, 2)} = {Framed(a, len)}
          /\ {Framed(b, l) : l \in DecodeVarInt(b, 2)} = {Framed(b, len)}
      BY <2>3
    <3> QED BY <3>1, <3>2, <3>3 DEF Decode
  <2> DEFINE end == len.next + len.value - 1
  <2>6. end \in Int /\ ~(Len(a) < end)
    <3>1. Len(a) < end => Framed(a, len).result = "NeedMore"
      BY DEF Framed, Answer
    <3> QED BY <2>4, <2>5, <3>1
  <2>7. SubSeq(a, len.next, end) = SubSeq(b, len.next, end)
    <3> HIDE DEF end
    <3>1. end <= Len(a)
      BY <1>1, <2>6
    <3> QED BY <2>4, <2>6, <3>1, SamePiece
  <2>8. ~(Len(b) < end)
    BY <1>1, <2>4, <2>6
  <2> DEFINE packets(c) == UNION {DecodeBody(c[1] \div 16, c[1] % 16, body) :
                                     body \in {SubSeq(c, len.next, end)}}
             read(c) == IF packets(c) = {} THEN Answer("Malformed", {}, 0)
                        ELSE Answer("Ok", {[p EXCEPT !.type = c[1] \div 16, !.flags = c[1] % 16] :
                                              p \in packets(c)},
                                    Consumed(len))
  <2>9. packets(a) = packets(b)
    <3> HIDE DEF end
    <3> QED BY <1>1, <2>7
  <2>10. read(a) = read(b)
    <3> HIDE DEF packets, end
    <3> QED BY <1>1, <2>9
  <2>11. Framed(a, len) = read(a)
    BY <2>6, Zenon DEF Framed
  <2>12. Framed(b, len) = read(b)
    BY <2>8, Zenon DEF Framed
  <2> QED BY <2>5, <2>10, <2>11, <2>12, Zenon
<1> QED BY <1>2, <1>3
-----------------------------------------------------------------------------
(* Where a sequence lies in a longer one.                                   *)

\* The words on the wire: octets and the headers of records.
Word == Nat

\* The sequence a is in s behind the first x places.
At(a, s, x) == x + Len(a) <= Len(s) /\ \A i \in 1..Len(a) : a[i] = s[x + i]

LEMMA Words ==
  ASSUME NEW a \in Seq(Octet)
  PROVE  a \in Seq(Word)
<1>1. Octet \subseteq Word
  BY DEF Octet, Word
<1> QED BY <1>1, SeqMonotonic

LEMMA AtEmpty ==
  ASSUME NEW s, NEW x \in Nat, Len(s) \in Nat, x <= Len(s)
  PROVE  At(<<>>, s, x)
BY DEF At

LEMMA AtJoin ==
  ASSUME NEW S, NEW a \in Seq(S), NEW b \in Seq(S), NEW s, Len(s) \in Nat, NEW x \in Nat,
         At(a, s, x), At(b, s, x + Len(a))
  PROVE  /\ a \o b \in Seq(S) /\ Len(a \o b) = Len(a) + Len(b)
         /\ At(a \o b, s, x)
<1>1. /\ a \o b \in Seq(S) /\ Len(a \o b) = Len(a) + Len(b)
      /\ Len(a) \in Nat /\ Len(b) \in Nat
      /\ \A i \in 1..(Len(a) + Len(b)) :
             (a \o b)[i] = IF i <= Len(a) THEN a[i] ELSE b[i - Len(a)]
  BY ConcatProperties
<1> DEFINE c == a \o b
<1>2. /\ Len(c) = Len(a) + Len(b)
      /\ \A i \in 1..(Len(a) + Len(b)) : c[i] = IF i <= Len(a) THEN a[i] ELSE b[i - Len(a)]
  BY <1>1
<1> HIDE DEF c
<1>3. ASSUME NEW i \in 1..Len(c) PROVE c[i] = s[x + i]
  <2>1. CASE i <= Len(a)
    <3>1. i \in 1..Len(a)
      BY <1>1, <1>2, <2>1
    <3> QED BY <1>1, <1>2, <2>1, <3>1 DEF At
  <2>2. CASE i > Len(a)
    <3>1. i - Len(a) \in 1..Len(b) /\ (x + Len(a)) + (i - Len(a)) = x + i
      BY <1>1, <1>2, <2>2
    <3>2. b[i - Len(a)] = s[(x + Len(a)) + (i - Len(a))]
      BY <3>1 DEF At
    <3> QED BY <1>1, <1>2, <2>2, <3>1, <3>2
  <2> QED BY <1>1, <1>2, <2>1, <2>2
<1>4. x + Len(c) <= Len(s)
  BY <1>1, <1>2 DEF At
<1>5. At(c, s, x)
  BY <1>3, <1>4 DEF At
<1> QED BY <1>1, <1>5 DEF c

\* What a concatenation is a part of, its halves are parts of.
LEMMA AtHalves ==
  ASSUME NEW S, NEW a \in Seq(S), NEW b \in Seq(S), NEW s, Len(s) \in Nat, NEW x \in Nat,
         At(a \o b, s, x)
  PROVE  At(a, s, x) /\ At(b, s, x + Len(a))
<1>1. /\ Len(a \o b) = Len(a) + Len(b)
      /\ Len(a) \in Nat /\ Len(b) \in Nat
      /\ \A i \in 1..(Len(a) + Len(b)) :
             (a \o b)[i] = IF i <= Len(a) THEN a[i] ELSE b[i - Len(a)]
  BY ConcatProperties
<1> DEFINE c == a \o b
<1>2. /\ Len(c) = Len(a) + Len(b)
      /\ \A i \in 1..(Len(a) + Len(b)) : c[i] = IF i <= Len(a) THEN a[i] ELSE b[i - Len(a)]
      /\ At(c, s, x)
  BY <1>1
<1> HIDE DEF c
<1>3. At(a, s, x)
  <2>1. \A i \in 1..Len(a) : i \in 1..Len(c) /\ c[i] = a[i]
    BY <1>1, <1>2
  <2> QED BY <1>1, <1>2, <2>1 DEF At
<1>4. At(b, s, x + Len(a))
  <2>1. \A i \in 1..Len(b) : /\ i + Len(a) \in 1..Len(c) /\ c[i + Len(a)] = b[i]
                             /\ (x + Len(a)) + i = x + (i + Len(a))
    BY <1>1, <1>2
  <2> QED BY <1>1, <1>2, <2>1 DEF At
<1> QED BY <1>3, <1>4

LEMMA AtCut ==
  ASSUME NEW S, NEW a \in Seq(S), NEW s, Len(s) \in Nat, NEW x \in Nat, At(a, s, x),
         NEW n \in 0..Len(a)
  PROVE  At(SubSeq(a, 1, n), s, x) /\ At(From(a, n + 1), s, x + n)
<1> DEFINE u == SubSeq(a, 1, n)
           v == From(a, n + 1)
<1>1. /\ Len(u) = n /\ \A i \in 1..n : u[i] = a[i]
      /\ Len(v) = Len(a) - n /\ \A i \in 1..(Len(a) - n) : v[i] = a[n + i]
      /\ Len(a) \in Nat /\ n \in Nat /\ n <= Len(a)
  BY Split
<1> HIDE DEF u, v
<1>2. At(u, s, x)
  BY <1>1 DEF At
<1>3. At(v, s, x + n)
  <2>1. \A i \in 1..Len(v) : n + i \in 1..Len(a) /\ (x + n) + i = x + (n + i)
    BY <1>1
  <2> QED BY <1>1, <2>1 DEF At
<1> QED BY <1>2, <1>3 DEF u, v

LEMMA AtWhole ==
  ASSUME NEW S, NEW a \in Seq(S), NEW s \in Seq(S), At(a, s, 0), Len(a) = Len(s)
  PROVE  a = s
<1>1. \A i \in 1..Len(a) : a[i] = s[i]
  BY DEF At
<1> QED BY <1>1, SeqEqual

\* Two parts that begin at the same place: the longer begins with the shorter.
LEMMA AtBoth ==
  ASSUME NEW a, NEW b, NEW s, NEW x \in Nat, Len(a) \in Nat, Len(b) \in Nat,
         At(a, s, x), At(b, s, x), Len(a) <= Len(b)
  PROVE  Begins(a, b)
BY DEF At, Begins

LEMMA LimitOf ==
  ASSUME NEW a \in Int, NEW b \in Int
  PROVE  /\ Max({a, b}) = IF a >= b THEN a ELSE b
         /\ Min({a, b}) = IF a <= b THEN a ELSE b
  BY DEF Max, Min

\* Octets that move from one buffer to the end of another.
LEMMA Regroup ==
  ASSUME NEW S, NEW a \in Seq(S), NEW b \in Seq(S), NEW n \in 0..Len(b)
  PROVE  /\ a \o SubSeq(b, 1, n) \in Seq(S) /\ From(b, n + 1) \in Seq(S)
         /\ (a \o SubSeq(b, 1, n)) \o From(b, n + 1) = a \o b
<1>1. SubSeq(b, 1, n) \in Seq(S) /\ From(b, n + 1) \in Seq(S)
  BY Split
<1> DEFINE u == SubSeq(b, 1, n)
           v == From(b, n + 1)
<1>2. /\ Len(u) = n /\ \A i \in 1..n : u[i] = b[i]
      /\ Len(v) = Len(b) - n /\ \A i \in 1..(Len(b) - n) : v[i] = b[n + i]
      /\ u \in Seq(S) /\ v \in Seq(S) /\ Len(b) \in Nat /\ n \in Nat /\ n <= Len(b)
  BY Split
<1>0. u \in Seq(S) /\ v \in Seq(S)
  BY <1>2
<1> HIDE DEF u, v
<1>3. u \o v = b
  <2>0. u \o v \in Seq(S) /\ Len(u \o v) = Len(u) + Len(v)
    BY <1>0, ConcatProperties
  <2>1. u \o v \in Seq(S) /\ Len(u \o v) = Len(b)
    BY <1>2, <2>0
  <2>2. ASSUME NEW i \in 1..Len(b) PROVE (u \o v)[i] = b[i]
    <3>1. i \in 1..(Len(u) + Len(v))
      BY <1>2
    <3>2. (u \o v)[i] = IF i <= Len(u) THEN u[i] ELSE v[i - Len(u)]
      BY <1>2, <3>1, ConcatProperties
    <3>3. i > n => i - n \in 1..(Len(b) - n) /\ n + (i - n) = i
      BY <1>2
    <3> QED BY <1>2, <3>2, <3>3
  <2> QED BY <2>1, <2>2, SeqEqual
<1>4. (a \o u) \o v = a \o (u \o v) /\ a \o u \in Seq(S)
  <2>1. PICK c \in Seq(S), d \in Seq(S) : c = u /\ d = v
    BY <1>0
  <2>2. (a \o c) \o d = a \o (c \o d)
    BY ConcatAssociative, SMTT(30)
  <2>3. a \o c \in Seq(S)
    BY ConcatProperties
  <2> QED BY <2>1, <2>2, <2>3
<1> QED BY <1>1, <1>3, <1>4 DEF u, v
-----------------------------------------------------------------------------
(* FlattenSeq: the concatenation of several sequences.                      *)

\* The same of a receiver's buffer and what is still on the wire.
LEMMA WordsRegroup ==
  \A a \in Seq(Word), b \in Seq(Word) : \A n \in 0..Len(b) :
     /\ a \o SubSeq(b, 1, n) \in Seq(Word) /\ From(b, n + 1) \in Seq(Word)
     /\ (a \o SubSeq(b, 1, n)) \o From(b, n + 1) = a \o b
BY Regroup

LEMMA Smallest ==
  ASSUME NEW S \in SUBSET Nat, S # {}
  PROVE  \E n \in S : \A m \in S : n <= m
<1> DEFINE less == OpToRel(<, Nat)
<1>1. IsWellFoundedOn(less, Nat)
  BY NatLessThanWellFounded
<1> HIDE DEF less
<1>2. PICK n \in S : \A m \in S : ~(<<m, n>> \in less)
  BY <1>1, WFMin
<1>3. \A m \in S : ~(m < n)
  BY <1>2 DEF less, OpToRel
<1>4. \A m \in S : n <= m
  BY <1>3
<1> QED BY <1>4

LEMMA BeginsThrough ==
  ASSUME NEW a, NEW b, NEW c, Len(a) \in Nat, Len(b) \in Nat, Len(c) \in Nat,
         Begins(a, b), Begins(b, c)
  PROVE  Begins(a, c)
BY DEF Begins

LEMMA BeginsConcat ==
  ASSUME NEW S, NEW a \in Seq(S), NEW b \in Seq(S)
  PROVE  /\ Begins(a, a \o b)
         /\ At(b, a \o b, Len(a))
<1>1. Len(a) \in Nat /\ Len(b) \in Nat /\ a \o b \in Seq(S) /\ Len(a \o b) = Len(a) + Len(b)
  BY ConcatProperties
<1> DEFINE c == a \o b
<1>2. At(c, c, 0) /\ Len(c) \in Nat
  BY <1>1 DEF At
<1>3. At(a \o b, c, 0)
  BY <1>2
<1> HIDE DEF c
<1>4. At(a, c, 0) /\ At(b, c, 0 + Len(a))
  BY <1>2, <1>3, AtHalves
<1>5. Begins(a, c) /\ At(b, c, Len(a))
  BY <1>1, <1>2, <1>4 DEF At, Begins
<1> QED BY <1>5 DEF c

\* f[i] is the concatenation of the first i sequences.
Sums(seqs, f) ==
    \A i \in 1..Len(seqs) : f[i] = IF i = 1 THEN seqs[i] ELSE f[i - 1] \o seqs[i]

\* The same, as FlattenSeq computes it.
Computes(seqs, n, f) ==
    f = [i \in 1..n |-> IF i = 1 THEN seqs[i] ELSE f[i - 1] \o seqs[i]]

LEMMA SumsExist ==
  ASSUME NEW S, NEW seqs \in Seq(Seq(S)), NEW n \in Nat, n <= Len(seqs)
  PROVE  \E f \in [1..n -> Seq(S)] : Computes(seqs, n, f)
<1> DEFINE Has(k) == \E f \in [1..k -> Seq(S)] : Computes(seqs, k, f)
           Bad == {k \in 0..n : ~Has(k)}
<1>1. Len(seqs) \in Nat /\ \A i \in 1..Len(seqs) : seqs[i] \in Seq(S)
  OBVIOUS
<1>2. SUFFICES ASSUME Bad # {} PROVE FALSE
  <2> HIDE DEF Has
  <2>1. n \in 0..n
    OBVIOUS
  <2>2. Bad = {} => Has(n)
    BY <2>1
  <2> QED BY <2>2 DEF Has
<1>3. PICK k \in Bad : \A m \in Bad : k <= m
  <2> HIDE DEF Has
  <2>1. Bad \in SUBSET Nat
    OBVIOUS
  <2> HIDE DEF Bad
  <2> QED BY <1>2, <2>1, Smallest
<1>4. k # 0
  <2>1. Has(0)
    <3> DEFINE f == [i \in 1..0 |-> <<>>]
    <3>1. f \in [1..0 -> Seq(S)]
      OBVIOUS
    <3>2. f = [i \in 1..0 |-> IF i = 1 THEN seqs[i] ELSE f[i - 1] \o seqs[i]]
      OBVIOUS
    <3> QED BY <3>1, <3>2 DEF Computes
  <2> HIDE DEF Has
  <2> QED BY <2>1
<1>5. Has(k - 1)
  <2> HIDE DEF Has
  <2>1. k - 1 \in 0..n /\ ~(k <= k - 1)
    BY <1>4
  <2>2. k - 1 \notin Bad
    BY <1>3, <2>1
  <2> QED BY <2>1, <2>2
<1>6. PICK g \in [1..(k - 1) -> Seq(S)] :
         g = [i \in 1..(k - 1) |-> IF i = 1 THEN seqs[i] ELSE g[i - 1] \o seqs[i]]
  BY <1>5 DEF Computes
<1> DEFINE f == [i \in 1..k |-> IF i < k THEN g[i]
                                 ELSE IF i = 1 THEN seqs[i] ELSE g[i - 1] \o seqs[i]]
<1>7. k \in Nat /\ k >= 1 /\ k <= Len(seqs)
  BY <1>1, <1>4
<1>8. ASSUME NEW i \in 1..k
      PROVE  f[i] \in Seq(S) /\ f[i] = IF i = 1 THEN seqs[i] ELSE f[i - 1] \o seqs[i]
  <2>1. seqs[i] \in Seq(S)
    BY <1>1, <1>7
  <2>2. CASE i < k
    <3>1. i \in 1..(k - 1) /\ f[i] = g[i]
      BY <1>7, <2>2
    <3>2. i # 1 => f[i - 1] = g[i - 1]
      BY <1>7, <2>2
    <3>3. g[i] \in Seq(S) /\ g[i] = IF i = 1 THEN seqs[i] ELSE g[i - 1] \o seqs[i]
      BY <1>6, <3>1
    <3> HIDE DEF f
    <3> QED BY <3>1, <3>2, <3>3
  <2>3. CASE i = k /\ i # 1
    <3>0. i \in 1..k /\ i - 1 \in 1..k /\ i - 1 < k /\ ~(i < k) /\ i - 1 \in 1..(k - 1)
      BY <1>7, <2>3
    <3>1. i - 1 \in 1..(k - 1) /\ f[i - 1] = g[i - 1] /\ f[i] = g[i - 1] \o seqs[i]
      BY <2>3, <3>0
    <3>2. g[i - 1] \in Seq(S)
      BY <3>1
    <3>3. g[i - 1] \o seqs[i] \in Seq(S)
      BY <2>1, <3>2, ConcatProperties
    <3> HIDE DEF f
    <3> QED BY <2>3, <3>1, <3>3
  <2>4. CASE i = k /\ i = 1
    BY <2>1, <2>4
  <2> QED BY <1>7, <2>2, <2>3, <2>4
<1>9. f \in [1..k -> Seq(S)]
  BY <1>8
<1>10. f = [i \in 1..k |-> IF i = 1 THEN seqs[i] ELSE f[i - 1] \o seqs[i]]
  <2> DEFINE h == [i \in 1..k |-> IF i = 1 THEN seqs[i] ELSE f[i - 1] \o seqs[i]]
  <2>1. \A i \in 1..k : f[i] = h[i]
    BY <1>8
  <2>2. DOMAIN f = 1..k /\ DOMAIN h = 1..k /\ f = [i \in 1..k |-> f[i]] /\ h = [i \in 1..k |-> h[i]]
    OBVIOUS
  <2> HIDE DEF f, h
  <2>3. f = h
    BY <2>1, <2>2
  <2> QED BY <2>3 DEF h
<1>11. Has(k)
  <2> HIDE DEF f
  <2> QED BY <1>9, <1>10 DEF Computes
<1> QED BY <1>11

LEMMA Flattening ==
  ASSUME NEW S, NEW seqs \in Seq(Seq(S)), Len(seqs) # 0
  PROVE  \E f \in [1..Len(seqs) -> Seq(S)] :
            Sums(seqs, f) /\ FlattenSeq(seqs) = f[Len(seqs)]
<1> DEFINE N == Len(seqs)
           f == CHOOSE f : f = [i \in 1..N |-> IF i = 1 THEN seqs[i] ELSE f[i - 1] \o seqs[i]]
<1>1. N \in Nat \ {0} /\ \A i \in 1..N : seqs[i] \in Seq(S)
  OBVIOUS
<1>2. f = [i \in 1..N |-> IF i = 1 THEN seqs[i] ELSE f[i - 1] \o seqs[i]]
  <2>1. \E g : g = [i \in 1..N |-> IF i = 1 THEN seqs[i] ELSE g[i - 1] \o seqs[i]]
    <3>1. N \in Nat /\ N <= Len(seqs)
      BY <1>1
    <3> HIDE DEF N
    <3>2. PICK g \in [1..N -> Seq(S)] : Computes(seqs, N, g)
      BY <3>1, SumsExist
    <3> QED BY <3>2 DEF Computes
  <2> QED BY <2>1
<1>3. FlattenSeq(seqs) = f[N]
  BY DEF FlattenSeq
<1> HIDE DEF f, N
<1>4. \A i \in 1..N : f[i] = IF i = 1 THEN seqs[i] ELSE f[i - 1] \o seqs[i]
  BY <1>2
<1>5. \A i \in 1..N : f[i] \in Seq(S)
  <2> DEFINE Bad == {i \in 1..N : f[i] \notin Seq(S)}
  <2> SUFFICES ASSUME Bad # {} PROVE FALSE
    OBVIOUS
  <2>1. PICK k \in Bad : \A m \in Bad : k <= m
    <3>1. Bad \in SUBSET Nat
      BY <1>1
    <3> HIDE DEF Bad
    <3> QED BY <3>1, Smallest
  <2>2. k \in 1..N /\ f[k] \notin Seq(S) /\ seqs[k] \in Seq(S)
    BY <1>1
  <2>3. k # 1
    BY <1>4, <2>2
  <2>4. k - 1 \in 1..N /\ k - 1 \notin Bad /\ f[k] = f[k - 1] \o seqs[k]
    <3>1. k - 1 \in 1..N /\ ~(k <= k - 1)
      BY <1>1, <2>2, <2>3
    <3> QED BY <1>4, <2>1, <2>2, <2>3, <3>1
  <2>5. f[k - 1] \in Seq(S)
    BY <2>4
  <2>6. f[k - 1] \o seqs[k] \in Seq(S)
    BY <2>2, <2>5, ConcatProperties
  <2> QED BY <2>2, <2>4, <2>6
<1>6. f \in [1..N -> Seq(S)]
  BY <1>2, <1>5
<1>7. Sums(seqs, f)
  BY <1>4 DEF Sums, N
<1> QED BY <1>3, <1>6, <1>7 DEF N

\* off[i] is where, in the concatenation s, the first i sequences end.
Laid(seqs, s, off) ==
    /\ off \in [0..Len(seqs) -> Nat]
    /\ off[0] = 0 /\ off[Len(seqs)] = Len(s)
    /\ \A i \in 1..Len(seqs) :
          off[i] = off[i - 1] + Len(seqs[i]) /\ At(seqs[i], s, off[i - 1])

LEMMA SumsGrow ==
  ASSUME NEW S, NEW seqs \in Seq(Seq(S)), NEW f \in [1..Len(seqs) -> Seq(S)], Sums(seqs, f)
  PROVE  \A j \in 1..Len(seqs) : \A i \in 1..j : Begins(f[i], f[j])
<1> DEFINE Bad == {j \in 1..Len(seqs) : \E i \in 1..j : ~Begins(f[i], f[j])}
<1>1. /\ Len(seqs) \in Nat /\ \A i \in 1..Len(seqs) : seqs[i] \in Seq(S)
      /\ \A i \in 1..Len(seqs) : f[i] \in Seq(S) /\ Len(f[i]) \in Nat
  OBVIOUS
<1> SUFFICES ASSUME Bad # {} PROVE FALSE
  OBVIOUS
<1>2. PICK j \in Bad : \A m \in Bad : j <= m
  <2>1. Bad \in SUBSET Nat
    OBVIOUS
  <2> HIDE DEF Bad
  <2> QED BY <2>1, Smallest
<1>3. PICK i \in 1..j : ~Begins(f[i], f[j])
  OBVIOUS
<1>4. i # j /\ j \in 1..Len(seqs)
  <2>1. Begins(f[j], f[j])
    BY <1>1 DEF Begins
  <2> QED BY <1>3, <2>1
<1>5. j - 1 \in 1..Len(seqs) /\ i \in 1..(j - 1) /\ ~(j <= j - 1) /\ j # 1
  BY <1>1, <1>3, <1>4, SMTT(30)
<1>6. Begins(f[i], f[j - 1])
  BY <1>2, <1>5
<1>7. f[j] = f[j - 1] \o seqs[j]
  BY <1>4, <1>5 DEF Sums
<1>8. Begins(f[j - 1], f[j])
  <2>1. f[j - 1] \in Seq(S) /\ seqs[j] \in Seq(S)
    BY <1>1, <1>4, <1>5
  <2>2. Begins(f[j - 1], f[j - 1] \o seqs[j])
    BY <2>1, BeginsConcat
  <2> QED BY <1>7, <2>2
<1>9. Begins(f[i], f[j])
  <2>1. Len(f[i]) \in Nat /\ Len(f[j - 1]) \in Nat /\ Len(f[j]) \in Nat
    BY <1>1, <1>3, <1>4, <1>5
  <2> QED BY <1>6, <1>8, <2>1, BeginsThrough
<1> QED BY <1>3, <1>9

LEMMA Layout ==
  ASSUME NEW S, NEW seqs \in Seq(Seq(S))
  PROVE  /\ FlattenSeq(seqs) \in Seq(S)
         /\ \E off : Laid(seqs, FlattenSeq(seqs), off)
<1>1. CASE Len(seqs) = 0
  <2>1. FlattenSeq(seqs) = <<>>
    BY <1>1 DEF FlattenSeq
  <2>2. Laid(seqs, <<>>, [i \in 0..0 |-> 0])
    BY <1>1 DEF Laid
  <2> QED BY <2>1, <2>2
<1>2. CASE Len(seqs) # 0
  <2> DEFINE N == Len(seqs)
  <2>1. PICK f \in [1..N -> Seq(S)] : Sums(seqs, f) /\ FlattenSeq(seqs) = f[N]
    BY <1>2, Flattening
  <2>2. /\ N \in Nat \ {0} /\ N \in 1..N
        /\ \A i \in 1..N : seqs[i] \in Seq(S) /\ f[i] \in Seq(S)
                           /\ Len(f[i]) \in Nat /\ Len(seqs[i]) \in Nat
    <3>1. N \in Nat \ {0} /\ N \in 1..N
      BY <1>2
    <3>2. \A i \in 1..N : seqs[i] \in Seq(S) /\ f[i] \in Seq(S)
      BY <2>1, ElementOfSeq
    <3> HIDE DEF N
    <3>3. \A i \in 1..N : Len(f[i]) \in Nat /\ Len(seqs[i]) \in Nat
      BY <3>2
    <3> QED BY <3>1, <3>2, <3>3
  <2>3. \A i \in 1..N : Begins(f[i], f[N])
    BY <2>1, <2>2, SumsGrow
  <2> DEFINE off == [i \in 0..N |-> IF i = 0 THEN 0 ELSE Len(f[i])]
  <2>4. off \in [0..N -> Nat] /\ off[0] = 0 /\ off[N] = Len(f[N])
    BY <2>2
  <2>5. ASSUME NEW i \in 1..N
        PROVE  off[i] = off[i - 1] + Len(seqs[i]) /\ At(seqs[i], f[N], off[i - 1])
    <3>1. CASE i = 1
      <4>1. f[i] = seqs[i] /\ off[i - 1] = 0 /\ off[i] = Len(f[i])
        <5>1. 1 \in 1..N /\ 0 \in 0..N /\ 1 \in 0..N /\ 1 - 1 = 0
          BY <2>2
        <5>2. f[1] = seqs[1]
          BY <2>1, <5>1 DEF Sums
        <5>3. off[0] = 0 /\ off[1] = Len(f[1])
          BY <5>1
        <5> QED BY <3>1, <5>1, <5>2, <5>3
      <4> HIDE DEF off
      <4> QED BY <2>2, <2>3, <4>1 DEF At, Begins
    <3>2. CASE i # 1
      <4>1. i - 1 \in 1..N /\ i - 1 \in 0..N /\ i \in 0..N /\ i - 1 # 0 /\ i # 0
        BY <2>2, <3>2
      <4>2. off[i - 1] = Len(f[i - 1]) /\ off[i] = Len(f[i])
        BY <4>1
      <4>3. f[i] = f[i - 1] \o seqs[i]
        BY <2>1, <3>2 DEF Sums
      <4>4. f[i - 1] \in Seq(S) /\ seqs[i] \in Seq(S)
        BY <2>2, <4>1
      <4>5. /\ Len(f[i - 1] \o seqs[i]) = Len(f[i - 1]) + Len(seqs[i])
            /\ At(seqs[i], f[i - 1] \o seqs[i], Len(f[i - 1]))
        BY <4>4, ConcatProperties, BeginsConcat
      <4> HIDE DEF off
      <4>6. /\ off[i] = off[i - 1] + Len(seqs[i])
            /\ At(seqs[i], f[i], off[i - 1])
        BY <4>2, <4>3, <4>5
      <4>7. Begins(f[i], f[N]) /\ Len(f[i]) \in Nat /\ Len(f[N]) \in Nat /\ off[i - 1] \in Nat
            /\ Len(seqs[i]) \in Nat
        BY <2>2, <2>3, <2>4, <4>1
      <4>8. At(seqs[i], f[N], off[i - 1])
        <5>1. off[i - 1] + Len(seqs[i]) <= Len(f[i]) /\ Len(f[i]) <= Len(f[N])
          BY <4>6, <4>7 DEF At, Begins
        <5>2. ASSUME NEW k \in 1..Len(seqs[i])
              PROVE  seqs[i][k] = f[N][off[i - 1] + k]
          <6>1. off[i - 1] + k \in 1..Len(f[i])
            BY <4>7, <5>1, SMTT(30)
          <6> QED BY <4>6, <4>7, <6>1 DEF At, Begins
        <5>3. off[i - 1] + Len(seqs[i]) <= Len(f[N])
          BY <4>7, <5>1
        <5> QED BY <5>2, <5>3 DEF At
      <4> QED BY <4>6, <4>8
    <3> QED BY <3>1, <3>2
  <2> HIDE DEF off
  <2>6. Laid(seqs, f[N], off)
    BY <2>4, <2>5 DEF Laid
  <2> QED BY <2>1, <2>2, <2>6
<1> QED BY <1>1, <1>2

\* When some of the first sequences are taken and the others left out, what is
\* left is where the whole begins.
LEMMA FirstOnes ==
  ASSUME NEW S, NEW p \in Seq(Seq(S)), NEW r \in Seq(Seq(S)), Len(p) = Len(r),
         NEW K, \A i \in K : \A j \in 1..i : j \in K,
         \A i \in 1..Len(p) : r[i] = IF i \in K THEN p[i] ELSE <<>>
  PROVE  /\ Begins(FlattenSeq(r), FlattenSeq(p))
         /\ K = {} => FlattenSeq(r) = <<>>
<1> DEFINE N == Len(p)
<1>1. CASE N = 0
  <2>1. p = <<>> /\ r = <<>>
    BY <1>1, EmptySeq
  <2>2. FlattenSeq(r) = <<>> /\ FlattenSeq(p) = <<>>
    BY <1>1, <2>1 DEF FlattenSeq
  <2> QED BY <2>2 DEF Begins
<1>2. CASE N # 0
  <2>1. PICK f \in [1..N -> Seq(S)] : Sums(p, f) /\ FlattenSeq(p) = f[N]
    BY <1>2, Flattening
  <2>2. PICK g \in [1..N -> Seq(S)] : Sums(r, g) /\ FlattenSeq(r) = g[N]
    BY <1>2, Flattening
  <2>3. /\ N \in Nat \ {0} /\ N \in 1..N
        /\ \A i \in 1..N : p[i] \in Seq(S) /\ f[i] \in Seq(S) /\ g[i] \in Seq(S)
                           /\ Len(f[i]) \in Nat /\ Len(g[i]) \in Nat /\ Len(p[i]) \in Nat
    BY <1>2
  <2> DEFINE Good(j) == /\ g[j] = f[j] \/ (j \notin K /\ Begins(g[j], f[j]))
                        /\ K = {} => g[j] = <<>>
             Bad == {j \in 1..N : ~Good(j)}
  <2>4. Bad = {}
    <3> SUFFICES ASSUME Bad # {} PROVE FALSE
      OBVIOUS
    <3>1. PICK j \in Bad : \A m \in Bad : j <= m
      <4>1. Bad \in SUBSET Nat
        OBVIOUS
      <4> HIDE DEF Bad
      <4> QED BY <4>1, Smallest
    <3>2. j \in 1..N /\ ~Good(j)
      OBVIOUS
    <3>3. CASE j = 1
      <4>1. f[j] = p[j] /\ g[j] = r[j]
        BY <2>1, <2>2, <3>2, <3>3 DEF Sums
      <4>2. r[j] = IF j \in K THEN p[j] ELSE <<>>
        BY <3>2
      <4>3. Begins(<<>>, f[j])
        BY <2>3, <3>2 DEF Begins
      <4> QED BY <3>2, <4>1, <4>2, <4>3
    <3>4. CASE j # 1
      <4>1. j - 1 \in 1..N /\ ~(j <= j - 1) /\ j - 1 \in 1..j
        BY <2>3, <3>2, <3>4
      <4>2. Good(j - 1)
        <5> HIDE DEF Good
        <5> QED BY <3>1, <4>1
      <4>3. f[j] = f[j - 1] \o p[j] /\ g[j] = g[j - 1] \o r[j]
        BY <2>1, <2>2, <3>2, <3>4 DEF Sums
      <4>4. r[j] = IF j \in K THEN p[j] ELSE <<>>
        BY <3>2
      <4>5. g[j - 1] \in Seq(S) /\ f[j - 1] \in Seq(S) /\ p[j] \in Seq(S)
        BY <2>3, <3>2, <4>1
      <4>6. g[j - 1] \o <<>> = g[j - 1] /\ Begins(f[j - 1], f[j - 1] \o p[j])
        BY <4>5, ConcatEmptySeq, BeginsConcat
      <4>7. j \in K => j - 1 \in K
        BY <4>1
      <4>8. CASE j \in K
        <5>1. g[j - 1] = f[j - 1] /\ K # {}
          BY <4>2, <4>7, <4>8
        <5>2. g[j] = f[j]
          BY <4>3, <4>4, <4>8, <5>1
        <5> QED BY <3>2, <5>1, <5>2
      <4>9. CASE j \notin K
        <5>1. g[j] = g[j - 1]
          BY <4>3, <4>4, <4>6, <4>9
        <5>2. Begins(g[j - 1], f[j - 1])
          <6>1. Begins(f[j - 1], f[j - 1])
            BY <2>3, <4>1 DEF Begins
          <6> QED BY <4>2, <6>1
        <5>3. Begins(f[j - 1], f[j])
          BY <4>3, <4>6
        <5>4. Begins(g[j - 1], f[j])
          <6>1. Len(g[j - 1]) \in Nat /\ Len(f[j - 1]) \in Nat /\ Len(f[j]) \in Nat
            BY <2>3, <3>2, <4>1
          <6> QED BY <5>2, <5>3, <6>1, BeginsThrough
        <5> QED BY <3>2, <4>2, <4>9, <5>1, <5>4
      <4> QED BY <4>8, <4>9
    <3> QED BY <3>3, <3>4
  <2>5. Good(N)
    <3> HIDE DEF Good
    <3> QED BY <2>3, <2>4
  <2>6. Begins(f[N], f[N])
    BY <2>3 DEF Begins
  <2> QED BY <2>1, <2>2, <2>5, <2>6
<1> QED BY <1>1, <1>2
-----------------------------------------------------------------------------
(* Records.                                                                 *)

\* How many octets the record has that begins here.
Size(c, i) == c[i] - 256

\* The words c are whole records, and q[i] of the octets s are before the i-th
\* word, if it is a header, or the end.
CarriedAt(c, s, q, x, y) ==
    /\ q[1] = x /\ q[Len(c) + 1] = y
    /\ Len(c) # 0 => c[1] >= 256
    /\ \A i \in 1..Len(c) : c[i] >= 256 =>
          /\ i + Size(c, i) <= Len(c)
          /\ q[i] + Size(c, i) <= Len(s)
          /\ \A j \in 1..Size(c, i) : c[i + j] = s[q[i] + j]
          /\ q[i + Size(c, i) + 1] = q[i] + Size(c, i)
          /\ i + Size(c, i) = Len(c) \/ c[i + Size(c, i) + 1] >= 256

\* The words c are records of the octets of s behind the x-th, up to the y-th.
Carries(c, s, x, y) ==
    \E q \in [1..(Len(c) + 1) -> Nat] : CarriedAt(c, s, q, x, y)

LEMMA CarriesNothing ==
  ASSUME NEW s, NEW x \in Nat
  PROVE  Carries(<<>>, s, x, x)
<1> DEFINE q == [i \in 1..(Len(<<>>) + 1) |-> x]
<1>1. q \in [1..(Len(<<>>) + 1) -> Nat] /\ q[1] = x /\ q[Len(<<>>) + 1] = x
  OBVIOUS
<1> HIDE DEF q
<1>2. CarriedAt(<<>>, s, q, x, x)
  BY <1>1 DEF CarriedAt
<1> QED BY <1>1, <1>2 DEF Carries

\* The octets x as one record.
Record(x) == <<Header(Len(x))>> \o x

LEMMA RecordOf ==
  ASSUME NEW x \in Seq(Octet)
  PROVE  /\ Record(x) \in Seq(Word) /\ Len(Record(x)) = 1 + Len(x)
         /\ Record(x)[1] = 256 + Len(x)
         /\ \A j \in 1..Len(x) : Record(x)[1 + j] = x[j]
<1> DEFINE m == Len(x)
           h == <<Header(m)>>
           r == h \o x
<1>1. m \in Nat /\ x \in Seq(Word)
  BY Words
<1>2. h \in Seq(Word) /\ Len(h) = 1 /\ h[1] = 256 + m
  BY <1>1 DEF Word, Header
<1> HIDE DEF h, m
<1>3. h \in Seq(Word)
  BY <1>2
<1>4. /\ h \o x \in Seq(Word) /\ Len(h \o x) = Len(h) + Len(x)
      /\ \A i \in 1..(Len(h) + Len(x)) : (h \o x)[i] = IF i <= Len(h) THEN h[i] ELSE x[i - Len(h)]
  BY <1>1, <1>3, ConcatProperties
<1>5. /\ r \in Seq(Word) /\ Len(r) = 1 + m
      /\ \A i \in 1..(1 + m) : r[i] = IF i <= 1 THEN h[i] ELSE x[i - 1]
  BY <1>1, <1>2, <1>4 DEF m
<1> HIDE DEF r
<1>6. r[1] = 256 + m
  BY <1>1, <1>2, <1>5
<1>7. \A j \in 1..m : r[1 + j] = x[j]
  <2> TAKE j \in 1..m
  <2>1. 1 + j \in 1..(1 + m) /\ ~(1 + j <= 1) /\ (1 + j) - 1 = j
    BY <1>1
  <2> QED BY <1>5, <2>1
<1> QED BY <1>5, <1>6, <1>7 DEF Record, r, h, m

\* A record is sent.
LEMMA CarriesMore ==
  ASSUME NEW c \in Seq(Word), NEW s \in Seq(Octet), NEW chunk \in Seq(Octet),
         NEW x \in Nat, NEW y \in Nat, Carries(c, s, x, y), At(chunk, s, y)
  PROVE  LET d == c \o Record(chunk)
         IN  d \in Seq(Word) /\ Carries(d, s, x, y + Len(chunk))
<1> DEFINE m == Len(chunk)
           L == Len(c)
           rec == Record(chunk)
           d == c \o rec
<1>1. L \in Nat /\ m \in Nat /\ Len(s) \in Nat /\ chunk \in Seq(Word)
  BY Words
<1>2. PICK q \in [1..(L + 1) -> Nat] : CarriedAt(c, s, q, x, y)
  BY DEF Carries
<1>3. /\ rec \in Seq(Word) /\ Len(rec) = 1 + m
      /\ rec[1] = 256 + m /\ \A j \in 1..m : rec[1 + j] = chunk[j]
  BY RecordOf
<1> HIDE DEF rec
<1>4. /\ d \in Seq(Word) /\ Len(d) = L + 1 + m
      /\ \A i \in 1..L : d[i] = c[i]
      /\ d[L + 1] = 256 + m
      /\ \A j \in 1..m : d[L + 1 + j] = chunk[j]
  <2>1. /\ c \o rec \in Seq(Word) /\ Len(c \o rec) = L + Len(rec)
        /\ \A i \in 1..(L + Len(rec)) :
              (c \o rec)[i] = IF i <= L THEN c[i] ELSE rec[i - L]
    <3>1. rec \in Seq(Word)
      BY <1>3
    <3> QED BY <3>1, ConcatProperties
  <2> HIDE DEF d, L, m
  <2>2. /\ d \in Seq(Word) /\ Len(d) = L + 1 + m
        /\ \A i \in 1..(L + (1 + m)) : d[i] = IF i <= L THEN c[i] ELSE rec[i - L]
    BY <1>1, <1>3, <2>1, SMTT(30) DEF d
  <2>3. \A i \in 1..L : d[i] = c[i]
    <3>1. \A i \in 1..L : i \in 1..(L + (1 + m)) /\ i <= L
      BY <1>1
    <3> QED BY <2>2, <3>1
  <2>4. d[L + 1] = 256 + m
    <3>1. L + 1 \in 1..(L + (1 + m)) /\ ~(L + 1 <= L) /\ (L + 1) - L = 1
      BY <1>1
    <3>2. d[L + 1] = rec[(L + 1) - L]
      BY <2>2, <3>1, ZenonT(30)
    <3>3. rec[1] = 256 + m
      BY <1>3
    <3> QED BY <3>1, <3>2, <3>3
  <2>5. \A j \in 1..m : d[L + 1 + j] = chunk[j]
    <3> TAKE j \in 1..m
    <3>1. L + 1 + j \in 1..(L + (1 + m)) /\ ~(L + 1 + j <= L) /\ (L + 1 + j) - L = 1 + j
      BY <1>1
    <3>2. d[L + 1 + j] = rec[(L + 1 + j) - L]
      BY <2>2, <3>1, ZenonT(30)
    <3>3. rec[1 + j] = chunk[j]
      BY <1>3
    <3> QED BY <3>1, <3>2, <3>3
  <2> QED BY <2>2, <2>3, <2>4, <2>5
<1> DEFINE p == [i \in 1..(Len(d) + 1) |-> IF i <= L + 1 THEN q[i] ELSE y + m]
<1> HIDE DEF d, L, m
<1>5. /\ p \in [1..(Len(d) + 1) -> Nat]
      /\ \A i \in 1..(L + 1) : p[i] = q[i]
      /\ p[Len(d) + 1] = y + m
  <2>1. Len(d) + 1 = L + m + 2
    BY <1>1, <1>4
  <2> QED BY <1>1, <1>2, <2>1
<1> HIDE DEF p
<1>6. q[L + 1] = y /\ q[1] = x
  BY <1>2 DEF CarriedAt, L
<1>7. \A j \in 1..m : chunk[j] = s[y + j] /\ d[L + 1 + j] < 256
  <2> TAKE j \in 1..m
  <2>1. chunk[j] = s[y + j]
    BY DEF At, m
  <2>2. chunk[j] < 256
    BY Elements DEF m
  <2> QED BY <1>4, <2>1, <2>2
<1>8. y + m <= Len(s)
  BY DEF At, m
<1>9. ASSUME NEW i \in 1..Len(d), d[i] >= 256
      PROVE  /\ i + Size(d, i) <= Len(d)
             /\ p[i] + Size(d, i) <= Len(s)
             /\ \A j \in 1..Size(d, i) : d[i + j] = s[p[i] + j]
             /\ p[i + Size(d, i) + 1] = p[i] + Size(d, i)
             /\ i + Size(d, i) = Len(d) \/ d[i + Size(d, i) + 1] >= 256
  <2>1. CASE i \in 1..L
    <3> DEFINE n == Size(c, i)
    <3>1. c[i] = d[i] /\ c[i] \in Nat /\ Size(d, i) = n /\ n \in Nat /\ c[i] >= 256
      <4>1. c[i] \in Nat
        BY <2>1 DEF L, Word
      <4>2. c[i] = d[i]
        BY <1>4, <2>1
      <4> QED BY <1>9, <4>1, <4>2 DEF Size
    <3>2. /\ i + n <= L /\ q[i] + n <= Len(s)
          /\ \A j \in 1..n : c[i + j] = s[q[i] + j]
          /\ q[i + n + 1] = q[i] + n
          /\ i + n = L \/ c[i + n + 1] >= 256
      BY <1>2, <2>1, <3>1 DEF CarriedAt, L
    <3> HIDE DEF n
    <3>3. p[i] = q[i] /\ i + n + 1 \in 1..(L + 1) /\ p[i + n + 1] = q[i + n + 1]
      <4>1. i \in 1..(L + 1) /\ i + n + 1 \in 1..(L + 1)
        BY <1>1, <2>1, <3>1, <3>2
      <4> QED BY <1>5, <4>1
    <3>4. \A j \in 1..n : i + j \in 1..L /\ d[i + j] = c[i + j]
      BY <1>1, <1>4, <2>1, <3>1, <3>2
    <3>5. i + n <= Len(d)
      BY <1>1, <1>4, <2>1, <3>1, <3>2
    <3>6. d[i + n + 1] >= 256
      <4>1. CASE i + n = L
        <5>1. d[L + 1] >= 256
          BY <1>1, <1>4
        <5> QED BY <4>1, <5>1
      <4>2. CASE i + n # L
        <5>1. i + n + 1 \in 1..L
          BY <1>1, <2>1, <3>1, <3>2, <4>2
        <5> QED BY <1>4, <3>2, <4>2, <5>1
      <4> QED BY <4>1, <4>2
    <3> QED BY <3>1, <3>2, <3>3, <3>4, <3>5, <3>6
  <2>2. CASE i = L + 1
    <3>1. Size(d, i) = m
      BY <1>1, <1>4, <2>2 DEF Size
    <3>2. p[i] = y
      BY <1>1, <1>5, <1>6, <2>2
    <3>3. i + m = Len(d) /\ i + m + 1 = Len(d) + 1
      BY <1>1, <1>4, <2>2
    <3>4. \A j \in 1..m : d[i + j] = s[y + j]
      BY <1>4, <1>7, <2>2
    <3> QED BY <1>5, <1>8, <3>1, <3>2, <3>3, <3>4
  <2>3. CASE i > L + 1
    <3>1. i - (L + 1) \in 1..m /\ L + 1 + (i - (L + 1)) = i
      BY <1>1, <1>4, <2>3
    <3>2. d[i] < 256
      BY <1>7, <3>1
    <3>3. d[i] \in Nat
      BY <1>4 DEF Word
    <3> QED BY <1>9, <3>2, <3>3
  <2> QED BY <1>1, <1>4, <2>1, <2>2, <2>3
<1>10. d[1] >= 256
  <2>1. CASE L = 0
    BY <1>1, <1>4, <2>1
  <2>2. CASE L # 0
    <3>1. c[1] >= 256
      BY <1>2, <2>2 DEF CarriedAt, L
    <3> QED BY <1>1, <1>4, <2>2, <3>1
  <2> QED BY <2>1, <2>2
<1>11. p[1] = x
  BY <1>1, <1>5, <1>6
<1>12. CarriedAt(d, s, p, x, y + m)
  BY <1>5, <1>9, <1>10, <1>11 DEF CarriedAt
<1>13. Carries(d, s, x, y + m)
  BY <1>5, <1>12 DEF Carries
<1> QED BY <1>4, <1>13 DEF d, rec, m

\* A record is read.
LEMMA CarriesLess ==
  ASSUME NEW c \in Seq(Word), NEW s \in Seq(Octet), NEW x \in Nat, NEW y \in Nat,
         Carries(c, s, x, y), Len(c) # 0
  PROVE  /\ Size(c, 1) \in Nat /\ 1 + Size(c, 1) <= Len(c)
         /\ SubSeq(c, 2, 1 + Size(c, 1)) \in Seq(Octet)
         /\ Len(SubSeq(c, 2, 1 + Size(c, 1))) = Size(c, 1)
         /\ At(SubSeq(c, 2, 1 + Size(c, 1)), s, x)
         /\ Carries(From(c, (1 + Size(c, 1)) + 1), s, x + Size(c, 1), y)
<1> DEFINE L == Len(c)
           n == Size(c, 1)
           u == SubSeq(c, 2, 1 + n)
           d == From(c, (1 + n) + 1)
<1>1. PICK q \in [1..(L + 1) -> Nat] : CarriedAt(c, s, q, x, y)
  BY DEF Carries
<1>2. L \in Nat /\ L # 0 /\ Len(s) \in Nat /\ 1 \in 1..L /\ \A i \in 1..L : c[i] \in Nat
  BY DEF Word
<1>3. c[1] >= 256 /\ q[1] = x /\ q[L + 1] = y
  BY <1>2, <1>1 DEF CarriedAt
<1>4. n \in Nat
  BY <1>2, <1>3 DEF Size
<1>5. /\ 1 + n <= L /\ x + n <= Len(s)
      /\ \A j \in 1..n : c[1 + j] = s[x + j]
      /\ q[1 + n + 1] = x + n
      /\ 1 + n = L \/ c[1 + n + 1] >= 256
  BY <1>1, <1>2, <1>3 DEF CarriedAt
<1>6. \A i \in 1..L : c[i] >= 256 =>
          /\ i + Size(c, i) <= L
          /\ q[i] + Size(c, i) <= Len(s)
          /\ \A j \in 1..Size(c, i) : c[i + j] = s[q[i] + j]
          /\ q[i + Size(c, i) + 1] = q[i] + Size(c, i)
          /\ i + Size(c, i) = L \/ c[i + Size(c, i) + 1] >= 256
  BY <1>1 DEF CarriedAt
<1> HIDE DEF n
<1>7. u \in Seq(Octet) /\ Len(u) = n /\ At(u, s, x)
  <2>1. \A i \in 2..(1 + n) : c[i] \in Octet
    <3> TAKE i \in 2..(1 + n)
    <3>1. i - 1 \in 1..n /\ 1 + (i - 1) = i /\ x + (i - 1) \in 1..Len(s)
      BY <1>4, <1>5
    <3>2. c[i] = s[x + (i - 1)]
      BY <1>5, <3>1
    <3> QED BY <3>1, <3>2, Elements
  <2>2. /\ u \in Seq(Octet) /\ Len(u) = IF 2 <= 1 + n THEN (1 + n) - 2 + 1 ELSE 0
        /\ \A i \in 1..((1 + n) - 2 + 1) : u[i] = c[2 + i - 1]
    <3>1. 1 + n \in Int
      BY <1>4
    <3> QED BY <2>1, <3>1, SubSeqProperties
  <2> HIDE DEF u
  <2>3. Len(u) = n
    BY <1>4, <2>2
  <2>4. \A i \in 1..n : u[i] = c[1 + i]
    <3> TAKE i \in 1..n
    <3>1. i \in 1..((1 + n) - 2 + 1) /\ 2 + i - 1 = 1 + i
      BY <1>4
    <3> QED BY <2>2, <3>1
  <2>5. At(u, s, x)
    BY <1>5, <2>3, <2>4 DEF At
  <2> QED BY <2>2, <2>3, <2>5
<1>8. /\ d \in Seq(Word) /\ Len(d) = L - (1 + n)
      /\ \A i \in 1..(L - (1 + n)) : d[i] = c[(1 + n) + i]
  <2>1. 1 + n \in 0..L
    BY <1>2, <1>4, <1>5
  <2> QED BY <2>1, Split
<1> HIDE DEF u, d, L
<1> DEFINE p == [i \in 1..(Len(d) + 1) |-> q[(1 + n) + i]]
<1>9. /\ p \in [1..(Len(d) + 1) -> Nat]
      /\ \A i \in 1..(Len(d) + 1) : p[i] = q[(1 + n) + i]
  <2>1. \A i \in 1..(Len(d) + 1) : (1 + n) + i \in 1..(L + 1)
    BY <1>2, <1>4, <1>5, <1>8
  <2> QED BY <2>1
<1> HIDE DEF p
<1>10. p[1] = x + n /\ p[Len(d) + 1] = y
  <2>1. /\ 1 \in 1..(Len(d) + 1) /\ Len(d) + 1 \in 1..(Len(d) + 1)
        /\ (1 + n) + (Len(d) + 1) = L + 1 /\ (1 + n) + 1 = 1 + n + 1
    BY <1>2, <1>4, <1>5, <1>8
  <2> QED BY <1>3, <1>5, <1>9, <2>1
<1>11. Len(d) # 0 => d[1] >= 256
  <2> HAVE Len(d) # 0
  <2>1. 1 \in 1..(L - (1 + n)) /\ 1 + n # L /\ (1 + n) + 1 = 1 + n + 1
    BY <1>2, <1>4, <1>5, <1>8
  <2> QED BY <1>5, <1>8, <2>1
<1>12. ASSUME NEW i \in 1..Len(d), d[i] >= 256
       PROVE  /\ i + Size(d, i) <= Len(d)
              /\ p[i] + Size(d, i) <= Len(s)
              /\ \A j \in 1..Size(d, i) : d[i + j] = s[p[i] + j]
              /\ p[i + Size(d, i) + 1] = p[i] + Size(d, i)
              /\ i + Size(d, i) = Len(d) \/ d[i + Size(d, i) + 1] >= 256
  <2> DEFINE k == (1 + n) + i
             m == Size(c, k)
  <2>1. k \in 1..L /\ d[i] = c[k] /\ i \in 1..(Len(d) + 1)
    BY <1>2, <1>4, <1>5, <1>8
  <2>2. c[k] \in Nat /\ c[k] >= 256 /\ Size(d, i) = m /\ m \in Nat
    BY <1>2, <1>12, <2>1, SMTT(30) DEF Size
  <2> HIDE DEF m
  <2>3. /\ k + m <= L
        /\ q[k] + m <= Len(s)
        /\ \A j \in 1..m : c[k + j] = s[q[k] + j]
        /\ q[k + m + 1] = q[k] + m
        /\ k + m = L \/ c[k + m + 1] >= 256
    <3> HIDE DEF k
    <3> QED BY <1>6, <2>1, <2>2 DEF m
  <2>4. p[i] = q[k]
    BY <1>9, <2>1
  <2>5. i + m <= Len(d)
    BY <1>2, <1>4, <1>5, <1>8, <2>2, <2>3
  <2>6. \A j \in 1..m : d[i + j] = c[k + j]
    <3> TAKE j \in 1..m
    <3>1. i + j \in 1..(L - (1 + n)) /\ (1 + n) + (i + j) = k + j
      BY <1>2, <1>4, <1>5, <1>8, <2>2, <2>5
    <3> QED BY <1>8, <3>1
  <2>7. p[i + m + 1] = q[k + m + 1]
    <3>1. i + m + 1 \in 1..(Len(d) + 1) /\ (1 + n) + (i + m + 1) = k + m + 1
      BY <1>2, <1>4, <1>5, <1>8, <2>2, <2>5
    <3> QED BY <1>9, <3>1
  <2>8. i + m = Len(d) \/ d[i + m + 1] >= 256
    <3> SUFFICES ASSUME i + m # Len(d) PROVE d[i + m + 1] >= 256
      OBVIOUS
    <3>1. /\ i + m + 1 \in 1..(L - (1 + n)) /\ (1 + n) + (i + m + 1) = k + m + 1
          /\ k + m # L
      BY <1>2, <1>4, <1>5, <1>8, <2>2, <2>5
    <3> QED BY <1>8, <2>3, <3>1
  <2> HIDE DEF k
  <2> QED BY <2>2, <2>3, <2>4, <2>5, <2>6, <2>7, <2>8
<1>13. CarriedAt(d, s, p, x + n, y)
  BY <1>10, <1>11, <1>12 DEF CarriedAt
<1>14. Carries(d, s, x + n, y)
  BY <1>9, <1>13 DEF Carries
<1> QED BY <1>4, <1>5, <1>7, <1>14 DEF u, d, n, L

\* What is taken off the front of the first buffer is taken off them both.
LEMMA FromConcat ==
  ASSUME NEW S, NEW a \in Seq(S), NEW b \in Seq(S), NEW n \in 0..Len(a)
  PROVE  From(a, n + 1) \o b = From(a \o b, n + 1)
<1> DEFINE u == From(a, n + 1)
           c == a \o b
           v == From(c, n + 1)
<1>1. /\ Len(a) \in Nat /\ Len(b) \in Nat /\ n \in Nat /\ n <= Len(a)
  OBVIOUS
<1>2. /\ c \in Seq(S) /\ Len(c) = Len(a) + Len(b)
      /\ \A i \in 1..(Len(a) + Len(b)) : c[i] = IF i <= Len(a) THEN a[i] ELSE b[i - Len(a)]
  BY ConcatProperties
<1>3. /\ u \in Seq(S) /\ Len(u) = Len(a) - n
      /\ \A i \in 1..(Len(a) - n) : u[i] = a[n + i]
  BY Split
<1> HIDE DEF u, c
<1>4. /\ v \in Seq(S) /\ Len(v) = Len(c) - n
      /\ \A i \in 1..(Len(c) - n) : v[i] = c[n + i]
  <2>1. n \in 0..Len(c) /\ c \in Seq(S)
    BY <1>1, <1>2
  <2> QED BY <2>1, Split
<1> HIDE DEF v
<1>5. u \in Seq(S)
  BY <1>3
<1>6. /\ u \o b \in Seq(S) /\ Len(u \o b) = Len(u) + Len(b)
      /\ \A i \in 1..(Len(u) + Len(b)) : (u \o b)[i] = IF i <= Len(u) THEN u[i] ELSE b[i - Len(u)]
  BY <1>5, ConcatProperties
<1> DEFINE w == u \o b
<1>7. /\ w \in Seq(S) /\ Len(w) = Len(u) + Len(b)
      /\ \A i \in 1..(Len(u) + Len(b)) : w[i] = IF i <= Len(u) THEN u[i] ELSE b[i - Len(u)]
  BY <1>6
<1> HIDE DEF w
<1>8. Len(w) = Len(v)
  BY <1>1, <1>2, <1>3, <1>4, <1>7
<1>9. ASSUME NEW i \in 1..Len(w) PROVE w[i] = v[i]
  <2>1. /\ i \in 1..(Len(u) + Len(b)) /\ i \in 1..(Len(c) - n)
        /\ n + i \in 1..(Len(a) + Len(b))
    BY <1>1, <1>2, <1>3, <1>4, <1>7, <1>8
  <2>2. v[i] = IF n + i <= Len(a) THEN a[n + i] ELSE b[(n + i) - Len(a)]
    BY <1>2, <1>4, <2>1
  <2>3. CASE i <= Len(u)
    <3>1. i \in 1..(Len(a) - n) /\ n + i <= Len(a)
      BY <1>1, <1>3, <2>1, <2>3
    <3> QED BY <1>3, <1>7, <2>1, <2>2, <2>3, <3>1
  <2>4. CASE ~(i <= Len(u))
    <3>1. ~(n + i <= Len(a)) /\ (n + i) - Len(a) = i - Len(u)
      BY <1>1, <1>3, <2>1, <2>4
    <3> QED BY <1>7, <2>1, <2>2, <2>4, <3>1
  <2> QED BY <2>3, <2>4
<1>10. w = v
  BY <1>4, <1>7, <1>8, <1>9, SeqEqual
<1> QED BY <1>10 DEF w, v, u, c
-----------------------------------------------------------------------------
(* Scripts: what the broker says on a connection.                           *)

Octets(s) == [i \in DOMAIN s |-> s[i].octets]
Stream(s) == FlattenSeq(Octets(s))

\* Where in its stream each packet of a script ends.
Ends(s) == CHOOSE off : Laid(Octets(s), Stream(s), off)

\* A script, each of whose packets can be told what it is.
Clear(s) == s \in Scripts /\ \A i \in DOMAIN s : Intelligible(s[i])

LEMMA StreamOf ==
  ASSUME NEW s, Clear(s)
  PROVE  /\ Len(s) \in Nat /\ DOMAIN s = 1..Len(s)
         /\ Octets(s) \in Seq(Seq(Octet)) /\ Len(Octets(s)) = Len(s)
         /\ Stream(s) \in Seq(Octet)
         /\ Laid(Octets(s), Stream(s), Ends(s))
<1>1. Len(s) \in Nat /\ DOMAIN s = 1..Len(s)
  BY ScriptsAssumption DEF Clear
<1>2. \A i \in 1..Len(s) : s[i].octets \in Seq(Octet)
  BY <1>1 DEF Clear, Intelligible, Octet
<1>3. Octets(s) \in Seq(Seq(Octet)) /\ Len(Octets(s)) = Len(s)
  BY <1>1, <1>2 DEF Octets
<1>4. Stream(s) \in Seq(Octet) /\ \E off : Laid(Octets(s), Stream(s), off)
  BY <1>3, Layout DEF Stream
<1>5. Laid(Octets(s), Stream(s), Ends(s))
  BY <1>4 DEF Ends
<1> QED BY <1>1, <1>3, <1>4, <1>5

\* The same, packet by packet.
LEMMA EndsOf ==
  ASSUME NEW s, Clear(s)
  PROVE  /\ Ends(s) \in [0..Len(s) -> Nat] /\ Ends(s)[0] = 0
         /\ Ends(s)[Len(s)] = Len(Stream(s))
         /\ \A i \in 1..Len(s) :
               /\ Ends(s)[i] = Ends(s)[i - 1] + Len(s[i].octets)
               /\ At(s[i].octets, Stream(s), Ends(s)[i - 1])
<1>1. /\ Len(s) \in Nat /\ DOMAIN s = 1..Len(s) /\ Len(Octets(s)) = Len(s)
      /\ Laid(Octets(s), Stream(s), Ends(s))
  BY StreamOf
<1>2. \A i \in 1..Len(s) : Octets(s)[i] = s[i].octets
  BY <1>1 DEF Octets
<1> QED BY <1>1, <1>2 DEF Laid

\* What is ready is where the stream begins.
LEMMA ReadyOf ==
  ASSUME NEW s, Clear(s), NEW n \in Nat
  PROVE  LET r == FlattenSeq([i \in DOMAIN s |->
                                 IF s[i].after <= n THEN s[i].octets ELSE <<>>])
         IN  r \in Seq(Octet) /\ At(r, Stream(s), 0) /\ (n = 0 => r = <<>>)
<1> DEFINE pieces == [i \in DOMAIN s |-> IF s[i].after <= n THEN s[i].octets ELSE <<>>]
           K == {i \in 1..Len(s) : s[i].after <= n}
<1>1. /\ Len(s) \in Nat /\ DOMAIN s = 1..Len(s)
      /\ Octets(s) \in Seq(Seq(Octet)) /\ Len(Octets(s)) = Len(s)
      /\ Stream(s) \in Seq(Octet)
  BY StreamOf
<1>2. \A i \in 1..Len(s) : Octets(s)[i] = s[i].octets /\ s[i].octets \in Seq(Octet)
  BY <1>1 DEF Octets, Clear, Intelligible, Octet
<1>3. /\ \A i \in 1..Len(s) : s[i].after \in Nat \ {0}
      /\ \A i, j \in 1..Len(s) : i <= j => s[i].after <= s[j].after
  BY <1>1, ScriptsAssumption DEF Clear
<1>4. pieces \in Seq(Seq(Octet)) /\ Len(pieces) = Len(s)
  <2>1. \A i \in 1..Len(s) : pieces[i] \in Seq(Octet)
    BY <1>1, <1>2
  <2>2. DOMAIN pieces = 1..Len(s)
    BY <1>1
  <2>3. pieces = [i \in 1..Len(s) |-> pieces[i]]
    BY <1>1
  <2> HIDE DEF pieces
  <2>4. pieces \in [1..Len(s) -> Seq(Octet)]
    BY <2>1, <2>3
  <2> QED BY <1>1, <2>4, SMTT(30)
<1>5. \A i \in 1..Len(Octets(s)) : pieces[i] = IF i \in K THEN Octets(s)[i] ELSE <<>>
  BY <1>1, <1>2
<1>6. \A i \in K : \A j \in 1..i : j \in K
  <2> TAKE i \in K
  <2> TAKE j \in 1..i
  <2>1. i \in 1..Len(s) /\ j \in 1..Len(s) /\ j <= i /\ s[i].after <= n
    BY <1>1
  <2>2. s[j].after <= s[i].after /\ s[j].after \in Nat /\ s[i].after \in Nat
    BY <1>3, <2>1
  <2> QED BY <2>1, <2>2
<1>7. n = 0 => K = {}
  <2> SUFFICES ASSUME n = 0, NEW i \in K PROVE FALSE
    OBVIOUS
  <2>1. s[i].after \in Nat \ {0} /\ s[i].after <= n
    BY <1>3
  <2> QED BY <2>1
<1> HIDE DEF pieces, K
<1>8. /\ Begins(FlattenSeq(pieces), Stream(s))
      /\ K = {} => FlattenSeq(pieces) = <<>>
  BY <1>1, <1>4, <1>5, <1>6, FirstOnes DEF Stream
<1>9. FlattenSeq(pieces) \in Seq(Octet)
  BY <1>4, Layout
<1>10. At(FlattenSeq(pieces), Stream(s), 0)
  <2> DEFINE r == FlattenSeq(pieces)
  <2> HIDE DEF r
  <2>1. r \in Seq(Octet) /\ Begins(r, Stream(s))
    BY <1>8, <1>9 DEF r
  <2>2. At(r, Stream(s), 0)
    BY <1>1, <2>1 DEF At, Begins
  <2> QED BY <2>2 DEF r
<1> QED BY <1>7, <1>8, <1>9, <1>10 DEF pieces

\* The packets on offer are the first ones that can be read.
LEMMA Offered ==
  ASSUME NEW s, Clear(s), NEW k \in 1..Len(s), \A j \in 1..k : s[j].means # {}
  PROVE  /\ Len(Offer(s)) \in Nat /\ k <= Len(Offer(s))
         /\ Offer(s)[k] = CHOOSE p \in s[k].means : TRUE
<1> DEFINE X == {0} \cup {i \in DOMAIN s : \A j \in 1..i : s[j].means # {}}
           Y == {Len(s) - i : i \in X}
           last == Max(X)
<1>1. Len(s) \in Nat /\ DOMAIN s = 1..Len(s) /\ k \in X
  BY StreamOf
<1>2. X \in SUBSET (0..Len(s))
  BY <1>1
<1>3. PICK m \in X : \A i \in X : i <= m
  <2> HIDE DEF X
  <2>1. Y \in SUBSET Nat /\ Y # {}
    BY <1>1, <1>2
  <2> HIDE DEF Y
  <2>2. PICK y \in Y : \A z \in Y : y <= z
    BY <2>1, Smallest
  <2>3. PICK m \in X : y = Len(s) - m
    BY DEF Y
  <2>4. ASSUME NEW i \in X PROVE i <= m
    <3>1. Len(s) - m <= Len(s) - i
      BY <2>2, <2>3 DEF Y
    <3>2. i \in Nat /\ m \in Nat
      BY <1>1, <1>2
    <3> QED BY <1>1, <3>1, <3>2
  <2> QED BY <2>4
<1> HIDE DEF X
<1>4. last \in X /\ \A i \in X : last >= i
  <2>1. \E x \in X : \A y \in X : x >= y
    BY <1>1, <1>2, <1>3
  <2> QED BY <2>1 DEF Max
<1>5. last \in Nat /\ k <= last /\ k \in 1..last
  <2> HIDE DEF last
  <2>1. last \in 0..Len(s) /\ last >= k
    BY <1>1, <1>2, <1>4
  <2> QED BY <1>1, <2>1
<1>6. Offer(s) = [i \in 1..last |-> CHOOSE p \in s[i].means : TRUE]
  BY DEF Offer, X
<1> HIDE DEF last
<1> QED BY <1>5, <1>6

LEMMA NoOffer == Offer(<<>>) = <<>>
<1> DEFINE X == {0} \cup {i \in DOMAIN <<>> : \A j \in 1..i : <<>>[j].means # {}}
<1>1. X = {0}
  OBVIOUS
<1>2. Offer(<<>>) = [i \in 1..Max(X) |-> CHOOSE p \in <<>>[i].means : TRUE]
  BY DEF Offer
<1> HIDE DEF X
<1>3. Max(X) = 0
  BY <1>1 DEF Max
<1> QED BY <1>2, <1>3
-----------------------------------------------------------------------------
(* Decode on the stream.                                                    *)

\* Decode takes no more than there is.
LEMMA TakesWhatIsThere ==
  ASSUME NEW b \in Seq(Octet), Decode(b).result = "Ok"
  PROVE  Len(b) >= 2 /\ Decode(b).consumed <= Len(b)
<1>1. Len(b) \in Nat /\ Len(b) >= 2 /\ DecodeVarInt(b, 2) # {}
  <2>1. ~(Len(b) < 2 \/ DecodeVarInt(b, 2) = {})
    BY DEF Decode, Answer
  <2> QED BY <2>1
<1>2. PICK len \in DecodeVarInt(b, 2) : Decode(b) = Framed(b, len)
  <2> DEFINE A == {Framed(b, len) : len \in DecodeVarInt(b, 2)}
  <2>1. Decode(b) = CHOOSE answer \in A : TRUE
    BY <1>1 DEF Decode
  <2>2. A # {}
    BY <1>1
  <2> HIDE DEF A
  <2>3. Decode(b) \in A
    BY <2>1, <2>2
  <2> QED BY <2>3 DEF A
<1>3. PICK last \in VarIntEnds(b, 2) : len = [value |-> VarIntValue(b, 2, last), next |-> last + 1]
  BY DEF DecodeVarInt
<1>4. last \in 2..5 /\ last <= Len(b)
  BY DEF VarIntEnds
<1>5. Begins(b, b)
  BY <1>1 DEF Begins
<1>6. len.next \in Nat /\ len.value \in Nat
  BY <1>3, <1>4, <1>5, SameValue
<1>7. ~(Len(b) < len.next + len.value - 1)
  <2>1. Len(b) < len.next + len.value - 1 => Framed(b, len).result = "NeedMore"
    BY DEF Framed, Answer
  <2> QED BY <1>2, <2>1
<1>8. Decode(b).consumed = Consumed(len)
  <2> DEFINE packets == UNION {DecodeBody(b[1] \div 16, b[1] % 16, body) :
                             body \in {SubSeq(b, len.next, len.next + len.value - 1)}}
             found == {[p EXCEPT !.type = b[1] \div 16, !.flags = b[1] % 16] : p \in packets}
  <2>1. Framed(b, len) = IF packets = {} THEN Answer("Malformed", {}, 0)
                         ELSE Answer("Ok", found, Consumed(len))
    BY <1>7, Zenon DEF Framed
  <2> HIDE DEF packets, found
  <2>2. Framed(b, len).result = "Ok"
    BY <1>2
  <2>3. packets # {}
    BY <2>1, <2>2 DEF Answer
  <2> QED BY <1>2, <2>1, <2>3 DEF Answer
<1> QED BY <1>1, <1>6, <1>7, <1>8 DEF Consumed

\* When m_rx holds what comes behind the first n packets and Decode finds a
\* packet in it, it is the next one, all of it.
LEMMA NextPacket ==
  ASSUME NEW s, Clear(s), NEW n \in 0..Len(s), NEW b \in Seq(Octet),
         At(b, Stream(s), Ends(s)[n]), Decode(b).result = "Ok"
  PROVE  /\ n + 1 \in 1..Len(s)
         /\ \E m \in s[n + 1].means : s[n + 1].means = {m} /\ Decode(b).packets = {m}
         /\ Decode(b).consumed \in 0..Len(b)
         /\ Ends(s)[n + 1] = Ends(s)[n] + Decode(b).consumed
<1>1. /\ Len(s) \in Nat /\ DOMAIN s = 1..Len(s) /\ Stream(s) \in Seq(Octet)
      /\ Len(Stream(s)) \in Nat
  BY StreamOf
<1>2. /\ Ends(s) \in [0..Len(s) -> Nat] /\ Ends(s)[Len(s)] = Len(Stream(s))
      /\ \A i \in 1..Len(s) :
            /\ Ends(s)[i] = Ends(s)[i - 1] + Len(s[i].octets)
            /\ At(s[i].octets, Stream(s), Ends(s)[i - 1])
  BY EndsOf
<1>3. Len(b) \in Nat /\ Len(b) >= 2 /\ Decode(b).consumed <= Len(b)
  BY TakesWhatIsThere
<1>4. n # Len(s)
  <2>1. Ends(s)[n] + Len(b) <= Len(Stream(s))
    BY DEF At
  <2>2. n = Len(s) => Ends(s)[n] = Len(Stream(s))
    BY <1>2
  <2>3. Len(b) \in Nat /\ Len(b) >= 2 /\ Len(Stream(s)) \in Nat
    BY <1>1, <1>3
  <2> QED BY <2>1, <2>2, <2>3
<1>5. n + 1 \in 1..Len(s) /\ (n + 1) - 1 = n
  <2>1. Len(s) \in Nat
    BY <1>1
  <2> QED BY <1>4, <2>1
<1> DEFINE o == s[n + 1].octets
           x == Ends(s)[n]
<1>6. x \in Nat /\ Ends(s)[n + 1] = x + Len(o) /\ At(o, Stream(s), x)
  BY <1>2, <1>5
<1>7. Intelligible(s[n + 1])
  BY <1>1, <1>5 DEF Clear
<1>8. o \in Seq(Octet) /\ Len(o) \in Nat /\ Decode(o).result # "NeedMore"
  <2>1. o \in Seq(Octet)
    BY <1>7 DEF Intelligible, Octet
  <2>2. Decode(o).result # "NeedMore"
    <3>1. CASE \E m \in s[n + 1].means : Decode(o) = Answer("Ok", {m}, Len(o))
      <4>1. Decode(o).result = "Ok"
        BY <3>1 DEF Answer
      <4> QED BY <4>1
    <3>2. CASE Decode(o).result = "Malformed"
      BY <3>2
    <3> QED BY <1>7, <3>1, <3>2 DEF Intelligible
  <2> HIDE DEF o
  <2> QED BY <2>1, <2>2
<1> HIDE DEF o, x
<1>9. Decode(o) = Decode(b)
  <2>1. CASE Len(o) <= Len(b)
    <3>1. Begins(o, b)
      BY <1>3, <1>6, <1>8, <2>1, AtBoth DEF x
    <3> QED BY <1>8, <3>1, DecodeIsFinal
  <2>2. CASE Len(b) <= Len(o)
    <3>1. Begins(b, o)
      BY <1>3, <1>6, <1>8, <2>2, AtBoth DEF x
    <3> QED BY <1>8, <3>1, DecodeIsFinal
  <2> QED BY <1>3, <1>8, <2>1, <2>2
<1>10. PICK m \in s[n + 1].means :
          s[n + 1].means = {m} /\ Decode(o) = Answer("Ok", {m}, Len(o))
  <2>1. Decode(o).result # "Malformed"
    BY <1>9
  <2> QED BY <1>7, <2>1 DEF Intelligible, o
<1>11. Decode(b).packets = {m} /\ Decode(b).consumed = Len(o)
  BY <1>9, <1>10 DEF Answer
<1> QED BY <1>3, <1>5, <1>6, <1>8, <1>10, <1>11 DEF x
-----------------------------------------------------------------------------
(* Where the thread is.                                                     *)

Greeting == pc \in {"handshakeRecv", "handshake"}

\* A closed connection has nothing left in its buffers, only TLS has buffers of
\* its own and a handshake, which comes first, and what the relay wanted to say
\* it says after the subscription.
Control ==
    /\ tls \in BOOLEAN /\ cut \in BOOLEAN /\ tokens \in Nat
    /\ queue \in Seq(ToSet(Wanted))
    /\ pc = "closed" => /\ wire = <<>> /\ incoming = <<>> /\ plain = <<>>
                        /\ data = <<>> /\ out = <<>>
    /\ ~tls => incoming = <<>> /\ plain = <<>> /\ ~Greeting
    /\ Greeting => /\ phase = "connack" /\ plain = <<>> /\ tokens > 0
                   /\ sent = <<>> /\ heard = <<>> /\ handed = <<>>
    /\ pc = "pump" => phase = "pump"
    /\ pc # "closed" /\ phase \in {"connack", "suback"} => queue = Wanted
    /\ pc # "closed" => script \in Scripts

LEMMA ConstantFacts ==
  /\ Modes \subseteq BOOLEAN
  /\ Tokens \in Nat \ {0} /\ MaxMessage \in Nat \ {0}
  /\ MaxRecv \in Nat \ {0} /\ MaxRecord \in Nat \ {0} /\ SendSizes \subseteq Nat \ {0}
  /\ Wanted \in Seq(ToSet(Wanted)) /\ Wanted # <<>>
  /\ Tail(Wanted) \in Seq(ToSet(Wanted)) /\ Presence \in ToSet(Wanted)
<1>1. Wanted \in Seq(ToSet(Wanted)) /\ Wanted # <<>>
  BY WireAssumption
<1> DEFINE S == ToSet(Wanted)
<1> HIDE DEF S
<1>2. Wanted \in Seq(S) /\ Wanted # <<>>
  BY <1>1 DEF S
<1>3. Tail(Wanted) \in Seq(S) /\ Wanted[1] \in S
  BY <1>2
<1>4. /\ Tokens \in Nat \ {0} /\ MaxMessage \in Nat \ {0}
      /\ MaxRecv \in Nat \ {0} /\ MaxRecord \in Nat \ {0} /\ SendSizes \subseteq Nat \ {0}
  BY WireAssumption
<1>5. Modes \subseteq BOOLEAN
  BY WireAssumption
<1> QED BY <1>1, <1>3, <1>4, <1>5 DEF Presence, S

LEMMA ControlInit == WireInit => Control
BY ConstantFacts DEF WireInit, Control, Greeting

LEMMA ControlStep ==
  ASSUME Control, [WireNext]_wireVars
  PROVE  Control'
<1> USE DEF Control, Greeting, brokerVars, netVars, tlsVars, readVars, writeVars, relayVars
<1>1. CASE UNCHANGED wireVars
  BY <1>1 DEF wireVars
<1>2. CASE Connect
  <2>1. Tokens \in Nat /\ Tokens > 0 /\ Wanted \in Seq(ToSet(Wanted))
    BY ConstantFacts
  <2>2. tls => pc' = "handshakeRecv" /\ sent' = <<>>
    BY <1>2 DEF Connect
  <2>3. ~tls => pc' = "send"
    BY <1>2 DEF Connect
  <2>4. /\ pc = "closed" /\ script' \in Scripts /\ heard' = <<>> /\ cut' = FALSE
        /\ phase' = "connack" /\ queue' = Wanted /\ handed' = <<>> /\ tokens' = Tokens
        /\ tls' = tls /\ incoming' = incoming /\ plain' = plain
    BY <1>2 DEF Connect
  <2> QED BY <2>1, <2>2, <2>3, <2>4
<1>3. CASE SendFails
  <2>1. <<>> \in Seq(ToSet(Wanted))
    BY EmptySeq
  <2> QED BY <1>3, <2>1 DEF SendFails, Close
<1>4. CASE NextRecord
  BY <1>4 DEF NextRecord
<1>5. CASE Transmit
  BY <1>5 DEF Transmit
<1>6. CASE SendEnds
  BY <1>6 DEF SendEnds
<1>7. CASE Goodbye
  BY <1>7 DEF Goodbye, Close
<1>8. CASE HandshakeRecv
  BY <1>8 DEF HandshakeRecv
<1>9. CASE Handshake
  BY <1>9 DEF Handshake, StartSend
<1>10. CASE HandshakeFails
  BY <1>10 DEF HandshakeFails, Close
<1>11. CASE Receive
  BY <1>11 DEF Receive
<1>12. CASE TakePlain
  BY <1>12 DEF TakePlain
<1>13. CASE Decrypt
  BY <1>13 DEF Decrypt
<1>14. CASE ReadMore
  BY <1>14 DEF ReadMore
<1>15. CASE NothingComes
  BY <1>15 DEF NothingComes
<1>16. CASE ReceiveFails
  BY <1>16 DEF ReceiveFails, Close
<1>17. CASE NeedMore
  BY <1>17 DEF NeedMore
<1>18. CASE Malformed
  BY <1>18 DEF Malformed, Close
<1>19. CASE Packet
  <2>1. PICK p : Follow(p)
    BY <1>19 DEF Packet
  <2>2. /\ pc = "decode" /\ UNCHANGED <<brokerVars, cut, tls, tlsVars>>
    BY <1>19 DEF Packet
  <2> QED BY <2>1, <2>2, ConstantFacts DEF Follow, StartSend, Close
<1>20. CASE Pump
  <2>1. queue # <<>> => Tail(queue) \in Seq(ToSet(Wanted))
    BY HeadTailProperties
  <2> QED BY <1>20, <2>1 DEF Pump, StartSend
<1>21. CASE BrokerSays
  BY <1>21 DEF BrokerSays
<1>22. CASE Cut
  BY <1>22 DEF Cut
<1>23. CASE GivesUp
  BY <1>23 DEF GivesUp, Close
<1> QED
  BY <1>1, <1>2, <1>3, <1>4, <1>5, <1>6, <1>7, <1>8, <1>9, <1>10, <1>11, <1>12, <1>13,
     <1>14, <1>15, <1>16, <1>17, <1>18, <1>19, <1>20, <1>21, <1>22, <1>23
  DEF WireNext, Thread
-----------------------------------------------------------------------------
(* Our octets on their way to the broker.                                   *)

\* Every packet sent has been heard and nothing is on its way.
Settled ==
    /\ heard = sent /\ up = <<>> /\ record = <<>> /\ data = <<>> /\ out = <<>>

\* The octets x are in the record that ::send is at.
InRecord(x) ==
    \/ Len(x) = 0 /\ record = <<>> /\ out = <<>>
    \/ /\ Len(x) > 0 /\ Len(out) > 0
       /\ At(record, Record(x), 0) /\ At(out, Record(x), Len(record))
       /\ Len(record) + Len(out) = Len(Record(x))

\* The octets e of a packet: the broker has the first, x are on their way and
\* the others not yet sent.
Underway(e, x) ==
    /\ At(up, e, 0) /\ At(x, e, Len(up)) /\ At(data, e, Len(up) + Len(x))
    /\ Len(up) + Len(x) + Len(data) = Len(e)
    /\ Len(x) + Len(data) > 0
    /\ IF tls THEN InRecord(x) ELSE record = <<>> /\ out = x

Sending ==
    /\ pc = "send"
    /\ \E p \in Sayable :
          /\ sent = Append(heard, p)
          /\ \E x \in Seq(Octet) : Underway(Encode(p), x)

\* At most one packet is on its way, the last, and the broker has heard the others.
Uplink ==
    /\ sent \in Seq(Sayable) /\ heard \in Seq(Sayable)
    /\ data \in Seq(Octet) /\ up \in Seq(Octet) /\ out \in Seq(Word) /\ record \in Seq(Word)
    /\ pc # "closed" /\ ~cut => Settled \/ Sending

uplinkVars == <<sent, heard, up, record, data, out, tls>>

\* What one step does to the pipe of our packets.
WriteStep == Out!PipeNext \/ UNCHANGED <<sent, heard>>

LEMMA LegibleSent ==
  ASSUME Understood, Uplink, NEW p, sent = Append(heard, p)
  PROVE  Legible(p)
<1>1. heard \in Seq(Sayable) /\ sent \in Seq(Sayable)
  BY DEF Uplink
<1>2. Len(heard) + 1 \in DOMAIN sent /\ sent[Len(heard) + 1] = p
  BY <1>1
<1> QED BY <1>2 DEF Understood

\* Part of a record, the first one in the buffer: it is whole when all of it is there.
LEMMA WholeRecord ==
  ASSUME NEW x \in Seq(Octet), NEW a \in Seq(Word), Len(a) > 0, At(a, Record(x), 0)
  PROVE  /\ Whole(a) <=> Len(a) = 1 + Len(x)
         /\ Len(a) = 1 + Len(x) => Payload(a) = x
<1>1. /\ Record(x) \in Seq(Word) /\ Len(Record(x)) = 1 + Len(x)
      /\ Record(x)[1] = 256 + Len(x)
      /\ \A j \in 1..Len(x) : Record(x)[1 + j] = x[j]
  BY RecordOf
<1>2. Len(a) \in Nat /\ Len(x) \in Nat
  OBVIOUS
<1>3. a[1] = 256 + Len(x) /\ Len(a) <= 1 + Len(x)
  <2>1. 1 \in 1..Len(a) /\ 0 + 1 = 1
    BY <1>2
  <2>2. a[1] = Record(x)[0 + 1]
    BY <2>1 DEF At
  <2>3. Len(a) <= 1 + Len(x)
    BY <1>1, <1>2 DEF At
  <2> QED BY <1>1, <2>1, <2>2, <2>3
<1>4. Whole(a) <=> Len(a) = 1 + Len(x)
  <2>1. a # <<>>
    BY <1>2
  <2> QED BY <1>2, <1>3, <2>1 DEF Whole
<1>5. ASSUME Len(a) = 1 + Len(x)
      PROVE  Payload(a) = x
  <2> DEFINE u == SubSeq(a, 2, 1 + Len(x))
  <2>1. \A j \in 1..Len(x) : 1 + j \in 1..Len(a) /\ a[1 + j] = x[j]
    <3> TAKE j \in 1..Len(x)
    <3>1. 1 + j \in 1..Len(a) /\ 0 + (1 + j) = 1 + j
      BY <1>2, <1>5
    <3>2. a[1 + j] = Record(x)[0 + (1 + j)]
      BY <3>1 DEF At
    <3> QED BY <1>1, <3>1, <3>2
  <2>2. \A i \in 2..(1 + Len(x)) : a[i] \in Octet
    <3> TAKE i \in 2..(1 + Len(x))
    <3>1. i - 1 \in 1..Len(x) /\ 1 + (i - 1) = i
      BY <1>2
    <3>2. a[1 + (i - 1)] = x[i - 1]
      BY <2>1, <3>1
    <3> QED BY <3>1, <3>2, Elements
  <2>3. /\ u \in Seq(Octet)
        /\ Len(u) = IF 2 <= 1 + Len(x) THEN (1 + Len(x)) - 2 + 1 ELSE 0
        /\ \A i \in 1..((1 + Len(x)) - 2 + 1) : u[i] = a[2 + i - 1]
    <3>1. 1 + Len(x) \in Int
      BY <1>2
    <3> QED BY <2>2, <3>1, SubSeqProperties
  <2> HIDE DEF u
  <2>4. Len(u) = Len(x)
    BY <1>2, <2>3
  <2>5. \A i \in 1..Len(u) : u[i] = x[i]
    <3> TAKE i \in 1..Len(u)
    <3>1. i \in 1..Len(x) /\ i \in 1..((1 + Len(x)) - 2 + 1) /\ 2 + i - 1 = 1 + i
      BY <1>2, <2>4
    <3> QED BY <2>1, <2>3, <3>1
  <2>6. u = x
    BY <2>3, <2>4, <2>5, SeqEqual
  <2>7. 1 + a[1] - 256 = 1 + Len(x)
    BY <1>2, <1>3
  <2> QED BY <2>6, <2>7 DEF Payload, u
<1> QED BY <1>4, <1>5

\* The broker takes a packet off its octets when they are all there.
LEMMA Delivered ==
  ASSUME Uplink, NEW p \in Sayable, Legible(p), NEW octets \in Seq(Octet),
         At(octets, Encode(p), 0), BrokerHears(octets)
  PROVE  /\ up' \in Seq(Octet)
         /\ \/ Len(octets) < Len(Encode(p)) /\ up' = octets /\ UNCHANGED heard
            \/ Len(octets) = Len(Encode(p)) /\ up' = <<>> /\ heard' = Append(heard, p)
<1> DEFINE e == Encode(p)
<1>1. e \in Seq(Octet) /\ Len(e) >= 2 /\ e[2] = Len(e) - 2 /\ ReadPacket(e) = {p}
  BY DEF Legible, Octet
<1> HIDE DEF e
<1>2. /\ Len(octets) \in Nat /\ Len(e) \in Nat /\ Len(octets) <= Len(e)
      /\ \A i \in 1..Len(octets) : octets[i] = e[i]
  <2>1. At(octets, e, 0)
    BY DEF e
  <2>2. Len(octets) \in Nat /\ Len(e) \in Nat
    BY <1>1
  <2> QED BY <2>1, <2>2 DEF At
<1>3. Len(octets) >= 2 => octets[2] = Len(e) - 2
  BY <1>1, <1>2
<1>4. CASE Len(octets) < 2 \/ Len(octets) < 2 + octets[2]
  <2>1. Len(octets) < Len(e)
    BY <1>1, <1>2, <1>3, <1>4
  <2>2. up' = octets /\ UNCHANGED heard
    BY <1>4 DEF BrokerHears
  <2> QED BY <2>1, <2>2 DEF e
<1>5. CASE ~(Len(octets) < 2 \/ Len(octets) < 2 + octets[2])
  <2>1. Len(octets) = Len(e) /\ 2 + octets[2] = Len(e) /\ 3 + octets[2] = Len(e) + 1
    BY <1>1, <1>2, <1>3, <1>5
  <2>2. octets = e
    BY <1>1, <1>2, <2>1, SeqEqual
  <2>3. /\ up' = From(octets, 3 + octets[2])
        /\ heard' \in {Append(heard, q) : q \in ReadPacket(SubSeq(octets, 1, 2 + octets[2]))}
    BY <1>5 DEF BrokerHears
  <2>4. SubSeq(octets, 1, 2 + octets[2]) = e
    BY <1>1, <2>1, <2>2, SubSeqFull
  <2>5. heard' = Append(heard, p)
    BY <1>1, <2>3, <2>4
  <2>6. From(octets, 3 + octets[2]) = <<>>
    <3>1. From(e, Len(e) + 1) \in Seq(Octet) /\ Len(From(e, Len(e) + 1)) = Len(e) - Len(e)
      <4>1. Len(e) \in 0..Len(e) /\ e \in Seq(Octet)
        BY <1>1, <1>2
      <4> QED BY <4>1, Split
    <3>2. Len(From(e, Len(e) + 1)) = 0
      BY <1>2, <3>1
    <3> QED BY <2>1, <2>2, <3>1, <3>2, EmptySeq
  <2>7. up' = <<>> /\ <<>> \in Seq(Octet)
    BY <2>3, <2>6, EmptySeq
  <2> QED BY <2>1, <2>5, <2>7 DEF e
<1> QED BY <1>4, <1>5

LEMMA NothingToSend ==
  ASSUME Uplink, out = <<>>, data = <<>>
  PROVE  ~Sending
<1> SUFFICES ASSUME Sending PROVE FALSE
  OBVIOUS
<1>1. PICK p \in Sayable, x \in Seq(Octet) : Underway(Encode(p), x)
  BY DEF Sending
<1>2. Len(x) + Len(data) > 0 /\ Len(data) = 0 /\ Len(out) = 0 /\ Len(x) \in Nat
  BY <1>1 DEF Underway
<1>3. Len(x) = 0
  <2>1. CASE tls
    BY <1>1, <1>2, <2>1 DEF Underway, InRecord
  <2>2. CASE ~tls
    BY <1>1, <1>2, <2>2 DEF Underway
  <2> QED BY <2>1, <2>2
<1> QED BY <1>2, <1>3

\* Steps that have nothing to do with what we send.
LEMMA UplinkStays ==
  ASSUME Uplink, UNCHANGED uplinkVars, pc # "closed", cut' = TRUE \/ cut' = cut,
         pc' = pc \/ pc # "send" \/ (out = <<>> /\ data = <<>>)
  PROVE  Uplink' /\ WriteStep
<1>1. UNCHANGED <<sent, heard, up, record, data, out, tls>>
  BY DEF uplinkVars
<1>2. WriteStep
  BY <1>1 DEF WriteStep
<1>3. ASSUME pc' # "closed", cut' # TRUE PROVE Settled' \/ Sending'
  <2>1. cut' = cut /\ (cut # TRUE)
    BY <1>3
  <2>2. CASE Settled
    BY <1>1, <2>2 DEF Settled
  <2>3. CASE Sending
    <3>1. pc' = pc
      BY <2>3, NothingToSend DEF Sending
    <3> QED BY <1>1, <2>3, <3>1 DEF Sending, Underway, InRecord
  <2>4. Settled \/ Sending
    BY <2>1 DEF Uplink
  <2> QED BY <2>2, <2>3, <2>4
<1> QED BY <1>1, <1>2, <1>3 DEF Uplink

LEMMA UplinkCloses ==
  ASSUME Uplink, Close, UNCHANGED <<sent, heard, up, record>>
  PROVE  Uplink' /\ WriteStep
<1>1. WriteStep
  BY DEF WriteStep
<1>2. pc' = "closed" /\ data' = <<>> /\ out' = <<>>
  BY DEF Close
<1>3. data' \in Seq(Octet) /\ out' \in Seq(Word)
  BY <1>2, EmptySeq
<1> QED BY <1>1, <1>2, <1>3 DEF Uplink

\* A packet is passed to Send.
LEMMA UplinkStarts ==
  ASSUME Uplink, Understood', NEW p \in Sayable, StartSend(p), pc # "send", pc # "closed",
         UNCHANGED <<heard, up, record, tls, cut>>
  PROVE  Uplink' /\ WriteStep
<1>1. pc' = "send" /\ data' = Encode(p) /\ out' = <<>> /\ sent' = Append(sent, p)
  BY DEF StartSend
<1>2. sent \in Seq(Sayable) /\ heard \in Seq(Sayable)
  BY DEF Uplink
<1>3. sent' \in Seq(Sayable) /\ Len(sent) + 1 \in DOMAIN sent' /\ sent'[Len(sent) + 1] = p
  BY <1>1, <1>2
<1>4. Legible(p)
  BY <1>3 DEF Understood
<1> DEFINE e == Encode(p)
<1>5. e \in Seq(Octet) /\ Len(e) \in Nat /\ Len(e) >= 2
  BY <1>4 DEF Legible, Octet
<1>6. WriteStep
  <2>1. Out!Say(p)
    BY <1>1 DEF Out!Say
  <2> QED BY <2>1 DEF WriteStep, Out!PipeNext
<1>7. ASSUME ~cut PROVE Sending'
  <2> HIDE DEF e
  <2>1. Settled
    BY <1>7 DEF Uplink, Sending
  <2>2. sent' = Append(heard', p) /\ up' = <<>> /\ record' = <<>> /\ data' = e
    BY <1>1, <2>1 DEF Settled, e
  <2>3. <<>> \in Seq(Octet) /\ Len(<<>>) = 0 /\ <<>> \in Seq(Word)
    BY EmptySeq
  <2>4. Underway(e, <<>>)'
    BY <1>1, <1>5, <2>2, <2>3 DEF Underway, InRecord, At
  <2> QED BY <1>1, <2>2, <2>3, <2>4 DEF Sending, e
<1>8. out' \in Seq(Word) /\ data' \in Seq(Octet)
  BY <1>1, <1>5, EmptySeq
<1> QED BY <1>1, <1>3, <1>6, <1>7, <1>8 DEF Uplink

LEMMA UplinkRecord ==
  ASSUME Uplink, Control, NextRecord
  PROVE  Uplink' /\ WriteStep
<1> DEFINE m == Min({MaxMessage, Len(data)})
           chunk == SubSeq(data, 1, m)
<1>1. /\ pc = "send" /\ out = <<>> /\ data # <<>>
      /\ out' = IF tls THEN Record(chunk) ELSE data
      /\ data' = IF tls THEN From(data, Len(chunk) + 1) ELSE <<>>
      /\ UNCHANGED <<sent, heard, up, record, tls, cut, pc>>
  BY DEF NextRecord, Record, brokerVars, netVars, relayVars
<1>2. data \in Seq(Octet) /\ Len(data) \in Nat /\ Len(data) > 0 /\ tls \in BOOLEAN
      /\ up \in Seq(Octet)
  BY <1>1 DEF Uplink, Control
<1>3. m \in 1..Len(data)
  <2> DEFINE k == Len(data)
  <2>1. MaxMessage \in Int /\ MaxMessage >= 1 /\ k \in Int /\ k >= 1
    BY <1>2, ConstantFacts
  <2> HIDE DEF k
  <2>2. Min({MaxMessage, k}) = IF MaxMessage <= k THEN MaxMessage ELSE k
    BY <2>1, LimitOf
  <2>3. Min({MaxMessage, k}) \in 1..k
    BY <2>1, <2>2
  <2> QED BY <2>3 DEF k
<1> HIDE DEF m
<1>4. /\ chunk \in Seq(Octet) /\ Len(chunk) = m
      /\ From(data, m + 1) \in Seq(Octet) /\ Len(From(data, m + 1)) = Len(data) - m
  <2>1. m \in 0..Len(data)
    BY <1>2, <1>3
  <2> QED BY <1>2, <2>1, Split
<1>5. WriteStep
  BY <1>1 DEF WriteStep
<1>6. /\ Record(chunk) \in Seq(Word) /\ Len(Record(chunk)) = 1 + m
  <2> HIDE DEF chunk
  <2> QED BY <1>4, RecordOf
<1>7. out' \in Seq(Word) /\ data' \in Seq(Octet)
  <2>1. data \in Seq(Word) /\ <<>> \in Seq(Octet)
    BY <1>2, Words, EmptySeq
  <2> QED BY <1>1, <1>4, <1>6, <2>1
<1>8. ASSUME ~cut PROVE Sending'
  <2>1. Sending
    BY <1>1, <1>8 DEF Uplink, Settled
  <2>2. PICK p \in Sayable : /\ sent = Append(heard, p)
                             /\ \E x \in Seq(Octet) : Underway(Encode(p), x)
    BY <2>1 DEF Sending
  <2> DEFINE e == Encode(p)
  <2>3. PICK x \in Seq(Octet) : Underway(e, x)
    BY <2>2
  <2> HIDE DEF e, chunk
  <2>4. Len(x) = 0 /\ record = <<>>
    <3>1. Len(out) = 0 /\ Len(x) \in Nat
      BY <1>1
    <3>2. CASE tls
      BY <2>3, <3>1, <3>2 DEF Underway, InRecord
    <3>3. CASE ~tls
      BY <2>3, <3>1, <3>3 DEF Underway
    <3> QED BY <3>2, <3>3
  <2>5. /\ At(up, e, 0) /\ At(data, e, Len(up)) /\ Len(up) + Len(data) = Len(e)
        /\ Len(up) \in Nat /\ Len(e) \in Nat
    <3>1. Len(up) \in Nat /\ Len(up) + Len(x) = Len(up)
      BY <1>2, <2>4
    <3>2. At(up, e, 0) /\ At(data, e, Len(up) + Len(x)) /\ Len(up) + Len(x) + Len(data) = Len(e)
      BY <2>3 DEF Underway
    <3> QED BY <1>2, <3>1, <3>2
  <2>6. CASE tls
    <3>1. At(chunk, e, Len(up)) /\ At(From(data, m + 1), e, Len(up) + m)
      <4>1. m \in 0..Len(data)
        BY <1>2, <1>3
      <4> QED BY <1>2, <2>5, <4>1, AtCut DEF chunk
    <3>2. PICK y \in Seq(Octet) : y = chunk
      BY <1>4
    <3>3. data' = From(data, m + 1) /\ out' = Record(y) /\ Len(y) = m /\ m \in Nat /\ m > 0
      BY <1>1, <1>2, <1>3, <1>4, <2>6, <3>2
    <3>4. Len(data') = Len(data) - m
      BY <1>4, <3>3
    <3>5. Len(up) + Len(y) + Len(data') = Len(e) /\ Len(y) + Len(data') > 0 /\ Len(y) > 0
      <4>1. Len(y) = m /\ Len(data') = Len(data) - m
        BY <3>3, <3>4
      <4>2. /\ Len(up) \in Nat /\ Len(data) \in Nat /\ m \in Nat /\ m > 0 /\ m <= Len(data)
            /\ Len(up) + Len(data) = Len(e)
        BY <1>2, <1>3, <2>5
      <4> QED BY <4>1, <4>2
    <3>6. Len(Record(y)) = 1 + m
      BY <1>6, <3>2
    <3>7. At(record', Record(y), 0) /\ At(out', Record(y), Len(record'))
          /\ Len(record') + Len(out') = Len(Record(y)) /\ Len(out') > 0
      BY <1>1, <2>4, <3>3, <3>6 DEF At
    <3>8. InRecord(y)'
      BY <3>5, <3>7 DEF InRecord
    <3>9. At(up', e, 0) /\ At(y, e, Len(up')) /\ At(data', e, Len(up') + Len(y))
          /\ Len(up') + Len(y) + Len(data') = Len(e)
      BY <1>1, <2>5, <3>1, <3>2, <3>3, <3>5
    <3>10. Underway(e, y)'
      BY <1>1, <2>6, <3>5, <3>8, <3>9 DEF Underway
    <3>11. pc' = "send" /\ sent' = Append(heard', p)
      BY <1>1, <2>2
    <3> QED BY <3>10, <3>11 DEF Sending, e
  <2>7. CASE ~tls
    <3>1. PICK y \in Seq(Octet) : y = data
      BY <1>2
    <3>2. data' = <<>> /\ out' = y /\ record' = <<>> /\ Len(data') = 0 /\ Len(y) = Len(data)
      BY <1>1, <2>4, <2>7, <3>1
    <3>3. At(data', e, Len(up) + Len(y))
      BY <1>2, <2>5, <3>2 DEF At
    <3>4. /\ At(up', e, 0) /\ At(y, e, Len(up')) /\ At(data', e, Len(up') + Len(y))
          /\ Len(up') + Len(y) + Len(data') = Len(e) /\ Len(y) + Len(data') > 0
      <4>1. Len(up) + Len(y) + Len(data') = Len(e) /\ Len(y) + Len(data') > 0
        BY <1>2, <2>5, <3>2
      <4>2. up' = up
        BY <1>1
      <4> QED BY <2>5, <3>1, <3>3, <4>1, <4>2
    <3>5. Underway(e, y)'
      BY <1>1, <2>7, <3>2, <3>4 DEF Underway
    <3>6. pc' = "send" /\ sent' = Append(heard', p)
      BY <1>1, <2>2
    <3> QED BY <3>5, <3>6 DEF Sending, e
  <2> QED BY <2>6, <2>7
<1> QED BY <1>1, <1>2, <1>5, <1>7, <1>8 DEF Uplink

\* What the broker has when some more of the octets x have come.
LEMMA UplinkArrives ==
  ASSUME Uplink, Understood, NEW p \in Sayable, sent = Append(heard, p),
         NEW e, e = Encode(p), NEW x \in Seq(Octet), NEW y \in Seq(Octet),
         NEW z \in Seq(Octet), At(up, e, 0), At(x, e, Len(up)), At(y, e, Len(up) + Len(x)),
         At(data, e, Len(up) + Len(x) + Len(y)),
         Len(up) + Len(x) + Len(y) + Len(data) = Len(e), Len(x) > 0,
         BrokerHears(up \o x), record' = <<>>,
         UNCHANGED <<sent, data, tls, cut, pc>>, pc = "send",
         out' \in Seq(Word), IF tls THEN Len(y) = 0 /\ out' = <<>> ELSE out' = y
  PROVE  Uplink' /\ WriteStep
<1>1. /\ up \in Seq(Octet) /\ heard \in Seq(Sayable) /\ sent \in Seq(Sayable)
      /\ data \in Seq(Octet)
  BY DEF Uplink
<1>2. Legible(p)
  BY LegibleSent
<1>3. e \in Seq(Octet) /\ Len(e) \in Nat
  BY <1>2 DEF Legible, Octet
<1>4. /\ Len(up) \in Nat /\ Len(x) \in Nat /\ Len(y) \in Nat /\ Len(data) \in Nat
  BY <1>1
<1>5. up \o x \in Seq(Octet) /\ Len(up \o x) = Len(up) + Len(x) /\ At(up \o x, e, 0)
  <2>1. At(x, e, 0 + Len(up))
    BY <1>4
  <2> QED BY <1>1, <1>3, <2>1, AtJoin
<1>6. PICK o \in Seq(Octet) : o = up \o x
  BY <1>5
<1>7. /\ up' \in Seq(Octet)
      /\ \/ Len(o) < Len(e) /\ up' = o /\ UNCHANGED heard
         \/ Len(o) = Len(e) /\ up' = <<>> /\ heard' = Append(heard, p)
  <2>1. At(o, Encode(p), 0) /\ BrokerHears(o)
    BY <1>5, <1>6
  <2> QED BY <1>2, <2>1, Delivered
<1>8. Len(o) = Len(up) + Len(x) /\ At(o, e, 0)
  BY <1>5, <1>6
<1>9. record' \in Seq(Word) /\ sent' = sent /\ data' = data /\ pc' = pc /\ tls' = tls
  BY EmptySeq
<1>10. CASE Len(o) < Len(e) /\ up' = o /\ UNCHANGED heard
  <2>1. WriteStep
    BY <1>9, <1>10 DEF WriteStep
  <2>2. At(up', e, 0) /\ At(y, e, Len(up')) /\ At(data', e, Len(up') + Len(y))
        /\ Len(up') + Len(y) + Len(data') = Len(e)
    BY <1>8, <1>9, <1>10
  <2>3. Len(y) + Len(data') > 0
    <3>1. Len(o) \in Nat /\ Len(o) + Len(y) + Len(data) = Len(e) /\ Len(o) < Len(e)
      BY <1>4, <1>8, <1>10
    <3> QED BY <1>3, <1>4, <1>9, <3>1
  <2>4. IF tls' THEN InRecord(y)' ELSE record' = <<>> /\ out' = y
    BY <1>9 DEF InRecord
  <2>5. Underway(e, y)'
    BY <2>2, <2>3, <2>4 DEF Underway
  <2>6. Sending'
    BY <1>9, <1>10, <2>5 DEF Sending
  <2> QED BY <1>1, <1>7, <1>9, <1>10, <2>1, <2>6 DEF Uplink
<1>11. CASE Len(o) = Len(e) /\ up' = <<>> /\ heard' = Append(heard, p)
  <2>1. Len(y) = 0 /\ Len(data) = 0
    BY <1>3, <1>4, <1>8, <1>11
  <2>2. y = <<>> /\ data = <<>>
    BY <1>1, <2>1, EmptySeq
  <2>3. out' = <<>>
    BY <2>2
  <2>4. Settled'
    BY <1>9, <1>11, <2>2, <2>3 DEF Settled
  <2>5. heard' \in Seq(Sayable)
    BY <1>1, <1>11
  <2>6. Out!Take
    <3>1. /\ Len(heard) < Len(sent) /\ sent[Len(heard) + 1] = p
      BY <1>1
    <3> QED BY <1>9, <1>11, <3>1 DEF Out!Take
  <2>7. WriteStep
    BY <2>6 DEF WriteStep, Out!PipeNext
  <2> QED BY <1>1, <1>7, <1>9, <2>4, <2>5, <2>7 DEF Uplink
<1> QED BY <1>7, <1>10, <1>11

LEMMA UplinkTransmits ==
  ASSUME Uplink, Control, Understood, Transmit
  PROVE  Uplink' /\ WriteStep
<1>1. PICK n \in (SendSizes \cup {Len(out)}) \cap 1..Len(out) :
         /\ out' = From(out, n + 1)
         /\ \E arrived \in {record \o SubSeq(out, 1, n)} :
               IF cut THEN UNCHANGED <<record, up, heard>>
               ELSE IF tls /\ ~Whole(arrived) THEN record' = arrived /\ UNCHANGED <<up, heard>>
               ELSE /\ record' = <<>>
                    /\ \E octets \in {up \o (IF tls THEN Payload(arrived) ELSE arrived)} :
                          BrokerHears(octets)
  BY DEF Transmit
<1>2. pc = "send" /\ UNCHANGED <<sent, data, tls, cut, pc>>
  BY DEF Transmit, netVars, relayVars
<1> DEFINE first == SubSeq(out, 1, n)
           arrived == record \o first
<1>3. /\ out \in Seq(Word) /\ record \in Seq(Word) /\ up \in Seq(Octet) /\ data \in Seq(Octet)
      /\ heard \in Seq(Sayable) /\ sent \in Seq(Sayable) /\ tls \in BOOLEAN /\ cut \in BOOLEAN
  BY DEF Uplink, Control
<1>4. n \in 1..Len(out) /\ n \in Nat /\ n >= 1 /\ n <= Len(out) /\ n \in 0..Len(out)
      /\ Len(out) \in Nat /\ Len(record) \in Nat
  BY <1>1, <1>3
<1>5. /\ first \in Seq(Word) /\ Len(first) = n
      /\ From(out, n + 1) \in Seq(Word) /\ Len(From(out, n + 1)) = Len(out) - n
  BY <1>3, <1>4, Split
<1>6. out' = From(out, n + 1) /\ out' \in Seq(Word)
  BY <1>1, <1>5
<1>7. IF cut THEN UNCHANGED <<record, up, heard>>
      ELSE IF tls /\ ~Whole(arrived) THEN record' = arrived /\ UNCHANGED <<up, heard>>
      ELSE record' = <<>> /\ BrokerHears(up \o (IF tls THEN Payload(arrived) ELSE arrived))
  BY <1>1
<1> HIDE DEF first
<1>8. CASE cut
  <2>1. UNCHANGED <<record, up, heard>>
    BY <1>7, <1>8
  <2>2. WriteStep
    BY <1>2, <2>1 DEF WriteStep
  <2> QED BY <1>2, <1>3, <1>6, <1>8, <2>1, <2>2 DEF Uplink
<1>9. CASE ~cut
  <2>1. Sending
    <3>1. ~Settled
      BY <1>4 DEF Settled
    <3> QED BY <1>2, <1>9, <3>1 DEF Uplink
  <2>2. PICK p \in Sayable : /\ sent = Append(heard, p)
                             /\ \E x \in Seq(Octet) : Underway(Encode(p), x)
    BY <2>1 DEF Sending
  <2> DEFINE e == Encode(p)
  <2>3. PICK x \in Seq(Octet) : Underway(e, x)
    BY <2>2
  <2> HIDE DEF e
  <2>4. /\ At(up, e, 0) /\ At(x, e, Len(up)) /\ At(data, e, Len(up) + Len(x))
        /\ Len(up) + Len(x) + Len(data) = Len(e)
    BY <2>3 DEF Underway
  <2>5. e \in Seq(Octet) /\ Len(e) \in Nat
    <3>1. Legible(p)
      BY <2>2, LegibleSent
    <3> QED BY <3>1 DEF Legible, Octet, e
  <2>6. Len(up) \in Nat /\ Len(x) \in Nat /\ Len(data) \in Nat
    BY <1>3
  <2>7. <<>> \in Seq(Octet) /\ Len(<<>>) = 0
    BY EmptySeq
  <2>8. CASE ~tls
    <3>1. record = <<>> /\ out = x
      BY <2>3, <2>8 DEF Underway
    <3>2. /\ first \in Seq(Octet) /\ Len(first) = n
          /\ out' \in Seq(Octet) /\ Len(out') = Len(x) - n
      BY <1>4, <1>6, <3>1, Split DEF first
    <3>3. arrived = first
      BY <1>5, <3>1, ConcatEmptySeq
    <3>4. BrokerHears(up \o first) /\ record' = <<>>
      BY <1>7, <1>9, <2>8, <3>3
    <3>5. At(first, e, Len(up)) /\ At(out', e, Len(up) + n)
      BY <1>4, <1>6, <2>4, <2>5, <2>6, <3>1, AtCut DEF first
    <3>6. PICK u \in Seq(Octet), v \in Seq(Octet) : u = first /\ v = out'
      BY <3>2
    <3>7. /\ Len(u) = n /\ Len(u) > 0 /\ Len(v) = Len(x) - n
          /\ Len(up) + Len(u) + Len(v) = Len(up) + Len(x)
          /\ Len(up) + Len(u) + Len(v) + Len(data) = Len(e)
      <4>1. Len(u) = n /\ Len(v) = Len(x) - n
        BY <3>2, <3>6
      <4> QED BY <1>4, <2>4, <2>6, <4>1, SMTT(30)
    <3>8. /\ At(u, e, Len(up)) /\ At(v, e, Len(up) + Len(u))
          /\ At(data, e, Len(up) + Len(u) + Len(v))
          /\ BrokerHears(up \o u) /\ out' = v
      BY <2>4, <3>4, <3>5, <3>6, <3>7
    <3> QED
      BY <1>2, <1>6, <2>2, <2>4, <2>7, <2>8, <3>4, <3>7, <3>8, UplinkArrives DEF e
  <2>9. CASE tls
    <3>1. /\ Len(x) > 0 /\ At(record, Record(x), 0) /\ At(out, Record(x), Len(record))
          /\ Len(record) + Len(out) = Len(Record(x))
      <4>1. InRecord(x) /\ out # <<>>
        BY <1>4, <2>3, <2>9 DEF Underway
      <4> QED BY <4>1 DEF InRecord
    <3>2. Record(x) \in Seq(Word) /\ Len(Record(x)) = 1 + Len(x)
      BY RecordOf
    <3>3. At(first, Record(x), Len(record)) /\ At(out', Record(x), Len(record) + n)
      BY <1>3, <1>4, <1>6, <3>1, <3>2, AtCut DEF first
    <3>4. /\ arrived \in Seq(Word) /\ Len(arrived) = Len(record) + n
          /\ At(arrived, Record(x), 0)
      <4>1. At(first, Record(x), 0 + Len(record)) /\ Len(Record(x)) \in Nat
        BY <1>4, <3>2, <3>3
      <4> QED BY <1>3, <1>5, <3>1, <4>1, AtJoin
    <3> HIDE DEF arrived
    <3>5. /\ Whole(arrived) <=> Len(arrived) = 1 + Len(x)
          /\ Len(arrived) = 1 + Len(x) => Payload(arrived) = x
      <4>1. Len(arrived) > 0
        BY <1>4, <3>4
      <4> QED BY <3>4, <4>1, WholeRecord
    <3>6. CASE ~Whole(arrived)
      <4>1. record' = arrived /\ UNCHANGED <<up, heard>>
        BY <1>7, <1>9, <2>9, <3>6
      <4>2. WriteStep
        BY <1>2, <4>1 DEF WriteStep
      <4>3. /\ At(record', Record(x), 0) /\ At(out', Record(x), Len(record'))
            /\ Len(record') + Len(out') = Len(Record(x)) /\ Len(out') > 0
        <5>1. Len(out') = Len(out) - n
          BY <1>5, <1>6
        <5>2. Len(record') = Len(record) + n
          BY <3>4, <4>1
        <5>3. Len(record') + Len(out') = Len(Record(x))
          BY <1>4, <3>1, <3>2, <5>1, <5>2
        <5>4. Len(record') # 1 + Len(x)
          BY <3>5, <3>6, <4>1
        <5>5. Len(out') > 0
          BY <1>4, <3>2, <5>1, <5>3, <5>4
        <5> QED BY <3>3, <3>4, <4>1, <5>2, <5>3, <5>5
      <4>4. InRecord(x)'
        BY <3>1, <4>3 DEF InRecord
      <4>5. Underway(e, x)'
        BY <1>2, <2>3, <2>9, <4>1, <4>4 DEF Underway
      <4>6. Sending'
        BY <1>2, <2>2, <4>1, <4>5 DEF Sending, e
      <4> QED BY <1>2, <1>3, <1>6, <3>4, <4>1, <4>2, <4>6 DEF Uplink
    <3>7. CASE Whole(arrived)
      <4>1. record' = <<>> /\ BrokerHears(up \o x)
        BY <1>7, <1>9, <2>9, <3>5, <3>7
      <4>2. Len(out') = 0
        BY <1>4, <1>5, <1>6, <3>1, <3>2, <3>4, <3>5, <3>7
      <4>3. out' = <<>>
        BY <1>6, <4>2, EmptySeq
      <4>4. PICK y \in Seq(Octet) : y = <<>>
        BY <2>7
      <4>5. Len(y) = 0 /\ At(y, e, Len(up) + Len(x)) /\ Len(up) + Len(x) + Len(y) = Len(up) + Len(x)
        BY <2>4, <2>5, <2>6, <2>7, <4>4 DEF At
      <4>6. /\ At(data, e, Len(up) + Len(x) + Len(y))
            /\ Len(up) + Len(x) + Len(y) + Len(data) = Len(e)
        BY <2>4, <4>5
      <4> QED
        BY <1>2, <1>6, <2>2, <2>4, <2>7, <2>9, <3>1, <4>1, <4>3, <4>5, <4>6, UplinkArrives DEF e
    <3> QED BY <3>6, <3>7
  <2> QED BY <2>8, <2>9
<1> QED BY <1>8, <1>9

LEMMA UplinkInit == WireInit => Uplink /\ Out!PipeInit
<1> SUFFICES ASSUME WireInit PROVE Uplink /\ Out!PipeInit
  OBVIOUS
<1>1. /\ record = <<>> /\ up = <<>> /\ heard = <<>> /\ data = <<>> /\ out = <<>>
      /\ sent = <<>> /\ pc = "closed"
  BY DEF WireInit
<1>2. \A S : <<>> \in Seq(S)
  BY EmptySeq
<1> QED BY <1>1, <1>2 DEF Uplink, Out!PipeInit

LEMMA UplinkConnects ==
  ASSUME Uplink, Control, Understood', Connect
  PROVE  Uplink' /\ WriteStep
<1>1. /\ pc = "closed" /\ data = <<>> /\ out = <<>>
      /\ record' = <<>> /\ up' = <<>> /\ heard' = <<>> /\ tls' = tls
      /\ IF tls THEN sent' = <<>> /\ pc' = "handshakeRecv" /\ data' = data /\ out' = out
         ELSE /\ sent' \in {<<c>> : c \in Connects}
              /\ pc' = "send" /\ data' = Encode(sent'[1]) /\ out' = <<>>
  BY DEF Connect, Control, writeVars
<1>2. \A S : <<>> \in Seq(S)
  BY EmptySeq
<1>3. CASE tls
  <2>1. Settled' /\ sent' = <<>> /\ data' = <<>> /\ out' = <<>>
    BY <1>1, <1>3 DEF Settled
  <2>2. Uplink'
    BY <1>1, <1>2, <2>1 DEF Uplink
  <2>3. Out!Open
    BY <1>1, <2>1 DEF Out!Open
  <2> QED BY <2>2, <2>3 DEF WriteStep, Out!PipeNext
<1>4. CASE ~tls
  <2>1. PICK c \in Connects : sent' = <<c>>
    BY <1>1, <1>4
  <2>2. c \in Sayable /\ sent' \in Seq(Sayable) /\ sent'[1] = c /\ 1 \in DOMAIN sent'
    BY <2>1 DEF Sayable
  <2>3. Legible(c)
    BY <2>2 DEF Understood
  <2> DEFINE e == Encode(c)
  <2>4. e \in Seq(Octet) /\ Len(e) \in Nat /\ Len(e) >= 2
    BY <2>3 DEF Legible, Octet
  <2>5. data' = e /\ out' = <<>> /\ pc' = "send"
    BY <1>1, <1>4, <2>2
  <2> HIDE DEF e
  <2>6. sent' = Append(heard', c)
    BY <1>1, <2>1
  <2>7. Len(<<>>) = 0
    BY EmptySeq
  <2>8. Underway(e, <<>>)'
    BY <1>1, <2>4, <2>5, <2>7 DEF Underway, InRecord, At
  <2>9. Sending'
    BY <1>2, <2>2, <2>5, <2>6, <2>8 DEF Sending, e
  <2>10. Uplink'
    BY <1>1, <1>2, <2>2, <2>4, <2>5, <2>9 DEF Uplink
  <2>11. Out!Open
    BY <1>1, <2>1 DEF Out!Open
  <2> QED BY <2>10, <2>11 DEF WriteStep, Out!PipeNext
<1> QED BY <1>3, <1>4

LEMMA UplinkStep ==
  ASSUME Uplink, Control, Understood, Understood', [WireNext]_wireVars
  PROVE  Uplink' /\ WriteStep
<1> USE DEF brokerVars, netVars, tlsVars, readVars, writeVars, relayVars
<1>1. CASE UNCHANGED wireVars
  <2>1. UNCHANGED <<sent, heard, up, record, data, out, tls, cut, pc>>
    BY <1>1 DEF wireVars
  <2> QED BY <2>1 DEF Uplink, Settled, Sending, Underway, InRecord, WriteStep
<1>2. CASE Connect
  BY <1>2, UplinkConnects
<1>3. CASE SendFails
  <2>1. CASE phase = "pump" /\ Last(sent).kind # "PINGREQ"
    <3>1. /\ cut /\ UNCHANGED <<sent, heard, up, record, tls, cut>>
          /\ data' = <<>> /\ out' = <<>>
      BY <1>3, <2>1 DEF SendFails
    <3>2. \A S : <<>> \in Seq(S)
      BY EmptySeq
    <3> QED BY <3>1, <3>2 DEF Uplink, WriteStep
  <2>2. CASE ~(phase = "pump" /\ Last(sent).kind # "PINGREQ")
    <3>1. Close /\ UNCHANGED <<sent, heard, up, record>>
      BY <1>3, <2>2 DEF SendFails
    <3> QED BY <3>1, UplinkCloses
  <2> QED BY <2>1, <2>2
<1>4. CASE NextRecord
  BY <1>4, UplinkRecord
<1>5. CASE Transmit
  BY <1>5, UplinkTransmits
<1>6. CASE SendEnds
  BY <1>6, UplinkStays DEF SendEnds, uplinkVars
<1>7. CASE Goodbye
  BY <1>7, UplinkCloses DEF Goodbye
<1>8. CASE HandshakeRecv
  BY <1>8, UplinkStays DEF HandshakeRecv, uplinkVars
<1>9. CASE Handshake
  <2>1. CASE \E c \in Connects : StartSend(c)
    <3>1. PICK c \in Connects : StartSend(c)
      BY <2>1
    <3>2. c \in Sayable
      BY DEF Sayable
    <3> QED BY <1>9, <3>1, <3>2, UplinkStarts DEF Handshake
  <2>2. CASE ~\E c \in Connects : StartSend(c)
    BY <1>9, <2>2, UplinkStays DEF Handshake, uplinkVars
  <2> QED BY <2>1, <2>2
<1>10. CASE HandshakeFails
  BY <1>10, UplinkCloses DEF HandshakeFails
<1>11. CASE Receive
  BY <1>11, UplinkStays DEF Receive, uplinkVars
<1>12. CASE TakePlain
  BY <1>12, UplinkStays DEF TakePlain, uplinkVars
<1>13. CASE Decrypt
  BY <1>13, UplinkStays DEF Decrypt, uplinkVars
<1>14. CASE ReadMore
  BY <1>14, UplinkStays DEF ReadMore, uplinkVars
<1>15. CASE NothingComes
  BY <1>15, UplinkStays DEF NothingComes, uplinkVars
<1>16. CASE ReceiveFails
  BY <1>16, UplinkCloses DEF ReceiveFails
<1>17. CASE NeedMore
  BY <1>17, UplinkStays DEF NeedMore, uplinkVars
<1>18. CASE Malformed
  BY <1>18, UplinkCloses DEF Malformed
<1>19. CASE Packet
  <2>1. PICK p : Follow(p)
    BY <1>19 DEF Packet
  <2>2. pc = "decode" /\ UNCHANGED <<heard, up, record, tls, cut>>
    BY <1>19 DEF Packet
  <2>3. Subscribe \in Sayable /\ Presence \in Sayable
    BY ConstantFacts DEF Sayable
  <2>4. CASE StartSend(Subscribe)
    BY <2>2, <2>3, <2>4, UplinkStarts
  <2>5. CASE StartSend(Presence)
    BY <2>2, <2>3, <2>5, UplinkStarts
  <2>6. CASE UNCHANGED <<writeVars, sent>>
    BY <2>2, <2>6, UplinkStays DEF uplinkVars
  <2>7. CASE Close /\ UNCHANGED sent
    BY <2>2, <2>7, UplinkCloses
  <2> QED BY <2>1, <2>4, <2>5, <2>6, <2>7 DEF Follow
<1>20. CASE Pump
  <2>1. pc = "pump" /\ UNCHANGED <<heard, up, record, tls, cut>>
    BY <1>20 DEF Pump
  <2>2. CASE UNCHANGED <<writeVars, sent>>
    BY <2>1, <2>2, UplinkStays DEF uplinkVars
  <2>3. CASE queue # <<>> /\ StartSend(Head(queue))
    <3>1. queue \in Seq(ToSet(Wanted))
      BY DEF Control
    <3>2. Head(queue) \in Sayable
      BY <2>3, <3>1, HeadTailProperties DEF Sayable
    <3> QED BY <2>1, <2>3, <3>2, UplinkStarts
  <2>4. CASE StartSend([kind |-> "DISCONNECT"])
    <3>1. [kind |-> "DISCONNECT"] \in Sayable
      BY DEF Sayable
    <3> QED BY <2>1, <2>4, <3>1, UplinkStarts
  <2> QED BY <1>20, <2>2, <2>3, <2>4 DEF Pump
<1>21. CASE BrokerSays
  BY <1>21, UplinkStays DEF BrokerSays, uplinkVars
<1>22. CASE Cut
  BY <1>22, UplinkStays DEF Cut, uplinkVars
<1>23. CASE GivesUp
  BY <1>23, UplinkCloses DEF GivesUp
<1> QED
  BY <1>1, <1>2, <1>3, <1>4, <1>5, <1>6, <1>7, <1>8, <1>9, <1>10, <1>11, <1>12, <1>13,
     <1>14, <1>15, <1>16, <1>17, <1>18, <1>19, <1>20, <1>21, <1>22, <1>23
  DEF WireNext, Thread
-----------------------------------------------------------------------------
(* The broker's octets on their way to Decode.                              *)

\* The octets in m_rx that are of this connection: until CONNECT is out, none.
Buffered == IF phase = "connack" /\ (pc = "send" \/ Greeting) THEN <<>> ELSE rx

\* How many octets of the stream are of packets that have been handed on, and
\* how many have come as far as m_rx and m_tlsPlain.
Reached == Ends(script)[Len(handed)]
Place == Reached + Len(Buffered) + Len(plain)

Meant(s) == UNION {s[i].means : i \in DOMAIN s}

Taken ==
    /\ handed \in Seq(Meant(script)) /\ Len(handed) <= Len(script)
    /\ \A j \in 1..Len(handed) : script[j].means # {}

Held ==
    /\ At(Buffered, Stream(script), Reached)
    /\ At(plain, Stream(script), Reached + Len(Buffered))

\* The words b are where the records c begin, which hold the octets of st behind
\* the x-th up to the y-th.
Records(b, c, st, x, y) ==
    /\ c \in Seq(Word) /\ Begins(b, c)
    /\ y \in Nat /\ y <= Len(st) /\ Carries(c, st, x, y)

\* What is in the network and in m_tlsIncoming comes next in the stream.  A cut
\* takes its end away, in the middle of a record perhaps.
Coming ==
    IF tls
    THEN \E c, y : /\ Records(incoming \o wire, c, Stream(script), Place, y)
                   /\ ~cut => c = incoming \o wire /\ y = said
    ELSE /\ At(wire, Stream(script), Place)
         /\ ~cut => said = Place + Len(wire)

\* During the handshake: the messages that are still to be read.
Opening(b) ==
    /\ said = 0
    /\ Len(b) <= 2 * tokens + 1
    /\ ~cut => Len(b) = 2 * tokens
    /\ \A i \in 1..Len(b) : b[i] = IF i > 2 * tokens THEN 256 ELSE IF i % 2 = 1 THEN 257 ELSE 0

\* The buffers between the broker and Decode hold the stream, each the part that
\* comes after what is in the next.
Downlink ==
    /\ rx \in Seq(Octet) /\ plain \in Seq(Octet) /\ said \in Nat
    /\ incoming \in Seq(Word) /\ wire \in Seq(Word)
    /\ pc # "closed" => /\ Taken /\ Held
                        /\ IF Greeting THEN Opening(incoming \o wire) ELSE Coming

\* What one step does to the pipe of the broker's packets.
ReadStep == In!PipeNext \/ UNCHANGED <<Offer(script), handed>>

LEMMA DownlinkFacts ==
  ASSUME Downlink, Control, Understood, pc # "closed"
  PROVE  /\ Clear(script) /\ Stream(script) \in Seq(Octet) /\ Len(Stream(script)) \in Nat
         /\ Len(handed) \in 0..Len(script) /\ Len(script) \in Nat
         /\ Buffered \in Seq(Octet) /\ Len(Buffered) \in Nat /\ Len(plain) \in Nat
         /\ Reached \in Nat /\ Place \in Nat
<1>1. Clear(script)
  BY DEF Control, Understood, Clear
<1>2. Stream(script) \in Seq(Octet) /\ Len(script) \in Nat
  BY <1>1, StreamOf
<1>3. Len(handed) \in 0..Len(script)
  <2>1. handed \in Seq(Meant(script)) /\ Len(handed) <= Len(script)
    BY DEF Downlink, Taken
  <2>2. Len(handed) \in Nat
    BY <2>1
  <2> QED BY <1>2, <2>1, <2>2
<1>4. Buffered \in Seq(Octet)
  <2>1. rx \in Seq(Octet) /\ <<>> \in Seq(Octet)
    BY EmptySeq DEF Downlink
  <2> QED BY <2>1 DEF Buffered
<1>5. Len(Buffered) \in Nat /\ Len(Stream(script)) \in Nat
  BY <1>2, <1>4, LenProperties
<1>6. Len(plain) \in Nat
  BY DEF Downlink
<1>7. Reached \in Nat
  BY <1>1, <1>3, EndsOf DEF Reached
<1> QED BY <1>1, <1>2, <1>3, <1>4, <1>5, <1>6, <1>7 DEF Place

LEMMA DownlinkCloses ==
  ASSUME Downlink, Close, rx' \in Seq(Octet), UNCHANGED said
  PROVE  Downlink'
<1>1. pc' = "closed" /\ wire' = <<>> /\ incoming' = <<>> /\ plain' = <<>>
  BY DEF Close
<1>2. \A S : <<>> \in Seq(S)
  BY EmptySeq
<1> QED BY <1>1, <1>2 DEF Downlink

\* Steps that move no octets into m_rx or m_tlsPlain.
LEMMA DownlinkStays ==
  ASSUME Downlink, pc # "closed", ~Greeting, ~Greeting', rx' \in Seq(Octet),
         Buffered' = Buffered, UNCHANGED <<plain, script, handed, tls, said, cut>>,
         incoming' \in Seq(Word), wire' \in Seq(Word),
         incoming' \o wire' = incoming \o wire, tls \/ wire' = wire
  PROVE  Downlink' /\ ReadStep
<1>1. UNCHANGED <<Reached, Place>>
  BY DEF Reached, Place
<1>2. ReadStep
  BY DEF ReadStep
<1>3. Taken' /\ Held'
  BY <1>1 DEF Downlink, Taken, Held
<1>4. Coming'
  <2>1. Coming
    BY DEF Downlink
  <2>2. CASE tls
    <3>1. PICK c, y : /\ Records(incoming \o wire, c, Stream(script), Place, y)
                      /\ ~cut => c = incoming \o wire /\ y = said
      BY <2>1, <2>2 DEF Coming
    <3>2. /\ Records(incoming' \o wire', c, Stream(script'), Place', y)
          /\ ~cut' => c = incoming' \o wire' /\ y = said'
      BY <1>1, <3>1
    <3> QED BY <2>2, <3>2 DEF Coming
  <2>3. CASE ~tls
    BY <1>1, <2>1, <2>3 DEF Coming
  <2> QED BY <2>2, <2>3
<1> QED BY <1>2, <1>3, <1>4 DEF Downlink

\* The same, when nothing at all is moved.
LEMMA DownlinkUnmoved ==
  ASSUME Downlink, pc # "closed", ~Greeting, ~Greeting', rx' \in Seq(Octet),
         Buffered' = Buffered,
         UNCHANGED <<plain, script, handed, tls, said, cut, incoming, wire>>
  PROVE  Downlink' /\ ReadStep
<1>1. incoming' \in Seq(Word) /\ wire' \in Seq(Word) /\ incoming' \o wire' = incoming \o wire
  BY DEF Downlink
<1> QED BY <1>1, DownlinkStays

LEMMA PieceAt ==
  ASSUME NEW r \in Seq(Octet), NEW st \in Seq(Octet), At(r, st, 0), NEW y \in Nat,
         NEW m \in Nat, m <= Len(r), SubSeq(r, y + 1, m) # <<>>
  PROVE  /\ SubSeq(r, y + 1, m) \in Seq(Octet) /\ Len(SubSeq(r, y + 1, m)) > 0
         /\ At(SubSeq(r, y + 1, m), st, y)
<1> DEFINE u == SubSeq(r, y + 1, m)
<1>1. Len(r) \in Nat /\ Len(st) \in Nat /\ Len(r) <= Len(st)
      /\ \A i \in 1..Len(r) : r[i] = st[i] /\ r[i] \in Octet
  <2>1. Len(r) \in Nat /\ Len(st) \in Nat /\ \A i \in 1..Len(r) : r[i] \in Octet
    BY Elements
  <2> QED BY <2>1 DEF At
<1>2. /\ u \in Seq(Octet)
      /\ Len(u) = IF y + 1 <= m THEN m - (y + 1) + 1 ELSE 0
      /\ \A i \in 1..(m - (y + 1) + 1) : u[i] = r[(y + 1) + i - 1]
  <2>1. \A i \in (y + 1)..m : r[i] \in Octet
    BY <1>1
  <2>2. y + 1 \in Int /\ m \in Int
    OBVIOUS
  <2> QED BY <2>1, <2>2, SubSeqProperties
<1> HIDE DEF u
<1>3. Len(u) > 0 /\ Len(u) \in Nat
  <2>1. u # <<>>
    BY DEF u
  <2> QED BY <1>2, <2>1, EmptySeq
<1>4. Len(u) = m - y /\ y + Len(u) = m
  BY <1>2, <1>3
<1>5. ASSUME NEW i \in 1..Len(u) PROVE u[i] = st[y + i]
  <2>1. i \in 1..(m - (y + 1) + 1) /\ (y + 1) + i - 1 = y + i /\ y + i \in 1..Len(r)
    BY <1>1, <1>3, <1>4
  <2> QED BY <1>1, <1>2, <2>1
<1>6. At(u, st, y)
  <2>1. y + Len(u) <= Len(st)
    BY <1>1, <1>4
  <2> QED BY <1>5, <2>1 DEF At
<1> QED BY <1>2, <1>3, <1>6 DEF u

LEMMA DownlinkSays ==
  ASSUME Downlink, Control, Uplink, Understood, BrokerSays
  PROVE  Downlink' /\ ReadStep
<1>1. ~cut /\ pc # "closed"
      /\ UNCHANGED <<script, cut, tls, tokens, incoming, plain, pc, phase, rx, handed>>
  BY DEF BrokerSays, tlsVars, readVars, relayVars
<1> DEFINE ready == ReadyOctets
           m == Min({said + MaxRecord, Len(ready)})
           chunk == SubSeq(ready, said + 1, m)
<1>2. /\ chunk # <<>> /\ said' = said + Len(chunk)
      /\ wire' = wire \o (IF tls THEN <<Header(Len(chunk))>> \o chunk ELSE chunk)
  BY DEF BrokerSays
<1>3. /\ Clear(script) /\ Stream(script) \in Seq(Octet) /\ Len(Stream(script)) \in Nat
      /\ Place \in Nat /\ said \in Nat /\ incoming \in Seq(Word) /\ wire \in Seq(Word)
  BY <1>1, DownlinkFacts DEF Downlink
<1>4. ready \in Seq(Octet) /\ At(ready, Stream(script), 0) /\ (Len(heard) = 0 => ready = <<>>)
  <2>1. Len(heard) \in Nat
    BY DEF Uplink
  <2>2. ready = FlattenSeq([i \in DOMAIN script |->
                   IF script[i].after <= Len(heard) THEN script[i].octets ELSE <<>>])
    BY DEF ReadyOctets
  <2> HIDE DEF ready
  <2> QED BY <1>3, <2>1, <2>2, ReadyOf
<1> HIDE DEF ready
<1>5. m \in Nat /\ m <= Len(ready)
  <2> DEFINE j == said + MaxRecord
             k == Len(ready)
  <2>1. j \in Nat /\ k \in Nat
    <3>1. k \in Nat
      BY <1>4, LenProperties
    <3> QED BY <1>3, <3>1, ConstantFacts
  <2> HIDE DEF j, k
  <2>2. Min({j, k}) = IF j <= k THEN j ELSE k
    BY <2>1, LimitOf
  <2>3. Min({j, k}) \in Nat /\ Min({j, k}) <= k
    BY <2>1, <2>2
  <2> QED BY <2>3 DEF j, k
<1> HIDE DEF m
<1>6. chunk \in Seq(Octet) /\ Len(chunk) > 0 /\ At(chunk, Stream(script), said)
  <2>1. PICK r \in Seq(Octet), st \in Seq(Octet), y \in Nat, l \in Nat :
           r = ready /\ st = Stream(script) /\ y = said /\ l = m
    BY <1>3, <1>4, <1>5
  <2>2. At(r, st, 0) /\ l <= Len(r) /\ SubSeq(r, y + 1, l) # <<>>
    BY <1>2, <1>4, <1>5, <2>1
  <2>3. /\ SubSeq(r, y + 1, l) \in Seq(Octet) /\ Len(SubSeq(r, y + 1, l)) > 0
        /\ At(SubSeq(r, y + 1, l), st, y)
    BY <2>2, PieceAt
  <2> QED BY <2>1, <2>3
<1>7. PICK u \in Seq(Octet) : u = chunk
  BY <1>6
<1> HIDE DEF chunk
<1>8. /\ Len(u) \in Nat /\ Len(u) > 0 /\ At(u, Stream(script), said) /\ said' = said + Len(u)
      /\ said' \in Nat /\ said' <= Len(Stream(script))
      /\ wire' = wire \o (IF tls THEN Record(u) ELSE u)
  <2>1. /\ Len(u) \in Nat /\ Len(u) > 0 /\ At(u, Stream(script), said) /\ said' = said + Len(u)
        /\ wire' = wire \o (IF tls THEN Record(u) ELSE u)
    BY <1>2, <1>6, <1>7 DEF Record
  <2>2. said + Len(u) <= Len(Stream(script))
    BY <2>1 DEF At
  <2> QED BY <1>3, <2>1, <2>2
<1>9. ~Greeting
  <2> SUFFICES ASSUME Greeting PROVE FALSE
    OBVIOUS
  <2>1. Len(heard) = 0
    BY DEF Control
  <2>2. Len(ready) = 0
    BY <1>4, <2>1
  <2>3. Len(Stream(script)) \in Nat /\ m = 0 /\ said + 1 \in Int /\ m < said + 1
    BY <1>3, <1>5, <2>2
  <2>4. chunk = <<>>
    BY <2>3, SubSeqEmpty DEF chunk
  <2> QED BY <1>2, <2>4
<1>10. UNCHANGED <<Buffered, Reached, Place>> /\ ~Greeting'
  BY <1>1, <1>9 DEF Buffered, Reached, Place, Greeting
<1>11. Taken' /\ Held' /\ ReadStep
  BY <1>1, <1>10 DEF Downlink, Taken, Held, ReadStep
<1>12. Coming
  BY <1>1, <1>9 DEF Downlink
<1>13. u \in Seq(Word) /\ Record(u) \in Seq(Word)
  BY Words, RecordOf
<1>14. CASE tls
  <2> DEFINE b == incoming \o wire
             st == Stream(script)
  <2>1. Records(b, b, st, Place, said)
    BY <1>1, <1>12, <1>14 DEF Coming
  <2>2. incoming \o (wire \o Record(u)) = b \o Record(u)
    <3>1. PICK c \in Seq(Word), d \in Seq(Word), e \in Seq(Word) :
             c = incoming /\ d = wire /\ e = Record(u)
      BY <1>3, <1>13
    <3>2. (c \o d) \o e = c \o (d \o e)
      BY ConcatAssociative
    <3> QED BY <3>1, <3>2
  <2>3. b \in Seq(Word)
    BY <1>3, ConcatProperties
  <2> HIDE DEF b, st
  <2>4. PICK w \in Seq(Word), t \in Seq(Octet), x \in Nat, y \in Nat :
           w = b /\ t = st /\ x = Place /\ y = said
    BY <1>3, <2>3 DEF st
  <2>5. Carries(w, t, x, y) /\ At(u, t, y)
    BY <1>8, <2>1, <2>4 DEF Records, st
  <2>6. w \o Record(u) \in Seq(Word) /\ Carries(w \o Record(u), t, x, y + Len(u))
    BY <2>5, CarriesMore
  <2>7. Begins(w \o Record(u), w \o Record(u))
    <3> DEFINE v == w \o Record(u)
    <3>1. Len(v) \in Nat
      BY <2>6, LenProperties
    <3> HIDE DEF v
    <3>2. Begins(v, v)
      BY <3>1 DEF Begins
    <3> QED BY <3>2 DEF v
  <2>8. Records(w \o Record(u), w \o Record(u), st, Place, said')
    BY <1>8, <2>4, <2>6, <2>7 DEF Records, st
  <2>9. incoming' \o wire' = w \o Record(u)
    BY <1>1, <1>8, <1>14, <2>2, <2>4
  <2>10. Stream(script') = st /\ Place' = Place /\ tls'
    BY <1>1, <1>10, <1>14 DEF st
  <2>11. \E c, z : /\ Records(incoming' \o wire', c, Stream(script'), Place', z)
                   /\ ~cut' => c = incoming' \o wire' /\ z = said'
    BY <2>8, <2>9, <2>10
  <2>12. Coming'
    BY <2>10, <2>11 DEF Coming
  <2>13. wire' \in Seq(Word)
    BY <1>3, <1>8, <1>13, <1>14, ConcatProperties
  <2> QED BY <1>1, <1>3, <1>8, <1>10, <1>11, <2>12, <2>13 DEF Downlink
<1>15. CASE ~tls
  <2>1. At(wire, Stream(script), Place) /\ said = Place + Len(wire)
    BY <1>1, <1>12, <1>15 DEF Coming
  <2>2. /\ wire \o u \in Seq(Word) /\ Len(wire \o u) = Len(wire) + Len(u)
        /\ At(wire \o u, Stream(script), Place)
    BY <1>3, <1>8, <1>13, <2>1, AtJoin
  <2>3. wire' = wire \o u
    BY <1>8, <1>15
  <2>4. said' = Place + Len(wire')
    <3>1. Len(wire) \in Nat /\ Len(wire') = Len(wire) + Len(u)
      BY <1>3, <2>2, <2>3
    <3>2. said' = said + Len(u) /\ Len(u) \in Nat /\ Place \in Nat
      BY <1>3, <1>8
    <3> QED BY <2>1, <3>1, <3>2
  <2>5. Coming'
    BY <1>1, <1>10, <1>15, <2>2, <2>3, <2>4 DEF Coming
  <2> QED BY <1>1, <1>3, <1>8, <1>10, <1>11, <2>2, <2>3, <2>5 DEF Downlink
<1> QED BY <1>14, <1>15

\* The word that ends a TLS connection is a record without octets.
LEMMA LastWord ==
  ASSUME NEW b \in Seq(Word)
  PROVE  /\ Append(b, CloseNotify) = b \o Record(<<>>)
         /\ Append(b, CloseNotify) \in Seq(Word)
         /\ Len(Append(b, CloseNotify)) = Len(b) + 1
         /\ \A i \in 1..Len(b) : Append(b, CloseNotify)[i] = b[i]
         /\ Append(b, CloseNotify)[Len(b) + 1] = 256
<1>1. CloseNotify = 256 /\ CloseNotify \in Word
  BY DEF CloseNotify, Header, Word
<1>2. Append(b, CloseNotify) = b \o <<CloseNotify>>
  OBVIOUS
<1>3. Record(<<>>) = <<CloseNotify>>
  <2>1. <<CloseNotify>> \in Seq(Word) /\ Len(<<>>) = 0
    BY <1>1
  <2>2. <<CloseNotify>> \o <<>> = <<CloseNotify>>
    BY <2>1, ConcatEmptySeq
  <2> QED BY <2>1, <2>2 DEF Record, CloseNotify
<1>4. /\ Append(b, CloseNotify) \in Seq(Word)
      /\ Len(Append(b, CloseNotify)) = Len(b) + 1
      /\ \A i \in 1..Len(b) : Append(b, CloseNotify)[i] = b[i]
      /\ Append(b, CloseNotify)[Len(b) + 1] = 256
  BY <1>1
<1> QED BY <1>2, <1>3, <1>4

LEMMA DownlinkCut ==
  ASSUME Downlink, Control, Understood, Cut
  PROVE  Downlink' /\ ReadStep
<1>1. /\ ~cut /\ cut' = TRUE /\ pc # "closed"
      /\ UNCHANGED <<script, said, tls, tokens, incoming, plain, pc, phase, rx, handed>>
      /\ wire' = <<>> \/ wire' = IF tls THEN Append(wire, CloseNotify) ELSE wire
  BY DEF Cut, brokerVars, tlsVars, readVars, relayVars
<1>2. /\ Clear(script) /\ Stream(script) \in Seq(Octet) /\ Len(Stream(script)) \in Nat
      /\ Place \in Nat /\ said \in Nat /\ incoming \in Seq(Word) /\ wire \in Seq(Word)
  BY <1>1, DownlinkFacts DEF Downlink
<1>3. UNCHANGED <<Buffered, Reached, Place>> /\ (Greeting <=> Greeting')
  BY <1>1 DEF Buffered, Reached, Place, Greeting
<1>4. Taken' /\ Held' /\ ReadStep
  BY <1>1, <1>3 DEF Downlink, Taken, Held, ReadStep
<1>5. wire' \in Seq(Word)
  <2>1. <<>> \in Seq(Word) /\ Append(wire, CloseNotify) \in Seq(Word)
    BY <1>2, EmptySeq, LastWord
  <2> QED BY <1>1, <1>2, <2>1
<1> DEFINE b == incoming \o wire
<1>6. /\ b \in Seq(Word) /\ Len(b) = Len(incoming) + Len(wire)
      /\ Len(incoming) \in Nat /\ Len(wire) \in Nat
      /\ \A i \in 1..Len(incoming) : b[i] = incoming[i]
  <2>1. /\ b \in Seq(Word) /\ Len(b) = Len(incoming) + Len(wire)
        /\ \A i \in 1..(Len(incoming) + Len(wire)) :
              b[i] = IF i <= Len(incoming) THEN incoming[i] ELSE wire[i - Len(incoming)]
    BY <1>2, ConcatProperties
  <2>2. Len(incoming) \in Nat /\ Len(wire) \in Nat
    BY <1>2
  <2> HIDE DEF b
  <2>3. \A i \in 1..Len(incoming) : i \in 1..(Len(incoming) + Len(wire)) /\ i <= Len(incoming)
    BY <2>2
  <2> QED BY <2>1, <2>2, <2>3
<1>7. \/ incoming' \o wire' = incoming
      \/ tls /\ incoming' \o wire' = b \o Record(<<>>) /\ b \o Record(<<>>) = Append(b, CloseNotify)
      \/ ~tls /\ wire' = wire
  <2>1. CASE wire' = <<>>
    BY <1>1, <1>2, <2>1, ConcatEmptySeq
  <2>2. CASE tls /\ wire' = Append(wire, CloseNotify)
    <3>1. wire' = wire \o Record(<<>>) /\ Record(<<>>) \in Seq(Word)
      <4>1. <<>> \in Seq(Octet)
        BY EmptySeq
      <4> QED BY <1>2, <2>2, <4>1, LastWord, RecordOf
    <3>2. incoming \o (wire \o Record(<<>>)) = b \o Record(<<>>)
      <4>1. PICK c \in Seq(Word), d \in Seq(Word), e \in Seq(Word) :
               c = incoming /\ d = wire /\ e = Record(<<>>)
        BY <1>2, <3>1
      <4>2. (c \o d) \o e = c \o (d \o e)
        BY ConcatAssociative
      <4> QED BY <4>1, <4>2
    <3>3. b \o Record(<<>>) = Append(b, CloseNotify)
      BY <1>6, LastWord
    <3> QED BY <1>1, <2>2, <3>1, <3>2, <3>3
  <2> QED BY <1>1, <2>1, <2>2
<1> HIDE DEF b
<1>8. CASE Greeting
  <2>1. Opening(b) /\ tls
    BY <1>1, <1>8 DEF Downlink, Control, b
  <2>2. tokens \in Nat /\ Len(b) = 2 * tokens
    BY <1>1, <2>1 DEF Opening, Control
  <2>3. PICK w \in Seq(Word) : w = incoming' \o wire'
    BY <1>1, <1>2, <1>5, ConcatProperties
  <2>4. Opening(w)'
    <3>1. CASE w = incoming
      <4>1. Len(w) = Len(incoming) /\ Len(w) \in Nat /\ Len(w) <= Len(b)
        BY <1>6, <3>1
      <4>2. \A i \in 1..Len(w) : w[i] = b[i] /\ i \in 1..Len(b)
        BY <1>6, <3>1, <4>1
      <4> QED BY <1>1, <2>1, <2>2, <4>1, <4>2 DEF Opening
    <3>2. CASE w = Append(b, CloseNotify)
      <4>1. /\ Len(w) = Len(b) + 1 /\ \A i \in 1..Len(b) : w[i] = b[i]
            /\ w[Len(b) + 1] = 256
        BY <1>6, <3>2, LastWord
      <4> QED BY <1>1, <2>1, <2>2, <4>1 DEF Opening
    <3> QED BY <1>7, <2>1, <2>3, <3>1, <3>2
  <2> QED BY <1>1, <1>2, <1>3, <1>4, <1>5, <1>8, <2>3, <2>4 DEF Downlink
<1>9. CASE ~Greeting /\ tls
  <2>1. Records(b, b, Stream(script), Place, said)
    BY <1>1, <1>9 DEF Downlink, Coming, b
  <2>2. \E c, y : Records(incoming' \o wire', c, Stream(script), Place, y)
    <3>1. CASE incoming' \o wire' = incoming
      <4>1. Begins(incoming, b)
        BY <1>6 DEF Begins
      <4> QED BY <2>1, <3>1, <4>1 DEF Records
    <3>2. CASE incoming' \o wire' = b \o Record(<<>>)
      <4>1. PICK w \in Seq(Word), t \in Seq(Octet), x \in Nat, y \in Nat :
               w = b /\ t = Stream(script) /\ x = Place /\ y = said
        BY <1>2, <1>6
      <4>2. PICK u \in Seq(Octet) : u = <<>> /\ Len(u) = 0
        BY EmptySeq
      <4>3. Carries(w, t, x, y) /\ y <= Len(t)
        BY <2>1, <4>1 DEF Records
      <4>4. At(u, t, y)
        BY <1>2, <4>1, <4>2, <4>3 DEF At
      <4>5. w \o Record(u) \in Seq(Word) /\ Carries(w \o Record(u), t, x, y + Len(u))
        BY <4>3, <4>4, CarriesMore
      <4>6. y + Len(u) = y
        BY <4>2
      <4> DEFINE v == w \o Record(u)
      <4>7. v \in Seq(Word) /\ Carries(v, t, x, y)
        BY <4>5, <4>6
      <4>8. v = incoming' \o wire'
        BY <3>2, <4>1, <4>2
      <4> HIDE DEF v
      <4>9. Begins(v, v)
        <5>1. Len(v) \in Nat
          BY <4>7, LenProperties
        <5> QED BY <5>1 DEF Begins
      <4>10. Records(v, v, t, x, y)
        BY <4>3, <4>7, <4>9 DEF Records
      <4> QED BY <4>1, <4>8, <4>10
    <3> QED BY <1>7, <1>9, <3>1, <3>2
  <2>3. Coming'
    <3>1. PICK c, y : Records(incoming' \o wire', c, Stream(script), Place, y)
      BY <2>2
    <3>2. /\ Records(incoming' \o wire', c, Stream(script'), Place', y)
          /\ cut'
      BY <1>1, <1>3, <3>1
    <3>3. tls'
      BY <1>1, <1>9
    <3> QED BY <3>2, <3>3 DEF Coming
  <2> QED BY <1>1, <1>2, <1>3, <1>4, <1>5, <1>9, <2>3 DEF Downlink
<1>10. CASE ~Greeting /\ ~tls
  <2>1. At(wire, Stream(script), Place)
    BY <1>1, <1>10 DEF Downlink, Coming
  <2>2. At(<<>>, Stream(script), Place)
    <3>1. Place <= Len(Stream(script))
      BY <1>2, <1>6, <2>1 DEF At
    <3> QED BY <1>2, <3>1, AtEmpty
  <2>3. At(wire', Stream(script), Place)
    BY <1>1, <1>10, <2>1, <2>2
  <2>4. Coming'
    BY <1>1, <1>3, <1>10, <2>3 DEF Coming
  <2> QED BY <1>1, <1>2, <1>3, <1>4, <1>5, <1>10, <2>4 DEF Downlink
<1> QED BY <1>8, <1>9, <1>10

LEMMA DownlinkInit == WireInit => Downlink /\ In!PipeInit
<1> SUFFICES ASSUME WireInit PROVE Downlink /\ In!PipeInit
  OBVIOUS
<1>1. /\ rx = <<>> /\ plain = <<>> /\ incoming = <<>> /\ wire = <<>> /\ said = 0
      /\ pc = "closed" /\ handed = <<>> /\ script = <<>>
  BY DEF WireInit
<1>2. \A S : <<>> \in Seq(S)
  BY EmptySeq
<1>3. Offer(script) = <<>>
  BY <1>1, NoOffer
<1> QED BY <1>1, <1>2, <1>3 DEF Downlink, In!PipeInit

\* A connection on which nothing has been said.
LEMMA Untouched ==
  ASSUME NEW s, Clear(s)
  PROVE  /\ Ends(s)[Len(<<>>)] = 0 /\ At(<<>>, Stream(s), 0)
         /\ <<>> \in Seq(Meant(s)) /\ Len(<<>>) = 0 /\ Len(s) \in Nat
         /\ Len(Stream(s)) \in Nat
<1>1. Len(s) \in Nat /\ Stream(s) \in Seq(Octet)
  BY StreamOf
<1>2. Len(Stream(s)) \in Nat
  BY <1>1, LenProperties
<1>3. <<>> \in Seq(Meant(s)) /\ Len(<<>>) = 0
  BY EmptySeq
<1>4. At(<<>>, Stream(s), 0)
  BY <1>2, AtEmpty
<1> QED BY <1>1, <1>2, <1>3, <1>4, EndsOf

LEMMA DownlinkConnects ==
  ASSUME Downlink, Control, Understood', Connect
  PROVE  Downlink' /\ ReadStep
<1>1. /\ pc = "closed" /\ wire = <<>> /\ incoming = <<>> /\ plain = <<>> /\ tls \in BOOLEAN
      /\ script' \in Scripts /\ said' = 0 /\ cut' = FALSE /\ phase' = "connack"
      /\ handed' = <<>> /\ tokens' = Tokens /\ tls' = tls
      /\ incoming' = incoming /\ plain' = plain /\ rx' = rx
  BY DEF Connect, Control, readVars
<1>2. Clear(script')
  BY <1>1 DEF Understood, Clear
<1>3. PICK s : s = script'
  OBVIOUS
<1>4. /\ Clear(s) /\ Ends(s)[Len(<<>>)] = 0 /\ At(<<>>, Stream(s), 0)
      /\ <<>> \in Seq(Meant(s)) /\ Len(<<>>) = 0 /\ Len(s) \in Nat /\ Len(Stream(s)) \in Nat
  BY <1>2, <1>3, Untouched
<1>5. pc' = IF tls THEN "handshakeRecv" ELSE "send"
  BY <1>1 DEF Connect
<1>6. Buffered' = <<>>
  BY <1>1, <1>5 DEF Buffered, Greeting
<1>7. Reached' = 0
  BY <1>1, <1>3, <1>4 DEF Reached
<1>8. Place' = 0
  BY <1>1, <1>4, <1>6, <1>7 DEF Place
<1>9. Taken' /\ Held'
  <2>1. Taken'
    BY <1>1, <1>3, <1>4 DEF Taken
  <2>2. Reached' + Len(Buffered') = 0
    BY <1>4, <1>6, <1>7
  <2> QED BY <1>1, <1>3, <1>4, <1>6, <1>7, <2>1, <2>2 DEF Held
<1>10. ReadStep
  <2>1. In!Open
    BY <1>1 DEF In!Open
  <2> QED BY <2>1 DEF ReadStep, In!PipeNext
<1>11. \A S : <<>> \in Seq(S)
  BY EmptySeq
<1>12. CASE tls
  <2> DEFINE w == [i \in 1..(2 * Tokens) |-> IF i % 2 = 1 THEN Header(1) ELSE 0]
  <2>1. wire' = w /\ Greeting'
    BY <1>1, <1>5, <1>12 DEF Connect, Greeting
  <2>2. 2 * Tokens \in Nat
    BY ConstantFacts
  <2>3. /\ w \in Seq(Word) /\ Len(w) = 2 * Tokens
        /\ \A i \in 1..(2 * Tokens) : w[i] = IF i % 2 = 1 THEN 257 ELSE 0
    <3>1. Header(1) = 257 /\ 257 \in Word /\ 0 \in Word
      BY DEF Header, Word
    <3>2. DOMAIN w = 1..(2 * Tokens)
          /\ \A i \in 1..(2 * Tokens) : w[i] \in Word /\ w[i] = IF i % 2 = 1 THEN 257 ELSE 0
      BY <3>1
    <3> QED BY <2>2, <3>1, <3>2
  <2> HIDE DEF w
  <2>4. incoming' \o wire' = w
    BY <1>1, <2>1, <2>3, ConcatEmptySeq
  <2>5. PICK v \in Seq(Word) : v = w
    BY <2>3
  <2>6. Opening(v)'
    <3>1. \A i \in 1..Len(v) : ~(i > 2 * Tokens) /\ i \in 1..(2 * Tokens)
      BY <2>2, <2>3, <2>5
    <3>2. Len(v) <= 2 * Tokens + 1
      BY <2>2, <2>3, <2>5
    <3> QED BY <1>1, <2>3, <2>5, <3>1, <3>2 DEF Opening
  <2> QED
    BY <1>1, <1>9, <1>10, <1>11, <2>1, <2>3, <2>4, <2>5, <2>6 DEF Downlink
<1>13. CASE ~tls
  <2>1. wire' = <<>> /\ ~Greeting'
    BY <1>1, <1>5, <1>13 DEF Connect, Greeting
  <2>2. At(wire', Stream(script'), Place') /\ said' = Place' + Len(wire')
    BY <1>1, <1>3, <1>4, <1>8, <2>1
  <2>3. Coming'
    BY <1>1, <1>13, <2>2 DEF Coming
  <2> QED BY <1>1, <1>9, <1>10, <1>11, <2>1, <2>3 DEF Downlink
<1> QED BY <1>1, <1>12, <1>13

LEMMA DownlinkGreets ==
  ASSUME Downlink, Control, Understood, HandshakeRecv
  PROVE  Downlink' /\ ReadStep
<1>1. /\ pc = "handshakeRecv" /\ pc' = "handshake"
      /\ UNCHANGED <<script, said, cut, tls, tokens, plain, phase, rx, handed>>
  BY DEF HandshakeRecv, brokerVars, tlsVars
<1>2. incoming \in Seq(Word) /\ wire \in Seq(Word) /\ rx \in Seq(Octet) /\ plain \in Seq(Octet)
      /\ said \in Nat
  BY DEF Downlink
<1>3. /\ incoming' \in Seq(Word) /\ wire' \in Seq(Word)
      /\ incoming' \o wire' = incoming \o wire
  <2>1. CASE UNCHANGED <<wire, incoming>>
    BY <1>2, <2>1
  <2>2. CASE \E n \in 1..Len(wire) :
               incoming' = incoming \o SubSeq(wire, 1, n) /\ wire' = From(wire, n + 1)
    <3>1. PICK n \in 1..Len(wire) :
             incoming' = incoming \o SubSeq(wire, 1, n) /\ wire' = From(wire, n + 1)
      BY <2>2
    <3>2. PICK c \in Seq(Word), d \in Seq(Word) : c = incoming /\ d = wire
      BY <1>2
    <3>3. n \in 0..Len(d)
      BY <3>2
    <3>4. /\ c \o SubSeq(d, 1, n) \in Seq(Word) /\ From(d, n + 1) \in Seq(Word)
          /\ (c \o SubSeq(d, 1, n)) \o From(d, n + 1) = c \o d
      BY <3>2, <3>3, WordsRegroup
    <3> QED BY <3>1, <3>2, <3>4
  <2> QED BY <2>1, <2>2 DEF HandshakeRecv
<1>4. UNCHANGED <<Buffered, Reached>> /\ Greeting /\ Greeting' /\ pc # "closed"
  <2>1. Greeting /\ Greeting' /\ pc # "closed"
    BY <1>1 DEF Greeting
  <2>2. phase = "connack"
    BY <2>1 DEF Control
  <2> QED BY <1>1, <2>1, <2>2 DEF Buffered, Reached
<1>5. Taken' /\ Held' /\ ReadStep
  BY <1>1, <1>4 DEF Downlink, Taken, Held, ReadStep
<1>6. PICK b : b = incoming \o wire
  OBVIOUS
<1>7. Opening(b)'
  <2>1. Opening(b)
    BY <1>1, <1>4, <1>6 DEF Downlink
  <2> QED BY <1>1, <2>1 DEF Opening
<1> QED BY <1>1, <1>2, <1>3, <1>4, <1>5, <1>6, <1>7 DEF Downlink

LEMMA DownlinkHandshake ==
  ASSUME Downlink, Control, Understood, Handshake
  PROVE  Downlink' /\ ReadStep
<1>1. /\ pc = "handshake"
      /\ UNCHANGED <<script, said, wire, cut, tls, plain, phase, rx, handed>>
  BY DEF Handshake, brokerVars, netVars
<1>2. /\ incoming \in Seq(Word) /\ wire \in Seq(Word) /\ rx \in Seq(Octet)
      /\ plain \in Seq(Octet) /\ said \in Nat
  BY DEF Downlink
<1>3. /\ Greeting /\ phase = "connack" /\ plain = <<>> /\ handed = <<>> /\ tls
      /\ tokens \in Nat /\ tokens > 0 /\ pc # "closed"
  <2>1. Greeting /\ pc # "closed"
    BY <1>1 DEF Greeting
  <2>2. tls \in BOOLEAN /\ (~tls => ~Greeting)
    BY DEF Control
  <2> QED BY <2>1, <2>2 DEF Control
<1> DEFINE b == incoming \o wire
<1>4. /\ b \in Seq(Word) /\ Len(b) = Len(incoming) + Len(wire)
      /\ Len(incoming) \in Nat /\ Len(wire) \in Nat /\ Len(b) \in Nat
      /\ \A i \in 1..Len(incoming) : b[i] = incoming[i]
  <2>1. /\ b \in Seq(Word) /\ Len(b) = Len(incoming) + Len(wire)
        /\ \A i \in 1..(Len(incoming) + Len(wire)) :
              b[i] = IF i <= Len(incoming) THEN incoming[i] ELSE wire[i - Len(incoming)]
    BY <1>2, ConcatProperties
  <2>2. Len(incoming) \in Nat /\ Len(wire) \in Nat
    BY <1>2
  <2> HIDE DEF b
  <2>3. \A i \in 1..Len(incoming) : i \in 1..(Len(incoming) + Len(wire)) /\ i <= Len(incoming)
    BY <2>2
  <2> QED BY <2>1, <2>2, <2>3
<1>5. Opening(b)
  BY <1>3 DEF Downlink
<1> HIDE DEF b
<1>6. /\ said = 0 /\ Len(b) <= 2 * tokens + 1 /\ (~cut => Len(b) = 2 * tokens)
      /\ \A i \in 1..Len(b) : b[i] = IF i > 2 * tokens THEN 256 ELSE IF i % 2 = 1 THEN 257 ELSE 0
  BY <1>5 DEF Opening
<1>7. Clear(script)
  BY <1>3, DownlinkFacts
<1>8. ReadStep /\ Taken'
  BY <1>1, <1>3 DEF Downlink, Taken, ReadStep, Greeting
<1>9. CASE ~Whole(incoming)
  <2>1. pc' = "handshakeRecv" /\ tokens' = tokens /\ incoming' = incoming
    BY <1>9 DEF Handshake
  <2>2. UNCHANGED <<Buffered, Reached>> /\ Greeting'
    BY <1>1, <1>3, <2>1 DEF Buffered, Reached, Greeting
  <2>3. Held'
    <3>1. Held
      BY <1>3 DEF Downlink
    <3> QED BY <1>1, <2>2, <3>1 DEF Held
  <2>4. PICK w : w = b
    OBVIOUS
  <2>5. Opening(w)'
    BY <1>1, <1>5, <2>1, <2>4 DEF Opening
  <2>6. incoming' \o wire' = w
    BY <1>1, <2>1, <2>4 DEF b
  <2> QED BY <1>1, <1>2, <1>8, <2>1, <2>2, <2>3, <2>5, <2>6 DEF Downlink
<1>10. CASE Whole(incoming)
  <2>1. Len(incoming) >= 2 /\ incoming[1] = 257
    <3>1. incoming # <<>> /\ Len(incoming) >= 1 + incoming[1] - 256
      BY <1>10 DEF Whole
    <3>2. Len(incoming) >= 1
      BY <1>2, <3>1, EmptySeq
    <3>3. incoming[1] = b[1] /\ 1 \in 1..Len(b) /\ ~(1 > 2 * tokens) /\ 1 % 2 = 1
      BY <1>3, <1>4, <3>2
    <3>4. b[1] = 257
      BY <1>6, <3>3
    <3> QED BY <3>1, <3>3, <3>4
  <2> DEFINE d == From(b, 2 + 1)
  <2>2. incoming' = From(incoming, 2 + 1) /\ tokens' = tokens - 1
    <3>1. incoming' = Behind(incoming) /\ tokens' = tokens - 1
      BY <1>10 DEF Handshake, Remaining
    <3>2. 2 + incoming[1] - 256 = 2 + 1
      BY <2>1
    <3> QED BY <3>1, <3>2 DEF Behind
  <2>3. incoming' \in Seq(Word) /\ incoming' \o wire' = d
    <3>1. 2 \in 0..Len(incoming)
      BY <1>4, <2>1
    <3>2. From(incoming, 2 + 1) \in Seq(Word)
      BY <1>2, <3>1, Split
    <3>3. From(incoming, 2 + 1) \o wire = From(b, 2 + 1)
      BY <1>2, <3>1, FromConcat DEF b
    <3> QED BY <1>1, <2>2, <3>2, <3>3
  <2>4. /\ d \in Seq(Word) /\ Len(d) = Len(b) - 2
        /\ \A i \in 1..(Len(b) - 2) : d[i] = b[2 + i]
    <3>1. 2 \in 0..Len(b)
      BY <1>4, <2>1
    <3> QED BY <1>4, <3>1, Split, ZenonT(30)
  <2> HIDE DEF d
  <2>5. PICK w \in Seq(Word) : w = d
    BY <2>4
  <2>6. /\ Len(w) \in Nat /\ Len(w) <= 2 * (tokens - 1) + 1
        /\ ~cut => Len(w) = 2 * (tokens - 1)
        /\ \A i \in 1..Len(w) :
              w[i] = IF i > 2 * (tokens - 1) THEN 256 ELSE IF i % 2 = 1 THEN 257 ELSE 0
    <3>1. Len(w) = Len(b) - 2 /\ Len(w) \in Nat
      BY <2>4, <2>5, LenProperties
    <3>2. ASSUME NEW i \in 1..Len(w)
          PROVE  w[i] = IF i > 2 * (tokens - 1) THEN 256 ELSE IF i % 2 = 1 THEN 257 ELSE 0
      <4>1. i \in Nat /\ 2 + i \in 1..Len(b) /\ i \in 1..(Len(b) - 2)
        BY <1>4, <3>1
      <4>2. (2 + i > 2 * tokens <=> i > 2 * (tokens - 1)) /\ (2 + i) % 2 = i % 2
        BY <1>3, <4>1
      <4>3. b[2 + i] = IF 2 + i > 2 * tokens THEN 256 ELSE IF (2 + i) % 2 = 1 THEN 257 ELSE 0
        BY <1>6, <4>1
      <4> QED BY <2>4, <2>5, <4>1, <4>2, <4>3
    <3> QED BY <1>3, <1>4, <1>6, <3>1, <3>2
  <2>7. CASE tokens > 1
    <3>1. pc' = "handshakeRecv"
      BY <1>10, <2>7 DEF Handshake
    <3>2. UNCHANGED <<Buffered, Reached>> /\ Greeting'
      BY <1>1, <1>3, <3>1 DEF Buffered, Reached, Greeting
    <3>3. Held'
      <4>1. Held
        BY <1>3 DEF Downlink
      <4> QED BY <1>1, <3>2, <4>1 DEF Held
    <3>4. Opening(w)'
      BY <1>1, <1>6, <2>2, <2>6 DEF Opening
    <3> QED BY <1>1, <1>2, <1>8, <2>3, <2>5, <3>1, <3>2, <3>3, <3>4 DEF Downlink
  <2>8. CASE ~(tokens > 1)
    <3>1. pc' = "send"
      BY <1>10, <2>8 DEF Handshake, StartSend
    <3>2. UNCHANGED <<Buffered, Reached>> /\ ~Greeting' /\ Buffered = <<>>
      BY <1>1, <1>3, <3>1 DEF Buffered, Reached, Greeting
    <3>3. Held'
      <4>1. Held
        BY <1>3 DEF Downlink
      <4> QED BY <1>1, <3>2, <4>1 DEF Held
    <3>4. PICK s : s = script
      OBVIOUS
    <3>5. /\ Ends(s)[Len(<<>>)] = 0 /\ At(<<>>, Stream(s), 0) /\ Len(<<>>) = 0
          /\ Len(Stream(s)) \in Nat /\ Stream(s) \in Seq(Octet) /\ <<>> \in Seq(Octet)
      BY <1>7, <3>4, Untouched, StreamOf, EmptySeq
    <3>6. Place' = 0
      <4>1. Reached = 0
        BY <1>3, <3>4, <3>5 DEF Reached
      <4> QED BY <1>1, <1>3, <3>2, <3>5, <4>1 DEF Place
    <3>7. tokens = 1
      BY <1>3, <2>8
    <3>8. Len(w) <= 1 /\ (~cut => Len(w) = 0) /\ \A i \in 1..Len(w) : w[i] = 256
      BY <2>6, <3>7
    <3>9. Carries(w, Stream(s), 0, 0)
      <4>1. CASE Len(w) = 0
        <5>1. w = <<>>
          BY <4>1, EmptySeq
        <5> QED BY <5>1, CarriesNothing
      <4>2. CASE Len(w) = 1
        <5>1. PICK u \in Seq(Octet), c \in Seq(Word), t \in Seq(Octet), x \in Nat :
                 u = <<>> /\ c = <<>> /\ t = Stream(s) /\ x = 0
          BY <3>5, EmptySeq
        <5>2. Carries(c, t, x, x) /\ At(u, t, x)
          BY <3>5, <5>1, CarriesNothing
        <5>3. c \o Record(u) \in Seq(Word) /\ Carries(c \o Record(u), t, x, x + Len(u))
          BY <5>2, CarriesMore
        <5>4. c \o Record(u) = Record(u) /\ Record(u) \in Seq(Word) /\ Len(Record(u)) = 1
              /\ Record(u)[1] = 256
          <6>1. Record(u) \in Seq(Word) /\ Len(Record(u)) = 1 + Len(u) /\ Record(u)[1] = 256 + Len(u)
            BY RecordOf
          <6>2. Len(u) = 0
            BY <3>5, <5>1
          <6> QED BY <5>1, <6>1, <6>2, ConcatEmptySeq
        <5>5. w = Record(u)
          <6>1. w[1] = 256
            BY <3>8, <4>2
          <6>2. \A i \in 1..Len(w) : w[i] = Record(u)[i]
            BY <4>2, <5>4, <6>1
          <6> QED BY <4>2, <5>4, <6>2, SeqEqual
        <5>6. x + Len(u) = 0
          BY <3>5, <5>1
        <5> QED BY <5>1, <5>3, <5>4, <5>5, <5>6
      <4>3. Len(w) \in Nat /\ Len(w) <= 1
        BY <2>6, <3>8
      <4>4. Len(w) = 0 \/ Len(w) = 1
        BY <4>3
      <4> QED BY <4>1, <4>2, <4>4
    <3>10. Records(w, w, Stream(script'), Place', said')
      <4>1. Begins(w, w)
        BY <2>6 DEF Begins
      <4> QED BY <1>1, <1>6, <3>4, <3>5, <3>6, <3>9, <4>1 DEF Records
    <3>11. Coming'
      BY <1>1, <1>3, <2>3, <2>5, <3>10 DEF Coming
    <3> QED BY <1>1, <1>2, <1>8, <2>3, <3>1, <3>2, <3>3, <3>11 DEF Downlink
  <2> QED BY <2>7, <2>8
<1> QED BY <1>9, <1>10

\* What is a part of a sequence of octets is one itself.
LEMMA PartOfOctets ==
  ASSUME NEW b \in Seq(Word), NEW s \in Seq(Octet), NEW x \in Nat, At(b, s, x)
  PROVE  b \in Seq(Octet)
<1>1. Len(b) \in Nat /\ Len(s) \in Nat /\ DOMAIN b = 1..Len(b)
  BY LenProperties
<1>2. \A i \in 1..Len(s) : s[i] \in Octet
  BY Elements
<1>3. ASSUME NEW i \in 1..Len(b) PROVE b[i] \in Octet
  <2>1. x + i \in 1..Len(s) /\ b[i] = s[x + i]
    BY <1>1 DEF At
  <2> QED BY <1>2, <2>1
<1>4. b \in [1..Len(b) -> Octet]
  BY <1>1, <1>3
<1> QED BY <1>1, <1>4

\* What one buffer passes to the next stays in its place.
LEMMA Passes ==
  ASSUME NEW S, NEW a \in Seq(S), NEW b \in Seq(S), NEW s \in Seq(S), NEW x \in Nat,
         At(a, s, x), At(b, s, x + Len(a)), NEW n \in 0..Len(b)
  PROVE  /\ a \o SubSeq(b, 1, n) \in Seq(S) /\ From(b, n + 1) \in Seq(S)
         /\ At(a \o SubSeq(b, 1, n), s, x)
         /\ At(From(b, n + 1), s, x + Len(a \o SubSeq(b, 1, n)))
         /\ Len(a \o SubSeq(b, 1, n)) = Len(a) + n /\ Len(From(b, n + 1)) = Len(b) - n
<1> DEFINE u == SubSeq(b, 1, n)
           v == From(b, n + 1)
<1>1. Len(a) \in Nat /\ Len(b) \in Nat /\ n \in Nat /\ Len(s) \in Nat
  BY LenProperties
<1>2. u \in Seq(S) /\ Len(u) = n /\ v \in Seq(S) /\ Len(v) = Len(b) - n
  BY Split
<1>3. At(u, s, x + Len(a)) /\ At(v, s, (x + Len(a)) + n)
  <2>1. PICK y \in Nat : y = x + Len(a)
    BY <1>1
  <2>2. At(u, s, y) /\ At(v, s, y + n)
    BY <1>1, <2>1, AtCut
  <2> QED BY <2>1, <2>2
<1> HIDE DEF u, v
<1>4. u \in Seq(S)
  BY <1>2
<1>5. a \o u \in Seq(S) /\ Len(a \o u) = Len(a) + Len(u) /\ At(a \o u, s, x)
  BY <1>1, <1>3, <1>4, AtJoin
<1>6. x + Len(a \o u) = (x + Len(a)) + n
  BY <1>1, <1>2, <1>5
<1> QED BY <1>2, <1>3, <1>5, <1>6 DEF u, v

LEMMA DownlinkReceives ==
  ASSUME Downlink, Control, Understood, Receive
  PROVE  Downlink' /\ ReadStep
<1>1. /\ pc = "receive" /\ pc' = "decode" /\ ~tls
      /\ UNCHANGED <<script, said, cut, tls, incoming, plain, handed>>
  BY DEF Receive, brokerVars, readVars
<1>2. PICK n \in 1..Min({MaxRecv, Len(wire)}) :
         rx' = rx \o SubSeq(wire, 1, n) /\ wire' = From(wire, n + 1)
  BY DEF Receive
<1>3. /\ pc # "closed" /\ ~Greeting /\ ~Greeting' /\ Buffered = rx /\ Buffered' = rx'
      /\ plain = <<>>
  BY <1>1 DEF Greeting, Buffered, Control
<1>4. /\ Stream(script) \in Seq(Octet) /\ Reached \in Nat /\ Place = Reached + Len(rx)
      /\ Len(rx) \in Nat
  <2>1. /\ Stream(script) \in Seq(Octet) /\ Reached \in Nat
        /\ Buffered \in Seq(Octet) /\ Len(Buffered) \in Nat
    BY <1>3, DownlinkFacts
  <2> QED BY <1>3, <2>1 DEF Place
<1>5. /\ incoming \in Seq(Word) /\ wire \in Seq(Word) /\ rx \in Seq(Octet)
      /\ plain \in Seq(Octet) /\ said \in Nat /\ Taken /\ Held /\ Coming
  BY <1>3 DEF Downlink
<1>6. At(rx, Stream(script), Reached) /\ At(wire, Stream(script), Reached + Len(rx))
      /\ (~cut => said = (Reached + Len(rx)) + Len(wire))
  BY <1>1, <1>3, <1>4, <1>5 DEF Held, Coming
<1>7. PICK st \in Seq(Octet), x \in Nat, a \in Seq(Octet), w \in Seq(Word) :
         st = Stream(script) /\ x = Reached /\ a = rx /\ w = wire
  BY <1>4, <1>5
<1>8. w \in Seq(Octet) /\ Len(a) \in Nat /\ Len(w) \in Nat /\ n \in 0..Len(w)
  <2>1. Len(a) \in Nat /\ Len(w) \in Nat /\ x + Len(a) \in Nat
    BY LenProperties
  <2>2. w \in Seq(Octet)
    BY <1>6, <1>7, <2>1, PartOfOctets
  <2>3. MaxRecv \in Nat
    BY ConstantFacts
  <2>4. Min({MaxRecv, Len(w)}) = IF MaxRecv <= Len(w) THEN MaxRecv ELSE Len(w)
    <3> DEFINE k == Len(w)
    <3>1. MaxRecv \in Int /\ k \in Int
      BY <2>1, <2>3
    <3> HIDE DEF k
    <3>2. Min({MaxRecv, k}) = IF MaxRecv <= k THEN MaxRecv ELSE k
      BY <3>1, LimitOf
    <3> QED BY <3>2 DEF k
  <2>5. n \in 1..Min({MaxRecv, Len(w)})
    BY <1>7
  <2> QED BY <2>1, <2>2, <2>3, <2>4, <2>5
<1>9. /\ a \o SubSeq(w, 1, n) \in Seq(Octet) /\ From(w, n + 1) \in Seq(Octet)
      /\ At(a \o SubSeq(w, 1, n), st, x)
      /\ At(From(w, n + 1), st, x + Len(a \o SubSeq(w, 1, n)))
      /\ Len(a \o SubSeq(w, 1, n)) = Len(a) + n /\ Len(From(w, n + 1)) = Len(w) - n
  BY <1>6, <1>7, <1>8, Passes
<1>10. /\ rx' \in Seq(Octet) /\ wire' \in Seq(Octet) /\ wire' \in Seq(Word)
       /\ At(rx', st, x) /\ At(wire', st, x + Len(rx'))
       /\ Len(rx') = Len(a) + n /\ Len(wire') = Len(w) - n
  <2>1. rx' = a \o SubSeq(w, 1, n) /\ wire' = From(w, n + 1)
    BY <1>2, <1>7
  <2>2. From(w, n + 1) \in Seq(Octet)
    BY <1>9
  <2> QED BY <1>9, <2>1, <2>2, Words
<1>11. UNCHANGED Reached /\ Place' = x + Len(rx')
  <2>1. UNCHANGED Reached
    BY <1>1 DEF Reached
  <2>2. Len(plain') = 0 /\ Len(rx') \in Nat
    BY <1>1, <1>3, <1>8, <1>10
  <2> QED BY <1>3, <1>7, <2>1, <2>2 DEF Place
<1>12. Taken' /\ ReadStep
  BY <1>1, <1>5 DEF Taken, ReadStep
<1>13. Held'
  <2>1. Len(st) \in Nat /\ Reached' + Len(rx') \in Nat /\ Reached' + Len(rx') <= Len(st)
    BY <1>7, <1>8, <1>10, <1>11, LenProperties DEF At
  <2>2. At(<<>>, st, Reached' + Len(rx'))
    BY <2>1, AtEmpty
  <2> QED BY <1>1, <1>3, <1>7, <1>10, <1>11, <2>2 DEF Held
<1>14. Coming'
  <2>1. ~cut => said = Place' + Len(wire')
    <3>1. Place' + Len(wire') = (x + Len(a)) + Len(w)
      BY <1>8, <1>10, <1>11
    <3> QED BY <1>6, <1>7, <3>1
  <2> QED BY <1>1, <1>7, <1>10, <1>11, <2>1 DEF Coming
<1> QED BY <1>1, <1>3, <1>5, <1>10, <1>12, <1>13, <1>14 DEF Downlink

LEMMA DownlinkTakesPlain ==
  ASSUME Downlink, Control, Understood, TakePlain
  PROVE  Downlink' /\ ReadStep
<1> DEFINE m == Min({MaxRecv, Len(plain)})
<1>1. /\ pc = "receive" /\ pc' = "decode"
      /\ rx' = rx \o SubSeq(plain, 1, m) /\ plain' = From(plain, m + 1)
      /\ UNCHANGED <<script, said, cut, tls, incoming, wire, handed>>
  BY DEF TakePlain, brokerVars, netVars
<1>2. /\ pc # "closed" /\ ~Greeting /\ ~Greeting' /\ Buffered = rx /\ Buffered' = rx'
  BY <1>1 DEF Greeting, Buffered
<1>3. /\ Stream(script) \in Seq(Octet) /\ Reached \in Nat /\ Len(plain) \in Nat
      /\ Len(Buffered) \in Nat
  BY <1>2, DownlinkFacts
<1>4. /\ incoming \in Seq(Word) /\ wire \in Seq(Word) /\ rx \in Seq(Octet)
      /\ plain \in Seq(Octet) /\ said \in Nat /\ Taken /\ Held /\ Coming
  BY <1>2 DEF Downlink
<1>5. PICK st \in Seq(Octet), x \in Nat, a \in Seq(Octet), b \in Seq(Octet) :
         st = Stream(script) /\ x = Reached /\ a = rx /\ b = plain
  BY <1>3, <1>4
<1>6. At(a, st, x) /\ At(b, st, x + Len(a))
  BY <1>2, <1>4, <1>5 DEF Held
<1>7. m \in 0..Len(b) /\ Len(a) \in Nat /\ Len(b) \in Nat
  <2>1. Len(a) \in Nat /\ Len(b) \in Nat
    BY LenProperties
  <2>2. MaxRecv \in Nat
    BY ConstantFacts
  <2>3. Min({MaxRecv, Len(b)}) = IF MaxRecv <= Len(b) THEN MaxRecv ELSE Len(b)
    <3> DEFINE k == Len(b)
    <3>1. MaxRecv \in Int /\ k \in Int
      BY <2>1, <2>2
    <3> HIDE DEF k
    <3>2. Min({MaxRecv, k}) = IF MaxRecv <= k THEN MaxRecv ELSE k
      BY <3>1, LimitOf
    <3> QED BY <3>2 DEF k
  <2>4. m = Min({MaxRecv, Len(b)})
    BY <1>5
  <2> HIDE DEF m
  <2> QED BY <2>1, <2>2, <2>3, <2>4
<1> HIDE DEF m
<1>8. /\ a \o SubSeq(b, 1, m) \in Seq(Octet) /\ From(b, m + 1) \in Seq(Octet)
      /\ At(a \o SubSeq(b, 1, m), st, x)
      /\ At(From(b, m + 1), st, x + Len(a \o SubSeq(b, 1, m)))
      /\ Len(a \o SubSeq(b, 1, m)) = Len(a) + m /\ Len(From(b, m + 1)) = Len(b) - m
  BY <1>6, <1>7, Passes
<1>9. rx' = a \o SubSeq(b, 1, m) /\ plain' = From(b, m + 1)
  BY <1>1, <1>5
<1>10. UNCHANGED <<Reached, Place>>
  <2>1. UNCHANGED Reached
    BY <1>1 DEF Reached
  <2>2. Len(rx') + Len(plain') = Len(a) + Len(b) /\ Len(rx') \in Nat /\ Len(plain') \in Nat
    <3>1. Len(rx') = Len(a) + m /\ Len(plain') = Len(b) - m
      BY <1>8, <1>9
    <3> QED BY <1>7, <3>1
  <2>3. (x + Len(rx')) + Len(plain') = (x + Len(a)) + Len(b)
    BY <1>7, <2>2
  <2> QED BY <1>2, <1>5, <2>1, <2>3 DEF Place
<1>11. Taken' /\ ReadStep
  BY <1>1, <1>4 DEF Taken, ReadStep
<1>12. Held'
  BY <1>1, <1>2, <1>5, <1>8, <1>9, <1>10 DEF Held
<1>13. Coming'
  BY <1>1, <1>4, <1>10 DEF Coming
<1>14. rx' \in Seq(Octet) /\ plain' \in Seq(Octet)
  BY <1>8, <1>9
<1> QED BY <1>1, <1>2, <1>4, <1>11, <1>12, <1>13, <1>14 DEF Downlink

\* A buffer and what it is the beginning of lose the same.
LEMMA BeginsBehind ==
  ASSUME NEW S, NEW b \in Seq(S), NEW c \in Seq(S), Begins(b, c), NEW k \in 0..Len(b)
  PROVE  /\ From(b, k + 1) \in Seq(S) /\ From(c, k + 1) \in Seq(S)
         /\ Begins(From(b, k + 1), From(c, k + 1))
<1> DEFINE u == From(b, k + 1)
           v == From(c, k + 1)
<1>1. Len(b) \in Nat /\ Len(c) \in Nat /\ Len(b) <= Len(c) /\ k \in Nat /\ k <= Len(b)
  BY LenProperties DEF Begins
<1>2. /\ u \in Seq(S) /\ Len(u) = Len(b) - k
      /\ \A i \in 1..(Len(b) - k) : u[i] = b[k + i]
  BY Split
<1>3. /\ v \in Seq(S) /\ Len(v) = Len(c) - k
      /\ \A i \in 1..(Len(c) - k) : v[i] = c[k + i]
  <2>1. k \in 0..Len(c)
    BY <1>1
  <2> QED BY <2>1, Split
<1> HIDE DEF u, v
<1>4. \A i \in 1..Len(u) : u[i] = v[i]
  <2> TAKE i \in 1..Len(u)
  <2>1. i \in 1..(Len(b) - k) /\ i \in 1..(Len(c) - k) /\ k + i \in 1..Len(b)
    BY <1>1, <1>2
  <2>2. b[k + i] = c[k + i]
    BY <2>1 DEF Begins
  <2> QED BY <1>2, <1>3, <2>1, <2>2
<1>5. Len(u) <= Len(v)
  BY <1>1, <1>2, <1>3
<1>6. Begins(u, v)
  BY <1>4, <1>5 DEF Begins
<1> QED BY <1>2, <1>3, <1>6 DEF u, v

\* The first record of a buffer that holds all of it, when the buffer is where
\* the records c begin.
LEMMA Opened ==
  ASSUME NEW a \in Seq(Word), NEW w \in Seq(Word), NEW c \in Seq(Word), NEW s \in Seq(Octet),
         NEW x \in Nat, NEW y \in Nat, Begins(a \o w, c), Carries(c, s, x, y), Whole(a)
  PROVE  LET n == Size(c, 1)
             d == From(c, (1 + n) + 1)
         IN  /\ n \in Nat /\ Payload(a) \in Seq(Octet) /\ Len(Payload(a)) = n
             /\ At(Payload(a), s, x)
             /\ Behind(a) \in Seq(Word) /\ Behind(a) \o w = From(a \o w, (1 + n) + 1)
             /\ d \in Seq(Word) /\ Begins(Behind(a) \o w, d) /\ Carries(d, s, x + n, y)
<1> DEFINE b == a \o w
           n == Size(c, 1)
           k == 1 + n
<1>1. /\ b \in Seq(Word) /\ Len(b) = Len(a) + Len(w) /\ Len(a) \in Nat /\ Len(w) \in Nat
      /\ \A i \in 1..Len(a) : b[i] = a[i]
  <2>1. Len(a) \in Nat /\ Len(w) \in Nat
    BY LenProperties
  <2>2. /\ b \in Seq(Word) /\ Len(b) = Len(a) + Len(w)
        /\ \A i \in 1..(Len(a) + Len(w)) : b[i] = IF i <= Len(a) THEN a[i] ELSE w[i - Len(a)]
    BY ConcatProperties
  <2> HIDE DEF b
  <2>3. \A i \in 1..Len(a) : i \in 1..(Len(a) + Len(w)) /\ i <= Len(a)
    BY <2>1
  <2> QED BY <2>1, <2>2, <2>3
<1>2. Begins(b, c)
  OBVIOUS
<1>3. a # <<>> /\ Len(a) >= 1 + a[1] - 256
  BY DEF Whole
<1> HIDE DEF b
<1>4. Len(a) >= 1
  BY <1>1, <1>3, EmptySeq
<1>5. Begins(a, c) /\ a[1] = c[1] /\ Len(c) \in Nat /\ Len(c) # 0
  <2>1. Len(c) \in Nat /\ Len(a) <= Len(c)
    BY <1>1, <1>2, LenProperties DEF Begins
  <2>2. \A i \in 1..Len(a) : i \in 1..Len(b) /\ a[i] = c[i]
    BY <1>1, <1>2 DEF Begins
  <2> QED BY <1>4, <2>1, <2>2 DEF Begins
<1>6. /\ n \in Nat /\ k <= Len(c)
      /\ SubSeq(c, 2, k) \in Seq(Octet) /\ Len(SubSeq(c, 2, k)) = n
      /\ At(SubSeq(c, 2, k), s, x)
      /\ Carries(From(c, k + 1), s, x + n, y)
  BY <1>5, CarriesLess
<1>7. c[1] \in Nat
  BY <1>5, Elements DEF Word
<1>8. 1 + a[1] - 256 = k /\ 2 + a[1] - 256 = k + 1
  BY <1>5, <1>7 DEF Size
<1>9. k \in 0..Len(a) /\ k \in 0..Len(b)
  <2>1. Len(a) \in Nat /\ Len(w) \in Nat /\ Len(b) = Len(a) + Len(w)
    BY <1>1
  <2>2. k \in Nat /\ k <= Len(a)
    BY <1>3, <1>6, <1>8
  <2> HIDE DEF k
  <2> QED BY <2>1, <2>2
<1>10. Payload(a) = SubSeq(c, 2, k)
  <2>1. k \in Int /\ k <= Len(a) /\ 2 \in Nat \ {0}
    BY <1>1, <1>9
  <2> HIDE DEF k
  <2>2. SubSeq(a, 2, k) = SubSeq(c, 2, k)
    BY <1>5, <2>1, SamePiece
  <2> QED BY <1>8, <2>2 DEF Payload
<1>11. Behind(a) = From(a, k + 1)
  BY <1>8 DEF Behind
<1>12. From(a, k + 1) \in Seq(Word) /\ From(a, k + 1) \o w = From(b, k + 1)
  <2>1. k \in 0..Len(a)
    BY <1>9
  <2> HIDE DEF k
  <2>2. From(a, k + 1) \in Seq(Word)
    BY <2>1, Split
  <2>3. From(a, k + 1) \o w = From(a \o w, k + 1)
    BY <2>1, FromConcat
  <2> QED BY <2>2, <2>3 DEF b
<1>13. From(c, k + 1) \in Seq(Word) /\ Begins(From(b, k + 1), From(c, k + 1))
  BY <1>1, <1>2, <1>9, BeginsBehind
<1> QED BY <1>6, <1>10, <1>11, <1>12, <1>13 DEF b

LEMMA DownlinkDecrypts ==
  ASSUME Downlink, Control, Understood, Decrypt
  PROVE  Downlink' /\ ReadStep
<1>1. /\ pc = "receive" /\ tls /\ plain = <<>> /\ Whole(incoming)
      /\ plain' = Payload(incoming) /\ incoming' = Behind(incoming)
      /\ UNCHANGED <<script, said, cut, tls, wire, pc, phase, rx, handed>>
  BY DEF Decrypt, brokerVars, netVars, relayVars
<1>2. pc # "closed" /\ ~Greeting /\ ~Greeting' /\ UNCHANGED <<Buffered, Reached>>
  BY <1>1 DEF Greeting, Buffered, Reached
<1>3. /\ Stream(script) \in Seq(Octet) /\ Reached \in Nat /\ Len(Buffered) \in Nat
      /\ Place \in Nat
  BY <1>2, DownlinkFacts
<1>4. /\ incoming \in Seq(Word) /\ wire \in Seq(Word) /\ rx \in Seq(Octet)
      /\ said \in Nat /\ Taken /\ Held /\ Coming
  BY <1>2 DEF Downlink
<1>5. Place = Reached + Len(Buffered)
  <2>1. Len(plain) = 0
    BY <1>1, EmptySeq
  <2> QED BY <1>3, <2>1 DEF Place
<1>6. PICK c, y : /\ Records(incoming \o wire, c, Stream(script), Place, y)
                  /\ ~cut => c = incoming \o wire /\ y = said
  BY <1>1, <1>4 DEF Coming
<1>7. PICK a \in Seq(Word), w \in Seq(Word), st \in Seq(Octet), x \in Nat :
         a = incoming /\ w = wire /\ st = Stream(script) /\ x = Place
  BY <1>3, <1>4
<1>8. /\ c \in Seq(Word) /\ Begins(a \o w, c) /\ y \in Nat /\ y <= Len(st)
      /\ Carries(c, st, x, y) /\ (~cut => c = a \o w /\ y = said)
  BY <1>6, <1>7 DEF Records
<1> DEFINE n == Size(c, 1)
           d == From(c, (1 + n) + 1)
<1>9. /\ n \in Nat /\ Payload(a) \in Seq(Octet) /\ Len(Payload(a)) = n
      /\ At(Payload(a), st, x)
      /\ Behind(a) \in Seq(Word) /\ Behind(a) \o w = From(a \o w, (1 + n) + 1)
      /\ d \in Seq(Word) /\ Begins(Behind(a) \o w, d) /\ Carries(d, st, x + n, y)
  BY <1>1, <1>7, <1>8, Opened, ZenonT(30)
<1> HIDE DEF n
<1>10. plain' = Payload(a) /\ incoming' = Behind(a) /\ wire' = w
  BY <1>1, <1>7
<1>11. Place' = x + n
  BY <1>2, <1>3, <1>5, <1>7, <1>9, <1>10 DEF Place
<1>12. Taken' /\ ReadStep
  BY <1>1, <1>4 DEF Taken, ReadStep
<1>13. Held'
  <2>1. At(Buffered', Stream(script'), Reached')
    BY <1>1, <1>2, <1>4 DEF Held
  <2>2. At(plain', Stream(script'), Reached' + Len(Buffered'))
    BY <1>1, <1>2, <1>5, <1>7, <1>9, <1>10
  <2> QED BY <2>1, <2>2 DEF Held
<1>14. Coming'
  <2>1. ~cut => d = Behind(a) \o w /\ y = said
    BY <1>8, <1>9
  <2>2. Records(Behind(a) \o w, d, st, x + n, y)
    BY <1>8, <1>9 DEF Records
  <2> HIDE DEF d
  <2>3. /\ Records(incoming' \o wire', d, Stream(script'), Place', y)
        /\ ~cut' => d = incoming' \o wire' /\ y = said'
    BY <1>1, <1>7, <1>10, <1>11, <2>1, <2>2
  <2> QED BY <1>1, <2>3 DEF Coming
<1>15. plain' \in Seq(Octet) /\ incoming' \in Seq(Word)
  BY <1>9, <1>10
<1> QED BY <1>1, <1>2, <1>4, <1>12, <1>13, <1>14, <1>15 DEF Downlink

\* The packet that Decode has found is the next on offer.
LEMMA DownlinkTakes ==
  ASSUME Downlink, Control, Understood, Packet
  PROVE  Downlink' /\ ReadStep
<1>1. pc = "decode" /\ UNCHANGED <<script, said, cut, tls>>
  BY DEF Packet, brokerVars
<1>2. pc # "closed" /\ ~Greeting /\ Buffered = rx
  BY <1>1 DEF Greeting, Buffered
<1>3. /\ Clear(script) /\ Stream(script) \in Seq(Octet) /\ Reached \in Nat
      /\ Len(plain) \in Nat /\ Len(handed) \in 0..Len(script) /\ Len(script) \in Nat
  BY <1>2, DownlinkFacts
<1>4. /\ incoming \in Seq(Word) /\ wire \in Seq(Word) /\ rx \in Seq(Octet)
      /\ plain \in Seq(Octet) /\ said \in Nat /\ Taken /\ Held /\ Coming
  BY <1>2 DEF Downlink
<1>5. PICK p \in Decode(rx).packets :
         /\ Decode(rx).result = "Ok" /\ rx' = From(rx, Decode(rx).consumed + 1)
         /\ handed' = Append(handed, p) /\ Follow(p)
  BY DEF Packet
<1>0. PICK b \in Seq(Octet), x \in Nat, n \in Nat : b = rx /\ x = Reached /\ n = Len(handed)
  <2>1. rx \in Seq(Octet) /\ Reached \in Nat
    BY <1>3, <1>4
  <2>2. Len(handed) \in Nat
    BY <1>3
  <2> QED BY <2>1, <2>2
<1>6. PICK s, used :
         /\ s = script /\ b = rx /\ n = Len(handed) /\ x = Reached
         /\ used = Decode(rx).consumed
  BY <1>0
<1>7. /\ Clear(s) /\ n \in 0..Len(s) /\ Len(s) \in Nat /\ At(b, Stream(s), x)
      /\ x = Ends(s)[n] /\ Decode(b).result = "Ok"
  BY <1>2, <1>3, <1>4, <1>5, <1>6 DEF Held, Reached
<1>8. /\ n + 1 \in 1..Len(s) /\ used \in 0..Len(b) /\ Ends(s)[n + 1] = x + used
      /\ s[n + 1].means = {p}
  <2>1. /\ n + 1 \in 1..Len(s)
        /\ \E m \in s[n + 1].means : s[n + 1].means = {m} /\ Decode(b).packets = {m}
        /\ Decode(b).consumed \in 0..Len(b)
        /\ Ends(s)[n + 1] = Ends(s)[n] + Decode(b).consumed
    <3>1. Clear(s) /\ n \in 0..Len(s)
      BY <1>7
    <3>2. At(b, Stream(s), Ends(s)[n]) /\ Decode(b).result = "Ok"
      BY <1>7
    <3> QED BY <3>1, <3>2, NextPacket
  <2>2. PICK m \in s[n + 1].means : s[n + 1].means = {m} /\ Decode(b).packets = {m}
    BY <2>1
  <2>3. p = m
    BY <1>5, <1>6, <2>2
  <2> QED BY <1>6, <1>7, <2>1, <2>2, <2>3
<1>9. \A j \in 1..(n + 1) : s[j].means # {}
  <2> TAKE j \in 1..(n + 1)
  <2>1. CASE j = n + 1
    BY <1>8, <2>1
  <2>2. CASE j # n + 1
    <3>1. j \in 1..n
      BY <1>7, <2>2
    <3> QED BY <1>4, <1>6, <3>1 DEF Taken
  <2> QED BY <2>1, <2>2
<1>10. Len(Offer(s)) \in Nat /\ n + 1 <= Len(Offer(s)) /\ Offer(s)[n + 1] = p
  <2>1. PICK k \in 1..Len(s) : k = n + 1
    BY <1>8
  <2>2. \A j \in 1..k : s[j].means # {}
    BY <1>9, <2>1
  <2>3. /\ Len(Offer(s)) \in Nat /\ k <= Len(Offer(s))
        /\ Offer(s)[k] = CHOOSE q \in s[k].means : TRUE
    BY <1>7, <2>2, Offered
  <2>4. s[k].means = {p}
    BY <1>8, <2>1
  <2> QED BY <2>1, <2>3, <2>4
<1>11. ReadStep
  <2>1. Len(handed) < Len(Offer(script)) /\ handed' = Append(handed, Offer(script)[Len(handed) + 1])
    BY <1>3, <1>5, <1>6, <1>10
  <2>2. UNCHANGED Offer(script)
    BY <1>1
  <2>3. In!Take
    BY <2>1, <2>2 DEF In!Take
  <2> QED BY <2>3 DEF ReadStep, In!PipeNext
<1>12. /\ rx' \in Seq(Octet) /\ Len(rx') = Len(b) - used /\ At(rx', Stream(s), x + used)
       /\ Len(b) \in Nat /\ used \in Nat
  <2>1. From(b, used + 1) \in Seq(Octet) /\ Len(From(b, used + 1)) = Len(b) - used
    BY <1>8, Split
  <2>2. Len(Stream(s)) \in Nat
    BY <1>3, <1>6, LenProperties
  <2>3. At(From(b, used + 1), Stream(s), x + used)
    BY <1>7, <1>8, <2>2, AtCut
  <2>4. rx' = From(b, used + 1)
    BY <1>5, <1>6
  <2>5. Len(b) \in Nat
    BY LenProperties
  <2> QED BY <1>8, <2>1, <2>3, <2>4, <2>5
<1>13. Taken'
  <2>1. p \in Meant(script)
    BY <1>3, <1>6, <1>8, StreamOf DEF Meant
  <2>2. handed \in Seq(Meant(script))
    BY <1>4 DEF Taken
  <2>3. handed' \in Seq(Meant(script)) /\ Len(handed') = n + 1
    <3> DEFINE S == Meant(script)
    <3> HIDE DEF S
    <3>1. p \in S /\ handed \in Seq(S)
      BY <2>1, <2>2 DEF S
    <3>2. Append(handed, p) \in Seq(S) /\ Len(Append(handed, p)) = Len(handed) + 1
      BY <3>1, AppendProperties
    <3> QED BY <1>5, <1>6, <3>2 DEF S
  <2>4. n + 1 <= Len(s)
    BY <1>7, <1>8
  <2> QED BY <1>1, <1>6, <1>9, <2>3, <2>4 DEF Taken
<1>14. CASE Close
  BY <1>1, <1>11, <1>12, <1>14, DownlinkCloses
<1>15. CASE ~Close
  <2>1. /\ pc' # "closed" /\ ~Greeting' /\ Buffered' = rx'
        /\ UNCHANGED <<wire, incoming, plain>>
    <3>1. UNCHANGED <<wire, incoming, plain>>
      BY <1>5, <1>15 DEF Follow, readVars
    <3>2. \/ phase' \in {"suback", "pump"} /\ pc' = "send"
          \/ pc' = "receive"
          \/ pc' = pc
      BY <1>5, <1>15 DEF Follow, StartSend
    <3> QED BY <1>1, <3>1, <3>2 DEF Buffered, Greeting
  <2>2. Reached' = x + used /\ Place' = Place
    <3>1. Len(handed') = n + 1
      BY <1>4, <1>5, <1>6, AppendProperties DEF Taken
    <3>2. Reached' = x + used
      BY <1>1, <1>6, <1>8, <3>1 DEF Reached
    <3>3. (x + used) + (Len(b) - used) = x + Len(b)
      BY <1>12
    <3> QED BY <1>2, <1>6, <1>12, <2>1, <3>2, <3>3 DEF Place
  <2>3. Held'
    <3>1. At(plain, Stream(script), Reached + Len(rx))
      BY <1>2, <1>4 DEF Held
    <3>2. (x + used) + Len(rx') = x + Len(b)
      BY <1>12
    <3>3. At(plain', Stream(script'), Reached' + Len(Buffered'))
      BY <1>1, <1>6, <2>1, <2>2, <3>1, <3>2
    <3>4. At(Buffered', Stream(script'), Reached')
      BY <1>1, <1>6, <1>12, <2>1, <2>2
    <3> QED BY <3>3, <3>4 DEF Held
  <2>4. Coming'
    BY <1>1, <1>4, <2>1, <2>2 DEF Coming
  <2> QED BY <1>1, <1>4, <1>11, <1>12, <1>13, <2>1, <2>3, <2>4 DEF Downlink
<1> QED BY <1>14, <1>15

\* A step that closes the connection.
LEMMA DownlinkEnds ==
  ASSUME Downlink, Close, UNCHANGED <<rx, said, script, handed>>
  PROVE  Downlink' /\ ReadStep
<1>1. rx' \in Seq(Octet)
  BY DEF Downlink
<1> QED BY <1>1, DownlinkCloses DEF ReadStep

\* Steps of the sending side, and those that wait.
LEMMA DownlinkWaits ==
  ASSUME Downlink, Control,
         NextRecord \/ Transmit \/ SendEnds \/ NothingComes \/ NeedMore \/ Pump
  PROVE  Downlink' /\ ReadStep
<1> USE DEF brokerVars, netVars, tlsVars, readVars, writeVars, relayVars
<1>1. rx \in Seq(Octet) /\ <<>> \in Seq(Octet)
  BY EmptySeq DEF Downlink
<1>2. UNCHANGED <<plain, script, handed, tls, said, cut, incoming, wire>>
  BY DEF NextRecord, Transmit, SendEnds, NothingComes, NeedMore, Pump
<1>3. pc # "closed" /\ ~Greeting
  BY DEF NextRecord, Transmit, SendEnds, NothingComes, NeedMore, Pump, Greeting
<1>4. CASE NextRecord \/ Transmit
  <2>1. UNCHANGED <<pc, phase, rx>>
    BY <1>4 DEF NextRecord, Transmit
  <2>2. Buffered' = Buffered /\ ~Greeting' /\ rx' \in Seq(Octet)
    BY <1>1, <1>3, <2>1 DEF Buffered, Greeting
  <2> QED BY <1>2, <1>3, <2>2, DownlinkUnmoved
<1>5. CASE SendEnds
  <2>1. /\ pc = "send" /\ pc' \in {"pump", "receive"} /\ phase' = phase
        /\ rx' = IF phase = "connack" THEN <<>> ELSE rx
    BY <1>5 DEF SendEnds
  <2>2. Buffered' = Buffered /\ ~Greeting' /\ rx' \in Seq(Octet)
    BY <1>1, <2>1 DEF Buffered, Greeting
  <2> QED BY <1>2, <1>3, <2>2, DownlinkUnmoved
<1>6. CASE NothingComes \/ NeedMore
  <2>1. /\ pc \in {"receive", "decode"} /\ pc' \in {"decode", "pump", "receive"}
        /\ UNCHANGED <<phase, rx>>
    BY <1>6 DEF NothingComes, NeedMore
  <2>2. Buffered' = Buffered /\ ~Greeting' /\ rx' \in Seq(Octet)
    BY <1>1, <2>1 DEF Buffered, Greeting
  <2> QED BY <1>2, <1>3, <2>2, DownlinkUnmoved
<1>7. CASE Pump
  <2>1. pc = "pump" /\ phase = "pump"
    BY <1>7 DEF Pump, Control
  <2>2. pc' \in {"receive", "send"} /\ phase' \in {"pump", "bye"} /\ rx' = rx
    BY <1>7, <2>1 DEF Pump, StartSend
  <2>3. Buffered' = Buffered /\ ~Greeting' /\ rx' \in Seq(Octet)
    BY <1>1, <2>1, <2>2 DEF Buffered, Greeting
  <2> QED BY <1>2, <1>3, <2>3, DownlinkUnmoved
<1> QED BY <1>4, <1>5, <1>6, <1>7

LEMMA DownlinkReads ==
  ASSUME Downlink, ReadMore
  PROVE  Downlink' /\ ReadStep
<1>1. /\ pc = "receive" /\ tls
      /\ UNCHANGED <<plain, script, handed, tls, said, cut, pc, phase, rx>>
  BY DEF ReadMore, brokerVars, relayVars
<1>2. /\ pc # "closed" /\ ~Greeting /\ ~Greeting' /\ Buffered' = Buffered
  BY <1>1 DEF Greeting, Buffered
<1>3. incoming \in Seq(Word) /\ wire \in Seq(Word) /\ rx' \in Seq(Octet)
  BY <1>1 DEF Downlink
<1>4. PICK n \in 1..Len(wire) :
         incoming' = incoming \o SubSeq(wire, 1, n) /\ wire' = From(wire, n + 1)
  BY DEF ReadMore
<1>5. PICK c \in Seq(Word), d \in Seq(Word) : c = incoming /\ d = wire
  BY <1>3
<1>6. /\ incoming' \in Seq(Word) /\ wire' \in Seq(Word)
      /\ incoming' \o wire' = incoming \o wire
  <2>1. n \in 0..Len(d)
    BY <1>5
  <2>2. /\ c \o SubSeq(d, 1, n) \in Seq(Word) /\ From(d, n + 1) \in Seq(Word)
        /\ (c \o SubSeq(d, 1, n)) \o From(d, n + 1) = c \o d
    BY <1>5, <2>1, WordsRegroup
  <2> QED BY <1>4, <1>5, <2>2
<1> QED BY <1>1, <1>2, <1>3, <1>6, DownlinkStays

LEMMA DownlinkFails ==
  ASSUME Downlink, Control, SendFails
  PROVE  Downlink' /\ ReadStep
<1>1. /\ pc = "send"
      /\ UNCHANGED <<script, said, cut, tls, phase, rx, handed>>
  BY DEF SendFails, brokerVars
<1>2. CASE Close
  BY <1>1, <1>2, DownlinkEnds
<1>3. CASE ~Close
  <2>1. phase = "pump" /\ pc' = "receive" /\ UNCHANGED <<wire, incoming, plain>>
    BY <1>3 DEF SendFails, readVars
  <2>2. pc # "closed" /\ ~Greeting /\ ~Greeting' /\ Buffered' = Buffered /\ rx' \in Seq(Octet)
    BY <1>1, <2>1 DEF Greeting, Buffered, Downlink
  <2> QED BY <1>1, <2>1, <2>2, DownlinkUnmoved
<1> QED BY <1>2, <1>3

LEMMA DownlinkStep ==
  ASSUME Downlink, Control, Uplink, Understood, Understood', [WireNext]_wireVars
  PROVE  Downlink' /\ ReadStep
<1> USE DEF brokerVars, netVars, tlsVars, readVars, writeVars, relayVars
<1>1. CASE UNCHANGED wireVars
  <2>1. UNCHANGED <<script, said, wire, cut, tls, tokens, incoming, plain, pc, phase, rx, handed>>
    BY <1>1 DEF wireVars
  <2> QED BY <2>1 DEF Downlink, Taken, Held, Opening, Coming, Records, Buffered, Reached,
                      Place, Meant, Greeting, ReadStep
<1>2. CASE Connect
  BY <1>2, DownlinkConnects
<1>3. CASE SendFails
  BY <1>3, DownlinkFails
<1>4. CASE NextRecord \/ Transmit \/ SendEnds \/ NothingComes \/ NeedMore \/ Pump
  BY <1>4, DownlinkWaits
<1>5. CASE Goodbye
  BY <1>5, DownlinkEnds DEF Goodbye
<1>6. CASE HandshakeRecv
  BY <1>6, DownlinkGreets
<1>7. CASE Handshake
  BY <1>7, DownlinkHandshake
<1>8. CASE HandshakeFails
  BY <1>8, DownlinkEnds DEF HandshakeFails
<1>9. CASE Receive
  BY <1>9, DownlinkReceives
<1>10. CASE TakePlain
  BY <1>10, DownlinkTakesPlain
<1>11. CASE Decrypt
  BY <1>11, DownlinkDecrypts
<1>12. CASE ReadMore
  BY <1>12, DownlinkReads
<1>13. CASE ReceiveFails
  BY <1>13, DownlinkEnds DEF ReceiveFails
<1>14. CASE Malformed
  BY <1>14, DownlinkEnds DEF Malformed
<1>15. CASE Packet
  BY <1>15, DownlinkTakes
<1>16. CASE BrokerSays
  BY <1>16, DownlinkSays
<1>17. CASE Cut
  BY <1>17, DownlinkCut
<1>18. CASE GivesUp
  BY <1>18, DownlinkEnds DEF GivesUp
<1> QED
  BY <1>1, <1>2, <1>3, <1>4, <1>5, <1>6, <1>7, <1>8, <1>9, <1>10, <1>11, <1>12, <1>13,
     <1>14, <1>15, <1>16, <1>17, <1>18
  DEF WireNext, Thread
-----------------------------------------------------------------------------
(* The pipes.                                                               *)

\* Where the octets are: for each direction of the connection, the buffers,
\* records and partial transfers in Transport and on the wire hold together the
\* octets of the packets that were sent and not yet read, none missing, none
\* twice, and what has been read is where those packets begin.
THEOREM WireInvariant == WireSpec /\ []Understood => [](Control /\ Uplink /\ Downlink)
<1> DEFINE Inv == Control /\ Uplink /\ Downlink
<1>1. WireInit => Inv
  BY ControlInit, UplinkInit, DownlinkInit
<1>2. Inv /\ Understood /\ Understood' /\ [WireNext]_wireVars => Inv'
  BY ControlStep, UplinkStep, DownlinkStep
<1> QED BY <1>1, <1>2, PTL DEF WireSpec

\* Every packet that may be said can be told, on its own, for what it is.
Readable ==
    /\ \A p \in Sayable : Legible(p)
    /\ \A s \in Scripts : \A i \in DOMAIN s : Intelligible(s[i])

\* The relay says only packets that its callers build, the broker its script.
Known ==
    /\ sent \in Seq(Sayable)
    /\ script = <<>> \/ script \in Scripts

LEMMA KnownInit == WireInit => Known
<1>1. \A S : <<>> \in Seq(S)
  BY EmptySeq
<1> QED BY <1>1 DEF WireInit, Known

LEMMA Speaks ==
  ASSUME Known, NEW p \in Sayable, StartSend(p), UNCHANGED script
  PROVE  Known'
<1> DEFINE S == Sayable
<1> HIDE DEF S
<1>1. sent \in Seq(S) /\ p \in S
  BY DEF Known, S
<1>2. Append(sent, p) \in Seq(S)
  BY <1>1, AppendProperties
<1> QED BY <1>2 DEF Known, StartSend, S

LEMMA KnownStep ==
  ASSUME Known, Control, [WireNext]_wireVars
  PROVE  Known'
<1> USE DEF brokerVars, netVars, tlsVars, readVars, writeVars, relayVars
<1>1. CASE UNCHANGED wireVars
  BY <1>1 DEF wireVars, Known
<1>2. CASE Connect
  <2>1. sent' \in Seq(Sayable)
    <3> DEFINE S == Sayable
    <3>1. \A c \in Connects : c \in S
      BY DEF Sayable
    <3> HIDE DEF S
    <3>2. sent' = <<>> \/ \E c \in Connects : sent' = <<c>>
      BY <1>2 DEF Connect
    <3>3. <<>> \in Seq(S) /\ \A c \in S : <<c>> \in Seq(S)
      BY EmptySeq
    <3> QED BY <3>1, <3>2, <3>3 DEF S
  <2>2. script' \in Scripts
    BY <1>2 DEF Connect
  <2> QED BY <2>1, <2>2 DEF Known
<1>3. CASE Handshake
  <2>1. script' = script
    BY <1>3 DEF Handshake
  <2>2. CASE UNCHANGED sent
    BY <2>1, <2>2 DEF Known
  <2>3. CASE \E c \in Connects : StartSend(c)
    <3>1. PICK c \in Connects : StartSend(c)
      BY <2>3
    <3>2. c \in Sayable
      BY DEF Sayable
    <3> QED BY <2>1, <3>1, <3>2, Speaks
  <2> QED BY <1>3, <2>2, <2>3 DEF Handshake
<1>4. CASE Packet
  <2>1. script' = script
    BY <1>4 DEF Packet
  <2>2. PICK p : Follow(p)
    BY <1>4 DEF Packet
  <2>3. Subscribe \in Sayable /\ Presence \in Sayable
    BY ConstantFacts DEF Sayable
  <2>4. CASE StartSend(Subscribe)
    BY <2>1, <2>3, <2>4, Speaks
  <2>5. CASE StartSend(Presence)
    BY <2>1, <2>3, <2>5, Speaks
  <2>6. CASE UNCHANGED sent
    BY <2>1, <2>6 DEF Known
  <2> QED BY <2>2, <2>4, <2>5, <2>6 DEF Follow
<1>5. CASE Pump
  <2>1. script' = script
    BY <1>5 DEF Pump
  <2>2. CASE UNCHANGED sent
    BY <2>1, <2>2 DEF Known
  <2>3. CASE queue # <<>> /\ StartSend(Head(queue))
    <3>1. queue \in Seq(ToSet(Wanted))
      BY DEF Control
    <3>2. Head(queue) \in Sayable
      BY <2>3, <3>1, HeadTailProperties DEF Sayable
    <3> QED BY <2>1, <2>3, <3>2, Speaks
  <2>4. CASE StartSend([kind |-> "DISCONNECT"])
    <3>1. [kind |-> "DISCONNECT"] \in Sayable
      BY DEF Sayable
    <3> QED BY <2>1, <2>4, <3>1, Speaks
  <2> QED BY <1>5, <2>2, <2>3, <2>4 DEF Pump
<1>6. CASE UNCHANGED <<script, sent>>
  BY <1>6 DEF Known
<1>7. \/ UNCHANGED wireVars \/ Connect \/ Handshake \/ Packet \/ Pump
      \/ UNCHANGED <<script, sent>>
  BY DEF WireNext, Thread, SendFails, NextRecord, Transmit, SendEnds, Goodbye, HandshakeRecv,
         HandshakeFails, Receive, TakePlain, Decrypt, ReadMore, NothingComes, ReceiveFails,
         NeedMore, Malformed, BrokerSays, Cut, GivesUp
<1> QED BY <1>1, <1>2, <1>3, <1>4, <1>5, <1>6, <1>7

LEMMA KnownIsUnderstood == Readable /\ Known => Understood
<1> SUFFICES ASSUME Readable, Known PROVE Understood
  OBVIOUS
<1>1. \A i \in DOMAIN sent : sent[i] \in Sayable
  <2> DEFINE S == Sayable
  <2> HIDE DEF S
  <2>1. sent \in Seq(S)
    BY DEF Known, S
  <2>2. \A i \in DOMAIN sent : sent[i] \in S
    BY <2>1
  <2> QED BY <2>2 DEF S
<1>2. \A i \in DOMAIN script : Intelligible(script[i])
  BY DEF Known, Readable
<1> QED BY <1>1, <1>2 DEF Readable, Understood

\* Each direction of a connection is a pipe of packets: if what is said can be
\* told for what it is packet by packet, it is, however the octets are cut into
\* records and segments, with TLS and without, and over every connection.
THEOREM PipesInStep == Readable /\ WireSpec => InStep
<1> DEFINE Sources == Readable /\ Known /\ Control
           Buffers == Control /\ Uplink /\ Downlink
<1>1. Readable /\ WireInit => Sources
  BY KnownInit, ControlInit
<1>2. Sources /\ [WireNext]_wireVars => Sources'
  BY KnownStep, ControlStep
<1>3. Sources => Understood
  BY KnownIsUnderstood
<1>4. Buffers /\ Understood /\ Understood' /\ [WireNext]_wireVars => WriteStep /\ ReadStep
  BY UplinkStep, DownlinkStep
<1>5. WireInit => In!PipeInit /\ Out!PipeInit
  BY UplinkInit, DownlinkInit
<1>6. ReadStep => [In!PipeNext]_(In!pipeVars)
  BY DEF ReadStep, In!pipeVars
<1>7. WriteStep => [Out!PipeNext]_(Out!pipeVars)
  BY DEF WriteStep, Out!pipeVars
<1>8. WireSpec /\ []Understood => []Buffers
  BY WireInvariant
<1> HIDE DEF Sources, Buffers
<1> QED
  BY <1>1, <1>2, <1>3, <1>4, <1>5, <1>6, <1>7, <1>8, PTL
  DEF WireSpec, InStep, ReadsInStep, WritesInStep, In!PipeSpec, Out!PipeSpec
-----------------------------------------------------------------------------
(* The codec: what is encoded is what is decoded.                           *)

\* The numbers that four octets hold.
Numbers == {n \in Nat : n < 128 ^ 4}

LEMMA Powers ==
  /\ 128 ^ 0 = 1 /\ 128 ^ 1 = 128 /\ 128 ^ 2 = 16384
  /\ 128 ^ 3 = 2097152 /\ 128 ^ 4 = 268435456
OBVIOUS

\* How many octets a number takes.
LEMMA VarIntLengthIs ==
  ASSUME NEW n \in Numbers
  PROVE  LET k == VarIntLength(n)
         IN  k \in 1..4 /\ n < 128 ^ k /\ \A j \in 1..4 : n < 128 ^ j => k <= j
<1> DEFINE K == {k \in 1..4 : n < 128 ^ k}
<1>1. n \in Nat /\ n < 128 ^ 4
  BY DEF Numbers
<1>2. VarIntLength(n) = Min(K)
  <2>1. ~(n >= 128 ^ 4)
    BY <1>1, Powers
  <2> QED BY <2>1 DEF VarIntLength
<1>3. \E k \in K : \A j \in K : k <= j
  <2>1. 4 \in K
    BY <1>1
  <2>2. CASE 1 \in K
    <3>1. \A j \in K : 1 <= j
      OBVIOUS
    <3> QED BY <2>2, <3>1
  <2>3. CASE 1 \notin K /\ 2 \in K
    <3>1. \A j \in K : j \in 1..4 /\ j # 1
      BY <2>3
    <3>2. \A j \in K : 2 <= j
      BY <3>1
    <3> QED BY <2>3, <3>2
  <2>4. CASE 1 \notin K /\ 2 \notin K /\ 3 \in K
    <3>1. \A j \in K : j \in 1..4 /\ j # 1 /\ j # 2
      BY <2>4
    <3>2. \A j \in K : 3 <= j
      BY <3>1
    <3> QED BY <2>4, <3>2
  <2>5. CASE 1 \notin K /\ 2 \notin K /\ 3 \notin K
    <3>1. \A j \in K : j \in 1..4 /\ j # 1 /\ j # 2 /\ j # 3
      BY <2>5
    <3>2. \A j \in K : 4 <= j
      BY <3>1
    <3> QED BY <2>1, <3>2
  <2> QED BY <2>2, <2>3, <2>4, <2>5
<1>4. Min(K) \in K /\ \A j \in K : Min(K) <= j
  BY <1>3 DEF Min
<1> QED BY <1>2, <1>4

\* The digits of a number are those of its encoding.
LEMMA Digits ==
  ASSUME NEW n \in Numbers
  PROVE  /\ n = ((n \div 128 ^ 0) % 128) + 128 * ((n \div 128 ^ 1) % 128)
                + 16384 * ((n \div 128 ^ 2) % 128) + 2097152 * ((n \div 128 ^ 3) % 128)
         /\ \A i \in 0..3 : (n \div 128 ^ i) % 128 \in 0..127
         /\ \A i, k \in 0..3 : k <= i /\ n < 128 ^ k => (n \div 128 ^ i) % 128 = 0
<1>1. n \in Nat /\ n < 268435456
  BY Powers DEF Numbers
<1>2. n = (n % 128) + 128 * ((n \div 128) % 128) + 16384 * ((n \div 16384) % 128)
           + 2097152 * ((n \div 2097152) % 128)
  BY <1>1
<1>3. /\ n < 1 => n % 128 = 0
      /\ n < 128 => (n \div 128) % 128 = 0
      /\ n < 16384 => (n \div 16384) % 128 = 0
      /\ n < 2097152 => (n \div 2097152) % 128 = 0
      /\ n \div 1 = n
  BY <1>1
<1>4. /\ n % 128 \in 0..127 /\ (n \div 128) % 128 \in 0..127
      /\ (n \div 16384) % 128 \in 0..127 /\ (n \div 2097152) % 128 \in 0..127
  BY <1>1
<1> DEFINE d == [i \in 0..3 |-> (n \div 128 ^ i) % 128]
<1>5. \A i \in 0..3 : d[i] = (n \div 128 ^ i) % 128
  OBVIOUS
<1> HIDE DEF d
<1>6. /\ 0 \in 0..3 /\ 1 \in 0..3 /\ 2 \in 0..3 /\ 3 \in 0..3
      /\ \A i \in 0..3 : i = 0 \/ i = 1 \/ i = 2 \/ i = 3
  OBVIOUS
<1>7. /\ d[0] = n % 128 /\ d[1] = (n \div 128) % 128
      /\ d[2] = (n \div 16384) % 128 /\ d[3] = (n \div 2097152) % 128
  <2>1. d[0] = n % 128
    BY <1>3, <1>5, <1>6, Powers
  <2>2. d[1] = (n \div 128) % 128
    BY <1>5, <1>6, Powers
  <2>3. d[2] = (n \div 16384) % 128
    BY <1>5, <1>6, Powers
  <2>4. d[3] = (n \div 2097152) % 128
    BY <1>5, <1>6, Powers
  <2> QED BY <2>1, <2>2, <2>3, <2>4
<1>8. n = d[0] + 128 * d[1] + 16384 * d[2] + 2097152 * d[3]
  BY <1>2, <1>7
<1>9. \A i \in 0..3 : d[i] \in 0..127
  <2>1. d[0] \in 0..127 /\ d[1] \in 0..127 /\ d[2] \in 0..127 /\ d[3] \in 0..127
    BY <1>4, <1>7
  <2> QED BY <1>6, <2>1
<1>10. \A i, k \in 0..3 : k <= i /\ n < 128 ^ k => d[i] = 0
  <2>1. n < 128 ^ 0 => d[0] = 0 /\ d[1] = 0 /\ d[2] = 0 /\ d[3] = 0
    <3>1. n < 1 => n < 128 /\ n < 16384 /\ n < 2097152
      BY <1>1
    <3> QED BY <1>3, <1>7, <3>1, Powers
  <2>2. n < 128 ^ 1 => d[1] = 0 /\ d[2] = 0 /\ d[3] = 0
    <3>1. n < 128 => n < 16384 /\ n < 2097152
      BY <1>1
    <3> QED BY <1>3, <1>7, <3>1, Powers
  <2>3. n < 128 ^ 2 => d[2] = 0 /\ d[3] = 0
    <3>1. n < 16384 => n < 2097152
      BY <1>1
    <3> QED BY <1>3, <1>7, <3>1, Powers
  <2>4. n < 128 ^ 3 => d[3] = 0
    BY <1>3, <1>7, Powers
  <2> SUFFICES ASSUME NEW i \in 0..3, NEW k \in 0..3, k <= i, n < 128 ^ k
               PROVE  d[i] = 0
    OBVIOUS
  <2>5. CASE k = 0
    BY <1>6, <2>1, <2>5
  <2>6. CASE k = 1
    <3>1. i = 1 \/ i = 2 \/ i = 3
      BY <2>6
    <3> QED BY <2>2, <2>6, <3>1
  <2>7. CASE k = 2
    <3>1. i = 2 \/ i = 3
      BY <2>7
    <3> QED BY <2>3, <2>7, <3>1
  <2>8. CASE k = 3
    <3>1. i = 3
      BY <2>8
    <3> QED BY <2>4, <2>8, <3>1
  <2> QED BY <1>6, <2>5, <2>6, <2>7, <2>8
<1> QED
  <2>1. \A i \in 0..3 : d[i] = (n \div 128 ^ i) % 128
    BY <1>5
  <2>2. n = ((n \div 128 ^ 0) % 128) + 128 * ((n \div 128 ^ 1) % 128)
            + 16384 * ((n \div 128 ^ 2) % 128) + 2097152 * ((n \div 128 ^ 3) % 128)
    <3>1. n = d[0] + 128 * d[1] + 16384 * d[2] + 2097152 * d[3]
      BY <1>8
    <3> QED BY <1>6, <2>1, <3>1
  <2> QED BY <1>9, <1>10, <2>1, <2>2

LEMMA OctetHalves == \A x \in Octet : x \in Nat /\ x <= 255 /\ (x < 128 <=> ~(x >= 128))
BY DEF Octet

LEMMA DigitRange ==
  ASSUME NEW n \in Numbers
  PROVE  /\ \A i \in 0..3 : (n \div 128 ^ i) % 128 \in 0..127
         /\ \A i, k \in 0..3 : k <= i /\ n < 128 ^ k => (n \div 128 ^ i) % 128 = 0
BY Digits

\* Seven bits an octet, and only the last octet is below 128.
LEMMA EncodeVarIntIs ==
  ASSUME NEW n \in Numbers
  PROVE  LET k == VarIntLength(n)
             e == EncodeVarInt(n)
         IN  /\ e \in Seq(Octet) /\ Len(e) = k
             /\ \A i \in 1..k : e[i] >= 128 <=> i < k
             /\ \A i \in 1..k : e[i] % 128 = (n \div 128 ^ (i - 1)) % 128
<1> DEFINE k == VarIntLength(n)
           e == EncodeVarInt(n)
<1>1. k \in 1..4
  BY VarIntLengthIs
<1>2. e = [i \in 1..k |-> ((n \div 128 ^ (i - 1)) % 128) + (IF i < k THEN 128 ELSE 0)]
  BY DEF EncodeVarInt
<1>3. \A i \in 0..3 : (n \div 128 ^ i) % 128 \in 0..127
  BY DigitRange
<1> HIDE DEF k, e
<1>4. \A i \in 1..k : /\ e[i] \in Octet
                      /\ e[i] >= 128 <=> i < k
                      /\ e[i] % 128 = (n \div 128 ^ (i - 1)) % 128
  <2> TAKE i \in 1..k
  <2> DEFINE q == (n \div 128 ^ (i - 1)) % 128
  <2>1. q \in 0..127
    <3>1. i - 1 \in 0..3
      BY <1>1
    <3> QED BY <1>3, <3>1
  <2>2. e[i] = q + (IF i < k THEN 128 ELSE 0)
    BY <1>2
  <2> HIDE DEF q
  <2>3. e[i] \in Octet /\ (e[i] >= 128 <=> i < k) /\ e[i] % 128 = q
    BY <1>1, <2>1, <2>2 DEF Octet
  <2> QED BY <2>3 DEF q
<1>5. e \in Seq(Octet) /\ Len(e) = k
  <2>1. DOMAIN e = 1..k /\ e = [i \in 1..k |-> e[i]]
    BY <1>2
  <2>2. e \in [1..k -> Octet]
    BY <1>4, <2>1
  <2> QED BY <1>1, <2>2
<1> QED BY <1>4, <1>5 DEF k, e

\* EncodeVarInt and DecodeVarInt: a number that fits in four octets is read back
\* wherever it stands, up to the octet it ends at.
THEOREM NumbersReadBack ==
  ASSUME NEW n \in Numbers, NEW b \in Seq(Octet), NEW at \in Nat \ {0},
         At(EncodeVarInt(n), b, at - 1)
  PROVE  DecodeVarInt(b, at) = {[value |-> n, next |-> at + VarIntLength(n)]}
<1> DEFINE k == VarIntLength(n)
           e == EncodeVarInt(n)
           last == at + k - 1
<1>1. k \in 1..4 /\ n < 128 ^ k /\ n \in Nat
  BY VarIntLengthIs DEF Numbers
<1>2. /\ Len(e) = k
      /\ \A i \in 1..k : e[i] >= 128 <=> i < k
      /\ \A i \in 1..k : e[i] % 128 = (n \div 128 ^ (i - 1)) % 128
  BY EncodeVarIntIs
<1>3. at - 1 + k <= Len(b) /\ \A i \in 1..k : e[i] = b[at - 1 + i]
  BY <1>2 DEF At
<1> HIDE DEF k, e
<1>4. \A i \in 0..(k - 1) : /\ b[at + i] >= 128 <=> i < k - 1
                            /\ b[at + i] % 128 = (n \div 128 ^ i) % 128
  <2> TAKE i \in 0..(k - 1)
  <2>1. i + 1 \in 1..k /\ at - 1 + (i + 1) = at + i /\ (i + 1) - 1 = i
        /\ (i + 1 < k <=> i < k - 1)
    BY <1>1
  <2>2. e[i + 1] = b[at + i]
    BY <1>3, <2>1
  <2> QED BY <1>2, <2>1, <2>2
<1>5. VarIntEnds(b, at) = {last}
  <2>1. last \in VarIntEnds(b, at)
    <3>1. last \in at..(at + 3) /\ last <= Len(b) /\ last = at + (k - 1)
      <4>1. Len(b) \in Nat /\ k \in Nat /\ 1 <= k /\ k <= 4
        BY <1>1
      <4> QED BY <1>3, <4>1
    <3>2. b[last] \in Octet
      <4>1. last \in 1..Len(b)
        BY <3>1
      <4> QED BY <4>1
    <3>3. b[last] < 128
      <4>1. k - 1 \in 0..(k - 1) /\ ~(k - 1 < k - 1)
        BY <1>1
      <4>2. ~(b[at + (k - 1)] >= 128)
        BY <1>4, <4>1
      <4> QED BY <3>1, <3>2, <4>2, OctetHalves
    <3>4. \A j \in at..(last - 1) : b[j] >= 128
      <4> TAKE j \in at..(last - 1)
      <4>1. j - at \in 0..(k - 1) /\ j - at < k - 1 /\ at + (j - at) = j
        BY <1>1
      <4> QED BY <1>4, <4>1
    <3> QED BY <3>1, <3>3, <3>4 DEF VarIntEnds
  <2>2. ASSUME NEW j \in VarIntEnds(b, at)
        PROVE  j = last
    <3>1. /\ j \in at..(at + 3) /\ j <= Len(b) /\ b[j] < 128
          /\ \A i \in at..(j - 1) : b[i] >= 128
      BY DEF VarIntEnds
    <3>2. last \in Int /\ b[last] \in Octet /\ ~(b[last] >= 128)
      <4>1. last \in 1..Len(b) /\ last = at + (k - 1) /\ k - 1 \in 0..(k - 1)
        BY <1>1, <1>3
      <4> QED BY <1>4, <4>1
    <3>3. ~(j > last)
      <4>1. j > last => last \in at..(j - 1)
        BY <1>1, <3>1
      <4> QED BY <3>1, <3>2, <4>1
    <3>4. ~(j < last)
      <4>1. j < last => j - at \in 0..(k - 1) /\ j - at < k - 1 /\ at + (j - at) = j
        BY <1>1, <3>1
      <4>2. j < last => b[j] >= 128
        BY <1>4, <4>1
      <4>3. b[j] \in Octet
        <5>1. j \in 1..Len(b)
          BY <3>1
        <5> QED BY <5>1
      <4>4. b[j] < 128
        BY <3>1
      <4>5. ~(b[j] >= 128)
        BY <4>3, <4>4, OctetHalves
      <4> QED BY <4>2, <4>5
    <3> QED BY <3>1, <3>2, <3>3, <3>4
  <2> QED BY <2>1, <2>2
<1>6. VarIntValue(b, at, last) = n
  <2> DEFINE digit == [i \in 0..3 |-> IF at + i > last THEN 0 ELSE b[at + i] % 128]
             d == [i \in 0..3 |-> (n \div 128 ^ i) % 128]
  <2>1. VarIntValue(b, at, last)
           = digit[0] + 128 * digit[1] + 16384 * digit[2] + 2097152 * digit[3]
    BY DEF VarIntValue
  <2>2. n = d[0] + 128 * d[1] + 16384 * d[2] + 2097152 * d[3]
    <3>1. 0 \in 0..3 /\ 1 \in 0..3 /\ 2 \in 0..3 /\ 3 \in 0..3
      OBVIOUS
    <3>2. \A i \in 0..3 : d[i] = (n \div 128 ^ i) % 128
      OBVIOUS
    <3> HIDE DEF d
    <3> QED BY <3>1, <3>2, Digits
  <2>3. ASSUME NEW i \in 0..3
        PROVE  digit[i] = d[i]
    <3>1. CASE i < k
      <4>1. i \in 0..(k - 1) /\ ~(at + i > last)
        BY <1>1, <3>1
      <4>2. digit[i] = b[at + i] % 128
        BY <4>1
      <4> QED BY <1>4, <4>1, <4>2
    <3>2. CASE ~(i < k)
      <4>1. k \in 0..3 /\ k <= i /\ at + i > last
        BY <1>1, <3>2
      <4>2. digit[i] = 0
        BY <4>1
      <4>3. (n \div 128 ^ i) % 128 = 0
        BY <1>1, <4>1, DigitRange
      <4>4. d[i] = (n \div 128 ^ i) % 128
        OBVIOUS
      <4> QED BY <4>2, <4>3, <4>4
    <3> QED BY <3>1, <3>2
  <2>4. digit[0] = d[0] /\ digit[1] = d[1] /\ digit[2] = d[2] /\ digit[3] = d[3]
    <3>1. 0 \in 0..3 /\ 1 \in 0..3 /\ 2 \in 0..3 /\ 3 \in 0..3
      OBVIOUS
    <3> HIDE DEF digit, d
    <3> QED BY <2>3, <3>1
  <2> HIDE DEF digit, d
  <2> QED BY <2>1, <2>2, <2>4
<1>7. last + 1 = at + k
  BY <1>1
<1> HIDE DEF last
<1>8. DecodeVarInt(b, at) = {[value |-> VarIntValue(b, at, last), next |-> last + 1]}
  BY <1>5 DEF DecodeVarInt
<1> QED BY <1>6, <1>7, <1>8 DEF k

\* What the two octets of a length can say.
Lengths == {n \in Nat : n < 65536}

\* The strings a packet can hold.
Strings == {s \in Seq(Octet) : Len(s) \in Lengths}

LEMMA AtPiece ==
  ASSUME NEW S, NEW a \in Seq(S), NEW s \in Seq(S), NEW x \in Nat, At(a, s, x)
  PROVE  SubSeq(s, x + 1, x + Len(a)) = a
<1> DEFINE u == SubSeq(s, x + 1, x + Len(a))
<1>1. /\ Len(a) \in Nat /\ Len(s) \in Nat /\ x + Len(a) <= Len(s)
      /\ \A i \in 1..Len(a) : a[i] = s[x + i]
  BY DEF At
<1>2. \A i \in (x + 1)..(x + Len(a)) : s[i] \in S
  BY <1>1
<1>3. /\ u \in Seq(S)
      /\ Len(u) = IF x + 1 <= x + Len(a) THEN (x + Len(a)) - (x + 1) + 1 ELSE 0
      /\ \A i \in 1..((x + Len(a)) - (x + 1) + 1) : u[i] = s[(x + 1) + i - 1]
  <2>1. x + 1 \in Int /\ x + Len(a) \in Int
    BY <1>1
  <2> QED BY <1>2, <2>1, SubSeqProperties
<1> HIDE DEF u
<1>4. Len(u) = Len(a) /\ (x + Len(a)) - (x + 1) + 1 = Len(a)
  BY <1>1, <1>3
<1>5. ASSUME NEW i \in 1..Len(u)
      PROVE  u[i] = a[i]
  <2>1. i \in 1..Len(a) /\ (x + 1) + i - 1 = x + i
    BY <1>1, <1>4
  <2> QED BY <1>1, <1>3, <1>4, <2>1
<1>6. u = a
  BY <1>3, <1>4, <1>5, SeqEqual
<1> QED BY <1>6 DEF u

LEMMA OctetOf ==
  ASSUME NEW n \in Nat, n < 256
  PROVE  n \in Octet
BY DEF Octet

\* PutU16 and U16: a length is read back wherever it stands.
LEMMA LengthReadsBack ==
  ASSUME NEW v \in Lengths
  PROVE  /\ PutU16(v) \in Seq(Octet) /\ Len(PutU16(v)) = 2
         /\ \A b, x : x \in Nat /\ Len(b) \in Nat /\ At(PutU16(v), b, x) =>
                         x + 2 <= Len(b) /\ U16(b, x + 1) = v
<1> DEFINE h == (v \div 256) % 256
           l == v % 256
<1>1. v \in Nat /\ v < 65536
  BY DEF Lengths
<1>2. h \in Nat /\ h < 256 /\ l \in Nat /\ l < 256 /\ 256 * h + l = v
  BY <1>1
<1> HIDE DEF h, l
<1>3. h \in Octet /\ l \in Octet
  BY <1>2, OctetOf
<1>4. PutU16(v) = <<h, l>>
  BY DEF PutU16, h, l
<1>5. PutU16(v) \in Seq(Octet) /\ Len(PutU16(v)) = 2
  BY <1>3, <1>4
<1>6. ASSUME NEW b, NEW x \in Nat, Len(b) \in Nat, At(PutU16(v), b, x)
      PROVE  x + 2 <= Len(b) /\ U16(b, x + 1) = v
  <2> DEFINE e == PutU16(v)
  <2>1. x + 2 <= Len(b) /\ e[1] = b[x + 1] /\ e[2] = b[x + 2]
    <3>1. Len(e) = 2 /\ At(e, b, x)
      BY <1>5, <1>6
    <3> HIDE DEF e
    <3> QED BY <3>1 DEF At
  <2>2. e[1] = h /\ e[2] = l
    BY <1>4
  <2>3. (x + 1) + 1 = x + 2
    OBVIOUS
  <2> HIDE DEF e
  <2> QED BY <1>2, <2>1, <2>2, <2>3 DEF U16
<1> QED BY <1>5, <1>6

\* PutString and the strings the two sides read.
LEMMA StringReadsBack ==
  ASSUME NEW s \in Strings
  PROVE  /\ PutString(s) \in Seq(Octet) /\ Len(PutString(s)) = 2 + Len(s)
         /\ Len(s) \in Nat
         /\ \A b \in Seq(Octet), x \in Nat : At(PutString(s), b, x) =>
               /\ (x + 2) + Len(s) <= Len(b)
               /\ U16(b, x + 1) = Len(s)
               /\ SubSeq(b, x + 3, (x + 2) + Len(s)) = s
<1>1. s \in Seq(Octet) /\ Len(s) \in Lengths /\ Len(s) \in Nat
  BY DEF Strings, Lengths
<1> DEFINE u == PutU16(Len(s))
<1>2. /\ u \in Seq(Octet) /\ Len(u) = 2
      /\ \A b, x : x \in Nat /\ Len(b) \in Nat /\ At(u, b, x) =>
                         x + 2 <= Len(b) /\ U16(b, x + 1) = Len(s)
  BY <1>1, LengthReadsBack
<1> HIDE DEF u
<1>3. PutString(s) = u \o s
  BY DEF PutString, u
<1>4. u \o s \in Seq(Octet) /\ Len(u \o s) = 2 + Len(s)
  <2>1. u \o s \in Seq(Octet) /\ Len(u \o s) = Len(u) + Len(s)
    BY <1>1, <1>2, ConcatProperties
  <2> QED BY <1>2, <2>1
<1>5. ASSUME NEW b \in Seq(Octet), NEW x \in Nat, At(u \o s, b, x)
      PROVE  /\ (x + 2) + Len(s) <= Len(b)
             /\ U16(b, x + 1) = Len(s)
             /\ SubSeq(b, x + 3, (x + 2) + Len(s)) = s
  <2>1. Len(b) \in Nat
    OBVIOUS
  <2>2. At(u, b, x) /\ At(s, b, x + Len(u))
    BY <1>1, <1>2, <1>5, <2>1, AtHalves
  <2>3. At(s, b, x + 2) /\ x + 2 \in Nat /\ (x + 2) + 1 = x + 3
    BY <1>2, <2>2
  <2>4. U16(b, x + 1) = Len(s)
    BY <1>2, <2>1, <2>2
  <2>5. SubSeq(b, (x + 2) + 1, (x + 2) + Len(s)) = s
    BY <1>1, <2>3, AtPiece
  <2>6. (x + 2) + Len(s) <= Len(b)
    BY <2>3 DEF At
  <2> QED BY <2>3, <2>4, <2>5, <2>6
<1> QED BY <1>1, <1>3, <1>4, <1>5

LEMMA FrameLies ==
  ASSUME NEW type \in 0..15, NEW flags \in 0..15,
         NEW body \in Seq(Octet), Len(body) \in Numbers
  PROVE  LET f == Frame(type, flags, body)
             k == VarIntLength(Len(body))
         IN  /\ f \in Seq(Octet) /\ Len(f) = 1 + k + Len(body) /\ k \in 1..4
             /\ \A b \in Seq(Octet), x \in Nat : At(f, b, x) =>
                   /\ b[x + 1] = type * 16 + flags
                   /\ At(EncodeVarInt(Len(body)), b, x + 1)
                   /\ At(body, b, x + 1 + k)
<1> DEFINE k == VarIntLength(Len(body))
           h == type * 16 + flags
           e == EncodeVarInt(Len(body))
           L == Len(body)
<1>1. k \in 1..4 /\ e \in Seq(Octet) /\ Len(e) = k /\ L \in Nat
  BY VarIntLengthIs, EncodeVarIntIs DEF Numbers
<1>2. h \in Nat /\ h < 256
  OBVIOUS
<1>3. Frame(type, flags, body) = (<<h>> \o e) \o body
  BY DEF Frame
<1> HIDE DEF k, h, e, L
<1>4. <<h>> \in Seq(Octet) /\ Len(<<h>>) = 1
  <2>1. h \in Octet
    BY <1>2, OctetOf
  <2> QED BY <2>1
<1>5. PICK g \in Seq(Octet) : g = <<h>>
  BY <1>4
<1>6. g \o e \in Seq(Octet) /\ Len(g \o e) = 1 + k
  BY <1>1, <1>4, <1>5, ConcatProperties
<1>7. (g \o e) \o body \in Seq(Octet) /\ Len((g \o e) \o body) = (1 + k) + Len(body)
  BY <1>6, ConcatProperties
<1>8. ASSUME NEW b \in Seq(Octet), NEW x \in Nat, At((g \o e) \o body, b, x)
      PROVE  b[x + 1] = h /\ At(e, b, x + 1) /\ At(body, b, x + 1 + k)
  <2>1. Len(b) \in Nat /\ k \in Nat
    BY <1>1
  <2>2. At(g \o e, b, x) /\ At(body, b, x + Len(g \o e))
    BY <1>6, <1>8, <2>1, AtHalves
  <2>3. At(g, b, x) /\ At(e, b, x + Len(g))
    BY <1>1, <2>1, <2>2, AtHalves
  <2>4. b[x + 1] = g[1]
    BY <1>4, <1>5, <2>3 DEF At
  <2>5. g[1] = h
    BY <1>5
  <2>6. x + Len(g) = x + 1 /\ x + Len(g \o e) = x + 1 + k
    <3>1. Len(g) = 1 /\ Len(g \o e) = 1 + k
      BY <1>4, <1>5, <1>6
    <3>2. x + (1 + k) = x + 1 + k
      BY <2>1
    <3> QED BY <3>1, <3>2
  <2> QED BY <2>2, <2>3, <2>4, <2>5, <2>6
<1> QED BY <1>1, <1>3, <1>5, <1>7, <1>8 DEF k, h, e, L

LEMMA TypeAndFlags ==
  ASSUME NEW type \in 0..15, NEW flags \in 0..15
  PROVE  (type * 16 + flags) \div 16 = type /\ (type * 16 + flags) % 16 = flags
OBVIOUS

\* Frame and Decode: of a packet that begins the buffer Decode takes all and no
\* more, whatever comes behind it, and it reads exactly the body that was framed.
THEOREM FramesReadBack ==
  ASSUME NEW type \in 0..15, NEW flags \in 0..15,
         NEW body \in Seq(Octet), Len(body) \in Numbers, NEW rest \in Seq(Octet)
  PROVE  LET f == Frame(type, flags, body)
             read == DecodeBody(type, flags, body)
         IN  Decode(f \o rest) =
                IF read = {} THEN Answer("Malformed", {}, 0)
                ELSE Answer("Ok", {[p EXCEPT !.type = type, !.flags = flags] : p \in read},
                            Len(f))
<1> DEFINE f == Frame(type, flags, body)
           k == VarIntLength(Len(body))
           L == Len(body)
           b == f \o rest
           len == [value |-> L, next |-> 2 + k]
           end == len.next + len.value - 1
<1>1. /\ f \in Seq(Octet) /\ Len(f) = 1 + k + L /\ k \in 1..4 /\ L \in Nat
      /\ \A c \in Seq(Octet), x \in Nat : At(f, c, x) =>
            /\ c[x + 1] = type * 16 + flags
            /\ At(EncodeVarInt(L), c, x + 1)
            /\ At(body, c, x + 1 + k)
  <2>1. L \in Nat
    OBVIOUS
  <2>2. /\ f \in Seq(Octet) /\ Len(f) = 1 + k + L /\ k \in 1..4
        /\ \A c \in Seq(Octet), x \in Nat : At(f, c, x) =>
              /\ c[x + 1] = type * 16 + flags
              /\ At(EncodeVarInt(L), c, x + 1)
              /\ At(body, c, x + 1 + k)
    BY FrameLies
  <2> HIDE DEF f, k, L
  <2> QED BY <2>1, <2>2
<1> HIDE DEF f, k
<1>2. b \in Seq(Octet) /\ Len(b) \in Nat /\ Len(f) <= Len(b)
  BY <1>1, ConcatProperties
<1>3. At(f, b, 0)
  <2>1. Begins(f, b)
    BY <1>1, BeginsConcat
  <2> QED BY <1>1, <1>2, <2>1 DEF At, Begins
<1> HIDE DEF b
<1>4. b[1] = type * 16 + flags /\ At(EncodeVarInt(L), b, 2 - 1) /\ At(body, b, 1 + k)
  <2>1. 0 + 1 = 1 /\ 0 + 1 = 2 - 1 /\ 0 + 1 + k = 1 + k /\ 0 \in Nat
    BY <1>1
  <2> QED BY <1>1, <1>2, <1>3, <2>1
<1>5. DecodeVarInt(b, 2) = {len}
  <2>1. DecodeVarInt(b, 2) = {[value |-> L, next |-> 2 + VarIntLength(L)]}
    BY <1>2, <1>4, NumbersReadBack
  <2> QED BY <2>1 DEF k
<1>6. SubSeq(b, len.next, end) = body
  <2>1. 1 + k \in Nat /\ len.next = (1 + k) + 1 /\ end = (1 + k) + L
    BY <1>1
  <2> HIDE DEF len, end
  <2> QED BY <1>2, <1>4, <2>1, AtPiece
<1>7. Decode(b) = Framed(b, len)
  <2>1. ~(Len(b) < 2 \/ DecodeVarInt(b, 2) = {})
    <3>1. ~(Len(b) < 2)
      BY <1>1, <1>2
    <3> HIDE DEF len
    <3> QED BY <1>5, <3>1
  <2>2. \A x : (CHOOSE answer \in {x} : TRUE) = x
    OBVIOUS
  <2> HIDE DEF len
  <2>3. {Framed(b, l) : l \in DecodeVarInt(b, 2)} = {Framed(b, len)}
    BY <1>5
  <2> QED BY <2>1, <2>2, <2>3 DEF Decode
<1>8. ~(Len(b) < end) /\ Consumed(len) = Len(f)
  BY <1>1, <1>2 DEF Consumed
<1>9. b[1] \div 16 = type /\ b[1] % 16 = flags
  BY <1>4, TypeAndFlags
<1> HIDE DEF len, end
<1> DEFINE packets == UNION {DecodeBody(b[1] \div 16, b[1] % 16, x) :
                               x \in {SubSeq(b, len.next, end)}}
           read == DecodeBody(type, flags, body)
<1>10. packets = read
  BY <1>6, <1>9
<1>11. Framed(b, len) =
         IF packets = {} THEN Answer("Malformed", {}, 0)
         ELSE Answer("Ok", {[p EXCEPT !.type = b[1] \div 16, !.flags = b[1] % 16] : p \in packets},
                     Consumed(len))
  BY <1>8, Zenon DEF Framed, end
<1> HIDE DEF packets, read
<1>12. Framed(b, len) =
         IF read = {} THEN Answer("Malformed", {}, 0)
         ELSE Answer("Ok", {[p EXCEPT !.type = type, !.flags = flags] : p \in read}, Len(f))
  BY <1>8, <1>9, <1>10, <1>11, Zenon
<1> QED BY <1>7, <1>12, Zenon DEF b, f, read

LEMMA ShortFrame ==
  ASSUME NEW type \in 0..15, NEW flags \in 0..15, NEW body \in Seq(Octet), Len(body) < 128
  PROVE  LET f == Frame(type, flags, body)
         IN  /\ f \in Seq(Octet) /\ Len(f) = 2 + Len(body) /\ Len(body) \in Nat
             /\ f[1] \div 16 = type /\ f[1] % 16 = flags /\ f[2] = Len(body)
             /\ From(f, 3) = body
<1> DEFINE f == Frame(type, flags, body)
           L == Len(body)
           k == VarIntLength(L)
           e == EncodeVarInt(L)
<1>1. L \in Nat /\ L < 128
  OBVIOUS
<1> HIDE DEF L
<1>2. L \in Numbers
  BY <1>1, Powers DEF Numbers
<1>3. k = 1
  <2>1. k \in 1..4 /\ \A j \in 1..4 : L < 128 ^ j => k <= j
    BY <1>2, VarIntLengthIs
  <2>2. 128 ^ 1 = 128 /\ 1 \in 1..4
    BY Powers
  <2>3. k <= 1
    BY <1>1, <2>1, <2>2
  <2> QED BY <2>1, <2>3
<1>4. e[1] = L
  <2>1. /\ \A i \in 1..k : e[i] >= 128 <=> i < k
        /\ \A i \in 1..k : e[i] % 128 = (L \div 128 ^ (i - 1)) % 128
        /\ e \in Seq(Octet) /\ Len(e) = k
    BY <1>2, EncodeVarIntIs
  <2>2. 1 \in 1..k /\ ~(1 < k)
    BY <1>3
  <2>3. e[1] \in Octet
    BY <2>1, <2>2
  <2>4. e[1] < 128 /\ e[1] \in Nat
    BY <2>1, <2>2, <2>3, OctetHalves
  <2>5. e[1] % 128 = (L \div 128 ^ 0) % 128
    <3>1. 1 - 1 = 0
      OBVIOUS
    <3> QED BY <2>1, <2>2, <3>1
  <2>6. e[1] % 128 = e[1] /\ (L \div 1) % 128 = L
    BY <1>1, <2>4
  <2> QED BY <2>5, <2>6, Powers
<1>5. /\ f \in Seq(Octet) /\ Len(f) = 1 + k + L
      /\ \A b \in Seq(Octet), x \in Nat : At(f, b, x) =>
            /\ b[x + 1] = type * 16 + flags
            /\ At(e, b, x + 1)
            /\ At(body, b, x + 1 + k)
  BY <1>2, FrameLies DEF L
<1>6. Len(e) = k
  BY <1>2, EncodeVarIntIs
<1> HIDE DEF f, k, e
<1>7. Len(f) = 2 + L
  BY <1>1, <1>3, <1>5
<1>8. f[1] = type * 16 + flags /\ At(e, f, 1) /\ At(body, f, 2)
  <2>1. At(f, f, 0)
    BY <1>5 DEF At
  <2>2. 0 + 1 = 1 /\ 0 + 1 + k = 2 /\ 0 \in Nat
    BY <1>3
  <2> QED BY <1>5, <2>1, <2>2
<1>9. f[2] = L
  <2>1. e[1] = f[2]
    BY <1>3, <1>6, <1>8 DEF At
  <2> QED BY <1>4, <2>1
<1>10. From(f, 3) = body
  <2>1. SubSeq(f, 2 + 1, 2 + Len(body)) = body
    BY <1>5, <1>8, AtPiece
  <2> QED BY <1>7, <2>1 DEF From, L
<1>11. f[1] \div 16 = type /\ f[1] % 16 = flags
  BY <1>8, TypeAndFlags
<1> QED BY <1>1, <1>5, <1>7, <1>9, <1>10, <1>11 DEF f, L

\* A frame is longer than its body by two octets at least.
LEMMA ShortBody ==
  ASSUME NEW type \in 0..15, NEW flags \in 0..15, NEW body \in Seq(Octet),
         Len(Frame(type, flags, body)) < 130
  PROVE  Len(body) < 128
<1> DEFINE f == Frame(type, flags, body)
           L == Len(body)
           k == VarIntLength(L)
<1>1. L \in Nat
  OBVIOUS
<1>2. CASE L \in Numbers
  <2>1. Len(f) = 1 + k + L /\ k \in 1..4
    BY <1>2, FrameLies
  <2> HIDE DEF f, L, k
  <2>2. Len(f) < 130
    BY DEF f
  <2>3. L < 128
    BY <1>1, <2>1, <2>2
  <2> QED BY <2>3 DEF L
<1>3. CASE L \notin Numbers
  <2> DEFINE h == type * 16 + flags
             e == EncodeVarInt(L)
             d(i) == ((L \div 128 ^ (i - 1)) % 128) + (IF i < k THEN 128 ELSE 0)
             S == Octet \cup {h} \cup {e[i] : i \in 1..k}
  <2>1. k = 5
    <3>1. L >= 128 ^ 4
      BY <1>1, <1>3, Powers DEF Numbers
    <3> QED BY <3>1 DEF VarIntLength
  <2>2. e \in [1..k -> {e[i] : i \in 1..k}]
    <3>1. e = [i \in 1..k |-> d(i)]
      BY DEF EncodeVarInt
    <3> HIDE DEF d, e, k
    <3> QED BY <3>1
  <2>3. f = (<<h>> \o e) \o body
    BY DEF Frame
  <2> HIDE DEF h, e, f, L, d, k
  <2>4. e \in Seq(S) /\ Len(e) = 5
    <3>1. e \in [1..k -> S] /\ k \in Nat
      BY <2>1, <2>2
    <3> HIDE DEF S
    <3>2. e \in Seq(S) /\ Len(e) = k
      BY <3>1
    <3> QED BY <2>1, <3>2
  <2>5. <<h>> \in Seq(S) /\ Len(<<h>>) = 1
    OBVIOUS
  <2>6. body \in Seq(S)
    <3>1. Octet \subseteq S
      OBVIOUS
    <3> HIDE DEF S
    <3> QED BY <3>1, SeqMonotonic
  <2> HIDE DEF S
  <2>7. PICK g \in Seq(S) : g = <<h>> /\ Len(g) = 1
    BY <2>5
  <2>8. PICK c \in Seq(S) : c = g \o e /\ Len(c) = 6
    <3>1. g \o e \in Seq(S) /\ Len(g \o e) = Len(g) + Len(e)
      BY <2>4, ConcatProperties
    <3>2. Len(g \o e) = 6
      BY <2>4, <2>7, <3>1
    <3> QED BY <3>1, <3>2
  <2>11. Len(c \o body) = Len(c) + Len(body)
    BY <2>6, ConcatProperties
  <2>9. Len(f) < 130 /\ Len(f) = 6 + L
    BY <2>3, <2>7, <2>8, <2>11 DEF f, L
  <2>10. L < 128
    BY <1>1, <2>9
  <2> QED BY <2>10 DEF L
<1> QED BY <1>2, <1>3

\* A packet of the relay's, framed, is legible if a server reads it for what it is
\* once it knows where the body begins.
LEMMA LegibleIf ==
  ASSUME NEW p, NEW type \in 0..15, NEW flags \in 0..15, NEW body \in Seq(Octet),
         Encode(p) = Frame(type, flags, body), Len(Encode(p)) < 130,
         \A f \in Seq(Octet) : f[1] \div 16 = type /\ From(f, 3) = body => ReadPacket(f) = {p}
  PROVE  Legible(p)
<1>1. PICK f : f = Frame(type, flags, body)
  OBVIOUS
<1>2. /\ f \in Seq(Octet) /\ Len(f) = 2 + Len(body) /\ Len(body) \in Nat
      /\ f[1] \div 16 = type /\ f[1] % 16 = flags /\ f[2] = Len(body)
      /\ From(f, 3) = body
  <2>1. Len(body) < 128
    BY ShortBody
  <2> QED BY <1>1, <2>1, ShortFrame
<1>3. ReadPacket(f) = {p}
  BY <1>1, <1>2
<1>4. Len(f) >= 2 /\ f[2] = Len(f) - 2
  BY <1>2
<1> QED BY <1>1, <1>2, <1>3, <1>4 DEF Legible

\* The relay's packets, in the order of RelayConfig and of what the registry asks.
Pings == {[kind |-> "PINGREQ"]}
Disconnections == {[kind |-> "DISCONNECT"]}
Subscriptions == [kind : {"SUBSCRIBE"}, packetId : Lengths, filter : Strings]

LEMMA PingIsLegible ==
  ASSUME NEW p \in Pings, Len(Encode(p)) < 130
  PROVE  Legible(p)
<1>1. Encode(p) = Frame(12, 0, <<>>)
  BY DEF Pings, Encode, EncodePingReq, PINGREQ
<1>2. \A f \in Seq(Octet) : f[1] \div 16 = 12 => ReadPacket(f) = {p}
  BY DEF ReadPacket, Pings, CONNECT, SUBSCRIBE, PUBLISH, PINGREQ
<1>3. 12 \in 0..15 /\ 0 \in 0..15 /\ <<>> \in Seq(Octet)
  OBVIOUS
<1> QED BY <1>1, <1>2, <1>3, LegibleIf

LEMMA DisconnectionIsLegible ==
  ASSUME NEW p \in Disconnections, Len(Encode(p)) < 130
  PROVE  Legible(p)
<1>1. Encode(p) = Frame(14, 0, <<>>)
  BY DEF Disconnections, Encode, EncodeDisconnect, DISCONNECT
<1>2. \A f \in Seq(Octet) : f[1] \div 16 = 14 => ReadPacket(f) = {p}
  BY DEF ReadPacket, Disconnections, CONNECT, SUBSCRIBE, PUBLISH, PINGREQ
<1>3. 14 \in 0..15 /\ 0 \in 0..15 /\ <<>> \in Seq(Octet)
  OBVIOUS
<1> QED BY <1>1, <1>2, <1>3, LegibleIf

LEMMA Itself ==
  ASSUME NEW a \in Seq(Octet)
  PROVE  At(a, a, 0)
BY DEF At

\* What one more piece adds to a body.
LEMMA Glue ==
  ASSUME NEW a \in Seq(Octet), NEW b \in Seq(Octet)
  PROVE  \E d \in Seq(Octet) :
            /\ d = a \o b /\ Len(d) = Len(a) + Len(b)
            /\ \A s \in Seq(Octet) : At(d, s, 0) => At(a, s, 0) /\ At(b, s, Len(a))
<1>1. a \o b \in Seq(Octet) /\ Len(a \o b) = Len(a) + Len(b) /\ Len(a) \in Nat
  BY ConcatProperties
<1>2. ASSUME NEW s \in Seq(Octet), At(a \o b, s, 0)
      PROVE  At(a, s, 0) /\ At(b, s, Len(a))
  <2>1. Len(s) \in Nat /\ 0 \in Nat
    OBVIOUS
  <2>2. At(a, s, 0) /\ At(b, s, 0 + Len(a))
    BY <1>2, <2>1, AtHalves
  <2>3. 0 + Len(a) = Len(a)
    BY <1>1
  <2> QED BY <2>2, <2>3
<1> QED BY <1>1, <1>2

LEMMA OneOctet ==
  ASSUME NEW n \in Nat, n < 256
  PROVE  \E z \in Seq(Octet) : z = <<n>> /\ Len(z) = 1
<1>1. n \in Octet
  BY OctetOf
<1>2. <<n>> \in Seq(Octet) /\ Len(<<n>>) = 1
  BY <1>1
<1> QED BY <1>2

LEMMA SubscriptionIsLegible ==
  ASSUME NEW p \in Subscriptions, Len(Encode(p)) < 130
  PROVE  Legible(p)
<1>1. p = [kind |-> "SUBSCRIBE", packetId |-> p.packetId, filter |-> p.filter]
      /\ p.packetId \in Lengths /\ p.filter \in Strings
  BY DEF Subscriptions
<1> DEFINE n == PutU16(p.packetId)
           s == PutString(p.filter)
<1>2. /\ n \in Seq(Octet) /\ Len(n) = 2
      /\ \A b, x : x \in Nat /\ Len(b) \in Nat /\ At(n, b, x) =>
                         x + 2 <= Len(b) /\ U16(b, x + 1) = p.packetId
  BY <1>1, LengthReadsBack
<1>3. /\ s \in Seq(Octet) /\ Len(s) = 2 + Len(p.filter) /\ Len(p.filter) \in Nat
      /\ \A b \in Seq(Octet), x \in Nat : At(s, b, x) =>
               /\ (x + 2) + Len(p.filter) <= Len(b)
               /\ U16(b, x + 1) = Len(p.filter)
               /\ SubSeq(b, x + 3, (x + 2) + Len(p.filter)) = p.filter
  BY <1>1, StringReadsBack
<1>4. Encode(p) = Frame(8, 2, ((n \o <<0>>) \o s) \o <<0>>)
  BY <1>1 DEF Encode, EncodeSubscribe, SUBSCRIBE
<1> HIDE DEF n, s
<1>5. PICK z \in Seq(Octet) : z = <<0>> /\ Len(z) = 1
  BY OneOctet
<1>6. n \in Seq(Octet) /\ s \in Seq(Octet)
  BY <1>2, <1>3
<1>7. PICK c \in Seq(Octet) :
         /\ c = n \o z /\ Len(c) = Len(n) + Len(z)
         /\ \A b \in Seq(Octet) : At(c, b, 0) => At(n, b, 0) /\ At(z, b, Len(n))
  BY <1>6, Glue
<1>8. PICK d \in Seq(Octet) :
         /\ d = c \o s /\ Len(d) = Len(c) + Len(s)
         /\ \A b \in Seq(Octet) : At(d, b, 0) => At(c, b, 0) /\ At(s, b, Len(c))
  BY <1>6, Glue
<1>9. PICK body \in Seq(Octet) :
         /\ body = d \o z /\ Len(body) = Len(d) + Len(z)
         /\ \A b \in Seq(Octet) : At(body, b, 0) => At(d, b, 0) /\ At(z, b, Len(d))
  BY Glue
<1>10. Len(c) = 3 /\ Len(body) = 3 + (2 + Len(p.filter)) + 1
  BY <1>2, <1>3, <1>5, <1>7, <1>8, <1>9
<1>11. At(n, body, 0) /\ At(s, body, 3)
  BY <1>7, <1>8, <1>9, <1>10, Itself
<1>12. U16(body, 1) = p.packetId
  <2>1. Len(body) \in Nat /\ 0 + 1 = 1 /\ 0 \in Nat
    OBVIOUS
  <2> QED BY <1>2, <1>11, <2>1
<1>13. Text(body, 4) = p.filter
  <2>1. At(s, body, 3) /\ 3 + 1 = 4 /\ 3 + 3 = 6 /\ 3 \in Nat /\ 4 + 2 = 6
    BY <1>11
  <2>2. U16(body, 4) = Len(p.filter) /\ SubSeq(body, 6, (3 + 2) + Len(p.filter)) = p.filter
    BY <1>3, <2>1
  <2>3. (3 + 2) + Len(p.filter) = 4 + 1 + Len(p.filter)
    BY <1>3
  <2> QED BY <2>1, <2>2, <2>3 DEF Text
<1>14. \A f \in Seq(Octet) : f[1] \div 16 = 8 /\ From(f, 3) = body => ReadPacket(f) = {p}
  BY <1>1, <1>12, <1>13 DEF ReadPacket, CONNECT, SUBSCRIBE, PUBLISH, PINGREQ
<1>15. Encode(p) = Frame(8, 2, body)
  <2>1. z = <<0>> /\ c = n \o z /\ d = c \o s /\ body = d \o z
    BY <1>5, <1>7, <1>8, <1>9
  <2> QED BY <1>4, <2>1
<1>16. 8 \in 0..15 /\ 2 \in 0..15
  OBVIOUS
<1> QED BY <1>14, <1>15, <1>16, LegibleIf

\* A string where it stands: its text, and where the next thing begins.
LEMMA StringAt ==
  ASSUME NEW s \in Strings, NEW b \in Seq(Octet), NEW x \in Nat, At(PutString(s), b, x)
  PROVE  /\ Text(b, x + 1) = s
         /\ (x + 1) + 2 + U16(b, x + 1) = (x + 1) + 2 + Len(s)
         /\ x + 1 \in 1..Len(b) /\ (x + 2) + Len(s) <= Len(b)
<1>1. /\ (x + 2) + Len(s) <= Len(b) /\ Len(s) \in Nat
      /\ U16(b, x + 1) = Len(s)
      /\ SubSeq(b, x + 3, (x + 2) + Len(s)) = s
  BY StringReadsBack
<1>2. Len(b) \in Nat
  OBVIOUS
<1>3. x + 1 \in 1..Len(b)
  BY <1>1, <1>2
<1>4. (x + 1) + 2 = x + 3 /\ (x + 1) + 1 + Len(s) = (x + 2) + Len(s)
  BY <1>1
<1>5. Text(b, x + 1) = s
  BY <1>1, <1>4 DEF Text
<1> QED BY <1>1, <1>3, <1>5

Connections ==
    [kind : {"CONNECT"}, clientId : Strings, keepAlive : Lengths,
     will : [topic : Strings, payload : Strings, retain : BOOLEAN],
     username : Strings, password : Strings]

LEMMA ConnectFlagsSay ==
  ASSUME NEW c
  PROVE  LET n == ConnectFlags(c)
         IN  /\ n \in Nat /\ n < 256
             /\ (n >= 128) <=> (c.username # <<>>)
             /\ ((n \div 64) % 2 = 1) <=> (c.password # <<>>)
             /\ ((n \div 32) % 2 = 1) <=> c.will.retain
<1> DEFINE n == ConnectFlags(c)
           u == IF c.username # <<>> THEN 128 ELSE 0
           w == IF c.password # <<>> THEN 64 ELSE 0
           r == IF c.will.retain THEN 36 ELSE 4
<1>1. n = 2 + r + u + w
  BY DEF ConnectFlags
<1>2. (u = 128 /\ c.username # <<>>) \/ (u = 0 /\ c.username = <<>>)
  OBVIOUS
<1>3. (w = 64 /\ c.password # <<>>) \/ (w = 0 /\ c.password = <<>>)
  OBVIOUS
<1>4. (r = 36 /\ c.will.retain) \/ (r = 4 /\ ~c.will.retain)
  OBVIOUS
<1> HIDE DEF n, u, w, r
<1>5. /\ n \in Nat /\ n < 256
      /\ n >= 128 <=> u = 128
      /\ (n \div 64) % 2 = 1 <=> w = 64
      /\ (n \div 32) % 2 = 1 <=> r = 36
  BY <1>1, <1>2, <1>3, <1>4
<1>6. /\ u = 128 <=> c.username # <<>>
      /\ w = 64 <=> c.password # <<>>
      /\ r = 36 <=> c.will.retain
  BY <1>2, <1>3, <1>4
<1> QED BY <1>5, <1>6 DEF n

LEMMA IfSetIs ==
  ASSUME NEW s \in Strings
  PROVE  /\ PutIfSet(s) \in Seq(Octet)
         /\ s # <<>> => PutIfSet(s) = PutString(s)
         /\ s = <<>> => Len(PutIfSet(s)) = 0
<1>1. PutString(s) \in Seq(Octet)
  BY StringReadsBack
<1>2. <<>> \in Seq(Octet) /\ Len(<<>>) = 0
  OBVIOUS
<1> QED BY <1>1, <1>2 DEF PutIfSet

\* Where the parts of a CONNECT lie in its body.
ConnectLies(p, body) ==
    LET id == 11
        topic == id + 2 + Len(p.clientId) + 1
        message == topic + 2 + Len(p.will.topic)
        name == message + 2 + Len(p.will.payload)
        secret == name + Len(PutIfSet(p.username))
    IN  /\ body[8] = ConnectFlags(p)
        /\ At(PutU16(p.keepAlive), body, 8)
        /\ At(PutString(p.clientId), body, id)
        /\ At(PutString(p.will.topic), body, topic)
        /\ At(PutString(p.will.payload), body, message)
        /\ At(PutIfSet(p.username), body, name)
        /\ At(PutIfSet(p.password), body, secret)

LEMMA ConnectBody ==
  ASSUME NEW p \in Connections
  PROVE  \E body \in Seq(Octet) : Encode(p) = Frame(1, 0, body) /\ ConnectLies(p, body)
<1> DEFINE protocol == PutString(<<77, 81, 84, 84>>)
           level == <<5, ConnectFlags(p)>>
           keep == PutU16(p.keepAlive)
           id == PutString(p.clientId)
           topic == PutString(p.will.topic)
           message == PutString(p.will.payload)
           name == PutIfSet(p.username)
           secret == PutIfSet(p.password)
<1>1. /\ p.kind = "CONNECT" /\ p.keepAlive \in Lengths /\ p.clientId \in Strings
      /\ p.will.topic \in Strings /\ p.will.payload \in Strings
      /\ p.username \in Strings /\ p.password \in Strings
  BY DEF Connections
<1>2. protocol \in Seq(Octet) /\ Len(protocol) = 6
  <2>1. 77 \in Octet /\ 81 \in Octet /\ 84 \in Octet
    BY OctetOf
  <2>2. PICK s : s = <<77, 81, 84, 84>>
    OBVIOUS
  <2>3. s \in Seq(Octet) /\ Len(s) = 4
    BY <2>1, <2>2
  <2>4. s \in Strings
    BY <2>3 DEF Strings, Lengths
  <2>5. PutString(s) \in Seq(Octet) /\ Len(PutString(s)) = 2 + Len(s)
    BY <2>4, StringReadsBack
  <2> QED BY <2>2, <2>3, <2>5
<1>3. level \in Seq(Octet) /\ Len(level) = 2 /\ level[2] = ConnectFlags(p)
  <2>1. ConnectFlags(p) \in Nat /\ ConnectFlags(p) < 256
    BY ConnectFlagsSay
  <2>2. ConnectFlags(p) \in Octet /\ 5 \in Octet
    BY <2>1, OctetOf
  <2> QED BY <2>2
<1>4. keep \in Seq(Octet) /\ Len(keep) = 2
  BY <1>1, LengthReadsBack
<1>5. /\ id \in Seq(Octet) /\ Len(id) = 2 + Len(p.clientId) /\ Len(p.clientId) \in Nat
  BY <1>1, StringReadsBack
<1>6. topic \in Seq(Octet) /\ Len(topic) = 2 + Len(p.will.topic) /\ Len(p.will.topic) \in Nat
  BY <1>1, StringReadsBack
<1>7. /\ message \in Seq(Octet) /\ Len(message) = 2 + Len(p.will.payload)
      /\ Len(p.will.payload) \in Nat
  BY <1>1, StringReadsBack
<1>8. name \in Seq(Octet) /\ secret \in Seq(Octet) /\ Len(name) \in Nat
  BY <1>1, IfSetIs
<1>9. PICK z \in Seq(Octet) : z = <<0>> /\ Len(z) = 1
  BY OneOctet
<1>10. Encode(p) = Frame(1, 0, ((((((((protocol \o level) \o keep) \o z) \o id) \o z)
                                \o topic) \o message) \o name) \o secret)
  BY <1>1, <1>9 DEF Encode, EncodeConnect, CONNECT
<1> HIDE DEF protocol, level, keep, id, topic, message, name, secret
<1>11. PICK c1 \in Seq(Octet) :
          /\ c1 = protocol \o level /\ Len(c1) = Len(protocol) + Len(level)
          /\ \A s \in Seq(Octet) : At(c1, s, 0) => At(protocol, s, 0) /\ At(level, s, Len(protocol))
  BY <1>2, <1>3, Glue
<1>12. PICK c2 \in Seq(Octet) :
          /\ c2 = c1 \o keep /\ Len(c2) = Len(c1) + Len(keep)
          /\ \A s \in Seq(Octet) : At(c2, s, 0) => At(c1, s, 0) /\ At(keep, s, Len(c1))
  BY <1>4, Glue
<1>13. PICK c3 \in Seq(Octet) :
          /\ c3 = c2 \o z /\ Len(c3) = Len(c2) + Len(z)
          /\ \A s \in Seq(Octet) : At(c3, s, 0) => At(c2, s, 0) /\ At(z, s, Len(c2))
  BY Glue
<1>14. PICK c4 \in Seq(Octet) :
          /\ c4 = c3 \o id /\ Len(c4) = Len(c3) + Len(id)
          /\ \A s \in Seq(Octet) : At(c4, s, 0) => At(c3, s, 0) /\ At(id, s, Len(c3))
  BY <1>5, Glue
<1>15. PICK c5 \in Seq(Octet) :
          /\ c5 = c4 \o z /\ Len(c5) = Len(c4) + Len(z)
          /\ \A s \in Seq(Octet) : At(c5, s, 0) => At(c4, s, 0) /\ At(z, s, Len(c4))
  BY Glue
<1>16. PICK c6 \in Seq(Octet) :
          /\ c6 = c5 \o topic /\ Len(c6) = Len(c5) + Len(topic)
          /\ \A s \in Seq(Octet) : At(c6, s, 0) => At(c5, s, 0) /\ At(topic, s, Len(c5))
  BY <1>6, Glue
<1>17. PICK c7 \in Seq(Octet) :
          /\ c7 = c6 \o message /\ Len(c7) = Len(c6) + Len(message)
          /\ \A s \in Seq(Octet) : At(c7, s, 0) => At(c6, s, 0) /\ At(message, s, Len(c6))
  BY <1>7, Glue
<1>18. PICK c8 \in Seq(Octet) :
          /\ c8 = c7 \o name /\ Len(c8) = Len(c7) + Len(name)
          /\ \A s \in Seq(Octet) : At(c8, s, 0) => At(c7, s, 0) /\ At(name, s, Len(c7))
  BY <1>8, Glue
<1>19. PICK body \in Seq(Octet) :
          /\ body = c8 \o secret /\ Len(body) = Len(c8) + Len(secret)
          /\ \A s \in Seq(Octet) : At(body, s, 0) => At(c8, s, 0) /\ At(secret, s, Len(c8))
  BY <1>8, Glue
<1>20. /\ Len(c1) = 8 /\ Len(c2) = 10 /\ Len(c3) = 11
       /\ Len(c4) = 11 + (2 + Len(p.clientId)) /\ Len(c5) = Len(c4) + 1
  <2>1. /\ Len(c1) = Len(protocol) + Len(level) /\ Len(c2) = Len(c1) + Len(keep)
        /\ Len(c3) = Len(c2) + Len(z) /\ Len(c4) = Len(c3) + Len(id)
        /\ Len(c5) = Len(c4) + Len(z)
    BY <1>11, <1>12, <1>13, <1>14, <1>15
  <2>2. /\ Len(protocol) = 6 /\ Len(level) = 2 /\ Len(keep) = 2 /\ Len(z) = 1
        /\ Len(id) = 2 + Len(p.clientId)
    BY <1>2, <1>3, <1>4, <1>5, <1>9
  <2>3. Len(c1) = 8 /\ Len(c2) = 10 /\ Len(c3) = 11
    BY <2>1, <2>2
  <2> QED BY <2>1, <2>2, <2>3
<1>21. At(c8, body, 0) /\ At(secret, body, Len(c8))
  BY <1>19, Itself
<1>22. At(c7, body, 0) /\ At(name, body, Len(c7))
  BY <1>18, <1>21
<1>23. At(c6, body, 0) /\ At(message, body, Len(c6))
  BY <1>17, <1>22
<1>24. At(c5, body, 0) /\ At(topic, body, Len(c5))
  BY <1>16, <1>23
<1>25. At(c4, body, 0)
  BY <1>15, <1>24
<1>26. At(c3, body, 0) /\ At(id, body, 11)
  BY <1>14, <1>20, <1>25
<1>27. At(c2, body, 0)
  BY <1>13, <1>26
<1>28. At(c1, body, 0) /\ At(keep, body, 8)
  BY <1>12, <1>20, <1>27
<1>29. At(level, body, 6)
  BY <1>2, <1>11, <1>28
<1>30. body[8] = ConnectFlags(p)
  <2>1. 2 \in 1..2 /\ 6 + 2 = 8
    OBVIOUS
  <2> QED BY <1>3, <1>29, <2>1 DEF At
<1>31. /\ Len(c5) = 11 + 2 + Len(p.clientId) + 1
       /\ Len(c6) = Len(c5) + 2 + Len(p.will.topic)
       /\ Len(c7) = Len(c6) + 2 + Len(p.will.payload)
       /\ Len(c8) = Len(c7) + Len(name)
  <2>1. Len(c5) = 11 + 2 + Len(p.clientId) + 1 /\ Len(c5) \in Nat
    BY <1>5, <1>20
  <2>2. Len(c6) = Len(c5) + 2 + Len(p.will.topic) /\ Len(c6) \in Nat
    <3>1. Len(c6) = Len(c5) + Len(topic)
      BY <1>16
    <3>3. Len(c6) = Len(c5) + (2 + Len(p.will.topic)) /\ Len(p.will.topic) \in Nat
      BY <1>6, <3>1
    <3>4. PICK m \in Nat : m = Len(p.will.topic)
      BY <3>3
    <3>5. Len(c5) \in Nat /\ Len(c6) = Len(c5) + (2 + m)
      BY <2>1, <3>3, <3>4
    <3>6. Len(c6) = Len(c5) + 2 + m /\ Len(c6) \in Nat
      BY <3>5
    <3> QED BY <3>4, <3>6
  <2>3. Len(c7) = Len(c6) + 2 + Len(p.will.payload)
    <3>1. Len(c7) = Len(c6) + Len(message)
      BY <1>17
    <3>2. \A m, k \in Nat : k + (2 + m) = k + 2 + m
      OBVIOUS
    <3>3. Len(c7) = Len(c6) + (2 + Len(p.will.payload)) /\ Len(p.will.payload) \in Nat
      BY <1>7, <3>1
    <3> QED BY <2>2, <3>2, <3>3
  <2> QED BY <1>18, <2>1, <2>2, <2>3
<1>32. ConnectLies(p, body)
  BY <1>21, <1>22, <1>23, <1>24, <1>26, <1>28, <1>30, <1>31
  DEF ConnectLies, keep, id, topic, message, name, secret
<1>33. Encode(p) = Frame(1, 0, body)
  BY <1>10, <1>11, <1>12, <1>13, <1>14, <1>15, <1>16, <1>17, <1>18, <1>19
<1> QED BY <1>32, <1>33

LEMMA ConnectionIsLegible ==
  ASSUME NEW p \in Connections, Len(Encode(p)) < 130
  PROVE  Legible(p)
<1>1. /\ p.kind = "CONNECT" /\ p.keepAlive \in Lengths /\ p.clientId \in Strings
      /\ p.will.topic \in Strings /\ p.will.payload \in Strings /\ p.will.retain \in BOOLEAN
      /\ p.username \in Strings /\ p.password \in Strings
      /\ p = [kind |-> "CONNECT", clientId |-> p.clientId, keepAlive |-> p.keepAlive,
              will |-> [topic |-> p.will.topic, payload |-> p.will.payload,
                        retain |-> p.will.retain],
              username |-> p.username, password |-> p.password]
  BY DEF Connections
<1>2. PICK body \in Seq(Octet) : Encode(p) = Frame(1, 0, body) /\ ConnectLies(p, body)
  BY ConnectBody
<1> DEFINE i == Len(p.clientId)
           t == Len(p.will.topic)
           m == Len(p.will.payload)
           topic == 11 + 2 + i + 1
           message == topic + 2 + t
           name == message + 2 + m
           secret == name + Len(PutIfSet(p.username))
           after == [at \in 1..Len(body) |-> at + 2 + U16(body, at)]
<1>3. /\ body[8] = ConnectFlags(p)
      /\ At(PutU16(p.keepAlive), body, 8)
      /\ At(PutString(p.clientId), body, 11)
      /\ At(PutString(p.will.topic), body, topic)
      /\ At(PutString(p.will.payload), body, message)
      /\ At(PutIfSet(p.username), body, name)
      /\ At(PutIfSet(p.password), body, secret)
  BY <1>2 DEF ConnectLies
<1>4. i \in Nat /\ t \in Nat /\ m \in Nat /\ Len(p.username) \in Nat
  BY <1>1, StringReadsBack
<1>5. /\ body[8] >= 128 <=> p.username # <<>>
      /\ (body[8] \div 64) % 2 = 1 <=> p.password # <<>>
      /\ (body[8] \div 32) % 2 = 1 <=> p.will.retain
  BY <1>3, ConnectFlagsSay
<1>6. U16(body, 9) = p.keepAlive
  <2>1. 8 \in Nat /\ 8 + 1 = 9 /\ Len(body) \in Nat
    OBVIOUS
  <2> QED BY <1>1, <1>3, <2>1, LengthReadsBack
<1> HIDE DEF i, t, m
<1>7. topic \in Nat /\ message \in Nat /\ name \in Nat
  BY <1>4
<1>8. Text(body, 12) = p.clientId /\ after[12] + 1 = topic + 1
  <2>1. 11 \in Nat /\ 11 + 1 = 12
    OBVIOUS
  <2>2. /\ Text(body, 12) = p.clientId /\ 12 \in 1..Len(body)
        /\ 12 + 2 + U16(body, 12) = 12 + 2 + i
    <3>1. p.clientId \in Strings /\ At(PutString(p.clientId), body, 11)
      BY <1>1, <1>3
    <3>2. /\ Text(body, 11 + 1) = p.clientId /\ 11 + 1 \in 1..Len(body)
          /\ (11 + 1) + 2 + U16(body, 11 + 1) = (11 + 1) + 2 + Len(p.clientId)
      BY <2>1, <3>1, StringAt
    <3> QED BY <2>1, <3>2 DEF i
  <2>3. after[12] = 12 + 2 + i
    BY <2>2
  <2> QED BY <1>4, <2>2, <2>3
<1>9. Text(body, topic + 1) = p.will.topic /\ after[topic + 1] = message + 1
  <2>1. /\ Text(body, topic + 1) = p.will.topic /\ topic + 1 \in 1..Len(body)
        /\ (topic + 1) + 2 + U16(body, topic + 1) = (topic + 1) + 2 + t
    <3>1. p.will.topic \in Strings /\ At(PutString(p.will.topic), body, topic) /\ topic \in Nat
      BY <1>1, <1>3, <1>7
    <3> HIDE DEF topic
    <3> QED BY <3>1, StringAt DEF t
  <2>2. after[topic + 1] = (topic + 1) + 2 + t
    BY <2>1
  <2> QED BY <1>4, <2>1, <2>2
<1>10. Text(body, message + 1) = p.will.payload /\ after[message + 1] = name + 1
  <2>1. /\ Text(body, message + 1) = p.will.payload /\ message + 1 \in 1..Len(body)
        /\ (message + 1) + 2 + U16(body, message + 1) = (message + 1) + 2 + m
    <3>1. p.will.payload \in Strings /\ At(PutString(p.will.payload), body, message) /\ message \in Nat
      BY <1>1, <1>3, <1>7
    <3> HIDE DEF message
    <3> QED BY <3>1, StringAt DEF m
  <2>2. after[message + 1] = (message + 1) + 2 + m
    BY <2>1
  <2> QED BY <1>4, <2>1, <2>2
<1>11. ASSUME p.username # <<>>
       PROVE  Text(body, name + 1) = p.username /\ after[name + 1] = secret + 1
  <2>1. At(PutString(p.username), body, name)
    BY <1>1, <1>3, <1>11, IfSetIs
  <2>2. /\ Text(body, name + 1) = p.username /\ name + 1 \in 1..Len(body)
        /\ (name + 1) + 2 + U16(body, name + 1) = (name + 1) + 2 + Len(p.username)
    BY <1>1, <1>7, <2>1, StringAt
  <2>3. after[name + 1] = (name + 1) + 2 + Len(p.username)
    BY <2>2
  <2>4. secret = name + (2 + Len(p.username))
    BY <1>1, <1>11, IfSetIs, StringReadsBack
  <2>5. \A x, l \in Nat : (x + 1) + 2 + l = (x + (2 + l)) + 1
    OBVIOUS
  <2> HIDE DEF name, secret, after
  <2> QED BY <1>4, <1>7, <2>2, <2>3, <2>4, <2>5
<1>12. p.username = <<>> => secret = name
  BY <1>1, <1>7, IfSetIs
<1>13. secret \in Nat
  <2>1. Len(PutIfSet(p.username)) \in Nat
    BY <1>1, IfSetIs
  <2> QED BY <1>7, <2>1
<1>14. p.password # <<>> => Text(body, secret + 1) = p.password
  BY <1>1, <1>3, <1>13, IfSetIs, StringAt
<1> DEFINE s == IF body[8] >= 128 THEN after[name + 1] ELSE name + 1
<1>15. ReadConnect(body) =
         [kind |-> "CONNECT", clientId |-> Text(body, 12), keepAlive |-> U16(body, 9),
          will |-> [topic |-> Text(body, topic + 1), payload |-> Text(body, message + 1),
                    retain |-> (body[8] \div 32) % 2 = 1],
          username |-> IF body[8] >= 128 THEN Text(body, name + 1) ELSE <<>>,
          password |-> IF (body[8] \div 64) % 2 = 1 THEN Text(body, s) ELSE <<>>]
  <2>1. ReadConnect(body) =
         [kind |-> "CONNECT", clientId |-> Text(body, 12), keepAlive |-> U16(body, 9),
          will |-> [topic |-> Text(body, after[12] + 1),
                    payload |-> Text(body, after[after[12] + 1]),
                    retain |-> (body[8] \div 32) % 2 = 1],
          username |-> IF body[8] >= 128 THEN Text(body, after[after[after[12] + 1]]) ELSE <<>>,
          password |-> IF (body[8] \div 64) % 2 = 1
                       THEN Text(body, IF body[8] >= 128
                                       THEN after[after[after[after[12] + 1]]]
                                       ELSE after[after[after[12] + 1]])
                       ELSE <<>>]
    BY DEF ReadConnect
  <2> HIDE DEF topic, message, name, after, secret
  <2>2. /\ after[12] + 1 = topic + 1 /\ after[after[12] + 1] = message + 1
        /\ after[after[after[12] + 1]] = name + 1
    BY <1>8, <1>9, <1>10
  <2> QED BY <2>1, <2>2 DEF s
<1>16. s = secret + 1
  BY <1>5, <1>11, <1>12
<1> HIDE DEF topic, message, name, secret, after, s
<1>17. /\ (IF body[8] >= 128 THEN Text(body, name + 1) ELSE <<>>) = p.username
       /\ (IF (body[8] \div 64) % 2 = 1 THEN Text(body, s) ELSE <<>>) = p.password
       /\ ((body[8] \div 32) % 2 = 1) = p.will.retain
  BY <1>1, <1>5, <1>11, <1>14, <1>16
<1>18. ReadConnect(body) = p
  BY <1>1, <1>6, <1>8, <1>9, <1>10, <1>15, <1>17
<1>19. \A f \in Seq(Octet) : f[1] \div 16 = 1 /\ From(f, 3) = body => ReadPacket(f) = {p}
  BY <1>18 DEF ReadPacket, CONNECT, SUBSCRIBE, PUBLISH, PINGREQ
<1>20. 1 \in 0..15 /\ 0 \in 0..15
  OBVIOUS
<1> QED BY <1>2, <1>19, <1>20, LegibleIf
-----------------------------------------------------------------------------
(* The properties of a PUBLISH.                                             *)

\* Parsing a block from an octet on: what ParseProperties computes.
Parses(b, n, f) ==
    f = [at \in n..(Len(b) + 1) |->
            IF at > Len(b) THEN {<<>>}
            ELSE UNION {{OwnProperty(b, at) \o later : later \in f[end]} :
                           end \in PropertyEnds(b, at)}]

LEMMA ParsePropertiesIs ==
  ASSUME NEW b \in Seq(Octet), \E f : Parses(b, 1, f)
  PROVE  \E f : Parses(b, 1, f) /\ ParseProperties(b) = f[1]
<1> DEFINE f == CHOOSE f : f = [at \in 1..(Len(b) + 1) |->
            IF at > Len(b) THEN {<<>>}
            ELSE UNION {{OwnProperty(b, at) \o later : later \in f[end]} :
                           end \in PropertyEnds(b, at)}]
<1>1. f = [at \in 1..(Len(b) + 1) |->
            IF at > Len(b) THEN {<<>>}
            ELSE UNION {{OwnProperty(b, at) \o later : later \in f[end]} :
                           end \in PropertyEnds(b, at)}]
  BY DEF Parses
<1>2. ParseProperties(b) = f[1]
  BY DEF ParseProperties
<1> HIDE DEF f
<1> QED BY <1>1, <1>2 DEF Parses

\* A string, a number or so many octets end behind where they begin.
LEMMA StringEndsForward ==
  ASSUME NEW b \in Seq(Octet), NEW at \in Nat \ {0}, NEW end \in StringEnds(b, at)
  PROVE  end \in (at + 2)..(Len(b) + 1)
<1>1. /\ ~(at + 1 > Len(b)) /\ ~(at + 1 + U16(b, at) > Len(b))
      /\ end = at + 2 + U16(b, at) /\ Len(b) \in Nat
  BY DEF StringEnds
<1>2. U16(b, at) \in Nat
  <2>1. at \in 1..Len(b) /\ at + 1 \in 1..Len(b)
    BY <1>1
  <2>2. b[at] \in Nat /\ b[at + 1] \in Nat
    BY <2>1, Elements
  <2> QED BY <2>2 DEF U16
<1> QED BY <1>1, <1>2

LEMMA PropertyEndsForward ==
  ASSUME NEW b \in Seq(Octet), NEW at \in 1..Len(b), NEW end \in PropertyEnds(b, at)
  PROVE  end \in (at + 1)..(Len(b) + 1)
<1>1. Len(b) \in Nat /\ at \in Nat \ {0} /\ at + 1 \in Nat \ {0} /\ at <= Len(b)
  OBVIOUS
<1>2. ASSUME NEW n \in Nat, end \in SkipBytes(b, at + 1, n)
      PROVE  end \in (at + 1)..(Len(b) + 1)
  BY <1>1, <1>2 DEF SkipBytes
<1>3. ASSUME end \in StringEnds(b, at + 1)
      PROVE  end \in (at + 1)..(Len(b) + 1)
  <2>1. end \in ((at + 1) + 2)..(Len(b) + 1)
    BY <1>1, <1>3, StringEndsForward
  <2> QED BY <1>1, <2>1
<1>4. ASSUME end \in StringPairEnds(b, at + 1)
      PROVE  end \in (at + 1)..(Len(b) + 1)
  <2>1. PICK middle \in StringEnds(b, at + 1) : end \in StringEnds(b, middle)
    BY <1>4 DEF StringPairEnds
  <2>2. middle \in ((at + 1) + 2)..(Len(b) + 1)
    BY <1>1, <2>1, StringEndsForward
  <2>3. middle \in Nat \ {0} /\ middle >= at + 3
    BY <1>1, <2>2
  <2>4. end \in (middle + 2)..(Len(b) + 1)
    BY <2>1, <2>3, StringEndsForward
  <2> QED BY <1>1, <2>3, <2>4
<1>5. ASSUME end \in {v.next : v \in DecodeVarInt(b, at + 1)}
      PROVE  end \in (at + 1)..(Len(b) + 1)
  <2>1. PICK last \in VarIntEnds(b, at + 1) : end = last + 1
    BY <1>5 DEF DecodeVarInt
  <2>2. last \in (at + 1)..((at + 1) + 3) /\ last <= Len(b)
    BY <2>1 DEF VarIntEnds
  <2> QED BY <1>1, <2>1, <2>2
<1>6. \/ end \in StringPairEnds(b, at + 1)
      \/ end \in SkipBytes(b, at + 1, 1)
      \/ end \in SkipBytes(b, at + 1, 2)
      \/ end \in SkipBytes(b, at + 1, 4)
      \/ end \in {v.next : v \in DecodeVarInt(b, at + 1)}
      \/ end \in StringEnds(b, at + 1)
  BY DEF PropertyEnds
<1> QED BY <1>2, <1>3, <1>4, <1>5, <1>6

\* One more octet to parse from.
LEMMA ParsesMore ==
  ASSUME NEW b \in Seq(Octet), NEW n \in 1..Len(b), NEW g, Parses(b, n + 1, g)
  PROVE  \E f : Parses(b, n, f)
<1> DEFINE e(at, h) == IF at > Len(b) THEN {<<>>}
                       ELSE UNION {{OwnProperty(b, at) \o later : later \in h[end]} :
                                      end \in PropertyEnds(b, at)}
           D == n..(Len(b) + 1)
           f == [at \in D |-> IF at = n THEN e(n, g) ELSE g[at]]
<1>1. g = [at \in (n + 1)..(Len(b) + 1) |-> e(at, g)]
  BY DEF Parses
<1>2. Len(b) \in Nat /\ n \in Nat \ {0} /\ n <= Len(b)
  OBVIOUS
<1>3. \A end \in (n + 1)..(Len(b) + 1) : f[end] = g[end]
  <2> TAKE end \in (n + 1)..(Len(b) + 1)
  <2>1. end \in D /\ end # n
    BY <1>2
  <2> QED BY <2>1
<1> HIDE DEF f
<1>4. ASSUME NEW at \in D
      PROVE  e(at, f) = e(at, g)
  <2>1. CASE at > Len(b)
    BY <2>1
  <2>2. CASE ~(at > Len(b))
    <3>1. at \in 1..Len(b) /\ at >= n
      BY <1>2, <2>2
    <3>2. \A end \in PropertyEnds(b, at) : f[end] = g[end]
      <4> TAKE end \in PropertyEnds(b, at)
      <4>1. end \in (at + 1)..(Len(b) + 1)
        BY <3>1, PropertyEndsForward
      <4>2. end \in (n + 1)..(Len(b) + 1)
        BY <1>2, <3>1, <4>1
      <4> QED BY <1>3, <4>2
    <3>3. {{OwnProperty(b, at) \o later : later \in f[end]} : end \in PropertyEnds(b, at)}
            = {{OwnProperty(b, at) \o later : later \in g[end]} : end \in PropertyEnds(b, at)}
      BY <3>2
    <3> QED BY <2>2, <3>3
  <2> QED BY <2>1, <2>2
<1>5. ASSUME NEW at \in D
      PROVE  f[at] = e(at, g)
  <2>1. CASE at = n
    BY <2>1 DEF f
  <2>2. CASE at # n
    <3>1. at \in (n + 1)..(Len(b) + 1)
      BY <1>2, <2>2
    <3>2. f[at] = g[at]
      BY <1>3, <3>1
    <3> HIDE DEF e
    <3>3. g[at] = e(at, g)
      BY <1>1, <3>1
    <3> QED BY <3>2, <3>3
  <2> QED BY <2>1, <2>2
<1>6. \A at \in D : f[at] = e(at, f)
  <2> HIDE DEF e, D
  <2> QED BY <1>4, <1>5
<1>7. f = [at \in D |-> f[at]]
  BY DEF f
<1>8. f = [at \in D |-> e(at, f)]
  <2> DEFINE h == [at \in D |-> e(at, f)]
  <2>1. DOMAIN h = D /\ \A at \in D : h[at] = e(at, f)
    BY DEF h
  <2>2. h = [at \in D |-> h[at]]
    OBVIOUS
  <2> HIDE DEF h, e, D
  <2>3. \A at \in D : h[at] = f[at]
    BY <1>6, <2>1
  <2>4. h = f
    BY <1>7, <2>2, <2>3
  <2> QED BY <2>4 DEF h
<1> QED BY <1>8 DEF Parses

LEMMA ParsesExist ==
  ASSUME NEW b \in Seq(Octet)
  PROVE  \E f : Parses(b, 1, f)
<1> DEFINE Has(k) == \E f : Parses(b, Len(b) + 1 - k, f)
           Bad == {k \in 0..Len(b) : ~Has(k)}
<1>1. Len(b) \in Nat
  OBVIOUS
<1>2. SUFFICES ASSUME Bad # {} PROVE FALSE
  <2> HIDE DEF Has
  <2>1. Len(b) \in 0..Len(b) /\ Len(b) + 1 - Len(b) = 1
    BY <1>1
  <2>2. Bad = {} => Has(Len(b))
    BY <2>1
  <2> QED BY <2>1, <2>2 DEF Has
<1>3. PICK k \in Bad : \A m \in Bad : k <= m
  <2> HIDE DEF Has
  <2>1. Bad \in SUBSET Nat
    BY <1>1
  <2> HIDE DEF Bad
  <2> QED BY <1>2, <2>1, Smallest
<1>4. k \in 0..Len(b) /\ ~Has(k)
  OBVIOUS
<1>5. CASE k = 0
  <2> DEFINE f == [at \in (Len(b) + 1)..(Len(b) + 1) |-> {<<>>}]
             g == [at \in (Len(b) + 1)..(Len(b) + 1) |->
                     IF at > Len(b) THEN {<<>>}
                     ELSE UNION {{OwnProperty(b, at) \o later : later \in f[end]} :
                                    end \in PropertyEnds(b, at)}]
  <2>1. \A at \in (Len(b) + 1)..(Len(b) + 1) : at > Len(b)
    BY <1>1
  <2>2. f = g
    <3>1. \A at \in (Len(b) + 1)..(Len(b) + 1) : f[at] = g[at]
      BY <2>1
    <3>2. /\ f = [at \in (Len(b) + 1)..(Len(b) + 1) |-> f[at]]
          /\ g = [at \in (Len(b) + 1)..(Len(b) + 1) |-> g[at]]
      OBVIOUS
    <3> HIDE DEF f, g
    <3> QED BY <3>1, <3>2
  <2>3. Parses(b, Len(b) + 1, f)
    BY <2>2 DEF Parses
  <2>4. Len(b) + 1 - 0 = Len(b) + 1
    BY <1>1
  <2> QED BY <1>4, <1>5, <2>3, <2>4
<1>6. CASE k # 0
  <2>1. k - 1 \in 0..Len(b) /\ ~(k <= k - 1)
    BY <1>1, <1>4, <1>6
  <2>2. Has(k - 1)
    <3> HIDE DEF Has
    <3> QED BY <1>3, <2>1
  <2>3. PICK g : Parses(b, Len(b) + 1 - (k - 1), g)
    BY <2>2
  <2> DEFINE n == Len(b) + 1 - k
  <2>4. n \in 1..Len(b) /\ Len(b) + 1 - (k - 1) = n + 1
    BY <1>1, <1>4, <1>6
  <2>5. \E f : Parses(b, n, f)
    <3> HIDE DEF n
    <3> QED BY <2>3, <2>4, ParsesMore
  <2> QED BY <1>4, <2>5
<1> QED BY <1>5, <1>6

UserProperties == [key : Strings, value : Strings]

Piece(u) == <<38>> \o PutString(u.key) \o PutString(u.value)
Pieces(user) == [i \in DOMAIN user |-> Piece(user[i])]

LEMMA StringEndsAt ==
  ASSUME NEW s \in Strings, NEW b \in Seq(Octet), NEW x \in Nat, At(PutString(s), b, x)
  PROVE  StringEnds(b, x + 1) = {x + 3 + Len(s)}
<1>1. /\ (x + 2) + Len(s) <= Len(b) /\ Len(s) \in Nat /\ U16(b, x + 1) = Len(s)
      /\ Len(b) \in Nat
  BY StringReadsBack
<1>2. /\ ~((x + 1) + 1 > Len(b)) /\ ~((x + 1) + 1 + Len(s) > Len(b))
      /\ (x + 1) + 2 + Len(s) = x + 3 + Len(s)
  BY <1>1
<1> QED BY <1>1, <1>2 DEF StringEnds

\* A user property where it stands in a block.
LEMMA UserPropertyAt ==
  ASSUME NEW u \in UserProperties
  PROVE  /\ Piece(u) \in Seq(Octet) /\ Len(Piece(u)) \in Nat /\ Len(Piece(u)) >= 1
         /\ \A b \in Seq(Octet), x \in Nat : At(Piece(u), b, x) =>
               /\ OwnProperty(b, x + 1) = <<u>>
               /\ PropertyEnds(b, x + 1) = {x + Len(Piece(u)) + 1}
<1> DEFINE k == PutString(u.key)
           v == PutString(u.value)
           K == Len(u.key)
           V == Len(u.value)
<1>1. u.key \in Strings /\ u.value \in Strings /\ u = [key |-> u.key, value |-> u.value]
  BY DEF UserProperties
<1>2. k \in Seq(Octet) /\ Len(k) = 2 + K /\ K \in Nat
  BY <1>1, StringReadsBack
<1>3. v \in Seq(Octet) /\ Len(v) = 2 + V /\ V \in Nat
  BY <1>1, StringReadsBack
<1>4. PICK z \in Seq(Octet) : z = <<38>> /\ Len(z) = 1
  BY OneOctet
<1>5. Piece(u) = (z \o k) \o v
  BY <1>4 DEF Piece
<1> HIDE DEF k, v, K, V
<1>6. PICK c \in Seq(Octet) : c = z \o k /\ Len(c) = 3 + K
  <2>1. z \o k \in Seq(Octet) /\ Len(z \o k) = Len(z) + Len(k)
    BY <1>2, ConcatProperties
  <2>2. Len(z) + Len(k) = 3 + K
    BY <1>2, <1>4
  <2> QED BY <2>1, <2>2
<1>7. c \o v \in Seq(Octet) /\ Len(c \o v) = 5 + K + V
  <2>1. c \o v \in Seq(Octet) /\ Len(c \o v) = Len(c) + Len(v)
    BY <1>3, ConcatProperties
  <2>2. Len(c) + Len(v) = 5 + K + V
    BY <1>2, <1>3, <1>6
  <2> QED BY <2>1, <2>2
<1>8. ASSUME NEW b \in Seq(Octet), NEW x \in Nat, At(c \o v, b, x)
      PROVE  /\ PropertyEnds(b, x + 1) = {x + (5 + K + V) + 1}
             /\ OwnProperty(b, x + 1) = <<u>>
  <2>1. Len(b) \in Nat
    OBVIOUS
  <2>2. At(c, b, x) /\ At(v, b, x + Len(c))
    BY <1>3, <1>8, <2>1, AtHalves
  <2>3. At(z, b, x) /\ At(k, b, x + Len(z))
    BY <1>2, <1>6, <2>1, <2>2, AtHalves
  <2>4. At(k, b, x + 1) /\ At(v, b, x + 3 + K)
    <3>1. x + (3 + K) = x + 3 + K
      BY <1>2
    <3> QED BY <1>4, <1>6, <2>2, <2>3, <3>1
  <2>5. b[x + 1] = 38
    <3>1. z[1] = 38
      BY <1>4
    <3>2. z[1] = b[x + 1]
      BY <1>4, <2>3 DEF At
    <3> QED BY <3>1, <3>2
  <2>6. x + 1 \in Nat /\ x + 3 + K \in Nat
    BY <1>2
  <2>7. StringEnds(b, (x + 1) + 1) = {(x + 1) + 3 + K}
    BY <1>1, <2>4, <2>6, StringEndsAt DEF k, K
  <2>8. StringEnds(b, (x + 3 + K) + 1) = {(x + 3 + K) + 3 + V}
    BY <1>1, <2>4, <2>6, StringEndsAt DEF v, V
  <2>9. (x + 1) + 3 + K = (x + 3 + K) + 1 /\ (x + 3 + K) + 3 + V = x + (5 + K + V) + 1
    BY <1>2, <1>3
  <2>10. StringPairEnds(b, (x + 1) + 1) = {x + (5 + K + V) + 1}
    <3>1. StringPairEnds(b, (x + 1) + 1) = StringEnds(b, (x + 3 + K) + 1)
      BY <2>7, <2>9 DEF StringPairEnds
    <3> QED BY <2>8, <2>9, <3>1
  <2>11. PropertyEnds(b, x + 1) = {x + (5 + K + V) + 1}
    BY <2>5, <2>10 DEF PropertyEnds
  <2>12. /\ U16(b, (x + 1) + 1) = K
         /\ SubSeq(b, (x + 1) + 3, ((x + 1) + 2) + K) = u.key
    BY <1>1, <2>4, <2>6, StringReadsBack DEF k, K
  <2>13. /\ U16(b, (x + 3 + K) + 1) = V
         /\ SubSeq(b, (x + 3 + K) + 3, ((x + 3 + K) + 2) + V) = u.value
    BY <1>1, <2>4, <2>6, StringReadsBack DEF v, V
  <2>14. /\ (x + 1) + 3 + K = (x + 3 + K) + 1
         /\ ((x + 1) + 3 + K) - 1 = ((x + 1) + 2) + K
         /\ ((x + 1) + 3 + K) + 2 = (x + 3 + K) + 3
         /\ ((x + 1) + 3 + K) + 1 + V = ((x + 3 + K) + 2) + V
    BY <1>2, <1>3
  <2>15. UserProperty(b, x + 1) = [key |-> u.key, value |-> u.value]
    <3> DEFINE value == (x + 1) + 3 + U16(b, (x + 1) + 1)
    <3>1. UserProperty(b, x + 1) =
            [key |-> SubSeq(b, (x + 1) + 3, value - 1),
             value |-> SubSeq(b, value + 2, value + 1 + U16(b, value))]
      BY DEF UserProperty
    <3>2. value = (x + 1) + 3 + K /\ U16(b, value) = V
      BY <2>12, <2>13, <2>14
    <3> HIDE DEF value
    <3>3. SubSeq(b, (x + 1) + 3, value - 1) = u.key
      BY <2>12, <2>14, <3>2
    <3>4. SubSeq(b, value + 2, value + 1 + U16(b, value)) = u.value
      BY <2>13, <2>14, <3>2
    <3> QED BY <3>1, <3>3, <3>4
  <2>16. OwnProperty(b, x + 1) = <<u>>
    BY <1>1, <2>5, <2>15 DEF OwnProperty
  <2> QED BY <2>11, <2>16
<1>9. 5 + K + V \in Nat /\ 5 + K + V >= 1
  BY <1>2, <1>3
<1> QED BY <1>5, <1>6, <1>7, <1>8, <1>9

\* What is left of a sequence, one element at a time.
LEMMA Later ==
  ASSUME NEW S, NEW s \in Seq(S)
  PROVE  /\ From(s, 1) = s /\ From(s, Len(s) + 1) = <<>>
         /\ \A i \in 0..(Len(s) - 1) : <<s[i + 1]>> \o From(s, i + 2) = From(s, i + 1)
<1> DEFINE N == Len(s)
<1>1. N \in Nat /\ \A i \in 1..N : s[i] \in S
  OBVIOUS
<1>2. \A i \in 1..(N + 1) :
         /\ From(s, i) \in Seq(S) /\ Len(From(s, i)) = (N + 1) - i
         /\ \A j \in 1..((N + 1) - i) : From(s, i)[j] = s[i + j - 1]
  <2> TAKE i \in 1..(N + 1)
  <2> DEFINE u == SubSeq(s, i, N)
  <2>1. \A j \in i..N : s[j] \in S
    BY <1>1
  <2>2. /\ u \in Seq(S)
        /\ Len(u) = IF i <= N THEN N - i + 1 ELSE 0
        /\ \A j \in 1..(N - i + 1) : u[j] = s[i + j - 1]
    BY <1>1, <2>1, SubSeqProperties
  <2> HIDE DEF u
  <2>3. N - i + 1 = (N + 1) - i /\ Len(u) = (N + 1) - i
    BY <1>1, <2>2
  <2> QED BY <2>2, <2>3 DEF u, From
<1>3. From(s, 1) = s
  <2>1. /\ 1 \in 1..(N + 1) /\ (N + 1) - 1 = N /\ \A j \in 1..N : 1 + j - 1 = j
    BY <1>1
  <2>2. From(s, 1) \in Seq(S) /\ Len(From(s, 1)) = N /\ \A j \in 1..N : From(s, 1)[j] = s[j]
    BY <1>2, <2>1
  <2> QED BY <2>2, SeqEqual
<1>4. From(s, N + 1) = <<>>
  <2>1. N + 1 \in 1..(N + 1) /\ (N + 1) - (N + 1) = 0
    BY <1>1
  <2>2. From(s, N + 1) \in Seq(S) /\ Len(From(s, N + 1)) = 0
    BY <1>2, <2>1
  <2> QED BY <2>2
<1>5. ASSUME NEW i \in 0..(N - 1)
      PROVE  <<s[i + 1]>> \o From(s, i + 2) = From(s, i + 1)
  <2> DEFINE m == From(s, i + 2)
             n == From(s, i + 1)
  <2>1. i + 1 \in 1..N /\ i + 1 \in 1..(N + 1) /\ i + 2 \in 1..(N + 1) /\ N - i \in Nat \ {0}
        /\ (N + 1) - (i + 1) = N - i /\ (N + 1) - (i + 2) = (N - i) - 1
    BY <1>1
  <2>9. ASSUME NEW j \in 1..(N - i)
        PROVE  /\ (i + 1) + j - 1 = i + j
               /\ j # 1 => j - 1 \in 1..((N - i) - 1) /\ (i + 2) + (j - 1) - 1 = i + j /\ ~(j <= 1)
    BY <1>1
  <2>2. /\ m \in Seq(S) /\ Len(m) = (N - i) - 1
        /\ \A j \in 1..((N - i) - 1) : m[j] = s[(i + 2) + j - 1]
    BY <1>2, <2>1
  <2>3. /\ n \in Seq(S) /\ Len(n) = N - i
        /\ \A j \in 1..(N - i) : n[j] = s[(i + 1) + j - 1]
    BY <1>2, <2>1
  <2> HIDE DEF m, n
  <2>4. PICK z \in Seq(S) : z = <<s[i + 1]>> /\ Len(z) = 1 /\ z[1] = s[i + 1]
    <3>1. s[i + 1] \in S
      BY <1>1, <2>1
    <3>2. <<s[i + 1]>> \in Seq(S) /\ Len(<<s[i + 1]>>) = 1 /\ <<s[i + 1]>>[1] = s[i + 1]
      BY <3>1
    <3> QED BY <3>2
  <2>5. /\ z \o m \in Seq(S) /\ Len(z \o m) = Len(z) + Len(m)
        /\ \A j \in 1..(Len(z) + Len(m)) :
              (z \o m)[j] = IF j <= Len(z) THEN z[j] ELSE m[j - Len(z)]
    BY <2>2, ConcatProperties
  <2>6. PICK c \in Seq(S) :
           /\ c = z \o m /\ Len(c) = N - i
           /\ \A j \in 1..(N - i) : c[j] = IF j <= 1 THEN z[j] ELSE m[j - 1]
    <3>1. \A k \in Nat \ {0} : 1 + (k - 1) = k
      OBVIOUS
    <3>2. Len(z) + Len(m) = N - i
      BY <2>1, <2>2, <2>4, <3>1
    <3> QED BY <2>4, <2>5, <3>2
  <2>7. ASSUME NEW j \in 1..(N - i)
        PROVE  c[j] = n[j]
    <3>1. n[j] = s[i + j]
      BY <2>3, <2>9
    <3>2. CASE j = 1
      BY <2>4, <2>6, <3>1, <3>2
    <3>3. CASE j # 1
      <4>1. ~(j <= 1) /\ j - 1 \in 1..((N - i) - 1) /\ (i + 2) + (j - 1) - 1 = i + j
        BY <2>9, <3>3
      <4>2. m[j - 1] = s[(i + 2) + (j - 1) - 1]
        BY <2>2, <4>1
      <4> QED BY <2>6, <3>1, <4>1, <4>2
    <3> QED BY <3>2, <3>3
  <2>8. c = n
    BY <2>3, <2>6, <2>7, SeqEqual
  <2> QED BY <2>4, <2>6, <2>8 DEF m, n
<1> QED BY <1>3, <1>4, <1>5

\* PutProperties and ParseProperties: the user properties of a block are read back,
\* all of them and in their order.
THEOREM PropertiesReadBack ==
  ASSUME NEW user \in Seq(UserProperties)
  PROVE  LET block == FlattenSeq(Pieces(user))
         IN  block \in Seq(Octet) /\ ParseProperties(block) = {user}
<1> DEFINE pieces == Pieces(user)
           b == FlattenSeq(pieces)
           N == Len(user)
<1>1. N \in Nat /\ \A i \in 1..N : user[i] \in UserProperties
  OBVIOUS
<1>2. /\ pieces \in Seq(Seq(Octet)) /\ Len(pieces) = N
      /\ \A i \in 1..N : pieces[i] = Piece(user[i])
  <2>1. pieces = [i \in 1..N |-> Piece(user[i])]
    BY DEF Pieces
  <2> HIDE DEF pieces
  <2>2. \A i \in 1..N : Piece(user[i]) \in Seq(Octet)
    BY <1>1, UserPropertyAt
  <2>3. DOMAIN pieces = 1..N /\ \A i \in 1..N : pieces[i] = Piece(user[i])
    BY <2>1
  <2>4. pieces \in [1..N -> Seq(Octet)]
    BY <2>1, <2>2
  <2> QED BY <1>1, <2>3, <2>4
<1> HIDE DEF pieces
<1>3. b \in Seq(Octet) /\ \E off : Laid(pieces, b, off)
  BY <1>2, Layout
<1> HIDE DEF b
<1>4. PICK off : Laid(pieces, b, off)
  BY <1>3
<1>5. /\ \A i \in 0..N : off[i] \in Nat
      /\ off[0] = 0 /\ off[N] = Len(b)
      /\ \A i \in 1..N : /\ off[i] = off[i - 1] + Len(Piece(user[i]))
                         /\ At(Piece(user[i]), b, off[i - 1])
  BY <1>2, <1>4 DEF Laid
<1>6. PICK f : Parses(b, 1, f) /\ ParseProperties(b) = f[1]
  BY <1>3, ParsesExist, ParsePropertiesIs
<1> DEFINE e(at) == IF at > Len(b) THEN {<<>>}
                    ELSE UNION {{OwnProperty(b, at) \o later : later \in f[end]} :
                                   end \in PropertyEnds(b, at)}
<1>7. \A at \in 1..(Len(b) + 1) : f[at] = e(at)
  <2>1. f = [at \in 1..(Len(b) + 1) |-> e(at)]
    BY <1>6 DEF Parses
  <2> HIDE DEF e
  <2> QED BY <2>1
<1>8. Len(b) \in Nat
  BY <1>3
<1>9. f[off[N] + 1] = {From(user, N + 1)}
  <2>1. Len(b) + 1 \in 1..(Len(b) + 1) /\ Len(b) + 1 > Len(b)
    BY <1>8
  <2>2. f[Len(b) + 1] = {<<>>}
    <3>1. f[Len(b) + 1] = e(Len(b) + 1)
      <4> HIDE DEF e
      <4> QED BY <1>7, <2>1
    <3> QED BY <2>1, <3>1
  <2>3. From(user, N + 1) = <<>>
    BY Later
  <2> QED BY <1>5, <2>2, <2>3
<1>10. ASSUME NEW i \in 0..(N - 1), f[off[i + 1] + 1] = {From(user, (i + 1) + 1)}
       PROVE  f[off[i] + 1] = {From(user, i + 1)}
  <2> DEFINE u == user[i + 1]
             x == off[i]
             y == off[i + 1]
  <2>1. i + 1 \in 1..N /\ i \in 0..N /\ (i + 1) - 1 = i /\ (i + 1) + 1 = i + 2
    BY <1>1
  <2>2. u \in UserProperties /\ x \in Nat /\ y = x + Len(Piece(u)) /\ At(Piece(u), b, x)
    BY <1>1, <1>5, <2>1
  <2>9. <<u>> \o From(user, i + 2) = From(user, i + 1)
    BY Later
  <2>10. f[y + 1] = {From(user, i + 2)}
    BY <1>10, <2>1
  <2> HIDE DEF u, x, y
  <2>3. /\ Len(Piece(u)) \in Nat /\ Len(Piece(u)) >= 1
        /\ OwnProperty(b, x + 1) = <<u>>
        /\ PropertyEnds(b, x + 1) = {x + Len(Piece(u)) + 1}
    BY <1>3, <2>2, UserPropertyAt
  <2>4. x + Len(Piece(u)) <= Len(b)
    BY <2>2 DEF At
  <2>5. /\ x + 1 \in 1..(Len(b) + 1) /\ ~(x + 1 > Len(b))
        /\ x + Len(Piece(u)) + 1 = y + 1
    BY <1>8, <2>2, <2>3, <2>4
  <2>6. f[x + 1] = e(x + 1)
    <3> HIDE DEF e
    <3> QED BY <1>7, <2>5
  <2>7. f[x + 1] = UNION {{<<u>> \o later : later \in f[end]} : end \in {y + 1}}
    <3> DEFINE all(own, ends) == UNION {{own \o later : later \in f[end]} : end \in ends}
    <3>1. e(x + 1) = all(OwnProperty(b, x + 1), PropertyEnds(b, x + 1))
      BY <2>5
    <3> HIDE DEF all, e
    <3>2. f[x + 1] = all(<<u>>, {y + 1})
      BY <2>3, <2>5, <2>6, <3>1
    <3> QED BY <3>2 DEF all
  <2>8. f[x + 1] = {<<u>> \o later : later \in f[y + 1]}
    BY <2>7
  <2>11. f[x + 1] = {<<u>> \o From(user, i + 2)}
    BY <2>8, <2>10
  <2> QED BY <2>9, <2>11 DEF x
<1> HIDE DEF e
<1>11. \A k \in 0..N : f[off[N - k] + 1] = {From(user, (N - k) + 1)}
  <2> DEFINE Bad == {k \in 0..N : f[off[N - k] + 1] # {From(user, (N - k) + 1)}}
  <2>1. SUFFICES ASSUME Bad # {} PROVE FALSE
    OBVIOUS
  <2>2. PICK k \in Bad : \A m \in Bad : k <= m
    <3>1. Bad \in SUBSET Nat
      BY <1>1
    <3> HIDE DEF Bad
    <3> QED BY <2>1, <3>1, Smallest
  <2>3. k \in 0..N /\ f[off[N - k] + 1] # {From(user, (N - k) + 1)}
    OBVIOUS
  <2>4. k # 0
    <3>1. N - 0 = N
      BY <1>1
    <3> QED BY <1>9, <2>3, <3>1
  <2>5. /\ k - 1 \in 0..N /\ ~(k <= k - 1)
        /\ N - k \in 0..(N - 1) /\ N - (k - 1) = (N - k) + 1
    BY <1>1, <2>3, <2>4
  <2>6. f[off[N - (k - 1)] + 1] = {From(user, (N - (k - 1)) + 1)}
    BY <2>2, <2>5
  <2>7. f[off[N - k] + 1] = {From(user, (N - k) + 1)}
    <3> DEFINE i == N - k
    <3>1. i \in 0..(N - 1) /\ f[off[i + 1] + 1] = {From(user, (i + 1) + 1)}
      BY <2>5, <2>6
    <3> HIDE DEF i
    <3>2. f[off[i] + 1] = {From(user, i + 1)}
      BY <1>10, <3>1
    <3> QED BY <3>2 DEF i
  <2> QED BY <2>3, <2>7
<1>12. f[1] = {user}
  <2>1. N \in 0..N /\ N - N = 0 /\ 0 + 1 = 1
    BY <1>1
  <2>2. f[off[0] + 1] = {From(user, 0 + 1)}
    BY <1>11, <2>1
  <2>3. From(user, 1) = user
    BY Later
  <2> QED BY <1>5, <2>1, <2>2, <2>3
<1> QED BY <1>3, <1>6, <1>12 DEF b, pieces

\* A number, however large, is written in octets.
LEMMA NumbersAreOctets ==
  ASSUME NEW n \in Nat
  PROVE  EncodeVarInt(n) \in Seq(Octet) /\ Len(EncodeVarInt(n)) \in 1..5
<1>1. CASE n \in Numbers
  <2>1. EncodeVarInt(n) \in Seq(Octet) /\ Len(EncodeVarInt(n)) \in 1..4
    BY <1>1, EncodeVarIntIs, VarIntLengthIs
  <2> DEFINE m == Len(EncodeVarInt(n))
  <2> HIDE DEF m
  <2>2. m \in 1..4 => m \in 1..5
    OBVIOUS
  <2> QED BY <2>1, <2>2 DEF m
<1>2. CASE n \notin Numbers
  <2> DEFINE k == VarIntLength(n)
             e == EncodeVarInt(n)
             p(i) == 128 ^ (i - 1)
             d(i) == ((n \div p(i)) % 128) + (IF i < k THEN 128 ELSE 0)
  <2>1. k = 5
    <3>1. n >= 128 ^ 4
      BY <1>2, Powers DEF Numbers
    <3> QED BY <3>1 DEF VarIntLength
  <2>2. e = [i \in 1..k |-> d(i)]
    BY DEF EncodeVarInt
  <2>3. \A i \in 1..5 : p(i) \in Nat \ {0}
    <3>1. /\ 128 ^ 0 \in Nat \ {0} /\ 128 ^ 1 \in Nat \ {0} /\ 128 ^ 2 \in Nat \ {0}
          /\ 128 ^ 3 \in Nat \ {0} /\ 128 ^ 4 \in Nat \ {0}
      BY Powers
    <3>2. \A i \in 1..5 : i - 1 = 0 \/ i - 1 = 1 \/ i - 1 = 2 \/ i - 1 = 3 \/ i - 1 = 4
      OBVIOUS
    <3> QED BY <3>1, <3>2
  <2> HIDE DEF k, e, p
  <2>4. ASSUME NEW i \in 1..5
        PROVE  d(i) \in Octet
    <3> DEFINE q == n \div p(i)
    <3>1. q \in Int
      BY <2>3
    <3> HIDE DEF q
    <3>2. q % 128 \in Nat /\ q % 128 < 128
      BY <3>1
    <3>3. (q % 128) + (IF i < k THEN 128 ELSE 0) \in Nat
          /\ (q % 128) + (IF i < k THEN 128 ELSE 0) < 256
      BY <3>2
    <3>4. (q % 128) + (IF i < k THEN 128 ELSE 0) \in Octet
      BY <3>3, OctetOf
    <3> QED BY <3>4 DEF q
  <2> HIDE DEF d
  <2>5. e \in Seq(Octet) /\ Len(e) = 5
    <3>1. e = [i \in 1..k |-> d(i)]
      BY <2>2
    <3>2. e \in [1..k -> Octet] /\ k \in Nat
      BY <2>1, <2>4, <3>1
    <3>3. e \in Seq(Octet) /\ Len(e) = k
      BY <3>2
    <3> QED BY <2>1, <3>3
  <2>6. 5 \in 1..5
    OBVIOUS
  <2> QED BY <2>5, <2>6 DEF e
<1> QED BY <1>1, <1>2

Publications ==
    [kind : {"PUBLISH"}, topic : Strings, payload : Seq(Octet), retain : BOOLEAN,
     user : Seq(UserProperties)]

Body(p) == PutString(p.topic) \o PutProperties(p.user) \o p.payload
Flags(p) == IF p.retain THEN 1 ELSE 0

\* What a PUBLISH is read as.
Publication(p) ==
    [NoPacket EXCEPT !.type = PUBLISH, !.flags = Flags(p), !.topic = p.topic, !.user = p.user,
                     !.payload = p.payload, !.retain = p.retain]

\* Where the parts of a PUBLISH lie in its body.
LEMMA PublicationLies ==
  ASSUME NEW p \in Publications
  PROVE  \E block \in Seq(Octet), e \in Seq(Octet) :
            /\ ParseProperties(block) = {p.user}
            /\ e = EncodeVarInt(Len(block)) /\ Len(e) \in 1..5
            /\ Body(p) \in Seq(Octet)
            /\ Len(Body(p)) = 2 + Len(p.topic) + Len(e) + Len(block) + Len(p.payload)
            /\ At(PutString(p.topic), Body(p), 0)
            /\ At(e, Body(p), 2 + Len(p.topic))
            /\ At(block, Body(p), 2 + Len(p.topic) + Len(e))
            /\ At(p.payload, Body(p), 2 + Len(p.topic) + Len(e) + Len(block))
<1>1. /\ p.topic \in Strings /\ p.payload \in Seq(Octet) /\ p.user \in Seq(UserProperties)
  BY DEF Publications
<1>2. PICK block \in Seq(Octet) :
         block = FlattenSeq(Pieces(p.user)) /\ ParseProperties(block) = {p.user}
  BY <1>1, PropertiesReadBack
<1>3. Len(block) \in Nat
  OBVIOUS
<1>4. PICK e \in Seq(Octet) : e = EncodeVarInt(Len(block)) /\ Len(e) \in 1..5
  BY <1>3, NumbersAreOctets
<1>5. PICK s \in Seq(Octet) : s = PutString(p.topic) /\ Len(s) = 2 + Len(p.topic)
                              /\ Len(p.topic) \in Nat
  BY <1>1, StringReadsBack
<1>6. PutProperties(p.user) = e \o block
  BY <1>2, <1>4 DEF PutProperties, Pieces, Piece
<1>7. PICK c \in Seq(Octet) :
         /\ c = e \o block /\ Len(c) = Len(e) + Len(block)
  BY Glue
<1>8. PICK d \in Seq(Octet) :
         /\ d = s \o c /\ Len(d) = Len(s) + Len(c)
         /\ \A b \in Seq(Octet) : At(d, b, 0) => At(s, b, 0) /\ At(c, b, Len(s))
  BY Glue
<1>9. PICK body \in Seq(Octet) :
         /\ body = d \o p.payload /\ Len(body) = Len(d) + Len(p.payload)
         /\ \A b \in Seq(Octet) : At(body, b, 0) => At(d, b, 0) /\ At(p.payload, b, Len(d))
  BY <1>1, Glue
<1>10. body = Body(p)
  BY <1>5, <1>6, <1>7, <1>8, <1>9 DEF Body
<1>11. At(s, body, 0) /\ At(c, body, Len(s)) /\ At(p.payload, body, Len(d))
  BY <1>8, <1>9, Itself
<1>12. Len(body) \in Nat /\ Len(s) \in Nat /\ Len(e) \in Nat /\ Len(p.payload) \in Nat
  BY <1>1
<1>13. At(e, body, Len(s)) /\ At(block, body, Len(s) + Len(e))
  BY <1>7, <1>11, <1>12, AtHalves
<1>14. /\ Len(d) = 2 + Len(p.topic) + Len(e) + Len(block)
       /\ Len(s) + Len(e) = 2 + Len(p.topic) + Len(e)
       /\ Len(body) = 2 + Len(p.topic) + Len(e) + Len(block) + Len(p.payload)
  <2>1. /\ Len(s) = 2 + Len(p.topic) /\ Len(c) = Len(e) + Len(block)
        /\ Len(d) = Len(s) + Len(c) /\ Len(body) = Len(d) + Len(p.payload)
    BY <1>5, <1>7, <1>8, <1>9
  <2>2. Len(p.topic) \in Nat
    BY <1>5
  <2>3. PICK t \in Nat, m \in Nat, n \in Nat :
           t = Len(p.topic) /\ m = Len(e) /\ n = Len(block)
    BY <1>3, <1>12, <2>2
  <2>4. (2 + t) + m = 2 + t + m /\ (2 + t) + (m + n) = 2 + t + m + n
    OBVIOUS
  <2>5. (2 + Len(p.topic)) + (Len(e) + Len(block)) = 2 + Len(p.topic) + Len(e) + Len(block)
        /\ (2 + Len(p.topic)) + Len(e) = 2 + Len(p.topic) + Len(e)
    BY <2>3, <2>4
  <2> QED BY <2>1, <2>5
<1>15. /\ At(s, body, 0) /\ At(e, body, 2 + Len(p.topic))
       /\ At(block, body, 2 + Len(p.topic) + Len(e))
       /\ At(p.payload, body, 2 + Len(p.topic) + Len(e) + Len(block))
  BY <1>5, <1>11, <1>13, <1>14
<1> QED BY <1>2, <1>4, <1>5, <1>10, <1>14, <1>15

LEMMA PublicationFrame ==
  ASSUME NEW p \in Publications
  PROVE  /\ EncodePublish(p) = Frame(3, Flags(p), Body(p)) /\ Body(p) \in Seq(Octet)
         /\ 3 \in 0..15 /\ Flags(p) \in 0..15 /\ QoS(Flags(p)) = 0
         /\ (Flags(p) % 2 = 1) = p.retain
<1>1. p.retain \in BOOLEAN
  BY DEF Publications
<1>2. /\ Flags(p) \in 0..15 /\ QoS(Flags(p)) = 0 /\ (Flags(p) % 2 = 1) = p.retain
  <2>1. CASE p.retain
    <3>1. Flags(p) = 1 /\ 1 \in 0..15 /\ (1 \div 2) % 4 = 0 /\ 1 % 2 = 1
      BY <2>1 DEF Flags
    <3> QED BY <1>1, <2>1, <3>1 DEF QoS
  <2>2. CASE ~p.retain
    <3>1. Flags(p) = 0 /\ 0 \in 0..15 /\ (0 \div 2) % 4 = 0 /\ 0 % 2 # 1
      BY <2>2 DEF Flags
    <3> QED BY <1>1, <2>2, <3>1 DEF QoS
  <2> QED BY <2>1, <2>2
<1>3. EncodePublish(p) = Frame(3, Flags(p), Body(p))
  BY DEF EncodePublish, Flags, Body, PUBLISH
<1>4. Body(p) \in Seq(Octet)
  BY PublicationLies
<1>5. 3 \in 0..15
  OBVIOUS
<1> QED BY <1>2, <1>3, <1>4, <1>5

\* The body of a PUBLISH is read as what was published.
LEMMA PublicationBody ==
  ASSUME NEW p \in Publications, Len(Body(p)) \in Numbers
  PROVE  DecodePublish(Flags(p), Body(p)) =
            {[NoPacket EXCEPT !.topic = p.topic, !.user = p.user, !.payload = p.payload,
                              !.retain = p.retain]}
<1>1. PICK block \in Seq(Octet), e \in Seq(Octet) :
            /\ ParseProperties(block) = {p.user}
            /\ e = EncodeVarInt(Len(block)) /\ Len(e) \in 1..5
            /\ Body(p) \in Seq(Octet)
            /\ Len(Body(p)) = 2 + Len(p.topic) + Len(e) + Len(block) + Len(p.payload)
            /\ At(PutString(p.topic), Body(p), 0)
            /\ At(e, Body(p), 2 + Len(p.topic))
            /\ At(block, Body(p), 2 + Len(p.topic) + Len(e))
            /\ At(p.payload, Body(p), 2 + Len(p.topic) + Len(e) + Len(block))
  BY PublicationLies
<1> DEFINE T == Len(p.topic)
           B == Len(block)
           P == Len(p.payload)
           k == VarIntLength(B)
           x == 2 + T + k
<1>2. PICK body \in Seq(Octet) : body = Body(p)
  BY <1>1
<1>3. /\ p.topic \in Strings /\ p.payload \in Seq(Octet) /\ T \in Nat /\ P \in Nat /\ B \in Nat
      /\ p.retain \in BOOLEAN
  BY DEF Publications, Strings
<1>4. B \in Numbers
  <2>1. Len(body) \in Nat /\ Len(body) < 128 ^ 4 /\ 128 ^ 4 \in Nat
    BY <1>2, Powers DEF Numbers
  <2>2. Len(e) \in Nat /\ Len(body) = 2 + T + Len(e) + B + P
    <3>1. Len(e) \in Nat
      OBVIOUS
    <3> QED BY <1>1, <1>2, <3>1
  <2> DEFINE n == 128 ^ 4
  <2>3. B < n
    <3> HIDE DEF n, B, T, P
    <3>1. Len(body) < n /\ n \in Nat
      BY <2>1 DEF n
    <3> QED BY <1>3, <2>1, <2>2, <3>1
  <2> QED BY <1>3, <2>3 DEF Numbers
<1>5. Len(e) = k /\ k \in 1..4 /\ k \in Nat
  BY <1>1, <1>4, EncodeVarIntIs, VarIntLengthIs
<1>6. /\ U16(body, 1) = T /\ SubSeq(body, 3, 2 + T) = p.topic
  <2>1. At(PutString(p.topic), body, 0) /\ 0 \in Nat /\ 0 + 1 = 1 /\ 0 + 3 = 3 /\ (0 + 2) + T = 2 + T
    BY <1>1, <1>2, <1>3
  <2>2. U16(body, 0 + 1) = T /\ SubSeq(body, 0 + 3, (0 + 2) + T) = p.topic
    BY <1>3, <2>1, StringReadsBack
  <2> QED BY <2>1, <2>2
<1> HIDE DEF T, B, P, k
<1>7. PublishOffset(Flags(p), body) = 3 + T
  <2>1. PublishOffset(Flags(p), body) = 3 + T + 0
    BY <1>6, PublicationFrame DEF PublishOffset
  <2> QED BY <1>3, <2>1
<1>8. DecodeVarInt(body, 3 + T) = {[value |-> B, next |-> 3 + T + k]}
  <2>1. At(EncodeVarInt(B), body, (3 + T) - 1) /\ 3 + T \in Nat \ {0}
    <3>1. (3 + T) - 1 = 2 + T /\ 3 + T \in Nat \ {0}
      BY <1>3
    <3>2. At(EncodeVarInt(B), body, 2 + T)
      BY <1>1, <1>2 DEF T, B
    <3> QED BY <3>1, <3>2
  <2> QED BY <1>4, <2>1, NumbersReadBack DEF k
<1>9. Len(body) = 2 + T + k + B + P
  BY <1>1, <1>2, <1>5 DEF T, B, P
<1>10. SubSeq(body, 3 + T + k, (3 + T + k) + B - 1) = block
  <2>1. At(block, body, x) /\ x \in Nat /\ x + 1 = 3 + T + k /\ x + B = (3 + T + k) + B - 1
    BY <1>1, <1>2, <1>3, <1>5 DEF T
  <2> HIDE DEF x
  <2>2. SubSeq(body, x + 1, x + B) = block
    BY <2>1, AtPiece DEF B
  <2> QED BY <2>1, <2>2
<1>11. From(body, (3 + T + k) + B) = p.payload
  <2> DEFINE y == 2 + T + k + B
  <2>1. y \in Nat /\ y + 1 = (3 + T + k) + B /\ y + P = Len(body)
    BY <1>3, <1>5, <1>9
  <2>2. At(p.payload, body, y)
    BY <1>1, <1>2, <1>5 DEF T, B
  <2> HIDE DEF y
  <2>3. SubSeq(body, y + 1, y + P) = p.payload
    BY <1>3, <2>1, <2>2, AtPiece DEF P
  <2> QED BY <2>1, <2>3 DEF From
<1> HIDE DEF x
<1>12. /\ ~(Len(body) < 2) /\ ~(Len(body) < (3 + T) - 1)
       /\ ~((3 + T + k) + B - 1 > Len(body))
  BY <1>3, <1>5, <1>9
<1> DEFINE len == [value |-> B, next |-> 3 + T + k]
           blocks(l) == IF l.next + l.value - 1 > Len(body) THEN {}
                        ELSE {[user |-> user, end |-> l.next + l.value] :
                          user \in ParseProperties(SubSeq(body, l.next, l.next + l.value - 1))}
           packet(b) == [NoPacket EXCEPT
              !.topic = SubSeq(body, 3, 2 + U16(body, 1)),
              !.user = b.user,
              !.payload = From(body, b.end),
              !.retain = Flags(p) % 2 = 1]
<1>13. DecodePublish(Flags(p), body) =
          {packet(b) : b \in UNION {blocks(l) : l \in DecodeVarInt(body, 3 + T)}}
  BY <1>7, <1>12 DEF DecodePublish
<1>14. blocks(len) = {[user |-> p.user, end |-> (3 + T + k) + B]}
  <2>1. len.next = 3 + T + k /\ len.value = B
    OBVIOUS
  <2> HIDE DEF len
  <2>2. blocks(len) = {[user |-> user, end |-> (3 + T + k) + B] : user \in {p.user}}
    BY <1>1, <1>10, <1>12, <2>1
  <2> QED BY <2>2
<1>15. packet([user |-> p.user, end |-> (3 + T + k) + B]) =
          [NoPacket EXCEPT !.topic = p.topic, !.user = p.user, !.payload = p.payload,
                           !.retain = p.retain]
  BY <1>6, <1>11, PublicationFrame
<1> HIDE DEF blocks, packet, len
<1>16. UNION {blocks(l) : l \in DecodeVarInt(body, 3 + T)} = blocks(len)
  BY <1>8 DEF len
<1>17. DecodePublish(Flags(p), body) = {packet([user |-> p.user, end |-> (3 + T + k) + B])}
  BY <1>13, <1>14, <1>16
<1> QED BY <1>2, <1>15, <1>17

\* EncodePublish and Decode: a publication, however long a packet can be, is read
\* back as it was published (its topic, payload, retain flag and user properties),
\* whatever follows it, and nothing of what follows is consumed.
THEOREM PublicationsReadBack ==
  ASSUME NEW p \in Publications, Len(Body(p)) \in Numbers, NEW rest \in Seq(Octet)
  PROVE  LET f == EncodePublish(p)
         IN  Decode(f \o rest) = Answer("Ok", {Publication(p)}, Len(f))
<1> DEFINE q == [NoPacket EXCEPT !.topic = p.topic, !.user = p.user, !.payload = p.payload,
                                 !.retain = p.retain]
           f == Frame(3, Flags(p), Body(p))
           to(r) == [r EXCEPT !.type = 3, !.flags = Flags(p)]
<1>1. /\ EncodePublish(p) = f /\ Body(p) \in Seq(Octet)
      /\ 3 \in 0..15 /\ Flags(p) \in 0..15
  BY PublicationFrame
<1>2. DecodeBody(3, Flags(p), Body(p)) = {q}
  <2>1. DecodePublish(Flags(p), Body(p)) = {q}
    BY PublicationBody
  <2> HIDE DEF q
  <2> QED BY <2>1 DEF DecodeBody, CONNACK, PUBLISH, SUBACK
<1>3. to(q) = Publication(p)
  BY DEF Publication, NoPacket, CONNECT, PUBLISH
<1> HIDE DEF q
<1>4. Decode(f \o rest) =
         IF {q} = {} THEN Answer("Malformed", {}, 0)
         ELSE Answer("Ok", {to(r) : r \in {q}}, Len(f))
  <2> DEFINE read == DecodeBody(3, Flags(p), Body(p))
  <2>1. Decode(f \o rest) =
         IF read = {} THEN Answer("Malformed", {}, 0)
         ELSE Answer("Ok", {to(r) : r \in read}, Len(f))
    BY <1>1, FramesReadBack
  <2> HIDE DEF to, read, f
  <2> QED BY <1>2, <2>1 DEF read
<1> HIDE DEF to, f
<1>5. {to(r) : r \in {q}} = {Publication(p)}
  BY <1>3
<1> QED BY <1>1, <1>4, <1>5

LEMMA PublicationIsLegible ==
  ASSUME NEW p \in Publications, Len(Encode(p)) < 130
  PROVE  Legible(p)
<1>1. /\ p = [kind |-> "PUBLISH", topic |-> p.topic, payload |-> p.payload,
              retain |-> p.retain, user |-> p.user]
      /\ p.kind = "PUBLISH"
  BY DEF Publications
<1>2. Encode(p) = EncodePublish(p)
  BY <1>1 DEF Encode
<1>3. PICK f : f = EncodePublish(p)
  OBVIOUS
<1>4. /\ f = Frame(3, Flags(p), Body(p)) /\ Body(p) \in Seq(Octet)
      /\ 3 \in 0..15 /\ Flags(p) \in 0..15
  BY <1>3, PublicationFrame
<1>5. Len(Body(p)) < 128
  <2>1. Len(Frame(3, Flags(p), Body(p))) < 130
    BY <1>2, <1>3, <1>4
  <2> QED BY <1>4, <2>1, ShortBody
<1>6. /\ f \in Seq(Octet) /\ Len(f) = 2 + Len(Body(p)) /\ Len(Body(p)) \in Nat
      /\ f[1] \div 16 = 3 /\ f[2] = Len(Body(p))
  BY <1>4, <1>5, ShortFrame
<1>7. Len(Body(p)) \in Numbers
  <2>1. \A n \in Nat : n < 128 => n < 268435456
    OBVIOUS
  <2> QED BY <1>5, <1>6, <2>1, Powers DEF Numbers
<1>8. Decode(f).packets = {Publication(p)}
  <2>1. <<>> \in Seq(Octet) /\ f \o <<>> = f
    BY <1>6
  <2>2. Decode(f \o <<>>) = Answer("Ok", {Publication(p)}, Len(f))
    BY <1>3, <1>7, <2>1, PublicationsReadBack
  <2> QED BY <2>1, <2>2 DEF Answer
<1>9. ReadPacket(f) = {p}
  <2> DEFINE found(q) == [kind |-> "PUBLISH", topic |-> q.topic, payload |-> q.payload,
                         retain |-> q.retain, user |-> q.user]
  <2>1. ReadPacket(f) = {found(q) : q \in Decode(f).packets}
    BY <1>6 DEF ReadPacket, CONNECT, SUBSCRIBE, PUBLISH, PINGREQ
  <2>2. found(Publication(p)) = p
    <3>1. LET q == Publication(p)
          IN  /\ q.topic = p.topic /\ q.payload = p.payload
              /\ q.retain = p.retain /\ q.user = p.user
      BY DEF Publication, NoPacket
    <3> QED BY <1>1, <3>1
  <2> HIDE DEF found
  <2> QED BY <1>8, <2>1, <2>2
<1>10. Len(f) >= 2 /\ f[2] = Len(f) - 2
  BY <1>6
<1> QED BY <1>2, <1>3, <1>6, <1>9, <1>10 DEF Legible

\* What the relay says, in whatever words its configuration and the registry choose,
\* as long as one octet says how long a packet is.
Plain(p) ==
    /\ p \in Connections \cup Subscriptions \cup Publications \cup Pings \cup Disconnections
    /\ Len(Encode(p)) < 130

\* Each packet the relay builds is one whole frame, and a server that reads the
\* frame finds the packet: every string, number and flag of it and nothing else.
THEOREM PacketsAreLegible ==
  ASSUME NEW p, Plain(p)
  PROVE  Legible(p)
<1>1. Len(Encode(p)) < 130
  BY DEF Plain
<1>2. \/ p \in Connections \/ p \in Subscriptions \/ p \in Publications
      \/ p \in Pings \/ p \in Disconnections
  BY DEF Plain
<1> QED BY <1>1, <1>2, ConnectionIsLegible, SubscriptionIsLegible, PublicationIsLegible,
           PingIsLegible, DisconnectionIsLegible

\* The codec over the transport: packets of the relay's reach the broker whole, in
\* order and for what they are, with whatever words, and so do the broker's, if
\* Decode reads each of them on its own.
THEOREM PacketsInStep ==
  /\ \A p \in Sayable : Plain(p)
  /\ \A s \in Scripts : \A i \in DOMAIN s : Intelligible(s[i])
  /\ WireSpec
  => InStep
<1>1. (\A p \in Sayable : Plain(p)) => (\A p \in Sayable : Legible(p))
  BY PacketsAreLegible
<1>2. /\ \A p \in Sayable : Plain(p)
      /\ \A s \in Scripts : \A i \in DOMAIN s : Intelligible(s[i])
      => Readable
  BY <1>1 DEF Readable
<1> QED BY <1>2, PipesInStep
=============================================================================
