------------------------ MODULE TransportStreamProofs ------------------------
(***************************************************************************)
(* What the peer of a client is sent is what its calls sent, for any       *)
(* packets, frame size, number of calls and cut of the sends, with or      *)
(* without a cipher.  The frames of a run of calls are a fold over their   *)
(* packets, so the proof begins with the laws of FlattenSeq.               *)
(***************************************************************************)
EXTENDS TransportProofs, SequenceTheorems

(* The laws of FlattenSeq.                                                  *)

\* The sequences FlattenSeq builds from the first n of s on its way.
IsFlat(s, n, f) == f = [i \in 1..n |-> IF i = 1 THEN s[i] ELSE f[i - 1] \o s[i]]

LEMMA LeastNat ==
    ASSUME NEW T, T \subseteq Nat, T # {}
    PROVE  \E x \in T : \A y \in T : x =< y
<1> DEFINE R == OpToRel(<, Nat)
<1>2. IsWellFoundedOn(R, Nat)
  BY NatLessThanWellFounded
<1> HIDE DEF R
<1>3. PICK x \in T : \A y \in T : ~(<<y, x>> \in R)
  BY <1>2, WFMin
<1>4. \A y \in T : x =< y
  <2> SUFFICES ASSUME NEW y \in T PROVE x =< y
    OBVIOUS
  <2>1. x \in Nat /\ y \in Nat /\ ~(<<y, x>> \in R)
    BY <1>3
  <2>2. y < x => <<y, x>> \in R
    BY <2>1 DEF R, OpToRel
  <2> QED
    BY <2>1, <2>2
<1> QED
  BY <1>4

LEMMA FlatExists ==
    ASSUME NEW s, NEW n \in Nat
    PROVE  \E f : IsFlat(s, n, f)
<1> DEFINE Bad == {k \in Nat : ~ \E f : IsFlat(s, k, f)}
<1> SUFFICES ASSUME Bad # {} PROVE FALSE
  OBVIOUS
<1>1. PICK k \in Bad : \A j \in Bad : k =< j
  BY LeastNat
<1>2. CASE k = 0
  <2> DEFINE f == [i \in 1..0 |-> s[i]]
  <2>1. f = [i \in 1..0 |-> IF i = 1 THEN s[i] ELSE f[i - 1] \o s[i]]
    OBVIOUS
  <2> QED BY <1>2, <2>1 DEF IsFlat
<1>3. CASE k # 0
  <2>1. k - 1 \in Nat /\ k - 1 \notin Bad
    BY <1>1, <1>3
  <2>2. PICK g : IsFlat(s, k - 1, g)
    BY <2>1
  <2> DEFINE f == [i \in 1..k |-> IF i = k THEN IF k = 1 THEN s[k] ELSE g[k - 1] \o s[k] ELSE g[i]]
  <2>3. \A i \in 1..k : f[i] = IF i = 1 THEN s[i] ELSE f[i - 1] \o s[i]
    <3> SUFFICES ASSUME NEW i \in 1..k PROVE f[i] = IF i = 1 THEN s[i] ELSE f[i - 1] \o s[i]
      OBVIOUS
    <3>1. i # k => i \in 1..(k-1) /\ g[i] = IF i = 1 THEN s[i] ELSE g[i - 1] \o s[i]
      <4>1. i # k => i \in 1..(k - 1)
        BY <2>1
      <4>2. g = [j \in 1..(k - 1) |-> IF j = 1 THEN s[j] ELSE g[j - 1] \o s[j]]
        BY <2>2 DEF IsFlat
      <4> HIDE DEF f
      <4> QED BY <4>1, <4>2, Zenon
    <3>2. i # 1 => i - 1 \in 1..k /\ i - 1 # k /\ f[i - 1] = g[i - 1]
      BY <2>1
    <3> HIDE DEF f
    <3>3. f[i] = IF i = k THEN IF k = 1 THEN s[k] ELSE g[k - 1] \o s[k] ELSE g[i]
      BY DEF f
    <3> QED BY <3>1, <3>2, <3>3
  <2>4. f = [i \in 1..k |-> f[i]]
    OBVIOUS
  <2> HIDE DEF f
  <2>5. [i \in 1..k |-> f[i]] = [i \in 1..k |-> IF i = 1 THEN s[i] ELSE f[i - 1] \o s[i]]
    BY <2>3
  <2>6. IsFlat(s, k, f)
    BY <2>4, <2>5 DEF IsFlat
  <2> QED BY <1>1, <2>6
<1> QED BY <1>2, <1>3

LEMMA FlattenIs ==
    ASSUME NEW s, Len(s) \in Nat, Len(s) # 0
    PROVE  \E f : IsFlat(s, Len(s), f) /\ FlattenSeq(s) = f[Len(s)]
<1> DEFINE g == CHOOSE f : IsFlat(s, Len(s), f)
<1>1. IsFlat(s, Len(s), g)
  BY FlatExists
<1>2. FlattenSeq(s) = g[Len(s)]
  BY DEF FlattenSeq, IsFlat
<1> QED BY <1>1, <1>2

LEMMA FlatSteps ==
    ASSUME NEW S, NEW s \in Seq(Seq(S)), NEW f, IsFlat(s, Len(s), f)
    PROVE  /\ Len(s) # 0 => f[1] = s[1]
           /\ \A i \in 2..Len(s) : f[i] = f[i - 1] \o s[i]
           /\ \A i \in 1..Len(s) : f[i] \in Seq(S)
<1> DEFINE n == Len(s)
<1>0. n \in Nat /\ \A i \in 1..n : s[i] \in Seq(S)
  OBVIOUS
<1>1. f = [i \in 1..n |-> IF i = 1 THEN s[i] ELSE f[i - 1] \o s[i]]
  BY DEF IsFlat
<1> HIDE DEF n
<1>2. n # 0 => f[1] = s[1]
  BY <1>0, <1>1
<1>3. ASSUME NEW i \in 2..n PROVE f[i] = f[i - 1] \o s[i]
  <2>1. i \in 1..n /\ i # 1
    BY <1>0
  <2> QED BY <1>1, <2>1, Zenon
<1>4. ASSUME NEW i \in 1..n PROVE f[i] \in Seq(S)
  <2> DEFINE Bad == {k \in Nat : k \in 1..n /\ f[k] \notin Seq(S)}
  <2>1. CASE Bad = {}
    <3>1. i \in Nat
      BY <1>0
    <3> QED BY <2>1, <3>1
  <2>2. CASE Bad # {}
    <3>1. PICK k \in Bad : \A j \in Bad : k =< j
      BY <2>2, LeastNat
    <3>2. k # 1
      BY <1>0, <1>2, <3>1
    <3>3. k \in 2..n /\ k - 1 \in 1..n /\ k - 1 \in Nat /\ ~(k =< k - 1)
      BY <1>0, <3>1, <3>2
    <3>4. f[k - 1] \in Seq(S)
      BY <3>1, <3>3
    <3>5. f[k] = f[k - 1] \o s[k] /\ s[k] \in Seq(S)
      BY <1>0, <1>3, <3>1, <3>3
    <3>6. f[k] \in Seq(S)
      BY <3>4, <3>5
    <3> QED BY <3>1, <3>6
  <2> QED BY <2>1, <2>2
<1> QED BY <1>2, <1>3, <1>4 DEF n

\* Flattening sequences of S gives a sequence of S.
LEMMA FlattenType ==
    ASSUME NEW S, NEW s \in Seq(Seq(S))
    PROVE  FlattenSeq(s) \in Seq(S)
<1>1. CASE Len(s) = 0
  <2>1. FlattenSeq(s) = s /\ s = <<>>
    BY <1>1 DEF FlattenSeq
  <2> QED BY <2>1
<1>2. CASE Len(s) # 0
  <2>1. PICK f : IsFlat(s, Len(s), f) /\ FlattenSeq(s) = f[Len(s)]
    BY <1>2, FlattenIs
  <2>2. Len(s) \in 1..Len(s)
    BY <1>2
  <2>3. \A i \in 1..Len(s) : f[i] \in Seq(S)
    BY <2>1, FlatSteps, Zenon
  <2> QED BY <2>1, <2>2, <2>3
<1> QED BY <1>1, <1>2

\* Flattening one sequence behind the other.
LEMMA FlattenConcat ==
    ASSUME NEW S, NEW a \in Seq(Seq(S)), NEW b \in Seq(Seq(S))
    PROVE  FlattenSeq(a \o b) = FlattenSeq(a) \o FlattenSeq(b)
<1>1. CASE a = <<>>
  <2>1. a \o b = b /\ FlattenSeq(a) = <<>>
    BY <1>1 DEF FlattenSeq
  <2>2. FlattenSeq(b) \in Seq(S)
    BY FlattenType
  <2>3. <<>> \o FlattenSeq(b) = FlattenSeq(b)
    BY <2>2
  <2> QED BY <2>1, <2>3
<1>2. CASE b = <<>>
  <2>1. a \o b = a /\ FlattenSeq(b) = <<>>
    BY <1>2 DEF FlattenSeq
  <2>2. FlattenSeq(a) \in Seq(S)
    BY FlattenType
  <2>3. FlattenSeq(a) \o <<>> = FlattenSeq(a)
    BY <2>2
  <2> QED BY <2>1, <2>3
<1>3. CASE a # <<>> /\ b # <<>>
  <2> DEFINE m == Len(a)
             n == Len(b)
             c == a \o b
  <2>1. /\ m \in Nat \ {0} /\ n \in Nat \ {0} /\ c \in Seq(Seq(S)) /\ Len(c) = m + n
        /\ \A i \in 1..m : c[i] = a[i]
        /\ \A i \in 1..n : c[m + i] = b[i]
        /\ Len(c) \in Nat /\ Len(c) # 0
    BY <1>3
  <2>2. PICK f : IsFlat(a, m, f) /\ FlattenSeq(a) = f[m]
    BY <2>1, FlattenIs
  <2>3. PICK g : IsFlat(b, n, g) /\ FlattenSeq(b) = g[n]
    BY <2>1, FlattenIs
  <2>4. PICK h : IsFlat(c, Len(c), h) /\ FlattenSeq(c) = h[Len(c)]
    BY <2>1, FlattenIs
  <2> HIDE DEF m, n, c
  <2>5. /\ f[1] = a[1] /\ \A i \in 2..m : f[i] = f[i - 1] \o a[i]
        /\ \A i \in 1..m : f[i] \in Seq(S)
    <3>1. /\ Len(a) # 0 => f[1] = a[1]
          /\ \A i \in 2..Len(a) : f[i] = f[i - 1] \o a[i]
          /\ \A i \in 1..Len(a) : f[i] \in Seq(S)
      BY <2>2, FlatSteps, Zenon DEF m
    <3> QED BY <2>1, <3>1 DEF m
  <2>6. /\ g[1] = b[1] /\ \A i \in 2..n : g[i] = g[i - 1] \o b[i]
        /\ \A i \in 1..n : g[i] \in Seq(S) /\ b[i] \in Seq(S)
    <3>1. /\ Len(b) # 0 => g[1] = b[1]
          /\ \A i \in 2..Len(b) : g[i] = g[i - 1] \o b[i]
          /\ \A i \in 1..Len(b) : g[i] \in Seq(S)
      BY <2>3, FlatSteps, Zenon DEF n
    <3>2. \A i \in 1..Len(b) : b[i] \in Seq(S)
      OBVIOUS
    <3> QED BY <2>1, <3>1, <3>2 DEF n
  <2>7. h[1] = c[1] /\ \A i \in 2..(m + n) : h[i] = h[i - 1] \o c[i]
    <3>1. /\ Len(c) # 0 => h[1] = c[1]
          /\ \A i \in 2..Len(c) : h[i] = h[i - 1] \o c[i]
          /\ \A i \in 1..Len(c) : h[i] \in Seq(S)
      <4>1. c \in Seq(Seq(S))
        BY <2>1
      <4> QED BY <4>1, <2>4, FlatSteps, Zenon
    <3> QED BY <2>1, <3>1
  <2>8. h[m] = f[m]
    <3> DEFINE Bad == {k \in Nat : k \in 1..m /\ h[k] # f[k]}
    <3>1. CASE Bad = {}
      <4>1. m \in Nat /\ m \in 1..m
        BY <2>1
      <4>2. m \notin Bad
        BY <3>1, Zenon
      <4> QED BY <4>1, <4>2
    <3>2. CASE Bad # {}
      <4>1. PICK k \in Bad : \A j \in Bad : k =< j
        BY <3>2, LeastNat
      <4>a. k \in Nat /\ k \in 1..m /\ h[k] # f[k]
        OBVIOUS
      <4>2. h[1] = f[1]
        BY <2>1, <2>5, <2>7
      <4>3. k \in 2..m /\ k \in 2..(m + n) /\ k \in 1..m /\ k - 1 \in 1..m /\ ~(k =< k - 1)
        <5>1. k # 1
          BY <4>a, <4>2
        <5> HIDE DEF Bad
        <5> QED BY <2>1, <4>a, <5>1
      <4>4. h[k - 1] = f[k - 1]
        BY <4>1, <4>3
      <4>5. h[k] = h[k - 1] \o c[k] /\ f[k] = f[k - 1] \o a[k] /\ c[k] = a[k]
        BY <2>1, <2>5, <2>7, <4>3
      <4> QED BY <4>1, <4>4, <4>5
    <3> QED BY <3>1, <3>2
  <2>9. h[m + n] = f[m] \o g[n]
    <3>0. f[m] \in Seq(S)
      BY <2>1, <2>5
    <3> DEFINE Bad == {k \in Nat : k \in 1..n /\ h[m + k] # f[m] \o g[k]}
    <3>1. CASE Bad = {}
      <4>1. n \in Nat /\ n \in 1..n
        BY <2>1
      <4>2. n \notin Bad
        BY <3>1, Zenon
      <4> QED BY <4>1, <4>2
    <3>2. CASE Bad # {}
      <4>1. PICK k \in Bad : \A j \in Bad : k =< j
        BY <3>2, LeastNat
      <4>a. k \in Nat /\ k \in 1..n /\ h[m + k] # f[m] \o g[k]
        OBVIOUS
      <4>2. h[m + 1] = f[m] \o g[1]
        <5>1. m + 1 \in 2..(m + n) /\ (m + 1) - 1 = m /\ 1 \in 1..n
          BY <2>1
        <5>2. h[m + 1] = h[(m + 1) - 1] \o c[m + 1]
          BY <2>7, <5>1
        <5>3. c[m + 1] = b[1]
          BY <2>1, <5>1
        <5> QED BY <2>6, <2>8, <5>1, <5>2, <5>3
      <4>3. /\ k \in 2..n /\ k \in 1..n /\ k - 1 \in 1..n /\ ~(k =< k - 1)
            /\ m + k \in 2..(m + n) /\ (m + k) - 1 = m + (k - 1)
        <5>1. k # 1
          BY <4>a, <4>2
        <5> HIDE DEF Bad
        <5> QED BY <2>1, <4>a, <5>1
      <4>4. h[m + (k - 1)] = f[m] \o g[k - 1]
        <5>1. k - 1 \in Nat /\ k - 1 \notin Bad
          <6> HIDE DEF Bad
          <6> QED BY <2>1, <4>1, <4>3
        <5> QED BY <4>3, <5>1
      <4>5. h[m + k] = h[m + (k - 1)] \o b[k]
        <5>1. h[m + k] = h[(m + k) - 1] \o c[m + k]
          BY <2>7, <4>3
        <5> QED BY <2>1, <4>3, <5>1
      <4>6. g[k] = g[k - 1] \o b[k] /\ g[k - 1] \in Seq(S) /\ b[k] \in Seq(S)
        BY <2>6, <4>3
      <4>7. (f[m] \o g[k - 1]) \o b[k] = f[m] \o (g[k - 1] \o b[k])
        <5> DEFINE x == f[m]
                   y == g[k - 1]
                   z == b[k]
        <5>1. x \in Seq(S) /\ y \in Seq(S) /\ z \in Seq(S)
          BY <3>0, <4>6
        <5> HIDE DEF Bad, x, y, z
        <5>2. (x \o y) \o z = x \o (y \o z)
          BY <5>1, SMTT(30)
        <5> QED BY <5>2 DEF x, y, z
      <4> QED BY <4>1, <4>4, <4>5, <4>6, <4>7
    <3> QED BY <3>1, <3>2
  <2> QED BY <2>1, <2>2, <2>3, <2>4, <2>8, <2>9 DEF c, m, n
<1> QED BY <1>1, <1>2, <1>3

-----------------------------------------------------------------------------
(* The units of packets.                                                    *)

What == Packet \cup {"handshake"}
UnitOf == What \X (1..FrameUnits)
Coded == [unit : UnitOf, key : Int]

\* The frame of one packet.
FrameOf(p) == [k \in 1..FrameUnits |-> <<p, k>>]

\* A frame is a sequence of units.
LEMMA FrameIsUnits ==
    ASSUME NEW p \in What
    PROVE  FrameOf(p) \in Seq(UnitOf)
<1>1. FrameOf(p) \in [1..FrameUnits -> UnitOf]
  BY DEF FrameOf, UnitOf
<1>2. FrameUnits \in Nat
  BY TransportAssumption
<1> HIDE DEF FrameOf, UnitOf
<1> QED
  BY <1>1, <1>2

\* The frames of packets, each by itself.
Frames(packets) == [i \in DOMAIN packets |-> FrameOf(packets[i])]

\* They are as many as the packets, and stand in the same order.
LEMMA FramesFacts ==
    ASSUME NEW a \in Seq(What), NEW b \in Seq(What)
    PROVE  /\ Frames(a) \in Seq(Seq(UnitOf))
           /\ Frames(a \o b) = Frames(a) \o Frames(b)
<1>1. ASSUME NEW s \in Seq(What)
      PROVE  Frames(s) \in Seq(Seq(UnitOf)) /\ Len(Frames(s)) = Len(s)
  <2>1. \A i \in 1..Len(s) : FrameOf(s[i]) \in Seq(UnitOf)
    BY FrameIsUnits
  <2>2. Frames(s) \in [1..Len(s) -> Seq(UnitOf)] /\ Len(s) \in Nat
    BY <2>1 DEF Frames
  <2> QED
    BY <2>2
<1>2. a \o b \in Seq(What) /\ Len(a \o b) = Len(a) + Len(b) /\ Len(a) \in Nat /\ Len(b) \in Nat
  OBVIOUS
<1>3. \A i \in 1..(Len(a) + Len(b)) : Frames(a \o b)[i] = (Frames(a) \o Frames(b))[i]
  <2> SUFFICES ASSUME NEW i \in 1..(Len(a) + Len(b))
               PROVE  Frames(a \o b)[i] = (Frames(a) \o Frames(b))[i]
    OBVIOUS
  <2>1. Frames(a \o b)[i] = FrameOf((a \o b)[i])
    BY <1>2 DEF Frames
  <2>2. CASE i \in 1..Len(a)
    <3>1. (a \o b)[i] = a[i] /\ Frames(a)[i] = FrameOf(a[i])
      BY <2>2 DEF Frames
    <3>2. (Frames(a) \o Frames(b))[i] = Frames(a)[i]
      BY <1>1, <2>2
    <3> QED
      BY <2>1, <3>1, <3>2
  <2>3. CASE i \notin 1..Len(a)
    <3>1. i - Len(a) \in 1..Len(b) /\ ~(i <= Len(a))
      BY <1>2, <2>3
    <3>2. (a \o b)[i] = b[i - Len(a)] /\ Frames(b)[i - Len(a)] = FrameOf(b[i - Len(a)])
      BY <1>2, <3>1 DEF Frames
    <3>3. (Frames(a) \o Frames(b))[i] = Frames(b)[i - Len(a)]
      BY <1>1, <3>1
    <3> QED
      BY <2>1, <3>2, <3>3
  <2> QED
    BY <2>2, <2>3
<1>4. /\ Frames(a \o b) \in Seq(Seq(UnitOf)) /\ Len(Frames(a \o b)) = Len(a) + Len(b)
      /\ Frames(a) \o Frames(b) \in Seq(Seq(UnitOf))
      /\ Len(Frames(a) \o Frames(b)) = Len(a) + Len(b)
  <2>1. /\ Frames(a) \in Seq(Seq(UnitOf)) /\ Len(Frames(a)) = Len(a)
        /\ Frames(b) \in Seq(Seq(UnitOf)) /\ Len(Frames(b)) = Len(b)
    BY <1>1
  <2>2. Frames(a \o b) \in Seq(Seq(UnitOf)) /\ Len(Frames(a \o b)) = Len(a \o b)
    BY <1>1, <1>2
  <2> HIDE DEF Frames
  <2>3. /\ Frames(a) \o Frames(b) \in Seq(Seq(UnitOf))
        /\ Len(Frames(a) \o Frames(b)) = Len(Frames(a)) + Len(Frames(b))
    BY <2>1, ConcatProperties
  <2> QED
    BY <1>2, <2>1, <2>2, <2>3
<1> HIDE DEF Frames
<1>5. Frames(a \o b) = Frames(a) \o Frames(b)
  BY <1>3, <1>4, SeqEqual
<1> QED
  BY <1>1, <1>5

\* Units of packets, one frame behind the other.
LEMMA UnitsFacts ==
    ASSUME NEW a \in Seq(What), NEW b \in Seq(What)
    PROVE  /\ Units(a) \in Seq(UnitOf)
           /\ Units(a \o b) = Units(a) \o Units(b)
<1>1. \A s : Units(s) = FlattenSeq(Frames(s))
  BY DEF Units, Frames, FrameOf
<1>2. Frames(a) \in Seq(Seq(UnitOf)) /\ Frames(b) \in Seq(Seq(UnitOf))
  BY FramesFacts
<1> QED
  BY <1>1, <1>2, FramesFacts, FlattenType, FlattenConcat

\* No packets, no units.
LEMMA UnitsEmpty == Units(<<>>) = <<>>
  BY DEF Units, FlattenSeq

\* The units on the wire, without their keys.
Uncoded(s) == [i \in DOMAIN s |-> s[i].unit]

\* Taking the keys off keeps length and order.
LEMMA UncodedFacts ==
    ASSUME NEW a \in Seq(Coded), NEW b \in Seq(Coded)
    PROVE  /\ Uncoded(a) \in Seq(UnitOf) /\ Len(Uncoded(a)) = Len(a)
           /\ Uncoded(a \o b) = Uncoded(a) \o Uncoded(b)
<1>1. ASSUME NEW s \in Seq(Coded)
      PROVE  Uncoded(s) \in Seq(UnitOf) /\ Len(Uncoded(s)) = Len(s)
  <2>1. \A i \in 1..Len(s) : s[i].unit \in UnitOf
    <3>1. \A i \in 1..Len(s) : s[i] \in Coded
      OBVIOUS
    <3> QED BY <3>1 DEF Coded
  <2>2. Uncoded(s) \in [1..Len(s) -> UnitOf] /\ Len(s) \in Nat
    BY <2>1 DEF Uncoded
  <2> QED
    BY <2>2
<1>2. a \o b \in Seq(Coded) /\ Len(a \o b) = Len(a) + Len(b) /\ Len(a) \in Nat /\ Len(b) \in Nat
  OBVIOUS
<1>3. \A i \in 1..(Len(a) + Len(b)) : Uncoded(a \o b)[i] = (Uncoded(a) \o Uncoded(b))[i]
  <2> SUFFICES ASSUME NEW i \in 1..(Len(a) + Len(b))
               PROVE  Uncoded(a \o b)[i] = (Uncoded(a) \o Uncoded(b))[i]
    OBVIOUS
  <2>1. Uncoded(a \o b)[i] = (a \o b)[i].unit
    BY <1>2 DEF Uncoded
  <2>2. CASE i \in 1..Len(a)
    <3>1. (a \o b)[i] = a[i] /\ Uncoded(a)[i] = a[i].unit
      BY <2>2 DEF Uncoded
    <3>2. (Uncoded(a) \o Uncoded(b))[i] = Uncoded(a)[i]
      BY <1>1, <2>2
    <3> QED
      BY <2>1, <3>1, <3>2
  <2>3. CASE i \notin 1..Len(a)
    <3>1. i - Len(a) \in 1..Len(b) /\ ~(i <= Len(a))
      BY <1>2, <2>3
    <3>2. (a \o b)[i] = b[i - Len(a)] /\ Uncoded(b)[i - Len(a)] = b[i - Len(a)].unit
      BY <1>2, <3>1 DEF Uncoded
    <3>3. (Uncoded(a) \o Uncoded(b))[i] = Uncoded(b)[i - Len(a)]
      BY <1>1, <3>1
    <3> QED
      BY <2>1, <3>2, <3>3
  <2> QED
    BY <2>2, <2>3
<1>4. /\ Uncoded(a \o b) \in Seq(UnitOf) /\ Len(Uncoded(a \o b)) = Len(a) + Len(b)
      /\ Uncoded(a) \o Uncoded(b) \in Seq(UnitOf)
      /\ Len(Uncoded(a) \o Uncoded(b)) = Len(a) + Len(b)
  <2>1. /\ Uncoded(a) \in Seq(UnitOf) /\ Len(Uncoded(a)) = Len(a)
        /\ Uncoded(b) \in Seq(UnitOf) /\ Len(Uncoded(b)) = Len(b)
    BY <1>1
  <2>2. Uncoded(a \o b) \in Seq(UnitOf) /\ Len(Uncoded(a \o b)) = Len(a \o b)
    BY <1>1, <1>2
  <2> HIDE DEF Uncoded
  <2>3. /\ Uncoded(a) \o Uncoded(b) \in Seq(UnitOf)
        /\ Len(Uncoded(a) \o Uncoded(b)) = Len(Uncoded(a)) + Len(Uncoded(b))
    BY <2>1, ConcatProperties
  <2> QED
    BY <1>2, <2>1, <2>2, <2>3
<1> HIDE DEF Uncoded
<1>5. Uncoded(a \o b) = Uncoded(a) \o Uncoded(b)
  BY <1>3, <1>4, SeqEqual
<1> QED
  BY <1>1, <1>5

\* What is common behind two sequences can be taken off both.
LEMMA SameFront ==
    ASSUME NEW S, NEW a \in Seq(S), NEW b \in Seq(S), NEW c \in Seq(S), NEW d \in Seq(S),
           a \o b = c \o d, Len(b) = Len(d)
    PROVE  a = c
<1>1. Len(a) = Len(c) /\ Len(a) \in Nat
  <2>1. Len(a \o b) = Len(a) + Len(b) /\ Len(c \o d) = Len(c) + Len(d)
    OBVIOUS
  <2> QED
    BY <2>1
<1>2. \A i \in 1..Len(a) : a[i] = c[i]
  <2> SUFFICES ASSUME NEW i \in 1..Len(a) PROVE a[i] = c[i]
    OBVIOUS
  <2>1. (a \o b)[i] = a[i]
    OBVIOUS
  <2>2. (c \o d)[i] = c[i]
    BY <1>1
  <2> QED
    BY <2>1, <2>2
<1> QED
  BY <1>1, <1>2, SeqEqual

-----------------------------------------------------------------------------
(* The invariant of the stream.                                             *)

StreamType ==
    /\ stream \in [sending : Seq(Coded), batch : Seq(What),
                   cipher : [from : Nat, next : Nat], shut : BOOLEAN,
                   wire : Seq(Coded), done : Seq(What), torn : BOOLEAN]
    /\ overlapped \in BOOLEAN

\* Until a disconnect has run beside another call, one thread is idle, and the
\* number a send works with is the client's.
AloneInv ==
    ~overlapped =>
        /\ At("main", "idle") \/ At("other", "idle")
        /\ At("main", "send") => Main.fd = socket_fd

\* Where the calls account for what the peer is sent.
Clean == ~stream.torn /\ ~overlapped

\* Outside send_all nothing is left to send; inside, no more than the batch.
SettledInv ==
    Clean =>
        /\ Main.pc \notin {"send_load", "send"} => stream.sending = <<>> /\ stream.batch = <<>>
        /\ Len(stream.sending) <= Len(Units(stream.batch))

\* A key has been used for each unit behind the first encrypted one.
KeysInv ==
    Clean /\ Encrypting =>
        /\ stream.cipher.from >= 1
        /\ stream.cipher.from + stream.cipher.next = Len(stream.wire) + Len(stream.sending) + 1

StreamInv == StreamType /\ AloneInv /\ SettledInv /\ KeysInv /\ StreamMatchesCalls

\* The key the peer expects for the i-th unit (see StreamMatchesCalls).
Expected(i) ==
    IF Encrypting /\ i >= stream.cipher.from THEN i - stream.cipher.from ELSE -1

\* StreamMatchesCalls says that the units are those of the calls and that each
\* has the key expected.
LEMMA MatchesIs ==
    StreamMatchesCalls <=>
      (Clean =>
         LET sent == stream.wire \o stream.sending
         IN  /\ Uncoded(sent) = Units(stream.done \o stream.batch)
             /\ \A i \in DOMAIN sent : sent[i].key = Expected(i))
  BY DEF StreamMatchesCalls, Clean, Uncoded, Expected

\* The fields of a stream with its type.
LEMMA StreamFields ==
    ASSUME StreamType
    PROVE  /\ stream.sending \in Seq(Coded) /\ stream.batch \in Seq(What)
           /\ stream.cipher \in [from : Nat, next : Nat]
           /\ stream.shut \in BOOLEAN
           /\ stream.wire \in Seq(Coded) /\ stream.done \in Seq(What)
           /\ stream.torn \in BOOLEAN
  BY DEF StreamType

\* A stream whose wire and batch say the same, with the same cipher, matches.
LEMMA SameStream ==
    ASSUME StreamType, StreamType', KeysInv, StreamMatchesCalls,
           Clean' => Clean /\ stream'.cipher = stream.cipher
                     /\ stream'.wire \o stream'.sending = stream.wire \o stream.sending
                     /\ stream'.done \o stream'.batch = stream.done \o stream.batch
    PROVE  KeysInv' /\ StreamMatchesCalls'
<1>1. /\ stream.wire \in Seq(Coded) /\ stream.sending \in Seq(Coded)
      /\ stream'.wire \in Seq(Coded) /\ stream'.sending \in Seq(Coded)
  BY DEF StreamType
<1>2. Clean' => Len(stream'.wire) + Len(stream'.sending) = Len(stream.wire) + Len(stream.sending)
  <2>1. /\ Len(stream'.wire \o stream'.sending) = Len(stream'.wire) + Len(stream'.sending)
        /\ Len(stream.wire \o stream.sending) = Len(stream.wire) + Len(stream.sending)
    BY <1>1, ConcatProperties
  <2> QED
    BY <2>1
<1>3. KeysInv'
  BY <1>2 DEF KeysInv, Encrypting
<1>4. StreamMatchesCalls'
  <2> SUFFICES ASSUME Clean'
               PROVE  LET sent == stream'.wire \o stream'.sending
                      IN  /\ Uncoded(sent) = Units(stream'.done \o stream'.batch)
                          /\ \A i \in DOMAIN sent : sent[i].key = Expected(i)'
    BY DEF StreamMatchesCalls, Clean, Uncoded, Expected
  <2>1. \A i : Expected(i)' = Expected(i)
    BY DEF Expected, Encrypting
  <2>2. LET sent == stream.wire \o stream.sending
        IN  /\ Uncoded(sent) = Units(stream.done \o stream.batch)
            /\ \A i \in DOMAIN sent : sent[i].key = Expected(i)
    BY MatchesIs
  <2> QED
    BY <2>1, <2>2
<1> QED
  BY <1>3, <1>4

\* A step that leaves the stream alone.
LEMMA StreamLeft ==
    ASSUME StreamInv, stream' = stream, overlapped' \in BOOLEAN,
           overlapped => overlapped',
           AloneInv',
           ~overlapped' /\ thread'["main"].pc \notin {"send_load", "send"} =>
               thread["main"].pc \notin {"send_load", "send"}
    PROVE  StreamInv'
<1>1. StreamType'
  BY DEF StreamInv, StreamType
<1>2. Clean' => Clean
  BY DEF Clean
<1>3. SettledInv'
  BY <1>2 DEF StreamInv, SettledInv, Main, Clean
<1>4. KeysInv' /\ StreamMatchesCalls'
  BY <1>1, <1>2, SameStream DEF StreamInv
<1> QED
  BY <1>1, <1>3, <1>4 DEF StreamInv

-----------------------------------------------------------------------------
(* send_all.                                                                *)

\* Keys and places of units count alike.
LEMMA KeyPlace ==
    ASSUME NEW from \in Nat, NEW next \in Nat, NEW w \in Nat, NEW i \in Nat,
           from + next = w + 1, ~(i <= w)
    PROVE  i >= from /\ i - from = next + (i - w) - 1
  OBVIOUS

\* send_all on packets, with nothing on its way: what it is about to send comes
\* behind what was sent, under the next keys.
LEMMA StartedMatches ==
    ASSUME StreamInv, NEW packets \in Seq(What), StartSending(packets),
           Clean => stream.sending = <<>> /\ stream.batch = <<>>,
           overlapped' \in BOOLEAN, overlapped => overlapped'
    PROVE  /\ StreamType' /\ KeysInv' /\ StreamMatchesCalls'
           /\ Clean' => Len(stream'.sending) <= Len(Units(stream'.batch))
<1> DEFINE units == Units(packets)
           Key(i) == IF Encrypting THEN stream.cipher.next + i - 1 ELSE -1
           new == [i \in DOMAIN units |-> [unit |-> units[i], key |-> Key(i)]]
           next == IF Encrypting THEN stream.cipher.next + Len(units) ELSE stream.cipher.next
<1>0. StreamType /\ KeysInv /\ StreamMatchesCalls
  BY DEF StreamInv
<1>1. /\ stream.sending \in Seq(Coded) /\ stream.batch \in Seq(What)
      /\ stream.cipher \in [from : Nat, next : Nat]
      /\ stream.wire \in Seq(Coded) /\ stream.done \in Seq(What)
  BY <1>0, StreamFields
<1>t. stream.cipher.from \in Nat /\ stream.cipher.next \in Nat /\ Len(stream.wire) \in Nat
  BY <1>1
<1>2. units \in Seq(UnitOf) /\ Len(units) \in Nat /\ DOMAIN units = 1..Len(units)
  <2>1. units \in Seq(UnitOf)
    BY UnitsFacts
  <2> HIDE DEF units
  <2> QED
    BY <2>1
<1>3. \A i : i \in DOMAIN units => Key(i) \in Int
  BY <1>1, <1>2
<1>4. /\ new \in Seq(Coded) /\ Len(new) = Len(units)
      /\ \A i \in 1..Len(units) : new[i].unit = units[i] /\ new[i].key = Key(i)
  <2> HIDE DEF units, Key
  <2>1. \A i \in 1..Len(units) : units[i] \in UnitOf
    BY <1>2
  <2>2. new \in [1..Len(units) -> Coded]
    BY <1>2, <1>3, <2>1 DEF Coded
  <2> QED
    BY <1>2, <2>2
<1>5. stream' = [stream EXCEPT !.sending = new, !.batch = packets, !.cipher.next = next]
  BY DEF StartSending
<1>6. next \in Nat
  <2> HIDE DEF units
  <2> QED
    BY <1>1, <1>2
<1> HIDE DEF units, Key, new, next
<1>7. /\ stream'.sending = new /\ stream'.batch = packets
      /\ stream'.wire = stream.wire /\ stream'.done = stream.done
      /\ stream'.torn = stream.torn /\ stream'.shut = stream.shut
      /\ stream'.cipher.from = stream.cipher.from /\ stream'.cipher.next = next
      /\ stream'.cipher \in [from : Nat, next : Nat]
  BY <1>0, <1>1, <1>5, <1>6 DEF StreamType
<1>8. StreamType'
  BY <1>0, <1>4, <1>5, <1>6 DEF StreamType
<1>9. Clean' => Clean
  BY <1>7 DEF Clean
<1>10. Clean => /\ Uncoded(stream.wire) = Units(stream.done)
                /\ \A i \in 1..Len(stream.wire) : stream.wire[i].key = Expected(i)
                /\ Encrypting => /\ stream.cipher.from >= 1
                                 /\ stream.cipher.from + stream.cipher.next = Len(stream.wire) + 1
  <2> SUFFICES ASSUME Clean
               PROVE  /\ Uncoded(stream.wire) = Units(stream.done)
                      /\ \A i \in 1..Len(stream.wire) : stream.wire[i].key = Expected(i)
                      /\ Encrypting =>
                           /\ stream.cipher.from >= 1
                           /\ stream.cipher.from + stream.cipher.next = Len(stream.wire) + 1
    OBVIOUS
  <2>1. stream.wire \o stream.sending = stream.wire /\ stream.done \o stream.batch = stream.done
    BY <1>1, ConcatEmptySeq
  <2>2. /\ Uncoded(stream.wire) = Units(stream.done)
        /\ \A i \in DOMAIN stream.wire : stream.wire[i].key = Expected(i)
    BY <1>0, <2>1, MatchesIs
  <2>3. DOMAIN stream.wire = 1..Len(stream.wire) /\ Len(stream.sending) = 0
    BY <1>1
  <2>4. Len(stream.wire) \in Nat
    BY <1>1
  <2> QED
    BY <1>0, <2>2, <2>3, <2>4 DEF KeysInv
<1>11. Clean' => (Encrypting' <=> Encrypting)
  <2>1. CASE ~Encrypting
    <3>1. stream.cipher = NoCipher /\ next = stream.cipher.next
      BY <2>1 DEF Encrypting, next
    <3>2. stream'.cipher = NoCipher
      BY <1>7, <3>1 DEF NoCipher
    <3> QED
      BY <2>1, <3>2 DEF Encrypting
  <2>2. CASE Encrypting
    <3>1. Clean' => stream'.cipher.from # 0
      BY <1>1, <1>7, <1>9, <1>10, <2>2
    <3> QED
      BY <2>2, <3>1 DEF Encrypting, NoCipher
  <2> QED
    BY <2>1, <2>2
<1>12. KeysInv'
  <2> SUFFICES ASSUME Clean', Encrypting'
               PROVE  /\ stream'.cipher.from >= 1
                      /\ stream'.cipher.from + stream'.cipher.next
                           = Len(stream'.wire) + Len(stream'.sending) + 1
    BY DEF KeysInv
  <2>1. Encrypting /\ Clean
    BY <1>9, <1>11
  <2>2. next = stream.cipher.next + Len(units)
    BY <2>1 DEF next
  <2>3. stream.cipher.from >= 1 /\ stream.cipher.from + stream.cipher.next = Len(stream.wire) + 1
    BY <1>10, <2>1
  <2>4. stream.cipher.from + (stream.cipher.next + Len(units)) = Len(stream.wire) + Len(units) + 1
    <3> DEFINE from == stream.cipher.from
               used == stream.cipher.next
               sent == Len(stream.wire)
               more == Len(units)
    <3>1. from \in Nat /\ used \in Nat /\ sent \in Nat /\ more \in Nat
      BY <1>t, <1>2
    <3>2. from + used = sent + 1
      BY <2>3
    <3> HIDE DEF from, used, sent, more
    <3>3. from + (used + more) = sent + more + 1
      BY <3>1, <3>2
    <3> QED
      BY <3>3 DEF from, used, sent, more
  <2> QED
    BY <1>4, <1>7, <2>2, <2>3, <2>4
<1>13. StreamMatchesCalls'
  <2> SUFFICES ASSUME Clean'
               PROVE  LET sent == stream'.wire \o stream'.sending
                      IN  /\ Uncoded(sent) = Units(stream'.done \o stream'.batch)
                          /\ \A i \in DOMAIN sent : sent[i].key = Expected(i)'
    BY DEF StreamMatchesCalls, Clean, Uncoded, Expected
  <2> DEFINE sent == stream.wire \o new
  <2>0. stream'.wire \o stream'.sending = sent
    BY <1>7
  <2>1. Uncoded(sent) = Units(stream.done \o packets)
    <3>1. Uncoded(sent) = Uncoded(stream.wire) \o Uncoded(new)
      BY <1>1, <1>4, UncodedFacts
    <3>2. Units(stream.done \o packets) = Units(stream.done) \o units
      BY <1>1, UnitsFacts DEF units
    <3>3. Uncoded(new) = units
      <4>1. Uncoded(new) \in Seq(UnitOf) /\ Len(Uncoded(new)) = Len(new)
        BY <1>4, UncodedFacts
      <4>2. DOMAIN new = 1..Len(units)
        BY <1>2, <1>4
      <4>3. \A i \in 1..Len(units) : Uncoded(new)[i] = units[i]
        BY <1>4, <4>2 DEF Uncoded
      <4> QED
        BY <1>2, <1>4, <4>1, <4>3, SeqEqual
    <3>4. Uncoded(stream.wire) = Units(stream.done)
      BY <1>9, <1>10
    <3> QED
      BY <3>1, <3>2, <3>3, <3>4
  <2>2. ASSUME NEW i \in DOMAIN sent
        PROVE  sent[i].key = Expected(i)'
    <3>0. /\ Len(stream.wire) \in Nat /\ DOMAIN stream.wire = 1..Len(stream.wire)
          /\ DOMAIN sent = 1..(Len(stream.wire) + Len(units))
      <4>1. sent \in Seq(Coded) /\ Len(sent) = Len(stream.wire) + Len(new)
        BY <1>1, <1>4, ConcatProperties
      <4> HIDE DEF sent
      <4> QED
        BY <1>1, <1>4, <4>1
    <3>1. Expected(i)' = Expected(i)
      BY <1>7, <1>11 DEF Expected
    <3>2. CASE i <= Len(stream.wire)
      <4>1. i \in 1..Len(stream.wire)
        BY <3>0, <3>2
      <4>2. sent[i] = stream.wire[i]
        BY <1>1, <1>4, <4>1
      <4> QED
        BY <1>9, <1>10, <3>1, <4>1, <4>2
    <3>3. CASE ~(i <= Len(stream.wire))
      <4> DEFINE j == i - Len(stream.wire)
      <4>1. j \in 1..Len(units) /\ i \in Nat
        BY <1>2, <3>0, <3>3
      <4>2. sent[i] = new[j]
        BY <1>1, <1>2, <1>4, <3>0, <3>3
      <4>3. sent[i].key = Key(j)
        BY <1>4, <4>1, <4>2
      <4>4. Key(j) = Expected(i)
        <5>1. CASE ~Encrypting
          BY <5>1 DEF Key, Expected
        <5>2. CASE Encrypting
          <6>1. stream.cipher.from + stream.cipher.next = Len(stream.wire) + 1
            BY <1>9, <1>10, <5>2
          <6>2. Key(j) = stream.cipher.next + j - 1
            BY <5>2 DEF Key
          <6>3. i >= stream.cipher.from /\ i - stream.cipher.from = stream.cipher.next + j - 1
            <7>1. i \in Nat /\ ~(i <= Len(stream.wire))
              BY <3>3, <4>1
            <7>2. \A F, X, W \in Nat : F + X = W + 1 /\ ~(i <= W) =>
                     i >= F /\ i - F = X + (i - W) - 1
              BY <7>1, KeyPlace
            <7> HIDE DEF sent
            <7>3. /\ i >= stream.cipher.from
                  /\ i - stream.cipher.from = stream.cipher.next + (i - Len(stream.wire)) - 1
              BY <1>t, <6>1, <7>1, <7>2, Zenon
            <7> QED
              BY <7>3, Zenon
          <6> QED
            BY <5>2, <6>2, <6>3 DEF Expected
        <5> QED
          BY <5>1, <5>2
      <4> QED
        BY <3>1, <4>3, <4>4
    <3> QED
      BY <3>2, <3>3
  <2> QED
    BY <1>7, <2>0, <2>1, <2>2
<1>14. Len(stream'.sending) <= Len(Units(stream'.batch))
  BY <1>2, <1>4, <1>7 DEF units
<1> QED
  BY <1>8, <1>12, <1>13, <1>14

-----------------------------------------------------------------------------
(* The steps that send nothing.                                             *)

\* A step of a thread inside a call that neither enters send nor leaves it.
Goes(t) ==
    /\ Keeps(t) /\ overlapped' = overlapped
    /\ thread[t].pc \notin {"idle", "send_load", "send"} /\ thread'[t].pc # "send"

\* The first step of a call of the client's thread.
Enters(label) ==
    /\ Keeps("main") /\ thread["main"].pc = "idle" /\ thread'["main"].pc = label
    /\ overlapped' = (overlapped \/ thread["other"].pc # "idle")

\* A thread that goes on leaves the other where it was.
LEMMA GoesAlone ==
    ASSUME StreamInv, NEW t \in Thread, Goes(t)
    PROVE  /\ AloneInv'
           /\ overlapped' \in BOOLEAN /\ (overlapped => overlapped')
           /\ ~overlapped' /\ thread'["main"].pc \notin {"send_load", "send"} =>
                thread["main"].pc \notin {"send_load", "send"}
<1>1. AloneInv /\ overlapped \in BOOLEAN
  BY DEF StreamInv, StreamType
<1>2. CASE t = "main"
  <2>1. thread'["other"] = thread["other"]
    BY <1>2 DEF Goes, Keeps, Thread
  <2>2. thread["main"].pc \notin {"idle", "send_load", "send"} /\ thread'["main"].pc # "send"
    BY <1>2 DEF Goes
  <2> QED
    BY <1>1, <2>1, <2>2 DEF Goes, AloneInv, At, Main
<1>3. CASE t = "other"
  <2>1. thread'["main"] = thread["main"] /\ thread["other"].pc # "idle"
    BY <1>3 DEF Goes, Keeps, Thread
  <2> QED
    BY <1>1, <2>1 DEF Goes, AloneInv, At, Main
<1> QED
  BY <1>2, <1>3 DEF Thread

\* A call is entered while the other thread is idle, or overlaps.
LEMMA EntersAlone ==
    ASSUME StreamInv, NEW label, label # "send", Enters(label)
    PROVE  /\ AloneInv'
           /\ overlapped' \in BOOLEAN /\ (overlapped => overlapped')
           /\ thread["main"].pc \notin {"send_load", "send"}
<1>1. AloneInv /\ overlapped \in BOOLEAN
  BY DEF StreamInv, StreamType
<1>2. thread'["other"] = thread["other"]
  BY DEF Enters, Keeps, Thread
<1> QED
  BY <1>1, <1>2 DEF Enters, AloneInv, At, Main

\* Such steps keep the invariant of the stream they leave alone.
LEMMA GoesQuietly ==
    ASSUME StreamInv, NEW t \in Thread, Goes(t), stream' = stream
    PROVE  StreamInv'
  BY GoesAlone, StreamLeft

LEMMA EntersQuietly ==
    ASSUME StreamInv, NEW label, label # "send", Enters(label), stream' = stream
    PROVE  StreamInv'
  BY EntersAlone, StreamLeft

\* mc_client_disconnect, whichever thread runs it.
LEMMA DisconnectGoes ==
    ASSUME TypeInv, NEW t \in Thread, DisconnectStep(t)
    PROVE  Goes(t) /\ (stream' = stream \/ CloseSocket(t))
<1>1. /\ thread[t].ret \in {"state", "init", "fallback"}
      /\ {"state", "init", "fallback"} \subseteq Label \ {"send"}
      /\ socket_fd \in 0..MaxFd
  BY ThreadFields DEF TypeInv, Label
<1>2. CASE \/ ExchangeSocket(t) \/ CloseSocket(t) \/ BackendClose(t) \/ RingClose(t)
           \/ RingClear(t) \/ EventClose(t) \/ EventClear(t)
  <2>1. PICK label \in Label :
          /\ label # "send"
          /\ \/ Goto(t, label)
             \/ \E n \in 0..MaxFd : Copy(t, n, label)
    BY <1>1, <1>2, LabelFacts DEF ExchangeSocket, CloseSocket, BackendClose, RingClose,
       RingClear, EventClose, EventClear
  <2>2. Keeps(t) /\ thread'[t].pc = label
    BY <2>1, GotoFacts, CopyFacts
  <2>3. /\ overlapped' = overlapped
        /\ thread[t].pc \in {"exchange", "close_socket", "backend_close", "ring_close",
                             "ring_clear", "event_close", "event_clear"}
    BY <1>2 DEF ExchangeSocket, CloseSocket, BackendClose, RingClose, RingClear,
       EventClose, EventClear, At
  <2>4. stream' = stream \/ CloseSocket(t)
    BY <1>2 DEF ExchangeSocket, BackendClose, RingClose, RingClear, EventClose, EventClear
  <2> QED
    BY <2>1, <2>2, <2>3, <2>4 DEF Goes
<1>3. CASE DisconnectBackend(t)
  <2>1. /\ CallClose(t, "backend_close", "state") /\ thread[t].pc = "disconnect_backend"
        /\ overlapped' = overlapped /\ stream' = stream
    BY <1>3 DEF DisconnectBackend, At
  <2>2. Keeps(t) /\ thread'[t].pc = "backend_close"
    BY <2>1, CallCloseFacts, LabelFacts
  <2> QED
    BY <2>1, <2>2 DEF Goes
<1>4. CASE ChangeState(t)
  <2>1. /\ Return(t) /\ thread[t].pc = "state"
        /\ overlapped' = overlapped /\ stream' = stream
    BY <1>4 DEF ChangeState, At
  <2>2. Keeps(t) /\ thread'[t].pc = "idle"
    BY <2>1, ReturnFacts
  <2> QED
    BY <2>1, <2>2 DEF Goes
<1> QED
  BY <1>2, <1>3, <1>4 DEF DisconnectStep

\* A new connection has the type of a stream.
LEMMA NoStreamType ==
    /\ NoStream \in [sending : Seq(Coded), batch : Seq(What),
                     cipher : [from : Nat, next : Nat], shut : BOOLEAN,
                     wire : Seq(Coded), done : Seq(What), torn : BOOLEAN]
    /\ NoStream.sending = <<>> /\ NoStream.batch = <<>> /\ NoStream.cipher = NoCipher
    /\ NoStream.wire = <<>> /\ NoStream.done = <<>>
<1>1. <<>> \in Seq(Coded) /\ <<>> \in Seq(What)
  OBVIOUS
<1>2. NoCipher \in [from : Nat, next : Nat]
  BY DEF NoCipher
<1> QED
  BY <1>1, <1>2 DEF NoStream

\* A socket that is closed has no stream any more.
LEMMA DisconnectStream ==
    ASSUME TypeInv, StreamInv, NEW t \in Thread, DisconnectStep(t)
    PROVE  StreamInv'
<1>1. CASE stream' = stream
  BY <1>1, DisconnectGoes, GoesQuietly
<1>2. CASE CloseSocket(t)
  <2>1. Goes(t)
    BY DisconnectGoes
  <2>2. AloneInv' /\ overlapped' \in BOOLEAN
    BY <2>1, GoesAlone
  <2>3. stream' = [NoStream EXCEPT !.torn = TRUE, !.sending = stream.sending,
                                   !.batch = stream.batch]
    BY <1>2 DEF CloseSocket
  <2>4. /\ stream.sending \in Seq(Coded) /\ stream.batch \in Seq(What)
    BY StreamFields DEF StreamInv
  <2>5. StreamType' /\ stream'.torn
    <3>1. NoStream \in [sending : Seq(Coded), batch : Seq(What),
                        cipher : [from : Nat, next : Nat], shut : BOOLEAN,
                        wire : Seq(Coded), done : Seq(What), torn : BOOLEAN]
      BY NoStreamType
    <3> HIDE DEF NoStream
    <3> QED
      BY <2>2, <2>3, <2>4, <3>1 DEF StreamType
  <2> QED
    BY <2>2, <2>5 DEF StreamInv, SettledInv, KeysInv, StreamMatchesCalls, Clean
<1> QED
  BY <1>1, <1>2, DisconnectGoes

\* backend_wait's result.
LEMMA WaitResultGoes ==
    ASSUME TypeInv, NEW result, WaitResult(result),
           thread["main"].pc \notin {"idle", "send_load", "send"}
    PROVE  Goes("main") /\ stream' = stream
<1>1. overlapped' = overlapped /\ stream' = stream
  BY DEF WaitResult
<1>2. \/ Return("main")
      \/ MainGoes("recv_load") \/ MainGoes("recv") \/ MainGoes("exchange")
  BY Zenon DEF WaitResult, Fail, Main
<1>3. Keeps("main") /\ thread'["main"].pc \in {"idle", "recv_load", "recv", "exchange"}
  BY <1>2, ReturnFacts, MainGoesFacts, LabelFacts DEF Thread
<1> QED
  BY <1>1, <1>3 DEF Goes

\* The steps of the client's thread outside send_all.
LEMMA MainGoesOn ==
    ASSUME TypeInv,
           \/ StoreSocket \/ AcceptStep \/ BackendInit \/ BackendUnavailable \/ Accepted
           \/ WaitStep \/ ReceiveStep
    PROVE  Goes("main") /\ stream' = stream
<1>0. "main" \in Thread
  BY DEF Thread
<1>1. CASE StoreSocket
  <2>1. /\ CallClose("main", "backend_close", "init") /\ thread["main"].pc = "store"
        /\ overlapped' = overlapped /\ stream' = stream
    BY <1>1 DEF StoreSocket, At
  <2>2. Keeps("main") /\ thread'["main"].pc = "backend_close"
    BY <1>0, <2>1, CallCloseFacts, LabelFacts
  <2> QED
    BY <2>1, <2>2 DEF Goes
<1>2. CASE AcceptSize \/ AcceptBody \/ AcceptClient \/ BackendUnavailable \/ RingEnters
           \/ RingGone \/ Fallback \/ BackendInit
  <2>1. /\ overlapped' = overlapped /\ stream' = stream
        /\ thread["main"].pc \in {"accept_size", "accept_body", "accept_check", "init",
                                  "ring_enter", "ring_reap", "fallback"}
    BY <1>2 DEF AcceptSize, AcceptBody, AcceptClient, BackendUnavailable, RingEnters,
       RingGone, Fallback, BackendInit, At, Main
  <2>2. PICK label \in Label : label # "send" /\ MainGoes(label)
    BY <1>2, LabelFacts DEF AcceptSize, AcceptBody, AcceptClient, BackendUnavailable,
       RingEnters, RingGone, Fallback, BackendInit, Fail
  <2>3. Keeps("main") /\ thread'["main"].pc = label
    BY <2>2, MainGoesFacts
  <2> QED
    BY <2>1, <2>2, <2>3 DEF Goes
<1>3. CASE AcceptRefuses \/ Accepted
  <2>1. /\ overlapped' = overlapped /\ stream' = stream /\ Return("main")
        /\ thread["main"].pc \in {"accept_size", "accept_body", "accept_check",
                                  "accept_refuse", "accepted"}
    BY <1>3 DEF AcceptRefuses, Accepted, At, Main
  <2>2. Keeps("main") /\ thread'["main"].pc = "idle"
    BY <1>0, <2>1, ReturnFacts
  <2> QED
    BY <2>1, <2>2 DEF Goes
<1>4. CASE BackendWait
  <2> DEFINE label == CASE backend = "IO_URING" -> "ring_enter"
                        [] backend = "EPOLL" -> "epoll_wait"
                        [] OTHER -> "poll_wait"
  <2>1. /\ thread["main"].pc = "wait" /\ overlapped' = overlapped /\ stream' = stream
        /\ thread' = [thread EXCEPT !["main"].wait_fd = socket_fd, !["main"].pc = label]
    BY <1>4 DEF BackendWait, At
  <2>2. label \in {"ring_enter", "epoll_wait", "poll_wait"}
    OBVIOUS
  <2> HIDE DEF label
  <2>3. Keeps("main") /\ thread'["main"].pc = label
    <3> DEFINE new == [thread["main"] EXCEPT !.wait_fd = socket_fd, !.pc = label]
    <3>1. /\ thread \in [Thread -> ThreadState] /\ "main" \in Thread
          /\ socket_fd \in 0..MaxFd
      BY <1>0 DEF TypeInv
    <3>2. label \in Label
      BY <2>2, LabelFacts
    <3>3. new \in ThreadState /\ new.pc = label
      BY <3>1, <3>2 DEF ThreadState
    <3>4. thread' = [thread EXCEPT !["main"] = new]
      BY <2>1
    <3> HIDE DEF new
    <3> QED
      BY <3>1, <3>3, <3>4 DEF Keeps
  <2> QED
    BY <2>1, <2>2, <2>3 DEF Goes
<1>5. CASE RingReaps \/ FallbackRefused \/ EpollWait \/ PollWait
  <2>1. PICK result \in {"ready", "timeout", "error"} : WaitResult(result)
    BY <1>5 DEF RingReaps, FallbackRefused, EpollWait, PollWait
  <2>2. thread["main"].pc \in {"ring_reap", "fallback", "epoll_wait", "poll_wait"}
    BY <1>5 DEF RingReaps, FallbackRefused, EpollWait, PollWait, At
  <2> QED
    BY <2>1, <2>2, WaitResultGoes
<1>6. CASE RingFails
  <2>1. /\ CallClose("main", "ring_close", "fallback")
        /\ thread["main"].pc \in {"ring_enter", "ring_reap"}
        /\ overlapped' = overlapped /\ stream' = stream
    BY <1>6 DEF RingFails, Main
  <2>2. Keeps("main") /\ thread'["main"].pc = "ring_close"
    BY <1>0, <2>1, CallCloseFacts, LabelFacts
  <2> QED
    BY <2>1, <2>2 DEF Goes
<1>7. CASE ReceiveLoad
  <2>1. /\ thread["main"].pc = "recv_load" /\ Copy("main", socket_fd, "recv")
        /\ overlapped' = overlapped /\ stream' = stream /\ socket_fd \in 0..MaxFd
    BY <1>7 DEF ReceiveLoad, At, TypeInv
  <2>2. Keeps("main") /\ thread'["main"].pc = "recv"
    BY <1>0, <2>1, CopyFacts, LabelFacts
  <2> QED
    BY <2>1, <2>2 DEF Goes
<1>8. CASE Receive
  <2>1. /\ thread["main"].pc = "recv" /\ overlapped' = overlapped /\ stream' = stream
        /\ \/ Return("main") \/ MainGoes("exchange")
           \/ thread' = [thread EXCEPT !["main"].pc = "wait", !["main"].call = "receive"]
    BY <1>8 DEF Receive, At, Fail
  <2>2. CASE Return("main") \/ MainGoes("exchange")
    <3>1. Keeps("main") /\ thread'["main"].pc \in {"idle", "exchange"}
      BY <1>0, <2>2, ReturnFacts, MainGoesFacts, LabelFacts
    <3> QED
      BY <2>1, <3>1 DEF Goes
  <2>3. CASE thread' = [thread EXCEPT !["main"].pc = "wait", !["main"].call = "receive"]
    <3>1. Keeps("main") /\ thread'["main"].pc = "wait"
      <4>1. "wait" \in Label /\ "receive" \in CallName
        BY LabelFacts DEF CallName
      <4> DEFINE new == [thread["main"] EXCEPT !.pc = "wait", !.call = "receive"]
      <4>2. thread \in [Thread -> ThreadState] /\ "main" \in Thread
        BY <1>0 DEF TypeInv
      <4>3. new \in ThreadState /\ new.pc = "wait"
        BY <4>1, <4>2 DEF ThreadState
      <4>4. thread' = [thread EXCEPT !["main"] = new]
        BY <2>3
      <4> HIDE DEF new
      <4> QED
        BY <4>2, <4>3, <4>4 DEF Keeps
    <3> QED
      BY <2>1, <3>1 DEF Goes
  <2> QED
    BY <2>1, <2>2, <2>3
<1> QED
  BY <1>1, <1>2, <1>3, <1>4, <1>5, <1>6, <1>7, <1>8
  DEF AcceptStep, WaitStep, ReceiveStep

\* A call of the client's thread in terms of Enters.
LEMMA BeginEnters ==
    ASSUME TypeInv, NEW name \in CallName, NEW label \in Label, Begin(name, label)
    PROVE  Enters(label)
  BY BeginFacts DEF Begin, Enters, At

\* The calls that send nothing.
LEMMA QuietCalls ==
    ASSUME TypeInv, StreamInv, Wait \/ AppDisconnects \/ Accept
    PROVE  StreamInv'
<1>1. PICK label \in {"wait", "exchange", "accept_size"} : Enters(label) /\ stream' = stream
  <2>1. {"wait", "exchange", "accept_size"} \subseteq Label
        /\ {"wait", "poll", "disconnect", "accept"} \subseteq CallName
    BY LabelFacts DEF CallName
  <2>2. CASE Wait \/ AppDisconnects
    <3>1. PICK label \in {"wait", "exchange"}, name \in {"wait", "poll", "disconnect"} :
            Begin(name, label) /\ stream' = stream
      BY <2>2 DEF Wait, AppDisconnects
    <3> QED
      BY <2>1, <3>1, BeginEnters
  <2>3. CASE Accept
    <3>1. BeginWithSocket("accept", "accept_size") /\ stream' = stream
      BY <2>3 DEF Accept
    <3>2. Keeps("main") /\ thread["main"].pc = "idle" /\ thread'["main"].pc = "accept_size"
      BY <2>1, <3>1, BeginWithSocketFacts DEF At
    <3>3. overlapped' = (overlapped \/ thread["other"].pc # "idle")
      BY <3>1 DEF BeginWithSocket, At
    <3> QED
      BY <3>1, <3>2, <3>3 DEF Enters
  <2> QED
    BY <2>2, <2>3
<1> QED
  BY <1>1, EntersQuietly

\* A new connection starts with a new stream.
LEMMA OpenStream ==
    ASSUME TypeInv, StreamInv, Open
    PROVE  StreamInv'
<1>1. BeginWithSocket("open", "store") /\ stream' = NoStream
  BY DEF Open
<1>2. Keeps("main") /\ thread["main"].pc = "idle" /\ thread'["main"].pc = "store"
  BY <1>1, BeginWithSocketFacts, LabelFacts DEF At, CallName
<1>3. overlapped' = (overlapped \/ thread["other"].pc # "idle")
  BY <1>1 DEF BeginWithSocket, At
<1>4. AloneInv' /\ overlapped' \in BOOLEAN
  BY <1>2, <1>3, EntersAlone DEF Enters
<1>5. StreamType'
  BY <1>1, <1>4, NoStreamType DEF StreamType
<1>6. SettledInv' /\ KeysInv' /\ StreamMatchesCalls'
  <2> HIDE DEF NoStream
  <2>1. /\ stream'.sending = <<>> /\ stream'.batch = <<>> /\ stream'.cipher = NoCipher
        /\ stream'.wire = <<>> /\ stream'.done = <<>>
    BY <1>1, NoStreamType
  <2>2. /\ <<>> \o <<>> = <<>> /\ Units(<<>>) = <<>> /\ Len(<<>>) = 0
        /\ [i \in DOMAIN <<>> |-> <<>>[i].unit] = <<>>
    BY UnitsEmpty
  <2>3. SettledInv'
    BY <2>1, <2>2 DEF SettledInv
  <2>4. KeysInv'
    BY <2>1 DEF KeysInv, Encrypting
  <2>5. StreamMatchesCalls'
    BY <2>1, <2>2 DEF StreamMatchesCalls
  <2> QED
    BY <2>3, <2>4, <2>5
<1> QED
  BY <1>4, <1>5, <1>6 DEF StreamInv

\* The other thread starts a disconnect; while the client's thread is in a call
\* that overlaps it.
LEMMA OtherStream ==
    ASSUME TypeInv, StreamInv, OtherDisconnects
    PROVE  StreamInv'
<1>1. /\ Goto("other", "exchange") /\ stream' = stream
      /\ overlapped' = (overlapped \/ thread["main"].pc # "idle")
  BY DEF OtherDisconnects, At
<1>2. thread'["main"] = thread["main"]
  BY <1>1, GotoFacts, LabelFacts DEF Keeps, Thread
<1>3. overlapped \in BOOLEAN
  BY DEF StreamInv, StreamType
<1>4. AloneInv' /\ overlapped' \in BOOLEAN /\ (overlapped => overlapped')
  BY <1>1, <1>2, <1>3 DEF AloneInv, At, Main
<1> QED
  BY <1>1, <1>2, <1>4, StreamLeft

-----------------------------------------------------------------------------
(* The steps that send.                                                     *)

\* The packets of mc_client_open, and of the calls of the application.
LEMMA BatchFacts ==
    /\ <<"handshake">> \in Seq(What)
    /\ \A packets \in Batches : packets \in Seq(What)
<1>1. "handshake" \in What /\ \A p \in Packet : p \in What
  BY DEF What
<1>2. \A p, q \in What : <<p>> \in Seq(What) /\ <<p, q>> \in Seq(What)
  OBVIOUS
<1> HIDE DEF What
<1>3. ASSUME NEW packets \in Batches PROVE packets \in Seq(What)
  <2>1. \/ \E p \in Packet : packets = <<p>>
        \/ \E p, q \in Packet : packets = <<p, q>>
    BY DEF Batches
  <2> QED
    BY <1>1, <1>2, <2>1
<1> QED
  BY <1>1, <1>2, <1>3

\* The calls that send.
LEMMA SendStream ==
    ASSUME TypeInv, StreamInv, Send
    PROVE  StreamInv'
<1>1. Begin("send", "send_load")
  BY DEF Send
<1>2. PICK packets \in Batches : StartSending(packets)
  BY DEF Send
<1>3. Enters("send_load")
  BY <1>1, BeginEnters, LabelFacts DEF CallName
<1>4. AloneInv' /\ overlapped' \in BOOLEAN /\ (overlapped => overlapped')
  BY <1>3, EntersAlone
<1>5. Clean => stream.sending = <<>> /\ stream.batch = <<>>
  BY <1>3 DEF Enters, StreamInv, SettledInv, Main
<1>6. /\ StreamType' /\ KeysInv' /\ StreamMatchesCalls'
      /\ Clean' => Len(stream'.sending) <= Len(Units(stream'.batch))
  BY <1>2, <1>4, <1>5, BatchFacts, StartedMatches
<1>7. SettledInv'
  BY <1>3, <1>6 DEF SettledInv, Main, Enters
<1> QED
  BY <1>4, <1>6, <1>7 DEF StreamInv

\* mc_client_open's own.
LEMMA HandshakeStream ==
    ASSUME TypeInv, StreamInv, SendHandshake
    PROVE  StreamInv'
<1>1. /\ thread["main"].pc = "handshake" /\ StartSending(<<"handshake">>)
      /\ MainGoes("send_load") /\ overlapped' = overlapped
  BY DEF SendHandshake, At
<1>2. Goes("main") /\ thread'["main"].pc = "send_load"
  BY <1>1, MainGoesFacts, LabelFacts DEF Goes
<1>3. AloneInv' /\ overlapped' \in BOOLEAN /\ (overlapped => overlapped')
  BY <1>2, GoesAlone DEF Thread
<1>4. Clean => stream.sending = <<>> /\ stream.batch = <<>>
  BY <1>1 DEF StreamInv, SettledInv, Main
<1>5. /\ StreamType' /\ KeysInv' /\ StreamMatchesCalls'
      /\ Clean' => Len(stream'.sending) <= Len(Units(stream'.batch))
  BY <1>1, <1>3, <1>4, BatchFacts, StartedMatches
<1>6. SettledInv'
  BY <1>2, <1>5 DEF SettledInv, Main
<1> QED
  BY <1>3, <1>5, <1>6 DEF StreamInv

\* A step of the client's thread inside a call, for AloneInv.
LEMMA InsideAlone ==
    ASSUME StreamInv, thread["main"].pc # "idle", thread'["other"] = thread["other"],
           overlapped' = overlapped,
           ~overlapped /\ thread'["main"].pc = "send" => thread'["main"].fd = socket_fd'
    PROVE  AloneInv' /\ overlapped' \in BOOLEAN
  BY DEF StreamInv, StreamType, AloneInv, At, Main

\* send_all copies the number of the socket.
LEMMA LoadStream ==
    ASSUME TypeInv, StreamInv, SendLoad
    PROVE  StreamInv'
<1>1. /\ thread["main"].pc = "send_load" /\ Copy("main", socket_fd, "send")
      /\ overlapped' = overlapped /\ stream' = stream /\ socket_fd' = socket_fd
      /\ socket_fd \in 0..MaxFd
  BY DEF SendLoad, At, TypeInv, client
<1>2. Keeps("main") /\ thread'["main"].pc = "send" /\ thread'["main"].fd = socket_fd
  BY <1>1, CopyFacts, LabelFacts DEF Thread
<1>3. AloneInv' /\ overlapped' \in BOOLEAN
  BY <1>1, <1>2, InsideAlone DEF Keeps, Thread
<1> QED
  BY <1>1, <1>2, <1>3, StreamLeft

\* What leaves the front of a sequence goes behind what left before.
LEMMA Moved ==
    ASSUME NEW S, NEW a \in Seq(S), NEW b \in Seq(S), NEW n \in 1..Len(b)
    PROVE  /\ SubSeq(b, 1, n) \in Seq(S) /\ SubSeq(b, n + 1, Len(b)) \in Seq(S)
           /\ Len(SubSeq(b, n + 1, Len(b))) <= Len(b)
           /\ (a \o SubSeq(b, 1, n)) \o SubSeq(b, n + 1, Len(b)) = a \o b
<1> DEFINE front == SubSeq(b, 1, n)
           back == SubSeq(b, n + 1, Len(b))
<1>1. Len(b) \in Nat /\ n \in Nat /\ n <= Len(b) /\ 1 <= n
  OBVIOUS
<1>2. /\ front \in Seq(S) /\ Len(front) = n
      /\ back \in Seq(S) /\ Len(back) = Len(b) - n
      /\ \A i \in 1..n : front[i] = b[i]
      /\ \A i \in 1..(Len(b) - n) : back[i] = b[n + i]
  OBVIOUS
<1> HIDE DEF front, back
<1>3. front \o back = b
  <2>1. /\ front \o back \in Seq(S) /\ Len(front \o back) = Len(b)
        /\ \A i \in 1..Len(b) : (front \o back)[i] = IF i <= n THEN front[i] ELSE back[i - n]
    <3>1. Len(front \o back) = Len(front) + Len(back)
      BY <1>2, ConcatProperties
    <3>2. front \o back \in Seq(S)
      BY <1>2, ConcatProperties
    <3>3. \A i \in 1..(Len(front) + Len(back)) :
            (front \o back)[i] = IF i <= Len(front) THEN front[i] ELSE back[i - Len(front)]
      BY <1>2, ConcatProperties
    <3> QED
      BY <1>1, <1>2, <3>1, <3>2, <3>3
  <2>2. \A i \in 1..Len(b) : (front \o back)[i] = b[i]
    <3> SUFFICES ASSUME NEW i \in 1..Len(b) PROVE (front \o back)[i] = b[i]
      OBVIOUS
    <3>1. CASE i <= n
      BY <1>1, <1>2, <2>1, <3>1
    <3>2. CASE ~(i <= n)
      <4>1. i - n \in 1..(Len(b) - n) /\ n + (i - n) = i
        BY <1>1, <3>2
      <4> QED
        BY <1>2, <2>1, <3>2, <4>1
    <3> QED
      BY <3>1, <3>2
  <2> QED
    BY <2>1, <2>2, SeqEqual
<1>4. (a \o front) \o back = a \o (front \o back)
  <2>1. \A x \in Seq(S), y \in Seq(S) : (a \o x) \o y = a \o (x \o y)
    OBVIOUS
  <2> QED
    BY <1>2, <2>1
<1>5. Len(back) <= Len(b)
  BY <1>1, <1>2
<1> QED
  BY <1>2, <1>3, <1>4, <1>5 DEF front, back

\* A send that takes some of what is left; with the client's own number it
\* cannot reach the file of another part of the program.
LEMMA SomeStream ==
    ASSUME TypeInv, SocketsInv, StreamInv, SendSome
    PROVE  StreamInv'
<1>1. /\ thread["main"].pc = "send" /\ thread' = thread /\ overlapped' = overlapped
      /\ socket_fd' = socket_fd
  BY DEF SendSome, At, client
<1>2. PICK n \in 1..Len(stream.sending) :
        LET gone == SubSeq(stream.sending, 1, n)
        IN  \/ stream' = [stream EXCEPT !.wire = @ \o gone, !.sending = Unsent(n)]
            \/ Is(Main.fd, "foreign") /\ stream' = [stream EXCEPT !.sending = Unsent(n)]
  BY DEF SendSome
<1>3. AloneInv' /\ overlapped' \in BOOLEAN /\ overlapped \in BOOLEAN /\ AloneInv
  <2>1. AloneInv /\ overlapped \in BOOLEAN
    BY DEF StreamInv, StreamType
  <2> QED
    BY <1>1, <2>1 DEF AloneInv, At, Main
<1>4. /\ stream.sending \in Seq(Coded) /\ stream.batch \in Seq(What)
      /\ stream.cipher \in [from : Nat, next : Nat] /\ stream.shut \in BOOLEAN
      /\ stream.wire \in Seq(Coded) /\ stream.done \in Seq(What)
      /\ stream.torn \in BOOLEAN /\ StreamType
  BY StreamFields DEF StreamInv
<1> DEFINE gone == SubSeq(stream.sending, 1, n)
<1>5. /\ gone \in Seq(Coded) /\ Unsent(n) \in Seq(Coded)
      /\ Len(Unsent(n)) <= Len(stream.sending)
      /\ (stream.wire \o gone) \o Unsent(n) = stream.wire \o stream.sending
  <2>1. \A a, b \in Seq(Coded) : \A k \in 1..Len(b) :
          /\ SubSeq(b, 1, k) \in Seq(Coded) /\ SubSeq(b, k + 1, Len(b)) \in Seq(Coded)
          /\ Len(SubSeq(b, k + 1, Len(b))) <= Len(b)
          /\ (a \o SubSeq(b, 1, k)) \o SubSeq(b, k + 1, Len(b)) = a \o b
    BY Moved
  <2>2. Unsent(n) = SubSeq(stream.sending, n + 1, Len(stream.sending))
    BY DEF Unsent
  <2>3. /\ SubSeq(stream.sending, 1, n) \in Seq(Coded)
        /\ SubSeq(stream.sending, n + 1, Len(stream.sending)) \in Seq(Coded)
        /\ Len(SubSeq(stream.sending, n + 1, Len(stream.sending))) <= Len(stream.sending)
        /\ (stream.wire \o SubSeq(stream.sending, 1, n))
             \o SubSeq(stream.sending, n + 1, Len(stream.sending))
             = stream.wire \o stream.sending
    BY <1>2, <1>4, <2>1, Zenon
  <2> QED
    BY <2>2, <2>3, Zenon
<1>6. ~overlapped => ~Is(Main.fd, "foreign")
  <2> SUFFICES ASSUME ~overlapped, Is(Main.fd, "foreign") PROVE FALSE
    OBVIOUS
  <2>1. Main.fd = socket_fd /\ socket_fd # 0 /\ file[socket_fd] = "foreign"
    BY <1>1, <1>3 DEF AloneInv, At, Is
  <2>2. socket_fd \in Fd
    BY <2>1, TransportAssumption DEF TypeInv, Fd
  <2> QED
    BY <2>1, <2>2 DEF SocketsInv
<1> HIDE DEF gone
<1>7. \/ stream' = [stream EXCEPT !.wire = @ \o gone, !.sending = Unsent(n)]
      \/ overlapped /\ stream' = [stream EXCEPT !.sending = Unsent(n)]
  BY <1>2, <1>6 DEF gone
<1> HIDE DEF Unsent
<1>8. stream.wire \o gone \in Seq(Coded)
  BY <1>4, <1>5
<1>9. StreamType'
  <2>1. CASE stream' = [stream EXCEPT !.wire = @ \o gone, !.sending = Unsent(n)]
    BY <1>3, <1>4, <1>5, <1>8, <2>1 DEF StreamType
  <2>2. CASE stream' = [stream EXCEPT !.sending = Unsent(n)]
    BY <1>3, <1>4, <1>5, <2>2 DEF StreamType
  <2> QED
    BY <1>7, <2>1, <2>2
<1>10. Clean' => /\ Clean /\ stream'.cipher = stream.cipher
                 /\ stream'.wire = stream.wire \o gone /\ stream'.sending = Unsent(n)
                 /\ stream'.batch = stream.batch /\ stream'.done = stream.done
  <2> SUFFICES ASSUME Clean'
               PROVE  /\ Clean /\ stream'.cipher = stream.cipher
                      /\ stream'.wire = stream.wire \o gone /\ stream'.sending = Unsent(n)
                      /\ stream'.batch = stream.batch /\ stream'.done = stream.done
    OBVIOUS
  <2>1. stream' = [stream EXCEPT !.wire = @ \o gone, !.sending = Unsent(n)]
    BY <1>1, <1>7 DEF Clean
  <2>2. /\ stream'.cipher = stream.cipher /\ stream'.torn = stream.torn
        /\ stream'.wire = stream.wire \o gone /\ stream'.sending = Unsent(n)
        /\ stream'.batch = stream.batch /\ stream'.done = stream.done
    BY <1>4, <2>1 DEF StreamType
  <2> QED
    BY <1>1, <2>2 DEF Clean
<1>11. KeysInv' /\ StreamMatchesCalls'
  BY <1>4, <1>5, <1>9, <1>10, SameStream DEF StreamInv
<1>12. SettledInv'
  <2> SUFFICES ASSUME Clean'
               PROVE  /\ thread'["main"].pc = "send"
                      /\ Len(stream'.sending) <= Len(Units(stream'.batch))
    BY DEF SettledInv, Main
  <2>1. Len(stream.sending) <= Len(Units(stream.batch))
    BY <1>10 DEF StreamInv, SettledInv
  <2>2. /\ Len(stream.sending) \in Nat /\ Len(Unsent(n)) \in Nat
        /\ Len(Units(stream.batch)) \in Nat
    BY <1>4, <1>5, UnitsFacts, LenProperties
  <2> QED
    BY <1>1, <1>5, <1>10, <2>1, <2>2
<1> QED
  BY <1>3, <1>9, <1>11, <1>12 DEF StreamInv

\* A send that fails without having sent or encrypted anything leaves no trace.
LEMMA FailsStream ==
    ASSUME TypeInv, StreamInv, SendFails
    PROVE  StreamInv'
<1>1. /\ thread["main"].pc = "send" /\ overlapped' = overlapped
      /\ stream' = [stream EXCEPT !.sending = <<>>, !.batch = <<>>,
           !.torn = @ \/ Encrypting \/ Len(stream.sending) < Len(Units(stream.batch))]
      /\ MainGoes("exchange") \/ Return("main")
  BY DEF SendFails, At, Fail
<1>2. Keeps("main") /\ thread'["main"].pc \in {"exchange", "idle"}
  BY <1>1, MainGoesFacts, ReturnFacts, LabelFacts DEF Thread
<1>3. AloneInv' /\ overlapped' \in BOOLEAN
  BY <1>1, <1>2, InsideAlone DEF Keeps, Thread
<1>4. /\ stream.sending \in Seq(Coded) /\ stream.batch \in Seq(What)
      /\ stream.cipher \in [from : Nat, next : Nat] /\ stream.shut \in BOOLEAN
      /\ stream.wire \in Seq(Coded) /\ stream.done \in Seq(What)
      /\ stream.torn \in BOOLEAN /\ StreamType
  BY StreamFields DEF StreamInv
<1> DEFINE torn == stream.torn \/ Encrypting \/ Len(stream.sending) < Len(Units(stream.batch))
<1>5. /\ torn \in BOOLEAN
      /\ stream' = [stream EXCEPT !.sending = <<>>, !.batch = <<>>, !.torn = torn]
  BY <1>1, <1>4 DEF StreamType
<1> HIDE DEF torn
<1>6. /\ StreamType'
      /\ stream'.sending = <<>> /\ stream'.batch = <<>> /\ stream'.torn = torn
      /\ stream'.cipher = stream.cipher /\ stream'.wire = stream.wire
      /\ stream'.done = stream.done
  <2>1. <<>> \in Seq(Coded) /\ <<>> \in Seq(What)
    OBVIOUS
  <2> QED
    BY <1>3, <1>4, <1>5, <2>1 DEF StreamType
<1>7. Clean' => Clean /\ ~Encrypting /\ Len(stream.sending) = Len(Units(stream.batch))
  <2> SUFFICES ASSUME Clean'
               PROVE  Clean /\ ~Encrypting /\ Len(stream.sending) = Len(Units(stream.batch))
    OBVIOUS
  <2>1. ~torn /\ ~overlapped
    BY <1>1, <1>6 DEF Clean
  <2>2. /\ ~stream.torn /\ ~Encrypting
        /\ ~(Len(stream.sending) < Len(Units(stream.batch)))
    BY <2>1 DEF torn
  <2>3. Clean
    BY <2>1, <2>2 DEF Clean
  <2>4. Len(stream.sending) <= Len(Units(stream.batch))
    BY <2>3 DEF StreamInv, SettledInv
  <2>5. Len(stream.sending) \in Nat /\ Len(Units(stream.batch)) \in Nat
    BY <1>4, UnitsFacts, LenProperties
  <2> QED
    BY <2>2, <2>3, <2>4, <2>5
<1>8. KeysInv' /\ (Clean' => ~Encrypting')
  BY <1>6, <1>7 DEF KeysInv, Encrypting
<1>9. StreamMatchesCalls'
  <2> SUFFICES ASSUME Clean'
               PROVE  LET sent == stream'.wire \o stream'.sending
                      IN  /\ Uncoded(sent) = Units(stream'.done \o stream'.batch)
                          /\ \A i \in DOMAIN sent : sent[i].key = Expected(i)'
    BY DEF StreamMatchesCalls, Clean, Uncoded, Expected
  <2>1. /\ Uncoded(stream.wire \o stream.sending) = Units(stream.done \o stream.batch)
        /\ \A i \in DOMAIN (stream.wire \o stream.sending) :
             (stream.wire \o stream.sending)[i].key = Expected(i)
    BY <1>7, MatchesIs DEF StreamInv
  <2>2. /\ Uncoded(stream.wire \o stream.sending)
             = Uncoded(stream.wire) \o Uncoded(stream.sending)
        /\ Uncoded(stream.wire) \in Seq(UnitOf) /\ Uncoded(stream.sending) \in Seq(UnitOf)
        /\ Len(Uncoded(stream.sending)) = Len(stream.sending)
    BY <1>4, UncodedFacts
  <2>3. /\ Units(stream.done \o stream.batch) = Units(stream.done) \o Units(stream.batch)
        /\ Units(stream.done) \in Seq(UnitOf) /\ Units(stream.batch) \in Seq(UnitOf)
    BY <1>4, UnitsFacts
  <2>4. Uncoded(stream.wire) = Units(stream.done)
    BY <1>7, <2>1, <2>2, <2>3, SameFront
  <2>5. stream'.wire \o stream'.sending = stream.wire /\ stream'.done \o stream'.batch = stream.done
    BY <1>4, <1>6, ConcatEmptySeq
  <2>6. \A i \in DOMAIN stream.wire : stream.wire[i].key = Expected(i)'
    <3> SUFFICES ASSUME NEW i \in DOMAIN stream.wire
                 PROVE  stream.wire[i].key = Expected(i)'
      OBVIOUS
    <3>1. Expected(i)' = Expected(i)
      BY <1>6 DEF Expected, Encrypting
    <3>2. /\ i \in DOMAIN (stream.wire \o stream.sending)
          /\ (stream.wire \o stream.sending)[i] = stream.wire[i]
      <4>1. \A a, b \in Seq(Coded) : \A k \in DOMAIN a :
              k \in DOMAIN (a \o b) /\ (a \o b)[k] = a[k]
        OBVIOUS
      <4> QED
        BY <1>4, <4>1, Zenon
    <3> QED
      BY <2>1, <3>1, <3>2
  <2> QED
    BY <2>4, <2>5, <2>6
<1>10. SettledInv'
  <2>1. Len(stream'.sending) <= Len(Units(stream'.batch))
    BY <1>6, UnitsEmpty
  <2> QED
    BY <1>6, <2>1 DEF SettledInv
<1> QED
  BY <1>3, <1>6, <1>8, <1>9, <1>10 DEF StreamInv

\* A send that has sent everything.
LEMMA ReturnsStream ==
    ASSUME TypeInv, StreamInv, SendReturns
    PROVE  StreamInv'
<1>1. /\ thread["main"].pc = "send" /\ overlapped' = overlapped /\ stream.sending = <<>>
      /\ stream' = [stream EXCEPT !.done = @ \o stream.batch, !.batch = <<>>]
      /\ Return("main")
  BY DEF SendReturns, At
<1>2. Keeps("main") /\ thread'["main"].pc = "idle"
  BY <1>1, ReturnFacts DEF Thread
<1>3. AloneInv' /\ overlapped' \in BOOLEAN
  BY <1>1, <1>2, InsideAlone DEF Keeps, Thread
<1>4. /\ stream.sending \in Seq(Coded) /\ stream.batch \in Seq(What)
      /\ stream.wire \in Seq(Coded) /\ stream.done \in Seq(What) /\ StreamType
  BY StreamFields DEF StreamInv
<1>5. <<>> \in Seq(What) /\ stream.done \o stream.batch \in Seq(What)
  BY <1>4
<1>6. /\ StreamType'
      /\ stream'.sending = <<>> /\ stream'.batch = <<>> /\ stream'.torn = stream.torn
      /\ stream'.cipher = stream.cipher /\ stream'.wire = stream.wire
      /\ stream'.done = stream.done \o stream.batch
  BY <1>1, <1>3, <1>4, <1>5 DEF StreamType
<1>7. /\ stream'.done \o stream'.batch = stream.done \o stream.batch
      /\ stream'.wire \o stream'.sending = stream.wire \o stream.sending
  BY <1>1, <1>5, <1>6, ConcatEmptySeq
<1>8. KeysInv' /\ StreamMatchesCalls'
  BY <1>1, <1>4, <1>6, <1>7, SameStream DEF StreamInv, Clean
<1>9. SettledInv'
  BY <1>6, UnitsEmpty DEF SettledInv
<1> QED
  BY <1>3, <1>6, <1>8, <1>9 DEF StreamInv

\* The transform is installed between two frames: the keys count from there.
LEMMA TransformsStream ==
    ASSUME TypeInv, StreamInv, SetTransforms
    PROVE  StreamInv'
<1>1. /\ thread["main"].pc = "idle" /\ thread' = thread /\ overlapped' = overlapped
      /\ ~Encrypting
      /\ stream' = [stream EXCEPT !.cipher = [from |-> Len(stream.wire) + 1, next |-> 0]]
  BY DEF SetTransforms, At
<1>2. AloneInv' /\ overlapped' \in BOOLEAN
  <2>1. AloneInv /\ overlapped \in BOOLEAN
    BY DEF StreamInv, StreamType
  <2> QED
    BY <1>1, <2>1 DEF AloneInv, At, Main
<1>3. /\ stream.sending \in Seq(Coded) /\ stream.batch \in Seq(What)
      /\ stream.wire \in Seq(Coded) /\ stream.done \in Seq(What) /\ StreamType
      /\ Len(stream.wire) \in Nat
  <2>1. stream.wire \in Seq(Coded)
    BY StreamFields DEF StreamInv
  <2> QED
    BY <2>1, StreamFields, LenProperties DEF StreamInv
<1>4. /\ StreamType'
      /\ stream'.sending = stream.sending /\ stream'.batch = stream.batch
      /\ stream'.torn = stream.torn
      /\ stream'.wire = stream.wire /\ stream'.done = stream.done
      /\ stream'.cipher.from = Len(stream.wire) + 1 /\ stream'.cipher.next = 0
  <2> DEFINE cipher == [from |-> Len(stream.wire) + 1, next |-> 0]
  <2>1. /\ cipher \in [from : Nat, next : Nat]
        /\ cipher.from = Len(stream.wire) + 1 /\ cipher.next = 0
    BY <1>3
  <2>2. stream' = [stream EXCEPT !.cipher = cipher]
    BY <1>1
  <2> HIDE DEF cipher
  <2> QED
    BY <1>2, <1>3, <2>1, <2>2 DEF StreamType
<1>5. Clean' <=> Clean
  BY <1>1, <1>4 DEF Clean
<1>6. SettledInv'
  BY <1>1, <1>4, <1>5 DEF StreamInv, SettledInv, Main
<1>7. Clean => stream.sending = <<>> /\ stream.batch = <<>>
  BY <1>1 DEF StreamInv, SettledInv, Main
<1>8. KeysInv'
  <2> SUFFICES ASSUME Clean'
               PROVE  /\ stream'.cipher.from >= 1
                      /\ stream'.cipher.from + stream'.cipher.next
                           = Len(stream'.wire) + Len(stream'.sending) + 1
    BY DEF KeysInv
  <2>1. Len(stream'.sending) = 0
    BY <1>4, <1>5, <1>7
  <2> QED
    BY <1>3, <1>4, <2>1
<1>9. StreamMatchesCalls'
  <2> SUFFICES ASSUME Clean'
               PROVE  LET sent == stream'.wire \o stream'.sending
                      IN  /\ Uncoded(sent) = Units(stream'.done \o stream'.batch)
                          /\ \A i \in DOMAIN sent : sent[i].key = Expected(i)'
    BY DEF StreamMatchesCalls, Clean, Uncoded, Expected
  <2> DEFINE sent == stream.wire \o stream.sending
  <2>1. /\ Uncoded(sent) = Units(stream.done \o stream.batch)
        /\ \A i \in DOMAIN sent : sent[i].key = Expected(i)
    BY <1>5, MatchesIs DEF StreamInv
  <2>2. sent = stream.wire
    BY <1>3, <1>5, <1>7, ConcatEmptySeq
  <2> HIDE DEF sent
  <2>3. ASSUME NEW i \in DOMAIN sent PROVE Expected(i)' = Expected(i)
    <3>1. i \in 1..Len(stream.wire)
      BY <1>3, <2>2
    <3>2. ~(i >= stream'.cipher.from)
      BY <1>3, <1>4, <3>1
    <3> QED
      BY <1>1, <3>2 DEF Expected
  <2>4. stream'.wire \o stream'.sending = sent
    BY <1>4 DEF sent
  <2> QED
    BY <1>4, <2>1, <2>3, <2>4
<1> QED
  BY <1>2, <1>4, <1>6, <1>8, <1>9 DEF StreamInv

\* mc_client_shutdown_write, and a send refused before anything is sent.
LEMMA IdleStream ==
    ASSUME TypeInv, StreamInv, ShutdownWrite \/ SendRefused
    PROVE  StreamInv'
<1>1. /\ thread' = thread /\ overlapped' = overlapped /\ thread["main"].pc = "idle"
      /\ \/ stream' = stream
         \/ stream' = [stream EXCEPT !.shut = TRUE]
         \/ stream' = [stream EXCEPT !.torn = TRUE]
  BY DEF ShutdownWrite, SendRefused, At
<1>2. AloneInv' /\ overlapped' \in BOOLEAN /\ (overlapped => overlapped')
  <2>1. AloneInv /\ overlapped \in BOOLEAN
    BY DEF StreamInv, StreamType
  <2> QED
    BY <1>1, <2>1 DEF AloneInv, At, Main
<1>3. CASE stream' = stream
  BY <1>1, <1>2, <1>3, StreamLeft
<1>4. CASE stream' = [stream EXCEPT !.shut = TRUE]
  <2>1. /\ StreamType' /\ stream'.torn = stream.torn /\ stream'.cipher = stream.cipher
        /\ stream'.sending = stream.sending /\ stream'.batch = stream.batch
        /\ stream'.wire = stream.wire /\ stream'.done = stream.done
    BY <1>2, <1>4 DEF StreamInv, StreamType
  <2>2. Clean' => Clean
    BY <1>2, <2>1 DEF Clean
  <2>3. KeysInv' /\ StreamMatchesCalls'
    BY <2>1, <2>2, SameStream DEF StreamInv
  <2>4. SettledInv'
    BY <1>1, <2>1, <2>2 DEF StreamInv, SettledInv, Main
  <2> QED
    BY <1>2, <2>1, <2>3, <2>4 DEF StreamInv
<1>5. CASE stream' = [stream EXCEPT !.torn = TRUE]
  <2>1. StreamType' /\ stream'.torn = TRUE
    BY <1>2, <1>5 DEF StreamInv, StreamType
  <2> QED
    BY <1>2, <2>1 DEF StreamInv, SettledInv, KeysInv, StreamMatchesCalls, Clean
<1> QED
  BY <1>1, <1>3, <1>4, <1>5

-----------------------------------------------------------------------------
\* Every step keeps the invariant of the stream.
LEMMA StreamStep == BaseInv /\ SocketsInv /\ StreamInv /\ [Next]_vars => StreamInv'
<1> SUFFICES ASSUME BaseInv, SocketsInv, StreamInv, [Next]_vars PROVE StreamInv'
  OBVIOUS
<1>0. TypeInv /\ "main" \in Thread
  BY DEF BaseInv, Thread
<1>1. CASE Call
  BY <1>0, <1>1, OpenStream, QuietCalls, SendStream, IdleStream, TransformsStream DEF Call
<1>2. CASE \/ StoreSocket \/ AcceptStep \/ BackendInit \/ BackendUnavailable \/ Accepted
           \/ WaitStep \/ ReceiveStep
  BY <1>0, <1>2, MainGoesOn, GoesQuietly
<1>3. CASE SendStep
  BY <1>0, <1>3, HandshakeStream, LoadStream, SomeStream, FailsStream, ReturnsStream
  DEF SendStep
<1>4. CASE OtherDisconnects
  BY <1>0, <1>4, OtherStream
<1>5. ASSUME NEW t \in Thread, DisconnectStep(t) PROVE StreamInv'
  BY <1>0, <1>5, DisconnectStream
<1>6. CASE ForeignOpens \/ ForeignCloses \/ UNCHANGED vars
  <2>1. UNCHANGED <<thread, socket_fd, stream, overlapped>>
    BY <1>6 DEF ForeignOpens, ForeignCloses, vars, client
  <2>2. AloneInv /\ overlapped \in BOOLEAN
    BY DEF StreamInv, StreamType
  <2>3. AloneInv'
    BY <2>1, <2>2 DEF AloneInv, At, Main
  <2> QED
    BY <2>1, <2>2, <2>3, StreamLeft
<1> QED
  BY <1>1, <1>2, <1>3, <1>4, <1>5, <1>6 DEF Next, MainStep

\* Before the first connection nothing has been sent.
LEMMA InitStream == Init => StreamInv
<1> SUFFICES ASSUME Init PROVE StreamInv
  OBVIOUS
<1>1. /\ stream = NoStream /\ overlapped = FALSE /\ socket_fd = 0
      /\ thread["main"] = Idle /\ thread["other"] = Idle
  BY DEF Init, Thread
<1>2. StreamType
  BY <1>1, NoStreamType DEF StreamType
<1>3. AloneInv
  BY <1>1 DEF AloneInv, At, Main, Idle
<1>4. /\ stream.sending = <<>> /\ stream.batch = <<>> /\ stream.cipher = NoCipher
      /\ stream.wire = <<>> /\ stream.done = <<>>
  BY <1>1, NoStreamType
<1>5. /\ <<>> \o <<>> = <<>> /\ Units(<<>>) = <<>> /\ Len(<<>>) = 0
      /\ [i \in DOMAIN <<>> |-> <<>>[i].unit] = <<>>
  BY UnitsEmpty
<1>6. SettledInv
  BY <1>4, <1>5 DEF SettledInv
<1>7. KeysInv
  BY <1>4 DEF KeysInv, Encrypting
<1>8. StreamMatchesCalls
  BY <1>4, <1>5 DEF StreamMatchesCalls
<1> QED
  BY <1>2, <1>3, <1>6, <1>7, <1>8 DEF StreamInv

\* What the peer of a client is sent is what the calls that returned 0 sent,
\* whole and in order, then the part of the call under way, and each unit is
\* under the key the peer expects at its place: for any packets, frames of any
\* size, sends cut anywhere, calls that fail and connections that follow one
\* another, as long as no disconnect has run beside another call.
THEOREM SentAsCalled ==
    Interruptible \subseteq {"POLL"} => (Spec => []StreamMatchesCalls)
<1> SUFFICES ASSUME Interruptible \subseteq {"POLL"} PROVE Spec => []StreamMatchesCalls
  OBVIOUS
<1>1. IInv => BaseInv /\ SocketsInv
  BY DEF IInv, HeldInv
<1>2. IInv /\ StreamInv /\ [Next]_vars => StreamInv'
  BY <1>1, StreamStep
<1>3. StreamInv => StreamMatchesCalls
  BY DEF StreamInv
<1> QED
  BY <1>2, <1>3, InitStream, InvariantHolds, PTL DEF Spec
=============================================================================
